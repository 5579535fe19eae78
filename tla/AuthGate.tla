------------------------------ MODULE AuthGate ------------------------------
(***************************************************************************)
(* The gate in front of the dispatch: fetch the signing secret, from the   *)
(* cache of the process or from SSM, and verify the request against it.    *)
(* A secret is known by the number of times one was put before it; 0 is    *)
(* the placeholder Terraform leaves there.  A signature is the secret it   *)
(* was made with.  Actions follow handler.py:42-107, auth.verify and       *)
(* settings.cached_secret.                                                 *)
(***************************************************************************)
EXTENDS Integers

CONSTANTS
    Processes,      \* the processes Lambda keeps around, one running at a time
    SecretTtl,      \* SECRET_TTL_SECONDS, in ticks of the clock
    MaxSkew,        \* MAX_SKEW_SECONDS, in ticks
    MaxSecret,      \* bound on the secrets put
    MaxTime,        \* bound on the clock
    None            \* no time, no process, nothing cached

ASSUME GateAssumption == /\ SecretTtl \in Nat \ {0}
                         /\ MaxSkew \in Nat
                         /\ MaxSecret \in Nat
                         /\ MaxTime \in Nat
                         /\ None \notin Nat
                         /\ None \notin [at: Nat, value: 0 .. MaxSecret]

VARIABLES
    time,       \* the clock of the function
    secret,     \* the secret in SSM
    put,        \* when each secret was put there
    cache,      \* what each process remembers: a secret, and when it asked for it
    call        \* the invocation that is running

gateVars == <<time, secret, put, cache, call>>

Secrets == 0 .. MaxSecret
Steps == {"none", "fetch", "check", "verify", "dispatch", "reply"}
NoCall == [step |-> "none", by |-> None, message |-> None, at |-> 0, value |-> 0, code |-> 0]

GateTypeOK(Messages) ==
    /\ time \in Nat
    /\ secret \in Secrets
    /\ put \in [Secrets -> Nat \cup {None}]
    /\ cache \in [Processes -> [at: Nat, value: Secrets] \cup {None}]
    /\ call \in [step: Steps, by: Processes \cup {None}, message: Messages \cup {None},
                 at: Nat, value: Secrets, code: {0, 200, 400, 403, 500, 503}]

GateInit ==
    /\ time = 0
    /\ secret = 0
    /\ put = [s \in Secrets |-> IF s = 0 THEN 0 ELSE None]
    /\ cache = [p \in Processes |-> None]
    /\ call = NoCall

Busy == call.step # "none"
Goto(step) == call' = [call EXCEPT !.step = step]
Reply(code) == call' = [call EXCEPT !.step = "reply", !.code = code]

-----------------------------------------------------------------------------
\* Mutant: a cached secret is good for a tick too long.
CachedTooLong(p) == cache[p] # None /\ time - cache[p].at <= SecretTtl

\* A process still has a secret.
Cached(p) == cache[p] # None /\ time - cache[p].at < SecretTtl

\* A request arrives; cached_secret looks whether its process still has a secret.
Invoke(p, message) ==
    /\ ~Busy
    /\ call' = [NoCall EXCEPT !.by = p, !.message = message, !.at = time,
                              !.step = IF Cached(p) THEN "check" ELSE "fetch",
                              !.value = IF Cached(p) THEN cache[p].value ELSE 0]
    /\ UNCHANGED <<time, secret, put, cache>>

\* SSM answers.  The secret is remembered as of the moment it was asked for.
Fetch ==
    /\ call.step = "fetch"
    /\ call' = [call EXCEPT !.value = secret, !.step = "check"]
    /\ cache' = [cache EXCEPT ![call.by] = [at |-> call.at, value |-> secret]]
    /\ UNCHANGED <<time, secret, put>>

FetchFails ==
    /\ call.step = "fetch"
    /\ Reply(503)
    /\ UNCHANGED <<time, secret, put, cache>>

\* The placeholder verifies nothing.
Check ==
    /\ call.step = "check"
    /\ IF call.value = 0 THEN Reply(503) ELSE Goto("verify")
    /\ UNCHANGED <<time, secret, put, cache>>

Fresh(timestamp) == timestamp - time \in -MaxSkew .. MaxSkew

Verify ==
    /\ call.step = "verify"
    /\ IF Fresh(call.message.timestamp) /\ call.message.key = call.value
       THEN Goto("dispatch")
       ELSE Reply(403)
    /\ UNCHANGED <<time, secret, put, cache>>

\* The dispatch, which is the module Handler, replies with some code.
Dispatch(code) ==
    /\ call.step = "dispatch"
    /\ Reply(code)
    /\ UNCHANGED <<time, secret, put, cache>>

\* Lambda ends the invocation, with a reply of its own.
Abort ==
    /\ call.step \in {"fetch", "dispatch"}
    /\ Reply(500)
    /\ UNCHANGED <<time, secret, put, cache>>

Return ==
    /\ call.step = "reply"
    /\ call' = NoCall
    /\ UNCHANGED <<time, secret, put, cache>>

-----------------------------------------------------------------------------
\* A process is thrown away, and with it what it remembers.
Recycle(p) ==
    /\ cache[p] # None
    /\ Busy => call.by # p
    /\ cache' = [cache EXCEPT ![p] = None]
    /\ UNCHANGED <<time, secret, put, call>>

\* The owner puts another secret.
PutSecret ==
    /\ secret < MaxSecret
    /\ secret' = secret + 1
    /\ put' = [put EXCEPT ![secret + 1] = time]
    /\ UNCHANGED <<time, cache, call>>

Tick ==
    /\ time < MaxTime
    /\ time' = time + 1
    /\ UNCHANGED <<secret, put, cache, call>>

GateStep ==
    \/ Fetch \/ FetchFails \/ Check \/ Verify \/ Abort
    \/ \E code \in {200, 400, 500, 503} : Dispatch(code)

-----------------------------------------------------------------------------
Accepts == call.step = "verify" /\ call'.step = "dispatch"
Refuses == call.step = "verify" /\ call'.code = 403

\* A secret that was replaced is good for no request that arrives SecretTtl or more
\* after the replacement, whichever process handles it and however often it is used.
RotatedSecretDies ==
    [][Accepts /\ call.value < secret => call.at - put[call.value + 1] < SecretTtl]_gateVars
=============================================================================
