------------------------------- MODULE Phone -------------------------------
(***************************************************************************)
(* The phone's side, send of docs/ios/shardvpn.js: sign, send, and try     *)
(* again when the function is busy, broken or not heard of.  Its requests  *)
(* travel on their own: they may be lost, be slow, and arrive after the    *)
(* phone has given up on them; so may the answers.                         *)
(***************************************************************************)
EXTENDS AuthGate

CONSTANTS
    MaxAttempts,    \* MAX_ATTEMPTS
    MaxTaps,        \* bound on the taps
    Drift           \* how far the phone's clock is ahead

ASSUME PhoneAssumption == /\ MaxAttempts \in Nat \ {0}
                          /\ MaxTaps \in Nat
                          /\ Drift \in Nat

VARIABLES
    phone,      \* the tap in hand: its number, the attempt, the step, the key kept
    network     \* the requests under way

vars == <<gateVars, phone, network>>

Messages == [tap: 1 .. MaxTaps, attempt: 1 .. MaxAttempts, key: Secrets,
             timestamp: Nat, sent: Nat]

TypeOK ==
    /\ GateTypeOK(Messages)
    /\ phone \in [tap: 0 .. MaxTaps, attempt: 1 .. MaxAttempts, key: Secrets, tapped: Nat,
                  step: {"idle", "send", "wait"}]
    /\ network \subseteq Messages

Init ==
    /\ GateInit
    /\ phone = [tap |-> 0, attempt |-> 1, key |-> 0, tapped |-> 0, step |-> "idle"]
    /\ network = {}

\* The owner types the secret into the phone.
EnterSecret ==
    /\ phone.step = "idle"
    /\ phone' = [phone EXCEPT !.key = secret]
    /\ UNCHANGED <<gateVars, network>>

Tap ==
    /\ phone.step = "idle"
    /\ phone.tap < MaxTaps
    /\ phone' = [phone EXCEPT !.tap = @ + 1, !.attempt = 1, !.tapped = time, !.step = "send"]
    /\ UNCHANGED <<gateVars, network>>

Signed(at) ==
    [tap |-> phone.tap, attempt |-> phone.attempt, key |-> phone.key,
     timestamp |-> at + Drift, sent |-> time]

\* Mutant: the request is signed once, before the loop.
SendSignedOnce ==
    /\ phone.step = "send"
    /\ network' = network \cup {Signed(phone.tapped)}
    /\ phone' = [phone EXCEPT !.step = "wait"]
    /\ UNCHANGED gateVars

\* Each attempt is signed anew.
Send ==
    /\ phone.step = "send"
    /\ network' = network \cup {Signed(time)}
    /\ phone' = [phone EXCEPT !.step = "wait"]
    /\ UNCHANGED gateVars

Awaits(message) ==
    phone.step = "wait" /\ phone.tap = message.tap /\ phone.attempt = message.attempt

\* Mutant: a busy function does not count as an attempt.
TryAgainIfBusy(busy) ==
    phone' = IF busy \/ phone.attempt < MaxAttempts
             THEN [phone EXCEPT !.attempt = IF busy THEN @ ELSE @ + 1, !.step = "send"]
             ELSE [phone EXCEPT !.step = "idle"]

\* Mutant: one attempt too many.
TryAgainOffByOne(busy) ==
    phone' = IF phone.attempt <= MaxAttempts
             THEN [phone EXCEPT !.attempt = @ + 1, !.step = "send"]
             ELSE [phone EXCEPT !.step = "idle"]

\* Wait, and send again; the last attempt shows the error.
TryAgain(busy) ==
    phone' = IF phone.attempt < MaxAttempts
             THEN [phone EXCEPT !.attempt = @ + 1, !.step = "send"]
             ELSE [phone EXCEPT !.step = "idle"]

-----------------------------------------------------------------------------
Arrives(message, p) ==
    /\ message \in network
    /\ network' = network \ {message}
    /\ Invoke(p, message)
    /\ UNCHANGED phone

\* 429: the function handles another request, or sweeps.
Throttled(message) ==
    /\ message \in network
    /\ network' = network \ {message}
    /\ IF Awaits(message) THEN TryAgain(TRUE) ELSE UNCHANGED phone
    /\ UNCHANGED gateVars

\* The answer reaches the phone, if that still waits for it: 200 and 4xx end the
\* tap, 5xx is tried again.
Answered ==
    /\ Return
    /\ CASE ~Awaits(call.message) -> UNCHANGED phone
         [] Awaits(call.message) /\ call.code < 500 -> phone' = [phone EXCEPT !.step = "idle"]
         [] Awaits(call.message) /\ call.code >= 500 -> TryAgain(FALSE)
    /\ UNCHANGED network

\* No connection, or no answer in time: the request or its answer is lost, or slow.
Unanswered ==
    /\ phone.step = "wait"
    /\ TryAgain(FALSE)
    /\ UNCHANGED <<gateVars, network>>

Lost(message) ==
    /\ message \in network
    /\ network' = network \ {message}
    /\ UNCHANGED <<gateVars, phone>>

AnswerLost == Return /\ UNCHANGED <<phone, network>>

Environment ==
    /\ Tick \/ PutSecret \/ \E p \in Processes : Recycle(p)
    /\ UNCHANGED <<phone, network>>

Next ==
    \/ EnterSecret \/ Tap \/ Send \/ Answered \/ Unanswered \/ AnswerLost
    \/ \E message \in network : \/ \E p \in Processes : Arrives(message, p)
                                \/ Throttled(message)
                                \/ Lost(message)
    \/ GateStep /\ UNCHANGED <<phone, network>>
    \/ Environment

\* The script runs on, and a request that is not answered times out.
Spec == Init /\ [][Next]_vars /\ WF_vars(Send) /\ WF_vars(Unanswered)

-----------------------------------------------------------------------------
\* A phone with the secret that has been the current one for SecretTtl, heard
\* within MaxSkew of sending by a clock not far from its own, is never refused,
\* whichever attempt is heard.
PhoneIsNotRefused ==
    [][Refuses =>
         LET message == call.message
         IN  ~ /\ message.key = secret
               /\ secret # 0
               /\ put[secret] <= call.at - SecretTtl
               /\ Fresh(message.sent + Drift)]_vars

\* A tap ends: it shows an answer or an error.
TapIsAnswered == phone.step # "idle" ~> phone.step = "idle"
=============================================================================
