------------------------------- MODULE Handler -------------------------------
(***************************************************************************)
(* A verified request: handler.py's _up, _down and _status, one action per *)
(* call they make to AWS or Tailscale.  Between two calls the nodes, the   *)
(* parameters and the clock may change, a call may fail, and Lambda may    *)
(* end the invocation.                                                     *)
(*                                                                         *)
(* The auth gate in front of the dispatch is not here: a request it turns  *)
(* away touches nothing.  Looking a node up in the tailnet or in           *)
(* CloudWatch degrades to "unknown" and decides nothing, so _describe is   *)
(* the find_nodes call it makes and the node it reports.                   *)
(***************************************************************************)
EXTENDS Cloud

VARIABLE request    \* the request each worker is handling

Ops == {"up", "down", "status"}

\* The step a request is at: the call it makes next.
Steps == {"idle", "read", "describe", "choose", "guard", "repair", "redescribe",
          "prepare", "mint", "launch", "track", "locate", "scan", "terminate",
          "clear", "reply"}

Codes == {200, 400, 500, 503}

Request ==
    [op: Ops, step: Steps,
     region: Regions \cup {None, Malformed}, ttl: Ttls \cup {Never},  \* what the body asks for
     ptr: Pointers,                     \* the pointer as it was read
     now: Nat,                          \* the time the launch is stamped with
     node: Nodes \cup {None},           \* the node found, launched or reported
     todo: SUBSET Nodes,                \* the nodes down has still to terminate
     key: BOOLEAN,                      \* an auth key was minted
     code: Codes]                       \* the status code, at "reply"

Arrived(op, region, ttl) ==
    [op |-> op, step |-> "read", region |-> region, ttl |-> ttl, ptr |-> None, now |-> 0,
     node |-> None, todo |-> {}, key |-> FALSE, code |-> 200]

\* A worker that handles no request.
NoRequest == [Arrived("status", None, Never) EXCEPT !.step = "idle"]

HandlerTypeOK == request \in [Workers -> Request]
HandlerInit == request = [w \in Workers |-> NoRequest]

Handling(w) == request[w].step # "idle"
At(w, op, step) == request[w].op = op /\ request[w].step = step

Goto(w, step) == request' = [request EXCEPT ![w].step = step]
Reply(w, code, n) ==
    request' = [request EXCEPT ![w].step = "reply", ![w].code = code, ![w].node = n]

-----------------------------------------------------------------------------
Receive(w, op, region, ttl) ==
    /\ ~Handling(w)
    /\ request' = [request EXCEPT ![w] = Arrived(op, region, ttl)]
    /\ UNCHANGED cloudVars

\* Mutant: up looks at the tracked node only if it is in the region asked for.
ReadPointerSameRegion(w) ==
    LET elsewhere == /\ request[w].op = "up"
                     /\ pointer # None
                     /\ request[w].region # pointer.region
    IN  /\ request[w].step = "read"
        /\ request' = [request EXCEPT
                ![w].ptr = pointer,
                ![w].step = CASE request[w].op = "down" -> "locate"
                              [] elsewhere -> "choose"
                              [] OTHER -> "describe"]
        /\ UNCHANGED cloudVars

ReadPointer(w) ==
    /\ request[w].step = "read"
    /\ request' = [request EXCEPT
            ![w].ptr = pointer,
            ![w].step = IF request[w].op = "down" THEN "locate" ELSE "describe"]
    /\ UNCHANGED cloudVars

\* Mutant: a pointer that could not be read is taken for no pointer.
PointerUnreadableIsNone(w) ==
    /\ request[w].step = "read"
    /\ request' = [request EXCEPT
            ![w].step = IF request[w].op = "down" THEN "locate" ELSE "describe"]
    /\ UNCHANGED cloudVars

\* PointerUnavailable: SSM refused the read, or the value does not parse, so do
\* nothing.  A read that fails otherwise (no connection) is one of CallFails.
PointerUnreadable(w) ==
    /\ request[w].step = "read"
    /\ Reply(w, 503, None)
    /\ UNCHANGED cloudVars

\* Which of the live nodes of a region _describe reports.
Reported(nodes, id) == IF id \in nodes THEN {id} ELSE nodes

\* _describe of the pointer that was read: up goes on only if nothing is there.
Describe(w) ==
    LET ptr == request[w].ptr
        nodes == IF ptr = None THEN {} ELSE FindNodes(ptr.region)
    IN  /\ request[w].step = "describe"
        /\ \/ nodes = {} /\ request[w].op = "status" /\ Reply(w, 200, None)
           \/ nodes = {} /\ request[w].op = "up" /\ Goto(w, "choose")
           \/ nodes # {} /\ \E n \in Reported(nodes, ptr.instance_id) : Reply(w, 200, n)
        /\ UNCHANGED cloudVars

-----------------------------------------------------------------------------
(* up *)

\* Mutant: the default region is not looked up.
ChooseWithoutDefault(w) ==
    /\ request[w].step = "choose"
    /\ request[w].region # Malformed
    /\ request[w].ttl # Malformed
    /\ request' = [request EXCEPT ![w].now = clock, ![w].step = "guard"]
    /\ UNCHANGED cloudVars

Choose(w) ==
    /\ request[w].step = "choose"
    /\ request[w].region # Malformed
    /\ request[w].ttl # Malformed
    /\ request' = [request EXCEPT
            ![w].region = IF @ = None THEN defaultRegion ELSE @,
            ![w].now = clock,
            ![w].step = "guard"]
    /\ UNCHANGED cloudVars

\* An unknown region or a malformed lifetime: 400.
Reject(w) ==
    /\ request[w].step = "choose"
    /\ request[w].region = Malformed \/ request[w].ttl = Malformed
    /\ Reply(w, 400, None)
    /\ UNCHANGED cloudVars

\* Mutant: the key is minted before the calls that may fail.
MintFirst == [guard |-> "mint", mint |-> "prepare", prepare |-> "launch"]

\* The calls of a launch, in their order: everything that can fail before the
\* auth key is minted.
AfterUpCall == [guard |-> "prepare", prepare |-> "mint", mint |-> "launch"]

\* Mutant: the node found is reported, and the pointer left as it is.
GuardFindsOnly(w, n) ==
    /\ request[w].step = "guard"
    /\ n \in FindNodes(request[w].region)
    /\ request' = [request EXCEPT ![w].node = n, ![w].step = "redescribe"]
    /\ UNCHANGED cloudVars

\* A live node in the region already: take it over instead of launching.
GuardFinds(w, n) ==
    /\ request[w].step = "guard"
    /\ n \in FindNodes(request[w].region)
    /\ request' = [request EXCEPT ![w].node = n, ![w].step = "repair"]
    /\ UNCHANGED cloudVars

GuardPasses(w) ==
    /\ request[w].step = "guard"
    /\ FindNodes(request[w].region) = {}
    /\ Goto(w, AfterUpCall.guard)
    /\ UNCHANGED cloudVars

Repair(w, outcome) ==
    /\ request[w].step = "repair"
    /\ WritePointer([region |-> request[w].region, instance_id |-> request[w].node], outcome)
    /\ IF Answered(outcome) THEN Goto(w, "redescribe") ELSE Reply(w, 500, None)
    /\ UNCHANGED <<fleetVars, defaultRegion, clock>>

\* _describe again, of the repaired pointer.
Redescribe(w) ==
    LET nodes == FindNodes(request[w].region)
    IN  /\ request[w].step = "redescribe"
        /\ \/ nodes = {} /\ Reply(w, 200, None)
           \/ \E n \in Reported(nodes, request[w].node) : Reply(w, 200, n)
        /\ UNCHANGED cloudVars

\* resolve_ami, the instance type, ensure_security_group.
Prepare(w) ==
    /\ request[w].step = "prepare"
    /\ Goto(w, AfterUpCall.prepare)
    /\ UNCHANGED cloudVars

\* mint_auth_key.  The key exists from here on, even if the answer is lost.
Mint(w, outcome) ==
    /\ request[w].step = "mint"
    /\ TookEffect(outcome)
    /\ request' = IF Answered(outcome)
                  THEN [request EXCEPT ![w].key = TRUE, ![w].step = AfterUpCall.mint]
                  ELSE [request EXCEPT ![w].key = TRUE, ![w].step = "reply", ![w].code = 500]
    /\ UNCHANGED cloudVars

Launch(w, n, outcome) ==
    /\ request[w].step = "launch"
    /\ TookEffect(outcome)
    /\ RunInstance(n, request[w].region, request[w].now, Expiry(request[w].ttl, request[w].now))
    /\ request' = IF Answered(outcome)
                  THEN [request EXCEPT ![w].node = n, ![w].step = "track"]
                  ELSE [request EXCEPT ![w].step = "reply", ![w].code = 500]
    /\ UNCHANGED <<pointer, defaultRegion, clock>>

Track(w, outcome) ==
    /\ request[w].step = "track"
    /\ WritePointer([region |-> request[w].region, instance_id |-> request[w].node], outcome)
    /\ IF Answered(outcome) THEN Reply(w, 200, request[w].node) ELSE Reply(w, 500, None)
    /\ UNCHANGED <<fleetVars, defaultRegion, clock>>

-----------------------------------------------------------------------------
(* down *)

\* The region down looks in: the pointer's, or the default one without a pointer.
Locate(w) ==
    /\ request[w].step = "locate"
    /\ request' = [request EXCEPT
            ![w].region = IF request[w].ptr = None THEN defaultRegion ELSE request[w].ptr.region,
            ![w].step = "scan"]
    /\ UNCHANGED cloudVars

\* Mutant: with a pointer, only the node it names is terminated.
ScanTracked(w) ==
    LET ptr == request[w].ptr
        nodes == FindNodes(request[w].region)
    IN  /\ request[w].step = "scan"
        /\ request' = [request EXCEPT
                ![w].todo = IF ptr = None THEN nodes ELSE nodes \cap {ptr.instance_id},
                ![w].step = "terminate"]
        /\ UNCHANGED cloudVars

Scan(w) ==
    /\ request[w].step = "scan"
    /\ request' = [request EXCEPT
            ![w].todo = FindNodes(request[w].region),
            ![w].step = "terminate"]
    /\ UNCHANGED cloudVars

Terminate(w, n, outcome) ==
    /\ request[w].step = "terminate"
    /\ n \in request[w].todo
    /\ TerminateInstance(n, outcome)
    /\ IF Answered(outcome) THEN request' = [request EXCEPT ![w].todo = @ \ {n}]
                            ELSE Reply(w, 500, None)
    /\ UNCHANGED <<pointer, defaultRegion, clock>>

\* Mutant: the pointer may be cleared before the nodes are terminated.
TerminatedAtOnce(w) == request[w].step = "terminate"

Terminated(w) == request[w].step = "terminate" /\ request[w].todo = {}

\* Without a pointer there is nothing to clear.
DownUntracked(w) ==
    /\ Terminated(w)
    /\ request[w].ptr = None
    /\ Reply(w, 200, None)
    /\ UNCHANGED cloudVars

Clear(w, outcome) ==
    /\ Terminated(w)
    /\ request[w].ptr # None
    /\ WritePointer(None, outcome)
    /\ Reply(w, IF Answered(outcome) THEN 200 ELSE 500, None)
    /\ UNCHANGED <<fleetVars, defaultRegion, clock>>

-----------------------------------------------------------------------------
\* The calls that change nothing when they fail; the dispatch replies 500.
CallFails(w) ==
    /\ request[w].step \in {"read", "describe", "choose", "guard", "redescribe", "prepare",
                            "mint", "launch", "locate", "scan"}
    /\ Reply(w, 500, None)
    /\ UNCHANGED cloudVars

\* The invocation is over: it has replied, or Lambda ended it before it could
\* (a timeout, the memory limit).
Return(w) ==
    /\ request[w].step = "reply"
    /\ request' = [request EXCEPT ![w] = NoRequest]
    /\ UNCHANGED cloudVars

Crash(w) ==
    /\ Handling(w)
    /\ request[w].step # "reply"
    /\ request' = [request EXCEPT ![w] = NoRequest]
    /\ UNCHANGED cloudVars

RequestStep(w) ==
    \/ ReadPointer(w) \/ PointerUnreadable(w) \/ Describe(w)
    \/ Choose(w) \/ Reject(w) \/ GuardPasses(w) \/ Prepare(w) \/ Redescribe(w)
    \/ \E n \in Nodes : GuardFinds(w, n)
    \/ \E outcome \in Outcomes : \/ Repair(w, outcome)
                                 \/ Mint(w, outcome)
                                 \/ Track(w, outcome)
                                 \/ Clear(w, outcome)
    \/ \E n \in Nodes, outcome \in Outcomes : \/ Launch(w, n, outcome)
                                              \/ Terminate(w, n, outcome)
    \/ Locate(w) \/ Scan(w) \/ DownUntracked(w)
    \/ CallFails(w) \/ Return(w) \/ Crash(w)
=============================================================================
