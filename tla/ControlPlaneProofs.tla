------------------------- MODULE ControlPlaneProofs -------------------------
(***************************************************************************)
(* Proofs about ControlPlane for every set of regions, nodes and workers,  *)
(* every set of lifetimes and every bound on the clock.                    *)
(***************************************************************************)
EXTENDS ControlPlane, FiniteSetTheorems, TLAPS

-----------------------------------------------------------------------------
(* The inductive invariant.                                                 *)

\* At most one invocation is under way.
OneInvocation ==
    \A v, w \in Workers : /\ Handling(v) /\ Handling(w) => v = w
                          /\ Sweeping(v) /\ Sweeping(w) => v = w
                          /\ ~(Handling(v) /\ Sweeping(w))

\* A node that was launched has a region, and the pointer has the right one.
HomesKnown ==
    /\ \A n \in Nodes : status[n] # "unused" => home[n] \in Regions
    /\ pointer # None => /\ status[pointer.instance_id] # "unused"
                         /\ home[pointer.instance_id] = pointer.region

\* What a request holds when it is at a step.
RequestShape ==
    \A w \in Workers :
        LET q == request[w]
        IN  /\ q.op = "down" => q.step \in {"read", "locate", "scan", "terminate", "reply"}
            /\ q.step \in {"locate", "scan", "terminate"} => q.op = "down"
            /\ q.step \in {"guard", "repair", "redescribe", "prepare", "mint", "launch",
                           "track", "scan", "terminate"} => q.region \in Regions
            /\ q.step \in {"guard", "prepare", "mint", "launch"} => q.ttl # Malformed
            /\ q.step \in {"repair", "redescribe", "track"} => /\ q.node \in Nodes
                                                               /\ status[q.node] # "unused"
                                                               /\ home[q.node] = q.region
            /\ \A n \in q.todo : status[n] # "unused"
            /\ q.key => q.step \in {"launch", "track", "reply"}

\* What a sweep holds when it is at a step.
SweepShape ==
    \A w \in Workers :
        /\ sweep[w].step \in {"dedup", "check", "stamp"} => sweep[w].candidate \in Nodes
        /\ sweep[w].candidate # None => sweep[w].candidate \in sweep[w].seen
        /\ sweep[w].todo \subseteq sweep[w].seen
        /\ \A n \in sweep[w].seen : status[n] # "unused"

TypeInv == TypeOK /\ HomesKnown /\ RequestShape /\ SweepShape

\* No two nodes run in one region.
Apart == \A m, n \in Live : home[m] = home[n] => m = n

\* From the guard to the launch, the region is empty; from the description to
\* the launch, so is the region of the pointer, and until the pointer is
\* written the node it names is not running.
LaunchGuarded ==
    \A w \in Workers :
        LET q == request[w]
        IN  /\ q.step \in {"prepare", "mint", "launch"} => FindNodes(q.region) = {}
            /\ q.step \in {"choose", "guard", "prepare", "mint", "launch"} /\ pointer # None
               => FindNodes(pointer.region) = {}
            /\ q.step \in {"choose", "guard", "prepare", "mint", "launch", "repair", "track"}
                  /\ pointer # None
               => status[pointer.instance_id] # "live"

\* down works on the pointer it has read, in the pointer's region, and has still
\* to terminate every node that runs there.
DownCovers ==
    \A w \in Workers :
        LET q == request[w]
        IN  /\ q.step \in {"describe", "locate", "scan", "terminate"} => q.ptr = pointer
            /\ q.step \in {"scan", "terminate"} /\ pointer # None => q.region = pointer.region
            /\ q.step = "terminate" => FindNodes(q.region) \subseteq q.todo
            /\ q.op = "down" /\ q.step = "reply" /\ q.code = 200 => FindNodes(q.region) = {}

\* The node a reply names, or is about to name, is in the pointer's region.
ReplyTracked ==
    \A w \in Workers :
        LET q == request[w]
        IN  /\ q.step = "redescribe" => pointer # None /\ pointer.region = q.region
            /\ q.step = "reply" /\ q.code = 200 /\ q.node # None
               => pointer # None /\ pointer.region = home[q.node]

IInv == TypeInv /\ OneInvocation /\ Apart /\ LaunchGuarded /\ DownCovers /\ ReplyTracked

-----------------------------------------------------------------------------
(* Requests, the steps that only read.                                      *)

\* A step of a request that leaves the rest alone: what it has to keep.
LEMMA RequestOnly ==
  ASSUME IInv, UNCHANGED <<cloudVars, sweep>>,
         HandlerTypeOK', RequestShape', OneInvocation',
         LaunchGuarded', DownCovers', ReplyTracked'
  PROVE  IInv'
BY DEF IInv, TypeInv, TypeOK, CloudTypeOK, WatchdogTypeOK, HomesKnown, SweepShape, Apart,
       Live, cloudVars, fleetVars

\* find_nodes returns instance ids.
LEMMA FindNodesType ==
  ASSUME NEW region
  PROVE  FindNodes(region) \subseteq Nodes
BY DEF FindNodes, Live

\* What Goto and Reply do to the record of a request.
LEMMA GotoType ==
  ASSUME HandlerTypeOK, NEW w \in Workers, NEW step \in Steps, Goto(w, step)
  PROVE  HandlerTypeOK'
BY DEF HandlerTypeOK, Request, Goto

\* A reply is a record of a request too, whatever status code it carries.
LEMMA ReplyType ==
  ASSUME HandlerTypeOK, NEW w \in Workers, NEW code \in Codes, NEW n \in Nodes \cup {None},
         Reply(w, code, n)
  PROVE  HandlerTypeOK'
<1>1. "reply" \in Steps
  BY DEF Steps
<1>2. request' = [request EXCEPT ![w] = [request[w] EXCEPT !.step = "reply",
                                                           !.code = code, !.node = n]]
  BY DEF Reply, HandlerTypeOK, Request
<1>3. [request[w] EXCEPT !.step = "reply", !.code = code, !.node = n] \in Request
  BY <1>1 DEF HandlerTypeOK, Request
<1> QED
  BY <1>2, <1>3 DEF HandlerTypeOK

\* A reply keeps the invariant if it only names a node in the pointer's region,
\* and says 200 to down only when the region is empty.
LEMMA ReplyKeeps ==
  ASSUME IInv, UNCHANGED <<cloudVars, sweep>>,
         NEW w \in Workers, NEW code \in Codes, NEW n \in Nodes \cup {None},
         Reply(w, code, n), Handling(w),
         code = 200 /\ n # None => pointer # None /\ pointer.region = home[n],
         code = 200 /\ request[w].op = "down" => FindNodes(request[w].region) = {}
  PROVE  IInv'
<1> USE DEF IInv, TypeInv, TypeOK
<1>1. HandlerTypeOK'
  BY ReplyType
<1> USE DEF HandlerTypeOK, Request, Reply, Handling
<1>2. RequestShape'
  BY DEF RequestShape, cloudVars, fleetVars
<1>3. OneInvocation'
  BY DEF OneInvocation, Sweeping
<1>4. LaunchGuarded'
  BY DEF LaunchGuarded, FindNodes, Live, cloudVars, fleetVars
<1>5. DownCovers'
  BY DEF DownCovers, FindNodes, Live, cloudVars, fleetVars
<1>6. ReplyTracked'
  BY DEF ReplyTracked, cloudVars, fleetVars
<1> QED
  BY <1>1, <1>2, <1>3, <1>4, <1>5, <1>6, RequestOnly

\* The end of a request, by Return or by Crash.
LEMMA EndKeeps ==
  ASSUME IInv, UNCHANGED <<cloudVars, sweep>>, NEW w \in Workers,
         request' = [request EXCEPT ![w] = NoRequest]
  PROVE  IInv'
<1> USE DEF IInv, TypeInv, TypeOK
<1>1. /\ NoRequest \in Request
      /\ NoRequest.step = "idle" /\ NoRequest.op = "status"
      /\ NoRequest.todo = {} /\ ~NoRequest.key
  BY DEF NoRequest, Arrived, Request, Ops, Steps, Codes, Pointers
<1>2. HandlerTypeOK'
  BY <1>1 DEF HandlerTypeOK
<1> USE DEF HandlerTypeOK
<1>3. RequestShape'
  BY <1>1 DEF RequestShape, cloudVars, fleetVars
<1>4. OneInvocation'
  BY <1>1 DEF OneInvocation, Handling, Sweeping
<1>5. LaunchGuarded'
  BY <1>1 DEF LaunchGuarded, FindNodes, Live, cloudVars, fleetVars
<1>6. DownCovers'
  BY <1>1 DEF DownCovers, FindNodes, Live, cloudVars, fleetVars
<1>7. ReplyTracked'
  BY <1>1 DEF ReplyTracked, cloudVars, fleetVars
<1> QED
  BY <1>2, <1>3, <1>4, <1>5, <1>6, <1>7, RequestOnly

\* A request arrives: it has read, found and promised nothing yet.
LEMMA ReceiveStep ==
  ASSUME IInv, NEW w \in Workers, RequestArrives(w)
  PROVE  IInv'
<1>1. PICK op \in Ops, region \in Regions \cup {None, Malformed}, ttl \in Ttls \cup {Never} :
        Receive(w, op, region, ttl)
  BY DEF RequestArrives, Ops
<1>2. UNCHANGED <<cloudVars, sweep>>
  BY <1>1 DEF RequestArrives, Receive
<1> DEFINE q == Arrived(op, region, ttl)
<1>3. q \in Request /\ q.step = "read" /\ q.todo = {} /\ ~q.key
  BY DEF Arrived, Request, Steps, Codes, Pointers
<1>4. request' = [request EXCEPT ![w] = q]
  BY <1>1 DEF Receive
<1> HIDE DEF q
<1> USE DEF IInv, TypeInv, TypeOK, HandlerTypeOK
<1>5. HandlerTypeOK'
  BY <1>3, <1>4
<1>6. RequestShape'
  BY <1>2, <1>3, <1>4 DEF RequestShape, cloudVars, fleetVars
<1>7. OneInvocation'
  BY <1>2, <1>3, <1>4 DEF OneInvocation, Handling, Sweeping, RequestArrives, Admit
<1>8. LaunchGuarded'
  BY <1>2, <1>3, <1>4 DEF LaunchGuarded, FindNodes, Live, cloudVars, fleetVars
<1>9. DownCovers'
  BY <1>2, <1>3, <1>4 DEF DownCovers, FindNodes, Live, cloudVars, fleetVars
<1>10. ReplyTracked'
  BY <1>2, <1>3, <1>4 DEF ReplyTracked, cloudVars, fleetVars
<1> QED
  BY <1>2, <1>5, <1>6, <1>7, <1>8, <1>9, <1>10, RequestOnly

\* The pointer is read: down goes on to the region it will look in, up and
\* status to the node they report.
LEMMA ReadPointerStep ==
  ASSUME IInv, NEW w \in Workers, ReadPointer(w), UNCHANGED sweep
  PROVE  IInv'
<1> USE DEF IInv, TypeInv, TypeOK, HandlerTypeOK, Request
<1>1. HandlerTypeOK'
  BY DEF ReadPointer, Steps, CloudTypeOK
<1>2. RequestShape'
  BY RegionsAssumption, NodesAssumption DEF ReadPointer, RequestShape, CloudTypeOK,
       cloudVars, fleetVars
<1>3. OneInvocation'
  BY DEF ReadPointer, OneInvocation, Handling, Sweeping
<1>4. LaunchGuarded'
  BY DEF ReadPointer, LaunchGuarded, FindNodes, Live, cloudVars, fleetVars
<1>5. DownCovers'
  BY DEF ReadPointer, DownCovers, RequestShape, FindNodes, Live, cloudVars, fleetVars
<1>6. ReplyTracked'
  BY DEF ReadPointer, ReplyTracked, cloudVars, fleetVars
<1> QED
  BY <1>1, <1>2, <1>3, <1>4, <1>5, <1>6, RequestOnly DEF ReadPointer

\* The region and the lifetime of a launch are settled before the guard.
LEMMA ChooseStep ==
  ASSUME IInv, NEW w \in Workers, Choose(w), UNCHANGED sweep
  PROVE  IInv'
<1> USE DEF IInv, TypeInv, TypeOK, HandlerTypeOK, Request
<1>1. HandlerTypeOK'
  BY DEF Choose, Steps, CloudTypeOK
<1>2. RequestShape'
  BY RegionsAssumption, NodesAssumption DEF Choose, CloudTypeOK, RequestShape, cloudVars,
       fleetVars
<1>3. OneInvocation'
  BY DEF Choose, OneInvocation, Handling, Sweeping
<1>4. LaunchGuarded'
  BY DEF Choose, CloudTypeOK, LaunchGuarded, FindNodes, Live, cloudVars, fleetVars
<1>5. DownCovers'
  BY DEF Choose, CloudTypeOK, DownCovers, RequestShape, FindNodes, Live, cloudVars, fleetVars
<1>6. ReplyTracked'
  BY DEF Choose, CloudTypeOK, ReplyTracked, cloudVars, fleetVars
<1> QED
  BY <1>1, <1>2, <1>3, <1>4, <1>5, <1>6, RequestOnly DEF Choose

\* The guard finds a node: it lives in the region asked for, and the pointer is
\* repaired next.
LEMMA GuardFindsStep ==
  ASSUME IInv, NEW w \in Workers, NEW n \in Nodes, GuardFinds(w, n), UNCHANGED sweep
  PROVE  IInv'
<1> USE DEF IInv, TypeInv, TypeOK, HandlerTypeOK, Request
<1>1. HandlerTypeOK'
  BY DEF GuardFinds, Steps
<1>2. RequestShape'
  BY RegionsAssumption, NodesAssumption DEF GuardFinds, FindNodes, Live, RequestShape,
       CloudTypeOK, cloudVars, fleetVars
<1>3. OneInvocation'
  BY DEF GuardFinds, OneInvocation, Handling, Sweeping
<1>4. LaunchGuarded'
  BY DEF GuardFinds, FindNodes, Live, LaunchGuarded, cloudVars, fleetVars
<1>5. DownCovers'
  BY DEF GuardFinds, FindNodes, Live, DownCovers, RequestShape, cloudVars, fleetVars
<1>6. ReplyTracked'
  BY DEF GuardFinds, FindNodes, Live, ReplyTracked, cloudVars, fleetVars
<1> QED
  BY <1>1, <1>2, <1>3, <1>4, <1>5, <1>6, RequestOnly DEF GuardFinds

\* The guard finds nothing: from here to the launch the region stays empty.
LEMMA GuardPassesStep ==
  ASSUME IInv, NEW w \in Workers, GuardPasses(w), UNCHANGED sweep
  PROVE  IInv'
<1> USE DEF IInv, TypeInv, TypeOK, HandlerTypeOK, Request
<1>1. HandlerTypeOK'
  BY GotoType DEF GuardPasses, AfterUpCall, Steps
<1>2. RequestShape'
  BY RegionsAssumption, NodesAssumption DEF GuardPasses, Goto, AfterUpCall, RequestShape,
       CloudTypeOK, cloudVars, fleetVars
<1>3. OneInvocation'
  BY DEF GuardPasses, Goto, AfterUpCall, OneInvocation, Handling, Sweeping
<1>4. LaunchGuarded'
  BY DEF GuardPasses, Goto, AfterUpCall, LaunchGuarded, FindNodes, Live, cloudVars, fleetVars
<1>5. DownCovers'
  BY DEF GuardPasses, Goto, AfterUpCall, DownCovers, RequestShape, FindNodes, Live,
       cloudVars, fleetVars
<1>6. ReplyTracked'
  BY DEF GuardPasses, Goto, AfterUpCall, ReplyTracked, cloudVars, fleetVars
<1> QED
  BY <1>1, <1>2, <1>3, <1>4, <1>5, <1>6, RequestOnly DEF GuardPasses

\* The calls before the mint leave the region empty.
LEMMA PrepareStep ==
  ASSUME IInv, NEW w \in Workers, Prepare(w), UNCHANGED sweep
  PROVE  IInv'
<1> USE DEF IInv, TypeInv, TypeOK, HandlerTypeOK, Request
<1>1. HandlerTypeOK'
  BY GotoType DEF Prepare, AfterUpCall, Steps
<1>2. RequestShape'
  BY RegionsAssumption, NodesAssumption DEF Prepare, Goto, AfterUpCall, RequestShape,
       CloudTypeOK, cloudVars, fleetVars
<1>3. OneInvocation'
  BY DEF Prepare, Goto, AfterUpCall, OneInvocation, Handling, Sweeping
<1>4. LaunchGuarded'
  BY DEF Prepare, Goto, AfterUpCall, LaunchGuarded, FindNodes, Live, cloudVars, fleetVars
<1>5. DownCovers'
  BY DEF Prepare, Goto, AfterUpCall, DownCovers, RequestShape, FindNodes, Live, cloudVars,
       fleetVars
<1>6. ReplyTracked'
  BY DEF Prepare, Goto, AfterUpCall, ReplyTracked, cloudVars, fleetVars
<1> QED
  BY <1>1, <1>2, <1>3, <1>4, <1>5, <1>6, RequestOnly DEF Prepare

\* The mint leaves the region empty; a mint that is lost replies 500.
LEMMA MintStep ==
  ASSUME IInv, NEW w \in Workers, NEW outcome \in Outcomes, Mint(w, outcome), UNCHANGED sweep
  PROVE  IInv'
<1> USE DEF IInv, TypeInv, TypeOK, HandlerTypeOK, Request
<1>1. HandlerTypeOK'
  BY DEF Mint, AfterUpCall, Steps, Codes
<1>2. RequestShape'
  BY RegionsAssumption, NodesAssumption DEF Mint, AfterUpCall, RequestShape, CloudTypeOK,
       cloudVars, fleetVars
<1>3. OneInvocation'
  BY DEF Mint, AfterUpCall, OneInvocation, Handling, Sweeping
<1>4. LaunchGuarded'
  BY DEF Mint, AfterUpCall, LaunchGuarded, FindNodes, Live, cloudVars, fleetVars
<1>5. DownCovers'
  BY DEF Mint, AfterUpCall, DownCovers, RequestShape, FindNodes, Live, cloudVars, fleetVars
<1>6. ReplyTracked'
  BY DEF Mint, AfterUpCall, ReplyTracked, cloudVars, fleetVars
<1> QED
  BY <1>1, <1>2, <1>3, <1>4, <1>5, <1>6, RequestOnly DEF Mint

\* down has a region to look in, the pointer's or the default one.
LEMMA LocateStep ==
  ASSUME IInv, NEW w \in Workers, Locate(w), UNCHANGED sweep
  PROVE  IInv'
<1> USE DEF IInv, TypeInv, TypeOK, HandlerTypeOK, Request
<1>1. HandlerTypeOK'
  BY DEF Locate, Steps, CloudTypeOK, Pointers
<1>2. RequestShape'
  BY RegionsAssumption, NodesAssumption DEF Locate, CloudTypeOK, Pointers, RequestShape,
       cloudVars, fleetVars
<1>3. OneInvocation'
  BY DEF Locate, OneInvocation, Handling, Sweeping
<1>4. LaunchGuarded'
  BY DEF Locate, CloudTypeOK, Pointers, LaunchGuarded, FindNodes, Live, cloudVars, fleetVars
<1>5. DownCovers'
  BY DEF Locate, CloudTypeOK, Pointers, DownCovers, RequestShape, FindNodes, Live, cloudVars,
       fleetVars
<1>6. ReplyTracked'
  BY DEF Locate, CloudTypeOK, Pointers, ReplyTracked, cloudVars, fleetVars
<1> QED
  BY <1>1, <1>2, <1>3, <1>4, <1>5, <1>6, RequestOnly DEF Locate

\* Every node that runs in the region down looks in is on its list.
LEMMA ScanStep ==
  ASSUME IInv, NEW w \in Workers, Scan(w), UNCHANGED sweep
  PROVE  IInv'
<1> USE DEF IInv, TypeInv, TypeOK, HandlerTypeOK, Request
<1>1. HandlerTypeOK'
  BY FindNodesType DEF Scan, Steps
<1>2. RequestShape'
  BY RegionsAssumption, NodesAssumption DEF Scan, FindNodes, Live, RequestShape, CloudTypeOK,
       cloudVars, fleetVars
<1>3. OneInvocation'
  BY DEF Scan, OneInvocation, Handling, Sweeping
<1>4. LaunchGuarded'
  BY DEF Scan, FindNodes, Live, LaunchGuarded, cloudVars, fleetVars
<1>5. DownCovers'
  BY DEF Scan, FindNodes, Live, DownCovers, RequestShape, cloudVars, fleetVars
<1>6. ReplyTracked'
  BY DEF Scan, FindNodes, Live, ReplyTracked, cloudVars, fleetVars
<1> QED
  BY <1>1, <1>2, <1>3, <1>4, <1>5, <1>6, RequestOnly DEF Scan

\* _describe reports a node of the pointer's region, or nothing.
LEMMA DescribeStep ==
  ASSUME IInv, NEW w \in Workers, Describe(w), UNCHANGED sweep
  PROVE  IInv'
<1> DEFINE ptr == request[w].ptr
           nodes == IF ptr = None THEN {} ELSE FindNodes(ptr.region)
<1>1. Handling(w) /\ request[w].op # "down" /\ ptr = pointer /\ UNCHANGED cloudVars
  BY DEF Describe, Handling, IInv, TypeInv, RequestShape, DownCovers
<1>2. CASE Reply(w, 200, None)
  BY <1>1, <1>2, ReplyKeeps DEF Codes
<1>3. CASE \E n \in Reported(nodes, ptr.instance_id) : nodes # {} /\ Reply(w, 200, n)
  <2>1. PICK n \in Reported(nodes, ptr.instance_id) : nodes # {} /\ Reply(w, 200, n)
    BY <1>3
  <2>2. n \in nodes /\ ptr # None
    BY <2>1 DEF Reported
  <2>3. n \in Nodes /\ pointer # None /\ pointer.region = home[n]
    BY <1>1, <2>2 DEF FindNodes, Live
  <2> QED
    BY <1>1, <2>1, <2>3, ReplyKeeps DEF Codes
<1>4. CASE nodes = {} /\ request[w].op = "up" /\ Goto(w, "choose")
  <2> USE DEF IInv, TypeInv, TypeOK, HandlerTypeOK, Request
  <2>1. HandlerTypeOK'
    BY <1>4, GotoType DEF Steps
  <2>2. RequestShape'
    BY <1>1, <1>4 DEF Describe, Goto, RequestShape, cloudVars, fleetVars
  <2>3. OneInvocation'
    BY <1>1, <1>4 DEF Goto, OneInvocation, Handling, Sweeping
  <2>4. pointer # None => /\ FindNodes(pointer.region) = {}
                          /\ status[pointer.instance_id] # "live"
    BY <1>1, <1>4 DEF HomesKnown, FindNodes, Live, CloudTypeOK, Pointers
  <2>5. LaunchGuarded'
    BY <1>1, <1>4, <2>4 DEF Goto, LaunchGuarded, FindNodes, Live, cloudVars, fleetVars
  <2>6. DownCovers'
    BY <1>1, <1>4 DEF Goto, DownCovers, FindNodes, Live, cloudVars, fleetVars
  <2>7. ReplyTracked'
    BY <1>1, <1>4 DEF Goto, ReplyTracked, cloudVars, fleetVars
  <2> QED
    BY <1>1, <2>1, <2>2, <2>3, <2>5, <2>6, <2>7, RequestOnly
<1> QED
  BY <1>2, <1>3, <1>4 DEF Describe

\* After a repair _describe reports a node of the region just written.
LEMMA RedescribeStep ==
  ASSUME IInv, NEW w \in Workers, Redescribe(w), UNCHANGED sweep
  PROVE  IInv'
<1>1. /\ Handling(w) /\ request[w].op # "down" /\ UNCHANGED cloudVars
      /\ pointer # None /\ pointer.region = request[w].region
  BY DEF Redescribe, Handling, IInv, TypeInv, RequestShape, ReplyTracked
<1>2. CASE Reply(w, 200, None)
  BY <1>1, <1>2, ReplyKeeps DEF Codes
<1>3. CASE \E n \in Reported(FindNodes(request[w].region), request[w].node) : Reply(w, 200, n)
  <2>1. PICK n \in Reported(FindNodes(request[w].region), request[w].node) : Reply(w, 200, n)
    BY <1>3
  <2>2. n \in Nodes /\ pointer.region = home[n]
    BY <1>1, <2>1 DEF Reported, FindNodes, Live
  <2> QED
    BY <1>1, <2>1, <2>2, ReplyKeeps DEF Codes
<1> QED
  BY <1>2, <1>3 DEF Redescribe

\* The replies that name no node.
LEMMA OtherReplySteps ==
  ASSUME IInv, NEW w \in Workers, UNCHANGED sweep,
         PointerUnreadable(w) \/ Reject(w) \/ DownUntracked(w) \/ CallFails(w)
  PROVE  IInv'
<1>1. CASE PointerUnreadable(w)
  BY <1>1, ReplyKeeps DEF PointerUnreadable, Handling, Codes
<1>2. CASE Reject(w)
  BY <1>2, ReplyKeeps DEF Reject, Handling, Codes
<1>3. CASE DownUntracked(w)
  <2>1. FindNodes(request[w].region) = {}
    BY <1>3 DEF DownUntracked, Terminated, IInv, DownCovers
  <2> QED
    BY <1>3, <2>1, ReplyKeeps DEF DownUntracked, Terminated, Handling, Codes
<1>4. CASE CallFails(w)
  BY <1>4, ReplyKeeps DEF CallFails, Handling, Codes
<1> QED
  BY <1>1, <1>2, <1>3, <1>4

\* An invocation that returns or is ended leaves an idle worker.
LEMMA EndSteps ==
  ASSUME IInv, NEW w \in Workers, Return(w) \/ Crash(w), UNCHANGED sweep
  PROVE  IInv'
BY EndKeeps DEF Return, Crash

-----------------------------------------------------------------------------
(* Requests, the steps that change the nodes or the pointer.                *)

\* While a worker handles a request, no other worker is doing anything.
LEMMA OthersIdle ==
  ASSUME IInv, NEW w \in Workers, Handling(w)
  PROVE  /\ \A v \in Workers \ {w} : request[v].step = "idle"
         /\ \A v \in Workers : sweep[v].step = "idle"
BY DEF IInv, OneInvocation, Handling, Sweeping

\* The pointer is written, and the request moves on or replies.
LEMMA PointerWritten ==
  ASSUME IInv, NEW w \in Workers, NEW outcome \in Outcomes, NEW value \in Pointers,
         Handling(w), UNCHANGED sweep,
         WritePointer(value, outcome), UNCHANGED <<fleetVars, defaultRegion, clock>>,
         value # None => /\ status[value.instance_id] # "unused"
                         /\ home[value.instance_id] = value.region,
         HandlerTypeOK'
  PROVE  CloudTypeOK' /\ WatchdogTypeOK' /\ HomesKnown' /\ SweepShape' /\ Apart'
<1> USE DEF IInv, TypeInv, TypeOK, fleetVars
<1>1. pointer' \in {value, pointer}
  BY DEF WritePointer
<1>2. CloudTypeOK'
  BY <1>1 DEF CloudTypeOK
<1>3. HomesKnown'
  BY <1>1 DEF HomesKnown
<1> QED
  BY <1>2, <1>3 DEF WatchdogTypeOK, SweepShape, Apart, Live

\* Repair of _up: the pointer takes the region of the node that was found.
LEMMA RepairStep ==
  ASSUME IInv, NEW w \in Workers, NEW outcome \in Outcomes, Repair(w, outcome), UNCHANGED sweep
  PROVE  IInv'
<1> DEFINE value == [region |-> request[w].region, instance_id |-> request[w].node]
<1>1. /\ Handling(w) /\ request[w].op # "down" /\ ~request[w].key
      /\ request[w].region \in Regions /\ request[w].node \in Nodes
      /\ status[request[w].node] # "unused"
      /\ home[request[w].node] = request[w].region
  BY DEF Repair, Handling, IInv, TypeInv, RequestShape
<1>2. value \in Pointers /\ value # None
  BY <1>1, NodesAssumption DEF Pointers
<1> USE DEF IInv, TypeInv, TypeOK
<1>3. HandlerTypeOK'
  <2>1. CASE Answered(outcome)
    BY <2>1, GotoType DEF Repair, Steps
  <2>2. CASE ~Answered(outcome)
    BY <2>2, ReplyType DEF Repair, Codes
  <2> QED
    BY <2>1, <2>2
<1>4. CloudTypeOK' /\ WatchdogTypeOK' /\ HomesKnown' /\ SweepShape' /\ Apart'
  BY <1>1, <1>2, <1>3, PointerWritten DEF Repair
<1>5. Answered(outcome) => pointer' = value
  BY DEF Repair, WritePointer, Answered, TookEffect
<1> HIDE DEF value
<1>6. \/ Answered(outcome) /\ Goto(w, "redescribe")
      \/ ~Answered(outcome) /\ Reply(w, 500, None)
  BY DEF Repair
<1>7. /\ request'[w].step \in {"redescribe", "reply"}
      /\ request'[w].step = "redescribe" => Answered(outcome)
      /\ request'[w].step = "reply" => request'[w].code = 500
      /\ request'[w].op = request[w].op /\ request'[w].region = request[w].region
      /\ request'[w].step = "redescribe" => request'[w].node = request[w].node
      /\ request'[w].todo = request[w].todo /\ request'[w].key = request[w].key
      /\ \A v \in Workers \ {w} : request'[v] = request[v] /\ request[v].step = "idle"
  BY OthersIdle, <1>1, <1>6 DEF HandlerTypeOK, Request, Goto, Reply
<1> USE OthersIdle, <1>1, <1>5, <1>7 DEF HandlerTypeOK, Request, Repair, fleetVars
<1>8. RequestShape'
  BY DEF RequestShape
<1>9. OneInvocation'
  BY DEF OneInvocation, Handling, Sweeping
<1>10. LaunchGuarded'
  BY DEF LaunchGuarded
<1>11. DownCovers'
  BY DEF DownCovers
<1>12. ReplyTracked'
  BY <1>2 DEF ReplyTracked, value
<1> QED
  BY <1>3, <1>4, <1>8, <1>9, <1>10, <1>11, <1>12

\* The end of _up: the pointer takes the region of the node just launched.
LEMMA TrackStep ==
  ASSUME IInv, NEW w \in Workers, NEW outcome \in Outcomes, Track(w, outcome), UNCHANGED sweep
  PROVE  IInv'
<1> DEFINE value == [region |-> request[w].region, instance_id |-> request[w].node]
<1>1. /\ Handling(w) /\ request[w].op # "down"
      /\ request[w].region \in Regions /\ request[w].node \in Nodes
      /\ status[request[w].node] # "unused"
      /\ home[request[w].node] = request[w].region
  BY DEF Track, Handling, IInv, TypeInv, RequestShape
<1>2. value \in Pointers /\ value # None
  BY <1>1, NodesAssumption DEF Pointers
<1> USE DEF IInv, TypeInv, TypeOK
<1>3. HandlerTypeOK'
  BY <1>1, ReplyType DEF Track, Codes
<1>4. CloudTypeOK' /\ WatchdogTypeOK' /\ HomesKnown' /\ SweepShape' /\ Apart'
  BY <1>1, <1>2, <1>3, PointerWritten DEF Track
<1>5. Answered(outcome) => pointer' = value
  BY DEF Track, WritePointer, Answered, TookEffect
<1> HIDE DEF value
<1>6. \/ Answered(outcome) /\ Reply(w, 200, request[w].node)
      \/ ~Answered(outcome) /\ Reply(w, 500, None)
  BY DEF Track
<1>7. /\ request'[w].step = "reply"
      /\ request'[w].op = request[w].op /\ request'[w].node \in {None, request[w].node}
      /\ request'[w].code = 200 => Answered(outcome)
      /\ request'[w].todo = request[w].todo
      /\ \A v \in Workers \ {w} : request'[v] = request[v] /\ request[v].step = "idle"
  BY OthersIdle, <1>1, <1>6 DEF HandlerTypeOK, Request, Reply
<1> USE OthersIdle, <1>1, <1>5, <1>7 DEF HandlerTypeOK, Request, Track, fleetVars
<1>8. RequestShape'
  BY DEF RequestShape
<1>9. OneInvocation'
  BY DEF OneInvocation, Handling, Sweeping
<1>10. LaunchGuarded'
  BY DEF LaunchGuarded
<1>11. DownCovers'
  BY DEF DownCovers
<1>12. ReplyTracked'
  BY <1>2 DEF ReplyTracked, value
<1> QED
  BY <1>3, <1>4, <1>8, <1>9, <1>10, <1>11, <1>12

\* The end of _down: the region is empty, and the pointer cleared or left.
LEMMA ClearStep ==
  ASSUME IInv, NEW w \in Workers, NEW outcome \in Outcomes, Clear(w, outcome), UNCHANGED sweep
  PROVE  IInv'
<1>1. Handling(w) /\ request[w].op = "down" /\ FindNodes(request[w].region) = {}
  BY DEF Clear, Terminated, Handling, IInv, TypeInv, RequestShape, DownCovers
<1> USE DEF IInv, TypeInv, TypeOK
<1>2. Reply(w, 200, None) \/ Reply(w, 500, None)
  BY DEF Clear
<1>3. HandlerTypeOK'
  BY <1>2, ReplyType DEF Codes
<1>4. CloudTypeOK' /\ WatchdogTypeOK' /\ HomesKnown' /\ SweepShape' /\ Apart'
  BY <1>1, <1>3, PointerWritten DEF Clear, Pointers
<1>5. /\ request'[w].step = "reply"
      /\ request'[w].op = request[w].op /\ request'[w].node = None
      /\ request'[w].region = request[w].region
      /\ request'[w].todo = request[w].todo
      /\ \A v \in Workers \ {w} : request'[v] = request[v] /\ request[v].step = "idle"
  BY OthersIdle, <1>1, <1>2 DEF HandlerTypeOK, Request, Reply
<1> USE OthersIdle, <1>1, <1>5 DEF HandlerTypeOK, Request, Clear, fleetVars
<1>6. RequestShape'
  BY DEF RequestShape
<1>7. OneInvocation'
  BY DEF OneInvocation, Handling, Sweeping
<1>8. LaunchGuarded'
  BY DEF LaunchGuarded
<1>9. DownCovers'
  BY DEF DownCovers, FindNodes, Live
<1>10. ReplyTracked'
  BY DEF ReplyTracked
<1> QED
  BY <1>3, <1>4, <1>6, <1>7, <1>8, <1>9, <1>10

\* A request that has minted a key and failed is still a request.
LEMMA FailedType ==
  ASSUME NEW q \in Request, NEW code \in Codes
  PROVE  [q EXCEPT !.step = "reply", !.code = code] \in Request
<1>1. "reply" \in Steps
  BY DEF Steps
<1> QED
  BY <1>1 DEF Request

\* No node is launched next to another one.
LEMMA LaunchStep ==
  ASSUME IInv, NEW w \in Workers, NEW n \in Nodes, NEW outcome \in Outcomes,
         Launch(w, n, outcome), UNCHANGED sweep
  PROVE  IInv'
<1> DEFINE r == request[w].region
           now == request[w].now
           ttl == request[w].ttl
<1>1. /\ Handling(w) /\ request[w].op # "down" /\ r \in Regions /\ ttl # Malformed
      /\ FindNodes(r) = {}
      /\ status[n] = "unused"
      /\ UNCHANGED <<pointer, defaultRegion, clock>>
  BY DEF Launch, RunInstance, Handling, IInv, TypeInv, RequestShape, LaunchGuarded
<1> USE DEF IInv, TypeInv, TypeOK
<1>2. now \in Nat /\ Expiry(ttl, now) \in Expiries
  <2>1. now \in Nat /\ ttl \in Nat \cup {Never}
    BY <1>1, TimeAssumption DEF HandlerTypeOK, Request
  <2> HIDE DEF now, ttl
  <2> QED
    BY <2>1 DEF Expiry, Expiries
<1>3. /\ status' = [status EXCEPT ![n] = "live"]
      /\ home' = [home EXCEPT ![n] = r]
      /\ tags' = [tags EXCEPT ![n] = [launched |-> now, expires |-> Expiry(ttl, now),
                                      alerted |-> None]]
  BY DEF Launch, RunInstance
<1>4. /\ request'[w].step \in {"track", "reply"}
      /\ request'[w].step = "track" => request'[w].node = n
      /\ request'[w].step = "reply" => request'[w].code = 500
      /\ request'[w].op = request[w].op /\ request'[w].region = r
      /\ request'[w].todo = request[w].todo
      /\ \A v \in Workers \ {w} : request'[v] = request[v] /\ request[v].step = "idle"
  BY OthersIdle, <1>1 DEF Launch, HandlerTypeOK, Request
<1>5. HandlerTypeOK'
  <2>1. CASE Answered(outcome)
    BY <2>1 DEF Launch, HandlerTypeOK, Request, Steps
  <2>2. CASE ~Answered(outcome)
    <3>1. "reply" \in Steps /\ 500 \in Codes
      BY DEF Steps, Codes
    <3>2. request' = [request EXCEPT ![w] = [request[w] EXCEPT !.step = "reply", !.code = 500]]
      BY <2>2 DEF Launch, HandlerTypeOK, Request
    <3> QED
      BY <3>1, <3>2, FailedType DEF HandlerTypeOK
  <2> QED
    BY <2>1, <2>2
<1> HIDE DEF r, now, ttl
<1>6. CloudTypeOK'
  BY <1>1, <1>2, <1>3 DEF CloudTypeOK, Tags, Statuses
<1>7. HomesKnown'
  BY <1>1, <1>3 DEF HomesKnown, CloudTypeOK, Pointers
<1>8. RequestShape'
  BY <1>1, <1>3, <1>4 DEF RequestShape, CloudTypeOK, HandlerTypeOK, Request
<1>9. SweepShape'
  BY <1>3 DEF SweepShape, CloudTypeOK, WatchdogTypeOK, Sweep
<1>10. WatchdogTypeOK'
  BY DEF WatchdogTypeOK
<1>11. OneInvocation'
  BY OthersIdle, <1>1, <1>4 DEF OneInvocation, Handling, Sweeping
<1>12. Apart'
  BY <1>1, <1>3 DEF Apart, FindNodes, Live, CloudTypeOK
<1>13. pointer # None => status'[pointer.instance_id] # "live"
  BY <1>1, <1>3 DEF HomesKnown, CloudTypeOK, Pointers, LaunchGuarded, Launch
<1>14. LaunchGuarded'
  BY <1>1, <1>4, <1>13 DEF LaunchGuarded
<1>15. DownCovers'
  BY <1>4, <1>1 DEF DownCovers
<1>16. ReplyTracked'
  BY <1>4 DEF ReplyTracked
<1> QED
  BY <1>5, <1>6, <1>7, <1>8, <1>9, <1>10, <1>11, <1>12, <1>14, <1>15, <1>16

\* A node ends: no part of the invariant asks for a node to run.
LEMMA NodesEnd ==
  ASSUME IInv, UNCHANGED <<home, tags, pointer, defaultRegion, clock>>,
         NEW n \in Nodes, status[n] # "unused",
         status' \in {status, [status EXCEPT ![n] = "gone"]}
  PROVE  /\ CloudTypeOK' /\ HomesKnown' /\ Apart'
         /\ Live' \subseteq Live
         /\ \A region : FindNodes(region)' \subseteq FindNodes(region)
         /\ \A m \in Nodes : status[m] # "unused" => status'[m] # "unused"
<1> USE DEF IInv, TypeInv, TypeOK
<1>1. CloudTypeOK'
  BY DEF CloudTypeOK, Statuses
<1>2. HomesKnown'
  BY DEF HomesKnown, CloudTypeOK, Pointers
<1>3. Live' \subseteq Live
  BY DEF Live, CloudTypeOK
<1>4. \A region : FindNodes(region)' \subseteq FindNodes(region)
  BY <1>3 DEF FindNodes
<1>5. Apart'
  BY <1>3 DEF Apart
<1>6. \A m \in Nodes : status[m] # "unused" => status'[m] # "unused"
  BY DEF CloudTypeOK
<1> QED
  BY <1>1, <1>2, <1>3, <1>4, <1>5, <1>6

\* down terminates a node on its list, or fails with 500.
LEMMA TerminateStep ==
  ASSUME IInv, NEW w \in Workers, NEW n \in Nodes, NEW outcome \in Outcomes,
         Terminate(w, n, outcome), UNCHANGED sweep
  PROVE  IInv'
<1> USE DEF IInv, TypeInv, TypeOK
<1>1. /\ Handling(w) /\ request[w].op = "down" /\ status[n] # "unused"
      /\ UNCHANGED <<home, tags, pointer, defaultRegion, clock>>
      /\ status' \in {status, [status EXCEPT ![n] = "gone"]}
      /\ Answered(outcome) => status' = [status EXCEPT ![n] = "gone"]
  BY DEF Terminate, TerminateInstance, Handling, RequestShape, Answered, TookEffect
<1>2. /\ CloudTypeOK' /\ HomesKnown' /\ Apart'
      /\ Live' \subseteq Live
      /\ \A region : FindNodes(region)' \subseteq FindNodes(region)
      /\ \A m \in Nodes : status[m] # "unused" => status'[m] # "unused"
  BY <1>1, NodesEnd
<1>3. HandlerTypeOK'
  <2>1. CASE Answered(outcome)
    BY <2>1 DEF Terminate, HandlerTypeOK, Request
  <2>2. CASE ~Answered(outcome)
    BY <2>2, ReplyType DEF Terminate, Codes
  <2> QED
    BY <2>1, <2>2
<1>4. /\ \/ /\ request'[w].step = "terminate"
            /\ request'[w].todo = request[w].todo \ {n}
            /\ Answered(outcome)
         \/ /\ request'[w].step = "reply" /\ request'[w].code = 500
            /\ request'[w].todo = request[w].todo
      /\ request'[w].op = request[w].op /\ request'[w].ptr = request[w].ptr
      /\ request'[w].region = request[w].region
      /\ request'[w].key = request[w].key
      /\ \A v \in Workers \ {w} : request'[v] = request[v] /\ request[v].step = "idle"
  BY OthersIdle, <1>1 DEF Terminate, Reply, HandlerTypeOK, Request
<1>5. RequestShape'
  BY <1>1, <1>2, <1>4 DEF RequestShape, HandlerTypeOK, Request, Terminate
<1>6. SweepShape' /\ WatchdogTypeOK'
  BY <1>2 DEF SweepShape, WatchdogTypeOK, Sweep
<1>7. OneInvocation'
  BY OthersIdle, <1>1, <1>4 DEF OneInvocation, Handling, Sweeping
<1>8. LaunchGuarded'
  BY <1>4 DEF LaunchGuarded
<1>9. Answered(outcome) => n \notin Live'
  BY <1>1 DEF Live, CloudTypeOK
<1>10. request'[w].step = "terminate"
       => \A m \in Live' : home[m] = request[w].region => m \in request'[w].todo
  BY <1>2, <1>4, <1>9 DEF DownCovers, FindNodes, Terminate
<1>11. DownCovers'
  <2>1. ASSUME NEW v \in Workers, request'[v].step = "terminate"
        PROVE  FindNodes(request[v].region)' \subseteq request'[v].todo
    BY <1>1, <1>4, <1>10, <2>1 DEF FindNodes
  <2> QED
    BY <1>1, <1>4, <2>1 DEF DownCovers, Terminate
<1>12. ReplyTracked'
  BY <1>4 DEF ReplyTracked
<1> QED
  BY <1>2, <1>3, <1>5, <1>6, <1>7, <1>8, <1>11, <1>12

-----------------------------------------------------------------------------
(* Sweeps.  No request is under way, so all that is said of requests holds   *)
(* of idle ones.                                                             *)

\* A step of a sweep keeps what is said of requests: none is under way.
LEMMA SweepKeeps ==
  ASSUME IInv, NEW w \in Workers, Sweeping(w), UNCHANGED <<request, home>>,
         CloudTypeOK', HomesKnown', WatchdogTypeOK', SweepShape',
         Live' \subseteq Live,
         \A m \in Nodes : status[m] # "unused" => status'[m] # "unused",
         \A v \in Workers \ {w} : sweep'[v] = sweep[v]
  PROVE  IInv'
<1> USE DEF IInv, TypeInv, TypeOK
<1>1. \A v \in Workers : request[v].step = "idle"
  BY DEF OneInvocation, Handling
<1>2. HandlerTypeOK'
  BY DEF HandlerTypeOK
<1>3. RequestShape'
  BY <1>1 DEF RequestShape, HandlerTypeOK, Request
<1>4. OneInvocation'
  BY <1>1 DEF OneInvocation, Handling, Sweeping
<1>5. Apart'
  BY DEF Apart
<1>6. LaunchGuarded' /\ DownCovers' /\ ReplyTracked'
  BY <1>1 DEF LaunchGuarded, DownCovers, ReplyTracked
<1> QED
  BY <1>2, <1>3, <1>4, <1>5, <1>6

\* A step of a sweep that leaves the nodes and the parameters alone.
LEMMA SweepOnly ==
  ASSUME IInv, NEW w \in Workers, Sweeping(w), UNCHANGED <<request, cloudVars>>,
         WatchdogTypeOK', SweepShape',
         \A v \in Workers \ {w} : sweep'[v] = sweep[v]
  PROVE  IInv'
<1>1. CloudTypeOK' /\ HomesKnown' /\ Live' \subseteq Live
  BY DEF IInv, TypeInv, TypeOK, CloudTypeOK, HomesKnown, Live, cloudVars, fleetVars
<1> QED
  BY <1>1, SweepKeeps DEF cloudVars, fleetVars

\* The threshold and the pointer are read, or not.
LEMMA ReadConfigStep ==
  ASSUME IInv, NEW w \in Workers, NEW threshold \in BOOLEAN, NEW readable \in BOOLEAN,
         ReadConfig(w, threshold, readable), UNCHANGED request
  PROVE  IInv'
<1> USE DEF IInv, TypeInv, TypeOK, WatchdogTypeOK, Sweep
<1>1. WatchdogTypeOK'
  BY DEF ReadConfig, SweepSteps, CloudTypeOK, Pointers
<1>2. SweepShape'
  BY DEF ReadConfig, SweepShape, cloudVars, fleetVars
<1> QED
  BY <1>1, <1>2, SweepOnly DEF ReadConfig, Sweeping

\* The regions to scan are known.
LEMMA ListRegionsStep ==
  ASSUME IInv, NEW w \in Workers, ListRegions(w), UNCHANGED request
  PROVE  IInv'
<1> USE DEF IInv, TypeInv, TypeOK, WatchdogTypeOK, Sweep
<1>1. WatchdogTypeOK'
  BY DEF ListRegions, SweepSteps
<1>2. SweepShape'
  BY DEF ListRegions, SweepShape, cloudVars, fleetVars
<1> QED
  BY <1>1, <1>2, SweepOnly DEF ListRegions, Sweeping

\* Without regions the sweep is done, and has no nodes.
LEMMA ListRegionsFailsStep ==
  ASSUME IInv, NEW w \in Workers, ListRegionsFails(w), UNCHANGED request
  PROVE  IInv'
<1> USE DEF IInv, TypeInv, TypeOK, WatchdogTypeOK, Sweep
<1>1. WatchdogTypeOK'
  BY DEF ListRegionsFails, SweepSteps
<1>2. SweepShape'
  BY DEF ListRegionsFails, SweepShape, cloudVars, fleetVars
<1> QED
  BY <1>1, <1>2, SweepOnly DEF ListRegionsFails, Sweeping

\* A scan adds nodes that run: they have a region.
LEMMA ScanRegionStep ==
  ASSUME IInv, NEW w \in Workers, NEW region \in Regions, ScanRegion(w, region), UNCHANGED
         request
  PROVE  IInv'
<1> USE DEF IInv, TypeInv, TypeOK, WatchdogTypeOK, Sweep
<1>1. WatchdogTypeOK'
  <2> DEFINE s == [sweep[w] EXCEPT !.scan = @ \ {region}, !.seen = @ \cup FindNodes(region)]
  <2>1. /\ sweep[w].scan \ {region} \in SUBSET Regions
        /\ sweep[w].seen \cup FindNodes(region) \in SUBSET Nodes
    BY FindNodesType
  <2>2. s \in Sweep
    BY <2>1
  <2>3. sweep' = [sweep EXCEPT ![w] = s]
    BY DEF ScanRegion
  <2> QED
    BY <2>2, <2>3
<1>2. SweepShape'
  BY FindNodesType DEF ScanRegion, SweepShape, cloudVars, fleetVars, FindNodes, Live
<1> QED
  BY <1>1, <1>2, SweepOnly DEF ScanRegion, Sweeping

\* A scan that fails adds nothing.
LEMMA ScanRegionFailsStep ==
  ASSUME IInv, NEW w \in Workers, NEW region \in Regions, ScanRegionFails(w, region),
         UNCHANGED request
  PROVE  IInv'
<1> USE DEF IInv, TypeInv, TypeOK, WatchdogTypeOK, Sweep
<1>1. WatchdogTypeOK'
  <2> DEFINE s == [sweep[w] EXCEPT !.scan = @ \ {region}, !.scanFailed = TRUE, !.alarm = TRUE]
  <2>1. sweep[w].scan \ {region} \in SUBSET Regions
    OBVIOUS
  <2>2. s \in Sweep
    BY <2>1
  <2>3. sweep' = [sweep EXCEPT ![w] = s]
    BY DEF ScanRegionFails
  <2> QED
    BY <2>2, <2>3
<1>2. SweepShape'
  BY DEF ScanRegionFails, SweepShape, cloudVars, fleetVars
<1> QED
  BY <1>1, <1>2, SweepOnly DEF ScanRegionFails, Sweeping

\* The expired nodes are among those seen.
LEMMA ScannedStep ==
  ASSUME IInv, NEW w \in Workers, Scanned(w), UNCHANGED request
  PROVE  IInv'
<1> USE DEF IInv, TypeInv, TypeOK, WatchdogTypeOK, Sweep
<1>1. WatchdogTypeOK'
  <2> DEFINE s == [sweep[w] EXCEPT !.todo = sweep[w].seen \ Survivors(w), !.step = "reap"]
  <2>1. sweep[w].seen \ Survivors(w) \in SUBSET Nodes /\ "reap" \in SweepSteps
    BY DEF SweepSteps
  <2>2. s \in Sweep
    BY <2>1
  <2>3. sweep' = [sweep EXCEPT ![w] = s]
    BY DEF Scanned
  <2> QED
    BY <2>2, <2>3
<1>2. SweepShape'
  BY DEF Scanned, SweepShape, cloudVars, fleetVars, Survivors
<1> QED
  BY <1>1, <1>2, SweepOnly DEF Scanned, Sweeping

\* Without survivors there is no candidate.
LEMMA NoSurvivorStep ==
  ASSUME IInv, NEW w \in Workers, NoSurvivor(w), UNCHANGED request
  PROVE  IInv'
<1> USE DEF IInv, TypeInv, TypeOK, WatchdogTypeOK, Sweep
<1>1. WatchdogTypeOK'
  BY DEF NoSurvivor, SweepSteps
<1>2. SweepShape'
  BY DEF NoSurvivor, SweepShape, cloudVars, fleetVars
<1> QED
  BY <1>1, <1>2, SweepOnly DEF NoSurvivor, Sweeping

\* The candidate and the duplicates are among the nodes seen.
LEMMA OrderSurvivorsStep ==
  ASSUME IInv, NEW w \in Workers, NEW n \in Nodes, OrderSurvivors(w, n), UNCHANGED request
  PROVE  IInv'
<1> USE DEF IInv, TypeInv, TypeOK, WatchdogTypeOK, Sweep
<1>1. WatchdogTypeOK'
  <2> DEFINE s == [sweep[w] EXCEPT !.candidate = n, !.todo = Survivors(w) \ {n}, !.step =
       "dedup"]
  <2>1. Survivors(w) \ {n} \in SUBSET Nodes /\ "dedup" \in SweepSteps
    BY DEF Survivors, SweepSteps
  <2>2. s \in Sweep
    BY <2>1
  <2>3. sweep' = [sweep EXCEPT ![w] = s]
    BY DEF OrderSurvivors
  <2> QED
    BY <2>2, <2>3
<1>2. SweepShape'
  BY DEF OrderSurvivors, SweepShape, cloudVars, fleetVars, Survivors, Newest
<1> QED
  BY <1>1, <1>2, SweepOnly DEF OrderSurvivors, Sweeping

\* Survivors that cannot be put in order leave no candidate.
LEMMA UnorderableStep ==
  ASSUME IInv, NEW w \in Workers, Unorderable(w), UNCHANGED request
  PROVE  IInv'
<1> USE DEF IInv, TypeInv, TypeOK, WatchdogTypeOK, Sweep
<1>1. WatchdogTypeOK'
  BY DEF Unorderable, SweepSteps
<1>2. SweepShape'
  BY DEF Unorderable, SweepShape, cloudVars, fleetVars
<1> QED
  BY <1>1, <1>2, SweepOnly DEF Unorderable, Sweeping

\* After the duplicates the sweep still has its candidate.
LEMMA DeduplicatedStep ==
  ASSUME IInv, NEW w \in Workers, Deduplicated(w), UNCHANGED request
  PROVE  IInv'
<1> USE DEF IInv, TypeInv, TypeOK, WatchdogTypeOK, Sweep
<1>1. WatchdogTypeOK'
  BY DEF Deduplicated, SweepSteps
<1>2. SweepShape'
  BY DEF Deduplicated, SweepShape, cloudVars, fleetVars
<1> QED
  BY <1>1, <1>2, SweepOnly DEF Deduplicated, Sweeping

\* The idle check keeps the candidate.
LEMMA CheckStep ==
  ASSUME IInv, NEW w \in Workers, NEW reading \in Readings, Check(w, reading), UNCHANGED request
  PROVE  IInv'
<1> USE DEF IInv, TypeInv, TypeOK, WatchdogTypeOK, Sweep
<1>1. WatchdogTypeOK'
  BY DEF Check, SweepSteps
<1>2. SweepShape'
  BY DEF Check, SweepShape, cloudVars, fleetVars
<1> QED
  BY <1>1, <1>2, SweepOnly DEF Check, Sweeping

\* A sweep that leaves the pointer alone is done.
LEMMA LeavePointerStep ==
  ASSUME IInv, NEW w \in Workers, LeavePointer(w), UNCHANGED request
  PROVE  IInv'
<1> USE DEF IInv, TypeInv, TypeOK, WatchdogTypeOK, Sweep
<1>1. WatchdogTypeOK'
  BY DEF LeavePointer, SweepSteps
<1>2. SweepShape'
  BY DEF LeavePointer, SweepShape, cloudVars, fleetVars
<1> QED
  BY <1>1, <1>2, SweepOnly DEF LeavePointer, Sweeping

\* A sweep is over, or starts.
LEMMA NoSweepType == /\ NoSweep \in Sweep /\ NoSweep.step = "idle" /\ NoSweep.candidate = None
                     /\ NoSweep.todo = {} /\ NoSweep.seen = {}
BY DEF NoSweep, Sweep, SweepSteps, Pointers

\* A sweep that ends or is ended leaves an idle worker.
LEMMA SweepEndSteps ==
  ASSUME IInv, NEW w \in Workers, SweepEnds(w) \/ SweepCrash(w), UNCHANGED request
  PROVE  IInv'
<1>1. sweep' = [sweep EXCEPT ![w] = NoSweep] /\ Sweeping(w) /\ UNCHANGED cloudVars
  BY DEF SweepEnds, SweepCrash, Sweeping
<1> USE DEF IInv, TypeInv, TypeOK, WatchdogTypeOK
<1>2. WatchdogTypeOK'
  BY <1>1, NoSweepType
<1>3. SweepShape'
  BY <1>1, NoSweepType DEF SweepShape, cloudVars, fleetVars
<1> QED
  BY <1>1, <1>2, <1>3, SweepOnly

\* A sweep starts only when no invocation is running.
LEMMA StartSweepStep ==
  ASSUME IInv, NEW w \in Workers, SweepDue(w)
  PROVE  IInv'
<1> DEFINE s == [NoSweep EXCEPT !.step = "config", !.now = clock]
<1>1. sweep' = [sweep EXCEPT ![w] = s] /\ UNCHANGED <<request, cloudVars>>
  BY DEF SweepDue, StartSweep
<1>2. \A v \in Workers : request[v].step = "idle" /\ sweep[v].step = "idle"
  BY DEF SweepDue, Admit, Handling, Sweeping
<1> USE DEF IInv, TypeInv, TypeOK, WatchdogTypeOK
<1>3. s \in Sweep /\ s.candidate = None /\ s.todo = {} /\ s.seen = {} /\ s.step = "config"
  BY NoSweepType DEF Sweep, SweepSteps, CloudTypeOK
<1> HIDE DEF s
<1>4. WatchdogTypeOK'
  BY <1>1, <1>3
<1>5. SweepShape'
  BY <1>1, <1>3 DEF SweepShape, cloudVars, fleetVars
<1>6. CloudTypeOK' /\ HandlerTypeOK' /\ HomesKnown' /\ RequestShape' /\ Apart'
  BY <1>1 DEF CloudTypeOK, HandlerTypeOK, HomesKnown, RequestShape, Apart, Live, cloudVars,
              fleetVars
<1>7. OneInvocation'
  BY <1>1, <1>2, <1>3 DEF OneInvocation, Handling, Sweeping
<1>8. LaunchGuarded' /\ DownCovers' /\ ReplyTracked'
  BY <1>1, <1>2 DEF LaunchGuarded, DownCovers, ReplyTracked
<1> QED
  BY <1>4, <1>5, <1>6, <1>7, <1>8

\* A termination, answered or not, ends a node the scan has found, or nothing.
LEMMA SafeTerminateStep ==
  ASSUME IInv, NEW w \in Workers, NEW n \in Nodes, NEW outcome \in Outcomes,
         Sweeping(w), SafeTerminate(w, n, outcome), UNCHANGED request
  PROVE  IInv'
<1> USE DEF IInv, TypeInv, TypeOK
<1>1. /\ status[n] # "unused"
      /\ UNCHANGED <<home, tags, pointer, defaultRegion, clock>>
      /\ status' \in {status, [status EXCEPT ![n] = "gone"]}
  BY DEF SafeTerminate, TerminateInstance, SweepShape
<1>2. /\ CloudTypeOK' /\ HomesKnown' /\ Live' \subseteq Live
      /\ \A m \in Nodes : status[m] # "unused" => status'[m] # "unused"
  BY <1>1, NodesEnd
<1>3. WatchdogTypeOK'
  <2> USE DEF WatchdogTypeOK, Sweep
  <2> DEFINE todo == sweep[w].todo \ {n}
             stuck == sweep[w].stuck \cup {n}
  <2>1. todo \in SUBSET Nodes /\ stuck \in SUBSET Nodes
    OBVIOUS
  <2>2. CASE Answered(outcome)
    <3>1. sweep' = [sweep EXCEPT ![w].todo = todo]
      BY <2>2 DEF SafeTerminate
    <3> QED
      BY <2>1, <3>1
  <2>3. CASE ~Answered(outcome)
    <3>1. sweep' = [sweep EXCEPT ![w] = [sweep[w] EXCEPT !.todo = todo, !.stuck = stuck,
                                                         !.alarm = TRUE]]
      BY <2>3 DEF SafeTerminate
    <3>2. [sweep[w] EXCEPT !.todo = todo, !.stuck = stuck, !.alarm = TRUE] \in Sweep
      BY <2>1
    <3> QED
      BY <3>1, <3>2
  <2> QED
    BY <2>2, <2>3
<1>4. \A v \in Workers : /\ sweep'[v].step = sweep[v].step
                         /\ sweep'[v].candidate = sweep[v].candidate
                         /\ sweep'[v].seen = sweep[v].seen
                         /\ sweep'[v].todo \subseteq sweep[v].todo
                         /\ v # w => sweep'[v] = sweep[v]
  BY DEF SafeTerminate, WatchdogTypeOK, Sweep
<1>5. SweepShape'
  BY <1>2, <1>4 DEF SweepShape, WatchdogTypeOK, Sweep
<1> QED
  BY <1>1, <1>2, <1>3, <1>4, <1>5, SweepKeeps

\* The stamp changes a tag of the candidate and nothing else of the nodes.
LEMMA StampStep ==
  ASSUME IInv, NEW w \in Workers, NEW outcome \in Outcomes, Stamp(w, outcome), UNCHANGED request
  PROVE  IInv'
<1> USE DEF IInv, TypeInv, TypeOK
<1>1. Sweeping(w) /\ sweep[w].candidate \in Nodes /\ sweep[w].now \in Nat
  BY DEF Stamp, Sweeping, SweepShape, WatchdogTypeOK, Sweep
<1>2. tags' \in [Nodes -> Tags]
  BY <1>1 DEF Stamp, CloudTypeOK, Tags
<1>3. CloudTypeOK' /\ HomesKnown' /\ Live' \subseteq Live
  BY <1>2 DEF Stamp, CloudTypeOK, HomesKnown, Live
<1>4. WatchdogTypeOK'
  BY DEF Stamp, WatchdogTypeOK, Sweep, SweepSteps
<1>5. SweepShape'
  BY DEF Stamp, SweepShape, WatchdogTypeOK, Sweep
<1> QED
  BY <1>1, <1>3, <1>4, <1>5, SweepKeeps DEF Stamp, WatchdogTypeOK

\* The pointer written by the sweep has the type of a pointer.
LEMMA ReconcileStep ==
  ASSUME IInv, NEW w \in Workers, NEW outcome \in Outcomes, NEW value \in Pointers,
         Reconcile(w, value, outcome), UNCHANGED request,
         value # None => /\ status[value.instance_id] # "unused"
                         /\ home[value.instance_id] = value.region
  PROVE  IInv'
<1> USE DEF IInv, TypeInv, TypeOK
<1>1. Sweeping(w) /\ pointer' \in {value, pointer}
  BY DEF Reconcile, WritePointer, Sweeping
<1>2. CloudTypeOK' /\ HomesKnown' /\ Live' \subseteq Live
  BY <1>1 DEF Reconcile, CloudTypeOK, HomesKnown, Live, fleetVars
<1>3. WatchdogTypeOK'
  BY DEF Reconcile, WatchdogTypeOK, Sweep, SweepSteps
<1>4. SweepShape'
  BY DEF Reconcile, SweepShape, WatchdogTypeOK, Sweep, fleetVars
<1> QED
  BY <1>1, <1>2, <1>3, <1>4, SweepKeeps DEF Reconcile, WatchdogTypeOK, fleetVars

\* The node adopted has a region: the scan has seen it run.
LEMMA AdoptStep ==
  ASSUME IInv, NEW w \in Workers, NEW outcome \in Outcomes, Adopt(w, outcome), UNCHANGED request
  PROVE  IInv'
<1> DEFINE n == sweep[w].candidate
           value == [region |-> home[n], instance_id |-> n]
<1>1. n \in Nodes /\ status[n] # "unused" /\ home[n] \in Regions
  BY DEF Adopt, MayAdopt, IInv, TypeInv, TypeOK, SweepShape, HomesKnown, WatchdogTypeOK, Sweep
<1>2. value \in Pointers
  BY <1>1 DEF Pointers
<1>3. Reconcile(w, value, outcome)
  BY DEF Adopt
<1> QED
  BY <1>1, <1>2, <1>3, ReconcileStep

\* The sweep clears the pointer.
LEMMA ClearPointerStep ==
  ASSUME IInv, NEW w \in Workers, NEW outcome \in Outcomes, ClearPointer(w, outcome),
         UNCHANGED request
  PROVE  IInv'
BY ReconcileStep DEF ClearPointer, Pointers

-----------------------------------------------------------------------------
(* What happens without the control plane.                                  *)

\* Nodes end, tags and the default region are edited, time passes: none of it
\* breaks what requests and sweeps rely on.
LEMMA EnvironmentStep ==
  ASSUME IInv, Environment
  PROVE  IInv'
<1> USE DEF IInv, TypeInv, TypeOK
<1>1. UNCHANGED <<request, sweep>>
  BY DEF Environment
<1>2. HandlerTypeOK' /\ WatchdogTypeOK' /\ OneInvocation'
  BY <1>1 DEF HandlerTypeOK, WatchdogTypeOK, OneInvocation, Handling, Sweeping
<1>3. CASE \E n \in Nodes : NodeEnds(n)
  <2>1. PICK n \in Nodes : NodeEnds(n)
    BY <1>3
  <2>2. UNCHANGED <<home, tags, pointer, defaultRegion, clock>>
    BY <2>1 DEF NodeEnds
  <2>3. /\ CloudTypeOK' /\ HomesKnown' /\ Apart' /\ Live' \subseteq Live
        /\ \A m \in Nodes : status[m] # "unused" => status'[m] # "unused"
    BY <2>1, NodesEnd DEF NodeEnds
  <2>4. \A m \in Nodes : status[m] # "live" => status'[m] # "live"
    BY <2>1 DEF NodeEnds, CloudTypeOK
  <2>5. RequestShape'
    BY <1>1, <2>2, <2>3 DEF RequestShape, HandlerTypeOK, Request
  <2>6. SweepShape'
    BY <1>1, <2>3 DEF SweepShape, WatchdogTypeOK, Sweep
  <2>7. LaunchGuarded'
    BY <1>1, <2>2, <2>3, <2>4 DEF LaunchGuarded, FindNodes, CloudTypeOK, Pointers
  <2>8. DownCovers'
    BY <1>1, <2>2, <2>3 DEF DownCovers, FindNodes
  <2>9. ReplyTracked'
    BY <1>1, <2>2 DEF ReplyTracked
  <2> QED
    BY <1>2, <2>3, <2>5, <2>6, <2>7, <2>8, <2>9
<1>4. CASE UNCHANGED <<status, home, pointer>> /\ CloudTypeOK'
  <2>1. HomesKnown' /\ RequestShape' /\ SweepShape' /\ Apart'
    BY <1>1, <1>4 DEF HomesKnown, RequestShape, SweepShape, Apart, Live
  <2>2. LaunchGuarded' /\ DownCovers' /\ ReplyTracked'
    BY <1>1, <1>4 DEF LaunchGuarded, DownCovers, ReplyTracked, FindNodes, Live
  <2> QED
    BY <1>2, <1>4, <2>1, <2>2
<1>5. CASE TagEdited
  <2>1. tags' \in [Nodes -> Tags] /\ UNCHANGED <<status, home, pointer, defaultRegion, clock>>
    BY <1>5, NodesAssumption
       DEF TagEdited, LaunchTagEdited, ExpiryTagEdited, CloudTypeOK, Tags, Expiries
  <2> QED
    BY <1>4, <2>1 DEF CloudTypeOK
<1>6. CASE \E region \in Regions : DefaultRegionSet(region)
  BY <1>4, <1>6, RegionsAssumption DEF DefaultRegionSet, CloudTypeOK, fleetVars
<1>7. CASE Tick
  BY <1>4, <1>7 DEF Tick, CloudTypeOK, fleetVars
<1> QED
  BY <1>3, <1>5, <1>6, <1>7 DEF Environment

-----------------------------------------------------------------------------
(* The invariant holds.                                                     *)

\* At the start there are no nodes, no pointer and no invocations.
LEMMA InitInv == Init => IInv
<1> SUFFICES ASSUME Init PROVE IInv
  OBVIOUS
<1> USE DEF Init, CloudInit, HandlerInit, WatchdogInit
<1>1. NoRequest \in Request /\ NoRequest.step = "idle" /\ NoRequest.op = "status"
      /\ NoRequest.todo = {} /\ ~NoRequest.key
  BY DEF NoRequest, Arrived, Request, Ops, Steps, Codes, Pointers
<1>2. TypeOK
  BY <1>1, NoSweepType, RegionsAssumption
     DEF TypeOK, CloudTypeOK, HandlerTypeOK, WatchdogTypeOK, Statuses, Tags, Expiries, Pointers
<1>3. HomesKnown /\ RequestShape /\ SweepShape
  BY <1>1, NoSweepType DEF HomesKnown, RequestShape, SweepShape
<1>4. OneInvocation
  BY <1>1, NoSweepType DEF OneInvocation, Handling, Sweeping
<1>5. Apart
  BY DEF Apart, Live
<1>6. LaunchGuarded /\ DownCovers /\ ReplyTracked
  BY <1>1 DEF LaunchGuarded, DownCovers, ReplyTracked
<1> QED
  BY <1>2, <1>3, <1>4, <1>5, <1>6 DEF IInv, TypeInv

\* Every step of a request keeps the invariant.
LEMMA RequestStepInv ==
  ASSUME IInv, NEW w \in Workers, RequestStep(w), UNCHANGED sweep
  PROVE  IInv'
<1>1. CASE ReadPointer(w)        BY <1>1, ReadPointerStep
<1>2. CASE Describe(w)           BY <1>2, DescribeStep
<1>3. CASE Choose(w)             BY <1>3, ChooseStep
<1>4. CASE GuardPasses(w)        BY <1>4, GuardPassesStep
<1>5. CASE Prepare(w)            BY <1>5, PrepareStep
<1>6. CASE Redescribe(w)         BY <1>6, RedescribeStep
<1>7. CASE Locate(w)             BY <1>7, LocateStep
<1>8. CASE Scan(w)               BY <1>8, ScanStep
<1>9. CASE PointerUnreadable(w) \/ Reject(w) \/ DownUntracked(w) \/ CallFails(w)
  BY <1>9, OtherReplySteps
<1>10. CASE Return(w) \/ Crash(w)  BY <1>10, EndSteps
<1>11. ASSUME NEW n \in Nodes, GuardFinds(w, n) PROVE IInv'
  BY <1>11, GuardFindsStep
<1>12. ASSUME NEW outcome \in Outcomes,
              Repair(w, outcome) \/ Mint(w, outcome) \/ Track(w, outcome) \/ Clear(w, outcome)
       PROVE  IInv'
  BY <1>12, RepairStep, MintStep, TrackStep, ClearStep
<1>13. ASSUME NEW n \in Nodes, NEW outcome \in Outcomes,
              Launch(w, n, outcome) \/ Terminate(w, n, outcome)
       PROVE  IInv'
  BY <1>13, LaunchStep, TerminateStep
<1> QED
  BY <1>1, <1>2, <1>3, <1>4, <1>5, <1>6, <1>7, <1>8, <1>9, <1>10, <1>11, <1>12, <1>13
     DEF RequestStep

\* Every step of a sweep keeps the invariant.
LEMMA SweepStepInv ==
  ASSUME IInv, NEW w \in Workers, SweepStep(w), UNCHANGED request
  PROVE  IInv'
<1>1. ASSUME NEW threshold \in BOOLEAN, NEW readable \in BOOLEAN,
             ReadConfig(w, threshold, readable)
      PROVE  IInv'
  BY <1>1, ReadConfigStep
<1>2. CASE ListRegions(w) \/ ListRegionsFails(w)
  BY <1>2, ListRegionsStep, ListRegionsFailsStep
<1>3. ASSUME NEW region \in Regions, ScanRegion(w, region) \/ ScanRegionFails(w, region)
      PROVE  IInv'
  BY <1>3, ScanRegionStep, ScanRegionFailsStep
<1>4. CASE Scanned(w) \/ NoSurvivor(w) \/ Unorderable(w) \/ Deduplicated(w)
  BY <1>4, ScannedStep, NoSurvivorStep, UnorderableStep, DeduplicatedStep
<1>5. ASSUME NEW n \in Nodes, OrderSurvivors(w, n) PROVE IInv'
  BY <1>5, OrderSurvivorsStep
<1>6. ASSUME NEW n \in Nodes, NEW outcome \in Outcomes, Reap(w, n, outcome) \/ Dedup(w, n,
       outcome)
      PROVE  IInv'
  BY <1>6, SafeTerminateStep DEF Reap, Dedup, Sweeping
<1>7. ASSUME NEW reading \in Readings, Check(w, reading) PROVE IInv'
  BY <1>7, CheckStep
<1>8. ASSUME NEW outcome \in Outcomes,
             Stamp(w, outcome) \/ Adopt(w, outcome) \/ ClearPointer(w, outcome)
      PROVE  IInv'
  BY <1>8, StampStep, AdoptStep, ClearPointerStep
<1>9. CASE LeavePointer(w)               BY <1>9, LeavePointerStep
<1>10. CASE SweepEnds(w) \/ SweepCrash(w)  BY <1>10, SweepEndSteps
<1> QED
  BY <1>1, <1>2, <1>3, <1>4, <1>5, <1>6, <1>7, <1>8, <1>9, <1>10 DEF SweepStep

\* The invariant is inductive.
LEMMA StepInv == IInv /\ [Next]_vars => IInv'
<1> SUFFICES ASSUME IInv, [Next]_vars PROVE IInv'
  OBVIOUS
<1>1. ASSUME NEW w \in Workers, RequestArrives(w) PROVE IInv'
  BY <1>1, ReceiveStep
<1>2. ASSUME NEW w \in Workers, SweepDue(w) PROVE IInv'
  BY <1>2, StartSweepStep
<1>3. ASSUME NEW w \in Workers, RequestStep(w), UNCHANGED sweep PROVE IInv'
  BY <1>3, RequestStepInv
<1>4. ASSUME NEW w \in Workers, SweepStep(w), UNCHANGED request PROVE IInv'
  BY <1>4, SweepStepInv
<1>5. CASE Environment
  BY <1>5, EnvironmentStep
<1>6. CASE UNCHANGED vars
  <2>1. UNCHANGED <<request, sweep>> /\ UNCHANGED cloudVars
    BY <1>6 DEF vars
  <2>2. HandlerTypeOK' /\ OneInvocation' /\ RequestShape' /\ LaunchGuarded' /\ DownCovers'
        /\ ReplyTracked'
    BY <2>1 DEF IInv, TypeInv, TypeOK, HandlerTypeOK, OneInvocation, RequestShape,
         LaunchGuarded,
                DownCovers, ReplyTracked, FindNodes, Live, Handling, Sweeping, cloudVars,
                       fleetVars
  <2> QED
    BY <2>1, <2>2, RequestOnly
<1> QED
  BY <1>1, <1>2, <1>3, <1>4, <1>5, <1>6 DEF Next

\* The inductive invariant holds of the deployed function: one invocation at a
\* time, one node in a region, an empty region from the guard of _up to its
\* launch, every node of the region on the list of _down, and every reported node
\* in the pointer's region.
THEOREM Invariance == Spec => []IInv
BY InitInv, StepInv, PTL DEF Spec

-----------------------------------------------------------------------------
(* What follows.                                                            *)

\* Every variable has its type: no step, in whatever order requests, sweeps,
\* failures and the owner's edits come, leaves a pointer without a region or a
\* node, or a node without a lifetime.
THEOREM TypeCorrect == Spec => []TypeOK
<1>1. IInv => TypeOK
  BY DEF IInv, TypeInv
<1> QED
  BY <1>1, Invariance, PTL

\* No region ever runs two nodes, however many workers there are: the guard of
\* _up and the concurrency limit of the function suffice.
THEOREM OneNode == Spec => []OneNodePerRegion
<1>1. IInv => OneNodePerRegion
  <2> SUFFICES ASSUME IInv, NEW region \in Regions
               PROVE  Cardinality(FindNodes(region)) <= 1
    BY DEF OneNodePerRegion
  <2>1. CASE FindNodes(region) = {}
    BY <2>1, FS_EmptySet
  <2>2. CASE FindNodes(region) # {}
    <3>1. PICK n \in FindNodes(region) : TRUE
      BY <2>2
    <3>2. FindNodes(region) = {n}
      BY <3>1 DEF IInv, Apart, FindNodes
    <3>3. Cardinality({n}) = 1
      BY FS_Singleton
    <3> QED
      BY <3>2, <3>3
  <2> QED
    BY <2>1, <2>2
<1> QED
  BY <1>1, Invariance, PTL

\* A down that replies 200 leaves no node running in the region it looked in.
THEOREM DownIsDone == Spec => []DownMeansGone
<1>1. IInv => DownMeansGone
  BY DEF IInv, DownCovers, DownMeansGone, At
<1> QED
  BY <1>1, Invariance, PTL

\* A node that up or status reports is in the region of the pointer.
THEOREM ReportedIsReachable == Spec => []ReportedNodeIsReachable
<1>1. IInv => ReportedNodeIsReachable
  BY DEF IInv, ReplyTracked, ReportedNodeIsReachable
<1> QED
  BY <1>1, Invariance, PTL

\* Nothing but a launch of up makes a node run.
LEMMA OnlyLaunchLaunches ==
  ASSUME IInv, Next, NEW n \in Nodes, status[n] = "unused", status'[n] = "live"
  PROVE  \E w \in Workers, m \in Nodes, outcome \in Outcomes : Launch(w, m, outcome)
<1>1. status' # status
  OBVIOUS
<1>2. ASSUME NEW w \in Workers, RequestStep(w),
             ~ \E m \in Nodes, outcome \in Outcomes : Launch(w, m, outcome)
      PROVE  FALSE
  <2>1. PICK m \in Nodes, outcome \in Outcomes : Terminate(w, m, outcome)
    BY <1>1, <1>2 DEF RequestStep, ReadPointer, PointerUnreadable, Describe, Choose, Reject,
         GuardPasses, Prepare, Redescribe, GuardFinds, Repair, Mint, Track, Clear, Locate, Scan,
         DownUntracked, CallFails, Return, Crash, cloudVars, fleetVars
  <2> QED
    BY <2>1 DEF Terminate, TerminateInstance, IInv, TypeInv, TypeOK, CloudTypeOK
<1>3. ASSUME NEW w \in Workers, SweepStep(w) PROVE FALSE
  <2>1. PICK m \in Nodes, outcome \in Outcomes : Reap(w, m, outcome) \/ Dedup(w, m, outcome)
    BY <1>1, <1>3 DEF SweepStep, ReadConfig, ListRegions, ListRegionsFails, ScanRegion,
         ScanRegionFails, Scanned, NoSurvivor, Unorderable, Deduplicated, OrderSurvivors, Check,
         Stamp, Adopt, ClearPointer, Reconcile, LeavePointer, SweepEnds, SweepCrash, cloudVars,
         fleetVars
  <2> QED
    BY <2>1 DEF Reap, Dedup, SafeTerminate, TerminateInstance, IInv, TypeInv, TypeOK,
         CloudTypeOK
<1>4. ASSUME Environment PROVE FALSE
  BY <1>4 DEF Environment, NodeEnds, TagEdited, LaunchTagEdited, ExpiryTagEdited,
       DefaultRegionSet, Tick, fleetVars, IInv, TypeInv, TypeOK, CloudTypeOK
<1>5. ASSUME NEW w \in Workers, RequestArrives(w) \/ SweepDue(w) PROVE FALSE
  BY <1>1, <1>5 DEF RequestArrives, Receive, SweepDue, StartSweep, cloudVars, fleetVars
<1> QED
  BY <1>2, <1>3, <1>4, <1>5 DEF Next

\* No launch while the tracked node, or another one in its region, is running.
THEOREM LaunchIsGuarded == Spec => NoLaunchOverTracked
<1>1. ASSUME IInv, [Next]_vars
      PROVE  [\A n \in Nodes : status[n] = "unused" /\ status'[n] = "live" /\ pointer # None
                               => FindNodes(pointer.region) = {}]_vars
  <2> SUFFICES ASSUME Next, NEW n \in Nodes, status[n] = "unused", status'[n] = "live",
                      pointer # None
               PROVE  FindNodes(pointer.region) = {}
    BY <1>1
  <2>1. PICK w \in Workers, m \in Nodes, outcome \in Outcomes : Launch(w, m, outcome)
    BY <1>1, OnlyLaunchLaunches
  <2> QED
    BY <1>1, <2>1 DEF Launch, IInv, LaunchGuarded
<1> QED
  BY <1>1, Invariance, PTL DEF Spec, NoLaunchOverTracked

\* Who writes the pointer while a request is under way.
LEMMA OnlyRequestsWrite ==
  ASSUME IInv, Next, NEW v \in Workers, Handling(v), pointer' # pointer
  PROVE  \E w \in Workers, outcome \in Outcomes :
            Repair(w, outcome) \/ Track(w, outcome) \/ Clear(w, outcome)
<1>1. ASSUME NEW w \in Workers, RequestStep(w)
      PROVE  \E outcome \in Outcomes : Repair(w, outcome) \/ Track(w, outcome) \/ Clear(w,
             outcome)
  BY <1>1 DEF RequestStep, ReadPointer, PointerUnreadable, Describe, Choose, Reject,
       GuardPasses,
       Prepare, Redescribe, GuardFinds, Mint, Launch, Locate, Scan, Terminate, DownUntracked,
       CallFails, Return, Crash, cloudVars
<1>2. ASSUME NEW w \in Workers, SweepStep(w) PROVE FALSE
  <2>1. Sweeping(w)
    BY <1>2 DEF SweepStep, ReadConfig, ListRegions, ListRegionsFails, ScanRegion,
         ScanRegionFails,
         Scanned, NoSurvivor, Unorderable, Deduplicated, OrderSurvivors, Reap, Dedup, Check,
         Stamp, Adopt, ClearPointer, Reconcile, LeavePointer, SweepEnds, SweepCrash, Sweeping
  <2> QED
    BY <2>1 DEF IInv, OneInvocation
<1>3. ASSUME Environment PROVE FALSE
  BY <1>3 DEF Environment, NodeEnds, TagEdited, LaunchTagEdited, ExpiryTagEdited,
       DefaultRegionSet, Tick
<1>4. ASSUME NEW w \in Workers, RequestArrives(w) \/ SweepDue(w) PROVE FALSE
  BY <1>4 DEF RequestArrives, Receive, SweepDue, StartSweep, cloudVars
<1> QED
  BY <1>1, <1>2, <1>3, <1>4 DEF Next

\* A request moves or clears the pointer only when the node it names is not
\* running.
THEOREM LiveNodeStaysTracked == Spec => RequestKeepsLiveNodeTracked
<1> DEFINE Kept == (\E w \in Workers : Handling(w)) /\ pointer # None /\ pointer' # pointer
                   => status[pointer.instance_id] # "live"
<1>1. ASSUME IInv, [Next]_vars
      PROVE  [Kept]_vars
  <2> SUFFICES ASSUME Next, NEW v \in Workers, Handling(v), pointer # None, pointer' # pointer
               PROVE  status[pointer.instance_id] # "live"
    BY <1>1
  <2>1. PICK w \in Workers, outcome \in Outcomes :
            Repair(w, outcome) \/ Track(w, outcome) \/ Clear(w, outcome)
    BY <1>1, OnlyRequestsWrite
  <2>2. CASE Repair(w, outcome) \/ Track(w, outcome)
    BY <1>1, <2>2 DEF Repair, Track, IInv, LaunchGuarded
  <2>3. CASE Clear(w, outcome)
    <3>1. FindNodes(pointer.region) = {}
      BY <1>1, <2>3 DEF Clear, Terminated, IInv, DownCovers
    <3>2. home[pointer.instance_id] = pointer.region /\ pointer.instance_id \in Nodes
      BY <1>1 DEF IInv, TypeInv, TypeOK, HomesKnown, CloudTypeOK, Pointers
    <3> QED
      BY <3>1, <3>2 DEF FindNodes, Live
  <2> QED
    BY <2>1, <2>2, <2>3
<1> QED
  BY <1>1, Invariance, PTL DEF Spec, RequestKeepsLiveNodeTracked

\* Only a mint makes a key.
LEMMA OnlyMintMakesKey ==
  ASSUME IInv, [Next]_vars, NEW w \in Workers, request'[w].key
  PROVE  request[w].key \/ request[w].step = "mint"
<1> USE DEF IInv, TypeInv, TypeOK, HandlerTypeOK, Request
<1>1. ASSUME NEW v \in Workers, RequestStep(v) PROVE request[w].key \/ request[w].step = "mint"
  <2>1. ASSUME NEW step, Goto(v, step) PROVE request[w].key
    BY <2>1 DEF Goto
  <2>2. ASSUME NEW code, NEW n, Reply(v, code, n) PROVE request[w].key
    BY <2>2 DEF Reply
  <2>3. ASSUME request' = [request EXCEPT ![v] = NoRequest] PROVE request[w].key
    BY <2>3 DEF NoRequest, Arrived
  <2>4. ASSUME ReadPointer(v) \/ Choose(v) \/ Locate(v) \/ Scan(v) PROVE request[w].key
    BY <2>4 DEF ReadPointer, Choose, Locate, Scan
  <2>5. ASSUME NEW n \in Nodes, GuardFinds(v, n) PROVE request[w].key
    BY <2>5 DEF GuardFinds
  <2>6. ASSUME NEW outcome \in Outcomes, Mint(v, outcome)
        PROVE  request[w].key \/ request[w].step = "mint"
    BY <2>6 DEF Mint
  <2>7. ASSUME NEW n \in Nodes, NEW outcome \in Outcomes, Launch(v, n, outcome)
        PROVE  request[w].key
    BY <2>7 DEF Launch
  <2>8. ASSUME NEW n \in Nodes, NEW outcome \in Outcomes, Terminate(v, n, outcome)
        PROVE  request[w].key
    BY <2>2, <2>8 DEF Terminate
  <2> QED
    BY <1>1, <2>1, <2>2, <2>3, <2>4, <2>5, <2>6, <2>7, <2>8
       DEF RequestStep, PointerUnreadable, Describe, Reject, GuardPasses, Prepare, Redescribe,
           Repair, Track, Clear, DownUntracked, CallFails, Return, Crash
<1>2. ASSUME NEW v \in Workers, RequestArrives(v) PROVE request[w].key
  BY <1>2 DEF RequestArrives, Receive, Arrived
<1>3. ASSUME UNCHANGED request PROVE request[w].key
  BY <1>3
<1> QED
  BY <1>1, <1>2, <1>3 DEF Next, SweepDue, Environment, vars

\* A key is left behind only by a failure at the mint, the launch or the write
\* of the pointer.
THEOREM KeyIsMintedLast == Spec => MintedLast
<1> DEFINE Last == \A w \in Workers :
                     request'[w].step = "reply" /\ request'[w].key /\ request'[w].code # 200
                     => request[w].step \in {"mint", "launch", "track", "reply"}
<1>1. ASSUME IInv, [Next]_vars
      PROVE  [Last]_vars
  BY <1>1, OnlyMintMakesKey DEF IInv, TypeInv, RequestShape
<1> QED
  BY <1>1, Invariance, PTL DEF Spec, MintedLast
=============================================================================
