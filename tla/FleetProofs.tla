---------------------------- MODULE FleetProofs ----------------------------
(***************************************************************************)
(* The control plane implements Fleet, for every set of regions, nodes and *)
(* workers: every step of a request, of a sweep or of their environment is *)
(* a step of Fleet, or one that Fleet does not see.                        *)
(***************************************************************************)
EXTENDS ControlPlaneProofs

Running == [region \in Regions |-> FindNodes(region)]
SameNodes == UNCHANGED <<status, home>>

-----------------------------------------------------------------------------
(* Whose turn it is.                                                        *)

LEMMA TurnIs ==
  ASSUME OneInvocation
  PROVE  /\ \A w \in Workers : Handling(w) => Turn = "request"
         /\ \A w \in Workers : Sweeping(w) => Turn = "sweep"
         /\ (\A w \in Workers : ~Handling(w) /\ ~Sweeping(w)) => Turn = "free"
BY DEF OneInvocation, Turn

LEMMA TurnWillBe ==
  ASSUME OneInvocation'
  PROVE  /\ \A w \in Workers : Handling(w)' => Turn' = "request"
         /\ \A w \in Workers : Sweeping(w)' => Turn' = "sweep"
         /\ (\A w \in Workers : ~Handling(w)' /\ ~Sweeping(w)') => Turn' = "free"
BY DEF OneInvocation, Turn

LEMMA Arrival ==
  ASSUME IInv, IInv', NEW w \in Workers, RequestArrives(w) \/ SweepDue(w)
  PROVE  Turn = "free" /\ Turn' \in {"request", "sweep"} /\ UNCHANGED cloudVars
<1>. OneInvocation /\ OneInvocation' /\ HandlerTypeOK /\ WatchdogTypeOK
  BY DEF IInv, TypeInv, TypeOK
<1>1. Turn = "free"
  BY TurnIs DEF RequestArrives, SweepDue, Admit
<1>2. CASE RequestArrives(w)
  <2>1. Handling(w)' /\ UNCHANGED cloudVars
    BY <1>2 DEF RequestArrives, Receive, Handling, Arrived, HandlerTypeOK
  <2>. QED
    BY <1>1, <2>1, TurnWillBe
<1>3. CASE SweepDue(w)
  <2>1. Sweeping(w)' /\ UNCHANGED cloudVars
    BY <1>3 DEF SweepDue, StartSweep, Sweeping, NoSweep, WatchdogTypeOK
  <2>. QED
    BY <1>1, <2>1, TurnWillBe
<1>. QED
  BY <1>2, <1>3

LEMMA Departure ==
  ASSUME IInv, IInv', NEW w \in Workers,
         \/ (Return(w) \/ Crash(w)) /\ UNCHANGED sweep
         \/ (SweepEnds(w) \/ SweepCrash(w)) /\ UNCHANGED request
  PROVE  Turn' = "free" /\ UNCHANGED cloudVars
<1>. OneInvocation /\ OneInvocation' /\ HandlerTypeOK /\ WatchdogTypeOK
  BY DEF IInv, TypeInv, TypeOK
<1>1. CASE (Return(w) \/ Crash(w)) /\ UNCHANGED sweep
  <2>1. Handling(w) /\ request' = [request EXCEPT ![w] = NoRequest] /\ UNCHANGED cloudVars
    BY <1>1 DEF Return, Crash, Handling
  <2>2. NoRequest.step = "idle"
    BY DEF NoRequest, Arrived
  <2>3. \A v \in Workers : ~Handling(v)' /\ ~Sweeping(v)'
    BY <1>1, <2>1, <2>2 DEF OneInvocation, Handling, Sweeping, HandlerTypeOK
  <2>. QED
    BY <2>1, <2>3, TurnWillBe
<1>2. CASE (SweepEnds(w) \/ SweepCrash(w)) /\ UNCHANGED request
  <2>1. Sweeping(w) /\ sweep' = [sweep EXCEPT ![w] = NoSweep] /\ UNCHANGED cloudVars
    BY <1>2 DEF SweepEnds, SweepCrash, Sweeping
  <2>2. \A v \in Workers : ~Handling(v)' /\ ~Sweeping(v)'
    BY <1>2, <2>1, NoSweepType DEF OneInvocation, Handling, Sweeping, WatchdogTypeOK
  <2>. QED
    BY <2>1, <2>2, TurnWillBe
<1>. QED
  BY <1>1, <1>2

\* Any other step of a request or a sweep keeps the turn.
RequestWorks(w) == RequestStep(w) /\ UNCHANGED sweep /\ ~Return(w) /\ ~Crash(w)
SweepWorks(w) == SweepStep(w) /\ UNCHANGED request /\ ~SweepEnds(w) /\ ~SweepCrash(w)

LEMMA RequestGoesOn ==
  ASSUME HandlerTypeOK, NEW w \in Workers, RequestStep(w), ~Return(w), ~Crash(w)
  PROVE  Handling(w) /\ Handling(w)'
<1>. USE DEF HandlerTypeOK, Request, Handling, Goto, Reply
<1>1. CASE ReadPointer(w) \/ PointerUnreadable(w) \/ Describe(w) \/ Choose(w) \/ Reject(w)
  BY <1>1 DEF ReadPointer, PointerUnreadable, Describe, Choose, Reject
<1>2. CASE GuardPasses(w) \/ Prepare(w) \/ Redescribe(w) \/ \E n \in Nodes : GuardFinds(w, n)
  <2>1. CASE GuardPasses(w) \/ Prepare(w)
    BY <2>1 DEF GuardPasses, AfterUpCall, Prepare
  <2>2. CASE Redescribe(w)
    BY <2>2 DEF Redescribe
  <2>3. CASE \E n \in Nodes : GuardFinds(w, n)
    BY <2>3 DEF GuardFinds
  <2>. QED
    BY <1>2, <2>1, <2>2, <2>3
<1>3. CASE \E outcome \in Outcomes : \/ Repair(w, outcome) \/ Mint(w, outcome)
                                     \/ Track(w, outcome) \/ Clear(w, outcome)
  <2>1. CASE \E outcome \in Outcomes : Repair(w, outcome) \/ Track(w, outcome)
    BY <2>1 DEF Repair, Track
  <2>2. CASE \E outcome \in Outcomes : Mint(w, outcome)
    BY <2>2 DEF Mint, AfterUpCall
  <2>3. CASE \E outcome \in Outcomes : Clear(w, outcome)
    BY <2>3 DEF Clear, Terminated
  <2>. QED
    BY <1>3, <2>1, <2>2, <2>3
<1>4. CASE \E n \in Nodes, outcome \in Outcomes : Launch(w, n, outcome) \/ Terminate(w, n, outcome)
  BY <1>4 DEF Launch, Terminate
<1>5. CASE Locate(w) \/ Scan(w) \/ DownUntracked(w) \/ CallFails(w)
  BY <1>5 DEF Locate, Scan, DownUntracked, Terminated, CallFails
<1>. QED
  BY <1>1, <1>2, <1>3, <1>4, <1>5 DEF RequestStep

LEMMA SweepGoesOn ==
  ASSUME WatchdogTypeOK, NEW w \in Workers, SweepStep(w), ~SweepEnds(w), ~SweepCrash(w)
  PROVE  Sweeping(w) /\ Sweeping(w)'
<1>. USE DEF WatchdogTypeOK, Sweep, Sweeping
<1>1. CASE \/ \E threshold, readable \in BOOLEAN : ReadConfig(w, threshold, readable)
           \/ ListRegions(w) \/ ListRegionsFails(w)
           \/ \E region \in Regions : ScanRegion(w, region) \/ ScanRegionFails(w, region)
  <2>1. CASE \E threshold, readable \in BOOLEAN : ReadConfig(w, threshold, readable)
    BY <2>1 DEF ReadConfig
  <2>2. CASE ListRegions(w) \/ ListRegionsFails(w)
    BY <2>2 DEF ListRegions, ListRegionsFails
  <2>3. CASE \E region \in Regions : ScanRegion(w, region) \/ ScanRegionFails(w, region)
    BY <2>3 DEF ScanRegion, ScanRegionFails
  <2>. QED
    BY <1>1, <2>1, <2>2, <2>3
<1>2. CASE \/ Scanned(w) \/ NoSurvivor(w) \/ Unorderable(w) \/ Deduplicated(w)
           \/ \E n \in Nodes : OrderSurvivors(w, n)
  BY <1>2 DEF Scanned, NoSurvivor, Unorderable, Deduplicated, OrderSurvivors
<1>3. CASE \E n \in Nodes, outcome \in Outcomes : Reap(w, n, outcome) \/ Dedup(w, n, outcome)
  BY <1>3 DEF Reap, Dedup, SafeTerminate
<1>4. CASE \E reading \in Readings : Check(w, reading)
  BY <1>4 DEF Check
<1>5. CASE \E outcome \in Outcomes : Stamp(w, outcome) \/ Adopt(w, outcome) \/ ClearPointer(w, outcome)
  BY <1>5 DEF Stamp, Adopt, ClearPointer, Reconcile
<1>6. CASE LeavePointer(w)
  BY <1>6 DEF LeavePointer
<1>. QED
  BY <1>1, <1>2, <1>3, <1>4, <1>5, <1>6 DEF SweepStep

LEMMA RequestTurn ==
  ASSUME IInv, IInv', NEW w \in Workers, RequestWorks(w)
  PROVE  Turn = "request" /\ Turn' = "request" /\ Handling(w)
<1>. OneInvocation /\ OneInvocation' /\ HandlerTypeOK
  BY DEF IInv, TypeInv, TypeOK
<1>. QED
  BY RequestGoesOn, TurnIs, TurnWillBe DEF RequestWorks

LEMMA SweepTurn ==
  ASSUME IInv, IInv', NEW w \in Workers, SweepWorks(w)
  PROVE  Turn = "sweep" /\ Turn' = "sweep"
<1>. OneInvocation /\ OneInvocation' /\ WatchdogTypeOK
  BY DEF IInv, TypeInv, TypeOK
<1>. QED
  BY SweepGoesOn, TurnIs, TurnWillBe DEF SweepWorks

-----------------------------------------------------------------------------
(* What Fleet sees of a step.                                               *)

\* The pointer names a node that was launched.
LEMMA TrackedIsSpent == ASSUME TypeInv PROVE pointer \in Spent \cup {None}
BY DEF TypeInv, TypeOK, CloudTypeOK, Pointers, HomesKnown, Spent

LEMMA TrackedWillBeSpent == ASSUME TypeInv' PROVE pointer' \in Spent' \cup {None}
BY DEF TypeInv, TypeOK, CloudTypeOK, Pointers, HomesKnown, Spent

LEMMA NodesUnseen ==
  ASSUME SameNodes
  PROVE  Running' = Running /\ Spent' = Spent
BY DEF SameNodes, Running, FindNodes, Live, Spent

\* A node that ends is taken out of the nodes of its region, and stays spent.
LEMMA NodeEndsSeen ==
  ASSUME TypeInv, NEW n \in Nodes, status[n] = "live",
         status' = [status EXCEPT ![n] = "gone"], UNCHANGED <<home, pointer>>, Turn' = Turn
  PROVE  \E region \in Regions : Abstract!End(n, region)
<1>. DEFINE region == home[n]
<1>. /\ region \in Regions
     /\ status \in [Nodes -> Statuses]
  BY DEF TypeInv, TypeOK, CloudTypeOK, HomesKnown
<1>1. \A m \in Nodes : status'[m] = IF m = n THEN "gone" ELSE status[m]
  OBVIOUS
<1>2. \A other \in Regions :
        FindNodes(other)' = IF other = region THEN FindNodes(region) \ {n} ELSE FindNodes(other)
  BY <1>1 DEF FindNodes, Live
<1>3. Running' = [Running EXCEPT ![region] = @ \ {n}]
  BY <1>2 DEF Running
<1>4. Spent' = Spent
  BY <1>1 DEF Spent
<1>5. n \in Running[region]
  BY DEF Running, FindNodes, Live
<1>. QED
  BY <1>3, <1>4, <1>5 DEF Abstract!End, Running

\* terminate_instances ends a node, or changes nothing that Fleet sees.
LEMMA TerminationSeen ==
  ASSUME TypeInv, NEW n \in Nodes, status[n] # "unused", NEW outcome \in Outcomes,
         TerminateInstance(n, outcome), pointer' = pointer, Turn' = Turn
  PROVE  \/ SameNodes
         \/ \E region \in Regions : Abstract!End(n, region)
<1>. status \in [Nodes -> Statuses]
  BY DEF TypeInv, TypeOK, CloudTypeOK
<1>1. CASE ~TookEffect(outcome)
  BY <1>1 DEF TerminateInstance, SameNodes
<1>2. CASE TookEffect(outcome) /\ status[n] = "gone"
  BY <1>2 DEF TerminateInstance, SameNodes
<1>3. CASE TookEffect(outcome) /\ status[n] = "live"
  BY <1>3, NodeEndsSeen DEF TerminateInstance
<1>. QED
  BY <1>1, <1>2, <1>3 DEF Statuses

\* run_instances launches where nothing runs, and so does Fleet.
LEMMA LaunchSeen ==
  ASSUME IInv, IInv', NEW w \in Workers, NEW n \in Nodes, NEW outcome \in Outcomes,
         Launch(w, n, outcome), Turn = "request", Turn' = "request"
  PROVE  Abstract!Launch(n, request[w].region)
<1>. DEFINE region == request[w].region
<1>. USE DEF IInv, TypeInv, TypeOK
<1>1. /\ region \in Regions
      /\ FindNodes(region) = {}
      /\ pointer # None => FindNodes(pointer.region) = {} /\ pointer.region \in Regions
  BY DEF Launch, RequestShape, LaunchGuarded, CloudTypeOK, Pointers
<1>2. /\ status[n] = "unused"
      /\ status' = [status EXCEPT ![n] = "live"]
      /\ home' = [home EXCEPT ![n] = region]
      /\ pointer' = pointer
  BY DEF Launch, RunInstance
<1>3. \A m \in Nodes : /\ status'[m] = IF m = n THEN "live" ELSE status[m]
                       /\ home'[m] = IF m = n THEN region ELSE home[m]
  BY <1>2 DEF CloudTypeOK
<1>. HIDE DEF region
<1>4. \A other \in Regions :
        FindNodes(other)' = IF other = region THEN {n} ELSE FindNodes(other)
  BY <1>1, <1>2, <1>3 DEF FindNodes, Live
<1>5. Running' = [Running EXCEPT ![region] = {n}]
  BY <1>4 DEF Running
<1>6. Spent' = Spent \cup {[region |-> region, instance_id |-> n]}
  BY <1>2, <1>3 DEF Spent
<1>7. \A entry \in Spent : entry.instance_id # n
  BY <1>2 DEF Spent
<1>. QED
  BY <1>1, <1>2, <1>5, <1>6, <1>7 DEF Abstract!Launch, Abstract!Entry, Running, region

\* A request writes the pointer over a node that does not run.
LEMMA WriteSeen ==
  ASSUME IInv, IInv', NEW w \in Workers, NEW outcome \in Outcomes,
         Repair(w, outcome) \/ Track(w, outcome) \/ Clear(w, outcome),
         Turn = "request", Turn' = "request"
  PROVE  SameNodes /\ (pointer' = pointer \/ Abstract!Track)
<1>. USE DEF IInv
<1>1. SameNodes
  BY DEF Repair, Track, Clear, SameNodes, fleetVars
<1>2. Running' = Running /\ Spent' = Spent /\ pointer' \in Spent \cup {None}
  BY <1>1, NodesUnseen, TrackedWillBeSpent
<1>3. pointer # None => pointer.region \in Regions /\ pointer.instance_id \in Nodes
  BY DEF TypeInv, TypeOK, CloudTypeOK, Pointers
<1>4. ASSUME pointer # None PROVE pointer.instance_id \notin FindNodes(pointer.region)
  <2>1. CASE Repair(w, outcome) \/ Track(w, outcome)
    BY <1>4, <2>1 DEF Repair, Track, LaunchGuarded, FindNodes, Live
  <2>2. CASE Clear(w, outcome)
    BY <1>4, <2>2 DEF Clear, Terminated, DownCovers
  <2>. QED
    BY <2>1, <2>2
<1>5. Abstract!Track
  BY <1>2, <1>3, <1>4 DEF Abstract!Track, Abstract!Runs, Running
<1>. QED
  BY <1>1, <1>5

-----------------------------------------------------------------------------
(* The refinement.                                                          *)

LEMMA InitSeen == Init => Abstract!FleetInit
BY DEF Init, CloudInit, HandlerInit, WatchdogInit, Abstract!FleetInit, FindNodes, Live, Spent, Turn,
       Handling, Sweeping, NoRequest, Arrived, NoSweep

LEMMA Unseen ==
  ASSUME SameNodes, pointer' = pointer, Turn' = Turn
  PROVE  UNCHANGED Abstract!fleet
BY NodesUnseen DEF Abstract!fleet, Running

LEMMA RequestSeen ==
  ASSUME IInv, IInv', NEW w \in Workers, RequestWorks(w)
  PROVE  [Abstract!FleetNext]_(Abstract!fleet)
<1>. TypeInv /\ Turn = "request" /\ Turn' = "request"
  BY RequestTurn DEF IInv
<1>1. CASE UNCHANGED cloudVars
  BY <1>1, Unseen DEF cloudVars, fleetVars, SameNodes
<1>2. CASE \E outcome \in Outcomes : Repair(w, outcome) \/ Track(w, outcome) \/ Clear(w, outcome)
  BY <1>2, WriteSeen, Unseen DEF Abstract!FleetNext
<1>3. CASE \E n \in Nodes, outcome \in Outcomes : Launch(w, n, outcome)
  <2>1. PICK n \in Nodes, outcome \in Outcomes : Launch(w, n, outcome)
    BY <1>3
  <2>2. Abstract!Launch(n, request[w].region)
    BY <2>1, LaunchSeen
  <2>3. request[w].region \in Regions
    BY <2>1 DEF Launch, TypeInv, RequestShape
  <2>. QED
    BY <2>2, <2>3 DEF Abstract!FleetNext
<1>4. CASE \E n \in Nodes, outcome \in Outcomes : Terminate(w, n, outcome)
  <2>1. PICK n \in Nodes, outcome \in Outcomes : Terminate(w, n, outcome)
    BY <1>4
  <2>2. TerminateInstance(n, outcome) /\ status[n] # "unused" /\ pointer' = pointer
    BY <2>1 DEF Terminate, TypeInv, RequestShape
  <2>3. SameNodes \/ \E region \in Regions : Abstract!End(n, region)
    BY <2>2, TerminationSeen
  <2>. QED
    BY <2>2, <2>3, Unseen DEF Abstract!FleetNext
<1>. QED
  BY <1>1, <1>2, <1>3, <1>4
     DEF RequestWorks, RequestStep, ReadPointer, PointerUnreadable, Describe, Choose, Reject, GuardPasses,
         Prepare, Redescribe, GuardFinds, Mint, Locate, Scan, DownUntracked, CallFails

LEMMA SweepSeen ==
  ASSUME IInv, IInv', NEW w \in Workers, SweepWorks(w)
  PROVE  [Abstract!FleetNext]_(Abstract!fleet)
<1>. TypeInv /\ TypeInv' /\ Turn = "sweep" /\ Turn' = "sweep"
  BY SweepTurn DEF IInv
<1>1. CASE UNCHANGED <<status, home, pointer>>
  BY <1>1, Unseen DEF SameNodes
<1>2. CASE \E outcome \in Outcomes : Adopt(w, outcome) \/ ClearPointer(w, outcome)
  <2>1. SameNodes
    BY <1>2 DEF Adopt, ClearPointer, Reconcile, fleetVars, SameNodes
  <2>2. Running' = Running /\ Spent' = Spent /\ pointer' \in Spent \cup {None}
    BY <2>1, NodesUnseen, TrackedWillBeSpent
  <2>. QED
    BY <2>2 DEF Abstract!FleetNext, Abstract!Correct, Running
<1>3. CASE \E n \in Nodes, outcome \in Outcomes : Reap(w, n, outcome) \/ Dedup(w, n, outcome)
  <2>1. PICK n \in Nodes, outcome \in Outcomes : SafeTerminate(w, n, outcome)
    BY <1>3 DEF Reap, Dedup
  <2>2. TerminateInstance(n, outcome) /\ status[n] # "unused" /\ pointer' = pointer
    BY <2>1 DEF SafeTerminate, TypeInv, SweepShape
  <2>3. SameNodes \/ \E region \in Regions : Abstract!End(n, region)
    BY <2>2, TerminationSeen
  <2>. QED
    BY <2>2, <2>3, Unseen DEF Abstract!FleetNext
<1>. QED
  BY <1>1, <1>2, <1>3
     DEF SweepWorks, SweepStep, ReadConfig, ListRegions, ListRegionsFails, ScanRegion, ScanRegionFails,
         Scanned, NoSurvivor, Unorderable, Deduplicated, OrderSurvivors, Check, Stamp, LeavePointer,
         cloudVars, fleetVars

LEMMA EnvironmentSeen ==
  ASSUME IInv, Environment
  PROVE  [Abstract!FleetNext]_(Abstract!fleet)
<1>. TypeInv
  BY DEF IInv
<1>1. Turn' = Turn
  BY DEF Environment, Turn, Handling, Sweeping
<1>2. CASE UNCHANGED <<status, home, pointer>>
  BY <1>1, <1>2, Unseen DEF SameNodes
<1>3. CASE \E n \in Nodes : NodeEnds(n)
  BY <1>1, <1>3, NodeEndsSeen DEF NodeEnds, Abstract!FleetNext
<1>. QED
  BY <1>2, <1>3 DEF Environment, TagEdited, LaunchTagEdited, ExpiryTagEdited, DefaultRegionSet, Tick,
                    fleetVars

\* Requests and sweeps, with all that may fail and happen in between, keep what
\* Fleet promises: a launch only where nothing runs, one turn at a time, and a
\* tracked node that runs left alone by requests.
THEOREM FleetIsImplemented == Spec => ImplementsFleet
<1>1. ASSUME IInv, IInv', [Next]_vars
      PROVE  [Abstract!FleetNext]_(Abstract!fleet)
  <2>1. CASE UNCHANGED vars
    BY <2>1, Unseen DEF vars, cloudVars, fleetVars, SameNodes, Turn, Handling, Sweeping
  <2>2. CASE Environment
    BY <1>1, <2>2, EnvironmentSeen
  <2>3. ASSUME NEW w \in Workers,
               \/ RequestArrives(w) \/ SweepDue(w)
               \/ RequestStep(w) /\ UNCHANGED sweep
               \/ SweepStep(w) /\ UNCHANGED request
        PROVE  [Abstract!FleetNext]_(Abstract!fleet)
    <3>1. CASE RequestWorks(w) \/ SweepWorks(w)
      BY <1>1, <3>1, RequestSeen, SweepSeen
    <3>2. CASE RequestArrives(w) \/ SweepDue(w)
      <4>1. Turn = "free" /\ Turn' \in {"request", "sweep"} /\ UNCHANGED cloudVars
        BY <1>1, <3>2, Arrival
      <4>2. Running' = Running /\ Spent' = Spent /\ pointer' = pointer
        BY <4>1, NodesUnseen DEF cloudVars, fleetVars, SameNodes
      <4>. QED
        BY <4>1, <4>2 DEF Abstract!FleetNext, Abstract!TakeTurn, Running
    <3>3. CASE \/ (Return(w) \/ Crash(w)) /\ UNCHANGED sweep
               \/ (SweepEnds(w) \/ SweepCrash(w)) /\ UNCHANGED request
      <4>1. Turn' = "free" /\ UNCHANGED cloudVars
        BY <1>1, <3>3, Departure
      <4>2. Running' = Running /\ Spent' = Spent /\ pointer' = pointer
        BY <4>1, NodesUnseen DEF cloudVars, fleetVars, SameNodes
      <4>. QED
        BY <4>1, <4>2 DEF Abstract!FleetNext, Abstract!GiveBack, Running
    <3>. QED
      BY <2>3, <3>1, <3>2, <3>3 DEF RequestWorks, SweepWorks
  <2>. QED
    BY <1>1, <2>1, <2>2, <2>3 DEF Next
<1>. QED
  BY <1>1, InitSeen, Invariance, PTL DEF Spec, ImplementsFleet, Abstract!FleetSpec

-----------------------------------------------------------------------------
(* What Fleet says by itself.                                               *)

\* Fleet's own invariant: no two nodes run in a region.
FleetApart == \A region \in Regions : \A m, n \in Running[region] : m = n

LEMMA FleetKeepsApart ==
  ASSUME FleetApart, [Abstract!FleetNext]_(Abstract!fleet)
  PROVE  FleetApart'
<1>1. CASE UNCHANGED Running
  BY <1>1 DEF FleetApart
<1>2. ASSUME NEW n \in Nodes, NEW region \in Regions, Abstract!Launch(n, region)
      PROVE  FleetApart'
  <2>1. Running' = [Running EXCEPT ![region] = {n}]
    BY <1>2 DEF Abstract!Launch, Running
  <2>2. Running'[region] = {n} /\ \A other \in Regions \ {region} : Running'[other] = Running[other]
    BY <2>1 DEF Running
  <2>. QED
    BY <2>2 DEF FleetApart
<1>3. ASSUME NEW n \in Nodes, NEW region \in Regions, Abstract!End(n, region)
      PROVE  FleetApart'
  <2>1. Running' = [Running EXCEPT ![region] = @ \ {n}]
    BY <1>3 DEF Abstract!End, Running
  <2>2. \A other \in Regions : Running'[other] \subseteq Running[other]
    BY <2>1 DEF Running
  <2>. QED
    BY <2>2 DEF FleetApart
<1>. QED
  BY <1>1, <1>2, <1>3 DEF Abstract!FleetNext, Abstract!fleet, Abstract!TakeTurn, Abstract!GiveBack,
                          Abstract!Track, Abstract!Correct, Running

\* Fleet alone is enough for one node per region: whatever implements it, with its own
\* calls and failures, never pays for two nodes in a region.
THEOREM FleetIsEnough == ImplementsFleet => []OneNodePerRegion
<1>1. Abstract!FleetInit => FleetApart
  BY DEF Abstract!FleetInit, FleetApart, Running
<1>2. FleetApart => OneNodePerRegion
  <2>. SUFFICES ASSUME FleetApart, NEW region \in Regions
                PROVE  Cardinality(FindNodes(region)) <= 1
    BY DEF OneNodePerRegion
  <2>1. \A m, n \in FindNodes(region) : m = n
    BY DEF FleetApart, Running
  <2>2. CASE FindNodes(region) = {}
    BY <2>2, FS_EmptySet
  <2>3. CASE FindNodes(region) # {}
    <3>1. PICK n \in FindNodes(region) : FindNodes(region) = {n}
      BY <2>1, <2>3
    <3>. QED
      BY <3>1, FS_Singleton
  <2>. QED
    BY <2>2, <2>3
<1>. QED
  BY <1>1, <1>2, FleetKeepsApart, PTL DEF ImplementsFleet, Abstract!FleetSpec
=============================================================================
