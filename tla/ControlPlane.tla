---------------------------- MODULE ControlPlane ----------------------------
(***************************************************************************)
(* The deployed function: requests and sweeps are invocations of the same  *)
(* Lambda function, over the same nodes and the same pointer, with what    *)
(* AWS, the nodes and their owner do in between.                           *)
(***************************************************************************)
EXTENDS Handler, Watchdog

vars == <<cloudVars, request, sweep>>

TypeOK == CloudTypeOK /\ HandlerTypeOK /\ WatchdogTypeOK

Init == CloudInit /\ HandlerInit /\ WatchdogInit

\* Mutant: no limit on concurrent invocations; a worker still does one thing at
\* a time.
AdmitAlways(w) == ~Handling(w) /\ ~Sweeping(w)

\* reserved_concurrent_executions = 1: an invocation starts only when no other
\* one, be it a request or a sweep, is running.
Admit(w) == \A v \in Workers : ~Handling(v) /\ ~Sweeping(v)

RequestArrives(w) ==
    /\ Admit(w)
    /\ \/ \E region \in Regions \cup {None, Malformed}, ttl \in Ttls :
            Receive(w, "up", region, ttl)
       \/ \E op \in {"down", "status"} : Receive(w, op, None, Never)
    /\ UNCHANGED sweep

SweepDue(w) == Admit(w) /\ StartSweep(w) /\ UNCHANGED request

\* A sweep looks at the tags of a node once, when it scans the node's region,
\* and nothing else looks at them: an edit that falls into a sweep is no
\* different from one before or after it.  The last-idle-alert tag decides about the
\* mail only: its edits are in IdleAlert.
TagEdited ==
    /\ \A w \in Workers : ~Sweeping(w)
    /\ \E n \in Editable : LaunchTagEdited(n) \/ ExpiryTagEdited(n)

Environment ==
    /\ \/ \E n \in Nodes : NodeEnds(n)
       \/ TagEdited
       \/ \E region \in Regions : DefaultRegionSet(region)
       \/ Tick
    /\ UNCHANGED <<request, sweep>>

Next ==
    \/ \E w \in Workers : \/ RequestArrives(w)
                          \/ SweepDue(w)
                          \/ RequestStep(w) /\ UNCHANGED sweep
                          \/ SweepStep(w) /\ UNCHANGED request
    \/ Environment

Spec == Init /\ [][Next]_vars

-----------------------------------------------------------------------------
\* Whose turn it is, and what Fleet sees of the nodes.
Turn ==
    CASE \E w \in Workers : Handling(w) -> "request"
      [] \E w \in Workers : Sweeping(w) -> "sweep"
      [] OTHER -> "free"

Spent == {[region |-> home[n], instance_id |-> n] : n \in {m \in Nodes : status[m] # "unused"}}

Abstract == INSTANCE Fleet WITH
    running <- [region \in Regions |-> FindNodes(region)],
    spent <- Spent,
    tracked <- pointer,
    turn <- Turn

\* Requests and sweeps, with everything that may fail and happen in between,
\* keep what Fleet promises.
ImplementsFleet == Abstract!FleetSpec

-----------------------------------------------------------------------------
(* Nodes and the pointer, while requests are handled.                       *)

\* Two ups never leave two nodes in a region: find_nodes before the launch and
\* one invocation at a time are all that keeps a double tap from paying twice.
OneNodePerRegion == \A region \in Regions : Cardinality(FindNodes(region)) <= 1

\* When down replies 200, no node is running in the region it looked in.
DownMeansGone ==
    \A w \in Workers :
        At(w, "down", "reply") /\ request[w].code = 200 => FindNodes(request[w].region) = {}

\* When up or status replies 200 and names a node, the pointer names that
\* node's region: a down that follows will find it.
ReportedNodeIsReachable ==
    \A w \in Workers :
        /\ request[w].step = "reply"
        /\ request[w].code = 200
        /\ request[w].node # None
        => pointer # None /\ pointer.region = home[request[w].node]

\* No node is launched while the tracked one, or any other in its region, runs.
\* A pointer that could not be read does not count as no pointer.
NoLaunchOverTracked ==
    [][\A n \in Nodes :
        status[n] = "unused" /\ status'[n] = "live" /\ pointer # None
        => FindNodes(pointer.region) = {}]_vars

\* A request does not take the pointer off a node that is running.
RequestKeepsLiveNodeTracked ==
    [][(\E w \in Workers : Handling(w)) /\ pointer # None /\ pointer' # pointer
       => status[pointer.instance_id] # "live"]_vars

\* A request that fails after the auth key was minted failed at the mint, at the
\* launch or at the write of the pointer: nothing else is left to fail by then.
MintedLast ==
    [][\A w \in Workers :
        request'[w].step = "reply" /\ request'[w].key /\ request'[w].code # 200
        => request[w].step \in {"mint", "launch", "track", "reply"}]_vars

-----------------------------------------------------------------------------
(* The sweep.                                                               *)

\* The sweep clears the pointer only if every node still running is one it
\* tried to terminate and was not answered.
ClearedOnlyWhenGone ==
    [][\A w \in Workers :
        sweep[w].step = "reconcile" /\ pointer # None /\ pointer' = None
        => Live \subseteq sweep[w].stuck]_vars

\* The sweep ends a node that is not expired only for another one it has seen,
\* was launched no earlier, and is to stay.
SweepSparesTheNewest ==
    [][\A w \in Workers, n \in Nodes :
        /\ sweep[w].step \in {"reap", "dedup"}
        /\ n \in sweep[w].todo
        /\ n \notin sweep'[w].todo
        /\ ~IsExpired(n, sweep[w].now)
        => \E m \in sweep[w].seen \ {n} :
              /\ m = sweep[w].candidate
              /\ ~IsExpired(m, sweep[w].now)
              /\ tags[m].launched # Malformed
              /\ tags[n].launched # Malformed
              /\ tags[m].launched >= tags[n].launched]_vars

\* A sweep that could read the pointer and reports no failure leaves at most one
\* node running, not expired and tracked.
NoSilentDrift ==
    \A w \in Workers :
        sweep[w].step = "done" /\ sweep[w].readable /\ ~sweep[w].alarm
        => \A n \in Live : /\ pointer # None
                           /\ pointer.instance_id = n
                           /\ ~IsExpired(n, sweep[w].now)

-----------------------------------------------------------------------------
(* Promises of the comments that the code does not keep.                    *)

\* watchdog.py:335-342: the pointer is reconciled in every sweep; the one exception
\* is a set of duplicates that cannot be put in order.
ReconciledUnlessUnorderable ==
    \A w \in Workers :
        /\ sweep[w].step = "done"
        /\ sweep[w].candidate # None
        /\ ~sweep[w].alarm
        => pointer # None /\ pointer.instance_id = sweep[w].candidate

\* watchdog.py:344-346: a node is adopted into an empty or stale pointer.  A
\* pointer is stale when its node is not running, or was told to terminate.
AdoptsOnlyOverStale ==
    [][\A w \in Workers :
        sweep[w].step = "reconcile" /\ pointer # None /\ pointer' # pointer
        => pointer.instance_id \notin Live \ sweep[w].stuck]_vars
=============================================================================
