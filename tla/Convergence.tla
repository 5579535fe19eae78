---------------------------- MODULE Convergence ----------------------------
(***************************************************************************)
(* What the hourly sweep is for: whatever requests, failures and crashes   *)
(* have left behind, sweeps that get their calls answered put it right.    *)
(*                                                                         *)
(* From some moment on (calm) no request arrives and the calls of a sweep  *)
(* that read the pointer, list and scan the regions, terminate nodes and   *)
(* write the pointer are answered.  A request that was running goes on as  *)
(* it likes, the idle check may go on failing, and nodes may still end,    *)
(* expire or have their tags edited.                                       *)
(***************************************************************************)
EXTENDS ControlPlane

VARIABLE calm

convergenceVars == <<vars, calm>>

CalmBegins == ~calm /\ calm' = TRUE /\ UNCHANGED vars

\* A step of a sweep whose calls are answered.
AnsweredSweepStep(w) ==
    \/ \E threshold \in BOOLEAN : ReadConfig(w, threshold, TRUE)
    \/ ListRegions(w)
    \/ \E region \in Regions : ScanRegion(w, region)
    \/ Scanned(w) \/ NoSurvivor(w) \/ Unorderable(w) \/ Deduplicated(w)
    \/ \E n \in Nodes : \/ OrderSurvivors(w, n)
                        \/ Reap(w, n, "ok")
                        \/ Dedup(w, n, "ok")
    \/ \E reading \in Readings : Check(w, reading)
    \/ \E outcome \in Outcomes : Stamp(w, outcome)
    \/ Adopt(w, "ok") \/ ClearPointer(w, "ok") \/ LeavePointer(w)
    \/ SweepEnds(w)

CalmNext ==
    \/ \E w \in Workers : \/ SweepDue(w)
                          \/ RequestStep(w) /\ UNCHANGED sweep
                          \/ AnsweredSweepStep(w) /\ UNCHANGED request
    \/ Environment

ConvergenceInit == Init /\ calm = FALSE

ConvergenceNext ==
    \/ CalmBegins
    \/ ~calm /\ Next /\ UNCHANGED calm
    \/ calm /\ CalmNext /\ UNCHANGED calm

\* The schedule starts a sweep every hour, and Lambda lets no invocation run for
\* more than 300 seconds: a request or a sweep that has begun goes on to its end.
Fairness ==
    /\ WF_convergenceVars(\E w \in Workers : SweepDue(w) /\ UNCHANGED calm)
    /\ \A w \in Workers :
        /\ WF_convergenceVars(RequestStep(w) /\ UNCHANGED <<sweep, calm>>)
        /\ WF_convergenceVars(AnsweredSweepStep(w) /\ UNCHANGED <<request, calm>>)

ConvergenceSpec == ConvergenceInit /\ [][ConvergenceNext]_convergenceVars /\ Fairness

-----------------------------------------------------------------------------
Unexpired == {n \in Live : ~IsExpired(n, clock)}

\* One node at most, not expired and tracked; without a node, no pointer.
InOrder ==
    /\ Live = Unexpired
    /\ Cardinality(Live) <= 1
    /\ \A n \in Live : pointer = [region |-> home[n], instance_id |-> n]
    /\ Live = {} => pointer = None

\* Nothing that a sweep goes by has failed so far.
Clean(s) == s.readable /\ ~s.scanFailed /\ s.stuck = {}

\* Once it is calm, a sweep for which nothing has failed goes on like that.  What it
\* leaves running is then one node, which was not expired when the sweep began and is
\* tracked; if it found none to keep, nothing runs and nothing is tracked.  It is another
\* matter if the nodes could not be put in order.
CalmSweepSettles ==
    [][calm => \A w \in Workers :
        Clean(sweep[w]) =>
            /\ Clean(sweep'[w])
            /\ sweep[w].step = "reconcile" /\ sweep'[w].step = "done" /\ sweep[w].orderable
               => /\ \A n \in Live : /\ pointer' = [region |-> home[n], instance_id |-> n]
                                     /\ ~IsExpired(n, sweep[w].now)
                  /\ sweep[w].candidate = None => Live = {} /\ pointer' = None]_convergenceVars

\* Once it is calm, the system comes into order and stays there, unless it is
\* left with several nodes whose launch tags do not tell which is the newest:
\* those the sweep leaves to their owner.
Converges == calm ~> [](InOrder \/ ~Orderable(Unexpired))
=============================================================================
