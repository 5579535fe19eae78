---------------------------- MODULE SweepProofs ----------------------------
(***************************************************************************)
(* What a sweep may end and clear, that its silence means order, and that  *)
(* a sweep whose calls are answered leaves order, for every set of         *)
(* regions, nodes and workers and every bound on the clock.                *)
(***************************************************************************)
EXTENDS ControlPlaneProofs, Convergence

-----------------------------------------------------------------------------
(* The inductive invariant.                                                 *)

Scanning == {"scan", "reap", "dedup", "check", "stamp", "reconcile"}
AfterScan == Scanning \ {"scan"}
AfterReap == AfterScan \ {"reap"}

\* A sweep begins with nothing found and nothing gone wrong.
BeginsFresh(s) ==
    /\ s.step \in {"config", "regions", "scan", "reap"} => s.candidate = None /\ s.orderable
    /\ s.step \in {"config", "regions"} => s.stuck = {} /\ ~s.scanFailed

\* What goes wrong is reported.
Reports(s) ==
    s.step # "idle" /\ (s.scanFailed \/ s.stuck # {} \/ ~s.orderable) => s.alarm

\* The pointer is still what the sweep has read.
ReadStays(s) ==
    s.step \in {"regions"} \cup Scanning /\ s.readable => s.ptr = pointer

\* A node that runs has been seen, or its region is still to be scanned, or could
\* not be.
Seen(s) ==
    /\ s.step \in Scanning => \A n \in Live : home[n] \in s.scan \/ n \in s.seen \/ s.scanFailed
    /\ s.step \in AfterScan => s.scan = {}

Ended(s, n) == n \notin Live \/ n \in s.stuck

\* What is expired is ended, or on the list.
Reaps(s) ==
    s.step = "reap"
    => /\ \A n \in s.todo : IsExpired(n, s.now)
       /\ \A n \in s.seen : IsExpired(n, s.now) => n \in s.todo \/ Ended(s, n)

\* Of what was seen all but the candidate is ended, or on the list; unless the
\* survivors could not be put in order.
SparesOne(s) ==
    /\ s.step \in AfterReap /\ s.candidate # None => ~IsExpired(s.candidate, s.now)
    /\ s.step \in {"dedup", "check", "stamp"} => s.candidate # None /\ s.orderable
    /\ s.step \in AfterReap /\ s.orderable
       => \A n \in s.seen : n = s.candidate \/ n \in s.todo \/ Ended(s, n)
    /\ s.step \in {"check", "stamp", "reconcile"} => s.todo = {}

\* A duplicate on the list is older than the candidate.
OlderOnes(s) ==
    s.step = "dedup"
    => \A n \in s.todo : /\ n # s.candidate
                         /\ tags[n].launched # Malformed
                         /\ tags[s.candidate].launched # Malformed
                         /\ tags[s.candidate].launched >= tags[n].launched

\* A sweep that ends in silence leaves order.
EndsInOrder(s) ==
    s.step = "done" /\ s.readable /\ ~s.alarm
    => \A n \in Live : pointer # None /\ pointer.instance_id = n /\ ~IsExpired(n, s.now)

SweptAt(w) ==
    LET s == sweep[w]
    IN  /\ BeginsFresh(s) /\ Reports(s) /\ ReadStays(s) /\ Seen(s)
        /\ Reaps(s) /\ SparesOne(s) /\ OlderOnes(s) /\ EndsInOrder(s)

SweepInv == \A w \in Workers : SweptAt(w)

-----------------------------------------------------------------------------
(* Steps of a sweep.                                                        *)

\* Only one sweep is under way, so only that one is looked at.
LEMMA OnlyThisSweep ==
  ASSUME IInv, NEW w \in Workers, Sweeping(w),
         \A v \in Workers \ {w} : sweep'[v] = sweep[v], SweptAt(w)'
  PROVE  SweepInv'
<1>. SUFFICES ASSUME NEW v \in Workers \ {w} PROVE SweptAt(v)'
  BY DEF SweepInv
<1>1. sweep'[v].step = "idle"
  BY DEF IInv, OneInvocation, Sweeping
<1>. QED
  BY <1>1 DEF SweptAt, BeginsFresh, Reports, ReadStays, Seen, Reaps, SparesOne, OlderOnes, EndsInOrder,
              Scanning, AfterScan, AfterReap

\* A sweep that is over says nothing.
LEMMA IdleSays ==
  ASSUME NEW w \in Workers, sweep'[w].step = "idle"
  PROVE  SweptAt(w)'
BY DEF SweptAt, BeginsFresh, Reports, ReadStays, Seen, Reaps, SparesOne, OlderOnes, EndsInOrder,
       Scanning, AfterScan, AfterReap

\* What ReadConfig leaves in the record of a sweep.
LEMMA ConfigRead ==
  ASSUME WatchdogTypeOK, NEW w \in Workers, NEW threshold \in BOOLEAN, NEW readable \in BOOLEAN,
         ReadConfig(w, threshold, readable)
  PROVE  /\ sweep[w].step = "config" /\ sweep'[w].step = "regions"
         /\ sweep'[w].candidate = sweep[w].candidate /\ sweep'[w].orderable = sweep[w].orderable
         /\ sweep'[w].stuck = sweep[w].stuck /\ sweep'[w].scanFailed = sweep[w].scanFailed
         /\ sweep'[w].readable => sweep'[w].ptr = pointer
         /\ UNCHANGED cloudVars
         /\ \A v \in Workers \ {w} : sweep'[v] = sweep[v]
<1>. USE DEF WatchdogTypeOK, Sweep, ReadConfig
<1>1. sweep[w].step = "config" /\ sweep'[w].step = "regions"
  OBVIOUS
<1>2. sweep'[w].candidate = sweep[w].candidate /\ sweep'[w].stuck = sweep[w].stuck
  OBVIOUS
<1>3. sweep'[w].orderable = sweep[w].orderable /\ sweep'[w].scanFailed = sweep[w].scanFailed
  OBVIOUS
<1>4. sweep'[w].readable = readable
  OBVIOUS
<1>5. sweep'[w].ptr = IF readable THEN pointer ELSE None
  OBVIOUS
<1>. QED
  BY <1>1, <1>2, <1>3, <1>4, <1>5

\* The steps up to the end of the scan only read.
LEMMA BeginSteps ==
  ASSUME IInv, SweepInv, NEW w \in Workers,
         \/ \E threshold, readable \in BOOLEAN : ReadConfig(w, threshold, readable)
         \/ ListRegions(w) \/ ListRegionsFails(w)
  PROVE  Sweeping(w) /\ SweptAt(w)' /\ \A v \in Workers \ {w} : sweep'[v] = sweep[v]
<1>. USE DEF IInv, TypeInv, TypeOK, WatchdogTypeOK, Sweep, Sweeping
<1>. SweptAt(w)
  BY DEF SweepInv
<1>1. CASE \E threshold, readable \in BOOLEAN : ReadConfig(w, threshold, readable)
  <2>1. PICK threshold, readable \in BOOLEAN : ReadConfig(w, threshold, readable)
    BY <1>1
  <2>2. /\ sweep[w].step = "config" /\ sweep'[w].step = "regions"
        /\ sweep'[w].candidate = sweep[w].candidate /\ sweep'[w].orderable = sweep[w].orderable
        /\ sweep'[w].stuck = sweep[w].stuck /\ sweep'[w].scanFailed = sweep[w].scanFailed
        /\ sweep'[w].readable => sweep'[w].ptr = pointer
        /\ pointer' = pointer
        /\ \A v \in Workers \ {w} : sweep'[v] = sweep[v]
    BY <2>1, ConfigRead DEF cloudVars
  <2>3. BeginsFresh(sweep[w])' /\ Reports(sweep[w])'
    BY <2>2 DEF SweptAt, BeginsFresh, Reports
  <2>4. ReadStays(sweep[w])'
    BY <2>2 DEF ReadStays
  <2>. QED
    BY <2>2, <2>3, <2>4 DEF SweptAt, Seen, Reaps, SparesOne, OlderOnes, EndsInOrder, Scanning, AfterScan,
                            AfterReap
<1>2. CASE ListRegions(w)
  BY <1>2 DEF ListRegions, cloudVars, fleetVars, SweptAt, BeginsFresh, Reports, ReadStays, Seen, Reaps,
              SparesOne, OlderOnes, EndsInOrder, Scanning, AfterScan, AfterReap, Live,
              CloudTypeOK, HomesKnown
<1>3. CASE ListRegionsFails(w)
  BY <1>3 DEF ListRegionsFails, cloudVars, fleetVars, SweptAt, BeginsFresh, Reports, ReadStays, Seen,
              Reaps, SparesOne, OlderOnes, EndsInOrder, Scanning, AfterScan, AfterReap
<1>. QED
  BY <1>1, <1>2, <1>3

LEMMA ScanSteps ==
  ASSUME IInv, SweepInv, NEW w \in Workers,
         \/ \E region \in Regions : ScanRegion(w, region) \/ ScanRegionFails(w, region)
         \/ Scanned(w)
  PROVE  Sweeping(w) /\ SweptAt(w)' /\ \A v \in Workers \ {w} : sweep'[v] = sweep[v]
<1>. USE DEF IInv, TypeInv, TypeOK, WatchdogTypeOK, Sweep, Sweeping
<1>. SweptAt(w)
  BY DEF SweepInv
<1>1. CASE \E region \in Regions : ScanRegion(w, region)
  <2>1. PICK region \in Regions : ScanRegion(w, region)
    BY <1>1
  <2>2. /\ sweep[w].step = "scan" /\ sweep'[w].step = "scan"
        /\ sweep'[w].readable = sweep[w].readable /\ sweep'[w].ptr = sweep[w].ptr
        /\ sweep'[w].scan = sweep[w].scan \ {region}
        /\ sweep'[w].candidate = sweep[w].candidate /\ sweep'[w].orderable = sweep[w].orderable
        /\ sweep'[w].seen = sweep[w].seen \cup FindNodes(region)
        /\ sweep'[w].stuck = sweep[w].stuck /\ sweep'[w].scanFailed = sweep[w].scanFailed
        /\ sweep'[w].alarm = sweep[w].alarm
        /\ UNCHANGED <<pointer, status, home>>
        /\ \A v \in Workers \ {w} : sweep'[v] = sweep[v]
    BY <2>1 DEF ScanRegion, cloudVars, fleetVars
  <2>3. BeginsFresh(sweep[w])' /\ Reports(sweep[w])'
    BY <2>2 DEF SweptAt, BeginsFresh, Reports
  <2>4. ReadStays(sweep[w])'
    BY <2>2 DEF SweptAt, ReadStays, Scanning
  <2>5. Seen(sweep[w])'
    BY <2>2 DEF SweptAt, Seen, Scanning, AfterScan, Live, FindNodes
  <2>. QED
    BY <2>2, <2>3, <2>4, <2>5 DEF SweptAt, Reaps, SparesOne, OlderOnes, EndsInOrder, Scanning, AfterScan,
                                  AfterReap
<1>2. CASE \E region \in Regions : ScanRegionFails(w, region)
  <2>1. PICK region \in Regions : ScanRegionFails(w, region)
    BY <1>2
  <2>2. /\ sweep[w].step = "scan" /\ sweep'[w].step = "scan"
        /\ sweep'[w].readable = sweep[w].readable /\ sweep'[w].ptr = sweep[w].ptr
        /\ sweep'[w].scan = sweep[w].scan \ {region}
        /\ sweep'[w].candidate = sweep[w].candidate /\ sweep'[w].orderable = sweep[w].orderable
        /\ sweep'[w].scanFailed = TRUE /\ sweep'[w].alarm = TRUE
        /\ UNCHANGED <<pointer, status, home>>
        /\ \A v \in Workers \ {w} : sweep'[v] = sweep[v]
    BY <2>1 DEF ScanRegionFails, cloudVars, fleetVars
  <2>3. BeginsFresh(sweep[w])' /\ Reports(sweep[w])'
    BY <2>2 DEF SweptAt, BeginsFresh, Reports
  <2>4. ReadStays(sweep[w])'
    BY <2>2 DEF SweptAt, ReadStays, Scanning
  <2>5. Seen(sweep[w])'
    BY <2>2 DEF SweptAt, Seen, Scanning, AfterScan, Live, FindNodes
  <2>. QED
    BY <2>2, <2>3, <2>4, <2>5 DEF SweptAt, Reaps, SparesOne, OlderOnes, EndsInOrder, Scanning, AfterScan,
                                  AfterReap
<1>3. CASE Scanned(w)
  BY <1>3 DEF Scanned, Survivors, cloudVars, fleetVars, SweptAt, BeginsFresh, Reports, ReadStays, Seen,
              Reaps, SparesOne, OlderOnes, EndsInOrder, Scanning, AfterScan, AfterReap, Live, IsExpired,
              Ended
<1>. QED
  BY <1>1, <1>2, <1>3

LEMMA TwoOrMore ==
  ASSUME NEW S \in SUBSET Nodes, NEW m \in S, NEW n \in S, m # n
  PROVE  Cardinality(S) > 1
<1>1. IsFiniteSet(S) /\ Cardinality(S) \in Nat
  BY FS_Subset, FS_CardinalityType, NodesAssumption
<1>2. Cardinality({m}) = 1 /\ IsFiniteSet({m})
  BY FS_Singleton
<1>3. Cardinality({m, n}) = 2
  <2>1. {m, n} = {m} \cup {n}
    OBVIOUS
  <2>. QED
    BY <1>2, <2>1, FS_AddElement
<1>4. {m, n} \subseteq S
  OBVIOUS
<1>5. Cardinality({m, n}) <= Cardinality(S)
  BY <1>1, <1>4, FS_Subset
<1>. QED
  BY <1>1, <1>3, <1>5

\* From the end of the scan to the check: who is to end, and who stays.
LEMMA ChoiceSteps ==
  ASSUME IInv, SweepInv, NEW w \in Workers,
         \/ NoSurvivor(w) \/ Unorderable(w) \/ Deduplicated(w)
         \/ \E n \in Nodes : OrderSurvivors(w, n)
  PROVE  Sweeping(w) /\ SweptAt(w)' /\ \A v \in Workers \ {w} : sweep'[v] = sweep[v]
<1>. WatchdogTypeOK /\ CloudTypeOK /\ SweptAt(w)
  BY DEF IInv, TypeInv, TypeOK, SweepInv
<1>. USE DEF WatchdogTypeOK, Sweep, Sweeping
<1>1. CASE NoSurvivor(w)
  BY <1>1 DEF NoSurvivor, Survivors, cloudVars, fleetVars, SweptAt, BeginsFresh, Reports, ReadStays,
              Seen, Reaps, SparesOne, OlderOnes, EndsInOrder, Scanning, AfterScan, AfterReap, Live,
              IsExpired, Ended
<1>2. CASE Unorderable(w)
  BY <1>2 DEF Unorderable, cloudVars, fleetVars, SweptAt, BeginsFresh, Reports, ReadStays, Seen, Reaps,
              SparesOne, OlderOnes, EndsInOrder, Scanning, AfterScan, AfterReap, Live
<1>3. CASE Deduplicated(w)
  BY <1>3 DEF Deduplicated, cloudVars, fleetVars, SweptAt, BeginsFresh, Reports, ReadStays, Seen, Reaps,
              SparesOne, OlderOnes, EndsInOrder, Scanning, AfterScan, AfterReap, Live, IsExpired, Ended
<1>4. CASE \E n \in Nodes : OrderSurvivors(w, n)
  <2>1. PICK n \in Nodes : OrderSurvivors(w, n)
    BY <1>4
  <2>2. sweep[w].step = "reap"
    BY <2>1 DEF OrderSurvivors
  <2>3. sweep' = [sweep EXCEPT ![w].candidate = n, ![w].todo = Survivors(w) \ {n}, ![w].step = "dedup"]
    BY <2>1 DEF OrderSurvivors
  <2>4. /\ sweep'[w].step = "dedup" /\ sweep'[w].candidate = n /\ sweep'[w].todo = Survivors(w) \ {n}
    BY <2>3
  <2>5. /\ sweep'[w].orderable = sweep[w].orderable /\ sweep'[w].alarm = sweep[w].alarm
        /\ sweep'[w].scanFailed = sweep[w].scanFailed /\ sweep'[w].readable = sweep[w].readable
    BY <2>3
  <2>6. /\ sweep'[w].stuck = sweep[w].stuck /\ sweep'[w].ptr = sweep[w].ptr
        /\ sweep'[w].scan = sweep[w].scan /\ sweep'[w].seen = sweep[w].seen
        /\ sweep'[w].now = sweep[w].now
    BY <2>3
  <2>7. /\ sweep[w].todo = {} /\ UNCHANGED <<status, home, tags, pointer>>
        /\ n \in Survivors(w) /\ Orderable(Survivors(w))
        /\ \A m \in Survivors(w) \ {n} : tags[n].launched >= tags[m].launched
        /\ \A v \in Workers \ {w} : sweep'[v] = sweep[v]
    BY <2>1 DEF OrderSurvivors, Newest, cloudVars, fleetVars
  <2>8. BeginsFresh(sweep[w])' /\ Reports(sweep[w])' /\ ReadStays(sweep[w])' /\ Seen(sweep[w])'
    BY <2>2, <2>4, <2>5, <2>6, <2>7 DEF SweptAt, BeginsFresh, Reports, ReadStays, Seen, Scanning, AfterScan, Live
  <2>9. SparesOne(sweep[w])'
    BY <2>2, <2>4, <2>5, <2>6, <2>7, NodesAssumption
       DEF SweptAt, BeginsFresh, Reaps, SparesOne, AfterScan, AfterReap, Scanning, Survivors, IsExpired,
           Ended, Live
  <2>10. OlderOnes(sweep[w])'
    <3>. SUFFICES ASSUME NEW m \in Survivors(w) \ {n}
                  PROVE  /\ tags[m].launched # Malformed /\ tags[n].launched # Malformed
                         /\ tags[n].launched >= tags[m].launched
      BY <2>2, <2>4, <2>5, <2>6, <2>7 DEF OlderOnes
    <3>1. Survivors(w) \in SUBSET Nodes
      BY DEF Survivors
    <3>2. Cardinality(Survivors(w)) > 1
      BY <2>7, <3>1, TwoOrMore
    <3>. QED
      BY <2>7, <3>2 DEF Orderable
  <2>. QED
    BY <2>2, <2>4, <2>5, <2>6, <2>7, <2>8, <2>9, <2>10 DEF SweptAt, Reaps, EndsInOrder
<1>. QED
  BY <1>1, <1>2, <1>3, <1>4

\* What SafeTerminate does: one node is off the list, and ended or stuck.
LEMMA SafelyTerminated ==
  ASSUME WatchdogTypeOK, CloudTypeOK, NEW w \in Workers, NEW n \in Nodes, NEW outcome \in Outcomes,
         SafeTerminate(w, n, outcome)
  PROVE  /\ UNCHANGED <<home, tags, pointer>>
         /\ Live' \subseteq Live
         /\ n \notin Live' \/ n \in sweep'[w].stuck
         /\ sweep[w].stuck \subseteq sweep'[w].stuck
         /\ sweep'[w].todo = sweep[w].todo \ {n}
         /\ sweep[w].alarm => sweep'[w].alarm
         /\ sweep'[w].stuck # sweep[w].stuck => sweep'[w].alarm
<1>. USE DEF WatchdogTypeOK, Sweep
<1>1. UNCHANGED <<home, tags, pointer>> /\ Live' \subseteq Live
  BY DEF SafeTerminate, TerminateInstance, Live, CloudTypeOK
<1>2. CASE Answered(outcome)
  <2>1. sweep' = [sweep EXCEPT ![w].todo = @ \ {n}]
    BY <1>2 DEF SafeTerminate
  <2>2. n \notin Live'
    BY <1>2 DEF SafeTerminate, TerminateInstance, Answered, TookEffect, Live, CloudTypeOK
  <2>. QED
    BY <1>1, <2>1, <2>2
<1>3. CASE ~Answered(outcome)
  <2>1. sweep' = [sweep EXCEPT ![w].todo = @ \ {n}, ![w].stuck = @ \cup {n}, ![w].alarm = TRUE]
    BY <1>3 DEF SafeTerminate
  <2>2. sweep'[w].todo = sweep[w].todo \ {n} /\ sweep'[w].stuck = sweep[w].stuck \cup {n}
    BY <2>1
  <2>3. sweep'[w].alarm = TRUE
    BY <2>1
  <2>. QED
    BY <1>1, <2>2, <2>3
<1>. QED
  BY <1>2, <1>3

\* The rest of the record it leaves alone.
LEMMA SafelyKept ==
  ASSUME WatchdogTypeOK, NEW w \in Workers, NEW n \in Nodes, NEW outcome \in Outcomes,
         SafeTerminate(w, n, outcome)
  PROVE  /\ sweep'[w].step = sweep[w].step /\ sweep'[w].now = sweep[w].now
         /\ sweep'[w].ptr = sweep[w].ptr /\ sweep'[w].candidate = sweep[w].candidate
         /\ sweep'[w].scan = sweep[w].scan /\ sweep'[w].seen = sweep[w].seen
         /\ sweep'[w].readable = sweep[w].readable /\ sweep'[w].orderable = sweep[w].orderable
         /\ sweep'[w].scanFailed = sweep[w].scanFailed
         /\ \A v \in Workers \ {w} : sweep'[v] = sweep[v]
<1>. USE DEF WatchdogTypeOK, Sweep
<1>1. CASE Answered(outcome)
  <2>1. sweep' = [sweep EXCEPT ![w].todo = @ \ {n}]
    BY <1>1 DEF SafeTerminate
  <2>. QED
    BY <2>1
<1>2. CASE ~Answered(outcome)
  <2>1. sweep' = [sweep EXCEPT ![w].todo = @ \ {n}, ![w].stuck = @ \cup {n}, ![w].alarm = TRUE]
    BY <1>2 DEF SafeTerminate
  <2>2. /\ sweep'[w].step = sweep[w].step /\ sweep'[w].now = sweep[w].now
        /\ sweep'[w].ptr = sweep[w].ptr /\ sweep'[w].candidate = sweep[w].candidate
        /\ sweep'[w].scan = sweep[w].scan /\ sweep'[w].seen = sweep[w].seen
    BY <2>1
  <2>3. /\ sweep'[w].readable = sweep[w].readable /\ sweep'[w].orderable = sweep[w].orderable
        /\ sweep'[w].scanFailed = sweep[w].scanFailed
    BY <2>1
  <2>. QED
    BY <2>1, <2>2, <2>3
<1>. QED
  BY <1>1, <1>2

LEMMA TerminationSteps ==
  ASSUME IInv, SweepInv, NEW w \in Workers, NEW n \in Nodes, NEW outcome \in Outcomes,
         Reap(w, n, outcome) \/ Dedup(w, n, outcome)
  PROVE  Sweeping(w) /\ SweptAt(w)' /\ \A v \in Workers \ {w} : sweep'[v] = sweep[v]
<1>. WatchdogTypeOK /\ CloudTypeOK /\ SweptAt(w)
  BY DEF IInv, TypeInv, TypeOK, SweepInv
<1>1. SafeTerminate(w, n, outcome) /\ sweep[w].step \in {"reap", "dedup"}
  BY DEF Reap, Dedup
<1>2. /\ sweep'[w].step = sweep[w].step /\ sweep'[w].now = sweep[w].now
      /\ sweep'[w].ptr = sweep[w].ptr /\ sweep'[w].candidate = sweep[w].candidate
      /\ sweep'[w].scan = sweep[w].scan /\ sweep'[w].seen = sweep[w].seen
      /\ sweep'[w].readable = sweep[w].readable /\ sweep'[w].orderable = sweep[w].orderable
      /\ sweep'[w].scanFailed = sweep[w].scanFailed
      /\ \A v \in Workers \ {w} : sweep'[v] = sweep[v]
  BY <1>1, SafelyKept
<1>3. /\ UNCHANGED <<home, tags, pointer>>
      /\ Live' \subseteq Live
      /\ n \notin Live' \/ n \in sweep'[w].stuck
      /\ sweep[w].stuck \subseteq sweep'[w].stuck
      /\ sweep'[w].todo = sweep[w].todo \ {n}
      /\ sweep[w].alarm => sweep'[w].alarm
      /\ sweep'[w].stuck # sweep[w].stuck => sweep'[w].alarm
  BY <1>1, SafelyTerminated
<1>4. BeginsFresh(sweep[w])' /\ Reports(sweep[w])'
  BY <1>1, <1>2, <1>3 DEF SweptAt, BeginsFresh, Reports
<1>5. ReadStays(sweep[w])' /\ Seen(sweep[w])'
  BY <1>1, <1>2, <1>3 DEF SweptAt, ReadStays, Seen, Scanning, AfterScan
<1>6. Reaps(sweep[w])'
  BY <1>1, <1>2, <1>3 DEF SweptAt, Reaps, IsExpired, Ended
<1>7. SparesOne(sweep[w])'
  BY <1>1, <1>2, <1>3 DEF SweptAt, SparesOne, IsExpired, Ended, Scanning, AfterScan, AfterReap
<1>8. OlderOnes(sweep[w])' /\ EndsInOrder(sweep[w])'
  BY <1>1, <1>2, <1>3 DEF SweptAt, OlderOnes, EndsInOrder
<1>. QED
  BY <1>1, <1>2, <1>4, <1>5, <1>6, <1>7, <1>8 DEF SweptAt, Sweeping

LEMMA CheckSteps ==
  ASSUME IInv, SweepInv, NEW w \in Workers,
         \/ \E reading \in Readings : Check(w, reading)
         \/ \E outcome \in Outcomes : Stamp(w, outcome)
  PROVE  Sweeping(w) /\ SweptAt(w)' /\ \A v \in Workers \ {w} : sweep'[v] = sweep[v]
<1>. WatchdogTypeOK /\ CloudTypeOK /\ SweptAt(w)
  BY DEF IInv, TypeInv, TypeOK, SweepInv
<1>. DEFINE Kept == /\ sweep'[w].step \in {"stamp", "reconcile"} /\ sweep'[w].now = sweep[w].now
                    /\ sweep'[w].ptr = sweep[w].ptr /\ sweep'[w].candidate = sweep[w].candidate
                    /\ sweep'[w].scan = sweep[w].scan /\ sweep'[w].seen = sweep[w].seen
                    /\ sweep'[w].todo = sweep[w].todo /\ sweep'[w].stuck = sweep[w].stuck
            Flags == /\ sweep'[w].readable = sweep[w].readable
                     /\ sweep'[w].orderable = sweep[w].orderable
                     /\ sweep'[w].scanFailed = sweep[w].scanFailed
                     /\ sweep[w].alarm => sweep'[w].alarm
            Others == \A v \in Workers \ {w} : sweep'[v] = sweep[v]
<1>1. /\ sweep[w].step \in {"check", "stamp"} /\ Kept /\ Flags /\ Others
      /\ UNCHANGED <<status, home, pointer>>
      /\ \A n \in Nodes : tags'[n].expires = tags[n].expires
  <2>1. ASSUME NEW reading \in Readings, Check(w, reading)
        PROVE  <1>1!:
    <3>. DEFINE alarm == sweep[w].alarm \/ reading = "unavailable"
                step == IF reading = "idle" /\ ShouldAlert(sweep[w].candidate, sweep[w].now)
                        THEN "stamp" ELSE "reconcile"
    <3>1. sweep' = [sweep EXCEPT ![w].alarm = alarm, ![w].step = step] /\ sweep[w].step = "check"
      BY <2>1 DEF Check
    <3>2. step \in {"stamp", "reconcile"} /\ (sweep[w].alarm => alarm)
      OBVIOUS
    <3>. HIDE DEF alarm, step
    <3>3. Kept
      BY <3>1, <3>2 DEF WatchdogTypeOK, Sweep
    <3>4. Flags
      BY <3>1, <3>2 DEF WatchdogTypeOK, Sweep
    <3>5. Others
      BY <3>1 DEF WatchdogTypeOK
    <3>. QED
      BY <2>1, <3>1, <3>3, <3>4, <3>5 DEF Check, cloudVars, fleetVars
  <2>2. ASSUME NEW outcome \in Outcomes, Stamp(w, outcome)
        PROVE  <1>1!:
    <3>. DEFINE alarm == sweep[w].alarm \/ ~Answered(outcome)
    <3>1. sweep' = [sweep EXCEPT ![w].alarm = alarm, ![w].step = "reconcile"] /\ sweep[w].step = "stamp"
      BY <2>2 DEF Stamp
    <3>2. sweep[w].alarm => alarm
      OBVIOUS
    <3>. HIDE DEF alarm
    <3>3. Kept
      BY <3>1 DEF WatchdogTypeOK, Sweep
    <3>4. Flags
      BY <3>1, <3>2 DEF WatchdogTypeOK, Sweep
    <3>5. Others
      BY <3>1 DEF WatchdogTypeOK
    <3>6. \A n \in Nodes : tags'[n].expires = tags[n].expires
      BY <2>2 DEF Stamp, CloudTypeOK, Tags
    <3>. QED
      BY <2>2, <3>1, <3>3, <3>4, <3>5, <3>6 DEF Stamp
  <2>. QED
    BY <2>1, <2>2
<1>2. BeginsFresh(sweep[w])' /\ Reports(sweep[w])'
  BY <1>1 DEF SweptAt, BeginsFresh, Reports
<1>3. ReadStays(sweep[w])' /\ Seen(sweep[w])'
  BY <1>1 DEF SweptAt, ReadStays, Seen, Scanning, AfterScan, Live
<1>4. SparesOne(sweep[w])'
  BY <1>1 DEF SweptAt, SparesOne, IsExpired, Ended, Scanning, AfterScan, AfterReap, Live, WatchdogTypeOK,
              Sweep
<1>. QED
  BY <1>1, <1>2, <1>3, <1>4 DEF SweptAt, Reaps, OlderOnes, EndsInOrder, Sweeping

\* When it comes to the pointer, all regions were scanned and all terminations
\* answered, all that runs is the candidate.
LEMMA OnlyCandidateRuns ==
  ASSUME NEW w \in Workers, SweptAt(w), sweep[w].step = "reconcile", sweep[w].orderable,
         ~sweep[w].scanFailed, sweep[w].stuck = {}
  PROVE  \A n \in Live : n = sweep[w].candidate /\ ~IsExpired(n, sweep[w].now)
<1>. SUFFICES ASSUME NEW n \in Live PROVE n = sweep[w].candidate /\ ~IsExpired(n, sweep[w].now)
  OBVIOUS
<1>1. n \in sweep[w].seen
  BY DEF SweptAt, Seen, Scanning, AfterScan
<1>2. n = sweep[w].candidate
  BY <1>1 DEF SweptAt, SparesOne, Ended, Scanning, AfterScan, AfterReap
<1>3. n # None
  BY NodesAssumption DEF Live
<1>. QED
  BY <1>2, <1>3 DEF SweptAt, SparesOne, Scanning, AfterScan, AfterReap

\* So it is if nothing was reported.
LEMMA SilentSoFar ==
  ASSUME NEW w \in Workers, SweptAt(w), sweep[w].step = "reconcile", ~sweep[w].alarm
  PROVE  /\ sweep[w].orderable /\ ~sweep[w].scanFailed
         /\ \A n \in Live : n = sweep[w].candidate /\ ~IsExpired(n, sweep[w].now)
<1>1. sweep[w].orderable /\ ~sweep[w].scanFailed /\ sweep[w].stuck = {}
  BY DEF SweptAt, Reports
<1>. QED
  BY <1>1, OnlyCandidateRuns

LEMMA ReconcileSteps ==
  ASSUME IInv, SweepInv, NEW w \in Workers,
         \/ \E outcome \in Outcomes : Adopt(w, outcome) \/ ClearPointer(w, outcome)
         \/ LeavePointer(w)
  PROVE  Sweeping(w) /\ SweptAt(w)' /\ \A v \in Workers \ {w} : sweep'[v] = sweep[v]
<1>. WatchdogTypeOK /\ SweptAt(w)
  BY DEF IInv, TypeInv, TypeOK, SweepInv
<1>1. CASE \E outcome \in Outcomes : Adopt(w, outcome) \/ ClearPointer(w, outcome)
  <2>1. PICK outcome \in Outcomes : Adopt(w, outcome) \/ ClearPointer(w, outcome)
    BY <1>1
  <2>. DEFINE n == sweep[w].candidate
              value == IF n = None THEN None ELSE [region |-> home[n], instance_id |-> n]
              alarm == sweep[w].alarm \/ ~Answered(outcome)
  <2>2. /\ Reconcile(w, value, outcome)
        /\ sweep[w].step = "reconcile"
        /\ sweep' = [sweep EXCEPT ![w].alarm = alarm, ![w].step = "done"]
        /\ UNCHANGED <<status, home, tags>>
    BY <2>1 DEF Adopt, ClearPointer, MayAdopt, MayClear, Reconcile, fleetVars
  <2>3. (sweep[w].alarm => alarm) /\ (~alarm => Answered(outcome) /\ ~sweep[w].alarm)
    OBVIOUS
  <2>4. ~alarm => pointer' = value
    BY <2>2, <2>3 DEF Reconcile, WritePointer, Answered, TookEffect
  <2>. HIDE DEF alarm
  <2>5. /\ sweep'[w].step = "done" /\ sweep'[w].now = sweep[w].now
        /\ sweep'[w].candidate = sweep[w].candidate /\ sweep'[w].stuck = sweep[w].stuck
    BY <2>2 DEF WatchdogTypeOK, Sweep
  <2>6. /\ sweep'[w].orderable = sweep[w].orderable /\ sweep'[w].scanFailed = sweep[w].scanFailed
        /\ sweep'[w].alarm = alarm
    BY <2>2 DEF WatchdogTypeOK, Sweep
  <2>7. \A v \in Workers \ {w} : sweep'[v] = sweep[v]
    BY <2>2 DEF WatchdogTypeOK
  <2>8. Reports(sweep[w])'
    BY <2>2, <2>3, <2>5, <2>6 DEF SweptAt, Reports
  <2>9. EndsInOrder(sweep[w])'
    <3>. SUFFICES ASSUME ~alarm, NEW m \in Live
                  PROVE  pointer' # None /\ pointer'.instance_id = m /\ ~IsExpired(m, sweep[w].now)
      BY <2>2, <2>5, <2>6 DEF EndsInOrder, Live, IsExpired
    <3>1. m = n /\ ~IsExpired(m, sweep[w].now) /\ m \in Nodes
      BY <2>2, <2>3, SilentSoFar DEF Live
    <3>2. m # None /\ home[m] \in Regions
      BY <3>1, NodesAssumption DEF IInv, TypeInv, HomesKnown, Live
    <3>. QED
      BY <2>4, <3>1, <3>2, NodesAssumption
  <2>. QED
    BY <2>2, <2>5, <2>7, <2>8, <2>9
       DEF SweptAt, Sweeping, BeginsFresh, ReadStays, Seen, Reaps, SparesOne, OlderOnes, Scanning, AfterScan,
           AfterReap
<1>2. CASE LeavePointer(w)
  <2>1. /\ sweep[w].step = "reconcile" /\ ~MayAdopt(w) /\ ~MayClear(w)
        /\ sweep' = [sweep EXCEPT ![w].step = "done"]
        /\ UNCHANGED <<status, home, tags, pointer>>
    BY <1>2 DEF LeavePointer, cloudVars, fleetVars
  <2>2. /\ sweep'[w].step = "done" /\ sweep'[w].now = sweep[w].now
        /\ sweep'[w].candidate = sweep[w].candidate /\ sweep'[w].stuck = sweep[w].stuck
        /\ sweep'[w].orderable = sweep[w].orderable /\ sweep'[w].scanFailed = sweep[w].scanFailed
        /\ sweep'[w].alarm = sweep[w].alarm /\ sweep'[w].readable = sweep[w].readable
        /\ \A v \in Workers \ {w} : sweep'[v] = sweep[v]
    BY <2>1 DEF WatchdogTypeOK, Sweep
  <2>3. Reports(sweep[w])'
    BY <2>1, <2>2 DEF SweptAt, Reports
  <2>4. EndsInOrder(sweep[w])'
    <3>. SUFFICES ASSUME sweep[w].readable, ~sweep[w].alarm, NEW m \in Live
                  PROVE  pointer # None /\ pointer.instance_id = m /\ ~IsExpired(m, sweep[w].now)
      BY <2>1, <2>2 DEF EndsInOrder, Live, IsExpired
    <3>1. m = sweep[w].candidate /\ ~IsExpired(m, sweep[w].now) /\ m \in Nodes /\ sweep[w].orderable
      BY <2>1, SilentSoFar DEF Live
    <3>2. Tracked(w)
      BY <2>1, <3>1, NodesAssumption DEF MayAdopt, MayReconcile
    <3>3. sweep[w].ptr = pointer
      BY <2>1 DEF SweptAt, ReadStays, Scanning
    <3>. QED
      BY <3>1, <3>2, <3>3 DEF Tracked
  <2>. QED
    BY <2>1, <2>2, <2>3, <2>4
       DEF SweptAt, Sweeping, BeginsFresh, ReadStays, Seen, Reaps, SparesOne, OlderOnes, Scanning, AfterScan,
           AfterReap
<1>. QED
  BY <1>1, <1>2

LEMMA EndingSteps ==
  ASSUME IInv, NEW w \in Workers, SweepEnds(w) \/ SweepCrash(w)
  PROVE  Sweeping(w) /\ SweptAt(w)' /\ \A v \in Workers \ {w} : sweep'[v] = sweep[v]
<1>. WatchdogTypeOK
  BY DEF IInv, TypeInv, TypeOK
<1>1. Sweeping(w) /\ sweep' = [sweep EXCEPT ![w] = NoSweep]
  BY DEF SweepEnds, SweepCrash, Sweeping
<1>2. sweep'[w].step = "idle" /\ \A v \in Workers \ {w} : sweep'[v] = sweep[v]
  BY <1>1, NoSweepType DEF WatchdogTypeOK
<1>. QED
  BY <1>1, <1>2, IdleSays

\* A step of a sweep is about that sweep alone.
LEMMA SweepStepAlone ==
  ASSUME IInv, SweepInv, NEW w \in Workers, SweepStep(w)
  PROVE  Sweeping(w) /\ SweptAt(w)' /\ \A v \in Workers \ {w} : sweep'[v] = sweep[v]
BY BeginSteps, ScanSteps, ChoiceSteps, TerminationSteps, CheckSteps, ReconcileSteps, EndingSteps
   DEF SweepStep

LEMMA SweepStepKeeps ==
  ASSUME IInv, SweepInv, NEW w \in Workers, SweepStep(w)
  PROVE  SweepInv'
BY SweepStepAlone, OnlyThisSweep

-----------------------------------------------------------------------------
(* Everything else.                                                         *)

\* While no sweep is under way there is nothing to keep.
LEMMA NoSweepKeeps ==
  ASSUME \A w \in Workers : ~Sweeping(w), UNCHANGED sweep
  PROVE  SweepInv'
<1>. SUFFICES ASSUME NEW w \in Workers PROVE SweptAt(w)'
  BY DEF SweepInv
<1>1. sweep'[w].step = "idle"
  BY DEF Sweeping
<1>. QED
  BY <1>1, IdleSays

LEMMA StartKeeps ==
  ASSUME IInv, NEW w \in Workers, SweepDue(w)
  PROVE  SweepInv'
<1>. WatchdogTypeOK
  BY DEF IInv, TypeInv, TypeOK
<1>. SUFFICES ASSUME NEW v \in Workers PROVE SweptAt(v)'
  BY DEF SweepInv
<1>1. CASE v # w
  <2>1. sweep'[v].step = "idle"
    BY <1>1 DEF SweepDue, StartSweep, Admit, Sweeping, WatchdogTypeOK
  <2>. QED
    BY <2>1, IdleSays
<1>2. CASE v = w
  <2>1. sweep'[w] = [NoSweep EXCEPT !.step = "config", !.now = clock]
    BY DEF SweepDue, StartSweep, WatchdogTypeOK
  <2>2. /\ sweep'[w].step = "config" /\ sweep'[w].candidate = None /\ sweep'[w].orderable = TRUE
        /\ sweep'[w].stuck = {} /\ sweep'[w].scanFailed = FALSE
    BY <2>1 DEF NoSweep
  <2>. QED
    BY <1>2, <2>2 DEF SweptAt, BeginsFresh, Reports, ReadStays, Seen, Reaps, SparesOne, OlderOnes,
                      EndsInOrder, Scanning, AfterScan, AfterReap
<1>. QED
  BY <1>1, <1>2

LEMMA RequestIsHandled == ASSUME NEW w \in Workers, RequestStep(w) PROVE Handling(w)
BY DEF RequestStep, ReadPointer, PointerUnreadable, Describe, Choose, Reject, GuardPasses, Prepare,
       Redescribe, GuardFinds, Repair, Mint, Track, Clear, Launch, Terminate, Terminated, Locate, Scan,
       DownUntracked, CallFails, Return, Crash, Handling

\* What happens without the control plane may end a node under a sweep, no more.
LEMMA EnvironmentKeeps ==
  ASSUME IInv, SweepInv, Environment
  PROVE  SweepInv'
<1>. UNCHANGED sweep /\ CloudTypeOK
  BY DEF Environment, IInv, TypeInv, TypeOK
<1>1. CASE \A w \in Workers : ~Sweeping(w)
  BY <1>1, NoSweepKeeps
<1>2. CASE ~ \A w \in Workers : ~Sweeping(w)
  <2>1. UNCHANGED <<home, tags, pointer>> /\ Live' \subseteq Live
    BY <1>2 DEF Environment, NodeEnds, TagEdited, DefaultRegionSet, Tick, fleetVars, Live, CloudTypeOK
  <2>. SUFFICES ASSUME NEW w \in Workers PROVE SweptAt(w)'
    BY DEF SweepInv
  <2>2. SweptAt(w)
    BY DEF SweepInv
  <2>3. BeginsFresh(sweep[w])' /\ Reports(sweep[w])' /\ ReadStays(sweep[w])' /\ Seen(sweep[w])'
    BY <2>1, <2>2 DEF SweptAt, BeginsFresh, Reports, ReadStays, Seen
  <2>4. Reaps(sweep[w])' /\ SparesOne(sweep[w])' /\ OlderOnes(sweep[w])' /\ EndsInOrder(sweep[w])'
    BY <2>1, <2>2 DEF SweptAt, Reaps, SparesOne, OlderOnes, EndsInOrder, IsExpired, Ended
  <2>. QED
    BY <2>3, <2>4 DEF SweptAt
<1>. QED
  BY <1>1, <1>2

LEMMA NextKeeps == IInv /\ SweepInv /\ [Next]_vars => SweepInv'
<1>. SUFFICES ASSUME IInv, SweepInv, [Next]_vars PROVE SweepInv'
  OBVIOUS
<1>1. CASE UNCHANGED vars
  BY <1>1 DEF vars, cloudVars, fleetVars, SweepInv, SweptAt, BeginsFresh, Reports, ReadStays, Seen, Reaps,
              SparesOne, OlderOnes, EndsInOrder, IsExpired, Ended, Live
<1>2. CASE Environment
  BY <1>2, EnvironmentKeeps
<1>3. ASSUME NEW w \in Workers, SweepStep(w) \/ SweepDue(w) PROVE SweepInv'
  BY <1>3, SweepStepKeeps, StartKeeps
<1>4. ASSUME NEW w \in Workers, RequestArrives(w) \/ (RequestStep(w) /\ UNCHANGED sweep)
      PROVE  SweepInv'
  <2>1. \A v \in Workers : ~Sweeping(v)
    <3>1. CASE RequestArrives(w)
      BY <3>1 DEF RequestArrives, Admit
    <3>2. CASE RequestStep(w)
      <4>1. Handling(w)
        BY <3>2, RequestIsHandled
      <4>. QED
        BY <4>1 DEF IInv, OneInvocation
    <3>. QED
      BY <1>4, <3>1, <3>2
  <2>. QED
    BY <1>4, <2>1, NoSweepKeeps DEF RequestArrives
<1>. QED
  BY <1>1, <1>2, <1>3, <1>4 DEF Next

LEMMA InitSwept == Init => SweepInv
BY NoSweepType DEF Init, WatchdogInit, SweepInv, SweptAt, BeginsFresh, Reports, ReadStays, Seen, Reaps,
       SparesOne, OlderOnes, EndsInOrder, Scanning, AfterScan, AfterReap

-----------------------------------------------------------------------------
(* The theorems.                                                            *)

\* What a sweep has seen, ended and reported is what there is, at every step of it.
THEOREM SweepInvariance == Spec => []SweepInv
<1>. QED
  BY InitSwept, NextKeeps, Invariance, PTL DEF Spec

\* A sweep that reports no failure leaves one node at most, unexpired and tracked.
THEOREM SilenceMeansOrder == Spec => []NoSilentDrift
<1>1. SweepInv => NoSilentDrift
  BY DEF SweepInv, SweptAt, EndsInOrder, NoSilentDrift
<1>. QED
  BY <1>1, SweepInvariance, PTL

\* A sweep takes nothing off its list to end but what is expired, or older than the
\* node it keeps.
THEOREM NewestIsSpared == Spec => SweepSparesTheNewest
<1>1. IInv /\ SweepInv => [\A w \in Workers, n \in Nodes :
        /\ sweep[w].step \in {"reap", "dedup"}
        /\ n \in sweep[w].todo
        /\ n \notin sweep'[w].todo
        /\ ~IsExpired(n, sweep[w].now)
        => \E m \in sweep[w].seen \ {n} :
              /\ m = sweep[w].candidate
              /\ ~IsExpired(m, sweep[w].now)
              /\ tags[m].launched # Malformed
              /\ tags[n].launched # Malformed
              /\ tags[m].launched >= tags[n].launched]_vars
  <2>. SUFFICES ASSUME IInv, SweepInv, NEW w \in Workers, NEW n \in Nodes,
                       sweep[w].step \in {"reap", "dedup"}, n \in sweep[w].todo,
                       ~IsExpired(n, sweep[w].now)
                PROVE  \E m \in sweep[w].seen \ {n} :
                          /\ m = sweep[w].candidate
                          /\ ~IsExpired(m, sweep[w].now)
                          /\ tags[m].launched # Malformed
                          /\ tags[n].launched # Malformed
                          /\ tags[m].launched >= tags[n].launched
    OBVIOUS
  <2>. SweptAt(w)
    BY DEF SweepInv
  <2>1. sweep[w].step = "dedup"
    BY DEF SweptAt, Reaps
  <2>2. sweep[w].candidate \in sweep[w].seen /\ ~IsExpired(sweep[w].candidate, sweep[w].now)
    BY <2>1 DEF SweptAt, SparesOne, Scanning, AfterScan, AfterReap, IInv, TypeInv, SweepShape
  <2>. QED
    BY <2>1, <2>2 DEF SweptAt, OlderOnes
<1>. QED
  BY <1>1, Invariance, SweepInvariance, PTL DEF SweepSparesTheNewest

\* The pointer is cleared only when nothing runs that the sweep has not tried to end.
THEOREM ClearedWhenGone == Spec => ClearedOnlyWhenGone
<1>1. ASSUME IInv, SweepInv, [Next]_vars
      PROVE  [\A w \in Workers :
                 sweep[w].step = "reconcile" /\ pointer # None /\ pointer' = None
                 => Live \subseteq sweep[w].stuck]_vars
  <2>. SUFFICES ASSUME Next, NEW w \in Workers,
                       sweep[w].step = "reconcile", pointer # None, pointer' = None
                PROVE  Live \subseteq sweep[w].stuck
    BY <1>1
  <2>. SweptAt(w) /\ Sweeping(w)
    BY <1>1 DEF SweepInv, Sweeping
  <2>1. PICK v \in Workers, outcome \in Outcomes : ClearPointer(v, outcome) \/ Adopt(v, outcome)
    <3>1. ~Environment
      BY DEF Environment, NodeEnds, TagEdited, LaunchTagEdited, ExpiryTagEdited, DefaultRegionSet, Tick,
             fleetVars
    <3>2. ASSUME NEW v \in Workers PROVE ~RequestArrives(v) /\ ~SweepDue(v)
      BY DEF RequestArrives, SweepDue, Admit
    <3>3. ASSUME NEW v \in Workers, RequestStep(v) PROVE FALSE
      <4>1. Handling(v)
        BY <3>3, RequestIsHandled
      <4>. QED
        BY <1>1, <4>1 DEF IInv, OneInvocation
    <3>4. ASSUME NEW v \in Workers, SweepStep(v)
          PROVE  \E outcome \in Outcomes : ClearPointer(v, outcome) \/ Adopt(v, outcome)
      BY <3>4 DEF SweepStep, ReadConfig, ListRegions, ListRegionsFails, ScanRegion, ScanRegionFails,
           Scanned, NoSurvivor, Unorderable, Deduplicated, OrderSurvivors, Reap, Dedup, SafeTerminate,
           Check, Stamp, LeavePointer, SweepEnds, SweepCrash, cloudVars
    <3>. QED
      BY <3>1, <3>2, <3>3, <3>4 DEF Next
  <2>2. v = w
    <3>1. Sweeping(v)
      BY <2>1 DEF ClearPointer, Adopt, Reconcile, Sweeping
    <3>. QED
      BY <1>1, <3>1 DEF IInv, OneInvocation
  <2>3. CASE Adopt(v, outcome)
    <3>1. pointer' \in {pointer, [region |-> home[sweep[w].candidate], instance_id |-> sweep[w].candidate]}
      BY <2>2, <2>3 DEF Adopt, Reconcile, WritePointer
    <3>2. sweep[w].candidate \in Nodes /\ home[sweep[w].candidate] \in Regions
      BY <1>1, <2>2, <2>3 DEF Adopt, MayAdopt, IInv, TypeInv, TypeOK, WatchdogTypeOK, Sweep, SweepShape,
                              HomesKnown
    <3>. QED
      BY <3>1, <3>2, NodesAssumption
  <2>4. CASE ClearPointer(v, outcome)
    <3>1. sweep[w].candidate = None /\ sweep[w].orderable /\ ~sweep[w].scanFailed
      BY <2>2, <2>4 DEF ClearPointer, MayClear, MayReconcile
    <3>. SUFFICES ASSUME NEW n \in Live PROVE n \in sweep[w].stuck
      OBVIOUS
    <3>2. n \in sweep[w].seen /\ n # None
      BY <3>1, NodesAssumption DEF SweptAt, Seen, Scanning, AfterScan, Live
    <3>. QED
      BY <3>1, <3>2 DEF SweptAt, SparesOne, Ended, Scanning, AfterScan, AfterReap
  <2>. QED
    BY <2>1, <2>3, <2>4
<1>. QED
  BY <1>1, Invariance, SweepInvariance, PTL DEF Spec, ClearedOnlyWhenGone
-----------------------------------------------------------------------------
(* Calm.                                                                    *)

\* An answered step of a sweep is a step of a sweep.
LEMMA AnsweredIsAStep == ASSUME NEW w \in Workers, AnsweredSweepStep(w) PROVE SweepStep(w)
<1>1. "ok" \in Outcomes
  BY DEF Outcomes
<1>2. CASE \E threshold \in BOOLEAN : ReadConfig(w, threshold, TRUE)
  BY <1>2 DEF SweepStep
<1>3. CASE \E n \in Nodes : OrderSurvivors(w, n) \/ Reap(w, n, "ok") \/ Dedup(w, n, "ok")
  BY <1>1, <1>3 DEF SweepStep
<1>4. CASE \/ ListRegions(w) \/ \E region \in Regions : ScanRegion(w, region)
           \/ Scanned(w) \/ NoSurvivor(w) \/ Unorderable(w) \/ Deduplicated(w)
  BY <1>4 DEF SweepStep
<1>5. CASE \/ \E reading \in Readings : Check(w, reading)
           \/ \E outcome \in Outcomes : Stamp(w, outcome)
           \/ Adopt(w, "ok") \/ ClearPointer(w, "ok") \/ LeavePointer(w) \/ SweepEnds(w)
  BY <1>1, <1>5 DEF SweepStep
<1>. QED
  BY <1>2, <1>3, <1>4, <1>5 DEF AnsweredSweepStep

\* Calm or not, all that happens is what happens to the control plane.
LEMMA CalmIsAStep == [ConvergenceNext]_convergenceVars => [Next]_vars
<1>1. CASE CalmBegins \/ UNCHANGED convergenceVars
  BY <1>1 DEF CalmBegins, convergenceVars
<1>2. CASE ~calm /\ Next
  BY <1>2
<1>3. CASE CalmNext
  BY <1>3, AnsweredIsAStep DEF CalmNext, Next
<1>. QED
  BY <1>1, <1>2, <1>3 DEF ConvergenceNext

\* While its calls are answered, nothing a sweep goes by fails.
LEMMA CleanStays ==
  ASSUME WatchdogTypeOK, NEW w \in Workers, AnsweredSweepStep(w), Clean(sweep[w])
  PROVE  Clean(sweep'[w])
<1>. USE DEF WatchdogTypeOK, Sweep, Clean
<1>1. ASSUME NEW threshold \in BOOLEAN, ReadConfig(w, threshold, TRUE) PROVE Clean(sweep'[w])
  <2>1. sweep'[w].readable = TRUE
    BY <1>1 DEF ReadConfig
  <2>. QED
    BY <1>1, <2>1, ConfigRead
<1>2. ASSUME NEW n \in Nodes, SafeTerminate(w, n, "ok") PROVE Clean(sweep'[w])
  BY <1>2 DEF SafeTerminate, Answered
<1>3. ASSUME NEW reading \in Readings, Check(w, reading) PROVE Clean(sweep'[w])
  BY <1>3 DEF Check
<1>4. ASSUME NEW outcome \in Outcomes, Stamp(w, outcome) PROVE Clean(sweep'[w])
  BY <1>4 DEF Stamp
<1>5. ASSUME Adopt(w, "ok") \/ ClearPointer(w, "ok") PROVE Clean(sweep'[w])
  BY <1>5 DEF Adopt, ClearPointer, Reconcile
<1>6. ASSUME NEW n \in Nodes, OrderSurvivors(w, n) PROVE Clean(sweep'[w])
  BY <1>6 DEF OrderSurvivors
<1>7. ASSUME SweepEnds(w) PROVE Clean(sweep'[w])
  BY <1>7, NoSweepType DEF SweepEnds, NoSweep
<1>8. ASSUME NEW region \in Regions, ScanRegion(w, region) PROVE Clean(sweep'[w])
  BY <1>8 DEF ScanRegion
<1>9. ASSUME \/ ListRegions(w) \/ Scanned(w) \/ NoSurvivor(w) \/ Unorderable(w) \/ Deduplicated(w)
             \/ LeavePointer(w)
      PROVE  Clean(sweep'[w])
  BY <1>9 DEF ListRegions, Scanned, NoSurvivor, Unorderable, Deduplicated, LeavePointer
<1>. QED
  BY <1>1, <1>2, <1>3, <1>4, <1>5, <1>6, <1>7, <1>8, <1>9 DEF AnsweredSweepStep, Reap, Dedup

\* What it then does to the pointer.
LEMMA CleanSettles ==
  ASSUME IInv, NEW w \in Workers, SweptAt(w), AnsweredSweepStep(w), Clean(sweep[w]),
         sweep[w].step = "reconcile", sweep'[w].step = "done", sweep[w].orderable
  PROVE  /\ \A n \in Live : /\ pointer' = [region |-> home[n], instance_id |-> n]
                            /\ ~IsExpired(n, sweep[w].now)
         /\ sweep[w].candidate = None => Live = {} /\ pointer' = None
<1>1. \A n \in Live : n = sweep[w].candidate /\ ~IsExpired(n, sweep[w].now)
  BY OnlyCandidateRuns DEF Clean
<1>2. Adopt(w, "ok") \/ ClearPointer(w, "ok") \/ LeavePointer(w)
  BY DEF AnsweredSweepStep, ReadConfig, ListRegions, ScanRegion, Scanned, NoSurvivor, Unorderable,
         Deduplicated, OrderSurvivors, Reap, Dedup, Check, Stamp, SweepEnds
<1>3. \A n \in Live : n \in Nodes /\ n # None
  BY NodesAssumption DEF Live
<1>4. CASE Adopt(w, "ok")
  BY <1>1, <1>3, <1>4 DEF Adopt, MayAdopt, Reconcile, WritePointer, TookEffect
<1>5. CASE ClearPointer(w, "ok")
  BY <1>1, <1>3, <1>5 DEF ClearPointer, MayClear, Reconcile, WritePointer, TookEffect
<1>6. CASE LeavePointer(w)
  <2>1. sweep[w].ptr = pointer /\ pointer' = pointer
    BY <1>6 DEF SweptAt, ReadStays, Clean, Scanning, LeavePointer, cloudVars
  <2>2. sweep[w].candidate = None => pointer = None
    BY <1>6, <2>1 DEF LeavePointer, MayClear, MayReconcile, Clean
  <2>3. ASSUME NEW n \in Live PROVE pointer = [region |-> home[n], instance_id |-> n]
    <3>1. pointer # None /\ pointer.instance_id = n
      BY <1>1, <1>3, <1>6, <2>1 DEF LeavePointer, MayAdopt, MayReconcile, Tracked, Clean
    <3>2. pointer \in [region: Regions, instance_id: Nodes] /\ home[pointer.instance_id] = pointer.region
      BY <3>1 DEF IInv, TypeInv, TypeOK, CloudTypeOK, Pointers, HomesKnown
    <3>. QED
      BY <3>1, <3>2
  <2>. QED
    BY <1>1, <1>3, <2>1, <2>2, <2>3
<1>. QED
  BY <1>2, <1>4, <1>5, <1>6

\* Whatever else happens in the calm, a sweep that has begun, or begins, is not disturbed.
LEMMA CalmKeepsClean ==
  ASSUME WatchdogTypeOK, NEW w \in Workers, Clean(sweep[w]),
         \/ UNCHANGED sweep
         \/ \E v \in Workers : SweepDue(v)
  PROVE  Clean(sweep'[w]) /\ (sweep'[w].step = "done" => sweep[w].step = "done")
<1>1. CASE UNCHANGED sweep
  BY <1>1
<1>2. ASSUME NEW v \in Workers, SweepDue(v) PROVE Clean(sweep'[w]) /\ sweep'[w].step # "done"
  <2>1. sweep' = [sweep EXCEPT ![v] = [NoSweep EXCEPT !.step = "config", !.now = clock]]
    BY <1>2 DEF SweepDue, StartSweep
  <2>2. CASE v = w
    BY <2>1, <2>2 DEF WatchdogTypeOK, NoSweep, Clean
  <2>3. CASE v # w
    BY <1>2, <2>1, <2>3 DEF WatchdogTypeOK, SweepDue, Admit, Sweeping
  <2>. QED
    BY <2>2, <2>3
<1>. QED
  BY <1>1, <1>2

\* Whatever is proved of the control plane is true of it before and in the calm.
THEOREM CalmIsControlPlane == ConvergenceSpec => Spec
<1>1. ConvergenceInit => Init
  BY DEF ConvergenceInit
<1>. QED
  BY <1>1, CalmIsAStep, PTL DEF ConvergenceSpec, Spec

\* Once the calls of a sweep are answered, one sweep is enough: what it leaves running
\* is one node, unexpired and tracked, or nothing, and then nothing is tracked.
THEOREM CalmSweepsSettle == ConvergenceSpec => CalmSweepSettles
<1>1. ASSUME IInv, SweepInv, [ConvergenceNext]_convergenceVars
      PROVE  [calm => \A w \in Workers :
                Clean(sweep[w]) =>
                    /\ Clean(sweep'[w])
                    /\ sweep[w].step = "reconcile" /\ sweep'[w].step = "done" /\ sweep[w].orderable
                       => /\ \A n \in Live : /\ pointer' = [region |-> home[n], instance_id |-> n]
                                             /\ ~IsExpired(n, sweep[w].now)
                          /\ sweep[w].candidate = None => Live = {} /\ pointer' = None]_convergenceVars
  <2>. SUFFICES ASSUME ConvergenceNext, calm, NEW w \in Workers, Clean(sweep[w])
                PROVE  /\ Clean(sweep'[w])
                       /\ sweep[w].step = "reconcile" /\ sweep'[w].step = "done" /\ sweep[w].orderable
                          => /\ \A n \in Live : /\ pointer' = [region |-> home[n], instance_id |-> n]
                                                /\ ~IsExpired(n, sweep[w].now)
                             /\ sweep[w].candidate = None => Live = {} /\ pointer' = None
    BY <1>1
  <2>. WatchdogTypeOK /\ SweptAt(w)
    BY <1>1 DEF IInv, TypeInv, TypeOK, SweepInv
  <2>1. CalmNext
    BY DEF ConvergenceNext, CalmBegins
  <2>2. ASSUME NEW v \in Workers, AnsweredSweepStep(v) PROVE v = w \/ sweep'[w] = sweep[w]
    BY <1>1, <2>2, AnsweredIsAStep, SweepStepAlone
  <2>3. CASE AnsweredSweepStep(w)
    BY <1>1, <2>3, CleanStays, CleanSettles
  <2>4. CASE sweep'[w] = sweep[w]
    BY <2>4
  <2>5. CASE UNCHANGED sweep \/ \E v \in Workers : SweepDue(v)
    BY <2>5, CalmKeepsClean
  <2>. QED
    BY <2>1, <2>2, <2>3, <2>4, <2>5 DEF CalmNext, Environment
<1>. QED
  BY <1>1, Invariance, SweepInvariance, CalmIsControlPlane, PTL DEF ConvergenceSpec, CalmSweepSettles
=============================================================================
