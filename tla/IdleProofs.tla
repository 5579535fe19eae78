----------------------------- MODULE IdleProofs -----------------------------
(***************************************************************************)
(* A forgotten node is mailed about once a day and no more, for every day, *)
(* threshold and traffic, and however many sweeps overlap.                 *)
(***************************************************************************)
EXTENDS IdleAlert, Sums

-----------------------------------------------------------------------------
(* The inductive invariant.                                                 *)

\* A node that a sweep may still mail about: it runs, or a sweep has seen it.
Around(n) ==
    \/ status[n] = "live"
    \/ \E w \in Workers : Sweeping(w) /\ n \in sweep[w].seen

\* There is one such node at most: up finds the node that runs, and waits for
\* the end of a sweep.
OneAround == \A m, n \in Nodes : Around(m) /\ Around(n) => m = n

\* Times lie in the past, and a sweep knows what time it is.
InThePast ==
    /\ clock \in Ticks
    /\ mailed # None => mailed <= clock
    /\ \A w \in Workers : Sweeping(w) => sweep[w].now = clock

\* Such a node was launched, in a region.
KnownLaunch == \A n \in Nodes : Around(n) => home[n] \in Regions /\ status[n] # "unused"

\* The candidate is a node that was seen.
SeenFirst ==
    \A w \in Workers :
        /\ sweep[w].candidate # None => sweep[w].candidate \in sweep[w].seen
        /\ sweep[w].step \in {"dedup", "check", "stamp"} => sweep[w].candidate \in Nodes

\* A sweep that is to put the stamp has sent the mail.
StampFollowsMail == \A w \in Workers : sweep[w].step = "stamp" => mailed = clock

\* A mail that was stamped is in the tags of the node it was about, and any other
\* node was launched since, as far as its launch tag can be read.
Remembered ==
    stamped # None =>
        /\ mailed \in Ticks /\ status[stamped] # "unused"
        /\ \A n \in Nodes : Around(n) =>
              IF n = stamped THEN tags[n].alerted = mailed
              ELSE tags[n].launched = Malformed \/ tags[n].launched >= mailed

\* There is traffic of the past, of nodes that were launched; and a node ran from
\* the launch in its tag until now.
Recorded ==
    /\ \A n \in Nodes, t \in Ticks : traffic[n][t] # None => t < clock /\ status[n] # "unused"
    /\ \A n \in Nodes : Around(n) /\ tags[n].launched # Malformed =>
          /\ tags[n].launched <= clock
          /\ \A t \in Ticks : traffic[n][t] # None <=> tags[n].launched <= t /\ t < clock

AlertInv ==
    /\ TypeOK /\ OneAround /\ InThePast /\ KnownLaunch
    /\ SeenFirst /\ StampFollowsMail /\ Remembered /\ Recorded

-----------------------------------------------------------------------------
(* Steps of a sweep.                                                        *)

\* A step of a sweep that leaves the rest alone, sees no node that does not run,
\* and chooses one it has seen.
LEMMA SweepReads ==
  ASSUME AlertInv, NEW w \in Workers, Sweeping(w), UNCHANGED <<cloudVars, alertVars>>,
         WatchdogTypeOK', \A v \in Workers \ {w} : sweep'[v] = sweep[v],
         sweep'[w].step # "idle" => sweep'[w].now = sweep[w].now,
         sweep'[w].step # "idle" => sweep'[w].seen \subseteq sweep[w].seen \cup Live,
         sweep'[w].candidate # None => sweep'[w].candidate \in sweep'[w].seen,
         sweep'[w].step \in {"dedup", "check", "stamp"} => sweep'[w].candidate \in Nodes,
         sweep'[w].step = "stamp" => sweep[w].step = "stamp"
  PROVE  AlertInv'
<1>. USE DEF AlertInv
<1>1. TypeOK'
  BY DEF TypeOK, CloudTypeOK, cloudVars, fleetVars, alertVars
<1>2. \A n \in Nodes : Around(n)' => Around(n)
  BY DEF Around, Sweeping, Live, cloudVars, fleetVars
<1>3. OneAround'
  BY <1>2 DEF OneAround
<1>4. InThePast'
  BY <1>2 DEF InThePast, Sweeping, cloudVars, fleetVars, alertVars
<1>5. KnownLaunch'
  BY <1>2 DEF KnownLaunch, cloudVars, fleetVars
<1>6. SeenFirst'
  BY DEF SeenFirst
<1>7. StampFollowsMail'
  BY DEF StampFollowsMail, cloudVars, fleetVars, alertVars
<1>8. Remembered' /\ Recorded'
  BY <1>2 DEF Remembered, Recorded, cloudVars, fleetVars, alertVars
<1>. QED
  BY <1>1, <1>3, <1>4, <1>5, <1>6, <1>7, <1>8

\* What a sweep's record holds.
LEMMA RecordTyped ==
  ASSUME AlertInv, NEW w \in Workers
  PROVE  sweep[w] \in Sweep
BY DEF AlertInv, TypeOK, WatchdogTypeOK

\* The record of one sweep is replaced.
LEMMA RecordWritten ==
  ASSUME WatchdogTypeOK, NEW w \in Workers, NEW s \in Sweep, sweep' = [sweep EXCEPT ![w] = s]
  PROVE  WatchdogTypeOK' /\ sweep'[w] = s /\ \A v \in Workers \ {w} : sweep'[v] = sweep[v]
BY DEF WatchdogTypeOK

LEMMA FirstSteps ==
  ASSUME AlertInv, NEW w \in Workers, UNCHANGED alertVars,
         \/ \E threshold, readable \in BOOLEAN : ReadConfig(w, threshold, readable)
         \/ ListRegions(w) \/ ListRegionsFails(w)
  PROVE  AlertInv'
<1>. sweep[w] \in Sweep /\ pointer \in Pointers /\ WatchdogTypeOK
  BY RecordTyped DEF AlertInv, TypeOK, CloudTypeOK
<1>. USE DEF Sweep, SweepSteps
<1>1. CASE \E threshold, readable \in BOOLEAN : ReadConfig(w, threshold, readable)
  <2>1. PICK threshold, readable \in BOOLEAN : ReadConfig(w, threshold, readable)
    BY <1>1
  <2>2. (IF readable THEN pointer ELSE None) \in Pointers
    BY DEF Pointers
  <2>. DEFINE s == [sweep[w] EXCEPT !.threshold = threshold, !.readable = readable,
                                    !.ptr = IF readable THEN pointer ELSE None,
                                    !.alarm = ~threshold, !.step = "regions"]
  <2>3. s \in Sweep
    BY <2>2
  <2>4. /\ s.step = "regions" /\ s.now = sweep[w].now /\ s.seen = sweep[w].seen
        /\ s.candidate = sweep[w].candidate
    OBVIOUS
  <2>5. sweep' = [sweep EXCEPT ![w] = s] /\ sweep[w].step = "config" /\ UNCHANGED cloudVars
    BY <2>1 DEF ReadConfig
  <2>. HIDE DEF s
  <2>7. WatchdogTypeOK' /\ sweep'[w] = s /\ \A v \in Workers \ {w} : sweep'[v] = sweep[v]
    BY <2>3, <2>4, <2>5, RecordWritten
  <2>8. SeenFirst
    BY DEF AlertInv
  <2>. QED
    BY <2>3, <2>4, <2>5, <2>7, <2>8, SweepReads DEF SeenFirst, Sweeping
<1>2. CASE ListRegions(w)
  <2>1. WatchdogTypeOK'
    BY <1>2 DEF WatchdogTypeOK, ListRegions
  <2>. QED
    BY <1>2, <2>1, SweepReads DEF AlertInv, SeenFirst, Sweeping, WatchdogTypeOK, ListRegions
<1>3. CASE ListRegionsFails(w)
  <2>1. WatchdogTypeOK'
    BY <1>3 DEF WatchdogTypeOK, ListRegionsFails
  <2>. QED
    BY <1>3, <2>1, SweepReads DEF AlertInv, SeenFirst, Sweeping, WatchdogTypeOK, ListRegionsFails
<1>. QED
  BY <1>1, <1>2, <1>3

LEMMA ScanSteps ==
  ASSUME AlertInv, NEW w \in Workers, NEW region \in Regions, UNCHANGED alertVars,
         ScanRegion(w, region) \/ ScanRegionFails(w, region)
  PROVE  AlertInv'
<1>. sweep[w] \in Sweep /\ pointer \in Pointers /\ WatchdogTypeOK
  BY RecordTyped DEF AlertInv, TypeOK, CloudTypeOK
<1>. USE DEF Sweep, SweepSteps
<1>1. CASE ScanRegion(w, region)
  <2>1. FindNodes(region) \subseteq Live /\ Live \subseteq Nodes
    BY DEF FindNodes, Live
  <2>. DEFINE s == [sweep[w] EXCEPT !.scan = @ \ {region}, !.seen = @ \cup FindNodes(region)]
  <2>2. /\ sweep[w].scan \ {region} \in SUBSET Regions
        /\ sweep[w].seen \cup FindNodes(region) \in SUBSET Nodes
    BY <2>1
  <2>3. s \in Sweep
    BY <2>2
  <2>4. /\ s.step = sweep[w].step /\ s.now = sweep[w].now /\ s.candidate = sweep[w].candidate
        /\ s.seen = sweep[w].seen \cup FindNodes(region)
    OBVIOUS
  <2>5. sweep' = [sweep EXCEPT ![w] = s] /\ sweep[w].step = "scan" /\ UNCHANGED cloudVars
    BY <1>1 DEF ScanRegion
  <2>. HIDE DEF s
  <2>7. WatchdogTypeOK' /\ sweep'[w] = s /\ \A v \in Workers \ {w} : sweep'[v] = sweep[v]
    BY <2>1, <2>3, <2>4, <2>5, RecordWritten
  <2>8. SeenFirst
    BY DEF AlertInv
  <2>. QED
    BY <2>1, <2>3, <2>4, <2>5, <2>7, <2>8, SweepReads DEF SeenFirst, Sweeping
<1>2. CASE ScanRegionFails(w, region)
  <2>. DEFINE s == [sweep[w] EXCEPT !.scan = @ \ {region}, !.scanFailed = TRUE, !.alarm = TRUE]
  <2>1. sweep[w].scan \ {region} \in SUBSET Regions
    OBVIOUS
  <2>2. s \in Sweep
    BY <2>1
  <2>3. /\ s.step = sweep[w].step /\ s.now = sweep[w].now /\ s.candidate = sweep[w].candidate
        /\ s.seen = sweep[w].seen
    OBVIOUS
  <2>4. sweep' = [sweep EXCEPT ![w] = s] /\ sweep[w].step = "scan" /\ UNCHANGED cloudVars
    BY <1>2 DEF ScanRegionFails
  <2>. HIDE DEF s
  <2>7. WatchdogTypeOK' /\ sweep'[w] = s /\ \A v \in Workers \ {w} : sweep'[v] = sweep[v]
    BY <2>2, <2>3, <2>4, RecordWritten
  <2>8. SeenFirst
    BY DEF AlertInv
  <2>. QED
    BY <2>2, <2>3, <2>4, <2>7, <2>8, SweepReads DEF SeenFirst, Sweeping
<1>. QED
  BY <1>1, <1>2

LEMMA ChoiceSteps ==
  ASSUME AlertInv, NEW w \in Workers, UNCHANGED alertVars,
         \/ Scanned(w) \/ NoSurvivor(w) \/ Deduplicated(w) \/ LeavePointer(w)
         \/ \E n \in Nodes : OrderSurvivors(w, n)
  PROVE  AlertInv'
<1>. sweep[w] \in Sweep /\ pointer \in Pointers /\ WatchdogTypeOK
  BY RecordTyped DEF AlertInv, TypeOK, CloudTypeOK
<1>. USE DEF Sweep, SweepSteps
<1>0. Survivors(w) \subseteq sweep[w].seen
  BY DEF Survivors
<1>1. CASE Scanned(w)
  <2>1. WatchdogTypeOK'
    BY <1>1 DEF WatchdogTypeOK, Scanned
  <2>. QED
    BY <1>1, <2>1, SweepReads DEF AlertInv, SeenFirst, Sweeping, WatchdogTypeOK, Scanned
<1>2. CASE NoSurvivor(w)
  <2>1. WatchdogTypeOK'
    BY <1>2 DEF WatchdogTypeOK, NoSurvivor
  <2>. QED
    BY <1>2, <2>1, SweepReads DEF AlertInv, SeenFirst, Sweeping, WatchdogTypeOK, NoSurvivor
<1>3. CASE Deduplicated(w)
  <2>1. WatchdogTypeOK'
    BY <1>3 DEF WatchdogTypeOK, Deduplicated
  <2>. QED
    BY <1>3, <2>1, SweepReads DEF AlertInv, SeenFirst, Sweeping, WatchdogTypeOK, Deduplicated
<1>4. CASE LeavePointer(w)
  <2>1. WatchdogTypeOK'
    BY <1>4 DEF WatchdogTypeOK, LeavePointer
  <2>. QED
    BY <1>4, <2>1, SweepReads DEF AlertInv, SeenFirst, Sweeping, WatchdogTypeOK, LeavePointer
<1>5. CASE \E n \in Nodes : OrderSurvivors(w, n)
  <2>1. PICK n \in Nodes : OrderSurvivors(w, n)
    BY <1>5
  <2>2. n \in sweep[w].seen
    BY <1>0, <2>1 DEF OrderSurvivors, Newest
  <2>. DEFINE s == [sweep[w] EXCEPT !.candidate = n, !.todo = Survivors(w) \ {n}, !.step = "dedup"]
  <2>3. Survivors(w) \ {n} \in SUBSET Nodes
    BY <1>0
  <2>4. s \in Sweep
    BY <2>3
  <2>5. s.step = "dedup" /\ s.now = sweep[w].now /\ s.candidate = n /\ s.seen = sweep[w].seen
    OBVIOUS
  <2>6. sweep' = [sweep EXCEPT ![w] = s] /\ sweep[w].step = "reap" /\ UNCHANGED cloudVars
    BY <2>1 DEF OrderSurvivors
  <2>. HIDE DEF s
  <2>7. WatchdogTypeOK' /\ sweep'[w] = s /\ \A v \in Workers \ {w} : sweep'[v] = sweep[v]
    BY <2>2, <2>4, <2>5, <2>6, RecordWritten
  <2>8. SeenFirst
    BY DEF AlertInv
  <2>. QED
    BY <2>2, <2>4, <2>5, <2>6, <2>7, <2>8, SweepReads DEF SeenFirst, Sweeping
<1>. QED
  BY <1>1, <1>2, <1>3, <1>4, <1>5

\* The record of a worker that sweeps nothing.
LEMMA NoSweepIs ==
  /\ NoSweep \in Sweep /\ NoSweep.step = "idle" /\ NoSweep.candidate = None
  /\ NoSweep.seen = {}
BY DEF NoSweep, Sweep, SweepSteps, Pointers

LEMMA SweepEndSteps ==
  ASSUME AlertInv, NEW w \in Workers, SweepEnds(w) \/ SweepCrash(w), UNCHANGED alertVars
  PROVE  AlertInv'
<1>1. WatchdogTypeOK
  BY DEF AlertInv, TypeOK
<1>2. sweep' = [sweep EXCEPT ![w] = NoSweep] /\ UNCHANGED cloudVars /\ Sweeping(w)
  BY DEF SweepEnds, SweepCrash, Sweeping
<1>3. WatchdogTypeOK' /\ sweep'[w] = NoSweep /\ \A v \in Workers \ {w} : sweep'[v] = sweep[v]
  BY <1>1, <1>2, NoSweepIs, RecordWritten
<1>. QED
  BY <1>2, <1>3, NoSweepIs, SweepReads

\* A sweep starts with the time it is.
LEMMA StartSweepStep ==
  ASSUME AlertInv, NEW w \in Workers, StartSweep(w), UNCHANGED alertVars
  PROVE  AlertInv'
<1>. USE DEF AlertInv
<1>. DEFINE s == [NoSweep EXCEPT !.step = "config", !.now = clock]
<1>1. clock \in Nat
  BY DEF TypeOK, CloudTypeOK
<1>2. s \in Sweep /\ s.step = "config" /\ s.now = clock /\ s.seen = {} /\ s.candidate = None
  BY <1>1, NoSweepIs DEF Sweep, SweepSteps
<1>3. sweep' = [sweep EXCEPT ![w] = s] /\ ~Sweeping(w) /\ UNCHANGED cloudVars
  BY DEF StartSweep
<1>. HIDE DEF s
<1>4. WatchdogTypeOK' /\ sweep'[w] = s /\ \A v \in Workers \ {w} : sweep'[v] = sweep[v]
  BY <1>2, <1>3, RecordWritten DEF TypeOK
<1>5. TypeOK'
  BY <1>3, <1>4 DEF TypeOK, CloudTypeOK, cloudVars, fleetVars, alertVars
<1>6. \A n \in Nodes : Around(n)' => Around(n)
  BY <1>2, <1>3, <1>4 DEF Around, Sweeping, cloudVars, fleetVars
<1>7. OneAround'
  BY <1>6 DEF OneAround
<1>8. InThePast'
  BY <1>2, <1>3, <1>4, <1>6 DEF InThePast, Sweeping, cloudVars, fleetVars, alertVars
<1>9. SeenFirst'
  BY <1>2, <1>4 DEF SeenFirst
<1>10. KnownLaunch'
  BY <1>3, <1>6 DEF KnownLaunch, cloudVars, fleetVars
<1>11. StampFollowsMail'
  BY <1>2, <1>3, <1>4 DEF StampFollowsMail, cloudVars, fleetVars, alertVars
<1>12. Remembered' /\ Recorded'
  BY <1>3, <1>6 DEF Remembered, Recorded, cloudVars, fleetVars, alertVars
<1>. QED
  BY <1>5, <1>7, <1>8, <1>9, <1>10, <1>11, <1>12

\* A step of a sweep that only goes from one place to another sees nothing new.
LEMMA AroundStays ==
  ASSUME WatchdogTypeOK, NEW w \in Workers, NEW step \in SweepSteps, NEW alarm \in BOOLEAN,
         Sweeping(w), step # "idle", status' = status,
         sweep' = [sweep EXCEPT ![w].alarm = alarm, ![w].step = step]
  PROVE  /\ WatchdogTypeOK'
         /\ \A n \in Nodes : Around(n)' => Around(n)
         /\ sweep'[w].step = step
         /\ \A v \in Workers : /\ Sweeping(v)' = Sweeping(v)
                               /\ sweep'[v].now = sweep[v].now
                               /\ sweep'[v].seen = sweep[v].seen
                               /\ sweep'[v].candidate = sweep[v].candidate
                               /\ v # w => sweep'[v] = sweep[v]
<1>. DEFINE s == [sweep[w] EXCEPT !.alarm = alarm, !.step = step]
<1>1. sweep[w] \in Sweep
  BY DEF WatchdogTypeOK
<1>2. /\ s \in Sweep /\ s.step = step /\ s.now = sweep[w].now /\ s.seen = sweep[w].seen
      /\ s.candidate = sweep[w].candidate
  BY <1>1 DEF Sweep
<1>3. sweep' = [sweep EXCEPT ![w] = s]
  BY DEF WatchdogTypeOK
<1>. HIDE DEF s
<1>4. WatchdogTypeOK' /\ sweep'[w] = s /\ \A v \in Workers \ {w} : sweep'[v] = sweep[v]
  BY <1>2, <1>3, RecordWritten
<1>. QED
  BY <1>2, <1>4 DEF Around, Sweeping

\* The pointer is written, and a sweep is about to end.
LEMMA PointerSteps ==
  ASSUME AlertInv, NEW w \in Workers, NEW outcome \in Outcomes, UNCHANGED alertVars,
         Adopt(w, outcome) \/ ClearPointer(w, outcome)
  PROVE  AlertInv'
<1>. USE DEF AlertInv
<1>0. sweep[w] \in Sweep
  BY RecordTyped
<1>1. PICK value \in Pointers : Reconcile(w, value, outcome)
  <2>1. CASE Adopt(w, outcome)
    <3>. DEFINE n == sweep[w].candidate
    <3>1. n \in Nodes /\ n \in sweep[w].seen /\ sweep[w].step = "reconcile"
      BY <1>0, <2>1 DEF Adopt, MayAdopt, Reconcile, SeenFirst, Sweep
    <3>2. home[n] \in Regions
      BY <3>1 DEF KnownLaunch, Around, Sweeping
    <3>3. [region |-> home[n], instance_id |-> n] \in Pointers
      BY <3>1, <3>2 DEF Pointers
    <3>. QED
      BY <2>1, <3>3 DEF Adopt
  <2>2. CASE ClearPointer(w, outcome)
    BY <2>2 DEF ClearPointer, Pointers
  <2>. QED
    BY <2>1, <2>2
<1>2. /\ sweep[w].step = "reconcile" /\ pointer' \in {value, pointer}
      /\ UNCHANGED <<status, home, tags, defaultRegion, clock>>
  BY <1>1 DEF Reconcile, WritePointer, fleetVars
<1>. DEFINE alarm == sweep[w].alarm \/ ~Answered(outcome)
<1>3. sweep' = [sweep EXCEPT ![w].alarm = alarm, ![w].step = "done"] /\ alarm \in BOOLEAN
  BY <1>0, <1>1 DEF Reconcile, Sweep
<1>. HIDE DEF alarm
<1>4. /\ WatchdogTypeOK'
      /\ \A n \in Nodes : Around(n)' => Around(n)
      /\ sweep'[w].step = "done"
      /\ \A v \in Workers : /\ Sweeping(v)' = Sweeping(v)
                            /\ sweep'[v].now = sweep[v].now
                            /\ sweep'[v].seen = sweep[v].seen
                            /\ sweep'[v].candidate = sweep[v].candidate
                            /\ v # w => sweep'[v] = sweep[v]
  BY <1>2, <1>3, AroundStays DEF SweepSteps, Sweeping, TypeOK
<1>5. TypeOK'
  BY <1>1, <1>2, <1>4 DEF TypeOK, CloudTypeOK, alertVars
<1>6. OneAround'
  BY <1>4 DEF OneAround
<1>7. InThePast' /\ KnownLaunch'
  BY <1>2, <1>4 DEF InThePast, KnownLaunch, alertVars
<1>8. SeenFirst' /\ StampFollowsMail'
  BY <1>2, <1>4 DEF SeenFirst, StampFollowsMail, alertVars
<1>9. Remembered' /\ Recorded'
  BY <1>2, <1>4 DEF Remembered, Recorded, alertVars
<1>. QED
  BY <1>5, <1>6, <1>7, <1>8, <1>9

-----------------------------------------------------------------------------
(* The mail and its stamp.                                                  *)

\* A check sends a mail, or goes on to the pointer.
LEMMA CheckGoesOn ==
  ASSUME AlertInv, NEW w \in Workers, NEW reading \in Readings,
         CheckTraffic(w, reading)
  PROVE  /\ WatchdogTypeOK'
         /\ \A n \in Nodes : Around(n)' => Around(n)
         /\ \A v \in Workers : /\ Sweeping(v)' = Sweeping(v)
                               /\ sweep'[v].now = sweep[v].now
                               /\ sweep'[v].seen = sweep[v].seen
                               /\ sweep'[v].candidate = sweep[v].candidate
                               /\ v # w => sweep'[v] = sweep[v]
         /\ sweep[w].step = "check" /\ sweep'[w].step \in {"stamp", "reconcile"}
         /\ UNCHANGED <<cloudVars, traffic>>
         /\ mailed' = IF sweep'[w].step = "stamp" THEN sweep[w].now ELSE mailed
         /\ stamped' \in {stamped, None} /\ (mailed' # mailed => stamped' = None)
         /\ looked' \in BOOLEAN
<1>1. sweep[w] \in Sweep /\ WatchdogTypeOK
  BY RecordTyped DEF AlertInv, TypeOK
<1>2. Check(w, reading)
  BY DEF CheckTraffic
<1>. DEFINE alarm == sweep[w].alarm \/ reading = "unavailable"
            step == IF reading = "idle" /\ ShouldAlert(sweep[w].candidate, sweep[w].now)
                    THEN "stamp" ELSE "reconcile"
<1>3. /\ sweep[w].step = "check" /\ UNCHANGED cloudVars /\ alarm \in BOOLEAN
      /\ sweep' = [sweep EXCEPT ![w].alarm = alarm, ![w].step = step]
  BY <1>1, <1>2 DEF Check, Sweep
<1>4. step \in {"stamp", "reconcile"}
  OBVIOUS
<1>. HIDE DEF alarm, step
<1>5. /\ WatchdogTypeOK'
      /\ \A n \in Nodes : Around(n)' => Around(n)
      /\ sweep'[w].step = step
      /\ \A v \in Workers : /\ Sweeping(v)' = Sweeping(v)
                            /\ sweep'[v].now = sweep[v].now
                            /\ sweep'[v].seen = sweep[v].seen
                            /\ sweep'[v].candidate = sweep[v].candidate
                            /\ v # w => sweep'[v] = sweep[v]
  BY <1>1, <1>3, <1>4, AroundStays DEF SweepSteps, Sweeping, cloudVars, fleetVars
<1>6. /\ UNCHANGED traffic
      /\ mailed' = IF sweep'[w].step = "stamp" THEN sweep[w].now ELSE mailed
      /\ stamped' \in {stamped, None} /\ (mailed' # mailed => stamped' = None)
  BY DEF CheckTraffic
<1>7. looked' \in BOOLEAN
  BY DEF CheckTraffic, AlertInv, TypeOK
<1>. QED
  BY <1>3, <1>4, <1>5, <1>6, <1>7

\* A mail that is sent unmakes the stamp of the one before.
LEMMA CheckStep ==
  ASSUME AlertInv, NEW w \in Workers, NEW reading \in Readings,
         CheckTraffic(w, reading)
  PROVE  AlertInv'
<1>. USE DEF AlertInv
<1>1. /\ WatchdogTypeOK'
      /\ \A n \in Nodes : Around(n)' => Around(n)
      /\ \A v \in Workers : /\ Sweeping(v)' = Sweeping(v)
                            /\ sweep'[v].now = sweep[v].now
                            /\ sweep'[v].seen = sweep[v].seen
                            /\ sweep'[v].candidate = sweep[v].candidate
                            /\ v # w => sweep'[v] = sweep[v]
      /\ sweep[w].step = "check" /\ sweep'[w].step \in {"stamp", "reconcile"}
      /\ UNCHANGED <<status, home, tags, pointer, defaultRegion, clock, traffic>>
      /\ mailed' = IF sweep'[w].step = "stamp" THEN sweep[w].now ELSE mailed
      /\ stamped' \in {stamped, None} /\ (mailed' # mailed => stamped' = None)
      /\ looked' \in BOOLEAN
  BY CheckGoesOn DEF cloudVars, fleetVars
<1>2. sweep[w].now = clock /\ clock \in Ticks
  BY <1>1 DEF InThePast, Sweeping
<1>3. TypeOK'
  BY <1>1, <1>2 DEF TypeOK, CloudTypeOK
<1>4. OneAround'
  BY <1>1 DEF OneAround
<1>5. InThePast'
  BY <1>1, <1>2 DEF InThePast, Ticks
<1>6. KnownLaunch'
  BY <1>1 DEF KnownLaunch
<1>7. SeenFirst'
  BY <1>1 DEF SeenFirst
<1>8. StampFollowsMail'
  <2>. SUFFICES ASSUME NEW v \in Workers, sweep'[v].step = "stamp" PROVE mailed' = clock
    BY <1>1 DEF StampFollowsMail
  <2>1. CASE v = w
    BY <1>1, <1>2, <2>1
  <2>2. CASE v # w
    BY <1>1, <1>2, <2>2 DEF StampFollowsMail
  <2>. QED
    BY <2>1, <2>2
<1>9. Remembered' /\ Recorded'
  BY <1>1 DEF Remembered, Recorded
<1>. QED
  BY <1>3, <1>4, <1>5, <1>6, <1>7, <1>8, <1>9

\* The stamp is put on the one node there is.
LEMMA StampStep ==
  ASSUME AlertInv, NEW w \in Workers, NEW outcome \in Outcomes, StampTraffic(w, outcome)
  PROVE  AlertInv'
<1>. USE DEF AlertInv
<1>. DEFINE c == sweep[w].candidate
            alarm == sweep[w].alarm \/ ~Answered(outcome)
<1>1. sweep[w] \in Sweep /\ WatchdogTypeOK /\ sweep[w].step = "stamp" /\ Sweeping(w)
  BY RecordTyped DEF TypeOK, StampTraffic, Stamp, Sweeping
<1>2. /\ UNCHANGED <<status, home, pointer, defaultRegion, clock, traffic, mailed, looked>>
      /\ tags' = IF TookEffect(outcome) THEN [tags EXCEPT ![c].alerted = sweep[w].now] ELSE tags
      /\ stamped' = IF TookEffect(outcome) THEN c ELSE stamped
  BY DEF StampTraffic, Stamp
<1>3. /\ sweep' = [sweep EXCEPT ![w].alarm = alarm, ![w].step = "reconcile"]
      /\ alarm \in BOOLEAN
  BY <1>1 DEF StampTraffic, Stamp, Sweep
<1>. HIDE DEF alarm
<1>4. /\ WatchdogTypeOK'
      /\ \A n \in Nodes : Around(n)' => Around(n)
      /\ sweep'[w].step = "reconcile"
      /\ \A v \in Workers : /\ Sweeping(v)' = Sweeping(v)
                            /\ sweep'[v].now = sweep[v].now
                            /\ sweep'[v].seen = sweep[v].seen
                            /\ sweep'[v].candidate = sweep[v].candidate
                            /\ v # w => sweep'[v] = sweep[v]
  BY <1>1, <1>2, <1>3, AroundStays DEF SweepSteps
<1>5. c \in Nodes /\ c \in sweep[w].seen
  BY <1>1, NodesAssumption DEF SeenFirst
<1>6. Around(c) /\ sweep[w].now = clock /\ clock \in Ticks /\ clock \in Nat
  BY <1>1, <1>5 DEF Around, InThePast, Ticks
<1>. HIDE DEF c
<1>7. tags \in [Nodes -> Tags]
  BY DEF TypeOK, CloudTypeOK
<1>8. /\ tags' \in [Nodes -> Tags]
      /\ \A n \in Nodes : tags'[n].launched = tags[n].launched
      /\ TookEffect(outcome) => tags'[c].alerted = clock
  BY <1>2, <1>5, <1>6, <1>7 DEF Tags
<1>9. TypeOK'
  BY <1>2, <1>4, <1>5, <1>8 DEF TypeOK, CloudTypeOK
<1>10. OneAround'
  BY <1>4 DEF OneAround
<1>11. InThePast'
  BY <1>2, <1>4 DEF InThePast
<1>12. KnownLaunch'
  BY <1>2, <1>4, <1>8 DEF KnownLaunch
<1>13. SeenFirst' /\ StampFollowsMail'
  BY <1>2, <1>4 DEF SeenFirst, StampFollowsMail
<1>14. Remembered'
  <2>1. CASE ~TookEffect(outcome)
    BY <1>2, <1>4, <2>1 DEF Remembered
  <2>2. CASE TookEffect(outcome)
    <3>1. mailed = clock /\ status[c] # "unused"
      BY <1>1, <1>5, <1>6 DEF StampFollowsMail, KnownLaunch
    <3>2. \A n \in Nodes : Around(n)' => n = c
      BY <1>4, <1>5, <1>6 DEF OneAround
    <3>. QED
      BY <1>2, <1>6, <1>8, <2>2, <3>1, <3>2 DEF Remembered
  <2>. QED
    BY <2>1, <2>2
<1>15. Recorded'
  BY <1>2, <1>4, <1>8 DEF Recorded
<1>. QED
  BY <1>9, <1>10, <1>11, <1>12, <1>13, <1>14, <1>15

-----------------------------------------------------------------------------
(* Between the sweeps.                                                      *)

LEMMA HourStep ==
  ASSUME AlertInv, NEW amount \in Amounts, HourPasses(amount)
  PROVE  AlertInv'
<1>. USE DEF AlertInv
<1>1. /\ \A w \in Workers : ~Sweeping(w)
      /\ UNCHANGED <<sweep, mailed, stamped, status, home, tags, pointer, defaultRegion>>
      /\ clock < MaxClock /\ clock' = clock + 1 /\ looked' = FALSE
      /\ traffic' = [n \in Nodes |-> IF n \in Live THEN [traffic[n] EXCEPT ![clock] = amount]
                                     ELSE traffic[n]]
  BY DEF HourPasses, Tick, fleetVars
<1>2. /\ clock \in Ticks /\ clock \in Nat /\ clock + 1 \in Ticks
      /\ mailed # None => mailed \in Nat /\ mailed <= clock
  BY <1>1, TimeAssumption DEF InThePast, TypeOK, Ticks
<1>3. TypeOK'
  <2>1. CloudTypeOK' /\ WatchdogTypeOK'
    BY <1>1, <1>2 DEF TypeOK, CloudTypeOK, WatchdogTypeOK
  <2>2. traffic' \in [Nodes -> [Ticks -> Amounts \cup {None}]]
    BY <1>1, <1>2 DEF TypeOK
  <2>. QED
    BY <1>1, <2>1, <2>2 DEF TypeOK
<1>4. \A n \in Nodes : Around(n)' => Around(n) /\ n \in Live
  BY <1>1 DEF Around, Sweeping, Live
<1>5. OneAround' /\ KnownLaunch' /\ SeenFirst' /\ Remembered'
  BY <1>1, <1>4 DEF OneAround, KnownLaunch, SeenFirst, Remembered
<1>6. InThePast' /\ StampFollowsMail'
  BY <1>1, <1>2 DEF InThePast, StampFollowsMail, Sweeping
<1>7. Recorded'
  <2>1. \A n \in Nodes, t \in Ticks :
          traffic'[n][t] = IF n \in Live /\ t = clock THEN amount ELSE traffic[n][t]
    BY <1>1, <1>2 DEF TypeOK
  <2>2. amount # None /\ \A t \in Ticks : t \in Nat
    BY TrafficAssumption, TimeAssumption DEF Ticks
  <2>3. \A n \in Nodes, t \in Ticks : traffic'[n][t] # None => t < clock' /\ status'[n] # "unused"
    BY <1>1, <1>2, <2>1, <2>2 DEF Recorded, Live
  <2>4. ASSUME NEW n \in Nodes, Around(n)', tags[n].launched # Malformed, NEW t \in Ticks
        PROVE  /\ tags[n].launched <= clock'
               /\ traffic'[n][t] # None <=> tags[n].launched <= t /\ t < clock'
    <3>1. n \in Live /\ (traffic[n][t] # None <=> tags[n].launched <= t /\ t < clock)
      BY <1>4, <2>4 DEF Recorded
    <3>2. tags[n].launched \in Nat
      BY <2>4 DEF TypeOK, CloudTypeOK, Tags
    <3>3. tags[n].launched <= clock
      BY <1>4, <2>4 DEF Recorded
    <3>. QED
      BY <1>1, <1>2, <2>1, <2>2, <3>1, <3>2, <3>3
  <2>. QED
    BY <1>1, <1>2, <2>3, <2>4 DEF Recorded
<1>. QED
  BY <1>3, <1>5, <1>6, <1>7

LEMMA NodeEndsStep ==
  ASSUME AlertInv, NEW n \in Nodes, NodeEnds(n), UNCHANGED <<sweep, alertVars>>
  PROVE  AlertInv'
<1>. USE DEF AlertInv
<1>1. /\ status' = [status EXCEPT ![n] = "gone"]
      /\ UNCHANGED <<home, tags, pointer, defaultRegion, clock, sweep, alertVars>>
  BY DEF NodeEnds
<1>2. TypeOK'
  BY <1>1 DEF TypeOK, CloudTypeOK, WatchdogTypeOK, Statuses, alertVars
<1>3. /\ \A m \in Nodes : Around(m)' => Around(m)
      /\ \A m \in Nodes : status[m] # "unused" => status'[m] # "unused"
  BY <1>1 DEF Around, Sweeping, TypeOK, CloudTypeOK
<1>4. OneAround' /\ KnownLaunch' /\ SeenFirst'
  BY <1>1, <1>3 DEF OneAround, KnownLaunch, SeenFirst
<1>5. InThePast' /\ StampFollowsMail'
  BY <1>1 DEF InThePast, StampFollowsMail, Sweeping, alertVars
<1>6. Remembered'
  BY <1>1, <1>3 DEF Remembered, alertVars, TypeOK
<1>7. Recorded'
  BY <1>1, <1>3 DEF Recorded, alertVars
<1>. QED
  BY <1>2, <1>4, <1>5, <1>6, <1>7

\* A node that is launched is the only one, and later than any mail.
LEMMA LaunchStep ==
  ASSUME AlertInv, NEW n \in Nodes, NEW region \in Regions, Launched(n, region),
         UNCHANGED <<sweep, alertVars>>
  PROVE  AlertInv'
<1>. USE DEF AlertInv
<1>. DEFINE t == [launched |-> clock, expires |-> Never, alerted |-> None]
<1>1. /\ \A w \in Workers : ~Sweeping(w)
      /\ Live = {} /\ status[n] = "unused"
      /\ status' = [status EXCEPT ![n] = "live"]
      /\ home' = [home EXCEPT ![n] = region]
      /\ tags' = [tags EXCEPT ![n] = t]
      /\ pointer' = [region |-> region, instance_id |-> n]
      /\ UNCHANGED <<defaultRegion, clock, sweep, traffic, mailed, stamped, looked>>
  BY DEF Launched, RunInstance, alertVars
<1>2. t \in Tags /\ t.launched = clock /\ clock \in Nat
  BY DEF Tags, Expiries, TypeOK, CloudTypeOK
<1>. HIDE DEF t
<1>3. TypeOK'
  <2>1. status' \in [Nodes -> Statuses] /\ home' \in [Nodes -> Regions \cup {None}]
    BY <1>1 DEF TypeOK, CloudTypeOK, Statuses
  <2>2. tags' \in [Nodes -> Tags] /\ pointer' \in Pointers
    BY <1>1, <1>2 DEF TypeOK, CloudTypeOK, Pointers
  <2>. QED
    BY <1>1, <2>1, <2>2 DEF TypeOK, CloudTypeOK, WatchdogTypeOK
<1>4. /\ \A m \in Nodes : Around(m)' => m = n
      /\ \A m \in Nodes : status[m] # "unused" => status'[m] # "unused"
  BY <1>1 DEF Around, Sweeping, TypeOK, CloudTypeOK, Live
<1>5. tags'[n].launched = clock /\ home'[n] = region /\ status'[n] = "live"
  BY <1>1, <1>2 DEF TypeOK, CloudTypeOK
<1>6. OneAround' /\ KnownLaunch'
  BY <1>2, <1>4, <1>5 DEF OneAround, KnownLaunch
<1>7. InThePast' /\ SeenFirst' /\ StampFollowsMail'
  BY <1>1 DEF InThePast, SeenFirst, StampFollowsMail, Sweeping
<1>8. Remembered'
  <2>. SUFFICES ASSUME stamped # None
                PROVE  /\ mailed \in Ticks /\ clock >= mailed
                       /\ stamped # n /\ status'[stamped] # "unused"
    BY <1>1, <1>4, <1>5 DEF Remembered
  <2>1. mailed \in Ticks /\ mailed # None /\ status[stamped] # "unused" /\ stamped \in Nodes
    BY TimeAssumption DEF Remembered, Ticks, TypeOK
  <2>2. clock >= mailed
    BY <1>2, <2>1 DEF InThePast, Ticks
  <2>. QED
    BY <1>1, <1>4, <2>1, <2>2
<1>9. Recorded'
  <2>1. \A m \in Nodes, u \in Ticks : traffic[m][u] # None => u < clock /\ m # n
    BY <1>1 DEF Recorded
  <2>2. \A u \in Ticks : ~(clock <= u /\ u < clock)
    BY <1>2, TimeAssumption DEF Ticks
  <2>3. \A m \in Nodes, u \in Ticks : traffic'[m][u] # None => u < clock' /\ status'[m] # "unused"
    BY <1>1, <1>4 DEF Recorded
  <2>4. ASSUME NEW m \in Nodes, Around(m)'
        PROVE  /\ tags'[m].launched = clock /\ clock <= clock'
               /\ \A u \in Ticks : traffic'[m][u] = None /\ ~(clock <= u /\ u < clock')
    BY <1>1, <1>2, <1>4, <1>5, <2>1, <2>2, <2>4
  <2>. QED
    BY <2>3, <2>4 DEF Recorded
<1>. QED
  BY <1>3, <1>6, <1>7, <1>8, <1>9

\* What is edited is not what a node that was stamped is known by, or it is not
\* known any more.
LEMMA EditStep ==
  ASSUME AlertInv, TagEdited
  PROVE  AlertInv'
<1>. USE DEF AlertInv
<1>1. PICK n \in Editable : \/ LaunchTagEdited(n) /\ UNCHANGED stamped
                            \/ AlertTagEdited(n) /\ stamped' = IF stamped = n THEN None ELSE stamped
  BY DEF TagEdited
<1>2. /\ n \in Nodes /\ \A w \in Workers : ~Sweeping(w)
      /\ UNCHANGED <<status, home, pointer, defaultRegion, clock, sweep, traffic, mailed, looked>>
  BY <1>1, NodesAssumption DEF TagEdited, LaunchTagEdited, AlertTagEdited
<1>3. /\ tags' \in [Nodes -> Tags]
      /\ \A m \in Nodes : /\ tags'[m].launched \in {tags[m].launched, Malformed}
                          /\ m # n => tags'[m].alerted = tags[m].alerted
  <2>1. tags \in [Nodes -> Tags] /\ Malformed \in Nat \cup {Malformed} /\ None \in Nat \cup {None}
    BY DEF TypeOK, CloudTypeOK
  <2>2. CASE tags' = [tags EXCEPT ![n].launched = Malformed]
    BY <1>2, <2>1, <2>2 DEF Tags
  <2>3. CASE tags' = [tags EXCEPT ![n].alerted = None]
    BY <1>2, <2>1, <2>3 DEF Tags
  <2>. QED
    BY <1>1, <2>2, <2>3 DEF LaunchTagEdited, AlertTagEdited
<1>4. /\ stamped' \in {stamped, None}
      /\ stamped' = n => tags'[n].alerted = tags[n].alerted
  <2>1. CASE LaunchTagEdited(n) /\ UNCHANGED stamped
    <3>1. /\ tags' = [tags EXCEPT ![n].launched = Malformed] /\ stamped' = stamped
          /\ tags \in [Nodes -> Tags]
      BY <2>1 DEF LaunchTagEdited, TypeOK, CloudTypeOK
    <3>2. tags'[n].alerted = tags[n].alerted
      BY <1>2, <3>1 DEF Tags
    <3>. QED
      BY <3>1, <3>2
  <2>2. CASE AlertTagEdited(n) /\ stamped' = IF stamped = n THEN None ELSE stamped
    BY <1>2, <2>2, NodesAssumption
  <2>. QED
    BY <1>1, <2>1, <2>2
<1>5. TypeOK'
  BY <1>2, <1>3, <1>4 DEF TypeOK, CloudTypeOK, WatchdogTypeOK
<1>6. \A m \in Nodes : Around(m)' => Around(m)
  BY <1>2 DEF Around, Sweeping
<1>7. OneAround' /\ KnownLaunch' /\ SeenFirst'
  BY <1>2, <1>6 DEF OneAround, KnownLaunch, SeenFirst
<1>8. InThePast' /\ StampFollowsMail'
  BY <1>2 DEF InThePast, StampFollowsMail, Sweeping
<1>9. Remembered'
  BY <1>2, <1>3, <1>4, <1>6 DEF Remembered
<1>10. Recorded'
  BY <1>2, <1>3, <1>6 DEF Recorded
<1>. QED
  BY <1>5, <1>7, <1>8, <1>9, <1>10

-----------------------------------------------------------------------------
LEMMA InitAlert == Init => AlertInv
<1>. SUFFICES ASSUME Init PROVE AlertInv
  OBVIOUS
<1>. USE DEF Init
<1>1. CloudTypeOK
  BY RegionsAssumption DEF CloudInit, CloudTypeOK, Statuses, Tags, Expiries, Pointers
<1>2. WatchdogTypeOK /\ \A w \in Workers : sweep[w] = NoSweep
  BY NoSweepIs DEF WatchdogInit, WatchdogTypeOK
<1>3. TypeOK /\ 0 \in Ticks
  <2>1. 0 \in Ticks
    BY TimeAssumption DEF Ticks
  <2>2. traffic \in [Nodes -> [Ticks -> Amounts \cup {None}]]
    OBVIOUS
  <2>. QED
    BY <1>1, <1>2, <2>1, <2>2 DEF TypeOK
<1>4. \A n \in Nodes : ~Around(n)
  BY <1>2, NoSweepIs DEF Around, Sweeping, CloudInit
<1>5. InThePast
  BY <1>2, <1>3, NoSweepIs DEF InThePast, Sweeping, CloudInit
<1>6. SeenFirst /\ StampFollowsMail
  BY <1>2, NoSweepIs DEF SeenFirst, StampFollowsMail
<1>7. Recorded
  BY <1>4 DEF Recorded
<1>. QED
  BY <1>3, <1>4, <1>5, <1>6, <1>7 DEF AlertInv, OneAround, KnownLaunch, Remembered

LEMMA AlertStep == AlertInv /\ [Next]_vars => AlertInv'
<1>. SUFFICES ASSUME AlertInv, [Next]_vars PROVE AlertInv'
  OBVIOUS
<1>1. CASE \E w \in Workers : (StartSweep(w) \/ SweepGoesOn(w)) /\ UNCHANGED alertVars
  <2>1. PICK w \in Workers : (StartSweep(w) \/ SweepGoesOn(w)) /\ UNCHANGED alertVars
    BY <1>1
  <2>2. CASE StartSweep(w)
    BY <2>1, <2>2, StartSweepStep
  <2>3. CASE \/ \E threshold, readable \in BOOLEAN : ReadConfig(w, threshold, readable)
             \/ ListRegions(w) \/ ListRegionsFails(w)
    BY <2>1, <2>3, FirstSteps
  <2>4. CASE \E region \in Regions : ScanRegion(w, region) \/ ScanRegionFails(w, region)
    BY <2>1, <2>4, ScanSteps
  <2>5. CASE \/ Scanned(w) \/ NoSurvivor(w) \/ Deduplicated(w) \/ LeavePointer(w)
             \/ \E n \in Nodes : OrderSurvivors(w, n)
    BY <2>1, <2>5, ChoiceSteps
  <2>6. CASE \E outcome \in Outcomes : Adopt(w, outcome) \/ ClearPointer(w, outcome)
    BY <2>1, <2>6, PointerSteps
  <2>7. CASE SweepEnds(w) \/ SweepCrash(w)
    BY <2>1, <2>7, SweepEndSteps
  <2>. QED
    BY <2>1, <2>2, <2>3, <2>4, <2>5, <2>6, <2>7 DEF SweepGoesOn
<1>2. CASE \E w \in Workers, reading \in Readings : CheckTraffic(w, reading)
  BY <1>2, CheckStep
<1>3. CASE \E w \in Workers, outcome \in Outcomes : StampTraffic(w, outcome)
  BY <1>3, StampStep
<1>4. CASE TagEdited
  BY <1>4, EditStep
<1>5. CASE \E amount \in Amounts : HourPasses(amount)
  BY <1>5, HourStep
<1>6. CASE /\ \E n \in Nodes : NodeEnds(n) \/ \E region \in Regions : Launched(n, region)
           /\ UNCHANGED <<sweep, alertVars>>
  BY <1>6, NodeEndsStep, LaunchStep
<1>7. CASE UNCHANGED vars
  <2>. USE <1>7 DEF vars, cloudVars, fleetVars, alertVars, AlertInv
  <2>1. TypeOK'
    BY DEF TypeOK, CloudTypeOK, WatchdogTypeOK
  <2>2. \A n \in Nodes : Around(n)' = Around(n)
    BY DEF Around, Sweeping
  <2>3. OneAround' /\ KnownLaunch' /\ SeenFirst' /\ StampFollowsMail' /\ Remembered' /\ Recorded'
    BY <2>2 DEF OneAround, KnownLaunch, SeenFirst, StampFollowsMail, Remembered, Recorded
  <2>4. InThePast'
    BY DEF InThePast, Sweeping
  <2>. QED
    BY <2>1, <2>3, <2>4
<1>. QED
  BY <1>1, <1>2, <1>3, <1>4, <1>5, <1>6, <1>7 DEF Next

-----------------------------------------------------------------------------
\* What a sweep of the idle check relies on holds throughout: there is one node it may
\* mail about, it ran from the launch in its tag until now, and a stamp that took
\* effect is on it.
THEOREM AlertInvariant == Spec => []AlertInv
BY InitAlert, AlertStep, PTL DEF Spec

\* The state of the idle check has its types: no mail is sent after the time it is,
\* and no stamp put on anything but a node.
THEOREM AlertTypes == Spec => []TypeOK
BY AlertInvariant, PTL DEF AlertInv

\* A sweep does nothing to the record of another.
LEMMA OthersStay ==
  ASSUME WatchdogTypeOK, NEW v \in Workers, NEW w \in Workers \ {v},
         StartSweep(v) \/ SweepGoesOn(v)
  PROVE  sweep'[w] = sweep[w]
<1>. USE DEF WatchdogTypeOK
<1>1. CASE StartSweep(v)
  BY <1>1 DEF StartSweep
<1>2. CASE \E threshold, readable \in BOOLEAN : ReadConfig(v, threshold, readable)
  BY <1>2 DEF ReadConfig
<1>3. CASE ListRegions(v) \/ ListRegionsFails(v)
  BY <1>3 DEF ListRegions, ListRegionsFails
<1>4. CASE \E region \in Regions : ScanRegion(v, region) \/ ScanRegionFails(v, region)
  BY <1>4 DEF ScanRegion, ScanRegionFails
<1>5. CASE Scanned(v) \/ NoSurvivor(v) \/ Deduplicated(v)
  BY <1>5 DEF Scanned, NoSurvivor, Deduplicated
<1>6. CASE \E n \in Nodes : OrderSurvivors(v, n)
  BY <1>6 DEF OrderSurvivors
<1>7. CASE \E outcome \in Outcomes : Adopt(v, outcome) \/ ClearPointer(v, outcome)
  BY <1>7 DEF Adopt, ClearPointer, Reconcile
<1>8. CASE LeavePointer(v) \/ SweepEnds(v) \/ SweepCrash(v)
  BY <1>8 DEF LeavePointer, SweepEnds, SweepCrash
<1>. QED
  BY <1>1, <1>2, <1>3, <1>4, <1>5, <1>6, <1>7, <1>8 DEF SweepGoesOn

\* No other step of a sweep that checks puts it before its stamp.
LEMMA ChecksOnly ==
  ASSUME WatchdogTypeOK, NEW w \in Workers, sweep[w].step = "check",
         StartSweep(w) \/ SweepGoesOn(w)
  PROVE  sweep'[w].step # "stamp"
<1>1. SweepCrash(w)
  BY DEF StartSweep, Sweeping, SweepGoesOn, ReadConfig, ListRegions, ListRegionsFails, ScanRegion,
         ScanRegionFails, Scanned, NoSurvivor, Deduplicated, OrderSurvivors, Adopt, ClearPointer,
         Reconcile, LeavePointer, SweepEnds
<1>. QED
  BY <1>1, NoSweepIs DEF SweepCrash, WatchdogTypeOK

\* Of one who checks: what it read, and what came of it.
LEMMA Checks ==
  ASSUME AlertInv, NEW w \in Workers, NEW reading \in Readings,
         CheckTraffic(w, reading)
  PROVE  LET sends == sweep'[w].step = "stamp"
         IN  /\ sends <=> reading = "idle" /\ ShouldAlert(sweep[w].candidate, sweep[w].now)
             /\ sweep[w].candidate \in Nodes /\ Around(sweep[w].candidate)
             /\ sweep[w].now = clock /\ clock \in Nat
             /\ reading \in {"idle", "busy"} =>
                  \E lag \in {0, 1} : reading = Reading(sweep[w].candidate, clock, lag)
             /\ mailed' = IF sends THEN clock ELSE mailed
             /\ looked' = (looked \/ reading \in {"idle", "busy"})
<1>. USE DEF AlertInv
<1>1. /\ Check(w, reading) /\ sweep[w] \in Sweep /\ WatchdogTypeOK /\ sweep[w].step = "check"
      /\ Sweeping(w)
  BY RecordTyped DEF CheckTraffic, Check, Sweeping, TypeOK
<1>2. sweep'[w].step = "stamp" <=> reading = "idle" /\ ShouldAlert(sweep[w].candidate, sweep[w].now)
  BY <1>1 DEF Check, WatchdogTypeOK, Sweep
<1>3. sweep[w].now = clock /\ clock \in Nat
  BY <1>1 DEF InThePast, TypeOK, CloudTypeOK
<1>4. sweep[w].candidate \in Nodes /\ Around(sweep[w].candidate)
  BY <1>1, NodesAssumption DEF SeenFirst, Around
<1>. QED
  BY <1>2, <1>3, <1>4 DEF CheckTraffic

\* Only the check of a sweep sends its mail.
LEMMA OnlyChecksMail ==
  ASSUME AlertInv, [Next]_vars, NEW w \in Workers, Mails(w)
  PROVE  \E reading \in Readings : CheckTraffic(w, reading)
<1>. USE DEF AlertInv
<1>0. sweep[w].step = "check" /\ sweep'[w].step = "stamp" /\ WatchdogTypeOK
  BY DEF Mails, TypeOK
<1>1. CASE \E v \in Workers : StartSweep(v) \/ SweepGoesOn(v)
  BY <1>0, <1>1, OthersStay, ChecksOnly
<1>2. CASE \E v \in Workers, reading \in Readings : CheckTraffic(v, reading)
  <2>1. PICK v \in Workers, reading \in Readings : CheckTraffic(v, reading)
    BY <1>2
  <2>2. v = w
    BY <1>0, <2>1, CheckGoesOn
  <2>. QED
    BY <2>1, <2>2
<1>3. CASE \E v \in Workers, outcome \in Outcomes : StampTraffic(v, outcome)
  <2>1. PICK v \in Workers, outcome \in Outcomes : Stamp(v, outcome)
    BY <1>3 DEF StampTraffic
  <2>2. v # w
    BY <1>0, <2>1 DEF Stamp
  <2>. QED
    BY <1>0, <2>1, <2>2 DEF Stamp, WatchdogTypeOK
<1>4. CASE UNCHANGED sweep
  BY <1>0, <1>4
<1>. QED
  BY <1>1, <1>2, <1>3, <1>4 DEF Next, vars, HourPasses, TagEdited

\* After a mail whose stamp was put there is none for a day: the stamp is on the
\* node, or the node was launched since and is mailed about after a day, unless its
\* launch tag cannot be read; whatever sweeps there are and wherever they break off.
THEOREM MailedOnceADay == Spec => OneMailADay
<1>1. AlertInv /\ [Next]_vars
      => [\A w \in Workers : Mails(w) /\ stamped # None =>
            \/ sweep[w].now - mailed >= Day
            \/ sweep[w].candidate # stamped /\ tags[sweep[w].candidate].launched = Malformed]_vars
  <2>. SUFFICES ASSUME AlertInv, [Next]_vars, NEW w \in Workers, Mails(w), stamped # None
                PROVE  \/ sweep[w].now - mailed >= Day
                       \/ /\ sweep[w].candidate # stamped
                          /\ tags[sweep[w].candidate].launched = Malformed
    OBVIOUS
  <2>. USE DEF AlertInv
  <2>. DEFINE c == sweep[w].candidate
  <2>1. c \in Nodes /\ sweep[w].now = clock /\ c \in sweep[w].seen /\ Sweeping(w)
    BY NodesAssumption DEF Mails, SeenFirst, InThePast, Sweeping
  <2>2. Around(c)
    BY <2>1 DEF Around
  <2>3. /\ mailed \in Nat /\ clock \in Nat /\ Day \in Nat
        /\ IF c = stamped THEN tags[c].alerted = mailed
           ELSE tags[c].launched = Malformed \/ tags[c].launched >= mailed
    BY <2>1, <2>2, TimeAssumption DEF Remembered, Ticks, InThePast
  <2>4. /\ tags[c].launched # Malformed => clock - tags[c].launched >= Day
        /\ tags[c].alerted # None => clock - tags[c].alerted >= Day
    BY <2>1, OnlyChecksMail, Checks DEF ShouldAlert, Mails
  <2>5. tags[c].launched # Malformed => tags[c].launched \in Nat
    BY <2>1 DEF TypeOK, CloudTypeOK, Tags
  <2>6. c = stamped => clock - mailed >= Day
    BY <2>3, <2>4, TimeAssumption
  <2>7. c # stamped /\ tags[c].launched # Malformed => clock - mailed >= Day
    BY <2>3, <2>4, <2>5
  <2>. QED
    BY <2>1, <2>6, <2>7
<1>. QED
  BY <1>1, AlertInvariant, PTL DEF Spec, OneMailADay
-----------------------------------------------------------------------------
(* A second invariant, of the mails: it rests on the first.                 *)

\* What is stamped on a node was mailed then, or there was a later mail.
StampedIsMailed ==
    \A n \in Live : tags[n].alerted # None => mailed # None /\ mailed >= tags[n].alerted

MailInv == StampedIsMailed /\ ForgottenNodeIsMailed

-----------------------------------------------------------------------------
(* The traffic.                                                             *)

\* The datapoints are ticks in which the node ran.
LEMMA Datapoints ==
  ASSUME TypeOK, NEW n \in Nodes, NEW now \in Nat, NEW lag \in Nat
  PROVE  /\ NetworkOut(n, now, lag) \in SUBSET NetworkOut(n, now, 0)
         /\ IsFiniteSet(NetworkOut(n, now, lag))
         /\ \A t \in NetworkOut(n, now, lag) : t \in Nat /\ traffic[n][t] \in Nat
<1>1. NetworkOut(n, now, lag) \in SUBSET NetworkOut(n, now, 0)
  BY TimeAssumption DEF NetworkOut, Ticks
<1>2. IsFiniteSet(Ticks)
  BY FS_Interval, TimeAssumption DEF Ticks
<1>3. NetworkOut(n, now, lag) \in SUBSET Ticks
  BY DEF NetworkOut
<1>4. IsFiniteSet(NetworkOut(n, now, lag))
  BY <1>2, <1>3, FS_Subset
<1>5. \A t \in NetworkOut(n, now, lag) : t \in Nat /\ traffic[n][t] \in Nat
  <2>. SUFFICES ASSUME NEW t \in NetworkOut(n, now, lag) PROVE t \in Nat /\ traffic[n][t] \in Nat
    OBVIOUS
  <2>1. t \in Ticks /\ traffic[n][t] # None
    BY DEF NetworkOut, Ran
  <2>2. traffic[n][t] \in Amounts
    BY <2>1 DEF TypeOK
  <2>3. t \in Nat
    BY <2>1, TimeAssumption DEF Ticks
  <2>4. traffic[n][t] \in Nat
    BY <2>2, TrafficAssumption
  <2>. QED
    BY <2>3, <2>4
<1>. QED
  BY <1>1, <1>4, <1>5

\* What is not published yet can only add to the traffic.
LEMMA TrafficGrows ==
  ASSUME TypeOK, NEW n \in Nodes, NEW now \in Nat, NEW lag \in Nat,
         NEW points \in SUBSET NetworkOut(n, now, lag)
  PROVE  /\ Bytes(n, points) \in Nat /\ Bytes(n, NetworkOut(n, now, lag)) \in Nat
         /\ Bytes(n, points) <= Bytes(n, NetworkOut(n, now, lag))
BY Datapoints, SumGrows, SumIsNat DEF Bytes

-----------------------------------------------------------------------------
(* Steps that the mails do not notice.                                      *)

\* The traffic of a tick is what it was as long as the tick lasts.
LEMMA SameReading ==
  ASSUME UNCHANGED <<clock, traffic>>, NEW n \in Nodes
  PROVE  /\ Ran(n, clock - Day)' = Ran(n, clock - Day)
         /\ Bytes(n, NetworkOut(n, clock, 0))' = Bytes(n, NetworkOut(n, clock, 0))
<1>1. NetworkOut(n, clock, 0)' = NetworkOut(n, clock, 0)
  BY DEF NetworkOut, Ran
<1>. QED
  BY <1>1 DEF Bytes, Ran

\* No node is launched or stamped, and no mail sent.
LEMMA NothingMailed ==
  ASSUME MailInv, UNCHANGED <<clock, traffic, mailed, looked>>, Live' \subseteq Live,
         \A n \in Live : tags'[n].alerted \in {tags[n].alerted, None}
  PROVE  MailInv'
<1>. USE DEF MailInv
<1>1. StampedIsMailed'
  BY DEF StampedIsMailed
<1>2. ForgottenNodeIsMailed'
  BY SameReading DEF ForgottenNodeIsMailed, Live
<1>. QED
  BY <1>1, <1>2

LEMMA SweepGoesOnUnmailed ==
  ASSUME NEW w \in Workers, StartSweep(w) \/ SweepGoesOn(w)
  PROVE  UNCHANGED <<status, tags, clock>>
BY DEF StartSweep, SweepGoesOn, ReadConfig, ListRegions, ListRegionsFails, ScanRegion,
       ScanRegionFails, Scanned, NoSurvivor, Deduplicated, OrderSurvivors, Adopt, ClearPointer,
       Reconcile, LeavePointer, SweepEnds, SweepCrash, cloudVars, fleetVars

-----------------------------------------------------------------------------
(* The steps that matter to the mails.                                      *)

\* A sweep mails about an idle node, or the node was mailed about, or is young;
\* and what one reading shows to be busy is not idle.
LEMMA CheckMails ==
  ASSUME AlertInv, MailInv, NEW w \in Workers, NEW reading \in Readings,
         CheckTraffic(w, reading)
  PROVE  MailInv'
<1>. USE DEF AlertInv, MailInv
<1>. DEFINE c == sweep[w].candidate
            sends == sweep'[w].step = "stamp"
<1>1. /\ sends <=> reading = "idle" /\ ShouldAlert(c, clock)
      /\ c \in Nodes /\ Around(c) /\ clock \in Nat
      /\ reading \in {"idle", "busy"} => \E lag \in {0, 1} : reading = Reading(c, clock, lag)
      /\ mailed' = IF sends THEN clock ELSE mailed
      /\ looked' = (looked \/ reading \in {"idle", "busy"})
  BY Checks
<1>2. UNCHANGED <<status, tags, clock, traffic>>
  BY CheckGoesOn DEF cloudVars, fleetVars
<1>. HIDE DEF sends
<1>3. /\ mailed' \in {mailed, clock}
      /\ mailed # None => mailed \in Nat /\ mailed <= clock
      /\ None \notin Int /\ Day \in Nat \ {0}
  BY <1>1, TimeAssumption DEF TypeOK, InThePast, Ticks
<1>4. StampedIsMailed'
  <2>. SUFFICES ASSUME NEW n \in Live, tags[n].alerted # None
                PROVE  mailed' # None /\ mailed' >= tags[n].alerted
    BY <1>2 DEF StampedIsMailed, Live
  <2>1. mailed # None /\ mailed >= tags[n].alerted /\ tags[n].alerted \in Nat
    BY DEF StampedIsMailed, Live, TypeOK, CloudTypeOK, Tags
  <2>. QED
    BY <1>1, <1>3, <2>1
<1>5. ForgottenNodeIsMailed'
  <2>. SUFFICES ASSUME NEW n \in Live, looked', Ran(n, clock - Day),
                       Bytes(n, NetworkOut(n, clock, 0)) < Threshold
                PROVE  mailed' # None /\ clock - mailed' < Day
    BY <1>2, SameReading DEF ForgottenNodeIsMailed, Live
  <2>1. CASE mailed' = clock
    BY <1>1, <1>3, <2>1
  <2>2. CASE looked /\ mailed' = mailed
    BY <2>2 DEF ForgottenNodeIsMailed
  <2>3. CASE ~looked /\ mailed' # clock
    <3>1. reading \in {"idle", "busy"} /\ ~sends
      BY <1>1, <2>3
    <3>2. n = c
      BY <1>1 DEF OneAround, Around, Live
    <3>3. PICK lag \in {0, 1} : reading = Reading(n, clock, lag)
      BY <1>1, <3>1, <3>2
    <3>4. NetworkOut(n, clock, lag) \in SUBSET NetworkOut(n, clock, 0)
      BY <1>1, <3>2, Datapoints
    <3>5. /\ Bytes(n, NetworkOut(n, clock, lag)) \in Nat
          /\ Bytes(n, NetworkOut(n, clock, 0)) \in Nat
          /\ Bytes(n, NetworkOut(n, clock, lag)) <= Bytes(n, NetworkOut(n, clock, 0))
      BY <1>1, <3>2, <3>4, TrafficGrows
    <3>6. reading = "idle"
      BY <3>3, <3>5, TrafficAssumption DEF Reading
    <3>7. ~ShouldAlert(n, clock)
      BY <1>1, <3>1, <3>2, <3>6
    <3>8. /\ tags[n].launched # Malformed => tags[n].launched \in Nat
          /\ tags[n].alerted # None => tags[n].alerted \in Nat
      BY DEF Live, TypeOK, CloudTypeOK, Tags
    <3>9. tags[n].launched # Malformed => tags[n].launched <= clock - Day
      BY DEF Recorded, Ran, Around, Live
    <3>10. tags[n].alerted # None /\ clock - tags[n].alerted < Day
      BY <1>1, <1>3, <3>7, <3>8, <3>9 DEF ShouldAlert
    <3>11. mailed # None /\ mailed >= tags[n].alerted
      BY <3>10 DEF StampedIsMailed
    <3>. QED
      BY <1>1, <1>3, <2>3, <3>8, <3>10, <3>11
  <2>. QED
    BY <1>3, <2>1, <2>2, <2>3
<1>. QED
  BY <1>4, <1>5

\* What is stamped was mailed.
LEMMA StampMails ==
  ASSUME AlertInv, MailInv, NEW w \in Workers, NEW outcome \in Outcomes,
         StampTraffic(w, outcome)
  PROVE  MailInv'
<1>. USE DEF AlertInv, MailInv
<1>. DEFINE c == sweep[w].candidate
<1>1. Stamp(w, outcome) /\ sweep[w].step = "stamp" /\ Sweeping(w)
  BY DEF StampTraffic, Stamp, Sweeping
<1>2. sweep[w].now = clock /\ clock \in Nat /\ mailed = clock
  BY <1>1 DEF InThePast, TypeOK, CloudTypeOK, StampFollowsMail
<1>3. /\ UNCHANGED <<status, clock, traffic, mailed, looked>>
      /\ tags' = IF TookEffect(outcome) THEN [tags EXCEPT ![c].alerted = clock] ELSE tags
  BY <1>1, <1>2 DEF StampTraffic, Stamp
<1>. HIDE DEF c
<1>4. \A n \in Live : tags'[n].alerted \in {tags[n].alerted, clock}
  BY <1>3 DEF Live, TypeOK, CloudTypeOK, Tags
<1>5. StampedIsMailed'
  BY <1>2, <1>3, <1>4, TimeAssumption DEF StampedIsMailed, Live
<1>6. ForgottenNodeIsMailed'
  BY <1>3, SameReading DEF ForgottenNodeIsMailed, Live
<1>. QED
  BY <1>5, <1>6

\* A node that is launched has no stamp, and did not run a day ago.
LEMMA LaunchMails ==
  ASSUME AlertInv, MailInv, NEW n \in Nodes, NEW region \in Regions, Launched(n, region),
         UNCHANGED <<sweep, alertVars>>
  PROVE  MailInv'
<1>. USE DEF AlertInv, MailInv
<1>1. /\ status' = [status EXCEPT ![n] = "live"] /\ Live = {} /\ status[n] = "unused"
      /\ tags' = [tags EXCEPT ![n] = [launched |-> clock, expires |-> Never, alerted |-> None]]
      /\ UNCHANGED <<clock, sweep, traffic, mailed, looked>>
  BY DEF Launched, RunInstance, alertVars
<1>2. Live' \subseteq {n}
  BY <1>1 DEF Live, TypeOK, CloudTypeOK
<1>3. tags'[n].alerted = None
  BY <1>1 DEF TypeOK, CloudTypeOK
<1>4. ~Ran(n, clock - Day)'
  BY <1>1 DEF Recorded, Ran
<1>5. StampedIsMailed'
  BY <1>2, <1>3 DEF StampedIsMailed
<1>6. ForgottenNodeIsMailed'
  BY <1>2, <1>4 DEF ForgottenNodeIsMailed
<1>. QED
  BY <1>5, <1>6

LEMMA InitMail == Init => MailInv
BY DEF Init, MailInv, StampedIsMailed, ForgottenNodeIsMailed, CloudInit, Live

LEMMA MailStep == AlertInv /\ MailInv /\ [Next]_vars => MailInv'
<1>. SUFFICES ASSUME AlertInv, MailInv, [Next]_vars PROVE MailInv'
  OBVIOUS
<1>. USE DEF AlertInv
<1>1. CASE \E w \in Workers : (StartSweep(w) \/ SweepGoesOn(w)) /\ UNCHANGED alertVars
  <2>1. UNCHANGED <<status, tags, clock, traffic, mailed, looked>>
    BY <1>1, SweepGoesOnUnmailed DEF alertVars
  <2>. QED
    BY <2>1, NothingMailed DEF Live
<1>2. CASE \E w \in Workers, reading \in Readings : CheckTraffic(w, reading)
  BY <1>2, CheckMails
<1>3. CASE \E w \in Workers, outcome \in Outcomes : StampTraffic(w, outcome)
  BY <1>3, StampMails
<1>4. CASE TagEdited
  <2>1. UNCHANGED <<status, clock, traffic, mailed, looked>>
    BY <1>4 DEF TagEdited, LaunchTagEdited, AlertTagEdited
  <2>2. \A n \in Live : tags'[n].alerted \in {tags[n].alerted, None}
    BY <1>4 DEF TagEdited, LaunchTagEdited, AlertTagEdited, Live, TypeOK, CloudTypeOK, Tags
  <2>. QED
    BY <2>1, <2>2, NothingMailed DEF Live
<1>5. CASE \E amount \in Amounts : HourPasses(amount)
  <2>1. UNCHANGED <<mailed, status, tags>> /\ looked' = FALSE
    BY <1>5 DEF HourPasses, Tick, fleetVars
  <2>2. StampedIsMailed'
    BY <2>1 DEF MailInv, StampedIsMailed, Live
  <2>3. ForgottenNodeIsMailed'
    BY <2>1 DEF ForgottenNodeIsMailed
  <2>. QED
    BY <2>2, <2>3 DEF MailInv
<1>6. CASE /\ \E n \in Nodes : NodeEnds(n) \/ \E region \in Regions : Launched(n, region)
           /\ UNCHANGED <<sweep, alertVars>>
  <2>1. PICK n \in Nodes : NodeEnds(n) \/ \E region \in Regions : Launched(n, region)
    BY <1>6
  <2>2. CASE NodeEnds(n)
    <3>1. UNCHANGED <<tags, clock, traffic, mailed, looked>>
      BY <1>6, <2>2 DEF NodeEnds, alertVars
    <3>2. Live' \subseteq Live
      BY <2>2 DEF NodeEnds, Live, TypeOK, CloudTypeOK
    <3>. QED
      BY <3>1, <3>2, NothingMailed
  <2>3. CASE \E region \in Regions : Launched(n, region)
    BY <1>6, <2>3, LaunchMails
  <2>. QED
    BY <2>1, <2>2, <2>3
<1>7. CASE UNCHANGED vars
  BY <1>7, NothingMailed DEF vars, alertVars, cloudVars, fleetVars, Live
<1>. QED
  BY <1>1, <1>2, <1>3, <1>4, <1>5, <1>6, <1>7 DEF Next

-----------------------------------------------------------------------------
\* A forgotten node is heard of every day: a sweep that is told of its traffic finds
\* no less idle than it is, and it mails unless the last stamp is young; and what is
\* stamped was mailed, so a stamp that was lost makes for a mail more, not for one less.
THEOREM ForgottenIsMailed == Spec => []ForgottenNodeIsMailed
<1>1. Spec => []MailInv
  BY AlertInvariant, InitMail, MailStep, PTL DEF Spec
<1>2. MailInv => ForgottenNodeIsMailed
  BY DEF MailInv
<1>. QED
  BY <1>1, <1>2, PTL

\* idle_for tells no use away but that of a tick CloudWatch has not published: from
\* where it goes back to, which is a tick in which the node ran, every other tick of
\* use would be a datapoint, and a later one than the latest.
THEOREM IdleForTells == Spec => []IdleForIsTrue
<1>1. AlertInv => IdleForIsTrue
  <2>. SUFFICES ASSUME AlertInv, NEW n \in Live, NEW lag \in {0, 1}, Shows(n, lag) # None
                PROVE  LET idle == Shows(n, lag)
                           start == clock - idle
                       IN  /\ Ran(n, start)
                           /\ \A t \in Ticks : Ran(n, t) /\ traffic[n][t] > Floor /\ t > start
                                               => lag = 1 /\ t = clock - 1
                           /\ traffic[n][start] > Floor \/ ~Ran(n, start - 1) \/ idle = Day
    BY Zenon DEF IdleForIsTrue
  <2>. USE DEF AlertInv
  <2>. DEFINE points == NetworkOut(n, clock, lag)
              used == {t \in points : traffic[n][t] > Floor}
              last == IF used # {} THEN Max(used) ELSE Min(points)
  <2>1. Shows(n, lag) = clock - last /\ points # {}
    BY DEF Shows, IdleSeconds
  <2>2. clock \in Nat /\ lag \in Nat /\ Floor \in Nat /\ Day \in Nat \ {0} /\ n \in Nodes
    BY TrafficAssumption, TimeAssumption DEF TypeOK, CloudTypeOK, Live
  <2>3. IsFiniteSet(points) /\ \A t \in points : t \in Nat /\ traffic[n][t] \in Nat
    BY <2>2, Datapoints
  <2>4. \A t : t \in points <=> /\ t \in Ticks /\ clock - Day <= t /\ t < clock - lag
                                /\ traffic[n][t] # None
    BY DEF NetworkOut, Ran
  <2>5. \A t \in Ticks : t \in Nat /\ (traffic[n][t] # None => t < clock)
    BY <2>2, TimeAssumption DEF Recorded, Ticks
  <2>6. \A t : Ran(n, t) <=> t \in Ticks /\ traffic[n][t] # None
    BY DEF Ran
  <2>. HIDE DEF points
  <2>7. used \subseteq Int /\ IsFiniteSet(used) /\ points \subseteq Int
    BY <2>3, FS_Subset
  <2>8. \A t \in points : t \in used <=> traffic[n][t] > Floor
    OBVIOUS
  <2>9. used \subseteq points
    OBVIOUS
  <2>. HIDE DEF used
  <2>10. used # {} => last \in used /\ \A t \in used : t <= last
    BY <2>7, MaxExists
  <2>11. used = {} => last \in points /\ \A t \in points : last <= t
    BY <2>1, <2>7, <2>3, MinExists
  <2>. HIDE DEF last
  <2>12. last \in points /\ last \in Nat /\ clock - (clock - last) = last
    BY <2>2, <2>3, <2>9, <2>10, <2>11
  <2>13. Ran(n, last)
    BY <2>4, <2>6, <2>12
  <2>14. ASSUME NEW t \in Ticks, Ran(n, t), traffic[n][t] > Floor, t > last
         PROVE  lag = 1 /\ t = clock - 1
    <3>1. t \notin points
      <4>. SUFFICES ASSUME t \in points PROVE FALSE
        OBVIOUS
      <4>1. t \in used
        BY <2>8, <2>14
      <4>. QED
        BY <2>3, <2>10, <2>12, <2>14, <4>1
    <3>2. t \in Nat /\ t < clock /\ clock - Day <= last
      BY <2>4, <2>5, <2>6, <2>12, <2>14
    <3>3. clock - Day <= t
      BY <2>2, <2>12, <2>14, <3>2
    <3>4. ~(t < clock - lag)
      BY <2>4, <2>6, <2>14, <3>1, <3>3
    <3>. QED
      BY <2>2, <3>2, <3>4
  <2>15. traffic[n][last] > Floor \/ ~Ran(n, last - 1) \/ clock - last = Day
    <3>. SUFFICES ASSUME ~(traffic[n][last] > Floor), Ran(n, last - 1), clock - last # Day
                  PROVE  FALSE
      OBVIOUS
    <3>1. used = {}
      BY <2>8, <2>9, <2>10
    <3>2. last - 1 \in Ticks /\ traffic[n][last - 1] # None
      BY <2>6
    <3>3. clock - Day <= last /\ last < clock - lag
      BY <2>4, <2>12
    <3>4. clock - Day <= last - 1 /\ last - 1 < clock - lag
      BY <2>2, <2>12, <3>3
    <3>5. last - 1 \in points
      BY <2>4, <3>2, <3>4
    <3>. QED
      BY <2>11, <2>12, <3>1, <3>5
  <2>. QED
    BY <2>1, <2>12, <2>13, <2>14, <2>15
<1>. QED
  BY <1>1, AlertInvariant, PTL

\* A mail is true: what was published of the day is below the threshold, so its older
\* part is too; and a launch tag that can be read is a Day old, and the node has run
\* since.
THEOREM MailTells == Spec => MailIsTrue
<1>. DEFINE True(w) == LET n == sweep[w].candidate
                           now == sweep[w].now
                           day == now - Day .. now - 1
                       IN  /\ tags[n].launched # Malformed => \A t \in day : Ran(n, t)
                           /\ Bytes(n, {t \in day : Ran(n, t) /\ t # now - 1}) < Threshold
<1>1. AlertInv /\ [Next]_vars => [\A w \in Workers : Mails(w) => True(w)]_vars
  <2>. SUFFICES ASSUME AlertInv, [Next]_vars, NEW w \in Workers, Mails(w)
                PROVE  True(w)
    OBVIOUS
  <2>. USE DEF AlertInv
  <2>. DEFINE n == sweep[w].candidate
              day == clock - Day .. clock - 1
              old == {t \in day : Ran(n, t) /\ t # clock - 1}
  <2>1. PICK reading \in Readings : CheckTraffic(w, reading)
    BY OnlyChecksMail
  <2>2. /\ reading = "idle" /\ ShouldAlert(n, clock) /\ n \in Nodes /\ Around(n)
        /\ sweep[w].now = clock /\ clock \in Nat
        /\ reading \in {"idle", "busy"} => \E lag \in {0, 1} : reading = Reading(n, clock, lag)
    BY <2>1, Checks DEF Mails
  <2>3. /\ Day \in Nat \ {0} /\ MaxClock \in Nat /\ clock <= MaxClock
        /\ tags[n].launched # Malformed => tags[n].launched \in Nat
    BY <2>2, TimeAssumption DEF InThePast, Ticks, TypeOK, CloudTypeOK, Tags
  <2>. HIDE DEF n
  <2>4. ASSUME tags[n].launched # Malformed, NEW t \in day
        PROVE  Ran(n, t)
    <3>1. clock - tags[n].launched >= Day
      BY <2>2, <2>4 DEF ShouldAlert
    <3>2. t \in Int /\ clock - Day <= t /\ t <= clock - 1
      BY <2>2, <2>3
    <3>3. t \in Ticks /\ tags[n].launched <= t /\ t < clock
      BY <2>2, <2>3, <2>4, <3>1, <3>2 DEF Ticks
    <3>. QED
      BY <2>2, <2>4, <3>3 DEF Recorded, Ran
  <2>5. PICK lag \in {0, 1} : Bytes(n, NetworkOut(n, clock, lag)) < Threshold
    BY <2>2 DEF Reading
  <2>6. old \in SUBSET NetworkOut(n, clock, lag)
    <3>. SUFFICES ASSUME NEW t \in old PROVE t \in NetworkOut(n, clock, lag)
      OBVIOUS
    <3>1. t \in Int /\ clock - Day <= t /\ t <= clock - 1 /\ t # clock - 1 /\ Ran(n, t)
      BY <2>2, <2>3
    <3>2. t < clock - lag /\ t \in Ticks
      BY <2>2, <3>1 DEF Ran
    <3>. QED
      BY <3>1, <3>2 DEF NetworkOut
  <2>. HIDE DEF old
  <2>7. /\ Bytes(n, old) \in Nat /\ Bytes(n, NetworkOut(n, clock, lag)) \in Nat
        /\ Bytes(n, old) <= Bytes(n, NetworkOut(n, clock, lag))
    BY <2>2, <2>6, TrafficGrows
  <2>8. Bytes(n, old) < Threshold
    BY <2>5, <2>7, TrafficAssumption
  <2>. QED
    BY <2>2, <2>4, <2>8 DEF n, old
<1>. QED
  BY <1>1, AlertInvariant, PTL DEF Spec, MailIsTrue

=============================================================================
