------------------------------ MODULE Watchdog ------------------------------
(***************************************************************************)
(* The hourly sweep of watchdog.py: scan every region, reap what expired,  *)
(* terminate duplicates, look whether the node that is left is idle, and   *)
(* bring the pointer in line with what was found.  One action per call     *)
(* that can fail or that changes something.                                *)
(*                                                                         *)
(* Mail is best effort and decides nothing, so of all mails only the one   *)
(* that reports failures is here: alarm says that this sweep sends it.     *)
(***************************************************************************)
EXTENDS Cloud

CONSTANT Readings   \* what a run lets CloudWatch say about a node: see Check

ASSUME ReadingsAssumption == /\ "pending" \in Readings
                             /\ Readings \subseteq {"busy", "idle", "pending", "unavailable"}

VARIABLE sweep      \* the sweep each worker is running

SweepSteps == {"idle", "config", "regions", "scan", "reap", "dedup", "check", "stamp",
               "reconcile", "done"}

Sweep ==
    [step: SweepSteps,
     now: Nat,
     ptr: Pointers, readable: BOOLEAN,  \* the pointer as it was read, if it was
     threshold: BOOLEAN,                \* the idle threshold could be read
     scan: SUBSET Regions,              \* the regions still to scan
     scanFailed: BOOLEAN,               \* a region could not be scanned
     seen: SUBSET Nodes,                \* the nodes the scan found
     todo: SUBSET Nodes,                \* the nodes still to terminate
     candidate: Nodes \cup {None},      \* the node that is to stay
     orderable: BOOLEAN,                \* the survivors could be put in order
     stuck: SUBSET Nodes,               \* terminations that were not confirmed
     alarm: BOOLEAN]                    \* summary["failures"] is not empty

NoSweep ==
    [step |-> "idle", now |-> 0, ptr |-> None, readable |-> TRUE, threshold |-> TRUE,
     scan |-> {}, scanFailed |-> FALSE, seen |-> {}, todo |-> {}, candidate |-> None,
     orderable |-> TRUE, stuck |-> {}, alarm |-> FALSE]

WatchdogTypeOK == sweep \in [Workers -> Sweep]
WatchdogInit == sweep = [w \in Workers |-> NoSweep]

Sweeping(w) == sweep[w].step # "idle"

-----------------------------------------------------------------------------
StartSweep(w) ==
    /\ ~Sweeping(w)
    /\ sweep' = [sweep EXCEPT ![w] = [NoSweep EXCEPT !.step = "config", !.now = clock]]
    /\ UNCHANGED cloudVars

\* The idle threshold and the pointer; either read may fail.  Only the first
\* failure is recorded.
ReadConfig(w, threshold, readable) ==
    /\ sweep[w].step = "config"
    /\ sweep' = [sweep EXCEPT
            ![w].threshold = threshold,
            ![w].readable = readable,
            ![w].ptr = IF readable THEN pointer ELSE None,
            ![w].alarm = ~threshold,
            ![w].step = "regions"]
    /\ UNCHANGED cloudVars

ListRegions(w) ==
    /\ sweep[w].step = "regions"
    /\ sweep' = [sweep EXCEPT ![w].scan = Regions, ![w].step = "scan"]
    /\ UNCHANGED cloudVars

\* Without the list of regions there is nothing to go by: report and stop.
ListRegionsFails(w) ==
    /\ sweep[w].step = "regions"
    /\ sweep' = [sweep EXCEPT ![w].alarm = TRUE, ![w].step = "done"]
    /\ UNCHANGED cloudVars

\* The regions are scanned by a pool of threads, so in any order.
ScanRegion(w, region) ==
    /\ sweep[w].step = "scan"
    /\ region \in sweep[w].scan
    /\ sweep' = [sweep EXCEPT ![w].scan = @ \ {region}, ![w].seen = @ \cup FindNodes(region)]
    /\ UNCHANGED cloudVars

\* Mutant: a region that could not be scanned is not reported.
ScanRegionFailsSilently(w, region) ==
    /\ sweep[w].step = "scan"
    /\ region \in sweep[w].scan
    /\ sweep' = [sweep EXCEPT ![w].scan = @ \ {region}, ![w].scanFailed = TRUE]
    /\ UNCHANGED cloudVars

ScanRegionFails(w, region) ==
    /\ sweep[w].step = "scan"
    /\ region \in sweep[w].scan
    /\ sweep' = [sweep EXCEPT
            ![w].scan = @ \ {region}, ![w].scanFailed = TRUE, ![w].alarm = TRUE]
    /\ UNCHANGED cloudVars

-----------------------------------------------------------------------------
Survivors(w) == {n \in sweep[w].seen : ~IsExpired(n, sweep[w].now)}

Scanned(w) ==
    /\ sweep[w].step = "scan"
    /\ sweep[w].scan = {}
    /\ sweep' = [sweep EXCEPT ![w].todo = sweep[w].seen \ Survivors(w), ![w].step = "reap"]
    /\ UNCHANGED cloudVars

\* _safe_terminate: a failure is recorded, and the loop goes on.
SafeTerminate(w, n, outcome) ==
    /\ n \in sweep[w].todo
    /\ TerminateInstance(n, outcome)
    /\ sweep' = IF Answered(outcome)
                THEN [sweep EXCEPT ![w].todo = @ \ {n}]
                ELSE [sweep EXCEPT ![w].todo = @ \ {n}, ![w].stuck = @ \cup {n},
                                   ![w].alarm = TRUE]
    /\ UNCHANGED <<pointer, defaultRegion, clock>>

Reap(w, n, outcome) == sweep[w].step = "reap" /\ SafeTerminate(w, n, outcome)

\* _order_survivors refuses to order two nodes if it cannot read a launch tag.
Orderable(nodes) ==
    Cardinality(nodes) > 1 => \A n \in nodes : tags[n].launched # Malformed

\* Mutant: the order is the wrong way round.
Oldest(nodes) ==
    {n \in nodes : \A m \in nodes \ {n} : tags[n].launched <= tags[m].launched}

\* The nodes that may come first: equal launch times keep the order of the scan.
Newest(nodes) ==
    {n \in nodes : \A m \in nodes \ {n} : tags[n].launched >= tags[m].launched}

\* Nothing survived: there is no candidate.
NoSurvivor(w) ==
    /\ sweep[w].step = "reap"
    /\ sweep[w].todo = {}
    /\ Survivors(w) = {}
    /\ sweep' = [sweep EXCEPT ![w].step = "reconcile"]
    /\ UNCHANGED cloudVars

\* Mutant: the loop over the duplicates starts one node too early.
OrderSurvivorsOffByOne(w, n) ==
    /\ sweep[w].step = "reap"
    /\ sweep[w].todo = {}
    /\ Orderable(Survivors(w))
    /\ n \in Newest(Survivors(w))
    /\ sweep' = [sweep EXCEPT
            ![w].candidate = n, ![w].todo = Survivors(w), ![w].step = "dedup"]
    /\ UNCHANGED cloudVars

OrderSurvivors(w, n) ==
    /\ sweep[w].step = "reap"
    /\ sweep[w].todo = {}
    /\ Orderable(Survivors(w))
    /\ n \in Newest(Survivors(w))
    /\ sweep' = [sweep EXCEPT
            ![w].candidate = n, ![w].todo = Survivors(w) \ {n}, ![w].step = "dedup"]
    /\ UNCHANGED cloudVars

\* Duplicates that cannot be put in order are left alone, and so is the pointer.
Unorderable(w) ==
    /\ sweep[w].step = "reap"
    /\ sweep[w].todo = {}
    /\ ~Orderable(Survivors(w))
    /\ sweep' = [sweep EXCEPT ![w].orderable = FALSE, ![w].alarm = TRUE, ![w].step = "reconcile"]
    /\ UNCHANGED cloudVars

Dedup(w, n, outcome) ==
    /\ sweep[w].step = "dedup"
    /\ n \in Newest(sweep[w].todo)
    /\ SafeTerminate(w, n, outcome)

Deduplicated(w) ==
    /\ sweep[w].step = "dedup"
    /\ sweep[w].todo = {}
    /\ sweep' = [sweep EXCEPT ![w].step = "check"]
    /\ UNCHANGED cloudVars

-----------------------------------------------------------------------------
\* Mutant: an earlier mail does not count.
ShouldAlertOften(n, now) ==
    LET launched == tags[n].launched
    IN  launched # Malformed => now - launched >= Day

\* Mutant: a node is mailed about once.
ShouldAlertOnce(n, now) ==
    LET launched == tags[n].launched
    IN  /\ launched # Malformed => now - launched >= Day
        /\ tags[n].alerted = None

\* should_alert for a node whose traffic is below the threshold.  A last-idle-alert
\* that cannot be read counts as none (watchdog.py:59-61), so it is None here.
ShouldAlert(n, now) ==
    LET launched == tags[n].launched
        alerted == tags[n].alerted
    IN  /\ launched # Malformed => now - launched >= Day
        /\ alerted # None => now - alerted >= Day

\* The candidate's traffic in the last day: above the threshold, below it, not
\* asked for (a node still pending, or no threshold), or not to be had.
Check(w, reading) ==
    LET n == sweep[w].candidate
    IN  /\ sweep[w].step = "check"
        /\ reading # "pending" => sweep[w].threshold
        /\ sweep' = [sweep EXCEPT
                ![w].alarm = @ \/ reading = "unavailable",
                ![w].step = IF reading = "idle" /\ ShouldAlert(n, sweep[w].now)
                            THEN "stamp" ELSE "reconcile"]
        /\ UNCHANGED cloudVars

\* The mail has been sent; remember when, so that the next one waits a day.
Stamp(w, outcome) ==
    /\ sweep[w].step = "stamp"
    /\ tags' = IF TookEffect(outcome)
               THEN [tags EXCEPT ![sweep[w].candidate].alerted = sweep[w].now]
               ELSE tags
    /\ sweep' = [sweep EXCEPT
            ![w].alarm = @ \/ ~Answered(outcome), ![w].step = "reconcile"]
    /\ UNCHANGED <<status, home, pointer, defaultRegion, clock>>

-----------------------------------------------------------------------------
(* Reconciling the pointer, with the pointer as it was read.                *)

Tracked(w) ==
    /\ sweep[w].ptr # None
    /\ sweep[w].ptr.instance_id = sweep[w].candidate

MayReconcile(w) == sweep[w].readable /\ sweep[w].orderable

\* Mutant: a node is adopted only where there is no pointer, not over a stale one.
MayAdoptIfEmpty(w) == MayReconcile(w) /\ sweep[w].candidate # None /\ sweep[w].ptr = None

MayAdopt(w) == MayReconcile(w) /\ sweep[w].candidate # None /\ ~Tracked(w)

\* Mutant: a region that was not seen counts as an empty one.
MayClearUnseen(w) ==
    /\ MayReconcile(w)
    /\ sweep[w].candidate = None
    /\ sweep[w].ptr # None

\* No node found is a reason to clear the pointer only if all regions were seen.
MayClear(w) ==
    /\ MayReconcile(w)
    /\ sweep[w].candidate = None
    /\ sweep[w].ptr # None
    /\ ~sweep[w].scanFailed

Reconcile(w, value, outcome) ==
    /\ sweep[w].step = "reconcile"
    /\ WritePointer(value, outcome)
    /\ sweep' = [sweep EXCEPT
            ![w].alarm = @ \/ ~Answered(outcome), ![w].step = "done"]
    /\ UNCHANGED <<fleetVars, defaultRegion, clock>>

Adopt(w, outcome) ==
    LET n == sweep[w].candidate
    IN  /\ MayAdopt(w)
        /\ Reconcile(w, [region |-> home[n], instance_id |-> n], outcome)

ClearPointer(w, outcome) == MayClear(w) /\ Reconcile(w, None, outcome)

LeavePointer(w) ==
    /\ sweep[w].step = "reconcile"
    /\ ~MayAdopt(w) /\ ~MayClear(w)
    /\ sweep' = [sweep EXCEPT ![w].step = "done"]
    /\ UNCHANGED cloudVars

SweepEnds(w) ==
    /\ sweep[w].step = "done"
    /\ sweep' = [sweep EXCEPT ![w] = NoSweep]
    /\ UNCHANGED cloudVars

\* Lambda ends the invocation: a timeout, the memory limit.
SweepCrash(w) ==
    /\ sweep[w].step \notin {"idle", "done"}
    /\ sweep' = [sweep EXCEPT ![w] = NoSweep]
    /\ UNCHANGED cloudVars

SweepStep(w) ==
    \/ \E threshold, readable \in BOOLEAN : ReadConfig(w, threshold, readable)
    \/ ListRegions(w) \/ ListRegionsFails(w)
    \/ \E region \in Regions : ScanRegion(w, region) \/ ScanRegionFails(w, region)
    \/ Scanned(w) \/ NoSurvivor(w) \/ Unorderable(w) \/ Deduplicated(w)
    \/ \E n \in Nodes : OrderSurvivors(w, n)
    \/ \E n \in Nodes, outcome \in Outcomes : Reap(w, n, outcome) \/ Dedup(w, n, outcome)
    \/ \E reading \in Readings : Check(w, reading)
    \/ \E outcome \in Outcomes : \/ Stamp(w, outcome)
                                 \/ Adopt(w, outcome)
                                 \/ ClearPointer(w, outcome)
    \/ LeavePointer(w) \/ SweepEnds(w) \/ SweepCrash(w)
=============================================================================
