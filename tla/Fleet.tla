-------------------------------- MODULE Fleet --------------------------------
(***************************************************************************)
(* What the control plane promises about the nodes that run and about the  *)
(* one it tracks, without its calls, its failures and its retries: a       *)
(* request or a sweep has the turn, never both; only a request launches,   *)
(* and only where nothing runs; a request leaves the tracked node alone    *)
(* for as long as that runs, and a sweep may track any node it likes.      *)
(***************************************************************************)
EXTENDS FiniteSets

CONSTANTS Regions, Nodes, None

VARIABLES
    running,    \* the nodes running in each region
    spent,      \* the nodes ever launched, and where: a set of pointers
    tracked,    \* the node to look for, or None
    turn        \* whose turn it is: "request", "sweep", or "free"

fleet == <<running, spent, tracked, turn>>

Entry(region, n) == [region |-> region, instance_id |-> n]
Runs(entry) == entry # None /\ entry.instance_id \in running[entry.region]

FleetInit ==
    /\ running = [region \in Regions |-> {}]
    /\ spent = {}
    /\ tracked = None
    /\ turn = "free"

TakeTurn ==
    /\ turn = "free"
    /\ turn' \in {"request", "sweep"}
    /\ UNCHANGED <<running, spent, tracked>>

GiveBack ==
    /\ turn' = "free"
    /\ UNCHANGED <<running, spent, tracked>>

Launch(n, region) ==
    /\ turn = "request"
    /\ running[region] = {}
    /\ tracked # None => running[tracked.region] = {}
    /\ \A entry \in spent : entry.instance_id # n
    /\ running' = [running EXCEPT ![region] = {n}]
    /\ spent' = spent \cup {Entry(region, n)}
    /\ UNCHANGED <<tracked, turn>>

\* A node ends: it is terminated, or goes by itself.
End(n, region) ==
    /\ n \in running[region]
    /\ running' = [running EXCEPT ![region] = @ \ {n}]
    /\ UNCHANGED <<spent, tracked, turn>>

\* A request tracks a node, or none, in place of one that does not run.
Track ==
    /\ turn = "request"
    /\ ~Runs(tracked)
    /\ tracked' \in spent \cup {None}
    /\ UNCHANGED <<running, spent, turn>>

\* A sweep tracks what it found.
Correct ==
    /\ turn = "sweep"
    /\ tracked' \in spent \cup {None}
    /\ UNCHANGED <<running, spent, turn>>

FleetNext ==
    \/ TakeTurn \/ GiveBack \/ Track \/ Correct
    \/ \E n \in Nodes, region \in Regions : Launch(n, region) \/ End(n, region)

FleetSpec == FleetInit /\ [][FleetNext]_fleet
=============================================================================
