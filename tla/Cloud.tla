------------------------------- MODULE Cloud -------------------------------
(***************************************************************************)
(* What the control plane keeps outside itself: the exit nodes EC2 runs,   *)
(* their tags, and two SSM parameters, the pointer to the current node and *)
(* the default region.  The operators here are the calls of ec2ops.py,     *)
(* settings.py and ttl.py; the actions at the end are the things that      *)
(* happen to this state without the control plane.                         *)
(*                                                                         *)
(* pending and running are one status, "live": find_nodes asks for both.   *)
(* stopping, stopped, shutting-down and terminated are "gone": find_nodes  *)
(* sees none of them, and nothing in the system starts a node again.       *)
(***************************************************************************)
EXTENDS Integers, FiniteSets

CONSTANTS
    Regions,    \* what describe_regions returns
    Defaults,   \* the regions the operator may store as the default: enabled ones (one that
                \* is not is refused by up like a Malformed region, handler.py:220-224)
    Nodes,      \* the instance ids EC2 may hand out: the bound on launches
    Editable,   \* the nodes whose tags someone may edit by hand
    Workers,    \* invocations of the Lambda function that may overlap
    Ttls,       \* the lifetimes a request may ask for: Never, numbers, Malformed
    MaxClock,   \* bound on the clock
    Day,        \* ALERT_INTERVAL, in ticks of the clock
    None,       \* no pointer, no node, no region named
    Never,      \* the expiry tag of a node that does not expire
    Malformed   \* a value the code cannot parse

ASSUME RegionsAssumption == /\ Defaults \subseteq Regions
                            /\ Defaults # {}
                            /\ None \notin Regions
                            /\ Malformed \notin Regions
                            /\ None # Malformed
ASSUME NodesAssumption == /\ None \notin Nodes
                          /\ None \notin [region: Regions, instance_id: Nodes]
                          /\ IsFiniteSet(Nodes)
                          /\ Editable \subseteq Nodes
ASSUME TimeAssumption == /\ MaxClock \in Nat
                         /\ Day \in Nat \ {0}
                         /\ Ttls \subseteq (Nat \ {0}) \cup {Never, Malformed}
                         /\ Never \notin Int
                         /\ Malformed \notin Int
                         /\ None \notin Int
                         /\ Never # Malformed

VARIABLES
    status,         \* "unused", "live" or "gone", for each node
    home,           \* the region a node was launched in
    tags,           \* launched-at, expires-at and last-idle-alert of a node
    pointer,        \* the current-node parameter: a region and an instance id
    defaultRegion,  \* the default-region parameter
    clock

fleetVars == <<status, home, tags>>
cloudVars == <<status, home, tags, pointer, defaultRegion, clock>>

Statuses == {"unused", "live", "gone"}
Pointers == [region: Regions, instance_id: Nodes] \cup {None}
Expiries == Nat \cup {Never}
Tags == [launched: Nat \cup {Malformed}, expires: Expiries, alerted: Nat \cup {None}]

CloudTypeOK ==
    /\ status \in [Nodes -> Statuses]
    /\ home \in [Nodes -> Regions \cup {None}]
    /\ tags \in [Nodes -> Tags]
    /\ pointer \in Pointers
    /\ defaultRegion \in Regions
    /\ clock \in Nat

CloudInit ==
    /\ status = [n \in Nodes |-> "unused"]
    /\ home = [n \in Nodes |-> None]
    /\ tags = [n \in Nodes |-> [launched |-> Malformed, expires |-> Never, alerted |-> None]]
    /\ pointer = None
    /\ defaultRegion \in Defaults
    /\ clock = 0

-----------------------------------------------------------------------------
(* Calls.  A call that changes something ends in one of three ways: it is   *)
(* answered; it fails and changes nothing; or it takes effect and the       *)
(* answer is lost, which the caller sees as a failure.                      *)

Outcomes == {"ok", "error", "lost"}
TookEffect(outcome) == outcome # "error"
Answered(outcome) == outcome = "ok"

Live == {n \in Nodes : status[n] = "live"}
FindNodes(region) == {n \in Live : home[n] = region}

\* parse_ttl of a well-formed lifetime.
Expiry(ttl, now) == IF ttl = Never THEN Never ELSE now + ttl

\* A hand-edited expiry that does not parse never expires, so it is Never.
IsExpired(n, now) == tags[n].expires # Never /\ tags[n].expires <= now

\* run_instances hands out an id no node had before.
RunInstance(n, region, now, expires) ==
    /\ status[n] = "unused"
    /\ status' = [status EXCEPT ![n] = "live"]
    /\ home' = [home EXCEPT ![n] = region]
    /\ tags' = [tags EXCEPT ![n] = [launched |-> now, expires |-> expires, alerted |-> None]]

TerminateInstance(n, outcome) ==
    /\ status' = IF TookEffect(outcome) THEN [status EXCEPT ![n] = "gone"] ELSE status
    /\ UNCHANGED <<home, tags>>

WritePointer(value, outcome) ==
    pointer' = IF TookEffect(outcome) THEN value ELSE pointer

-----------------------------------------------------------------------------
(* What happens without the control plane.                                  *)

\* A node ends itself (userdata.sh fails closed, the owner shuts it down) or
\* EC2 takes it away.
NodeEnds(n) ==
    /\ status[n] = "live"
    /\ status' = [status EXCEPT ![n] = "gone"]
    /\ UNCHANGED <<home, tags, pointer, defaultRegion, clock>>

\* Someone edits a tag by hand, so that it does not parse any more.
LaunchTagEdited(n) ==
    /\ status[n] = "live"
    /\ tags[n].launched # Malformed
    /\ tags' = [tags EXCEPT ![n].launched = Malformed]
    /\ UNCHANGED <<status, home, pointer, defaultRegion, clock>>

ExpiryTagEdited(n) ==
    /\ status[n] = "live"
    /\ tags[n].expires # Never
    /\ tags' = [tags EXCEPT ![n].expires = Never]
    /\ UNCHANGED <<status, home, pointer, defaultRegion, clock>>

\* A stamp that does not parse counts for nothing (watchdog.py:59-61), so it is None.
AlertTagEdited(n) ==
    /\ status[n] = "live"
    /\ tags[n].alerted # None
    /\ tags' = [tags EXCEPT ![n].alerted = None]
    /\ UNCHANGED <<status, home, pointer, defaultRegion, clock>>

DefaultRegionSet(region) ==
    /\ region \in Defaults \ {defaultRegion}
    /\ defaultRegion' = region
    /\ UNCHANGED <<fleetVars, pointer, clock>>

Tick ==
    /\ clock < MaxClock
    /\ clock' = clock + 1
    /\ UNCHANGED <<fleetVars, pointer, defaultRegion>>
=============================================================================
