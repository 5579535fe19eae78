------------------------------ MODULE IdleAlert ------------------------------
(***************************************************************************)
(* What a node sends, what CloudWatch tells of it, and what becomes of     *)
(* that: the idle mail of the hourly sweep and the idle_for of a status.   *)
(*                                                                         *)
(* The sweep is the module Watchdog, step by step; here what its idle      *)
(* check reads comes from the traffic of the last Day.  A tick is both an  *)
(* hour and a datapoint.                                                   *)
(***************************************************************************)
EXTENDS Watchdog, FiniteSetsExt, Functions

CONSTANTS
    Amounts,    \* what a node may send in a tick
    Floor,      \* IDLE_BUCKET_FLOOR_BYTES: no more than this is background noise
    Threshold,  \* idle-threshold-bytes, for the traffic of a Day
    Fresh       \* FRESH_NODE_SECONDS, in ticks

ASSUME TrafficAssumption == /\ Amounts \subseteq Nat
                            /\ Floor \in Nat
                            /\ Threshold \in Nat
                            /\ Fresh \in Nat

VARIABLES
    traffic,    \* what each node sent in each tick that is over, None when it did not run
    mailed,     \* when the latest idle mail was sent; whether it arrived nobody knows
    stamped,    \* the node that the stamp of that mail was put on, and still is
    looked      \* a sweep of this tick was told of the traffic

alertVars == <<traffic, mailed, stamped, looked>>
vars == <<cloudVars, sweep, alertVars>>

Ticks == 0 .. MaxClock

TypeOK ==
    /\ CloudTypeOK
    /\ WatchdogTypeOK
    /\ traffic \in [Nodes -> [Ticks -> Amounts \cup {None}]]
    /\ mailed \in Ticks \cup {None}
    /\ stamped \in Nodes \cup {None}
    /\ looked \in BOOLEAN

Init ==
    /\ CloudInit
    /\ WatchdogInit
    /\ traffic = [n \in Nodes |-> [t \in Ticks |-> None]]
    /\ mailed = None
    /\ stamped = None
    /\ looked = FALSE

-----------------------------------------------------------------------------
Ran(n, t) == t \in Ticks /\ traffic[n][t] # None

\* Mutant: the window is a tick too short.
ShortWindow(n, now, lag) == {t \in Ticks : now - Day < t /\ t < now - lag /\ Ran(n, t)}

\* network_out: the ticks of the last Day with a datapoint of this node.  The latest
\* may not have been published yet.
NetworkOut(n, now, lag) == {t \in Ticks : now - Day <= t /\ t < now - lag /\ Ran(n, t)}

Bytes(n, points) == SumFunctionOnSet(traffic[n], points)

\* Mutant: whatever is not zero is use.
IdleSecondsAboveZero(n, points, now) ==
    LET used == {t \in points : traffic[n][t] > 0}
    IN  now - (IF used # {} THEN Max(used) ELSE Min(points))

\* idle_seconds, of some datapoints: since the latest that is not mere noise, or
\* for as long as they go back.
IdleSeconds(n, points, now) ==
    LET used == {t \in points : traffic[n][t] > Floor}
    IN  now - (IF used # {} THEN Max(used) ELSE Min(points))

\* The idle_for of a status: none of a fresh node, nor without datapoints.
Shows(n, lag) ==
    LET points == NetworkOut(n, clock, lag)
        fresh == tags[n].launched # Malformed /\ clock - tags[n].launched < Fresh
    IN  IF fresh \/ points = {} THEN None ELSE IdleSeconds(n, points, clock)

\* What the traffic of a node makes of a check, if CloudWatch answers.
Reading(n, now, lag) ==
    IF Bytes(n, NetworkOut(n, now, lag)) < Threshold THEN "idle" ELSE "busy"

-----------------------------------------------------------------------------
\* The check, and the mail if there is to be one: it is sent before the stamp, and
\* _publish keeps it to itself if that fails.
CheckTraffic(w, reading) ==
    LET told == reading \in {"idle", "busy"}
        sends == sweep'[w].step = "stamp"
    IN  /\ Check(w, reading)
        /\ told => \E lag \in {0, 1} : reading = Reading(sweep[w].candidate, sweep[w].now, lag)
        /\ mailed' = IF sends THEN sweep[w].now ELSE mailed
        /\ stamped' = IF sends THEN None ELSE stamped
        /\ looked' = (looked \/ told)
        /\ UNCHANGED traffic

StampTraffic(w, outcome) ==
    /\ Stamp(w, outcome)
    /\ stamped' = IF TookEffect(outcome) THEN sweep[w].candidate ELSE stamped
    /\ UNCHANGED <<traffic, mailed, looked>>

\* The other steps of a sweep.  None reaps or removes duplicates: one node runs, and
\* it does not expire.
SweepGoesOn(w) ==
    \/ \E threshold, readable \in BOOLEAN : ReadConfig(w, threshold, readable)
    \/ ListRegions(w) \/ ListRegionsFails(w)
    \/ \E region \in Regions : ScanRegion(w, region) \/ ScanRegionFails(w, region)
    \/ Scanned(w) \/ NoSurvivor(w) \/ Deduplicated(w)
    \/ \E n \in Nodes : OrderSurvivors(w, n)
    \/ \E outcome \in Outcomes : Adopt(w, outcome) \/ ClearPointer(w, outcome)
    \/ LeavePointer(w) \/ SweepEnds(w) \/ SweepCrash(w)

\* Mutant: the expiry tag is put at no time.
LaunchedUnstamped(n, region) ==
    /\ \A w \in Workers : ~Sweeping(w)
    /\ Live = {}
    /\ RunInstance(n, region, clock, None)
    /\ pointer' = [region |-> region, instance_id |-> n]
    /\ UNCHANGED <<defaultRegion, clock>>

\* up launches the node, and tracks it.
Launched(n, region) ==
    /\ \A w \in Workers : ~Sweeping(w)
    /\ Live = {}
    /\ RunInstance(n, region, clock, Never)
    /\ pointer' = [region |-> region, instance_id |-> n]
    /\ UNCHANGED <<defaultRegion, clock>>

\* Someone edits the launch tag or the stamp by hand; as in ControlPlane, between
\* two sweeps.
TagEdited ==
    /\ \A w \in Workers : ~Sweeping(w)
    /\ \E n \in Editable :
        \/ LaunchTagEdited(n) /\ UNCHANGED stamped
        \/ AlertTagEdited(n) /\ stamped' = IF stamped = n THEN None ELSE stamped
    /\ UNCHANGED <<sweep, traffic, mailed, looked>>

\* A tick passes, between two sweeps: it is the datapoint of the nodes that run.
HourPasses(amount) ==
    /\ \A w \in Workers : ~Sweeping(w)
    /\ traffic' = [n \in Nodes |-> IF n \in Live THEN [traffic[n] EXCEPT ![clock] = amount]
                                   ELSE traffic[n]]
    /\ looked' = FALSE
    /\ Tick
    /\ UNCHANGED <<sweep, mailed, stamped>>

Next ==
    \/ \E w \in Workers :
        \/ (StartSweep(w) \/ SweepGoesOn(w)) /\ UNCHANGED alertVars
        \/ \E reading \in Readings : CheckTraffic(w, reading)
        \/ \E outcome \in Outcomes : StampTraffic(w, outcome)
    \/ \E amount \in Amounts : HourPasses(amount)
    \/ /\ \E n \in Nodes : NodeEnds(n) \/ \E region \in Regions : Launched(n, region)
       /\ UNCHANGED <<sweep, alertVars>>
    \/ TagEdited

Spec == Init /\ [][Next]_vars

-----------------------------------------------------------------------------
Mails(w) == sweep[w].step = "check" /\ sweep'[w].step = "stamp"

\* A mail says that a node has been idle for a Day.  What the Day's datapoints of this
\* node add up to, the latest aside, is below the threshold; and the node ran in every
\* tick of that Day.  The exception is the one should_alert makes (watchdog.py:51-53):
\* with a launch tag that cannot be read, the node may be younger.
MailIsTrue ==
    [][\A w \in Workers : Mails(w) =>
        LET n == sweep[w].candidate
            now == sweep[w].now
            day == now - Day .. now - 1
        IN  /\ tags[n].launched # Malformed => \A t \in day : Ran(n, t)
            /\ Bytes(n, {t \in day : Ran(n, t) /\ t # now - 1}) < Threshold]_vars

\* After a mail whose stamp was put there is none for the next Day, however many
\* sweeps run or break off in between, and whichever node runs; but another node with
\* a launch tag that cannot be read does not wait to be a Day old.
OneMailADay ==
    [][\A w \in Workers : Mails(w) /\ stamped # None =>
        \/ sweep[w].now - mailed >= Day
        \/ sweep[w].candidate # stamped /\ tags[sweep[w].candidate].launched = Malformed]_vars

\* A forgotten node is never passed over: once a sweep was told of its traffic, a node
\* that ran for a Day below the threshold has been mailed about within the Day, whatever
\* stamps failed, sweeps broke off after the mail, or tags were edited.
ForgottenNodeIsMailed ==
    \A n \in Live :
        /\ looked
        /\ Ran(n, clock - Day)
        /\ Bytes(n, NetworkOut(n, clock, 0)) < Threshold
        => mailed # None /\ clock - mailed < Day

\* What a status says of disuse is so of the node it is about: it ran at the start of
\* that time; the one tick of use the time may cover is the latest, as long as it is not
\* published; and the time ends for a reason, a tick of use, the launch, or the Day.
IdleForIsTrue ==
    \A n \in Live, lag \in {0, 1} :
        LET idle == Shows(n, lag)
            start == clock - idle
        IN  idle # None =>
              /\ Ran(n, start)
              /\ \A t \in Ticks : Ran(n, t) /\ traffic[n][t] > Floor /\ t > start
                                  => lag = 1 /\ t = clock - 1
              /\ traffic[n][start] > Floor \/ ~Ran(n, start - 1) \/ idle = Day

-----------------------------------------------------------------------------
(* A promise of the design that the code does not keep.                      *)

\* docs/superpowers/specs/2026-08-01-shardvpn-v2-design.md:208-209: idle_for is the time
\* since the most recent datapoint above zero.
IdleForSinceAboveZero ==
    \A n \in Live, lag \in {0, 1} :
        LET used == {t \in NetworkOut(n, clock, lag) : traffic[n][t] > 0}
        IN  used # {} /\ Shows(n, lag) # None => Shows(n, lag) = clock - Max(used)
=============================================================================
