---------------------------- MODULE NodeBootstrap ----------------------------
(***************************************************************************)
(* The boot script of a node, userdata.sh, and the life of the device it   *)
(* makes: a node joins the tailnet, checks itself, offers itself as an     *)
(* exit node, and takes itself away if one of the checks fails.            *)
(*                                                                         *)
(* A stage is a command, or a run of commands that are handled alike.  A   *)
(* command succeeds; or fails without effect; or takes effect and fails.   *)
(***************************************************************************)
EXTENDS Tailnet

CONSTANT Past   \* nodes of the past: gone, their devices perhaps not yet

ASSUME PastAssumption == Past \subseteq Nodes /\ IsFiniteSet(Nodes)

VARIABLES
    stage,      \* the command each node's script is at
    died,       \* the command whose failure ended the script, or "none"
    forwarding, \* the nodes that forward packets
    power       \* "off", "on", "stopping" or "gone"

bootVars == <<stage, died, forwarding, power>>
vars == <<bootVars, tailnet>>

\* Mutant: the node offers itself before its forwarding is verified.
AdvertiseFirst ==
    [sysctl |-> "install", install |-> "join", join |-> "advertise", advertise |-> "verify",
     verify |-> "confirm", confirm |-> "ready", report |-> "withdraw", withdraw |-> "leave",
     leave |-> "halt", halt |-> "exited", trap |-> "exited"]

\* Where the script goes after a command that succeeded.  install stands for
\* everything from the packages to the units.
OnSuccess ==
    [sysctl |-> "install", install |-> "join", join |-> "verify", verify |-> "advertise",
     advertise |-> "confirm", confirm |-> "ready", report |-> "withdraw", withdraw |-> "leave",
     leave |-> "halt", halt |-> "exited", trap |-> "exited"]

\* Mutant: the cleanup runs under set -e, without || true.
CleanupStops ==
    [sysctl |-> "trap", install |-> "trap", join |-> "exited", verify |-> "leave",
     advertise |-> "leave", confirm |-> "report", report |-> "exited", withdraw |-> "exited",
     leave |-> "exited", halt |-> "exited", trap |-> "exited"]

\* And after one that failed: before the join, to the ERR trap; at the join, and
\* at the unguarded status command before the cleanup, to its end under set -e;
\* from a check to the cleanup, and on through it.
OnFailure ==
    [sysctl |-> "trap", install |-> "trap", join |-> "exited", verify |-> "leave",
     advertise |-> "leave", confirm |-> "report", report |-> "exited", withdraw |-> "leave",
     leave |-> "halt", halt |-> "exited", trap |-> "exited"]

Commands == DOMAIN OnSuccess
Stages == Commands \cup {"none", "ready", "exited"}

TypeOK ==
    /\ TailnetTypeOK
    /\ stage \in [Nodes -> Stages]
    /\ died \in [Nodes -> Commands \cup {"none"}]
    /\ forwarding \subseteq Nodes
    /\ power \in [Nodes -> {"off", "on", "stopping", "gone"}]

Init ==
    /\ joined \in SUBSET Past
    /\ verbatim = joined
    /\ advertised = joined
    /\ unnamed = {}
    /\ stage = [n \in Nodes |-> IF n \in Past THEN "ready" ELSE "none"]
    /\ died = [n \in Nodes |-> "none"]
    /\ forwarding = Past
    /\ power = [n \in Nodes |-> IF n \in Past THEN "gone" ELSE "off"]

Boot(n) ==
    /\ power[n] = "off"
    /\ power' = [power EXCEPT ![n] = "on"]
    /\ stage' = [stage EXCEPT ![n] = "sysctl"]
    /\ UNCHANGED <<died, forwarding, tailnet>>

-----------------------------------------------------------------------------
\* The script runs until the machine is off: also for a while after it, or
\* someone else, has begun to shut the machine down.
Running(n, command) == stage[n] = command /\ power[n] \in {"on", "stopping"}

Succeeds(n) ==
    /\ stage' = [stage EXCEPT ![n] = OnSuccess[@]]
    /\ UNCHANGED died

Fails(n) ==
    /\ stage' = [stage EXCEPT ![n] = OnFailure[@]]
    /\ died' = [died EXCEPT ![n] = IF OnFailure[stage[n]] = "exited" THEN stage[n] ELSE @]

\* What a command does; the rest only look, or prepare what is not modelled.
Effect(n) ==
    CASE stage[n] = "join" -> \E shows \in BOOLEAN : Join(n, shows) /\ UNCHANGED <<forwarding, power>>
      [] stage[n] = "advertise" -> Advertise(n) /\ UNCHANGED <<forwarding, power>>
      [] stage[n] = "withdraw" -> Withdraw(n) /\ UNCHANGED <<forwarding, power>>
      [] stage[n] = "leave" -> Leave(n) /\ UNCHANGED <<forwarding, power>>
      [] stage[n] = "sysctl" -> /\ forwarding' = forwarding \cup {n}
                                /\ UNCHANGED <<power, tailnet>>
      [] stage[n] \in {"halt", "trap"} -> /\ power' = [power EXCEPT ![n] = "stopping"]
                                          /\ UNCHANGED <<forwarding, tailnet>>
      [] OTHER -> UNCHANGED <<forwarding, power, tailnet>>

NoEffect == UNCHANGED <<forwarding, power, tailnet>>

\* A check, of forwarding or of the advertisement, passes only if there is what it
\* looks for.  It may fail all the same: the flag is read with a command of its own,
\* and the advertisement may take longer to show than the loop waits for it.
Passes(n) ==
    CASE stage[n] = "verify" -> n \in forwarding
      [] stage[n] = "confirm" -> n \in advertised
      [] OTHER -> TRUE

\* sysctl may succeed and leave forwarding off: another file overrides it.
Command(n) ==
    /\ \E command \in Commands : Running(n, command)
    /\ \/ Passes(n) /\ Succeeds(n) /\ Effect(n)
       \/ stage[n] = "sysctl" /\ Succeeds(n) /\ NoEffect
       \/ Fails(n) /\ (Effect(n) \/ NoEffect)

-----------------------------------------------------------------------------
\* The control plane, or EC2, ends the node.
Terminate(n) ==
    /\ power[n] = "on"
    /\ power' = [power EXCEPT ![n] = "stopping"]
    /\ UNCHANGED <<stage, died, forwarding, tailnet>>

\* The machine goes off.  On the way the logout unit takes the device out of the
\* tailnet, if it was installed, is stopped in time and reaches Tailscale.
PowerOff(n) ==
    /\ power[n] = "stopping"
    /\ power' = [power EXCEPT ![n] = "gone"]
    /\ UNCHANGED <<stage, died, forwarding>>
    /\ \/ UNCHANGED tailnet
       \/ stage[n] \notin {"sysctl", "install"} /\ Leave(n)

\* Tailscale removes the ephemeral device of a machine that is gone.
Expire(n) ==
    /\ power[n] = "gone"
    /\ n \in joined
    /\ Leave(n)
    /\ UNCHANGED bootVars

TagRemoved(n) ==
    /\ power[n] = "on"
    /\ HostnameTagRemoved(n)
    /\ UNCHANGED bootVars

\* Nothing is left to happen: every node is gone, with its device.
Settled ==
    /\ \A n \in Nodes : power[n] = "gone" /\ n \notin joined
    /\ UNCHANGED vars

Next ==
    \/ \E n \in Nodes : \/ Boot(n) \/ Command(n) \/ Terminate(n)
                        \/ PowerOff(n) \/ Expire(n) \/ TagRemoved(n)
    \/ Settled

\* A script that runs goes on, a machine that is stopping stops, and an
\* ephemeral device that is offline is removed, after 30 to 60 minutes.
Fairness ==
    \A n \in Nodes : WF_vars(Command(n)) /\ WF_vars(PowerOff(n)) /\ WF_vars(Expire(n))

Spec == Init /\ [][Next]_vars /\ Fairness

-----------------------------------------------------------------------------
Up(n) == power[n] = "on"

\* What can be selected as an exit node forwards packets: whatever fails, a node
\* that offers itself has had its forwarding verified first.
SelectableIsVerified == Selectable \subseteq forwarding

\* With several devices about, a node that still has its hostname tag is reported
\* online only if its own device is there: one left over from an earlier launch
\* is never taken for it.
OnlineIsNeverAGuess ==
    \A n \in Nodes \ unnamed :
        Cardinality(joined) > 1 /\ Reports(n) = "online" => n \in joined

\* A node that came up is reported absent only if Tailscale shows another name for
\* it and there is more than one device to choose from.
ReadyIsReportedOnline ==
    \A n \in Nodes :
        Up(n) /\ stage[n] = "ready" /\ Reports(n) = "absent"
        => n \notin verbatim /\ Cardinality(joined) > 1

\* A node that boots comes up ready, or ends with its device out of the tailnet,
\* whichever command fails and wherever the machine is shut down: unless the script
\* dies at the join, at the shutdown itself, or at the command that stands unguarded
\* before the cleanup.
FailedNodeLeaves ==
    \A n \in Nodes :
        power[n] = "on" ~>
            \/ stage[n] = "ready"
            \/ power[n] = "gone" /\ n \notin joined
            \/ died[n] \in {"join", "report", "halt", "trap"}

-----------------------------------------------------------------------------
(* Promises of the comments that the code does not keep.                    *)

\* userdata.sh:125-129: every failure branch after the join fails closed, so no
\* failing step keeps a node that failed its checks from shutting down.
FailsClosed ==
    \A n \in Nodes :
        stage[n] = "exited" /\ died[n] \notin {"join", "halt", "trap"} => ~Up(n)

\* userdata.sh:109-113: a join that failed needs no cleanup, since the status of
\* the node says that it is not on the tailnet.
JoinFailureShows ==
    \A n \in Nodes :
        Up(n) /\ died[n] = "join" /\ n \notin joined => Reports(n) = "absent"
=============================================================================
