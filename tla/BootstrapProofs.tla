-------------------------- MODULE BootstrapProofs --------------------------
(***************************************************************************)
(* Types, what a node has on offer, and what a status says of it, for any  *)
(* number of nodes.                                                        *)
(***************************************************************************)
EXTENDS NodeBootstrap, FiniteSetTheorems, TLAPS

\* A node that is about to offer itself forwards packets: the check of its
\* forwarding stands right before, and forwarding is not switched off again.
VerifiedBefore ==
    /\ TypeOK
    /\ \A n \in Nodes : stage[n] = "advertise" => n \in forwarding
    /\ SelectableIsVerified

\* The two tables, and that the check of forwarding stands before the advertisement.
LEMMA Tables ==
    /\ Commands \subseteq Stages
    /\ \A command \in Commands :
          /\ OnSuccess[command] \in Stages
          /\ OnFailure[command] \in Stages
          /\ OnSuccess[command] = "advertise" => command = "verify"
          /\ OnFailure[command] # "advertise"
  BY DEF Commands, Stages, OnSuccess, OnFailure

LEMMA InitVerified == Init => VerifiedBefore
  BY PastAssumption DEF Init, VerifiedBefore, TypeOK, TailnetTypeOK, SelectableIsVerified, Selectable, Stages

\* What a command does to the devices, the machine and its forwarding.
LEMMA EffectTypes ==
    ASSUME VerifiedBefore, NEW n \in Nodes, Effect(n) \/ NoEffect
    PROVE  /\ TailnetTypeOK'
           /\ forwarding \subseteq forwarding'
           /\ forwarding' \subseteq Nodes
           /\ power' \in [Nodes -> {"off", "on", "stopping", "gone"}]
           /\ advertised' \subseteq forwarding'
  <1>. TypeOK /\ TailnetTypeOK /\ advertised \subseteq forwarding
    BY DEF VerifiedBefore, TypeOK, SelectableIsVerified, Selectable
  <1>1. CASE NoEffect
    BY <1>1 DEF NoEffect, TypeOK, TailnetTypeOK, tailnet, devices
  <1>2. CASE Effect(n) /\ stage[n] = "join"
    <2>. PICK shows \in BOOLEAN : Join(n, shows) /\ UNCHANGED <<forwarding, power>>
      BY <1>2 DEF Effect
    <2>. QED
      BY DEF Join, TypeOK, TailnetTypeOK
  <1>3. CASE Effect(n) /\ stage[n] = "advertise"
    <2>. Advertise(n) /\ UNCHANGED <<forwarding, power>> /\ n \in forwarding
      BY <1>3 DEF Effect, VerifiedBefore
    <2>. QED
      BY DEF Advertise, TypeOK, TailnetTypeOK
  <1>4. CASE Effect(n) /\ stage[n] = "withdraw"
    <2>. Withdraw(n) /\ UNCHANGED <<forwarding, power>>
      BY <1>4 DEF Effect
    <2>. QED
      BY DEF Withdraw, TypeOK, TailnetTypeOK
  <1>5. CASE Effect(n) /\ stage[n] = "leave"
    <2>. Leave(n) /\ UNCHANGED <<forwarding, power>>
      BY <1>5 DEF Effect
    <2>. QED
      BY DEF Leave, TypeOK, TailnetTypeOK
  <1>6. CASE Effect(n) /\ stage[n] = "sysctl"
    <2>. forwarding' = forwarding \cup {n} /\ UNCHANGED <<power, tailnet>>
      BY <1>6 DEF Effect
    <2>. QED
      BY DEF TypeOK, TailnetTypeOK, tailnet, devices
  <1>7. CASE Effect(n) /\ stage[n] \in {"halt", "trap"}
    <2>. power' = [power EXCEPT ![n] = "stopping"] /\ UNCHANGED <<forwarding, tailnet>>
      BY <1>7 DEF Effect
    <2>. QED
      BY DEF TypeOK, TailnetTypeOK, tailnet, devices
  <1>8. CASE Effect(n) /\ stage[n] \notin {"join", "advertise", "withdraw", "leave",
                                           "sysctl", "halt", "trap"}
    <2>. UNCHANGED <<forwarding, power, tailnet>>
      BY <1>8 DEF Effect
    <2>. QED
      BY DEF TypeOK, TailnetTypeOK, tailnet, devices
  <1>. QED
    BY <1>1, <1>2, <1>3, <1>4, <1>5, <1>6, <1>7, <1>8

LEMMA CommandKeeps ==
    ASSUME VerifiedBefore, NEW n \in Nodes, Command(n)
    PROVE  VerifiedBefore'
  <1>. TypeOK /\ \A m \in Nodes : stage[m] = "advertise" => m \in forwarding
    BY DEF VerifiedBefore
  <1>1. stage[n] \in Commands
    BY DEF Command, Running
  <1>2. Effect(n) \/ NoEffect
    BY DEF Command
  <1>3. /\ TailnetTypeOK'
        /\ forwarding \subseteq forwarding'
        /\ forwarding' \subseteq Nodes
        /\ power' \in [Nodes -> {"off", "on", "stopping", "gone"}]
        /\ advertised' \subseteq forwarding'
    BY <1>2, EffectTypes
  <1>4. CASE Succeeds(n) /\ (stage[n] = "verify" => n \in forwarding)
    <2>1. stage' = [stage EXCEPT ![n] = OnSuccess[stage[n]]] /\ died' = died
      BY <1>4 DEF Succeeds
    <2>2. OnSuccess[stage[n]] = "advertise" => n \in forwarding
      BY <1>1, <1>4, Tables
    <2>. QED
      BY <1>1, <1>3, <2>1, <2>2, Tables DEF VerifiedBefore, TypeOK, SelectableIsVerified, Selectable
  <1>5. CASE Fails(n)
    <2>1. /\ stage' = [stage EXCEPT ![n] = OnFailure[stage[n]]]
          /\ died' \in [Nodes -> Commands \cup {"none"}]
      BY <1>1, <1>5 DEF Fails, TypeOK
    <2>. QED
      BY <1>1, <1>3, <2>1, Tables DEF VerifiedBefore, TypeOK, SelectableIsVerified, Selectable
  <1>6. stage[n] = "verify" /\ Passes(n) => n \in forwarding
    BY DEF Passes
  <1>. QED
    BY <1>4, <1>5, <1>6 DEF Command

LEMMA OthersKeep ==
    ASSUME VerifiedBefore, NEW n \in Nodes,
           Boot(n) \/ Terminate(n) \/ PowerOff(n) \/ Expire(n) \/ TagRemoved(n)
    PROVE  VerifiedBefore'
  <1>. TypeOK /\ TailnetTypeOK
    BY DEF VerifiedBefore, TypeOK
  <1>1. /\ TailnetTypeOK'
        /\ advertised' \subseteq advertised
        /\ UNCHANGED <<died, forwarding>>
        /\ power' \in [Nodes -> {"off", "on", "stopping", "gone"}]
        /\ stage' = stage \/ stage' = [stage EXCEPT ![n] = "sysctl"]
    BY DEF Boot, Terminate, PowerOff, Expire, TagRemoved, Leave, HostnameTagRemoved,
           TypeOK, TailnetTypeOK, tailnet, devices, bootVars
  <1>2. "sysctl" \in Stages
    BY DEF Stages, Commands, OnSuccess
  <1>. QED
    BY <1>1, <1>2 DEF VerifiedBefore, TypeOK, SelectableIsVerified, Selectable

LEMMA StepKeepsVerified == VerifiedBefore /\ [Next]_vars => VerifiedBefore'
  <1>1. ASSUME VerifiedBefore, UNCHANGED vars PROVE VerifiedBefore'
    BY <1>1 DEF vars, bootVars, tailnet, devices, VerifiedBefore, TypeOK, TailnetTypeOK,
                SelectableIsVerified, Selectable
  <1>. QED
    BY <1>1, CommandKeeps, OthersKeep DEF Next, Settled

THEOREM VerifiedInvariant == Spec => []VerifiedBefore
  <1>. QED
    BY InitVerified, StepKeepsVerified, PTL DEF Spec

\* Every variable of the bootstrap keeps its type, whatever fails.
THEOREM BootstrapTypes == Spec => []TypeOK
  <1>1. VerifiedBefore => TypeOK
    BY DEF VerifiedBefore
  <1>. QED
    BY <1>1, VerifiedInvariant, PTL

\* What is on offer as an exit node forwards packets, for any nodes, past and new.
THEOREM OfferIsVerified == Spec => []SelectableIsVerified
  <1>1. VerifiedBefore => SelectableIsVerified
    BY DEF VerifiedBefore
  <1>. QED
    BY <1>1, VerifiedInvariant, PTL

\* With another device about, online is never said of a node for the sake of that.
THEOREM OnlineIsCertain == Spec => []OnlineIsNeverAGuess
  <1>1. TypeOK => OnlineIsNeverAGuess
    <2>. SUFFICES ASSUME TypeOK, NEW n \in Nodes \ unnamed,
                         Cardinality(joined) > 1, Reports(n) = "online"
                  PROVE  n \in joined
      BY DEF OnlineIsNeverAGuess
    <2>1. FindDevice(n) # {}
      BY DEF Reports
    <2>2. Cardinality(joined) # 1
      OBVIOUS
    <2>3. {n} \cap verbatim # {}
      BY <2>1, <2>2 DEF FindDevice, Matching
    <2>. QED
      BY <2>3 DEF TypeOK, TailnetTypeOK
  <1>. QED
    BY <1>1, BootstrapTypes, PTL

-----------------------------------------------------------------------------
\* From the join to the end of a successful script the device is there, for as long
\* as the machine is up.
Joined(n) == Up(n) /\ stage[n] \in {"verify", "advertise", "confirm", "ready"} => n \in joined

JoinedInv == TypeOK /\ \A n \in Nodes : Joined(n)

LEMMA JoinedTables ==
    \A command \in Commands :
        /\ OnSuccess[command] \in {"verify", "advertise", "confirm", "ready"}
           => command \in {"join", "verify", "advertise", "confirm"}
        /\ OnFailure[command] \notin {"verify", "advertise", "confirm", "ready"}
  BY DEF Commands, OnSuccess, OnFailure

\* No effect of a command takes out another device, or that of a node that goes on,
\* and none switches a machine on.
LEMMA EffectKeepsDevices ==
    ASSUME TypeOK, NEW n \in Nodes, Effect(n) \/ NoEffect
    PROVE  /\ \A m \in Nodes : m # n => (m \in joined => m \in joined')
           /\ stage[n] # "leave" => joined \subseteq joined'
           /\ \A m \in Nodes : power'[m] = "on" => power[m] = "on"
  <1>. TailnetTypeOK /\ power \in [Nodes -> {"off", "on", "stopping", "gone"}]
    BY DEF TypeOK
  <1>1. CASE NoEffect
    BY <1>1 DEF NoEffect, tailnet, devices
  <1>2. CASE Effect(n) /\ stage[n] = "join"
    <2>. PICK shows \in BOOLEAN : Join(n, shows) /\ UNCHANGED <<forwarding, power>>
      BY <1>2 DEF Effect
    <2>. QED
      BY DEF Join
  <1>3. CASE Effect(n) /\ stage[n] = "leave"
    <2>. Leave(n) /\ UNCHANGED <<forwarding, power>>
      BY <1>3 DEF Effect
    <2>. QED
      BY <1>3 DEF Leave
  <1>4. CASE Effect(n) /\ stage[n] \in {"halt", "trap"}
    <2>. power' = [power EXCEPT ![n] = "stopping"] /\ UNCHANGED <<forwarding, tailnet>>
      BY <1>4 DEF Effect
    <2>. QED
      BY DEF tailnet, devices
  <1>5. CASE Effect(n) /\ stage[n] \notin {"join", "leave", "halt", "trap"}
    <2>. UNCHANGED <<power, joined>>
      BY <1>5 DEF Effect, Advertise, Withdraw, tailnet, devices
    <2>. QED
      OBVIOUS
  <1>. QED
    BY <1>1, <1>2, <1>3, <1>4, <1>5

LEMMA CommandKeepsJoined ==
    ASSUME JoinedInv, NEW n \in Nodes, Command(n), NEW m \in Nodes
    PROVE  Joined(m)'
  <1>. TypeOK /\ Joined(m) /\ Joined(n)
    BY DEF JoinedInv
  <1>. stage \in [Nodes -> Stages]
    BY DEF TypeOK
  <1>1. stage[n] \in Commands
    BY DEF Command, Running
  <1>2. Effect(n) \/ NoEffect
    BY DEF Command
  <1>3. /\ m # n => (m \in joined => m \in joined')
        /\ stage[n] # "leave" => joined \subseteq joined'
        /\ power'[m] = "on" => power[m] = "on"
    BY <1>2, EffectKeepsDevices
  <1>4. CASE m # n
    <2>1. stage'[m] = stage[m]
      BY <1>4 DEF Command, Succeeds, Fails
    <2>. QED
      BY <1>3, <1>4, <2>1 DEF Joined, Up
  <1>5. CASE m = n /\ Fails(n)
    <2>1. stage'[n] = OnFailure[stage[n]]
      BY <1>5 DEF Fails
    <2>. QED
      BY <1>1, <1>5, <2>1, JoinedTables DEF Joined
  <1>6. CASE m = n /\ Succeeds(n) /\ stage[n] # "join"
    <2>1. stage'[n] = OnSuccess[stage[n]]
      BY <1>6 DEF Succeeds
    <2>2. stage'[n] \in {"verify", "advertise", "confirm", "ready"}
          => stage[n] \in {"verify", "advertise", "confirm"}
      BY <1>1, <1>6, <2>1, JoinedTables
    <2>. QED
      BY <1>3, <1>6, <2>2 DEF Joined, Up
  <1>7. CASE m = n /\ Succeeds(n) /\ Effect(n) /\ stage[n] = "join"
    <2>. PICK shows \in BOOLEAN : Join(n, shows)
      BY <1>7 DEF Effect
    <2>. QED
      BY <1>7 DEF Join, Joined
  <1>. QED
    BY <1>4, <1>5, <1>6, <1>7 DEF Command

LEMMA OthersKeepJoined ==
    ASSUME JoinedInv, NEW n \in Nodes, NEW m \in Nodes,
           Boot(n) \/ Terminate(n) \/ PowerOff(n) \/ Expire(n) \/ TagRemoved(n)
    PROVE  Joined(m)'
  <1>. Joined(m) /\ stage \in [Nodes -> Stages]
       /\ power \in [Nodes -> {"off", "on", "stopping", "gone"}]
    BY DEF JoinedInv, TypeOK
  <1>1. CASE Boot(n)
    BY <1>1 DEF Boot, tailnet, devices, Joined, Up
  <1>2. CASE Terminate(n)
    BY <1>2 DEF Terminate, tailnet, devices, Joined, Up
  <1>3. CASE PowerOff(n)
    BY <1>3 DEF PowerOff, Leave, tailnet, devices, Joined, Up
  <1>4. CASE Expire(n)
    BY <1>4 DEF Expire, Leave, bootVars, Joined, Up
  <1>5. CASE TagRemoved(n)
    BY <1>5 DEF TagRemoved, HostnameTagRemoved, devices, bootVars, Joined, Up
  <1>. QED
    BY <1>1, <1>2, <1>3, <1>4, <1>5

LEMMA JoinedStep == JoinedInv /\ TypeOK' /\ [Next]_vars => JoinedInv'
  <1>. SUFFICES ASSUME JoinedInv, TypeOK', [Next]_vars, NEW m \in Nodes PROVE Joined(m)'
    BY DEF JoinedInv
  <1>1. CASE UNCHANGED vars
    BY <1>1 DEF vars, bootVars, tailnet, devices, JoinedInv, Joined, Up
  <1>. QED
    BY <1>1, CommandKeepsJoined, OthersKeepJoined DEF Next, Settled

\* A node that came up is lost sight of only with a name that Tailscale made and
\* another device about.
THEOREM ReadyIsSeen == Spec => []ReadyIsReportedOnline
  <1>1. Init => JoinedInv
    BY InitVerified DEF VerifiedBefore, JoinedInv, Joined, Up, Init
  <1>2. Spec => []JoinedInv
    BY <1>1, JoinedStep, BootstrapTypes, PTL DEF Spec
  <1>3. JoinedInv => ReadyIsReportedOnline
    <2>. SUFFICES ASSUME JoinedInv, NEW n \in Nodes,
                         Up(n), stage[n] = "ready", Reports(n) = "absent"
                  PROVE  n \notin verbatim /\ Cardinality(joined) > 1
      BY DEF ReadyIsReportedOnline
    <2>1. n \in joined /\ joined \subseteq Nodes
      BY DEF JoinedInv, Joined, TypeOK, TailnetTypeOK
    <2>2. FindDevice(n) = {}
      BY DEF Reports
    <2>3. Matching(n) = {} /\ Cardinality(joined) # 1
      BY <2>1, <2>2 DEF FindDevice
    <2>4. n \notin verbatim
      BY <2>1, <2>3 DEF Matching
    <2>5. Cardinality(joined) \in Nat /\ Cardinality(joined) # 0
      BY <2>1, PastAssumption, FS_Subset, FS_CardinalityType, FS_EmptySet
    <2>. QED
      BY <2>3, <2>4, <2>5
  <1>. QED
    BY <1>2, <1>3, PTL
=============================================================================
