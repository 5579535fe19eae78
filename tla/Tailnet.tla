------------------------------- MODULE Tailnet -------------------------------
(***************************************************************************)
(* The devices of the tailnet that carry the exit node tag, and what the   *)
(* control plane and the phone make of them: find_device of tailscale.py,  *)
(* the tailnet field of the status document, and the phone's reading of    *)
(* it.  A device is named after the node it belongs to; the name it shows  *)
(* is the one tailscale up was given, or one that Tailscale made of it.    *)
(***************************************************************************)
EXTENDS Naturals, FiniteSets

CONSTANT Nodes      \* the nodes, and so the devices

VARIABLES
    joined,     \* the devices in the tailnet
    verbatim,   \* those that show the hostname they were given
    advertised, \* those that offer themselves as an exit node
    unnamed     \* the nodes whose hostname tag was removed by hand

devices == <<joined, verbatim, advertised>>
tailnet == <<devices, unnamed>>

TailnetTypeOK ==
    /\ joined \subseteq Nodes
    /\ verbatim \subseteq joined
    /\ advertised \subseteq joined
    /\ unnamed \subseteq Nodes

\* A selected exit node is one of these.
Selectable == advertised

Join(n, shows) ==
    /\ joined' = joined \cup {n}
    /\ verbatim' = IF shows THEN verbatim \cup {n} ELSE verbatim
    /\ UNCHANGED <<advertised, unnamed>>

\* Mutant: a device that leaves is still on offer.
LeaveSilently(n) ==
    /\ joined' = joined \ {n}
    /\ verbatim' = verbatim \ {n}
    /\ UNCHANGED <<advertised, unnamed>>

Leave(n) ==
    /\ joined' = joined \ {n}
    /\ verbatim' = verbatim \ {n}
    /\ advertised' = advertised \ {n}
    /\ UNCHANGED unnamed

Advertise(n) ==
    /\ advertised' = advertised \cup ({n} \cap joined)
    /\ UNCHANGED <<joined, verbatim, unnamed>>

Withdraw(n) ==
    /\ advertised' = advertised \ {n}
    /\ UNCHANGED <<joined, verbatim, unnamed>>

HostnameTagRemoved(n) ==
    /\ n \notin unnamed
    /\ unnamed' = unnamed \cup {n}
    /\ UNCHANGED devices

-----------------------------------------------------------------------------
\* The devices that show the hostname on a node's tag; without a tag, all do.
Matching(n) == IF n \in unnamed THEN joined ELSE {n} \cap verbatim

\* Mutant: without a match, any tagged device will do.
FindDeviceGuesses(n) == IF Matching(n) # {} THEN Matching(n) ELSE joined

\* Mutant: only the hostname counts.
FindDeviceByName(n) == Matching(n)

\* The devices find_device may return for a node; it finds none if there are none.
FindDevice(n) ==
    IF Matching(n) = {} /\ Cardinality(joined) = 1 THEN joined ELSE Matching(n)

\* The tailnet field of a node's status, when Tailscale's API answers.
Reports(n) == IF FindDevice(n) # {} THEN "online" ELSE "absent"
=============================================================================
