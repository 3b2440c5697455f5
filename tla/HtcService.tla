----------------------------- MODULE HtcService -----------------------------
(***************************************************************************)
(* What an HTC endpoint promises to those who send packets over it: each   *)
(* packet given to htc_send_pkt goes to the bus at most once, in the order *)
(* in which its sender gave it, and is handed back once, either after it   *)
(* went to the bus or cancelled by a flush.  Packets for power management  *)
(* (AUTO_PM) form a class of their own and may overtake the others.        *)
(*                                                                         *)
(* A bus that may refuse packets is not reliable: the endpoint may then    *)
(* lose packets, yet it neither reorders nor repeats any.                  *)
(***************************************************************************)
EXTENDS Naturals, Sequences

CONSTANTS
    Packets,     \* packets, numbered in the order their sender sends them
    OwnerOf,     \* the sender of each packet
    AutoPm       \* packets with the tag HTC_TX_PACKET_TAG_AUTO_PM

VARIABLES
    reliable,    \* the bus refuses nothing
    accepted,    \* packets given to htc_send_pkt
    bus,         \* packets in the order they went to the bus
    lost,        \* packets nobody has any more
    returned     \* how often each packet was handed back

svars == <<reliable, accepted, bus, lost, returned>>

OnBus == {bus[i] : i \in 1..Len(bus)}

\* Packets that wait to go to the bus.
Waiting == {p \in accepted \ (OnBus \cup lost) : returned[p] = 0}

SameClass(p, q) == OwnerOf[p] = OwnerOf[q] /\ (p \in AutoPm <=> q \in AutoPm)

Init ==
    /\ reliable \in BOOLEAN
    /\ accepted = {}
    /\ bus = <<>>
    /\ lost = {}
    /\ returned = [p \in Packets |-> 0]

Accept(p) ==
    /\ p \notin accepted
    /\ accepted' = accepted \cup {p}
    /\ UNCHANGED <<reliable, bus, lost, returned>>

\* The oldest packet of its sender and class goes to the bus.
Transmit(p) ==
    /\ p \in Waiting
    /\ \A q \in Waiting : SameClass(p, q) => p <= q
    /\ bus' = Append(bus, p)
    /\ UNCHANGED <<reliable, accepted, lost, returned>>

\* The bus has sent packet p and its sender gets it back.
Complete(p) ==
    /\ p \in OnBus
    /\ returned[p] = 0
    /\ returned' = [returned EXCEPT ![p] = 1]
    /\ UNCHANGED <<reliable, accepted, bus, lost>>

\* A flush hands waiting packets back.
Cancel(S) ==
    /\ S # {} /\ S \subseteq Waiting
    /\ returned' = [p \in Packets |-> IF p \in S THEN 1 ELSE returned[p]]
    /\ UNCHANGED <<reliable, accepted, bus, lost>>

Lose(S) ==
    /\ ~reliable
    /\ S # {} /\ S \subseteq Waiting
    /\ lost' = lost \cup S
    /\ UNCHANGED <<reliable, accepted, bus, returned>>

Next ==
    \/ \E p \in Packets : Accept(p) \/ Transmit(p) \/ Complete(p)
    \/ \E S \in SUBSET Packets : Cancel(S) \/ Lose(S)

Spec == Init /\ [][Next]_svars
=============================================================================
