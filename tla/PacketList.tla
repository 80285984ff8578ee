---------------------------- MODULE PacketList ----------------------------
(***************************************************************************)
(* The outgoing packet list of BoardClient: std::list m_packets and the    *)
(* four members that touch it.  A packet is named by its place in the      *)
(* order of the SendPacket calls and carries the retransmission count that *)
(* SendPacketAsync appends to its bytes; the payload is not modelled.      *)
(*                                                                         *)
(* In this module and the others a definition marked "Slip" is not the     *)
(* code: it is the definition that follows it with a plausible mistake,    *)
(* which a run must notice when it takes that definition's place.          *)
(***************************************************************************)
EXTENDS Naturals, Sequences

CONSTANTS
    MaxPackets,    \* bound: packets queued in one behaviour
    Transmissions  \* retransmission counts the application asks for

ASSUME PacketListAssumption ==
    /\ MaxPackets \in Nat
    /\ Transmissions \subseteq Nat

VARIABLES
    m_packets,  \* the list, front first
    queued      \* history: how many packets were ever queued

listVars == <<m_packets, queued>>

Packet == [id : 1..MaxPackets, transmissions : Transmissions]

PacketListTypeOK ==
    /\ m_packets \in Seq(Packet)
    /\ queued \in 0..MaxPackets

PacketListInit ==
    /\ m_packets = << >>
    /\ queued = 0

IsPacketListEmpty == m_packets = << >>

\* Slip: back() for front().
FrontPacketBack == m_packets[Len(m_packets)]

\* The packet FrontPacket() points at; defined only on a nonempty list.
FrontPacket == Head(m_packets)

\* How many packets have left the list, whoever took them off.
Popped == queued - Len(m_packets)

\* Slip: emplace_front.
EmplaceFront(n) ==
    /\ queued < MaxPackets
    /\ queued' = queued + 1
    /\ m_packets' = <<[id |-> queued + 1, transmissions |-> n]>> \o m_packets

\* m_packets.emplace_back, under m_mtx.
EmplaceBack(n) ==
    /\ queued < MaxPackets
    /\ queued' = queued + 1
    /\ m_packets' = Append(m_packets, [id |-> queued + 1, transmissions |-> n])

\* Slip: pop_back.
PopBack ==
    /\ m_packets' = SubSeq(m_packets, 1, Len(m_packets) - 1)
    /\ UNCHANGED queued

\* m_packets.pop_front, under m_mtx, on a nonempty list.
PopPacket ==
    /\ m_packets' = Tail(m_packets)
    /\ UNCHANGED queued
===========================================================================
