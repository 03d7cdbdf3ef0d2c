--------------------------- MODULE OrderedDelivery ---------------------------
(***************************************************************************)
(* What an unreliable video protocol promises the two clients of kyproto,  *)
(* whatever the network does to the datagrams in between.                  *)
(*                                                                         *)
(* The sending client hands over one codec packet and then config packets  *)
(* and media packets, numbered 0, 1, 2...  (kypacket_seq).  Every config   *)
(* packet starts a group.  The receiving client gets the codec packet,     *)
(* then a subsequence of the numbered packets in the order they were       *)
(* sent, each intact and at most once; a media packet is given to it only  *)
(* while its own group's config packet is the latest one given; and what   *)
(* is skipped is counted, packet for packet.                               *)
(***************************************************************************)
EXTENDS Integers, Sequences

CONSTANT MaxPackets         \* bound on the packets a client sends

VARIABLES
    sent,       \* the numbered packets: sent[s + 1] is packet s
    delivered,  \* what the receiving client was given
    expected,   \* number of the next packet to deliver
    lost        \* ProtocolStats::dropped_packets

vars == <<sent, delivered, expected, lost>>

Init ==
    /\ sent = <<>>
    /\ delivered = <<>>
    /\ expected = 0
    /\ lost = 0

(***************************************************************************)
(* The sending client's next packet: a config packet opens a new group, a  *)
(* media packet belongs to the latest one (group 0 before any config).     *)
(***************************************************************************)
LatestGroup(packets) ==
    IF packets = <<>> THEN 0 ELSE packets[Len(packets)].grp

Accept ==
    /\ Len(sent) < MaxPackets
    /\ \/ sent' = Append(sent, [kind |-> "config", grp |-> LatestGroup(sent) + 1])
       \/ sent' = Append(sent, [kind |-> "media", grp |-> LatestGroup(sent)])
    /\ UNCHANGED <<delivered, expected, lost>>

CodecPacket == [kind |-> "codec", seq |-> -1, grp |-> -1, data |-> {-1}]

DeliverCodec ==
    /\ delivered = <<>>
    /\ delivered' = <<CodecPacket>>
    /\ UNCHANGED <<sent, expected, lost>>

(***************************************************************************)
(* Packet s, which may be any packet not yet passed over.                  *)
(***************************************************************************)
Deliver(s) ==
    /\ delivered # <<>>
    /\ s >= expected
    /\ \/ sent[s + 1].kind = "config"
       \/ delivered[Len(delivered)].grp = sent[s + 1].grp
    /\ delivered' = Append(delivered, [kind |-> sent[s + 1].kind, seq |-> s,
                                       grp |-> sent[s + 1].grp, data |-> {s}])
    /\ expected' = s + 1
    /\ lost' = lost + (s - expected)
    /\ UNCHANGED sent

Next ==
    \/ Accept
    \/ DeliverCodec
    \/ \E s \in 0 .. (Len(sent) - 1) : Deliver(s)

Spec == Init /\ [][Next]_vars

-----------------------------------------------------------------------------
SentPackets == [kind : {"config", "media"}, grp : Nat]

DeliveredPackets ==
    [kind : {"codec", "config", "media"}, seq : Int, grp : Int, data : SUBSET Int]

TypeOK ==
    /\ sent \in Seq(SentPackets)
    /\ delivered \in Seq(DeliveredPackets)
    /\ expected \in 0 .. Len(sent)
    /\ lost \in Nat

(***************************************************************************)
(* The client gets the codec packet first and then packets in the order    *)
(* they were sent, none of them twice.                                     *)
(***************************************************************************)
InOrder ==
    \A i, j \in 1 .. Len(delivered) :
        i < j => delivered[i].seq < delivered[j].seq

(***************************************************************************)
(* A media packet comes directly behind its group's config packet or       *)
(* another media packet of that group: the decoder never gets a packet     *)
(* that refers to SPS/PPS it does not have, or has replaced.               *)
(***************************************************************************)
GroupsContiguous ==
    \A i \in 1 .. Len(delivered) :
        delivered[i].kind = "media" =>
            /\ i > 1
            /\ delivered[i - 1].kind \in {"config", "media"}
            /\ delivered[i - 1].grp = delivered[i].grp

(***************************************************************************)
(* Each packet below the expected one was either delivered or counted as   *)
(* lost, once (delivered also holds the codec packet).                     *)
(***************************************************************************)
LossAccounted ==
    /\ delivered = <<>> => expected = 0 /\ lost = 0
    /\ delivered # <<>> => (Len(delivered) - 1) + lost = expected

(***************************************************************************)
(* What is delivered is what was sent under that number.                   *)
(***************************************************************************)
Intact ==
    \A i \in 1 .. Len(delivered) : delivered[i].data = {delivered[i].seq}

Safe == InOrder /\ GroupsContiguous /\ LossAccounted /\ Intact

(***************************************************************************)
(* Safe is inductive together with where the last delivered packet stands: *)
(* just below the expected one, or the codec packet before any other.      *)
(***************************************************************************)
Inv ==
    /\ TypeOK
    /\ Safe
    /\ \A i \in 1 .. Len(delivered) : delivered[i].seq < expected
    /\ \A i \in 1 .. Len(delivered) :
          delivered[i].kind = "codec" <=> delivered[i].grp = -1
=============================================================================
