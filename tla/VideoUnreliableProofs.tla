------------------------ MODULE VideoUnreliableProofs ------------------------
(***************************************************************************)
(* The unreliable video protocol implements OrderedDelivery, for every     *)
(* number of packets and segments, every buffering time, every channel     *)
(* capacity and every (even) range of sequence numbers.                    *)
(***************************************************************************)
EXTENDS VideoUnreliable, TLAPS

-----------------------------------------------------------------------------
(***************************************************************************)
(* `% range' leaves a number below range, and what `& HI_MASK' keeps is a  *)
(* multiple of range.                                                      *)
(***************************************************************************)
LEMMA ModFacts ==
    ASSUME NEW n \in Nat, NEW r \in Nat, r > 0
    PROVE  /\ n % r \in Nat
           /\ n % r < r
           /\ \E q \in Nat : n = q * r + (n % r)
<1>1. n % r \in Nat /\ n % r < r
  OBVIOUS
<1>2. n = (n \div r) * r + (n % r)
  OBVIOUS
<1>3. n \div r \in Nat
  OBVIOUS
<1> QED BY ONLY <1>1, <1>2, <1>3, Zenon

(***************************************************************************)
(* Numbers less than a range apart lie in the same or in adjacent laps of  *)
(* the circular space.                                                     *)
(***************************************************************************)
LEMMA AdjacentLaps ==
    ASSUME NEW p \in Nat, NEW q \in Nat, NEW r \in Nat, r > 0,
           NEW a \in Nat, NEW b \in Nat, a < r, b < r,
           p * r + a < q * r + b + r,
           q * r + b < p * r + a + r
    PROVE  p * r \in {q * r - r, q * r, q * r + r}
<1>1. p \in {q - 1, q, q + 1}
  <2>1. CASE p >= q + 2
    <3>1. PICK k \in Nat : p = q + 2 + k
      BY <2>1
    <3>2. p * r = q * r + 2 * r + k * r /\ k * r >= 0
      BY <3>1
    <3> QED BY <3>2, SMT
  <2>2. CASE q >= p + 2
    <3>1. PICK k \in Nat : q = p + 2 + k
      BY <2>2
    <3>2. q * r = p * r + 2 * r + k * r /\ k * r >= 0
      BY <3>1
    <3> QED BY <3>2, SMT
  <2> QED BY <2>1, <2>2
<1>2. (q - 1) * r = q * r - r /\ (q + 1) * r = q * r + r
  OBVIOUS
<1> QED BY <1>1, <1>2

(***************************************************************************)
(* Sequencer::seq returns the number that was sent, provided that number   *)
(* lies in the window around the newest one seen.                          *)
(***************************************************************************)
THEOREM UnrollInWindow ==
    ASSUME NEW range \in Nat, range > 0, range % 2 = 0,
           NEW newest \in Nat, NEW seq \in Nat,
           InWindow(newest, seq, range)
    PROVE  Unroll(newest, Raw(seq, range), range) = seq
<1> DEFINE half == range \div 2
           hi == newest - (newest % range)
           v == seq % range
<1>1. half \in Nat /\ half + half = range
  OBVIOUS
<1>2. newest < seq + half /\ seq <= newest + half
  BY DEF InWindow, HalfRange
<1>3. PICK q \in Nat : newest = q * range + (newest % range)
  BY ModFacts
<1>4. PICK p \in Nat : seq = p * range + v
  BY ModFacts
<1>5. /\ newest % range \in Nat /\ newest % range < range
      /\ v \in Nat /\ v < range
  BY ModFacts
<1>6. p * range \in {q * range - range, q * range, q * range + range}
  <2> DEFINE w == newest % range
  <2>1. /\ p * range \in Nat
        /\ q * range \in Nat
    OBVIOUS
  <2>2. /\ p * range + v < q * range + w + range
        /\ q * range + w < p * range + v + range
    <3> HIDE DEF w, v, half
    <3> QED BY <1>1, <1>2, <1>3, <1>4, <1>5, <2>1 DEF w
  <2>3. w \in Nat /\ v \in Nat /\ w < range /\ v < range
    BY <1>5
  <2> HIDE DEF w, v
  <2> QED BY <2>2, <2>3, AdjacentLaps
<1>7. hi = q * range /\ hi \in Nat
  BY <1>3, <1>5
<1>8. hi + v \in {seq, seq - range, seq + range} /\ hi + v \in Nat
  <2> HIDE DEF hi, v
  <2>1. p * range \in Int
    OBVIOUS
  <2> QED BY <1>4, <1>5, <1>6, <1>7, <2>1 DEF v
<1>9. Unroll(newest, Raw(seq, range), range)
        = IF newest >= (hi + v) + half
          THEN (hi + v) + range
          ELSE IF hi + v > newest + half /\ hi + v >= range
               THEN (hi + v) - range
               ELSE hi + v
  BY DEF Unroll, Raw, HalfRange
<1> HIDE DEF hi, v, half
<1> QED BY <1>1, <1>2, <1>8, <1>9

-----------------------------------------------------------------------------
(***************************************************************************)
(* No packet was sent in a later group than the sender's current one.      *)
(***************************************************************************)
LEMMA GroupMax ==
    ASSUME TypeOK, SenderInv
    PROVE  /\ Len(sent) \in Nat /\ group_seq \in Nat
           /\ \A i \in 1 .. Len(sent) : sent[i].grp \in Nat
           /\ \A i \in 1 .. Len(sent) : sent[i].grp <= group_seq
<1>1. /\ Len(sent) \in Nat /\ group_seq \in Nat
      /\ \A i \in 1 .. Len(sent) : sent[i].grp \in Nat
  <2>1. \A i \in 1 .. Len(sent) : sent[i] \in PacketsSent
    BY DEF TypeOK
  <2> QED BY <2>1 DEF TypeOK, PacketsSent
<1>2. \A i, j \in 1 .. Len(sent) : i < j => sent[i].grp <= sent[j].grp
  BY Zenon DEF SenderInv
<1>3. \A i \in 1 .. Len(sent) : sent[i].grp <= group_seq
  <2> TAKE i \in 1 .. Len(sent)
  <2>1. sent # <<>> /\ Len(sent) \in 1 .. Len(sent)
    BY ONLY <1>1 DEF TypeOK
  <2>2. group_seq = sent[Len(sent)].grp
    BY <2>1, Zenon DEF SenderInv, Abstract!LatestGroup
  <2>3. CASE i = Len(sent)
    BY <1>1, <2>2, <2>3
  <2>4. CASE i < Len(sent)
    BY ONLY <1>1, <1>2, <2>1, <2>2, <2>4, Zenon
  <2> QED BY <1>1, <2>3, <2>4
<1> QED BY <1>1, <1>3

(***************************************************************************)
(* Group numbers order packets: GroupOf never decreases.                   *)
(***************************************************************************)
LEMMA GroupMonotone ==
    ASSUME TypeOK, SenderInv,
           NEW a \in 0 .. Len(sent), NEW b \in 0 .. Len(sent),
           GroupOf(a) < GroupOf(b)
    PROVE  a < b
<1>1. /\ Len(sent) \in Nat /\ group_seq \in Nat
      /\ \A i \in 1 .. Len(sent) : sent[i].grp \in Nat
  BY GroupMax
<1>2. \A i, j \in 1 .. Len(sent) : i < j => sent[i].grp <= sent[j].grp
  BY Zenon DEF SenderInv
<1>3. \A i \in 1 .. Len(sent) : sent[i].grp <= group_seq
  BY GroupMax
<1>4. SUFFICES ASSUME b <= a PROVE FALSE
  BY <1>1
<1>5. CASE a < Len(sent)
  <2>1. /\ GroupOf(a) = sent[a + 1].grp /\ GroupOf(b) = sent[b + 1].grp
        /\ a + 1 \in 1 .. Len(sent) /\ b + 1 \in 1 .. Len(sent)
    BY ONLY <1>1, <1>4, <1>5 DEF GroupOf
  <2>2. CASE a = b
    BY <1>1, <2>1, <2>2
  <2>3. CASE b < a
    <3>1. sent[b + 1].grp <= sent[a + 1].grp
      BY <1>2, <2>1, <2>3
    <3> QED BY <1>1, <2>1, <3>1
  <2> QED BY <1>4, <2>2, <2>3
<1>6. CASE a = Len(sent)
  <2>1. GroupOf(a) = group_seq
    BY <1>1, <1>6 DEF GroupOf
  <2>2. CASE b < Len(sent)
    <3>1. GroupOf(b) = sent[b + 1].grp /\ b + 1 \in 1 .. Len(sent)
      BY <1>1, <2>2 DEF GroupOf
    <3> QED BY <1>1, <1>3, <2>1, <3>1
  <2>3. CASE b = Len(sent)
    BY <1>1, <1>6, <2>3, <2>1
  <2> QED BY <1>1, <2>2, <2>3
<1> QED BY <1>1, <1>5, <1>6

(***************************************************************************)
(* Packets of an earlier group have smaller numbers, and a config packet   *)
(* has a smaller number than the other packets of its group.               *)
(***************************************************************************)
LEMMA PendingOrder ==
    ASSUME TypeOK, SenderInv, DatagramInv,
           NEW c \in SUBSET ConfigPackets, NEW m \in SUBSET MediaPackets,
           NEW s \in SUBSET SegmentRecords, PendingInv(c, m, s)
    PROVE  /\ \A x \in c \cup m \cup s : \A y \in c \cup m \cup s :
                 x.grp < y.grp => x.seq < y.seq
           /\ \A x \in c : \A y \in m \cup s : x.grp = y.grp => x.seq < y.seq
<1>1. /\ Len(sent) \in Nat
      /\ \A i \in 1 .. Len(sent) : sent[i].grp \in Nat
  <2>1. \A i \in 1 .. Len(sent) : sent[i] \in PacketsSent
    BY DEF TypeOK
  <2> QED BY ONLY <2>1 DEF TypeOK, PacketsSent
<1>2. \A x \in c : /\ x.seq \in 0 .. Len(sent) /\ x.seq < Len(sent)
                   /\ x.grp = GroupOf(x.seq) /\ sent[x.seq + 1].kind = "config"
  <2> TAKE x \in c
  <2>1. x.seq \in Nat /\ x.seq < Len(sent)
    BY ZenonT(30) DEF PendingInv, ConfigOK, ConfigPackets
  <2>2. sent[x.seq + 1] = [kind |-> "config", grp |-> x.grp]
    BY Zenon DEF PendingInv, ConfigOK
  <2> QED BY <1>1, <2>1, <2>2 DEF GroupOf
<1>3. \A x \in m : /\ x.seq \in 0 .. Len(sent) /\ x.seq < Len(sent)
                   /\ x.grp = GroupOf(x.seq) /\ sent[x.seq + 1].kind = "media"
  <2> TAKE x \in m
  <2>1. x.seq \in Nat /\ x.seq < Len(sent)
    BY ZenonT(30) DEF PendingInv, MediaOK, MediaPackets
  <2>2. sent[x.seq + 1] = [kind |-> "media", grp |-> x.grp]
    BY Zenon DEF PendingInv, MediaOK
  <2> QED BY <1>1, <2>1, <2>2 DEF GroupOf
<1>4. \A x \in s : /\ x.seq \in 0 .. Len(sent)
                   /\ x.grp = GroupOf(x.seq)
                   /\ x.seq < Len(sent) => sent[x.seq + 1].kind = "media"
  <2> TAKE x \in s
  <2>1. x.seq \in Nat
    BY DEF SegmentRecords
  <2>2. PICK d \in datagrams : d.pkt = x.seq /\ d.grp = x.grp
    BY DEF PendingInv, SegmentOK
  <2>3. x.seq <= Len(sent)
    BY ZenonT(30), <2>1, <2>2 DEF DatagramInv, DatagramOK
  <2>4. CASE x.seq < Len(sent)
    <3>1. sent[x.seq + 1] = [kind |-> "media", grp |-> x.grp]
      BY <2>1, <2>2, <2>4 DEF DatagramInv, DatagramOK
    <3> QED BY <1>1, <2>1, <2>4, <3>1 DEF GroupOf
  <2>5. CASE x.seq = Len(sent)
    <3>1. x.grp = group_seq
      BY ZenonT(30), <2>1, <2>2, <2>5 DEF DatagramInv, DatagramOK
    <3> QED BY <1>1, <2>1, <2>5, <3>1 DEF GroupOf
  <2> QED BY <1>1, <2>1, <2>3, <2>4, <2>5
<1>5. ASSUME NEW x \in c \cup m \cup s, NEW y \in c \cup m \cup s, x.grp < y.grp
      PROVE  x.seq < y.seq
  <2>1. /\ x.seq \in 0 .. Len(sent) /\ y.seq \in 0 .. Len(sent)
        /\ GroupOf(x.seq) < GroupOf(y.seq)
    BY <1>2, <1>3, <1>4, <1>5, Zenon
  <2> QED BY <2>1, GroupMonotone
<1>6. ASSUME NEW x \in c, NEW y \in m \cup s, x.grp = y.grp
      PROVE  x.seq < y.seq
  <2>1. SUFFICES ASSUME y.seq <= x.seq PROVE FALSE
    BY <1>1, <1>2, <1>3, <1>4
  <2>2. /\ x.seq \in Nat /\ y.seq \in Nat /\ x.seq < Len(sent) /\ y.seq < Len(sent)
        /\ sent[x.seq + 1].kind = "config" /\ sent[y.seq + 1].kind = "media"
    BY <1>1, <1>2, <1>3, <1>4, <2>1
  <2>3. y.seq < x.seq
    BY ONLY <2>1, <2>2
  <2>4. sent[y.seq + 1].grp < sent[x.seq + 1].grp
    BY SMTT(60), <1>1, <2>2, <2>3 DEF SenderInv
  <2>5. GroupOf(x.seq) = sent[x.seq + 1].grp /\ GroupOf(y.seq) = sent[y.seq + 1].grp
    BY <2>2, Zenon DEF GroupOf
  <2> QED BY <1>1, <1>2, <1>3, <1>4, <1>6, <2>2, <2>4, <2>5
<1> QED BY <1>5, <1>6

-----------------------------------------------------------------------------
(***************************************************************************)
(* What take_next_packet() leaves behind when it is run on pending groups  *)
(* c, m and s: well-formed pending groups, in no group that was not there, *)
(* and at most one more packet, which OrderedDelivery may deliver.         *)
(***************************************************************************)
Taken(c) ==
    /\ configs' \in SUBSET ConfigPackets
    /\ media' \in SUBSET MediaPackets
    /\ segments' \in SUBSET SegmentRecords
    /\ PendingInv(configs, media, segments)'
    /\ next_kypacket_seq' \in Nat
    /\ deadline' \in NoDeadline .. MaxBuffering
    /\ dropped_packets' \in Nat
    /\ forwarded' \in Seq(ForwardedPackets)
    /\ Len(forwarded) <= Len(forwarded')
    /\ \A x \in configs' : \E y \in c : x.grp = y.grp
    /\ forwarded = <<>> => forwarded' = <<>> /\ configs' = {}
    /\ \/ UNCHANGED <<forwarded, next_kypacket_seq, dropped_packets>>
       \/ \E n \in 0 .. (Len(sent) - 1) : Abstract!Deliver(n)

(***************************************************************************)
(* Waiting changes only the deadline.                                      *)
(***************************************************************************)
LEMMA WaitTaken ==
    ASSUME TypeOK,
           NEW c \in SUBSET ConfigPackets, NEW m \in SUBSET MediaPackets,
           NEW s \in SUBSET SegmentRecords, PendingInv(c, m, s),
           forwarded = <<>> => c = {},
           UNCHANGED <<sent, group_seq, datagrams>>,
           Wait(c, m, s),
           deadline' \in NoDeadline .. MaxBuffering
    PROVE  Taken(c)
<1>1. PendingInv(configs, media, segments)'
  BY DEF Wait, PendingInv, ConfigOK, MediaOK, SegmentOK
<1> QED BY <1>1 DEF Taken, Wait, TypeOK

(***************************************************************************)
(* Forwarding a packet appends it and moves next_kypacket_seq past it.     *)
(***************************************************************************)
LEMMA ForwardFacts ==
    ASSUME TypeOK, NEW p \in ForwardedPackets,
           p.seq \in Nat, p.seq >= next_kypacket_seq, Forward(p)
    PROVE  /\ next_kypacket_seq' = p.seq + 1 /\ next_kypacket_seq' \in Nat
           /\ deadline' \in NoDeadline .. MaxBuffering
           /\ dropped_packets' \in Nat
           /\ dropped_packets' = dropped_packets + (p.seq - next_kypacket_seq)
           /\ forwarded' \in Seq(ForwardedPackets)
           /\ forwarded' = Append(forwarded, p)
           /\ forwarded' # <<>>
           /\ Len(forwarded') = Len(forwarded) + 1
           /\ forwarded'[Len(forwarded')] = p
<1>1. forwarded \in Seq(ForwardedPackets) /\ forwarded' = Append(forwarded, p)
  BY DEF Forward, TypeOK
<1>2. /\ forwarded' \in Seq(ForwardedPackets)
      /\ Len(forwarded') = Len(forwarded) + 1
      /\ forwarded'[Len(forwarded')] = p
      /\ forwarded' # <<>>
  BY <1>1
<1>3. /\ next_kypacket_seq \in Nat /\ dropped_packets \in Nat
      /\ next_kypacket_seq' = p.seq + 1
      /\ dropped_packets' = dropped_packets + (p.seq - next_kypacket_seq)
  BY DEF Forward, TypeOK
<1>4. deadline' \in NoDeadline .. MaxBuffering
  BY ConstantsAssumption DEF Forward, NoDeadline
<1>5. next_kypacket_seq' \in Nat
  BY <1>3
<1>6. dropped_packets' \in Nat
  BY <1>3
<1> QED BY <1>1, <1>2, <1>3, <1>4, <1>5, <1>6, Zenon

(***************************************************************************)
(* Forwarding the config packet of the deciding group.                     *)
(***************************************************************************)
LEMMA TakeConfigTaken ==
    ASSUME TypeOK, SenderInv, DatagramInv,
           NEW c \in SUBSET ConfigPackets, NEW m \in SUBSET MediaPackets,
           NEW s \in SUBSET SegmentRecords, PendingInv(c, m, s),
           forwarded = <<>> => c = {},
           UNCHANGED <<sent, group_seq, datagrams>>,
           NEW config \in c, TakeConfig(config, c, m, s)
    PROVE  Taken(c)
<1> DEFINE p == [kind |-> "config", seq |-> config.seq, grp |-> config.grp,
                 data |-> {config.pkt}]
           q == config.seq
           g == config.grp
           done == [config EXCEPT !.state = "sent"]
<1>1. /\ \A x \in c \cup m \cup s : \A y \in c \cup m \cup s :
            x.grp < y.grp => x.seq < y.seq
      /\ \A x \in c : \A y \in m \cup s : x.grp = y.grp => x.seq < y.seq
  BY ZenonT(30), PendingOrder
<1>2. /\ config \in ConfigPackets /\ config.state = "ready"
      /\ q \in Nat /\ g \in Nat /\ config.pkt = q /\ q < Len(sent)
      /\ q >= next_kypacket_seq
      /\ sent[q + 1] = [kind |-> "config", grp |-> g]
  BY Zenon DEF TakeConfig, PendingInv, ConfigOK, ConfigPackets
<1>3. /\ p \in ForwardedPackets /\ p.seq = q /\ p.grp = g /\ p.data = {q}
      /\ p.kind = "config"
  BY <1>2 DEF ForwardedPackets
<1>4. /\ done \in ConfigPackets /\ done.grp = g /\ done.seq = q
      /\ done.pkt = q /\ done.state = "sent"
  BY <1>2, Zenon DEF ConfigPackets
<1> HIDE DEF p, done
<1>5. /\ configs' = (FromGroup(c, g) \ {config}) \cup {done}
      /\ media' = FromGroup(m, g)
      /\ segments' = FromGroup(s, g)
      /\ Forward(p)
  BY DEF TakeConfig, p, done
<1>6. /\ next_kypacket_seq' = q + 1 /\ next_kypacket_seq' \in Nat
      /\ deadline' \in NoDeadline .. MaxBuffering
      /\ dropped_packets' \in Nat
      /\ dropped_packets' = dropped_packets + (q - next_kypacket_seq)
      /\ forwarded' \in Seq(ForwardedPackets)
      /\ forwarded' = Append(forwarded, p)
      /\ forwarded' # <<>>
      /\ Len(forwarded') = Len(forwarded) + 1
      /\ forwarded'[Len(forwarded')].grp = g
  BY ZenonT(30), <1>2, <1>3, <1>5, ForwardFacts
<1>7. /\ configs' \in SUBSET ConfigPackets
      /\ media' \in SUBSET MediaPackets
      /\ segments' \in SUBSET SegmentRecords
  BY <1>4, <1>5, Zenon DEF FromGroup
<1>8. forwarded # <<>>
  OBVIOUS
<1>9. Abstract!Deliver(q) /\ q \in 0 .. (Len(sent) - 1)
  <2>1. p = [kind |-> sent[q + 1].kind, seq |-> q, grp |-> sent[q + 1].grp,
             data |-> {q}]
    BY ONLY <1>2 DEF p
  <2> QED BY SMTT(60), <1>2, <1>6, <1>8, <2>1 DEF Abstract!Deliver, TypeOK
<1>10. \A x \in configs' : \E y \in c : x.grp = y.grp
  BY ONLY <1>4, <1>5, Zenon DEF FromGroup
<1>11. PendingInv(configs, media, segments)'
  <2>1. \A y \in configs' : y = done \/ (y \in c /\ y.grp \in Nat /\ y.grp > g)
    <3> TAKE y \in configs'
    <3>1. y = done \/ (y \in c /\ y.grp >= g /\ y # config)
      BY <1>5 DEF FromGroup
    <3>2. y \in c => y.grp \in Nat
      BY DEF ConfigPackets
    <3>3. y \in c /\ y.grp = g => y = config
      BY DEF PendingInv
    <3> QED BY <1>2, <3>1, <3>2, <3>3
  <2>2. ASSUME NEW x \in configs' PROVE ConfigOK(x)'
    <3>1. CASE x = done
      <4>1. x.pkt = q /\ x.seq = q /\ x.grp = g /\ x.state = "sent"
        BY <1>4, <3>1
      <4>2. x.seq < next_kypacket_seq'
        BY <1>2, <1>6, <4>1
      <4> QED BY ZenonT(30), <1>2, <1>6, <4>1, <4>2 DEF ConfigOK
    <3>2. CASE x \in c /\ x.grp \in Nat /\ x.grp > g
      <4>1. x.seq \in Nat /\ q < x.seq /\ x.state \in {"ready", "sent"}
        BY ONLY <1>1, <1>2, <3>2, Zenon DEF ConfigPackets
      <4>2. ConfigOK(x)
        BY <3>2 DEF PendingInv
      <4>3. x.state = "ready"
        BY SMTT(60), <1>2, <4>1, <4>2 DEF ConfigOK, TypeOK
      <4> QED BY SMTT(60), <1>2, <1>6, <4>1, <4>2, <4>3 DEF ConfigOK
    <3> QED BY <2>1, <3>1, <3>2
  <2>3. ASSUME NEW x \in media' PROVE MediaOK(x)'
    <3>1. x \in m /\ x.grp \in Nat /\ x.grp >= g /\ x.seq \in Nat
      BY ONLY <1>5, Zenon DEF FromGroup, MediaPackets
    <3>2. q < x.seq
      BY <1>1, <1>2, <3>1
    <3>3. MediaOK(x)
      BY <3>1 DEF PendingInv
    <3> QED BY SMTT(60), <1>2, <1>6, <3>1, <3>2, <3>3 DEF MediaOK
  <2>4. ASSUME NEW x \in segments' PROVE SegmentOK(x)'
    <3>1. x \in s /\ x.grp \in Nat /\ x.grp >= g /\ x.seq \in Nat
      BY ONLY <1>5, Zenon DEF FromGroup, SegmentRecords
    <3>2. q < x.seq
      BY <1>1, <1>2, <3>1
    <3>3. SegmentOK(x)
      BY <3>1 DEF PendingInv
    <3> QED BY SMTT(60), <1>2, <1>6, <3>1, <3>2, <3>3 DEF SegmentOK
  <2>5. \A x, y \in configs' : x.grp = y.grp => x = y
    <3> SUFFICES ASSUME NEW x \in configs', NEW y \in configs', x.grp = y.grp
                 PROVE  x = y
      OBVIOUS
    <3>1. x = done <=> y = done
      BY <1>2, <1>4, <2>1
    <3> QED BY <2>1, <3>1 DEF PendingInv
  <2>6. \A x, y \in media' : x.seq = y.seq => x = y
    BY <1>5 DEF FromGroup, PendingInv
  <2>7. \A x \in segments' : \A y \in media' : x.seq # y.seq
    BY <1>5 DEF FromGroup, PendingInv
  <2> QED BY ZenonT(30), <2>2, <2>3, <2>4, <2>5, <2>6, <2>7 DEF PendingInv
<1>12. Len(forwarded) <= Len(forwarded')
  BY ONLY <1>6 DEF TypeOK
<1> QED BY ZenonT(30), <1>6, <1>7, <1>8, <1>9, <1>10, <1>11, <1>12 DEF Taken

(***************************************************************************)
(* Forwarding the first media packet of the group whose config packet was  *)
(* forwarded last.                                                         *)
(***************************************************************************)
LEMMA TakeMediaTaken ==
    ASSUME TypeOK, SenderInv, DatagramInv,
           NEW c \in SUBSET ConfigPackets, NEW m \in SUBSET MediaPackets,
           NEW s \in SUBSET SegmentRecords, PendingInv(c, m, s),
           forwarded = <<>> => c = {},
           UNCHANGED <<sent, group_seq, datagrams>>,
           NEW config \in c, TakeMedia(config, c, m, s)
    PROVE  Taken(c)
<1> DEFINE g == config.grp
<1>1. /\ \A x \in c \cup m \cup s : \A y \in c \cup m \cup s :
            x.grp < y.grp => x.seq < y.seq
      /\ \A x \in c : \A y \in m \cup s : x.grp = y.grp => x.seq < y.seq
  BY ZenonT(30), PendingOrder
<1>2. PICK p \in InGroup(m, g) :
          /\ First(p, InGroup(m, g))
          /\ configs' = FromGroup(c, g)
          /\ media' = FromGroup(m, g) \ {p}
          /\ segments' = {x \in FromGroup(s, g) : x.grp = g => x.seq >= p.seq}
          /\ Forward([kind |-> "media", seq |-> p.seq, grp |-> p.grp,
                      data |-> p.data])
  BY Zenon DEF TakeMedia
<1> DEFINE q == p.seq
           f == [kind |-> "media", seq |-> p.seq, grp |-> p.grp, data |-> p.data]
<1>3. p \in m /\ p.grp = g /\ p \in MediaPackets /\ MediaOK(p)
  BY <1>2, Zenon DEF InGroup, PendingInv
<1>4. /\ q \in Nat /\ g \in Nat /\ q < Len(sent) /\ q >= next_kypacket_seq
      /\ p.data = {q} /\ sent[q + 1] = [kind |-> "media", grp |-> g]
  BY ONLY <1>3, Zenon DEF MediaOK, MediaPackets
<1>5. /\ ConfigOK(config) /\ config.state = "sent" /\ config \in ConfigPackets
      /\ forwarded[Len(forwarded)].grp = g
  BY ZenonT(30) DEF TakeMedia, PendingInv, ConfigOK
<1>6. /\ f \in ForwardedPackets /\ f.seq = q /\ f.grp = g
  BY SMTT(60), <1>3, <1>4 DEF ForwardedPackets
<1>7. f = [kind |-> sent[q + 1].kind, seq |-> q, grp |-> sent[q + 1].grp,
           data |-> {q}]
  BY <1>3, <1>4
<1> HIDE DEF f
<1>8. Forward(f)
  BY <1>2, Zenon DEF f
<1>9. /\ next_kypacket_seq' = q + 1 /\ next_kypacket_seq' \in Nat
      /\ deadline' \in NoDeadline .. MaxBuffering
      /\ dropped_packets' \in Nat
      /\ dropped_packets' = dropped_packets + (q - next_kypacket_seq)
      /\ forwarded' \in Seq(ForwardedPackets)
      /\ forwarded' = Append(forwarded, f)
      /\ forwarded' # <<>>
      /\ Len(forwarded') = Len(forwarded) + 1
      /\ forwarded'[Len(forwarded')].grp = g
  BY ZenonT(30), <1>4, <1>6, <1>8, ForwardFacts
<1>10. /\ configs' \in SUBSET ConfigPackets
       /\ media' \in SUBSET MediaPackets
       /\ segments' \in SUBSET SegmentRecords
  BY <1>2, Zenon DEF FromGroup
<1>11. forwarded # <<>>
  OBVIOUS
<1>12. Abstract!Deliver(q) /\ q \in 0 .. (Len(sent) - 1)
  <2>1. forwarded[Len(forwarded)].grp = sent[q + 1].grp
    BY SMTT(60), <1>4, <1>5
  <2> QED BY SMTT(60), <1>4, <1>7, <1>9, <1>11, <2>1 DEF Abstract!Deliver, TypeOK
<1>13. \A x \in configs' : \E y \in c : x.grp = y.grp
  BY <1>2, Zenon DEF FromGroup
<1>14. PendingInv(configs, media, segments)'
  <2>1. ASSUME NEW x \in configs' PROVE ConfigOK(x)'
    <3>1. x \in c /\ x.grp \in Nat /\ x.grp >= g /\ x.seq \in Nat
      BY <1>2, Zenon DEF FromGroup, ConfigPackets
    <3>2. ConfigOK(x) /\ x.state \in {"ready", "sent"}
      BY <3>1, Zenon DEF PendingInv, ConfigPackets
    <3>3. CASE x.grp = g
      <4>1. x = config
        BY <3>1, <3>3 DEF PendingInv
      <4>2. x.seq < next_kypacket_seq' /\ x.state = "sent"
        <5>1. x.state = "sent" /\ x.seq < next_kypacket_seq
          BY ZenonT(30), <1>5, <4>1 DEF ConfigOK
        <5>2. next_kypacket_seq \in Nat /\ next_kypacket_seq < next_kypacket_seq'
          BY SMTT(60), <1>4, <1>9 DEF TypeOK
        <5> QED BY <1>9, <3>1, <5>1, <5>2
      <4> QED BY <1>9, <3>2, <3>3, <4>2, Zenon DEF ConfigOK
    <3>4. CASE x.grp > g
      <4>1. q < x.seq
        BY ZenonT(30), <1>1, <1>3, <1>4, <3>1, <3>4
      <4>2. x.state = "ready"
        BY SMTT(60), <1>4, <3>1, <3>2, <4>1 DEF ConfigOK, TypeOK
      <4> QED BY SMTT(60), <1>4, <1>9, <3>1, <3>2, <4>1, <4>2 DEF ConfigOK
    <3> QED BY <1>4, <3>1, <3>3, <3>4
  <2>2. ASSUME NEW x \in media' PROVE MediaOK(x)'
    <3>1. /\ x \in m /\ x.grp \in Nat /\ x.grp >= g /\ x.seq \in Nat /\ x # p
      BY ONLY <1>2, Zenon DEF FromGroup, MediaPackets
    <3>2. q < x.seq
      <4>1. CASE x.grp = g
        <5>1. q <= x.seq
          BY ONLY <1>2, <3>1, <4>1, Zenon DEF First, InGroup
        <5>2. x.seq # q
          BY <1>3, <3>1 DEF PendingInv
        <5> QED BY ONLY <1>4, <3>1, <5>1, <5>2
      <4>2. CASE x.grp > g
        BY <1>1, <1>3, <1>4, <3>1, <4>2, Zenon
      <4> QED BY SMTT(60), <1>4, <3>1, <4>1, <4>2
    <3>3. MediaOK(x)
      BY <3>1 DEF PendingInv
    <3> QED BY SMTT(60), <1>4, <1>9, <3>1, <3>2, <3>3 DEF MediaOK
  <2>3. ASSUME NEW x \in segments' PROVE SegmentOK(x)'
    <3>1. /\ x \in s /\ x.grp \in Nat /\ x.grp >= g /\ x.seq \in Nat
          /\ x.grp = g => x.seq >= q
      BY <1>2, Zenon DEF FromGroup, SegmentRecords
    <3>2. q < x.seq
      <4>1. CASE x.grp = g
        <5>1. x.seq # q
          BY <1>3, <3>1 DEF PendingInv
        <5> QED BY ONLY <1>4, <3>1, <4>1, <5>1
      <4>2. CASE x.grp > g
        BY ONLY <1>1, <1>3, <1>4, <3>1, <4>2, Zenon
      <4> QED BY SMTT(60), <1>4, <3>1, <4>1, <4>2
    <3>3. SegmentOK(x)
      BY <3>1 DEF PendingInv
    <3> QED BY SMTT(60), <1>4, <1>9, <3>1, <3>2, <3>3 DEF SegmentOK
  <2>4. \A x, y \in configs' : x.grp = y.grp => x = y
    BY <1>2, Zenon DEF FromGroup, PendingInv
  <2>5. \A x, y \in media' : x.seq = y.seq => x = y
    BY <1>2, Zenon DEF FromGroup, PendingInv
  <2>6. \A x \in segments' : \A y \in media' : x.seq # y.seq
    BY <1>2, Zenon DEF FromGroup, PendingInv
  <2> QED BY ZenonT(30), <2>1, <2>2, <2>3, <2>4, <2>5, <2>6 DEF PendingInv
<1>15. Len(forwarded) <= Len(forwarded')
  BY ONLY <1>9 DEF TypeOK
<1> QED BY ZenonT(30), <1>9, <1>10, <1>11, <1>12, <1>13, <1>14, <1>15 DEF Taken

(***************************************************************************)
(* One run of take_next_packet(), whichever way it goes.                   *)
(***************************************************************************)
LEMMA TakeNextTaken ==
    ASSUME TypeOK, SenderInv, DatagramInv,
           NEW c \in SUBSET ConfigPackets, NEW m \in SUBSET MediaPackets,
           NEW s \in SUBSET SegmentRecords, PendingInv(c, m, s),
           forwarded = <<>> => c = {},
           UNCHANGED <<sent, group_seq, datagrams>>,
           TakeNextPacket(c, m, s)
    PROVE  Taken(c)
<1>1. CASE deadline' = NoDeadline /\ Wait(c, m, s)
  <2>1. deadline' \in NoDeadline .. MaxBuffering
    BY <1>1, ConstantsAssumption DEF NoDeadline
  <2> QED BY <1>1, <2>1, WaitTaken
<1>2. CASE WaitForDeadline(c, m, s)
  <2>1. PICK oldest \in m : deadline' = MaxBuffering - oldest.age
    BY <1>2 DEF WaitForDeadline
  <2>2. oldest.age \in 0 .. MaxBuffering
    BY DEF MediaPackets
  <2>3. deadline' \in NoDeadline .. MaxBuffering
    BY ONLY <2>1, <2>2, ConstantsAssumption DEF NoDeadline
  <2> QED BY <1>2, <2>3, WaitTaken, Zenon DEF WaitForDeadline
<1>3. CASE \E config \in c : TakeConfig(config, c, m, s)
  BY <1>3, TakeConfigTaken
<1>4. CASE \E config \in c : TakeMedia(config, c, m, s)
  BY <1>4, TakeMediaTaken
<1> QED BY <1>1, <1>2, <1>3, <1>4, Zenon DEF TakeNextPacket

(***************************************************************************)
(* Packets are given up only when a packet has been held long enough: one  *)
(* that is taken for any other reason is the expected one.                 *)
(***************************************************************************)
OnTime == dropped_packets' = dropped_packets \/ Expired(media)

(***************************************************************************)
(* A call of take_next_packet() that skips packets does so because a       *)
(* packet has been held for MAX_BUFFERING.                                 *)
(***************************************************************************)
LEMMA TakeNextOnTime ==
    ASSUME TypeOK, SenderInv, DatagramInv,
           NEW c \in SUBSET ConfigPackets, NEW m \in SUBSET MediaPackets,
           NEW s \in SUBSET SegmentRecords, PendingInv(c, m, s),
           Expired(m) => Expired(media),
           TakeNextPacket(c, m, s)
    PROVE  OnTime
<1> SUFFICES ASSUME ~ Expired(m) PROVE dropped_packets' = dropped_packets
  BY DEF OnTime
<1>1. next_kypacket_seq \in Nat /\ dropped_packets \in Nat
  BY DEF TypeOK
<1>2. CASE Wait(c, m, s)
  BY <1>2 DEF Wait
<1>3. ASSUME NEW config \in c, Ready(config, m), TakeConfig(config, c, m, s)
      PROVE  dropped_packets' = dropped_packets
  <2>1. /\ config.state = "ready" /\ config.seq >= next_kypacket_seq
        /\ config.seq \in Nat
        /\ dropped_packets' = dropped_packets + (config.seq - next_kypacket_seq)
    BY ZenonT(30), <1>3 DEF TakeConfig, Forward, PendingInv, ConfigOK, ConfigPackets
  <2>2. ASSUME NEW p \in InGroup(m, config.grp), p.seq = next_kypacket_seq
        PROVE  FALSE
    <3>1. p \in m /\ p.grp = config.grp /\ p.seq \in Nat
      BY DEF InGroup, MediaPackets
    <3>2. config.seq < p.seq
      BY ZenonT(30), <3>1, PendingOrder
    <3> QED BY <1>1, <2>1, <2>2, <3>1, <3>2
  <2>3. config.seq = next_kypacket_seq
    BY ZenonT(30), <1>3, <2>2 DEF Ready
  <2> QED BY <1>1, <2>1, <2>3
<1>4. ASSUME NEW config \in c, Ready(config, m), TakeMedia(config, c, m, s)
      PROVE  dropped_packets' = dropped_packets
  <2>1. PICK p \in InGroup(m, config.grp) :
           /\ First(p, InGroup(m, config.grp))
           /\ Forward([kind |-> "media", seq |-> p.seq, grp |-> p.grp,
                       data |-> p.data])
    BY ZenonT(30), <1>4 DEF TakeMedia
  <2>2. dropped_packets' = dropped_packets + (p.seq - next_kypacket_seq)
    BY <2>1, Zenon DEF Forward
  <2>3. config.state = "sent"
    BY ZenonT(30), <1>4 DEF TakeMedia
  <2>4. PICK q \in InGroup(m, config.grp) :
           First(q, InGroup(m, config.grp)) /\ q.seq = next_kypacket_seq
    BY ZenonT(30), <1>4, <2>3 DEF Ready
  <2>5. p.seq \in Nat /\ p.seq <= q.seq /\ q.seq <= p.seq
    BY ONLY <2>1, <2>4, Zenon DEF First, InGroup, MediaPackets
  <2>6. p.seq = next_kypacket_seq
    BY <1>1, <2>4, <2>5
  <2> QED BY <1>1, <2>2, <2>6
<1> QED BY <1>2, <1>3, <1>4, Zenon DEF TakeNextPacket, WaitForDeadline

-----------------------------------------------------------------------------
(***************************************************************************)
(* What a step must do: preserve the invariant, be a step, or a stutter,   *)
(* of OrderedDelivery, and give up no packet early.                        *)
(***************************************************************************)
StepOK == Inv' /\ [Abstract!Next]_(Abstract!vars) /\ OnTime

(***************************************************************************)
(* An event that ends in take_next_packet() on pending groups c (and some  *)
(* m and s) and that may have consumed a config packet from the stream.    *)
(***************************************************************************)
LEMMA TakenStepOK ==
    ASSUME Inv, NEW c, Taken(c), OnTime,
           UNCHANGED <<senderVars, datagrams, process, received>>,
           kypacket_newest' \in Nat, group_newest' \in Nat,
           \/ stream' = stream
           \/ /\ stream # <<>> /\ stream[1].kind = "config"
              /\ stream' = Tail(stream),
           \A i \in 1 .. Len(stream') : \A x \in c : x.grp < stream'[i].grp
    PROVE  StepOK
<1> USE DEF Inv
<1>1. /\ stream \in Seq(StreamMessages) /\ stream' \in Seq(StreamMessages)
      /\ Len(stream) \in Nat /\ Len(stream') \in Nat
  <2>1. stream \in Seq(StreamMessages)
    BY Zenon DEF TypeOK
  <2>2. stream # <<>> => Tail(stream) \in Seq(StreamMessages)
    BY ONLY <2>1
  <2>3. stream' \in Seq(StreamMessages)
    <3>1. CASE stream' = stream
      BY ONLY <2>1, <3>1
    <3>2. CASE stream # <<>> /\ stream' = Tail(stream)
      BY ONLY <2>2, <3>2
    <3> QED BY <3>1, <3>2, Zenon
  <2> QED BY ONLY <2>1, <2>3
<1>2. PICK k \in {0, 1} :
         /\ Len(stream') = Len(stream) - k
         /\ \A i \in 1 .. Len(stream') : i + k \in 1 .. Len(stream)
                                         /\ stream'[i] = stream[i + k]
         /\ k = 1 => stream # <<>> /\ stream[1].kind = "config"
         /\ k = 0 => stream' = stream
  <2>1. CASE stream' = stream
    BY ONLY <1>1, <2>1
  <2>2. CASE /\ stream # <<>> /\ stream[1].kind = "config"
             /\ stream' = Tail(stream)
    BY ONLY <1>1, <2>2
  <2> QED BY <2>1, <2>2, Zenon
<1>3. TypeOK'
  <2>1. received \in 0 .. Len(forwarded) /\ Len(forwarded) <= Len(forwarded')
        /\ forwarded \in Seq(ForwardedPackets)
        /\ forwarded' \in Seq(ForwardedPackets)
    BY ZenonT(30) DEF TypeOK, Taken
  <2>2. received' \in 0 .. Len(forwarded')
    BY <2>1
  <2> QED BY ZenonT(30), <1>1, <2>1, <2>2 DEF TypeOK, Taken, senderVars
<1>4. forwarded' = <<>> <=> forwarded = <<>>
  <2>1. /\ forwarded \in Seq(ForwardedPackets)
        /\ forwarded' \in Seq(ForwardedPackets)
        /\ Len(forwarded) <= Len(forwarded')
        /\ forwarded = <<>> => forwarded' = <<>>
    BY ZenonT(30) DEF TypeOK, Taken
  <2> QED BY ONLY <2>1
<1>5. SenderInv'
  <2>1. sender = "new" => stream' = <<>>
    BY <1>1, <1>2, Zenon DEF SenderInv
  <2> QED BY <1>4, <2>1 DEF SenderInv, senderVars, Abstract!LatestGroup
<1>6. StreamInv'
  <2>1. ASSUME NEW i \in 1 .. Len(stream')
        PROVE  StreamOK(i)'
    <3>1. i + k \in 1 .. Len(stream) /\ stream'[i] = stream[i + k]
      BY ONLY <1>2, Zenon
    <3>2. StreamOK(i + k)
      BY ZenonT(30), <3>1 DEF StreamInv
    <3>3. CASE stream[i + k].kind = "codec"
      <4>1. i + k = 1 /\ forwarded = <<>> /\ stream[i + k].grp = -1
        BY ZenonT(30), <3>2, <3>3 DEF StreamOK
      <4>2. i = 1
        BY ONLY <1>2, <4>1
      <4> QED BY ZenonT(30), <1>4, <3>1, <3>3, <4>1, <4>2 DEF StreamOK
    <3>4. CASE stream[i + k].kind # "codec"
      <4>1. sent' = sent
        BY ZenonT(30) DEF senderVars
      <4> QED BY ZenonT(30), <3>1, <3>2, <3>4, <4>1 DEF StreamOK
    <3> QED BY ZenonT(30), <3>3, <3>4
  <2>2. \A i, j \in 1 .. Len(stream') : i < j => stream'[i].grp < stream'[j].grp
    <3> SUFFICES ASSUME NEW i \in 1 .. Len(stream'), NEW j \in 1 .. Len(stream'),
                        i < j
                 PROVE  stream'[i].grp < stream'[j].grp
      BY Zenon
    <3>1. i + k < j + k
      BY <1>1
    <3> QED BY ZenonT(30), <1>2, <3>1 DEF StreamInv, StreamOK
  <2>3. ASSUME forwarded' = <<>>
        PROVE  /\ configs' = {}
               /\ stream' # <<>> => stream'[1].kind = "codec"
               /\ stream' = <<>> => sender' = "new"
    <3>1. forwarded = <<>> /\ configs' = {} /\ sender' = sender
      BY <1>4, <2>3, Zenon DEF Taken, senderVars
    <3>2. /\ stream # <<>> => stream[1].kind = "codec"
          /\ stream = <<>> => sender = "new"
      BY ZenonT(30), <3>1 DEF StreamInv, StreamOK
    <3>3. k = 0
      BY ONLY <1>2, <3>2, Zenon
    <3> QED BY <1>2, <3>1, <3>2, <3>3, Zenon
  <2> QED BY ZenonT(30), <2>1, <2>2, <2>3 DEF StreamInv
<1>7. DatagramInv'
  BY ZenonT(30) DEF DatagramInv, DatagramOK, senderVars
<1>8. StreamAhead'
  BY ZenonT(30) DEF StreamAhead, Taken
<1>9. PendingInv(configs, media, segments)' /\ NoPanic'
  BY Zenon DEF Taken, NoPanic
<1>10. [Abstract!Next]_(Abstract!vars)
  <2>1. sent' = sent
    BY Zenon DEF senderVars
  <2>2. CASE UNCHANGED <<forwarded, next_kypacket_seq, dropped_packets>>
    BY ONLY <2>1, <2>2 DEF Abstract!vars
  <2>3. CASE \E n \in 0 .. (Len(sent) - 1) : Abstract!Deliver(n)
    BY ONLY <2>3 DEF Abstract!Next
  <2> QED BY <2>2, <2>3, Zenon DEF Taken
<1> QED BY <1>3, <1>5, <1>6, <1>7, <1>8, <1>9, <1>10, Zenon DEF StepOK

(***************************************************************************)
(* A message within the window is unrolled to its own numbers.             *)
(***************************************************************************)
LEMMA UnrollsFacts ==
    ASSUME TypeOK, NEW msg, NEW seq, NEW grp, Unrolls(msg, seq, grp),
           msg.pkt \in Nat, msg.grp \in Nat,
           msg.raw_kypacket_seq = Raw(msg.pkt, SeqRange),
           msg.raw_group_seq = Raw(msg.grp, SeqRange)
    PROVE  /\ seq = msg.pkt /\ grp = msg.grp
           /\ kypacket_newest' \in Nat /\ group_newest' \in Nat
<1>1. /\ SeqRange \in Nat /\ SeqRange > 0 /\ SeqRange % 2 = 0
      /\ kypacket_newest \in Nat /\ group_newest \in Nat
  BY ConstantsAssumption DEF TypeOK
<1>2. InWindow(kypacket_newest, msg.pkt, SeqRange)
      /\ InWindow(group_newest, msg.grp, SeqRange)
  BY ZenonT(30) DEF Unrolls
<1>3. Unroll(kypacket_newest, Raw(msg.pkt, SeqRange), SeqRange) = msg.pkt
  BY ZenonT(30), <1>1, <1>2, UnrollInWindow
<1>4. Unroll(group_newest, Raw(msg.grp, SeqRange), SeqRange) = msg.grp
  BY <1>1, <1>2, UnrollInWindow
<1> QED BY ZenonT(30), <1>1, <1>3, <1>4 DEF Unrolls, Newest

(***************************************************************************)
(* A config packet comes off the stream.                                   *)
(***************************************************************************)
LEMMA RecvConfigStep == ASSUME Inv, RecvConfig PROVE StepOK
<1> DEFINE msg == stream[1]
           seq == Unroll(kypacket_newest, msg.raw_kypacket_seq, SeqRange)
           grp == Unroll(group_newest, msg.raw_group_seq, SeqRange)
           new == [grp |-> grp, state |-> "ready", seq |-> seq, pkt |-> msg.pkt]
<1> USE DEF Inv
<1>1. /\ stream \in Seq(StreamMessages) /\ stream # <<>>
      /\ msg.kind = "config" /\ stream' = Tail(stream)
      /\ UNCHANGED <<senderVars, datagrams, received>>
      /\ Unrolls(msg, seq, grp)
  BY ZenonT(30) DEF RecvConfig, TypeOK
<1>2. 1 \in 1 .. Len(stream) /\ Len(stream) \in Nat
  BY <1>1
<1>3. /\ msg.pkt \in 0 .. (Len(sent) - 1)
      /\ sent[msg.pkt + 1] = [kind |-> "config", grp |-> msg.grp]
      /\ msg.raw_kypacket_seq = Raw(msg.pkt, SeqRange)
      /\ msg.raw_group_seq = Raw(msg.grp, SeqRange)
  BY ZenonT(30), <1>1, <1>2 DEF StreamInv, StreamOK
<1>4. msg.grp \in Nat /\ msg.pkt \in Nat /\ msg.pkt < Len(sent)
  <2>1. Len(sent) \in Nat /\ msg.pkt \in Nat /\ msg.pkt < Len(sent)
    BY ONLY SMTT(60), <1>3 DEF TypeOK
  <2>2. sent[msg.pkt + 1] \in PacketsSent
    BY SMTT(60), <2>1 DEF TypeOK
  <2> QED BY SMTT(60), <1>3, <2>1, <2>2 DEF PacketsSent
<1>5. /\ seq = msg.pkt /\ grp = msg.grp
      /\ kypacket_newest' \in Nat /\ group_newest' \in Nat
  <2> HIDE DEF msg, seq, grp
  <2> QED BY ZenonT(30), <1>1, <1>3, <1>4, UnrollsFacts
<1>6. \A i \in 1 .. Len(stream') :
         /\ msg.grp < stream'[i].grp
         /\ \A x \in configs : x.grp < stream'[i].grp
  <2> TAKE i \in 1 .. Len(stream')
  <2>1. /\ i + 1 \in 1 .. Len(stream) /\ 1 < i + 1 /\ stream'[i] = stream[i + 1]
    BY <1>1, <1>2
  <2> QED BY <1>2, <2>1, Zenon DEF StreamInv, StreamOK, StreamAhead
<1>7. InGroup(configs, grp) = {}
  <2>1. \A x \in configs : x.grp < msg.grp /\ x.grp \in Nat
    BY <1>2 DEF StreamAhead, TypeOK, ConfigPackets
  <2> QED BY ONLY SMTT(60), <1>4, <1>5, <2>1 DEF InGroup
<1>8. forwarded # <<>>
  BY ZenonT(30), <1>1 DEF StreamInv, StreamOK
<1>9. UNCHANGED <<sent, group_seq, datagrams>>
  BY <1>1 DEF senderVars
<1>10. CASE seq >= next_kypacket_seq
  <2> DEFINE c == configs \cup {new}
  <2>1. TakeNextPacket(c, media, segments) /\ UNCHANGED process
    BY ZenonT(30), <1>7, <1>10 DEF RecvConfig, InsertStreamPacket
  <2>2. /\ new \in ConfigPackets /\ new.grp = msg.grp /\ new.seq = msg.pkt
        /\ new.pkt = msg.pkt /\ new.state = "ready"
    BY ZenonT(30), <1>4, <1>5 DEF ConfigPackets
  <2>3. ConfigOK(new)
    BY ZenonT(30), <1>3, <1>4, <1>5, <1>10, <2>2 DEF ConfigOK
  <2>4. c \in SUBSET ConfigPackets /\ media \in SUBSET MediaPackets
        /\ segments \in SUBSET SegmentRecords
    BY ZenonT(30), <2>2 DEF TypeOK
  <2>5. \A x \in configs : x.grp # new.grp
    BY ZenonT(30), <1>5, <1>7, <2>2 DEF InGroup
  <2> HIDE DEF new
  <2>6. PendingInv(c, media, segments)
    BY ZenonT(30), <2>3, <2>5 DEF PendingInv
  <2>7. \A i \in 1 .. Len(stream') : \A x \in c : x.grp < stream'[i].grp
    BY <1>6, <2>2, Zenon
  <2> HIDE DEF c
  <2>8. Taken(c) /\ OnTime
    BY <1>8, <1>9, <2>1, <2>4, <2>6, TakeNextTaken, TakeNextOnTime, Zenon
  <2> QED BY ZenonT(30), <1>1, <1>5, <2>1, <2>7, <2>8, TakenStepOK
<1>11. CASE ~ (seq >= next_kypacket_seq)
  <2>1. TakeNextPacket(configs, media, segments) /\ UNCHANGED process
    BY ZenonT(30), <1>11 DEF RecvConfig
  <2>2. Taken(configs) /\ OnTime
    BY ZenonT(30), <1>8, <1>9, <2>1, TakeNextTaken, TakeNextOnTime DEF TypeOK
  <2> QED BY ZenonT(30), <1>1, <1>5, <1>6, <2>1, <2>2, TakenStepOK
<1> QED BY <1>10, <1>11

(***************************************************************************)
(* Steps that leave sender, network, pending groups and output alone.      *)
(***************************************************************************)
LEMMA QuietStep ==
    ASSUME Inv,
           UNCHANGED <<senderVars, networkVars, pendingVars, outputVars>>,
           kypacket_newest' \in Nat, group_newest' \in Nat,
           received' \in 0 .. Len(forwarded),
           process' \in {"running", "ended", "dropped"}
    PROVE  StepOK
<1> USE DEF senderVars, networkVars, pendingVars, outputVars
<1>1. TypeOK'
  BY ZenonT(30) DEF Inv, TypeOK
<1>2. SenderInv' /\ StreamInv' /\ DatagramInv' /\ StreamAhead' /\ NoPanic'
  BY ZenonT(30) DEF Inv, SenderInv, StreamInv, StreamOK, DatagramInv, DatagramOK,
         StreamAhead, NoPanic,
         Abstract!LatestGroup
<1>3. PendingInv(configs, media, segments)'
  BY ZenonT(30) DEF Inv, PendingInv, ConfigOK, MediaOK, SegmentOK
<1>4. UNCHANGED Abstract!vars
  BY DEF Abstract!vars
<1> QED BY <1>1, <1>2, <1>3, <1>4, Zenon DEF StepOK, Inv, OnTime

(***************************************************************************)
(* A datagram arrives that belongs to no packet reassembled yet: what it   *)
(* adds to the pending groups is well-formed, and set_segment() is not     *)
(* given a second last segment.                                            *)
(***************************************************************************)
LEMMA InsertDatagramTaken ==
    ASSUME Inv, NEW d \in datagrams, d.pkt >= next_kypacket_seq,
           UNCHANGED <<sent, group_seq, datagrams>>,
           InsertDatagram(d.grp, d.pkt, d)
    PROVE  Taken(configs) /\ OnTime /\ UNCHANGED process
<1> DEFINE seq == d.pkt
           grp == d.grp
           held == SegmentsOf(grp, seq)
           x0 == [grp |-> grp, seq |-> seq, number |-> d.datagram_number,
                  end |-> d.end, pkt |-> d.pkt]
           new == WithSegment(held, x0)
           p0 == [grp |-> grp, seq |-> seq, age |-> 0, data |-> {x.pkt : x \in new}]
<1> USE DEF Inv
<1>1. /\ d \in DatagramMessages /\ seq \in Nat /\ grp \in Nat
      /\ d.datagram_number \in Nat /\ d.end \in BOOLEAN
  BY ZenonT(30) DEF TypeOK, DatagramMessages
<1>2. /\ configs \in SUBSET ConfigPackets /\ media \in SUBSET MediaPackets
      /\ segments \in SUBSET SegmentRecords /\ Len(sent) \in Nat
      /\ forwarded = <<>> => configs = {}
  BY SMTT(60) DEF TypeOK, StreamInv, StreamOK
<1>3. /\ seq <= Len(sent)
      /\ seq < Len(sent) => sent[seq + 1] = [kind |-> "media", grp |-> grp]
      /\ seq = Len(sent) => ~ d.end
  <2>1. DatagramOK(d)
    BY ZenonT(30) DEF DatagramInv
  <2> QED BY ZenonT(30), <2>1 DEF DatagramOK
<1>4. CASE \E p \in media : p.grp = grp /\ p.seq = seq
  <2>1. TakeNextPacket(configs, media, segments) /\ UNCHANGED process
    BY ZenonT(30), <1>4 DEF InsertDatagram
  <2> QED BY <1>2, <2>1, TakeNextTaken, TakeNextOnTime, Zenon
<1>5. CASE ~ \E p \in media : p.grp = grp /\ p.seq = seq
  <2>1. /\ x0 \in SegmentRecords /\ x0.grp = grp /\ x0.seq = seq
        /\ x0.number = d.datagram_number /\ x0.end = d.end /\ x0.pkt = seq
    BY ZenonT(30), <1>1 DEF SegmentRecords
  <2> HIDE DEF x0
  <2>2. /\ held \in SUBSET segments
        /\ \A x \in held : /\ SegmentOK(x) /\ x.grp = grp /\ x.seq = seq
                            /\ x \in SegmentRecords
    BY ZenonT(30), <1>2 DEF SegmentsOf, PendingInv
  <2>3. SegmentOK(x0)
    BY <2>1, Zenon DEF SegmentOK
  <2>4. /\ new \in SUBSET (held \cup {x0}) /\ new # {}
        /\ held \in SUBSET new
        /\ new # held => ~ \E y \in held : y.number = x0.number
    BY Zenon DEF WithSegment
  <2>5. \A x \in new : /\ SegmentOK(x) /\ x.grp = grp /\ x.seq = seq
                       /\ x.pkt = seq /\ x \in SegmentRecords
    BY ZenonT(30), <2>1, <2>2, <2>3, <2>4 DEF SegmentOK
  <2>6. \A y \in media : y.seq # seq
    <3> SUFFICES ASSUME NEW y \in media, y.seq = seq PROVE FALSE
      OBVIOUS
    <3>1. y.seq < Len(sent) /\ sent[y.seq + 1] = [kind |-> "media", grp |-> y.grp]
      BY ZenonT(30) DEF PendingInv, MediaOK
    <3>2. y.grp = grp
      BY SMTT(60), <1>3, <3>1
    <3> QED BY ZenonT(30), <1>5, <3>2
  <2>7. ~ (new # held /\ d.end /\ \E x \in held : x.end)
    <3> SUFFICES ASSUME new # held, d.end, NEW x \in held, x.end PROVE FALSE
      BY Zenon
    <3>1. PICK e \in datagrams : /\ e.pkt = seq /\ e.datagram_number = x.number
                                 /\ e.end = x.end
      <4>1. SegmentOK(x) /\ x.seq = seq
        BY ZenonT(30), <2>2
      <4> HIDE DEF seq
      <4> QED BY ZenonT(30), <4>1 DEF SegmentOK
    <3>2. d.datagram_number = x.number
      BY ZenonT(30), <3>1 DEF DatagramInv, DatagramOK
    <3> QED BY ZenonT(30), <2>1, <2>4, <3>2
  <2>8. CASE IsComplete(new)
    <3>1. TakeNextPacket(configs, media \cup {p0}, segments \ held)
          /\ UNCHANGED process
      BY ZenonT(30), <1>5, <2>7, <2>8 DEF InsertDatagram, x0
    <3>2. {x.pkt : x \in new} = {seq}
      BY ZenonT(30), <2>4, <2>5
    <3>3. /\ p0 \in MediaPackets /\ p0.grp = grp /\ p0.seq = seq
          /\ p0.data = {seq} /\ p0.age = 0
      BY ONLY SMTT(60), <1>1, <3>2, ConstantsAssumption DEF MediaPackets
    <3> HIDE DEF p0
    <3>4. PICK x \in new : x.end
      BY <2>8 DEF IsComplete
    <3>5. seq < Len(sent)
      <4>1. PICK e \in datagrams : e.pkt = seq /\ e.end = x.end
        BY ZenonT(30), <2>5 DEF SegmentOK
      <4>2. e.pkt # Len(sent)
        BY ZenonT(30), <3>4, <4>1 DEF DatagramInv, DatagramOK
      <4> QED BY ONLY SMTT(60), <1>1, <1>2, <1>3, <4>1, <4>2
    <3>6. MediaOK(p0)
      BY ZenonT(30), <1>3, <3>3, <3>5 DEF MediaOK
    <3>7. \A y \in segments \ held : y.seq # seq
      <4> SUFFICES ASSUME NEW y \in segments \ held, y.seq = seq PROVE FALSE
        OBVIOUS
      <4>1. PICK e \in datagrams : e.pkt = seq /\ e.grp = y.grp
        BY ZenonT(30) DEF PendingInv, SegmentOK
      <4>2. sent[seq + 1] = [kind |-> "media", grp |-> y.grp]
        BY ZenonT(30), <3>5, <4>1 DEF DatagramInv, DatagramOK
      <4>3. y.grp = grp
        BY ONLY SMTT(60), <1>3, <3>5, <4>2
      <4> QED BY <4>3 DEF SegmentsOf
    <3> HIDE DEF held, seq, grp
    <3>8. PendingInv(configs, media \cup {p0}, segments \ held)
      BY ZenonT(30), <2>6, <3>3, <3>6, <3>7 DEF PendingInv
    <3>9. /\ media \cup {p0} \in SUBSET MediaPackets
          /\ segments \ held \in SUBSET SegmentRecords
      BY <1>2, <3>3
    <3>10. Expired(media \cup {p0}) => Expired(media)
      <4>1. p0.age = 0
        BY Zenon DEF p0
      <4> HIDE DEF p0
      <4> QED BY <4>1, ConstantsAssumption DEF Expired
    <3> QED BY <1>2, <3>1, <3>8, <3>9, <3>10, TakeNextTaken, TakeNextOnTime, Zenon
  <2>9. CASE ~ IsComplete(new)
    <3>1. TakeNextPacket(configs, media, segments \cup new) /\ UNCHANGED process
      BY ZenonT(30), <1>5, <2>7, <2>9 DEF InsertDatagram, x0
    <3> HIDE DEF new, seq, grp
    <3>2. PendingInv(configs, media, segments \cup new)
      BY ZenonT(30), <2>5, <2>6 DEF PendingInv
    <3>3. segments \cup new \in SUBSET SegmentRecords
      BY <1>2, <2>5
    <3> QED BY <1>2, <3>1, <3>2, <3>3, TakeNextTaken, TakeNextOnTime, Zenon
  <2> QED BY <2>8, <2>9
<1> QED BY <1>4, <1>5

(***************************************************************************)
(* A datagram is received: late and discarded, or inserted.                *)
(***************************************************************************)
LEMMA RecvDatagramStep ==
    ASSUME Inv, NEW d \in datagrams, RecvDatagram(d) PROVE StepOK
<1> DEFINE seq == Unroll(kypacket_newest, d.raw_kypacket_seq, SeqRange)
           grp == Unroll(group_newest, d.raw_group_seq, SeqRange)
<1> USE DEF Inv
<1>1. /\ d.pkt \in Nat /\ d.grp \in Nat
      /\ d.raw_kypacket_seq = Raw(d.pkt, SeqRange)
      /\ d.raw_group_seq = Raw(d.grp, SeqRange)
  BY ZenonT(30) DEF TypeOK, DatagramMessages, DatagramInv, DatagramOK
<1>2. Unrolls(d, seq, grp) /\ UNCHANGED <<senderVars, networkVars, received>>
      /\ process = "running"
  BY ZenonT(30) DEF RecvDatagram, Idle
<1>3. /\ seq = d.pkt /\ grp = d.grp
      /\ kypacket_newest' \in Nat /\ group_newest' \in Nat
  <2> HIDE DEF seq, grp
  <2> QED BY ZenonT(30), <1>1, <1>2, UnrollsFacts
<1>4. CASE seq < next_kypacket_seq
  <2>1. UNCHANGED <<process, pendingVars, outputVars>>
    BY ZenonT(30), <1>4 DEF RecvDatagram
  <2>2. received' \in 0 .. Len(forwarded)
    BY <1>2 DEF TypeOK
  <2> QED BY ZenonT(30), <1>2, <1>3, <2>1, <2>2, QuietStep
<1>5. CASE ~ (seq < next_kypacket_seq)
  <2>1. InsertDatagram(grp, seq, d)
    BY ZenonT(30), <1>5 DEF RecvDatagram
  <2>2. UNCHANGED <<sent, group_seq, datagrams>> /\ stream' = stream
    BY ZenonT(30), <1>2 DEF senderVars, networkVars
  <2>3. d.pkt >= next_kypacket_seq
    BY SMTT(60), <1>1, <1>3, <1>5 DEF TypeOK
  <2>4. Taken(configs) /\ OnTime /\ UNCHANGED process
    BY ZenonT(30), <1>3, <2>1, <2>2, <2>3, InsertDatagramTaken
  <2>5. \A i \in 1 .. Len(stream') : \A x \in configs : x.grp < stream'[i].grp
    BY ZenonT(30), <2>2 DEF StreamAhead
  <2> QED BY ZenonT(30), <1>2, <1>3, <2>2, <2>4, <2>5, TakenStepOK
<1> QED BY <1>4, <1>5

-----------------------------------------------------------------------------
(***************************************************************************)
(* Appending to what was sent keeps what is known of the earlier packets.  *)
(***************************************************************************)
LEMMA AppendSent ==
    ASSUME Inv, sender = "started", NEW e \in PacketsSent,
           sent' = Append(sent, e), group_seq' = e.grp, sender' = sender,
           e.kind = "config" => e.grp = group_seq + 1,
           e.kind = "media" => e.grp = group_seq,
           Len(sent) < MaxPackets,
           UNCHANGED <<forwarded, next_kypacket_seq, dropped_packets>>
    PROVE  /\ Len(sent) \in Nat /\ Len(sent') = Len(sent) + 1
           /\ sent'[Len(sent) + 1] = e
           /\ \A i \in 1 .. Len(sent) : sent'[i] = sent[i]
           /\ sent' \in Seq(PacketsSent)
           /\ SenderInv'
           /\ Abstract!Accept
<1>1. /\ Len(sent) \in Nat /\ Len(sent') = Len(sent) + 1
      /\ sent'[Len(sent) + 1] = e
      /\ \A i \in 1 .. Len(sent) : sent'[i] = sent[i]
      /\ sent' \in Seq(PacketsSent) /\ sent' # <<>>
  BY SMTT(60) DEF Inv, TypeOK
<1>2. /\ group_seq \in Nat /\ e.grp \in Nat /\ e.grp >= group_seq
      /\ \A i \in 1 .. Len(sent) : sent[i].grp \in Nat /\ sent[i].grp <= group_seq
      /\ e.kind = "config" => e.grp > group_seq
  <2>1. e.kind \in {"config", "media"} /\ e.grp \in Nat
    BY DEF PacketsSent
  <2>2. /\ group_seq \in Nat
        /\ \A i \in 1 .. Len(sent) : sent[i].grp \in Nat /\ sent[i].grp <= group_seq
    BY GroupMax, Zenon DEF Inv
  <2> QED BY <2>1, <2>2
<1>3. ASSUME NEW i \in 1 .. Len(sent'), NEW j \in 1 .. Len(sent'), i < j
      PROVE  /\ sent'[i].grp <= sent'[j].grp
             /\ sent'[j].kind = "config" => sent'[i].grp < sent'[j].grp
  <2>1. i \in 1 .. Len(sent) /\ sent'[i] = sent[i]
    BY <1>1, <1>3
  <2>2. CASE j = Len(sent) + 1
    BY <1>1, <1>2, <2>1, <2>2
  <2>3. CASE j # Len(sent) + 1
    <3>1. j \in 1 .. Len(sent) /\ sent'[j] = sent[j]
      BY <1>1, <2>3
    <3> QED BY <1>3, <2>1, <3>1, Zenon DEF Inv, SenderInv
  <2> QED BY ONLY <2>2, <2>3, Zenon
<1>4. group_seq' = Abstract!LatestGroup(sent')
  BY <1>1 DEF Abstract!LatestGroup
<1>5. SenderInv'
  BY <1>3, <1>4, Zenon DEF SenderInv
<1>6. Abstract!Accept
  <2>1. group_seq = Abstract!LatestGroup(sent)
    BY Zenon DEF Inv, SenderInv
  <2>2. e = [kind |-> e.kind, grp |-> e.grp] /\ e.kind \in {"config", "media"}
    BY DEF PacketsSent
  <2>3. CASE e.kind = "config"
    BY <2>1, <2>2, <2>3 DEF Abstract!Accept
  <2>4. CASE e.kind = "media"
    BY <2>1, <2>2, <2>4 DEF Abstract!Accept
  <2> QED BY <2>2, <2>3, <2>4
<1> QED BY ZenonT(30), <1>1, <1>5, <1>6

(***************************************************************************)
(* The pending groups and the datagrams in flight do not notice that one   *)
(* more packet was sent.                                                   *)
(***************************************************************************)
LEMMA AppendPending ==
    ASSUME Inv, sender = "started",
           Len(sent) \in Nat, Len(sent') = Len(sent) + 1,
           \A i \in 1 .. Len(sent) : sent'[i] = sent[i],
           \A d \in datagrams : d \in datagrams',
           UNCHANGED <<pendingVars, outputVars>>
    PROVE  PendingInv(configs, media, segments)'
<1> USE DEF pendingVars, outputVars, Inv
<1>1. ASSUME NEW x \in configs PROVE ConfigOK(x)'
  <2>1. x.seq \in Nat /\ ConfigOK(x)
    BY ZenonT(30) DEF TypeOK, ConfigPackets, PendingInv
  <2>2. x.seq < Len(sent)
    BY ZenonT(30), <2>1 DEF ConfigOK
  <2>3. sent'[x.seq + 1] = sent[x.seq + 1] /\ x.seq < Len(sent')
    BY <2>1, <2>2
  <2> QED BY ZenonT(30), <2>1, <2>3 DEF ConfigOK
<1>2. ASSUME NEW x \in media PROVE MediaOK(x)'
  <2>1. x.seq \in Nat /\ MediaOK(x)
    BY Zenon DEF TypeOK, MediaPackets, PendingInv
  <2>2. x.seq < Len(sent)
    BY ZenonT(30), <2>1 DEF MediaOK
  <2>3. sent'[x.seq + 1] = sent[x.seq + 1] /\ x.seq < Len(sent')
    BY <2>1, <2>2
  <2> QED BY <2>1, <2>3, Zenon DEF MediaOK
<1>3. ASSUME NEW x \in segments PROVE SegmentOK(x)'
  <2>1. SegmentOK(x)
    BY DEF PendingInv
  <2> QED BY <2>1, Zenon DEF SegmentOK
<1> QED BY ZenonT(30), <1>1, <1>2, <1>3 DEF PendingInv

(***************************************************************************)
(* Nor does what is known of a datagram change.                            *)
(***************************************************************************)
LEMMA OldDatagramOK ==
    ASSUME Inv, sender = "started",
           Len(sent) \in Nat, Len(sent') = Len(sent) + 1,
           \A i \in 1 .. Len(sent) : sent'[i] = sent[i],
           NEW d \in datagrams
    PROVE  d.pkt \in Nat /\ d.pkt < Len(sent) /\ DatagramOK(d)'
<1>1. d.pkt \in Nat /\ DatagramOK(d)
  BY ZenonT(30) DEF Inv, TypeOK, DatagramMessages, DatagramInv, DatagramOK
<1>2. d.pkt < Len(sent)
  BY <1>1 DEF DatagramOK
<1>3. d.pkt + 1 \in 1 .. Len(sent) /\ d.pkt <= Len(sent') /\ d.pkt # Len(sent')
  BY <1>1, <1>2
<1> QED BY ZenonT(30), <1>1, <1>2, <1>3 DEF DatagramOK

(***************************************************************************)
(* The codec packet is sent.                                               *)
(***************************************************************************)
LEMMA SendCodecStep == ASSUME Inv, SendCodec PROVE StepOK
<1> DEFINE e == [kind |-> "codec", raw_kypacket_seq |-> 0, raw_group_seq |-> 0,
                 pkt |-> -1, grp |-> -1]
<1> USE DEF Inv
<1>1. /\ sender = "new" /\ sender' = "started" /\ stream' = Append(stream, e)
      /\ UNCHANGED <<sent, group_seq, datagrams, process, sequencerVars,
                     pendingVars, outputVars, received>>
  BY Zenon DEF SendCodec
<1>2. sent = <<>> /\ stream = <<>> /\ datagrams = {} /\ forwarded = <<>>
  BY ZenonT(30), <1>1 DEF SenderInv
<1>3. e \in StreamMessages /\ e.kind = "codec" /\ e.grp = -1
  BY DEF StreamMessages
<1> HIDE DEF e
<1>4. Len(stream') = 1 /\ stream'[1] = e /\ stream' \in Seq(StreamMessages)
  BY <1>1, <1>2, <1>3
<1>5. TypeOK'
  BY <1>1, <1>4, Zenon DEF TypeOK, sequencerVars, pendingVars, outputVars
<1>6. configs = {}
  BY <1>2, Zenon DEF StreamInv, StreamOK
<1>7. SenderInv' /\ DatagramInv' /\ NoPanic'
  <2>1. UNCHANGED <<sent, group_seq, datagrams, process>> /\ sender' # "new"
    BY <1>1
  <2>2. SenderInv'
    BY ZenonT(30), <2>1 DEF SenderInv
  <2> QED BY ZenonT(30), <1>2, <2>1, <2>2 DEF DatagramInv, NoPanic
<1>8. StreamInv' /\ StreamAhead'
  <2>1. configs' = {} /\ forwarded' = <<>> /\ stream' # <<>>
    BY <1>1, <1>2, <1>4, <1>6 DEF pendingVars, outputVars
  <2>2. ASSUME NEW i \in 1 .. Len(stream') PROVE i = 1
    BY <1>4
  <2>3. ASSUME NEW i \in 1 .. Len(stream'), NEW j \in 1 .. Len(stream') PROVE ~ (i < j)
    BY <1>4
  <2> QED BY ZenonT(30), <1>3, <1>4, <2>1, <2>2, <2>3 DEF StreamInv, StreamOK, StreamAhead
<1>9. PendingInv(configs, media, segments)'
  BY ZenonT(30), <1>1 DEF PendingInv, ConfigOK, MediaOK, SegmentOK, pendingVars, outputVars
<1>10. UNCHANGED Abstract!vars
  BY <1>1 DEF Abstract!vars, outputVars
<1> QED BY <1>1, <1>5, <1>7, <1>8, <1>9, <1>10, Zenon DEF StepOK, OnTime, outputVars

(***************************************************************************)
(* Numbers on the wire are natural numbers.                                *)
(***************************************************************************)
LEMMA RawNat == ASSUME NEW n \in Nat PROVE Raw(n, SeqRange) \in Nat
BY ConstantsAssumption, ModFacts DEF Raw

(***************************************************************************)
(* A config packet is sent: it opens a group later than all others.        *)
(***************************************************************************)
LEMMA SendConfigStep == ASSUME Inv, SendConfig PROVE StepOK
<1> DEFINE g == group_seq + 1
           n == Len(sent)
           e == [kind |-> "config", grp |-> g]
           msg == [kind |-> "config", raw_kypacket_seq |-> Raw(n, SeqRange),
                   raw_group_seq |-> Raw(g, SeqRange), pkt |-> n, grp |-> g]
<1> USE DEF Inv
<1>1. /\ sender = "started" /\ sender' = sender /\ n < MaxPackets
      /\ group_seq' = g /\ stream' = Append(stream, msg)
      /\ sent' = Append(sent, e)
      /\ UNCHANGED <<datagrams, process, sequencerVars, pendingVars,
                     outputVars, received>>
  BY ZenonT(30) DEF SendConfig
<1>2. n \in Nat /\ g \in Nat /\ g = group_seq + 1 /\ g > group_seq
  BY DEF TypeOK
<1>3. e \in PacketsSent /\ e.kind = "config" /\ e.grp = g
  BY <1>2 DEF PacketsSent
<1>4. /\ msg \in StreamMessages /\ msg.kind = "config" /\ msg.pkt = n
      /\ msg.grp = g /\ msg.raw_kypacket_seq = Raw(n, SeqRange)
      /\ msg.raw_group_seq = Raw(g, SeqRange)
  <2>1. Raw(n, SeqRange) \in Nat /\ Raw(g, SeqRange) \in Nat
    BY ZenonT(30), <1>2, RawNat
  <2>2. n \in Int /\ g \in Int
    BY <1>2
  <2> QED BY ZenonT(30), <2>1, <2>2 DEF StreamMessages
<1> HIDE DEF e, msg
<1>5. /\ Len(sent') = n + 1
      /\ sent'[n + 1] = e
      /\ \A i \in 1 .. n : sent'[i] = sent[i]
      /\ sent' \in Seq(PacketsSent)
      /\ SenderInv'
      /\ Abstract!Accept
  BY ZenonT(30), <1>1, <1>2, <1>3, AppendSent DEF outputVars
<1>6. /\ Len(stream) \in Nat /\ Len(stream') = Len(stream) + 1
      /\ stream'[Len(stream) + 1] = msg
      /\ \A i \in 1 .. Len(stream) : stream'[i] = stream[i]
      /\ stream' \in Seq(StreamMessages) /\ stream' # <<>>
  BY SMTT(60), <1>1, <1>4 DEF TypeOK
<1>7. TypeOK'
  BY ZenonT(30), <1>1, <1>2, <1>5, <1>6 DEF TypeOK, sequencerVars, pendingVars, outputVars
<1>8. \A i \in 1 .. Len(stream) : stream[i].grp < g
  <2> TAKE i \in 1 .. Len(stream)
  <2>1. CASE stream[i].kind = "codec"
    <3>1. stream[i].grp = -1
      BY ZenonT(30), <2>1 DEF StreamInv, StreamOK
    <3> QED BY <1>2, <3>1
  <2>2. CASE stream[i].kind # "codec"
    <3>1. /\ stream[i].pkt \in 0 .. (n - 1)
          /\ sent[stream[i].pkt + 1] = [kind |-> "config", grp |-> stream[i].grp]
      BY ZenonT(30), <2>2 DEF StreamInv, StreamOK
    <3>2. stream[i].pkt + 1 \in 1 .. n
      BY SMTT(60), <1>2, <3>1
    <3>3. /\ sent[stream[i].pkt + 1].grp \in Nat
          /\ sent[stream[i].pkt + 1].grp <= group_seq /\ group_seq \in Nat
      BY <3>2, GroupMax, Zenon
    <3> QED BY ONLY SMTT(60), <1>2, <3>1, <3>3
  <2> QED BY <2>1, <2>2
<1>9. StreamInv'
  <2>1. ASSUME NEW i \in 1 .. Len(stream')
        PROVE  StreamOK(i)'
    <3>1. CASE i = Len(stream) + 1
      <4>1. n \in 0 .. (Len(sent') - 1) /\ sent'[n + 1] = [kind |-> "config", grp |-> g]
        BY <1>2, <1>5 DEF e
      <4>2. msg.kind # "codec" /\ stream'[i] = msg
        BY ZenonT(30), <1>4, <1>6, <3>1
      <4> QED BY ZenonT(30), <1>4, <4>1, <4>2 DEF StreamOK
    <3>2. CASE i # Len(stream) + 1
      <4>1. i \in 1 .. Len(stream) /\ stream'[i] = stream[i]
        BY <1>6, <3>2
      <4>2. CASE stream[i].kind = "codec"
        BY ZenonT(30), <1>1, <4>1, <4>2 DEF StreamInv, StreamOK, outputVars
      <4>3. CASE stream[i].kind # "codec"
        <5>1. /\ stream[i].pkt \in 0 .. (n - 1)
              /\ sent[stream[i].pkt + 1] = [kind |-> "config", grp |-> stream[i].grp]
              /\ stream[i].raw_kypacket_seq = Raw(stream[i].pkt, SeqRange)
              /\ stream[i].raw_group_seq = Raw(stream[i].grp, SeqRange)
          BY ZenonT(30), <4>1, <4>3 DEF StreamInv, StreamOK
        <5>2. stream[i].pkt + 1 \in 1 .. n /\ stream[i].pkt \in 0 .. (Len(sent') - 1)
          BY ONLY SMTT(60), <1>2, <1>5, <5>1
        <5>3. sent'[stream[i].pkt + 1] = sent[stream[i].pkt + 1]
          BY ZenonT(30), <1>5, <5>2
        <5> QED BY ZenonT(30), <4>1, <4>3, <5>1, <5>2, <5>3 DEF StreamOK
      <4> QED BY ZenonT(30), <4>2, <4>3
    <3> QED BY ZenonT(30), <3>1, <3>2
  <2>2. ASSUME NEW i \in 1 .. Len(stream'), NEW j \in 1 .. Len(stream'), i < j
        PROVE  stream'[i].grp < stream'[j].grp
    <3>1. i \in 1 .. Len(stream)
      BY <1>6, <2>2
    <3>2. CASE j = Len(stream) + 1
      BY <1>4, <1>6, <1>8, <3>1, <3>2, Zenon
    <3>3. CASE j # Len(stream) + 1
      <4>1. j \in 1 .. Len(stream)
        BY <1>6, <3>3
      <4> QED BY ZenonT(30), <1>6, <2>2, <3>1, <4>1 DEF StreamInv, StreamOK
    <3> QED BY ZenonT(30), <3>2, <3>3
  <2>3. forwarded' = <<>> => configs' = {} /\ stream'[1].kind = "codec"
    <3> SUFFICES ASSUME forwarded' = <<>>
                 PROVE  configs' = {} /\ stream'[1].kind = "codec"
      OBVIOUS
    <3>1. /\ forwarded = <<>> /\ configs' = configs /\ configs = {}
          /\ stream # <<>> => stream[1].kind = "codec"
      BY ZenonT(30), <1>1 DEF StreamInv, StreamOK, outputVars, pendingVars
    <3>2. stream # <<>>
      BY ZenonT(30), <1>1, <3>1 DEF StreamInv, StreamOK
    <3>3. 1 \in 1 .. Len(stream)
      BY ONLY <1>6, <3>2 DEF TypeOK
    <3> QED BY <1>6, <3>1, <3>2, <3>3
  <2>4. stream' # <<>>
    BY ZenonT(30), <1>6
  <2> QED BY ZenonT(30), <2>1, <2>2, <2>3, <2>4 DEF StreamInv
<1>10. DatagramInv'
  <2>1. ASSUME NEW d \in datagrams PROVE DatagramOK(d)'
    BY ZenonT(30), <1>1, <1>2, <1>5, OldDatagramOK
  <2> QED BY ZenonT(30), <1>1, <2>1 DEF DatagramInv, DatagramOK
<1>11. StreamAhead'
  <2>1. ASSUME NEW i \in 1 .. Len(stream'), NEW x \in configs
        PROVE  x.grp < stream'[i].grp
    <3>1. CASE i = Len(stream) + 1
      <4>1. x.seq \in Nat /\ ConfigOK(x)
        BY Zenon DEF TypeOK, ConfigPackets, PendingInv
      <4>2. x.seq + 1 \in 1 .. n /\ sent[x.seq + 1].grp = x.grp
        BY SMTT(60), <1>2, <4>1 DEF ConfigOK
      <4>3. x.grp \in Nat /\ x.grp <= group_seq /\ group_seq \in Nat
        BY <4>2, GroupMax, Zenon
      <4> QED BY ONLY <1>2, <1>4, <1>6, <3>1, <4>3
    <3>2. CASE i # Len(stream) + 1
      <4>1. i \in 1 .. Len(stream)
        BY <1>6, <3>2
      <4> QED BY <1>6, <4>1, Zenon DEF StreamAhead
    <3> QED BY ZenonT(30), <3>1, <3>2
  <2> QED BY ZenonT(30), <1>1, <2>1 DEF StreamAhead, pendingVars
<1>12. PendingInv(configs, media, segments)'
  BY <1>1, <1>2, <1>5, AppendPending, Zenon
<1>13. Abstract!Next
  BY <1>5 DEF Abstract!Next
<1> QED BY ZenonT(30), <1>1, <1>5, <1>7, <1>9, <1>10, <1>11, <1>12, <1>13
       DEF StepOK, NoPanic, OnTime, outputVars

(***************************************************************************)
(* The datagrams of the next media packet.                                 *)
(***************************************************************************)
LEMMA DatagramsFacts ==
    ASSUME Inv, NEW total \in Nat, NEW n \in 0 .. total,
           NEW d \in Datagrams(n, total)
    PROVE  /\ d \in DatagramMessages
           /\ d.raw_kypacket_seq = Raw(d.pkt, SeqRange)
           /\ d.raw_group_seq = Raw(d.grp, SeqRange)
           /\ d.pkt = Len(sent) /\ d.grp = group_seq
           /\ d.end => d.datagram_number = total - 1 /\ n = total
<1>1. PICK i \in 0 .. (n - 1) :
         d = [raw_kypacket_seq |-> Raw(Len(sent), SeqRange),
              raw_group_seq |-> Raw(group_seq, SeqRange),
              datagram_number |-> i, end |-> (i = total - 1),
              pkt |-> Len(sent), grp |-> group_seq]
  BY ZenonT(30) DEF Datagrams
<1>2. /\ Len(sent) \in Nat /\ group_seq \in Nat
      /\ Raw(Len(sent), SeqRange) \in Nat /\ Raw(group_seq, SeqRange) \in Nat
  <2>1. Len(sent) \in Nat /\ group_seq \in Nat
    BY DEF Inv, TypeOK
  <2> QED BY ZenonT(30), <2>1, RawNat
<1>3. i \in Nat /\ (i = total - 1) \in BOOLEAN
  OBVIOUS
<1>4. d \in DatagramMessages
  BY ZenonT(30), <1>1, <1>2, <1>3 DEF DatagramMessages
<1>5. d.end => d.datagram_number = total - 1 /\ n = total
  <2>1. d.datagram_number = i /\ d.end = (i = total - 1)
    BY ONLY <1>1, Zenon
  <2>2. i = total - 1 => n = total
    OBVIOUS
  <2> QED BY ZenonT(30), <2>1, <2>2
<1>6. /\ d.raw_kypacket_seq = Raw(Len(sent), SeqRange) /\ d.pkt = Len(sent)
      /\ d.raw_group_seq = Raw(group_seq, SeqRange) /\ d.grp = group_seq
  BY ONLY <1>1, Zenon
<1> QED BY ZenonT(30), <1>4, <1>5, <1>6

(***************************************************************************)
(* The next kypacket_seq is the number of packets sent so far.             *)
(***************************************************************************)
LEMMA BelowNext ==
    ASSUME NEW k \in Nat
    PROVE  k <= k + 1 /\ k # k + 1 /\ k <= k /\ ~ (k < k)
  OBVIOUS

(***************************************************************************)
(* A media packet is sent in the latest group.                             *)
(***************************************************************************)
LEMMA SendMediaStep ==
    ASSUME Inv, NEW total \in 1 .. MaxSegments, SendMedia(total) PROVE StepOK
<1> DEFINE n == Len(sent)
           e == [kind |-> "media", grp |-> group_seq]
           D == Datagrams(total, total)
<1> USE DEF Inv
<1>1. /\ sender = "started" /\ n < MaxPackets
      /\ sender' = sender /\ group_seq' = group_seq /\ stream' = stream
      /\ datagrams' = datagrams \cup D /\ sent' = Append(sent, e)
      /\ UNCHANGED <<process, sequencerVars, pendingVars, outputVars, received>>
  BY Zenon DEF SendMedia
<1>2. n \in Nat /\ group_seq \in Nat /\ total \in Nat /\ total \in 0 .. total
  BY ConstantsAssumption DEF TypeOK
<1>3. e \in PacketsSent /\ e.kind = "media" /\ e.grp = group_seq
  BY <1>2 DEF PacketsSent
<1>4. ASSUME NEW d \in D
      PROVE  /\ d \in DatagramMessages
             /\ d.raw_kypacket_seq = Raw(d.pkt, SeqRange)
             /\ d.raw_group_seq = Raw(d.grp, SeqRange)
             /\ d.pkt = n /\ d.grp = group_seq
             /\ d.end => d.datagram_number = total - 1
  BY ZenonT(30), <1>2, DatagramsFacts
<1> HIDE DEF e, D
<1>5. /\ Len(sent') = n + 1
      /\ sent'[n + 1] = e
      /\ \A i \in 1 .. n : sent'[i] = sent[i]
      /\ sent' \in Seq(PacketsSent)
      /\ SenderInv'
      /\ Abstract!Accept
  BY ZenonT(30), <1>1, <1>2, <1>3, AppendSent DEF outputVars
<1>6. TypeOK'
  BY ZenonT(30), <1>1, <1>4, <1>5 DEF TypeOK, sequencerVars, pendingVars, outputVars
<1>7. StreamInv'
  <2>1. ASSUME NEW i \in 1 .. Len(stream), stream[i].kind # "codec"
        PROVE  /\ stream[i].pkt \in 0 .. (Len(sent') - 1)
               /\ sent'[stream[i].pkt + 1] = sent[stream[i].pkt + 1]
    <3>1. stream[i].pkt \in 0 .. (n - 1)
      BY ZenonT(30), <2>1 DEF StreamInv, StreamOK
    <3>2. stream[i].pkt + 1 \in 1 .. n /\ stream[i].pkt \in 0 .. ((n + 1) - 1)
      BY <1>2, <3>1
    <3> QED BY ZenonT(30), <1>5, <3>2
  <2>2. stream' = stream /\ forwarded' = forwarded /\ configs' = configs
        /\ sender' = sender
    BY ZenonT(30), <1>1 DEF outputVars, pendingVars
  <2> QED BY ZenonT(30), <2>1, <2>2 DEF StreamInv, StreamOK
<1>8. DatagramInv'
  <2>1. ASSUME NEW d \in datagrams
        PROVE  d.pkt \in Nat /\ d.pkt < n /\ DatagramOK(d)'
    BY ZenonT(30), <1>1, <1>2, <1>5, OldDatagramOK
  <2>2. ASSUME NEW d \in D PROVE DatagramOK(d)'
    <3>1. d.pkt <= Len(sent') /\ d.pkt # Len(sent')
      BY ZenonT(30), <1>2, <1>4, <1>5, BelowNext
    <3>2. sent'[d.pkt + 1] = [kind |-> "media", grp |-> d.grp]
      BY ZenonT(30), <1>4, <1>5 DEF e
    <3> QED BY ZenonT(30), <1>4, <3>1, <3>2 DEF DatagramOK
  <2>3. ASSUME NEW d \in datagrams', NEW x \in datagrams',
               d.pkt = x.pkt, d.end, x.end
        PROVE  d.datagram_number = x.datagram_number
    <3>1. CASE d \in datagrams /\ x \in datagrams
      BY <2>3, <3>1 DEF DatagramInv
    <3>2. CASE d \in D /\ x \in D
      BY <1>4, <2>3, <3>2
    <3>3. ASSUME NEW a \in datagrams, NEW b \in D PROVE a.pkt # b.pkt
      BY <1>2, <1>4, <2>1
    <3> QED BY <1>1, <2>3, <3>1, <3>2, <3>3, Zenon
  <2> QED BY ONLY <1>1, <2>1, <2>2, <2>3 DEF DatagramInv
<1>9. StreamAhead' /\ NoPanic'
  BY <1>1 DEF StreamAhead, NoPanic, pendingVars
<1>10. PendingInv(configs, media, segments)'
  BY ZenonT(30), <1>1, <1>2, <1>5, AppendPending
<1>11. Abstract!Next
  BY <1>5 DEF Abstract!Next
<1> QED BY ZenonT(30), <1>1, <1>5, <1>6, <1>7, <1>8, <1>9, <1>10, <1>11
       DEF StepOK, OnTime, outputVars

(***************************************************************************)
(* A media packet is abandoned half way: the datagrams that were sent do   *)
(* not include its last one.                                               *)
(***************************************************************************)
LEMMA SendMediaFailsStep ==
    ASSUME Inv, NEW total \in 1 .. MaxSegments, NEW n \in 0 .. (total - 1),
           SendMediaFails(n, total)
    PROVE  StepOK
<1> DEFINE D == Datagrams(n, total)
<1> USE DEF Inv
<1>1. /\ sender = "started" /\ sender' = "failed"
      /\ sent' = sent /\ group_seq' = group_seq /\ stream' = stream
      /\ datagrams' = datagrams \cup D
      /\ UNCHANGED <<process, sequencerVars, pendingVars, outputVars, received>>
  BY DEF SendMediaFails
<1>2. /\ Len(sent) \in Nat /\ total \in Nat /\ n \in 0 .. total /\ n # total
  BY ONLY ConstantsAssumption DEF TypeOK
<1>3. ASSUME NEW d \in D
      PROVE  /\ d \in DatagramMessages
             /\ d.raw_kypacket_seq = Raw(d.pkt, SeqRange)
             /\ d.raw_group_seq = Raw(d.grp, SeqRange)
             /\ d.pkt = Len(sent) /\ d.grp = group_seq /\ ~ d.end
  BY ZenonT(30), <1>2, DatagramsFacts
<1> HIDE DEF D
<1>4. TypeOK'
  BY ZenonT(30), <1>1, <1>3 DEF TypeOK, sequencerVars, pendingVars, outputVars
<1>5. SenderInv' /\ StreamAhead' /\ NoPanic'
  BY ZenonT(30), <1>1 DEF SenderInv, StreamAhead, NoPanic, pendingVars, outputVars
<1>6. StreamInv'
  <2>1. forwarded = <<>> => stream # <<>>
    BY ZenonT(30), <1>1 DEF StreamInv, StreamOK
  <2> QED BY ZenonT(30), <1>1, <2>1 DEF StreamInv, StreamOK, pendingVars, outputVars
<1>7. DatagramInv'
  <2>1. ASSUME NEW d \in datagrams PROVE DatagramOK(d)'
    <3>1. DatagramOK(d) /\ d.pkt # Len(sent)
      BY ZenonT(30), <1>1 DEF DatagramInv, DatagramOK
    <3> QED BY ZenonT(30), <1>1, <3>1 DEF DatagramOK
  <2>2. ASSUME NEW d \in D PROVE DatagramOK(d)'
    <3>1. d.pkt <= Len(sent) /\ ~ (d.pkt < Len(sent))
      BY ZenonT(30), <1>2, <1>3, BelowNext
    <3> QED BY ZenonT(30), <1>1, <1>3, <3>1 DEF DatagramOK
  <2> QED BY ZenonT(30), <1>1, <1>3, <2>1, <2>2 DEF DatagramInv
<1>8. PendingInv(configs, media, segments)'
  <2>1. ASSUME NEW x \in segments PROVE SegmentOK(x)'
    BY ZenonT(30), <1>1 DEF PendingInv, SegmentOK, outputVars
  <2> QED BY ZenonT(30), <1>1, <2>1 DEF PendingInv, ConfigOK, MediaOK, pendingVars, outputVars
<1>9. UNCHANGED Abstract!vars
  BY <1>1 DEF Abstract!vars, outputVars
<1> QED BY ONLY <1>1, <1>4, <1>5, <1>6, <1>7, <1>8, <1>9, Zenon DEF StepOK, OnTime, outputVars

-----------------------------------------------------------------------------
(***************************************************************************)
(* The codec packet is received: it is the first one the client gets.      *)
(***************************************************************************)
LEMMA RecvCodecStep == ASSUME Inv, RecvCodec PROVE StepOK
<1> USE DEF Inv
<1>1. /\ stream # <<>> /\ stream[1].kind = "codec" /\ stream' = Tail(stream)
      /\ forwarded' = Append(forwarded, CodecPacket)
      /\ UNCHANGED <<senderVars, datagrams, process, sequencerVars, pendingVars,
                     next_kypacket_seq, deadline, dropped_packets, received>>
  BY DEF RecvCodec
<1>2. /\ stream \in Seq(StreamMessages) /\ Len(stream) \in Nat
      /\ 1 \in 1 .. Len(stream)
      /\ stream' \in Seq(StreamMessages) /\ Len(stream') = Len(stream) - 1
      /\ \A i \in 1 .. Len(stream') : /\ i + 1 \in 1 .. Len(stream)
                                       /\ stream'[i] = stream[i + 1]
  BY SMTT(60), <1>1 DEF TypeOK
<1>3. forwarded = <<>> /\ configs = {} /\ sender # "new"
  BY ZenonT(30), <1>1, <1>2 DEF StreamInv, StreamOK, SenderInv
<1>4. CodecPacket \in ForwardedPackets
  BY DEF CodecPacket, ForwardedPackets
<1>5. forwarded' = <<CodecPacket>> /\ forwarded' \in Seq(ForwardedPackets)
      /\ Len(forwarded') = 1 /\ forwarded' # <<>>
  <2>1. forwarded' = Append(<<>>, CodecPacket)
    BY ZenonT(30), <1>1, <1>3
  <2> HIDE DEF CodecPacket
  <2> QED BY <1>4, <2>1
<1>6. TypeOK'
  <2>1. received' \in 0 .. Len(forwarded')
    <3>1. received \in 0 .. Len(forwarded) /\ received' = received
      BY ZenonT(30), <1>1 DEF TypeOK
    <3>2. Len(forwarded) = 0
      BY <1>3
    <3> QED BY <1>5, <3>1, <3>2
  <2> QED BY ZenonT(30), <1>1, <1>2, <1>5, <2>1
          DEF TypeOK, senderVars, sequencerVars, pendingVars
<1>7. SenderInv' /\ DatagramInv' /\ NoPanic' /\ StreamAhead'
  <2>1. UNCHANGED <<sender, sent, group_seq, datagrams, process, configs>>
    BY ZenonT(30), <1>1 DEF senderVars, pendingVars
  <2>2. SenderInv'
    BY ZenonT(30), <1>3, <2>1 DEF SenderInv
  <2>3. DatagramInv'
    BY ZenonT(30), <2>1 DEF DatagramInv, DatagramOK
  <2>4. NoPanic' /\ StreamAhead'
    BY ZenonT(30), <1>3, <2>1 DEF NoPanic, StreamAhead
  <2> QED BY ZenonT(30), <2>2, <2>3, <2>4
<1>8. StreamInv'
  <2>1. ASSUME NEW i \in 1 .. Len(stream') PROVE stream[i + 1].kind # "codec"
    <3>1. i + 1 \in 1 .. Len(stream) /\ i + 1 # 1
      BY <1>2
    <3> QED BY ZenonT(30), <3>1 DEF StreamInv, StreamOK
  <2>2. ASSUME NEW i \in 1 .. Len(stream'), NEW j \in 1 .. Len(stream'), i < j
        PROVE  stream'[i].grp < stream'[j].grp
    <3>1. i + 1 < j + 1 /\ i + 1 \in 1 .. Len(stream) /\ j + 1 \in 1 .. Len(stream)
      BY <1>2, <2>2
    <3> QED BY ZenonT(30), <1>2, <3>1 DEF StreamInv, StreamOK
  <2>3. sent' = sent /\ forwarded' # <<>>
    BY ZenonT(30), <1>1, <1>5 DEF senderVars
  <2>4. ASSUME NEW i \in 1 .. Len(stream') PROVE StreamOK(i)'
    <3>1. i + 1 \in 1 .. Len(stream) /\ stream'[i] = stream[i + 1]
      BY ZenonT(30), <1>2
    <3>2. StreamOK(i + 1) /\ stream[i + 1].kind # "codec"
      BY ZenonT(30), <2>1, <3>1 DEF StreamInv
    <3> QED BY ZenonT(30), <2>3, <3>1, <3>2 DEF StreamOK
  <2> QED BY ZenonT(30), <2>2, <2>3, <2>4 DEF StreamInv
<1>9. PendingInv(configs, media, segments)'
  BY ZenonT(30), <1>1, <1>3 DEF PendingInv, MediaOK, SegmentOK, senderVars, pendingVars
<1>10. Abstract!DeliverCodec
  BY ZenonT(30), <1>1, <1>3, <1>5
     DEF Abstract!DeliverCodec, Abstract!CodecPacket, CodecPacket, senderVars
<1>11. Abstract!Next
  BY <1>10 DEF Abstract!Next
<1> QED BY ZenonT(30), <1>1, <1>6, <1>7, <1>8, <1>9, <1>11 DEF StepOK, OnTime

(***************************************************************************)
(* The timer fires.                                                        *)
(***************************************************************************)
LEMMA DeadlineReachedStep == ASSUME Inv, DeadlineReached PROVE StepOK
<1> USE DEF Inv
<1>1. /\ TakeNextPacket(configs, media, segments)
      /\ UNCHANGED <<senderVars, networkVars, process, sequencerVars, received>>
  BY DEF DeadlineReached
<1>2. UNCHANGED <<sent, group_seq, datagrams>> /\ stream' = stream
  BY <1>1 DEF senderVars, networkVars
<1>3. forwarded = <<>> => configs = {}
  BY ZenonT(30) DEF StreamInv, StreamOK
<1>4. Taken(configs) /\ OnTime
  BY ZenonT(30), <1>1, <1>2, <1>3, TakeNextTaken, TakeNextOnTime DEF TypeOK
<1>5. \A i \in 1 .. Len(stream') : \A x \in configs : x.grp < stream'[i].grp
  BY <1>2 DEF StreamAhead
<1>6. kypacket_newest' \in Nat /\ group_newest' \in Nat
  BY <1>1 DEF TypeOK, sequencerVars
<1> QED BY ZenonT(30), <1>1, <1>2, <1>4, <1>5, <1>6, TakenStepOK

(***************************************************************************)
(* Time passes.                                                            *)
(***************************************************************************)
LEMMA TickStep == ASSUME Inv, Tick PROVE StepOK
<1> USE DEF Inv
<1>1. /\ media' = {Older(p) : p \in media}
      /\ deadline' = IF deadline > 0 THEN deadline - 1 ELSE deadline
      /\ UNCHANGED <<senderVars, networkVars, process, sequencerVars, configs,
                     segments, next_kypacket_seq, dropped_packets, forwarded,
                     received>>
  BY DEF Tick
<1>2. ASSUME NEW p \in media
      PROVE  /\ Older(p) \in MediaPackets
             /\ Older(p).seq = p.seq /\ Older(p).grp = p.grp
             /\ Older(p).data = p.data
  <2>1. p \in MediaPackets /\ MaxBuffering \in Nat
    BY ConstantsAssumption DEF TypeOK
  <2> QED BY <2>1 DEF Older, MediaPackets
<1>3. TypeOK'
  <2>1. media' \subseteq MediaPackets
    BY ZenonT(30), <1>1, <1>2
  <2>2. deadline' \in NoDeadline .. MaxBuffering
    BY <1>1, ConstantsAssumption DEF TypeOK, NoDeadline
  <2> QED BY <1>1, <2>1, <2>2, Zenon DEF TypeOK, senderVars, networkVars, sequencerVars
<1>4. SenderInv' /\ StreamInv' /\ DatagramInv' /\ StreamAhead' /\ NoPanic'
  BY ZenonT(30), <1>1 DEF SenderInv, StreamInv, StreamOK, DatagramInv, DatagramOK,
         StreamAhead, NoPanic,
              senderVars, networkVars
<1>5. PendingInv(configs, media, segments)'
  <2>1. ASSUME NEW x \in media' PROVE MediaOK(x)'
    <3>1. PICK p \in media : x = Older(p)
      BY <1>1
    <3>2. MediaOK(p) /\ x.seq = p.seq /\ x.grp = p.grp /\ x.data = p.data
      BY ZenonT(30), <1>2, <3>1 DEF PendingInv
    <3> QED BY ZenonT(30), <1>1, <3>2 DEF MediaOK, senderVars
  <2>2. ASSUME NEW x \in media', NEW y \in media', x.seq = y.seq PROVE x = y
    <3>1. PICK p \in media : x = Older(p)
      BY <1>1
    <3>2. PICK q \in media : y = Older(q)
      BY <1>1
    <3>3. p = q
      BY SMTT(60), <1>2, <2>2, <3>1, <3>2 DEF PendingInv
    <3> QED BY <3>1, <3>2, <3>3
  <2>3. ASSUME NEW x \in segments', NEW y \in media' PROVE x.seq # y.seq
    <3>1. PICK p \in media : y = Older(p)
      BY <1>1
    <3> QED BY <1>1, <1>2, <3>1 DEF PendingInv
  <2>4. ASSUME NEW x \in configs' PROVE ConfigOK(x)'
    BY ZenonT(30), <1>1 DEF PendingInv, ConfigOK, senderVars
  <2>5. ASSUME NEW x \in segments' PROVE SegmentOK(x)'
    BY ZenonT(30), <1>1 DEF PendingInv, SegmentOK, networkVars
  <2>6. \A x, y \in configs' : x.grp = y.grp => x = y
    BY ZenonT(30), <1>1 DEF PendingInv
  <2> QED BY ZenonT(30), <2>1, <2>2, <2>3, <2>4, <2>5, <2>6 DEF PendingInv
<1>6. UNCHANGED Abstract!vars
  BY <1>1 DEF Abstract!vars, senderVars
<1> QED BY ONLY <1>1, <1>3, <1>4, <1>5, <1>6, Zenon DEF StepOK, OnTime

-----------------------------------------------------------------------------
(***************************************************************************)
(* The initial states satisfy Inv and are initial for OrderedDelivery.     *)
(***************************************************************************)
LEMMA InitInv == Init => Inv /\ Abstract!Init
<1> SUFFICES ASSUME Init PROVE Inv /\ Abstract!Init
  OBVIOUS
<1> USE DEF Init
<1>1. TypeOK
  BY ConstantsAssumption DEF TypeOK, NoDeadline
<1>2. SenderInv /\ StreamInv /\ DatagramInv /\ StreamAhead /\ NoPanic
  BY SMTT(60) DEF SenderInv, StreamInv, StreamOK, DatagramInv, StreamAhead, NoPanic,
         Abstract!LatestGroup
<1>3. PendingInv(configs, media, segments)
  BY DEF PendingInv
<1>4. Abstract!Init
  BY DEF Abstract!Init
<1> QED BY <1>1, <1>2, <1>3, <1>4 DEF Inv

(***************************************************************************)
(* Every step preserves Inv and is a step of OrderedDelivery, or none.     *)
(***************************************************************************)
LEMMA NextStep == Inv /\ [Next]_vars => StepOK
<1> SUFFICES ASSUME Inv, [Next]_vars PROVE StepOK
  OBVIOUS
<1>1. CASE SendCodec
  BY <1>1, SendCodecStep
<1>2. CASE SendConfig
  BY <1>2, SendConfigStep
<1>3. CASE \E total \in 1 .. MaxSegments : SendMedia(total)
  BY <1>3, SendMediaStep
<1>4. CASE \E total \in 1 .. MaxSegments : \E n \in 0 .. (total - 1) :
              SendMediaFails(n, total)
  BY <1>4, SendMediaFailsStep
<1>5. CASE RecvCodec
  BY <1>5, RecvCodecStep
<1>6. CASE RecvConfig
  BY <1>6, RecvConfigStep
<1>7. CASE \E d \in datagrams : RecvDatagram(d)
  BY <1>7, RecvDatagramStep
<1>8. CASE DeadlineReached
  BY <1>8, DeadlineReachedStep
<1>9. CASE Tick
  BY <1>9, TickStep
<1>10. CASE InputEnds \/ Drop
  <2>1. /\ UNCHANGED <<senderVars, networkVars, pendingVars, outputVars>>
        /\ kypacket_newest' \in Nat /\ group_newest' \in Nat
        /\ received' \in 0 .. Len(forwarded)
        /\ process' \in {"running", "ended", "dropped"}
    BY <1>10, Zenon DEF InputEnds, Drop, Inv, TypeOK, sequencerVars
  <2> QED BY <2>1, QuietStep
<1>11. CASE ClientRecv
  <2>1. received' \in 0 .. Len(forwarded)
    BY <1>11 DEF ClientRecv, Inv, TypeOK
  <2>2. /\ UNCHANGED <<senderVars, networkVars, pendingVars, outputVars>>
        /\ kypacket_newest' \in Nat /\ group_newest' \in Nat
        /\ process' \in {"running", "ended", "dropped"}
    BY <1>11 DEF ClientRecv, Inv, TypeOK, NoPanic, sequencerVars
  <2> QED BY <2>1, <2>2, QuietStep
<1>12. CASE UNCHANGED vars
  <2>1. /\ UNCHANGED <<senderVars, networkVars, pendingVars, outputVars>>
        /\ kypacket_newest' \in Nat /\ group_newest' \in Nat
        /\ received' \in 0 .. Len(forwarded)
        /\ process' \in {"running", "ended", "dropped"}
    BY <1>12 DEF vars, Inv, TypeOK, NoPanic, sequencerVars
  <2> QED BY <2>1, QuietStep
<1> QED BY <1>1, <1>2, <1>3, <1>4, <1>5, <1>6, <1>7, <1>8, <1>9, <1>10, <1>11,
           <1>12 DEF Next

(***************************************************************************)
(* The inductive invariant holds, and with it: no variable leaves its      *)
(* type (dropped_packets in particular never goes below zero), and no      *)
(* assertion of the receiver fails.                                        *)
(***************************************************************************)
THEOREM Invariance == Spec => []Inv
<1>1. Init => Inv
  BY InitInv
<1>2. Inv /\ [Next]_vars => Inv'
  BY NextStep DEF StepOK
<1> QED BY <1>1, <1>2, PTL DEF Spec

(***************************************************************************)
(* The assertions of insert_stream_packet() and set_segment() never fail,  *)
(* for any number of packets and segments and any wrap-around range.       *)
(***************************************************************************)
THEOREM NoPanics == Spec => []NoPanic
<1>1. Inv => NoPanic
  BY DEF Inv
<1> QED BY <1>1, Invariance, PTL

(***************************************************************************)
(* Sender, network and receiver implement OrderedDelivery.                 *)
(***************************************************************************)
THEOREM Refinement == Spec => ImplementsOrderedDelivery
<1>1. Init => Abstract!Init
  BY InitInv
<1>2. Inv /\ [Next]_vars => [Abstract!Next]_(Abstract!vars)
  BY NextStep DEF StepOK
<1> QED BY <1>1, <1>2, Invariance, PTL
       DEF Spec, ImplementsOrderedDelivery, Abstract!Spec

-----------------------------------------------------------------------------
(***************************************************************************)
(* OrderedDelivery: initially nothing is sent and nothing delivered.       *)
(***************************************************************************)
LEMMA AbstractInit == Abstract!Init => Abstract!Inv
BY DEF Abstract!Init, Abstract!Inv, Abstract!TypeOK, Abstract!Safe, Abstract!InOrder,
       Abstract!GroupsContiguous, Abstract!LossAccounted, Abstract!Intact

(***************************************************************************)
(* OrderedDelivery: appending a delivered packet that is above all others  *)
(* and belongs behind the last one preserves every part of its Inv.        *)
(***************************************************************************)
LEMMA AbstractDeliver ==
    ASSUME Abstract!Inv, NEW s \in 0 .. (Len(sent) - 1), Abstract!Deliver(s)
    PROVE  Abstract!Inv'
<1> DEFINE p == [kind |-> sent[s + 1].kind, seq |-> s,
                 grp |-> sent[s + 1].grp, data |-> {s}]
           n == Len(forwarded)
<1>1. sent[s + 1] \in Abstract!SentPackets
  BY DEF Abstract!Inv, Abstract!TypeOK
<1>2. /\ p \in Abstract!DeliveredPackets
      /\ p.seq = s /\ p.kind \in {"config", "media"} /\ p.grp \in Nat
      /\ p.data = {s} /\ p.kind = sent[s + 1].kind /\ p.grp = sent[s + 1].grp
  BY <1>1 DEF Abstract!SentPackets, Abstract!DeliveredPackets
<1> HIDE DEF p
<1>3. forwarded' = Append(forwarded, p)
  BY Zenon DEF Abstract!Deliver, p
<1>4. /\ n \in Nat /\ n > 0 /\ Len(forwarded') = n + 1
      /\ forwarded'[n + 1] = p
      /\ \A i \in 1 .. n : forwarded'[i] = forwarded[i]
      /\ forwarded \in Seq(Abstract!DeliveredPackets)
      /\ forwarded' \in Seq(Abstract!DeliveredPackets)
  BY <1>2, <1>3 DEF Abstract!Inv, Abstract!TypeOK, Abstract!Deliver
<1> HIDE DEF n
<1>5. Abstract!TypeOK'
  BY <1>4 DEF Abstract!Deliver, Abstract!Inv, Abstract!TypeOK
<1>a. \A i \in 1 .. n : /\ forwarded[i].kind \in {"codec", "config", "media"}
                         /\ forwarded[i].seq \in Int
                         /\ forwarded[i].seq < next_kypacket_seq
  <2> TAKE i \in 1 .. n
  <2>1. forwarded[i] \in Abstract!DeliveredPackets
    BY <1>4 DEF n
  <2>2. forwarded[i].seq < next_kypacket_seq
    BY DEF Abstract!Inv, n
  <2> QED BY ONLY <2>1, <2>2, Zenon DEF Abstract!DeliveredPackets
<1>b. /\ next_kypacket_seq \in Nat /\ dropped_packets \in Nat
      /\ s \in Nat /\ s >= next_kypacket_seq
      /\ next_kypacket_seq' = s + 1
      /\ dropped_packets' = dropped_packets + (s - next_kypacket_seq)
  BY DEF Abstract!Deliver, Abstract!Inv, Abstract!TypeOK
<1>6. Abstract!InOrder'
  <2> SUFFICES ASSUME NEW i \in 1 .. (n + 1), NEW j \in 1 .. (n + 1), i < j
               PROVE  forwarded'[i].seq < forwarded'[j].seq
    BY <1>4 DEF Abstract!InOrder
  <2>1. CASE j = n + 1
    <3>1. i \in 1 .. n
      BY <1>4, <2>1
    <3>2. forwarded'[i] = forwarded[i] /\ forwarded'[j] = p
      BY Zenon, <1>4, <2>1, <3>1
    <3>3. forwarded[i].seq \in Int /\ forwarded[i].seq < next_kypacket_seq
      BY Zenon, <1>a, <3>1
    <3> QED BY ONLY <1>2, <1>b, <3>2, <3>3
  <2>2. CASE j # n + 1
    <3>1. i \in 1 .. n /\ j \in 1 .. n
      BY <1>4, <2>2
    <3> QED BY SMTT(60), <1>4, <3>1 DEF Abstract!Inv, Abstract!Safe, Abstract!InOrder, n
  <2> QED BY <2>1, <2>2
<1>7. Abstract!GroupsContiguous'
  <2>1. ASSUME p.kind = "media"
        PROVE  forwarded[n].kind \in {"config", "media"} /\ forwarded[n].grp = p.grp
    <3>1. forwarded[n].grp = p.grp
      BY <1>2, <2>1, Zenon DEF Abstract!Deliver, n
    <3>2. forwarded[n].kind # "codec"
      BY <1>2, <1>4, <3>1 DEF Abstract!Inv, n
    <3> QED BY <1>4, <1>a, <3>1, <3>2
  <2> QED BY SMTT(60), <1>4, <2>1 DEF Abstract!Inv, Abstract!Safe, Abstract!GroupsContiguous, n
<1>8. Abstract!LossAccounted'
  <2>1. forwarded # <<>> /\ forwarded' # <<>>
    BY ONLY <1>3, <1>4 DEF Abstract!Deliver
  <2>2. (n - 1) + dropped_packets = next_kypacket_seq
    BY <2>1 DEF Abstract!Inv, Abstract!Safe, Abstract!LossAccounted, n
  <2> QED BY <1>4, <1>b, <2>1, <2>2 DEF Abstract!LossAccounted
<1>9. Abstract!Intact'
  BY <1>2, <1>4 DEF Abstract!Inv, Abstract!Safe, Abstract!Intact, n
<1>10. \A i \in 1 .. Len(forwarded') : forwarded'[i].seq < next_kypacket_seq'
  <2> SUFFICES ASSUME NEW i \in 1 .. (n + 1)
               PROVE  forwarded'[i].seq < next_kypacket_seq'
    BY <1>4
  <2>1. CASE i = n + 1
    BY SMTT(60), <1>2, <1>4, <1>b, <2>1
  <2>2. CASE i # n + 1
    <3>1. i \in 1 .. n
      BY <1>4, <2>2
    <3>2. forwarded'[i].seq = forwarded[i].seq
      BY <1>4, <3>1, Zenon
    <3>3. forwarded[i].seq \in Int /\ forwarded[i].seq < next_kypacket_seq
      BY <1>a, <3>1
    <3> QED BY <1>b, <3>2, <3>3
  <2> QED BY <2>1, <2>2
<1>11. \A i \in 1 .. Len(forwarded') :
          forwarded'[i].kind = "codec" <=> forwarded'[i].grp = -1
  BY SMTT(60), <1>2, <1>4 DEF Abstract!Inv, n
<1> QED BY ONLY <1>5, <1>6, <1>7, <1>8, <1>9, <1>10, <1>11, Zenon DEF Abstract!Inv, Abstract!Safe

(***************************************************************************)
(* OrderedDelivery: every step preserves Inv.                              *)
(***************************************************************************)
LEMMA AbstractNext ==
    Abstract!Inv /\ [Abstract!Next]_(Abstract!vars) => Abstract!Inv'
<1> SUFFICES ASSUME Abstract!Inv, [Abstract!Next]_(Abstract!vars)
             PROVE  Abstract!Inv'
  OBVIOUS
<1>1. CASE Abstract!Accept
  <2>1. Abstract!LatestGroup(sent) \in Nat
    <3>1. CASE sent = <<>>
      BY <3>1 DEF Abstract!LatestGroup
    <3>2. CASE sent # <<>>
      <4>1. sent[Len(sent)] \in Abstract!SentPackets
        BY <3>2 DEF Abstract!Inv, Abstract!TypeOK
      <4> QED BY <3>2, <4>1 DEF Abstract!LatestGroup, Abstract!SentPackets
    <3> QED BY <3>1, <3>2
  <2>2. PICK q \in Abstract!SentPackets : sent' = Append(sent, q)
    BY <1>1, <2>1 DEF Abstract!Accept, Abstract!SentPackets
  <2>3. Abstract!TypeOK'
    BY <1>1, <2>2 DEF Abstract!Accept, Abstract!Inv, Abstract!TypeOK
  <2> QED BY <1>1, <2>3, Zenon
          DEF Abstract!Accept, Abstract!Inv, Abstract!Safe, Abstract!InOrder,
              Abstract!GroupsContiguous, Abstract!LossAccounted, Abstract!Intact
<1>2. CASE Abstract!DeliverCodec
  <2>1. Abstract!CodecPacket \in Abstract!DeliveredPackets
    BY DEF Abstract!CodecPacket, Abstract!DeliveredPackets
  <2>2. /\ Len(forwarded') = 1 /\ forwarded'[1] = Abstract!CodecPacket
        /\ forwarded' \in Seq(Abstract!DeliveredPackets)
    BY <1>2, <2>1 DEF Abstract!DeliverCodec
  <2>3. /\ Abstract!CodecPacket.kind = "codec" /\ Abstract!CodecPacket.seq = -1
        /\ Abstract!CodecPacket.grp = -1 /\ Abstract!CodecPacket.data = {-1}
    BY DEF Abstract!CodecPacket
  <2>4. /\ next_kypacket_seq = 0 /\ next_kypacket_seq' = 0
        /\ dropped_packets' = dropped_packets /\ sent' = sent
    BY <1>2 DEF Abstract!DeliverCodec, Abstract!Inv, Abstract!Safe, Abstract!LossAccounted
  <2>5. Abstract!TypeOK'
    BY <2>2, <2>4 DEF Abstract!Inv, Abstract!TypeOK
  <2>6. Abstract!Safe'
    <3>1. dropped_packets = 0
      BY <1>2, <2>4 DEF Abstract!DeliverCodec, Abstract!Inv, Abstract!Safe, Abstract!LossAccounted
    <3>2. Abstract!LossAccounted'
      BY <1>2, <2>2, <2>4, <3>1 DEF Abstract!DeliverCodec, Abstract!LossAccounted
    <3>3. Abstract!InOrder' /\ Abstract!GroupsContiguous' /\ Abstract!Intact'
      BY <2>2, <2>3 DEF Abstract!InOrder, Abstract!GroupsContiguous, Abstract!Intact
    <3> QED BY <3>2, <3>3 DEF Abstract!Safe
  <2> QED BY <2>2, <2>3, <2>4, <2>5, <2>6 DEF Abstract!Inv
<1>3. CASE \E s \in 0 .. (Len(sent) - 1) : Abstract!Deliver(s)
  BY <1>3, AbstractDeliver
<1>4. CASE UNCHANGED Abstract!vars
  BY <1>4, Zenon DEF Abstract!vars, Abstract!Inv, Abstract!TypeOK, Abstract!Safe,
              Abstract!InOrder, Abstract!GroupsContiguous, Abstract!LossAccounted,
              Abstract!Intact
<1> QED BY <1>1, <1>2, <1>3, <1>4 DEF Abstract!Next

(***************************************************************************)
(* Whatever implements OrderedDelivery delivers in order, intact, with     *)
(* each media packet behind its own config packet, and counts its losses.  *)
(***************************************************************************)
LEMMA AbstractSafety == Abstract!Spec => []Abstract!Safe
<1>1. Abstract!Inv => Abstract!Safe
  BY DEF Abstract!Inv
<1> QED BY AbstractInit, AbstractNext, <1>1, PTL DEF Abstract!Spec

(***************************************************************************)
(* The client gets the packets in order, intact, each media packet behind  *)
(* its own config packet, and dropped_packets counts exactly the others.   *)
(***************************************************************************)
THEOREM Delivery == Spec => [](InOrder /\ GroupsContiguous /\ DropsAccounted /\ Intact)
<1>1. Abstract!Safe => InOrder /\ GroupsContiguous /\ DropsAccounted /\ Intact
  BY DEF Abstract!Safe, InOrder, GroupsContiguous, DropsAccounted, Intact
<1>2. Abstract!Spec => []Abstract!Safe
  BY AbstractSafety
<1> QED BY <1>1, <1>2, Refinement, PTL DEF ImplementsOrderedDelivery

(***************************************************************************)
(* No packet is given up before some packet was held for MAX_BUFFERING.    *)
(***************************************************************************)
THEOREM NoEarlyDrops == Spec => NoEarlyDrop
<1>1. Inv /\ [Next]_vars => [dropped_packets' > dropped_packets => Expired(media)]_vars
  <2> SUFFICES ASSUME Inv, [Next]_vars, dropped_packets' > dropped_packets
               PROVE  Expired(media)
    OBVIOUS
  <2>1. OnTime /\ dropped_packets \in Nat
    BY ZenonT(30), NextStep DEF StepOK, Inv, TypeOK
  <2> QED BY <2>1 DEF OnTime
<1> QED BY <1>1, Invariance, PTL DEF Spec, NoEarlyDrop
=============================================================================
