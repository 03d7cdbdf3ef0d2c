------------------------- MODULE VideoGopStreamProofs -------------------------
(***************************************************************************)
(* The receiver of the `gopstream' protocol returns media packets in order *)
(* and with the codec and config they need, for every number of GOPs and   *)
(* packets and every capacity of its queue.                                *)
(***************************************************************************)
EXTENDS VideoGopStream, TLAPS

USE GopStreamAssumption, SMTT(60)

-----------------------------------------------------------------------------
(***************************************************************************)
(* Facts about sequences.                                                  *)
(***************************************************************************)
LEMMA LenProperties ==
    ASSUME NEW S, NEW seq \in Seq(S)
    PROVE  Len(seq) \in Nat
OBVIOUS

LEMMA ElementOfSeq ==
    ASSUME NEW S, NEW seq \in Seq(S), NEW n \in 1 .. Len(seq)
    PROVE  seq[n] \in S
OBVIOUS

LEMMA EmptySeq ==
    ASSUME NEW S
    PROVE  /\ <<>> \in Seq(S) /\ Len(<<>>) = 0
           /\ \A seq \in Seq(S) : seq # <<>> => Len(seq) \in Nat \ {0}
OBVIOUS

LEMMA AppendProperties ==
    ASSUME NEW S, NEW seq \in Seq(S), NEW elt \in S
    PROVE  /\ Append(seq, elt) \in Seq(S) /\ Len(Append(seq, elt)) = Len(seq) + 1
           /\ \A i \in 1 .. Len(seq) : Append(seq, elt)[i] = seq[i]
           /\ Append(seq, elt)[Len(seq) + 1] = elt
OBVIOUS

LEMMA HeadTailProperties ==
    ASSUME NEW S, NEW seq \in Seq(S), seq # <<>>
    PROVE  /\ Head(seq) \in S /\ Head(seq) = seq[1]
           /\ Tail(seq) \in Seq(S) /\ Len(Tail(seq)) = Len(seq) - 1
           /\ \A i \in 1 .. Len(Tail(seq)) : Tail(seq)[i] = seq[i + 1]
OBVIOUS

-----------------------------------------------------------------------------
(***************************************************************************)
(* The sender.  A stream holds a codec packet, a config packet, and media  *)
(* packets in increasing order; m is the last media packet sent.           *)
(***************************************************************************)
Streams == [codec_gen : Nat, config_gen : Nat, ids : BOOLEAN, packets : Seq(Packets),
            state : {"open", "finished"}]

Repeated == {"codec", "config"}
Gen(s, kind) == IF kind = "codec" THEN s.codec_gen ELSE s.config_gen
SentGen(kind) == IF kind = "codec" THEN codec_gen ELSE config_gen

Laid(ps, codec, config, m) ==
    /\ 1 <= Len(ps) => ps[1] = Packet("codec", codec)
    /\ 2 <= Len(ps) => ps[2] = Packet("config", config)
    /\ \A p \in 3 .. Len(ps) : ps[p].kind = "media" /\ ps[p].n <= m
    /\ \A p, q \in 3 .. Len(ps) : p < q => ps[p].n < ps[q].n

Before(ps, qs) == \A p \in 3 .. Len(ps), q \in 3 .. Len(qs) : ps[p].n < qs[q].n

SenderTypes ==
    /\ sender \in {"running", "failed"}
    /\ codec_gen \in 0 .. MaxCodecs /\ config_gen \in 0 .. MaxConfigs
    /\ media \in 0 .. MaxMedia
    /\ current_stream \in Gops \cup {NoGop}
    /\ streams \in Seq(Streams) /\ Len(streams) <= MaxGops

StreamOK(s) ==
    /\ Laid(s.packets, s.codec_gen, s.config_gen, media)
    /\ \A kind \in Repeated : 0 < Gen(s, kind) /\ Gen(s, kind) <= SentGen(kind)

\* Later streams are newer in every way.
Later(s, t) ==
    /\ \A kind \in Repeated : Gen(s, kind) <= Gen(t, kind)
    /\ Before(s.packets, t.packets)

StreamsInv ==
    /\ SenderTypes
    /\ \A i \in 1 .. Len(streams) : StreamOK(streams[i])
    /\ \A i, j \in 1 .. Len(streams) : i < j => Later(streams[i], streams[j])
    /\ sender = "running" =>
          IF current_stream = NoGop
          THEN Len(streams) = 0
          ELSE Len(streams) = current_stream + 1 /\ Len(streams[Len(streams)].packets) >= 2

-----------------------------------------------------------------------------
(***************************************************************************)
(* The receiver.                                                           *)
(***************************************************************************)
Messages == [kind : {"NewStream", "StreamIds"}, gop : Nat]
               \cup [kind : {"NewPacket"}, gop : Nat, packet : Packets]
Readers == [gop : Nat, pos : Nat, cancelled : BOOLEAN]
Returned == [kind : {"codec", "config", "media"}, n : Nat, gop : Nat]

ReceiverTypes ==
    /\ driver \in {"running", "dropped"}
    /\ accepted \in 0 .. Len(streams)
    /\ \A g \in reading_ids : g \in Nat /\ g < Len(streams)
    /\ rx \in Seq(Messages) /\ Len(rx) <= Capacity
    /\ gop \in Nat
    /\ gop # NoGop => gop < Len(streams)
    /\ readers \subseteq Readers
    /\ last_codec_gen \in Nat /\ last_config_gen \in Nat
    /\ delivered \in Seq(Returned)

\* Nothing has been read from a stream newer than the one that is followed.
QueueInv ==
    \A n \in 1 .. Len(rx) :
        /\ rx[n].gop < Len(streams)
        /\ rx[n].kind = "NewPacket" => gop # NoGop /\ rx[n].gop <= gop

\* The reader of the stream that is followed is the one not cancelled.
ReadersInv ==
    /\ \A r \in readers :
          /\ gop # NoGop /\ r.gop <= gop
          /\ ~ r.cancelled => r.gop = gop
          /\ r.cancelled /\ driver = "running" => r.gop < gop
    /\ \A r, s \in readers : ~ r.cancelled /\ ~ s.cancelled => r = s

(***************************************************************************)
(* The packets of stream g in the queue q are the ones at the positions    *)
(* after c, up to pos: walk counts them.                                   *)
(***************************************************************************)
OfStream(msg, g) == msg.kind = "NewPacket" /\ msg.gop = g

Walk(walk, q, g, ps) ==
    \A n \in 1 .. Len(q) :
        IF OfStream(q[n], g)
        THEN walk[n] = walk[n - 1] + 1 /\ q[n].packet = ps[walk[n]]
        ELSE walk[n] = walk[n - 1]

Pending(c, q, g, ps, pos) ==
    \E walk \in [0 .. Len(q) -> 0 .. Len(ps)] :
        walk[0] = c /\ walk[Len(q)] = pos /\ Walk(walk, q, g, ps)

(***************************************************************************)
(* What recv() did with the first c packets of stream g: it returned the   *)
(* media packets, and the codec and config ones if they were new.          *)
(***************************************************************************)
LastGen(kind) == IF kind = "codec" THEN last_codec_gen ELSE last_config_gen

Media(n, g) == [kind |-> "media", n |-> n, gop |-> g]

Taken(d, c, g, ps) ==
    /\ \A i \in 1 .. Len(d) :
          d[i].kind = "media" /\ d[i].gop = g => \E p \in 3 .. c : d[i].n = ps[p].n
    /\ \A p \in 3 .. c : \E i \in 1 .. Len(d) : d[i] = Media(ps[p].n, g)

Followed(c) ==
    /\ c >= 1 => last_codec_gen = streams[gop + 1].codec_gen
    /\ c >= 2 => last_config_gen = streams[gop + 1].config_gen
    /\ Taken(delivered, c, gop, streams[gop + 1].packets)

FollowInv ==
    driver = "running" /\ gop # NoGop =>
        \E r \in readers : \E c \in 0 .. Len(streams[gop + 1].packets) :
            /\ ~ r.cancelled
            /\ Pending(c, rx, gop, streams[gop + 1].packets, r.pos)
            /\ Followed(c)

(***************************************************************************)
(* What the client got.  LastBefore: the last packet of a kind before      *)
(* place i is number n.                                                    *)
(***************************************************************************)
LastBefore(d, kind, i, n) ==
    \E j \in 1 .. (i - 1) :
        /\ d[j].kind = kind /\ d[j].n = n
        /\ \A l \in 1 .. (i - 1) : d[l].kind = kind => l <= j

\* The media packet at place i came from stream s.
MediaAt(d, i, s) ==
    /\ \E p \in 3 .. Len(s.packets) : d[i].n = s.packets[p].n
    /\ \A j \in 1 .. Len(d) : d[j].kind = "media" /\ i < j => d[i].n < d[j].n
    /\ \A p \in 3 .. Len(s.packets) :
          s.packets[p].n < d[i].n => \E j \in 1 .. i : d[j] = Media(s.packets[p].n, d[i].gop)
    /\ \A kind \in Repeated : LastBefore(d, kind, i, Gen(s, kind))

MediaInv ==
    \A i \in 1 .. Len(delivered) :
        delivered[i].kind = "media" => MediaAt(delivered, i, streams[delivered[i].gop + 1])

\* The codec or config packets, of which the last one is number last.
RepeatedAt(d, kind, last) ==
    /\ last > 0 => LastBefore(d, kind, Len(d) + 1, last)
    /\ \A i \in 1 .. Len(d) : d[i].kind = kind =>
          /\ d[i].n <= last
          /\ \A j \in 1 .. Len(d) : d[j].kind = kind /\ i < j => d[i].n < d[j].n

RepeatedInv(kind) ==
    /\ gop = NoGop => LastGen(kind) = 0
    /\ gop # NoGop => LastGen(kind) <= Gen(streams[gop + 1], kind)
    /\ RepeatedAt(delivered, kind, LastGen(kind))

DeliveredInv ==
    /\ gop = NoGop => delivered = <<>>
    /\ \A i \in 1 .. Len(delivered) : delivered[i].gop <= gop
    /\ MediaInv
    /\ \A kind \in Repeated : RepeatedInv(kind)

ReceiverInv == ReceiverTypes /\ QueueInv /\ ReadersInv /\ FollowInv /\ DeliveredInv

(***************************************************************************)
(* The inductive invariant.                                                *)
(***************************************************************************)
IInv == StreamsInv /\ ReceiverInv

-----------------------------------------------------------------------------

(***************************************************************************)
(* recv() takes a message from the queue: if it is of the stream, it is    *)
(* the packet after the last one that was taken.                           *)
(***************************************************************************)
LEMMA PendingPop ==
    ASSUME NEW q \in Seq(Messages), q # <<>>, NEW g, NEW c, NEW pos,
           NEW ps, Len(ps) \in Nat, Pending(c, q, g, ps, pos)
    PROVE  \E d \in 0 .. Len(ps) :
              /\ Pending(d, Tail(q), g, ps, pos)
              /\ IF OfStream(Head(q), g)
                 THEN d = c + 1 /\ Head(q).packet = ps[d]
                 ELSE d = c
<1> DEFINE t == Tail(q)
<1>1. PICK walk \in [0 .. Len(q) -> 0 .. Len(ps)] :
         walk[0] = c /\ walk[Len(q)] = pos /\ Walk(walk, q, g, ps)
  BY DEF Pending
<1>2. /\ Len(q) \in Nat \ {0} /\ Len(t) = Len(q) - 1 /\ Head(q) = q[1]
      /\ \A n \in 1 .. Len(t) : t[n] = q[n + 1]
  BY EmptySeq, HeadTailProperties, LenProperties
<1> HIDE DEF t
<1> DEFINE next == [n \in 0 .. Len(t) |-> walk[n + 1]]
<1>3. next \in [0 .. Len(t) -> 0 .. Len(ps)]
  BY <1>1, <1>2
<1>4. next[0] = walk[1] /\ next[Len(t)] = pos
  BY <1>1, <1>2
<1>5. ASSUME NEW n \in 1 .. Len(t)
      PROVE  IF OfStream(t[n], g)
             THEN next[n] = next[n - 1] + 1 /\ t[n].packet = ps[next[n]]
             ELSE next[n] = next[n - 1]
  <2>1. n + 1 \in 1 .. Len(q) /\ next[n] = walk[n + 1] /\ next[n - 1] = walk[n] /\ t[n] = q[n + 1]
    BY <1>2
  <2> HIDE DEF next
  <2> QED BY <1>1, <2>1 DEF Walk
<1>6. walk[1] \in 0 .. Len(ps)
  BY <1>1, <1>2
<1>7. IF OfStream(Head(q), g)
      THEN walk[1] = c + 1 /\ Head(q).packet = ps[walk[1]]
      ELSE walk[1] = c
  BY <1>1, <1>2 DEF Walk
<1> HIDE DEF next
<1>9. Pending(walk[1], t, g, ps, pos)
  BY <1>3, <1>4, <1>5, Zenon DEF Pending, Walk
<1> QED BY ONLY <1>6, <1>7, <1>9, Zenon DEF t


-----------------------------------------------------------------------------
LEMMA PacketNumbers ==
    ASSUME NEW ps \in Seq(Packets)
    PROVE  /\ Len(ps) \in Nat
           /\ \A p \in 1 .. Len(ps) : ps[p] \in Packets /\ ps[p].n \in Nat
           /\ \A p \in 3 .. Len(ps) : ps[p] \in Packets /\ ps[p].n \in Nat
<1>1. Len(ps) \in Nat /\ \A p \in 1 .. Len(ps) : ps[p] \in Packets
  BY ElementOfSeq, LenProperties
<1>3. \A p \in 3 .. Len(ps) : p \in 1 .. Len(ps)
  BY <1>1
<1> QED BY <1>1, <1>3, Zenon DEF Packets

(***************************************************************************)
(* All that a step of the sender does to a stream: it may append media     *)
(* packets, newer than all others.                                         *)
(***************************************************************************)
Grows(s, t) ==
    /\ t.codec_gen = s.codec_gen /\ t.config_gen = s.config_gen /\ t.ids = s.ids
    /\ Len(s.packets) <= Len(t.packets)
    /\ \A p \in 1 .. Len(s.packets) : t.packets[p] = s.packets[p]
    /\ \A p \in Len(s.packets) + 1 .. Len(t.packets) : p >= 3 /\ t.packets[p].n > media

StreamsGrow ==
    /\ Len(streams) <= Len(streams') /\ media <= media'
    /\ \A i \in 1 .. Len(streams) : Grows(streams[i], streams'[i])

\* The facts about one stream.
LEMMA StreamKnown ==
    ASSUME StreamsInv, NEW i \in 1 .. Len(streams)
    PROVE  /\ streams[i] \in Streams /\ StreamOK(streams[i])
           /\ streams[i].packets \in Seq(Packets) /\ Len(streams[i].packets) \in Nat
           /\ streams[i].codec_gen \in Nat /\ streams[i].config_gen \in Nat
           /\ \A p \in 1 .. Len(streams[i].packets) :
                 streams[i].packets[p] \in Packets /\ streams[i].packets[p].n \in Nat
<1>1. streams[i] \in Streams
  BY ElementOfSeq DEF StreamsInv, SenderTypes
<1>2. streams[i].packets \in Seq(Packets)
  BY <1>1 DEF Streams
<1>3. \A p \in 1 .. Len(streams[i].packets) : streams[i].packets[p] \in Packets
  BY <1>2, ElementOfSeq
<1> QED BY <1>1, <1>2, <1>3, LenProperties, Zenon DEF Streams, Packets, StreamsInv

LEMMA SenderKnown ==
    ASSUME StreamsInv
    PROVE  /\ Len(streams) \in Nat /\ Len(streams) <= MaxGops /\ streams \in Seq(Streams)
           /\ codec_gen \in Nat /\ config_gen \in Nat /\ media \in Nat
           /\ \A kind \in Repeated : SentGen(kind) \in Nat
BY LenProperties DEF StreamsInv, SenderTypes, SentGen

-----------------------------------------------------------------------------
(***************************************************************************)
(* The tasks of the receiver.                                              *)
(***************************************************************************)
LEMMA ReceiverKnown ==
    ASSUME IInv
    PROVE  /\ rx \in Seq(Messages) /\ Len(rx) \in Nat /\ Len(rx) <= Capacity
           /\ gop \in Nat /\ Len(streams) \in Nat
           /\ \A n \in 1 .. Len(rx) : rx[n] \in Messages /\ rx[n].gop \in Nat
           /\ \A r \in readers : r \in Readers /\ r.gop \in Nat /\ r.pos \in Nat
           /\ gop # NoGop =>
                 /\ gop + 1 \in 1 .. Len(streams)
                 /\ Len(streams[gop + 1].packets) \in Nat
<1>1. /\ rx \in Seq(Messages) /\ Len(rx) \in Nat /\ Len(rx) <= Capacity
      /\ gop \in Nat /\ Len(streams) \in Nat
  BY SenderKnown, LenProperties DEF IInv, ReceiverInv, ReceiverTypes
<1>2. \A n \in 1 .. Len(rx) : rx[n] \in Messages
  BY <1>1, ElementOfSeq
<1>3. \A n \in 1 .. Len(rx) : rx[n].gop \in Nat
  BY <1>2 DEF Messages
<1>5. gop # NoGop => gop + 1 \in 1 .. Len(streams)
  BY <1>1 DEF IInv, ReceiverInv, ReceiverTypes
<1> QED BY <1>1, <1>2, <1>3, <1>5, StreamKnown, Zenon
   DEF IInv, ReceiverInv, ReceiverTypes, Readers

\* The sender's part, and what the client got, in a step that leaves them alone.
LEMMA StreamsSame ==
    ASSUME StreamsInv, UNCHANGED <<senderVars, streams>>
    PROVE  StreamsInv'
BY Zenon DEF StreamsInv, SenderTypes, StreamOK, SentGen, senderVars

LEMMA DeliveredSame ==
    ASSUME DeliveredInv, UNCHANGED <<streams, clientVars>>
    PROVE  DeliveredInv'
BY Zenon DEF DeliveredInv, MediaInv, RepeatedInv, LastGen, clientVars

-----------------------------------------------------------------------------
(***************************************************************************)
(* recv().                                                                 *)
(***************************************************************************)
LEMMA ReceiveKnown ==
    ASSUME IInv, NEW kind, Receive(kind)
    PROVE  /\ driver = "running" /\ rx # <<>> /\ rx' = Tail(rx)
           /\ rx' \in Seq(Messages) /\ Len(rx') \in Nat /\ Len(rx') <= Capacity
           /\ \A n \in 1 .. Len(rx') : n + 1 \in 1 .. Len(rx) /\ rx'[n] = rx[n + 1]
           /\ Head(rx) \in Messages /\ Head(rx).kind = kind
           /\ Head(rx).gop \in Nat /\ Head(rx).gop < Len(streams)
           /\ kind = "NewPacket" => gop # NoGop /\ Head(rx).gop <= gop
<1>1. driver = "running" /\ rx # <<>> /\ rx' = Tail(rx) /\ Head(rx).kind = kind
  BY DEF Receive
<1>2. /\ rx' \in Seq(Messages) /\ Len(rx') = Len(rx) - 1 /\ Head(rx) = rx[1]
      /\ \A n \in 1 .. Len(rx') : rx'[n] = rx[n + 1]
      /\ Len(rx) \in Nat \ {0}
  BY <1>1, ReceiverKnown, EmptySeq, HeadTailProperties, LenProperties, Zenon
<1>3. /\ 1 \in 1 .. Len(rx) /\ Len(rx') \in Nat /\ Len(rx') <= Capacity
      /\ \A n \in 1 .. Len(rx') : n + 1 \in 1 .. Len(rx)
  BY <1>2, ReceiverKnown
<1> QED BY <1>1, <1>2, <1>3, ReceiverKnown, Zenon DEF IInv, ReceiverInv, QueueInv

LEMMA PopQueue ==
    ASSUME IInv, NEW kind, Receive(kind), UNCHANGED <<streams, gop>>
    PROVE  QueueInv'
<1> QED BY ReceiveKnown, Zenon DEF IInv, ReceiverInv, QueueInv

\* A message that is not of the stream that is followed is taken from the queue.
LEMMA ReceiveOther ==
    ASSUME IInv, NEW kind, Receive(kind), ~ OfStream(Head(rx), gop),
           UNCHANGED <<senderVars, streams, driver, accepted, readers, clientVars>>,
           \A g \in reading_ids' : g \in Nat /\ g < Len(streams)
    PROVE  IInv'
<1>0. /\ UNCHANGED <<streams, gop, last_codec_gen, last_config_gen, delivered, driver>>
      /\ UNCHANGED <<readers, accepted>>
  BY DEF clientVars
<1>1. /\ driver = "running" /\ rx # <<>> /\ rx' = Tail(rx)
      /\ rx' \in Seq(Messages) /\ Len(rx') <= Capacity
  BY ReceiveKnown, Zenon
<1>3. StreamsInv' /\ DeliveredInv'
  BY StreamsSame, DeliveredSame DEF IInv, ReceiverInv
<1>5. ReadersInv'
  BY <1>0, Zenon DEF IInv, ReceiverInv, ReadersInv
<1>6. FollowInv'
  <2> SUFFICES ASSUME gop # NoGop PROVE FollowInv'
    BY <1>0, Zenon DEF FollowInv
  <2>p. PICK ps : ps = streams[gop + 1].packets
    OBVIOUS
  <2>1. PICK r \in readers, c \in 0 .. Len(ps) :
           ~ r.cancelled /\ Pending(c, rx, gop, ps, r.pos) /\ Followed(c)
    BY <1>1, <2>p, Zenon DEF IInv, ReceiverInv, FollowInv
  <2>2. Pending(c, rx', gop, ps, r.pos)
    <3> QED BY <1>1, <2>1, <2>p, ReceiverKnown, PendingPop
  <2> QED BY ONLY <1>0, <2>p, <2>1, <2>2, Zenon DEF FollowInv, Followed
<1> QED BY PopQueue, <1>3, <1>0, <1>1, <1>5, <1>6, Zenon DEF IInv, ReceiverInv, ReceiverTypes

LEMMA RecvNewPacketStep == IInv /\ RecvNewPacket => IInv'
(***************************************************************************)
(* What the client got.  A packet that is returned does not change which   *)
(* codec and config were in force before it.                               *)
(***************************************************************************)
<1>LastBeforeKept.
    ASSUME NEW d \in Seq(Returned), NEW x \in Returned, NEW kind, NEW n,
           NEW i \in 1 .. Len(d) + 1, LastBefore(d, kind, i, n)
    PROVE  LastBefore(Append(d, x), kind, i, n)
  <2> USE <1>LastBeforeKept
  <2>2. \A j \in 1 .. (i - 1) : Append(d, x)[j] = d[j]
    BY AppendProperties, LenProperties
  <2> QED BY <2>2, Zenon DEF LastBefore

<1>LastBeforeOther.
    ASSUME NEW d \in Seq(Returned), NEW x \in Returned, NEW kind, NEW n,
           x.kind # kind, LastBefore(d, kind, Len(d) + 1, n)
    PROVE  LastBefore(Append(d, x), kind, Len(d) + 2, n)
  <2> USE <1>LastBeforeOther
  <2> DEFINE t == Append(d, x)
  <2>1. Len(d) \in Nat /\ t[Len(d) + 1] = x /\ \A j \in 1 .. Len(d) : t[j] = d[j]
    BY AppendProperties, LenProperties
  <2> HIDE DEF t
  <2>2. (Len(d) + 1) - 1 = Len(d) /\ (Len(d) + 2) - 1 = Len(d) + 1
    BY <2>1
  <2>3. PICK j \in 1 .. Len(d) : /\ d[j].kind = kind /\ d[j].n = n
                                 /\ \A l \in 1 .. Len(d) : d[l].kind = kind => l <= j
    BY <2>2 DEF LastBefore
  <2>5. ASSUME NEW l \in 1 .. Len(d) + 1, t[l].kind = kind PROVE l <= j
    BY <2>1, <2>3, <2>5
  <2> QED BY ONLY <2>2, <2>1, <2>3, <2>5 DEF LastBefore, t

<1>LastBeforeNew.
    ASSUME NEW d \in Seq(Returned), NEW x \in Returned
    PROVE  LastBefore(Append(d, x), x.kind, Len(d) + 2, x.n)
  <2> USE <1>LastBeforeNew
  <2> DEFINE t == Append(d, x)
  <2>1. Len(d) \in Nat /\ t[Len(d) + 1] = x
    BY AppendProperties, LenProperties
  <2> HIDE DEF t
  <2> QED BY <2>1 DEF LastBefore, t

(***************************************************************************)
(* A packet is returned.                                                   *)
(***************************************************************************)
<1>Appended.
    ASSUME NEW d \in Seq(Returned), NEW x \in Returned
    PROVE  /\ Append(d, x) \in Seq(Returned) /\ Len(Append(d, x)) = Len(d) + 1
           /\ Len(d) \in Nat /\ Append(d, x)[Len(d) + 1] = x
           /\ \A i \in 1 .. Len(d) : Append(d, x)[i] = d[i]
           /\ \A i \in 1 .. Len(d) + 1 : i = Len(d) + 1 \/ i \in 1 .. Len(d)
           /\ \A i \in 1 .. Len(d) : d[i] \in Returned /\ d[i].n \in Nat /\ d[i].gop \in Nat
  <2> USE <1>Appended
  <2>1. /\ Append(d, x) \in Seq(Returned) /\ Len(Append(d, x)) = Len(d) + 1
        /\ Len(d) \in Nat /\ Append(d, x)[Len(d) + 1] = x
        /\ \A i \in 1 .. Len(d) : Append(d, x)[i] = d[i]
    BY AppendProperties, LenProperties
  <2>2. \A i \in 1 .. Len(d) : d[i] \in Returned
    BY ElementOfSeq
  <2>4. \A i \in 1 .. Len(d) + 1 : i = Len(d) + 1 \/ i \in 1 .. Len(d)
    BY <2>1
  <2> QED BY <2>1, <2>2, <2>4, Zenon DEF Returned

\* The media packets before it stay where they are.
<1>MediaAtKept.
    ASSUME NEW d \in Seq(Returned), NEW x \in Returned, NEW i \in 1 .. Len(d), NEW s,
           MediaAt(d, i, s), x.kind = "media" => d[i].n < x.n
    PROVE  MediaAt(Append(d, x), i, s)
  <2> USE <1>MediaAtKept
  <2>t. PICK t : t = Append(d, x)
    BY Zenon
  <2>1. /\ Len(t) = Len(d) + 1 /\ Len(d) \in Nat /\ t[Len(d) + 1] = x
        /\ \A j \in 1 .. Len(d) : t[j] = d[j]
        /\ \A j \in 1 .. Len(d) + 1 : j = Len(d) + 1 \/ j \in 1 .. Len(d)
    BY ONLY <2>t, <1>Appended, Zenon
  <2>2. t[i] = d[i] /\ \A j \in 1 .. i : t[j] = d[j]
    BY <2>1
  <2>4. ASSUME NEW j \in 1 .. Len(t), t[j].kind = "media", i < j PROVE t[i].n < t[j].n
    BY <2>1, <2>2, <2>4, Zenon DEF MediaAt
  <2>5. ASSUME NEW p \in 3 .. Len(s.packets), s.packets[p].n < t[i].n
        PROVE  \E j \in 1 .. i : t[j] = Media(s.packets[p].n, t[i].gop)
    BY <2>2, <2>5, Zenon DEF MediaAt
  <2>6. ASSUME NEW kind \in Repeated PROVE LastBefore(t, kind, i, Gen(s, kind))
    BY <2>1, <2>t, <1>LastBeforeKept DEF MediaAt
  <2> QED BY <2>t, <2>2, <2>4, <2>5, <2>6, Zenon DEF MediaAt

\* Packets of another kind do not count.
<1>RepeatedAtOther.
    ASSUME NEW d \in Seq(Returned), NEW x \in Returned, NEW kind, NEW last,
           x.kind # kind, RepeatedAt(d, kind, last)
    PROVE  RepeatedAt(Append(d, x), kind, last)
  <2> USE <1>RepeatedAtOther
  <2>t. PICK t : t = Append(d, x)
    BY Zenon
  <2>1. /\ Len(t) = Len(d) + 1 /\ Len(d) \in Nat /\ t[Len(d) + 1] = x
        /\ \A j \in 1 .. Len(d) : t[j] = d[j]
        /\ \A j \in 1 .. Len(d) + 1 : j = Len(d) + 1 \/ j \in 1 .. Len(d)
    BY ONLY <2>t, <1>Appended, Zenon
  <2>2. ASSUME last > 0 PROVE LastBefore(t, kind, Len(t) + 1, last)
    BY <2>t, <2>2, <1>LastBeforeOther, <2>1 DEF RepeatedAt
  <2>3. ASSUME NEW i \in 1 .. Len(t), t[i].kind = kind PROVE i \in 1 .. Len(d) /\ t[i] = d[i]
    BY <2>1, <2>3
  <2>4. ASSUME NEW i \in 1 .. Len(t), t[i].kind = kind
        PROVE  /\ t[i].n <= last
               /\ \A j \in 1 .. Len(t) : t[j].kind = kind /\ i < j => t[i].n < t[j].n
    BY <2>3, <2>4, Zenon DEF RepeatedAt
  <2> QED BY <2>t, <2>2, <2>4, Zenon DEF RepeatedAt

\* A newer packet of the kind becomes the last one.
<1>RepeatedAtNew.
    ASSUME NEW d \in Seq(Returned), NEW x \in Returned, NEW last \in Nat, last < x.n,
           RepeatedAt(d, x.kind, last)
    PROVE  RepeatedAt(Append(d, x), x.kind, x.n)
  <2> USE <1>RepeatedAtNew
  <2>t. PICK t : t = Append(d, x)
    BY Zenon
  <2>k. PICK kind : kind = x.kind
    OBVIOUS
  <2>1. /\ Len(t) = Len(d) + 1 /\ Len(d) \in Nat /\ t[Len(d) + 1] = x
        /\ \A j \in 1 .. Len(d) : t[j] = d[j] /\ d[j].n \in Nat
        /\ \A j \in 1 .. Len(d) + 1 : j = Len(d) + 1 \/ j \in 1 .. Len(d)
    BY ONLY <2>t, <1>Appended, Zenon
  <2>2. LastBefore(t, kind, Len(t) + 1, x.n)
    BY <2>t, <2>k, <1>LastBeforeNew, <2>1
  <2>3. x.n \in Nat
    BY DEF Returned
  <2>4. ASSUME NEW i \in 1 .. Len(d), t[i].kind = kind PROVE t[i].n < x.n
    <3>1. d[i].n <= last /\ d[i].n \in Nat /\ t[i] = d[i]
      BY <2>k, <2>1, <2>4, Zenon DEF RepeatedAt
    <3> QED BY <2>3, <3>1
  <2>5. ASSUME NEW i \in 1 .. Len(t), t[i].kind = kind PROVE t[i].n <= x.n
    BY <2>1, <2>3, <2>4, <2>5
  <2>6. ASSUME NEW i \in 1 .. Len(t), t[i].kind = kind, NEW j \in 1 .. Len(t), t[j].kind = kind, i < j
        PROVE  t[i].n < t[j].n
    BY <2>1, <2>6, <2>4, <2>k DEF RepeatedAt
  <2> QED BY <2>t, <2>k, <2>2, <2>5, <2>6, Zenon DEF RepeatedAt

\* Of the media packets of the stream, one more is taken.
<1>TakenMedia.
    ASSUME NEW d \in Seq(Returned), NEW g \in Nat, NEW ps, NEW c \in Nat, c >= 2,
           ps[c + 1].n \in Nat, Taken(d, c, g, ps)
    PROVE  Taken(Append(d, Media(ps[c + 1].n, g)), c + 1, g, ps)
  <2> USE <1>TakenMedia
  <2>x. PICK x : x = Media(ps[c + 1].n, g)
    OBVIOUS
  <2>0. x \in Returned /\ x.kind = "media" /\ x.n = ps[c + 1].n
    BY <2>x, Zenon DEF Media, Returned
  <2>t. PICK t : t = Append(d, x)
    BY Zenon
  <2>1. /\ Len(t) = Len(d) + 1 /\ Len(d) \in Nat /\ t[Len(d) + 1] = x
        /\ \A j \in 1 .. Len(d) : t[j] = d[j]
        /\ \A j \in 1 .. Len(d) + 1 : j = Len(d) + 1 \/ j \in 1 .. Len(d)
    BY ONLY <2>t, <2>0, <1>Appended, Zenon
  <2>2. /\ c + 1 \in 3 .. (c + 1) /\ \A p \in 3 .. c : p \in 3 .. (c + 1)
        /\ \A p \in 3 .. (c + 1) : p = c + 1 \/ p \in 3 .. c
    OBVIOUS
  <2>3. ASSUME NEW i \in 1 .. Len(t), t[i].kind = "media" /\ t[i].gop = g
        PROVE  \E p \in 3 .. (c + 1) : t[i].n = ps[p].n
    <3>1. CASE i = Len(d) + 1
      BY ONLY <2>0, <2>1, <2>2, <3>1, Zenon
    <3>2. CASE i \in 1 .. Len(d)
      <4>1. PICK p \in 3 .. c : t[i].n = ps[p].n
        BY <2>1, <2>3, <3>2, Zenon DEF Taken
      <4> QED BY ONLY <2>2, <4>1, Zenon
    <3> QED BY ONLY <2>1, <3>1, <3>2, Zenon
  <2>4. ASSUME NEW p \in 3 .. (c + 1)
        PROVE  \E i \in 1 .. Len(t) : t[i] = Media(ps[p].n, g)
    <3>1. CASE p = c + 1
      BY <2>x, <2>1, <3>1
    <3>2. CASE p \in 3 .. c
      <4>1. PICK i \in 1 .. Len(d) : d[i] = Media(ps[p].n, g)
        BY <3>2, Zenon DEF Taken
      <4> QED BY <4>1, <2>1
    <3> QED BY ONLY <2>2, <3>1, <3>2, Zenon
  <2>5. Taken(t, c + 1, g, ps)
    BY ONLY <2>3, <2>4, Zenon DEF Taken
  <2> QED BY ONLY <2>x, <2>t, <2>5, Zenon

\* Codec and config packets come before all media packets of the stream.
<1>TakenRepeated.
    ASSUME NEW d \in Seq(Returned), NEW x \in Returned, x.kind # "media",
           NEW g, NEW ps, NEW c \in {0, 1}, Taken(d, c, g, ps)
    PROVE  Taken(d, c + 1, g, ps) /\ Taken(Append(d, x), c + 1, g, ps)
  <2> USE <1>TakenRepeated
  <2>t. PICK t : t = Append(d, x)
    BY Zenon
  <2>2. 3 .. c = {} /\ 3 .. (c + 1) = {}
    OBVIOUS
  <2>3. \A i \in 1 .. Len(d) : ~ (d[i].kind = "media" /\ d[i].gop = g)
    BY <2>2, Zenon DEF Taken
  <2>4. \A i \in 1 .. Len(t) : ~ (t[i].kind = "media" /\ t[i].gop = g)
    BY <2>t, <1>Appended, <2>3
  <2> QED BY <2>t, <2>2, <2>3, <2>4, Zenon DEF Taken

\* A media packet is returned with the codec and config of its stream in force.
<1>NewMedia.
    ASSUME NEW d \in Seq(Returned), NEW g \in Nat, NEW s, s.packets \in Seq(Packets), NEW m,
           Laid(s.packets, s.codec_gen, s.config_gen, m),
           NEW c \in Nat, c >= 2, c + 1 <= Len(s.packets), Taken(d, c, g, s.packets),
           \A kind \in Repeated : LastBefore(d, kind, Len(d) + 1, Gen(s, kind))
    PROVE  MediaAt(Append(d, Media(s.packets[c + 1].n, g)), Len(d) + 1, s)
  <2> USE <1>NewMedia
  <2>p. PICK ps : ps = s.packets
    OBVIOUS
  <2>1. /\ Len(ps) \in Nat /\ c + 1 \in 3 .. Len(ps)
        /\ \A p \in 3 .. Len(ps) : ps[p].n \in Nat
    BY <2>p, PacketNumbers
  <2>x. PICK x : x = Media(ps[c + 1].n, g)
    OBVIOUS
  <2>2. x \in Returned /\ x.kind = "media" /\ x.n = ps[c + 1].n /\ x.gop = g
    BY ONLY <2>x, <2>1, Zenon DEF Media, Returned
  <2>t. PICK t : t = Append(d, x)
    BY Zenon
  <2>3. /\ Len(t) = Len(d) + 1 /\ Len(d) \in Nat /\ t[Len(d) + 1] = x
        /\ \A j \in 1 .. Len(d) : t[j] = d[j]
    BY ONLY <2>t, <2>2, <1>Appended, Zenon
  <2>5. \A j \in 1 .. Len(t) : ~ (Len(d) + 1 < j)
    BY ONLY <2>3
  <2>6. ASSUME NEW p \in 3 .. Len(ps), ps[p].n < x.n
        PROVE  \E j \in 1 .. (Len(d) + 1) : t[j] = Media(ps[p].n, g)
    <3>1. p \in 3 .. c
      <4>1. CASE p = c + 1
        BY ONLY <2>1, <2>2, <2>6, <4>1
      <4>2. CASE c + 1 < p
        <5>2. \A a, b \in Nat : ~ (a < b /\ b < a)
          OBVIOUS
        <5> QED BY <2>1, <2>2, <2>6, <2>p, <4>2, <5>2, Zenon DEF Laid
      <4> QED BY ONLY <2>1, <4>1, <4>2
    <3>2. PICK j \in 1 .. Len(d) : d[j] = Media(ps[p].n, g)
      BY <2>p, <3>1, Zenon DEF Taken
    <3> QED BY ONLY <3>2, <2>3
  <2>7. ASSUME NEW kind \in Repeated PROVE LastBefore(t, kind, Len(d) + 1, Gen(s, kind))
    BY <2>3, <2>t, <2>2, <1>LastBeforeKept
  <2>8. MediaAt(t, Len(d) + 1, s)
    BY <2>p, <2>2, <2>3, <2>1, <2>5, <2>6, <2>7, Zenon DEF MediaAt
  <2> QED BY ONLY <2>p, <2>x, <2>t, <2>8, Zenon

\* A packet of the stream that is followed is the next one of it.
<1>NextPacket.
    ASSUME IInv, Receive("NewPacket"), Head(rx).gop = gop, gop # NoGop,
           NEW ps, ps = streams[gop + 1].packets
    PROVE  \E r \in readers, c \in Nat :
              /\ ~ r.cancelled /\ c + 1 \in 1 .. Len(ps) /\ Head(rx).packet = ps[c + 1]
              /\ Followed(c) /\ Pending(c + 1, rx', gop, ps, r.pos)
  <2> USE <1>NextPacket
  <2>1. /\ driver = "running" /\ rx # <<>> /\ rx' = Tail(rx) /\ Head(rx).kind = "NewPacket"
    BY ReceiveKnown, Zenon
  <2>2. Len(ps) \in Nat /\ rx \in Seq(Messages)
    BY ReceiverKnown, Zenon
  <2>3. PICK r \in readers, c \in 0 .. Len(ps) :
           ~ r.cancelled /\ Pending(c, rx, gop, ps, r.pos) /\ Followed(c)
    BY <2>1, Zenon DEF IInv, ReceiverInv, FollowInv
  <2>5. PICK e \in 0 .. Len(ps) :
           Pending(e, rx', gop, ps, r.pos) /\ e = c + 1 /\ Head(rx).packet = ps[e]
    BY <2>1, <2>2, <2>3, PendingPop DEF OfStream
  <2> QED BY ONLY <2>3, <2>5, <2>2

\* The parts of the invariant that do not depend on what is returned.
<1>PacketTaken.
    ASSUME IInv, Receive("NewPacket"), gop # NoGop,
           UNCHANGED <<senderVars, streams, driver, accepted, reading_ids, readers, gop>>,
           NEW ps, ps = streams[gop + 1].packets,
           NEW r \in readers, NEW c \in 0 .. Len(ps),
           ~ r.cancelled, Pending(c, rx', gop, ps, r.pos), Followed(c)',
           delivered' \in Seq(Returned), last_codec_gen' \in Nat, last_config_gen' \in Nat,
           DeliveredInv'
    PROVE  IInv'
  <2> USE <1>PacketTaken
  <2>2. StreamsInv'
    BY StreamsSame, Zenon DEF IInv
  <2>4. ReceiverTypes'
    BY ReceiveKnown, Zenon DEF IInv, ReceiverInv, ReceiverTypes
  <2>6. FollowInv'
    BY Zenon DEF FollowInv
  <2> QED BY <2>2, PopQueue, <2>4, <2>6, Zenon DEF IInv, ReceiverInv, ReadersInv

\* What the client has got when one more packet is returned to it.
<1>DeliveredMore.
    ASSUME IInv, gop # NoGop, NEW x \in Returned, x.gop = gop,
           delivered' = Append(delivered, x), UNCHANGED <<streams, gop>>,
           x.kind = "media" =>
              /\ \A i \in 1 .. Len(delivered) :
                    delivered[i].kind = "media" => delivered[i].n < x.n
              /\ MediaAt(Append(delivered, x), Len(delivered) + 1, streams[gop + 1]),
           \A kind \in Repeated :
              /\ RepeatedAt(Append(delivered, x), kind, LastGen(kind)')
              /\ LastGen(kind)' <= Gen(streams[gop + 1], kind)
    PROVE  DeliveredInv' /\ delivered' \in Seq(Returned)
  <2> USE <1>DeliveredMore
  <2>d. PICK d : d = delivered
    OBVIOUS
  <2>t. PICK t : t = Append(d, x)
    BY Zenon
  <2>0. d \in Seq(Returned) /\ gop \in Nat
    BY <2>d, Zenon DEF IInv, ReceiverInv, ReceiverTypes
  <2>1. /\ t \in Seq(Returned) /\ Len(t) = Len(d) + 1 /\ Len(d) \in Nat /\ t[Len(d) + 1] = x
        /\ \A j \in 1 .. Len(d) : t[j] = d[j]
        /\ \A j \in 1 .. Len(d) + 1 : j = Len(d) + 1 \/ j \in 1 .. Len(d)
    BY ONLY <2>0, <2>t, <1>Appended, Zenon
  <2>2. ASSUME NEW i \in 1 .. Len(t) PROVE t[i].gop <= gop
    BY <2>0, <2>1, <2>d DEF IInv, ReceiverInv, DeliveredInv
  <2>3. ASSUME NEW i \in 1 .. Len(t), t[i].kind = "media"
        PROVE  MediaAt(t, i, streams[t[i].gop + 1])
    <3>1. CASE i = Len(d) + 1
      BY <2>d, <2>t, <2>1, <2>3, <3>1, Zenon
    <3>2. CASE i \in 1 .. Len(d)
      <4>1. t[i] = d[i]
        BY ONLY <2>1, <3>2
      <4>2. MediaAt(d, i, streams[t[i].gop + 1])
        BY <2>d, <2>3, <3>2, <4>1, Zenon DEF IInv, ReceiverInv, DeliveredInv, MediaInv
      <4>3. x.kind = "media" => d[i].n < x.n
        BY <2>d, <2>3, <3>2, <4>1, Zenon
      <4> QED BY ONLY <2>0, <2>t, <3>2, <4>2, <4>3, <1>MediaAtKept, Zenon
    <3> QED BY ONLY <2>1, <3>1, <3>2, Zenon
  <2>4. delivered' = t
    BY <2>d, <2>t, Zenon
  <2>6. ASSUME NEW kind \in Repeated PROVE RepeatedInv(kind)'
    BY <2>d, <2>t, <2>4, Zenon DEF RepeatedInv
  <2> QED BY <2>1, <2>2, <2>4, <2>3, <2>6, Zenon DEF DeliveredInv, MediaInv

\* The codec or config packet of the stream, filtered out when it is not new.
<1>RepeatedPacket.
    ASSUME IInv, Receive("NewPacket"), gop # NoGop,
           UNCHANGED <<senderVars, streams, driver, accepted, reading_ids, readers, gop>>,
           NEW s, s = streams[gop + 1], NEW r \in readers, NEW c \in {0, 1},
           ~ r.cancelled, c + 1 \in 1 .. Len(s.packets), Followed(c),
           Pending(c + 1, rx', gop, s.packets, r.pos), ReturnPacket(s.packets[c + 1])
    PROVE  IInv'
  <2> USE <1>RepeatedPacket
  <2>k. PICK kind : kind = IF c = 0 THEN "codec" ELSE "config"
    BY Zenon
  <2>n. PICK n : n = Gen(s, kind)
    BY Zenon
  <2>0. gop + 1 \in 1 .. Len(streams) /\ gop \in Nat
    BY ReceiverKnown, Zenon
  <2>1. /\ kind \in Repeated /\ n \in Nat /\ s.codec_gen \in Nat /\ s.config_gen \in Nat
        /\ Len(s.packets) \in Nat /\ Laid(s.packets, s.codec_gen, s.config_gen, media)
    BY <2>k, <2>n, <2>0, StreamKnown, Zenon DEF IInv, StreamOK, Repeated, Gen
  <2>2. s.packets[c + 1] = Packet(kind, n)
    BY <2>k, <2>n, <2>1 DEF Laid, Gen
  <2>x. PICK x : x = [kind |-> kind, n |-> n, gop |-> gop]
    BY Zenon
  <2>3. x \in Returned /\ x.kind = kind /\ x.n = n /\ x.gop = gop /\ kind # "media"
    BY ONLY <2>x, <2>0, <2>1, Zenon DEF Returned, Repeated
  <2>4. /\ last_codec_gen \in Nat /\ last_config_gen \in Nat /\ delivered \in Seq(Returned)
    BY Zenon DEF IInv, ReceiverInv, ReceiverTypes
  <2>5. /\ Taken(delivered, c + 1, gop, s.packets)
        /\ Taken(Append(delivered, x), c + 1, gop, s.packets)
    BY <2>3, <2>4, <1>TakenRepeated, Zenon DEF Followed
  <2>6. /\ c >= 1 => last_codec_gen = s.codec_gen
        /\ c = 0 => kind = "codec" /\ n = s.codec_gen
        /\ c = 1 => kind = "config" /\ n = s.config_gen
    BY <2>k, <2>n DEF Followed, Gen
  <2>7. c + 1 \in 0 .. Len(s.packets) /\ (c + 1 >= 2 <=> c = 1)
    BY <2>1
  <2>8. CASE LastGen(kind) = n
    <3>1. UNCHANGED <<last_codec_gen, last_config_gen, delivered>>
      BY <2>2, <2>6, <2>8 DEF ReturnPacket, Packet, LastGen, Ignore
    <3>3. last_codec_gen = s.codec_gen /\ (c = 1 => last_config_gen = s.config_gen)
      BY ONLY <2>6, <2>8 DEF LastGen
    <3> QED BY <2>4, <2>7, <3>1, DeliveredSame, <2>5, <3>3, <1>PacketTaken, Zenon
       DEF Followed, clientVars, IInv, ReceiverInv
  <2>9. CASE LastGen(kind) # n
    <3>1. /\ delivered' = Append(delivered, x)
          /\ last_codec_gen' = IF c = 0 THEN s.codec_gen ELSE last_codec_gen
          /\ last_config_gen' = IF c = 1 THEN s.config_gen ELSE last_config_gen
      BY <2>2, <2>x, <2>6, <2>9 DEF ReturnPacket, Packet, LastGen
    <3>2. last_codec_gen' = s.codec_gen /\ (c = 1 => last_config_gen' = s.config_gen)
      BY ONLY <2>6, <3>1
    <3>4. ASSUME NEW other \in Repeated
          PROVE  /\ RepeatedAt(delivered, other, LastGen(other)) /\ LastGen(other) \in Nat
                 /\ LastGen(other) <= Gen(s, other)
                 /\ LastGen(other)' = IF other = kind THEN n ELSE LastGen(other)
      BY <2>6, <3>1, <2>4, Zenon
         DEF LastGen, Repeated, IInv, ReceiverInv, DeliveredInv, RepeatedInv
    <3>5. ASSUME NEW other \in Repeated
          PROVE  /\ RepeatedAt(Append(delivered, x), other, LastGen(other)')
                 /\ LastGen(other)' <= Gen(s, other)
      <4>1. CASE other # kind
        BY <2>3, <2>4, <3>4, <4>1, <1>RepeatedAtOther, Zenon
      <4>2. CASE other = kind
        <5>1. LastGen(kind) < n /\ n <= n
          BY ONLY <2>n, <2>1, <2>9, <3>4, <4>2
        <5> QED BY <2>n, <3>4, <4>2, <5>1, <2>3, <2>4, <1>RepeatedAtNew, Zenon
      <4> QED BY <4>1, <4>2, Zenon
    <3>6. DeliveredInv' /\ delivered' \in Seq(Returned)
      BY <2>3, <3>1, <3>5, <1>DeliveredMore, Zenon
    <3>7. last_codec_gen' \in Nat /\ last_config_gen' \in Nat
      BY <2>1, <2>4, <3>1, Zenon
    <3> QED BY <2>7, <2>5, <3>1, <3>2, <3>6, <3>7, <1>PacketTaken, Zenon DEF Followed
  <2> QED BY ONLY <2>8, <2>9

\* A media packet of the stream.
<1>MediaPacket.
    ASSUME IInv, Receive("NewPacket"), gop # NoGop,
           UNCHANGED <<senderVars, streams, driver, accepted, reading_ids, readers, gop>>,
           NEW s, s = streams[gop + 1], NEW r \in readers, NEW c \in Nat, c >= 2,
           ~ r.cancelled, c + 1 \in 1 .. Len(s.packets), Followed(c),
           Pending(c + 1, rx', gop, s.packets, r.pos), ReturnPacket(s.packets[c + 1])
    PROVE  IInv'
  <2> USE <1>MediaPacket
  <2>0. gop + 1 \in 1 .. Len(streams) /\ gop \in Nat /\ Len(streams) \in Nat
    BY ReceiverKnown, Zenon
  <2>1. /\ s.packets \in Seq(Packets) /\ Len(s.packets) \in Nat
        /\ s.codec_gen \in Nat /\ s.config_gen \in Nat
        /\ Laid(s.packets, s.codec_gen, s.config_gen, media)
        /\ \A kind \in Repeated : 0 < Gen(s, kind)
        /\ \A p \in 1 .. Len(s.packets) : s.packets[p].n \in Nat
    BY <2>0, StreamKnown, Zenon DEF IInv, StreamOK
  <2>2. c + 1 \in 3 .. Len(s.packets) /\ \A p \in 3 .. c : p \in 3 .. Len(s.packets) /\ p < c + 1
    BY <2>1
  <2>n. PICK n : n = s.packets[c + 1].n
    BY Zenon
  <2>x. PICK x : x = Media(n, gop)
    BY Zenon
  <2>3. /\ s.packets[c + 1].kind = "media" /\ n \in Nat
    BY <2>n, <2>1, <2>2, Zenon DEF Laid
  <2>4. x \in Returned /\ x.kind = "media" /\ x.n = n /\ x.gop = gop
    BY ONLY <2>x, <2>0, <2>3, Zenon DEF Media, Returned
  <2>5. /\ last_codec_gen \in Nat /\ last_config_gen \in Nat /\ delivered \in Seq(Returned)
    BY Zenon DEF IInv, ReceiverInv, ReceiverTypes
  <2>6. /\ delivered' = Append(delivered, x) /\ UNCHANGED <<last_codec_gen, last_config_gen>>
    BY <2>n, <2>x, <2>3, Zenon DEF ReturnPacket, Media
  <2>7. /\ last_codec_gen = s.codec_gen /\ last_config_gen = s.config_gen
        /\ Taken(delivered, c, gop, s.packets)
    BY DEF Followed
  <2>8. Taken(Append(delivered, x), c + 1, gop, s.packets)
    BY <2>n, <2>x, <2>0, <2>3, <2>5, <2>7, <1>TakenMedia, Zenon
  <2>10. ASSUME NEW kind \in Repeated
         PROVE  /\ RepeatedAt(delivered, kind, LastGen(kind)) /\ LastGen(kind)' = LastGen(kind)
                /\ LastGen(kind) = Gen(s, kind) /\ LastGen(kind) <= Gen(s, kind)
    BY <2>6, <2>7, Zenon DEF IInv, ReceiverInv, DeliveredInv, RepeatedInv, LastGen, Gen
  <2>11. ASSUME NEW kind \in Repeated
         PROVE  /\ RepeatedAt(Append(delivered, x), kind, LastGen(kind)')
                /\ LastGen(kind)' <= Gen(s, kind)
    BY ONLY <2>4, <2>5, <2>10, <1>RepeatedAtOther, Zenon DEF Repeated
  <2>12. MediaAt(Append(delivered, x), Len(delivered) + 1, s)
    <3>1. \A kind \in Repeated : LastBefore(delivered, kind, Len(delivered) + 1, Gen(s, kind))
      BY <2>1, <2>10, Zenon DEF RepeatedAt
    <3>2. c + 1 <= Len(s.packets)
      BY ONLY <2>2
    <3> QED BY <2>n, <2>x, <2>0, <2>1, <2>5, <2>7, <3>1, <3>2, <1>NewMedia, Zenon
  <2>13. ASSUME NEW i \in 1 .. Len(delivered), delivered[i].kind = "media"
         PROVE  delivered[i].n < n
    <3>1. delivered[i] \in Returned /\ delivered[i].gop <= gop
      BY <2>5, ElementOfSeq, Zenon DEF IInv, ReceiverInv, DeliveredInv
    <3>2. delivered[i].gop \in Nat
      BY ONLY <3>1, Zenon DEF Returned
    <3>3. CASE delivered[i].gop = gop
      <4>1. PICK p \in 3 .. c : delivered[i].n = s.packets[p].n
        BY ONLY <2>7, <2>13, <3>3, Zenon DEF Taken
      <4> QED BY <2>n, <4>1, <2>1, <2>2, Zenon DEF Laid
    <3>4. CASE delivered[i].gop < gop
      <4>g. PICK g : g = delivered[i].gop + 1
        BY Zenon
      <4>1. g \in 1 .. Len(streams) /\ g < gop + 1
        BY ONLY <4>g, <2>0, <3>2, <3>4
      <4>2. PICK p \in 3 .. Len(streams[g].packets) : delivered[i].n = streams[g].packets[p].n
        BY <4>g, <2>13, Zenon DEF IInv, ReceiverInv, DeliveredInv, MediaInv, MediaAt
      <4> QED BY <2>n, <4>2, <2>2, <2>0, <4>1, Zenon DEF Before, IInv, StreamsInv, Later
    <3> QED BY ONLY <2>0, <3>1, <3>2, <3>3, <3>4
  <2>14. DeliveredInv' /\ delivered' \in Seq(Returned)
    BY <2>4, <2>6, <2>11, <2>12, <2>13, <1>DeliveredMore, Zenon
  <2>15. last_codec_gen' \in Nat /\ last_config_gen' \in Nat
    BY <2>5, <2>6, Zenon
  <2>16. c + 1 \in 0 .. Len(s.packets)
    BY <2>1
  <2> QED BY <2>6, <2>7, <2>8, <2>14, <2>15, <2>16, <1>PacketTaken, Zenon DEF Followed

<1> SUFFICES ASSUME IInv, RecvNewPacket PROVE IInv'
  OBVIOUS
<1>1. /\ Receive("NewPacket")
      /\ UNCHANGED <<senderVars, streams, driver, accepted, reading_ids, readers, gop>>
  BY DEF RecvNewPacket
<1>2. CASE Head(rx).gop # gop
  <2>2. \A g \in reading_ids' : g \in Nat /\ g < Len(streams)
    BY <1>1 DEF IInv, ReceiverInv, ReceiverTypes
  <2> QED BY <1>1, <1>2, <2>2, ReceiveOther, Zenon DEF OfStream, RecvNewPacket, Ignore, clientVars
<1>3. CASE Head(rx).gop = gop
  <2>s. PICK s : s = streams[gop + 1]
    OBVIOUS
  <2>1. gop # NoGop /\ ReturnPacket(Head(rx).packet)
    BY <1>1, <1>3, ReceiveKnown, Zenon DEF RecvNewPacket
  <2>2. PICK r \in readers, c \in Nat :
           /\ ~ r.cancelled /\ c + 1 \in 1 .. Len(s.packets)
           /\ Head(rx).packet = s.packets[c + 1]
           /\ Followed(c) /\ Pending(c + 1, rx', gop, s.packets, r.pos)
    BY <2>s, <1>1, <1>3, <2>1, <1>NextPacket, Zenon
  <2>3. ReturnPacket(s.packets[c + 1])
    BY <2>1, <2>2
  <2>4. CASE c >= 2
    BY <2>s, <1>1, <2>1, <2>2, <2>3, <2>4, <1>MediaPacket, Zenon
  <2>5. CASE c \in {0, 1}
    BY <2>s, <1>1, <2>1, <2>2, <2>3, <2>5, <1>RepeatedPacket, Zenon
  <2> QED BY <2>2, <2>4, <2>5
<1> QED BY <1>2, <1>3

LEMMA RecvNewStreamStep ==
    ASSUME IInv, RecvNewStream
    PROVE  IInv'
<1>1. /\ Receive("NewStream") /\ reading_ids' = reading_ids \cup {Head(rx).gop}
      /\ UNCHANGED <<senderVars, streams, driver, accepted, readers, clientVars>>
  BY DEF RecvNewStream
<1>2. /\ Head(rx).kind = "NewStream" /\ Head(rx).gop \in Nat /\ Head(rx).gop < Len(streams)
  BY <1>1, ReceiveKnown, Zenon
<1>3. ~ OfStream(Head(rx), gop)
  BY <1>2 DEF OfStream
<1> QED BY <1>1, <1>3, <1>2, ReceiveOther, Zenon DEF IInv, ReceiverInv, ReceiverTypes

LEMMA RecvStreamIdsStep == IInv /\ RecvStreamIds => IInv'
\* Nothing has been read from the stream.
<1>PendingNew.
    ASSUME NEW q, Len(q) \in Nat, NEW g, NEW ps, Len(ps) \in Nat,
           \A n \in 1 .. Len(q) : ~ OfStream(q[n], g)
    PROVE  Pending(0, q, g, ps, 0)
  <2> USE <1>PendingNew
  <2> DEFINE walk == [n \in 0 .. Len(q) |-> 0]
  <2>1. walk \in [0 .. Len(q) -> 0 .. Len(ps)]
    OBVIOUS
  <2>2. walk[0] = 0 /\ walk[Len(q)] = 0 /\ \A n \in 1 .. Len(q) : walk[n] = walk[n - 1]
    OBVIOUS
  <2> HIDE DEF walk
  <2> QED BY <2>1, <2>2, Zenon DEF Pending, Walk

\* The ids of a newer stream: nothing of it has been read or returned yet.
<1>NewerStream.
    ASSUME IInv, RecvStreamIds, IsNewer(Head(rx).gop)
    PROVE  IInv'
  <2> USE <1>NewerStream
  <2>g. PICK g : g = Head(rx).gop
    OBVIOUS
  <2>0. /\ UNCHANGED <<senderVars, streams, driver, accepted, reading_ids>>
        /\ UNCHANGED <<last_codec_gen, last_config_gen, delivered>>
        /\ gop' = g /\ Receive("StreamIds")
        /\ readers' = {[r EXCEPT !.cancelled = TRUE] : r \in readers}
                         \cup {[gop |-> g, pos |-> 0, cancelled |-> FALSE]}
    BY <2>g, Zenon DEF RecvStreamIds
  <2>1. /\ driver = "running" /\ rx' \in Seq(Messages) /\ Len(rx') \in Nat
        /\ Len(rx') <= Capacity /\ g \in Nat /\ g < Len(streams)
        /\ \A n \in 1 .. Len(rx') : n + 1 \in 1 .. Len(rx) /\ rx'[n] = rx[n + 1]
    BY <2>0, <2>g, ReceiveKnown, Zenon
  <2>2. /\ gop \in Nat /\ (gop = NoGop \/ gop < g) /\ Len(streams) \in Nat
        /\ Len(streams) <= MaxGops
    BY <2>g, ReceiverKnown, SenderKnown, Zenon DEF IsNewer, IInv
  <2>3. g # NoGop /\ g + 1 \in 1 .. Len(streams)
    BY <2>1, <2>2 DEF NoGop
  <2>z. PICK z : z = [gop |-> g, pos |-> 0, cancelled |-> FALSE]
    BY Zenon
  <2>5. /\ z \in Readers /\ z \in readers' /\ z.gop = g /\ z.pos = 0 /\ ~ z.cancelled
    BY <2>0, <2>z, <2>1 DEF Readers
  <2>6. ASSUME NEW x \in readers', x # z
        PROVE  x \in Readers /\ x.cancelled /\ x.gop \in Nat /\ x.gop < g
    <3>1. PICK r \in readers : x = [r EXCEPT !.cancelled = TRUE]
      BY <2>0, <2>z, <2>6
    <3>2. r \in Readers /\ r.gop \in Nat /\ gop # NoGop /\ r.gop <= gop
      BY ReceiverKnown, Zenon DEF IInv, ReceiverInv, ReadersInv
    <3>3. x \in Readers /\ x.cancelled /\ x.gop = r.gop
      BY <3>1, <3>2, Zenon DEF Readers
    <3> QED BY <2>1, <2>2, <3>2, <3>3
  <2>7. ReadersInv'
    <3>1. ASSUME NEW x \in readers'
          PROVE  /\ x.gop <= g
                 /\ ~ x.cancelled => x.gop = g
                 /\ x.cancelled => x.gop < g
      BY <2>1, <2>5, <2>6
    <3>2. ASSUME NEW x \in readers', NEW y \in readers', ~ x.cancelled, ~ y.cancelled
          PROVE  x = y
      BY <2>6, <3>2
    <3> QED BY <2>0, <3>1, <3>2, <2>3, Zenon DEF ReadersInv
  <2>9. ReceiverTypes'
    BY <2>0, <2>1, <2>3, <2>5, <2>6, Zenon DEF IInv, ReceiverInv, ReceiverTypes
  <2>10. ASSUME NEW n \in 1 .. Len(rx')
         PROVE  /\ rx'[n].gop < Len(streams)
                /\ rx'[n].kind = "NewPacket" => rx'[n].gop < g /\ rx'[n].gop \in Nat
    <3>1. n + 1 \in 1 .. Len(rx) /\ rx'[n] = rx[n + 1] /\ rx[n + 1].gop \in Nat
      BY <2>1, ReceiverKnown, Zenon
    <3>2. /\ rx[n + 1].gop < Len(streams)
          /\ rx[n + 1].kind = "NewPacket" => gop # NoGop /\ rx[n + 1].gop <= gop
      BY <3>1, Zenon DEF IInv, ReceiverInv, QueueInv
    <3> QED BY <2>1, <2>2, <3>1, <3>2
  <2>11. QueueInv'
    <3>1. \A a \in Nat : a < g => a <= g
      BY <2>1
    <3> QED BY ONLY <2>0, <2>3, <2>10, <3>1, Zenon DEF QueueInv
  <2>12. ASSUME NEW i \in 1 .. Len(delivered) PROVE delivered[i].gop \in Nat /\ delivered[i].gop < g
    <3>1. /\ delivered \in Seq(Returned) /\ delivered[i].gop <= gop /\ (gop = NoGop => delivered = <<>>)
      BY Zenon DEF IInv, ReceiverInv, ReceiverTypes, DeliveredInv
    <3>3. delivered[i].gop \in Nat
      <4>1. delivered[i] \in Returned
        BY <3>1, ElementOfSeq
      <4> QED BY <4>1 DEF Returned
    <3> QED BY <2>1, <2>2, <3>1, EmptySeq, <3>3
  <2>13. FollowInv'
    <3>p. PICK ps : ps = streams[g + 1].packets
      OBVIOUS
    <3>1. Len(ps) \in Nat
      BY <2>3, <3>p, StreamKnown, Zenon DEF IInv
    <3>3. Pending(0, rx', g, ps, 0)
      BY <2>1, <3>1, <2>10, <1>PendingNew DEF OfStream
    <3>4. Taken(delivered, 0, g, ps)
      BY <2>1, <2>12 DEF Taken
    <3>6. 0 \in 0 .. Len(ps)
      BY <3>1
    <3> QED BY ONLY <2>0, <2>5, <3>p, <3>3, <3>4, <3>6 DEF FollowInv, Followed
  <2>14. ASSUME NEW kind \in Repeated PROVE RepeatedInv(kind)'
    <3>1. RepeatedInv(kind) /\ LastGen(kind)' = LastGen(kind)
      BY <2>0, Zenon DEF IInv, ReceiverInv, DeliveredInv, LastGen
    <3>2. LastGen(kind) \in Nat
      BY DEF IInv, ReceiverInv, ReceiverTypes, LastGen
    <3>3. Gen(streams[g + 1], kind) \in Nat
      BY <2>3, StreamKnown, Zenon DEF IInv, Gen
    <3>4. LastGen(kind) <= Gen(streams[g + 1], kind)
      <4>1. CASE gop = NoGop
        BY <3>1, <3>3, <4>1 DEF RepeatedInv
      <4>2. CASE gop # NoGop
        <5>1. gop + 1 \in 1 .. Len(streams) /\ gop + 1 < g + 1
          BY <2>1, <2>2, <4>2, ReceiverKnown
        <5>2. Gen(streams[gop + 1], kind) \in Nat
          BY <5>1, StreamKnown, Zenon DEF IInv, Gen
        <5> QED BY <3>2, <3>3, <5>2, <2>3, <5>1, <3>1, <4>2
           DEF RepeatedInv, IInv, StreamsInv, Later
      <4> QED BY <4>1, <4>2
    <3> QED BY ONLY <2>0, <2>3, <3>1, <3>4, Zenon DEF RepeatedInv
  <2>15. DeliveredInv'
    <3>2. \A i \in 1 .. Len(delivered) : delivered[i].gop <= g
      BY <2>1, <2>12
    <3> QED BY <2>0, <2>3, <2>14, <3>2, Zenon DEF DeliveredInv, IInv, ReceiverInv, MediaInv
  <2> QED BY <2>0, StreamsSame, <2>7, <2>9, <2>11, <2>13, <2>15, Zenon DEF IInv, ReceiverInv

<1> SUFFICES ASSUME IInv, RecvStreamIds PROVE IInv'
  OBVIOUS
<1>1. ASSUME ~ IsNewer(Head(rx).gop) PROVE IInv'
  <2>1. /\ Receive("StreamIds") /\ UNCHANGED reading_ids
        /\ UNCHANGED <<senderVars, streams, driver, accepted, readers, clientVars>>
    BY <1>1 DEF RecvStreamIds, clientVars
  <2>2. ~ OfStream(Head(rx), gop)
    BY <2>1, ReceiveKnown DEF OfStream
  <2> QED BY <2>1, <2>2, ReceiveOther, Zenon DEF IInv, ReceiverInv, ReceiverTypes
<1> QED BY <1>1, <1>NewerStream

-----------------------------------------------------------------------------

\* The steps of the sender.
LEMMA SenderSteps ==
    \A written \in BOOLEAN :
        IInv /\ (SendCodec \/ SendConfig \/ SendKey \/ SendDelta \/ SendKeyFails(written)) => IInv'
<1>ExceptSeq.
    ASSUME NEW S, NEW seq \in Seq(S), NEW i \in 1 .. Len(seq), NEW e \in S
    PROVE  /\ [seq EXCEPT ![i] = e] \in Seq(S) /\ Len([seq EXCEPT ![i] = e]) = Len(seq)
           /\ \A j \in 1 .. Len(seq) : [seq EXCEPT ![i] = e][j] = IF j = i THEN e ELSE seq[j]
  BY <1>ExceptSeq

<1>SeqOfFunction.
    ASSUME NEW S, NEW n \in Nat, NEW f \in [1 .. n -> S]
    PROVE  f \in Seq(S) /\ Len(f) = n
  BY <1>SeqOfFunction

(***************************************************************************)
(* The queue.  A stream that grows does not disturb what is in it.         *)
(***************************************************************************)
<1>PendingGrow.
    ASSUME NEW q, Len(q) \in Nat, NEW g, NEW c, NEW pos, NEW ps, NEW more,
           Len(ps) \in Nat, Len(more) \in Nat, Len(ps) <= Len(more),
           \A p \in 1 .. Len(ps) : more[p] = ps[p],
           Pending(c, q, g, ps, pos)
    PROVE  Pending(c, q, g, more, pos)
  <2> USE <1>PendingGrow
  <2>1. PICK walk \in [0 .. Len(q) -> 0 .. Len(ps)] :
           walk[0] = c /\ walk[Len(q)] = pos /\ Walk(walk, q, g, ps)
    BY DEF Pending
  <2>2. walk \in [0 .. Len(q) -> 0 .. Len(more)]
    BY <2>1
  <2>3. ASSUME NEW n \in 1 .. Len(q), OfStream(q[n], g)
        PROVE  walk[n] = walk[n - 1] + 1 /\ q[n].packet = more[walk[n]]
    <3>1. walk[n] = walk[n - 1] + 1 /\ q[n].packet = ps[walk[n]]
      BY ONLY <2>1, <2>3, Zenon DEF Walk
    <3>2. walk[n] \in 1 .. Len(ps)
      BY <2>1, <3>1
    <3> QED BY <3>1, <3>2, Zenon
  <2>4. Walk(walk, q, g, more)
    BY ONLY <2>1, <2>3, Zenon DEF Walk
  <2> QED BY <2>1, <2>2, <2>4, Zenon DEF Pending

(***************************************************************************)
(* The sender.  How a stream is laid out survives what is sent next.       *)
(***************************************************************************)
<1>LaidMore.
    ASSUME NEW ps \in Seq(Packets), NEW codec, NEW config, NEW m \in Nat, NEW k \in Nat,
           m <= k, Laid(ps, codec, config, m)
    PROVE  Laid(ps, codec, config, k)
  <2> USE <1>LaidMore
  <2> QED BY PacketNumbers DEF Laid

<1>LaidAppend.
    ASSUME NEW ps \in Seq(Packets), NEW codec, NEW config, NEW m \in Nat,
           Laid(ps, codec, config, m), Len(ps) >= 2,
           NEW more, more = Append(ps, Packet("media", m + 1))
    PROVE  /\ more \in Seq(Packets) /\ Len(more) = Len(ps) + 1 /\ Len(ps) \in Nat
           /\ \A p \in 1 .. Len(ps) : more[p] = ps[p]
           /\ more[Len(ps) + 1] = Packet("media", m + 1)
           /\ Laid(more, codec, config, m + 1)
  <2> USE <1>LaidAppend
  <2> DEFINE x == Packet("media", m + 1)
  <2>1. x \in Packets /\ x.kind = "media" /\ x.n = m + 1
    BY DEF Packet, Packets
  <2> HIDE DEF x
  <2>2. /\ more \in Seq(Packets) /\ Len(more) = Len(ps) + 1 /\ Len(ps) \in Nat
        /\ \A p \in 1 .. Len(ps) : more[p] = ps[p]
        /\ more[Len(ps) + 1] = x
    BY <2>1, AppendProperties, LenProperties DEF x
  <2>4. more[1] = Packet("codec", codec) /\ more[2] = Packet("config", config)
    BY <2>2 DEF Laid
  <2>5. \A p \in 3 .. Len(ps) : more[p].kind = "media" /\ more[p].n <= m /\ more[p].n \in Nat
    BY <2>2, PacketNumbers DEF Laid
  <2>6. \A p \in 3 .. Len(more) : more[p].kind = "media" /\ more[p].n <= m + 1
    BY ONLY <2>1, <2>2, <2>5
  <2>7. ASSUME NEW p \in 3 .. Len(more), NEW r \in 3 .. Len(more), p < r
        PROVE  more[p].n < more[r].n
    <3>1. p \in 3 .. Len(ps)
      BY <2>2, <2>7
    <3>2. CASE r = Len(ps) + 1
      BY ONLY <2>1, <2>2, <2>5, <3>1, <3>2
    <3>3. CASE r # Len(ps) + 1
      <4>1. r \in 3 .. Len(ps)
        BY <2>2, <3>3
      <4> QED BY <2>2, <3>1, <4>1, <2>7 DEF Laid
    <3> QED BY ONLY <3>2, <3>3, Zenon
  <2> QED BY <2>2, <2>4, <2>6, <2>7, Zenon DEF x, Laid

<1>LaidRepeated.
    ASSUME SenderTypes
    PROVE  /\ RepeatedPackets \in Seq(Packets) /\ Len(RepeatedPackets) = 2
           /\ Laid(RepeatedPackets, codec_gen, config_gen, media)
           /\ <<>> \in Seq(Packets) /\ Len(<<>>) = 0
           /\ Laid(<<>>, codec_gen, config_gen, media)
  <2> USE <1>LaidRepeated
  <2>2. /\ RepeatedPackets \in Seq(Packets) /\ Len(RepeatedPackets) = 2
        /\ RepeatedPackets[1] = Packet("codec", codec_gen)
        /\ RepeatedPackets[2] = Packet("config", config_gen)
    BY DEF RepeatedPackets, SenderTypes, Packet, Packets
  <2>4. <<>> \in Seq(Packets) /\ Len(<<>>) = 0
    BY EmptySeq
  <2> QED BY <2>2, <2>4 DEF Laid

\* A stream that no step of the sender changes.
<1>GrowsSame.
    ASSUME NEW s, NEW t, Len(s.packets) \in Nat,
           t.codec_gen = s.codec_gen, t.config_gen = s.config_gen, t.ids = s.ids,
           t.packets = s.packets
    PROVE  Grows(s, t)
  BY <1>GrowsSame DEF Grows

<1>StreamStays.
    ASSUME StreamsInv, NEW i \in 1 .. Len(streams), NEW t, media' \in Nat, media <= media',
           \A kind \in Repeated : SentGen(kind)' \in Nat /\ SentGen(kind) <= SentGen(kind)',
           t.codec_gen = streams[i].codec_gen, t.config_gen = streams[i].config_gen,
           t.packets = streams[i].packets
    PROVE  StreamOK(t)'
  <2> USE <1>StreamStays
  <2>1. /\ Laid(streams[i].packets, streams[i].codec_gen, streams[i].config_gen, media)
        /\ \A kind \in Repeated :
              0 < Gen(streams[i], kind) /\ Gen(streams[i], kind) <= SentGen(kind)
    BY StreamKnown, Zenon DEF StreamOK
  <2>3. ASSUME NEW kind \in Repeated PROVE 0 < Gen(t, kind) /\ Gen(t, kind) <= SentGen(kind)'
    <3>1. Gen(t, kind) = Gen(streams[i], kind)
      BY DEF Gen
    <3>2. Gen(streams[i], kind) \in Nat
      BY StreamKnown, Zenon DEF Gen
    <3> QED BY <2>1, <3>1, <3>2, SenderKnown
  <2> QED BY <2>1, StreamKnown, SenderKnown, <1>LaidMore, <2>3, Zenon DEF StreamOK

(***************************************************************************)
(* A key frame opens a stream that is newer than all others.               *)
(***************************************************************************)
<1>AddStream.
    ASSUME StreamsInv, CanSendKey, NEW fin \in Seq(Streams), Len(fin) = Len(streams),
           \A i \in 1 .. Len(streams) :
              /\ fin[i].codec_gen = streams[i].codec_gen /\ fin[i].ids = streams[i].ids
              /\ fin[i].config_gen = streams[i].config_gen /\ fin[i].packets = streams[i].packets,
           NEW ids \in BOOLEAN, NEW ps \in Seq(Packets),
           streams' = Append(fin, NewStream(ids, ps)), UNCHANGED <<codec_gen, config_gen>>,
           media' \in Nat, media <= media', Laid(ps, codec_gen, config_gen, media'),
           \A p \in 3 .. Len(ps) : ps[p].n > media
    PROVE  /\ streams' \in Seq(Streams) /\ Len(streams') = Len(streams) + 1
           /\ streams'[Len(streams) + 1].packets = ps
           /\ \A i \in 1 .. Len(streams') : StreamOK(streams[i])'
           /\ \A i, j \in 1 .. Len(streams') : i < j => Later(streams'[i], streams'[j])
           /\ StreamsGrow
  <2> USE <1>AddStream
  <2> DEFINE x == NewStream(ids, ps)
             n == Len(streams)
  <2>1. /\ n \in Nat /\ codec_gen \in Nat /\ config_gen \in Nat /\ media \in Nat
        /\ codec_gen > 0 /\ config_gen > 0
    BY SenderKnown, Zenon DEF CanSendKey
  <2>2. /\ x \in Streams /\ x.codec_gen = codec_gen /\ x.config_gen = config_gen
        /\ x.packets = ps
    BY ONLY <2>1, Zenon DEF NewStream, Streams
  <2> HIDE DEF x
  <2>3. /\ streams' \in Seq(Streams) /\ Len(streams') = n + 1 /\ streams'[n + 1] = x
        /\ \A i \in 1 .. n : streams'[i] = fin[i]
    BY <2>2, AppendProperties DEF x
  <2>4. \A i \in 1 .. n :
           /\ streams'[i].codec_gen = streams[i].codec_gen /\ streams'[i].ids = streams[i].ids
           /\ streams'[i].config_gen = streams[i].config_gen
           /\ streams'[i].packets = streams[i].packets
    BY <2>3, Zenon
  <2>5. \A kind \in Repeated : /\ SentGen(kind)' = SentGen(kind) /\ SentGen(kind) \in Nat
                               /\ Gen(x, kind) = SentGen(kind) /\ SentGen(kind) > 0
    BY <2>1, <2>2, Zenon DEF SentGen, Gen, Repeated
  <2>6. ASSUME NEW i \in 1 .. n + 1 PROVE StreamOK(streams[i])'
    <3>1. CASE i = n + 1
      BY <2>2, <2>5, <2>3, <3>1 DEF StreamOK
    <3>2. CASE i \in 1 .. n
      BY <2>4, <2>5, <3>2, <1>StreamStays DEF StreamOK
    <3> QED BY ONLY <2>1, <3>1, <3>2
  <2>7. ASSUME NEW i \in 1 .. n + 1, NEW j \in 1 .. n + 1, i < j
        PROVE  Later(streams'[i], streams'[j])
    <3>0. i \in 1 .. n
      BY ONLY <2>1, <2>7
    <3>1. CASE j = n + 1
      <4>1. /\ StreamOK(streams[i]) /\ streams[i].packets \in Seq(Packets)
        BY <3>0, StreamKnown, Zenon
      <4>2. Before(streams[i].packets, ps)
        <5>1. \A p \in 3 .. Len(streams[i].packets) :
                 streams[i].packets[p].n <= media /\ streams[i].packets[p].n \in Nat
          BY <4>1, PacketNumbers, Zenon DEF StreamOK, Laid
        <5>3. ASSUME NEW p \in 3 .. Len(streams[i].packets), NEW q \in 3 .. Len(ps)
              PROVE  streams[i].packets[p].n < ps[q].n
          <6>3. \A a, b, m \in Nat : a <= m /\ b > m => a < b
            OBVIOUS
          <6> QED BY <2>1, <5>1, PacketNumbers, <6>3, Zenon
        <5> QED BY ONLY <5>3, Zenon DEF Before
      <4>3. \A kind \in Repeated : Gen(streams'[i], kind) <= Gen(x, kind)
        BY ONLY <2>4, <2>5, <3>0, <4>1, Zenon DEF StreamOK, Gen
      <4> QED BY ONLY <2>2, <2>3, <2>4, <3>0, <3>1, <4>2, <4>3, Zenon DEF Later
    <3>2. CASE j \in 1 .. n
      <4> QED BY <2>4, <3>0, <3>2, <2>7 DEF Later, Gen, StreamsInv
    <3> QED BY ONLY <2>1, <3>1, <3>2
  <2>8. StreamsGrow
    <3>1. ASSUME NEW i \in 1 .. n PROVE Grows(streams[i], streams'[i])
      <4>1. Len(streams[i].packets) \in Nat
        BY StreamKnown, Zenon
      <4> QED BY <2>4, <4>1, <1>GrowsSame, Zenon
    <3> QED BY <2>1, <2>3, <3>1 DEF StreamsGrow
  <2> QED BY ONLY <2>2, <2>3, <2>6, <2>7, <2>8, Zenon

<1>SendKeyStep.
    ASSUME StreamsInv, SendKey
    PROVE  StreamsInv' /\ StreamsGrow
  <2> USE <1>SendKeyStep
  <2> DEFINE fin == [g \in 1 .. Len(streams) |->
                       IF g = current_stream + 1 THEN [streams[g] EXCEPT !.state = "finished"]
                                                 ELSE streams[g]]
             ps == Append(RepeatedPackets, Packet("media", media + 1))
  <2>1. /\ CanSendKey /\ streams' = Append(fin, NewStream(TRUE, ps))
        /\ current_stream' = Len(streams) /\ media' = media + 1
        /\ UNCHANGED <<sender, codec_gen, config_gen>>
    BY Zenon DEF SendKey
  <2>2. /\ Len(streams) \in Nat /\ Len(streams) < MaxGops /\ media \in Nat /\ media < MaxMedia
        /\ SenderTypes
    BY <2>1, SenderKnown, Zenon DEF CanSendKey, StreamsInv
  <2>3. ASSUME NEW i \in 1 .. Len(streams)
        PROVE  /\ fin[i] \in Streams
               /\ fin[i].codec_gen = streams[i].codec_gen /\ fin[i].ids = streams[i].ids
               /\ fin[i].config_gen = streams[i].config_gen /\ fin[i].packets = streams[i].packets
    <3>2. fin[i] = IF i = current_stream + 1 THEN [streams[i] EXCEPT !.state = "finished"]
                                             ELSE streams[i]
      OBVIOUS
    <3> HIDE DEF fin
    <3> QED BY StreamKnown, <3>2, Zenon DEF Streams
  <2>4. fin \in Seq(Streams) /\ Len(fin) = Len(streams)
    <3>1. fin \in [1 .. Len(streams) -> Streams]
      BY <2>3
    <3> HIDE DEF fin
    <3> QED BY <2>2, <3>1, <1>SeqOfFunction
  <2>5. /\ ps \in Seq(Packets) /\ Len(ps) = 3 /\ Laid(ps, codec_gen, config_gen, media + 1)
        /\ ps[3] = Packet("media", media + 1)
    <3>1. /\ RepeatedPackets \in Seq(Packets) /\ Len(RepeatedPackets) = 2
          /\ Laid(RepeatedPackets, codec_gen, config_gen, media)
      BY <2>2, <1>LaidRepeated
    <3> HIDE DEF ps
    <3>2. /\ ps \in Seq(Packets) /\ Len(ps) = Len(RepeatedPackets) + 1
          /\ ps[Len(RepeatedPackets) + 1] = Packet("media", media + 1)
          /\ Laid(ps, codec_gen, config_gen, media + 1)
      <4>1. Len(RepeatedPackets) >= 2 /\ media \in Nat
        BY <2>2, <3>1
      <4>2. ps = Append(RepeatedPackets, Packet("media", media + 1))
        BY DEF ps
      <4>3. Laid(RepeatedPackets, codec_gen, config_gen, media)
        BY <3>1
      <4>4. RepeatedPackets \in Seq(Packets)
        BY <3>1
      <4>5. Laid(ps, codec_gen, config_gen, media + 1)
        BY ONLY <4>1, <4>2, <4>3, <4>4, <1>LaidAppend, Zenon
      <4>6. ps \in Seq(Packets)
        BY ONLY <4>1, <4>2, <4>3, <4>4, <1>LaidAppend, Zenon
      <4>7. Len(ps) = Len(RepeatedPackets) + 1
        BY ONLY <4>1, <4>2, <4>3, <4>4, <1>LaidAppend
      <4>8. ps[Len(RepeatedPackets) + 1] = Packet("media", media + 1)
        BY ONLY <4>1, <4>2, <4>3, <4>4, <1>LaidAppend
      <4> QED BY <4>5, <4>6, <4>7, <4>8
    <3> QED BY <3>1, <3>2
  <2>6. \A p \in 3 .. Len(ps) : ps[p].n > media
    BY <2>2, <2>5 DEF Packet
  <2> HIDE DEF fin, ps
  <2>7. /\ streams' \in Seq(Streams) /\ Len(streams') = Len(streams) + 1
        /\ streams'[Len(streams) + 1].packets = ps
        /\ \A i \in 1 .. Len(streams') : StreamOK(streams[i])'
        /\ \A i, j \in 1 .. Len(streams') : i < j => Later(streams'[i], streams'[j])
        /\ StreamsGrow
    <3>1. media' \in Nat /\ media <= media' /\ Laid(ps, codec_gen, config_gen, media')
      BY <2>1, <2>2, <2>5
    <3> QED BY <2>1, <2>3, <2>4, <2>5, <2>6, <3>1, <1>AddStream, Zenon
  <2>8. SenderTypes'
    <3>1. current_stream' \in Gops /\ media' \in 0 .. MaxMedia /\ Len(streams') <= MaxGops
      BY <2>1, <2>2, <2>7 DEF Gops
    <3> QED BY <2>1, <2>2, <2>7, <3>1, Zenon DEF SenderTypes, Gops, NoGop
  <2>9. current_stream' # NoGop /\ Len(streams') = current_stream' + 1
        /\ Len(streams'[Len(streams')].packets) >= 2
    BY <2>7, <2>5, <2>1, <2>2 DEF NoGop
  <2> QED BY ONLY <2>7, <2>8, <2>9, Zenon DEF StreamsInv

<1>SendKeyFailsStep.
    ASSUME StreamsInv, NEW ids \in BOOLEAN, SendKeyFails(ids)
    PROVE  StreamsInv' /\ StreamsGrow
  <2> USE <1>SendKeyFailsStep
  <2> DEFINE ps == IF ids THEN RepeatedPackets ELSE <<>>
  <2>1. /\ CanSendKey /\ streams' = Append(streams, NewStream(ids, ps)) /\ sender' = "failed"
        /\ UNCHANGED <<codec_gen, config_gen, current_stream, media>>
    BY DEF SendKeyFails
  <2>2. /\ Len(streams) \in Nat /\ Len(streams) < MaxGops /\ media \in Nat
        /\ SenderTypes /\ streams \in Seq(Streams)
    BY <2>1, SenderKnown, Zenon DEF CanSendKey, StreamsInv
  <2>3. ps \in Seq(Packets) /\ Len(ps) <= 2 /\ Len(ps) \in Nat /\ Laid(ps, codec_gen, config_gen, media)
    <3>1. CASE ids
      <4>1. ps = RepeatedPackets
        BY <3>1
      <4> HIDE DEF ps
      <4>3. Len(ps) = 2
        BY <2>2, <4>1, <1>LaidRepeated, Zenon
      <4> QED BY <2>2, <4>1, <1>LaidRepeated, <4>3
    <3>2. CASE ~ ids
      <4>1. ps = <<>>
        BY <3>2
      <4> HIDE DEF ps
      <4> QED BY <2>2, <1>LaidRepeated, <4>1, EmptySeq
    <3> QED BY <3>1, <3>2
  <2> HIDE DEF ps
  <2>4. /\ streams' \in Seq(Streams) /\ Len(streams') = Len(streams) + 1
        /\ \A i \in 1 .. Len(streams') : StreamOK(streams[i])'
        /\ \A i, j \in 1 .. Len(streams') : i < j => Later(streams'[i], streams'[j])
        /\ StreamsGrow
    BY <2>1, <2>2, <2>3, <1>AddStream
  <2> QED BY <2>1, <2>4, <2>2 DEF StreamsInv, SenderTypes

(***************************************************************************)
(* A step that leaves the streams alone.                                   *)
(***************************************************************************)
<1>QuietSender.
    ASSUME StreamsInv, SenderTypes', streams' = streams, media <= media',
           UNCHANGED <<sender, current_stream>>,
           \A kind \in Repeated : SentGen(kind) <= SentGen(kind)'
    PROVE  StreamsInv' /\ StreamsGrow
  <2> USE <1>QuietSender
  <2>1. media' \in Nat /\ \A kind \in Repeated : SentGen(kind)' \in Nat
    BY DEF SenderTypes, SentGen
  <2>4. StreamsInv'
    BY <2>1, <1>StreamStays, Zenon DEF StreamsInv, StreamOK
  <2>5. ASSUME NEW i \in 1 .. Len(streams) PROVE Grows(streams[i], streams'[i])
    BY StreamKnown, <1>GrowsSame, Zenon
  <2> QED BY <2>4, <2>5, SenderKnown DEF StreamsGrow

<1>SendRepeatedStep.
    ASSUME StreamsInv, SendCodec \/ SendConfig
    PROVE  StreamsInv' /\ StreamsGrow
  <2> USE <1>SendRepeatedStep
  <2>1. /\ UNCHANGED <<sender, current_stream, media, streams>>
        /\ codec_gen' \in {codec_gen, codec_gen + 1} /\ codec_gen' <= MaxCodecs
        /\ config_gen' \in {config_gen, config_gen + 1} /\ config_gen' <= MaxConfigs
    BY DEF SendCodec, SendConfig, StreamsInv, SenderTypes
  <2>2. SenderTypes'
    BY <2>1 DEF StreamsInv, SenderTypes
  <2> QED BY <2>1, <2>2, SenderKnown, <1>QuietSender DEF SentGen

(***************************************************************************)
(* A delta frame is appended to the last stream; without a stream it is    *)
(* not sent at all.                                                        *)
(***************************************************************************)
<1>SendDeltaStep.
    ASSUME StreamsInv, SendDelta
    PROVE  StreamsInv' /\ StreamsGrow
  <2> USE <1>SendDeltaStep
  <2>1. /\ sender = "running" /\ media < MaxMedia /\ media' = media + 1
        /\ UNCHANGED <<sender, codec_gen, config_gen, current_stream>>
        /\ IF current_stream = NoGop
           THEN UNCHANGED streams
           ELSE streams' = [streams EXCEPT ![current_stream + 1].packets =
                               Append(@, Packet("media", media + 1))]
    BY Zenon DEF SendDelta
  <2>2. /\ media \in Nat /\ media' \in Nat /\ media <= media' /\ Len(streams) \in Nat
        /\ streams \in Seq(Streams)
        /\ \A kind \in Repeated : SentGen(kind)' = SentGen(kind) /\ SentGen(kind) \in Nat
    BY <2>1, SenderKnown DEF SentGen
  <2>3. CASE current_stream = NoGop
    BY <2>1, <2>3, <2>2, <1>QuietSender DEF StreamsInv, SenderTypes
  <2>4. CASE current_stream # NoGop
    <3>n. PICK n : n = Len(streams)
      BY Zenon
    <3>m. PICK more : more = Append(streams[n].packets, Packet("media", media + 1))
      BY Zenon
    <3>1. n = current_stream + 1 /\ n \in 1 .. Len(streams) /\ Len(streams[n].packets) >= 2
      BY <2>1, <2>2, <2>4, <3>n DEF StreamsInv, SenderTypes, Gops
    <3>2. /\ streams[n] \in Streams /\ streams[n].packets \in Seq(Packets)
          /\ StreamOK(streams[n])
      BY <3>1, StreamKnown, Zenon
    <3>4. /\ more \in Seq(Packets) /\ Len(more) = Len(streams[n].packets) + 1
          /\ Len(streams[n].packets) \in Nat
          /\ \A p \in 1 .. Len(streams[n].packets) : more[p] = streams[n].packets[p]
          /\ more[Len(streams[n].packets) + 1] = Packet("media", media + 1)
          /\ Laid(more, streams[n].codec_gen, streams[n].config_gen, media')
      <4>p. PICK ps, codec, config : /\ ps = streams[n].packets
                                     /\ codec = streams[n].codec_gen
                                     /\ config = streams[n].config_gen
        OBVIOUS
      <4>0. /\ ps \in Seq(Packets) /\ Len(ps) >= 2 /\ Laid(ps, codec, config, media)
            /\ more = Append(ps, Packet("media", media + 1)) /\ media \in Nat
        BY <2>2, <3>m, <3>1, <3>2, <4>p, Zenon DEF StreamOK
      <4>1. more \in Seq(Packets) /\ Len(more) = Len(ps) + 1
        BY ONLY <4>0, <1>LaidAppend
      <4>2. \A p \in 1 .. Len(ps) : more[p] = ps[p]
        BY ONLY <4>0, <1>LaidAppend
      <4>3. more[Len(ps) + 1] = Packet("media", media + 1)
        BY ONLY <4>0, <1>LaidAppend
      <4>4. Laid(more, codec, config, media + 1)
        BY ONLY <4>0, <1>LaidAppend, Zenon
      <4>5. Len(ps) \in Nat
        BY <4>0, LenProperties
      <4> QED BY ONLY <2>1, <4>p, <4>1, <4>2, <4>3, <4>4, <4>5, Zenon
    <3>x. PICK x : x = [streams[n] EXCEPT !.packets = more]
      BY Zenon
    <3>6. /\ x \in Streams /\ x.packets = more /\ x.codec_gen = streams[n].codec_gen
          /\ x.config_gen = streams[n].config_gen /\ x.ids = streams[n].ids
      BY <3>x, <3>2, <3>4, Zenon DEF Streams
    <3>7. /\ streams' \in Seq(Streams) /\ Len(streams') = n
          /\ streams'[n] = x /\ \A i \in 1 .. (n - 1) : streams'[i] = streams[i]
      <4>1. streams' = [streams EXCEPT ![n] = x]
        BY ONLY <2>1, <2>4, <3>m, <3>1, <3>x, Zenon
      <4>2. /\ streams' \in Seq(Streams) /\ Len(streams') = Len(streams)
            /\ \A i \in 1 .. Len(streams) : streams'[i] = IF i = n THEN x ELSE streams[i]
        BY <2>2, <3>1, <3>6, <4>1, <1>ExceptSeq
      <4>3. \A i \in 1 .. (n - 1) : i # n /\ i \in 1 .. Len(streams)
        BY <2>2, <3>n
      <4> QED BY <3>n, <3>1, <4>2, <4>3, Zenon
    <3>8. n \in Nat /\ \A i \in 1 .. n : i = n \/ i \in 1 .. (n - 1)
      BY <2>2, <3>n
    <3>9. SenderTypes'
      BY <2>1, <2>2, <3>n, <3>7 DEF StreamsInv, SenderTypes
    <3>10. ASSUME NEW i \in 1 .. n PROVE StreamOK(streams[i])'
      <4>1. CASE i = n
        BY <3>4, <3>6, <2>2, <3>2, <3>7, <4>1, Zenon DEF StreamOK, Gen
      <4>2. CASE i \in 1 .. (n - 1)
        <5>1. i \in 1 .. Len(streams) /\ streams'[i] = streams[i]
          BY <3>n, <3>7, <3>8, <4>2
        <5> QED BY <2>2, <5>1, <1>StreamStays DEF StreamOK
      <4> QED BY <3>8, <4>1, <4>2
    <3>11. ASSUME NEW i \in 1 .. n, NEW j \in 1 .. n, i < j
           PROVE  Later(streams'[i], streams'[j])
      <4>0. i \in 1 .. (n - 1) /\ streams'[i] = streams[i] /\ i \in 1 .. Len(streams)
            /\ j \in 1 .. Len(streams)
        BY <3>n, <3>7, <3>8, <3>11
      <4>1. Later(streams[i], streams[j])
        BY <3>11, <4>0 DEF StreamsInv
      <4>2. CASE j = n
        <5>2. Before(streams[i].packets, more)
          <6>2. ASSUME NEW p \in 3 .. Len(streams[i].packets), NEW q \in 3 .. Len(more)
                PROVE  streams[i].packets[p].n < more[q].n
            <7>1. CASE q = Len(streams[n].packets) + 1
              <8>1. more[q].n = media + 1
                BY <3>4, <7>1 DEF Packet
              <8>2. streams[i].packets[p].n <= media /\ streams[i].packets[p].n \in Nat
                BY <4>0, StreamKnown, PacketNumbers, Zenon DEF StreamOK, Laid
              <8>3. \A a, b \in Nat : a <= b => a < b + 1
                OBVIOUS
              <8> QED BY <8>1, <8>2, <8>3, <2>2, Zenon
            <7>2. CASE q # Len(streams[n].packets) + 1
              <8>1. q \in 3 .. Len(streams[n].packets) /\ q \in 1 .. Len(streams[n].packets)
                BY <3>4, <7>2
              <8> QED BY <3>4, <4>1, <4>2, <8>1, Zenon DEF Later, Before
            <7> QED BY ONLY <7>1, <7>2, Zenon
          <6> QED BY ONLY <6>2, Zenon DEF Before
        <5> QED BY ONLY <3>6, <3>7, <4>0, <4>2, <4>1, <5>2, Zenon DEF Later, Gen
      <4>3. CASE j \in 1 .. (n - 1)
        BY <3>7, <4>0, <4>1, <4>3
      <4> QED BY <3>8, <4>2, <4>3
    <3>12. StreamsInv'
      <4>1. Len(streams'[Len(streams')].packets) >= 2
        BY <3>1, <3>4, <3>6, <3>7
      <4> QED BY ONLY <2>1, <2>4, <3>1, <3>7, <3>9, <3>10, <3>11, <4>1, Zenon DEF StreamsInv, NoGop
    <3>13. ASSUME NEW i \in 1 .. n PROVE Grows(streams[i], streams'[i])
      <4>1. CASE i = n
        <5>1. Len(streams[n].packets) <= Len(more)
          BY <3>4
        <5>2. ASSUME NEW p \in Len(streams[n].packets) + 1 .. Len(more)
              PROVE  p >= 3 /\ more[p].n > media
          BY <3>4, <2>2, <3>1 DEF Packet
        <5> QED BY <3>4, <3>6, <3>7, <4>1, <5>1, <5>2 DEF Grows
      <4>2. CASE i \in 1 .. (n - 1)
        BY <3>n, <3>7, <3>8, <4>2, StreamKnown, <1>GrowsSame, Zenon
      <4> QED BY <3>8, <4>1, <4>2
    <3> QED BY <3>12, <2>2, <3>n, <3>7, <3>13 DEF StreamsGrow
  <2> QED BY <2>3, <2>4

(***************************************************************************)
(* What the receiver knows survives a step of the sender: streams only     *)
(* grow, by media packets newer than all that were sent.                   *)
(***************************************************************************)
<1>GrownStream.
    ASSUME StreamsInv, StreamsInv', StreamsGrow, NEW i \in 1 .. Len(streams)
    PROVE  /\ i \in 1 .. Len(streams')
           /\ Len(streams[i].packets) \in Nat /\ Len(streams'[i].packets) \in Nat
           /\ Len(streams[i].packets) <= Len(streams'[i].packets)
           /\ \A p \in 1 .. Len(streams[i].packets) :
                 streams'[i].packets[p] = streams[i].packets[p]
           /\ \A p \in 3 .. Len(streams[i].packets) :
                 streams'[i].packets[p] = streams[i].packets[p]
           /\ \A p \in 3 .. Len(streams'[i].packets) :
                 \/ p \in 3 .. Len(streams[i].packets)
                 \/ streams'[i].packets[p].n > media /\ streams'[i].packets[p].n \in Nat
           /\ \A kind \in Repeated : Gen(streams'[i], kind) = Gen(streams[i], kind)
  <2> USE <1>GrownStream
  <2>1. /\ Len(streams) <= Len(streams') /\ Grows(streams[i], streams'[i])
        /\ Len(streams) \in Nat /\ Len(streams') \in Nat
    BY SenderKnown, LenProperties, Zenon DEF StreamsGrow, StreamsInv, SenderTypes
  <2>2. i \in 1 .. Len(streams')
    BY <2>1
  <2>4. streams'[i].packets \in Seq(Packets)
    <3>1. streams'[i] \in Streams
      BY <2>2, ElementOfSeq, Zenon DEF StreamsInv, SenderTypes
    <3> QED BY <3>1 DEF Streams
  <2>5. /\ Len(streams[i].packets) \in Nat /\ Len(streams'[i].packets) \in Nat
        /\ \A p \in 3 .. Len(streams'[i].packets) : streams'[i].packets[p].n \in Nat
    BY StreamKnown, <2>4, PacketNumbers, Zenon
  <2>7. \A p \in 3 .. Len(streams[i].packets) : p \in 1 .. Len(streams[i].packets)
    BY <2>5
  <2>8. ASSUME NEW p \in 3 .. Len(streams'[i].packets)
        PROVE  \/ p \in 3 .. Len(streams[i].packets)
               \/ p \in Len(streams[i].packets) + 1 .. Len(streams'[i].packets)
    BY <2>5
  <2> QED BY <2>2, <2>5, <2>1, <2>7, <2>8, Zenon DEF Grows, Gen

<1>ReceiverGrow.
    ASSUME StreamsInv, ReceiverInv, StreamsInv', StreamsGrow, UNCHANGED receiverVars
    PROVE  ReceiverInv'
  <2> USE <1>ReceiverGrow
  <2>0. /\ UNCHANGED <<driver, accepted, reading_ids, rx, readers>>
        /\ UNCHANGED <<gop, last_codec_gen, last_config_gen, delivered>>
    BY DEF receiverVars, clientVars
  <2>1. Len(streams) \in Nat /\ Len(streams') \in Nat /\ Len(streams) <= Len(streams')
    BY SenderKnown, LenProperties, Zenon DEF StreamsGrow, StreamsInv, SenderTypes
  <2>2. ReceiverTypes'
    BY <2>0, <2>1 DEF ReceiverInv, ReceiverTypes
  <2>3. QueueInv'
    <3>1. ASSUME NEW n \in 1 .. Len(rx) PROVE rx[n].gop < Len(streams')
      <4>2. rx[n] \in Messages
        BY ElementOfSeq DEF ReceiverInv, ReceiverTypes
      <4> QED BY <2>1, <4>2 DEF Messages, ReceiverInv, QueueInv
    <3> QED BY <2>0, <3>1, Zenon DEF ReceiverInv, QueueInv
  <2>5. gop # NoGop => gop + 1 \in 1 .. Len(streams)
    BY <2>1 DEF ReceiverInv, ReceiverTypes
  <2>6. FollowInv'
    <3> SUFFICES ASSUME driver = "running", gop # NoGop PROVE FollowInv'
      BY <2>0, Zenon DEF FollowInv
    <3> DEFINE ps == streams[gop + 1].packets
               more == streams'[gop + 1].packets
    <3>1. PICK r \in readers, c \in 0 .. Len(ps) :
             ~ r.cancelled /\ Pending(c, rx, gop, ps, r.pos) /\ Followed(c)
      BY Zenon DEF ReceiverInv, FollowInv
    <3>2. /\ Len(ps) \in Nat /\ Len(more) \in Nat /\ Len(ps) <= Len(more)
          /\ \A p \in 1 .. Len(ps) : more[p] = ps[p]
      BY <2>5, <1>GrownStream, Zenon
    <3> HIDE DEF ps, more
    <3>5. Pending(c, rx, gop, more, r.pos)
      BY <3>1, <3>2, LenProperties, <1>PendingGrow, Zenon DEF ReceiverInv, ReceiverTypes
    <3>6. Taken(delivered, c, gop, more)
      <4>1. Taken(delivered, c, gop, ps)
        BY ONLY <3>1, Zenon DEF Followed, ps
      <4>2. \A p \in 3 .. c : more[p] = ps[p]
        BY <3>2
      <4> QED BY <4>1, <4>2, Zenon DEF Taken
    <3>7. Followed(c)'
      BY <2>0, <3>1, <2>5, <3>6, Zenon DEF Followed, more, StreamsGrow, Grows
    <3> QED BY <2>0, <3>1, <3>5, <3>7, <3>2 DEF FollowInv, more
  <2>7. ASSUME NEW i \in 1 .. Len(delivered), delivered[i].kind = "media"
        PROVE  MediaAt(delivered, i, streams'[delivered[i].gop + 1])
    <3>g. PICK g : g = delivered[i].gop + 1
      OBVIOUS
    <3>0. /\ g \in 1 .. Len(streams) /\ delivered[i].n \in Nat
          /\ MediaAt(delivered, i, streams[g])
      <4>1. delivered[i] \in Returned /\ delivered[i].gop <= gop /\ gop \in Nat /\ gop # NoGop
        BY EmptySeq, ElementOfSeq DEF ReceiverInv, ReceiverTypes, DeliveredInv
      <4>2. delivered[i].gop \in Nat /\ delivered[i].n \in Nat
        BY <4>1 DEF Returned
      <4>3. g \in 1 .. Len(streams)
        BY <2>1, <2>5, <3>g, <4>1, <4>2
      <4> QED BY <4>2, <4>3, <2>7, <3>g, Zenon DEF ReceiverInv, DeliveredInv, MediaInv
    <3> DEFINE s == streams[g]
               t == streams'[g]
    <3>1. /\ Len(s.packets) \in Nat /\ Len(t.packets) \in Nat /\ Len(s.packets) <= Len(t.packets)
          /\ \A p \in 3 .. Len(s.packets) : t.packets[p] = s.packets[p]
          /\ \A p \in 3 .. Len(t.packets) : \/ p \in 3 .. Len(s.packets)
                                            \/ t.packets[p].n > media /\ t.packets[p].n \in Nat
          /\ \A kind \in Repeated : Gen(t, kind) = Gen(s, kind)
      BY <3>0, <1>GrownStream, Zenon
    <3>2. MediaAt(delivered, i, s) /\ Laid(s.packets, s.codec_gen, s.config_gen, media)
          /\ media \in Nat
      BY <3>0, StreamKnown, SenderKnown, Zenon DEF StreamOK
    <3> HIDE DEF s, t
    <3>3. PICK p0 \in 3 .. Len(s.packets) : delivered[i].n = s.packets[p0].n
      BY ONLY <3>2, Zenon DEF MediaAt
    <3>5. p0 \in 3 .. Len(t.packets) /\ delivered[i].n = t.packets[p0].n
      BY <3>1, <3>3
    <3>6. ASSUME NEW p \in 3 .. Len(t.packets), t.packets[p].n < delivered[i].n
          PROVE  \E j \in 1 .. i : delivered[j] = Media(t.packets[p].n, delivered[i].gop)
      <4>1. p \in 3 .. Len(s.packets)
        <5>1. \A a, b, m \in Nat : a < b /\ b <= m => ~ (a > m)
          OBVIOUS
        <5>2. ~ (t.packets[p].n > media /\ t.packets[p].n \in Nat)
          BY <3>0, <3>2, <3>3, <3>6, <5>1, Zenon DEF Laid
        <5> QED BY ONLY <3>1, <5>2, Zenon
      <4> QED BY <3>2, <3>6, <4>1, <3>1, Zenon DEF MediaAt
    <3>8. MediaAt(delivered, i, t)
      BY <3>2, <3>5, <3>6, <3>1, Zenon DEF MediaAt
    <3> QED BY <3>g, <3>8 DEF t
  <2>8. ASSUME NEW kind \in Repeated PROVE RepeatedInv(kind)'
    BY <2>0, <2>5, <1>GrownStream, Zenon DEF ReceiverInv, DeliveredInv, LastGen, RepeatedInv
  <2> QED BY <2>2, <2>3, <2>6, <2>0, <2>7, <2>8, Zenon
     DEF ReceiverInv, DeliveredInv, MediaInv, ReadersInv

<1> SUFFICES ASSUME NEW written \in BOOLEAN, IInv,
                    SendCodec \/ SendConfig \/ SendKey \/ SendDelta \/ SendKeyFails(written)
             PROVE  IInv'
  OBVIOUS
<1>1. StreamsInv' /\ StreamsGrow
  BY <1>SendRepeatedStep, <1>SendKeyStep, <1>SendDeltaStep, <1>SendKeyFailsStep DEF IInv
<1> QED BY <1>1, <1>ReceiverGrow, Zenon
   DEF IInv, SendCodec, SendConfig, SendKey, SendDelta, SendKeyFails

-----------------------------------------------------------------------------
\* The steps of the readers, and the end.
LEMMA QueueSteps ==
    IInv /\ (\/ AcceptUni \/ Drop
             \/ \E g \in reading_ids : ReadStreamIds(g) \/ ReadStreamIdsFails(g)
             \/ \E r \in readers : ReadPacket(r) \/ StopReading(r))
        => IInv'
(***************************************************************************)
(* A task appends a message to the queue: the reader of the stream the     *)
(* next packet of the stream, any other task something else.               *)
(***************************************************************************)
<1>PendingPush.
    ASSUME NEW q \in Seq(Messages), NEW m \in Messages, NEW g, NEW c, NEW pos, NEW new,
           NEW ps, Len(ps) \in Nat, Pending(c, q, g, ps, pos),
           IF OfStream(m, g)
           THEN new = pos + 1 /\ new <= Len(ps) /\ m.packet = ps[new]
           ELSE new = pos
    PROVE  Pending(c, Append(q, m), g, ps, new)
  <2> USE <1>PendingPush
  <2> DEFINE t == Append(q, m)
  <2>1. PICK walk \in [0 .. Len(q) -> 0 .. Len(ps)] :
           walk[0] = c /\ walk[Len(q)] = pos /\ Walk(walk, q, g, ps)
    BY DEF Pending
  <2>2. /\ Len(q) \in Nat /\ Len(t) = Len(q) + 1 /\ t[Len(q) + 1] = m
        /\ \A n \in 1 .. Len(q) : t[n] = q[n]
    BY AppendProperties, LenProperties
  <2> HIDE DEF t
  <2> DEFINE next == [n \in 0 .. Len(t) |-> IF n <= Len(q) THEN walk[n] ELSE new]
  <2>5. next \in [0 .. Len(t) -> 0 .. Len(ps)]
    BY <2>1, <2>2
  <2>6. next[0] = c /\ next[Len(t)] = new
    BY <2>1, <2>2
  <2>7. ASSUME NEW n \in 1 .. Len(t)
        PROVE  IF OfStream(t[n], g)
               THEN next[n] = next[n - 1] + 1 /\ t[n].packet = ps[next[n]]
               ELSE next[n] = next[n - 1]
    <3>1. CASE n <= Len(q)
      BY ONLY <2>2, <3>1, <2>1 DEF Walk
    <3>2. CASE n = Len(q) + 1
      <4>1. next[n] = new /\ next[n - 1] = pos /\ t[n] = m
        BY <2>1, <2>2, <3>2
      <4> HIDE DEF next
      <4> QED BY <4>1, Zenon
    <3> QED BY ONLY <2>2, <3>1, <3>2
  <2> HIDE DEF next
  <2> QED BY <2>5, <2>6, <2>7, Zenon DEF Pending, t, Walk

<1>PushQueue.
    ASSUME IInv, NEW m \in Messages, Push(m), m.gop < Len(streams),
           m.kind = "NewPacket" => gop # NoGop /\ m.gop <= gop,
           UNCHANGED <<streams, gop>>
    PROVE  /\ driver = "running" /\ QueueInv'
           /\ rx' \in Seq(Messages) /\ Len(rx') <= Capacity /\ rx' = Append(rx, m)
  <2> USE <1>PushQueue
  <2>1. driver = "running" /\ Len(rx) < Capacity /\ rx' = Append(rx, m)
    BY DEF Push
  <2>2. /\ rx' \in Seq(Messages) /\ Len(rx') = Len(rx) + 1 /\ rx'[Len(rx) + 1] = m
        /\ \A n \in 1 .. Len(rx) : rx'[n] = rx[n]
    BY <2>1, ReceiverKnown, AppendProperties
  <2>4. ASSUME NEW n \in 1 .. Len(rx')
        PROVE  /\ rx'[n].gop < Len(streams)
               /\ rx'[n].kind = "NewPacket" => gop # NoGop /\ rx'[n].gop <= gop
    BY <2>2, ReceiverKnown DEF IInv, ReceiverInv, QueueInv
  <2> QED BY <2>1, <2>2, ReceiverKnown, <2>4 DEF QueueInv

\* accept_unis and read_stream_ids.
<1>PushOther.
    ASSUME IInv, NEW m \in Messages, Push(m), m.gop < Len(streams), m.kind # "NewPacket",
           UNCHANGED <<senderVars, streams, driver, readers, clientVars>>,
           accepted' \in 0 .. Len(streams),
           \A g \in reading_ids' : g \in Nat /\ g < Len(streams)
    PROVE  IInv'
  <2> USE <1>PushOther
  <2>0. UNCHANGED <<streams, gop, last_codec_gen, last_config_gen, delivered, driver, readers>>
    BY DEF clientVars
  <2>1. /\ driver = "running" /\ QueueInv'
        /\ rx' \in Seq(Messages) /\ Len(rx') <= Capacity /\ rx' = Append(rx, m)
    BY <2>0, <1>PushQueue, Zenon
  <2>2. StreamsInv' /\ DeliveredInv'
    BY StreamsSame, DeliveredSame DEF IInv, ReceiverInv
  <2>5. FollowInv'
    <3> SUFFICES ASSUME gop # NoGop PROVE FollowInv'
      BY <2>0, Zenon DEF FollowInv
    <3>1. PICK r \in readers, c \in 0 .. Len(streams[gop + 1].packets) :
             /\ ~ r.cancelled /\ Pending(c, rx, gop, streams[gop + 1].packets, r.pos)
             /\ Followed(c)
      BY <2>1, Zenon DEF IInv, ReceiverInv, FollowInv
    <3> QED BY <2>0, <3>1, <2>1, <1>PendingPush, ReceiverKnown, Zenon
       DEF FollowInv, OfStream, Followed
  <2> QED BY <2>1, <2>2, <2>0, <2>5, Zenon DEF IInv, ReceiverInv, ReceiverTypes, ReadersInv

<1>AcceptUniStep.
    ASSUME IInv, AcceptUni
    PROVE  IInv'
  <2> USE <1>AcceptUniStep
  <2>m. PICK m : m = [kind |-> "NewStream", gop |-> accepted]
    BY Zenon
  <2>1. accepted \in 0 .. Len(streams) /\ Len(streams) \in Nat
    BY ReceiverKnown, Zenon DEF IInv, ReceiverInv, ReceiverTypes
  <2>2. accepted < Len(streams) /\ accepted \in Nat
    BY <2>1 DEF AcceptUni
  <2>4. accepted' \in 0 .. Len(streams)
    BY <2>1, <2>2 DEF AcceptUni
  <2>5. /\ Push(m) /\ UNCHANGED <<senderVars, streams, driver, readers, clientVars>>
        /\ UNCHANGED reading_ids
    BY <2>m DEF AcceptUni
  <2> QED BY <2>m, <2>2, <2>4, <2>5, <1>PushOther, Zenon
     DEF IInv, ReceiverInv, ReceiverTypes, Messages

<1>ReadStreamIdsStep.
    ASSUME IInv, NEW g \in reading_ids, ReadStreamIds(g)
    PROVE  IInv'
  <2> USE <1>ReadStreamIdsStep
  <2>m. PICK m : m = [kind |-> "StreamIds", gop |-> g]
    BY Zenon
  <2>1. \A h \in reading_ids : h \in Nat /\ h < Len(streams)
    BY DEF IInv, ReceiverInv, ReceiverTypes
  <2>2. m \in Messages /\ m.gop < Len(streams) /\ m.kind # "NewPacket"
    BY <2>m, <2>1 DEF Messages
  <2>3. /\ Push(m) /\ UNCHANGED <<senderVars, streams, driver, readers, clientVars>>
        /\ accepted' = accepted /\ reading_ids' = reading_ids \ {g}
    BY <2>m DEF ReadStreamIds
  <2> QED BY <2>2, <2>3, <2>1, <1>PushOther, Zenon DEF IInv, ReceiverInv, ReceiverTypes

<1>ReadStreamIdsFailsStep.
    ASSUME IInv, NEW g \in reading_ids, ReadStreamIdsFails(g)
    PROVE  IInv'
  <2> USE <1>ReadStreamIdsFailsStep
  <2>0. /\ UNCHANGED <<senderVars, streams, driver, accepted, rx, readers, clientVars>>
        /\ UNCHANGED <<gop, last_codec_gen, last_config_gen, delivered>>
        /\ reading_ids' = reading_ids \ {g}
    BY DEF ReadStreamIdsFails, clientVars
  <2>2. ReceiverTypes'
    BY <2>0, Zenon DEF IInv, ReceiverInv, ReceiverTypes
  <2>4. FollowInv'
    BY <2>0, Zenon DEF IInv, ReceiverInv, FollowInv, Followed
  <2> QED BY StreamsSame, DeliveredSame, <2>2, <2>0, <2>4, Zenon
     DEF IInv, ReceiverInv, QueueInv, ReadersInv

\* read_packets, of the stream that is followed or, cancelled, of an older one.
<1>ReadPacketStep.
    ASSUME IInv, NEW r \in readers, ReadPacket(r)
    PROVE  IInv'
  <2> USE <1>ReadPacketStep
  <2>m. PICK m : m = [kind |-> "NewPacket", gop |-> r.gop,
                      packet |-> streams[r.gop + 1].packets[r.pos + 1]]
    BY Zenon
  <2>z. PICK z : z = [r EXCEPT !.pos = @ + 1]
    BY Zenon
  <2>0. /\ UNCHANGED <<senderVars, streams, driver, accepted, reading_ids, clientVars>>
        /\ UNCHANGED <<gop, last_codec_gen, last_config_gen, delivered>>
        /\ readers' = (readers \ {r}) \cup {z} /\ Push(m)
        /\ r.pos < Len(streams[r.gop + 1].packets)
    BY <2>m, <2>z, Zenon DEF ReadPacket, clientVars
  <2>1. /\ r \in Readers /\ r.gop \in Nat /\ r.pos \in Nat /\ gop # NoGop /\ r.gop <= gop
        /\ gop \in Nat /\ gop + 1 \in 1 .. Len(streams) /\ Len(streams) \in Nat
    BY ReceiverKnown, Zenon DEF IInv, ReceiverInv, ReadersInv
  <2>2. r.gop + 1 \in 1 .. Len(streams) /\ r.gop < Len(streams)
    BY <2>1
  <2>3. /\ Len(streams[r.gop + 1].packets) \in Nat
        /\ \A p \in 1 .. Len(streams[r.gop + 1].packets) : streams[r.gop + 1].packets[p] \in Packets
    BY <2>2, StreamKnown, Zenon DEF IInv
  <2>4. r.pos + 1 \in 1 .. Len(streams[r.gop + 1].packets)
    BY <2>0, <2>1, <2>3
  <2>5. /\ m \in Messages /\ m.gop = r.gop /\ m.kind = "NewPacket"
        /\ m.packet = streams[r.gop + 1].packets[r.pos + 1]
    BY ONLY <2>m, <2>1, <2>3, <2>4, Zenon DEF Messages
  <2>6. /\ z \in Readers /\ z.gop = r.gop /\ z.cancelled = r.cancelled /\ z.pos = r.pos + 1
    BY <2>z, <2>1 DEF Readers
  <2>7. /\ driver = "running" /\ QueueInv'
        /\ rx' \in Seq(Messages) /\ Len(rx') <= Capacity /\ rx' = Append(rx, m)
    BY <2>0, <2>1, <2>2, <2>5, <1>PushQueue, Zenon
  <2>10. ReadersInv'
    BY <2>6, <2>0, Zenon DEF IInv, ReceiverInv, ReadersInv
  <2>11. FollowInv'
    <3>p. PICK ps : ps = streams[gop + 1].packets
      OBVIOUS
    <3>1. PICK x \in readers, c \in 0 .. Len(ps) :
             ~ x.cancelled /\ Pending(c, rx, gop, ps, x.pos) /\ Followed(c)
      BY <2>1, <2>7, <3>p, Zenon DEF IInv, ReceiverInv, FollowInv
    <3>3. Len(ps) \in Nat /\ rx \in Seq(Messages)
      BY <2>1, <3>p, ReceiverKnown, Zenon
    <3>4. \E y \in readers' : ~ y.cancelled /\ Pending(c, rx', gop, ps, y.pos)
      <4>1. CASE r.cancelled
        <5>1. r.gop < gop /\ x \in readers'
          BY <2>0, <2>7, <3>1, <4>1, Zenon DEF IInv, ReceiverInv, ReadersInv
        <5>2. ~ OfStream(m, gop)
          BY <2>1, <2>5, <5>1 DEF OfStream
        <5> QED BY ONLY <3>1, <5>1, <2>5, <2>7, <3>3, <5>2, <1>PendingPush, Zenon
      <4>2. CASE ~ r.cancelled
        <5>1. x = r /\ r.gop = gop /\ z \in readers'
          BY <2>0, <3>1, <4>2, Zenon DEF IInv, ReceiverInv, ReadersInv
        <5>3. z.pos = x.pos + 1 /\ z.pos <= Len(ps) /\ m.packet = ps[z.pos]
          BY <2>4, <2>5, <2>6, <3>p, <5>1
        <5>4. Pending(c, rx', gop, ps, z.pos)
          BY ONLY <2>5, <2>7, <3>1, <3>3, <5>1, <5>3, <1>PendingPush, Zenon DEF OfStream
        <5> QED BY <2>6, <4>2, <5>1, <5>4
      <4> QED BY <4>1, <4>2
    <3> QED BY ONLY <2>0, <3>p, <3>1, <3>4, Zenon DEF FollowInv, Followed
  <2> QED BY <2>7, <2>0, StreamsSame, DeliveredSame, <2>6, <2>10, <2>11, Zenon
     DEF IInv, ReceiverInv, ReceiverTypes

<1>StopReadingStep.
    ASSUME IInv, NEW r \in readers, StopReading(r)
    PROVE  IInv'
  <2> USE <1>StopReadingStep
  <2>0. /\ UNCHANGED <<senderVars, streams, driver, accepted, reading_ids, rx, clientVars>>
        /\ UNCHANGED <<gop, last_codec_gen, last_config_gen, delivered>>
        /\ readers' = readers \ {r} /\ r.cancelled
    BY DEF StopReading, clientVars
  <2>1. StreamsInv' /\ DeliveredInv'
    BY <2>0, StreamsSame, DeliveredSame DEF IInv, ReceiverInv
  <2>5. FollowInv'
    <3> SUFFICES ASSUME driver = "running", gop # NoGop PROVE FollowInv'
      BY <2>0, Zenon DEF FollowInv
    <3>1. PICK x \in readers, c \in 0 .. Len(streams[gop + 1].packets) :
             /\ ~ x.cancelled /\ Pending(c, rx, gop, streams[gop + 1].packets, x.pos)
             /\ Followed(c)
      BY Zenon DEF IInv, ReceiverInv, FollowInv
    <3> QED BY ONLY <2>0, <3>1, Zenon DEF FollowInv, Followed
  <2> QED BY <2>1, <2>0, <2>5, Zenon DEF IInv, ReceiverInv, QueueInv, ReadersInv, ReceiverTypes

\* The receiver is dropped.
<1>DropStep.
    ASSUME IInv, Drop
    PROVE  IInv'
  <2> USE <1>DropStep
  <2>0. /\ UNCHANGED <<senderVars, streams, accepted, reading_ids, clientVars>>
        /\ UNCHANGED <<gop, last_codec_gen, last_config_gen, delivered>>
        /\ driver' = "dropped" /\ rx' = <<>>
        /\ readers' = {[r EXCEPT !.cancelled = TRUE] : r \in readers}
    BY DEF Drop, clientVars
  <2>2. rx' \in Seq(Messages) /\ Len(rx') = 0
    BY <2>0, EmptySeq
  <2>3. ASSUME NEW x \in readers'
        PROVE  x \in Readers /\ x.cancelled /\ gop # NoGop /\ x.gop <= gop
    <3>1. PICK r \in readers : x = [r EXCEPT !.cancelled = TRUE]
      BY <2>0
    <3> QED BY <3>1, ReceiverKnown, Zenon DEF Readers, IInv, ReceiverInv, ReadersInv
  <2>4. readers' \subseteq Readers
    BY <2>3
  <2>5. ReceiverTypes'
    BY <2>0, <2>2, <2>4 DEF IInv, ReceiverInv, ReceiverTypes
  <2>6. QueueInv' /\ FollowInv'
    BY <2>0, <2>2 DEF QueueInv, FollowInv
  <2> QED BY <2>0, StreamsSame, DeliveredSame, <2>5, <2>6, <2>3, Zenon DEF IInv, ReceiverInv, ReadersInv

<1> QED BY <1>AcceptUniStep, <1>DropStep, <1>ReadStreamIdsStep, <1>ReadStreamIdsFailsStep, <1>ReadPacketStep,
      <1>StopReadingStep

-----------------------------------------------------------------------------
(***************************************************************************)
(* IInv is an invariant.                                                   *)
(***************************************************************************)
LEMMA Initially == Init => IInv
<1> SUFFICES ASSUME Init PROVE IInv
  OBVIOUS
<1>1. /\ streams \in Seq(Streams) /\ Len(streams) = 0
      /\ rx \in Seq(Messages) /\ Len(rx) = 0
      /\ delivered \in Seq(Returned) /\ Len(delivered) = 0
  BY EmptySeq DEF Init
<1>3. StreamsInv
  BY <1>1 DEF Init, StreamsInv, SenderTypes
<1>5. QueueInv /\ ReadersInv /\ FollowInv
  BY <1>1 DEF Init, QueueInv, ReadersInv, FollowInv
<1>7. DeliveredInv
  BY <1>1 DEF Init, DeliveredInv, MediaInv, RepeatedInv, RepeatedAt, LastGen
<1> QED BY <1>3, <1>1, <1>5, <1>7 DEF IInv, ReceiverInv, Init, ReceiverTypes, NoGop

LEMMA Invariant == Spec => []IInv
<1>1. ASSUME IInv, [Next]_vars PROVE IInv'
  <2>1. CASE SendCodec \/ SendConfig \/ SendKey \/ SendDelta
    BY <1>1, <2>1, SenderSteps, Zenon
  <2>2. CASE \E ids \in BOOLEAN : SendKeyFails(ids)
    BY <1>1, <2>2, SenderSteps
  <2>3. CASE \/ AcceptUni \/ Drop
             \/ \E g \in reading_ids : ReadStreamIds(g) \/ ReadStreamIdsFails(g)
             \/ \E r \in readers : ReadPacket(r) \/ StopReading(r)
    BY <1>1, <2>3, QueueSteps, Zenon
  <2>6. CASE ClientRecv
    BY <1>1, <2>6, RecvNewStreamStep, RecvStreamIdsStep, RecvNewPacketStep DEF ClientRecv
  <2>8. CASE UNCHANGED vars
    <3>1. /\ UNCHANGED <<senderVars, streams, driver, accepted, reading_ids, rx, readers>>
          /\ UNCHANGED <<clientVars, gop, last_codec_gen, last_config_gen, delivered>>
      BY <2>8 DEF vars, clientVars
    <3>4. QueueInv' /\ ReadersInv'
      BY ONLY <1>1, <3>1, Zenon DEF IInv, ReceiverInv, QueueInv, ReadersInv
    <3>5. FollowInv'
      BY ONLY <1>1, <3>1, Zenon DEF IInv, ReceiverInv, FollowInv, Followed
    <3> QED BY ONLY <1>1, <3>1, StreamsSame, DeliveredSame, <3>4, <3>5, Zenon
       DEF IInv, ReceiverInv, ReceiverTypes
  <2> QED BY <1>1, <2>1, <2>2, <2>3, <2>6, <2>8 DEF Next
<1> QED BY <1>1, Initially, PTL DEF Spec

-----------------------------------------------------------------------------
(***************************************************************************)
(* What follows from it.                                                   *)
(***************************************************************************)
LEMMA Typed ==
    ASSUME IInv, Cardinality({r \in readers : ~ r.cancelled}) <= 1
    PROVE  TypeOK
<1>1. /\ Len(streams) \in Nat /\ Len(streams) <= MaxGops /\ NoGop = MaxGops
      /\ codec_gen \in Nat /\ config_gen \in Nat
  BY SenderKnown DEF IInv, NoGop
<1>3. reading_ids \subseteq Gops /\ gop \in Gops \cup {NoGop}
  BY <1>1 DEF Gops, IInv, ReceiverInv, ReceiverTypes
<1>4. ASSUME NEW i \in 1 .. Len(streams)
      PROVE  streams[i].packets \in Seq(Packets) /\ streams[i].state \in {"open", "finished"}
  BY StreamKnown, Zenon DEF IInv, Streams
<1>5. ASSUME NEW kind \in Repeated
      PROVE  LastGen(kind) \in Nat /\ LastGen(kind) <= SentGen(kind)
  <2>1. LastGen(kind) \in Nat
    BY DEF IInv, ReceiverInv, ReceiverTypes, LastGen
  <2>2. SentGen(kind) \in Nat
    BY <1>1 DEF SentGen
  <2>3. CASE gop = NoGop
    BY <2>2, <2>3 DEF IInv, ReceiverInv, DeliveredInv, RepeatedInv
  <2>4. CASE gop # NoGop
    <3>1. gop + 1 \in 1 .. Len(streams)
      BY <2>4, ReceiverKnown
    <3>3. LastGen(kind) <= Gen(streams[gop + 1], kind)
      BY <2>4 DEF IInv, ReceiverInv, DeliveredInv, RepeatedInv
    <3> QED BY <2>1, <2>2, <3>1, StreamKnown, <3>3 DEF IInv, StreamOK, Gen
  <2> QED BY <2>1, <2>3, <2>4
<1>8. /\ sender \in {"running", "failed"} /\ driver \in {"running", "dropped"}
      /\ codec_gen \in 0 .. MaxCodecs /\ config_gen \in 0 .. MaxConfigs
      /\ current_stream \in Gops \cup {NoGop} /\ media \in 0 .. MaxMedia
      /\ accepted \in 0 .. Len(streams) /\ Len(rx) <= Capacity
  BY Zenon DEF IInv, StreamsInv, SenderTypes, ReceiverInv, ReceiverTypes
<1> QED BY <1>3, <1>4, <1>1, <1>5, <1>8 DEF TypeOK, Repeated, LastGen, SentGen

\* The place of a media packet in the list, and the stream it came from.
LEMMA MediaKnown ==
    ASSUME IInv, NEW i \in Indices("media"), NEW s, s = streams[delivered[i].gop + 1]
    PROVE  /\ i \in 1 .. Len(delivered) /\ delivered[i].kind = "media"
           /\ MediaAt(delivered, i, s) /\ StreamOK(s) /\ Len(s.packets) \in Nat
           /\ delivered[i].gop + 1 \in 1 .. Len(streams)
<1>1. i \in 1 .. Len(delivered) /\ delivered[i].kind = "media"
  BY DEF Indices
<1>2. delivered \in Seq(Returned) /\ delivered[i].gop <= gop /\ (gop = NoGop => delivered = <<>>)
  BY <1>1, Zenon DEF IInv, ReceiverInv, ReceiverTypes, DeliveredInv
<1>3. gop # NoGop
  BY <1>1, <1>2, EmptySeq
<1>4. delivered[i].gop \in Nat
  <2>1. delivered[i] \in Returned
    BY <1>1, <1>2, ElementOfSeq
  <2> QED BY <2>1 DEF Returned
<1>5. delivered[i].gop + 1 \in 1 .. Len(streams)
  BY <1>2, <1>3, <1>4, ReceiverKnown
<1> QED BY <1>1, <1>5, StreamKnown, Zenon DEF IInv, ReceiverInv, DeliveredInv, MediaInv

LEMMA Ordered ==
    ASSUME IInv, TypeOK
    PROVE  InOrder
<1>2. ASSUME NEW i \in Indices("media"), NEW j \in Indices("media"), i < j
      PROVE  delivered[i].n < delivered[j].n
  BY <1>2, MediaKnown, Zenon DEF MediaAt
<1>3. ASSUME NEW i \in Indices("media"), NEW n \in MediaOf(delivered[i].gop), n < delivered[i].n
      PROVE  \E j \in 1 .. i : delivered[j] =
                [kind |-> "media", n |-> n, gop |-> delivered[i].gop]
  <2>s. PICK s : s = streams[delivered[i].gop + 1]
    OBVIOUS
  <2>1. /\ MediaAt(delivered, i, s) /\ Len(s.packets) \in Nat
        /\ Laid(s.packets, s.codec_gen, s.config_gen, media)
    BY <2>s, MediaKnown, Zenon DEF StreamOK
  <2>2. PICK p \in 1 .. Len(s.packets) : s.packets[p].kind = "media" /\ s.packets[p].n = n
    BY <2>s, Zenon DEF MediaOf
  <2>3. p \in 3 .. Len(s.packets)
    BY <2>1, <2>2 DEF Laid, Packet
  <2> QED BY <1>3, <2>1, <2>2, <2>3, Zenon DEF MediaAt, Media
<1> QED BY <1>2, <1>3, Zenon DEF InOrder

LEMMA Understood ==
    ASSUME IInv
    PROVE  Decodable
<1>1. ASSUME NEW i \in Indices("media"), NEW kind \in Repeated
      PROVE  InForce(kind, i) = {Gen(streams[delivered[i].gop + 1], kind)}
  <2>s. PICK n : n = Gen(streams[delivered[i].gop + 1], kind)
    OBVIOUS
  <2>1. i \in 1 .. Len(delivered) /\ LastBefore(delivered, kind, i, n)
    BY <2>s, MediaKnown, Zenon DEF MediaAt
  <2>2. PICK j \in 1 .. (i - 1) :
           /\ delivered[j].kind = kind /\ delivered[j].n = n
           /\ \A l \in 1 .. (i - 1) : delivered[l].kind = kind => l <= j
    BY <2>1 DEF LastBefore
  <2>b. PICK before : before = {k \in Indices(kind) : k < i}
    BY Zenon
  <2>3. Len(delivered) \in Nat
    BY LenProperties DEF IInv, ReceiverInv, ReceiverTypes
  <2>4. /\ j \in before
        /\ \A l \in before : l \in 1 .. (i - 1) /\ delivered[l].kind = kind
    BY <2>b, <2>1, <2>2, <2>3 DEF Indices
  <2>5. \A l \in before : l <= j
    BY <2>2, <2>4
  <2>6. {k \in before : \A l \in before : l <= k} = {j}
    <3>2. \A k \in before : (\A l \in before : l <= k) => k = j
      BY <2>4, <2>5, <2>1, <2>3
    <3> QED BY <2>4, <2>5, <3>2, Zenon
  <2> QED BY ONLY <2>s, <2>2, <2>b, <2>6, Zenon DEF InForce
<1>2. ASSUME NEW i \in Indices("media")
      PROVE  /\ InForce("codec", i) = {streams[delivered[i].gop + 1].codec_gen}
             /\ InForce("config", i) = {streams[delivered[i].gop + 1].config_gen}
  BY ONLY <1>1, Zenon DEF Repeated, Gen
<1>3. ASSUME NEW kind \in {"codec", "config"}, NEW i \in Indices(kind), NEW j \in Indices(kind),
             delivered[i].n = delivered[j].n
      PROVE  i = j
  <2>1. /\ delivered \in Seq(Returned) /\ Len(delivered) \in Nat
        /\ \A k \in 1 .. Len(delivered) : delivered[k] \in Returned
    BY LenProperties, ElementOfSeq DEF IInv, ReceiverInv, ReceiverTypes
  <2>2. /\ i \in 1 .. Len(delivered) /\ j \in 1 .. Len(delivered)
        /\ delivered[i].kind = kind /\ delivered[j].kind = kind
    BY DEF Indices
  <2>3. delivered[i].n \in Nat
    BY <2>1, <2>2 DEF Returned
  <2>5. ~ (delivered[i].n < delivered[i].n)
    BY <2>3
  <2> QED BY <1>3, <2>1, <2>2, <2>5
     DEF IInv, ReceiverInv, DeliveredInv, RepeatedInv, RepeatedAt, Repeated
<1> QED BY ONLY <1>2, <1>3, Zenon DEF Decodable

INSTANCE FiniteSetTheorems

\* At most one reader is not cancelled.
LEMMA OneReader ==
    ASSUME IInv
    PROVE  Cardinality({r \in readers : ~ r.cancelled}) <= 1
<1>u. PICK u : u = {r \in readers : ~ r.cancelled}
  BY Zenon
<1>1. CASE u = {}
  BY <1>u, <1>1, FS_EmptySet
<1>2. CASE u # {}
  <2>1. PICK r \in u : TRUE
    BY <1>2
  <2> QED BY <1>u, <2>1, FS_Singleton DEF IInv, ReceiverInv, ReadersInv
<1> QED BY <1>1, <1>2

(***************************************************************************)
(* recv() of the `gopstream' receiver returns media packets in the order   *)
(* they were sent, none twice and without a hole within a GOP, whatever    *)
(* order the tasks that read the streams feed its queue in, and although   *)
(* cancelled readers of abandoned streams still feed it.                   *)
(***************************************************************************)
THEOREM GopsAreInOrder == Spec => []InOrder
<1>1. IInv => InOrder
  BY OneReader, Typed, Ordered
<1> QED BY <1>1, Invariant, PTL

(***************************************************************************)
(* Whenever recv() returns a media packet, the codec and the config packet *)
(* it returned last are those of the packet's stream, although it filters  *)
(* out the ones that are repeated: each is returned at most once.          *)
(***************************************************************************)
THEOREM GopsAreDecodable == Spec => []Decodable
BY Invariant, Understood, PTL
=============================================================================
