---------------------------- MODULE VideoGopStream ----------------------------
(***************************************************************************)
(* The `gopstream' video protocol: every key frame opens a new stream,     *)
(* that repeats the current codec and config packets, and the receiver     *)
(* only follows the newest stream it knows of.                             *)
(*                                                                         *)
(* Media packets are numbered in the order they are sent, codec and config *)
(* packets by their generation.  GOP g travels on streams[g + 1].          *)
(***************************************************************************)
EXTENDS Naturals, Sequences, FiniteSets

CONSTANTS
    MaxGops,        \* bound on the key frames sent
    MaxMedia,       \* bound on the media packets sent, key frames included
    MaxCodecs,      \* bound on the codec packets
    MaxConfigs,     \* bound on the config packets
    Capacity        \* of the receiver's queue: 16 in the code

ASSUME GopStreamAssumption ==
    /\ MaxGops \in Nat /\ MaxMedia \in Nat
    /\ MaxCodecs \in Nat /\ MaxConfigs \in Nat
    /\ Capacity \in Nat \ {0}

VARIABLES
    \* sender; gop_id is Len(streams)
    sender,             \* "running" or "failed"
    codec_gen, config_gen,
    current_stream,     \* the GOP of the stream in use, or NoGop
    media,              \* how many media packets were sent
    \* the streams opened, in order: reliable, but independent of each other
    streams,
    \* receiver
    driver,             \* "running" or "dropped"
    accepted,           \* how many streams accept_unis has passed on
    reading_ids,        \* the GOPs with a task in read_stream_ids
    rx,                 \* the queue of RecvMsg
    gop,                \* the GOP being followed, or NoGop
    readers,            \* the tasks in read_packets
    last_codec_gen, last_config_gen,
    delivered           \* the packets returned by recv(), in order

senderVars == <<sender, codec_gen, config_gen, current_stream, media>>
clientVars == <<gop, last_codec_gen, last_config_gen, delivered>>
vars == <<senderVars, streams, driver, accepted, reading_ids, rx, readers, clientVars>>

NoGop == MaxGops
Gops == 0 .. (MaxGops - 1)

Packet(kind, n) == [kind |-> kind, n |-> n]

Init ==
    /\ sender = "running"
    /\ codec_gen = 0 /\ config_gen = 0
    /\ current_stream = NoGop /\ media = 0
    /\ streams = <<>>
    /\ driver = "running"
    /\ accepted = 0 /\ reading_ids = {}
    /\ rx = <<>>
    /\ gop = NoGop
    /\ readers = {}
    /\ last_codec_gen = 0 /\ last_config_gen = 0
    /\ delivered = <<>>

receiverVars == <<driver, accepted, reading_ids, rx, readers, clientVars>>

-----------------------------------------------------------------------------
SendCodec ==
    /\ sender = "running" /\ codec_gen < MaxCodecs
    /\ codec_gen' = codec_gen + 1
    /\ UNCHANGED <<sender, config_gen, current_stream, media, streams, receiverVars>>

SendConfig ==
    /\ sender = "running" /\ config_gen < MaxConfigs
    /\ config_gen' = config_gen + 1
    /\ UNCHANGED <<sender, codec_gen, current_stream, media, streams, receiverVars>>

\* `ids' tells whether the ids and the repeated packets were written.
NewStream(ids, packets) ==
    [codec_gen |-> codec_gen, config_gen |-> config_gen, ids |-> ids,
     packets |-> packets, state |-> "open"]

RepeatedPackets == <<Packet("codec", codec_gen), Packet("config", config_gen)>>

\* The client has sent a codec and a config packet before any key frame.
CanSendKey ==
    /\ sender = "running"
    /\ codec_gen > 0 /\ config_gen > 0
    /\ Len(streams) < MaxGops /\ media < MaxMedia

\* Mutant of SendKey: the config packet is not repeated.
SendKeyUnconfigured ==
    /\ CanSendKey
    /\ streams' = Append(
           [g \in 1 .. Len(streams) |->
               IF g = current_stream + 1 THEN [streams[g] EXCEPT !.state = "finished"]
                                         ELSE streams[g]],
           NewStream(TRUE, <<Packet("codec", codec_gen), Packet("media", media + 1)>>))
    /\ current_stream' = Len(streams)
    /\ media' = media + 1
    /\ UNCHANGED <<sender, codec_gen, config_gen, receiverVars>>

SendKey ==
    /\ CanSendKey
    /\ streams' = Append(
           [g \in 1 .. Len(streams) |->
               IF g = current_stream + 1 THEN [streams[g] EXCEPT !.state = "finished"]
                                         ELSE streams[g]],
           NewStream(TRUE, Append(RepeatedPackets, Packet("media", media + 1))))
    /\ current_stream' = Len(streams)
    /\ media' = media + 1
    /\ UNCHANGED <<sender, codec_gen, config_gen, receiverVars>>

\* A write fails: the forwarding loop that called send() ends.
SendKeyFails(ids) ==
    /\ CanSendKey
    /\ streams' = Append(streams, NewStream(ids, IF ids THEN RepeatedPackets ELSE <<>>))
    /\ sender' = "failed"
    /\ UNCHANGED <<codec_gen, config_gen, current_stream, media, receiverVars>>

SendDelta ==
    /\ sender = "running" /\ media < MaxMedia
    /\ media' = media + 1
    /\ IF current_stream = NoGop
       THEN UNCHANGED streams
       ELSE streams' = [streams EXCEPT ![current_stream + 1].packets =
                           Append(@, Packet("media", media + 1))]
    /\ UNCHANGED <<sender, codec_gen, config_gen, current_stream, receiverVars>>

-----------------------------------------------------------------------------
(***************************************************************************)
(* Receiver: accept_unis, a task per stream that reads the ids, and a task *)
(* that reads the packets of the newest stream all feed one queue.  The    *)
(* bytes of a stream arrive in order, at any time.                         *)
(***************************************************************************)
Push(msg) ==
    /\ driver = "running"
    /\ Len(rx) < Capacity
    /\ rx' = Append(rx, msg)

AcceptUni ==
    /\ accepted < Len(streams)
    /\ Push([kind |-> "NewStream", gop |-> accepted])
    /\ accepted' = accepted + 1
    /\ UNCHANGED <<senderVars, streams, driver, reading_ids, readers, clientVars>>

ReadStreamIds(g) ==
    /\ streams[g + 1].ids
    /\ Push([kind |-> "StreamIds", gop |-> g])
    /\ reading_ids' = reading_ids \ {g}
    /\ UNCHANGED <<senderVars, streams, driver, accepted, readers, clientVars>>

\* read_exact() fails when the sender is gone before the ids are written.
ReadStreamIdsFails(g) ==
    /\ ~ streams[g + 1].ids
    /\ reading_ids' = reading_ids \ {g}
    /\ UNCHANGED <<senderVars, streams, driver, accepted, rx, readers, clientVars>>

\* A task that was cancelled goes on until it is polled again.
ReadPacket(r) ==
    /\ r.pos < Len(streams[r.gop + 1].packets)
    /\ Push([kind |-> "NewPacket", gop |-> r.gop,
             packet |-> streams[r.gop + 1].packets[r.pos + 1]])
    /\ readers' = (readers \ {r}) \cup {[r EXCEPT !.pos = @ + 1]}
    /\ UNCHANGED <<senderVars, streams, driver, accepted, reading_ids, clientVars>>

StopReading(r) ==
    /\ r.cancelled
    /\ readers' = readers \ {r}
    /\ UNCHANGED <<senderVars, streams, driver, accepted, reading_ids, rx, clientVars>>

-----------------------------------------------------------------------------
(***************************************************************************)
(* recv(), one message at a time; it returns to the client with a packet.  *)
(***************************************************************************)
Receive(kind) ==
    /\ driver = "running"
    /\ rx # <<>> /\ Head(rx).kind = kind
    /\ rx' = Tail(rx)

RecvNewStream ==
    /\ Receive("NewStream")
    /\ reading_ids' = reading_ids \cup {Head(rx).gop}
    /\ UNCHANGED <<senderVars, streams, driver, accepted, readers, clientVars>>

\* Mutant of IsNewer: only the next GOP is newer.
IsNewerConsecutive(g) == gop = NoGop \/ g = gop + 1

IsNewer(g) == gop = NoGop \/ g > gop

RecvStreamIds ==
    /\ Receive("StreamIds")
    /\ LET g == Head(rx).gop
       IN  IF IsNewer(g)
           THEN /\ gop' = g
                /\ readers' = {[r EXCEPT !.cancelled = TRUE] : r \in readers}
                                 \cup {[gop |-> g, pos |-> 0, cancelled |-> FALSE]}
           ELSE UNCHANGED <<gop, readers>>
    /\ UNCHANGED <<senderVars, streams, driver, accepted, reading_ids, last_codec_gen,
                   last_config_gen, delivered>>

Ignore == UNCHANGED <<last_codec_gen, last_config_gen, delivered>>

\* Codec and config packets are repeated on each stream: only new ones count.
ReturnPacket(packet) ==
    LET codec_is_old == streams[gop + 1].codec_gen = last_codec_gen
        config_is_old == streams[gop + 1].config_gen = last_config_gen
    IN  IF \/ packet.kind = "codec" /\ codec_is_old
           \/ packet.kind = "config" /\ config_is_old
        THEN Ignore
        ELSE /\ delivered' =
                  Append(delivered, [kind |-> packet.kind, n |-> packet.n, gop |-> gop])
             /\ last_codec_gen' = IF packet.kind = "codec"
                                  THEN streams[gop + 1].codec_gen ELSE last_codec_gen
             /\ last_config_gen' = IF packet.kind = "config"
                                   THEN streams[gop + 1].config_gen ELSE last_config_gen

\* Mutant of RecvNewPacket: packets of an abandoned stream are returned.
RecvAnyPacket ==
    /\ Receive("NewPacket")
    /\ ReturnPacket(Head(rx).packet)
    /\ UNCHANGED <<senderVars, streams, driver, accepted, reading_ids, readers, gop>>

\* What is left in the queue from an abandoned stream is discarded.
RecvNewPacket ==
    /\ Receive("NewPacket")
    /\ IF Head(rx).gop = gop THEN ReturnPacket(Head(rx).packet) ELSE Ignore
    /\ UNCHANGED <<senderVars, streams, driver, accepted, reading_ids, readers, gop>>

\* Messages left in the queue go with it.
Drop ==
    /\ driver = "running"
    /\ driver' = "dropped"
    /\ rx' = <<>>
    /\ readers' = {[r EXCEPT !.cancelled = TRUE] : r \in readers}
    /\ UNCHANGED <<senderVars, streams, accepted, reading_ids, clientVars>>

ClientRecv == RecvNewStream \/ RecvStreamIds \/ RecvNewPacket

Next ==
    \/ SendCodec \/ SendConfig \/ SendKey \/ SendDelta
    \/ \E ids \in BOOLEAN : SendKeyFails(ids)
    \/ AcceptUni
    \/ \E g \in reading_ids : ReadStreamIds(g) \/ ReadStreamIdsFails(g)
    \/ \E r \in readers : ReadPacket(r) \/ StopReading(r)
    \/ ClientRecv
    \/ Drop

Spec == Init /\ [][Next]_vars

(***************************************************************************)
(* Streams are reliable and tokio polls the tasks.  Tasks that wait for    *)
(* room in an mpsc queue are served in turn, so that none is passed over   *)
(* for ever (strong fairness).  The client keeps calling recv().           *)
(***************************************************************************)
Fairness ==
    /\ SF_vars(AcceptUni)
    /\ SF_vars(\E g \in reading_ids : ReadStreamIds(g))
    /\ SF_vars(\E r \in readers : ~ r.cancelled /\ ReadPacket(r))
    /\ WF_vars(ClientRecv)

FairSpec == Spec /\ Fairness

-----------------------------------------------------------------------------
Packets == [kind : {"codec", "config", "media"}, n : Nat]

\* Every variable holds a value of its Rust type; queue and readers are bounded.
TypeOK ==
    /\ sender \in {"running", "failed"} /\ driver \in {"running", "dropped"}
    /\ codec_gen \in 0 .. MaxCodecs /\ config_gen \in 0 .. MaxConfigs
    /\ current_stream \in Gops \cup {NoGop} /\ media \in 0 .. MaxMedia
    /\ \A i \in 1 .. Len(streams) :
          /\ streams[i].packets \in Seq(Packets)
          /\ streams[i].state \in {"open", "finished"}
    /\ accepted \in 0 .. Len(streams)
    /\ reading_ids \subseteq Gops
    /\ Len(rx) <= Capacity
    /\ gop \in Gops \cup {NoGop}
    /\ Cardinality({r \in readers : ~ r.cancelled}) <= 1
    /\ last_codec_gen \in 0 .. codec_gen /\ last_config_gen \in 0 .. config_gen

Indices(kind) == {i \in 1 .. Len(delivered) : delivered[i].kind = kind}

(***************************************************************************)
(* The client gets media packets in the order they were sent, none twice,  *)
(* although the tasks that read the ids of several streams, and cancelled  *)
(* readers, feed the queue in any order.  Of each stream it gets a prefix: *)
(* following a newer one cuts the end of a GOP off and never its middle.   *)
(* (With the types of the variables: one reader that is not cancelled.)    *)
(***************************************************************************)
MediaOf(g) == {p.n : p \in {q \in {streams[g + 1].packets[i] :
                                       i \in 1 .. Len(streams[g + 1].packets)} :
                                q.kind = "media"}}

InOrder ==
    /\ TypeOK
    /\ \A i, j \in Indices("media") : i < j => delivered[i].n < delivered[j].n
    /\ \A i \in Indices("media") :
          \A n \in MediaOf(delivered[i].gop) :
              n < delivered[i].n => \E j \in 1 .. i : delivered[j] =
                  [kind |-> "media", n |-> n, gop |-> delivered[i].gop]

(***************************************************************************)
(* Whenever the client gets a media packet, the last codec packet and the  *)
(* last config packet that it got are the ones of that packet's stream,    *)
(* although they are filtered out of most streams: "The receiver uses      *)
(* these ids to make sure it sends a single codec or config packet at most *)
(* once."                                                                  *)
(***************************************************************************)
InForce(kind, i) ==
    LET before == {j \in Indices(kind) : j < i}
    IN  {delivered[j].n : j \in {k \in before : \A l \in before : l <= k}}

Decodable ==
    /\ \A i \in Indices("media") :
          /\ InForce("codec", i) = {streams[delivered[i].gop + 1].codec_gen}
          /\ InForce("config", i) = {streams[delivered[i].gop + 1].config_gen}
    /\ \A kind \in {"codec", "config"} : \A i, j \in Indices(kind) :
          delivered[i].n = delivered[j].n => i = j

(***************************************************************************)
(* Every packet of the newest GOP reaches the client, unless a newer GOP   *)
(* is started or the receiver is dropped: a GOP is transmitted reliably.   *)
(* So whenever the sender pauses, the client gets all of the newest GOP.   *)
(***************************************************************************)
NewestGopDelivered ==
    []<>(\/ streams = <<>>
         \/ driver = "dropped"
         \/ MediaOf(Len(streams) - 1) \subseteq {delivered[i].n : i \in Indices("media")})
=============================================================================
