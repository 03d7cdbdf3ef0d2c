--------------------------- MODULE AudioUnreliable ---------------------------
(***************************************************************************)
(* The `unreliable' audio protocol: the codec packet and the config packet *)
(* travel over one kynet stream, audio packets as datagrams.  There are no *)
(* groups: one PendingGroup holds the config packet, the reassembled       *)
(* packets and the segments.  What is given up is told to the client as a  *)
(* hole packet, so that it can conceal or insert that many samples.        *)
(*                                                                         *)
(* Time, payloads, the network and the channel to the client are as in     *)
(* VideoUnreliable.                                                        *)
(***************************************************************************)
EXTENDS Integers, Sequences, FiniteSets, SequencesExt, Sequencer

CONSTANTS
    MaxPackets,     \* bound on the numbered packets sent
    ConfigsAt,      \* which of them the client sends as config packets
    MaxSegments,    \* bound on the datagrams of one audio packet
    MaxBuffering,   \* MAX_BUFFERING, in ticks
    ClientCapacity, \* capacity of the channel to the receiving client
    FrameSize,      \* samples per audio packet, in the codec packet
    MaxSamples,     \* u32::MAX in the code
    SeqRange        \* 2^32 in the code

ASSUME ConstantsAssumption ==
    /\ MaxPackets \in Nat /\ MaxSegments \in Nat
    /\ ConfigsAt \subseteq Nat
    /\ MaxBuffering \in Nat \ {0} /\ ClientCapacity \in Nat \ {0}
    /\ FrameSize \in Nat \ {0} /\ MaxSamples \in Nat \ {0}
    /\ SeqRange \in Nat \ {0} /\ SeqRange % 2 = 0

VARIABLES
    \* sender
    sender,         \* "new", "started" once the codec packet is sent, "failed"
    sent,           \* the kinds of the numbered packets; kypacket_seq is Len(sent)
    \* network
    stream, datagrams,
    \* receiver, the state of process()
    process,        \* "running", "ended", "dropped" or "panicked"
    kypacket_newest,
    frame_size,     \* 0 for None
    config_packet, media, segments,     \* PendingGroup
    next_kypacket_seq,
    deadline,       \* ticks until the timer fires, or NoDeadline
    dropped_packets,
    \* receiving client
    forwarded, received

senderVars == <<sender, sent>>
networkVars == <<stream, datagrams>>
pendingVars == <<config_packet, media, segments>>
outputVars == <<next_kypacket_seq, deadline, dropped_packets, forwarded>>
vars == <<senderVars, networkVars, process, kypacket_newest, frame_size,
          pendingVars, outputVars, received>>

NoDeadline == -1

NoConfig == [state |-> "none", seq |-> 0, pkt |-> 0]

CodecPacket == [kind |-> "codec", seq |-> -1, data |-> {-1}]

Hole(missing_audio_samples) ==
    [kind |-> "hole", missing_audio_samples |-> missing_audio_samples]

Init ==
    /\ sender = "new" /\ sent = <<>>
    /\ stream = <<>> /\ datagrams = {}
    /\ process = "running"
    /\ kypacket_newest = 0
    /\ frame_size = 0
    /\ config_packet = NoConfig /\ media = {} /\ segments = {}
    /\ next_kypacket_seq = 0
    /\ deadline = NoDeadline
    /\ dropped_packets = 0
    /\ forwarded = <<>> /\ received = 0

-----------------------------------------------------------------------------
\* As in VideoUnreliable: no message is half the sequence space late.
SenderInWindow ==
    /\ Len(sent) <= kypacket_newest + HalfRange(SeqRange)
    /\ \A i \in 1 .. Len(stream) : Len(sent) < stream[i].pkt + HalfRange(SeqRange)

CanSend ==
    /\ sender = "started"
    /\ Len(sent) < MaxPackets
    /\ SenderInWindow

\* The client sends the codec packet exactly once, as the first packet.
SendCodec ==
    /\ sender = "new"
    /\ sender' = "started"
    /\ stream' = Append(stream, [kind |-> "codec", raw_kypacket_seq |-> 0, pkt |-> -1])
    /\ UNCHANGED <<sent, datagrams, process, kypacket_newest, frame_size,
                   pendingVars, outputVars, received>>

SendConfig ==
    /\ CanSend
    /\ Len(sent) \in ConfigsAt
    /\ stream' = Append(stream, [kind |-> "config",
                                 raw_kypacket_seq |-> Raw(Len(sent), SeqRange),
                                 pkt |-> Len(sent)])
    /\ sent' = Append(sent, "config")
    /\ UNCHANGED <<sender, datagrams, process, kypacket_newest, frame_size,
                   pendingVars, outputVars, received>>

\* The first n of the `total' datagrams that carry the next audio packet.
Datagrams(n, total) ==
    {[raw_kypacket_seq |-> Raw(Len(sent), SeqRange), datagram_number |-> i,
      end |-> (i = total - 1), pkt |-> Len(sent)] : i \in 0 .. (n - 1)}

SendMedia(total) ==
    /\ CanSend
    /\ Len(sent) \notin ConfigsAt
    /\ datagrams' = datagrams \cup Datagrams(total, total)
    /\ sent' = Append(sent, "media")
    /\ UNCHANGED <<sender, stream, process, kypacket_newest, frame_size,
                   pendingVars, outputVars, received>>

\* send_datagram() fails after n datagrams; the loop that called send() ends.
SendMediaFails(n, total) ==
    /\ CanSend
    /\ Len(sent) \notin ConfigsAt
    /\ datagrams' = datagrams \cup Datagrams(n, total)
    /\ sender' = "failed"
    /\ UNCHANGED <<sent, stream, process, kypacket_newest, frame_size,
                   pendingVars, outputVars, received>>

-----------------------------------------------------------------------------
(***************************************************************************)
(* PendingGroup::take_next_packet, on config packet c, reassembled packets *)
(* m and segments s, and what process() does with its result.              *)
(***************************************************************************)
First(p, packets) == \A q \in packets : p.seq <= q.seq

\* deadline <= Instant::now(), for the oldest reassembled packet
Expired(m) == \E p \in m : p.age >= MaxBuffering

ConfigIsNext(c) == c.state = "ready" /\ c.seq = next_kypacket_seq

MediaIsNext(m) == \E p \in m : First(p, m) /\ p.seq = next_kypacket_seq

\* Mutant of Ready: a packet that was held long enough is not let through.
ReadyInOrder(c, m) == ConfigIsNext(c) \/ MediaIsNext(m)

Ready(c, m) == ConfigIsNext(c) \/ MediaIsNext(m) \/ Expired(m)

\* A failed assert! ends the task and with it the protocol.
Panic ==
    /\ process' = "panicked"
    /\ UNCHANGED <<pendingVars, outputVars>>

MissingSamples(missing) ==
    IF missing * frame_size < MaxSamples THEN missing * frame_size ELSE MaxSamples

\* Mutant of Forward: a gap of one packet is not told to the client.
ForwardSilently(packet) ==
    LET missing == packet.seq - next_kypacket_seq
    IN  /\ IF missing > 1
           THEN forwarded' = forwarded \o <<Hole(MissingSamples(missing)), packet>>
           ELSE forwarded' = Append(forwarded, packet)
        /\ dropped_packets' = dropped_packets + missing
        /\ next_kypacket_seq' = packet.seq + 1
        /\ deadline' = NoDeadline

Forward(packet) ==
    LET missing == packet.seq - next_kypacket_seq
    IN  /\ IF missing > 0
           THEN /\ forwarded' = forwarded \o <<Hole(MissingSamples(missing)), packet>>
                /\ dropped_packets' = dropped_packets + missing
           ELSE /\ forwarded' = Append(forwarded, packet)
                /\ UNCHANGED dropped_packets
        /\ next_kypacket_seq' = packet.seq + 1
        /\ deadline' = NoDeadline

TakeConfig(c, m, s) ==
    /\ c.state = "ready"
    /\ config_packet' = [c EXCEPT !.state = "sent"]
    /\ media' = m /\ segments' = s
    /\ Forward([kind |-> "config", seq |-> c.seq, data |-> {c.pkt}])

\* pop_front() and drop_expired_segments()
TakeMedia(c, m, s) ==
    /\ c.state = "sent"
    /\ \E p \in m :
          /\ First(p, m)
          /\ config_packet' = c
          /\ media' = m \ {p}
          /\ segments' = {x \in s : x.seq >= p.seq}
          /\ Forward([kind |-> "media", seq |-> p.seq, data |-> p.data])

Wait(c, m, s) ==
    /\ config_packet' = c /\ media' = m /\ segments' = s
    /\ UNCHANGED <<next_kypacket_seq, dropped_packets, forwarded>>

WaitForDeadline(c, m, s) ==
    /\ \E oldest \in m :
          /\ \A p \in m : p.age <= oldest.age
          /\ deadline' = MaxBuffering - oldest.age
    /\ Wait(c, m, s)

TakeNextPacket(c, m, s) ==
    IF c.state = "none" \/ (~ ConfigIsNext(c) /\ m = {})
    THEN Wait(c, m, s) /\ deadline' = NoDeadline /\ UNCHANGED process
    ELSE IF ~ Ready(c, m)
    THEN WaitForDeadline(c, m, s) /\ UNCHANGED process
    ELSE IF frame_size = 0
    THEN Panic
    ELSE (TakeConfig(c, m, s) \/ TakeMedia(c, m, s)) /\ UNCHANGED process

-----------------------------------------------------------------------------
(***************************************************************************)
(* Receiver: one iteration of the loop of process() per action.  process() *)
(* is not waiting for an event while a packet or a hole of its last        *)
(* iteration waits for room in the channel to the client.                  *)
(***************************************************************************)
Idle ==
    /\ process = "running"
    /\ Len(forwarded) - received <= ClientCapacity

Unrolls(msg, seq) ==
    /\ InWindow(kypacket_newest, msg.pkt, SeqRange)
    /\ seq = Unroll(kypacket_newest, msg.raw_kypacket_seq, SeqRange)
    /\ kypacket_newest' = Newest(kypacket_newest, seq)

RecvCodec ==
    /\ Idle
    /\ stream # <<>> /\ stream[1].kind = "codec"
    /\ stream' = Tail(stream)
    /\ frame_size' = FrameSize
    /\ forwarded' = Append(forwarded, CodecPacket)
    /\ UNCHANGED <<senderVars, datagrams, process, kypacket_newest, pendingVars,
                   next_kypacket_seq, deadline, dropped_packets, received>>

InsertStreamPacket(seq, pkt) ==
    IF config_packet.state # "none"
    THEN Panic
    ELSE TakeNextPacket([state |-> "ready", seq |-> seq, pkt |-> pkt], media, segments)

RecvConfig ==
    /\ Idle
    /\ stream # <<>> /\ stream[1].kind = "config"
    /\ stream' = Tail(stream)
    /\ LET msg == stream[1]
           seq == Unroll(kypacket_newest, msg.raw_kypacket_seq, SeqRange)
       IN  /\ Unrolls(msg, seq)
           /\ IF seq >= next_kypacket_seq
              THEN InsertStreamPacket(seq, msg.pkt)
              ELSE TakeNextPacket(config_packet, media, segments)
    /\ UNCHANGED <<senderVars, datagrams, frame_size, received>>

\* PendingGroup::insert_datagram and DatagramSegments::set_segment: the
\* segments of packet seq once segment x is added to those held already.
SegmentsOf(seq) == {x \in segments : x.seq = seq}

WithSegment(held, x) ==
    IF \E y \in held : y.number = x.number THEN held ELSE held \cup {x}

IsComplete(held) == \E x \in held : x.end /\ x.number + 1 = Cardinality(held)

\* Mutant of SecondEnd: a repeated last segment is not recognised as repeated.
SecondEndRepeated(held, new, d) == d.end /\ \E x \in held : x.end

\* The assert! of set_segment() fails.
SecondEnd(held, new, d) == new # held /\ d.end /\ \E x \in held : x.end

InsertDatagram(seq, d) ==
    LET held == SegmentsOf(seq)
        new == WithSegment(held, [seq |-> seq, number |-> d.datagram_number,
                                  end |-> d.end, pkt |-> d.pkt])
    IN  IF \E p \in media : p.seq = seq
        THEN TakeNextPacket(config_packet, media, segments)
        ELSE IF SecondEnd(held, new, d)
        THEN Panic
        ELSE IF IsComplete(new)
        THEN TakeNextPacket(config_packet,
                            media \cup {[seq |-> seq, age |-> 0,
                                         data |-> {x.pkt : x \in new}]},
                            segments \ held)
        ELSE TakeNextPacket(config_packet, media, segments \cup new)

RecvDatagram(d) ==
    /\ Idle
    /\ LET seq == Unroll(kypacket_newest, d.raw_kypacket_seq, SeqRange)
       IN  /\ Unrolls(d, seq)
           /\ IF seq < next_kypacket_seq
              THEN UNCHANGED <<process, pendingVars, outputVars>>
              ELSE InsertDatagram(seq, d)
    /\ UNCHANGED <<senderVars, networkVars, frame_size, received>>

DeadlineReached ==
    /\ Idle
    /\ deadline = 0
    /\ TakeNextPacket(config_packet, media, segments)
    /\ UNCHANGED <<senderVars, networkVars, kypacket_newest, frame_size, received>>

\* Both receiving tasks ended: rx.recv() gives None.
InputEnds ==
    /\ Idle
    /\ process' = "ended"
    /\ UNCHANGED <<senderVars, networkVars, kypacket_newest, frame_size,
                   pendingVars, outputVars, received>>

Drop ==
    /\ process \in {"running", "ended"}
    /\ process' = "dropped"
    /\ UNCHANGED <<senderVars, networkVars, kypacket_newest, frame_size,
                   pendingVars, outputVars, received>>

ClientRecv ==
    /\ process # "dropped"
    /\ received < Len(forwarded)
    /\ received' = received + 1
    /\ UNCHANGED <<senderVars, networkVars, process, kypacket_newest, frame_size,
                   pendingVars, outputVars>>

Older(p) == [p EXCEPT !.age = IF @ < MaxBuffering THEN @ + 1 ELSE @]

Tick ==
    /\ process = "running"
    /\ \/ deadline > 0
       \/ \E p \in media : p.age < MaxBuffering
    /\ media' = {Older(p) : p \in media}
    /\ deadline' = IF deadline > 0 THEN deadline - 1 ELSE deadline
    /\ UNCHANGED <<senderVars, networkVars, process, kypacket_newest, frame_size,
                   config_packet, segments, next_kypacket_seq, dropped_packets,
                   forwarded, received>>

Next ==
    \/ SendCodec
    \/ SendConfig
    \/ \E total \in 1 .. MaxSegments : SendMedia(total)
    \/ \E total \in 1 .. MaxSegments : \E n \in 0 .. (total - 1) :
          SendMediaFails(n, total)
    \/ RecvCodec
    \/ RecvConfig
    \/ \E d \in datagrams : RecvDatagram(d)
    \/ DeadlineReached
    \/ InputEnds
    \/ Drop
    \/ ClientRecv
    \/ Tick

-----------------------------------------------------------------------------
(***************************************************************************)
(* Sender, network and receiver together implement OrderedDelivery once    *)
(* the holes are left out: the config packet opens the only group.         *)
(***************************************************************************)
GroupAt(n) == Cardinality({i \in DOMAIN sent : i <= n /\ sent[i] = "config"})

SentPackets == [i \in 1 .. Len(sent) |-> [kind |-> sent[i], grp |-> GroupAt(i)]]

Delivered ==
    LET packets == SelectSeq(forwarded, LAMBDA p : p.kind # "hole")
    IN  [i \in 1 .. Len(packets) |->
            [kind |-> packets[i].kind, seq |-> packets[i].seq,
             grp |-> IF packets[i].kind = "codec" THEN -1
                     ELSE GroupAt(packets[i].seq + 1),
             data |-> packets[i].data]]

Abstract == INSTANCE OrderedDelivery
    WITH sent <- SentPackets, delivered <- Delivered,
         expected <- next_kypacket_seq, lost <- dropped_packets

ImplementsOrderedDelivery == Abstract!Spec

(***************************************************************************)
(* The client never loses track of time: up to any packet it was given,    *)
(* packets and holes together stand for exactly the samples sent before    *)
(* the end of that packet (a hole that was clamped to u32::MAX excepted).  *)
(***************************************************************************)
SamplesOf(p) ==
    CASE p.kind = "codec" -> 0
      [] p.kind = "hole" -> p.missing_audio_samples
      [] OTHER -> FrameSize

SamplesAccounted ==
    \A i \in 1 .. Len(forwarded) :
        LET upto == SubSeq(forwarded, 1, i)
            clamped == \E j \in 1 .. i : forwarded[j] = Hole(MaxSamples)
        IN  forwarded[i].kind \in {"config", "media"} /\ ~ clamped
               => FoldLeft(LAMBDA total, p : total + SamplesOf(p), 0, upto)
                     = (forwarded[i].seq + 1) * FrameSize
=============================================================================
