------------------------- MODULE AudioUnreliableFec -------------------------
(***************************************************************************)
(* The unreliable audio protocol with forward error correction: as         *)
(* AudioUnreliable, with the symbols of VideoUnreliableFec for segments.   *)
(* What the receiver holds is limited; unlike the video receiver it gives  *)
(* up nothing at the limit, it ends.  After every event it takes all that  *)
(* is complete ("draining").                                               *)
(*                                                                         *)
(* The variables are those of AudioUnreliable.  What the two files have in *)
(* common word for word, the codec and config packets of the sender and    *)
(* the end of the input, is taken from there.                              *)
(***************************************************************************)
EXTENDS Integers, Sequences, FiniteSets, FiniteSetsExt, Sequencer

CONSTANTS
    MaxPackets,     \* bound on the numbered packets sent
    ConfigsAt,      \* which of them the client sends as config packets
    MaxSources,     \* bound on the source symbols of an audio packet
    MinRepairs,     \* 2 in the code
    MaxBuffering,   \* MAX_BUFFERING, in ticks
    MaxObjects,     \* MAX_PENDING_OBJECTS
    MaxSymbols,     \* the limit in bytes, counted in source symbols
    ClientCapacity, FrameSize, MaxSamples, SeqRange

VARIABLES
    sender, sent, stream, datagrams,
    process,        \* "running" when it waits for an event, "draining",
                    \* "ended", "dropped", "rejected" or "exceeded"
    kypacket_newest, frame_size,
    config_packet,
    media,          \* the decoded packets
    segments,       \* the objects that are being decoded
    next_kypacket_seq, deadline, dropped_packets, forwarded, received

Plain == INSTANCE AudioUnreliable WITH MaxSegments <- MaxSources

senderVars == <<sender, sent>>
networkVars == <<stream, datagrams>>
pendingVars == <<config_packet, media, segments>>
outputVars == <<next_kypacket_seq, deadline, dropped_packets, forwarded>>

-----------------------------------------------------------------------------
\* 30 percent, rounded up, and at least MinRepairs.
Repairs(k) == Max({MinRepairs, (3 * k + 9) \div 10})

\* The first n datagrams of the next packet, which has k source symbols.
Symbols(n, k) ==
    {[raw_kypacket_seq |-> Raw(Len(sent), SeqRange), sources |-> k, esi |-> i,
      pkt |-> Len(sent)] : i \in 0 .. (n - 1)}

SendMedia(k) ==
    /\ Plain!CanSend
    /\ Len(sent) \notin ConfigsAt
    /\ datagrams' = datagrams \cup Symbols(k + Repairs(k), k)
    /\ sent' = Append(sent, "media")
    /\ UNCHANGED <<sender, stream, process, kypacket_newest, frame_size,
                   pendingVars, outputVars, received>>

\* send_datagram() fails after n datagrams; the loop that called send() ends.
\* The receiver may be able to decode the packet: it counts as sent.
SendMediaFails(n, k) ==
    /\ Plain!CanSend
    /\ Len(sent) \notin ConfigsAt
    /\ datagrams' = datagrams \cup Symbols(n, k)
    /\ sent' = Append(sent, "media")
    /\ sender' = "failed"
    /\ UNCHANGED <<stream, process, kypacket_newest, frame_size, pendingVars,
                   outputVars, received>>

-----------------------------------------------------------------------------
(***************************************************************************)
(* The events of process().                                                *)
(***************************************************************************)
NotBlocked == Len(forwarded) - received <= ClientCapacity

Idle == process = "running" /\ NotBlocked

Objects == media \cup segments

\* PendingGroup::check_capacity.  The few bytes of a config packet are left out.
Fits(additional) ==
    /\ Cardinality(Objects) + (IF config_packet.state = "ready" THEN 1 ELSE 0) < MaxObjects
    /\ MapThenSumSet(LAMBDA p : p.sources, Objects) + additional <= MaxSymbols

\* process() returns an error.
Fails(reason) == process' = reason /\ UNCHANGED pendingVars

Ignore == process' = "draining" /\ UNCHANGED pendingVars

RecvCodec ==
    /\ Idle
    /\ stream # <<>> /\ stream[1].kind = "codec"
    /\ stream' = Tail(stream)
    /\ frame_size' = FrameSize
    /\ IF FrameSize = 0
       THEN process' = "rejected" /\ UNCHANGED forwarded
       ELSE forwarded' = Append(forwarded, Plain!CodecPacket) /\ UNCHANGED process
    /\ UNCHANGED <<senderVars, datagrams, kypacket_newest, pendingVars,
                   next_kypacket_seq, deadline, dropped_packets, received>>

InsertStreamPacket(seq, pkt) ==
    IF config_packet.state # "none"
    THEN Fails("rejected")
    ELSE IF ~ Fits(0)
    THEN Fails("exceeded")
    ELSE /\ config_packet' = [state |-> "ready", seq |-> seq, pkt |-> pkt]
         /\ process' = "draining"
         /\ UNCHANGED <<media, segments>>

RecvConfig ==
    /\ Idle
    /\ stream # <<>> /\ stream[1].kind = "config"
    /\ stream' = Tail(stream)
    /\ LET msg == stream[1]
           seq == Unroll(kypacket_newest, msg.raw_kypacket_seq, SeqRange)
       IN  /\ Plain!Unrolls(msg, seq)
           /\ IF seq >= next_kypacket_seq THEN InsertStreamPacket(seq, msg.pkt) ELSE Ignore
    /\ UNCHANGED <<senderVars, datagrams, frame_size, outputVars, received>>

\* ObjectDecoder::decode
WithSymbol(p, d) == [p EXCEPT !.symbols = @ \cup {[esi |-> d.esi, pkt |-> d.pkt]}]

TooMany(p, d) ==
    WithSymbol(p, d) # p /\ Cardinality(p.symbols) >= 2 * p.sources + 32

\* DatagramSegments::assemble
Assembled(p) == [seq |-> p.seq, sources |-> p.sources, age |-> 0,
                 data |-> {x.pkt : x \in p.symbols}]

\* add_packet(), is_complete() and assemble(): the decoder p, which is one of
\* the segments or new, gets a symbol.  RaptorQ may decode with as many
\* symbols as there are source symbols, and does with all source symbols.
Decode(p, d) ==
    LET q == WithSymbol(p, d)
        enough == Cardinality(q.symbols) >= q.sources
        certain == \A i \in 0 .. (q.sources - 1) : \E x \in q.symbols : x.esi = i
    IN  IF d.sources # p.sources \/ TooMany(p, d)
        THEN Fails("rejected")
        ELSE /\ \/ /\ q # p /\ enough
                   /\ media' = media \cup {Assembled(q)} /\ segments' = segments \ {p}
                \/ /\ q = p \/ ~ certain
                   /\ segments' = (segments \ {p}) \cup {q} /\ UNCHANGED media
             /\ process' = "draining"
             /\ UNCHANGED config_packet

NewDecoder(seq, d) == [seq |-> seq, sources |-> d.sources, symbols |-> {}]

Of(packets, seq) == {p \in packets : p.seq = seq}

\* PendingGroup::insert_datagram and prepare_datagram_segments
InsertDatagram(seq, d) ==
    IF Of(media, seq) # {}
    THEN IF \A p \in Of(media, seq) : p.sources = d.sources
         THEN Ignore ELSE Fails("rejected")
    ELSE IF Of(segments, seq) # {}
    THEN \E p \in Of(segments, seq) : Decode(p, d)
    ELSE IF Fits(d.sources)
    THEN Decode(NewDecoder(seq, d), d)
    ELSE Fails("exceeded")

\* Mutant of RecvDatagram: datagrams of packets given up are not ignored.
RecvDatagramLate(d) ==
    /\ Idle
    /\ LET seq == Unroll(kypacket_newest, d.raw_kypacket_seq, SeqRange)
       IN  Plain!Unrolls(d, seq) /\ InsertDatagram(seq, d)
    /\ UNCHANGED <<senderVars, networkVars, frame_size, outputVars, received>>

RecvDatagram(d) ==
    /\ Idle
    /\ LET seq == Unroll(kypacket_newest, d.raw_kypacket_seq, SeqRange)
       IN  /\ Plain!Unrolls(d, seq)
           /\ IF seq < next_kypacket_seq
              THEN UNCHANGED <<process, pendingVars>>
              ELSE InsertDatagram(seq, d)
    /\ UNCHANGED <<senderVars, networkVars, frame_size, outputVars, received>>

DeadlineReached ==
    /\ Idle
    /\ deadline = 0
    /\ process' = "draining"
    /\ UNCHANGED <<senderVars, networkVars, kypacket_newest, frame_size,
                   pendingVars, outputVars, received>>

-----------------------------------------------------------------------------
(***************************************************************************)
(* The inner loop of process(): take_next_packet() until there is none.    *)
(***************************************************************************)
First(p) == \A q \in media : p.seq <= q.seq

ConfigIsNext == config_packet.state = "ready" /\ config_packet.seq = next_kypacket_seq

MediaIsNext == \E p \in media : First(p) /\ p.seq = next_kypacket_seq

Expired == \E p \in media : p.age >= MaxBuffering

Ready ==
    /\ config_packet.state # "none"
    /\ ConfigIsNext \/ MediaIsNext \/ Expired

\* A packet goes to the client, behind a hole if packets before it are missing.
Forward(packet) ==
    LET missing == packet.seq - next_kypacket_seq
        hole == IF missing > 0 THEN <<Plain!Hole(Plain!MissingSamples(missing))>> ELSE <<>>
    IN  /\ forwarded' = forwarded \o Append(hole, packet)
        /\ dropped_packets' = dropped_packets + Max({missing, 0})
        /\ next_kypacket_seq' = packet.seq + 1

TakeConfig ==
    /\ config_packet.state = "ready"
    /\ config_packet' = [config_packet EXCEPT !.state = "sent"]
    /\ Forward([kind |-> "config", seq |-> config_packet.seq, data |-> {config_packet.pkt}])
    /\ UNCHANGED <<media, segments>>

\* pop_front() and drop_expired_segments()
TakeMedia ==
    /\ config_packet.state = "sent"
    /\ \E p \in media :
          /\ First(p)
          /\ media' = media \ {p}
          /\ segments' = {x \in segments : x.seq >= p.seq}
          /\ Forward([kind |-> "media", seq |-> p.seq, data |-> p.data])
    /\ UNCHANGED config_packet

\* Mutant of Take: one packet is taken after each event.
TakeOne ==
    /\ process = "draining" /\ NotBlocked
    /\ Ready
    /\ TakeConfig \/ TakeMedia
    /\ process' = "running"
    /\ UNCHANGED <<senderVars, networkVars, kypacket_newest, frame_size, deadline, received>>

Take ==
    /\ process = "draining" /\ NotBlocked
    /\ Ready
    /\ IF frame_size = 0
       THEN Fails("rejected") /\ UNCHANGED outputVars
       ELSE (TakeConfig \/ TakeMedia) /\ UNCHANGED <<process, deadline>>
    /\ UNCHANGED <<senderVars, networkVars, kypacket_newest, frame_size, received>>

\* Action::None or Action::Deadline: process() waits for the next event.
Drained ==
    /\ process = "draining" /\ NotBlocked
    /\ ~ Ready
    /\ deadline' = IF config_packet.state = "none" \/ media = {}
                   THEN Plain!NoDeadline
                   ELSE MaxBuffering - Max({p.age : p \in media})
    /\ process' = "running"
    /\ UNCHANGED <<senderVars, networkVars, kypacket_newest, frame_size, pendingVars,
                   next_kypacket_seq, dropped_packets, forwarded, received>>

-----------------------------------------------------------------------------
Drop ==
    /\ process # "dropped"
    /\ process' = "dropped"
    /\ UNCHANGED <<senderVars, networkVars, kypacket_newest, frame_size,
                   pendingVars, outputVars, received>>

Tick ==
    /\ process \in {"running", "draining"}
    /\ deadline > 0 \/ \E p \in media : p.age < MaxBuffering
    /\ media' = {Plain!Older(p) : p \in media}
    /\ deadline' = IF deadline > 0 THEN deadline - 1 ELSE deadline
    /\ UNCHANGED <<senderVars, networkVars, process, kypacket_newest, frame_size,
                   config_packet, segments, next_kypacket_seq, dropped_packets,
                   forwarded, received>>

Next ==
    \/ Plain!SendCodec
    \/ Plain!SendConfig
    \/ \E k \in 1 .. MaxSources : SendMedia(k)
    \/ \E k \in 1 .. MaxSources : \E n \in 0 .. (k + Repairs(k) - 1) : SendMediaFails(n, k)
    \/ RecvCodec
    \/ RecvConfig
    \/ \E d \in datagrams : RecvDatagram(d)
    \/ DeadlineReached
    \/ Take
    \/ Drained
    \/ Plain!InputEnds
    \/ Drop
    \/ Plain!ClientRecv
    \/ Tick
=============================================================================
