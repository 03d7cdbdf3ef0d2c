--------------------------- MODULE VideoUnreliable ---------------------------
(***************************************************************************)
(* The `unreliable' video protocol: config packets (SPS/PPS) travel over   *)
(* one kynet stream, media packets are split into datagrams that the       *)
(* network may lose, repeat and reorder, and the receiver reassembles,     *)
(* reorders and, after MAX_BUFFERING, gives up on what is missing.         *)
(*                                                                         *)
(* Time is kept as ages: a reassembled packet carries how long ago it was  *)
(* completed, counted up to MaxBuffering, and the timer how long it still  *)
(* has to run.                                                             *)
(*                                                                         *)
(* PendingGroups (a Vec sorted by group_seq of config packet, reassembled  *)
(* packets and segments) is three sets whose members carry their group:    *)
(* configs, media and segments.  A group without a member in any of them   *)
(* is one that was never created or was drained.                           *)
(***************************************************************************)
EXTENDS Integers, Sequences, FiniteSets, Sequencer

CONSTANTS
    MaxPackets,     \* bound on the config and media packets sent
    MaxSegments,    \* bound on the datagrams of one media packet
    MaxBuffering,   \* MAX_BUFFERING, in ticks
    ClientCapacity, \* capacity of the channel to the receiving client
    SeqRange        \* 2^32 in the code: where the numbers on the wire wrap

ASSUME ConstantsAssumption ==
    /\ MaxPackets \in Nat
    /\ MaxSegments \in Nat
    /\ MaxBuffering \in Nat \ {0}
    /\ ClientCapacity \in Nat \ {0}
    /\ SeqRange \in Nat \ {0}
    /\ SeqRange % 2 = 0

VARIABLES
    \* sender
    sender,         \* "new", "started" once the codec packet is sent, "failed"
    sent,           \* the numbered packets; kypacket_seq is Len(sent)
    group_seq,
    \* network
    stream,         \* the kynet stream, first in first out
    datagrams,      \* every datagram ever sent
    \* receiver, the state of process()
    process,        \* "running", "ended", "dropped" or "panicked"
    kypacket_newest, group_newest,      \* the two Sequencers
    configs, media, segments,           \* PendingGroups
    next_kypacket_seq,
    deadline,       \* ticks until the timer fires, or NoDeadline
    dropped_packets,
    \* receiving client
    forwarded,      \* every packet sent to tx_client, in order
    received        \* how many of them the client took from rx_client

senderVars == <<sender, sent, group_seq>>
networkVars == <<stream, datagrams>>
sequencerVars == <<kypacket_newest, group_newest>>
pendingVars == <<configs, media, segments>>
outputVars == <<next_kypacket_seq, deadline, dropped_packets, forwarded>>
vars == <<senderVars, networkVars, process, sequencerVars, pendingVars,
          outputVars, received>>

NoDeadline == -1

CodecPacket == [kind |-> "codec", seq |-> -1, grp |-> -1, data |-> {-1}]

Init ==
    /\ sender = "new" /\ sent = <<>> /\ group_seq = 0
    /\ stream = <<>> /\ datagrams = {}
    /\ process = "running"
    /\ kypacket_newest = 0 /\ group_newest = 0
    /\ configs = {} /\ media = {} /\ segments = {}
    /\ next_kypacket_seq = 0
    /\ deadline = NoDeadline
    /\ dropped_packets = 0
    /\ forwarded = <<>> /\ received = 0

-----------------------------------------------------------------------------
(***************************************************************************)
(* Sender.  `pkt' stands for the payload: it names the packet a message    *)
(* was made from.  A datagram that is older than half the sequence space   *)
(* is taken to be gone, and the sender not to run that far ahead of the    *)
(* receiver: with 2^32 numbers that is hours of video.                     *)
(***************************************************************************)
SenderInWindow ==
    /\ Len(sent) <= kypacket_newest + HalfRange(SeqRange)
    /\ \A i \in 1 .. Len(stream) : Len(sent) < stream[i].pkt + HalfRange(SeqRange)

\* The client sends the codec packet exactly once, as the first packet.
SendCodec ==
    /\ sender = "new"
    /\ sender' = "started"
    /\ stream' = Append(stream, [kind |-> "codec", raw_kypacket_seq |-> 0,
                                 raw_group_seq |-> 0, pkt |-> -1, grp |-> -1])
    /\ UNCHANGED <<sent, group_seq, datagrams, process, sequencerVars,
                   pendingVars, outputVars, received>>

SendConfig ==
    /\ sender = "started"
    /\ Len(sent) < MaxPackets
    /\ SenderInWindow
    /\ group_seq' = group_seq + 1
    /\ stream' = Append(stream, [kind |-> "config",
                                 raw_kypacket_seq |-> Raw(Len(sent), SeqRange),
                                 raw_group_seq |-> Raw(group_seq + 1, SeqRange),
                                 pkt |-> Len(sent), grp |-> group_seq + 1])
    /\ sent' = Append(sent, [kind |-> "config", grp |-> group_seq + 1])
    /\ UNCHANGED <<sender, datagrams, process, sequencerVars, pendingVars,
                   outputVars, received>>

\* The first n of the `total' datagrams that carry the next media packet.
Datagrams(n, total) ==
    {[raw_kypacket_seq |-> Raw(Len(sent), SeqRange),
      raw_group_seq |-> Raw(group_seq, SeqRange),
      datagram_number |-> i, end |-> (i = total - 1),
      pkt |-> Len(sent), grp |-> group_seq] : i \in 0 .. (n - 1)}

SendMedia(total) ==
    /\ sender = "started"
    /\ Len(sent) < MaxPackets
    /\ SenderInWindow
    /\ datagrams' = datagrams \cup Datagrams(total, total)
    /\ sent' = Append(sent, [kind |-> "media", grp |-> group_seq])
    /\ UNCHANGED <<sender, group_seq, stream, process, sequencerVars,
                   pendingVars, outputVars, received>>

\* send_datagram() fails after n datagrams: kypacket_seq is not advanced, and
\* the forwarding loop that called send() ends.
SendMediaFails(n, total) ==
    /\ sender = "started"
    /\ Len(sent) < MaxPackets
    /\ SenderInWindow
    /\ datagrams' = datagrams \cup Datagrams(n, total)
    /\ sender' = "failed"
    /\ UNCHANGED <<sent, group_seq, stream, process, sequencerVars,
                   pendingVars, outputVars, received>>

-----------------------------------------------------------------------------
(***************************************************************************)
(* PendingGroups::take_next_packet, on pending groups c, m and s.          *)
(***************************************************************************)
InGroup(packets, g) == {p \in packets : p.grp = g}

First(p, packets) == \A q \in packets : p.seq <= q.seq

\* deadline <= Instant::now(), for the oldest reassembled packet of all groups
Expired(m) == \E p \in m : p.age >= MaxBuffering

\* A group that stops the loop of next_packet(): its config packet is the
\* expected one, or it has a config packet and a reassembled media packet.
Decides(config, m) ==
    \/ config.state = "ready" /\ config.seq = next_kypacket_seq
    \/ InGroup(m, config.grp) # {}

NextGroup(config, c, m) ==
    /\ Decides(config, m)
    /\ \A other \in c : Decides(other, m) => config.grp <= other.grp

\* Mutant of Ready: a packet behind a gap is not held back.
ReadyEager(config, m) ==
    \/ config.state = "ready" /\ config.seq = next_kypacket_seq
    \/ InGroup(m, config.grp) # {}

\* Mutant of Ready: a packet behind a gap is held back for ever.
ReadyInOrder(config, m) ==
    \/ config.state = "ready" /\ config.seq = next_kypacket_seq
    \/ \E p \in InGroup(m, config.grp) :
          First(p, InGroup(m, config.grp)) /\ p.seq = next_kypacket_seq

Ready(config, m) ==
    \/ config.state = "ready" /\ config.seq = next_kypacket_seq
    \/ \E p \in InGroup(m, config.grp) :
          First(p, InGroup(m, config.grp)) /\ p.seq = next_kypacket_seq
    \/ Expired(m)

Forward(packet) ==
    /\ forwarded' = Append(forwarded, packet)
    /\ dropped_packets' = dropped_packets + (packet.seq - next_kypacket_seq)
    /\ next_kypacket_seq' = packet.seq + 1
    /\ deadline' = NoDeadline

FromGroup(packets, g) == {p \in packets : p.grp >= g}

\* Mutant of TakeConfig: the config packet is not marked as sent.
TakeConfigUnmarked(config, c, m, s) ==
    /\ config.state = "ready"
    /\ configs' = FromGroup(c, config.grp)
    /\ media' = FromGroup(m, config.grp)
    /\ segments' = FromGroup(s, config.grp)
    /\ Forward([kind |-> "config", seq |-> config.seq, grp |-> config.grp,
                data |-> {config.pkt}])

TakeConfig(config, c, m, s) ==
    /\ config.state = "ready"
    /\ configs' = (FromGroup(c, config.grp) \ {config})
                     \cup {[config EXCEPT !.state = "sent"]}
    /\ media' = FromGroup(m, config.grp)
    /\ segments' = FromGroup(s, config.grp)
    /\ Forward([kind |-> "config", seq |-> config.seq, grp |-> config.grp,
                data |-> {config.pkt}])

\* pop_front() and drop_expired_segments()
TakeMedia(config, c, m, s) ==
    /\ config.state = "sent"
    /\ \E p \in InGroup(m, config.grp) :
          /\ First(p, InGroup(m, config.grp))
          /\ configs' = FromGroup(c, config.grp)
          /\ media' = FromGroup(m, config.grp) \ {p}
          /\ segments' = {x \in FromGroup(s, config.grp) :
                             x.grp = config.grp => x.seq >= p.seq}
          /\ Forward([kind |-> "media", seq |-> p.seq, grp |-> p.grp,
                      data |-> p.data])

Wait(c, m, s) ==
    /\ configs' = c /\ media' = m /\ segments' = s
    /\ UNCHANGED <<next_kypacket_seq, dropped_packets, forwarded>>

\* Mutant of WaitForDeadline: the timer follows the newest packet.
WaitForNewest(c, m, s) ==
    /\ \E newest \in m :
          /\ \A p \in m : p.age >= newest.age
          /\ deadline' = MaxBuffering - newest.age
    /\ Wait(c, m, s)

WaitForDeadline(c, m, s) ==
    /\ \E oldest \in m :
          /\ \A p \in m : p.age <= oldest.age
          /\ deadline' = MaxBuffering - oldest.age
    /\ Wait(c, m, s)

TakeNextPacket(c, m, s) ==
    \/ /\ ~ \E config \in c : Decides(config, m)
       /\ deadline' = NoDeadline
       /\ Wait(c, m, s)
    \/ \E config \in c :
          /\ NextGroup(config, c, m)
          /\ \/ Ready(config, m) /\ TakeConfig(config, c, m, s)
             \/ Ready(config, m) /\ TakeMedia(config, c, m, s)
             \/ ~ Ready(config, m) /\ WaitForDeadline(c, m, s)

-----------------------------------------------------------------------------
(***************************************************************************)
(* Receiver: one iteration of the loop of process() per action.  process() *)
(* is not waiting for an event while its last packet waits for room in     *)
(* the channel to the client.                                              *)
(***************************************************************************)
Idle ==
    /\ process = "running"
    /\ Len(forwarded) - received <= ClientCapacity

\* A failed assert! ends the task and with it the protocol.
Panic ==
    /\ process' = "panicked"
    /\ UNCHANGED <<pendingVars, outputVars>>

Unrolls(msg, seq, grp) ==
    /\ InWindow(kypacket_newest, msg.pkt, SeqRange)
    /\ InWindow(group_newest, msg.grp, SeqRange)
    /\ seq = Unroll(kypacket_newest, msg.raw_kypacket_seq, SeqRange)
    /\ grp = Unroll(group_newest, msg.raw_group_seq, SeqRange)
    /\ kypacket_newest' = Newest(kypacket_newest, seq)
    /\ group_newest' = Newest(group_newest, grp)

RecvCodec ==
    /\ Idle
    /\ stream # <<>> /\ stream[1].kind = "codec"
    /\ stream' = Tail(stream)
    /\ forwarded' = Append(forwarded, CodecPacket)
    /\ UNCHANGED <<senderVars, datagrams, process, sequencerVars, pendingVars,
                   next_kypacket_seq, deadline, dropped_packets, received>>

InsertStreamPacket(grp, seq, pkt) ==
    IF InGroup(configs, grp) # {}
    THEN Panic
    ELSE /\ TakeNextPacket(configs \cup {[grp |-> grp, state |-> "ready",
                                          seq |-> seq, pkt |-> pkt]},
                           media, segments)
         /\ UNCHANGED process

RecvConfig ==
    /\ Idle
    /\ stream # <<>> /\ stream[1].kind = "config"
    /\ stream' = Tail(stream)
    /\ LET msg == stream[1]
           seq == Unroll(kypacket_newest, msg.raw_kypacket_seq, SeqRange)
           grp == Unroll(group_newest, msg.raw_group_seq, SeqRange)
       IN  /\ Unrolls(msg, seq, grp)
           /\ IF seq >= next_kypacket_seq
              THEN InsertStreamPacket(grp, seq, msg.pkt)
              ELSE TakeNextPacket(configs, media, segments) /\ UNCHANGED process
    /\ UNCHANGED <<senderVars, datagrams, received>>

\* Mutant of SegmentsOf: segments are looked up by group only.
SegmentsOfGroup(grp, seq) == {x \in segments : x.grp = grp}

\* PendingGroup::insert_datagram and DatagramSegments::set_segment: the
\* segments of packet seq once segment x is added to those held already.
SegmentsOf(grp, seq) == {x \in segments : x.grp = grp /\ x.seq = seq}

WithSegment(held, x) ==
    IF \E y \in held : y.number = x.number THEN held ELSE held \cup {x}

IsComplete(held) == \E x \in held : x.end /\ x.number + 1 = Cardinality(held)

InsertDatagram(grp, seq, d) ==
    LET held == SegmentsOf(grp, seq)
        new == WithSegment(held, [grp |-> grp, seq |-> seq, number |-> d.datagram_number,
                                  end |-> d.end, pkt |-> d.pkt])
    IN  IF \E p \in media : p.grp = grp /\ p.seq = seq
        THEN TakeNextPacket(configs, media, segments) /\ UNCHANGED process
        ELSE IF new # held /\ d.end /\ \E x \in held : x.end
        THEN Panic
        ELSE IF IsComplete(new)
        THEN /\ TakeNextPacket(configs,
                               media \cup {[grp |-> grp, seq |-> seq, age |-> 0,
                                            data |-> {x.pkt : x \in new}]},
                               segments \ held)
             /\ UNCHANGED process
        ELSE TakeNextPacket(configs, media, segments \cup new) /\ UNCHANGED process

RecvDatagram(d) ==
    /\ Idle
    /\ LET seq == Unroll(kypacket_newest, d.raw_kypacket_seq, SeqRange)
           grp == Unroll(group_newest, d.raw_group_seq, SeqRange)
       IN  /\ Unrolls(d, seq, grp)
           /\ IF seq < next_kypacket_seq
              THEN UNCHANGED <<process, pendingVars, outputVars>>
              ELSE InsertDatagram(grp, seq, d)
    /\ UNCHANGED <<senderVars, networkVars, received>>

DeadlineReached ==
    /\ Idle
    /\ deadline = 0
    /\ TakeNextPacket(configs, media, segments)
    /\ UNCHANGED <<senderVars, networkVars, process, sequencerVars, received>>

\* Both receiving tasks ended: rx.recv() gives None.
InputEnds ==
    /\ Idle
    /\ process' = "ended"
    /\ UNCHANGED <<senderVars, networkVars, sequencerVars, pendingVars,
                   outputVars, received>>

Drop ==
    /\ process \in {"running", "ended"}
    /\ process' = "dropped"
    /\ UNCHANGED <<senderVars, networkVars, sequencerVars, pendingVars,
                   outputVars, received>>

-----------------------------------------------------------------------------
ClientRecv ==
    /\ process # "dropped"
    /\ received < Len(forwarded)
    /\ received' = received + 1
    /\ UNCHANGED <<senderVars, networkVars, process, sequencerVars,
                   pendingVars, outputVars>>

Older(p) == [p EXCEPT !.age = IF @ < MaxBuffering THEN @ + 1 ELSE @]

Tick ==
    /\ process = "running"
    /\ \/ deadline > 0
       \/ \E p \in media : p.age < MaxBuffering
    /\ media' = {Older(p) : p \in media}
    /\ deadline' = IF deadline > 0 THEN deadline - 1 ELSE deadline
    /\ UNCHANGED <<senderVars, networkVars, process, sequencerVars, configs,
                   segments, next_kypacket_seq, dropped_packets, forwarded,
                   received>>

Next ==
    \/ SendCodec
    \/ SendConfig
    \/ \E total \in 1 .. MaxSegments : SendMedia(total)
    \/ \E total \in 1 .. MaxSegments : \E n \in 0 .. (total - 1) :
          SendMediaFails(n, total)
    \/ RecvCodec
    \/ RecvConfig
    \/ \E d \in datagrams : RecvDatagram(d)
    \/ DeadlineReached
    \/ InputEnds
    \/ Drop
    \/ ClientRecv
    \/ Tick

Spec == Init /\ [][Next]_vars

(***************************************************************************)
(* Tokio polls a task that can make progress, the stream is reliable, a    *)
(* timer fires, and the receiving client keeps calling recv().  Nothing    *)
(* is assumed of the datagrams.                                            *)
(***************************************************************************)
Fairness ==
    /\ WF_vars(RecvCodec \/ RecvConfig)
    /\ WF_vars(DeadlineReached)
    /\ WF_vars(ClientRecv)
    /\ WF_vars(Tick)

FairSpec == Spec /\ Fairness

-----------------------------------------------------------------------------
PacketsSent == [kind : {"config", "media"}, grp : Nat]

StreamMessages ==
    [kind : {"codec", "config"}, raw_kypacket_seq : Nat, raw_group_seq : Nat,
     pkt : Int, grp : Int]

DatagramMessages ==
    [raw_kypacket_seq : Nat, raw_group_seq : Nat, datagram_number : Nat,
     end : BOOLEAN, pkt : Nat, grp : Nat]

ConfigPackets == [grp : Nat, state : {"ready", "sent"}, seq : Nat, pkt : Nat]

MediaPackets ==
    [grp : Nat, seq : Nat, age : 0 .. MaxBuffering, data : SUBSET Nat]

SegmentRecords == [grp : Nat, seq : Nat, number : Nat, end : BOOLEAN, pkt : Nat]

ForwardedPackets ==
    [kind : {"codec", "config", "media"}, seq : Int, grp : Int, data : SUBSET Int]

\* Every variable holds a value of its Rust type.
TypeOK ==
    /\ sender \in {"new", "started", "failed"}
    /\ sent \in Seq(PacketsSent) /\ group_seq \in Nat
    /\ stream \in Seq(StreamMessages)
    /\ datagrams \subseteq DatagramMessages
    /\ process \in {"running", "ended", "dropped", "panicked"}
    /\ kypacket_newest \in Nat /\ group_newest \in Nat
    /\ configs \subseteq ConfigPackets
    /\ media \subseteq MediaPackets
    /\ segments \subseteq SegmentRecords
    /\ next_kypacket_seq \in Nat
    /\ deadline \in NoDeadline .. MaxBuffering
    /\ dropped_packets \in Nat
    /\ forwarded \in Seq(ForwardedPackets)
    /\ received \in 0 .. Len(forwarded)

(***************************************************************************)
(* Sender, network and receiver together implement OrderedDelivery.        *)
(***************************************************************************)
Abstract == INSTANCE OrderedDelivery
    WITH delivered <- forwarded, expected <- next_kypacket_seq,
         lost <- dropped_packets

ImplementsOrderedDelivery == Abstract!Spec

(***************************************************************************)
(* The client gets the codec packet first and then packets in the order    *)
(* they were sent, none of them twice, although take_next_packet() never   *)
(* compares what it takes with next_kypacket_seq.                          *)
(***************************************************************************)
InOrder == Abstract!InOrder

(***************************************************************************)
(* A media packet reaches the client directly behind its group's config    *)
(* packet or another media packet of that group, although the two travel   *)
(* by different ways and next_packet() may skip whole groups.              *)
(***************************************************************************)
GroupsContiguous == Abstract!GroupsContiguous

(***************************************************************************)
(* Each packet below next_kypacket_seq was either forwarded or counted     *)
(* once in ProtocolStats::dropped_packets, those that are drained with     *)
(* their group or discarded as late included.                              *)
(***************************************************************************)
DropsAccounted == Abstract!LossAccounted

(***************************************************************************)
(* A media packet is rebuilt from its own datagrams only, whatever was     *)
(* lost, repeated or reordered and wherever the numbers wrapped around.    *)
(***************************************************************************)
Intact == Abstract!Intact

(***************************************************************************)
(* The assertions of insert_stream_packet() (one config packet per group)  *)
(* and of set_segment() (one last segment per packet) never fail.          *)
(***************************************************************************)
NoPanic == process # "panicked"

(***************************************************************************)
(* A packet is given up only when some packet was held, complete, for      *)
(* MAX_BUFFERING: reordering within that time loses nothing.               *)
(***************************************************************************)
NoEarlyDrop ==
    [][dropped_packets' > dropped_packets => Expired(media)]_vars

(***************************************************************************)
(* Receiving more packets never postpones the moment at which the          *)
(* receiver stops waiting for a missing one.                               *)
(***************************************************************************)
DeadlineNotPostponed ==
    [][ /\ deadline # NoDeadline
        /\ next_kypacket_seq' = next_kypacket_seq
        => deadline' # NoDeadline /\ deadline' <= deadline ]_vars

(***************************************************************************)
(* The timer that the receiver arms for a gap does not stay armed: there   *)
(* comes a time when it is past the gap and waits for no other, however    *)
(* many datagrams arrive in the meantime.  (That it is disarmed only when  *)
(* the gap is passed is part of DeadlineNotPostponed.)                     *)
(***************************************************************************)
GapPassed == []<>(deadline = NoDeadline \/ process # "running")

(***************************************************************************)
(* The module documentation: "if the packet with the expected next         *)
(* kypacket_seq is available (whether it's a config packet or not), it is  *)
(* sent immediately".  Stated weakly: it is sent at some time.             *)
(***************************************************************************)
NextAvailable ==
    \E config \in configs :
        \/ config.state = "ready" /\ config.seq = next_kypacket_seq
        \/ \E p \in InGroup(media, config.grp) : p.seq = next_kypacket_seq

NextIsSent ==
    \A n \in 0 .. MaxPackets :
        (NextAvailable /\ next_kypacket_seq = n /\ process = "running")
            ~> (next_kypacket_seq > n \/ process # "running")

-----------------------------------------------------------------------------
(***************************************************************************)
(* The inductive invariant behind these properties.  First, group numbers  *)
(* grow with packet numbers, and a config packet is the first packet of    *)
(* its group.                                                              *)
(***************************************************************************)
GroupOf(n) == IF n < Len(sent) THEN sent[n + 1].grp ELSE group_seq

SenderInv ==
    /\ group_seq = Abstract!LatestGroup(sent)
    /\ \A i, j \in 1 .. Len(sent) :
          i < j => /\ sent[i].grp <= sent[j].grp
                   /\ sent[j].kind = "config" => sent[i].grp < sent[j].grp
    /\ sender = "new" => /\ sent = <<>> /\ stream = <<>> /\ datagrams = {}
                         /\ forwarded = <<>>

\* The codec packet leads the stream, config packets follow in order.
StreamOK(i) ==
    IF stream[i].kind = "codec"
    THEN i = 1 /\ forwarded = <<>> /\ stream[i].grp = -1
    ELSE /\ stream[i].pkt \in 0 .. (Len(sent) - 1)
         /\ sent[stream[i].pkt + 1] = [kind |-> "config", grp |-> stream[i].grp]
         /\ stream[i].raw_kypacket_seq = Raw(stream[i].pkt, SeqRange)
         /\ stream[i].raw_group_seq = Raw(stream[i].grp, SeqRange)

StreamInv ==
    /\ \A i \in 1 .. Len(stream) : StreamOK(i)
    /\ \A i, j \in 1 .. Len(stream) : i < j => stream[i].grp < stream[j].grp
    /\ forwarded = <<>> => /\ configs = {}
                           /\ stream # <<>> => stream[1].kind = "codec"
                           /\ stream = <<>> => sender = "new"

\* A datagram names its packet and group; only an abandoned packet is not
\* among the packets sent, and its last segment was never sent.
DatagramOK(d) ==
    /\ d.raw_kypacket_seq = Raw(d.pkt, SeqRange)
    /\ d.raw_group_seq = Raw(d.grp, SeqRange)
    /\ d.pkt <= Len(sent)
    /\ d.pkt < Len(sent) => sent[d.pkt + 1] = [kind |-> "media", grp |-> d.grp]
    /\ d.pkt = Len(sent) => sender = "failed" /\ d.grp = group_seq /\ ~ d.end

DatagramInv ==
    /\ \A d \in datagrams : DatagramOK(d)
    /\ \A d, e \in datagrams : d.pkt = e.pkt /\ d.end /\ e.end
                                  => d.datagram_number = e.datagram_number

\* The pending groups hold packets under their own numbers, none of them
\* passed over yet; the group being forwarded is the one whose config packet
\* was sent.
ConfigOK(x) ==
    /\ x.pkt = x.seq
    /\ x.seq < Len(sent)
    /\ sent[x.seq + 1] = [kind |-> "config", grp |-> x.grp]
    /\ x.state = "ready" => x.seq >= next_kypacket_seq
    /\ x.state = "sent" => /\ x.seq < next_kypacket_seq
                           /\ forwarded # <<>>
                           /\ forwarded[Len(forwarded)].grp = x.grp

MediaOK(x) ==
    /\ x.data = {x.seq}
    /\ x.seq < Len(sent)
    /\ sent[x.seq + 1] = [kind |-> "media", grp |-> x.grp]
    /\ x.seq >= next_kypacket_seq

SegmentOK(x) ==
    /\ x.pkt = x.seq
    /\ x.seq >= next_kypacket_seq
    /\ \E d \in datagrams : /\ d.pkt = x.seq /\ d.grp = x.grp
                            /\ d.datagram_number = x.number /\ d.end = x.end

PendingInv(c, m, s) ==
    /\ \A x \in c : ConfigOK(x)
    /\ \A x \in m : MediaOK(x)
    /\ \A x \in s : SegmentOK(x)
    /\ \A x, y \in c : x.grp = y.grp => x = y
    /\ \A x, y \in m : x.seq = y.seq => x = y
    /\ \A x \in s : \A y \in m : x.seq # y.seq

\* The stream only brings groups later than those that have a config packet.
StreamAhead ==
    \A i \in 1 .. Len(stream) : \A x \in configs :
        x.grp < stream[i].grp

Inv ==
    /\ TypeOK
    /\ SenderInv
    /\ StreamInv
    /\ DatagramInv
    /\ PendingInv(configs, media, segments)
    /\ StreamAhead
    /\ NoPanic
=============================================================================
