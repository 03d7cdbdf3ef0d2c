------------------------- MODULE VideoUnreliableFec -------------------------
(***************************************************************************)
(* The unreliable video protocol with forward error correction.  A media   *)
(* packet travels as K source symbols and some repair symbols, a datagram  *)
(* each; K distinct symbols are enough to decode it, nearly always.  What  *)
(* the receiver holds is limited: at the limit it retires the media that   *)
(* has waited longest in the order of the stream, if it is obsolete, and   *)
(* ends otherwise.                                                         *)
(*                                                                         *)
(* Config packets, groups, ages and the timer are as in VideoUnreliable.   *)
(* Sequence numbers are not wrapped around here: inside the window the     *)
(* Sequencer returns the number that was sent (UnrollInWindow).  The       *)
(* decoder of RaptorQ is external: it may decode once it has K symbols,    *)
(* and does when it has all source symbols.                                *)
(***************************************************************************)
EXTENDS Integers, Sequences, FiniteSets, FiniteSetsExt

CONSTANTS
    MaxPackets,     \* bound on the config and media packets sent
    MaxSources,     \* bound on the source symbols of a media packet
    MinRepairs,     \* 2 in the code
    MaxBuffering,   \* MAX_BUFFERING, in ticks
    MaxObjects,     \* MAX_PENDING_OBJECTS
    MaxSymbols,     \* the limit in bytes, counted in source symbols
    MaxGroups,      \* MAX_PENDING_GROUPS
    ClientCapacity  \* capacity of the channel to the receiving client

ASSUME ConstantsAssumption ==
    /\ {MaxPackets, MaxSources} \subseteq Nat
    /\ MinRepairs \in 0 .. 32
    /\ {MaxBuffering, MaxObjects, MaxSymbols, MaxGroups, ClientCapacity}
          \subseteq Nat \ {0}

VARIABLES
    \* sender
    sender,         \* "new", "started" once the codec packet is sent, "failed"
    sent,           \* the numbered packets; kypacket_seq is Len(sent)
    \* network
    stream,         \* the kynet stream, first in first out
    datagrams,      \* every datagram ever sent
    \* receiver, the state of process()
    process,        \* "waiting" for an event, "draining" what is complete, or
                    \* "ended", "dropped", "rejected", "exceeded"
    configs, media, segments,   \* PendingGroups
    retired_through,            \* highest number retired, or -1
    retired_stats,              \* symbols of what was retired, not reported yet
    next_kypacket_seq,
    deadline,       \* ticks until the timer fires, or NoDeadline
    dropped_packets,
    fec_stats,      \* video_fec_source_symbols, .._missing and .._unrecovered
    opened,         \* history: the packets for which a decoder was created
    \* receiving client
    forwarded,      \* every packet sent to tx_client, in order
    received        \* how many of them the client took from rx_client

senderVars == <<sender, sent>>
networkVars == <<stream, datagrams>>
pendingVars == <<configs, media, segments, retired_through, retired_stats, opened>>
outputVars == <<next_kypacket_seq, deadline, dropped_packets, fec_stats, forwarded>>
vars == <<senderVars, networkVars, process, pendingVars, outputVars, received>>

NoDeadline == -1

CodecPacket == [kind |-> "codec", seq |-> -1, grp |-> -1, data |-> {-1}]

\* VideoFecStats
NoStats == [source |-> 0, missing |-> 0, unrecovered |-> 0]

Accumulate(a, b) == [f \in DOMAIN a |-> a[f] + b[f]]

Init ==
    /\ sender = "new" /\ sent = <<>>
    /\ stream = <<>> /\ datagrams = {}
    /\ process = "waiting"
    /\ configs = {} /\ media = {} /\ segments = {}
    /\ retired_through = -1 /\ retired_stats = NoStats
    /\ next_kypacket_seq = 0
    /\ deadline = NoDeadline
    /\ dropped_packets = 0 /\ fec_stats = NoStats /\ opened = {}
    /\ forwarded = <<>> /\ received = 0

-----------------------------------------------------------------------------
(***************************************************************************)
(* Sender.                                                                 *)
(***************************************************************************)
group_seq == Cardinality({i \in DOMAIN sent : sent[i].kind = "config"})

SendCodec ==
    /\ sender = "new"
    /\ sender' = "started"
    /\ stream' = Append(stream, [kind |-> "codec", seq |-> -1, grp |-> -1])
    /\ UNCHANGED <<sent, datagrams, process, pendingVars, outputVars, received>>

SendConfig ==
    /\ sender = "started"
    /\ Len(sent) < MaxPackets
    /\ stream' = Append(stream, [kind |-> "config", seq |-> Len(sent),
                                 grp |-> group_seq + 1])
    /\ sent' = Append(sent, [kind |-> "config", grp |-> group_seq + 1])
    /\ UNCHANGED <<sender, datagrams, process, pendingVars, outputVars, received>>

\* 30 percent, rounded up, and at least MinRepairs.
Repairs(k) == Max({MinRepairs, (3 * k + 9) \div 10})

\* The first n datagrams of the next packet, which has k source symbols:
\* esi is the encoding symbol id, the source symbols come first.
Datagrams(n, k) ==
    {[seq |-> Len(sent), grp |-> group_seq, sources |-> k, esi |-> i] : i \in 0 .. (n - 1)}

SendMedia(k) ==
    /\ sender = "started"
    /\ Len(sent) < MaxPackets
    /\ datagrams' = datagrams \cup Datagrams(k + Repairs(k), k)
    /\ sent' = Append(sent, [kind |-> "media", grp |-> group_seq])
    /\ UNCHANGED <<sender, stream, process, pendingVars, outputVars, received>>

\* send_datagram() fails after n datagrams, and the forwarding loop that
\* called send() ends.  The packet counts as sent: if n is large enough the
\* receiver can decode it all the same.
SendMediaFails(n, k) ==
    /\ sender = "started"
    /\ Len(sent) < MaxPackets
    /\ datagrams' = datagrams \cup Datagrams(n, k)
    /\ sent' = Append(sent, [kind |-> "media", grp |-> group_seq])
    /\ sender' = "failed"
    /\ UNCHANGED <<stream, process, pendingVars, outputVars, received>>

-----------------------------------------------------------------------------
(***************************************************************************)
(* The limits: admit(), retire_oldest_media() and check_capacity().  An    *)
(* object is a config packet that was not sent, a decoder or a media       *)
(* packet.  The few bytes of config packets are left out.                  *)
(***************************************************************************)
Stale(p) == p.age >= MaxBuffering

\* A source symbol is known by the packet it is of and its encoding symbol id.
SymbolIds == (0 .. (MaxPackets - 1)) \X (0 .. (MaxSources - 1))

\* The source symbols of packets, which have different numbers.
SourceSymbols(packets) ==
    {x \in SymbolIds : \E p \in packets : x[1] = p.seq /\ x[2] < p.sources}

Fits(c, m, s, additional) ==
    /\ Cardinality({p \in c : p.state = "ready"}) + Cardinality(m \cup s) < MaxObjects
    /\ Cardinality(SourceSymbols(m \cup s)) + additional <= MaxSymbols

From(packets, n) == {p \in packets : p.seq >= n}

\* All media below n is retired, oldest first, until the object fits.
Admits(n, additional) ==
    /\ Fits(configs, From(media, n), From(segments, n), additional)
    /\ \A p \in media \cup segments : p.seq < n => Stale(p)

\* The first such boundary, if there is one: what admit() retires.
Boundary(additional) ==
    {n \in 0 .. MaxPackets :
        /\ Admits(n, additional)
        /\ \A k \in 0 .. (n - 1) : ~ Admits(k, additional)}

\* DatagramSegments::fec_stats
MissingSymbols(packets) ==
    {x \in SymbolIds : \E p \in packets :
        /\ x[1] = p.seq /\ x[2] < p.sources
        /\ \A y \in p.symbols : y.esi # x[2]}

TotalOf(packets) ==
    [source |-> Cardinality(SourceSymbols(packets)),
     missing |-> Cardinality(MissingSymbols(packets)),
     unrecovered |-> Cardinality(MissingSymbols(packets \ media))]

Retire(n) ==
    /\ retired_through' = Max({retired_through, n - 1})
    /\ retired_stats' = Accumulate(retired_stats,
                                   TotalOf({p \in media \cup segments : p.seq < n}))

GroupsOf(c, m, s) == {p.grp : p \in c} \cup {p.grp : p \in m \cup s}

\* prepare_pending_group() has room for the group.
HasGroup(grp, c, m, s) ==
    grp \in GroupsOf(c, m, s) \/ Cardinality(GroupsOf(c, m, s)) < MaxGroups

-----------------------------------------------------------------------------
(***************************************************************************)
(* Receiver: the events of process().  An event that is not ignored is     *)
(* followed by draining.  process() does neither while its last packet     *)
(* waits for room in the channel to the client.                            *)
(***************************************************************************)
NotBlocked == Len(forwarded) - received <= ClientCapacity

Idle == process = "waiting" /\ NotBlocked

Fails(reason) == process' = reason /\ UNCHANGED pendingVars

RecvCodec ==
    /\ Idle
    /\ stream # <<>> /\ Head(stream).kind = "codec"
    /\ stream' = Tail(stream)
    /\ forwarded' = Append(forwarded, CodecPacket)
    /\ UNCHANGED <<senderVars, datagrams, process, pendingVars, next_kypacket_seq,
                   deadline, dropped_packets, fec_stats, received>>

InsertStreamPacket(grp, seq) ==
    IF Boundary(0) = {}
    THEN Fails("exceeded")
    ELSE \E n \in Boundary(0) :
        IF ~ HasGroup(grp, configs, From(media, n), From(segments, n))
        THEN Fails("exceeded")
        ELSE IF \E p \in configs : p.grp = grp
        THEN Fails("rejected")
        ELSE /\ configs' = configs \cup {[grp |-> grp, seq |-> seq, state |-> "ready"]}
             /\ media' = From(media, n) /\ segments' = From(segments, n)
             /\ Retire(n)
             /\ process' = "draining"
             /\ UNCHANGED opened

RecvConfig ==
    /\ Idle
    /\ stream # <<>> /\ Head(stream).kind = "config"
    /\ stream' = Tail(stream)
    /\ IF Head(stream).seq >= next_kypacket_seq
       THEN InsertStreamPacket(Head(stream).grp, Head(stream).seq)
       ELSE process' = "draining" /\ UNCHANGED pendingVars
    /\ UNCHANGED <<senderVars, datagrams, outputVars, received>>

\* ObjectDecoder::decode
WithSymbol(p, d) == [p EXCEPT !.symbols = @ \cup {[esi |-> d.esi, pkt |-> d.seq]}]

TooMany(p, d) ==
    WithSymbol(p, d) # p /\ Cardinality(p.symbols) >= 2 * p.sources + 32

\* DatagramSegments::assemble
Assembled(p) == [p EXCEPT !.age = 0]

\* PendingGroup::insert_datagram: the decoder p, which is one of s or new,
\* gets a symbol.
Decode(p, d, m, s) ==
    LET q == WithSymbol(p, d)
        enough == Cardinality(q.symbols) >= q.sources
        certain == \A i \in 0 .. (q.sources - 1) : \E x \in q.symbols : x.esi = i
    IN  IF d.sources # p.sources \/ TooMany(p, d)
        THEN Fails("rejected")
        ELSE /\ \/ /\ q # p /\ enough
                   /\ media' = m \cup {Assembled(q)} /\ segments' = s \ {p}
                \/ /\ q = p \/ ~ certain
                   /\ media' = m /\ segments' = (s \ {p}) \cup {q}
             /\ opened' = opened \cup {[seq |-> p.seq, sources |-> p.sources]}
             /\ process' = "draining"
             /\ UNCHANGED configs

NewDecoder(d) ==
    [grp |-> d.grp, seq |-> d.seq, sources |-> d.sources, symbols |-> {}, age |-> 0]

Ignore == process' = "draining" /\ UNCHANGED pendingVars

\* Mutant of InsertNew: media that became obsolete in admit() is recreated.
InsertNewObsolete(d) ==
    IF Boundary(d.sources) = {}
    THEN Fails("exceeded")
    ELSE \E n \in Boundary(d.sources) :
        IF ~ HasGroup(d.grp, configs, From(media, n), From(segments, n))
        THEN Fails("exceeded")
        ELSE Retire(n) /\ Decode(NewDecoder(d), d, From(media, n), From(segments, n))

InsertNew(d) ==
    IF Boundary(d.sources) = {}
    THEN Fails("exceeded")
    ELSE \E n \in Boundary(d.sources) :
        LET m == From(media, n)
            s == From(segments, n)
        IN  IF d.seq < n
            THEN /\ media' = m /\ segments' = s
                 /\ Retire(n)
                 /\ process' = "draining"
                 /\ UNCHANGED <<configs, opened>>
            ELSE IF ~ HasGroup(d.grp, configs, m, s)
            THEN Fails("exceeded")
            ELSE Retire(n) /\ Decode(NewDecoder(d), d, m, s)

\* PendingGroups::insert_datagram
InsertDatagram(d) ==
    LET held == {p \in media \cup segments : p.seq = d.seq}
    IN  IF d.seq <= retired_through
        THEN Ignore
        ELSE IF held = {}
        THEN InsertNew(d)
        ELSE \E p \in held :
            IF p.grp # d.grp
            THEN Fails("rejected")
            ELSE IF p \in segments
            THEN Decode(p, d, media, segments) /\ UNCHANGED <<retired_through, retired_stats>>
            ELSE IF p.sources # d.sources
            THEN Fails("rejected")
            ELSE Ignore

RecvDatagram(d) ==
    /\ Idle
    /\ IF d.seq < next_kypacket_seq
       THEN UNCHANGED <<process, pendingVars>>
       ELSE InsertDatagram(d)
    /\ UNCHANGED <<senderVars, networkVars, outputVars, received>>

DeadlineReached ==
    /\ Idle
    /\ deadline = 0
    /\ process' = "draining"
    /\ UNCHANGED <<senderVars, networkVars, pendingVars, outputVars, received>>

-----------------------------------------------------------------------------
(***************************************************************************)
(* The inner loop of process(): take_next_packet() until there is none.    *)
(***************************************************************************)
InGroup(packets, g) == {p \in packets : p.grp = g}

First(p, packets) == \A q \in packets : p.seq <= q.seq

IsNext(config) == config.state = "ready" /\ config.seq = next_kypacket_seq

\* A group that stops the loop of next_packet().
Decides(config) == IsNext(config) \/ InGroup(media, config.grp) # {}

NextGroup(config) ==
    /\ Decides(config)
    /\ \A other \in configs : Decides(other) => config.grp <= other.grp

\* Mutant of Ready: only the packet that is due is taken.
ReadyInOrder(config) ==
    \/ IsNext(config)
    \/ \E p \in InGroup(media, config.grp) :
          First(p, InGroup(media, config.grp)) /\ p.seq = next_kypacket_seq

Ready(config) ==
    \/ IsNext(config)
    \/ \E p \in InGroup(media, config.grp) :
          First(p, InGroup(media, config.grp)) /\ p.seq = next_kypacket_seq
    \/ \E p \in media : Stale(p)

\* Mutant of Forward: what was retired is not reported.
ForwardForgets(packet, gone) ==
    /\ forwarded' = Append(forwarded, packet)
    /\ dropped_packets' = dropped_packets + (packet.seq - next_kypacket_seq)
    /\ next_kypacket_seq' = packet.seq + 1
    /\ fec_stats' = Accumulate(fec_stats, TotalOf(gone))
    /\ retired_stats' = NoStats
    /\ media' = media \ gone /\ segments' = segments \ gone

\* A packet is taken: the objects `gone' go with it, and are counted.
Forward(packet, gone) ==
    /\ forwarded' = Append(forwarded, packet)
    /\ dropped_packets' = dropped_packets + (packet.seq - next_kypacket_seq)
    /\ next_kypacket_seq' = packet.seq + 1
    /\ fec_stats' = Accumulate(fec_stats, Accumulate(retired_stats, TotalOf(gone)))
    /\ retired_stats' = NoStats
    /\ media' = media \ gone /\ segments' = segments \ gone

Before(g) == {p \in media \cup segments : p.grp < g}

TakeConfig(config) ==
    /\ config.state = "ready"
    /\ configs' = {p \in configs : p.grp > config.grp}
                     \cup {[config EXCEPT !.state = "sent"]}
    /\ Forward([kind |-> "config", seq |-> config.seq, grp |-> config.grp,
                data |-> {config.seq}],
               Before(config.grp))

\* pop_front(), drop_expired_segments() and the groups that are drained
Expired(p) == Before(p.grp) \cup {p} \cup {x \in InGroup(segments, p.grp) : x.seq < p.seq}

\* Mutant of TakeMedia: the media packet goes before its config packet.
TakeMediaUnconfigured(config) ==
    /\ configs' = {p \in configs : p.grp >= config.grp}
    /\ \E p \in InGroup(media, config.grp) :
          /\ First(p, InGroup(media, config.grp))
          /\ Forward([kind |-> "media", seq |-> p.seq, grp |-> p.grp,
                      data |-> {x.pkt : x \in p.symbols}],
                     Expired(p))

TakeMedia(config) ==
    /\ config.state = "sent"
    /\ configs' = {p \in configs : p.grp >= config.grp}
    /\ \E p \in InGroup(media, config.grp) :
          /\ First(p, InGroup(media, config.grp))
          /\ Forward([kind |-> "media", seq |-> p.seq, grp |-> p.grp,
                      data |-> {x.pkt : x \in p.symbols}],
                     Expired(p))

\* Mutant of Take: one packet is taken after each event.
TakeOne ==
    /\ process = "draining" /\ NotBlocked
    /\ \E config \in configs :
          /\ NextGroup(config) /\ Ready(config)
          /\ TakeConfig(config) \/ TakeMedia(config)
    /\ process' = "waiting"
    /\ UNCHANGED <<senderVars, networkVars, retired_through, opened, deadline, received>>

Take ==
    /\ process = "draining" /\ NotBlocked
    /\ \E config \in configs :
          /\ NextGroup(config) /\ Ready(config)
          /\ TakeConfig(config) \/ TakeMedia(config)
    /\ UNCHANGED <<senderVars, networkVars, process, retired_through, opened,
                   deadline, received>>

\* Action::None or Action::Deadline: process() waits for the next event.
Drained ==
    /\ process = "draining" /\ NotBlocked
    /\ ~ \E config \in configs : NextGroup(config) /\ Ready(config)
    /\ deadline' = IF \E config \in configs : Decides(config)
                   THEN MaxBuffering - Max({p.age : p \in media})
                   ELSE NoDeadline
    /\ process' = "waiting"
    /\ UNCHANGED <<senderVars, networkVars, pendingVars, next_kypacket_seq,
                   dropped_packets, fec_stats, forwarded, received>>

-----------------------------------------------------------------------------
\* A receiving task fails, and its error ends process(), or both have ended.
InputEnds ==
    /\ Idle
    /\ process' = "ended"
    /\ UNCHANGED <<senderVars, networkVars, pendingVars, outputVars, received>>

Drop ==
    /\ process # "dropped"
    /\ process' = "dropped"
    /\ UNCHANGED <<senderVars, networkVars, pendingVars, outputVars, received>>

ClientRecv ==
    /\ process # "dropped"
    /\ received < Len(forwarded)
    /\ received' = received + 1
    /\ UNCHANGED <<senderVars, networkVars, process, pendingVars, outputVars>>

Older(p) == [p EXCEPT !.age = IF @ < MaxBuffering THEN @ + 1 ELSE @]

Tick ==
    /\ process \in {"waiting", "draining"}
    /\ deadline > 0 \/ \E p \in media \cup segments : ~ Stale(p)
    /\ media' = {Older(p) : p \in media}
    /\ segments' = {Older(p) : p \in segments}
    /\ deadline' = IF deadline > 0 THEN deadline - 1 ELSE deadline
    /\ UNCHANGED <<senderVars, networkVars, process, configs, retired_through,
                   retired_stats, opened, next_kypacket_seq, dropped_packets,
                   fec_stats, forwarded, received>>

Next ==
    \/ SendCodec
    \/ SendConfig
    \/ \E k \in 1 .. MaxSources : SendMedia(k)
    \/ \E k \in 1 .. MaxSources : \E n \in 0 .. (k + Repairs(k) - 1) : SendMediaFails(n, k)
    \/ RecvCodec
    \/ RecvConfig
    \/ \E d \in datagrams : RecvDatagram(d)
    \/ DeadlineReached
    \/ Take
    \/ Drained
    \/ InputEnds
    \/ Drop
    \/ ClientRecv
    \/ Tick

Spec == Init /\ [][Next]_vars

(***************************************************************************)
(* The reliable stream is read, the timer of tokio fires, process() runs   *)
(* until it waits, the client keeps receiving, and time passes.            *)
(***************************************************************************)
Fairness ==
    /\ WF_vars(RecvCodec \/ RecvConfig)
    /\ WF_vars(DeadlineReached)
    /\ WF_vars(Take \/ Drained)
    /\ WF_vars(ClientRecv)
    /\ WF_vars(Tick)

FairSpec == Spec /\ Fairness

-----------------------------------------------------------------------------
(***************************************************************************)
(* Sender, network and receiver together implement OrderedDelivery: what   *)
(* take_next_packet() hands out is a subsequence of what was sent, each    *)
(* packet intact and under its own config, whatever is lost, repeated,     *)
(* reordered or retired, and dropped_packets counts the rest.              *)
(***************************************************************************)
Abstract == INSTANCE OrderedDelivery
    WITH delivered <- forwarded, expected <- next_kypacket_seq,
         lost <- dropped_packets

ImplementsOrderedDelivery == Abstract!Spec

Objects == media \cup segments

SymbolRecords == [esi : Nat, pkt : Nat]

PendingObject(p) ==
    /\ p.grp \in Nat /\ p.seq \in Nat /\ p.sources \in 1 .. MaxSources
    /\ p.symbols \subseteq SymbolRecords /\ p.symbols # {}
    /\ p.age \in 0 .. MaxBuffering

TypeOK ==
    /\ sender \in {"new", "started", "failed"}
    /\ process \in {"waiting", "draining", "ended", "dropped", "rejected", "exceeded"}
    /\ configs \subseteq [grp : Nat, seq : Nat, state : {"ready", "sent"}]
    /\ \A p \in Objects : PendingObject(p)
    /\ retired_through \in -1 .. (MaxPackets - 1)
    /\ {retired_stats, fec_stats} \subseteq [{"source", "missing", "unrecovered"} -> Nat]
    /\ next_kypacket_seq \in 0 .. MaxPackets
    /\ deadline \in NoDeadline .. MaxBuffering
    /\ received \in 0 .. Len(forwarded)

(***************************************************************************)
(* What admit() and prepare_pending_group() are for: however datagrams     *)
(* and the config stream interleave, the objects, the symbols reserved and *)
(* the groups held stay within the limits.  No packet number is held       *)
(* twice, and one that was retired or forwarded is not held at all.  And   *)
(* what a correct sender sends is never rejected as invalid.  (With the    *)
(* types.)                                                                 *)
(***************************************************************************)
AdmissionSound ==
    /\ TypeOK
    /\ Cardinality({p \in configs : p.state = "ready"}) + Cardinality(Objects) <= MaxObjects
    /\ Cardinality(SourceSymbols(Objects)) <= MaxSymbols
    /\ Cardinality(GroupsOf(configs, media, segments)) <= MaxGroups
    /\ \A p, q \in Objects : p.seq = q.seq => p = q
    /\ \A p \in Objects : p.seq > retired_through /\ p.seq >= next_kypacket_seq
    /\ process # "rejected"

(***************************************************************************)
(* The counters of ProtocolStats: every object for which a decoder was     *)
(* created is counted once, whether it was forwarded, retired, drained     *)
(* with its group or expired; what is not reported yet is still held or    *)
(* waits in retired_stats.  Symbols that could not be recovered are among  *)
(* the missing ones, and those among the source symbols.                   *)
(***************************************************************************)
FecAccounted ==
    LET reported == Accumulate(fec_stats, retired_stats)
        all == Accumulate(reported, TotalOf(Objects))
    IN  /\ all.source = Cardinality(SourceSymbols(opened))
        /\ reported.unrecovered <= reported.missing
        /\ reported.missing <= reported.source

(***************************************************************************)
(* The comment in process(): "Drain all completed packets before waiting   *)
(* for more network input.  In particular, a late reliable config can      *)
(* unlock media whose datagrams have already all arrived."  The receiver   *)
(* never waits while it holds the packet that is due.                      *)
(***************************************************************************)
NothingHeldBack ==
    process = "waiting" =>
        \A config \in configs :
            /\ ~ IsNext(config)
            /\ \A p \in InGroup(media, config.grp) : p.seq # next_kypacket_seq

(***************************************************************************)
(* The timer that the receiver arms for a gap does not stay armed: there   *)
(* comes a time when it is past the gap, or the packets behind it were     *)
(* retired to make room, and it waits for no other gap, however many       *)
(* datagrams arrive in the meantime.                                       *)
(***************************************************************************)
Running == process \in {"waiting", "draining"}

GapPassed == []<>(deadline = NoDeadline \/ ~ Running)
=============================================================================
