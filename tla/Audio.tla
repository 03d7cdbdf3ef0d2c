------------------------------- MODULE Audio -------------------------------
(***************************************************************************)
(* The unreliable audio protocols.  Both ends of an endpoint are started   *)
(* with the same AudioProtocol, which picks the driver: AudioUnreliable or *)
(* AudioUnreliableFec.  (AudioProtocol::Reliable is a ReliablePipe.)  What *)
(* they promise to the client is the same, and stated here.                *)
(***************************************************************************)
EXTENDS AudioUnreliable

CONSTANTS MaxFecPackets, FecSeqRange, MaxSources, MinRepairs, MaxObjects, MaxSymbols

VARIABLE audio_protocol

Fec == INSTANCE AudioUnreliableFec WITH MaxPackets <- MaxFecPackets,
                                         SeqRange <- FecSeqRange

allVars == <<vars, audio_protocol>>

IsFec == audio_protocol = "UnreliableFec"

\* start_audio_protocol_send() and start_audio_protocol_recv()
AudioInit ==
    /\ audio_protocol \in {"Unreliable", "UnreliableFec"}
    /\ Init

AudioNext ==
    /\ \/ ~ IsFec /\ Next
       \/ IsFec /\ Fec!Next
    /\ UNCHANGED audio_protocol

(***************************************************************************)
(* The reliable stream is read, the timer of tokio fires, process() runs   *)
(* until it waits, the client keeps receiving, and time passes.  Nothing   *)
(* is assumed of the datagrams.                                            *)
(***************************************************************************)
ProcessStep ==
    \/ ~ IsFec /\ (RecvCodec \/ RecvConfig)
    \/ IsFec /\ (Fec!RecvCodec \/ Fec!RecvConfig \/ Fec!Take \/ Fec!Drained)

TimerStep == IF IsFec THEN Fec!DeadlineReached ELSE DeadlineReached

TimePasses == IF IsFec THEN Fec!Tick ELSE Tick

Fairness ==
    /\ WF_allVars(ProcessStep /\ UNCHANGED audio_protocol)
    /\ WF_allVars(TimerStep /\ UNCHANGED audio_protocol)
    /\ WF_allVars(ClientRecv /\ UNCHANGED audio_protocol)
    /\ WF_allVars(TimePasses /\ UNCHANGED audio_protocol)

FairSpec == AudioInit /\ [][AudioNext]_allVars /\ Fairness

-----------------------------------------------------------------------------
NumberedPackets == [kind : {"config", "media"}, seq : Nat, data : SUBSET Nat]

MediaPackets ==
    IF IsFec
    THEN [seq : Nat, sources : 1 .. MaxSources, age : 0 .. MaxBuffering, data : SUBSET Nat]
    ELSE [seq : Nat, age : 0 .. MaxBuffering, data : SUBSET Nat]

Segments ==
    IF IsFec
    THEN [seq : Nat, sources : 1 .. MaxSources, symbols : SUBSET [esi : Nat, pkt : Nat]]
    ELSE [seq : Nat, number : Nat, end : BOOLEAN, pkt : Nat]

TypeOK ==
    /\ sender \in {"new", "started", "failed"}
    /\ sent \in Seq({"config", "media"})
    /\ process \in {"running", "draining", "ended", "dropped", "panicked",
                    "rejected", "exceeded"}
    /\ kypacket_newest \in Nat
    /\ frame_size \in {0, FrameSize}
    /\ config_packet \in [state : {"none", "ready", "sent"}, seq : Nat, pkt : Nat]
    /\ media \subseteq MediaPackets
    /\ segments \subseteq Segments
    /\ next_kypacket_seq \in Nat
    /\ deadline \in NoDeadline .. MaxBuffering
    /\ dropped_packets \in Nat
    /\ forwarded \in Seq({CodecPacket} \cup {Hole(n) : n \in 1 .. MaxSamples}
                            \cup NumberedPackets)
    /\ received \in 0 .. Len(forwarded)

(***************************************************************************)
(* The assertions of insert_stream_packet() (one config packet), of        *)
(* set_segment() (one last segment per packet) and of process() (the codec *)
(* packet came first) never fail, and nothing that a correct sender sends  *)
(* is rejected as invalid with forward error correction.  (With the types  *)
(* of the variables: a hole fits its field.)                               *)
(***************************************************************************)
NothingRejected == TypeOK /\ process \notin {"panicked", "rejected"}

(***************************************************************************)
(* What check_capacity() and drop_expired_segments() are for: objects and  *)
(* symbols held stay within the limits, no packet number is held twice,    *)
(* and none that was forwarded or given up is held at all, so that the     *)
(* limit counts only what can still be played.                             *)
(***************************************************************************)
BudgetKept ==
    IsFec =>
        /\ Cardinality(Fec!Objects) + (IF config_packet.state = "ready" THEN 1 ELSE 0)
              <= MaxObjects
        /\ Fec!MapThenSumSet(LAMBDA p : p.sources, Fec!Objects) <= MaxSymbols
        /\ \A p, q \in Fec!Objects : p.seq = q.seq => p = q
        /\ \A p \in Fec!Objects : p.seq >= next_kypacket_seq

(***************************************************************************)
(* The comment in process(): "Drain all completed packets before waiting   *)
(* for more network input."  With forward error correction the receiver    *)
(* never waits while it holds the packet that is due, or one that it held  *)
(* long enough when it last looked.                                        *)
(***************************************************************************)
NothingHeldBack ==
    IsFec /\ process = "running" =>
        /\ ~ Fec!ConfigIsNext
        /\ config_packet.state # "none" /\ media # {} =>
              ~ Fec!MediaIsNext /\ deadline # NoDeadline

(***************************************************************************)
(* The timer that the receiver arms for a gap is disarmed only when a      *)
(* packet is played, not by a datagram that comes too late; and it does    *)
(* not stay armed: there comes a time when the receiver is past the gap    *)
(* and waits for no other, however many datagrams arrive in the meantime.  *)
(***************************************************************************)
Running == process \in {"running", "draining"}

GapPassed ==
    /\ [][deadline # NoDeadline /\ deadline' = NoDeadline
              => next_kypacket_seq' > next_kypacket_seq \/ process = "draining"]_vars
    /\ []<>(deadline = NoDeadline \/ ~ Running)
=============================================================================
