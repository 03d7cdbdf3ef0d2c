----------------------------- MODULE ReliablePipe -----------------------------
(***************************************************************************)
(* Packets over a byte stream: the packet formats of kymux-types, the      *)
(* drivers that write and read them, and the wrappers that make send() and *)
(* recv() safe to cancel.  A caller may give up on any call; the wrappers  *)
(* keep the task that writes or reads away from it, so that the stream is  *)
(* never left in the middle of a packet.                                   *)
(*                                                                         *)
(* Packets are numbered in the order of the calls of send().  On the wire  *)
(* a packet is a sequence of units: those of its header, then those of its *)
(* payload.  A unit stands for part of a field: a field that can be cut in *)
(* two has two.  The stream itself is ByteStream: it connects two native   *)
(* peers, or a native peer and a browser.                                  *)
(***************************************************************************)
EXTENDS ByteStream, SequencesExt

CONSTANTS
    Setups,         \* pairs of a format and the end of the stream that is in a browser
    MaxPackets,     \* bound on the calls of send()
    PayloadUnits,   \* PayloadUnits[p] is the length of the payload of packet p
    Invalids        \* sets of packets, each of which the format may be unable to hold

Formats == {"data", "av", "input", "metrics"}

ASSUME ConstantsAssumption ==
    /\ Setups \subseteq Formats \X {"none", "sender", "receiver"}
    /\ MaxPackets \in Nat
    /\ PayloadUnits \in [1 .. MaxPackets -> Nat]
    /\ Invalids \subseteq SUBSET (1 .. MaxPackets)

VARIABLES
    \* fixed at the start: the format, and the packets that it cannot hold
    kind, invalid,
    \* the caller of send(), and ghosts of what it was told
    sending,    \* "idle", at one of the arms of its select!, or "dropped"
    calls,      \* the number of calls so far, and the packet of the last one
    accepted,   \* packets for which send() returned Ok
    returned,   \* packets whose error a later call of send() returned
    failed,     \* packets whose error is to be returned
    \* the send task and its channels, of one place each
    queue, errors,
    writer,     \* "idle", "writing", "reporting" an error, "ended" or "panicked"
    packet,     \* what it is writing
    \* the receive task, its channel of one place, and the caller of recv()
    reader,     \* "reading", "pushing" a result, or "ended"
    got,        \* the units of the packet it is reading
    result,     \* what it is pushing
    results,
    receiving,  \* "idle" or "waiting"
    received,   \* packets that recv() returned
    verdict     \* "open", or how recv() first said that there is no packet

formatVars == <<kind, invalid>>
sendVars == <<sending, calls, accepted, returned, failed>>
taskVars == <<queue, errors, writer, packet>>
readVars == <<reader, got, result, results>>
recvVars == <<receiving, received, verdict, formatVars>>
vars == <<sendVars, taskVars, streamVars, readVars, recvVars>>

HeaderUnits == IF kind = "input" THEN 3 ELSE 2

\* The packet p on the wire.
Units(p) == [u \in 1 .. HeaderUnits + PayloadUnits[p] |-> <<p, u>>]

\* A packet that makes a format panic would stop all of the program in a
\* browser: there is none.
Init ==
    /\ StreamInit
    /\ kind \in {k \in Formats : <<k, browser>> \in Setups}
    /\ invalid \in Invalids
    /\ browser = "sender" /\ kind # "data" => invalid = {}
    /\ sending = "idle" /\ calls = 0
    /\ accepted = <<>> /\ returned = <<>> /\ failed = <<>>
    /\ queue = <<>> /\ errors = <<>> /\ writer = "idle" /\ packet = 0
    /\ reader = "reading" /\ got = <<>> /\ result = 0 /\ results = <<>>
    /\ receiving = "idle" /\ received = <<>> /\ verdict = "open"

-----------------------------------------------------------------------------
(***************************************************************************)
(* send(): a biased select! between an error of an earlier packet and room *)
(* in the queue.                                                           *)
(***************************************************************************)
TaskGone == writer \in {"ended", "panicked"}

CallSend ==
    /\ sending = "idle" /\ calls < MaxPackets
    /\ calls' = calls + 1
    /\ sending' = "errors"
    /\ UNCHANGED <<accepted, returned, failed, taskVars, streamVars, readVars, recvVars>>

\* Mutant of PollErrors: errors are only looked at when the queue is full.
PollErrorsWhenFull ==
    /\ sending = "errors"
    /\ IF errors # <<>> /\ queue # <<>>
       THEN /\ returned' = returned \o errors
            /\ errors' = <<>>
            /\ sending' = "idle"
       ELSE /\ sending' = IF TaskGone THEN "idle" ELSE "tx"
            /\ UNCHANGED <<returned, errors>>
    /\ UNCHANGED <<calls, accepted, failed, queue, writer, packet, streamVars, readVars, recvVars>>

\* An error is returned, and the packet of this call dropped.  So it is when
\* the task is gone.
PollErrors ==
    /\ sending = "errors"
    /\ IF errors # <<>>
       THEN /\ returned' = returned \o errors
            /\ errors' = <<>>
            /\ sending' = "idle"
       ELSE /\ sending' = IF TaskGone THEN "idle" ELSE "tx"
            /\ UNCHANGED <<returned, errors>>
    /\ UNCHANGED <<calls, accepted, failed, queue, writer, packet, streamVars, readVars, recvVars>>

\* The packet is queued if there is room.  Otherwise the call waits, and
\* both arms are polled again.
PollTx ==
    /\ sending = "tx"
    /\ IF ~ TaskGone /\ queue = <<>>
       THEN /\ queue' = <<calls>>
            /\ accepted' = Append(accepted, calls)
            /\ sending' = "idle"
       ELSE /\ sending' = IF TaskGone THEN "idle" ELSE "errors"
            /\ UNCHANGED <<queue, accepted>>
    /\ UNCHANGED <<calls, returned, failed, errors, writer, packet, streamVars, readVars, recvVars>>

\* The call is cancelled while it waits: its packet is dropped.
CancelSend ==
    /\ sending = "errors"
    /\ sending' = "idle"
    /\ UNCHANGED <<calls, accepted, returned, failed, taskVars, streamVars, readVars, recvVars>>

\* The wrapper is dropped.
DropSend ==
    /\ sending = "idle"
    /\ sending' = "dropped"
    /\ UNCHANGED <<calls, accepted, returned, failed, taskVars, streamVars, readVars, recvVars>>

-----------------------------------------------------------------------------
(***************************************************************************)
(* The send task.                                                          *)
(***************************************************************************)
\* What comes of an invalid packet before anything of it is written.  A data
\* packet of a wrong size is refused.  The other formats panic, and the
\* stream goes with the task.
Refusal == IF kind = "data" THEN "reporting" ELSE "panicked"

TakePacket ==
    /\ writer = "idle" /\ queue # <<>>
    /\ packet' = Head(queue)
    /\ queue' = <<>>
    /\ writer' = IF packet' \in invalid THEN Refusal ELSE "writing"
    /\ failed' = IF writer' = "reporting" THEN Append(failed, packet') ELSE failed
    /\ IF writer' = "panicked" THEN DropStream ELSE UNCHANGED streamVars
    /\ UNCHANGED <<sending, calls, accepted, returned, errors, readVars, recvVars>>

\* How many units of the packet were handed to the stream.
Written == Len(SelectSeq(wire \o chunk, LAMBDA unit : unit[1] = packet))

\* write() calls write_all() for each of these: the type and the size of an
\* input packet, the whole header of the others, and then the payload.
FieldEnds ==
    {HeaderUnits, Len(Units(packet))} \union (IF kind = "input" THEN {1} ELSE {})

Write ==
    /\ writer = "writing"
    /\ Written < Len(Units(packet))
    /\ LET end == Min({e \in FieldEnds : e > Written})
       IN  PollWrite(SubSeq(Units(packet), Written + 1, end))
    /\ UNCHANGED <<sendVars, taskVars, readVars, recvVars>>

Flush ==
    /\ writer = "writing"
    /\ Written = Len(Units(packet))
    /\ PollFlush
    /\ writer' = "idle"
    /\ UNCHANGED <<sendVars, queue, errors, packet, readVars, recvVars>>

\* The stream breaks, for good.
WriteFails ==
    /\ writer = "writing"
    /\ PollBroken \/ PollRejected
    /\ failed' = Append(failed, packet)
    /\ writer' = "reporting"
    /\ UNCHANGED <<sending, calls, accepted, returned, queue, errors, packet,
                   readVars, recvVars>>

\* What the browser does by itself.
Browser ==
    /\ Sink \/ Reject
    /\ UNCHANGED <<sendVars, taskVars, readVars, recvVars>>

\* The error is put into its channel, once there is room, unless nobody will
\* take it.
ReportError ==
    /\ writer = "reporting"
    /\ sending = "dropped" \/ errors = <<>>
    /\ errors' = IF sending # "dropped" THEN <<packet>> ELSE errors
    /\ writer' = IF sending = "dropped" THEN "ended" ELSE "idle"
    /\ IF sending = "dropped" THEN DropStream ELSE UNCHANGED streamVars
    /\ UNCHANGED <<sendVars, queue, packet, readVars, recvVars>>

\* The queue is closed and empty: the task drops the stream.
WriterEnds ==
    /\ writer = "idle" /\ queue = <<>> /\ sending = "dropped"
    /\ writer' = "ended"
    /\ DropStream
    /\ UNCHANGED <<sendVars, queue, errors, packet, readVars, recvVars>>

-----------------------------------------------------------------------------
(***************************************************************************)
(* The receive task.                                                       *)
(***************************************************************************)
Garbage == 0
Error == MaxPackets + 1

\* The header tells how long the packet is.
Complete(units) == Len(units) = Len(Units(units[1][1]))

Deserialized(units) == IF units = Units(units[1][1]) THEN units[1][1] ELSE Garbage

ReadUnit ==
    /\ reader = "reading"
    /\ PollRead
    /\ LET units == Append(got, Head(Available))
       IN  IF Complete(units)
           THEN got' = <<>> /\ result' = Deserialized(units) /\ reader' = "pushing"
           ELSE got' = units /\ UNCHANGED <<result, reader>>
    /\ UNCHANGED <<sendVars, taskVars, results, recvVars>>

\* The read goes on in the browser, which has more.
ReadMore ==
    /\ reader = "reading"
    /\ ReadAhead
    /\ UNCHANGED <<sendVars, taskVars, readVars, recvVars>>

\* Mutant of CleanEnd: the end of the stream within a header is clean.
CleanEndInHeader == Len(got) < HeaderUnits

\* Whether recv() of the driver takes the end of the stream, after the units
\* it got, for the end of the packets.
DataEnd == got = <<>>

HeaderEnd == Len(got) < HeaderUnits

\* read_u8() fails at the end of the stream; only then is the end expected.
InputEnd == Len(got) \in 1 .. HeaderUnits - 1

CleanEnd ==
    CASE kind = "data" -> DataEnd
      [] kind \in {"av", "metrics"} -> HeaderEnd
      [] kind = "input" -> InputEnd

ReadEnd ==
    /\ reader = "reading" /\ AtEnd
    /\ reader' = IF CleanEnd THEN "ended" ELSE "pushing"
    /\ result' = IF CleanEnd THEN result ELSE Error
    /\ got' = <<>>
    /\ UNCHANGED <<sendVars, taskVars, streamVars, results, recvVars>>

ReadFails ==
    /\ reader = "reading"
    /\ PollReadFails
    /\ reader' = "pushing" /\ result' = Error /\ got' = <<>>
    /\ UNCHANGED <<sendVars, taskVars, results, recvVars>>

\* The loop goes on after an error.
Push ==
    /\ reader = "pushing" /\ results = <<>>
    /\ results' = <<result>>
    /\ reader' = "reading"
    /\ UNCHANGED <<sendVars, taskVars, streamVars, got, result, recvVars>>

-----------------------------------------------------------------------------
CallRecv ==
    /\ receiving = "idle"
    /\ receiving' = "waiting"
    /\ UNCHANGED <<sendVars, taskVars, streamVars, readVars, received, verdict, formatVars>>

ReturnRecv ==
    /\ receiving = "waiting"
    /\ results # <<>> \/ reader = "ended"
    /\ receiving' = "idle"
    /\ results' = <<>>
    /\ IF results # <<>> /\ Head(results) # Error
       THEN /\ received' = Append(received, Head(results))
            /\ UNCHANGED verdict
       ELSE /\ verdict' = IF verdict # "open" THEN verdict
                          ELSE IF results = <<>> THEN "none" ELSE "error"
            /\ UNCHANGED received
    /\ UNCHANGED <<sendVars, taskVars, streamVars, reader, got, result, formatVars>>

\* Mutant of CancelRecv: what was read of a packet is lost with the call.
CancelRecvReading ==
    /\ receiving = "waiting"
    /\ receiving' = "idle"
    /\ got' = <<>>
    /\ UNCHANGED <<sendVars, taskVars, streamVars, reader, result, results,
                   received, verdict, formatVars>>

CancelRecv ==
    /\ receiving = "waiting"
    /\ receiving' = "idle"
    /\ UNCHANGED <<sendVars, taskVars, streamVars, readVars, received, verdict, formatVars>>

Next ==
    \/ CallSend \/ PollErrors \/ PollTx \/ CancelSend \/ DropSend
    \/ TakePacket \/ Write \/ Flush \/ WriteFails \/ ReportError \/ WriterEnds
    \/ Browser
    \/ ReadUnit \/ ReadMore \/ ReadEnd \/ ReadFails \/ Push
    \/ CallRecv \/ ReturnRecv \/ CancelRecv

Spec == Init /\ [][Next]_vars

(***************************************************************************)
(* The tasks run, the browser writes what it was handed, and the receiver  *)
(* calls recv() again and again without cancelling every call.  The stream *)
(* need not break.                                                         *)
(***************************************************************************)
Fairness ==
    /\ WF_vars(TakePacket \/ Write \/ Flush \/ (WriteFails /\ PollRejected) \/ (Browser /\ Sink))
    /\ WF_vars(ReadUnit \/ ReadMore \/ ReadEnd \/ Push)
    /\ WF_vars(CallRecv) /\ SF_vars(ReturnRecv)

FairSpec == Spec /\ Fairness

-----------------------------------------------------------------------------
TypeOK ==
    /\ <<kind, browser>> \in Setups /\ invalid \in Invalids
    /\ sending \in {"idle", "errors", "tx", "dropped"}
    /\ calls \in 0 .. MaxPackets
    /\ writer \in {"idle", "writing", "reporting", "ended", "panicked"}
    /\ packet \in 0 .. MaxPackets
    /\ Len(queue) <= 1 /\ Len(errors) <= 1 /\ Len(results) <= 1
    /\ broken \in BOOLEAN /\ eof \in BOOLEAN
    /\ reader \in {"reading", "pushing", "ended"}
    /\ promise \in {"idle", "pending", "resolved", "rejected"}
    /\ pos \in 0 .. Len(wire) /\ Len(buf) <= pos
    /\ receiving \in {"idle", "waiting"}
    /\ verdict \in {"open", "none", "error"}

Sendable == SelectSeq(accepted, LAMBDA p : p \notin invalid)

(***************************************************************************)
(* Whatever calls are cancelled on either side, recv() returns the packets *)
(* that send() accepted, whole and in order, up to some point.  (With the  *)
(* types of the variables: one packet, error or result in a channel.)      *)
(***************************************************************************)
InOrder ==
    /\ TypeOK
    /\ IsPrefix(received \o SelectSeq(results, LAMBDA r : r # Error), Sendable)

(***************************************************************************)
(* recv() says that there are no more packets only when it has returned    *)
(* every packet that send() accepted, except after an error that the       *)
(* sender was told of, or could not be told of any more.  An end of the    *)
(* stream between packets is a clean end, unless the stream broke, and a   *)
(* data packet that was cut off is an error: "Only EOF between records is  *)
(* clean" (data.rs:54).  (InputPacket::read() does not expect an end       *)
(* there, but only after the type of a packet.)                            *)
(***************************************************************************)
EndIsClean ==
    /\ verdict = "none" /\ failed = <<>> /\ writer # "panicked" => received = Sendable
    /\ kind # "input" /\ verdict = "error" => broken
    /\ kind = "data" /\ verdict = "none" =>
          Len(wire) = Len(FlattenSeq([i \in DOMAIN received |-> Units(received[i])]))

(***************************************************************************)
(* Every error of the driver is returned once, by a later call of send(),  *)
(* in the order of the packets, as the documentation of make_cancel_safe() *)
(* says.  And soon: send() accepts at most two packets after one that      *)
(* failed before it returns the error.                                     *)
(***************************************************************************)
ErrorsReturned ==
    /\ sending # "dropped" =>
          failed = returned \o errors \o (IF writer = "reporting" THEN <<packet>> ELSE <<>>)
    /\ \A e \in ToSet(errors) : Len(SelectSeq(accepted, LAMBDA p : p > e)) <= 2

(***************************************************************************)
(* What send() accepted is received: again and again there comes a time    *)
(* when all of it has been, unless a packet could not be written.  And     *)
(* when a native stream has ended, recv() comes to say so.                 *)
(***************************************************************************)
AcceptedIsReceived ==
    []<>(/\ ToSet(accepted) \subseteq ToSet(received) \/ failed # <<>> \/ writer = "panicked"
         /\ eof /\ browser = "none" => verdict # "open")
=============================================================================
