------------------------------ MODULE ByteStream ------------------------------
(***************************************************************************)
(* One stream of kynet, as AsyncWrite and AsyncRead show it to the code    *)
(* that writes and reads packets.  Either end may be in a browser, where   *)
(* the stream is one of JavaScript's: poll_write() hands a buffer over and *)
(* says at once that it was written, and a promise tells later whether it  *)
(* was; poll_read() reads ahead into a buffer of its own.  A native end    *)
(* writes and reads the wire itself.                                       *)
(*                                                                         *)
(* Operators that are actions change the variables of this module only.    *)
(***************************************************************************)
EXTENDS Naturals, Sequences

VARIABLES
    browser,    \* the end that is in a browser, if one is: "sender" or "receiver"
    wire,       \* what was written, unit after unit
    broken,     \* the connection is lost
    eof,        \* the sending end was dropped, which ends the stream
    promise,    \* WriterState: "idle", or Running with a promise that is "pending",
                \* "resolved" or "rejected"
    chunk,      \* what of the buffer handed over last is not on the wire
    pos,        \* how many units the receiving end took from the wire
    buf         \* ReaderData::buf, of which poll_read() returns some

wireVars == <<wire, broken, eof>>
streamVars == <<browser, wireVars, promise, chunk, pos, buf>>

StreamInit ==
    /\ browser \in {"none", "sender", "receiver"}
    /\ wire = <<>> /\ broken = FALSE /\ eof = FALSE
    /\ promise = "idle" /\ chunk = <<>>
    /\ pos = 0 /\ buf = <<>>

-----------------------------------------------------------------------------
(***************************************************************************)
(* The sending end.                                                        *)
(***************************************************************************)
Settled == promise \in {"idle", "resolved"}

\* poll_write() returns Ok.  A native end takes some of the data.  In a
\* browser all of it is handed over, once the promise before is resolved,
\* even if the connection is lost by now.
PollWrite(data) ==
    /\ IF browser = "sender"
       THEN /\ Settled
            /\ promise' = "pending" /\ chunk' = data
            /\ UNCHANGED wire
       ELSE /\ ~ broken
            /\ wire' = Append(wire, Head(data))
            /\ UNCHANGED <<promise, chunk>>
    /\ UNCHANGED <<browser, broken, eof, pos, buf>>

\* Mutant of PollFlush: it does not wait for the promise.
PollFlushAtOnce ==
    /\ browser # "sender" => ~ broken
    /\ UNCHANGED streamVars

\* poll_flush() returns Ok.
PollFlush ==
    /\ browser # "sender" => ~ broken
    /\ Settled
    /\ promise' = "idle"
    /\ UNCHANGED <<browser, wireVars, chunk, pos, buf>>

\* poll_write() or poll_flush() of a native end finds that the connection is
\* lost.
PollBroken ==
    /\ browser # "sender"
    /\ broken' = TRUE
    /\ UNCHANGED <<browser, wire, eof, promise, chunk, pos, buf>>

\* In a browser they return what became of the buffer before.
PollRejected ==
    /\ promise = "rejected"
    /\ promise' = "idle"
    /\ UNCHANGED <<browser, wireVars, chunk, pos, buf>>

\* The browser writes what it was handed, and resolves the promise at the end.
Sink ==
    /\ promise = "pending" /\ ~ broken
    /\ wire' = Append(wire, Head(chunk))
    /\ chunk' = Tail(chunk)
    /\ promise' = IF chunk' = <<>> THEN "resolved" ELSE "pending"
    /\ UNCHANGED <<browser, broken, eof, pos, buf>>

\* The connection is lost, now or before, and with it the rest of the chunk.
Reject ==
    /\ promise = "pending"
    /\ promise' = "rejected" /\ chunk' = <<>> /\ broken' = TRUE
    /\ UNCHANGED <<browser, wire, eof, pos, buf>>

\* Dropping a native end finishes the stream.  Dropping the driver of a
\* browser closes nothing.
DropStream ==
    /\ eof' = (browser # "sender")
    /\ UNCHANGED <<browser, wire, broken, promise, chunk, pos, buf>>

-----------------------------------------------------------------------------
(***************************************************************************)
(* The receiving end.                                                      *)
(***************************************************************************)
\* What poll_read() can return at once.
Available == IF browser = "receiver" THEN buf ELSE SubSeq(wire, pos + 1, Len(wire))

\* poll_read() returns some data: Head(Available).
PollRead ==
    /\ Available # <<>>
    /\ IF browser = "receiver"
       THEN buf' = Tail(buf) /\ UNCHANGED pos
       ELSE pos' = pos + 1 /\ UNCHANGED buf
    /\ UNCHANGED <<browser, wireVars, promise, chunk>>

\* The promise of a ReadFuture, made when the buffer is empty, is resolved
\* with some of what there is.
ReadAhead ==
    /\ browser = "receiver" /\ buf = <<>>
    /\ \E n \in 1 .. Len(wire) - pos :
          /\ buf' = SubSeq(wire, pos + 1, pos + n)
          /\ pos' = pos + n
    /\ UNCHANGED <<browser, wireVars, promise, chunk>>

\* poll_read() returns Ok without data.  In a browser it does not: when the
\* promise says that the stream is done, another read is started.
AtEnd == eof /\ pos = Len(wire) /\ browser # "receiver"

\* poll_read() fails, perhaps before it has returned all that was written.
PollReadFails ==
    /\ broken /\ buf = <<>>
    /\ pos' = Len(wire)
    /\ UNCHANGED <<browser, wireVars, promise, chunk, buf>>
=============================================================================
