-------------------------------- MODULE Router --------------------------------
(***************************************************************************)
(* Router of kyproto: three tasks take the streams and datagrams of one    *)
(* connection and hand each to the channel of the endpoint it names.  The  *)
(* map of channels is locked only to look up an id: the task then waits    *)
(* for room in that channel, and meanwhile the channel may be dropped.     *)
(*                                                                         *)
(* An item is a number: item n of a kind is for channel arrived[kind][n].  *)
(***************************************************************************)
EXTENDS Naturals, Sequences, FiniteSets

CONSTANTS
    Kinds,          \* those of "uni", "bi" and "datagram" that are used
    Channels,       \* endpoint ids; none is used twice
    NoId,           \* a stream reset before its id is read, a short datagram
    Capacity,       \* of a channel: 8 streams, 16 datagrams in the code
    MaxItems        \* bound on the items of one kind

ASSUME RouterAssumption ==
    /\ Kinds \subseteq {"uni", "bi", "datagram"}
    /\ NoId \notin Channels
    /\ Capacity \in Nat \ {0}
    /\ MaxItems \in Nat

VARIABLES
    conn,       \* the kynet connection: "open" or "closed"
    channel,    \* "none", "open", "closing" (receivers dropped) or "dropped"
    arrived,    \* for each kind, all that the peer sent, as it arrived
    taken,      \* for each kind, how many of them its task has taken
    task,       \* "reading", "sending", "ended" or "cancelled"
    queue,      \* for each kind and channel, the mpsc channel
    received    \* for each kind and channel, what its owner has received

vars == <<conn, channel, arrived, taken, task, queue, received>>

Init ==
    /\ conn = "open"
    /\ channel = [c \in Channels |-> "none"]
    /\ arrived = [k \in Kinds |-> <<>>]
    /\ taken = [k \in Kinds |-> 0]
    /\ task = [k \in Kinds |-> "reading"]
    /\ queue = [k \in Kinds |-> [c \in Channels |-> <<>>]]
    /\ received = [k \in Kinds |-> [c \in Channels |-> <<>>]]

-----------------------------------------------------------------------------
\* The ids in the map: the dropper removes an id after the receivers are gone.
Clients == {c \in Channels : channel[c] \in {"open", "closing"}}

Register(c) ==
    /\ channel[c] = "none"
    /\ channel' = [channel EXCEPT ![c] = "open"]
    /\ UNCHANGED <<conn, arrived, taken, task, queue, received>>

Arrive(k, c) ==
    /\ conn = "open"
    /\ Len(arrived[k]) < MaxItems
    /\ arrived' = [arrived EXCEPT ![k] = Append(@, c)]
    /\ UNCHANGED <<conn, channel, taken, task, queue, received>>

\* Mutant of AfterUnknown: a datagram is treated like a stream.
AfterUnknownStrict(k) == "ended"

\* An unknown id is an error for a stream, which ends the task.
AfterUnknown(k) == IF k = "datagram" THEN "reading" ELSE "ended"

\* Take the next item, read its id and look it up.
Lookup(k) ==
    /\ task[k] = "reading"
    /\ taken[k] < Len(arrived[k])
    /\ taken' = [taken EXCEPT ![k] = @ + 1]
    /\ LET c == arrived[k][taken[k] + 1]
       IN  task' = [task EXCEPT ![k] = CASE c = NoId -> "reading"
                                         [] c \in Clients -> "sending"
                                         [] OTHER -> AfterUnknown(k)]
    /\ UNCHANGED <<conn, channel, arrived, queue, received>>

Destination(k) == arrived[k][taken[k]]

\* Mutant of Deliver: try_send, which discards the item when there is no room.
DeliverOrDiscard(k) ==
    /\ task[k] = "sending"
    /\ LET c == Destination(k)
       IN  /\ channel[c] = "open"
           /\ queue' = IF Len(queue[k][c]) < Capacity
                       THEN [queue EXCEPT ![k][c] = Append(@, taken[k])]
                       ELSE queue
    /\ task' = [task EXCEPT ![k] = "reading"]
    /\ UNCHANGED <<conn, channel, arrived, taken, received>>

\* Mutant of Deliver: the item stays with the task and is sent again.
DeliverTwice(k) ==
    /\ task[k] = "sending"
    /\ LET c == Destination(k)
       IN  /\ channel[c] = "open"
           /\ Len(queue[k][c]) < Capacity
           /\ queue' = [queue EXCEPT ![k][c] = Append(@, taken[k])]
    /\ UNCHANGED <<conn, channel, arrived, taken, task, received>>

\* tx.send() completes once there is room...
Deliver(k) ==
    /\ task[k] = "sending"
    /\ LET c == Destination(k)
       IN  /\ channel[c] = "open"
           /\ Len(queue[k][c]) < Capacity
           /\ queue' = [queue EXCEPT ![k][c] = Append(@, taken[k])]
    /\ task' = [task EXCEPT ![k] = "reading"]
    /\ UNCHANGED <<conn, channel, arrived, taken, received>>

\* ... and fails once the receiver is gone, which ends the task.
SendFails(k) ==
    /\ task[k] = "sending"
    /\ channel[Destination(k)] # "open"
    /\ task' = [task EXCEPT ![k] = "ended"]
    /\ UNCHANGED <<conn, channel, arrived, taken, queue, received>>

ReadFails(k) ==
    /\ task[k] = "reading"
    /\ conn = "closed"
    /\ task' = [task EXCEPT ![k] = "ended"]
    /\ UNCHANGED <<conn, channel, arrived, taken, queue, received>>

-----------------------------------------------------------------------------
\* accept_uni, accept_bi and recv_datagram of the channel's owner
Recv(k, c) ==
    /\ channel[c] = "open"
    /\ queue[k][c] # <<>>
    /\ received' = [received EXCEPT ![k][c] = Append(@, Head(queue[k][c]))]
    /\ queue' = [queue EXCEPT ![k][c] = Tail(@)]
    /\ UNCHANGED <<conn, channel, arrived, taken, task>>

\* The receivers are fields before `dropper'; the halves of a split channel
\* share the dropper, so that only the last one to go removes the id.
DropReceivers(c) ==
    /\ channel[c] = "open"
    /\ channel' = [channel EXCEPT ![c] = "closing"]
    /\ queue' = [k \in Kinds |-> [queue[k] EXCEPT ![c] = <<>>]]
    /\ UNCHANGED <<conn, arrived, taken, task, received>>

Unregister(c) ==
    /\ channel[c] = "closing"
    /\ channel' = [channel EXCEPT ![c] = "dropped"]
    /\ UNCHANGED <<conn, arrived, taken, task, queue, received>>

\* By the peer, the network or Connection::close
Close ==
    /\ conn = "open"
    /\ conn' = "closed"
    /\ UNCHANGED <<channel, arrived, taken, task, queue, received>>

\* The owner drops the Connection, and with it the Router.
Drop ==
    /\ \E k \in Kinds : task[k] # "cancelled"
    /\ conn' = "closed"
    /\ task' = [k \in Kinds |-> "cancelled"]
    /\ UNCHANGED <<channel, arrived, taken, queue, received>>

TaskStep(k) == Lookup(k) \/ Deliver(k) \/ SendFails(k) \/ ReadFails(k)

Next ==
    \/ \E c \in Channels : Register(c) \/ DropReceivers(c) \/ Unregister(c)
    \/ \E k \in Kinds : \E c \in Channels \cup {NoId} : Arrive(k, c)
    \/ \E k \in Kinds : TaskStep(k)
    \/ \E k \in Kinds : \E c \in Channels : Recv(k, c)
    \/ Close
    \/ Drop

Spec == Init /\ [][Next]_vars

(***************************************************************************)
(* Tokio polls the tasks.  The drivers receive in a loop, as long as their *)
(* clients do, which is assumed of all of them: one that stops blocks the  *)
(* task, and with it every other channel.  (Items are bounded: one that    *)
(* can be moved is, in the end, though the fairness is only of them all.)  *)
(***************************************************************************)
Fairness ==
    /\ WF_vars(\E k \in Kinds : TaskStep(k))
    /\ WF_vars(\E k \in Kinds : \E c \in Channels : Recv(k, c))

FairSpec == Spec /\ Fairness

-----------------------------------------------------------------------------
\* Every variable has its type, and no queue is longer than its capacity.
TypeOK ==
    /\ conn \in {"open", "closed"}
    /\ channel \in [Channels -> {"none", "open", "closing", "dropped"}]
    /\ \A k \in Kinds :
          /\ arrived[k] \in Seq(Channels \cup {NoId})
          /\ taken[k] \in 0 .. Len(arrived[k])
          /\ task[k] \in {"reading", "sending", "ended", "cancelled"}
          /\ \A c \in Channels : /\ queue[k][c] \in Seq(1 .. MaxItems)
                                 /\ Len(queue[k][c]) <= Capacity
                                 /\ received[k][c] \in Seq(1 .. MaxItems)

(***************************************************************************)
(* The owner of a channel gets only what was sent to its endpoint, in the  *)
(* order it arrived, nothing twice, although the map is not locked between *)
(* the lookup and the send.  And while the channel is open nothing that    *)
(* was taken for it disappears: its items, from the first one it got, are  *)
(* all received, queued or with the task, even when another channel is     *)
(* full or is being dropped.  (With the types of the variables, and the    *)
(* bound of the queues.)                                                   *)
(***************************************************************************)
RoutedInOrder ==
    /\ TypeOK
    /\ \A k \in Kinds : \A c \in Channels :
        LET items == received[k][c] \o queue[k][c]
        IN  /\ \A i \in 1 .. Len(items) : arrived[k][items[i]] = c
            /\ \A i, j \in 1 .. Len(items) : i < j => items[i] < items[j]
            /\ channel[c] = "open" /\ items # <<>> /\ task[k] # "cancelled" =>
                  \A n \in items[1] .. taken[k] :
                      arrived[k][n] = c =>
                          \/ \E i \in 1 .. Len(items) : items[i] = n
                          \/ task[k] # "reading" /\ n = taken[k]

(***************************************************************************)
(* A datagram with an id that is not registered, yet or any more, never    *)
(* ends the datagram task: while the connection is open it takes an        *)
(* endpoint dropped between the lookup and the send.                       *)
(***************************************************************************)
UnknownDatagramsHarmless ==
    "datagram" \in Kinds =>
        (task["datagram"] = "ended" =>
            \/ conn = "closed"
            \/ /\ taken["datagram"] > 0
               /\ Destination("datagram") \in Channels
               /\ channel[Destination("datagram")] \in {"closing", "dropped"})

(***************************************************************************)
(* The comment in recv_channels_datagrams: "Not a hard error, datagrams    *)
(* may be delivered at any time, including once the endpoint has been      *)
(* removed".  So the task ends with the connection only.                   *)
(***************************************************************************)
DatagramTaskSurvives ==
    "datagram" \in Kinds =>
        (task["datagram"] = "ended" => conn = "closed")

(***************************************************************************)
(* What arrives for an open channel is received, unless the channel is     *)
(* dropped or the task has ended: full queues delay it, no more.  There    *)
(* comes a time when nothing is due: no item for an open channel is yet to *)
(* be taken, or was taken after one that was received and is missing.      *)
(***************************************************************************)
Due(k, c) ==
    {n \in 1 .. Len(arrived[k]) :
        /\ arrived[k][n] = c
        /\ \/ n > taken[k]
           \/ received[k][c] # <<>> /\ n >= Head(received[k][c])}

EventuallyReceived ==
    []<>(\A k \in Kinds : \A c \in Channels :
            \/ channel[c] # "open"
            \/ task[k] \in {"ended", "cancelled"}
            \/ \A n \in Due(k, c) :
                  \E i \in 1 .. Len(received[k][c]) : received[k][c][i] = n)
=============================================================================
