-------------------------------- MODULE KyCom --------------------------------
(***************************************************************************)
(* The local IPC server of kycom.  The server process registers channels:  *)
(* each gets a 16-bit id and waits for one TCP connection.  A client       *)
(* connects to the address of a channel, sends its id, and waits for one   *)
(* byte from the channel.  In between are a task that accepts connections, *)
(* a task per connection that reads the id, a bounded queue, and a task    *)
(* that looks the id up in the map of the channels that wait.              *)
(***************************************************************************)
EXTENDS Naturals, FiniteSets, Sequences, Functions

CONSTANTS
    IdRange,        \* 2^16 in the code: where ids wrap around
    QueueSize,      \* 16 in the code: what Server::accept() has not taken yet
    MaxChannels,    \* bound on the calls of register_channel()
    MaxClients      \* bound on the calls of Channel::connect()

ASSUME ConstantsAssumption ==
    /\ IdRange \in Nat \ {0}
    /\ QueueSize \in Nat \ {0}
    /\ MaxChannels \in Nat
    /\ MaxClients \in Nat

Channels == 1 .. MaxChannels
Clients == 1 .. MaxClients

\* What the oneshot of a channel holds, if not the connection of a client.
Waiting == 0
Aborted == MaxClients + 1

VARIABLES
    \* EndpointMap, behind a mutex
    open,       \* pending_endpoints is Some(..)
    next_id,
    map,        \* id -> channel that waits for a connection
    panicked,   \* register_channel() found no free id
    \* server channels, numbered in the order of their registration
    registered, \* how many there are
    id,         \* id[c] is the id in the address of channel c
    rx,         \* rx[c]: Waiting, Aborted, or the connection it received
    owner,      \* owner[c]: what became of channel c
    \* tasks of the server
    dropped,    \* KyCom was dropped
    accepting,  \* the task that holds the TcpListener runs
    stream,     \* stream[k]: where the server has the connection of client k
    queue,      \* connections whose id was read
    \* clients
    client,     \* client[k]: the progress of client k
    target      \* target[k]: the channel whose address client k was given

mapVars == <<open, next_id, map, panicked>>
channelVars == <<registered, id, rx, owner>>
taskVars == <<dropped, accepting, stream, queue>>
clientVars == <<client, target>>
vars == <<mapVars, channelVars, taskVars, clientVars>>

Free == DOMAIN map # 0 .. IdRange - 1

Init ==
    /\ open = TRUE /\ next_id = 0 /\ map = <<>> /\ panicked = FALSE
    /\ registered = 0
    /\ id = [c \in Channels |-> 0]
    /\ rx = [c \in Channels |-> Waiting]
    /\ owner = [c \in Channels |-> "none"]
    /\ dropped = FALSE /\ accepting = TRUE
    /\ stream = [k \in Clients |-> "none"]
    /\ queue = <<>>
    /\ client = [k \in Clients |-> "none"]
    /\ target = [k \in Clients |-> 0]

-----------------------------------------------------------------------------
(***************************************************************************)
(* Registering a channel.                                                  *)
(***************************************************************************)
\* Mutant of FirstVacant: ids that are still waited for are not skipped.
FirstId == next_id

\* The first id from next_id on, around the end of the range, that is vacant.
FirstVacant ==
    LET vacant == {k \in 0 .. IdRange - 1 : (next_id + k) % IdRange \notin DOMAIN map}
        first == CHOOSE k \in vacant : \A j \in vacant : k <= j
    IN  (next_id + first) % IdRange

\* Mutant of AddrId: the address gets next_id once it was incremented.
AddrIdAfter == (FirstVacant + 1) % IdRange

\* The id in the address of the channel.
AddrId == FirstVacant

Listening == open

Register ==
    /\ ~ dropped /\ ~ panicked
    /\ registered < MaxChannels
    /\ Listening
    /\ Free
    /\ registered' = registered + 1
    /\ id' = [id EXCEPT ![registered'] = AddrId]
    /\ next_id' = (FirstVacant + 1) % IdRange
    /\ map' = [i \in DOMAIN map \cup {FirstVacant} |->
                  IF i = FirstVacant THEN registered' ELSE map[i]]
    /\ owner' = [owner EXCEPT ![registered'] = "held"]
    /\ UNCHANGED <<open, panicked, rx, taskVars, clientVars>>

\* The assertion of register_channel() fails, with the mutex locked: from
\* then on whoever locks it panics as well.
RegisterPanics ==
    /\ ~ dropped /\ ~ panicked
    /\ registered < MaxChannels
    /\ Listening
    /\ ~ Free
    /\ panicked' = TRUE
    /\ UNCHANGED <<open, next_id, map, channelVars, taskVars, clientVars>>

-----------------------------------------------------------------------------
(***************************************************************************)
(* The life of a channel.  forward() spawns a task that first waits for    *)
(* the endpoint of kyproto, then for the connection.                       *)
(***************************************************************************)
\* The channel c is gone, and the connection it has received with it.
Release(c) ==
    /\ owner' = [owner EXCEPT ![c] = "dropped"]
    /\ rx' = [rx EXCEPT ![c] = Waiting]
    /\ stream' = IF rx[c] \in Clients THEN [stream EXCEPT ![rx[c]] = "dropped"] ELSE stream

Forward(c) ==
    /\ owner[c] = "held" /\ ~ dropped
    /\ owner' = [owner EXCEPT ![c] = "forwarder"]
    /\ UNCHANGED <<mapVars, registered, id, rx, taskVars, clientVars>>

\* The channel is dropped before it is forwarded, or the endpoint of kyproto
\* fails, or KyCom is dropped and its forwarders with it.  The id stays in
\* the map.
DropChannel(c) ==
    /\ owner[c] \in {"held", "forwarder"} \/ (owner[c] = "ready" /\ dropped)
    /\ Release(c)
    /\ UNCHANGED <<mapVars, registered, id, dropped, accepting, queue, clientVars>>

EndpointReady(c) ==
    /\ owner[c] = "forwarder"
    /\ owner' = [owner EXCEPT ![c] = "ready"]
    /\ UNCHANGED <<mapVars, registered, id, rx, taskVars, clientVars>>

\* ready_internal() of the server: the byte is written.
ChannelReady(c) ==
    /\ owner[c] = "ready" /\ rx[c] \in Clients
    /\ owner' = [owner EXCEPT ![c] = "forwarding"]
    /\ stream' = [stream EXCEPT ![rx[c]] = "answered"]
    /\ UNCHANGED <<mapVars, registered, id, rx, dropped, accepting, queue, clientVars>>

\* ready_internal() of the server returns an error: there will be no
\* connection, or the client has closed it.
ChannelFails(c) ==
    /\ owner[c] = "ready"
    /\ \/ rx[c] = Aborted
       \/ rx[c] \in Clients /\ client[rx[c]] = "closed"
    /\ Release(c)
    /\ UNCHANGED <<mapVars, registered, id, dropped, accepting, queue, clientVars>>

\* forward() ends: the protocol does, or the connection, or KyCom.
ForwardEnds(c) ==
    /\ owner[c] = "forwarding"
    /\ Release(c)
    /\ UNCHANGED <<mapVars, registered, id, dropped, accepting, queue, clientVars>>

-----------------------------------------------------------------------------
(***************************************************************************)
(* The tasks of the server.                                                *)
(***************************************************************************)
\* Mutant of AcceptStream: the id is read by the task that accepts.
AcceptStreamInline(k) ==
    /\ accepting /\ stream[k] = "backlog"
    /\ \A j \in Clients : stream[j] # "reading"
    /\ stream' = [stream EXCEPT ![k] = "reading"]
    /\ UNCHANGED <<mapVars, channelVars, dropped, accepting, queue, clientVars>>

\* Server::listen accepts the connection and spawns handle_stream for it.
AcceptStream(k) ==
    /\ accepting /\ stream[k] = "backlog"
    /\ stream' = [stream EXCEPT ![k] = "reading"]
    /\ UNCHANGED <<mapVars, channelVars, dropped, accepting, queue, clientVars>>

\* Server::listen ends, because accept() fails or KyCom was dropped.
AcceptEnds ==
    /\ accepting
    /\ accepting' = FALSE
    /\ stream' = [k \in Clients |-> IF stream[k] = "backlog" THEN "dropped" ELSE stream[k]]
    /\ UNCHANGED <<mapVars, channelVars, dropped, queue, clientVars>>

\* handle_stream gets the id, or the client closes before sending it.
ReadId(k) ==
    /\ stream[k] = "reading"
    /\ client[k] \in {"sent", "closed", "left"}
    /\ stream' = [stream EXCEPT ![k] = IF client[k] = "left" THEN "dropped" ELSE "enqueuing"]
    /\ UNCHANGED <<mapVars, channelVars, dropped, accepting, queue, clientVars>>

HasRoom == Len(queue) < QueueSize

\* The queue is there as long as the listen task of KyCom is.
Enqueue(k) ==
    /\ stream[k] = "enqueuing"
    /\ IF open
       THEN /\ HasRoom
            /\ stream' = [stream EXCEPT ![k] = "queued"]
            /\ queue' = Append(queue, k)
       ELSE /\ stream' = [stream EXCEPT ![k] = "dropped"]
            /\ UNCHANGED queue
    /\ UNCHANGED <<mapVars, channelVars, dropped, accepting, clientVars>>

\* Mutant of Removed: the entry stays.
Kept(i) == map

Removed(i) == Restrict(map, DOMAIN map \ {i})

\* KyCom::listen takes a connection and hands it to the channel that waits
\* under its id.  It is dropped if there is none, or if nobody holds it.
Listen ==
    /\ open /\ ~ panicked
    /\ queue # <<>>
    /\ LET k == Head(queue)
           i == id[target[k]]
           found == i \in DOMAIN map /\ owner[map[i]] # "dropped"
       IN  /\ map' = Removed(i)
           /\ rx' = IF found THEN [rx EXCEPT ![map[i]] = k] ELSE rx
           /\ stream' = [stream EXCEPT ![k] = IF found THEN "delivered" ELSE "dropped"]
    /\ queue' = Tail(queue)
    /\ UNCHANGED <<open, next_id, panicked, registered, id, owner, dropped, accepting, clientVars>>

\* Mutant of NoMoreConnections: the server holds a sender of its own.
AlwaysMoreConnections == FALSE

\* No connection can be queued any more, and none is left.
NoMoreConnections ==
    /\ ~ accepting
    /\ queue = <<>>
    /\ \A k \in Clients : stream[k] \notin {"reading", "enqueuing"}

\* KyCom::listen ends: accept() fails, or KyCom was dropped.  Its Guard
\* tells every channel that waits.
ListenEnds ==
    /\ open /\ ~ panicked
    /\ NoMoreConnections \/ dropped
    /\ open' = FALSE
    /\ map' = <<>>
    /\ rx' = [c \in Channels |-> IF c \in Range(map) /\ owner[c] # "dropped"
                               THEN Aborted ELSE rx[c]]
    /\ queue' = <<>>
    /\ accepting' = FALSE
    /\ stream' = [k \in Clients |-> IF stream[k] \in {"queued", "backlog"} THEN "dropped"
                                    ELSE stream[k]]
    /\ UNCHANGED <<next_id, panicked, registered, id, owner, dropped, clientVars>>

Drop ==
    /\ ~ dropped
    /\ dropped' = TRUE
    /\ UNCHANGED <<mapVars, channelVars, accepting, stream, queue, clientVars>>

-----------------------------------------------------------------------------
(***************************************************************************)
(* Clients.                                                                *)
(***************************************************************************)
\* Channel::connect, to the address of a channel.
Connect(k, c) ==
    /\ client[k] = "none" /\ \A j \in 1 .. k - 1 : client[j] # "none"
    /\ c <= registered
    /\ target' = [target EXCEPT ![k] = c]
    /\ client' = [client EXCEPT ![k] = IF accepting THEN "connected" ELSE "failed"]
    /\ stream' = [stream EXCEPT ![k] = IF accepting THEN "backlog" ELSE "dropped"]
    /\ UNCHANGED <<mapVars, channelVars, dropped, accepting, queue>>

\* ready_internal() of the client sends the id.
SendId(k) ==
    /\ client[k] = "connected"
    /\ client' = [client EXCEPT ![k] = "sent"]
    /\ UNCHANGED <<mapVars, channelVars, taskVars, target>>

\* It reads the byte, or the end of the stream.
ReadByte(k) ==
    /\ client[k] = "sent"
    /\ stream[k] \in {"answered", "dropped"}
    /\ client' = [client EXCEPT ![k] = IF stream[k] = "answered" THEN "ready" ELSE "failed"]
    /\ UNCHANGED <<mapVars, channelVars, taskVars, target>>

Close(k) ==
    /\ client[k] \in {"connected", "sent", "ready"}
    /\ client' = [client EXCEPT ![k] = IF @ = "connected" THEN "left" ELSE "closed"]
    /\ UNCHANGED <<mapVars, channelVars, taskVars, target>>

ChannelNext(c) ==
    \/ Forward(c) \/ DropChannel(c) \/ EndpointReady(c)
    \/ ChannelReady(c) \/ ChannelFails(c) \/ ForwardEnds(c)

StreamNext(k) == AcceptStream(k) \/ ReadId(k) \/ Enqueue(k)

ClientNext(k) ==
    \/ \E c \in Channels : Connect(k, c)
    \/ SendId(k) \/ ReadByte(k) \/ Close(k)

Next ==
    \/ Register \/ RegisterPanics
    \/ \E c \in Channels : ChannelNext(c)
    \/ \E k \in Clients : StreamNext(k) \/ ClientNext(k)
    \/ AcceptEnds \/ Listen \/ ListenEnds \/ Drop

Spec == Init /\ [][Next]_vars

(***************************************************************************)
(* The tasks run, whoever holds a channel does something with it, the      *)
(* endpoints of kyproto become ready or fail, and a client that waits for  *)
(* its byte reads it.  A client need not send its id, nor close.           *)
(***************************************************************************)
Fairness ==
    /\ WF_vars(\E c \in Channels : \/ Forward(c) \/ DropChannel(c) \/ EndpointReady(c)
                                   \/ ChannelReady(c) \/ ChannelFails(c))
    /\ WF_vars(\E k \in Clients : StreamNext(k) \/ ReadByte(k))
    /\ WF_vars(Listen \/ ListenEnds)

FairSpec == Spec /\ Fairness

-----------------------------------------------------------------------------
TypeOK ==
    /\ open \in BOOLEAN /\ panicked \in BOOLEAN
    /\ next_id \in 0 .. IdRange - 1
    /\ DOMAIN map \subseteq 0 .. IdRange - 1 /\ Range(map) \subseteq 1 .. registered
    /\ registered \in 0 .. MaxChannels
    /\ id \in [Channels -> 0 .. IdRange - 1]
    /\ rx \in [Channels -> {Waiting, Aborted} \cup Clients]
    /\ owner \in [Channels -> {"none", "held", "forwarder", "ready", "forwarding", "dropped"}]
    /\ dropped \in BOOLEAN /\ accepting \in BOOLEAN
    /\ stream \in [Clients -> {"none", "backlog", "reading", "enqueuing", "queued",
                               "delivered", "answered", "dropped"}]
    /\ queue \in Seq(Clients) /\ Len(queue) <= QueueSize
    /\ client \in [Clients -> {"none", "connected", "sent", "ready", "failed", "left", "closed"}]
    /\ target \in [Clients -> 0 .. MaxChannels]

(***************************************************************************)
(* A channel that waits can be connected to: as long as it waits, its id   *)
(* leads to it and to no other channel, however often ids wrapped around;  *)
(* and once the server has stopped listening no channel waits.             *)
(***************************************************************************)
WaitingIsReachable ==
    \A c \in 1 .. registered :
        rx[c] = Waiting /\ owner[c] # "dropped"
            => open /\ id[c] \in DOMAIN map /\ map[id[c]] = c

(***************************************************************************)
(* The connection a channel received is the one of a client that was given *)
(* its address (the assertion of ready_internal()), and no other channel   *)
(* received it.  Only the id can tell: when ids have wrapped around, a     *)
(* client with the address of a channel that is gone reaches the one that  *)
(* has its id now.                                                         *)
(***************************************************************************)
Paired ==
    \A c \in 1 .. registered :
        rx[c] \in Clients => /\ id[target[rx[c]]] = id[c]
                             /\ \A d \in 1 .. registered : rx[d] = rx[c] => d = c

(***************************************************************************)
(* No connection is forgotten: each that the server has is about to be     *)
(* read, queued, or held by a channel that will answer or drop it.  (With  *)
(* the types of the variables, and the bound of the queue.)                *)
(***************************************************************************)
NoneForgotten ==
    /\ TypeOK
    /\ \A k \in Clients :
        /\ stream[k] = "queued" <=> k \in Range(queue)
        /\ stream[k] \in {"delivered", "answered"}
             <=> \E c \in Channels : rx[c] = k

(***************************************************************************)
(* A client that sent its id becomes ready or is told that it cannot, so   *)
(* that there comes a time when none waits, although another client may    *)
(* keep its connection and send nothing.  (As long as register_channel()   *)
(* has not panicked with the map locked.)                                  *)
(***************************************************************************)
Served == []<>(panicked \/ \A k \in Clients : client[k] # "sent")

(***************************************************************************)
(* When the server no longer accepts connections, every channel that waits *)
(* for one gets one of the last or is told: none waits for ever.  This     *)
(* needs clients that have sent their id or closed: accept() returns only  *)
(* when the tasks that read the ids have ended.                            *)
(***************************************************************************)
Notified ==
    []<>(\/ accepting \/ panicked
         \/ \E k \in Clients : client[k] = "connected"
         \/ \A c \in Channels : ~ (owner[c] = "ready" /\ rx[c] = Waiting))
=============================================================================
