------------------------------ MODULE Endpoints ------------------------------
(***************************************************************************)
(* How the two peers of a kyproto connection set up an endpoint: one peer  *)
(* registers it, over the control stream, the other one connects to it,    *)
(* both say that they are ready, and only then is the protocol started,    *)
(* whose first act is to open a stream that the other peer's router must   *)
(* be able to route.                                                       *)
(*                                                                         *)
(* An endpoint is an entry of endpoints[p], one per call of a register_*   *)
(* or connect_* function at peer p; the maps of Control hold its index     *)
(* where the code holds the sending half of one of its oneshot channels.   *)
(***************************************************************************)
EXTENDS Integers, Sequences, Handshake

CONSTANTS
    IdRange,        \* 2^16 in the code: where endpoint ids wrap around
    MaxEndpoints,   \* bound on the endpoints of one peer
    Registrars,     \* the peers whose applications register endpoints
    QueueCapacity,  \* of the control queue and the task that empties it: 8 + 1
    WireCapacity    \* how many messages QUIC lets a peer send ahead

ASSUME EndpointsAssumption ==
    /\ IdRange \in Nat \ {0}
    /\ IdRange % 2 = 0
    /\ MaxEndpoints \in Nat
    /\ Registrars \subseteq {"server", "client"}
    /\ QueueCapacity \in Nat \ {0}
    /\ WireCapacity \in Nat \ {0}

VARIABLES
    next_endpoint_index,    \* for each peer, the AtomicU16
    endpoints,              \* for each peer, its endpoints
    pending_register_ack,   \* for each peer and id, who waits for the ack
    pending_connect,        \* for each peer, the ids registered by the other
    pending_ready,          \* for each peer and id, who waits for Ready
    clients,                \* for each peer, the ids known to its router
    queue,                  \* for each peer, the control messages to be sent
    sender,                 \* for each peer, its send_msgs task
    replying,               \* for each peer, the id that handle_msg() is about
                            \* to confirm, or NoReply
    streams,                \* for each peer, its streams yet to be accepted
    accept                  \* for each peer, its router's accept task

pendingVars == <<pending_register_ack, pending_connect, pending_ready>>
queueVars == <<queue, sender, replying>>
routerVars == <<clients, streams, accept>>
endpointVars == <<next_endpoint_index, endpoints, pendingVars, queueVars, routerVars>>
vars == <<handshakeVars, endpointVars>>

Ids == 0 .. (IdRange - 1)

\* Values of the maps that are not the index of a waiting endpoint.
Vacant == 0
AwaitingLocal == -1
NoReply == -1

\* Control::start and Router::start, whose tasks run once the handshake is done.
Init ==
    /\ HandshakeInit
    /\ next_endpoint_index = [p \in Peers |-> IF p = "server" THEN 0 ELSE 1]
    /\ endpoints = [p \in Peers |-> <<>>]
    /\ pending_register_ack = [p \in Peers |-> [i \in Ids |-> Vacant]]
    /\ pending_connect = [p \in Peers |-> {}]
    /\ pending_ready = [p \in Peers |-> [i \in Ids |-> Vacant]]
    /\ clients = [p \in Peers |-> {}]
    /\ queue = [p \in Peers |-> <<>>]
    /\ sender = [p \in Peers |-> "running"]
    /\ replying = [p \in Peers |-> NoReply]
    /\ streams = [p \in Peers |-> {}]
    /\ accept = [p \in Peers |-> "running"]

-----------------------------------------------------------------------------
HasRoom(p) == Len(queue[p]) < QueueCapacity

\* The mpsc channel of Control.
Send(p, kind, id) ==
    queue' = [queue EXCEPT ![p] = Append(@, [kind |-> kind, id |-> id])]

\* `reg' is the index, at the other peer, of the endpoint connected to.
Endpoint(id, state, reg, notified) ==
    [id |-> id, state |-> state, reg |-> reg, acked |-> FALSE,
     notified |-> notified, readied |-> FALSE]

Add(p, endpoint) ==
    endpoints' = [endpoints EXCEPT ![p] = Append(@, endpoint)]

Become(p, k, state) ==
    endpoints' = [endpoints EXCEPT ![p][k].state = state]

\* The call has taken what its oneshot held, or does not wait for it any more.
Leave(p, k, state) ==
    LET e == endpoints[p][k]
    IN  endpoints' = [endpoints EXCEPT ![p][k] =
            [e EXCEPT !.state = state, !.acked = FALSE,
                      !.notified = e.notified /\ state = "idle"]]

Dead(e) == e.state \in {"failed", "dropped"}

\* get_endpoint_id: the parity of an id tells which peer registered it.
AfterId(id) == (id + 2) % IdRange

(***************************************************************************)
(* register_ready_notifier, for the endpoint that is about to be added:    *)
(* an error if somebody waits already; otherwise the endpoint waits, or    *)
(* takes the Ready message that was there before it.                       *)
(***************************************************************************)
NotifierTaken(p, id) == pending_ready[p][id] > 0

RegisterReadyNotifier(p, id) ==
    pending_ready' = [pending_ready EXCEPT ![p][id] =
        IF @ = AwaitingLocal THEN Vacant ELSE Len(endpoints[p]) + 1]

ReadyAlready(p, id) == pending_ready[p][id] = AwaitingLocal

(***************************************************************************)
(* register_*_endpoint up to the wait for room in the control queue.  The  *)
(* entry made by register_ready_notifier stays when register_endpoint      *)
(* fails.                                                                  *)
(***************************************************************************)
RegisterEndpoint(p, id) ==
    IF pending_register_ack[p][id] # Vacant
    THEN /\ Add(p, Endpoint(id, "failed", 0, FALSE))
         /\ UNCHANGED pending_register_ack
    ELSE /\ pending_register_ack' =
              [pending_register_ack EXCEPT ![p][id] = Len(endpoints[p]) + 1]
         /\ Add(p, Endpoint(id, "calling", 0, ReadyAlready(p, id)))

Register(p) ==
    /\ p \in Registrars /\ peer[p] = "running"
    /\ Len(endpoints[p]) < MaxEndpoints
    /\ LET id == next_endpoint_index[p]
       IN  /\ next_endpoint_index' =
                [next_endpoint_index EXCEPT ![p] = AfterId(id)]
           /\ IF NotifierTaken(p, id)
              THEN /\ Add(p, Endpoint(id, "failed", 0, FALSE))
                   /\ UNCHANGED pendingVars
              ELSE /\ RegisterReadyNotifier(p, id)
                   /\ RegisterEndpoint(p, id)
                   /\ UNCHANGED pending_connect
    /\ UNCHANGED <<handshakeVars, queueVars, routerVars>>

\* The ack is there: router.register(), and the call returns the id.
Registered(p, k) ==
    LET e == endpoints[p][k]
    IN  /\ e.state = "registering" /\ e.acked
        /\ IF e.id \in clients[p]
           THEN Leave(p, k, "failed") /\ UNCHANGED clients
           ELSE /\ clients' = [clients EXCEPT ![p] = @ \cup {e.id}]
                /\ Leave(p, k, "idle")
        /\ UNCHANGED <<handshakeVars, next_endpoint_index, pendingVars, queueVars,
                       streams, accept>>

(***************************************************************************)
(* connect_*_endpoint.  The id reaches the other application by a way of   *)
(* its own once the call that registered it has returned, and it connects  *)
(* to it once.                                                             *)
(***************************************************************************)
Returned(e) == e.reg = 0 /\ e.state \in {"idle", "waiting", "started", "dropped"}

\* Mutant of Connect: the channel is not registered with the router.
ConnectUnrouted(p, reg) ==
    /\ peer[p] = "running"
    /\ Len(endpoints[p]) < MaxEndpoints
    /\ Returned(endpoints[Other(p)][reg])
    /\ \A k \in 1 .. Len(endpoints[p]) : endpoints[p][k].reg # reg
    /\ LET id == endpoints[Other(p)][reg].id
       IN  /\ ~ NotifierTaken(p, id)
           /\ RegisterReadyNotifier(p, id)
           /\ Add(p, Endpoint(id, "idle", reg, ReadyAlready(p, id)))
    /\ UNCHANGED <<handshakeVars, next_endpoint_index, pending_register_ack,
                   pending_connect, queueVars, routerVars>>

Connect(p, reg) ==
    /\ peer[p] = "running"
    /\ Len(endpoints[p]) < MaxEndpoints
    /\ Returned(endpoints[Other(p)][reg])
    /\ \A k \in 1 .. Len(endpoints[p]) : endpoints[p][k].reg # reg
    /\ LET id == endpoints[Other(p)][reg].id
       IN  IF NotifierTaken(p, id)
           THEN /\ Add(p, Endpoint(id, "failed", reg, FALSE))
                /\ UNCHANGED <<pendingVars, clients>>
           ELSE /\ RegisterReadyNotifier(p, id)
                /\ IF id \in clients[p]
                   THEN /\ Add(p, Endpoint(id, "failed", reg, FALSE))
                        /\ UNCHANGED clients
                   ELSE /\ Add(p, Endpoint(id, "idle", reg, ReadyAlready(p, id)))
                        /\ clients' = [clients EXCEPT ![p] = @ \cup {id}]
                /\ UNCHANGED <<pending_register_ack, pending_connect>>
    /\ UNCHANGED <<handshakeVars, next_endpoint_index, queueVars, streams, accept>>

\* register_endpoint() waits for room in the control queue, and for its ack.
SendRegisterEndpoint(p, k) ==
    /\ endpoints[p][k].state = "calling"
    /\ \/ /\ sender[p] = "running" /\ HasRoom(p)
          /\ Send(p, "RegisterEndpoint", endpoints[p][k].id)
          /\ Become(p, k, "registering")
       \/ /\ sender[p] = "ended"
          /\ Leave(p, k, "failed")
          /\ UNCHANGED queue
    /\ UNCHANGED <<handshakeVars, next_endpoint_index, pendingVars, sender, replying,
                   routerVars>>

\* ready(), once there is room: tell the other peer, and then wait for it.
Ready(p, k) ==
    /\ endpoints[p][k].state = "idle"
    /\ sender[p] = "running" /\ HasRoom(p)
    /\ Send(p, "Ready", endpoints[p][k].id)
    /\ endpoints' = [endpoints EXCEPT ![p][k] =
                        [endpoints[p][k] EXCEPT !.state = "waiting", !.readied = TRUE]]
    /\ UNCHANGED <<handshakeVars, next_endpoint_index, pendingVars, sender, replying,
                   routerVars>>

\* Mutant of Start: ready() does not wait for the other peer.
StartAtOnce(p, k) ==
    /\ endpoints[p][k].state = "waiting"
    /\ Leave(p, k, "started")
    /\ UNCHANGED <<handshakeVars, next_endpoint_index, pendingVars, queueVars, routerVars>>

\* The protocol is started, by opening a stream or by waiting for one.
Start(p, k) ==
    /\ endpoints[p][k].state = "waiting" /\ endpoints[p][k].notified
    /\ Leave(p, k, "started")
    /\ UNCHANGED <<handshakeVars, next_endpoint_index, pendingVars, queueVars, routerVars>>

OpenUni(p, k) ==
    /\ conn = "open"
    /\ endpoints[p][k].state = "started"
    /\ streams' = [streams EXCEPT ![p] = @ \cup {[id |-> endpoints[p][k].id, from |-> k]}]
    /\ UNCHANGED <<handshakeVars, next_endpoint_index, endpoints, pendingVars, queueVars,
                   clients, accept>>

(***************************************************************************)
(* The application drops the endpoint, the protocol or the pending call.   *)
(* Entries of Control are left behind; KyChannelDropper unregisters the    *)
(* id, with an assertion that it is there.                                 *)
(***************************************************************************)
Pending(e) == e.state \in {"calling", "registering"}
HasChannel(e) == e.state \in {"idle", "waiting", "started"}

Unregister(p, k) ==
    /\ Leave(p, k, "dropped")
    /\ clients' = [clients EXCEPT ![p] = @ \ {endpoints[p][k].id}]

Drop(p, k) ==
    /\ \/ Pending(endpoints[p][k]) /\ Leave(p, k, "failed") /\ UNCHANGED clients
       \/ HasChannel(endpoints[p][k]) /\ Unregister(p, k)
    /\ UNCHANGED <<handshakeVars, next_endpoint_index, pendingVars, queueVars, streams,
                   accept>>

(***************************************************************************)
(* ready() fails when the other half of its oneshot is dropped, with the   *)
(* maps of Control.  (To call it when send_msgs() has ended drops the      *)
(* endpoint, with an error.)                                               *)
(***************************************************************************)
ReadyFails(p, k) ==
    LET e == endpoints[p][k]
    IN  /\ e.state = "waiting" /\ ~ e.notified /\ peer[p] = "dropped"
        /\ Unregister(p, k)
        /\ UNCHANGED <<handshakeVars, next_endpoint_index, pendingVars, queueVars, streams,
                       accept>>

(***************************************************************************)
(* The application drops the Connection, which no call borrows: it closes  *)
(* the kynet connection and cancels the tasks of Router and of Control,    *)
(* and with those the maps of Control go.  The accept tasks of both peers  *)
(* end with the kynet connection, however it is closed.                    *)
(***************************************************************************)
CloseStreams ==
    /\ streams' = [p \in Peers |-> {}]
    /\ accept' = [p \in Peers |-> "ended"]

DropConnection(p) ==
    /\ peer[p] = "running"
    /\ \A k \in 1 .. Len(endpoints[p]) : ~ Pending(endpoints[p][k])
    /\ Closed
    /\ Enter(p, "dropped")
    /\ pending_register_ack' = [pending_register_ack EXCEPT ![p] = [i \in Ids |-> Vacant]]
    /\ pending_connect' = [pending_connect EXCEPT ![p] = {}]
    /\ pending_ready' = [pending_ready EXCEPT ![p] = [i \in Ids |-> Vacant]]
    /\ queue' = [queue EXCEPT ![p] = <<>>]
    /\ sender' = [sender EXCEPT ![p] = "ended"]
    /\ replying' = [replying EXCEPT ![p] = NoReply]
    /\ CloseStreams
    /\ UNCHANGED <<next_endpoint_index, endpoints, clients>>

-----------------------------------------------------------------------------
\* send_msgs: it ends when the stream cannot be written to.
Transmit(p) ==
    /\ queue[p] # <<>>
    /\ \/ /\ conn = "open" /\ Len(wire[p]) < WireCapacity
          /\ Write(p, Head(queue[p]))
          /\ queue' = [queue EXCEPT ![p] = Tail(@)]
          /\ UNCHANGED sender
       \/ /\ conn = "closed"
          /\ queue' = [queue EXCEPT ![p] = <<>>]
          /\ sender' = [sender EXCEPT ![p] = "ended"]
          /\ UNCHANGED wire
    /\ UNCHANGED <<conn, peer, next_endpoint_index, endpoints, pendingVars, replying,
                   routerVars>>

(***************************************************************************)
(* handle_msg, on the next message from the other peer.  An error is       *)
(* logged and changes nothing, unless noted.                               *)
(***************************************************************************)
Receive(p, kind) ==
    /\ peer[p] = "running" /\ replying[p] = NoReply
    /\ wire[Other(p)] # <<>>
    /\ Head(wire[Other(p)]).kind = kind
    /\ Read(p)
    /\ UNCHANGED <<conn, peer>>

\* Mutant of HandleRegisterEndpoint: the reply is forgotten.
HandleRegisterSilently(p) ==
    /\ Receive(p, "RegisterEndpoint")
    /\ pending_connect' =
         [pending_connect EXCEPT ![p] = @ \cup {Head(wire[Other(p)]).id}]
    /\ UNCHANGED <<next_endpoint_index, endpoints, pending_register_ack,
                   pending_ready, queueVars, routerVars>>

\* The task goes on only when there is room for the reply in the queue.
HandleRegisterEndpoint(p) ==
    /\ Receive(p, "RegisterEndpoint")
    /\ LET id == Head(wire[Other(p)]).id
       IN  \/ /\ id \in pending_connect[p]
              /\ UNCHANGED <<pending_connect, replying>>
           \/ /\ id \notin pending_connect[p]
              /\ pending_connect' = [pending_connect EXCEPT ![p] = @ \cup {id}]
              /\ replying' = [replying EXCEPT ![p] = id]
    /\ UNCHANGED <<next_endpoint_index, endpoints, pending_register_ack,
                   pending_ready, queue, sender, routerVars>>

Reply(p) ==
    /\ replying[p] # NoReply
    /\ \/ /\ sender[p] = "running" /\ HasRoom(p)
          /\ Send(p, "EndpointRegistered", replying[p])
       \/ sender[p] = "ended" /\ UNCHANGED queue
    /\ replying' = [replying EXCEPT ![p] = NoReply]
    /\ UNCHANGED <<handshakeVars, next_endpoint_index, endpoints, pendingVars, sender,
                   routerVars>>

\* The send on the oneshot fails, harmlessly, if the call is not there any more.
HandleEndpointRegistered(p) ==
    /\ Receive(p, "EndpointRegistered")
    /\ LET id == Head(wire[Other(p)]).id
           k == pending_register_ack[p][id]
       IN  IF k = Vacant
           THEN UNCHANGED <<pending_register_ack, endpoints>>
           ELSE /\ pending_register_ack' =
                     [pending_register_ack EXCEPT ![p][id] = Vacant]
                /\ endpoints' = [endpoints EXCEPT ![p][k].acked = ~ Dead(endpoints[p][k])]
    /\ UNCHANGED <<next_endpoint_index, pending_connect, pending_ready, queueVars,
                   routerVars>>

\* Mutant of HandleReady: a Ready message that comes first is forgotten.
HandleReadyForgets(p) ==
    /\ Receive(p, "Ready")
    /\ LET id == Head(wire[Other(p)]).id
           k == pending_ready[p][id]
       IN  /\ pending_ready' = [pending_ready EXCEPT ![p][id] = Vacant]
           /\ endpoints' = IF k > 0 /\ ~ Dead(endpoints[p][k])
                           THEN [endpoints EXCEPT ![p][k].notified = TRUE]
                           ELSE endpoints
    /\ UNCHANGED <<next_endpoint_index, pending_register_ack, pending_connect,
                   queueVars, routerVars>>

\* A second Ready message is an error that also removes the first one.
HandleReady(p) ==
    /\ Receive(p, "Ready")
    /\ LET id == Head(wire[Other(p)]).id
           k == pending_ready[p][id]
       IN  /\ pending_ready' = [pending_ready EXCEPT ![p][id] =
                                   IF k = Vacant THEN AwaitingLocal ELSE Vacant]
           /\ endpoints' = IF k > 0 /\ ~ Dead(endpoints[p][k])
                           THEN [endpoints EXCEPT ![p][k].notified = TRUE]
                           ELSE endpoints
    /\ UNCHANGED <<next_endpoint_index, pending_register_ack, pending_connect,
                   queueVars, routerVars>>

HandleMsg(p) ==
    \/ HandleRegisterEndpoint(p)
    \/ Reply(p)
    \/ HandleEndpointRegistered(p)
    \/ HandleReady(p)

\* accept_channels_uni: a stream of an unknown endpoint ends the task.
AcceptUni(p) ==
    /\ accept[p] = "running"
    /\ \E s \in streams[Other(p)] :
          /\ streams' = [streams EXCEPT ![Other(p)] = @ \ {s}]
          /\ accept' = [accept EXCEPT ![p] =
                            IF s.id \in clients[p] THEN @ ELSE "ended"]
    /\ UNCHANGED <<handshakeVars, next_endpoint_index, endpoints, pendingVars, queueVars,
                   clients>>

-----------------------------------------------------------------------------
HandshakeStep ==
    /\ HandshakeNext
    /\ IF conn = "open" /\ conn' = "closed" THEN CloseStreams ELSE UNCHANGED <<streams, accept>>
    /\ UNCHANGED <<next_endpoint_index, endpoints, pendingVars, queueVars, clients>>

\* What a register_*, connect_* or ready() call does without the application.
CallStep(p, k) ==
    \/ Registered(p, k)
    \/ SendRegisterEndpoint(p, k)
    \/ Start(p, k) \/ ReadyFails(p, k)

Next ==
    \/ HandshakeStep
    \/ \E p \in Peers :
        \/ Register(p)
        \/ \E reg \in 1 .. Len(endpoints[Other(p)]) : Connect(p, reg)
        \/ \E k \in 1 .. Len(endpoints[p]) :
              CallStep(p, k) \/ Ready(p, k) \/ OpenUni(p, k) \/ Drop(p, k)
        \/ DropConnection(p)
        \/ Transmit(p)
        \/ HandleMsg(p)
        \/ AcceptUni(p)

Spec == Init /\ [][Next]_vars

(***************************************************************************)
(* Tokio polls the tasks of Control, and a call that can go on; the        *)
(* control stream is reliable while the connection is open.  Nothing is    *)
(* assumed of the applications.  Each endpoint causes a bounded number of  *)
(* these steps, so that it is enough to be fair to all of them together.   *)
(***************************************************************************)
TaskStep ==
    \/ (AcceptPlain \/ Confirmed) /\ UNCHANGED endpointVars
    \/ \E p \in Peers :
        \/ Transmit(p)
        \/ HandleMsg(p)
        \/ \E k \in 1 .. Len(endpoints[p]) : CallStep(p, k)

Fairness == WF_vars(TaskStep)

FairSpec == Spec /\ Fairness

-----------------------------------------------------------------------------
States ==
    {"calling", "registering", "failed", "idle", "waiting", "started",
     "dropped"}

EndpointRecords ==
    [id : Ids, state : States, reg : 0 .. MaxEndpoints, acked : BOOLEAN,
     notified : BOOLEAN, readied : BOOLEAN]

ControlMsgs ==
    [kind : {"RegisterEndpoint", "EndpointRegistered", "Ready"}, id : Ids]

\* Every variable holds a value of its Rust type.
TypeOK ==
    /\ next_endpoint_index \in [Peers -> Ids]
    /\ endpoints \in [Peers -> Seq(EndpointRecords)]
    /\ pending_register_ack \in [Peers -> [Ids -> 0 .. MaxEndpoints]]
    /\ pending_connect \in [Peers -> SUBSET Ids]
    /\ pending_ready \in [Peers -> [Ids -> -1 .. MaxEndpoints]]
    /\ clients \in [Peers -> SUBSET Ids]
    /\ queue \in [Peers -> Seq(ControlMsgs)]
    /\ \A p \in Peers : Len(queue[p]) <= QueueCapacity /\ Len(endpoints[p]) <= MaxEndpoints
    /\ sender \in [Peers -> {"running", "ended"}]
    /\ replying \in [Peers -> Ids \cup {NoReply}]
    /\ streams \in [Peers -> SUBSET [id : Ids, from : 1 .. MaxEndpoints]]
    /\ accept \in [Peers -> {"running", "ended"}]

\* Endpoint k of p and endpoint j of the other peer are the two ends of one
\* registration.
Partners(p, k, j) ==
    \/ endpoints[p][k].reg = j
    \/ endpoints[Other(p)][j].reg = k

(***************************************************************************)
(* ready() returns only when the two ends of the same registration have    *)
(* both called it: no Ready message of an earlier endpoint, left over in   *)
(* pending_ready, is ever taken for one of a later endpoint, also when     *)
(* the ids have wrapped around.                                            *)
(***************************************************************************)
StartedTogether ==
    \A p \in Peers : \A k \in 1 .. Len(endpoints[p]) :
        endpoints[p][k].state = "started" =>
            \E j \in 1 .. Len(endpoints[Other(p)]) :
                Partners(p, k, j) /\ endpoints[Other(p)][j].readied

(***************************************************************************)
(* The assertion of KyChannelDropper ("An id must not be reused, so it's   *)
(* not racy"): an endpoint that has its channel is the only one with that  *)
(* id, and the router knows it.                                            *)
(***************************************************************************)
ChannelsRegistered ==
    \A p \in Peers : \A k \in 1 .. Len(endpoints[p]) :
        HasChannel(endpoints[p][k]) =>
            /\ endpoints[p][k].id \in clients[p]
            /\ \A j \in 1 .. Len(endpoints[p]) :
                  HasChannel(endpoints[p][j]) /\ endpoints[p][j].id = endpoints[p][k].id
                      => j = k

(***************************************************************************)
(* A stream opened by a started protocol finds its endpoint in the other   *)
(* peer's router, whatever the order in which streams and control messages *)
(* arrive, unless that peer has dropped the endpoint: only then can        *)
(* accept_channels_uni meet an unknown id, which ends it.  For that,       *)
(* KyChannelDropper must remove an id for its own endpoint only.  (With    *)
(* the types of the variables.)                                            *)
(***************************************************************************)
StreamsRouted ==
    /\ TypeOK
    /\ ChannelsRegistered
    /\ \A p \in Peers : \A s \in streams[p] :
        \/ s.id \in clients[Other(p)]
        \/ \E j \in 1 .. Len(endpoints[Other(p)]) :
              Partners(p, s.from, j) /\ endpoints[Other(p)][j].state = "dropped"

(***************************************************************************)
(* The control stream starts with the handshake, and with it only: while   *)
(* a client has its Connection the server has accepted it, or would need   *)
(* no token, and what recv_msgs() reads first at either peer is a control  *)
(* message, not the byte or the token that the handshake left to be read.  *)
(***************************************************************************)
HandshakeFirst ==
    /\ peer["client"] \in {"running", "dropped"} =>
          peer["server"] \notin {"accept_with_auth", "deciding", "rejected"}
    /\ \A p \in Peers :
          peer[p] = "running" /\ wire[Other(p)] # <<>> => Head(wire[Other(p)]) \in ControlMsgs

(***************************************************************************)
(* The README: "The registration is synchronous: the peer must reply with  *)
(* a EndpointRegistered packet to notify that the registration is          *)
(* complete".  So a register_* call returns, or is cancelled.              *)
(***************************************************************************)
State(p, k) == IF k <= Len(endpoints[p]) THEN endpoints[p][k].state ELSE "none"

RegistrationReturns ==
    \A p \in Peers : \A k \in 1 .. MaxEndpoints :
        State(p, k) = "registering" ~> State(p, k) # "registering" \/ conn = "closed"

(***************************************************************************)
(* As long as it is the first one with its id, it does, or its connection  *)
(* is lost: whatever calls are cancelled and endpoints dropped in the      *)
(* meantime, and though both peers wait for room in their control queues,  *)
(* also to reply.                                                          *)
(***************************************************************************)
FirstWithId(p, k) ==
    \A j \in 1 .. (k - 1) : endpoints[p][j].id # endpoints[p][k].id \/ endpoints[p][j].reg # 0

FirstRegistrationReturns ==
    []<>(\/ conn = "closed"
         \/ \A p \in Peers : \A k \in 1 .. Len(endpoints[p]) :
               ~ (Pending(endpoints[p][k]) /\ FirstWithId(p, k)))

(***************************************************************************)
(* Once both ends have called ready(), both start, unless one is dropped   *)
(* or the connection is lost: the Ready messages cross, overtake the       *)
(* connecting call or wait for it, and none is lost.  And nobody waits     *)
(* once the local Connection is dropped, which ends every ready() call.    *)
(***************************************************************************)
BothStart ==
    []<>(\A p \in Peers : \A k \in 1 .. Len(endpoints[p]) :
            ~ /\ endpoints[p][k].state = "waiting"
              /\ \/ peer[p] = "dropped"
                 \/ /\ conn = "open"
                    /\ \E j \in 1 .. Len(endpoints[Other(p)]) :
                          Partners(p, k, j) /\ endpoints[Other(p)][j].readied)
=============================================================================
