--------------------------- MODULE EndpointsProofs ---------------------------
(***************************************************************************)
(* For any number of endpoints, range of ids, length of tokens and bounds  *)
(* of queue and stream: the control stream is framed by the handshake, and *)
(* the assertion of KyChannelDropper holds.                                *)
(***************************************************************************)
EXTENDS Endpoints, TLAPS

USE EndpointsAssumption, TokensAssumption

-----------------------------------------------------------------------------
LEMMA ExceptSeq ==
    ASSUME NEW S, NEW seq \in Seq(S), NEW i \in 1 .. Len(seq), NEW e \in S
    PROVE  /\ [seq EXCEPT ![i] = e] \in Seq(S) /\ Len([seq EXCEPT ![i] = e]) = Len(seq)
           /\ \A j \in 1 .. Len(seq) : [seq EXCEPT ![i] = e][j] = IF j = i THEN e ELSE seq[j]
OBVIOUS

-----------------------------------------------------------------------------
HandshakeMsgs ==
    {[kind |-> "Dummy"], [kind |-> "Confirm"]} \cup [kind : {"Auth"}, len : Nat]

PeerStates ==
    {"connect", "connect_with_auth", "confirming", "accept", "accept_with_auth", "deciding",
     "running", "dropped", "rejected", "failed"}

HandshakeTypes ==
    /\ conn \in {"open", "closed"}
    /\ peer \in [Peers -> PeerStates]
    /\ wire \in [Peers -> Seq(HandshakeMsgs \cup ControlMsgs)]

(***************************************************************************)
(* The endpoints of a peer when one is added, and when one changes.        *)
(***************************************************************************)
LEMMA AddedEndpoint ==
    ASSUME TypeOK, NEW p \in Peers, NEW e \in EndpointRecords, Add(p, e)
    PROVE  /\ endpoints' \in [Peers -> Seq(EndpointRecords)]
           /\ Len(endpoints'[p]) = Len(endpoints[p]) + 1
           /\ endpoints'[p][Len(endpoints[p]) + 1] = e
           /\ \A k \in 1 .. Len(endpoints[p]) : endpoints'[p][k] = endpoints[p][k]
           /\ \A q \in Peers \ {p} : endpoints'[q] = endpoints[q]
<1>1. endpoints \in [Peers -> Seq(EndpointRecords)]
  BY DEF TypeOK
<1>2. endpoints' = [endpoints EXCEPT ![p] = Append(endpoints[p], e)]
  BY DEF Add
<1>3. Append(endpoints[p], e) \in Seq(EndpointRecords)
  BY <1>1
<1> QED BY <1>1, <1>2, <1>3

LEMMA RecordTypes ==
    ASSUME TypeOK, NEW q \in Peers
    PROVE  /\ Len(endpoints[q]) \in Nat /\ Len(endpoints[q]) <= MaxEndpoints
           /\ \A k \in 1 .. Len(endpoints[q]) : endpoints[q][k] \in EndpointRecords
<1>1. endpoints \in [Peers -> Seq(EndpointRecords)] /\ Len(endpoints[q]) <= MaxEndpoints
  BY Zenon DEF TypeOK
<1>2. endpoints[q] \in Seq(EndpointRecords)
  BY <1>1, Zenon
<1> QED BY <1>1, <1>2

LEMMA ChangedEndpoint ==
    ASSUME TypeOK, NEW p \in Peers, NEW k \in 1 .. Len(endpoints[p]),
           NEW e \in EndpointRecords,
           endpoints' = [endpoints EXCEPT ![p] = [endpoints[p] EXCEPT ![k] = e]]
    PROVE  /\ endpoints' \in [Peers -> Seq(EndpointRecords)]
           /\ Len(endpoints'[p]) = Len(endpoints[p])
           /\ endpoints'[p][k] = e
           /\ \A j \in 1 .. Len(endpoints[p]) : j # k => endpoints'[p][j] = endpoints[p][j]
           /\ \A q \in Peers \ {p} : endpoints'[q] = endpoints[q]
<1>1. endpoints \in [Peers -> Seq(EndpointRecords)]
  BY DEF TypeOK
<1>2. /\ [endpoints[p] EXCEPT ![k] = e] \in Seq(EndpointRecords)
      /\ Len([endpoints[p] EXCEPT ![k] = e]) = Len(endpoints[p])
  BY <1>1, ExceptSeq
<1> QED BY <1>1, <1>2

LEMMA LeftEndpoint ==
    ASSUME TypeOK, NEW p \in Peers, NEW k \in 1 .. Len(endpoints[p]),
           NEW state \in States, Leave(p, k, state) \/ Become(p, k, state)
    PROVE  \E e \in EndpointRecords :
              /\ endpoints' = [endpoints EXCEPT ![p] = [endpoints[p] EXCEPT ![k] = e]]
              /\ e.id = endpoints[p][k].id /\ e.reg = endpoints[p][k].reg
              /\ e.state = state
              /\ e.readied = endpoints[p][k].readied
              /\ (e.acked => endpoints[p][k].acked) /\ (e.notified => endpoints[p][k].notified)
<1>1. endpoints[p][k] \in EndpointRecords
  BY DEF TypeOK
<1>2. CASE Leave(p, k, state)
  <2> DEFINE e == [endpoints[p][k] EXCEPT !.state = state, !.acked = FALSE,
                                          !.notified = endpoints[p][k].notified /\ state = "idle"]
  <2>1. e \in EndpointRecords /\ e.id = endpoints[p][k].id /\ e.state = state
    BY <1>1, Zenon DEF EndpointRecords
  <2>3. /\ e.reg = endpoints[p][k].reg /\ e.readied = endpoints[p][k].readied
        /\ e.acked = FALSE /\ (e.notified => endpoints[p][k].notified)
    BY <1>1 DEF EndpointRecords
  <2>2. endpoints' = [endpoints EXCEPT ![p] = [endpoints[p] EXCEPT ![k] = e]]
    BY <1>2 DEF Leave
  <2> HIDE DEF e
  <2> QED BY <2>1, <2>2, <2>3, Zenon
<1>3. CASE Become(p, k, state)
  <2> DEFINE e == [endpoints[p][k] EXCEPT !.state = state]
  <2>1. e \in EndpointRecords /\ e.id = endpoints[p][k].id /\ e.state = state
    BY <1>1 DEF EndpointRecords
  <2>3. /\ e.reg = endpoints[p][k].reg /\ e.readied = endpoints[p][k].readied
        /\ e.acked = endpoints[p][k].acked /\ e.notified = endpoints[p][k].notified
    BY <1>1 DEF EndpointRecords
  <2>2. endpoints' = [endpoints EXCEPT ![p] = [endpoints[p] EXCEPT ![k] = e]]
    BY <1>3 DEF Become, TypeOK
  <2> HIDE DEF e
  <2> QED BY <2>1, <2>2, <2>3, Zenon
<1> QED BY <1>2, <1>3

\* What recv_msgs() takes is a control message, by its kind.
LEMMA ReceivedMsg ==
    ASSUME HandshakeTypes, NEW p \in Peers,
           NEW kind \in {"RegisterEndpoint", "EndpointRegistered", "Ready"}, Receive(p, kind)
    PROVE  Head(wire[Other(p)]) \in ControlMsgs /\ Head(wire[Other(p)]).id \in Ids
<1> DEFINE m == Head(wire[Other(p)])
<1>1. m \in HandshakeMsgs \cup ControlMsgs
  <2>1. Other(p) \in Peers
    BY DEF Other, Peers
  <2>2. wire[Other(p)] \in Seq(HandshakeMsgs \cup ControlMsgs) /\ wire[Other(p)] # <<>>
    BY <2>1 DEF HandshakeTypes, Receive
  <2> QED BY <2>2
<1>2. m.kind = kind
  BY DEF Receive
<1> HIDE DEF m
<1>3. m \notin HandshakeMsgs
  BY <1>2 DEF HandshakeMsgs
<1>4. m \in ControlMsgs /\ m.id \in Ids
  BY <1>1, <1>3 DEF ControlMsgs
<1> QED BY <1>4 DEF m

LEMMA NoSuchIndex ==
    ASSUME NEW S, NEW s \in Seq(S), NEW k, k \notin 1 .. Len(s), NEW e
    PROVE  [s EXCEPT ![k] = e] = s
BY DOMAIN s = 1 .. Len(s)

LEMMA Types ==
    TypeOK /\ HandshakeTypes /\ [Next]_vars => TypeOK'
(***************************************************************************)
(* The maps of Control when an entry changes.                              *)
(***************************************************************************)
<1>ChangedMap.
    ASSUME NEW V, NEW map \in [Peers -> [Ids -> V]],
           NEW p \in Peers, NEW id \in Ids, NEW v \in V
    PROVE  [map EXCEPT ![p][id] = v] \in [Peers -> [Ids -> V]]
  <2> USE <1>ChangedMap
  <2>1. [map[p] EXCEPT ![id] = v] \in [Ids -> V]
    BY Zenon
  <2> QED BY <2>1

<1>ChangedSets.
    ASSUME NEW S, NEW sets \in [Peers -> SUBSET S], NEW p \in Peers, NEW T \in SUBSET S
    PROVE  [sets EXCEPT ![p] = T] \in [Peers -> SUBSET S]
  BY <1>ChangedSets, Zenon

(***************************************************************************)
(* The types of every variable but those of the handshake.                 *)
(***************************************************************************)
<1>RegisterTypes.
    ASSUME TypeOK, NEW p \in Peers, Register(p)
    PROVE  TypeOK'
  <2> USE <1>RegisterTypes
  <2> DEFINE id == next_endpoint_index[p]
             n == Len(endpoints[p]) + 1
             v == IF pending_ready[p][id] = AwaitingLocal THEN Vacant ELSE n
  <2>1. id \in Ids /\ AfterId(id) \in Ids /\ n \in 0 .. MaxEndpoints /\ v \in -1 .. MaxEndpoints
    <3>1. id \in Ids
      BY DEF TypeOK
    <3>2. id \in Nat
      BY <3>1 DEF Ids
    <3>3. AfterId(id) \in Ids
      BY <3>2 DEF Ids, AfterId
    <3>4. Len(endpoints[p]) \in Nat /\ Len(endpoints[p]) < MaxEndpoints
      BY DEF TypeOK, Register
    <3> QED BY <3>1, <3>3, <3>4 DEF Vacant
  <2>2. PICK e \in EndpointRecords : Add(p, e)
    <3>1. Endpoint(id, "failed", 0, FALSE) \in EndpointRecords
      BY <2>1 DEF Endpoint, EndpointRecords, States
    <3>2. Endpoint(id, "calling", 0, ReadyAlready(p, id)) \in EndpointRecords
      BY <2>1 DEF Endpoint, EndpointRecords, States, ReadyAlready
    <3> QED BY <3>1, <3>2, Zenon DEF Register, RegisterEndpoint
  <2>3. /\ endpoints' \in [Peers -> Seq(EndpointRecords)]
        /\ Len(endpoints'[p]) = n
        /\ \A q \in Peers \ {p} : endpoints'[q] = endpoints[q]
    BY <2>2, AddedEndpoint
  <2>4. next_endpoint_index' \in [Peers -> Ids]
    BY <2>1 DEF Register, TypeOK
  <2>5. \/ pending_register_ack' = pending_register_ack
        \/ pending_register_ack' = [pending_register_ack EXCEPT ![p][id] = n]
    BY Zenon DEF Register, RegisterEndpoint, pendingVars
  <2>6. \/ pending_ready' = pending_ready
        \/ pending_ready' = [pending_ready EXCEPT ![p][id] = v]
    BY Zenon DEF Register, RegisterReadyNotifier, pendingVars
  <2>7. UNCHANGED <<pending_connect, queueVars, routerVars>>
    BY Zenon DEF Register, pendingVars
  <2> HIDE DEF id, n, v
  <2>8. \A q \in Peers : Len(endpoints'[q]) <= MaxEndpoints
    <3>1. \A q \in Peers : Len(endpoints[q]) <= MaxEndpoints
      BY DEF TypeOK
    <3>2. n <= MaxEndpoints
      BY <2>1
    <3> QED BY <2>3, <3>1, <3>2, Zenon
  <2>9. pending_register_ack' \in [Peers -> [Ids -> 0 .. MaxEndpoints]]
    <3> DEFINE V == 0 .. MaxEndpoints
    <3>1. pending_register_ack \in [Peers -> [Ids -> V]] /\ n \in V
      BY <2>1 DEF TypeOK
    <3> HIDE DEF V
    <3>2. [pending_register_ack EXCEPT ![p][id] = n] \in [Peers -> [Ids -> V]]
      BY <2>1, <3>1, <1>ChangedMap, Zenon
    <3>3. pending_register_ack' \in [Peers -> [Ids -> V]]
      BY <2>5, <3>1, <3>2, Zenon
    <3> QED BY <3>3 DEF V
  <2>10. pending_ready' \in [Peers -> [Ids -> -1 .. MaxEndpoints]]
    <3> DEFINE V == -1 .. MaxEndpoints
    <3>1. pending_ready \in [Peers -> [Ids -> V]] /\ v \in V
      BY <2>1 DEF TypeOK
    <3> HIDE DEF V
    <3>2. [pending_ready EXCEPT ![p][id] = v] \in [Peers -> [Ids -> V]]
      BY <2>1, <3>1, <1>ChangedMap, Zenon
    <3>3. pending_ready' \in [Peers -> [Ids -> V]]
      BY <2>6, <3>1, <3>2, Zenon
    <3> QED BY <3>3 DEF V
  <2> QED BY <2>3, <2>4, <2>7, <2>8, <2>9, <2>10, Zenon DEF TypeOK, queueVars, routerVars

<1>ChangedTypes.
    ASSUME TypeOK, NEW p \in Peers, NEW k \in 1 .. Len(endpoints[p]),
           \/ \E state \in States : Leave(p, k, state) \/ Become(p, k, state)
           \/ \E e \in EndpointRecords :
                 endpoints' = [endpoints EXCEPT ![p] = [endpoints[p] EXCEPT ![k] = e]]
    PROVE  /\ endpoints' \in [Peers -> Seq(EndpointRecords)]
           /\ \A q \in Peers : Len(endpoints'[q]) <= MaxEndpoints
  <2> USE <1>ChangedTypes
  <2>1. PICK e \in EndpointRecords :
              endpoints' = [endpoints EXCEPT ![p] = [endpoints[p] EXCEPT ![k] = e]]
    <3>1. ASSUME NEW state \in States, Leave(p, k, state) \/ Become(p, k, state)
          PROVE  \E e \in EndpointRecords :
                    endpoints' = [endpoints EXCEPT ![p] = [endpoints[p] EXCEPT ![k] = e]]
      BY <3>1, LeftEndpoint
    <3> QED BY <3>1, Zenon
  <2>2. /\ endpoints' \in [Peers -> Seq(EndpointRecords)]
        /\ Len(endpoints'[p]) = Len(endpoints[p])
        /\ \A q \in Peers \ {p} : endpoints'[q] = endpoints[q]
    BY <2>1, ChangedEndpoint, Zenon
  <2>3. \A q \in Peers : Len(endpoints[q]) <= MaxEndpoints
    BY DEF TypeOK
  <2> QED BY <2>2, <2>3, Zenon

\* A message for the queue.
<1>SentTypes.
    ASSUME TypeOK, NEW p \in Peers, NEW id \in Ids,
           NEW kind \in {"RegisterEndpoint", "EndpointRegistered", "Ready"},
           Send(p, kind, id), HasRoom(p)
    PROVE  /\ queue' \in [Peers -> Seq(ControlMsgs)]
           /\ \A q \in Peers : Len(queue'[q]) <= QueueCapacity
  <2> USE <1>SentTypes
  <2> DEFINE m == [kind |-> kind, id |-> id]
  <2>1. m \in ControlMsgs
    BY DEF ControlMsgs
  <2>2. queue \in [Peers -> Seq(ControlMsgs)] /\ \A q \in Peers : Len(queue[q]) <= QueueCapacity
    BY DEF TypeOK
  <2>3. queue' = [queue EXCEPT ![p] = Append(queue[p], m)]
    BY DEF Send
  <2>4. Len(queue[p]) < QueueCapacity
    BY DEF HasRoom
  <2> HIDE DEF m
  <2>5. Append(queue[p], m) \in Seq(ControlMsgs) /\ Len(Append(queue[p], m)) <= QueueCapacity
    BY <2>1, <2>2, <2>4
  <2> QED BY <2>2, <2>3, <2>5

<1>EndpointTypes.
    ASSUME TypeOK, NEW p \in Peers, NEW k \in 1 .. Len(endpoints[p]),
           CallStep(p, k) \/ Ready(p, k) \/ OpenUni(p, k) \/ Drop(p, k)
    PROVE  TypeOK'
  <2> USE <1>EndpointTypes
  <2>1. endpoints[p][k] \in EndpointRecords /\ endpoints[p][k].id \in Ids
    <3>1. endpoints[p][k] \in EndpointRecords
      BY DEF TypeOK
    <3> QED BY <3>1 DEF EndpointRecords
  <2>2. {"failed", "idle", "registering", "started", "dropped"} \subseteq States
    BY DEF States
  <2>3. clients \in [Peers -> SUBSET Ids]
    BY DEF TypeOK
  <2>4. /\ [clients EXCEPT ![p] = clients[p] \cup {endpoints[p][k].id}] \in [Peers -> SUBSET Ids]
         /\ [clients EXCEPT ![p] = clients[p] \ {endpoints[p][k].id}] \in [Peers -> SUBSET Ids]
    BY <2>1, <2>3, <1>ChangedSets
  <2>5. CASE Registered(p, k)
    <3>1. \E state \in States : Leave(p, k, state)
      BY <2>2, <2>5 DEF Registered
    <3>2. clients' \in [Peers -> SUBSET Ids]
      BY <2>5, <2>3, <2>4 DEF Registered
    <3> QED BY <2>5, <3>1, <3>2, <1>ChangedTypes, Zenon
            DEF Registered, TypeOK, pendingVars, queueVars
  <2>6. CASE SendRegisterEndpoint(p, k)
    <3>1. \E state \in States : Leave(p, k, state) \/ Become(p, k, state)
      BY <2>2, <2>6 DEF SendRegisterEndpoint
    <3>2. /\ queue' \in [Peers -> Seq(ControlMsgs)]
          /\ \A q \in Peers : Len(queue'[q]) <= QueueCapacity
      BY <2>1, <2>6, <1>SentTypes, Zenon DEF SendRegisterEndpoint, TypeOK
    <3> QED BY <2>6, <3>1, <3>2, <1>ChangedTypes, Zenon
            DEF SendRegisterEndpoint, TypeOK, pendingVars, routerVars
  <2>7. CASE Start(p, k)
    <3>1. Leave(p, k, "started")
      BY <2>7 DEF Start
    <3> QED BY <2>2, <2>7, <3>1, <1>ChangedTypes, Zenon
            DEF Start, TypeOK, pendingVars, queueVars, routerVars
  <2>8. CASE ReadyFails(p, k) \/ Drop(p, k)
    <3>1. \E state \in States : Leave(p, k, state)
      BY <2>2, <2>8 DEF ReadyFails, Drop, Unregister
    <3>2. clients' \in [Peers -> SUBSET Ids]
      BY <2>8, <2>3, <2>4 DEF ReadyFails, Drop, Unregister
    <3> QED BY <2>8, <3>1, <3>2, <1>ChangedTypes, Zenon
            DEF ReadyFails, Drop, TypeOK, pendingVars, queueVars
  <2>9. CASE Ready(p, k)
    <3> DEFINE e == [endpoints[p][k] EXCEPT !.state = "waiting", !.readied = TRUE]
    <3>1. e \in EndpointRecords
      BY <2>1, Zenon DEF EndpointRecords, States
    <3>2. endpoints' = [endpoints EXCEPT ![p] = [endpoints[p] EXCEPT ![k] = e]]
      BY <2>9 DEF Ready
    <3>3. /\ queue' \in [Peers -> Seq(ControlMsgs)]
          /\ \A q \in Peers : Len(queue'[q]) <= QueueCapacity
      BY <2>1, <2>9, <1>SentTypes DEF Ready
    <3>4. UNCHANGED <<next_endpoint_index, pendingVars, sender, replying, routerVars>>
      BY <2>9 DEF Ready
    <3> HIDE DEF e
    <3>5. /\ endpoints' \in [Peers -> Seq(EndpointRecords)]
          /\ \A q \in Peers : Len(endpoints'[q]) <= MaxEndpoints
      BY <3>1, <3>2, <1>ChangedTypes, Zenon
    <3> QED BY <3>3, <3>4, <3>5, Zenon DEF TypeOK, pendingVars, routerVars
  <2>10. CASE OpenUni(p, k)
    <3> DEFINE S == [id : Ids, from : 1 .. MaxEndpoints]
               T == streams[p] \cup {[id |-> endpoints[p][k].id, from |-> k]}
    <3>1. k \in 1 .. MaxEndpoints
      BY DEF TypeOK
    <3>3. streams \in [Peers -> SUBSET S] /\ streams' = [streams EXCEPT ![p] = T]
      BY <2>10 DEF OpenUni, TypeOK
    <3>4. [id |-> endpoints[p][k].id, from |-> k] \in S
      BY <2>1, <3>1
    <3> HIDE DEF S
    <3>5. T \in SUBSET S
      BY <3>3, <3>4
    <3> HIDE DEF T
    <3>6. streams' \in [Peers -> SUBSET S]
      BY <3>3, <3>5, <1>ChangedSets
    <3>2. streams' \in [Peers -> SUBSET [id : Ids, from : 1 .. MaxEndpoints]]
      BY <3>6 DEF S
    <3> QED BY <2>10, <3>2 DEF OpenUni, TypeOK, pendingVars, queueVars
  <2> QED BY <2>5, <2>6, <2>7, <2>8, <2>9, <2>10 DEF CallStep

<1>ConnectTypes.
    ASSUME TypeOK, NEW p \in Peers, NEW reg \in 1 .. Len(endpoints[Other(p)]), Connect(p, reg)
    PROVE  TypeOK'
  <2> USE <1>ConnectTypes
  <2> DEFINE id == endpoints[Other(p)][reg].id
             n == Len(endpoints[p]) + 1
             v == IF pending_ready[p][id] = AwaitingLocal THEN Vacant ELSE n
  <2>1. id \in Ids /\ reg \in 0 .. MaxEndpoints /\ n \in 0 .. MaxEndpoints /\ v \in -1 .. MaxEndpoints
    <3>1. Other(p) \in Peers
      BY DEF Other, Peers
    <3>2. endpoints[Other(p)][reg] \in EndpointRecords /\ Len(endpoints[Other(p)]) <= MaxEndpoints
      BY <3>1, RecordTypes, Zenon
    <3>3. id \in Ids
      BY <3>2 DEF EndpointRecords
    <3>4. Len(endpoints[p]) \in Nat /\ Len(endpoints[p]) < MaxEndpoints
      BY DEF TypeOK, Connect
    <3>5. Len(endpoints[Other(p)]) \in Nat
      BY <3>1, RecordTypes, Zenon
    <3> QED BY <3>2, <3>3, <3>4, <3>5 DEF Vacant
  <2>2. PICK e \in EndpointRecords : Add(p, e)
    <3>1. Endpoint(id, "failed", reg, FALSE) \in EndpointRecords
      BY <2>1 DEF Endpoint, EndpointRecords, States
    <3>2. Endpoint(id, "idle", reg, ReadyAlready(p, id)) \in EndpointRecords
      BY <2>1 DEF Endpoint, EndpointRecords, States, ReadyAlready
    <3> QED BY <3>1, <3>2, Zenon DEF Connect
  <2>3. /\ endpoints' \in [Peers -> Seq(EndpointRecords)]
        /\ Len(endpoints'[p]) = n
        /\ \A q \in Peers \ {p} : endpoints'[q] = endpoints[q]
    BY <2>2, AddedEndpoint
  <2>4. \/ clients' = clients
        \/ clients' = [clients EXCEPT ![p] = clients[p] \cup {id}]
    BY Zenon DEF Connect
  <2>5. \/ pending_ready' = pending_ready
        \/ pending_ready' = [pending_ready EXCEPT ![p][id] = v]
    BY Zenon DEF Connect, RegisterReadyNotifier, pendingVars
  <2>6. UNCHANGED <<next_endpoint_index, pending_register_ack, pending_connect, queueVars,
                    streams, accept>>
    BY Zenon DEF Connect, pendingVars
  <2> HIDE DEF id, n, v
  <2>7. \A q \in Peers : Len(endpoints'[q]) <= MaxEndpoints
    <3>1. \A q \in Peers : Len(endpoints[q]) <= MaxEndpoints
      BY DEF TypeOK
    <3>2. n <= MaxEndpoints
      BY <2>1
    <3> QED BY <2>3, <3>1, <3>2, Zenon
  <2>8. clients' \in [Peers -> SUBSET Ids]
    <3>1. clients \in [Peers -> SUBSET Ids] /\ clients[p] \cup {id} \in SUBSET Ids
      BY <2>1, Zenon DEF TypeOK
    <3> QED BY <2>4, <3>1, <1>ChangedSets
  <2>9. pending_ready' \in [Peers -> [Ids -> -1 .. MaxEndpoints]]
    <3> DEFINE V == -1 .. MaxEndpoints
    <3>1. pending_ready \in [Peers -> [Ids -> V]] /\ v \in V
      BY <2>1 DEF TypeOK
    <3> HIDE DEF V
    <3>2. [pending_ready EXCEPT ![p][id] = v] \in [Peers -> [Ids -> V]]
      BY <2>1, <3>1, <1>ChangedMap, Zenon
    <3>3. pending_ready' \in [Peers -> [Ids -> V]]
      BY <2>5, <3>1, <3>2, Zenon
    <3> QED BY <3>3 DEF V
  <2> QED BY <2>3, <2>6, <2>7, <2>8, <2>9, Zenon DEF TypeOK, queueVars

\* The oneshot of an endpoint is sent on.
<1>OneshotTypes.
    ASSUME TypeOK, NEW p \in Peers, NEW k \in Int, NEW b \in BOOLEAN,
           \/ endpoints' = [endpoints EXCEPT ![p][k].acked = b]
           \/ endpoints' = [endpoints EXCEPT ![p][k].notified = b]
    PROVE  /\ endpoints' \in [Peers -> Seq(EndpointRecords)]
           /\ \A q \in Peers : Len(endpoints'[q]) <= MaxEndpoints
  <2> USE <1>OneshotTypes
  <2> DEFINE a == [endpoints[p][k] EXCEPT !.acked = b]
             n == [endpoints[p][k] EXCEPT !.notified = b]
  <2>1. endpoints \in [Peers -> Seq(EndpointRecords)]
    BY DEF TypeOK
  <2>2. \E e \in {a, n} : endpoints' = [endpoints EXCEPT ![p] = [endpoints[p] EXCEPT ![k] = e]]
    BY <2>1
  <2>3. CASE k \in 1 .. Len(endpoints[p])
    <3>1. endpoints[p][k] \in EndpointRecords
      BY <2>1, <2>3
    <3>2. a \in EndpointRecords /\ n \in EndpointRecords
      BY <3>1 DEF EndpointRecords
    <3> HIDE DEF a, n
    <3> QED BY <2>2, <2>3, <3>2, <1>ChangedTypes, Zenon
  <2>4. CASE k \notin 1 .. Len(endpoints[p])
    <3> HIDE DEF a, n
    <3>1. endpoints[p] \in Seq(EndpointRecords)
      BY <2>1
    <3>2. \A e : [endpoints[p] EXCEPT ![k] = e] = endpoints[p]
      BY <2>4, <3>1, NoSuchIndex
    <3>3. endpoints' = [endpoints EXCEPT ![p] = endpoints[p]]
      BY <2>2, <3>2, Zenon
    <3>4. endpoints' = endpoints
      BY <2>1, <3>3
    <3> QED BY <3>4 DEF TypeOK
  <2> QED BY <2>3, <2>4

<1>HandleMsgTypes.
    ASSUME TypeOK, HandshakeTypes, NEW p \in Peers, HandleMsg(p)
    PROVE  TypeOK'
  <2> USE <1>HandleMsgTypes
  <2> DEFINE id == Head(wire[Other(p)]).id
  <2>1. CASE HandleRegisterEndpoint(p)
    <3>1. id \in Ids
      BY <2>1, ReceivedMsg DEF HandleRegisterEndpoint
    <3>2. \/ UNCHANGED <<pending_connect, replying>>
          \/ /\ pending_connect' = [pending_connect EXCEPT ![p] = pending_connect[p] \cup {id}]
             /\ replying' = [replying EXCEPT ![p] = id]
      BY <2>1 DEF HandleRegisterEndpoint
    <3> HIDE DEF id
    <3>3. pending_connect' \in [Peers -> SUBSET Ids]
      <4>1. pending_connect \in [Peers -> SUBSET Ids] /\ pending_connect[p] \cup {id} \in SUBSET Ids
        BY <3>1 DEF TypeOK
      <4> QED BY <3>2, <4>1, <1>ChangedSets
    <3>4. replying' \in [Peers -> Ids \cup {NoReply}]
      <4>1. replying \in [Peers -> Ids \cup {NoReply}] /\ id \in Ids \cup {NoReply}
        BY <3>1 DEF TypeOK
      <4> QED BY <3>2, <4>1, Zenon
    <3> QED BY <2>1, <3>3, <3>4, Zenon DEF HandleRegisterEndpoint, TypeOK, routerVars
  <2>2. CASE Reply(p)
    <3>1. replying' \in [Peers -> Ids \cup {NoReply}]
      BY <2>2 DEF Reply, TypeOK
    <3>2. replying[p] \in Ids
      BY <2>2 DEF Reply, TypeOK
    <3>3. /\ queue' \in [Peers -> Seq(ControlMsgs)]
          /\ \A q \in Peers : Len(queue'[q]) <= QueueCapacity
      BY <2>2, <3>2, <1>SentTypes, Zenon DEF Reply, TypeOK
    <3> QED BY <2>2, <3>1, <3>3, Zenon DEF Reply, TypeOK, pendingVars, routerVars
  <2>3. CASE HandleEndpointRegistered(p)
    <3> DEFINE k == pending_register_ack[p][id]
               b == ~ Dead(endpoints[p][k])
    <3>1. id \in Ids
      BY <2>3, ReceivedMsg, Zenon DEF HandleEndpointRegistered
    <3>2. k \in Int /\ b \in BOOLEAN /\ Vacant \in 0 .. MaxEndpoints
      BY <3>1 DEF TypeOK, Dead, Vacant
    <3>3. \/ UNCHANGED <<pending_register_ack, endpoints>>
          \/ /\ pending_register_ack' = [pending_register_ack EXCEPT ![p][id] = Vacant]
             /\ endpoints' = [endpoints EXCEPT ![p][k].acked = b]
      BY <2>3, Zenon DEF HandleEndpointRegistered
    <3> HIDE DEF id, k, b
    <3>4. /\ endpoints' \in [Peers -> Seq(EndpointRecords)]
          /\ \A q \in Peers : Len(endpoints'[q]) <= MaxEndpoints
      BY <3>2, <3>3, <1>OneshotTypes, Zenon DEF TypeOK
    <3>5. pending_register_ack' \in [Peers -> [Ids -> 0 .. MaxEndpoints]]
      <4>1. pending_register_ack \in [Peers -> [Ids -> 0 .. MaxEndpoints]]
        BY DEF TypeOK
      <4>2. [pending_register_ack EXCEPT ![p][id] = Vacant] \in [Peers -> [Ids -> 0 .. MaxEndpoints]]
        BY <3>1, <3>2, <4>1, <1>ChangedMap, Zenon
      <4> QED BY <3>3, <4>1, <4>2, Zenon
    <3> QED BY <2>3, <3>4, <3>5, Zenon DEF HandleEndpointRegistered, TypeOK, queueVars, routerVars
  <2>4. CASE HandleReady(p)
    <3> DEFINE k == pending_ready[p][id]
               v == IF k = Vacant THEN AwaitingLocal ELSE Vacant
               V == -1 .. MaxEndpoints
    <3>1. id \in Ids
      BY <2>4, ReceivedMsg, Zenon DEF HandleReady
    <3>2. k \in Int /\ v \in V /\ pending_ready \in [Peers -> [Ids -> V]]
      <4>1. pending_ready \in [Peers -> [Ids -> V]]
        BY DEF TypeOK
      <4>2. k \in V
        BY <3>1, <4>1, Zenon
      <4>3. k \in Int
        <5>1. \A x \in V : x \in Int
          OBVIOUS
        <5> HIDE DEF V, k
        <5> QED BY <4>2, <5>1
      <4>4. v \in V
        BY DEF Vacant, AwaitingLocal
      <4> QED BY <4>1, <4>3, <4>4, Zenon
    <3>3. /\ pending_ready' = [pending_ready EXCEPT ![p][id] = v]
          /\ endpoints' = endpoints \/ endpoints' = [endpoints EXCEPT ![p][k].notified = TRUE]
      BY <2>4, Zenon DEF HandleReady
    <3> HIDE DEF id, k, v, V
    <3>4. /\ endpoints' \in [Peers -> Seq(EndpointRecords)]
          /\ \A q \in Peers : Len(endpoints'[q]) <= MaxEndpoints
      BY <3>2, <3>3, <1>OneshotTypes, Zenon DEF TypeOK
    <3>5. pending_ready' \in [Peers -> [Ids -> V]]
      BY <3>1, <3>2, <3>3, <1>ChangedMap, Zenon
    <3>6. pending_ready' \in [Peers -> [Ids -> -1 .. MaxEndpoints]]
      BY <3>5 DEF V
    <3> QED BY <2>4, <3>4, <3>6, Zenon DEF HandleReady, TypeOK, queueVars, routerVars
  <2> QED BY <2>1, <2>2, <2>3, <2>4 DEF HandleMsg

<1>ConnectionTypes.
    ASSUME TypeOK, NEW p \in Peers, DropConnection(p) \/ Transmit(p) \/ AcceptUni(p)
    PROVE  TypeOK'
  <2> USE <1>ConnectionTypes
  <2>1. Other(p) \in Peers
    BY DEF Other, Peers
  <2>2. queue \in [Peers -> Seq(ControlMsgs)] /\ \A q \in Peers : Len(queue[q]) <= QueueCapacity
    BY DEF TypeOK
  <2>3. <<>> \in Seq(ControlMsgs) /\ Len(<<>>) <= QueueCapacity
    OBVIOUS
  <2>4. CASE DropConnection(p)
    <3>1. /\ queue' \in [Peers -> Seq(ControlMsgs)]
          /\ \A q \in Peers : Len(queue'[q]) <= QueueCapacity
      BY <2>2, <2>3, <2>4 DEF DropConnection
    <3>2. pending_register_ack' \in [Peers -> [Ids -> 0 .. MaxEndpoints]]
      BY <2>4 DEF DropConnection, TypeOK, Vacant
    <3>3. pending_ready' \in [Peers -> [Ids -> -1 .. MaxEndpoints]]
      <4> DEFINE V == -1 .. MaxEndpoints
      <4>1. pending_ready \in [Peers -> [Ids -> V]] /\ Vacant \in V
        BY DEF TypeOK, Vacant
      <4>2. pending_ready' = [pending_ready EXCEPT ![p] = [i \in Ids |-> Vacant]]
        BY <2>4 DEF DropConnection
      <4> HIDE DEF V
      <4>3. pending_ready' \in [Peers -> [Ids -> V]]
        BY <4>1, <4>2, Zenon
      <4> QED BY <4>3 DEF V
    <3>4. pending_connect' \in [Peers -> SUBSET Ids]
      BY <2>4 DEF DropConnection, TypeOK
    <3>5. /\ sender' \in [Peers -> {"running", "ended"}]
          /\ replying' \in [Peers -> Ids \cup {NoReply}]
          /\ streams' \in [Peers -> SUBSET [id : Ids, from : 1 .. MaxEndpoints]]
          /\ accept' \in [Peers -> {"running", "ended"}]
      BY <2>4, Zenon DEF DropConnection, CloseStreams, TypeOK
    <3> QED BY <2>4, <3>1, <3>2, <3>3, <3>4, <3>5 DEF DropConnection, TypeOK
  <2>5. CASE Transmit(p)
    <3>1. queue[p] # <<>> =>
            Tail(queue[p]) \in Seq(ControlMsgs) /\ Len(Tail(queue[p])) <= QueueCapacity
      BY <2>2
    <3>2. /\ queue' \in [Peers -> Seq(ControlMsgs)]
          /\ \A q \in Peers : Len(queue'[q]) <= QueueCapacity
      BY <2>2, <2>3, <2>5, <3>1, Zenon DEF Transmit
    <3>3. sender' \in [Peers -> {"running", "ended"}]
      BY <2>5, Zenon DEF Transmit, TypeOK
    <3> QED BY <2>5, <3>2, <3>3 DEF Transmit, TypeOK, pendingVars, routerVars
  <2>6. CASE AcceptUni(p)
    <3> DEFINE S == [id : Ids, from : 1 .. MaxEndpoints]
    <3>1. PICK s \in streams[Other(p)] :
              streams' = [streams EXCEPT ![Other(p)] = streams[Other(p)] \ {s}]
      BY <2>6, Zenon DEF AcceptUni
    <3>2. streams \in [Peers -> SUBSET S]
      BY DEF TypeOK
    <3> HIDE DEF S
    <3>3. streams' \in [Peers -> SUBSET S]
      BY <2>1, <3>1, <3>2, <1>ChangedSets
    <3>4. accept' \in [Peers -> {"running", "ended"}]
      BY <2>6 DEF AcceptUni, TypeOK
    <3> QED BY <2>6, <3>3, <3>4, Zenon DEF AcceptUni, TypeOK, S, pendingVars, queueVars
  <2> QED BY <2>4, <2>5, <2>6

<1> SUFFICES ASSUME TypeOK, HandshakeTypes, [Next]_vars PROVE TypeOK'
  OBVIOUS
<1>1. CASE HandshakeStep
  <2>1. /\ streams' \in [Peers -> SUBSET [id : Ids, from : 1 .. MaxEndpoints]]
        /\ accept' \in [Peers -> {"running", "ended"}]
    BY <1>1, Zenon DEF HandshakeStep, CloseStreams, TypeOK
  <2> QED BY <1>1, <2>1 DEF HandshakeStep, TypeOK, pendingVars, queueVars
<1>2. CASE UNCHANGED vars
  BY <1>2 DEF vars, endpointVars, TypeOK, pendingVars, queueVars, routerVars
<1> QED BY <1>1, <1>2, <1>RegisterTypes, <1>ConnectTypes, <1>EndpointTypes, <1>HandleMsgTypes, <1>ConnectionTypes
        DEF Next

-----------------------------------------------------------------------------
\* The tasks of Control run, and there are endpoints, once the handshake is
\* done, and a Connection that is dropped has no task any more.
RunsAt(p) ==
    /\ peer[p] \notin {"running", "dropped"} =>
          endpoints[p] = <<>> /\ queue[p] = <<>> /\ replying[p] = NoReply
    /\ peer[p] = "dropped" =>
          conn = "closed" /\ sender[p] = "ended" /\ queue[p] = <<>> /\ replying[p] = NoReply

TasksRun == \A p \in Peers : RunsAt(p)

\* How far one peer can be while the other one is in a call of the handshake.
InStep ==
    conn = "open" =>
        /\ peer["client"] = "connect" => peer["server"] = "accept"
        /\ peer["client"] = "connect_with_auth" => peer["server"] = "accept_with_auth"
        /\ peer["client"] = "confirming" =>
              peer["server"] \in {"accept_with_auth", "deciding", "running"}
        /\ peer["server"] = "accept" => peer["client"] \in {"connect", "running"}
        /\ peer["server"] = "accept_with_auth" =>
              peer["client"] \in {"connect_with_auth", "confirming"}
        /\ peer["server"] = "deciding" => peer["client"] = "confirming"

\* Control messages only, or these behind one message of the handshake.
Control(s) == \A i \in 1 .. Len(s) : s[i] \in ControlMsgs

Behind(kind, s) ==
    s # <<>> => /\ s[1].kind = kind
                /\ \A i \in 2 .. Len(s) : s[i] \in ControlMsgs

\* What is on the control stream, in each direction.
Framed ==
    /\ conn = "closed" => \A p \in Peers : wire[p] = <<>>
    /\ peer["client"] \in {"connect", "connect_with_auth"} => wire["client"] = <<>>
    /\ peer["server"] # "running" => wire["server"] = <<>>
    /\ peer["server"] = "accept" => Behind("Dummy", wire["client"])
    /\ peer["server"] = "accept_with_auth" => Behind("Auth", wire["client"])
    /\ peer["server"] \notin {"accept", "accept_with_auth"} => Control(wire["client"])
    /\ peer["client"] = "confirming" => Behind("Confirm", wire["server"])
    /\ peer["client"] # "confirming" => Control(wire["server"])

\* The first message is there before any that the tasks of Control write.
Greeted ==
    conn = "open" =>
        /\ peer["server"] = "accept" /\ peer["client"] = "running" => wire["client"] # <<>>
        /\ peer["server"] = "running" /\ peer["client"] = "confirming" => wire["server"] # <<>>

ClientAfterServer ==
    peer["client"] \in {"running", "dropped"} =>
        peer["server"] \notin {"accept_with_auth", "deciding", "rejected"}

IInv ==
    /\ TypeOK /\ HandshakeTypes
    /\ TasksRun
    /\ InStep /\ Framed /\ Greeted /\ ClientAfterServer
    /\ ChannelsRegistered
-----------------------------------------------------------------------------
(***************************************************************************)
(* The channels.  An endpoint keeps its channel, or gets one with an id    *)
(* that the router did not know.                                           *)
(***************************************************************************)
KeepsChannel(p, k) ==
    /\ k \in 1 .. Len(endpoints[p])
    /\ HasChannel(endpoints[p][k])
    /\ endpoints'[p][k].id = endpoints[p][k].id
    /\ endpoints[p][k].id \in clients'[p]

GetsChannel(p, k) ==
    /\ endpoints'[p][k].id \notin clients[p]
    /\ endpoints'[p][k].id \in clients'[p]

OneGetsChannel(p, n) ==
    \A q \in Peers : \A k \in 1 .. Len(endpoints'[q]) :
        HasChannel(endpoints'[q][k]) =>
            KeepsChannel(q, k) \/ (q = p /\ k = n /\ GetsChannel(q, k))

LEMMA ChannelsStep ==
    TypeOK /\ HandshakeTypes /\ ChannelsRegistered /\ [Next]_vars => ChannelsRegistered'
<1>Channels.
    ASSUME ChannelsRegistered, NEW p, NEW n, OneGetsChannel(p, n)
    PROVE  ChannelsRegistered'
  <2> USE <1>Channels
  <2> USE DEF OneGetsChannel
  <2> SUFFICES ASSUME NEW q \in Peers, NEW k \in 1 .. Len(endpoints'[q]),
                      HasChannel(endpoints'[q][k])
               PROVE  /\ endpoints'[q][k].id \in clients'[q]
                      /\ \A j \in 1 .. Len(endpoints'[q]) :
                            /\ HasChannel(endpoints'[q][j])
                            /\ endpoints'[q][j].id = endpoints'[q][k].id
                            => j = k
    BY DEF ChannelsRegistered, HasChannel
  <2>1. endpoints'[q][k].id \in clients'[q]
    BY DEF KeepsChannel, GetsChannel
  <2>2. ASSUME NEW j \in 1 .. Len(endpoints'[q]), HasChannel(endpoints'[q][j]),
               endpoints'[q][j].id = endpoints'[q][k].id
        PROVE  j = k
    <3>1. CASE KeepsChannel(q, k) /\ KeepsChannel(q, j)
      BY <2>2, <3>1 DEF KeepsChannel, ChannelsRegistered
    <3>2. CASE KeepsChannel(q, k) /\ GetsChannel(q, j)
      BY <2>2, <3>2 DEF KeepsChannel, GetsChannel, ChannelsRegistered
    <3>3. CASE GetsChannel(q, k) /\ KeepsChannel(q, j)
      BY <2>2, <3>3 DEF KeepsChannel, GetsChannel, ChannelsRegistered
    <3> QED BY <2>2, <3>1, <3>2, <3>3
  <2> QED BY <2>1, <2>2

<1>AddedChannel.
    ASSUME TypeOK, ChannelsRegistered, NEW p \in Peers,
           Register(p) \/ \E reg \in 1 .. Len(endpoints[Other(p)]) : Connect(p, reg)
    PROVE  ChannelsRegistered'
  <2> USE <1>AddedChannel
  <2> DEFINE n == Len(endpoints[p]) + 1
  <2>1. clients \in [Peers -> SUBSET Ids] /\ Len(endpoints[p]) \in Nat
    BY DEF TypeOK
  <2>2. PICK e \in EndpointRecords :
              /\ Add(p, e)
              /\ \/ ~ HasChannel(e) /\ clients' = clients
                 \/ /\ e.id \notin clients[p]
                    /\ clients' = [clients EXCEPT ![p] = clients[p] \cup {e.id}]
    <3>1. CASE Register(p)
      <4> DEFINE id == next_endpoint_index[p]
                 bad == Endpoint(id, "failed", 0, FALSE)
                 new == Endpoint(id, "calling", 0, ReadyAlready(p, id))
      <4>1. id \in Ids
        BY DEF TypeOK
      <4>2. bad \in EndpointRecords /\ new \in EndpointRecords
        BY <4>1 DEF Endpoint, EndpointRecords, States, ReadyAlready
      <4>3. ~ HasChannel(bad) /\ ~ HasChannel(new)
        BY DEF Endpoint, HasChannel
      <4>4. (Add(p, bad) \/ Add(p, new)) /\ clients' = clients
        BY <3>1, Zenon DEF Register, RegisterEndpoint, routerVars
      <4> HIDE DEF bad, new
      <4> QED BY <4>2, <4>3, <4>4, Zenon
    <3>2. ASSUME NEW reg \in 1 .. Len(endpoints[Other(p)]), Connect(p, reg)
          PROVE  \E e \in EndpointRecords :
                    /\ Add(p, e)
                    /\ \/ ~ HasChannel(e) /\ clients' = clients
                       \/ /\ e.id \notin clients[p]
                          /\ clients' = [clients EXCEPT ![p] = clients[p] \cup {e.id}]
      <4> DEFINE id == endpoints[Other(p)][reg].id
                 bad == Endpoint(id, "failed", reg, FALSE)
                 good == Endpoint(id, "idle", reg, ReadyAlready(p, id))
      <4>1. Other(p) \in Peers
        BY DEF Other, Peers
      <4>2. endpoints[Other(p)][reg] \in EndpointRecords /\ Len(endpoints[Other(p)]) <= MaxEndpoints
        BY <4>1, RecordTypes, Zenon
      <4>3. id \in Ids /\ reg \in 0 .. MaxEndpoints
        <5>1. Len(endpoints[Other(p)]) \in Nat
          BY <4>1, RecordTypes, Zenon
        <5> QED BY <4>2, <5>1 DEF EndpointRecords
      <4>4. bad \in EndpointRecords /\ ~ HasChannel(bad)
        BY <4>3 DEF Endpoint, EndpointRecords, States, HasChannel
      <4>5. good \in EndpointRecords /\ good.id = id
        BY <4>3 DEF Endpoint, EndpointRecords, States, ReadyAlready
      <4>6. \/ Add(p, bad) /\ clients' = clients
            \/ /\ Add(p, good) /\ id \notin clients[p]
               /\ clients' = [clients EXCEPT ![p] = clients[p] \cup {id}]
        BY <3>2, Zenon DEF Connect
      <4> HIDE DEF id, bad, good
      <4> QED BY <4>4, <4>5, <4>6
    <3> QED BY <3>1, <3>2
  <2>3. /\ Len(endpoints'[p]) = n
        /\ endpoints'[p][n] = e
        /\ \A k \in 1 .. Len(endpoints[p]) : endpoints'[p][k] = endpoints[p][k]
        /\ \A q \in Peers \ {p} : endpoints'[q] = endpoints[q]
    BY <2>2, AddedEndpoint
  <2>4. \A q \in Peers : clients[q] \subseteq clients'[q]
    BY <2>1, <2>2
  <2>5. ASSUME NEW q \in Peers, NEW k \in 1 .. Len(endpoints'[q]), HasChannel(endpoints'[q][k])
        PROVE  KeepsChannel(q, k) \/ (q = p /\ k = n /\ GetsChannel(q, k))
    <3>1. CASE q = p /\ k = n
      BY <2>1, <2>2, <2>3, <2>5, <3>1 DEF GetsChannel
    <3>2. CASE ~ (q = p /\ k = n)
      <4>1. k \in 1 .. Len(endpoints[q]) /\ endpoints'[q][k] = endpoints[q][k]
        BY <2>1, <2>3, <3>2
      <4> QED BY <2>4, <2>5, <4>1 DEF KeepsChannel, ChannelsRegistered
    <3> QED BY <3>1, <3>2
  <2>6. OneGetsChannel(p, n)
    BY <2>5, Zenon DEF OneGetsChannel
  <2> QED BY <2>6, <1>Channels, Zenon

<1>ChangedChannel.
    ASSUME TypeOK, ChannelsRegistered, NEW p \in Peers, NEW k \in 1 .. Len(endpoints[p]),
           NEW e \in EndpointRecords, e.id = endpoints[p][k].id,
           endpoints' = [endpoints EXCEPT ![p] = [endpoints[p] EXCEPT ![k] = e]],
           \/ clients' = clients /\ (HasChannel(e) => HasChannel(endpoints[p][k]))
           \/ /\ clients' = [clients EXCEPT ![p] = clients[p] \cup {e.id}]
              /\ e.id \notin clients[p]
           \/ /\ clients' = [clients EXCEPT ![p] = clients[p] \ {e.id}]
              /\ HasChannel(endpoints[p][k]) /\ ~ HasChannel(e)
    PROVE  ChannelsRegistered'
  <2> USE <1>ChangedChannel
  <2>1. clients \in [Peers -> SUBSET Ids]
    BY DEF TypeOK
  <2>2. /\ Len(endpoints'[p]) = Len(endpoints[p])
        /\ endpoints'[p][k] = e
        /\ \A j \in 1 .. Len(endpoints[p]) : j # k => endpoints'[p][j] = endpoints[p][j]
        /\ \A q \in Peers \ {p} : endpoints'[q] = endpoints[q]
    <3>1. endpoints \in [Peers -> Seq(EndpointRecords)]
      BY DEF TypeOK
    <3>2. Len([endpoints[p] EXCEPT ![k] = e]) = Len(endpoints[p])
      BY <3>1, ExceptSeq
    <3> QED BY <3>1, <3>2
  <2>3. ASSUME NEW q \in Peers, NEW j \in 1 .. Len(endpoints'[q]), HasChannel(endpoints'[q][j])
        PROVE  KeepsChannel(q, j) \/ (q = p /\ j = k /\ GetsChannel(q, j))
    <3>1. CASE q = p /\ j = k
      <4>1. j \in 1 .. Len(endpoints[q]) /\ endpoints'[q][j] = e /\ HasChannel(e)
        BY <2>2, <2>3, <3>1
      <4> QED BY <2>1, <3>1, <4>1 DEF GetsChannel, KeepsChannel, ChannelsRegistered
    <3>2. CASE ~ (q = p /\ j = k)
      <4>1. j \in 1 .. Len(endpoints[q]) /\ endpoints'[q][j] = endpoints[q][j]
        BY <2>2, <3>2
      <4>2. HasChannel(endpoints[q][j]) /\ endpoints[q][j].id \in clients[q]
        BY <2>3, <4>1 DEF ChannelsRegistered
      <4>3. q = p /\ HasChannel(endpoints[p][k]) => endpoints[q][j].id # e.id
        BY <3>2, <4>1, <4>2, Zenon DEF ChannelsRegistered
      <4>4. endpoints[q][j].id \in clients'[q]
        BY <2>1, <4>2, <4>3
      <4> QED BY <4>1, <4>2, <4>4 DEF KeepsChannel
    <3> QED BY <3>1, <3>2
  <2>4. OneGetsChannel(p, k)
    BY <2>3, Zenon DEF OneGetsChannel
  <2> QED BY <2>4, <1>Channels, Zenon

<1>EndpointChannels.
    ASSUME TypeOK, ChannelsRegistered, NEW p \in Peers, NEW k \in 1 .. Len(endpoints[p]),
           CallStep(p, k) \/ Ready(p, k) \/ OpenUni(p, k) \/ Drop(p, k)
    PROVE  ChannelsRegistered'
  <2> USE <1>EndpointChannels
  <2> DEFINE o == endpoints[p][k]
             Changed(e) == endpoints' = [endpoints EXCEPT ![p] = [endpoints[p] EXCEPT ![k] = e]]
  <2>1. {"failed", "idle", "registering", "started", "dropped"} \subseteq States
    BY DEF States
  <2>2. ASSUME NEW state \in States, Leave(p, k, state) \/ Become(p, k, state),
               \/ clients' = clients
                  /\ (state \notin {"idle", "waiting", "started"} \/ HasChannel(o))
               \/ clients' = [clients EXCEPT ![p] = clients[p] \cup {o.id}] /\ o.id \notin clients[p]
               \/ /\ clients' = [clients EXCEPT ![p] = clients[p] \ {o.id}]
                  /\ HasChannel(o) /\ state = "dropped"
        PROVE  ChannelsRegistered'
    <3>1. PICK e \in EndpointRecords : Changed(e) /\ e.id = o.id /\ e.state = state
      BY <2>2, LeftEndpoint
    <3>2. HasChannel(e) <=> state \in {"idle", "waiting", "started"}
      BY <3>1 DEF HasChannel
    <3>3. state = "dropped" => ~ HasChannel(e)
      BY <3>2
    <3> QED BY <2>2, <3>1, <3>2, <3>3, <1>ChangedChannel, Zenon
  <2>3. CASE Registered(p, k)
    BY <2>1, <2>2, <2>3 DEF Registered
  <2>4. CASE SendRegisterEndpoint(p, k)
    BY <2>1, <2>2, <2>4 DEF SendRegisterEndpoint, routerVars
  <2>5. CASE Start(p, k)
    BY <2>1, <2>2, <2>5, Zenon DEF Start, routerVars, HasChannel
  <2>6. CASE ReadyFails(p, k)
    BY <2>1, <2>2, <2>6 DEF ReadyFails, Unregister, HasChannel
  <2>7. CASE Drop(p, k)
    BY <2>1, <2>2, <2>7, Zenon DEF Drop, Unregister
  <2>8. CASE Ready(p, k)
    <3> DEFINE e == [o EXCEPT !.state = "waiting", !.readied = TRUE]
    <3>1. o \in EndpointRecords
      BY DEF TypeOK
    <3>2. e \in EndpointRecords /\ e.id = o.id
      BY <3>1, Zenon DEF EndpointRecords, States
    <3>3. Changed(e) /\ clients' = clients /\ HasChannel(o)
      BY <2>8 DEF Ready, routerVars, HasChannel
    <3> HIDE DEF e
    <3> QED BY <3>2, <3>3, <1>ChangedChannel, Zenon
  <2>9. CASE OpenUni(p, k)
    BY <2>9 DEF OpenUni, ChannelsRegistered, HasChannel
  <2> QED BY <2>3, <2>4, <2>5, <2>6, <2>7, <2>8, <2>9 DEF CallStep

<1>OneshotChannels.
    ASSUME TypeOK, ChannelsRegistered, NEW p \in Peers, NEW k \in Int, NEW b \in BOOLEAN,
           \/ endpoints' = [endpoints EXCEPT ![p][k].acked = b]
           \/ endpoints' = [endpoints EXCEPT ![p][k].notified = b],
           clients' = clients
    PROVE  ChannelsRegistered'
  <2> USE <1>OneshotChannels
  <2> DEFINE o == endpoints[p][k]
             a == [o EXCEPT !.acked = b]
             n == [o EXCEPT !.notified = b]
  <2>1. endpoints \in [Peers -> Seq(EndpointRecords)]
    BY DEF TypeOK
  <2>2. \E e \in {a, n} : endpoints' = [endpoints EXCEPT ![p] = [endpoints[p] EXCEPT ![k] = e]]
    BY <2>1
  <2>3. CASE k \in 1 .. Len(endpoints[p])
    <3>1. o \in EndpointRecords
      BY <2>1, <2>3
    <3>2. \A e \in {a, n} : /\ e \in EndpointRecords /\ e.id = o.id
                            /\ HasChannel(e) => HasChannel(o)
      BY <3>1 DEF EndpointRecords, HasChannel
    <3> HIDE DEF a, n
    <3> QED BY <2>2, <2>3, <3>2, <1>ChangedChannel, Zenon
  <2>4. CASE k \notin 1 .. Len(endpoints[p])
    <3> HIDE DEF a, n
    <3>1. endpoints[p] \in Seq(EndpointRecords)
      BY <2>1
    <3>2. \A e : [endpoints[p] EXCEPT ![k] = e] = endpoints[p]
      BY <2>4, <3>1, NoSuchIndex
    <3>3. endpoints' = [endpoints EXCEPT ![p] = endpoints[p]]
      BY <2>2, <3>2, Zenon
    <3>4. endpoints' = endpoints
      BY <2>1, <3>3
    <3> QED BY <3>4 DEF ChannelsRegistered, HasChannel
  <2> QED BY <2>3, <2>4

<1> SUFFICES ASSUME TypeOK, HandshakeTypes, ChannelsRegistered, [Next]_vars
             PROVE  ChannelsRegistered'
  OBVIOUS
<1>1. ASSUME UNCHANGED <<endpoints, clients>>
      PROVE  ChannelsRegistered'
  BY <1>1 DEF ChannelsRegistered, HasChannel
<1>2. CASE HandshakeStep \/ UNCHANGED vars
  BY <1>1, <1>2 DEF HandshakeStep, vars, endpointVars, routerVars
<1>3. ASSUME NEW p \in Peers, DropConnection(p) \/ Transmit(p) \/ AcceptUni(p)
      PROVE  ChannelsRegistered'
  BY <1>1, <1>3 DEF DropConnection, Transmit, AcceptUni, routerVars
<1>4. ASSUME NEW p \in Peers, HandleMsg(p)
      PROVE  ChannelsRegistered'
  <2> DEFINE id == Head(wire[Other(p)]).id
             k == pending_register_ack[p][id]
             b == ~ Dead(endpoints[p][k])
             j == pending_ready[p][id]
             V == -1 .. MaxEndpoints
  <2>1. CASE HandleRegisterEndpoint(p) \/ Reply(p)
    BY <1>1, <2>1 DEF HandleRegisterEndpoint, Reply, routerVars
  <2>2. CASE HandleEndpointRegistered(p)
    <3>1. id \in Ids
      BY <2>2, ReceivedMsg, Zenon DEF HandleEndpointRegistered
    <3>2. k \in Int /\ b \in BOOLEAN
      BY <3>1 DEF TypeOK, Dead
    <3>3. /\ endpoints' = endpoints \/ endpoints' = [endpoints EXCEPT ![p][k].acked = b]
          /\ clients' = clients
      BY <2>2, Zenon DEF HandleEndpointRegistered, routerVars
    <3> HIDE DEF k, b
    <3> QED BY <1>1, <3>2, <3>3, <1>OneshotChannels
  <2>3. CASE HandleReady(p)
    <3>1. id \in Ids
      BY <2>3, ReceivedMsg, Zenon DEF HandleReady
    <3>2. j \in V
      <4>1. pending_ready \in [Peers -> [Ids -> V]]
        BY DEF TypeOK
      <4> HIDE DEF V
      <4> QED BY <3>1, <4>1, Zenon
    <3>3. j \in Int
      <4>1. \A x \in V : x \in Int
        OBVIOUS
      <4> HIDE DEF V, j
      <4> QED BY <3>2, <4>1
    <3>4. /\ endpoints' = endpoints \/ endpoints' = [endpoints EXCEPT ![p][j].notified = TRUE]
          /\ clients' = clients
      BY <2>3, Zenon DEF HandleReady, routerVars
    <3> HIDE DEF j
    <3> QED BY <1>1, <3>3, <3>4, <1>OneshotChannels, Zenon
  <2> QED BY <1>4, <2>1, <2>2, <2>3 DEF HandleMsg
<1> QED BY <1>2, <1>3, <1>4, <1>AddedChannel, <1>EndpointChannels DEF Next
-----------------------------------------------------------------------------
(***************************************************************************)
(* The control stream.                                                     *)
(***************************************************************************)
Msgs == HandshakeMsgs \cup ControlMsgs

LEMMA NothingSent == <<>> \in Seq(Msgs) /\ Control(<<>>) /\ \A kind : Behind(kind, <<>>)
BY DEF Control, Behind

StreamInv == HandshakeTypes /\ InStep /\ Framed /\ Greeted /\ ClientAfterServer

LEMMA Stream ==
    TypeOK /\ TasksRun /\ StreamInv /\ [Next]_vars => StreamInv'
<1>ReadFirst.
    ASSUME NEW s \in Seq(Msgs), s # <<>>, NEW kind, Control(s) \/ Behind(kind, s)
    PROVE  Tail(s) \in Seq(Msgs) /\ Control(Tail(s))
  <2> USE <1>ReadFirst
  <2>1. /\ Tail(s) \in Seq(Msgs) /\ Len(Tail(s)) = Len(s) - 1
        /\ \A i \in 1 .. Len(Tail(s)) : Tail(s)[i] = s[i + 1]
    OBVIOUS
  <2>2. \A i \in 1 .. Len(Tail(s)) : i + 1 \in 2 .. Len(s) /\ i + 1 \in 1 .. Len(s)
    BY <2>1
  <2>3. \A i \in 2 .. Len(s) : s[i] \in ControlMsgs
    BY DEF Control, Behind
  <2> QED BY <2>1, <2>2, <2>3 DEF Control

<1>WrittenLast.
    ASSUME NEW s \in Seq(Msgs), NEW m \in ControlMsgs, NEW kind
    PROVE  /\ Append(s, m) \in Seq(Msgs) /\ Append(s, m) # <<>>
           /\ Control(s) => Control(Append(s, m))
           /\ s # <<>> /\ Behind(kind, s) => Behind(kind, Append(s, m))
  <2> USE <1>WrittenLast
  <2> DEFINE t == Append(s, m)
  <2>1. /\ t \in Seq(Msgs) /\ Len(t) = Len(s) + 1 /\ t[Len(s) + 1] = m /\ t # <<>>
        /\ \A i \in 1 .. Len(s) : t[i] = s[i]
    BY DEF Msgs
  <2> HIDE DEF t
  <2>2. ASSUME Control(s) PROVE Control(t)
    BY <2>1, <2>2 DEF Control
  <2>3. ASSUME s # <<>>, Behind(kind, s) PROVE Behind(kind, t)
    <3>1. t[1] = s[1]
      BY <2>1, <2>3
    <3> QED BY <2>1, <2>3, <3>1 DEF Behind
  <2> QED BY <2>1, <2>2, <2>3 DEF t

<1>WrittenFirst.
    ASSUME NEW m \in HandshakeMsgs
    PROVE  /\ Append(<<>>, m) \in Seq(Msgs) /\ Append(<<>>, m) # <<>>
           /\ Behind(m.kind, Append(<<>>, m))
  <2> USE <1>WrittenFirst
  <2>1. Append(<<>>, m) = <<m>> /\ Len(<<m>>) = 1 /\ <<m>>[1] = m /\ <<m>> \in Seq(Msgs)
    BY DEF Msgs
  <2> QED BY <2>1 DEF Behind

\* Once the connection is closed nothing is left to be read.
<1>StreamClosed.
    ASSUME conn' = "closed", peer' \in [Peers -> PeerStates], ClientAfterServer',
           wire' = [p \in Peers |-> <<>>]
    PROVE  StreamInv'
  <2> USE <1>StreamClosed
  <2>1. \A p \in Peers : wire'[p] = <<>>
    OBVIOUS
  <2>2. wire' \in [Peers -> Seq(Msgs)]
    BY NothingSent
  <2> QED BY <2>1, <2>2, NothingSent
          DEF StreamInv, HandshakeTypes, InStep, Framed, Greeted, Msgs, Peers

<1>HandshakeStream.
    ASSUME StreamInv, HandshakeNext
    PROVE  StreamInv'
  <2> USE <1>HandshakeStream
  <2> USE DEF Peers
  <2>1. /\ conn \in {"open", "closed"}
        /\ peer \in [Peers -> PeerStates]
        /\ wire \in [Peers -> Seq(Msgs)]
    BY DEF StreamInv, HandshakeTypes, Msgs
  <2>2. \A p \in Peers : wire[p] # <<>> => conn = "open"
    BY <2>1 DEF StreamInv, Framed
  <2>3. CASE ConnectPlain
    <3> DEFINE m == [kind |-> "Dummy"]
    <3>1. m \in HandshakeMsgs /\ m.kind = "Dummy"
      BY DEF HandshakeMsgs
    <3>2. wire["client"] = <<>> /\ peer["server"] = "accept" /\ wire["server"] = <<>> /\ conn = "open"
      BY <2>3 DEF ConnectPlain, StreamInv, InStep, Framed
    <3>3. /\ wire' = [wire EXCEPT !["client"] = Append(<<>>, m)]
          /\ peer' = [peer EXCEPT !["client"] = "running"]
          /\ conn' = conn
      BY <2>3, <3>2 DEF ConnectPlain, Write, Enter
    <3> HIDE DEF m
    <3>4. /\ wire' \in [Peers -> Seq(Msgs)]
          /\ wire'["client"] # <<>> /\ Behind("Dummy", wire'["client"])
          /\ wire'["server"] = <<>>
      BY <2>1, <3>1, <3>2, <3>3, <1>WrittenFirst
    <3>5. /\ peer' \in [Peers -> PeerStates]
          /\ peer'["client"] = "running" /\ peer'["server"] = "accept" /\ conn' = "open"
      BY <2>1, <3>2, <3>3 DEF PeerStates
    <3> QED BY <3>4, <3>5, NothingSent
            DEF StreamInv, HandshakeTypes, InStep, Framed, Greeted, ClientAfterServer, Msgs
  <2>4. ASSUME NEW token \in Tokens, ConnectWithAuth(token)
        PROVE  StreamInv'
    <3> DEFINE m == [kind |-> "Auth", len |-> Serialized(token)]
    <3>1. m \in HandshakeMsgs /\ m.kind = "Auth"
      <4>1. Serialized(token) \in Nat
        BY DEF Serialized
      <4> QED BY <4>1 DEF HandshakeMsgs
    <3>2. /\ wire["client"] = <<>> /\ peer["server"] = "accept_with_auth"
          /\ wire["server"] = <<>> /\ conn = "open"
      BY <2>4 DEF ConnectWithAuth, StreamInv, InStep, Framed
    <3>3. /\ wire' = [wire EXCEPT !["client"] = Append(<<>>, m)]
          /\ peer' = [peer EXCEPT !["client"] = "confirming"]
          /\ conn' = conn
      BY <2>4, <3>2 DEF ConnectWithAuth, Write, Enter
    <3> HIDE DEF m
    <3>4. /\ wire' \in [Peers -> Seq(Msgs)]
          /\ wire'["client"] # <<>> /\ Behind("Auth", wire'["client"])
          /\ wire'["server"] = <<>>
      BY <2>1, <3>1, <3>2, <3>3, <1>WrittenFirst
    <3>5. /\ peer' \in [Peers -> PeerStates] /\ conn' = "open"
          /\ peer'["client"] = "confirming" /\ peer'["server"] = "accept_with_auth"
      BY <2>1, <3>2, <3>3 DEF PeerStates
    <3> QED BY <3>4, <3>5, NothingSent
            DEF StreamInv, HandshakeTypes, InStep, Framed, Greeted, ClientAfterServer, Msgs
  <2>5. CASE Confirmed
    <3>1. /\ peer["client"] = "confirming" /\ wire["server"] # <<>> /\ conn = "open"
          /\ peer["server"] = "running"
          /\ Behind("Confirm", wire["server"]) /\ Control(wire["client"])
      BY <2>2, <2>5 DEF Confirmed, StreamInv, Framed
    <3>2. /\ wire' = [wire EXCEPT !["server"] = Tail(wire["server"])]
          /\ peer' = [peer EXCEPT !["client"] = "running"]
          /\ conn' = conn
      BY <2>5 DEF Confirmed, Read, Enter, Other
    <3>3. Tail(wire["server"]) \in Seq(Msgs) /\ Control(Tail(wire["server"]))
      BY <2>1, <3>1, <1>ReadFirst
    <3>4. /\ wire' \in [Peers -> Seq(Msgs)]
          /\ Control(wire'["server"]) /\ wire'["client"] = wire["client"]
      BY <2>1, <3>2, <3>3
    <3>5. /\ peer' \in [Peers -> PeerStates] /\ conn' = "open"
          /\ peer'["client"] = "running" /\ peer'["server"] = "running"
      BY <2>1, <3>1, <3>2 DEF PeerStates
    <3> QED BY <3>1, <3>4, <3>5
            DEF StreamInv, HandshakeTypes, InStep, Framed, Greeted, ClientAfterServer, Msgs
  <2>6. CASE AcceptPlain
    <3>1. /\ peer["server"] = "accept" /\ wire["client"] # <<>> /\ conn = "open"
          /\ peer["client"] = "running"
          /\ Behind("Dummy", wire["client"]) /\ wire["server"] = <<>>
      BY <2>2, <2>6 DEF AcceptPlain, StreamInv, Framed, InStep
    <3>2. /\ wire' = [wire EXCEPT !["client"] = Tail(wire["client"])]
          /\ peer' = [peer EXCEPT !["server"] = "running"]
          /\ conn' = conn
      BY <2>6 DEF AcceptPlain, Read, Enter, Other
    <3>3. Tail(wire["client"]) \in Seq(Msgs) /\ Control(Tail(wire["client"]))
      BY <2>1, <3>1, <1>ReadFirst
    <3>4. /\ wire' \in [Peers -> Seq(Msgs)]
          /\ Control(wire'["client"]) /\ wire'["server"] = <<>>
      BY <2>1, <3>1, <3>2, <3>3
    <3>5. /\ peer' \in [Peers -> PeerStates] /\ conn' = "open"
          /\ peer'["client"] = "running" /\ peer'["server"] = "running"
      BY <2>1, <3>1, <3>2 DEF PeerStates
    <3> QED BY <3>4, <3>5, NothingSent
            DEF StreamInv, HandshakeTypes, InStep, Framed, Greeted, ClientAfterServer, Msgs
  <2>7. CASE AcceptWithAuth /\ ~ Closed
    <3>1. /\ peer["server"] = "accept_with_auth" /\ wire["client"] # <<>> /\ conn = "open"
          /\ peer["client"] = "confirming"
          /\ Behind("Auth", wire["client"]) /\ wire["server"] = <<>>
      BY <2>2, <2>7 DEF AcceptWithAuth, StreamInv, Framed, InStep
    <3>2. /\ wire' = [wire EXCEPT !["client"] = Tail(wire["client"])]
          /\ peer' = [peer EXCEPT !["server"] = "deciding"]
          /\ conn' = conn
      BY <2>7 DEF AcceptWithAuth, Read, Enter, Other
    <3>3. Tail(wire["client"]) \in Seq(Msgs) /\ Control(Tail(wire["client"]))
      BY <2>1, <3>1, <1>ReadFirst
    <3>4. /\ wire' \in [Peers -> Seq(Msgs)]
          /\ Control(wire'["client"]) /\ wire'["server"] = <<>>
      BY <2>1, <3>1, <3>2, <3>3
    <3>5. /\ peer' \in [Peers -> PeerStates] /\ conn' = "open"
          /\ peer'["client"] = "confirming" /\ peer'["server"] = "deciding"
      BY <2>1, <3>1, <3>2 DEF PeerStates
    <3> QED BY <3>4, <3>5, NothingSent
            DEF StreamInv, HandshakeTypes, InStep, Framed, Greeted, ClientAfterServer, Msgs
  <2>8. CASE AcceptAuthentication
    <3> DEFINE m == [kind |-> "Confirm"]
    <3>1. m \in HandshakeMsgs /\ m.kind = "Confirm"
      BY DEF HandshakeMsgs
    <3>2. /\ peer["client"] = "confirming" /\ Control(wire["client"])
          /\ wire["server"] = <<>> /\ conn = "open"
      BY <2>8 DEF AcceptAuthentication, StreamInv, InStep, Framed
    <3>3. /\ wire' = [wire EXCEPT !["server"] = Append(<<>>, m)]
          /\ peer' = [peer EXCEPT !["server"] = "running"]
          /\ conn' = conn
      BY <2>8, <3>2 DEF AcceptAuthentication, Write, Enter
    <3> HIDE DEF m
    <3>4. /\ wire' \in [Peers -> Seq(Msgs)]
          /\ wire'["server"] # <<>> /\ Behind("Confirm", wire'["server"])
          /\ Control(wire'["client"])
      BY <2>1, <3>1, <3>2, <3>3, <1>WrittenFirst
    <3>5. /\ peer' \in [Peers -> PeerStates] /\ conn' = "open"
          /\ peer'["client"] = "confirming" /\ peer'["server"] = "running"
      BY <2>1, <3>2, <3>3 DEF PeerStates
    <3> QED BY <3>4, <3>5, NothingSent
            DEF StreamInv, HandshakeTypes, InStep, Framed, Greeted, ClientAfterServer, Msgs
  <2>9. CASE Closed /\ (AcceptWithAuth \/ RejectAuthentication)
    <3>1. /\ peer["server"] \in {"accept_with_auth", "deciding"}
          /\ peer' = [peer EXCEPT !["server"] = "rejected"]
          /\ conn' = "closed" /\ wire' = [p \in Peers |-> <<>>]
      BY <2>2, <2>9 DEF AcceptWithAuth, RejectAuthentication, Enter, Closed
    <3>2. peer' \in [Peers -> PeerStates] /\ ClientAfterServer'
      BY <2>1, <3>1 DEF PeerStates, StreamInv, ClientAfterServer
    <3> QED BY <3>1, <3>2, <1>StreamClosed
  <2>10. CASE Close
    <3>1. peer' = peer /\ conn' = "closed" /\ wire' = [p \in Peers |-> <<>>]
      BY <2>10 DEF Close, Closed
    <3>2. peer' \in [Peers -> PeerStates] /\ ClientAfterServer'
      BY <2>1, <3>1 DEF StreamInv, ClientAfterServer
    <3> QED BY <3>1, <3>2, <1>StreamClosed
  <2>11. ASSUME NEW p \in Peers, HandshakeFails(p)
         PROVE  StreamInv'
    <3>1. /\ conn = "closed" /\ conn' = conn /\ wire' = wire
          /\ peer' = [peer EXCEPT ![p] = "failed"]
      BY <2>11 DEF HandshakeFails, Enter
    <3>2. wire = [q \in Peers |-> <<>>]
      BY <2>1, <3>1 DEF StreamInv, Framed
    <3>3. peer' \in [Peers -> PeerStates] /\ ClientAfterServer'
      BY <2>1, <3>1 DEF PeerStates, StreamInv, ClientAfterServer
    <3> QED BY <3>1, <3>2, <3>3, <1>StreamClosed
  <2>12. RejectAuthentication => Closed
    BY DEF RejectAuthentication
  <2> QED BY <2>3, <2>4, <2>5, <2>6, <2>7, <2>8, <2>9, <2>10, <2>11, <2>12, Zenon DEF HandshakeNext

\* Only a peer that is done with the handshake has messages to send.
<1>TransmitStream.
    ASSUME TypeOK, TasksRun, StreamInv, NEW p \in Peers, Transmit(p)
    PROVE  StreamInv'
  <2> USE <1>TransmitStream
  <2> USE DEF Peers
  <2>1. conn \in {"open", "closed"} /\ peer \in [Peers -> PeerStates] /\ wire \in [Peers -> Seq(Msgs)]
    BY DEF StreamInv, HandshakeTypes, Msgs
  <2>2. UNCHANGED <<conn, peer>>
    BY DEF Transmit
  <2>3. CASE wire' = wire
    BY <2>2, <2>3 DEF StreamInv, HandshakeTypes, InStep, Framed, Greeted, ClientAfterServer
  <2>4. CASE wire' # wire
    <3> DEFINE m == Head(queue[p])
               t == Append(wire[p], m)
    <3>1. queue[p] # <<>> /\ queue[p] \in Seq(ControlMsgs)
      BY DEF Transmit, TypeOK
    <3>2. m \in ControlMsgs
      BY <3>1
    <3>3. peer[p] = "running" /\ conn = "open" /\ wire' = [wire EXCEPT ![p] = t]
      BY <2>4, <3>1 DEF Transmit, TasksRun, RunsAt, Write
    <3> HIDE DEF m
    <3>4. wire[p] \in Seq(Msgs)
      BY <2>1
    <3>5. /\ t \in Seq(Msgs) /\ t # <<>> /\ (Control(wire[p]) => Control(t))
          /\ \A kind : wire[p] # <<>> /\ Behind(kind, wire[p]) => Behind(kind, t)
      BY <3>2, <3>4, <1>WrittenLast
    <3> HIDE DEF t
    <3>6. CASE p = "client"
      <4>1. /\ wire' \in [Peers -> Seq(Msgs)] /\ wire'["client"] = t
            /\ wire'["server"] = wire["server"]
        BY <2>1, <3>3, <3>5, <3>6
      <4>2. /\ peer["server"] \notin {"accept_with_auth", "deciding"}
            /\ peer["server"] = "accept" => wire["client"] # <<>>
        BY <3>3, <3>6 DEF StreamInv, ClientAfterServer, Greeted
      <4>3. /\ peer["server"] = "accept" => Behind("Dummy", t)
            /\ peer["server"] # "accept" => Control(t)
        BY <3>5, <3>6, <4>2 DEF StreamInv, Framed
      <4> QED BY <2>2, <3>3, <3>5, <3>6, <4>1, <4>2, <4>3
              DEF StreamInv, HandshakeTypes, InStep, Framed, Greeted, ClientAfterServer, Msgs
    <3>7. CASE p = "server"
      <4>1. /\ wire' \in [Peers -> Seq(Msgs)] /\ wire'["server"] = t
            /\ wire'["client"] = wire["client"]
        BY <2>1, <3>3, <3>5, <3>7
      <4>2. peer["client"] = "confirming" => wire["server"] # <<>>
        BY <3>3, <3>7 DEF StreamInv, Greeted
      <4>3. /\ peer["client"] = "confirming" => Behind("Confirm", t)
            /\ peer["client"] # "confirming" => Control(t)
        BY <3>5, <3>7, <4>2 DEF StreamInv, Framed
      <4> QED BY <2>2, <3>3, <3>5, <3>7, <4>1, <4>2, <4>3
              DEF StreamInv, HandshakeTypes, InStep, Framed, Greeted, ClientAfterServer, Msgs
    <3> QED BY <3>6, <3>7
  <2> QED BY <2>3, <2>4

<1>ReceiveStream.
    ASSUME StreamInv, NEW p \in Peers, NEW kind, Receive(p, kind)
    PROVE  StreamInv'
  <2> USE <1>ReceiveStream
  <2> USE DEF Peers
  <2> DEFINE q == Other(p)
             t == Tail(wire[q])
  <2>1. conn \in {"open", "closed"} /\ peer \in [Peers -> PeerStates] /\ wire \in [Peers -> Seq(Msgs)]
    BY DEF StreamInv, HandshakeTypes, Msgs
  <2>2. /\ UNCHANGED <<conn, peer>>
        /\ peer[p] = "running" /\ wire[q] # <<>>
        /\ wire' = [wire EXCEPT ![q] = t]
    BY DEF Receive, Read
  <2>3. q \in Peers /\ wire[q] \in Seq(Msgs)
    BY <2>1 DEF Other
  <2>4. Control(wire[q])
    BY <2>2 DEF StreamInv, Framed, Other
  <2>5. t \in Seq(Msgs) /\ Control(t)
    BY <2>2, <2>3, <2>4, <1>ReadFirst, Zenon
  <2> HIDE DEF t
  <2>6. CASE p = "server"
    <3>1. q = "client" /\ wire'["client"] = t /\ wire'["server"] = wire["server"]
          /\ wire' \in [Peers -> Seq(Msgs)]
      BY <2>1, <2>2, <2>3, <2>5, <2>6 DEF Other
    <3>2. conn = "open"
      BY <2>1, <2>2, <3>1 DEF StreamInv, Framed
    <3>3. peer["client"] \notin {"connect", "connect_with_auth"}
      BY <2>2, <3>1 DEF StreamInv, Framed
    <3> QED BY <2>2, <2>5, <2>6, <3>1, <3>2, <3>3
            DEF StreamInv, HandshakeTypes, InStep, Framed, Greeted, ClientAfterServer, Msgs
  <2>7. CASE p = "client"
    <3>1. q = "server" /\ wire'["server"] = t /\ wire'["client"] = wire["client"]
          /\ wire' \in [Peers -> Seq(Msgs)]
      BY <2>1, <2>2, <2>3, <2>5, <2>7 DEF Other
    <3>2. conn = "open" /\ peer["server"] = "running"
      BY <2>1, <2>2, <3>1 DEF StreamInv, Framed
    <3> QED BY <2>2, <2>5, <2>7, <3>1, <3>2
            DEF StreamInv, HandshakeTypes, InStep, Framed, Greeted, ClientAfterServer, Msgs
  <2> QED BY <2>6, <2>7

<1> SUFFICES ASSUME TypeOK, TasksRun, StreamInv, [Next]_vars PROVE StreamInv'
  OBVIOUS
<1>1. ASSUME UNCHANGED handshakeVars
      PROVE  StreamInv'
  BY <1>1 DEF handshakeVars, StreamInv, HandshakeTypes, InStep, Framed, Greeted, ClientAfterServer
<1>2. CASE HandshakeStep
  BY <1>2, <1>HandshakeStream DEF HandshakeStep
<1>3. ASSUME NEW p \in Peers, DropConnection(p)
      PROVE  StreamInv'
  <2>1. /\ peer[p] = "running" /\ peer' = [peer EXCEPT ![p] = "dropped"]
        /\ conn' = "closed" /\ wire' = [q \in Peers |-> <<>>]
    BY <1>3 DEF DropConnection, Closed, Enter
  <2>2. peer' \in [Peers -> PeerStates] /\ ClientAfterServer'
    BY <2>1 DEF StreamInv, HandshakeTypes, ClientAfterServer, PeerStates, Peers
  <2> QED BY <2>1, <2>2, <1>StreamClosed
<1>4. ASSUME NEW p \in Peers, HandleMsg(p)
      PROVE  StreamInv'
  BY <1>1, <1>4, <1>ReceiveStream, Zenon
     DEF HandleMsg, HandleRegisterEndpoint, Reply, HandleEndpointRegistered, HandleReady
<1>5. ASSUME NEW p \in Peers,
             \/ Register(p)
             \/ \E reg \in 1 .. Len(endpoints[Other(p)]) : Connect(p, reg)
             \/ \E k \in 1 .. Len(endpoints[p]) :
                   CallStep(p, k) \/ Ready(p, k) \/ OpenUni(p, k) \/ Drop(p, k)
             \/ AcceptUni(p)
      PROVE  StreamInv'
  <2>1. UNCHANGED handshakeVars
    BY <1>5, Zenon DEF Register, Connect, CallStep, Registered, SendRegisterEndpoint,
                         Start, ReadyFails, Ready, OpenUni, Drop, AcceptUni
  <2> QED BY <1>1, <2>1
<1>6. CASE UNCHANGED vars
  BY <1>1, <1>6 DEF vars
<1> QED BY <1>2, <1>3, <1>4, <1>5, <1>6, <1>TransmitStream DEF Next
-----------------------------------------------------------------------------
(***************************************************************************)
(* The tasks of Control.                                                   *)
(***************************************************************************)

LEMMA Tasks ==
    TypeOK /\ HandshakeTypes /\ TasksRun /\ [Next]_vars => TasksRun'
\* A step of one peer that is done with the handshake.
<1>TasksOf.
    ASSUME TasksRun, NEW p \in Peers, conn' = conn, peer' = peer,
           peer[p] \in {"running", "dropped"},
           peer[p] = "dropped" => UNCHANGED <<sender, queue, replying>>,
           \A q \in Peers \ {p} : /\ endpoints'[q] = endpoints[q] /\ queue'[q] = queue[q]
                                  /\ replying'[q] = replying[q] /\ sender'[q] = sender[q]
    PROVE  TasksRun'
  <2> USE <1>TasksOf
  <2> SUFFICES ASSUME NEW q \in Peers PROVE RunsAt(q)'
    BY DEF TasksRun
  <2>1. RunsAt(q)
    BY DEF TasksRun
  <2>2. CASE q = p
    BY <2>1, <2>2 DEF RunsAt
  <2>3. CASE q # p
    BY <2>1, <2>3 DEF RunsAt
  <2> QED BY <2>2, <2>3

<1> SUFFICES ASSUME TypeOK, HandshakeTypes, TasksRun, [Next]_vars PROVE TasksRun'
  OBVIOUS
<1>1. /\ endpoints \in [Peers -> Seq(EndpointRecords)] /\ queue \in [Peers -> Seq(ControlMsgs)]
      /\ replying \in [Peers -> Ids \cup {NoReply}] /\ sender \in [Peers -> {"running", "ended"}]
      /\ peer \in [Peers -> PeerStates] /\ conn \in {"open", "closed"}
  BY DEF TypeOK, HandshakeTypes
<1>2. CASE UNCHANGED vars
  BY <1>2 DEF vars, handshakeVars, endpointVars, queueVars, TasksRun, RunsAt
<1>3. CASE HandshakeStep
  <2>1. UNCHANGED <<endpoints, queue, replying, sender>>
    BY <1>3 DEF HandshakeStep, queueVars
  <2>2. \A p \in Peers : /\ peer'[p] = peer[p] \/ peer[p] \notin {"running", "dropped"}
                         /\ peer'[p] = "dropped" => peer[p] = "dropped"
    BY <1>1, <1>3, Zenon DEF HandshakeStep, HandshakeNext, ConnectPlain, ConnectWithAuth, Confirmed,
                      AcceptPlain, AcceptWithAuth, AcceptAuthentication, RejectAuthentication,
                      Close, HandshakeFails, Enter, Peers
  <2>3. conn = "closed" => conn' = "closed"
    BY <1>3 DEF HandshakeStep, HandshakeNext, ConnectPlain, ConnectWithAuth, Confirmed,
                AcceptPlain, AcceptWithAuth, AcceptAuthentication, RejectAuthentication,
                Close, HandshakeFails, Closed
  <2> QED BY <2>1, <2>2, <2>3 DEF TasksRun, RunsAt
<1>4. ASSUME NEW p \in Peers, DropConnection(p)
      PROVE  TasksRun'
  <2>1. /\ conn' = "closed" /\ peer' = [peer EXCEPT ![p] = "dropped"] /\ endpoints' = endpoints
        /\ queue' = [queue EXCEPT ![p] = <<>>]
        /\ sender' = [sender EXCEPT ![p] = "ended"]
        /\ replying' = [replying EXCEPT ![p] = NoReply]
    BY <1>4 DEF DropConnection, Closed, Enter
  <2> SUFFICES ASSUME NEW q \in Peers PROVE RunsAt(q)'
    BY DEF TasksRun
  <2>2. RunsAt(q)
    BY DEF TasksRun
  <2>3. CASE q = p
    BY <1>1, <2>1, <2>3 DEF RunsAt
  <2>4. CASE q # p
    BY <1>1, <2>1, <2>2, <2>4 DEF RunsAt
  <2> QED BY <2>3, <2>4
<1>5. ASSUME NEW p \in Peers, Register(p)
      PROVE  TasksRun'
  <2>1. \E e : Add(p, e)
    BY <1>5, Zenon DEF Register, RegisterEndpoint
  <2>2. \A q \in Peers \ {p} : endpoints'[q] = endpoints[q]
    BY <1>1, <2>1 DEF Add
  <2> QED BY <1>5, <2>2, <1>TasksOf DEF Register, handshakeVars, queueVars
<1>6. ASSUME NEW p \in Peers, NEW reg, Connect(p, reg)
      PROVE  TasksRun'
  <2>1. \E e : Add(p, e)
    BY <1>6, Zenon DEF Connect
  <2>2. \A q \in Peers \ {p} : endpoints'[q] = endpoints[q]
    BY <1>1, <2>1 DEF Add
  <2> QED BY <1>6, <2>2, <1>TasksOf, Zenon DEF Connect, handshakeVars, queueVars
<1>7. ASSUME NEW p \in Peers, NEW k \in 1 .. Len(endpoints[p]),
             CallStep(p, k) \/ Ready(p, k) \/ OpenUni(p, k) \/ Drop(p, k)
      PROVE  TasksRun'
  <2>1. peer[p] \in {"running", "dropped"}
    BY <1>1 DEF TasksRun, RunsAt
  <2>2. UNCHANGED <<conn, peer, replying, sender>>
    BY <1>7 DEF CallStep, Registered, SendRegisterEndpoint, Start, ReadyFails, Ready, OpenUni, Drop,
                handshakeVars, queueVars
  <2>3. \A q \in Peers \ {p} : endpoints'[q] = endpoints[q]
    <3>1. \/ endpoints' = endpoints
          \/ \E state : Leave(p, k, state) \/ Become(p, k, state)
          \/ \E e : endpoints' = [endpoints EXCEPT ![p][k] = e]
      BY <1>7 DEF CallStep, Registered, SendRegisterEndpoint, Start, ReadyFails, Unregister, Ready,
                  OpenUni, Drop
    <3> QED BY <1>1, <3>1, Zenon DEF Leave, Become
  <2>4. queue' = queue \/ (sender[p] = "running" /\ \E kind, id : Send(p, kind, id))
    BY <1>7 DEF CallStep, Registered, SendRegisterEndpoint, Start, ReadyFails, Ready, OpenUni, Drop,
                queueVars
  <2>5. \A q \in Peers \ {p} : queue'[q] = queue[q]
    BY <1>1, <2>4, Zenon DEF Send
  <2>6. peer[p] = "dropped" => queue' = queue
    BY <2>4 DEF TasksRun, RunsAt
  <2> QED BY <2>1, <2>2, <2>3, <2>5, <2>6, <1>TasksOf, Zenon
<1>8. ASSUME NEW p \in Peers, Transmit(p)
      PROVE  TasksRun'
  <2>1. peer[p] = "running"
    BY <1>1, <1>8 DEF Transmit, TasksRun, RunsAt
  <2>2. \A q \in Peers \ {p} : queue'[q] = queue[q] /\ sender'[q] = sender[q]
    BY <1>1, <1>8 DEF Transmit
  <2> QED BY <1>8, <2>1, <2>2, <1>TasksOf DEF Transmit
<1>9. ASSUME NEW p \in Peers, HandleMsg(p)
      PROVE  TasksRun'
  <2>1. peer[p] = "running"
    BY <1>1, <1>9, Zenon DEF HandleMsg, HandleRegisterEndpoint, Reply, HandleEndpointRegistered,
                      HandleReady, Receive, TasksRun, RunsAt
  <2>2. conn' = conn /\ peer' = peer /\ sender' = sender
    BY <1>9, Zenon DEF HandleMsg, HandleRegisterEndpoint, Reply, HandleEndpointRegistered,
                HandleReady, Receive, handshakeVars, queueVars
  <2>3. \A q \in Peers \ {p} : endpoints'[q] = endpoints[q]
    BY <1>1, <1>9, Zenon DEF HandleMsg, HandleRegisterEndpoint, Reply, HandleEndpointRegistered,
                      HandleReady
  <2>4. \A q \in Peers \ {p} : queue'[q] = queue[q]
    BY <1>1, <1>9, Zenon DEF HandleMsg, HandleRegisterEndpoint, Reply, HandleEndpointRegistered,
                      HandleReady, Send, queueVars
  <2>5. \A q \in Peers \ {p} : replying'[q] = replying[q]
    BY <1>1, <1>9, Zenon DEF HandleMsg, HandleRegisterEndpoint, Reply, HandleEndpointRegistered,
                      HandleReady, queueVars
  <2> QED BY <2>1, <2>2, <2>3, <2>4, <2>5, <1>TasksOf
<1>10. ASSUME NEW p \in Peers, AcceptUni(p)
       PROVE  TasksRun'
  BY <1>10 DEF AcceptUni, handshakeVars, queueVars, TasksRun, RunsAt
<1> QED BY <1>2, <1>3, <1>4, <1>5, <1>6, <1>7, <1>8, <1>9, <1>10 DEF Next
-----------------------------------------------------------------------------
LEMMA Initially == Init => IInv
<1> SUFFICES ASSUME Init PROVE IInv
  OBVIOUS
<1> USE DEF Peers
<1>1. TypeOK
  BY DEF Init, TypeOK, Ids, Vacant, NoReply
<1>2. /\ conn = "open" /\ wire = [p \in Peers |-> <<>>]
      /\ \/ peer["client"] = "connect" /\ peer["server"] = "accept"
         \/ peer["client"] = "connect_with_auth" /\ peer["server"] = "accept_with_auth"
      /\ peer \in [Peers -> PeerStates]
  BY DEF Init, HandshakeInit, PeerStates
<1>3. HandshakeTypes /\ InStep /\ Framed /\ Greeted /\ ClientAfterServer
  BY <1>2, NothingSent
     DEF HandshakeTypes, InStep, Framed, Greeted, ClientAfterServer, Msgs
<1>4. TasksRun /\ ChannelsRegistered
  BY <1>2 DEF Init, TasksRun, RunsAt, ChannelsRegistered
<1> QED BY <1>1, <1>3, <1>4 DEF IInv

LEMMA Preserved == IInv /\ [Next]_vars => IInv'
BY Types, Tasks, Stream, ChannelsStep DEF IInv, StreamInv

LEMMA Invariant == Spec => []IInv
BY Initially, Preserved, PTL DEF Spec

(***************************************************************************)
(* Whatever the peers do, and with any number of endpoints and messages:   *)
(* the control stream starts with its handshake and with nothing else, so  *)
(* that recv_msgs() never reads a byte or a token of the handshake as a    *)
(* control message, and a client that has its Connection has been accepted.*)
(***************************************************************************)
THEOREM ControlStreamIsFramed == Spec => []HandshakeFirst
<1>1. IInv => HandshakeFirst
  <2> SUFFICES ASSUME IInv, NEW p \in Peers, peer[p] = "running", wire[Other(p)] # <<>>
               PROVE  Head(wire[Other(p)]) \in ControlMsgs
    BY DEF IInv, HandshakeFirst, ClientAfterServer
  <2>1. Other(p) \in Peers /\ wire[Other(p)] \in Seq(Msgs)
    BY DEF IInv, HandshakeTypes, Msgs, Other, Peers
  <2>2. Control(wire[Other(p)])
    BY DEF IInv, Framed, Other, Peers
  <2> QED BY <2>1, <2>2 DEF Control
<1> QED BY <1>1, Invariant, PTL

(***************************************************************************)
(* The assertion of KyChannelDropper never fails, also when the ids wrap   *)
(* around, calls are cancelled and endpoints are dropped in any order: an  *)
(* endpoint that has a channel is the only one with its id, and the router *)
(* still knows that id.                                                    *)
(***************************************************************************)
THEOREM DroppersUnregisterTheirOwn == Spec => []ChannelsRegistered
<1>1. IInv => ChannelsRegistered
  BY DEF IInv
<1> QED BY <1>1, Invariant, PTL
=============================================================================
