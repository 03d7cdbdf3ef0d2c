----------------------------- MODULE KyComProofs ------------------------------
(***************************************************************************)
(* For any number of channels and of clients, any range of ids and any     *)
(* length of the queue: a channel that waits is reachable, a channel and   *)
(* the connection it receives belong together, and no connection is        *)
(* forgotten.                                                              *)
(***************************************************************************)
EXTENDS KyCom, WellFoundedInduction, TLAPS

USE ConstantsAssumption

-----------------------------------------------------------------------------
\* Channels that are not registered yet.
Unregistered ==
    \A c \in Channels : c > registered => rx[c] = Waiting /\ owner[c] = "none"

\* What the map holds has not received anything, and has the id it is under.
MapInv ==
    /\ ~ open => DOMAIN map = {} /\ queue = <<>>
    /\ \A i \in DOMAIN map : /\ map[i] \in 1 .. registered
                             /\ id[map[i]] = i
                             /\ rx[map[i]] = Waiting

\* The address that a client has is the one of a registered channel.
TargetsKnown ==
    \A k \in Clients : IF client[k] = "none"
                       THEN stream[k] = "none"
                       ELSE target[k] \in 1 .. registered

\* The connections in the queue, and those that a channel has received.
Held(k) == stream[k] \in {"delivered", "answered"}

Queued == \A k \in Clients : stream[k] = "queued" <=> \E i \in 1 .. Len(queue) : queue[i] = k
Delivered == \A k \in Clients : Held(k) <=> \E c \in Channels : rx[c] = k

QueuedOnce == \A i, j \in 1 .. Len(queue) : queue[i] = queue[j] => i = j

ReceivedOnce ==
    \A c, d \in Channels : rx[c] \in Clients /\ rx[d] = rx[c] => d = c

SameId == \A c \in Channels : rx[c] \in Clients => id[target[rx[c]]] = id[c]

\* The channels that wait, and the connections.
Waiters == Unregistered /\ MapInv /\ WaitingIsReachable
Connections == Queued /\ Delivered /\ QueuedOnce /\ ReceivedOnce /\ TargetsKnown /\ SameId

IInv == TypeOK /\ Waiters /\ Connections
-----------------------------------------------------------------------------
(***************************************************************************)
(* The search of register_channel() for an id ends with a vacant one.      *)
(***************************************************************************)
LEMMA Least ==
    ASSUME NEW T \in SUBSET Nat, T # {}
    PROVE  \E x \in T : \A y \in T : x <= y
<1>1. PICK x \in T : \A y \in T : ~ (<<y, x>> \in OpToRel(<, Nat))
  BY NatLessThanWellFounded, WFMin, Zenon
<1>2. \A y \in T : ~ (y < x)
  BY <1>1, Zenon DEF OpToRel
<1> QED BY <1>2

LEMMA Around ==
    ASSUME NEW n \in Nat, NEW v \in 0 .. n - 1
    PROVE  v % n = v /\ (v + n) % n = v
OBVIOUS

LEMMA FirstVacantIsVacant ==
    ASSUME TypeOK, Free
    PROVE  FirstVacant \in (0 .. IdRange - 1) \ DOMAIN map
<1> DEFINE vacant == {k \in 0 .. IdRange - 1 : (next_id + k) % IdRange \notin DOMAIN map}
           first == CHOOSE k \in vacant : \A j \in vacant : k <= j
<1>1. PICK v \in 0 .. IdRange - 1 : v \notin DOMAIN map
  BY Zenon DEF TypeOK, Free
<1>2. next_id \in 0 .. IdRange - 1
  BY DEF TypeOK
<1>3. vacant # {}
  <2> DEFINE k == IF v >= next_id THEN v - next_id ELSE v + IdRange - next_id
  <2>1. k \in 0 .. IdRange - 1 /\ (next_id + k = v \/ next_id + k = v + IdRange)
    BY <1>2
  <2>2. (next_id + k) % IdRange = v
    BY <2>1, Around
  <2> QED BY <1>1, <2>1, <2>2
<1>4. vacant \in SUBSET Nat
  OBVIOUS
<1> HIDE DEF vacant
<1>5. \E k \in vacant : \A j \in vacant : k <= j
  BY <1>3, <1>4, Least
<1>6. first \in vacant
  BY <1>5
<1>7. FirstVacant = (next_id + first) % IdRange
  BY DEF FirstVacant, vacant
<1> HIDE DEF first
<1>8. first \in Nat /\ (next_id + first) % IdRange \notin DOMAIN map
  BY <1>6 DEF vacant
<1>9. (next_id + first) % IdRange \in 0 .. IdRange - 1
  BY <1>2, <1>8
<1> QED BY <1>7, <1>8, <1>9
-----------------------------------------------------------------------------
(***************************************************************************)
(* The types of the variables.                                             *)
(***************************************************************************)
LEMMA RegisterTypes ==
    ASSUME TypeOK, Register
    PROVE  TypeOK'
<1> DEFINE v == FirstVacant
           n == registered + 1
<1>1. v \in 0 .. IdRange - 1 /\ v \notin DOMAIN map
  BY FirstVacantIsVacant DEF Register
<1>2. /\ registered \in 0 .. MaxChannels /\ registered < MaxChannels
      /\ DOMAIN map \subseteq 0 .. IdRange - 1 /\ \A i \in DOMAIN map : map[i] \in 1 .. registered
  BY DEF TypeOK, Range, Register
<1>3. /\ registered' = n /\ id' = [id EXCEPT ![n] = v] /\ next_id' = (v + 1) % IdRange
      /\ map' = [i \in DOMAIN map \cup {v} |-> IF i = v THEN n ELSE map[i]]
      /\ owner' = [owner EXCEPT ![n] = "held"]
  BY DEF Register, AddrId
<1> HIDE DEF v
<1>4. n \in Channels /\ n \in 0 .. MaxChannels
  BY <1>2 DEF Channels
<1>5. next_id' \in 0 .. IdRange - 1
  BY <1>1, <1>3
<1>6. DOMAIN map' \subseteq 0 .. IdRange - 1 /\ Range(map') \subseteq 1 .. registered'
  <2>1. DOMAIN map' = DOMAIN map \cup {v}
    BY <1>3
  <2>2. \A i \in DOMAIN map' : map'[i] \in 1 .. n
    <3> SUFFICES ASSUME NEW i \in DOMAIN map' PROVE map'[i] \in 1 .. n
      OBVIOUS
    <3>1. map'[i] = IF i = v THEN n ELSE map[i]
      BY <1>3, <2>1
    <3>2. i # v => map[i] \in 1 .. registered
      BY <1>2, <2>1
    <3> QED BY <1>2, <3>1, <3>2
  <2>3. DOMAIN map' \subseteq 0 .. IdRange - 1
    BY <1>1, <1>2, <2>1
  <2> QED BY <1>3, <2>2, <2>3, Zenon DEF Range
<1>7. /\ id' \in [Channels -> 0 .. IdRange - 1]
      /\ owner' \in [Channels -> {"none", "held", "forwarder", "ready", "forwarding", "dropped"}]
  BY <1>1, <1>3, <1>4 DEF TypeOK
<1> QED BY <1>3, <1>4, <1>5, <1>6, <1>7, Zenon DEF Register, TypeOK, taskVars, clientVars

LEMMA ChannelTypes ==
    ASSUME TypeOK, NEW c \in Channels, ChannelNext(c)
    PROVE  TypeOK'
<1>1. UNCHANGED <<mapVars, registered, id, dropped, accepting, queue, clientVars>>
  BY DEF ChannelNext, Forward, DropChannel, EndpointReady, ChannelReady, ChannelFails, ForwardEnds,
         taskVars
<1>2. owner' \in [Channels -> {"none", "held", "forwarder", "ready", "forwarding", "dropped"}]
  BY Zenon DEF TypeOK, ChannelNext, Forward, DropChannel, EndpointReady, ChannelReady, ChannelFails,
         ForwardEnds, Release
<1>3. rx' \in [Channels -> {Waiting, Aborted} \cup Clients]
  BY DEF TypeOK, ChannelNext, Forward, DropChannel, EndpointReady, ChannelReady, ChannelFails,
         ForwardEnds, Release
<1>4. stream' \in [Clients -> {"none", "backlog", "reading", "enqueuing", "queued",
                               "delivered", "answered", "dropped"}]
  BY Zenon DEF TypeOK, ChannelNext, Forward, DropChannel, EndpointReady, ChannelReady, ChannelFails,
         ForwardEnds, Release, taskVars
<1> QED BY <1>1, <1>2, <1>3, <1>4 DEF TypeOK, mapVars, clientVars

LEMMA ClientTypes ==
    ASSUME TypeOK, NEW k \in Clients, ClientNext(k)
    PROVE  TypeOK'
<1>1. UNCHANGED <<mapVars, channelVars, dropped, accepting, queue>>
  BY DEF ClientNext, Connect, SendId, ReadByte, Close, taskVars
<1>2. client' \in [Clients -> {"none", "connected", "sent", "ready", "failed", "left", "closed"}]
  BY Zenon DEF TypeOK, ClientNext, Connect, SendId, ReadByte, Close
<1>3. stream' \in [Clients -> {"none", "backlog", "reading", "enqueuing", "queued",
                               "delivered", "answered", "dropped"}]
  BY DEF TypeOK, ClientNext, Connect, SendId, ReadByte, Close, taskVars
<1>4. target' \in [Clients -> 0 .. MaxChannels]
  <2>1. Channels \subseteq 0 .. MaxChannels /\ target \in [Clients -> 0 .. MaxChannels]
    BY DEF Channels, TypeOK
  <2> QED BY <2>1 DEF ClientNext, Connect, SendId, ReadByte, Close
<1> QED BY <1>1, <1>2, <1>3, <1>4 DEF TypeOK, mapVars, channelVars

LEMMA StreamTypes ==
    ASSUME TypeOK, NEW k \in Clients, StreamNext(k)
    PROVE  TypeOK'
<1>1. UNCHANGED <<mapVars, channelVars, dropped, accepting, clientVars>>
  BY DEF StreamNext, AcceptStream, ReadId, Enqueue
<1>2. stream' \in [Clients -> {"none", "backlog", "reading", "enqueuing", "queued",
                               "delivered", "answered", "dropped"}]
  BY Zenon DEF TypeOK, StreamNext, AcceptStream, ReadId, Enqueue
<1>3. queue \in Seq(Clients) /\ Len(queue) <= QueueSize
  BY DEF TypeOK
<1>4. queue' = queue \/ (queue' = Append(queue, k) /\ Len(queue) < QueueSize)
  BY DEF StreamNext, AcceptStream, ReadId, Enqueue, HasRoom
<1>5. queue' \in Seq(Clients) /\ Len(queue') <= QueueSize
  BY <1>3, <1>4
<1> QED BY <1>1, <1>2, <1>5 DEF TypeOK, mapVars, channelVars, clientVars

LEMMA ListenTypes ==
    ASSUME TypeOK, MapInv, Listen
    PROVE  TypeOK'
<1> DEFINE k == Head(queue)
           i == id[target[k]]
<1>1. queue \in Seq(Clients) /\ queue # <<>> /\ Len(queue) <= QueueSize
  BY DEF TypeOK, Listen
<1>2. k \in Clients /\ Tail(queue) \in Seq(Clients) /\ Len(Tail(queue)) <= QueueSize
  BY <1>1, SMTT(30)
<1>3. /\ map' = Restrict(map, DOMAIN map \ {i})
      /\ rx' = rx \/ (i \in DOMAIN map /\ rx' = [rx EXCEPT ![map[i]] = k])
      /\ \E st \in {"delivered", "dropped"} : stream' = [stream EXCEPT ![k] = st]
      /\ queue' = Tail(queue)
      /\ UNCHANGED <<open, next_id, panicked, registered, id, owner, dropped,
                      accepting, clientVars>>
  BY Zenon DEF Listen, Removed
<1> HIDE DEF k, i
<1>4. DOMAIN map' \subseteq 0 .. IdRange - 1 /\ Range(map') \subseteq 1 .. registered'
  BY <1>3 DEF Restrict, Range, TypeOK
<1>5. rx' \in [Channels -> {Waiting, Aborted} \cup Clients]
  <2> DEFINE V == {Waiting, Aborted} \cup Clients
  <2>1. k \in V /\ rx \in [Channels -> V]
    BY <1>2 DEF TypeOK
  <2> HIDE DEF V
  <2>2. \A c : [rx EXCEPT ![c] = k] \in [Channels -> V]
    BY <2>1, Zenon
  <2>3. rx' \in [Channels -> V]
    BY <1>3, <2>1, <2>2
  <2> QED BY <2>3 DEF V
<1>6. stream' \in [Clients -> {"none", "backlog", "reading", "enqueuing", "queued",
                               "delivered", "answered", "dropped"}]
  BY <1>3, Zenon DEF TypeOK
<1> QED BY <1>2, <1>3, <1>4, <1>5, <1>6, Zenon DEF TypeOK, clientVars

LEMMA EndTypes ==
    ASSUME TypeOK, RegisterPanics \/ AcceptEnds \/ ListenEnds \/ Drop \/ UNCHANGED vars
    PROVE  TypeOK'
<1>1. CASE ListenEnds
  <2>1. queue' = <<>> /\ <<>> \in Seq(Clients) /\ Len(<<>>) <= QueueSize
    BY <1>1 DEF ListenEnds
  <2>2. DOMAIN map' \subseteq 0 .. IdRange - 1 /\ Range(map') \subseteq 1 .. registered'
    BY <1>1 DEF ListenEnds, Range
  <2>3. rx' \in [Channels -> {Waiting, Aborted} \cup Clients]
    BY <1>1 DEF ListenEnds, TypeOK
  <2>4. stream' \in [Clients -> {"none", "backlog", "reading", "enqueuing", "queued",
                                 "delivered", "answered", "dropped"}]
    BY <1>1 DEF ListenEnds, TypeOK
  <2> QED BY <1>1, <2>1, <2>2, <2>3, <2>4, Zenon DEF ListenEnds, TypeOK, clientVars
<1>2. CASE RegisterPanics
  BY <1>2 DEF RegisterPanics, TypeOK, channelVars, taskVars, clientVars
<1>3. CASE AcceptEnds
  BY <1>3, Zenon DEF AcceptEnds, TypeOK, mapVars, channelVars, clientVars
<1>4. CASE Drop
  BY <1>4 DEF Drop, TypeOK, mapVars, channelVars, clientVars
<1>5. CASE UNCHANGED vars
  BY <1>5 DEF vars, TypeOK, mapVars, channelVars, taskVars, clientVars
<1> QED BY <1>1, <1>2, <1>3, <1>4, <1>5
-----------------------------------------------------------------------------
(***************************************************************************)
(* The map of the channels that wait.                                      *)
(***************************************************************************)
QuietOwners ==
    \A c \in Channels : /\ owner[c] = "none" => owner'[c] = "none"
                        /\ owner[c] = "dropped" => owner'[c] = "dropped"

LEMMA QuietWaiters ==
    ASSUME TypeOK, Waiters, UNCHANGED <<open, map, registered, id, rx>>, QuietOwners,
           ~ open => queue' = queue
    PROVE  Waiters'
<1>1. \A c \in 1 .. registered : c \in Channels
  BY DEF TypeOK, Channels
<1>2. Unregistered'
  BY DEF Waiters, Unregistered, QuietOwners
<1>3. MapInv'
  BY DEF Waiters, MapInv
<1>4. WaitingIsReachable'
  BY <1>1 DEF Waiters, WaitingIsReachable, QuietOwners
<1> QED BY <1>2, <1>3, <1>4 DEF Waiters

LEMMA RegisterWaiters ==
    ASSUME TypeOK, Waiters, Register
    PROVE  Waiters'
<1> DEFINE v == FirstVacant
           n == registered + 1
<1>1. v \in 0 .. IdRange - 1 /\ v \notin DOMAIN map
  BY FirstVacantIsVacant DEF Register
<1>2. /\ registered \in 0 .. MaxChannels /\ registered < MaxChannels /\ open
      /\ id \in [Channels -> 0 .. IdRange - 1]
      /\ owner \in [Channels -> {"none", "held", "forwarder", "ready", "forwarding", "dropped"}]
  BY DEF TypeOK, Register, Listening
<1>3. /\ registered' = n /\ id' = [id EXCEPT ![n] = v]
      /\ map' = [i \in DOMAIN map \cup {v} |-> IF i = v THEN n ELSE map[i]]
      /\ owner' = [owner EXCEPT ![n] = "held"]
      /\ UNCHANGED <<open, rx>>
  BY DEF Register, AddrId
<1> HIDE DEF v
<1>4. n \in Channels /\ \A c \in 1 .. registered : c \in Channels /\ c # n
  BY <1>2 DEF Channels
<1>5. /\ id'[n] = v /\ \A c \in 1 .. registered : id'[c] = id[c] /\ owner'[c] = owner[c]
      /\ \A c \in Channels : c # n => owner'[c] = owner[c]
  BY <1>2, <1>3, <1>4
<1>6. /\ DOMAIN map' = DOMAIN map \cup {v} /\ map'[v] = n
      /\ \A i \in DOMAIN map : map'[i] = map[i]
  BY <1>1, <1>3
<1>7. rx[n] = Waiting
  BY <1>2, <1>4 DEF Waiters, Unregistered
<1>8. Unregistered'
  <2>1. \A c \in Channels : c > n => c > registered /\ c # n
    BY <1>2 DEF Channels
  <2> QED BY <1>3, <1>5, <2>1 DEF Waiters, Unregistered
<1>9. MapInv'
  <2>1. open'
    BY <1>2, <1>3
  <2> SUFFICES ASSUME NEW i \in DOMAIN map'
               PROVE  map'[i] \in 1 .. n /\ id'[map'[i]] = i /\ rx[map'[i]] = Waiting
    BY <1>3, <2>1, Zenon DEF MapInv
  <2>2. CASE i = v
    BY <1>2, <1>5, <1>6, <1>7, <2>2
  <2>3. CASE i # v
    <3>1. map'[i] = map[i] /\ map[i] \in 1 .. registered /\ id[map[i]] = i /\ rx[map[i]] = Waiting
      BY <1>6, <2>3 DEF Waiters, MapInv
    <3>2. map[i] \in 1 .. n
      BY <1>2, <3>1
    <3> QED BY <1>5, <3>1, <3>2
  <2> QED BY <2>2, <2>3
<1>10. WaitingIsReachable'
  <2> SUFFICES ASSUME NEW c \in 1 .. n, rx[c] = Waiting, owner'[c] # "dropped"
               PROVE  open /\ id'[c] \in DOMAIN map' /\ map'[id'[c]] = c
    BY <1>3 DEF WaitingIsReachable
  <2>1. CASE c = n
    BY <1>2, <1>5, <1>6, <2>1
  <2>2. CASE c # n
    <3>1. c \in 1 .. registered
      BY <1>2, <2>2
    <3>2. id[c] \in DOMAIN map /\ map[id[c]] = c
      BY <1>5, <3>1 DEF Waiters, WaitingIsReachable
    <3> QED BY <1>2, <1>5, <1>6, <3>1, <3>2
  <2> QED BY <2>1, <2>2
<1> QED BY <1>8, <1>9, <1>10 DEF Waiters

LEMMA ReleaseWaiters ==
    ASSUME TypeOK, Waiters, NEW c \in Channels, Release(c), owner[c] # "none",
           UNCHANGED <<open, map, registered, id, queue>>
    PROVE  Waiters'
<1>1. /\ rx' = [rx EXCEPT ![c] = Waiting] /\ owner' = [owner EXCEPT ![c] = "dropped"]
      /\ rx \in [Channels -> {Waiting, Aborted} \cup Clients]
      /\ owner \in [Channels -> {"none", "held", "forwarder", "ready", "forwarding", "dropped"}]
  BY DEF Release, TypeOK
<1>2. /\ rx'[c] = Waiting /\ owner'[c] = "dropped"
      /\ \A d \in Channels : d # c => rx'[d] = rx[d] /\ owner'[d] = owner[d]
  BY <1>1
<1>3. \A d \in 1 .. registered : d \in Channels
  BY DEF TypeOK, Channels
<1>4. Unregistered'
  BY <1>2 DEF Waiters, Unregistered
<1>5. MapInv'
  BY <1>2, <1>3 DEF Waiters, MapInv
<1>6. WaitingIsReachable'
  BY <1>2, <1>3 DEF Waiters, WaitingIsReachable
<1> QED BY <1>4, <1>5, <1>6 DEF Waiters

LEMMA ListenWaiters ==
    ASSUME TypeOK, Waiters, Listen
    PROVE  Waiters'
<1> DEFINE k == Head(queue)
           i == id[target[k]]
           found == i \in DOMAIN map /\ owner[map[i]] # "dropped"
<1>1. k \in Clients
  BY DEF TypeOK, Listen
<1>2. /\ map' = Restrict(map, DOMAIN map \ {i})
      /\ rx' = IF found THEN [rx EXCEPT ![map[i]] = k] ELSE rx
      /\ open /\ UNCHANGED <<open, registered, id, owner>>
  BY DEF Listen, Removed
<1>3. /\ rx \in [Channels -> {Waiting, Aborted} \cup Clients]
      /\ \A c \in 1 .. registered : c \in Channels
      /\ registered \in Nat
  BY DEF TypeOK, Channels
<1> HIDE DEF k, i
<1>4. /\ DOMAIN map' = DOMAIN map \ {i}
      /\ \A j \in DOMAIN map' : map'[j] = map[j] /\ j # i
  BY <1>2 DEF Restrict
<1>5. \A j \in DOMAIN map : map[j] \in 1 .. registered /\ id[map[j]] = j /\ rx[map[j]] = Waiting
  BY DEF Waiters, MapInv
<1>6. /\ \A c \in Channels : ~ (found /\ c = map[i]) => rx'[c] = rx[c]
      /\ found => rx'[map[i]] = k
  BY <1>2, <1>3, <1>5
<1>7. k # Waiting
  BY <1>1 DEF Clients, Waiting
<1> HIDE DEF found
<1>8. Unregistered'
  <2>1. \A c \in Channels : c > registered => ~ (found /\ c = map[i])
    BY <1>3, <1>5 DEF Channels, found
  <2> QED BY <1>2, <1>6, <2>1 DEF Waiters, Unregistered
<1>9. MapInv'
  <2> SUFFICES ASSUME NEW j \in DOMAIN map'
               PROVE  map'[j] \in 1 .. registered /\ id[map'[j]] = j /\ rx'[map'[j]] = Waiting
    BY <1>2 DEF MapInv
  <2>1. map'[j] = map[j] /\ j # i /\ j \in DOMAIN map
    BY <1>4
  <2>2. map[j] \in 1 .. registered /\ id[map[j]] = j /\ rx[map[j]] = Waiting
    BY <1>5, <2>1
  <2>3. ~ (found /\ map[j] = map[i])
    BY <1>5, <2>1, <2>2 DEF found
  <2> QED BY <1>3, <1>6, <2>1, <2>2, <2>3
<1>10. WaitingIsReachable'
  <2> SUFFICES ASSUME NEW c \in 1 .. registered, rx'[c] = Waiting, owner[c] # "dropped"
               PROVE  open /\ id[c] \in DOMAIN map' /\ map'[id[c]] = c
    BY <1>2 DEF WaitingIsReachable
  <2>1. rx[c] = Waiting
    BY <1>3, <1>5, <1>6, <1>7 DEF found
  <2>2. id[c] \in DOMAIN map /\ map[id[c]] = c
    BY <2>1 DEF Waiters, WaitingIsReachable
  <2>3. id[c] # i
    BY <1>3, <1>6, <1>7, <2>2 DEF found
  <2> QED BY <1>2, <1>4, <2>2, <2>3
<1> QED BY <1>8, <1>9, <1>10 DEF Waiters

LEMMA ListenEndsWaiters ==
    ASSUME TypeOK, Waiters, ListenEnds
    PROVE  Waiters'
<1>1. /\ ~ open' /\ DOMAIN map' = {} /\ queue' = <<>>
      /\ \A c \in Channels : rx'[c] = IF c \in Range(map) /\ owner[c] # "dropped"
                                      THEN Aborted ELSE rx[c]
      /\ UNCHANGED <<registered, id, owner>>
  BY DEF ListenEnds, TypeOK
<1>2. \A c \in 1 .. registered : c \in Channels
  BY DEF TypeOK, Channels
<1>3. Unregistered'
  <2>1. \A c \in Channels : c > registered => c \notin Range(map)
    BY DEF Waiters, MapInv, Range, TypeOK, Channels
  <2> QED BY <1>1, <2>1 DEF Waiters, Unregistered
<1>4. MapInv'
  BY <1>1 DEF MapInv
<1>5. WaitingIsReachable'
  <2> SUFFICES ASSUME NEW c \in 1 .. registered, rx'[c] = Waiting, owner[c] # "dropped"
               PROVE  FALSE
    BY <1>1 DEF WaitingIsReachable
  <2>1. Aborted # Waiting
    BY DEF Aborted, Waiting
  <2>2. rx[c] = Waiting /\ c \notin Range(map)
    BY <1>1, <1>2, <2>1
  <2>3. id[c] \in DOMAIN map /\ map[id[c]] = c
    BY <2>2 DEF Waiters, WaitingIsReachable
  <2> QED BY <2>2, <2>3 DEF Range
<1> QED BY <1>3, <1>4, <1>5 DEF Waiters

LEMMA WaitersStep ==
    ASSUME TypeOK, Waiters, [Next]_vars
    PROVE  Waiters'
<1>1. ASSUME NEW c \in Channels, ChannelNext(c)
      PROVE  Waiters'
  <2>1. UNCHANGED <<open, map, registered, id, queue>>
    BY <1>1 DEF ChannelNext, Forward, DropChannel, EndpointReady, ChannelReady, ChannelFails,
                ForwardEnds, mapVars, taskVars
  <2>2. owner[c] \notin {"none", "dropped"}
    BY <1>1 DEF ChannelNext, Forward, DropChannel, EndpointReady, ChannelReady, ChannelFails,
                ForwardEnds
  <2>3. CASE Release(c)
    BY <2>1, <2>2, <2>3, ReleaseWaiters
  <2>4. CASE ~ Release(c)
    <3>1. rx' = rx /\ \E state : owner' = [owner EXCEPT ![c] = state]
      BY <1>1, <2>4 DEF ChannelNext, Forward, DropChannel, EndpointReady, ChannelReady,
                        ChannelFails, ForwardEnds
    <3>2. QuietOwners
      BY <2>2, <3>1 DEF QuietOwners, TypeOK
    <3> QED BY <2>1, <3>1, <3>2, QuietWaiters
  <2> QED BY <2>3, <2>4
<1>2. ASSUME NEW k \in Clients, StreamNext(k) \/ ClientNext(k)
      PROVE  Waiters'
  <2>1. UNCHANGED <<open, map, registered, id, rx, owner>>
    BY <1>2 DEF StreamNext, AcceptStream, ReadId, Enqueue, ClientNext, Connect, SendId, ReadByte,
                Close, mapVars, channelVars
  <2>2. ~ open => queue' = queue
    BY <1>2 DEF StreamNext, AcceptStream, ReadId, Enqueue, ClientNext, Connect, SendId, ReadByte,
                Close, taskVars
  <2> QED BY <2>1, <2>2, QuietWaiters DEF QuietOwners
<1>3. CASE RegisterPanics \/ AcceptEnds \/ Drop \/ UNCHANGED vars
  <2>1. UNCHANGED <<open, map, registered, id, rx, owner, queue>>
    BY <1>3 DEF RegisterPanics, AcceptEnds, Drop, vars, mapVars, channelVars, taskVars
  <2> QED BY <2>1, QuietWaiters DEF QuietOwners
<1> QED BY <1>1, <1>2, <1>3, RegisterWaiters, ListenWaiters, ListenEndsWaiters DEF Next
-----------------------------------------------------------------------------
(***************************************************************************)
(* The connections.                                                        *)
(***************************************************************************)
LEMMA QuietConnections ==
    ASSUME TypeOK, Connections, UNCHANGED <<rx, queue, id, registered, target>>,
           \A k \in Clients : /\ stream'[k] = "queued" <=> stream[k] = "queued"
                              /\ Held(k)' <=> Held(k)
                              /\ client'[k] = "none" <=> client[k] = "none"
                              /\ client[k] = "none" => stream'[k] = stream[k]
    PROVE  Connections'
<1>1. Queued' /\ QueuedOnce'
  BY DEF Connections, Queued, QueuedOnce
<1>2. Delivered' /\ ReceivedOnce'
  BY DEF Connections, Delivered, ReceivedOnce
<1>3. TargetsKnown'
  BY DEF Connections, TargetsKnown
<1>4. SameId'
  BY DEF Connections, SameId
<1> QED BY <1>1, <1>2, <1>3, <1>4 DEF Connections

\* A client whose connection was received has an address.
LEMMA Known ==
    ASSUME Connections, NEW k \in Clients, stream[k] # "none"
    PROVE  client[k] # "none" /\ target[k] \in 1 .. registered
BY DEF Connections, TargetsKnown

LEMMA RegisterConnections ==
    ASSUME TypeOK, Waiters, Connections, Register
    PROVE  Connections'
<1> DEFINE n == registered + 1
<1>1. /\ registered \in Nat /\ registered' = n /\ n \in Channels
      /\ id \in [Channels -> 0 .. IdRange - 1] /\ \E v : id' = [id EXCEPT ![n] = v]
      /\ UNCHANGED <<rx, stream, queue, client, target>>
  <2>1. registered \in Nat /\ registered' = n /\ registered < MaxChannels
    BY DEF Register, TypeOK
  <2>2. n \in Channels
    BY <2>1 DEF Channels
  <2>3. id' = [id EXCEPT ![n] = AddrId] /\ UNCHANGED <<rx, stream, queue, client, target>>
    BY DEF Register, taskVars, clientVars
  <2>4. id \in [Channels -> 0 .. IdRange - 1]
    BY DEF TypeOK
  <2> QED BY <2>1, <2>2, <2>3, <2>4, Zenon
<1>2. \A c \in 1 .. registered : c \in Channels /\ id'[c] = id[c]
  BY <1>1 DEF TypeOK, Channels
<1>3. Queued' /\ QueuedOnce' /\ Delivered' /\ ReceivedOnce'
  BY <1>1 DEF Connections, Queued, QueuedOnce, Delivered, ReceivedOnce, Held
<1>4. TargetsKnown'
  <2>1. \A c \in 1 .. registered : c \in 1 .. n
    BY <1>1
  <2> QED BY <1>1, <2>1 DEF Connections, TargetsKnown
<1>5. SameId'
  <2> SUFFICES ASSUME NEW c \in Channels, rx[c] \in Clients
               PROVE  id'[target[rx[c]]] = id'[c]
    BY <1>1 DEF SameId
  <2>1. stream[rx[c]] # "none"
    BY DEF Connections, Delivered, Held
  <2>2. target[rx[c]] \in 1 .. registered
    BY <2>1, Known
  <2>3. c \in 1 .. registered
    <3>1. rx[c] # Waiting
      BY DEF Clients, Waiting
    <3>2. ~ (c > registered)
      BY <3>1 DEF Waiters, Unregistered
    <3> QED BY <1>1, <3>2 DEF Channels
  <2> QED BY <1>2, <2>2, <2>3 DEF Connections, SameId
<1> QED BY <1>3, <1>4, <1>5 DEF Connections

LEMMA ReleaseConnections ==
    ASSUME TypeOK, Connections, NEW c \in Channels, Release(c),
           UNCHANGED <<registered, id, queue, client, target>>
    PROVE  Connections'
<1>1. /\ rx \in [Channels -> {Waiting, Aborted} \cup Clients]
      /\ rx' = [rx EXCEPT ![c] = Waiting]
      /\ \A k \in Clients : stream'[k] = IF k = rx[c] THEN "dropped" ELSE stream[k]
  BY DEF TypeOK, Release
<1>2. rx'[c] = Waiting /\ \A d \in Channels : d # c => rx'[d] = rx[d]
  BY <1>1
<1>3. Waiting \notin Clients
  BY DEF Waiting, Clients
<1>4. rx[c] \in Clients => Held(rx[c])
  BY DEF Connections, Delivered
<1>5. Queued' /\ QueuedOnce'
  <2>1. \A k \in Clients : stream'[k] = "queued" <=> stream[k] = "queued"
    BY <1>1, <1>4 DEF Held
  <2> QED BY <2>1 DEF Connections, Queued, QueuedOnce
<1>6. Delivered'
  <2> SUFFICES ASSUME NEW k \in Clients PROVE Held(k)' <=> \E d \in Channels : rx'[d] = k
    BY DEF Delivered
  <2>1. CASE k = rx[c]
    <3>1. ~ Held(k)'
      BY <1>1, <2>1 DEF Held
    <3>2. \A d \in Channels : rx'[d] # k
      BY <1>2, <1>3, <2>1 DEF Connections, ReceivedOnce
    <3> QED BY <3>1, <3>2
  <2>2. CASE k # rx[c]
    <3>1. Held(k)' <=> Held(k)
      BY <1>1, <2>2 DEF Held
    <3>2. \A d \in Channels : rx'[d] = k <=> rx[d] = k
      BY <1>2, <1>3, <2>2
    <3> QED BY <3>1, <3>2 DEF Connections, Delivered
  <2> QED BY <2>1, <2>2
<1>7. ReceivedOnce' /\ SameId'
  BY <1>2, <1>3 DEF Connections, ReceivedOnce, SameId
<1>8. TargetsKnown'
  <2>1. \A k \in Clients : client[k] = "none" => k # rx[c]
    BY <1>4, Known DEF Held
  <2> QED BY <1>1, <2>1 DEF Connections, TargetsKnown
<1> QED BY <1>5, <1>6, <1>7, <1>8 DEF Connections

LEMMA EnqueueConnections ==
    ASSUME TypeOK, Connections, NEW k \in Clients, Enqueue(k)
    PROVE  Connections'
<1>1. /\ UNCHANGED <<rx, id, registered, target, client>>
      /\ stream[k] = "enqueuing" /\ queue \in Seq(Clients)
      /\ stream \in [Clients -> {"none", "backlog", "reading", "enqueuing", "queued",
                                 "delivered", "answered", "dropped"}]
  BY DEF Enqueue, TypeOK, channelVars, clientVars
<1>2. client[k] # "none"
  BY <1>1, Known
<1>3. CASE open
  <2>1. stream' = [stream EXCEPT ![k] = "queued"] /\ queue' = Append(queue, k)
    BY <1>3 DEF Enqueue
  <2>2. /\ Len(queue') = Len(queue) + 1 /\ queue'[Len(queue) + 1] = k /\ Len(queue) \in Nat
        /\ \A i \in 1 .. Len(queue) : queue'[i] = queue[i]
    BY <1>1, <2>1
  <2>3. stream'[k] = "queued" /\ \A j \in Clients : j # k => stream'[j] = stream[j]
    BY <1>1, <2>1
  <2>4. \A i \in 1 .. Len(queue) : queue[i] # k
    BY <1>1 DEF Connections, Queued
  <2>5. \A i \in 1 .. Len(queue') : i = Len(queue) + 1 \/ i \in 1 .. Len(queue)
    BY <2>2
  <2>6. \A i \in 1 .. Len(queue) : i \in 1 .. Len(queue')
    BY <2>2
  <2>7. Len(queue) + 1 \in 1 .. Len(queue')
    BY <2>2
  <2>8. Queued'
    <3> SUFFICES ASSUME NEW j \in Clients
                 PROVE  stream'[j] = "queued" <=> \E i \in 1 .. Len(queue') : queue'[i] = j
      BY DEF Queued
    <3>1. CASE j = k
      BY <2>2, <2>3, <2>7, <3>1
    <3>2. CASE j # k
      <4>1. stream[j] = "queued" <=> \E i \in 1 .. Len(queue) : queue[i] = j
        BY DEF Connections, Queued
      <4>2. (\E i \in 1 .. Len(queue') : queue'[i] = j) <=> \E i \in 1 .. Len(queue) : queue[i] = j
        BY <2>2, <2>5, <2>6, <3>2
      <4> QED BY <2>3, <3>2, <4>1, <4>2
    <3> QED BY <3>1, <3>2
  <2>9. QueuedOnce'
    BY <2>2, <2>4, <2>5 DEF Connections, QueuedOnce
  <2>10. Delivered'
    BY <1>1, <2>3 DEF Connections, Delivered, Held
  <2>11. ReceivedOnce' /\ SameId'
    BY <1>1 DEF Connections, ReceivedOnce, SameId
  <2>12. TargetsKnown'
    BY <1>1, <1>2, <2>3 DEF Connections, TargetsKnown
  <2> QED BY <2>8, <2>9, <2>10, <2>11, <2>12 DEF Connections
<1>4. CASE ~ open
  <2>1. stream' = [stream EXCEPT ![k] = "dropped"] /\ queue' = queue
    BY <1>4 DEF Enqueue
  <2>2. stream'[k] = "dropped" /\ \A j \in Clients : j # k => stream'[j] = stream[j]
    BY <1>1, <2>1
  <2>3. \A j \in Clients : /\ stream'[j] = "queued" <=> stream[j] = "queued"
                           /\ Held(j)' <=> Held(j)
                           /\ client[j] = "none" => stream'[j] = stream[j]
    BY <1>1, <1>2, <2>2 DEF Held
  <2> QED BY <1>1, <2>1, <2>3, QuietConnections
<1> QED BY <1>3, <1>4

LEMMA ListenConnections ==
    ASSUME TypeOK, Waiters, Connections, Listen
    PROVE  Connections'
<1> DEFINE k == Head(queue)
           i == id[target[k]]
           found == i \in DOMAIN map /\ owner[map[i]] # "dropped"
<1>1. queue \in Seq(Clients) /\ queue # <<>>
  BY DEF TypeOK, Listen
<1>2. /\ queue' = Tail(queue)
      /\ rx' = IF found THEN [rx EXCEPT ![map[i]] = k] ELSE rx
      /\ stream' = [stream EXCEPT ![k] = IF found THEN "delivered" ELSE "dropped"]
      /\ UNCHANGED <<registered, id, client, target>>
  BY DEF Listen, clientVars
<1>3. /\ rx \in [Channels -> {Waiting, Aborted} \cup Clients]
      /\ \A c \in 1 .. registered : c \in Channels
      /\ stream \in [Clients -> {"none", "backlog", "reading", "enqueuing", "queued",
                                 "delivered", "answered", "dropped"}]
  BY DEF TypeOK, Channels
<1>4. /\ k \in Clients /\ k = queue[1] /\ Len(queue) \in Nat /\ Len(queue) >= 1
      /\ Len(queue') = Len(queue) - 1
      /\ \A j \in 1 .. Len(queue') : queue'[j] = queue[j + 1]
  BY <1>1, <1>2
<1>5. /\ \A j \in 1 .. Len(queue') : j + 1 \in 1 .. Len(queue) /\ j + 1 # 1
      /\ \A j \in 1 .. Len(queue) : j = 1 \/ (j - 1 \in 1 .. Len(queue') /\ (j - 1) + 1 = j)
  BY <1>4
<1>6. found => map[i] \in Channels /\ id[map[i]] = i
  BY <1>3 DEF Waiters, MapInv
<1> HIDE DEF k
<1>7. stream[k] = "queued"
  <2>1. 1 \in 1 .. Len(queue)
    BY <1>4
  <2> QED BY <1>4, <2>1 DEF Connections, Queued
<1>8. \A c \in Channels : rx[c] # k
  BY <1>4, <1>7 DEF Connections, Delivered, Held
<1>9. /\ stream'[k] = IF found THEN "delivered" ELSE "dropped"
      /\ \A j \in Clients : j # k => stream'[j] = stream[j]
  BY <1>2, <1>3, <1>4
<1>10. /\ found => rx'[map[i]] = k
       /\ \A c \in Channels : ~ (found /\ c = map[i]) => rx'[c] = rx[c]
  BY <1>2, <1>3, <1>6
<1> HIDE DEF found, i
<1>11. Queued'
  <2> SUFFICES ASSUME NEW j \in Clients
               PROVE  stream'[j] = "queued" <=> \E m \in 1 .. Len(queue') : queue'[m] = j
    BY DEF Queued
  <2>1. CASE j = k
    <3>1. stream'[j] # "queued"
      BY <1>9, <2>1
    <3>2. \A m \in 1 .. Len(queue') : queue'[m] # k
      <4> SUFFICES ASSUME NEW m \in 1 .. Len(queue') PROVE queue[m + 1] # queue[1]
        BY <1>4, Zenon
      <4>1. m + 1 \in 1 .. Len(queue) /\ 1 \in 1 .. Len(queue) /\ m + 1 # 1
        BY <1>4, <1>5
      <4> QED BY <4>1 DEF Connections, QueuedOnce
    <3> QED BY <2>1, <3>1, <3>2
  <2>2. CASE j # k
    <3>1. stream[j] = "queued" <=> \E m \in 1 .. Len(queue) : queue[m] = j
      BY DEF Connections, Queued
    <3>2. (\E m \in 1 .. Len(queue') : queue'[m] = j) => \E m \in 1 .. Len(queue) : queue[m] = j
      BY <1>4, <1>5
    <3>3. ASSUME NEW m \in 1 .. Len(queue), queue[m] = j
          PROVE  \E x \in 1 .. Len(queue') : queue'[x] = j
      <4>1. m # 1
        BY <1>4, <2>2, <3>3
      <4>2. m - 1 \in 1 .. Len(queue') /\ (m - 1) + 1 = m
        BY <1>5, <4>1
      <4>3. queue'[m - 1] = j
        BY <1>4, <3>3, <4>2
      <4> QED BY <4>2, <4>3
    <3> QED BY <1>9, <2>2, <3>1, <3>2, <3>3
  <2> QED BY <2>1, <2>2
<1>12. QueuedOnce'
  <2> SUFFICES ASSUME NEW x \in 1 .. Len(queue'), NEW y \in 1 .. Len(queue'), queue'[x] = queue'[y]
               PROVE  x = y
    BY DEF QueuedOnce
  <2>1. queue[x + 1] = queue[y + 1] /\ x + 1 \in 1 .. Len(queue) /\ y + 1 \in 1 .. Len(queue)
    BY <1>4, <1>5
  <2>2. x + 1 = y + 1
    BY <2>1 DEF Connections, QueuedOnce
  <2> QED BY <2>2
<1>13. Delivered'
  <2> SUFFICES ASSUME NEW j \in Clients PROVE Held(j)' <=> \E c \in Channels : rx'[c] = j
    BY DEF Delivered
  <2>1. CASE j = k
    BY <1>6, <1>8, <1>9, <1>10, <2>1 DEF Held
  <2>2. CASE j # k
    <3>1. Held(j)' <=> Held(j)
      BY <1>9, <2>2 DEF Held
    <3>2. found => rx[map[i]] = Waiting
      BY DEF found, Waiters, MapInv
    <3>3. \A c \in Channels : rx'[c] = j <=> rx[c] = j
      BY <1>10, <2>2, <3>2 DEF Clients, Waiting
    <3> QED BY <3>1, <3>3 DEF Connections, Delivered
  <2> QED BY <2>1, <2>2
<1>14. ReceivedOnce'
  BY <1>6, <1>8, <1>10 DEF Connections, ReceivedOnce
<1>15. SameId'
  BY <1>2, <1>6, <1>10 DEF Connections, SameId, i
<1>16. TargetsKnown'
  <2>1. client[k] # "none"
    BY <1>4, <1>7, Known
  <2> QED BY <1>2, <1>9, <2>1 DEF Connections, TargetsKnown
<1> QED BY <1>11, <1>12, <1>13, <1>14, <1>15, <1>16 DEF Connections

LEMMA ListenEndsConnections ==
    ASSUME TypeOK, Waiters, Connections, ListenEnds
    PROVE  Connections'
<1>1. /\ UNCHANGED <<registered, id, client, target>>
      /\ queue' = <<>>
      /\ \A c \in Channels : rx'[c] = IF c \in Range(map) /\ owner[c] # "dropped"
                                      THEN Aborted ELSE rx[c]
      /\ \A k \in Clients : stream'[k] = IF stream[k] \in {"queued", "backlog"} THEN "dropped"
                                         ELSE stream[k]
  BY DEF ListenEnds, clientVars
<1>2. \A c \in Channels : c \in Range(map) => rx[c] = Waiting
  BY DEF Range, Waiters, MapInv
<1>3. Waiting \notin Clients /\ Aborted \notin Clients
  BY DEF Waiting, Aborted, Clients
<1>4. \A c \in Channels : rx'[c] = rx[c] \/ (rx[c] \notin Clients /\ rx'[c] \notin Clients)
  BY <1>1, <1>2, <1>3
<1>5. Queued' /\ QueuedOnce'
  BY <1>1 DEF Queued, QueuedOnce
<1>6. Delivered'
  <2>1. \A k \in Clients : Held(k)' <=> Held(k)
    BY <1>1 DEF Held
  <2> QED BY <1>4, <2>1 DEF Connections, Delivered
<1>7. ReceivedOnce' /\ SameId'
  BY <1>1, <1>4 DEF Connections, ReceivedOnce, SameId
<1>8. TargetsKnown'
  BY <1>1 DEF Connections, TargetsKnown
<1> QED BY <1>5, <1>6, <1>7, <1>8 DEF Connections

LEMMA ConnectConnections ==
    ASSUME TypeOK, Connections, NEW k \in Clients, NEW c \in Channels, Connect(k, c)
    PROVE  Connections'
<1>1. /\ UNCHANGED <<registered, id, rx, queue>>
      /\ client[k] = "none" /\ stream[k] = "none" /\ c \in 1 .. registered
  BY DEF Connect, channelVars, Connections, TargetsKnown, Channels, TypeOK
<1>2. /\ target'[k] = c /\ client'[k] # "none" /\ stream'[k] \in {"backlog", "dropped"}
      /\ \A j \in Clients : j # k =>
            target'[j] = target[j] /\ client'[j] = client[j] /\ stream'[j] = stream[j]
  BY DEF Connect, TypeOK
<1>3. Queued' /\ QueuedOnce'
  <2>1. \A j \in Clients : stream'[j] = "queued" <=> stream[j] = "queued"
    BY <1>1, <1>2
  <2> QED BY <1>1, <2>1 DEF Connections, Queued, QueuedOnce
<1>4. \A j \in Clients : Held(j)' <=> Held(j)
  BY <1>1, <1>2 DEF Held
<1>5. Delivered' /\ ReceivedOnce'
  BY <1>1, <1>4 DEF Connections, Delivered, ReceivedOnce
<1>6. TargetsKnown'
  BY <1>1, <1>2 DEF Connections, TargetsKnown
<1>7. SameId'
  <2>1. \A d \in Channels : rx[d] # k
    BY <1>1 DEF Connections, Delivered, Held
  <2> QED BY <1>1, <1>2, <2>1 DEF Connections, SameId
<1> QED BY <1>3, <1>5, <1>6, <1>7 DEF Connections

LEMMA ConnectionsStep ==
    ASSUME TypeOK, Waiters, Connections, [Next]_vars
    PROVE  Connections'
<1>1. stream \in [Clients -> {"none", "backlog", "reading", "enqueuing", "queued",
                              "delivered", "answered", "dropped"}]
  BY DEF TypeOK
<1>2. ASSUME NEW c \in Channels, ChannelNext(c)
      PROVE  Connections'
  <2>1. UNCHANGED <<registered, id, queue, client, target>>
    BY <1>2 DEF ChannelNext, Forward, DropChannel, EndpointReady, ChannelReady, ChannelFails,
                ForwardEnds, taskVars, clientVars
  <2>2. CASE Release(c)
    BY <2>1, <2>2, ReleaseConnections
  <2>3. CASE ~ Release(c)
    <3>1. /\ rx' = rx
          /\ \/ stream' = stream
             \/ rx[c] \in Clients /\ stream' = [stream EXCEPT ![rx[c]] = "answered"]
      BY <1>2, <2>3, Zenon
         DEF ChannelNext, Forward, DropChannel, EndpointReady, ChannelReady, ChannelFails,
             ForwardEnds, taskVars
    <3>2. rx[c] \in Clients => Held(rx[c]) /\ client[rx[c]] # "none"
      <4>1. rx[c] \in Clients => Held(rx[c])
        BY DEF Connections, Delivered
      <4> QED BY <4>1, Known DEF Held
    <3>3. \A k \in Clients : /\ stream'[k] = "queued" <=> stream[k] = "queued"
                             /\ Held(k)' <=> Held(k)
                             /\ client[k] = "none" => stream'[k] = stream[k]
      BY <1>1, <3>1, <3>2 DEF Held
    <3> QED BY <2>1, <3>1, <3>3, QuietConnections, Zenon
  <2> QED BY <2>2, <2>3
<1>3. ASSUME NEW k \in Clients, AcceptStream(k) \/ ReadId(k)
      PROVE  Connections'
  <2>1. /\ UNCHANGED <<rx, registered, id, queue, client, target>>
        /\ stream[k] \in {"backlog", "reading"}
        /\ \E st \in {"reading", "enqueuing", "dropped"} : stream' = [stream EXCEPT ![k] = st]
    BY <1>3 DEF AcceptStream, ReadId, channelVars, clientVars
  <2>2. client[k] # "none"
    BY <2>1, Known
  <2>3. \A j \in Clients : /\ stream'[j] = "queued" <=> stream[j] = "queued"
                           /\ Held(j)' <=> Held(j)
                           /\ client[j] = "none" => stream'[j] = stream[j]
    BY <1>1, <2>1, <2>2 DEF Held
  <2> QED BY <2>1, <2>3, QuietConnections
<1>4. ASSUME NEW k \in Clients, SendId(k) \/ ReadByte(k) \/ Close(k)
      PROVE  Connections'
  <2>1. /\ UNCHANGED <<rx, registered, id, queue, stream, target>>
        /\ client[k] # "none"
        /\ \E st \in {"sent", "ready", "failed", "left", "closed"} :
              client' = [client EXCEPT ![k] = st]
    BY <1>4 DEF SendId, ReadByte, Close, channelVars, taskVars
  <2>2. \A j \in Clients : client'[j] = "none" <=> client[j] = "none"
    BY <2>1, SMTT(30) DEF TypeOK
  <2> QED BY <2>1, <2>2, QuietConnections DEF Held
<1>5. CASE AcceptEnds
  <2>1. /\ UNCHANGED <<rx, registered, id, queue, client, target>>
        /\ \A k \in Clients : stream'[k] = IF stream[k] = "backlog" THEN "dropped" ELSE stream[k]
    BY <1>5 DEF AcceptEnds, channelVars, clientVars
  <2>2. \A k \in Clients : client[k] = "none" => stream[k] = "none"
    BY DEF Connections, TargetsKnown
  <2>3. \A j \in Clients : /\ stream'[j] = "queued" <=> stream[j] = "queued"
                           /\ Held(j)' <=> Held(j)
                           /\ client[j] = "none" => stream'[j] = stream[j]
    BY <2>1, <2>2 DEF Held
  <2> QED BY <2>1, <2>3, QuietConnections
<1>6. CASE RegisterPanics \/ Drop \/ UNCHANGED vars
  <2>1. UNCHANGED <<rx, registered, id, queue, client, target, stream>>
    BY <1>6 DEF RegisterPanics, Drop, vars, channelVars, taskVars, clientVars
  <2> QED BY <2>1, QuietConnections DEF Held
<1> QED BY <1>2, <1>3, <1>4, <1>5, <1>6, RegisterConnections, EnqueueConnections, ListenConnections,
           ListenEndsConnections, ConnectConnections
        DEF Next, StreamNext, ClientNext
-----------------------------------------------------------------------------
LEMMA Initially == Init => IInv
<1> SUFFICES ASSUME Init PROVE IInv
  OBVIOUS
<1>1. /\ DOMAIN map = {} /\ Range(map) = {} /\ registered = 0 /\ open /\ queue = <<>>
      /\ \A c \in Channels : rx[c] = Waiting /\ owner[c] = "none"
      /\ \A k \in Clients : stream[k] = "none" /\ client[k] = "none"
  BY DEF Init, Range
<1>2. TypeOK
  <2>1. /\ next_id \in 0 .. IdRange - 1 /\ registered \in 0 .. MaxChannels
        /\ DOMAIN map \subseteq 0 .. IdRange - 1 /\ Range(map) \subseteq 1 .. registered
    BY <1>1 DEF Init
  <2>2. id \in [Channels -> 0 .. IdRange - 1] /\ target \in [Clients -> 0 .. MaxChannels]
    BY DEF Init
  <2>3. queue \in Seq(Clients) /\ Len(queue) <= QueueSize
    BY <1>1
  <2> QED BY <2>1, <2>2, <2>3, Zenon DEF Init, TypeOK
<1>3. Waiters
  BY <1>1 DEF Waiters, Unregistered, MapInv, WaitingIsReachable
<1>4. Waiting \notin Clients
  BY DEF Waiting, Clients
<1>5. Connections
  BY <1>1, <1>4 DEF Connections, Queued, Delivered, QueuedOnce, ReceivedOnce, TargetsKnown, SameId,
                    Held
<1> QED BY <1>2, <1>3, <1>5 DEF IInv

LEMMA Preserved == IInv /\ [Next]_vars => IInv'
<1> SUFFICES ASSUME IInv, [Next]_vars PROVE IInv'
  OBVIOUS
<1>1. TypeOK'
  BY RegisterTypes, ChannelTypes, ClientTypes, StreamTypes, ListenTypes, EndTypes
     DEF IInv, Waiters, Next
<1>2. Waiters' /\ Connections'
  BY WaitersStep, ConnectionsStep DEF IInv
<1> QED BY <1>1, <1>2 DEF IInv

LEMMA Invariant == Spec => []IInv
BY Initially, Preserved, PTL DEF Spec

(***************************************************************************)
(* However often the ids of register_channel() wrap around, and whatever   *)
(* channels are dropped with their entries left in the map: a channel that *)
(* waits for a connection is the one that its id leads to, and none waits  *)
(* once the server has stopped listening.                                  *)
(***************************************************************************)
THEOREM ChannelsAreReachable == Spec => []WaitingIsReachable
<1>1. IInv => WaitingIsReachable
  BY DEF IInv, Waiters
<1> QED BY <1>1, Invariant, PTL

(***************************************************************************)
(* The assertion of ready_internal(), for any interleaving of the tasks    *)
(* that accept, read and hand over the connections: a channel receives the *)
(* connection of a client with its id, and no two channels the same one.   *)
(***************************************************************************)
THEOREM ChannelsArePaired == Spec => []Paired
<1>1. IInv => Paired
  <2>1. TypeOK => \A c \in 1 .. registered : c \in Channels
    BY DEF TypeOK, Channels
  <2> QED BY <2>1 DEF IInv, Connections, SameId, ReceivedOnce, Paired
<1> QED BY <1>1, Invariant, PTL

(***************************************************************************)
(* A connection that the server has is queued exactly if the queue holds   *)
(* it, and is with exactly the channel that will answer or drop it: none   *)
(* is lost between the tasks.                                              *)
(***************************************************************************)
THEOREM ConnectionsAreKept == Spec => []NoneForgotten
<1>1. IInv => NoneForgotten
  <2> SUFFICES ASSUME IInv PROVE NoneForgotten
    OBVIOUS
  <2>1. \A k \in Clients : k \in Range(queue) <=> \E i \in 1 .. Len(queue) : queue[i] = k
    <3>1. DOMAIN queue = 1 .. Len(queue)
      BY DEF IInv, TypeOK
    <3> QED BY <3>1 DEF Range
  <2> QED BY <2>1 DEF IInv, Connections, Queued, Delivered, Held, NoneForgotten
<1> QED BY <1>1, Invariant, PTL
=============================================================================
