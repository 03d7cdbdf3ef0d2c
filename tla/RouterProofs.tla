----------------------------- MODULE RouterProofs -----------------------------
(***************************************************************************)
(* The router hands every item to the endpoint it names, in order, for     *)
(* every number of endpoints and items and every capacity, although the    *)
(* map of channels is not locked between the lookup of an id and the send. *)
(***************************************************************************)
EXTENDS Router, SequenceTheorems, TLAPS

USE RouterAssumption

Numbers == 1 .. MaxItems
Ids == Channels \cup {NoId}
ChannelStates == {"none", "open", "closing", "dropped"}
TaskStates == {"reading", "sending", "ended", "cancelled"}

(***************************************************************************)
(* The types of the variables, as functions.                               *)
(***************************************************************************)
Types ==
    /\ conn \in {"open", "closed"}
    /\ channel \in [Channels -> ChannelStates]
    /\ arrived \in [Kinds -> Seq(Ids)]
    /\ taken \in [Kinds -> Nat]
    /\ task \in [Kinds -> TaskStates]
    /\ queue \in [Kinds -> [Channels -> Seq(Numbers)]]
    /\ received \in [Kinds -> [Channels -> Seq(Numbers)]]

(***************************************************************************)
(* The bounds, and what a task that waits for room knows of its item: it   *)
(* is for an endpoint that was registered, which need not be so any more.  *)
(***************************************************************************)
TaskInv(k) ==
    /\ Len(arrived[k]) <= MaxItems
    /\ taken[k] <= Len(arrived[k])
    /\ task[k] = "sending" =>
          /\ taken[k] > 0
          /\ Destination(k) \in Channels
          /\ channel[Destination(k)] # "none"

(***************************************************************************)
(* What holds of the items that channel c has got from one task: ids are   *)
(* the ids of all that arrived, n is how many were taken, st is the state  *)
(* of the task and open that of the channel.  The item with the task is    *)
(* not among them, and nothing is sent before the channel is registered.   *)
(***************************************************************************)
InOrder(items, ids, c, n) ==
    /\ \A i \in 1 .. Len(items) : items[i] <= n /\ ids[items[i]] = c
    /\ \A i, j \in 1 .. Len(items) : i < j => items[i] < items[j]

Among(n, items) == \E i \in 1 .. Len(items) : items[i] = n

Complete(items, ids, c, n, st) ==
    \A m \in items[1] .. n :
        ids[m] = c => Among(m, items) \/ (st # "reading" /\ m = n)

Routed(items, ids, c, n, st, open) ==
    /\ InOrder(items, ids, c, n)
    /\ st = "sending" => ~ Among(n, items)
    /\ open = "none" => items = <<>>
    /\ open = "open" /\ items # <<>> /\ st # "cancelled" => Complete(items, ids, c, n, st)

Items(k, c) == received[k][c] \o queue[k][c]

RouteInv(k, c) ==
    /\ Len(queue[k][c]) <= Capacity
    /\ Routed(Items(k, c), arrived[k], c, taken[k], task[k], channel[c])

(***************************************************************************)
(* The inductive invariant.                                                *)
(***************************************************************************)
IInv ==
    /\ Types
    /\ \A k \in Kinds : TaskInv(k)
    /\ \A k \in Kinds : \A c \in Channels : RouteInv(k, c)
    /\ UnknownDatagramsHarmless

-----------------------------------------------------------------------------
(***************************************************************************)
(* What the owner receives from the head of its queue keeps its place.     *)
(***************************************************************************)
LEMMA Moved ==
    ASSUME NEW S, NEW r \in Seq(S), NEW q \in Seq(S), q # <<>>
    PROVE  Append(r, Head(q)) \o Tail(q) = r \o q
<1> DEFINE a == Append(r, Head(q))
           t == Tail(q)
<1>1. /\ Len(q) \in Nat \ {0} /\ Head(q) \in S /\ Head(q) = q[1]
      /\ t \in Seq(S) /\ Len(t) = Len(q) - 1
      /\ \A i \in 1 .. Len(t) : t[i] = q[i + 1]
  BY EmptySeq, LenProperties, HeadTailProperties
<1>2. /\ Len(r) \in Nat /\ a \in Seq(S) /\ Len(a) = Len(r) + 1 /\ a[Len(r) + 1] = q[1]
      /\ \A i \in 1 .. Len(r) : a[i] = r[i]
  BY <1>1, LenProperties, AppendProperties
<1> HIDE DEF a, t
<1>3. /\ a \o t \in Seq(S) /\ Len(a \o t) = Len(a) + Len(t)
      /\ \A i \in 1 .. Len(a) + Len(t) : (a \o t)[i] = IF i <= Len(a) THEN a[i] ELSE t[i - Len(a)]
  BY <1>1, <1>2, ConcatProperties
<1>4. /\ r \o q \in Seq(S) /\ Len(r \o q) = Len(r) + Len(q)
      /\ \A i \in 1 .. Len(r) + Len(q) : (r \o q)[i] = IF i <= Len(r) THEN r[i] ELSE q[i - Len(r)]
  BY ConcatProperties
<1>5. Len(a \o t) = Len(r \o q)
  BY <1>1, <1>2, <1>3, <1>4
<1>6. ASSUME NEW i \in 1 .. Len(a \o t) PROVE (a \o t)[i] = (r \o q)[i]
  <2>0. i \in 1 .. Len(a) + Len(t) /\ i \in 1 .. Len(r) + Len(q)
    BY <1>3, <1>4, <1>5
  <2>1. CASE i <= Len(r)
    BY <1>2, <1>3, <1>4, <2>0, <2>1
  <2>2. CASE i = Len(r) + 1
    <3>1. (a \o t)[i] = q[1]
      BY <1>2, <1>3, <2>0, <2>2
    <3>2. i - Len(r) = 1 /\ ~ (i <= Len(r))
      BY <1>2, <2>2
    <3> QED BY <1>4, <2>0, <3>1, <3>2
  <2>3. CASE i > Len(r) + 1
    <3>1. /\ ~ (i <= Len(a)) /\ ~ (i <= Len(r)) /\ i - Len(a) \in 1 .. Len(t)
          /\ (i - Len(a)) + 1 = i - Len(r)
      BY <1>1, <1>2, <2>0, <2>3
    <3>2. (a \o t)[i] = t[i - Len(a)] /\ (r \o q)[i] = q[i - Len(r)]
      BY <1>3, <1>4, <2>0, <3>1
    <3> QED BY <1>1, <3>1, <3>2
  <2> QED BY <1>2, <2>0, <2>1, <2>2, <2>3
<1>7. a \o t = r \o q
  BY <1>3, <1>4, <1>5, <1>6, SeqEqual
<1> QED BY <1>7 DEF a, t

(***************************************************************************)
(* What the task appends to the queue comes after all that was received.   *)
(***************************************************************************)
LEMMA JoinedLast ==
    ASSUME NEW S, NEW r \in Seq(S), NEW q \in Seq(S), NEW e \in S
    PROVE  r \o Append(q, e) = Append(r \o q, e)
<1>1. r \o q \in Seq(S) /\ <<e>> \in Seq(S)
  BY ConcatProperties
<1>2. Append(q, e) = q \o <<e>> /\ Append(r \o q, e) = (r \o q) \o <<e>>
  BY <1>1, AppendIsConcat
<1>3. (r \o q) \o <<e>> = r \o (q \o <<e>>)
  BY <1>1, ConcatAssociative
<1> QED BY <1>2, <1>3

(***************************************************************************)
(* An item arrives: what was taken before is still for the same channel.   *)
(***************************************************************************)
LEMMA RoutedArrive ==
    ASSUME NEW items \in Seq(Numbers), NEW ids \in Seq(Ids), NEW x \in Ids,
           NEW c, NEW n \in Nat, n <= Len(ids), NEW st, NEW open,
           Routed(items, ids, c, n, st, open)
    PROVE  Routed(items, Append(ids, x), c, n, st, open)
<1> DEFINE more == Append(ids, x)
<1>1. \A m \in 1 .. Len(ids) : more[m] = ids[m]
  BY AppendProperties
<1>2. Len(ids) \in Nat /\ Len(items) \in Nat
  BY LenProperties
<1>3. \A i \in 1 .. Len(items) : items[i] \in Nat \ {0}
  BY ElementOfSeq DEF Numbers
<1> HIDE DEF more
<1>4. InOrder(items, more, c, n)
  <2>1. ASSUME NEW i \in 1 .. Len(items) PROVE items[i] <= n /\ more[items[i]] = c
    <3>1. items[i] <= n /\ ids[items[i]] = c
      BY DEF Routed, InOrder
    <3>2. items[i] \in 1 .. Len(ids)
      BY <1>2, <1>3, <3>1
    <3> QED BY <1>1, <3>1, <3>2
  <2> QED BY <2>1 DEF Routed, InOrder
<1>5. ASSUME open = "open", items # <<>>, st # "cancelled"
      PROVE  Complete(items, more, c, n, st)
  <2>1. Complete(items, ids, c, n, st)
    BY <1>5 DEF Routed
  <2>2. items[1] \in Nat \ {0}
    BY <1>2, <1>3, <1>5, EmptySeq
  <2>3. ASSUME NEW m \in items[1] .. n PROVE more[m] = ids[m]
    BY <1>1, <1>2, <2>2
  <2> QED BY <2>1, <2>3 DEF Complete
<1> QED BY <1>4, <1>5 DEF Routed, more

(***************************************************************************)
(* The task takes an item: if it is for a channel that is open, the task   *)
(* keeps it for that channel.                                              *)
(***************************************************************************)
LEMMA RoutedLookup ==
    ASSUME NEW items \in Seq(Numbers), NEW ids, NEW c, NEW n \in Nat, NEW st, NEW open,
           Routed(items, ids, c, n, "reading", open),
           ids[n + 1] = c /\ open = "open" => st = "sending"
    PROVE  Routed(items, ids, c, n + 1, st, open)
<1>1. Len(items) \in Nat /\ \A i \in 1 .. Len(items) : items[i] \in Nat \ {0}
  BY LenProperties, ElementOfSeq DEF Numbers
<1>2. \A i \in 1 .. Len(items) : items[i] <= n /\ ids[items[i]] = c
  BY DEF Routed, InOrder
<1>3. InOrder(items, ids, c, n + 1) /\ ~ Among(n + 1, items)
  BY <1>1, <1>2 DEF Routed, InOrder, Among
<1>4. ASSUME open = "open", items # <<>> PROVE Complete(items, ids, c, n + 1, st)
  <2>1. Complete(items, ids, c, n, "reading")
    BY <1>4 DEF Routed
  <2>2. items[1] \in Nat
    BY <1>1, <1>4, EmptySeq
  <2>3. ASSUME NEW m \in items[1] .. (n + 1), ids[m] = c
        PROVE  Among(m, items) \/ (st # "reading" /\ m = n + 1)
    <3>1. CASE m = n + 1
      BY <1>4, <2>3, <3>1
    <3>2. CASE m # n + 1
      <4>1. m \in items[1] .. n
        BY <2>2, <3>2
      <4> QED BY <2>1, <2>3, <4>1 DEF Complete
    <3> QED BY <3>1, <3>2
  <2> QED BY <2>3 DEF Complete
<1> QED BY <1>3, <1>4 DEF Routed

(***************************************************************************)
(* The send succeeds: the item joins the others, as the last one.          *)
(***************************************************************************)
LEMMA RoutedDeliver ==
    ASSUME NEW items \in Seq(Numbers), NEW ids, NEW c, NEW n \in Numbers, ids[n] = c,
           Routed(items, ids, c, n, "sending", "open")
    PROVE  Routed(Append(items, n), ids, c, n, "reading", "open")
<1> DEFINE more == Append(items, n)
<1>1. /\ Len(items) \in Nat /\ Len(more) = Len(items) + 1 /\ more[Len(items) + 1] = n
      /\ \A i \in 1 .. Len(items) : more[i] = items[i] /\ items[i] \in Numbers
      /\ more # <<>> /\ n \in Nat
  BY LenProperties, ElementOfSeq, AppendProperties, EmptySeq DEF Numbers
<1> HIDE DEF more
<1>2. /\ \A i \in 1 .. Len(items) : items[i] <= n /\ ids[items[i]] = c /\ items[i] # n
      /\ \A i, j \in 1 .. Len(items) : i < j => items[i] < items[j]
  BY DEF Routed, InOrder, Among
<1>3. \A i \in 1 .. Len(more) : more[i] <= n /\ ids[more[i]] = c
  BY <1>1, <1>2
<1>4. ASSUME NEW i \in 1 .. Len(more), NEW j \in 1 .. Len(more), i < j
      PROVE  more[i] < more[j]
  <2>1. i \in 1 .. Len(items) /\ more[i] = items[i]
    BY <1>1, <1>4
  <2>2. CASE j = Len(items) + 1
    <3>1. items[i] <= n /\ items[i] # n /\ items[i] \in Int /\ n \in Int
      BY <1>1, <1>2, <2>1 DEF Numbers
    <3> QED BY <1>1, <2>1, <2>2, <3>1
  <2>3. CASE j # Len(items) + 1
    <3>1. j \in 1 .. Len(items) /\ more[j] = items[j]
      BY <1>1, <2>3
    <3> QED BY <1>2, <1>4, <2>1, <3>1
  <2> QED BY <2>2, <2>3
<1>5. Among(n, more)
  BY <1>1 DEF Among
<1>6. Complete(more, ids, c, n, "reading")
  <2>1. CASE items = <<>>
    <3>1. more[1] = n
      BY <1>1, <2>1
    <3> QED BY <1>1, <1>5, <3>1 DEF Complete
  <2>2. CASE items # <<>>
    <3>1. Complete(items, ids, c, n, "sending")
      BY <2>2 DEF Routed
    <3>2. more[1] = items[1]
      BY <1>1, <2>2, EmptySeq
    <3>3. ASSUME NEW m, Among(m, items) PROVE Among(m, more)
      BY <1>1, <3>3 DEF Among
    <3> QED BY <1>5, <3>1, <3>2, <3>3 DEF Complete
  <2> QED BY <2>1, <2>2
<1> QED BY <1>1, <1>3, <1>4, <1>6 DEF Routed, InOrder, more

(***************************************************************************)
(* The other channels do not miss the item that was delivered.             *)
(***************************************************************************)
LEMMA RoutedElsewhere ==
    ASSUME NEW items, NEW ids, NEW c, NEW n, NEW open, ids[n] # c,
           Routed(items, ids, c, n, "sending", open)
    PROVE  Routed(items, ids, c, n, "reading", open)
BY DEF Routed, Complete

(***************************************************************************)
(* The task ends, or is cancelled.                                         *)
(***************************************************************************)
LEMMA RoutedEnds ==
    ASSUME NEW items, NEW ids, NEW c, NEW n, NEW open, NEW old,
           Routed(items, ids, c, n, old, open), NEW st \in {"ended", "cancelled"},
           old = "cancelled" => st = "cancelled"
    PROVE  Routed(items, ids, c, n, st, open)
BY DEF Routed, Complete

(***************************************************************************)
(* The channel is registered.                                              *)
(***************************************************************************)
LEMMA RoutedRegister ==
    ASSUME NEW items, NEW ids, NEW c, NEW n, NEW st, Routed(items, ids, c, n, st, "none")
    PROVE  Routed(items, ids, c, n, st, "open")
BY DEF Routed

(***************************************************************************)
(* The channel is dropped, and what is in its queue is lost.               *)
(***************************************************************************)
LEMMA RoutedDropped ==
    ASSUME NEW r \in Seq(Numbers), NEW q \in Seq(Numbers), NEW ids, NEW c, NEW n, NEW st,
           NEW old, Routed(r \o q, ids, c, n, st, old), NEW open \in {"closing", "dropped"}
    PROVE  Routed(r, ids, c, n, st, open)
<1> DEFINE items == r \o q
<1>1. /\ Len(r) \in Nat /\ Len(q) \in Nat /\ Len(items) = Len(r) + Len(q)
      /\ \A i \in 1 .. Len(r) : items[i] = r[i]
  BY ConcatProperties, LenProperties
<1> HIDE DEF items
<1>2. 1 .. Len(r) \subseteq 1 .. Len(items)
  BY <1>1
<1>3. InOrder(items, ids, c, n) /\ (st = "sending" => ~ Among(n, items))
  BY DEF Routed, items
<1>4. InOrder(r, ids, c, n) /\ (st = "sending" => ~ Among(n, r))
  BY <1>1, <1>2, <1>3 DEF InOrder, Among
<1> QED BY <1>4 DEF Routed

-----------------------------------------------------------------------------
(***************************************************************************)
(* What the invariant says of one task and one channel.                    *)
(***************************************************************************)
LEMMA Known ==
    ASSUME IInv, NEW k \in Kinds, NEW c \in Channels
    PROVE  /\ arrived[k] \in Seq(Ids) /\ Len(arrived[k]) \in Nat /\ taken[k] \in Nat
           /\ TaskInv(k) /\ taken[k] <= Len(arrived[k]) /\ Len(arrived[k]) <= MaxItems
           /\ queue[k] \in [Channels -> Seq(Numbers)] /\ queue[k][c] \in Seq(Numbers)
           /\ received[k] \in [Channels -> Seq(Numbers)] /\ received[k][c] \in Seq(Numbers)
           /\ Items(k, c) \in Seq(Numbers) /\ Len(queue[k][c]) <= Capacity
           /\ Routed(Items(k, c), arrived[k], c, taken[k], task[k], channel[c])
<1>1. /\ arrived \in [Kinds -> Seq(Ids)] /\ taken \in [Kinds -> Nat]
      /\ queue \in [Kinds -> [Channels -> Seq(Numbers)]]
      /\ received \in [Kinds -> [Channels -> Seq(Numbers)]]
  BY DEF IInv, Types
<1>2. /\ queue[k] \in [Channels -> Seq(Numbers)] /\ received[k] \in [Channels -> Seq(Numbers)]
      /\ arrived[k] \in Seq(Ids) /\ taken[k] \in Nat
  BY <1>1, Zenon
<1>3. queue[k][c] \in Seq(Numbers) /\ received[k][c] \in Seq(Numbers)
  BY <1>2, Zenon
<1>4. Items(k, c) \in Seq(Numbers)
  BY <1>3, ConcatProperties DEF Items
<1>5. TaskInv(k) /\ RouteInv(k, c)
  BY DEF IInv
<1> QED BY <1>2, <1>3, <1>4, <1>5, LenProperties DEF TaskInv, RouteInv

\* A step that concerns another task, or another channel.
LEMMA RouteSame ==
    ASSUME IInv, NEW k \in Kinds, NEW c \in Channels,
           UNCHANGED <<arrived[k], taken[k], task[k], channel[c], queue[k][c], received[k][c]>>
    PROVE  RouteInv(k, c)'
BY DEF IInv, RouteInv, Items

LEMMA TaskSame ==
    ASSUME IInv, NEW k \in Kinds, UNCHANGED <<arrived[k], taken[k], task[k]>>,
           \A c \in Channels : channel'[c] = "none" => channel[c] = "none"
    PROVE  TaskInv(k)'
BY DEF IInv, TaskInv, Destination

LEMMA HarmlessSame ==
    ASSUME IInv, conn = "closed" => conn' = "closed",
           "datagram" \in Kinds =>
              UNCHANGED <<arrived["datagram"], taken["datagram"], task["datagram"]>>,
           \A c \in Channels : channel[c] \in {"closing", "dropped"} =>
                                  channel'[c] \in {"closing", "dropped"}
    PROVE  UnknownDatagramsHarmless'
BY DEF IInv, UnknownDatagramsHarmless, Destination

(***************************************************************************)
(* A channel is registered.                                                *)
(***************************************************************************)
LEMMA RegisterStep ==
    ASSUME IInv, NEW c \in Channels, Register(c)
    PROVE  IInv'
<1>1. /\ channel[c] = "none" /\ channel' = [channel EXCEPT ![c] = "open"]
      /\ UNCHANGED <<conn, arrived, taken, task, queue, received>>
  BY DEF Register
<1>2. channel \in [Channels -> ChannelStates]
  BY DEF IInv, Types
<1>3. /\ channel' \in [Channels -> ChannelStates] /\ channel'[c] = "open"
      /\ \A d \in Channels \ {c} : channel'[d] = channel[d]
  BY <1>1, <1>2 DEF ChannelStates
<1>4. Types'
  BY <1>1, <1>3 DEF IInv, Types
<1>5. ASSUME NEW k \in Kinds PROVE TaskInv(k)'
  BY <1>1, <1>3, TaskSame
<1>6. ASSUME NEW k \in Kinds, NEW d \in Channels PROVE RouteInv(k, d)'
  <2>1. CASE d = c
    <3>1. Routed(Items(k, c), arrived[k], c, taken[k], task[k], "none")
      BY <1>1, Known
    <3>2. Routed(Items(k, c), arrived[k], c, taken[k], task[k], "open")
      BY <3>1, RoutedRegister
    <3> QED BY <1>1, <1>3, <2>1, <3>2, Known DEF RouteInv, Items
  <2>2. CASE d # c
    BY <1>1, <1>3, <2>2, RouteSame
  <2> QED BY <2>1, <2>2
<1>7. UnknownDatagramsHarmless'
  BY <1>1, <1>3, HarmlessSame
<1> QED BY <1>4, <1>5, <1>6, <1>7 DEF IInv

(***************************************************************************)
(* The receivers of a channel are dropped with all that is in its queues.  *)
(***************************************************************************)
LEMMA DropReceiversStep ==
    ASSUME IInv, NEW c \in Channels, DropReceivers(c)
    PROVE  IInv'
<1>1. /\ channel[c] = "open" /\ channel' = [channel EXCEPT ![c] = "closing"]
      /\ queue' = [k \in Kinds |-> [queue[k] EXCEPT ![c] = <<>>]]
      /\ UNCHANGED <<conn, arrived, taken, task, received>>
  BY DEF DropReceivers
<1>2. channel \in [Channels -> ChannelStates]
  BY DEF IInv, Types
<1>3. /\ channel' \in [Channels -> ChannelStates] /\ channel'[c] = "closing"
      /\ \A d \in Channels \ {c} : channel'[d] = channel[d]
  BY <1>1, <1>2 DEF ChannelStates
<1>4. ASSUME NEW k \in Kinds
      PROVE  /\ queue'[k] \in [Channels -> Seq(Numbers)] /\ queue'[k][c] = <<>>
             /\ \A d \in Channels \ {c} : queue'[k][d] = queue[k][d]
  <2>1. queue[k] \in [Channels -> Seq(Numbers)] /\ queue'[k] = [queue[k] EXCEPT ![c] = <<>>]
    BY <1>1, Known
  <2>2. <<>> \in Seq(Numbers)
    BY EmptySeq
  <2> QED BY <2>1, <2>2
<1>5. Types'
  <2>1. queue' \in [Kinds -> [Channels -> Seq(Numbers)]]
    BY <1>1, <1>4
  <2> QED BY <1>1, <1>3, <2>1 DEF IInv, Types
<1>6. ASSUME NEW k \in Kinds PROVE TaskInv(k)'
  BY <1>1, <1>3, TaskSame
<1>7. ASSUME NEW k \in Kinds, NEW d \in Channels PROVE RouteInv(k, d)'
  <2>1. CASE d = c
    <3>1. /\ received[k][c] \in Seq(Numbers) /\ queue[k][c] \in Seq(Numbers)
          /\ Routed(Items(k, c), arrived[k], c, taken[k], task[k], "open")
      BY <1>1, Known
    <3>2. Routed(received[k][c], arrived[k], c, taken[k], task[k], "closing")
      BY <3>1, RoutedDropped DEF Items
    <3>3. Items(k, c)' = received[k][c]
      BY <1>1, <1>4, <3>1, ConcatEmptySeq DEF Items
    <3>4. Len(queue'[k][c]) <= Capacity
      BY <1>4, EmptySeq
    <3> QED BY <1>1, <1>3, <2>1, <3>2, <3>3, <3>4 DEF RouteInv
  <2>2. CASE d # c
    BY <1>1, <1>3, <1>4, <2>2, RouteSame
  <2> QED BY <2>1, <2>2
<1>8. UnknownDatagramsHarmless'
  BY <1>1, <1>3, HarmlessSame
<1> QED BY <1>5, <1>6, <1>7, <1>8 DEF IInv

(***************************************************************************)
(* The dropper removes the id from the map.                                *)
(***************************************************************************)
LEMMA UnregisterStep ==
    ASSUME IInv, NEW c \in Channels, Unregister(c)
    PROVE  IInv'
<1>1. /\ channel[c] = "closing" /\ channel' = [channel EXCEPT ![c] = "dropped"]
      /\ UNCHANGED <<conn, arrived, taken, task, queue, received>>
  BY DEF Unregister
<1>2. channel \in [Channels -> ChannelStates]
  BY DEF IInv, Types
<1>3. /\ channel' \in [Channels -> ChannelStates] /\ channel'[c] = "dropped"
      /\ \A d \in Channels \ {c} : channel'[d] = channel[d]
  BY <1>1, <1>2 DEF ChannelStates
<1>4. Types'
  BY <1>1, <1>3 DEF IInv, Types
<1>5. ASSUME NEW k \in Kinds PROVE TaskInv(k)'
  BY <1>1, <1>3, TaskSame
<1>6. ASSUME NEW k \in Kinds, NEW d \in Channels PROVE RouteInv(k, d)'
  <2>1. CASE d = c
    <3>1. Routed(Items(k, c), arrived[k], c, taken[k], task[k], "closing")
      BY <1>1, Known
    <3>2. Routed(Items(k, c), arrived[k], c, taken[k], task[k], "dropped")
      BY <3>1 DEF Routed
    <3> QED BY <1>1, <1>3, <2>1, <3>2, Known DEF RouteInv, Items
  <2>2. CASE d # c
    BY <1>1, <1>3, <2>2, RouteSame
  <2> QED BY <2>1, <2>2
<1>7. UnknownDatagramsHarmless'
  BY <1>1, <1>3, HarmlessSame
<1> QED BY <1>4, <1>5, <1>6, <1>7 DEF IInv

(***************************************************************************)
(* The peer sends a stream or a datagram.                                  *)
(***************************************************************************)
LEMMA ArriveStep ==
    ASSUME IInv, NEW k \in Kinds, NEW x \in Ids, Arrive(k, x)
    PROVE  IInv'
<1>1. /\ Len(arrived[k]) < MaxItems
      /\ arrived' = [arrived EXCEPT ![k] = Append(@, x)]
      /\ UNCHANGED <<conn, channel, taken, task, queue, received>>
  BY DEF Arrive
<1>2. arrived \in [Kinds -> Seq(Ids)] /\ arrived[k] \in Seq(Ids)
  BY DEF IInv, Types
<1>3. /\ arrived'[k] = Append(arrived[k], x)
      /\ \A h \in Kinds \ {k} : arrived'[h] = arrived[h]
  BY <1>1, <1>2
<1>4. /\ Append(arrived[k], x) \in Seq(Ids) /\ Len(arrived[k]) \in Nat
      /\ Len(arrived'[k]) = Len(arrived[k]) + 1
      /\ \A n \in 1 .. Len(arrived[k]) : arrived'[k][n] = arrived[k][n]
  BY <1>2, <1>3, AppendProperties, LenProperties
<1>5. Types'
  <2>1. arrived' \in [Kinds -> Seq(Ids)]
    BY <1>1, <1>2, <1>4
  <2> QED BY <1>1, <2>1 DEF IInv, Types
<1>6. TaskInv(k) /\ taken[k] \in Nat /\ taken[k] <= Len(arrived[k])
  BY DEF IInv, Types, TaskInv
<1>7. taken[k] > 0 => Destination(k)' = Destination(k)
  BY <1>1, <1>4, <1>6 DEF Destination
<1>8. ASSUME NEW h \in Kinds PROVE TaskInv(h)'
  <2>1. CASE h = k
    <3>1. Len(arrived'[k]) <= MaxItems /\ taken[k] <= Len(arrived'[k])
      BY <1>1, <1>4, <1>6
    <3> QED BY <1>1, <1>6, <1>7, <2>1, <3>1 DEF TaskInv
  <2>2. CASE h # k
    BY <1>1, <1>3, <2>2, TaskSame
  <2> QED BY <2>1, <2>2
<1>9. ASSUME NEW h \in Kinds, NEW c \in Channels PROVE RouteInv(h, c)'
  <2>1. CASE h = k
    <3>1. Routed(Items(k, c), Append(arrived[k], x), c, taken[k], task[k], channel[c])
      BY <1>2, <1>6, Known, RoutedArrive
    <3> QED BY <1>1, <1>3, <2>1, <3>1, Known DEF RouteInv, Items
  <2>2. CASE h # k
    BY <1>1, <1>3, <2>2, RouteSame
  <2> QED BY <2>1, <2>2
<1>10. UnknownDatagramsHarmless'
  <2>1. CASE k = "datagram"
    BY <1>1, <1>7, <2>1 DEF IInv, UnknownDatagramsHarmless
  <2>2. CASE k # "datagram"
    BY <1>1, <1>3, <2>2, HarmlessSame
  <2> QED BY <2>1, <2>2
<1> QED BY <1>5, <1>8, <1>9, <1>10 DEF IInv

(***************************************************************************)
(* The task takes an item and looks up its id: the channel that it finds   *)
(* is registered, and every channel that is open is in the map.            *)
(***************************************************************************)
LEMMA LookupStep ==
    ASSUME IInv, NEW k \in Kinds, Lookup(k)
    PROVE  IInv'
<1> DEFINE n == taken[k] + 1
           x == arrived[k][n]
           st == CASE x = NoId -> "reading"
                   [] x \in Clients -> "sending"
                   [] OTHER -> AfterUnknown(k)
<1>1. /\ task[k] = "reading" /\ taken[k] < Len(arrived[k])
      /\ taken' = [taken EXCEPT ![k] = n]
      /\ task' = [task EXCEPT ![k] = st]
      /\ UNCHANGED <<conn, channel, arrived, queue, received>>
  BY DEF Lookup
<1>2. /\ taken \in [Kinds -> Nat] /\ task \in [Kinds -> TaskStates]
      /\ channel \in [Channels -> ChannelStates]
      /\ arrived[k] \in Seq(Ids) /\ Len(arrived[k]) \in Nat /\ TaskInv(k)
  BY LenProperties DEF IInv, Types
<1>3. n \in Nat \ {0} /\ n <= Len(arrived[k]) /\ n \in 1 .. Len(arrived[k])
  BY <1>1, <1>2
<1>4. x \in Ids
  BY <1>2, <1>3, ElementOfSeq
<1>5. /\ st \in TaskStates
      /\ st = "sending" => x \in Channels /\ channel[x] # "none"
      /\ x \in Channels /\ channel[x] = "open" => st = "sending"
      /\ k = "datagram" => st # "ended"
  <2>1. NoId \notin Clients /\ AfterUnknown(k) \in {"reading", "ended"}
    BY DEF Clients, AfterUnknown
  <2>2. CASE x = NoId
    BY <2>1, <2>2 DEF TaskStates
  <2>3. CASE x # NoId /\ x \in Clients
    BY <2>1, <2>3 DEF TaskStates, Clients
  <2>4. CASE x # NoId /\ x \notin Clients
    <3>1. st = AfterUnknown(k)
      BY <2>4
    <3>2. ~ (x \in Channels /\ channel[x] = "open")
      BY <2>4 DEF Clients
    <3>3. k = "datagram" => st = "reading"
      BY <3>1 DEF AfterUnknown
    <3> HIDE DEF st
    <3> QED BY <2>1, <3>1, <3>2, <3>3 DEF TaskStates
  <2> QED BY <2>2, <2>3, <2>4
<1> HIDE DEF st
<1>6. /\ taken'[k] = n /\ task'[k] = st
      /\ \A h \in Kinds \ {k} : taken'[h] = taken[h] /\ task'[h] = task[h]
  BY <1>1, <1>2
<1>7. Types'
  <2>1. taken' \in [Kinds -> Nat] /\ task' \in [Kinds -> TaskStates]
    BY <1>1, <1>2, <1>3, <1>5
  <2> QED BY <1>1, <2>1 DEF IInv, Types
<1>8. Destination(k)' = x
  BY <1>1, <1>6 DEF Destination
<1> HIDE DEF x
<1>9. ASSUME NEW h \in Kinds PROVE TaskInv(h)'
  <2>1. CASE h = k
    BY <1>1, <1>2, <1>3, <1>5, <1>6, <1>8, <2>1 DEF TaskInv
  <2>2. CASE h # k
    BY <1>1, <1>6, <2>2, TaskSame
  <2> QED BY <2>1, <2>2
<1>10. ASSUME NEW h \in Kinds, NEW c \in Channels PROVE RouteInv(h, c)'
  <2>1. CASE h = k
    <3>1. /\ Items(k, c) \in Seq(Numbers) /\ taken[k] \in Nat
          /\ Routed(Items(k, c), arrived[k], c, taken[k], "reading", channel[c])
      BY <1>1, Known
    <3>2. arrived[k][n] = c /\ channel[c] = "open" => st = "sending"
      BY <1>5 DEF x
    <3>3. Routed(Items(k, c), arrived[k], c, n, st, channel[c])
      BY <3>1, <3>2, RoutedLookup
    <3> HIDE DEF n
    <3> QED BY <1>1, <1>6, <2>1, <3>3, Known DEF RouteInv, Items
  <2>2. CASE h # k
    BY <1>1, <1>6, <2>2, RouteSame
  <2> QED BY <2>1, <2>2
<1>11. UnknownDatagramsHarmless'
  <2>1. CASE k = "datagram"
    BY <1>5, <1>6, <2>1 DEF UnknownDatagramsHarmless
  <2>2. CASE k # "datagram"
    BY <1>1, <1>6, <2>2, HarmlessSame
  <2> QED BY <2>1, <2>2
<1> QED BY <1>7, <1>9, <1>10, <1>11 DEF IInv

(***************************************************************************)
(* The send succeeds.                                                      *)
(***************************************************************************)
LEMMA DeliverStep ==
    ASSUME IInv, NEW k \in Kinds, Deliver(k)
    PROVE  IInv'
<1>d. PICK c : c = Destination(k)
  OBVIOUS
<1>n. PICK n : n = taken[k]
  OBVIOUS
<1>1. /\ task[k] = "sending" /\ channel[c] = "open" /\ Len(queue[k][c]) < Capacity
      /\ queue' = [queue EXCEPT ![k][c] = Append(@, n)]
      /\ task' = [task EXCEPT ![k] = "reading"]
      /\ UNCHANGED <<conn, channel, arrived, taken, received>>
  BY <1>d, <1>n DEF Deliver
<1>2. /\ task \in [Kinds -> TaskStates] /\ queue \in [Kinds -> [Channels -> Seq(Numbers)]]
      /\ TaskInv(k) /\ taken[k] \in Nat /\ Len(arrived[k]) \in Nat
  BY LenProperties DEF IInv, Types
<1>3. c \in Channels /\ n \in Numbers
  BY <1>d, <1>n, <1>1, <1>2 DEF TaskInv, Numbers
<1>4. arrived[k][n] = c
  BY <1>d, <1>n DEF Destination
<1>5. /\ task'[k] = "reading" /\ task' \in [Kinds -> TaskStates]
      /\ \A h \in Kinds \ {k} : task'[h] = task[h]
  BY <1>1, <1>2 DEF TaskStates
<1>6. /\ queue[k] \in [Channels -> Seq(Numbers)] /\ queue[k][c] \in Seq(Numbers)
      /\ received[k][c] \in Seq(Numbers)
  BY <1>3, Known
<1>7. /\ Append(queue[k][c], n) \in Seq(Numbers)
      /\ Len(Append(queue[k][c], n)) = Len(queue[k][c]) + 1 /\ Len(queue[k][c]) \in Nat
  BY <1>3, <1>6, AppendProperties, LenProperties
<1>8. /\ queue'[k] = [queue[k] EXCEPT ![c] = Append(queue[k][c], n)]
      /\ queue' = [queue EXCEPT ![k] = queue'[k]]
      /\ \A h \in Kinds \ {k} : queue'[h] = queue[h]
  BY <1>1, <1>2
<1>9. /\ queue'[k] \in [Channels -> Seq(Numbers)] /\ queue'[k][c] = Append(queue[k][c], n)
      /\ \A d \in Channels \ {c} : queue'[k][d] = queue[k][d]
  BY <1>3, <1>6, <1>7, <1>8
<1>10. Types'
  <2>1. queue' \in [Kinds -> [Channels -> Seq(Numbers)]]
    BY <1>2, <1>8, <1>9
  <2> QED BY <1>1, <1>5, <2>1 DEF IInv, Types
<1>11. ASSUME NEW h \in Kinds PROVE TaskInv(h)'
  <2>1. CASE h = k
    BY <1>1, <1>2, <1>5, <2>1 DEF TaskInv
  <2>2. CASE h # k
    BY <1>1, <1>5, <2>2, TaskSame
  <2> QED BY <2>1, <2>2
<1>12. ASSUME NEW h \in Kinds, NEW d \in Channels PROVE RouteInv(h, d)'
  <2>1. CASE h = k /\ d = c
    <3>1. /\ Items(k, c) \in Seq(Numbers)
          /\ Routed(Items(k, c), arrived[k], c, n, "sending", "open")
      BY <1>n, <1>1, <1>3, Known
    <3>2. Routed(Append(Items(k, c), n), arrived[k], c, n, "reading", "open")
      BY <1>3, <1>4, <3>1, RoutedDeliver
    <3>3. Items(k, c)' = Append(Items(k, c), n)
      <4>1. received[k][c] \o Append(queue[k][c], n) = Append(received[k][c] \o queue[k][c], n)
        <5>1. \A r, q \in Seq(Numbers) : \A e \in Numbers : r \o Append(q, e) = Append(r \o q, e)
          BY JoinedLast
        <5> QED BY <1>3, <1>6, <5>1
      <4> QED BY <1>1, <1>9, <4>1 DEF Items
    <3>4. Len(queue'[k][c]) <= Capacity
      BY <1>1, <1>7, <1>9
    <3> QED BY <1>n, <1>1, <1>5, <2>1, <3>2, <3>3, <3>4 DEF RouteInv
  <2>2. CASE h = k /\ d # c
    <3>1. Routed(Items(k, d), arrived[k], d, n, "sending", channel[d])
      BY <1>n, <1>1, Known
    <3>2. Routed(Items(k, d), arrived[k], d, n, "reading", channel[d])
      BY <1>4, <2>2, <3>1, RoutedElsewhere
    <3> QED BY <1>n, <1>1, <1>5, <1>9, <2>2, <3>2, Known DEF RouteInv, Items
  <2>3. CASE h # k
    BY <1>1, <1>5, <1>8, <2>3, RouteSame
  <2> QED BY <2>1, <2>2, <2>3
<1>13. UnknownDatagramsHarmless'
  <2>1. CASE k = "datagram"
    BY <1>5, <2>1 DEF UnknownDatagramsHarmless
  <2>2. CASE k # "datagram"
    BY <1>1, <1>5, <2>2, HarmlessSame
  <2> QED BY <2>1, <2>2
<1> QED BY <1>10, <1>11, <1>12, <1>13 DEF IInv

(***************************************************************************)
(* A task ends, with an error of its own or of the connection.             *)
(***************************************************************************)
LEMMA EndsStep ==
    ASSUME IInv, NEW k \in Kinds, SendFails(k) \/ ReadFails(k)
    PROVE  IInv'
<1>1. /\ task[k] \in {"reading", "sending"} /\ task' = [task EXCEPT ![k] = "ended"]
      /\ UNCHANGED <<conn, channel, arrived, taken, queue, received>>
  BY DEF SendFails, ReadFails
<1>2. task \in [Kinds -> TaskStates] /\ TaskInv(k)
  BY DEF IInv, Types
<1>3. /\ task'[k] = "ended" /\ task' \in [Kinds -> TaskStates]
      /\ \A h \in Kinds \ {k} : task'[h] = task[h]
  BY <1>1, <1>2 DEF TaskStates
<1>4. Types'
  BY <1>1, <1>3 DEF IInv, Types
<1>5. ASSUME NEW h \in Kinds PROVE TaskInv(h)'
  <2>1. CASE h = k
    BY <1>1, <1>2, <1>3, <2>1 DEF TaskInv
  <2>2. CASE h # k
    BY <1>1, <1>3, <2>2, TaskSame
  <2> QED BY <2>1, <2>2
<1>6. ASSUME NEW h \in Kinds, NEW c \in Channels PROVE RouteInv(h, c)'
  <2>1. CASE h = k
    <3>1. Routed(Items(k, c), arrived[k], c, taken[k], task[k], channel[c])
      BY Known
    <3>2. task[k] # "cancelled"
      BY <1>1
    <3>3. Routed(Items(k, c), arrived[k], c, taken[k], "ended", channel[c])
      BY <3>1, <3>2, RoutedEnds
    <3> QED BY <1>1, <1>3, <2>1, <3>3, Known DEF RouteInv, Items
  <2>2. CASE h # k
    BY <1>1, <1>3, <2>2, RouteSame
  <2> QED BY <2>1, <2>2
<1>7. UnknownDatagramsHarmless'
  <2>1. CASE k = "datagram" /\ SendFails(k)
    <3>1. task[k] = "sending" /\ channel[Destination(k)] # "open"
      BY <2>1 DEF SendFails
    <3>2. taken[k] > 0 /\ Destination(k) \in Channels /\ channel[Destination(k)] # "none"
      BY <1>2, <3>1 DEF TaskInv
    <3>3. channel[Destination(k)] \in {"closing", "dropped"}
      BY <3>1, <3>2 DEF IInv, Types, ChannelStates
    <3> QED BY <1>1, <2>1, <3>2, <3>3 DEF UnknownDatagramsHarmless, Destination
  <2>2. CASE k = "datagram" /\ ReadFails(k)
    BY <2>2 DEF ReadFails, UnknownDatagramsHarmless
  <2>3. CASE k # "datagram"
    BY <1>1, <1>3, <2>3, HarmlessSame
  <2> QED BY <2>1, <2>2, <2>3
<1> QED BY <1>4, <1>5, <1>6, <1>7 DEF IInv

(***************************************************************************)
(* The owner of a channel receives the item at the head of its queue.      *)
(***************************************************************************)
LEMMA RecvStep ==
    ASSUME IInv, NEW k \in Kinds, NEW c \in Channels, Recv(k, c)
    PROVE  IInv'
<1>1. /\ queue[k][c] # <<>>
      /\ received' = [received EXCEPT ![k][c] = Append(@, Head(queue[k][c]))]
      /\ queue' = [queue EXCEPT ![k][c] = Tail(@)]
      /\ UNCHANGED <<conn, channel, arrived, taken, task>>
  BY DEF Recv
<1>2. /\ queue \in [Kinds -> [Channels -> Seq(Numbers)]]
      /\ received \in [Kinds -> [Channels -> Seq(Numbers)]]
  BY DEF IInv, Types
<1>3. /\ queue[k] \in [Channels -> Seq(Numbers)] /\ queue[k][c] \in Seq(Numbers)
      /\ received[k] \in [Channels -> Seq(Numbers)] /\ received[k][c] \in Seq(Numbers)
      /\ Len(queue[k][c]) <= Capacity
  BY Known
<1>4. /\ Tail(queue[k][c]) \in Seq(Numbers) /\ Head(queue[k][c]) \in Numbers
      /\ Len(Tail(queue[k][c])) = Len(queue[k][c]) - 1 /\ Len(queue[k][c]) \in Nat
  BY <1>1, <1>3, HeadTailProperties, LenProperties
<1>5. Append(received[k][c], Head(queue[k][c])) \in Seq(Numbers)
  BY <1>3, <1>4, AppendProperties
<1>6. /\ queue' = [queue EXCEPT ![k] = queue'[k]]
      /\ queue'[k] = [queue[k] EXCEPT ![c] = Tail(queue[k][c])]
      /\ received' = [received EXCEPT ![k] = received'[k]]
      /\ received'[k] = [received[k] EXCEPT ![c] = Append(received[k][c], Head(queue[k][c]))]
      /\ \A h \in Kinds \ {k} : queue'[h] = queue[h] /\ received'[h] = received[h]
  BY <1>1, <1>2
<1>7. /\ queue'[k] \in [Channels -> Seq(Numbers)] /\ queue'[k][c] = Tail(queue[k][c])
      /\ \A d \in Channels \ {c} : queue'[k][d] = queue[k][d]
  BY <1>3, <1>4, <1>6
<1>8. /\ received'[k] \in [Channels -> Seq(Numbers)]
      /\ received'[k][c] = Append(received[k][c], Head(queue[k][c]))
      /\ \A d \in Channels \ {c} : received'[k][d] = received[k][d]
  BY <1>3, <1>5, <1>6
<1>9. Types'
  <2>1. queue' \in [Kinds -> [Channels -> Seq(Numbers)]]
    BY <1>2, <1>6, <1>7
  <2>2. received' \in [Kinds -> [Channels -> Seq(Numbers)]]
    BY <1>2, <1>6, <1>8
  <2> QED BY <1>1, <2>1, <2>2 DEF IInv, Types
<1>10. ASSUME NEW h \in Kinds PROVE TaskInv(h)'
  BY <1>1, TaskSame
<1>11. ASSUME NEW h \in Kinds, NEW d \in Channels PROVE RouteInv(h, d)'
  <2>1. CASE h = k /\ d = c
    <3>1. \A r, q \in Seq(Numbers) : q # <<>> => Append(r, Head(q)) \o Tail(q) = r \o q
      BY Moved
    <3>2. Items(k, c)' = Items(k, c)
      <4>1. /\ received[k][c] \in Seq(Numbers) /\ queue[k][c] \in Seq(Numbers)
            /\ queue[k][c] # <<>>
        BY <1>1, <1>3
      <4>2. Append(received[k][c], Head(queue[k][c])) \o Tail(queue[k][c])
               = received[k][c] \o queue[k][c]
        BY <3>1, <4>1, Zenon
      <4> QED BY <1>7, <1>8, <4>2, Zenon DEF Items
    <3>3. Len(queue'[k][c]) <= Capacity
      BY <1>3, <1>4, <1>7
    <3>4. Routed(Items(k, c), arrived[k], c, taken[k], task[k], channel[c])
      BY Known
    <3> QED BY <1>1, <2>1, <3>2, <3>3, <3>4 DEF RouteInv
  <2>2. CASE h = k /\ d # c
    BY <1>1, <1>7, <1>8, <2>2, RouteSame
  <2>3. CASE h # k
    BY <1>1, <1>6, <2>3, RouteSame
  <2> QED BY <2>1, <2>2, <2>3
<1>12. UnknownDatagramsHarmless'
  BY <1>1, HarmlessSame
<1> QED BY <1>9, <1>10, <1>11, <1>12 DEF IInv

(***************************************************************************)
(* The connection is closed; the router is dropped.                        *)
(***************************************************************************)
LEMMA CloseStep ==
    ASSUME IInv, Close \/ UNCHANGED vars
    PROVE  IInv'
<1>1. /\ conn' \in {conn, "closed"}
      /\ UNCHANGED <<channel, arrived, taken, task, queue, received>>
  BY DEF Close, vars
<1>2. Types'
  BY <1>1 DEF IInv, Types
<1>3. ASSUME NEW h \in Kinds PROVE TaskInv(h)'
  BY <1>1, TaskSame
<1>4. ASSUME NEW h \in Kinds, NEW d \in Channels PROVE RouteInv(h, d)'
  BY <1>1, RouteSame
<1>5. UnknownDatagramsHarmless'
  BY <1>1, HarmlessSame
<1> QED BY <1>2, <1>3, <1>4, <1>5 DEF IInv

LEMMA DropStep ==
    ASSUME IInv, Drop
    PROVE  IInv'
<1>1. /\ conn' = "closed" /\ task' = [k \in Kinds |-> "cancelled"]
      /\ UNCHANGED <<channel, arrived, taken, queue, received>>
  BY DEF Drop
<1>2. Types'
  BY <1>1 DEF IInv, Types, TaskStates
<1>3. ASSUME NEW k \in Kinds PROVE TaskInv(k)'
  <2>1. TaskInv(k) /\ task'[k] = "cancelled"
    BY <1>1 DEF IInv
  <2> QED BY <1>1, <2>1 DEF TaskInv
<1>4. ASSUME NEW k \in Kinds, NEW c \in Channels PROVE RouteInv(k, c)'
  <2>1. Routed(Items(k, c), arrived[k], c, taken[k], task[k], channel[c])
    BY Known
  <2>2. Routed(Items(k, c), arrived[k], c, taken[k], "cancelled", channel[c])
    BY <2>1, RoutedEnds
  <2> QED BY <1>1, <2>2, Known DEF RouteInv, Items
<1>5. UnknownDatagramsHarmless'
  BY <1>1 DEF UnknownDatagramsHarmless
<1> QED BY <1>2, <1>3, <1>4, <1>5 DEF IInv

-----------------------------------------------------------------------------
(***************************************************************************)
(* Nothing has arrived, and no channel is registered.                      *)
(***************************************************************************)
LEMMA Initially == Init => IInv
<1> SUFFICES ASSUME Init PROVE IInv
  OBVIOUS
<1>0. <<>> \in Seq(Ids) /\ <<>> \in Seq(Numbers) /\ Len(<<>>) = 0
  BY EmptySeq
<1>1. Types
  BY <1>0 DEF Init, Types, ChannelStates, TaskStates
<1>2. ASSUME NEW k \in Kinds PROVE TaskInv(k)
  <2>1. arrived[k] = <<>> /\ taken[k] = 0 /\ task[k] = "reading"
    BY DEF Init
  <2> QED BY <1>0, <2>1 DEF TaskInv
<1>3. ASSUME NEW k \in Kinds, NEW c \in Channels PROVE RouteInv(k, c)
  <2>1. queue[k][c] = <<>> /\ received[k][c] = <<>> /\ task[k] = "reading"
    BY DEF Init
  <2>2. Items(k, c) = <<>>
    BY <1>0, <2>1, ConcatEmptySeq DEF Items
  <2>3. InOrder(<<>>, arrived[k], c, taken[k])
    BY <1>0 DEF InOrder
  <2> QED BY <1>0, <2>1, <2>2, <2>3 DEF RouteInv, Routed
<1>4. UnknownDatagramsHarmless
  BY DEF Init, UnknownDatagramsHarmless
<1> QED BY <1>1, <1>2, <1>3, <1>4 DEF IInv

LEMMA Invariant == Spec => []IInv
<1>1. Init => IInv
  BY Initially
<1>2. IInv /\ [Next]_vars => IInv'
  <2> SUFFICES ASSUME IInv, [Next]_vars PROVE IInv'
    OBVIOUS
  <2>1. ASSUME NEW c \in Channels, Register(c) \/ DropReceivers(c) \/ Unregister(c) PROVE IInv'
    BY <2>1, RegisterStep, DropReceiversStep, UnregisterStep
  <2>2. ASSUME NEW k \in Kinds, NEW c \in Channels \cup {NoId}, Arrive(k, c) PROVE IInv'
    BY <2>2, ArriveStep DEF Ids
  <2>3. ASSUME NEW k \in Kinds, TaskStep(k) PROVE IInv'
    BY <2>3, LookupStep, DeliverStep, EndsStep DEF TaskStep
  <2>4. ASSUME NEW k \in Kinds, NEW c \in Channels, Recv(k, c) PROVE IInv'
    BY <2>4, RecvStep
  <2>5. CASE Close \/ UNCHANGED vars
    BY <2>5, CloseStep
  <2>6. CASE Drop
    BY <2>6, DropStep
  <2> QED BY <2>1, <2>2, <2>3, <2>4, <2>5, <2>6 DEF Next
<1> QED BY <1>1, <1>2, PTL DEF Spec

(***************************************************************************)
(* Every endpoint receives the streams and datagrams that name it, and no  *)
(* others, in order and once each, and misses none while it is there: for  *)
(* every number of endpoints and items and every capacity of the channels, *)
(* whatever is registered, dropped, full or slow meanwhile.                *)
(***************************************************************************)
THEOREM RoutingIsCorrect == Spec => []RoutedInOrder
<1>1. IInv => RoutedInOrder
  <2> SUFFICES ASSUME IInv PROVE RoutedInOrder
    OBVIOUS
  <2>1. TypeOK
    <3>1. ASSUME NEW k \in Kinds
          PROVE  /\ arrived[k] \in Seq(Channels \cup {NoId})
                 /\ taken[k] \in 0 .. Len(arrived[k])
                 /\ task[k] \in {"reading", "sending", "ended", "cancelled"}
      BY LenProperties DEF IInv, Types, TaskInv, Ids, TaskStates
    <3>2. ASSUME NEW k \in Kinds, NEW c \in Channels
          PROVE  /\ queue[k][c] \in Seq(1 .. MaxItems) /\ Len(queue[k][c]) <= Capacity
                 /\ received[k][c] \in Seq(1 .. MaxItems)
      BY Known DEF Numbers
    <3> QED BY <3>1, <3>2 DEF IInv, Types, TypeOK, ChannelStates
  <2>2. SUFFICES
          ASSUME NEW k \in Kinds, NEW c \in Channels
          PROVE  LET items == received[k][c] \o queue[k][c]
                 IN  /\ \A i \in 1 .. Len(items) : arrived[k][items[i]] = c
                     /\ \A i, j \in 1 .. Len(items) : i < j => items[i] < items[j]
                     /\ channel[c] = "open" /\ items # <<>> /\ task[k] # "cancelled" =>
                           \A n \in items[1] .. taken[k] :
                               arrived[k][n] = c =>
                                   \/ \E i \in 1 .. Len(items) : items[i] = n
                                   \/ task[k] # "reading" /\ n = taken[k]
    BY <2>1 DEF RoutedInOrder
  <2> DEFINE items == received[k][c] \o queue[k][c]
  <2>3. Routed(items, arrived[k], c, taken[k], task[k], channel[c])
    BY Known DEF Items
  <2> HIDE DEF items
  <2>4. /\ \A i \in 1 .. Len(items) : arrived[k][items[i]] = c
        /\ \A i, j \in 1 .. Len(items) : i < j => items[i] < items[j]
        /\ channel[c] = "open" /\ items # <<>> /\ task[k] # "cancelled" =>
              \A n \in items[1] .. taken[k] :
                  arrived[k][n] = c =>
                      \/ \E i \in 1 .. Len(items) : items[i] = n
                      \/ task[k] # "reading" /\ n = taken[k]
    BY <2>3 DEF Routed, InOrder, Complete, Among
  <2> QED BY <2>4 DEF items
<1> QED BY <1>1, Invariant, PTL

(***************************************************************************)
(* A datagram for an endpoint that is not registered, yet or any more,     *)
(* does not end the datagram task: only an endpoint dropped between the    *)
(* lookup and the send does, or the end of the connection.                 *)
(***************************************************************************)
THEOREM StrayDatagramsAreHarmless == Spec => []UnknownDatagramsHarmless
<1>1. IInv => UnknownDatagramsHarmless
  BY DEF IInv
<1> QED BY <1>1, Invariant, PTL
=============================================================================
