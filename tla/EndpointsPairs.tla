--------------------------- MODULE EndpointsPairs ----------------------------
(***************************************************************************)
(* Under the same assumptions: the two ends of an endpoint start only      *)
(* together, and a stream is routed to the endpoint of its id.             *)
(***************************************************************************)
EXTENDS EndpointsProofs

USE EndpointsAssumption, TokensAssumption, SMTT(60)

-----------------------------------------------------------------------------
(***************************************************************************)
(* Facts about sequences.                                                  *)
(***************************************************************************)
LEMMA LenProperties ==
    ASSUME NEW S, NEW seq \in Seq(S)
    PROVE  Len(seq) \in Nat /\ DOMAIN seq = 1 .. Len(seq)
OBVIOUS

LEMMA ElementOfSeq ==
    ASSUME NEW S, NEW seq \in Seq(S), NEW n \in 1 .. Len(seq)
    PROVE  seq[n] \in S
OBVIOUS

LEMMA EmptySeq ==
    ASSUME NEW S
    PROVE  /\ <<>> \in Seq(S) /\ Len(<<>>) = 0
           /\ \A seq \in Seq(S) : seq # <<>> => Len(seq) \in Nat \ {0}
OBVIOUS

LEMMA AppendProperties ==
    ASSUME NEW S, NEW seq \in Seq(S), NEW elt \in S
    PROVE  /\ Append(seq, elt) \in Seq(S) /\ Len(Append(seq, elt)) = Len(seq) + 1
           /\ \A i \in 1 .. Len(seq) : Append(seq, elt)[i] = seq[i]
           /\ Append(seq, elt)[Len(seq) + 1] = elt
OBVIOUS

LEMMA HeadTailProperties ==
    ASSUME NEW S, NEW seq \in Seq(S), seq # <<>>
    PROVE  /\ Head(seq) \in S /\ Head(seq) = seq[1]
           /\ Tail(seq) \in Seq(S) /\ Len(Tail(seq)) = Len(seq) - 1
           /\ \A i \in 1 .. Len(Tail(seq)) : Tail(seq)[i] = seq[i + 1]
OBVIOUS

LEMMA ConcatProperties ==
    ASSUME NEW S, NEW s1 \in Seq(S), NEW s2 \in Seq(S)
    PROVE  /\ s1 \o s2 \in Seq(S) /\ Len(s1 \o s2) = Len(s1) + Len(s2)
           /\ \A i \in 1 .. Len(s1) + Len(s2) :
                 (s1 \o s2)[i] = IF i <= Len(s1) THEN s1[i] ELSE s2[i - Len(s1)]
OBVIOUS

LEMMA ConcatEmptySeq ==
    ASSUME NEW S, NEW seq \in Seq(S)
    PROVE  seq \o <<>> = seq /\ <<>> \o seq = seq
OBVIOUS

LEMMA SeqMonotonic ==
    ASSUME NEW S, NEW T, S \subseteq T
    PROVE  Seq(S) \subseteq Seq(T)
OBVIOUS

-----------------------------------------------------------------------------
(***************************************************************************)
(* What p has sent and the other peer has not read: the messages that tell *)
(* the other peer something about an endpoint of p stay in their order.    *)
(***************************************************************************)
Pipe(p) == wire[p] \o queue[p]

Telling(m) == m.kind \in {"EndpointRegistered", "Ready"}

Carried(old, new) ==
    \E d \in Nat : \A n \in 1 .. Len(new) :
        Telling(new[n]) => n + d \in 1 .. Len(old) /\ new[n] = old[n + d]

Joined(old, new, m) ==
    \A n \in 1 .. Len(new) :
        Telling(new[n]) => \/ n \in 1 .. Len(old) /\ new[n] = old[n]
                           \/ n = Len(old) + 1 /\ new[n] = m

LEMMA PipeTypes ==
    ASSUME TypeOK, HandshakeTypes, NEW q \in Peers
    PROVE  /\ wire[q] \in Seq(Msgs) /\ queue[q] \in Seq(Msgs) /\ queue[q] \in Seq(ControlMsgs)
           /\ Pipe(q) \in Seq(Msgs) /\ Len(Pipe(q)) \in Nat
<1>1. wire[q] \in Seq(Msgs) /\ queue[q] \in Seq(ControlMsgs)
  BY Zenon DEF TypeOK, HandshakeTypes, Msgs
<1>2. queue[q] \in Seq(Msgs)
  <2>1. ControlMsgs \subseteq Msgs
    BY DEF Msgs
  <2> QED BY <1>1, <2>1, SeqMonotonic, Zenon
<1>3. Pipe(q) \in Seq(Msgs)
  BY <1>1, <1>2, ConcatProperties, Zenon DEF Pipe
<1> QED BY <1>1, <1>2, <1>3, LenProperties

ReadyMsg(id) == [kind |-> "Ready", id |-> id]
AckMsg(id) == [kind |-> "EndpointRegistered", id |-> id]

\* What a step does to the pipe of q.
PipeStep(q) ==
    \/ Carried(Pipe(q), Pipe(q)')
    \/ \E k \in 1 .. Len(endpoints[q]) :
          Ready(q, k) /\ Joined(Pipe(q), Pipe(q)', ReadyMsg(endpoints[q][k].id))
    \/ Reply(q) /\ replying[q] \in Ids /\ Joined(Pipe(q), Pipe(q)', AckMsg(replying[q]))

LEMMA Pipes ==
    \A q \in Peers : IInv /\ [Next]_vars => PipeStep(q)
<1>PipeRead.
    ASSUME NEW w \in Seq(Msgs), NEW u \in Seq(Msgs)
    PROVE  /\ Carried(w \o u, w \o u)
           /\ Carried(w \o u, <<>> \o u)
           /\ Carried(w \o u, w \o <<>>)
           /\ Carried(w \o u, <<>> \o <<>>)
           /\ w # <<>> => Carried(w \o u, Tail(w) \o u)
  <2> USE <1>PipeRead
  <2>1. /\ Len(w) \in Nat /\ Len(u) \in Nat
        /\ Len(w \o u) = Len(w) + Len(u)
        /\ \A n \in 1 .. Len(w) + Len(u) : (w \o u)[n] = IF n <= Len(w) THEN w[n] ELSE u[n - Len(w)]
    BY ConcatProperties
  <2>2. <<>> \o u = u /\ w \o <<>> = w /\ <<>> \o <<>> = <<>>
    BY ConcatEmptySeq, EmptySeq
  <2>3. Carried(w \o u, w \o u)
    <3>1. \A n \in 1 .. Len(w \o u) : n + 0 = n
      BY <2>1
    <3> QED BY <3>1, Zenon DEF Carried
  <2>4. Carried(w \o u, u)
    <3>1. \A n \in 1 .. Len(u) : n + Len(w) \in 1 .. Len(w \o u) /\ u[n] = (w \o u)[n + Len(w)]
      BY <2>1
    <3> QED BY <2>1, <3>1, Zenon DEF Carried
  <2>5. Carried(w \o u, w)
    <3>1. \A n \in 1 .. Len(w) : n + 0 \in 1 .. Len(w \o u) /\ w[n] = (w \o u)[n + 0]
      BY <2>1
    <3> QED BY <3>1, Zenon DEF Carried
  <2>6. Carried(w \o u, <<>>)
    BY DEF Carried
  <2>7. ASSUME w # <<>> PROVE Carried(w \o u, Tail(w) \o u)
    <3> DEFINE t == Tail(w) \o u
    <3>1. /\ Tail(w) \in Seq(Msgs) /\ Len(Tail(w)) = Len(w) - 1
          /\ \A n \in 1 .. Len(Tail(w)) : Tail(w)[n] = w[n + 1]
      BY <2>7, HeadTailProperties
    <3>2. /\ Len(t) = Len(Tail(w)) + Len(u)
          /\ \A n \in 1 .. Len(Tail(w)) + Len(u) :
                t[n] = IF n <= Len(Tail(w)) THEN Tail(w)[n] ELSE u[n - Len(Tail(w))]
      BY <3>1, ConcatProperties
    <3> HIDE DEF t
    <3>3. \A n \in 1 .. Len(t) : n + 1 \in 1 .. Len(w \o u) /\ t[n] = (w \o u)[n + 1]
      BY ONLY <2>1, <3>1, <3>2
    <3>4. Carried(w \o u, t)
      BY <3>3, Zenon DEF Carried
    <3> QED BY <3>4, Zenon DEF t
  <2> QED BY <2>2, <2>3, <2>4, <2>5, <2>6, <2>7, Zenon

<1>PipeMoved.
    ASSUME NEW w \in Seq(Msgs), NEW u \in Seq(Msgs), u # <<>>
    PROVE  Carried(w \o u, Append(w, Head(u)) \o Tail(u))
  <2> USE <1>PipeMoved
  <2> DEFINE v == Append(w, Head(u))
             t == v \o Tail(u)
  <2>1. /\ Len(w) \in Nat /\ Len(u) \in Nat
        /\ Len(w \o u) = Len(w) + Len(u)
        /\ \A n \in 1 .. Len(w) + Len(u) : (w \o u)[n] = IF n <= Len(w) THEN w[n] ELSE u[n - Len(w)]
    BY ConcatProperties
  <2>2. /\ Head(u) \in Msgs /\ Head(u) = u[1] /\ Tail(u) \in Seq(Msgs) /\ Len(Tail(u)) = Len(u) - 1
        /\ \A n \in 1 .. Len(Tail(u)) : Tail(u)[n] = u[n + 1]
    BY HeadTailProperties
  <2>3. /\ v \in Seq(Msgs) /\ Len(v) = Len(w) + 1 /\ v[Len(w) + 1] = u[1]
        /\ \A n \in 1 .. Len(w) : v[n] = w[n]
    BY <2>2, AppendProperties
  <2> HIDE DEF v
  <2>4. /\ Len(t) = Len(v) + Len(Tail(u))
        /\ \A n \in 1 .. Len(v) + Len(Tail(u)) :
              t[n] = IF n <= Len(v) THEN v[n] ELSE Tail(u)[n - Len(v)]
    BY ONLY <2>2, <2>3, ConcatProperties, Zenon
  <2> HIDE DEF t
  <2>5. \A n \in 1 .. Len(t) : n + 0 \in 1 .. Len(w \o u) /\ t[n] = (w \o u)[n + 0]
    <3> SUFFICES ASSUME NEW n \in 1 .. Len(t)
                 PROVE  n \in 1 .. Len(w \o u) /\ t[n] = (w \o u)[n]
      OBVIOUS
    <3>1. CASE n <= Len(w)
      BY ONLY <2>1, <2>2, <2>3, <2>4, <3>1
    <3>2. CASE n = Len(w) + 1
      BY <2>1, <2>2, <2>3, <2>4, <3>2
    <3>3. CASE n > Len(w) + 1
      BY <2>1, <2>2, <2>3, <2>4, <3>3
    <3> QED BY <2>1, <3>1, <3>2, <3>3
  <2>6. Carried(w \o u, t)
    BY <2>5, Zenon DEF Carried
  <2> QED BY <2>6 DEF t, v

<1>PipeJoined.
    ASSUME NEW w \in Seq(Msgs), NEW u \in Seq(Msgs), NEW m \in Msgs
    PROVE  /\ Joined(w \o u, w \o Append(u, m), m)
           /\ u = <<>> => Joined(w \o u, Append(w, m) \o u, m)
  <2> USE <1>PipeJoined
  <2> DEFINE v == Append(u, m)
             t == w \o v
  <2>1. /\ Len(w) \in Nat /\ Len(u) \in Nat
        /\ Len(w \o u) = Len(w) + Len(u)
        /\ \A n \in 1 .. Len(w) + Len(u) : (w \o u)[n] = IF n <= Len(w) THEN w[n] ELSE u[n - Len(w)]
    BY ConcatProperties
  <2>2. /\ v \in Seq(Msgs) /\ Len(v) = Len(u) + 1 /\ v[Len(u) + 1] = m
        /\ \A n \in 1 .. Len(u) : v[n] = u[n]
    BY AppendProperties
  <2> HIDE DEF v
  <2>3. /\ Len(t) = Len(w) + Len(v)
        /\ \A n \in 1 .. Len(w) + Len(v) : t[n] = IF n <= Len(w) THEN w[n] ELSE v[n - Len(w)]
    BY ONLY <2>2, ConcatProperties, Zenon
  <2> HIDE DEF t
  <2>4. ASSUME NEW n \in 1 .. Len(t)
        PROVE  \/ n \in 1 .. Len(w \o u) /\ t[n] = (w \o u)[n]
               \/ n = Len(w \o u) + 1 /\ t[n] = m
    <3>1. CASE n <= Len(w)
      BY <2>1, <2>2, <2>3, <3>1
    <3>2. CASE n > Len(w) /\ n <= Len(w) + Len(u)
      <4>1. n \in 1 .. Len(w) + Len(u) /\ n \in 1 .. Len(w) + Len(v) /\ n - Len(w) \in 1 .. Len(u)
        BY <2>1, <2>2, <3>2
      <4>2. t[n] = v[n - Len(w)] /\ (w \o u)[n] = u[n - Len(w)]
        BY <2>1, <2>3, <3>2, <4>1
      <4>3. v[n - Len(w)] = u[n - Len(w)]
        BY <2>2, <4>1, Zenon
      <4> QED BY ONLY <2>1, <4>1, <4>2, <4>3, Zenon
    <3>3. CASE n = Len(w) + Len(u) + 1
      <4>1. n \in 1 .. Len(w) + Len(v) /\ n - Len(w) = Len(u) + 1 /\ ~ (n <= Len(w))
        BY ONLY <2>1, <2>2, <3>3
      <4>2. t[n] = v[Len(u) + 1]
        BY <2>3, <4>1, Zenon
      <4> QED BY <2>1, <2>2, <3>3, <4>2, Zenon
    <3> QED BY ONLY <2>1, <2>2, <2>3, <3>1, <3>2, <3>3
  <2>5. Joined(w \o u, t, m)
    BY ONLY <2>4, Zenon DEF Joined
  <2>6. ASSUME u = <<>> PROVE Joined(w \o u, Append(w, m) \o u, m)
    <3>1. w \o u = w /\ Append(w, m) \in Seq(Msgs)
      BY <2>6, ConcatEmptySeq, AppendProperties
    <3>2. Append(w, m) \o u = Append(w, m)
      BY <2>6, <3>1, ConcatEmptySeq
    <3>3. /\ Len(Append(w, m)) = Len(w) + 1 /\ Append(w, m)[Len(w) + 1] = m
          /\ \A n \in 1 .. Len(w) : Append(w, m)[n] = w[n]
      BY AppendProperties
    <3>4. Joined(w, Append(w, m), m)
      BY <2>1, <3>3 DEF Joined
    <3> QED BY <3>1, <3>2, <3>4
  <2> QED BY <2>5, <2>6, Zenon DEF t, v

\* A message that tells nothing may as well not be there.
<1>PipeUntold.
    ASSUME NEW old, NEW new, NEW m, Joined(old, new, m), ~ Telling(m), Len(new) \in Nat
    PROVE  Carried(old, new)
  <2> USE <1>PipeUntold
  <2>1. \A n \in 1 .. Len(new) : n + 0 = n
    OBVIOUS
  <2>2. ASSUME NEW n \in 1 .. Len(new), Telling(new[n])
        PROVE  n \in 1 .. Len(old) /\ new[n] = old[n]
    <3>1. CASE new[n] = m
      BY <2>2, <3>1 DEF Telling
    <3> QED BY <2>2, <3>1, Zenon DEF Joined
  <2>3. \A n \in 1 .. Len(new) :
          Telling(new[n]) => n + 0 \in 1 .. Len(old) /\ new[n] = old[n + 0]
    BY <2>1, <2>2, Zenon
  <2> QED BY <2>3, Zenon DEF Carried

\* Messages are read, moved from the queue to the stream, or lost.
<1>PipeKept.
    ASSUME TypeOK, HandshakeTypes, NEW q \in Peers,
           \/ wire'[q] \in {wire[q], <<>>} /\ queue'[q] \in {queue[q], <<>>}
           \/ wire[q] # <<>> /\ wire'[q] = Tail(wire[q]) /\ queue'[q] = queue[q]
           \/ /\ queue[q] # <<>> /\ queue'[q] = Tail(queue[q])
              /\ wire'[q] = Append(wire[q], Head(queue[q]))
    PROVE  Carried(Pipe(q), Pipe(q)')
  <2> USE <1>PipeKept
  <2>1. wire[q] \in Seq(Msgs) /\ queue[q] \in Seq(Msgs)
    BY PipeTypes, Zenon
  <2>2. Pipe(q) = wire[q] \o queue[q] /\ Pipe(q)' = wire'[q] \o queue'[q]
    BY Zenon DEF Pipe
  <2>3. CASE wire'[q] \in {wire[q], <<>>} /\ queue'[q] \in {queue[q], <<>>}
    BY ONLY <2>1, <2>2, <2>3, <1>PipeRead, Zenon
  <2>4. CASE wire[q] # <<>> /\ wire'[q] = Tail(wire[q]) /\ queue'[q] = queue[q]
    BY <2>1, <2>2, <2>4, <1>PipeRead, Zenon
  <2>5. CASE /\ queue[q] # <<>> /\ queue'[q] = Tail(queue[q])
             /\ wire'[q] = Append(wire[q], Head(queue[q]))
    BY <2>1, <2>2, <2>5, <1>PipeMoved, Zenon
  <2> QED BY <2>3, <2>4, <2>5, Zenon

<1>PipeSent.
    ASSUME TypeOK, HandshakeTypes, NEW p \in Peers, NEW q \in Peers, NEW id \in Ids,
           NEW kind \in {"RegisterEndpoint", "EndpointRegistered", "Ready"},
           Send(p, kind, id), wire' = wire
    PROVE  /\ q # p => Carried(Pipe(q), Pipe(q)')
           /\ Joined(Pipe(p), Pipe(p)', [kind |-> kind, id |-> id])
           /\ kind = "RegisterEndpoint" => Carried(Pipe(p), Pipe(p)')
  <2> USE <1>PipeSent
  <2> DEFINE m == [kind |-> kind, id |-> id]
  <2>1. m \in Msgs /\ m.kind = kind
    BY DEF Msgs, ControlMsgs
  <2>2. queue' = [queue EXCEPT ![p] = Append(queue[p], m)]
    BY DEF Send
  <2> HIDE DEF m
  <2>3. queue \in [Peers -> Seq(ControlMsgs)]
    BY Zenon DEF TypeOK
  <2>4. q # p => queue'[q] = queue[q]
    BY <2>2, <2>3
  <2>5. queue'[p] = Append(queue[p], m)
    BY <2>2, <2>3, Zenon
  <2>6. wire[p] \in Seq(Msgs) /\ queue[p] \in Seq(Msgs)
    BY PipeTypes
  <2>7. Joined(Pipe(p), Pipe(p)', m)
    BY <2>1, <2>5, <2>6, <1>PipeJoined, Zenon DEF Pipe
  <2>8. ASSUME kind = "RegisterEndpoint" PROVE Carried(Pipe(p), Pipe(p)')
    <3>1. ~ Telling(m)
      BY <2>1, <2>8 DEF Telling
    <3>2. Pipe(p)' = wire[p] \o Append(queue[p], m)
      BY <2>5 DEF Pipe
    <3>3. Append(queue[p], m) \in Seq(Msgs)
      BY ONLY <2>1, <2>6, AppendProperties, Zenon
    <3>4. Len(Pipe(p)') \in Nat
      BY <2>6, <3>2, <3>3, ConcatProperties, LenProperties, Zenon
    <3> QED BY ONLY <2>7, <3>1, <3>4, <1>PipeUntold, Zenon
  <2>9. q # p => Carried(Pipe(q), Pipe(q)')
    BY <2>4, <1>PipeKept, Zenon
  <2> QED BY ONLY <2>7, <2>8, <2>9, Zenon DEF m

\* The handshake writes while there is nothing else to be sent.
<1>PipeGreeted.
    ASSUME TypeOK, HandshakeTypes, TasksRun, NEW q \in Peers, HandshakeStep
    PROVE  Carried(Pipe(q), Pipe(q)')
  <2> USE <1>PipeGreeted
  <2>1. wire \in [Peers -> Seq(Msgs)] /\ wire[q] \in Seq(Msgs) /\ queue[q] \in Seq(Msgs)
    BY PipeTypes, Zenon DEF HandshakeTypes, Msgs
  <2>2. queue' = queue
    BY Zenon DEF HandshakeStep, queueVars
  <2>3. \/ wire'[q] \in {wire[q], <<>>}
        \/ wire[q] # <<>> /\ wire'[q] = Tail(wire[q])
        \/ /\ peer[q] \in {"connect", "connect_with_auth", "deciding"}
           /\ \E m \in Msgs : ~ Telling(m) /\ wire'[q] = Append(wire[q], m)
    <3>1. ASSUME NEW p \in Peers, NEW m \in HandshakeMsgs, Write(p, m),
                 peer[p] \in {"connect", "connect_with_auth", "deciding"}
          PROVE  \/ wire'[q] = wire[q]
                 \/ /\ peer[q] \in {"connect", "connect_with_auth", "deciding"}
                    /\ \E n \in Msgs : ~ Telling(n) /\ wire'[q] = Append(wire[q], n)
      <4>1. m \in Msgs /\ ~ Telling(m)
        BY DEF Msgs, HandshakeMsgs, Telling
      <4>2. wire' = [wire EXCEPT ![p] = Append(wire[p], m)]
        BY <3>1 DEF Write
      <4>3. CASE p = q
        BY <2>1, <3>1, <4>1, <4>2, <4>3, Zenon
      <4>4. CASE p # q
        BY <2>1, <4>2, <4>4, Zenon
      <4> QED BY ONLY <4>3, <4>4, Zenon
    <3>2. ASSUME NEW p \in Peers, Read(p), wire[Other(p)] # <<>>
          PROVE  wire'[q] = wire[q] \/ (wire[q] # <<>> /\ wire'[q] = Tail(wire[q]))
      <4>1. wire' = [wire EXCEPT ![Other(p)] = Tail(wire[Other(p)])]
        BY <3>2, Zenon DEF Read
      <4> QED BY <2>1, <3>2, <4>1, Zenon
    <3>3. Closed => wire'[q] = <<>>
      BY DEF Closed
    <3>4. /\ "client" \in Peers /\ "server" \in Peers
          /\ Other("client") = "server" /\ Other("server") = "client"
      BY DEF Peers, Other
    <3>5. /\ [kind |-> "Dummy"] \in HandshakeMsgs /\ [kind |-> "Confirm"] \in HandshakeMsgs
          /\ \A token \in Tokens : [kind |-> "Auth", len |-> Serialized(token)] \in HandshakeMsgs
      BY DEF HandshakeMsgs, Serialized
    <3>6. CASE ConnectPlain
      BY ONLY <3>1, <3>4, <3>5, <3>6, Zenon DEF ConnectPlain
    <3>7. ASSUME NEW token \in Tokens, ConnectWithAuth(token)
          PROVE  \/ wire'[q] = wire[q]
                 \/ /\ peer[q] \in {"connect", "connect_with_auth", "deciding"}
                    /\ \E n \in Msgs : ~ Telling(n) /\ wire'[q] = Append(wire[q], n)
      BY <3>1, <3>4, <3>5, <3>7, Zenon DEF ConnectWithAuth
    <3>8. CASE AcceptAuthentication
      BY ONLY <3>1, <3>4, <3>5, <3>8, Zenon DEF AcceptAuthentication
    <3>9. CASE Confirmed \/ AcceptPlain \/ AcceptWithAuth
      BY <3>2, <3>3, <3>4, <3>9, Zenon DEF Confirmed, AcceptPlain, AcceptWithAuth
    <3>10. CASE RejectAuthentication \/ Close
      BY <3>3, <3>10, Zenon DEF RejectAuthentication, Close
    <3>11. (\E p \in Peers : HandshakeFails(p)) => wire'[q] = wire[q]
      BY DEF HandshakeFails
    <3> QED BY <3>6, <3>7, <3>8, <3>9, <3>10, <3>11, Zenon DEF HandshakeStep, HandshakeNext
  <2>4. CASE \/ wire'[q] \in {wire[q], <<>>}
             \/ wire[q] # <<>> /\ wire'[q] = Tail(wire[q])
    BY <2>2, <2>4, <1>PipeKept, Zenon
  <2>5. ASSUME peer[q] \in {"connect", "connect_with_auth", "deciding"},
               NEW m \in Msgs, ~ Telling(m), wire'[q] = Append(wire[q], m)
        PROVE  Carried(Pipe(q), Pipe(q)')
    <3>1. queue[q] = <<>>
      BY <2>5, Zenon DEF TasksRun, RunsAt
    <3>2. Pipe(q)' = Append(wire[q], m) \o queue[q]
      BY <2>2, <2>5 DEF Pipe
    <3>3. Joined(Pipe(q), Pipe(q)', m)
      BY <2>1, <3>1, <3>2, <1>PipeJoined, Zenon DEF Pipe
    <3>4. Append(wire[q], m) \in Seq(Msgs)
      BY <2>1, AppendProperties
    <3>5. Len(Pipe(q)') \in Nat
      BY <2>1, <3>2, <3>4, ConcatProperties, LenProperties, Zenon
    <3> QED BY <2>5, <3>3, <3>5, <1>PipeUntold, Zenon
  <2> QED BY <2>3, <2>4, <2>5, Zenon

<1> SUFFICES ASSUME NEW q \in Peers, IInv, [Next]_vars PROVE PipeStep(q)
  OBVIOUS
<1>1. TypeOK /\ HandshakeTypes /\ TasksRun
  BY DEF IInv
<1>2. wire \in [Peers -> Seq(Msgs)] /\ queue \in [Peers -> Seq(ControlMsgs)]
  BY <1>1, Zenon DEF HandshakeTypes, TypeOK, Msgs
<1>3. ASSUME UNCHANGED <<wire, queue>> PROVE Carried(Pipe(q), Pipe(q)')
  BY <1>1, <1>3, <1>PipeKept, Zenon
<1>4. CASE HandshakeStep
  BY <1>1, <1>4, <1>PipeGreeted, Zenon DEF PipeStep
<1>5. CASE UNCHANGED vars
  BY <1>3, <1>5, Zenon DEF vars, handshakeVars, endpointVars, queueVars, PipeStep
<1>6. ASSUME NEW p \in Peers, DropConnection(p)
      PROVE  Carried(Pipe(q), Pipe(q)')
  <2>1. wire'[q] = <<>>
    BY <1>6, Zenon DEF DropConnection, Closed
  <2>2. queue'[q] \in {queue[q], <<>>}
    BY ONLY <1>2, <1>6, Zenon DEF DropConnection
  <2> QED BY <1>1, <2>1, <2>2, <1>PipeKept, Zenon
<1>7. ASSUME NEW p \in Peers, Transmit(p)
      PROVE  Carried(Pipe(q), Pipe(q)')
  <2>1. CASE wire' = wire /\ queue' = [queue EXCEPT ![p] = <<>>]
    <3>1. queue'[q] \in {queue[q], <<>>}
      BY <1>2, <2>1
    <3> QED BY <1>1, <2>1, <3>1, <1>PipeKept, Zenon
  <2>2. CASE /\ wire' = [wire EXCEPT ![p] = Append(wire[p], Head(queue[p]))]
             /\ queue' = [queue EXCEPT ![p] = Tail(queue[p])]
    <3>1. CASE q = p
      BY <1>1, <1>2, <1>7, <2>2, <3>1, <1>PipeKept, Zenon DEF Transmit
    <3>2. CASE q # p
      BY <1>1, <1>2, <2>2, <3>2, <1>PipeKept, Zenon
    <3> QED BY <3>1, <3>2
  <2> QED BY <1>7, <2>1, <2>2, Zenon DEF Transmit, Write
<1>8. ASSUME NEW p \in Peers, NEW kind, Receive(p, kind), queue' = queue
      PROVE  Carried(Pipe(q), Pipe(q)')
  <2>1. wire[Other(p)] # <<>> /\ wire' = [wire EXCEPT ![Other(p)] = Tail(wire[Other(p)])]
    BY <1>8, Zenon DEF Receive, Read
  <2>2. wire'[q] = wire[q] \/ (wire[q] # <<>> /\ wire'[q] = Tail(wire[q]))
    BY <1>2, <2>1, Zenon
  <2> QED BY <1>1, <1>8, <2>2, <1>PipeKept, Zenon
<1>9. ASSUME NEW p \in Peers, Reply(p)
      PROVE  \/ Carried(Pipe(q), Pipe(q)')
             \/ Reply(q) /\ replying[q] \in Ids /\ Joined(Pipe(q), Pipe(q)', AckMsg(replying[q]))
  <2>1. replying[p] \in Ids
    BY ONLY <1>1, <1>9, Zenon DEF Reply, TypeOK
  <2>2. wire' = wire
    BY <1>9 DEF Reply, handshakeVars
  <2>3. CASE queue' = queue
    BY <1>3, <2>2, <2>3
  <2>4. CASE Send(p, "EndpointRegistered", replying[p])
    BY <1>1, <1>9, <2>1, <2>2, <2>4, <1>PipeSent, Zenon DEF AckMsg
  <2> QED BY <1>9, <2>3, <2>4, Zenon DEF Reply
<1>10. ASSUME NEW p \in Peers, NEW k \in 1 .. Len(endpoints[p]), Ready(p, k)
       PROVE  \/ Carried(Pipe(q), Pipe(q)')
              \/ q = p /\ Joined(Pipe(q), Pipe(q)', ReadyMsg(endpoints[q][k].id))
  <2>1. endpoints[p][k].id \in Ids
    BY <1>1, RecordTypes, Zenon DEF EndpointRecords
  <2>2. wire' = wire /\ Send(p, "Ready", endpoints[p][k].id)
    BY ONLY <1>10, Zenon DEF Ready, handshakeVars
  <2> QED BY <1>1, <2>1, <2>2, <1>PipeSent, Zenon DEF ReadyMsg
<1>11. ASSUME NEW p \in Peers, NEW k \in 1 .. Len(endpoints[p]), SendRegisterEndpoint(p, k)
       PROVE  Carried(Pipe(q), Pipe(q)')
  <2>1. endpoints[p][k].id \in Ids
    BY ONLY <1>1, RecordTypes, Zenon DEF EndpointRecords
  <2>2. wire' = wire
    BY ONLY <1>11, Zenon DEF SendRegisterEndpoint, handshakeVars
  <2>3. CASE queue' = queue
    BY <1>3, <2>2, <2>3
  <2>4. CASE Send(p, "RegisterEndpoint", endpoints[p][k].id)
    BY <1>1, <2>1, <2>2, <2>4, <1>PipeSent, Zenon
  <2> QED BY ONLY <1>11, <2>3, <2>4, Zenon DEF SendRegisterEndpoint
<1>12. ASSUME NEW p \in Peers,
              \/ Register(p)
              \/ \E reg \in 1 .. Len(endpoints[Other(p)]) : Connect(p, reg)
              \/ \E k \in 1 .. Len(endpoints[p]) :
                    Registered(p, k) \/ Start(p, k) \/ ReadyFails(p, k) \/ OpenUni(p, k) \/ Drop(p, k)
              \/ AcceptUni(p)
       PROVE  Carried(Pipe(q), Pipe(q)')
  <2>1. UNCHANGED <<handshakeVars, queueVars>>
    BY <1>12, Zenon DEF Register, Connect, Registered, Start, ReadyFails, OpenUni, Drop, AcceptUni
  <2> QED BY <1>3, <2>1, Zenon DEF handshakeVars, queueVars
<1>13. ASSUME NEW p \in Peers, HandleMsg(p), ~ Reply(p)
       PROVE  Carried(Pipe(q), Pipe(q)')
  BY <1>8, <1>13, Zenon DEF HandleMsg, HandleRegisterEndpoint, HandleEndpointRegistered, HandleReady,
                           queueVars
<1> QED BY <1>4, <1>5, <1>6, <1>7, <1>9, <1>10, <1>11, <1>12, <1>13, Zenon
   DEF Next, CallStep, PipeStep

-----------------------------------------------------------------------------
(***************************************************************************)
(* The life of an endpoint.  What the maps of Control hold is an endpoint  *)
(* with that id.                                                           *)
(***************************************************************************)
AckIndex(p) ==
    \A i \in Ids : pending_register_ack[p][i] # Vacant =>
        /\ pending_register_ack[p][i] \in 1 .. Len(endpoints[p])
        /\ endpoints[p][pending_register_ack[p][i]].id = i
        /\ endpoints[p][pending_register_ack[p][i]].reg = 0

ReadyIndex(p) ==
    \A i \in Ids : pending_ready[p][i] > 0 =>
        /\ pending_ready[p][i] \in 1 .. Len(endpoints[p])
        /\ endpoints[p][pending_ready[p][i]].id = i

Indices == \A p \in Peers : AckIndex(p) /\ ReadyIndex(p)

\* The other peer has confirmed the registration.
Granted(e, i) ==
    /\ e.id = i /\ e.reg = 0
    /\ e.acked \/ e.state \in {"idle", "waiting", "started", "dropped"}

AfterReady == {"waiting", "started", "dropped"}

\* What a step makes of an endpoint o, whose oneshots it may send on.
Moves(o, e, acked, notified) ==
    /\ e.id = o.id /\ e.reg = o.reg
    /\ o.readied => e.readied
    /\ Returned(o) => Returned(e)
    /\ e.readied => o.readied \/ e.state = "waiting"
    /\ o.readied /\ o.state \in AfterReady => e.state \in AfterReady
    /\ \A i : Granted(e, i) => Granted(o, i) \/ acked
    /\ e.notified => o.notified \/ notified
    /\ e.state = "started" => o.state = "started" \/ o.notified

Acked(p, k) ==
    HandleEndpointRegistered(p) /\ pending_register_ack[p][Head(wire[Other(p)]).id] = k
Notified(p, k) ==
    HandleReady(p) /\ pending_ready[p][Head(wire[Other(p)]).id] = k

EntryStep(p, k) == Moves(endpoints[p][k], endpoints'[p][k], Acked(p, k), Notified(p, k))

\* An endpoint that a step adds.
NewEntry(p, e) ==
    /\ ~ e.readied /\ e.state # "started"
    /\ \A i : ~ Granted(e, i)
    /\ e.notified => ReadyAlready(p, e.id)
    /\ \/ e.reg = 0 /\ e.id = next_endpoint_index[p] /\ Register(p)
       \/ /\ e.reg \in 1 .. Len(endpoints[Other(p)])
          /\ Returned(endpoints[Other(p)][e.reg])
          /\ endpoints[Other(p)][e.reg].id = e.id

Entries ==
    \A p \in Peers :
        /\ \A k \in 1 .. Len(endpoints[p]) : EntryStep(p, k)
        /\ \/ Len(endpoints'[p]) = Len(endpoints[p])
           \/ /\ Len(endpoints'[p]) = Len(endpoints[p]) + 1
              /\ NewEntry(p, endpoints'[p][Len(endpoints[p]) + 1])

LEMMA EntriesStep ==
    TypeOK /\ HandshakeTypes /\ Indices /\ [Next]_vars => Entries
<1>MovesNot.
    \A o, acked, notified : Moves(o, o, acked, notified)
  BY DEF Moves

<1>EntriesSame.
    ASSUME endpoints' = endpoints
    PROVE  Entries
  BY <1>EntriesSame, <1>MovesNot DEF Entries, EntryStep

<1>EntriesChanged.
    ASSUME TypeOK, NEW p \in Peers, NEW k \in 1 .. Len(endpoints[p]), NEW e \in EndpointRecords,
           endpoints' = [endpoints EXCEPT ![p] = [endpoints[p] EXCEPT ![k] = e]],
           Moves(endpoints[p][k], e, Acked(p, k), Notified(p, k))
    PROVE  Entries
  <2> USE <1>EntriesChanged
  <2>1. /\ Len(endpoints'[p]) = Len(endpoints[p])
        /\ endpoints'[p][k] = e
        /\ \A j \in 1 .. Len(endpoints[p]) : j # k => endpoints'[p][j] = endpoints[p][j]
        /\ \A q \in Peers \ {p} : endpoints'[q] = endpoints[q]
    <3>1. endpoints \in [Peers -> Seq(EndpointRecords)]
      BY Zenon DEF TypeOK
    <3>2. Len([endpoints[p] EXCEPT ![k] = e]) = Len(endpoints[p])
      BY ONLY <3>1, ExceptSeq
    <3> QED BY <3>1, <3>2
  <2>2. ASSUME NEW q \in Peers, NEW j \in 1 .. Len(endpoints[q])
        PROVE  EntryStep(q, j)
    <3>1. CASE q = p /\ j = k
      BY <2>1, <3>1, Zenon DEF EntryStep
    <3>2. CASE ~ (q = p /\ j = k)
      <4>1. endpoints'[q][j] = endpoints[q][j]
        BY <2>1, <3>2, Zenon
      <4> QED BY <4>1, <1>MovesNot, Zenon DEF EntryStep
    <3> QED BY <3>1, <3>2, Zenon
  <2>3. \A q \in Peers : Len(endpoints'[q]) = Len(endpoints[q])
    BY <2>1, Zenon
  <2> QED BY <2>2, <2>3, Zenon DEF Entries

<1>EntriesAdded.
    ASSUME TypeOK, NEW p \in Peers, NEW e \in EndpointRecords, Add(p, e), NewEntry(p, e)
    PROVE  Entries
  <2> USE <1>EntriesAdded
  <2>1. /\ Len(endpoints'[p]) = Len(endpoints[p]) + 1
        /\ endpoints'[p][Len(endpoints[p]) + 1] = e
        /\ \A k \in 1 .. Len(endpoints[p]) : endpoints'[p][k] = endpoints[p][k]
        /\ \A q \in Peers \ {p} : endpoints'[q] = endpoints[q]
    BY AddedEndpoint, Zenon
  <2>2. ASSUME NEW q \in Peers, NEW j \in 1 .. Len(endpoints[q])
        PROVE  EntryStep(q, j)
    <3>1. endpoints'[q][j] = endpoints[q][j]
      BY <2>1, Zenon
    <3> QED BY <3>1, <1>MovesNot, Zenon DEF EntryStep
  <2>3. ASSUME NEW q \in Peers, q # p PROVE Len(endpoints'[q]) = Len(endpoints[q])
    BY <2>1, <2>3, Zenon
  <2> QED BY <2>1, <2>2, <2>3, Zenon DEF Entries

<1>EntriesLeft.
    ASSUME TypeOK, NEW p \in Peers, NEW k \in 1 .. Len(endpoints[p]),
           NEW state \in States, Leave(p, k, state) \/ Become(p, k, state),
           LET o == endpoints[p][k]
           IN  \/ o.state \in {"calling", "registering"} /\ state \in {"registering", "failed"}
               \/ o.state = "registering" /\ o.acked /\ state = "idle"
               \/ o.state = "waiting" /\ o.notified /\ state = "started"
               \/ o.state \in {"idle", "waiting", "started"} /\ state = "dropped"
    PROVE  Entries
  <2> USE <1>EntriesLeft
  <2> DEFINE o == endpoints[p][k]
  <2>1. PICK e \in EndpointRecords :
                /\ endpoints' = [endpoints EXCEPT ![p] = [endpoints[p] EXCEPT ![k] = e]]
                /\ e.id = o.id /\ e.reg = o.reg
                /\ e.state = state
                /\ e.readied = o.readied
                /\ (e.acked => o.acked) /\ (e.notified => o.notified)
    BY LeftEndpoint
  <2>2. /\ Returned(o) => Returned(e)
        /\ o.readied /\ o.state \in AfterReady => e.state \in AfterReady
        /\ \A i : Granted(e, i) => Granted(o, i)
        /\ e.state = "started" => o.state = "started" \/ o.notified
    BY <2>1, Zenon DEF Returned, AfterReady, Granted
  <2>3. Moves(o, e, Acked(p, k), Notified(p, k))
    BY <2>1, <2>2, Zenon DEF Moves
  <2> QED BY <2>1, <2>3, <1>EntriesChanged, Zenon

<1>EntriesCall.
    ASSUME TypeOK, NEW p \in Peers, NEW k \in 1 .. Len(endpoints[p]),
           CallStep(p, k) \/ Ready(p, k) \/ OpenUni(p, k) \/ Drop(p, k)
    PROVE  Entries
  <2> USE <1>EntriesCall
  <2> DEFINE o == endpoints[p][k]
  <2>1. {"failed", "idle", "registering", "started", "dropped"} \subseteq States
    BY DEF States
  <2>2. CASE Registered(p, k)
    <3>1. Leave(p, k, "failed") \/ Leave(p, k, "idle")
      BY <2>2, Zenon DEF Registered
    <3>2. o.state = "registering" /\ o.acked
      BY <2>2, Zenon DEF Registered
    <3> QED BY <2>1, <3>1, <3>2, <1>EntriesLeft, Zenon
  <2>3. CASE SendRegisterEndpoint(p, k)
    <3>1. o.state = "calling" /\ (Become(p, k, "registering") \/ Leave(p, k, "failed"))
      BY <2>3, Zenon DEF SendRegisterEndpoint
    <3> QED BY <2>1, <3>1, <1>EntriesLeft, Zenon
  <2>4. CASE Start(p, k)
    <3>1. o.state = "waiting" /\ o.notified /\ Leave(p, k, "started")
      BY <2>4, Zenon DEF Start
    <3> QED BY <2>1, <3>1, <1>EntriesLeft, Zenon
  <2>5. CASE ReadyFails(p, k)
    <3>1. o.state = "waiting" /\ Leave(p, k, "dropped")
      BY <2>5, Zenon DEF ReadyFails, Unregister
    <3> QED BY <2>1, <3>1, <1>EntriesLeft, Zenon
  <2>6. CASE Drop(p, k)
    <3>1. \/ o.state \in {"calling", "registering"} /\ Leave(p, k, "failed")
          \/ o.state \in {"idle", "waiting", "started"} /\ Leave(p, k, "dropped")
      BY ONLY <2>6, Zenon DEF Drop, Unregister, Pending, HasChannel
    <3> QED BY <2>1, <3>1, <1>EntriesLeft, Zenon
  <2>7. CASE Ready(p, k)
    <3> DEFINE e == [o EXCEPT !.state = "waiting", !.readied = TRUE]
    <3>1. o \in EndpointRecords
      BY RecordTypes, Zenon
    <3>2. e \in EndpointRecords
      BY <3>1, Zenon DEF EndpointRecords, States
    <3>3. /\ e.id = o.id /\ e.reg = o.reg /\ e.readied /\ e.state = "waiting"
          /\ e.acked = o.acked /\ e.notified = o.notified
      BY <3>1 DEF EndpointRecords
    <3>4. endpoints' = [endpoints EXCEPT ![p] = [endpoints[p] EXCEPT ![k] = e]] /\ o.state = "idle"
      BY ONLY <2>7, Zenon DEF Ready
    <3> HIDE DEF e
    <3>5. /\ Returned(o) => Returned(e)
          /\ e.state \in AfterReady
          /\ \A i : Granted(e, i) => Granted(o, i)
      BY <3>3, <3>4, Zenon DEF Returned, AfterReady, Granted
    <3>6. Moves(o, e, Acked(p, k), Notified(p, k))
      BY <3>3, <3>5, Zenon DEF Moves
    <3> QED BY <3>2, <3>4, <3>6, <1>EntriesChanged, Zenon
  <2>8. CASE OpenUni(p, k)
    BY <2>8, <1>EntriesSame, Zenon DEF OpenUni
  <2> QED BY <2>2, <2>3, <2>4, <2>5, <2>6, <2>7, <2>8 DEF CallStep

<1>EntriesNew.
    ASSUME TypeOK, NEW p \in Peers,
           Register(p) \/ \E reg \in 1 .. Len(endpoints[Other(p)]) : Connect(p, reg)
    PROVE  Entries
  <2> USE <1>EntriesNew
  <2>1. CASE Register(p)
    <3> DEFINE id == next_endpoint_index[p]
               bad == Endpoint(id, "failed", 0, FALSE)
               new == Endpoint(id, "calling", 0, ReadyAlready(p, id))
    <3>1. id \in Ids
      BY Zenon DEF TypeOK
    <3>2. bad \in EndpointRecords /\ new \in EndpointRecords
      BY <3>1 DEF Endpoint, EndpointRecords, States, ReadyAlready
    <3>3. /\ bad.id = id /\ bad.reg = 0 /\ ~ bad.readied /\ ~ bad.acked /\ ~ bad.notified
          /\ bad.state = "failed"
      BY Zenon DEF Endpoint
    <3>4. /\ new.id = id /\ new.reg = 0 /\ ~ new.readied /\ ~ new.acked /\ new.state = "calling"
          /\ new.notified => ReadyAlready(p, id)
      BY Zenon DEF Endpoint
    <3>5. Add(p, bad) \/ Add(p, new)
      BY <2>1, Zenon DEF Register, RegisterEndpoint
    <3> HIDE DEF bad, new
    <3>6. NewEntry(p, bad)
      BY ONLY <2>1, <3>3, Zenon DEF NewEntry, Granted
    <3>7. NewEntry(p, new)
      BY <2>1, <3>4, Zenon DEF NewEntry, Granted
    <3> QED BY <3>2, <3>5, <3>6, <3>7, <1>EntriesAdded
  <2>2. ASSUME NEW reg \in 1 .. Len(endpoints[Other(p)]), Connect(p, reg)
        PROVE  Entries
    <3> DEFINE id == endpoints[Other(p)][reg].id
               bad == Endpoint(id, "failed", reg, FALSE)
               good == Endpoint(id, "idle", reg, ReadyAlready(p, id))
    <3>1. Other(p) \in Peers
      BY DEF Other, Peers
    <3>2. /\ endpoints[Other(p)][reg] \in EndpointRecords /\ Len(endpoints[Other(p)]) <= MaxEndpoints
          /\ Len(endpoints[Other(p)]) \in Nat
      BY <3>1, RecordTypes, Zenon
    <3>3. id \in Ids /\ reg \in 0 .. MaxEndpoints /\ reg # 0
      BY <3>2 DEF EndpointRecords
    <3>4. bad \in EndpointRecords /\ good \in EndpointRecords
      BY ONLY <3>3, Zenon DEF Endpoint, EndpointRecords, States, ReadyAlready
    <3>5. /\ bad.id = id /\ bad.reg = reg /\ ~ bad.readied /\ ~ bad.notified /\ bad.state = "failed"
      BY Zenon DEF Endpoint
    <3>6. /\ good.id = id /\ good.reg = reg /\ ~ good.readied /\ good.state = "idle"
          /\ good.notified => ReadyAlready(p, id)
      BY Zenon DEF Endpoint
    <3>7. (Add(p, bad) \/ Add(p, good)) /\ Returned(endpoints[Other(p)][reg])
      BY <2>2, Zenon DEF Connect
    <3> HIDE DEF bad, good
    <3>8. NewEntry(p, bad)
      BY <3>3, <3>5, <3>7, Zenon DEF NewEntry, Granted
    <3>9. NewEntry(p, good)
      BY <3>3, <3>6, <3>7, Zenon DEF NewEntry, Granted
    <3> QED BY <3>4, <3>7, <3>8, <3>9, <1>EntriesAdded, Zenon
  <2> QED BY <2>1, <2>2

<1>EntriesOneshot.
    ASSUME TypeOK, HandshakeTypes, Indices, NEW p \in Peers, HandleMsg(p)
    PROVE  Entries
  <2> USE <1>EntriesOneshot
  <2> DEFINE id == Head(wire[Other(p)]).id
  <2>1. endpoints \in [Peers -> Seq(EndpointRecords)]
    BY Zenon DEF TypeOK
  <2>2. CASE HandleRegisterEndpoint(p) \/ Reply(p)
    BY <2>2, <1>EntriesSame, Zenon DEF HandleRegisterEndpoint, Reply
  <2>3. CASE HandleEndpointRegistered(p)
    <3> DEFINE k == pending_register_ack[p][id]
               b == ~ Dead(endpoints[p][k])
               o == endpoints[p][k]
               e == [o EXCEPT !.acked = b]
    <3>1. id \in Ids
      BY <2>3, ReceivedMsg, Zenon DEF HandleEndpointRegistered
    <3>2. CASE k = Vacant
      BY <2>3, <3>2, <1>EntriesSame, Zenon DEF HandleEndpointRegistered
    <3>3. CASE k # Vacant
      <4>1. k \in 1 .. Len(endpoints[p])
        BY <3>1, <3>3, Zenon DEF Indices, AckIndex
      <4>2. o \in EndpointRecords /\ b \in BOOLEAN
        BY <4>1, RecordTypes, Zenon DEF Dead
      <4>3. endpoints' = [endpoints EXCEPT ![p][k].acked = b]
        BY <2>3, <3>3, Zenon DEF HandleEndpointRegistered
      <4>4. Acked(p, k)
        BY <2>3 DEF Acked
      <4> HIDE DEF id, k, b
      <4>5. endpoints' = [endpoints EXCEPT ![p] = [endpoints[p] EXCEPT ![k] = e]]
        BY <2>1, <4>3
      <4>6. /\ e \in EndpointRecords
            /\ e.id = o.id /\ e.reg = o.reg /\ e.readied = o.readied /\ e.state = o.state
            /\ e.notified = o.notified
        BY <4>2, Zenon DEF EndpointRecords
      <4> HIDE DEF e, o
      <4>7. Moves(o, e, Acked(p, k), Notified(p, k))
        BY ONLY <4>4, <4>6, Zenon DEF Moves, Returned
      <4> QED BY <4>1, <4>5, <4>6, <4>7, <1>EntriesChanged, Zenon DEF o
    <3> QED BY ONLY <3>2, <3>3, Zenon
  <2>4. CASE HandleReady(p)
    <3> DEFINE k == pending_ready[p][id]
               o == endpoints[p][k]
               e == [o EXCEPT !.notified = TRUE]
    <3>1. id \in Ids
      BY <2>4, ReceivedMsg, Zenon DEF HandleReady
    <3>2. CASE ~ (k > 0 /\ ~ Dead(endpoints[p][k]))
      <4>1. endpoints' = endpoints
        BY <2>4, <3>2, Zenon DEF HandleReady
      <4> QED BY <4>1, <1>EntriesSame
    <3>3. CASE k > 0 /\ ~ Dead(endpoints[p][k])
      <4>1. k \in 1 .. Len(endpoints[p])
        BY <3>1, <3>3, Zenon DEF Indices, ReadyIndex
      <4>2. o \in EndpointRecords
        BY <4>1, RecordTypes, Zenon
      <4>3. endpoints' = [endpoints EXCEPT ![p][k].notified = TRUE]
        BY <2>4, <3>3, Zenon DEF HandleReady
      <4>4. Notified(p, k)
        BY <2>4 DEF Notified
      <4> HIDE DEF id, k
      <4>5. endpoints' = [endpoints EXCEPT ![p] = [endpoints[p] EXCEPT ![k] = e]]
        BY <2>1, <4>3
      <4>6. /\ e \in EndpointRecords
            /\ e.id = o.id /\ e.reg = o.reg /\ e.readied = o.readied /\ e.state = o.state
            /\ e.acked = o.acked
        BY <4>2, Zenon DEF EndpointRecords
      <4> HIDE DEF e, o
      <4>7. Moves(o, e, Acked(p, k), Notified(p, k))
        BY ONLY <4>4, <4>6, Zenon DEF Moves, Returned, Granted
      <4> QED BY <4>1, <4>5, <4>6, <4>7, <1>EntriesChanged, Zenon DEF o
    <3> QED BY <3>2, <3>3, Zenon
  <2> QED BY <2>2, <2>3, <2>4, Zenon DEF HandleMsg

<1> SUFFICES ASSUME TypeOK, HandshakeTypes, Indices, [Next]_vars PROVE Entries
  OBVIOUS
<1>1. CASE HandshakeStep \/ UNCHANGED vars
  BY <1>1, <1>EntriesSame DEF HandshakeStep, vars, endpointVars
<1>2. ASSUME NEW p \in Peers, DropConnection(p) \/ Transmit(p) \/ AcceptUni(p)
      PROVE  Entries
  BY <1>2, <1>EntriesSame, Zenon DEF DropConnection, Transmit, AcceptUni
<1> QED BY <1>1, <1>2, <1>EntriesCall, <1>EntriesNew, <1>EntriesOneshot, Zenon DEF Next

\* What a step makes of the maps of Control.
LEMMA PendingStep ==
    ASSUME TypeOK, HandshakeTypes, [Next]_vars, NEW p \in Peers, NEW i \in Ids
    PROVE  LET n == Len(endpoints[p]) + 1
               added == Len(endpoints'[p]) = n /\ endpoints'[p][n].id = i
           IN  /\ \/ pending_register_ack'[p][i] \in {pending_register_ack[p][i], Vacant}
                  \/ pending_register_ack'[p][i] = n /\ added /\ endpoints'[p][n].reg = 0
               /\ \/ pending_ready'[p][i] \in {pending_ready[p][i], Vacant}
                  \/ pending_ready'[p][i] = n /\ added
                  \/ /\ pending_ready'[p][i] = AwaitingLocal
                     /\ HandleReady(p) /\ Head(wire[Other(p)]).id = i
<1> DEFINE n == Len(endpoints[p]) + 1
           V == 0 .. MaxEndpoints
           W == -1 .. MaxEndpoints
           Goal == /\ \/ pending_register_ack'[p][i] \in {pending_register_ack[p][i], Vacant}
                      \/ /\ pending_register_ack'[p][i] = n /\ Len(endpoints'[p]) = n
                         /\ endpoints'[p][n].id = i /\ endpoints'[p][n].reg = 0
                   /\ \/ pending_ready'[p][i] \in {pending_ready[p][i], Vacant}
                      \/ /\ pending_ready'[p][i] = n /\ Len(endpoints'[p]) = n
                         /\ endpoints'[p][n].id = i
                      \/ /\ pending_ready'[p][i] = AwaitingLocal
                         /\ HandleReady(p) /\ Head(wire[Other(p)]).id = i
<1>1. pending_register_ack \in [Peers -> [Ids -> V]] /\ pending_ready \in [Peers -> [Ids -> W]]
  BY Zenon DEF TypeOK
<1> HIDE DEF V, W
<1>2. ASSUME UNCHANGED <<pending_register_ack, pending_ready>> PROVE Goal
  BY ONLY <1>2, Zenon
<1>3. CASE HandshakeStep \/ UNCHANGED vars
  BY <1>2, <1>3, Zenon DEF HandshakeStep, vars, endpointVars, pendingVars
<1>4. ASSUME NEW q \in Peers, NEW k \in 1 .. Len(endpoints[q]),
             CallStep(q, k) \/ Ready(q, k) \/ OpenUni(q, k) \/ Drop(q, k)
      PROVE  Goal
  <2>1. UNCHANGED pendingVars
    BY <1>4, Zenon DEF CallStep, Registered, SendRegisterEndpoint, Start, ReadyFails, Ready, OpenUni,
                       Drop
  <2> QED BY ONLY <1>2, <2>1, Zenon DEF pendingVars
<1>5. ASSUME NEW q \in Peers, Transmit(q) \/ AcceptUni(q) PROVE Goal
  BY <1>2, <1>5, Zenon DEF Transmit, AcceptUni, pendingVars
<1>6. ASSUME NEW q \in Peers, DropConnection(q) PROVE Goal
  BY ONLY <1>1, <1>6, Zenon DEF DropConnection
<1>7. ASSUME NEW q \in Peers, Register(q) PROVE Goal
  <2> DEFINE id == next_endpoint_index[q]
             bad == Endpoint(id, "failed", 0, FALSE)
             new == Endpoint(id, "calling", 0, ReadyAlready(q, id))
             v == IF pending_ready[q][id] = AwaitingLocal THEN Vacant ELSE Len(endpoints[q]) + 1
  <2>1. id \in Ids
    BY Zenon DEF TypeOK
  <2>2. bad \in EndpointRecords /\ new \in EndpointRecords
    BY <2>1 DEF Endpoint, EndpointRecords, States, ReadyAlready
  <2>3. bad.id = id /\ bad.reg = 0 /\ new.id = id /\ new.reg = 0
    BY Zenon DEF Endpoint
  <2>4. /\ Add(q, bad) \/ Add(q, new)
        /\ \/ pending_register_ack' = pending_register_ack
           \/ pending_register_ack' = [pending_register_ack EXCEPT ![q][id] = Len(endpoints[q]) + 1]
        /\ \/ pending_ready' = pending_ready
           \/ pending_ready' = [pending_ready EXCEPT ![q][id] = v]
    BY <1>7, Zenon DEF Register, RegisterEndpoint, RegisterReadyNotifier, pendingVars
  <2>5. v \in {Vacant, Len(endpoints[q]) + 1}
    OBVIOUS
  <2> HIDE DEF bad, new, id, v
  <2>6. PICK e \in EndpointRecords : Add(q, e) /\ e.id = id /\ e.reg = 0
    BY <2>2, <2>3, <2>4, Zenon
  <2>7. /\ Len(endpoints'[q]) = Len(endpoints[q]) + 1
        /\ endpoints'[q][Len(endpoints[q]) + 1] = e
    BY <2>6, AddedEndpoint
  <2>8. CASE q = p /\ id = i
    BY <1>1, <2>4, <2>5, <2>6, <2>7, <2>8
  <2>9. CASE ~ (q = p /\ id = i)
    <3>1. pending_register_ack'[p][i] = pending_register_ack[p][i]
      BY <1>1, <2>1, <2>4, <2>9
    <3>2. pending_ready'[p][i] = pending_ready[p][i]
      BY ONLY <1>1, <2>1, <2>4, <2>9
    <3> QED BY <3>1, <3>2, Zenon
  <2> QED BY <2>8, <2>9, Zenon
<1>8. ASSUME NEW q \in Peers, NEW reg \in 1 .. Len(endpoints[Other(q)]), Connect(q, reg) PROVE Goal
  <2> DEFINE id == endpoints[Other(q)][reg].id
             bad == Endpoint(id, "failed", reg, FALSE)
             good == Endpoint(id, "idle", reg, ReadyAlready(q, id))
             v == IF pending_ready[q][id] = AwaitingLocal THEN Vacant ELSE Len(endpoints[q]) + 1
  <2>1. Other(q) \in Peers
    BY DEF Other, Peers
  <2>2. /\ endpoints[Other(q)][reg] \in EndpointRecords /\ Len(endpoints[Other(q)]) <= MaxEndpoints
        /\ Len(endpoints[Other(q)]) \in Nat
    BY <2>1, RecordTypes, Zenon
  <2>3. id \in Ids /\ reg \in 0 .. MaxEndpoints
    BY <2>2 DEF EndpointRecords
  <2>4. bad \in EndpointRecords /\ good \in EndpointRecords
    BY ONLY <2>3, Zenon DEF Endpoint, EndpointRecords, States, ReadyAlready
  <2>5. bad.id = id /\ good.id = id
    BY Zenon DEF Endpoint
  <2>6. /\ Add(q, bad) \/ Add(q, good)
        /\ pending_register_ack' = pending_register_ack
        /\ \/ pending_ready' = pending_ready
           \/ pending_ready' = [pending_ready EXCEPT ![q][id] = v]
    BY <1>8, Zenon DEF Connect, RegisterReadyNotifier, pendingVars
  <2>7. v \in {Vacant, Len(endpoints[q]) + 1}
    OBVIOUS
  <2> HIDE DEF bad, good, id, v
  <2>8. PICK e \in EndpointRecords : Add(q, e) /\ e.id = id
    BY <2>4, <2>5, <2>6, Zenon
  <2>9. /\ Len(endpoints'[q]) = Len(endpoints[q]) + 1
        /\ endpoints'[q][Len(endpoints[q]) + 1] = e
    BY <2>8, AddedEndpoint, Zenon
  <2>10. CASE q = p /\ id = i
    BY ONLY <1>1, <2>6, <2>7, <2>8, <2>9, <2>10
  <2>11. CASE ~ (q = p /\ id = i)
    <3>1. pending_ready'[p][i] = pending_ready[p][i]
      BY ONLY <1>1, <2>3, <2>6, <2>11
    <3> QED BY ONLY <2>6, <3>1, Zenon
  <2> QED BY <2>10, <2>11, Zenon
<1>9. ASSUME NEW q \in Peers, HandleMsg(q) PROVE Goal
  <2> DEFINE id == Head(wire[Other(q)]).id
             v == IF pending_ready[q][id] = Vacant THEN AwaitingLocal ELSE Vacant
  <2>1. CASE HandleRegisterEndpoint(q) \/ Reply(q)
    BY <1>2, <2>1, Zenon DEF HandleRegisterEndpoint, Reply, pendingVars
  <2>2. CASE HandleEndpointRegistered(q)
    <3>1. /\ \/ pending_register_ack' = pending_register_ack
             \/ pending_register_ack' = [pending_register_ack EXCEPT ![q][id] = Vacant]
          /\ pending_ready' = pending_ready
      BY <2>2, Zenon DEF HandleEndpointRegistered
    <3>2. id \in Ids
      BY <2>2, ReceivedMsg, Zenon DEF HandleEndpointRegistered
    <3> HIDE DEF id
    <3> QED BY <1>1, <3>1, <3>2
  <2>3. CASE HandleReady(q)
    <3>1. /\ pending_ready' = [pending_ready EXCEPT ![q][id] = v]
          /\ pending_register_ack' = pending_register_ack
      BY <2>3, Zenon DEF HandleReady
    <3>2. id \in Ids
      BY <2>3, ReceivedMsg, Zenon DEF HandleReady
    <3>3. v \in {Vacant, AwaitingLocal}
      OBVIOUS
    <3>4. id = Head(wire[Other(q)]).id
      OBVIOUS
    <3> HIDE DEF id, v
    <3>5. CASE q = p /\ id = i
      BY ONLY <1>1, <2>3, <3>1, <3>2, <3>3, <3>4, <3>5, Zenon
    <3>6. CASE ~ (q = p /\ id = i)
      BY <1>1, <3>1, <3>2, <3>6, Zenon
    <3> QED BY <3>5, <3>6, Zenon
  <2> QED BY <1>9, <2>1, <2>2, <2>3, Zenon DEF HandleMsg
<1>10. Goal
  BY <1>3, <1>4, <1>5, <1>6, <1>7, <1>8, <1>9, Zenon DEF Next
<1> QED BY <1>10, Zenon

LEMMA IndicesStep ==
    ASSUME TypeOK, TypeOK', HandshakeTypes, Indices, [Next]_vars
    PROVE  Indices'
<1> SUFFICES ASSUME NEW p \in Peers PROVE AckIndex(p)' /\ ReadyIndex(p)'
  BY DEF Indices
<1>1. AckIndex(p) /\ ReadyIndex(p)
  BY DEF Indices
<1>2. /\ Len(endpoints[p]) \in Nat /\ Len(endpoints[p]) <= Len(endpoints'[p])
      /\ \A k \in 1 .. Len(endpoints[p]) :
            endpoints'[p][k].id = endpoints[p][k].id /\ endpoints'[p][k].reg = endpoints[p][k].reg
  <2>1. Entries /\ Len(endpoints[p]) \in Nat
    BY EntriesStep, RecordTypes
  <2> QED BY ONLY <2>1 DEF Entries, EntryStep, Moves
<1>3. ASSUME NEW i \in Ids, pending_register_ack'[p][i] # Vacant
      PROVE  /\ pending_register_ack'[p][i] \in 1 .. Len(endpoints'[p])
             /\ endpoints'[p][pending_register_ack'[p][i]].id = i
             /\ endpoints'[p][pending_register_ack'[p][i]].reg = 0
  <2> DEFINE n == Len(endpoints[p]) + 1
             j == pending_register_ack[p][i]
             k == pending_register_ack'[p][i]
  <2>1. \/ k = j \/ k = Vacant
        \/ /\ k = n /\ Len(endpoints'[p]) = n
           /\ endpoints'[p][n].id = i /\ endpoints'[p][n].reg = 0
    BY PendingStep
  <2>2. j # Vacant => /\ j \in 1 .. Len(endpoints[p])
                      /\ endpoints[p][j].id = i /\ endpoints[p][j].reg = 0
    BY <1>1, Zenon DEF AckIndex
  <2> HIDE DEF j, k
  <2>3. k # Vacant
    BY <1>3 DEF k
  <2>4. /\ k \in 1 .. Len(endpoints'[p])
        /\ endpoints'[p][k].id = i /\ endpoints'[p][k].reg = 0
    BY ONLY <1>2, <2>1, <2>2, <2>3
  <2> QED BY ONLY <2>4, Zenon DEF k
<1>4. ASSUME NEW i \in Ids, pending_ready'[p][i] > 0
      PROVE  /\ pending_ready'[p][i] \in 1 .. Len(endpoints'[p])
             /\ endpoints'[p][pending_ready'[p][i]].id = i
  <2> DEFINE n == Len(endpoints[p]) + 1
             j == pending_ready[p][i]
             k == pending_ready'[p][i]
  <2>1. \/ k = j \/ k = Vacant \/ k = AwaitingLocal
        \/ k = n /\ Len(endpoints'[p]) = n /\ endpoints'[p][n].id = i
    BY PendingStep
  <2>2. j > 0 => j \in 1 .. Len(endpoints[p]) /\ endpoints[p][j].id = i
    BY <1>1, Zenon DEF ReadyIndex
  <2> HIDE DEF j, k
  <2>3. k > 0 /\ k # Vacant /\ k # AwaitingLocal
    BY <1>4 DEF k, Vacant, AwaitingLocal
  <2>4. k \in 1 .. Len(endpoints'[p]) /\ endpoints'[p][k].id = i
    BY <1>2, <2>1, <2>2, <2>3
  <2> QED BY <2>4, Zenon DEF k
<1> QED BY <1>3, <1>4, Zenon DEF AckIndex, ReadyIndex
-----------------------------------------------------------------------------
(***************************************************************************)
(* The parity of an id tells which peer registered it, and an endpoint     *)
(* that has connected knows the one it connected to.                       *)
(***************************************************************************)
Parity(p) == IF p = "server" THEN 0 ELSE 1

Numbered(p, e) ==
    /\ e.reg = 0 => e.id % 2 = Parity(p)
    /\ e.reg # 0 => /\ e.reg \in 1 .. Len(endpoints[Other(p)])
                    /\ Returned(endpoints[Other(p)][e.reg])
                    /\ endpoints[Other(p)][e.reg].id = e.id
    /\ e.readied => e.state \in AfterReady

AllNumbered ==
    \A p \in Peers :
        /\ next_endpoint_index[p] % 2 = Parity(p)
        /\ \A k \in 1 .. Len(endpoints[p]) : Numbered(p, endpoints[p][k])

LEMMA NumberedStep ==
    TypeOK /\ HandshakeTypes /\ Indices /\ AllNumbered /\ [Next]_vars => AllNumbered'
<1>AfterIdParity.
    ASSUME NEW id \in Ids
    PROVE  AfterId(id) % 2 = id % 2
  <2> USE <1>AfterIdParity
  <2>1. id \in Nat /\ id < IdRange /\ IdRange \in Nat /\ IdRange % 2 = 0 /\ IdRange >= 2
    BY DEF Ids
  <2>2. CASE id + 2 < IdRange
    <3>1. (id + 2) % IdRange = id + 2
      BY <2>1, <2>2
    <3> QED BY <2>1, <3>1 DEF AfterId
  <2>3. CASE id + 2 >= IdRange
    <3>1. (id + 2) % IdRange = id + 2 - IdRange
      BY <2>1, <2>3
    <3>2. (id + 2 - IdRange) % 2 = id % 2
      BY <2>1, <2>3
    <3> QED BY <3>1, <3>2 DEF AfterId
  <2> QED BY <2>1, <2>2, <2>3

<1>NextIndex.
    ASSUME TypeOK, [Next]_vars, NEW p \in Peers
    PROVE  /\ next_endpoint_index[p] \in Ids
           /\ next_endpoint_index'[p] \in {next_endpoint_index[p], AfterId(next_endpoint_index[p])}
  <2> USE <1>NextIndex
  <2>1. next_endpoint_index \in [Peers -> Ids]
    BY Zenon DEF TypeOK
  <2>2. \/ next_endpoint_index' = next_endpoint_index
        \/ \E q \in Peers : next_endpoint_index' =
                [next_endpoint_index EXCEPT ![q] = AfterId(next_endpoint_index[q])]
    <3>1. ASSUME NEW q \in Peers, Register(q)
          PROVE  next_endpoint_index' =
                    [next_endpoint_index EXCEPT ![q] = AfterId(next_endpoint_index[q])]
      BY ONLY <3>1, Zenon DEF Register
    <3>2. CASE HandshakeStep \/ UNCHANGED vars
      BY <3>2 DEF HandshakeStep, vars, endpointVars
    <3>3. ASSUME NEW q \in Peers,
                 \/ \E reg \in 1 .. Len(endpoints[Other(q)]) : Connect(q, reg)
                 \/ \E k \in 1 .. Len(endpoints[q]) :
                       CallStep(q, k) \/ Ready(q, k) \/ OpenUni(q, k) \/ Drop(q, k)
                 \/ DropConnection(q) \/ Transmit(q) \/ HandleMsg(q) \/ AcceptUni(q)
          PROVE  next_endpoint_index' = next_endpoint_index
      BY <3>3, Zenon DEF Connect, CallStep, Registered, SendRegisterEndpoint, Start, ReadyFails, Ready,
                         OpenUni, Drop, DropConnection, Transmit, HandleMsg, HandleRegisterEndpoint,
                         Reply, HandleEndpointRegistered, HandleReady, AcceptUni
    <3> QED BY <3>1, <3>2, <3>3, Zenon DEF Next
  <2> QED BY <2>1, <2>2

<1> SUFFICES ASSUME TypeOK, HandshakeTypes, Indices, AllNumbered, [Next]_vars
             PROVE  AllNumbered'
  OBVIOUS
<1> SUFFICES ASSUME NEW p \in Peers
             PROVE  /\ next_endpoint_index'[p] % 2 = Parity(p)
                    /\ \A k \in 1 .. Len(endpoints'[p]) : Numbered(p, endpoints[p][k])'
  BY Zenon DEF AllNumbered
<1> DEFINE q == Other(p)
<1>1. q \in Peers
  BY DEF Other, Peers
<1>2. Entries
  BY EntriesStep
<1>3. next_endpoint_index'[p] % 2 = Parity(p)
  <2>1. next_endpoint_index[p] % 2 = Parity(p)
    BY DEF AllNumbered
  <2> QED BY <2>1, <1>NextIndex, <1>AfterIdParity
<1>4. /\ Len(endpoints[p]) \in Nat /\ Len(endpoints[q]) \in Nat
      /\ Len(endpoints[q]) <= Len(endpoints'[q])
      /\ \A k \in 1 .. Len(endpoints[q]) : EntryStep(q, k)
  BY <1>1, <1>2, RecordTypes DEF Entries
<1> HIDE DEF q
<1>5. ASSUME NEW e, e.reg \in 1 .. Len(endpoints[q]), Returned(endpoints[q][e.reg]),
             endpoints[q][e.reg].id = e.id
      PROVE  /\ e.reg \in 1 .. Len(endpoints'[q])
             /\ Returned(endpoints'[q][e.reg]) /\ endpoints'[q][e.reg].id = e.id
  BY ONLY <1>4, <1>5, SMTT(30) DEF EntryStep, Moves
<1>6. ASSUME NEW k \in 1 .. Len(endpoints'[p])
      PROVE  Numbered(p, endpoints[p][k])'
  <2> DEFINE e == endpoints'[p][k]
             o == endpoints[p][k]
  <2>1. CASE k \in 1 .. Len(endpoints[p])
    <3>1. Numbered(p, o)
      BY <2>1 DEF AllNumbered
    <3>2. /\ e.id = o.id /\ e.reg = o.reg
          /\ e.readied => o.readied \/ e.state = "waiting"
          /\ o.readied /\ o.state \in AfterReady => e.state \in AfterReady
      BY ONLY <1>2, <2>1, Zenon DEF Entries, EntryStep, Moves
    <3> HIDE DEF e, o
    <3>3. e.readied => e.state \in AfterReady
      BY <3>1, <3>2, Zenon DEF Numbered, AfterReady
    <3>4. e.reg = 0 => e.id % 2 = Parity(p)
      BY ONLY <3>1, <3>2, Zenon DEF Numbered
    <3>5. e.reg # 0 => /\ e.reg \in 1 .. Len(endpoints'[q])
                       /\ Returned(endpoints'[q][e.reg]) /\ endpoints'[q][e.reg].id = e.id
      BY ONLY <1>5, <3>1, <3>2, Zenon DEF Numbered, q
    <3> QED BY <3>3, <3>4, <3>5, Zenon DEF Numbered, e, q
  <2>2. CASE k \notin 1 .. Len(endpoints[p])
    <3>1. NewEntry(p, e)
      BY ONLY <1>2, <1>4, <2>2 DEF Entries
    <3>2. next_endpoint_index[p] % 2 = Parity(p)
      BY DEF AllNumbered
    <3> HIDE DEF e
    <3>3. ~ e.readied
      BY ONLY <3>1, Zenon DEF NewEntry
    <3>4. \/ e.reg = 0 /\ e.id % 2 = Parity(p)
          \/ /\ e.reg \in 1 .. Len(endpoints[q])
             /\ Returned(endpoints[q][e.reg]) /\ endpoints[q][e.reg].id = e.id
      BY <3>1, <3>2, Zenon DEF NewEntry, q
    <3>5. \/ e.reg = 0 /\ e.id % 2 = Parity(p)
          \/ /\ e.reg # 0 /\ e.reg \in 1 .. Len(endpoints'[q])
             /\ Returned(endpoints'[q][e.reg]) /\ endpoints'[q][e.reg].id = e.id
      BY ONLY <1>4, <1>5, <3>4
    <3> QED BY <3>3, <3>5, Zenon DEF Numbered, e, q
  <2> QED BY <2>1, <2>2
<1> QED BY <1>3, <1>6, Zenon
-----------------------------------------------------------------------------
(***************************************************************************)
(* An id is confirmed once, however often it is registered: at one time    *)
(* there is the reply to be sent, or the message, or the endpoint that got *)
(* it, and pending_connect remembers it as long as there is a connection.  *)
(***************************************************************************)
IsAck(m, i) == m.kind = "EndpointRegistered" /\ m.id = i

AcksIn(s, i) == {n \in 1 .. Len(s) : IsAck(s[n], i)}
Grants(p, i) == {k \in 1 .. Len(endpoints[p]) : Granted(endpoints[p][k], i)}

AtMostOne(S) == \A x, y \in S : x = y

ConfirmedOnce(p, q, i) ==
    /\ AtMostOne(AcksIn(Pipe(q), i)) /\ AtMostOne(Grants(p, i))
    /\ replying[q] = i => AcksIn(Pipe(q), i) = {} /\ Grants(p, i) = {}
    /\ AcksIn(Pipe(q), i) # {} => Grants(p, i) = {}
    /\ replying[q] = i \/ AcksIn(Pipe(q), i) # {} => i \in pending_connect[q]
    /\ Grants(p, i) # {} => i \in pending_connect[q] \/ conn = "closed"

AllConfirmedOnce ==
    \A p \in Peers : \A i \in Ids : ConfirmedOnce(p, Other(p), i)

\* The message that is read next, and what is left then.
LEMMA PipeNext ==
    ASSUME NEW w \in Seq(Msgs), NEW u \in Seq(Msgs), w # <<>>
    PROVE  /\ 1 \in 1 .. Len(w \o u) /\ (w \o u)[1] = Head(w)
           /\ \A n \in 1 .. Len(Tail(w) \o u) :
                 n + 1 \in 1 .. Len(w \o u) /\ (Tail(w) \o u)[n] = (w \o u)[n + 1]
<1> DEFINE t == Tail(w) \o u
<1>1. /\ Len(w) \in Nat \ {0} /\ Len(u) \in Nat
      /\ Len(w \o u) = Len(w) + Len(u)
      /\ \A n \in 1 .. Len(w) + Len(u) : (w \o u)[n] = IF n <= Len(w) THEN w[n] ELSE u[n - Len(w)]
  BY ConcatProperties, EmptySeq
<1>2. /\ Tail(w) \in Seq(Msgs) /\ Len(Tail(w)) = Len(w) - 1 /\ Head(w) = w[1]
      /\ \A n \in 1 .. Len(Tail(w)) : Tail(w)[n] = w[n + 1]
  BY HeadTailProperties
<1>3. /\ Len(t) = Len(Tail(w)) + Len(u)
      /\ \A n \in 1 .. Len(Tail(w)) + Len(u) :
            t[n] = IF n <= Len(Tail(w)) THEN Tail(w)[n] ELSE u[n - Len(Tail(w))]
  BY <1>2, ConcatProperties
<1> HIDE DEF t
<1>4. \A n \in 1 .. Len(t) : n + 1 \in 1 .. Len(w \o u) /\ t[n] = (w \o u)[n + 1]
  BY <1>1, <1>2, <1>3
<1> QED BY <1>1, <1>2, <1>4 DEF t

LEMMA ConfirmedStep ==
    IInv /\ TypeOK' /\ HandshakeTypes' /\ Indices /\ AllConfirmedOnce /\ [Next]_vars
        => AllConfirmedOnce'
<1>AcksCarried.
    ASSUME NEW old, NEW new, Carried(old, new), Len(new) \in Nat, NEW i
    PROVE  /\ AtMostOne(AcksIn(old, i)) => AtMostOne(AcksIn(new, i))
           /\ AcksIn(old, i) = {} => AcksIn(new, i) = {}
  <2> USE <1>AcksCarried
  <2>1. PICK d \in Nat : \A n \in 1 .. Len(new) :
            Telling(new[n]) => n + d \in 1 .. Len(old) /\ new[n] = old[n + d]
    BY Zenon DEF Carried
  <2>2. ASSUME NEW n \in AcksIn(new, i) PROVE n \in Nat /\ n + d \in AcksIn(old, i)
    <3>1. n \in 1 .. Len(new) /\ IsAck(new[n], i)
      BY <2>2 DEF AcksIn
    <3>2. Telling(new[n])
      BY <3>1, Zenon DEF IsAck, Telling
    <3>3. n + d \in 1 .. Len(old) /\ IsAck(old[n + d], i)
      BY <2>1, <3>1, <3>2, Zenon DEF IsAck
    <3> QED BY <3>1, <3>3 DEF AcksIn
  <2>3. AcksIn(old, i) = {} => AcksIn(new, i) = {}
    BY <2>2
  <2>4. ASSUME AtMostOne(AcksIn(old, i)), NEW x \in AcksIn(new, i), NEW y \in AcksIn(new, i)
        PROVE  x = y
    <3>1. x \in Nat /\ y \in Nat /\ x + d \in AcksIn(old, i) /\ y + d \in AcksIn(old, i)
      BY ONLY <2>2
    <3>2. x + d = y + d
      BY <2>4, <3>1, Zenon DEF AtMostOne
    <3> QED BY <3>1, <3>2
  <2> QED BY ONLY <2>3, <2>4, Zenon DEF AtMostOne

<1>AcksJoined.
    ASSUME NEW old, NEW new, NEW m, Joined(old, new, m), Len(new) \in Nat, NEW i
    PROVE  /\ ~ IsAck(m, i) => AcksIn(new, i) \subseteq AcksIn(old, i)
           /\ AcksIn(old, i) = {} => AtMostOne(AcksIn(new, i))
  <2> USE <1>AcksJoined
  <2>1. ASSUME NEW n \in AcksIn(new, i)
        PROVE  n \in AcksIn(old, i) \/ (n = Len(old) + 1 /\ IsAck(m, i))
    <3>1. n \in 1 .. Len(new) /\ IsAck(new[n], i)
      BY <2>1 DEF AcksIn
    <3>2. Telling(new[n])
      BY ONLY <3>1 DEF IsAck, Telling
    <3>3. \/ n \in 1 .. Len(old) /\ new[n] = old[n]
          \/ n = Len(old) + 1 /\ new[n] = m
      BY <3>1, <3>2, Zenon DEF Joined
    <3> QED BY ONLY <3>1, <3>3, Zenon DEF AcksIn, IsAck
  <2> QED BY <2>1, Zenon DEF AtMostOne

<1>ControlStep.
    ASSUME TypeOK, [Next]_vars, NEW q \in Peers
    PROVE  /\ conn = "closed" => conn' = "closed"
           /\ \/ replying'[q] = replying[q] /\ pending_connect'[q] = pending_connect[q]
              \/ DropConnection(q) \/ HandleRegisterEndpoint(q) \/ Reply(q)
  <2> USE <1>ControlStep
  <2> DEFINE Goal == /\ conn = "closed" => conn' = "closed"
                     /\ \/ replying'[q] = replying[q] /\ pending_connect'[q] = pending_connect[q]
                        \/ DropConnection(q) \/ HandleRegisterEndpoint(q) \/ Reply(q)
  <2>1. replying \in [Peers -> Ids \cup {NoReply}] /\ pending_connect \in [Peers -> SUBSET Ids]
    BY Zenon DEF TypeOK
  <2>2. CASE HandshakeStep
    <3>1. UNCHANGED <<replying, pending_connect>>
      BY <2>2 DEF HandshakeStep, pendingVars, queueVars
    <3>2. conn = "closed" => conn' = "closed"
      BY ONLY <2>2, Zenon DEF HandshakeStep, HandshakeNext, ConnectPlain, ConnectWithAuth, Confirmed,
                  AcceptPlain, AcceptWithAuth, AcceptAuthentication, RejectAuthentication,
                  Close, HandshakeFails, Closed
    <3> QED BY <3>1, <3>2
  <2>3. CASE UNCHANGED vars
    BY <2>3 DEF vars, handshakeVars, endpointVars, pendingVars, queueVars
  <2>4. ASSUME NEW p \in Peers,
               \/ Register(p)
               \/ \E reg \in 1 .. Len(endpoints[Other(p)]) : Connect(p, reg)
               \/ \E k \in 1 .. Len(endpoints[p]) :
                     CallStep(p, k) \/ Ready(p, k) \/ OpenUni(p, k) \/ Drop(p, k)
               \/ Transmit(p) \/ AcceptUni(p)
        PROVE  Goal
    <3>1. UNCHANGED <<conn, replying, pending_connect>>
      BY <2>4, Zenon DEF Register, Connect, CallStep, Registered, SendRegisterEndpoint, Start,
                         ReadyFails, Ready, OpenUni, Drop, Transmit, AcceptUni, handshakeVars,
                         pendingVars, queueVars
    <3> QED BY <3>1, Zenon
  <2>5. ASSUME NEW p \in Peers, DropConnection(p) PROVE Goal
    <3>1. /\ conn' = "closed"
          /\ pending_connect' = [pending_connect EXCEPT ![p] = {}]
          /\ replying' = [replying EXCEPT ![p] = NoReply]
      BY <2>5, Zenon DEF DropConnection, Closed
    <3> QED BY <2>1, <2>5, <3>1
  <2>6. ASSUME NEW p \in Peers, HandleMsg(p) PROVE Goal
    <3>1. UNCHANGED conn
      BY <2>6, Zenon DEF HandleMsg, HandleRegisterEndpoint, Reply, HandleEndpointRegistered,
                         HandleReady, Receive, handshakeVars
    <3>2. CASE HandleEndpointRegistered(p) \/ HandleReady(p)
      <4>1. UNCHANGED <<replying, pending_connect>>
        BY <3>2, Zenon DEF HandleEndpointRegistered, HandleReady, queueVars
      <4> QED BY <3>1, <4>1
    <3>3. CASE HandleRegisterEndpoint(p) \/ Reply(p)
      <4>1. CASE p = q
        BY <3>1, <3>3, <4>1
      <4>2. CASE p # q
        <5>1. replying'[q] = replying[q] /\ pending_connect'[q] = pending_connect[q]
          BY <2>1, <3>3, <4>2, Zenon DEF HandleRegisterEndpoint, Reply, pendingVars
        <5> QED BY <3>1, <5>1
      <4> QED BY ONLY <4>1, <4>2, Zenon
    <3> QED BY ONLY <2>6, <3>2, <3>3, Zenon DEF HandleMsg
  <2>7. Goal
    BY <2>2, <2>3, <2>4, <2>5, <2>6, Zenon DEF Next
  <2> QED BY <2>7

<1>AcksStep.
    ASSUME IInv, TypeOK', HandshakeTypes', [Next]_vars, NEW q \in Peers, NEW i \in Ids
    PROVE  \/ /\ AtMostOne(AcksIn(Pipe(q), i)) => AtMostOne(AcksIn(Pipe(q)', i))
              /\ AcksIn(Pipe(q), i) = {} => AcksIn(Pipe(q)', i) = {}
           \/ /\ Reply(q) /\ replying[q] = i
              /\ AcksIn(Pipe(q), i) = {} => AtMostOne(AcksIn(Pipe(q)', i))
  <2> USE <1>AcksStep
  <2>1. Len(Pipe(q)') \in Nat
    BY PipeTypes
  <2>2. CASE Carried(Pipe(q), Pipe(q)')
    BY <2>1, <2>2, <1>AcksCarried, Zenon
  <2>3. ASSUME NEW m, Joined(Pipe(q), Pipe(q)', m), ~ IsAck(m, i)
        PROVE  /\ AtMostOne(AcksIn(Pipe(q), i)) => AtMostOne(AcksIn(Pipe(q)', i))
               /\ AcksIn(Pipe(q), i) = {} => AcksIn(Pipe(q)', i) = {}
    <3>1. AcksIn(Pipe(q)', i) \subseteq AcksIn(Pipe(q), i)
      BY <2>1, <2>3, <1>AcksJoined, Zenon
    <3> QED BY <3>1, Zenon DEF AtMostOne
  <2>4. ASSUME NEW k \in 1 .. Len(endpoints[q]),
               Joined(Pipe(q), Pipe(q)', ReadyMsg(endpoints[q][k].id))
        PROVE  /\ AtMostOne(AcksIn(Pipe(q), i)) => AtMostOne(AcksIn(Pipe(q)', i))
               /\ AcksIn(Pipe(q), i) = {} => AcksIn(Pipe(q)', i) = {}
    <3>1. ~ IsAck(ReadyMsg(endpoints[q][k].id), i)
      BY DEF IsAck, ReadyMsg
    <3> QED BY ONLY <2>3, <2>4, <3>1, Zenon
  <2>5. ASSUME Reply(q), Joined(Pipe(q), Pipe(q)', AckMsg(replying[q]))
        PROVE  \/ /\ AtMostOne(AcksIn(Pipe(q), i)) => AtMostOne(AcksIn(Pipe(q)', i))
                  /\ AcksIn(Pipe(q), i) = {} => AcksIn(Pipe(q)', i) = {}
               \/ /\ Reply(q) /\ replying[q] = i
                  /\ AcksIn(Pipe(q), i) = {} => AtMostOne(AcksIn(Pipe(q)', i))
    <3>1. CASE replying[q] = i
      BY <2>1, <2>5, <3>1, <1>AcksJoined, Zenon
    <3>2. CASE replying[q] # i
      <4>1. ~ IsAck(AckMsg(replying[q]), i)
        BY <3>2 DEF IsAck, AckMsg
      <4> QED BY ONLY <2>3, <2>5, <4>1, Zenon
    <3> QED BY ONLY <3>1, <3>2, Zenon
  <2> QED BY <2>2, <2>4, <2>5, Pipes, Zenon DEF PipeStep

<1>GrantsStep.
    ASSUME TypeOK, HandshakeTypes, Indices, [Next]_vars, NEW p \in Peers, NEW i \in Ids
    PROVE  Grants(p, i)' \subseteq
              Grants(p, i) \cup
                  {k \in 1 .. Len(endpoints[p]) : Acked(p, k) /\ Head(wire[Other(p)]).id = i}
  <2> USE <1>GrantsStep
  <2>1. Entries /\ Len(endpoints[p]) \in Nat
    BY EntriesStep, RecordTypes
  <2> SUFFICES ASSUME NEW k \in 1 .. Len(endpoints'[p]), Granted(endpoints'[p][k], i)
               PROVE  /\ k \in 1 .. Len(endpoints[p])
                      /\ \/ Granted(endpoints[p][k], i)
                         \/ Acked(p, k) /\ Head(wire[Other(p)]).id = i
    BY Zenon DEF Grants, Granted
  <2>2. k \in 1 .. Len(endpoints[p])
    BY <2>1 DEF Entries, NewEntry
  <2>3. /\ endpoints'[p][k].id = endpoints[p][k].id
        /\ Granted(endpoints[p][k], i) \/ Acked(p, k)
    BY <2>1, <2>2, Zenon DEF Entries, EntryStep, Moves
  <2>4. ASSUME Acked(p, k) PROVE Head(wire[Other(p)]).id = i
    <3> DEFINE id == Head(wire[Other(p)]).id
    <3>1. id \in Ids
      BY <2>4, ReceivedMsg, Zenon DEF Acked, HandleEndpointRegistered
    <3>2. pending_register_ack[p][id] = k /\ k # Vacant
      BY ONLY <2>2, <2>4 DEF Acked, Vacant
    <3>3. endpoints[p][k].id = id
      BY <3>1, <3>2, Zenon DEF Indices, AckIndex
    <3>4. endpoints'[p][k].id = i
      BY Zenon DEF Granted
    <3> QED BY ONLY <2>3, <3>3, <3>4, Zenon
  <2> QED BY <2>2, <2>3, <2>4, Zenon

<1> SUFFICES ASSUME IInv, TypeOK', HandshakeTypes', Indices, AllConfirmedOnce, [Next]_vars
             PROVE  AllConfirmedOnce'
  OBVIOUS
<1> SUFFICES ASSUME NEW p \in Peers, NEW i \in Ids
             PROVE  ConfirmedOnce(p, Other(p), i)'
  BY DEF AllConfirmedOnce
<1> DEFINE q == Other(p)
           A == AcksIn(Pipe(q), i)
           B == AcksIn(Pipe(q)', i)
           G == Grants(p, i)
           H == Grants(p, i)'
<1>1. q \in Peers /\ p = Other(q) /\ p # q
  BY DEF Other, Peers
<1>2. TypeOK /\ HandshakeTypes /\ Framed
  BY DEF IInv
<1>3. /\ AtMostOne(A) /\ AtMostOne(G)
      /\ replying[q] = i => A = {} /\ G = {}
      /\ A # {} => G = {}
      /\ replying[q] = i \/ A # {} => i \in pending_connect[q]
      /\ G # {} => i \in pending_connect[q] \/ conn = "closed"
  BY Zenon DEF AllConfirmedOnce, ConfirmedOnce
<1>4. \/ (AtMostOne(A) => AtMostOne(B)) /\ (A = {} => B = {})
      \/ Reply(q) /\ replying[q] = i /\ (A = {} => AtMostOne(B))
  BY <1>1, <1>AcksStep, Zenon
<1>5. H \subseteq G \cup {k \in 1 .. Len(endpoints[p]) : Acked(p, k) /\ Head(wire[q]).id = i}
  BY <1>2, <1>GrantsStep, Zenon
<1>6. /\ conn = "closed" => conn' = "closed"
      /\ \/ replying'[q] = replying[q] /\ pending_connect'[q] = pending_connect[q]
         \/ DropConnection(q) \/ HandleRegisterEndpoint(q) \/ Reply(q)
  BY <1>1, <1>2, <1>ControlStep, Zenon
<1>7. pending_connect \in [Peers -> SUBSET Ids] /\ replying \in [Peers -> Ids \cup {NoReply}]
  BY <1>2, Zenon DEF TypeOK
<1>8. SUFFICES /\ AtMostOne(B) /\ AtMostOne(H)
               /\ replying'[q] = i => B = {} /\ H = {}
               /\ B # {} => H = {}
               /\ replying'[q] = i \/ B # {} => i \in pending_connect'[q]
               /\ H # {} => i \in pending_connect'[q] \/ conn' = "closed"
  BY Zenon DEF ConfirmedOnce
<1>9. i # NoReply
  BY DEF Ids, NoReply
<1>10. ASSUME endpoints' = endpoints PROVE H = G
  BY <1>10 DEF Grants, Granted
<1> HIDE DEF A, B, G, H, q
<1>11. AtMostOne(G) /\ H \subseteq G => AtMostOne(H)
  BY Zenon DEF AtMostOne
<1>12. CASE DropConnection(q)
  <2>1. /\ endpoints' = endpoints /\ conn' = "closed" /\ replying'[q] = NoReply
        /\ wire'[q] = <<>> /\ queue'[q] = <<>>
    BY ONLY <1>1, <1>2, <1>7, <1>12, Zenon DEF DropConnection, Closed, TypeOK
  <2>2. Pipe(q)' = <<>>
    BY <2>1, ConcatEmptySeq, EmptySeq, Zenon DEF Pipe
  <2>3. B = {}
    BY <2>2 DEF B, AcksIn
  <2> QED BY <1>3, <1>9, <1>10, <2>1, <2>3, Zenon DEF AtMostOne
<1>13. CASE HandleRegisterEndpoint(q)
  <2>1. endpoints' = endpoints /\ queue' = queue /\ Receive(q, "RegisterEndpoint")
    BY <1>13, Zenon DEF HandleRegisterEndpoint
  <2>2. conn' = conn /\ wire[p] # <<>> /\ wire' = [wire EXCEPT ![p] = Tail(wire[p])]
    BY <1>1, <2>1, Zenon DEF Receive, Read
  <2>3. Pipe(q)' = Pipe(q)
    BY <1>1, <1>2, <2>1, <2>2, Zenon DEF Pipe, HandshakeTypes
  <2>4. B = A /\ H = G
    BY <1>10, <2>1, <2>3, Zenon DEF A, B
  <2>5. conn # "closed"
    BY <2>2, Zenon DEF IInv, Framed
  <2>6. \/ pending_connect'[q] = pending_connect[q] /\ replying'[q] = replying[q]
        \/ /\ Head(wire[p]).id \notin pending_connect[q]
           /\ pending_connect'[q] = pending_connect[q] \cup {Head(wire[p]).id}
           /\ replying'[q] = Head(wire[p]).id
    BY ONLY <1>1, <1>7, <1>13, Zenon DEF HandleRegisterEndpoint
  <2> QED BY <1>3, <2>2, <2>4, <2>5, <2>6, Zenon
<1>14. CASE Reply(q)
  <2>1. endpoints' = endpoints /\ conn' = conn /\ pending_connect' = pending_connect
    BY <1>14, Zenon DEF Reply, handshakeVars, pendingVars
  <2>2. replying'[q] = NoReply
    BY <1>1, <1>7, <1>14, Zenon DEF Reply
  <2> QED BY <1>3, <1>4, <1>9, <1>10, <2>1, <2>2, Zenon
<1>15. CASE HandleEndpointRegistered(p) /\ Head(wire[q]).id = i
  <2>1. /\ pending_connect' = pending_connect /\ UNCHANGED <<queue, replying>>
        /\ Receive(p, "EndpointRegistered")
    BY <1>15, Zenon DEF HandleEndpointRegistered, queueVars
  <2>2. /\ wire[q] # <<>> /\ wire' = [wire EXCEPT ![q] = Tail(wire[q])]
        /\ Head(wire[q]).kind = "EndpointRegistered"
    BY <2>1, Zenon DEF Receive, Read, q
  <2>3. wire[q] \in Seq(Msgs) /\ queue[q] \in Seq(Msgs) /\ wire'[q] = Tail(wire[q])
    BY ONLY <1>1, <1>2, <2>2, PipeTypes, Zenon DEF HandshakeTypes
  <2>4. /\ 1 \in 1 .. Len(Pipe(q)) /\ Pipe(q)[1] = Head(wire[q])
        /\ \A n \in 1 .. Len(Pipe(q)') :
              n + 1 \in 1 .. Len(Pipe(q)) /\ Pipe(q)'[n] = Pipe(q)[n + 1]
    <3>1. Pipe(q) = wire[q] \o queue[q] /\ Pipe(q)' = Tail(wire[q]) \o queue[q]
      BY <2>1, <2>3 DEF Pipe
    <3>2. /\ 1 \in 1 .. Len(wire[q] \o queue[q]) /\ (wire[q] \o queue[q])[1] = Head(wire[q])
          /\ \A n \in 1 .. Len(Tail(wire[q]) \o queue[q]) :
                /\ n + 1 \in 1 .. Len(wire[q] \o queue[q])
                /\ (Tail(wire[q]) \o queue[q])[n] = (wire[q] \o queue[q])[n + 1]
      BY ONLY <2>2, <2>3, PipeNext, Zenon
    <3> QED BY <3>1, <3>2, Zenon
  <2>5. 1 \in A
    BY <1>15, <2>2, <2>4, Zenon DEF A, AcksIn, IsAck
  <2>6. B = {}
    <3>1. ASSUME NEW n \in B PROVE FALSE
      <4>1. n \in 1 .. Len(Pipe(q)') /\ IsAck(Pipe(q)'[n], i)
        BY <3>1, Zenon DEF B, AcksIn
      <4>2. n + 1 \in A
        BY <2>4, <4>1, Zenon DEF A, AcksIn
      <4>3. n + 1 = 1
        BY <1>3, <2>5, <4>2, Zenon DEF AtMostOne
      <4> QED BY <4>1, <4>3
    <3> QED BY <3>1
  <2>7. G = {} /\ i \in pending_connect[q] /\ replying[q] # i
    BY <1>3, <2>5, Zenon
  <2>8. \A k : Acked(p, k) => k = pending_register_ack[p][i]
    BY <1>15, Zenon DEF Acked, q
  <2>9. AtMostOne(H)
    BY <1>5, <2>7, <2>8, Zenon DEF AtMostOne
  <2> QED BY <1>9, <2>1, <2>6, <2>7, <2>9, Zenon DEF AtMostOne
<1>16. CASE /\ ~ (HandleEndpointRegistered(p) /\ Head(wire[q]).id = i)
            /\ ~ DropConnection(q) /\ ~ HandleRegisterEndpoint(q) /\ ~ Reply(q)
  <2>1. H \subseteq G
    BY ONLY <1>5, <1>16, Zenon DEF Acked
  <2> QED BY ONLY <1>3, <1>4, <1>6, <1>11, <1>16, <2>1, Zenon
<1> QED BY <1>12, <1>13, <1>14, <1>15, <1>16, Zenon
-----------------------------------------------------------------------------
(***************************************************************************)
(* Who is told, or has been told, that the other peer is ready for an id   *)
(* can rely on an endpoint of that peer which has called ready().          *)
(***************************************************************************)
Readied(s, i) == \E j \in 1 .. Len(s) : s[j].id = i /\ s[j].readied

ReadyKnown(p, q) ==
    /\ \A n \in 1 .. Len(Pipe(q)) : Pipe(q)[n].kind = "Ready" => Readied(endpoints[q], Pipe(q)[n].id)
    /\ \A i \in Ids : pending_ready[p][i] = AwaitingLocal => Readied(endpoints[q], i)
    /\ \A k \in 1 .. Len(endpoints[p]) :
          endpoints[p][k].notified \/ endpoints[p][k].state = "started" =>
              Readied(endpoints[q], endpoints[p][k].id)

AllReadyKnown == \A p \in Peers : ReadyKnown(p, Other(p))

LEMMA ReadyKnownStep ==
    IInv /\ TypeOK' /\ HandshakeTypes' /\ Indices /\ AllReadyKnown /\ [Next]_vars
        => AllReadyKnown'
<1>ReadiedStays.
    ASSUME TypeOK, Entries, NEW q \in Peers, NEW i, Readied(endpoints[q], i)
    PROVE  Readied(endpoints'[q], i)
  <2> USE <1>ReadiedStays
  <2>1. PICK j \in 1 .. Len(endpoints[q]) : endpoints[q][j].id = i /\ endpoints[q][j].readied
    BY Zenon DEF Readied
  <2>2. Len(endpoints[q]) \in Nat /\ Len(endpoints[q]) <= Len(endpoints'[q])
    BY RecordTypes DEF Entries
  <2>3. endpoints'[q][j].id = i /\ endpoints'[q][j].readied
    BY <2>1, Zenon DEF Entries, EntryStep, Moves
  <2>4. j \in 1 .. Len(endpoints'[q])
    BY ONLY <2>2
  <2> QED BY ONLY <2>3, <2>4, Zenon DEF Readied

<1>ReadyMsgsStep.
    ASSUME IInv, TypeOK', HandshakeTypes', Indices, [Next]_vars, NEW q \in Peers,
           \A n \in 1 .. Len(Pipe(q)) : Pipe(q)[n].kind = "Ready" => Readied(endpoints[q], Pipe(q)[n].id)
    PROVE  \A n \in 1 .. Len(Pipe(q)') :
              Pipe(q)'[n].kind = "Ready" => Readied(endpoints'[q], Pipe(q)'[n].id)
  <2> USE <1>ReadyMsgsStep
  <2> DEFINE old == Pipe(q)
             new == Pipe(q)'
  <2>1. TypeOK /\ HandshakeTypes /\ Len(new) \in Nat
    BY PipeTypes DEF IInv
  <2>2. Entries
    BY <2>1, EntriesStep
  <2>3. \A i : Readied(endpoints[q], i) => Readied(endpoints'[q], i)
    BY ONLY <2>1, <2>2, <1>ReadiedStays, Zenon
  <2>4. ASSUME NEW n \in 1 .. Len(new), new[n].kind = "Ready",
               NEW j \in 1 .. Len(old), new[n] = old[j]
        PROVE  Readied(endpoints'[q], new[n].id)
    BY <2>3, <2>4, Zenon
  <2>5. ASSUME Carried(old, new), NEW n \in 1 .. Len(new), new[n].kind = "Ready"
        PROVE  \E j \in 1 .. Len(old) : new[n] = old[j]
    <3>1. Telling(new[n])
      BY <2>5, Zenon DEF Telling
    <3> HIDE DEF old, new
    <3> QED BY <2>5, <3>1, Zenon DEF Carried
  <2>6. ASSUME NEW m, Joined(old, new, m), NEW n \in 1 .. Len(new), new[n].kind = "Ready"
        PROVE  (\E j \in 1 .. Len(old) : new[n] = old[j]) \/ new[n] = m
    <3>1. Telling(new[n])
      BY ONLY <2>6 DEF Telling
    <3> HIDE DEF old, new
    <3> QED BY ONLY <2>6, <3>1, Zenon DEF Joined
  <2>7. ASSUME NEW k \in 1 .. Len(endpoints[q]), Ready(q, k)
        PROVE  Readied(endpoints'[q], endpoints[q][k].id)
    <3> DEFINE e == [endpoints[q][k] EXCEPT !.state = "waiting", !.readied = TRUE]
    <3>1. endpoints[q][k] \in EndpointRecords
      BY ONLY <2>1, RecordTypes, Zenon
    <3>2. e \in EndpointRecords /\ e.id = endpoints[q][k].id /\ e.readied = TRUE
      BY <3>1, Zenon DEF EndpointRecords, States
    <3>3. endpoints' = [endpoints EXCEPT ![q] = [endpoints[q] EXCEPT ![k] = e]]
      BY <2>7, Zenon DEF Ready
    <3> HIDE DEF e
    <3>4. Len(endpoints'[q]) = Len(endpoints[q]) /\ endpoints'[q][k] = e
      BY ONLY <2>1, <3>1, <3>2, <3>3 DEF TypeOK
    <3> QED BY <3>2, <3>4, Zenon DEF Readied
  <2>8. ASSUME NEW n \in 1 .. Len(new), new[n].kind = "Ready"
        PROVE  Readied(endpoints'[q], new[n].id)
    <3>1. CASE Carried(old, new)
      BY <2>4, <2>5, <2>8, <3>1, Zenon
    <3>2. ASSUME NEW k \in 1 .. Len(endpoints[q]), Ready(q, k),
                 Joined(old, new, ReadyMsg(endpoints[q][k].id))
          PROVE  Readied(endpoints'[q], new[n].id)
      <4>1. ReadyMsg(endpoints[q][k].id).id = endpoints[q][k].id
        BY Zenon DEF ReadyMsg
      <4>2. CASE new[n] = ReadyMsg(endpoints[q][k].id)
        <5>1. new[n].id = endpoints[q][k].id
          BY ONLY <4>1, <4>2, Zenon
        <5> QED BY <2>7, <3>2, <5>1, Zenon
      <4>3. CASE \E j \in 1 .. Len(old) : new[n] = old[j]
        BY <2>4, <2>8, <4>3, Zenon
      <4> QED BY ONLY <2>6, <2>8, <3>2, <4>2, <4>3, Zenon
    <3>3. ASSUME Joined(old, new, AckMsg(replying[q]))
          PROVE  Readied(endpoints'[q], new[n].id)
      <4>1. new[n] # AckMsg(replying[q])
        BY ONLY <2>8 DEF AckMsg
      <4> QED BY ONLY <2>4, <2>6, <2>8, <3>3, <4>1, Zenon
    <3> QED BY <3>1, <3>2, <3>3, Pipes, Zenon DEF PipeStep
  <2> QED BY ONLY <2>8, Zenon

<1> SUFFICES ASSUME IInv, TypeOK', HandshakeTypes', Indices, AllReadyKnown, [Next]_vars
             PROVE  AllReadyKnown'
  OBVIOUS
<1> SUFFICES ASSUME NEW p \in Peers PROVE ReadyKnown(p, Other(p))'
  BY Zenon DEF AllReadyKnown, ReadyKnown
<1> DEFINE q == Other(p)
           id == Head(wire[q]).id
<1>1. TypeOK /\ HandshakeTypes
  BY DEF IInv
<1>2. q \in Peers
  BY Zenon DEF Other, Peers
<1>3. Entries
  BY <1>1, EntriesStep
<1>4. /\ \A n \in 1 .. Len(Pipe(q)) : Pipe(q)[n].kind = "Ready" => Readied(endpoints[q], Pipe(q)[n].id)
      /\ \A i \in Ids : pending_ready[p][i] = AwaitingLocal => Readied(endpoints[q], i)
      /\ \A k \in 1 .. Len(endpoints[p]) :
            endpoints[p][k].notified \/ endpoints[p][k].state = "started" =>
                Readied(endpoints[q], endpoints[p][k].id)
  BY Zenon DEF AllReadyKnown, ReadyKnown
<1>5. \A i : Readied(endpoints[q], i) => Readied(endpoints'[q], i)
  BY <1>1, <1>2, <1>3, <1>ReadiedStays, Zenon
<1>6. ASSUME HandleReady(p) PROVE Readied(endpoints[q], id)
  <2>1. wire[q] # <<>> /\ Head(wire[q]).kind = "Ready"
    BY <1>6, Zenon DEF HandleReady, Receive
  <2>2. wire[q] \in Seq(Msgs) /\ queue[q] \in Seq(Msgs)
    BY <1>1, <1>2, PipeTypes, Zenon
  <2>3. 1 \in 1 .. Len(Pipe(q)) /\ Pipe(q)[1] = Head(wire[q])
    BY <2>1, <2>2, PipeNext, Zenon DEF Pipe
  <2> QED BY <1>4, <2>1, <2>3, Zenon
<1>7. \A n \in 1 .. Len(Pipe(q)') : Pipe(q)'[n].kind = "Ready" => Readied(endpoints'[q], Pipe(q)'[n].id)
  BY <1>2, <1>4, <1>ReadyMsgsStep, Zenon
<1> HIDE DEF q, id
<1>8. ASSUME NEW i \in Ids, pending_ready'[p][i] = AwaitingLocal
      PROVE  Readied(endpoints'[q], i)
  <2>1. pending_ready[p][i] = AwaitingLocal \/ (HandleReady(p) /\ id = i)
    <3>1. Len(endpoints[p]) + 1 # AwaitingLocal /\ Vacant # AwaitingLocal
      BY <1>1, RecordTypes DEF AwaitingLocal, Vacant
    <3> QED BY <1>1, <1>8, <3>1, PendingStep DEF id, q
  <2> QED BY <1>4, <1>5, <1>6, <2>1, Zenon
<1>9. ASSUME NEW k \in 1 .. Len(endpoints'[p]),
             endpoints'[p][k].notified \/ endpoints'[p][k].state = "started"
      PROVE  Readied(endpoints'[q], endpoints'[p][k].id)
  <2> DEFINE e == endpoints'[p][k]
             o == endpoints[p][k]
  <2>1. Len(endpoints[p]) \in Nat
    BY <1>1, RecordTypes
  <2>2. e \in EndpointRecords
    <3>1. endpoints' \in [Peers -> Seq(EndpointRecords)]
      BY Zenon DEF TypeOK
    <3>2. endpoints'[p] \in Seq(EndpointRecords)
      BY <3>1
    <3> QED BY <3>2, ElementOfSeq
  <2>3. e.id \in Ids
    BY <2>2, Zenon DEF EndpointRecords
  <2>4. CASE k \in 1 .. Len(endpoints[p])
    <3>1. /\ e.id = o.id
          /\ e.notified => o.notified \/ Notified(p, k)
          /\ e.state = "started" => o.state = "started" \/ o.notified
      BY ONLY <1>3, <2>4, Zenon DEF Entries, EntryStep, Moves
    <3>2. ASSUME Notified(p, k) PROVE Readied(endpoints[q], o.id)
      <4>1. HandleReady(p) /\ pending_ready[p][id] = k
        BY <3>2, Zenon DEF Notified, id, q
      <4>2. id \in Ids
        BY <1>1, <4>1, ReceivedMsg, Zenon DEF HandleReady, id, q
      <4>3. pending_ready[p][id] > 0
        BY <2>4, <4>1
      <4>4. o.id = id
        BY <4>1, <4>2, <4>3, Zenon DEF Indices, ReadyIndex
      <4> QED BY <1>6, <4>1, <4>4, Zenon
    <3> QED BY <1>4, <1>5, <1>9, <2>4, <3>1, <3>2, Zenon
  <2>5. CASE k \notin 1 .. Len(endpoints[p])
    <3>1. NewEntry(p, e)
      BY <1>3, <2>1, <2>5 DEF Entries
    <3>2. ReadyAlready(p, e.id)
      BY <1>9, <3>1, Zenon DEF NewEntry
    <3> QED BY <1>4, <1>5, <2>3, <3>2, Zenon DEF ReadyAlready
  <2> QED BY <2>4, <2>5, Zenon
<1> QED BY <1>7, <1>8, <1>9, Zenon DEF ReadyKnown, q
-----------------------------------------------------------------------------
(***************************************************************************)
(* The endpoint that has called ready() is the other end of the same       *)
(* registration: its parity tells that it is on the other side of it, and  *)
(* an id has been confirmed once only.                                     *)
(***************************************************************************)
LEMMA PartnerReadied ==
    ASSUME TypeOK, AllNumbered, AllConfirmedOnce, NEW p \in Peers,
           NEW k \in 1 .. Len(endpoints[p]),
           endpoints[p][k].state = "started",
           Readied(endpoints[Other(p)], endpoints[p][k].id)
    PROVE  \E j \in 1 .. Len(endpoints[Other(p)]) :
              Partners(p, k, j) /\ endpoints[Other(p)][j].readied
<1> DEFINE q == Other(p)
           e == endpoints[p][k]
           i == e.id
<1>1. q \in Peers /\ Other(q) = p /\ Parity(p) # Parity(q)
  BY DEF Other, Peers, Parity
<1>2. i \in Ids
  BY RecordTypes, Zenon DEF EndpointRecords
<1>3. PICK j \in 1 .. Len(endpoints[q]) : endpoints[q][j].id = i /\ endpoints[q][j].readied
  BY Zenon DEF Readied
<1>4. Numbered(p, e) /\ Numbered(q, endpoints[q][j])
  BY <1>1, Zenon DEF AllNumbered
<1>5. AtMostOne(Grants(p, i)) /\ AtMostOne(Grants(q, i))
  BY <1>1, <1>2, Zenon DEF AllConfirmedOnce, ConfirmedOnce
<1>6. CASE e.reg # 0
  <2>1. /\ e.reg \in 1 .. Len(endpoints[q])
        /\ Returned(endpoints[q][e.reg]) /\ endpoints[q][e.reg].id = i
    BY <1>4, <1>6, Zenon DEF Numbered
  <2>2. i % 2 = Parity(q)
    <3>1. Numbered(q, endpoints[q][e.reg])
      BY <1>1, <2>1, Zenon DEF AllNumbered
    <3> QED BY <2>1, <3>1, Zenon DEF Numbered, Returned
  <2>3. endpoints[q][j].reg = 0
    <3>1. ASSUME endpoints[q][j].reg # 0 PROVE FALSE
      <4> DEFINE r == endpoints[q][j].reg
      <4>1. /\ r \in 1 .. Len(endpoints[p])
            /\ Returned(endpoints[p][r]) /\ endpoints[p][r].id = i
        BY <1>1, <1>3, <1>4, <3>1, Zenon DEF Numbered
      <4>2. Numbered(p, endpoints[p][r])
        BY <4>1, Zenon DEF AllNumbered
      <4> QED BY <1>1, <2>2, <4>1, <4>2, Zenon DEF Numbered, Returned
    <3> QED BY <3>1, Zenon
  <2>4. j \in Grants(q, i)
    BY <1>3, <1>4, <2>3, Zenon DEF Grants, Granted, Numbered, AfterReady
  <2>5. e.reg \in Grants(q, i)
    BY <2>1, Zenon DEF Grants, Granted, Returned
  <2>6. e.reg = j
    BY <1>5, <2>4, <2>5, Zenon DEF AtMostOne
  <2> QED BY <1>3, <2>6, Zenon DEF Partners
<1>7. CASE e.reg = 0
  <2> DEFINE r == endpoints[q][j].reg
  <2>1. i % 2 = Parity(p)
    BY <1>4, <1>7, Zenon DEF Numbered
  <2>2. r # 0
    BY <1>1, <1>3, <1>4, <2>1, Zenon DEF Numbered
  <2>3. /\ r \in 1 .. Len(endpoints[p])
        /\ Returned(endpoints[p][r]) /\ endpoints[p][r].id = i
    BY ONLY <1>1, <1>3, <1>4, <2>2, Zenon DEF Numbered
  <2>4. r \in Grants(p, i)
    BY <2>3, Zenon DEF Grants, Granted, Returned
  <2>5. k \in Grants(p, i)
    BY <1>7, Zenon DEF Grants, Granted
  <2>6. r = k
    BY <1>5, <2>4, <2>5, Zenon DEF AtMostOne
  <2> QED BY ONLY <1>3, <2>6, Zenon DEF Partners
<1> QED BY <1>6, <1>7, Zenon

\* A stream tells of an endpoint that has been started.
Opened(p, s) ==
    /\ s.from \in 1 .. Len(endpoints[p])
    /\ endpoints[p][s.from].id = s.id
    /\ \E j \in 1 .. Len(endpoints[Other(p)]) :
          Partners(p, s.from, j) /\ endpoints[Other(p)][j].readied

AllOpened == \A p \in Peers : \A s \in streams[p] : Opened(p, s)

LEMMA OpenedStep ==
    TypeOK /\ Entries /\ AllNumbered /\ AllConfirmedOnce /\ AllReadyKnown /\ AllOpened /\ [Next]_vars
        => AllOpened'
<1>StreamsStep.
    ASSUME TypeOK, [Next]_vars, NEW p \in Peers, NEW s \in streams'[p]
    PROVE  \/ s \in streams[p]
           \/ \E k \in 1 .. Len(endpoints[p]) :
                 OpenUni(p, k) /\ s = [id |-> endpoints[p][k].id, from |-> k]
  <2> USE <1>StreamsStep
  <2> DEFINE S == [id : Ids, from : 1 .. MaxEndpoints]
             Goal == \/ s \in streams[p]
                     \/ \E k \in 1 .. Len(endpoints[p]) :
                           OpenUni(p, k) /\ s = [id |-> endpoints[p][k].id, from |-> k]
  <2>1. streams \in [Peers -> SUBSET S]
    BY Zenon DEF TypeOK
  <2> HIDE DEF S
  <2>2. CloseStreams => FALSE
    BY DEF CloseStreams
  <2>3. CASE HandshakeStep \/ UNCHANGED vars
    <3>1. UNCHANGED streams
      BY ONLY <2>2, <2>3 DEF HandshakeStep, vars, endpointVars, routerVars
    <3> QED BY ONLY <3>1, Zenon
  <2>4. ASSUME NEW q \in Peers,
               \/ Register(q)
               \/ \E reg \in 1 .. Len(endpoints[Other(q)]) : Connect(q, reg)
               \/ \E k \in 1 .. Len(endpoints[q]) : CallStep(q, k) \/ Ready(q, k) \/ Drop(q, k)
               \/ Transmit(q) \/ HandleMsg(q)
        PROVE  Goal
    <3>1. UNCHANGED streams
      BY <2>4, Zenon DEF Register, Connect, CallStep, Registered, SendRegisterEndpoint, Start,
                         ReadyFails, Ready, Drop, Transmit, HandleMsg, HandleRegisterEndpoint, Reply,
                         HandleEndpointRegistered, HandleReady, routerVars
    <3> QED BY ONLY <3>1, Zenon
  <2>5. ASSUME NEW q \in Peers, DropConnection(q) PROVE Goal
    BY <2>2, <2>5, Zenon DEF DropConnection
  <2>6. ASSUME NEW q \in Peers, AcceptUni(q) PROVE Goal
    <3>1. \E t \in streams[Other(q)] :
              streams' = [streams EXCEPT ![Other(q)] = streams[Other(q)] \ {t}]
      BY <2>6, Zenon DEF AcceptUni
    <3> QED BY ONLY <2>1, <3>1, Zenon
  <2>7. ASSUME NEW q \in Peers, NEW k \in 1 .. Len(endpoints[q]), OpenUni(q, k) PROVE Goal
    <3>1. streams' = [streams EXCEPT ![q] =
                          streams[q] \cup {[id |-> endpoints[q][k].id, from |-> k]}]
      BY ONLY <2>7, Zenon DEF OpenUni
    <3>2. CASE q = p
      BY ONLY <2>1, <2>7, <3>1, <3>2, Zenon
    <3>3. CASE q # p
      BY ONLY <2>1, <3>1, <3>3, Zenon
    <3> QED BY ONLY <3>2, <3>3, Zenon
  <2>8. Goal
    BY <2>3, <2>4, <2>5, <2>6, <2>7, Zenon DEF Next
  <2> QED BY ONLY <2>8, Zenon

<1> SUFFICES ASSUME TypeOK, Entries, AllNumbered, AllConfirmedOnce, AllReadyKnown, AllOpened, [Next]_vars
             PROVE  AllOpened'
  OBVIOUS
<1> SUFFICES ASSUME NEW p \in Peers, NEW s \in streams'[p] PROVE Opened(p, s)'
  BY DEF AllOpened
<1> DEFINE q == Other(p)
<1>1. q \in Peers
  BY DEF Other, Peers
<1>2. Opened(p, s)
  <2>1. CASE s \in streams[p]
    BY <2>1 DEF AllOpened
  <2>2. ASSUME NEW k \in 1 .. Len(endpoints[p]), OpenUni(p, k),
               s = [id |-> endpoints[p][k].id, from |-> k]
        PROVE  Opened(p, s)
    <3>1. endpoints[p][k].state = "started" /\ s.from = k /\ s.id = endpoints[p][k].id
      BY <2>2, Zenon DEF OpenUni
    <3>2. Readied(endpoints[q], endpoints[p][k].id)
      BY <3>1, Zenon DEF AllReadyKnown, ReadyKnown
    <3>3. \E j \in 1 .. Len(endpoints[q]) : Partners(p, k, j) /\ endpoints[q][j].readied
      BY <3>1, <3>2, PartnerReadied, Zenon
    <3> QED BY ONLY <3>1, <3>3, Zenon DEF Opened
  <2> QED BY <2>1, <2>2, <1>StreamsStep, Zenon
<1>3. /\ Len(endpoints[p]) \in Nat /\ Len(endpoints[q]) \in Nat
      /\ Len(endpoints[p]) <= Len(endpoints'[p]) /\ Len(endpoints[q]) <= Len(endpoints'[q])
      /\ \A k \in 1 .. Len(endpoints[p]) :
            endpoints'[p][k].id = endpoints[p][k].id /\ endpoints'[p][k].reg = endpoints[p][k].reg
      /\ \A k \in 1 .. Len(endpoints[q]) :
            /\ endpoints'[q][k].reg = endpoints[q][k].reg
            /\ endpoints[q][k].readied => endpoints'[q][k].readied
  BY <1>1, RecordTypes, SMTT(30) DEF Entries, EntryStep, Moves
<1>4. PICK j \in 1 .. Len(endpoints[q]) : Partners(p, s.from, j) /\ endpoints[q][j].readied
  BY <1>2, Zenon DEF Opened
<1>5. s.from \in 1 .. Len(endpoints[p]) /\ endpoints[p][s.from].id = s.id
  BY <1>2, Zenon DEF Opened
<1>6. j \in 1 .. Len(endpoints'[q]) /\ s.from \in 1 .. Len(endpoints'[p])
  BY <1>3, <1>5
<1>7. Partners(p, s.from, j)' /\ endpoints'[q][j].readied /\ endpoints'[p][s.from].id = s.id
  BY <1>3, <1>4, <1>5, Zenon DEF Partners
<1> QED BY ONLY <1>6, <1>7, Zenon DEF Opened

PairsInv ==
    /\ IInv /\ Indices /\ AllNumbered /\ AllConfirmedOnce /\ AllReadyKnown /\ AllOpened

LEMMA PairsInitially == Init => PairsInv
<1> SUFFICES ASSUME Init PROVE PairsInv
  BY Zenon
<1>1. IInv
  BY Initially
<1>2. \A p \in Peers : /\ endpoints[p] = <<>> /\ streams[p] = {} /\ replying[p] = NoReply
                       /\ wire[p] = <<>> /\ queue[p] = <<>>
                       /\ \A i \in Ids : /\ pending_register_ack[p][i] = Vacant
                                         /\ pending_ready[p][i] = Vacant
  BY Zenon DEF Init, HandshakeInit
<1>3. \A p \in Peers : Len(endpoints[p]) = 0 /\ Other(p) \in Peers
  BY <1>2 DEF Other, Peers
<1>4. Indices /\ AllOpened
  BY ONLY <1>2 DEF Indices, AckIndex, ReadyIndex, AllOpened, Vacant
<1>5. AllNumbered
  BY <1>3 DEF AllNumbered, Init, Parity, Peers
<1>6. ASSUME NEW p \in Peers PROVE Pipe(p) = <<>> /\ Len(Pipe(p)) = 0
  BY <1>2, ConcatEmptySeq, EmptySeq, Zenon DEF Pipe
<1>7. ASSUME NEW p \in Peers, NEW i \in Ids
      PROVE  ConfirmedOnce(p, Other(p), i)
  <2>1. AcksIn(Pipe(Other(p)), i) = {} /\ Grants(p, i) = {}
    BY <1>3, <1>6 DEF AcksIn, Grants
  <2>2. replying[Other(p)] # i
    BY <1>2, <1>3 DEF NoReply, Ids
  <2> QED BY <2>1, <2>2, Zenon DEF ConfirmedOnce, AtMostOne
<1>8. AllReadyKnown
  BY <1>2, <1>3, <1>6 DEF AllReadyKnown, ReadyKnown, Vacant, AwaitingLocal
<1> QED BY <1>1, <1>4, <1>5, <1>7, <1>8 DEF PairsInv, AllConfirmedOnce

LEMMA PairsPreserved == PairsInv /\ [Next]_vars => PairsInv'
<1> SUFFICES ASSUME PairsInv, [Next]_vars PROVE PairsInv'
  OBVIOUS
<1>1. /\ IInv /\ TypeOK /\ HandshakeTypes /\ Indices /\ AllNumbered /\ AllConfirmedOnce
      /\ AllReadyKnown /\ AllOpened
  BY DEF PairsInv, IInv
<1>2. IInv' /\ TypeOK' /\ HandshakeTypes'
  BY <1>1, Preserved, Zenon DEF IInv
<1>3. Entries
  BY <1>1, EntriesStep
<1>4. Indices' /\ AllNumbered' /\ AllOpened'
  BY <1>1, <1>2, <1>3, IndicesStep, NumberedStep, OpenedStep, Zenon
<1>5. AllConfirmedOnce' /\ AllReadyKnown'
  BY <1>1, <1>2, ConfirmedStep, ReadyKnownStep, Zenon
<1> QED BY <1>2, <1>4, <1>5 DEF PairsInv

LEMMA PairsInvariant == Spec => []PairsInv
BY PairsInitially, PairsPreserved, PTL DEF Spec

(***************************************************************************)
(* ready() returns at one end only when the other end of the same          *)
(* registration has called it too: with any number of endpoints, also when *)
(* the ids have wrapped around and are registered again, whatever calls    *)
(* are cancelled, and however the Ready messages are delayed or left over  *)
(* in pending_ready.                                                       *)
(***************************************************************************)
THEOREM ReadyIsMutual == Spec => []StartedTogether
<1>1. PairsInv => StartedTogether
  <2> SUFFICES ASSUME PairsInv, NEW p \in Peers, NEW k \in 1 .. Len(endpoints[p]),
                      endpoints[p][k].state = "started"
               PROVE  \E j \in 1 .. Len(endpoints[Other(p)]) :
                         Partners(p, k, j) /\ endpoints[Other(p)][j].readied
    BY Zenon DEF StartedTogether
  <2>1. TypeOK /\ AllNumbered /\ AllConfirmedOnce /\ AllReadyKnown
    BY DEF PairsInv, IInv
  <2>2. Readied(endpoints[Other(p)], endpoints[p][k].id)
    BY <2>1, Zenon DEF AllReadyKnown, ReadyKnown
  <2> QED BY <2>1, <2>2, PartnerReadied, Zenon
<1> QED BY <1>1, PairsInvariant, PTL

(***************************************************************************)
(* A stream that a started protocol opens is known to the router of the    *)
(* other peer, unless that peer has dropped the endpoint already: so       *)
(* accept_channels_uni never ends because of a stream that came too early, *)
(* for any number of endpoints and any order of arrival.                   *)
(***************************************************************************)
THEOREM StreamsFindTheirEndpoint == Spec => []StreamsRouted
<1>1. PairsInv => StreamsRouted
  <2> SUFFICES ASSUME PairsInv, NEW p \in Peers, NEW s \in streams[p]
               PROVE  \/ s.id \in clients[Other(p)]
                      \/ \E j \in 1 .. Len(endpoints[Other(p)]) :
                            Partners(p, s.from, j) /\ endpoints[Other(p)][j].state = "dropped"
    BY Zenon DEF StreamsRouted, PairsInv, IInv
  <2> DEFINE q == Other(p)
  <2>1. TypeOK /\ AllNumbered /\ AllOpened /\ ChannelsRegistered
    BY DEF PairsInv, IInv
  <2>2. q \in Peers /\ Other(q) = p
    BY DEF Other, Peers
  <2>3. Opened(p, s)
    BY <2>1 DEF AllOpened
  <2>4. PICK j \in 1 .. Len(endpoints[q]) : Partners(p, s.from, j) /\ endpoints[q][j].readied
    BY <2>3, Zenon DEF Opened
  <2>5. s.from \in 1 .. Len(endpoints[p]) /\ endpoints[p][s.from].id = s.id
    BY <2>3, Zenon DEF Opened
  <2>6. Numbered(p, endpoints[p][s.from]) /\ Numbered(q, endpoints[q][j])
    BY <2>1, <2>2, <2>5, Zenon DEF AllNumbered
  <2>7. j # 0 /\ s.from # 0
    BY <2>5
  <2>8. endpoints[q][j].id = s.id
    BY <2>2, <2>4, <2>5, <2>6, <2>7, Zenon DEF Partners, Numbered
  <2>9. endpoints[q][j].state \in {"waiting", "started", "dropped"}
    BY <2>4, <2>6, Zenon DEF Numbered, AfterReady
  <2>10. HasChannel(endpoints[q][j]) => s.id \in clients[q]
    BY ONLY <2>1, <2>2, <2>8, Zenon DEF ChannelsRegistered
  <2> QED BY <2>4, <2>9, <2>10, Zenon DEF HasChannel
<1> QED BY <1>1, PairsInvariant, PTL
=============================================================================
