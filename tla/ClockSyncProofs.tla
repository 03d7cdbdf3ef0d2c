--------------------------- MODULE ClockSyncProofs ---------------------------
(***************************************************************************)
(* Clock synchronisation is accurate for every offset, timeout and bound,  *)
(* and whatever the network does to the datagrams.                         *)
(***************************************************************************)
EXTENDS ClockSync, TLAPS

USE ConstantsAssumption

(***************************************************************************)
(* The times of a result being in order, its offset is right up to half    *)
(* its delay: t2 - t1 is the offset plus the time the request took,        *)
(* t3 - t4 the offset minus the time the answer took.                      *)
(***************************************************************************)
LEMMA ResultAccurate == Inv => Accurate
<1> SUFFICES ASSUME Inv PROVE Accurate
  OBVIOUS
<1> DEFINE there == result.t2 - result.t1 - Offset
           back == result.t4 + Offset - result.t3
           sum == 2 * Offset + (there - back)
<1>1. /\ result.t1 \in Int /\ result.t2 \in Int /\ result.t3 \in Int
      /\ result.t4 \in Int
  BY DEF Inv, TypeOK, Results
<1>2. there \in Int /\ there >= 0 /\ back \in Int /\ back >= 0 /\ sum \in Int
  BY <1>1 DEF Inv
<1>3. /\ delay_micros(result) = there + back
      /\ offset_micros(result) = Quotient(sum, 2)
  BY <1>1 DEF delay_micros, offset_micros
<1> HIDE DEF there, back
<1>4. 2 * Magnitude(Quotient(sum, 2) - Offset) <= there + back + 1
  BY <1>2 DEF Magnitude, Quotient
<1> QED BY <1>2, <1>3, <1>4 DEF Accurate

(***************************************************************************)
(* No time has been read yet.                                              *)
(***************************************************************************)
LEMMA InitInv == Init => Inv
<1> SUFFICES ASSUME Init PROVE Inv
  OBVIOUS
<1>1. TypeOK
  BY DEF Init, TypeOK, Requests, Responses, Results, NoResult
<1>2. result = NoResult /\ request.t1 = 0 /\ t2 = Offset /\ now = 0
      /\ requests = {} /\ responses = {}
  BY DEF Init
<1> QED BY <1>1, <1>2 DEF Inv, NoResult

(***************************************************************************)
(* Time passing keeps what is in the past in the past.                     *)
(***************************************************************************)
LEMMA PastStaysPast ==
    ASSUME Inv, now' \in Nat, now' >= now
    PROVE  /\ \A q \in requests : RequestOK(q)'
           /\ \A r \in responses : ResponseOK(r)'
           /\ t2 <= now' + Offset
<1>1. now \in Nat /\ t2 \in Int /\ t2 <= now + Offset
  BY DEF Inv, TypeOK
<1>2. ASSUME NEW q \in requests PROVE RequestOK(q)'
  <2>1. q.t1 \in Int /\ q.t1 <= now
    BY DEF Inv, TypeOK, Requests, RequestOK
  <2> QED BY <1>1, <2>1 DEF RequestOK
<1>3. ASSUME NEW r \in responses PROVE ResponseOK(r)'
  <2>1. r.t3 \in Int /\ ResponseOK(r)
    BY DEF Inv, TypeOK, Responses
  <2> QED BY <1>1, <2>1 DEF ResponseOK
<1>4. t2 <= now' + Offset
  <2>1. now' \in Int /\ now <= now' /\ Offset \in Int
    OBVIOUS
  <2>2. \A a, b, c, d \in Int : a <= b + d /\ b <= c => a <= c + d
    OBVIOUS
  <2>3. now \in Int
    BY <1>1
  <2> QED BY <1>1, <2>1, <2>2, <2>3, Zenon
<1> QED BY <1>2, <1>3, <1>4, Zenon

(***************************************************************************)
(* A step that reads no clock keeps the invariant: it leaves the datagrams *)
(* and what the server holds alone, and the result as well.                *)
(***************************************************************************)
LEMMA QuietStep ==
    ASSUME Inv, TypeOK', now' \in Nat, now' >= now,
           UNCHANGED <<result, requests, responses, request, t2>>
    PROVE  Inv'
<1>1. \A q \in requests' : RequestOK(q)'
  BY PastStaysPast, Zenon
<1>2. \A r \in responses' : ResponseOK(r)'
  BY PastStaysPast, Zenon
<1>3. (request.t1 + Offset <= t2 /\ t2 <= now + Offset)'
  BY PastStaysPast DEF Inv
<1>4. (/\ result.t1 + Offset <= result.t2
       /\ result.t2 <= result.t3
       /\ result.t3 <= result.t4 + Offset)'
  BY DEF Inv
<1> QED BY <1>1, <1>2, <1>3, <1>4 DEF Inv

(***************************************************************************)
(* Every step keeps the invariant.                                         *)
(***************************************************************************)
LEMMA NextInv == Inv /\ [Next]_vars => Inv'
<1> SUFFICES ASSUME Inv, [Next]_vars PROVE Inv'
  OBVIOUS
<1>0. TypeOK /\ now \in Nat /\ now >= now
  BY DEF Inv, TypeOK
<1>1. ASSUME NEW times \in 1 .. MaxTimes, SyncAverage(times) PROVE Inv'
  <2>1. TypeOK'
    BY <1>0, <1>1 DEF SyncAverage, requestVars, serverVars, TypeOK
  <2> QED BY <1>0, <1>1, <2>1, QuietStep DEF SyncAverage, serverVars
<1>2. CASE Sync
  <2> DEFINE q0 == [id |-> next_id, t1 |-> now]
  <2>0. /\ now' = now /\ requests' = requests \cup {q0}
        /\ UNCHANGED <<result, responses, request, t2>>
    BY <1>2 DEF Sync, resultVars, serverVars
  <2>1. q0 \in Requests /\ RequestOK(q0)
    BY <1>0 DEF Requests, RequestOK, TypeOK
  <2>2. TypeOK'
    <3>1. next_id' \in Nat
      BY <1>0, <1>2 DEF Sync, TypeOK
    <3>2. requests' \subseteq Requests
      BY <1>0, <2>0, <2>1 DEF TypeOK
    <3> QED BY <1>0, <1>2, <3>1, <3>2 DEF Sync, resultVars, serverVars, TypeOK
  <2>3. \A q \in requests' : RequestOK(q)'
    <3>1. \A q \in requests : RequestOK(q)
      BY DEF Inv
    <3>2. ASSUME NEW q \in requests' PROVE RequestOK(q)
      BY <2>0, <2>1, <3>1, Zenon
    <3> QED BY <2>0, <3>2 DEF RequestOK
  <2>4. \A r \in responses' : ResponseOK(r)'
    BY <2>0 DEF Inv, ResponseOK
  <2> HIDE DEF q0
  <2> QED BY <2>0, <2>2, <2>3, <2>4 DEF Inv
<1>3. CASE SyncFails
  <2>1. TypeOK'
    BY <1>0, <1>3 DEF SyncFails, serverVars, TypeOK
  <2> QED BY <1>0, <1>3, <2>1, QuietStep DEF SyncFails, serverVars
<1>4. CASE TimeoutReached
  <2>1. TypeOK'
    BY <1>0, <1>4 DEF TimeoutReached, TimedOut, resultVars, serverVars, TypeOK
  <2> QED BY <1>0, <1>4, <2>1, QuietStep
          DEF TimeoutReached, TimedOut, resultVars, serverVars
<1>5. ASSUME NEW r \in responses, RecvResponse(r) PROVE Inv'
  <2>0. UNCHANGED <<now, requests, responses, serverVars>>
    BY <1>5 DEF RecvResponse
  <2>1. CASE r.id = req_id
    <3>0. Return(r)
      BY <1>5, <2>1 DEF RecvResponse
    <3>1. /\ r \in Responses
          /\ ResponseOK(r)
      BY DEF Inv, TypeOK
    <3>2. result' = [t1 |-> r.t1, t2 |-> r.t2, t3 |-> r.t3, t4 |-> now]
      BY <3>0 DEF Return
    <3>3. result' \in Results
      BY <1>0, <3>1, <3>2 DEF Results, Responses
    <3>4. TypeOK'
      BY <1>0, <2>0, <3>0, <3>3 DEF Return, serverVars, TypeOK
    <3>5. (/\ result.t1 + Offset <= result.t2
           /\ result.t2 <= result.t3
           /\ result.t3 <= result.t4 + Offset)'
      BY <3>1, <3>2 DEF ResponseOK
    <3>6. (\A q \in requests : RequestOK(q))'
      BY <2>0 DEF Inv, RequestOK
    <3>7. (\A s \in responses : ResponseOK(s))'
      BY <2>0 DEF Inv, ResponseOK
    <3> QED BY <2>0, <3>4, <3>5, <3>6, <3>7 DEF Inv, serverVars
  <2>2. CASE r.id # req_id
    <3>1. client' \in {"idle", "waiting"}
          /\ UNCHANGED <<next_id, req_id, t1, deadline, issued, resultVars>>
      BY <1>0, <1>5, <2>2 DEF RecvResponse, TimedOut, requestVars, TypeOK
    <3>2. TypeOK'
      BY <1>0, <2>0, <3>1 DEF resultVars, serverVars, TypeOK
    <3> QED BY <1>0, <2>0, <3>1, <3>2, QuietStep DEF resultVars, serverVars
  <2> QED BY <2>1, <2>2
<1>6. ASSUME NEW q \in requests, RecvRequest(q) PROVE Inv'
  <2>0. /\ UNCHANGED <<now, requestVars, resultVars, requests, responses>>
        /\ server' = "answering" /\ request' = q /\ t2' = now + Offset
    BY <1>6 DEF RecvRequest
  <2>1. q \in Requests /\ RequestOK(q)
    BY DEF Inv, TypeOK
  <2>2. TypeOK'
    BY <1>0, <2>0, <2>1 DEF requestVars, resultVars, TypeOK
  <2>3. (request.t1 + Offset <= t2 /\ t2 <= now + Offset)'
    BY <1>0, <2>0, <2>1 DEF RequestOK, Requests
  <2>4. (\A p \in requests : RequestOK(p))'
    BY <2>0 DEF Inv, RequestOK
  <2>5. (\A r \in responses : ResponseOK(r))'
    BY <2>0 DEF Inv, ResponseOK
  <2> QED BY <2>0, <2>2, <2>3, <2>4, <2>5 DEF Inv, resultVars
<1>7. CASE SendResponse
  <2> DEFINE r0 == [id |-> request.id, t1 |-> request.t1, t2 |-> t2,
                    t3 |-> now + Offset]
  <2>0. /\ UNCHANGED <<now, requestVars, resultVars, requests, request, t2>>
        /\ server' = "idle" /\ responses' = responses \cup {r0}
    BY <1>7 DEF SendResponse
  <2>1. r0 \in Responses
    BY <1>0 DEF TypeOK, Requests, Responses
  <2>2. ResponseOK(r0)
    BY <1>0 DEF Inv, TypeOK, Requests, ResponseOK
  <2> HIDE DEF r0
  <2>3. TypeOK'
    <3>1. responses' \subseteq Responses
      BY <1>0, <2>0, <2>1 DEF TypeOK
    <3> QED BY <1>0, <2>0, <3>1 DEF requestVars, resultVars, TypeOK
  <2>4. (\A q \in requests : RequestOK(q))'
    BY <2>0 DEF Inv, RequestOK
  <2>5. (\A r \in responses : ResponseOK(r))'
    <3>1. \A r \in responses : ResponseOK(r)
      BY DEF Inv
    <3>2. ASSUME NEW r \in responses' PROVE ResponseOK(r)
      BY <2>0, <2>2, <3>1, Zenon
    <3> QED BY <2>0, <3>2 DEF ResponseOK
  <2> QED BY <2>0, <2>3, <2>4, <2>5 DEF Inv, resultVars
<1>8. CASE ServerEnds
  <2>1. TypeOK'
    BY <1>0, <1>8 DEF ServerEnds, requestVars, resultVars, TypeOK
  <2> QED BY <1>0, <1>8, <2>1, QuietStep DEF ServerEnds, resultVars
<1>9. CASE Tick
  <2>1. now' \in Nat /\ now' >= now
    BY <1>0, <1>9 DEF Tick
  <2>2. TypeOK'
    BY <1>0, <1>9, <2>1 DEF Tick, requestVars, resultVars, serverVars, TypeOK
  <2> QED BY <1>9, <2>1, <2>2, QuietStep DEF Tick, resultVars, serverVars
<1>10. CASE UNCHANGED vars
  <2>1. TypeOK'
    BY <1>0, <1>10 DEF vars, requestVars, resultVars, serverVars, TypeOK
  <2> QED BY <1>0, <1>10, <2>1, QuietStep DEF vars, resultVars, serverVars
<1> QED BY <1>1, <1>2, <1>3, <1>4, <1>5, <1>6, <1>7, <1>8, <1>9, <1>10 DEF Next

(***************************************************************************)
(* The offset that sync() measures is right up to half the delay that it   *)
(* measures with it: for every offset between the clocks and every timeout *)
(* and whichever datagrams are lost, repeated, reordered or late.          *)
(***************************************************************************)
THEOREM Accuracy == Spec => []Accurate
<1>1. Init => Inv
  BY InitInv
<1>2. Inv /\ [Next]_vars => Inv'
  BY NextInv
<1>3. Inv => Accurate
  BY ResultAccurate
<1> QED BY <1>1, <1>2, <1>3, PTL DEF Spec

-----------------------------------------------------------------------------
(***************************************************************************)
(* Rounding towards zero loses less than one divisor.                      *)
(***************************************************************************)
LEMMA QuotientBounds ==
    ASSUME NEW a \in Int, NEW n \in Nat \ {0}
    PROVE  /\ Quotient(a, n) \in Int
           /\ a - n * Quotient(a, n) < n
           /\ n * Quotient(a, n) - a < n
           /\ a >= 0 => Quotient(a, n) >= 0 /\ n * Quotient(a, n) <= a
<1>1. ASSUME NEW b \in Nat
      PROVE  b \div n \in Nat /\ n * (b \div n) <= b /\ b - n * (b \div n) < n
  BY <1>1
<1>2. CASE a >= 0
  <2>1. a \in Nat /\ Quotient(a, n) = a \div n
    BY <1>2 DEF Quotient
  <2>2. a \div n \in Nat /\ n * (a \div n) <= a /\ a - n * (a \div n) < n
    BY <1>1, <2>1
  <2> QED BY <2>1, <2>2
<1>3. CASE a < 0
  <2> DEFINE q == (-a) \div n
  <2>1. -a \in Nat /\ Quotient(a, n) = -q
    BY <1>3 DEF Quotient
  <2>2. q \in Nat /\ n * q <= -a /\ (-a) - n * q < n
    BY <1>1, <2>1
  <2> HIDE DEF q
  <2>3. n * (-q) = -(n * q) /\ n * q \in Int
    BY <2>2
  <2> QED BY <1>3, <2>1, <2>2, <2>3
<1> QED BY <1>2, <1>3

(***************************************************************************)
(* The average of sums that are as accurate as their n results: each of    *)
(* the two divisions of sync_average() loses less than a unit.             *)
(***************************************************************************)
LEMMA AverageOfSums ==
    ASSUME NEW n \in Nat \ {0}, NEW offset \in Int, NEW delay \in Nat,
           2 * Magnitude(offset - n * Offset) <= delay + n
    PROVE  /\ Quotient(delay, n) >= 0
           /\ 2 * Magnitude(Quotient(offset, n) - Offset) <= Quotient(delay, n) + 3
<1> DEFINE q == Quotient(offset, n)
           d == Quotient(delay, n)
<1>1. q \in Int /\ offset - n * q < n /\ n * q - offset < n
  BY QuotientBounds
<1>2. d \in Int /\ d >= 0 /\ delay - n * d < n
  <2>1. delay \in Int /\ delay >= 0
    OBVIOUS
  <2> QED BY <2>1, QuotientBounds
<1> HIDE DEF q, d
<1>3. n * q \in Int /\ n * d \in Int /\ n * Offset \in Int
  BY <1>1, <1>2
<1>4. 2 * (n * q - n * Offset) < n * d + 4 * n /\ 2 * (n * Offset - n * q) < n * d + 4 * n
  <2>1. 2 * (offset - n * Offset) <= delay + n /\ 2 * (n * Offset - offset) <= delay + n
    BY <1>3 DEF Magnitude
  <2> QED BY <1>1, <1>2, <1>3, <2>1
<1>5. ASSUME NEW x \in Int, NEW y \in Int, n * x < n * y PROVE x < y
  <2>1. CASE x >= y
    <3>1. n * (x - y) = n * x - n * y /\ n * (x - y) >= 0
      BY <2>1
    <3> QED BY <1>5, <3>1
  <2> QED BY <2>1
<1>6. 2 * (q - Offset) < d + 4
  <2>1. n * (2 * (q - Offset)) = 2 * (n * q - n * Offset) /\ n * (d + 4) = n * d + 4 * n
    BY <1>1, <1>2
  <2>2. 2 * (q - Offset) \in Int /\ d + 4 \in Int
    BY <1>1, <1>2
  <2> QED BY <1>4, <1>5, <2>1, <2>2
<1>7. 2 * (Offset - q) < d + 4
  <2>1. n * (2 * (Offset - q)) = 2 * (n * Offset - n * q) /\ n * (d + 4) = n * d + 4 * n
    BY <1>1, <1>2
  <2>2. 2 * (Offset - q) \in Int /\ d + 4 \in Int
    BY <1>1, <1>2
  <2> QED BY <1>4, <1>5, <2>1, <2>2
<1>8. 2 * Magnitude(q - Offset) <= d + 3
  BY <1>1, <1>2, <1>6, <1>7 DEF Magnitude
<1> QED BY <1>2, <1>8 DEF q, d

(***************************************************************************)
(* Adding a result that is accurate to sums that are.                      *)
(***************************************************************************)
LEMMA SumsAdd ==
    ASSUME NEW n \in Nat, NEW offset \in Int, NEW delay \in Nat,
           2 * Magnitude(offset - n * Offset) <= delay + n,
           NEW o \in Int, NEW d \in Int, d >= 0, 2 * Magnitude(o - Offset) <= d + 1
    PROVE  /\ offset + o \in Int /\ delay + d \in Nat
           /\ 2 * Magnitude((offset + o) - (n + 1) * Offset) <= (delay + d) + (n + 1)
<1>1. (n + 1) * Offset = n * Offset + Offset /\ n * Offset \in Int
  OBVIOUS
<1>2. /\ 2 * (offset - n * Offset) <= delay + n /\ 2 * (n * Offset - offset) <= delay + n
      /\ 2 * (o - Offset) <= d + 1 /\ 2 * (Offset - o) <= d + 1
  BY <1>1 DEF Magnitude
<1> QED BY <1>1, <1>2 DEF Magnitude

(***************************************************************************)
(* What sync_average() does with an accurate result keeps the sums, and    *)
(* what it returns, accurate.                                              *)
(***************************************************************************)
LEMMA AddResultKeepsSums ==
    ASSUME SumsInv, NEW r, AddResult(r),
           offset_micros(r) \in Int, delay_micros(r) \in Int, delay_micros(r) >= 0,
           2 * Magnitude(offset_micros(r) - Offset) <= delay_micros(r) + 1
    PROVE  SumsInv'
<1> DEFINE Sums == [times : Nat, count : Nat, offset_sum : Int, delay_sum : Int]
           n == averaging.count + 1
           offset == averaging.offset_sum + offset_micros(r)
           delay == averaging.delay_sum + delay_micros(r)
           a == [averaging EXCEPT !.count = @ + 1,
                                  !.offset_sum = @ + offset_micros(r),
                                  !.delay_sum = @ + delay_micros(r)]
<1>1. averaging \in Sums
  BY DEF SumsInv
<1>2. /\ averaging.count \in Nat /\ averaging.offset_sum \in Int
      /\ averaging.delay_sum \in Nat /\ n \in Nat \ {0}
  BY <1>1 DEF SumsInv
<1>3. /\ offset \in Int /\ delay \in Nat
      /\ 2 * Magnitude(offset - n * Offset) <= delay + n
  BY <1>2, SumsAdd DEF SumsInv
<1>4. /\ a.count = n /\ a.offset_sum = offset /\ a.delay_sum = delay
  BY <1>1
<1>5. a \in Sums
  <2>1. ASSUME NEW s \in Sums, NEW c \in Nat, NEW o \in Int, NEW d \in Int
        PROVE  [s EXCEPT !.count = c, !.offset_sum = o, !.delay_sum = d] \in Sums
    OBVIOUS
  <2>2. a = [averaging EXCEPT !.count = n, !.offset_sum = offset, !.delay_sum = delay]
    BY <1>1
  <2> HIDE DEF a, n, offset, delay, Sums
  <2>3. n \in Nat /\ offset \in Int /\ delay \in Int
    BY <1>2, <1>3
  <2> QED BY <1>1, <2>1, <2>2, <2>3, Zenon
<1>6. \/ UNCHANGED <<averaging, average>>
      \/ averaging' = a /\ average' = average
      \/ /\ averaging' = NotAveraging
         /\ average' = [offset_micros |-> Quotient(a.offset_sum, a.count),
                        delay_micros |-> Quotient(a.delay_sum, a.count)]
  BY DEF AddResult
<1> HIDE DEF a, n, offset, delay
<1>7. CASE UNCHANGED <<averaging, average>>
  BY <1>7 DEF SumsInv, AverageAccurate
<1>8. CASE averaging' = a /\ average' = average
  BY <1>2, <1>3, <1>4, <1>5, <1>8 DEF SumsInv, AverageAccurate
<1>9. CASE /\ averaging' = NotAveraging
           /\ average' = [offset_micros |-> Quotient(a.offset_sum, a.count),
                          delay_micros |-> Quotient(a.delay_sum, a.count)]
  <2>1. /\ Quotient(delay, n) >= 0
        /\ 2 * Magnitude(Quotient(offset, n) - Offset) <= Quotient(delay, n) + 3
    BY <1>2, <1>3, AverageOfSums
  <2>2. AverageAccurate'
    BY <1>4, <1>9, <2>1 DEF AverageAccurate
  <2>3. /\ NotAveraging \in Sums /\ NotAveraging.delay_sum = 0
        /\ NotAveraging.count = 0 /\ NotAveraging.offset_sum = 0
    BY DEF NotAveraging
  <2> QED BY <1>9, <2>2, <2>3 DEF SumsInv, Magnitude
<1> QED BY <1>6, <1>7, <1>8, <1>9

(***************************************************************************)
(* Every step keeps the sums accurate: only a result that sync() returns   *)
(* is added to them, and it is accurate.                                   *)
(***************************************************************************)
LEMMA NextSumsInv ==
    ASSUME Inv, SumsInv, [Next]_vars
    PROVE  SumsInv'
<1>i. Inv'
  BY NextInv
<1>q. ASSUME UNCHANGED <<averaging, average>> PROVE SumsInv'
  BY <1>q DEF SumsInv, AverageAccurate
<1>n. ASSUME NEW times \in Nat, averaging' = [NotAveraging EXCEPT !.times = times],
             average' = average
      PROVE  SumsInv'
  <2>1. averaging' = [times |-> times, count |-> 0, offset_sum |-> 0, delay_sum |-> 0]
    BY <1>n DEF NotAveraging
  <2>2. (averaging \in [times : Nat, count : Nat, offset_sum : Int, delay_sum : Int])'
    BY <2>1
  <2>3. (/\ averaging.delay_sum >= 0
         /\ 2 * Magnitude(averaging.offset_sum - averaging.count * Offset)
              <= averaging.delay_sum + averaging.count)'
    BY <2>1 DEF Magnitude
  <2> QED BY <1>n, <2>2, <2>3 DEF SumsInv, AverageAccurate
<1>1. ASSUME NEW times \in 1 .. MaxTimes, SyncAverage(times) PROVE SumsInv'
  BY <1>1, <1>n DEF SyncAverage
<1>2. CASE Sync
  BY <1>2, <1>q DEF Sync, resultVars
<1>3. CASE SyncFails
  <2>1. averaging' = [NotAveraging EXCEPT !.times = 0] /\ average' = average
    BY <1>3 DEF SyncFails, NotAveraging
  <2> QED BY <1>n, <2>1
<1>4. CASE TimeoutReached
  BY <1>4, <1>q DEF TimeoutReached, TimedOut, resultVars
<1>5. ASSUME NEW r \in responses, RecvResponse(r) PROVE SumsInv'
  <2>1. CASE r.id = req_id
    <3>1. AddResult(result')
      BY <1>5, <2>1 DEF RecvResponse, Return
    <3>2. Accurate'
      BY <1>i, ResultAccurate, PTL
    <3>3. /\ result'.t1 \in Int /\ result'.t2 \in Int
          /\ result'.t3 \in Int /\ result'.t4 \in Int
      BY <1>i DEF Inv, TypeOK, Results
    <3>4. offset_micros(result') \in Int /\ delay_micros(result') \in Int
      <4>1. \A x \in Int : Quotient(x, 2) \in Int
        BY QuotientBounds
      <4> QED BY <3>3, <4>1 DEF offset_micros, delay_micros
    <3>5. /\ delay_micros(result') >= 0
          /\ 2 * Magnitude(offset_micros(result') - Offset) <= delay_micros(result') + 1
      BY <3>2 DEF Accurate
    <3> QED BY <3>1, <3>4, <3>5, AddResultKeepsSums
  <2>2. CASE r.id # req_id
    BY <1>5, <1>q, <2>2 DEF RecvResponse, TimedOut, resultVars
  <2> QED BY <2>1, <2>2
<1>6. ASSUME NEW q \in requests, RecvRequest(q) PROVE SumsInv'
  BY <1>6, <1>q DEF RecvRequest, resultVars
<1>7. CASE SendResponse
  BY <1>7, <1>q DEF SendResponse, resultVars
<1>8. CASE ServerEnds
  BY <1>8, <1>q DEF ServerEnds, resultVars
<1>9. CASE Tick
  BY <1>9, <1>q DEF Tick, resultVars
<1>10. CASE UNCHANGED vars
  BY <1>10, <1>q DEF vars, resultVars
<1> QED BY <1>1, <1>2, <1>3, <1>4, <1>5, <1>6, <1>7, <1>8, <1>9, <1>10 DEF Next

(***************************************************************************)
(* The offset that sync_average() returns is right up to half the delay    *)
(* that it returns (and the rounding), however many results it averages    *)
(* and however often sync() timed out or sync_average() gave up before.    *)
(***************************************************************************)
THEOREM AverageAccuracy == Spec => []AverageAccurate
<1>1. Init => Inv /\ SumsInv
  <2>1. Init => SumsInv
    BY DEF Init, SumsInv, AverageAccurate, NotAveraging, NoAverage, Magnitude
  <2> QED BY <2>1, InitInv
<1>2. Inv /\ SumsInv /\ [Next]_vars => Inv' /\ SumsInv'
  BY NextInv, NextSumsInv
<1>3. SumsInv => AverageAccurate
  BY DEF SumsInv
<1> QED BY <1>1, <1>2, <1>3, PTL DEF Spec

-----------------------------------------------------------------------------
(***************************************************************************)
(* A step that makes no request and changes no id keeps what was issued    *)
(* issued.  A client that stops waiting only makes that easier.            *)
(***************************************************************************)
LEMMA IssuedStays ==
    ASSUME NEW m, Issued(m), TypeOK, m.id \in Nat,
           issued' \in Nat, issued' >= issued, UNCHANGED <<req_id, t1>>,
           client' = "waiting" => client = "waiting"
    PROVE  Issued(m)'
<1>1. m.id < issued'
  BY DEF Issued, TypeOK
<1>2. client' = "waiting" /\ m.id = req_id' => m.t1 = t1'
  BY DEF Issued
<1> QED BY <1>1, <1>2 DEF Issued

(***************************************************************************)
(* Every step keeps ids unique, as long as they do not wrap around.        *)
(***************************************************************************)
LEMMA NextIdInv ==
    ASSUME MaxRequests <= IdRange, Inv, IdInv, [Next]_vars
    PROVE  IdInv'
<1>0. TypeOK
  BY DEF Inv
<1>t. /\ \A q \in requests : q.id \in Nat
      /\ \A r \in responses : r.id \in Nat
      /\ request.id \in Nat
  BY <1>0 DEF TypeOK, Requests, Responses
<1>c. issued \in Nat /\ next_id \in Nat
  BY <1>0 DEF TypeOK
<1>r. ASSUME NEW m, Issued(m), m.id \in Nat, UNCHANGED <<req_id, t1, issued>>,
             client' = "waiting" => client = "waiting"
      PROVE  Issued(m)'
  BY <1>r, <1>0, <1>c, IssuedStays
<1>q. ASSUME UNCHANGED <<next_id, req_id, t1, issued, requests, responses, request>>,
             server' = "answering" => server = "answering",
             client' = "waiting" => client = "waiting"
      PROVE  IdInv'
  <2>1. (\A q \in requests : Issued(q))'
    BY <1>q, <1>r, <1>t, Zenon DEF IdInv
  <2>2. (\A r \in responses : Issued(r))'
    BY <1>q, <1>r, <1>t, Zenon DEF IdInv
  <2>3. (server = "answering" => Issued(request))'
    BY <1>q, <1>r, <1>t, Zenon DEF IdInv
  <2> QED BY <1>q, <2>1, <2>2, <2>3, Zenon DEF IdInv
<1>1. ASSUME NEW times \in 1 .. MaxTimes, SyncAverage(times) PROVE IdInv'
  BY <1>1, <1>q DEF SyncAverage, requestVars, serverVars
<1>n. ASSUME issued < MaxRequests
      PROVE  /\ next_id = issued
             /\ (next_id + 1) % IdRange = (issued + 1) % IdRange
  BY <1>n, <1>c DEF IdInv
<1>2. CASE Sync
  <2>q. PICK q0 : q0 = [id |-> next_id, t1 |-> now]
    OBVIOUS
  <2>0. /\ issued < MaxRequests
        /\ issued' = issued + 1 /\ req_id' = next_id /\ t1' = now
        /\ next_id' = (next_id + 1) % IdRange
        /\ requests' = requests \cup {q0}
        /\ UNCHANGED <<responses, server, request>>
    BY <1>2, <2>q DEF Sync, serverVars
  <2>1. next_id = issued /\ next_id' = issued' % IdRange
    BY <1>n, <2>0
  <2>2. Issued(q0)'
    BY <1>c, <2>q, <2>0, <2>1 DEF Issued
  <2>3. ASSUME NEW m, Issued(m), m.id \in Nat PROVE Issued(m)'
    <3>1. m.id < issued /\ m.id # req_id'
      BY <1>c, <2>0, <2>1, <2>3 DEF Issued
    <3> QED BY <1>c, <2>0, <2>3, <3>1 DEF Issued
  <2>4. (\A q \in requests : Issued(q))'
    <3>1. ASSUME NEW q \in requests' PROVE Issued(q)'
      <4>1. CASE q \in requests
        BY <1>t, <2>3, <4>1, Zenon DEF IdInv
      <4>2. CASE q = q0
        BY <2>2, <4>2, Zenon
      <4> QED BY <2>0, <4>1, <4>2, Zenon
    <3> QED BY <3>1, Zenon
  <2>5. (\A r \in responses : Issued(r))'
    BY <1>t, <2>0, <2>3, Zenon DEF IdInv
  <2>6. (server = "answering" => Issued(request))'
    BY <1>t, <2>0, <2>3, Zenon DEF IdInv
  <2>7. issued' <= MaxRequests
    BY <1>c, <2>0
  <2> QED BY <2>1, <2>4, <2>5, <2>6, <2>7, Zenon DEF IdInv
<1>3. CASE SyncFails
  <2>0. /\ issued < MaxRequests /\ issued' = issued + 1
        /\ next_id' = (next_id + 1) % IdRange
        /\ UNCHANGED <<client, req_id, t1, requests, responses, server, request>>
    BY <1>3 DEF SyncFails, serverVars
  <2>1. issued' \in Nat /\ issued' >= issued /\ issued' <= MaxRequests
    BY <1>c, <2>0
  <2>2. next_id' = issued' % IdRange
    BY <1>n, <2>0
  <2>3. ASSUME NEW m, Issued(m), m.id \in Nat PROVE Issued(m)'
    BY <1>0, <2>0, <2>1, <2>3, IssuedStays
  <2>4. (\A q \in requests : Issued(q))'
    BY <1>t, <2>0, <2>3, Zenon DEF IdInv
  <2>5. (\A r \in responses : Issued(r))'
    BY <1>t, <2>0, <2>3, Zenon DEF IdInv
  <2>6. (server = "answering" => Issued(request))'
    BY <1>t, <2>0, <2>3, Zenon DEF IdInv
  <2> QED BY <2>1, <2>2, <2>4, <2>5, <2>6, Zenon DEF IdInv
<1>4. CASE TimeoutReached
  BY <1>4, <1>q DEF TimeoutReached, TimedOut, serverVars
<1>5. ASSUME NEW r \in responses, RecvResponse(r) PROVE IdInv'
  <2>1. UNCHANGED <<requests, responses, server, request>>
    BY <1>5 DEF RecvResponse, serverVars
  <2>2. UNCHANGED <<next_id, req_id, t1, issued>>
        /\ (client' = "waiting" => client = "waiting")
    BY <1>5 DEF RecvResponse, Return, TimedOut, requestVars
  <2> QED BY <1>q, <2>1, <2>2
<1>6. ASSUME NEW q \in requests, RecvRequest(q) PROVE IdInv'
  <2>0. /\ UNCHANGED <<client, next_id, req_id, t1, issued, requests, responses>>
        /\ request' = q
    BY <1>6 DEF RecvRequest, requestVars
  <2>1. (\A p \in requests : Issued(p))'
    BY <1>t, <1>r, <2>0, Zenon DEF IdInv
  <2>2. (\A r \in responses : Issued(r))'
    BY <1>t, <1>r, <2>0, Zenon DEF IdInv
  <2>3. Issued(q)'
    BY <1>t, <1>r, <2>0, Zenon DEF IdInv
  <2>4. (server = "answering" => Issued(request))'
    BY <2>0, <2>3 DEF Issued
  <2> QED BY <2>0, <2>1, <2>2, <2>4, Zenon DEF IdInv
<1>7. CASE SendResponse
  <2> DEFINE r0 == [id |-> request.id, t1 |-> request.t1, t2 |-> t2,
                    t3 |-> now + Offset]
  <2>0. /\ UNCHANGED <<client, next_id, req_id, t1, issued, requests, request>>
        /\ server = "answering" /\ server' = "idle"
        /\ responses' = responses \cup {r0}
    BY <1>7 DEF SendResponse, requestVars
  <2>1. Issued(request)
    BY <2>0 DEF IdInv
  <2>2. Issued(r0) /\ r0.id \in Nat
    BY <1>t, <2>1 DEF Issued
  <2> HIDE DEF r0
  <2>3. (\A p \in requests : Issued(p))'
    BY <1>t, <1>r, <2>0, Zenon DEF IdInv
  <2>4. ASSUME NEW r \in responses' PROVE Issued(r) /\ r.id \in Nat
    BY <1>t, <2>0, <2>2, Zenon DEF IdInv
  <2>5. (\A r \in responses : Issued(r))'
    BY <1>r, <2>0, <2>4, Zenon
  <2>6. server' # "answering"
    BY <2>0
  <2> QED BY <2>0, <2>3, <2>5, <2>6, Zenon DEF IdInv
<1>8. CASE ServerEnds
  BY <1>8, <1>q DEF ServerEnds, requestVars
<1>9. CASE Tick
  BY <1>9, <1>q DEF Tick, requestVars, serverVars
<1>10. CASE UNCHANGED vars
  BY <1>10, <1>q DEF vars, requestVars, serverVars
<1> QED BY <1>1, <1>2, <1>3, <1>4, <1>5, <1>6, <1>7, <1>8, <1>9, <1>10 DEF Next

(***************************************************************************)
(* Only an answer that carries the id of the waiting request sets the      *)
(* result, and it carries the time of that request.                        *)
(***************************************************************************)
LEMMA FreshStep ==
    ASSUME IdInv, [Next]_vars, result' # result
    PROVE  client = "waiting" /\ result'.t1 = t1
<1>1. PICK r \in responses : RecvResponse(r)
  BY DEF Next, vars, SyncAverage, Sync, SyncFails, TimeoutReached, TimedOut,
         RecvRequest, SendResponse, ServerEnds, Tick, resultVars
<1>2. client = "waiting"
  BY <1>1 DEF RecvResponse
<1>3. r.id = req_id /\ Return(r)
  BY <1>1 DEF RecvResponse, TimedOut, resultVars
<1>4. result'.t1 = r.t1
  BY <1>3 DEF Return
<1>5. Issued(r)
  BY DEF IdInv
<1> QED BY <1>2, <1>3, <1>4, <1>5 DEF Issued

(***************************************************************************)
(* sync() returns the measurement of the request it made itself, whatever  *)
(* is answered late, as long as the request ids have not wrapped around.   *)
(***************************************************************************)
THEOREM Freshness ==
    ASSUME MaxRequests <= IdRange
    PROVE  Spec => Fresh
<1>1. Init => Inv /\ IdInv
  <2>1. Init => IdInv
    BY DEF Init, IdInv
  <2> QED BY <2>1, InitInv
<1>2. Inv /\ IdInv /\ [Next]_vars => Inv' /\ IdInv'
  BY NextInv, NextIdInv
<1>3. IdInv /\ [Next]_vars
        => [result' # result => client = "waiting" /\ result'.t1 = t1]_vars
  BY FreshStep
<1> QED BY <1>1, <1>2, <1>3, PTL DEF Spec, Fresh
=============================================================================
