------------------------------ MODULE ClockSync ------------------------------
(***************************************************************************)
(* The clock synchronisation protocol: the client sends its time t1 in a   *)
(* datagram, the server answers with t1, its own time t2 of reception and  *)
(* t3 of emission, and the client notes its time t4 when the answer comes. *)
(* Datagrams are lost, repeated, reordered and late: an answer may come    *)
(* when the client has given up and asked again.                           *)
(*                                                                         *)
(* `now' is the time of the client's clock; the server's clock shows       *)
(* now + Offset.  Neither drifts.                                          *)
(***************************************************************************)
EXTENDS Integers, FiniteSets

CONSTANTS
    Offset,         \* what the protocol is there to find out
    Timeout,        \* 200 ms in the code
    IdRange,        \* 2^32 in the code: where request ids wrap around
    MaxRequests,    \* bound on the calls of sync()
    MaxAnswers,     \* bound on the different answers of the server
    MaxTime,        \* bound on the time
    MaxTimes        \* bound on the argument of sync_average()

ASSUME ConstantsAssumption ==
    /\ Offset \in Int
    /\ Timeout \in Nat \ {0}
    /\ IdRange \in Nat \ {0}
    /\ MaxRequests \in Nat /\ MaxAnswers \in Nat
    /\ MaxTime \in Nat /\ MaxTimes \in Nat

VARIABLES
    now,
    \* client
    client,         \* "idle", or "waiting" for the answer to request req_id
    next_id, req_id, t1, deadline,
    issued,         \* how many requests were made
    result,         \* what the last call of sync() returned
    averaging,      \* the local variables of sync_average(), when it runs
    average,        \* what the last call of sync_average() returned
    \* network
    requests, responses,
    \* server
    server,         \* "idle", "answering" or "ended"
    request, t2     \* what it is answering

requestVars == <<client, next_id, req_id, t1, deadline, issued>>
resultVars == <<result, averaging, average>>
serverVars == <<server, request, t2>>
vars == <<now, requestVars, resultVars, requests, responses, serverVars>>

NoResult == [t1 |-> 0, t2 |-> Offset, t3 |-> Offset, t4 |-> 0]
NotAveraging == [times |-> 0, count |-> 0, offset_sum |-> 0, delay_sum |-> 0]
NoAverage == [offset_micros |-> Offset, delay_micros |-> 0]

Init ==
    /\ now = 0
    /\ client = "idle" /\ next_id = 0 /\ req_id = 0 /\ t1 = 0 /\ deadline = 0
    /\ issued = 0
    /\ result = NoResult /\ averaging = NotAveraging /\ average = NoAverage
    /\ requests = {} /\ responses = {}
    /\ server = "idle" /\ request = [id |-> 0, t1 |-> 0] /\ t2 = Offset

-----------------------------------------------------------------------------
\* Division of Rust integers rounds towards zero.
Quotient(a, b) == IF a >= 0 THEN a \div b ELSE -((-a) \div b)

\* Mutant of offset_micros: the way back is subtracted the wrong way round.
offset_micros_swapped(r) == Quotient((r.t2 - r.t1) + (r.t4 - r.t3), 2)

offset_micros(r) == Quotient((r.t2 - r.t1) + (r.t3 - r.t4), 2)

delay_micros(r) == (r.t4 - r.t1) - (r.t3 - r.t2)

\* sync_average(times) starts its loop.
SyncAverage(times) ==
    /\ client = "idle" /\ averaging = NotAveraging
    /\ averaging' = [NotAveraging EXCEPT !.times = times]
    /\ UNCHANGED <<now, requestVars, result, average, requests, responses, serverVars>>

\* sync() up to its first wait.  The bound on the time leaves room for the
\* timeout.
Sync ==
    /\ client = "idle"
    /\ issued < MaxRequests /\ now + Timeout <= MaxTime
    /\ issued' = issued + 1
    /\ req_id' = next_id
    /\ next_id' = (next_id + 1) % IdRange
    /\ t1' = now
    /\ deadline' = now + Timeout
    /\ client' = "waiting"
    /\ requests' = requests \cup {[id |-> next_id, t1 |-> now]}
    /\ UNCHANGED <<now, resultVars, responses, serverVars>>

\* send_datagram() fails: sync(), and sync_average() around it, return.
SyncFails ==
    /\ client = "idle"
    /\ issued < MaxRequests
    /\ issued' = issued + 1
    /\ next_id' = (next_id + 1) % IdRange
    /\ averaging' = NotAveraging
    /\ UNCHANGED <<now, client, req_id, t1, deadline, result, average,
                   requests, responses, serverVars>>

\* sync() returns None; sync_average() calls it again.
TimedOut ==
    /\ client' = "idle"
    /\ UNCHANGED <<next_id, req_id, t1, deadline, issued, resultVars>>

TimeoutReached ==
    /\ client = "waiting"
    /\ now >= deadline
    /\ TimedOut
    /\ UNCHANGED <<now, requests, responses, serverVars>>

-----------------------------------------------------------------------------
\* Mutant of AddResult: divides by one more than the number of results.
AddResultOffByOne(r) ==
    LET a == [averaging EXCEPT !.count = @ + 1,
                               !.offset_sum = @ + offset_micros(r),
                               !.delay_sum = @ + delay_micros(r)]
    IN  IF averaging = NotAveraging
        THEN UNCHANGED <<averaging, average>>
        ELSE IF a.count < a.times
        THEN averaging' = a /\ UNCHANGED average
        ELSE /\ averaging' = NotAveraging
             /\ average' = [offset_micros |-> Quotient(a.offset_sum, a.count + 1),
                            delay_micros |-> Quotient(a.delay_sum, a.count + 1)]

\* What sync_average() does with a result of sync().
AddResult(r) ==
    LET a == [averaging EXCEPT !.count = @ + 1,
                               !.offset_sum = @ + offset_micros(r),
                               !.delay_sum = @ + delay_micros(r)]
    IN  IF averaging = NotAveraging
        THEN UNCHANGED <<averaging, average>>
        ELSE IF a.count < a.times
        THEN averaging' = a /\ UNCHANGED average
        ELSE /\ averaging' = NotAveraging
             /\ average' = [offset_micros |-> Quotient(a.offset_sum, a.count),
                            delay_micros |-> Quotient(a.delay_sum, a.count)]

Return(r) ==
    /\ client' = "idle"
    /\ result' = [t1 |-> r.t1, t2 |-> r.t2, t3 |-> r.t3, t4 |-> now]
    /\ AddResult(result')
    /\ UNCHANGED <<next_id, req_id, t1, deadline, issued>>

\* Mutant of RecvResponse: any answer is taken.
RecvAnyResponse(r) ==
    /\ client = "waiting"
    /\ Return(r)
    /\ UNCHANGED <<now, requests, responses, serverVars>>

\* Mutant of RecvResponse: the timeout starts again after a late answer.
RecvResponseRestarts(r) ==
    /\ client = "waiting"
    /\ IF r.id = req_id
       THEN Return(r)
       ELSE /\ deadline' = now + Timeout
            /\ UNCHANGED <<client, next_id, req_id, t1, issued, resultVars>>
    /\ UNCHANGED <<now, requests, responses, serverVars>>

\* An answer to an earlier request is ignored; the timeout is not restarted,
\* and is looked at before the next wait.
RecvResponse(r) ==
    /\ client = "waiting"
    /\ IF r.id = req_id
       THEN Return(r)
       ELSE IF now >= deadline
       THEN TimedOut
       ELSE UNCHANGED <<requestVars, resultVars>>
    /\ UNCHANGED <<now, requests, responses, serverVars>>

-----------------------------------------------------------------------------
RecvRequest(q) ==
    /\ server = "idle"
    /\ Cardinality(responses) < MaxAnswers
    /\ server' = "answering"
    /\ request' = q
    /\ t2' = now + Offset
    /\ UNCHANGED <<now, requestVars, resultVars, requests, responses>>

SendResponse ==
    /\ server = "answering"
    /\ server' = "idle"
    /\ responses' = responses \cup {[id |-> request.id, t1 |-> request.t1, t2 |-> t2,
                                     t3 |-> now + Offset]}
    /\ UNCHANGED <<now, requestVars, resultVars, requests, request, t2>>

\* The channel of the server fails: serve() returns.
ServerEnds ==
    /\ server # "ended"
    /\ server' = "ended"
    /\ UNCHANGED <<now, requestVars, resultVars, requests, responses, request, t2>>

Tick ==
    /\ now < MaxTime
    /\ now' = now + 1
    /\ UNCHANGED <<requestVars, resultVars, requests, responses, serverVars>>

Next ==
    \/ \E times \in 1 .. MaxTimes : SyncAverage(times)
    \/ Sync
    \/ SyncFails
    \/ TimeoutReached
    \/ \E r \in responses : RecvResponse(r)
    \/ \E q \in requests : RecvRequest(q)
    \/ SendResponse
    \/ ServerEnds
    \/ Tick

Spec == Init /\ [][Next]_vars

(***************************************************************************)
(* Time passes and the timer of a waiting client fires.  Nothing is        *)
(* assumed of the network or of the server.                                *)
(***************************************************************************)
FairSpec == Spec /\ WF_vars(Tick) /\ WF_vars(TimeoutReached)

-----------------------------------------------------------------------------
Requests == [id : Nat, t1 : Int]
Responses == [id : Nat, t1 : Int, t2 : Int, t3 : Int]
Results == [t1 : Int, t2 : Int, t3 : Int, t4 : Int]

TypeOK ==
    /\ now \in Nat
    /\ client \in {"idle", "waiting"}
    /\ next_id \in Nat /\ req_id \in Nat /\ issued \in Nat
    /\ t1 \in Nat /\ deadline \in Nat
    /\ result \in Results
    /\ requests \subseteq Requests /\ responses \subseteq Responses
    /\ server \in {"idle", "answering", "ended"}
    /\ request \in Requests /\ t2 \in Int

Magnitude(x) == IF x < 0 THEN -x ELSE x

(***************************************************************************)
(* Whatever answer sync() returned, however late or repeated, the offset   *)
(* computed from it is off by at most half the delay computed from it (and *)
(* the half unit lost to rounding), and that delay is not negative.        *)
(***************************************************************************)
Accurate ==
    /\ delay_micros(result) >= 0
    /\ 2 * Magnitude(offset_micros(result) - Offset) <= delay_micros(result) + 1

(***************************************************************************)
(* The same of sync_average().  One unit is lost to the rounding of the    *)
(* single results, two to the rounding of the two averages.                *)
(***************************************************************************)
AverageAccurate ==
    /\ average.delay_micros >= 0
    /\ 2 * Magnitude(average.offset_micros - Offset) <= average.delay_micros + 3

(***************************************************************************)
(* A result measures the very request its call of sync() made, never one   *)
(* that an earlier call gave up on.                                        *)
(***************************************************************************)
Fresh == [][result' # result => client = "waiting" /\ result'.t1 = t1]_vars

(***************************************************************************)
(* Every call of sync() returns, even when answers to earlier requests     *)
(* keep coming.                                                            *)
(***************************************************************************)
SyncReturns == client = "waiting" ~> client = "idle"

-----------------------------------------------------------------------------
(***************************************************************************)
(* The inductive invariant behind Accurate: the times that travel are in   *)
(* the past, in the order in which they were taken.                        *)
(***************************************************************************)
RequestOK(q) == q.t1 <= now

ResponseOK(r) ==
    /\ r.t1 + Offset <= r.t2
    /\ r.t2 <= r.t3
    /\ r.t3 <= now + Offset

Inv ==
    /\ TypeOK
    /\ \A q \in requests : RequestOK(q)
    /\ request.t1 + Offset <= t2 /\ t2 <= now + Offset
    /\ \A r \in responses : ResponseOK(r)
    /\ result.t1 + Offset <= result.t2
    /\ result.t2 <= result.t3
    /\ result.t3 <= result.t4 + Offset

(***************************************************************************)
(* The inductive invariant behind AverageAccurate: the sums of             *)
(* sync_average() are as accurate as that many results are.                *)
(***************************************************************************)
SumsInv ==
    /\ averaging \in [times : Nat, count : Nat, offset_sum : Int, delay_sum : Int]
    /\ averaging.delay_sum >= 0
    /\ 2 * Magnitude(averaging.offset_sum - averaging.count * Offset)
         <= averaging.delay_sum + averaging.count
    /\ AverageAccurate

(***************************************************************************)
(* The inductive invariant behind Fresh: ids are not reused, and whatever  *)
(* carries the id of the request that waits carries its time.  It needs    *)
(* the ids not to wrap around (MaxRequests <= IdRange).                    *)
(***************************************************************************)
Issued(m) == m.id < issued /\ (client = "waiting" /\ m.id = req_id => m.t1 = t1)

IdInv ==
    /\ issued <= MaxRequests
    /\ next_id = issued % IdRange
    /\ \A q \in requests : Issued(q)
    /\ server = "answering" => Issued(request)
    /\ \A r \in responses : Issued(r)
=============================================================================
