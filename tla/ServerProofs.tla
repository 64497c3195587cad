----------------------------- MODULE ServerProofs -----------------------------
(***************************************************************************)
(* Proofs about two parts of the server that share nothing: the middleware *)
(* that answers repeated requests (Idempotency), and live updates with the *)
(* end of the process (Live).  The specifications are separate; each       *)
(* theorem is about one of them.                                           *)
(***************************************************************************)
EXTENDS Idempotency, Live, TLAPS

(* The larger and the smaller of two numbers. *)
LEMMA MaxOfTwo ==
    ASSUME NEW a \in Int, NEW b \in Int
    PROVE  Max({a, b}) = IF a >= b THEN a ELSE b
  BY DEF Max

LEMMA MinOfTwo ==
    ASSUME NEW a \in Int, NEW b \in Int
    PROVE  Min({a, b}) = IF a <= b THEN a ELSE b
  BY DEF Min

-----------------------------------------------------------------------------
(* Idempotency. *)

(* The values the actions write. *)
LEMMA IdempotencyConstants ==
    /\ NoAnswer \in Answers
    /\ NoRecord \in RecordState /\ RecordFits(NoRecord)
    /\ IdleRequest \in RequestState /\ RequestFits(IdleRequest)
    /\ IdleRequest.pc = "idle" /\ IdleRequest.again = FALSE
    /\ NoRecord.state = "none"
  <1>1. (CHOOSE k \in Keys : TRUE) \in Keys
    BY IdempotencyAssumption
  <1>2. NoAnswer \in Answers /\ NoAnswer.status = "none"
    BY DEF Answers, NoAnswer
  <1>3. -MaxLag \in (-MaxLag)..TTL /\ 0 \in 0..MaxLag
    BY IdempotencyAssumption
  <1>4. NoRecord \in RecordState /\ RecordFits(NoRecord) /\ NoRecord.state = "none"
    BY <1>2, <1>3 DEF NoRecord, RecordState, RecordFits
  <1>5. /\ IdleRequest \in RequestState /\ RequestFits(IdleRequest)
        /\ IdleRequest.pc = "idle" /\ IdleRequest.again = FALSE
    BY <1>1, <1>3 DEF IdleRequest, RequestState, RequestFits
  <1> QED BY <1>2, <1>4, <1>5

(* A request that moves on, or ends, without touching a row or a claim. *)
LEMMA RequestMoves ==
    ASSUME IdempotencyInv, NEW r \in Requests, NEW q \in RequestState,
           request' = [request EXCEPT ![r] = q],
           UNCHANGED <<record, claim, overran>>,
           RequestFits(q), q.again => request[r].again /\ q.key = request[r].key,
           \/ q.pc \in {"idle", "claiming"}
           \/ q = [request[r] EXCEPT !.gone = TRUE]
    PROVE  IdempotencyInv'
  <1>1. IdempotencyTypeOK /\ RequestsAreFormed
    BY DEF IdempotencyInv
  <1>2. (IdempotencyTypeOK /\ RequestsAreFormed)'
    BY <1>1 DEF IdempotencyTypeOK, RequestsAreFormed
  <1>3. request \in [Requests -> RequestState]
    BY <1>1 DEF IdempotencyTypeOK, RequestsAreFormed
  <1>4. request'[r] = q /\ \A x \in Requests \ {r} : request'[x] = request[x]
    BY <1>3
  <1>5. DoneOnce'
    BY <1>4 DEF IdempotencyInv, DoneOnce
  <1>6. HoldersHaveTheirRow'
    <2> SUFFICES ASSUME NEW x \in Requests, x = r,
                        q = [request[r] EXCEPT !.gone = TRUE]
                 PROVE  /\ q.key = request[r].key /\ q.pc = request[r].pc
                        /\ q.op = request[r].op /\ q.status = request[r].status
      BY <1>4 DEF IdempotencyInv, HoldersHaveTheirRow
    <2> QED BY <1>3 DEF RequestState
  <1> QED BY <1>2, <1>5, <1>6
          DEF IdempotencyInv, ClaimsHaveTheirRow, ReplaysTheFirstAnswer

LEMMA RequestLeaves ==
    ASSUME IdempotencyInv, NEW r \in Requests, Over(r),
           UNCHANGED <<record, claim, overran>>
    PROVE  IdempotencyInv'
  BY RequestMoves, IdempotencyConstants DEF Over

LEMMA ArrivalKeepsInv ==
    ASSUME IdempotencyInv, NEW r \in Requests, NEW k \in Keys, NEW op \in Ops,
           Arrive(r, k, op)
    PROVE  IdempotencyInv'
  <1> DEFINE q == [IdleRequest EXCEPT !.pc = "claiming", !.key = k, !.op = op]
  <1>1. q \in RequestState /\ RequestFits(q) /\ q.pc = "claiming" /\ ~q.again
    BY IdempotencyConstants DEF RequestState, RequestFits, IdleRequest
  <1> QED BY <1>1, RequestMoves DEF Arrive

LEMMA HangUpKeepsInv ==
    ASSUME IdempotencyInv, NEW r \in Requests, HangUp(r)
    PROVE  IdempotencyInv'
  <1> DEFINE q == [request[r] EXCEPT !.gone = TRUE]
  <1>1. request[r] \in RequestState /\ RequestFits(request[r])
    BY DEF IdempotencyInv, IdempotencyTypeOK, RequestsAreFormed
  <1>2. q \in RequestState /\ RequestFits(q) /\ q.again = request[r].again
        /\ q.key = request[r].key
    BY <1>1 DEF RequestState, RequestFits
  <1>3. request' = [request EXCEPT ![r] = q] /\ UNCHANGED <<record, claim, overran>>
    BY DEF HangUp
  <1> QED BY <1>2, <1>3, RequestMoves

(* A claim on a free key that still stands was overrun by another request. *)
LEMMA FreeMeansOver ==
    ASSUME IdempotencyInv, NEW r \in Requests, Free(r), Stands(request[r].key)
    PROVE  request[r].key \in overran
  <1> DEFINE k == request[r].key
  <1>1. k \in Keys /\ request[r].lag \in 0..MaxLag /\ record[k].left \in Int
    BY IdempotencyAssumption
    DEF IdempotencyInv, IdempotencyTypeOK, RequestState, RecordState
  <1>2. claim[k].left \in Int
    BY <1>1 DEF IdempotencyInv, IdempotencyTypeOK, ClaimState
  <1> QED BY <1>1, <1>2, IdempotencyAssumption
          DEF Free, Stands, IdempotencyInv, ClaimsHaveTheirRow

(* A claim that is granted, to a request that runs on or to nobody. *)
LEMMA GrantKeepsInv ==
    ASSUME IdempotencyInv, NEW r \in Requests, request[r].pc = "claiming",
           NEW h \in {r, NoRequest}, NEW q \in RequestState,
           record' = [record EXCEPT ![request[r].key] = Granted(r)],
           claim' = [claim EXCEPT ![request[r].key] =
                       [holder |-> h, left |-> Granted(r).left, answer |-> NoAnswer]],
           request' = [request EXCEPT ![r] = q], UNCHANGED overran,
           RequestFits(q), q.again => q.key \in overran,
           q.pc \in {"idle", "running"},
           q.pc = "running" => q.key = request[r].key /\ q.op = request[r].op
    PROVE  IdempotencyInv'
  <1> DEFINE k == request[r].key
  <1>1. /\ IdempotencyTypeOK /\ RequestsAreFormed
        /\ k \in Keys /\ request[r].lag \in 0..MaxLag /\ request[r].op \in Ops
    BY DEF IdempotencyInv, IdempotencyTypeOK, RequestsAreFormed, RequestState,
           RequestFits
  <1>2. /\ Granted(r).left \in 0..TTL /\ Granted(r) \in RecordState
        /\ Granted(r).state = "in_progress" /\ Granted(r).op = request[r].op
        /\ RecordFits(Granted(r))
    BY <1>1, IdempotencyConstants, IdempotencyAssumption
    DEF Granted, RecordState, RecordFits, NoAnswer
  <1>3. [holder |-> h, left |-> Granted(r).left, answer |-> NoAnswer] \in ClaimState
    BY <1>2, IdempotencyConstants DEF ClaimState
  <1>4. (IdempotencyTypeOK /\ RequestsAreFormed)'
    BY <1>1, <1>2, <1>3 DEF IdempotencyTypeOK, RequestsAreFormed
  <1>5. /\ request'[r] = q /\ \A x \in Requests \ {r} : request'[x] = request[x]
        /\ record'[k] = Granted(r) /\ \A x \in Keys \ {k} : record'[x] = record[x]
        /\ claim'[k].holder = h /\ claim'[k].left = Granted(r).left
        /\ \A x \in Keys \ {k} : claim'[x] = claim[x]
    BY <1>1 DEF IdempotencyTypeOK
  <1>6. \A x \in Requests : request'[x].key \in Keys /\ request[x].key \in Keys
    BY <1>1, <1>4 DEF IdempotencyTypeOK, RequestState
  <1>7. ClaimsHaveTheirRow' /\ ReplaysTheFirstAnswer'
    BY <1>2, <1>5 DEF IdempotencyInv, ClaimsHaveTheirRow, ReplaysTheFirstAnswer
  <1>8. HoldersHaveTheirRow'
    <2> SUFFICES ASSUME NEW x \in Requests,
                        request'[x].pc \in {"running", "finishing"},
                        claim'[request'[x].key].holder = x,
                        request'[x].key \notin overran
                 PROVE  /\ record'[request'[x].key].state = "in_progress"
                        /\ record'[request'[x].key].op = request'[x].op
                        /\ request'[x].pc = "finishing" =>
                             claim'[request'[x].key].answer =
                               [op |-> request'[x].op, status |-> request'[x].status]
      BY <1>5 DEF HoldersHaveTheirRow
    <2>1. CASE x = r
      BY <1>2, <1>5, <2>1
    <2>2. CASE x # r
      <3>1. request[x].key # k
        BY <1>5, <2>2, IdempotencyAssumption
      <3> QED BY <1>5, <1>6, <2>2, <3>1 DEF IdempotencyInv, HoldersHaveTheirRow
    <2> QED BY <2>1, <2>2
  <1>9. DoneOnce'
    BY <1>5 DEF IdempotencyInv, DoneOnce
  <1> QED BY <1>4, <1>7, <1>8, <1>9 DEF IdempotencyInv

(* A request that a granted claim lets run. *)
LEMMA RunningRequest ==
    ASSUME NEW x \in RequestState, NEW b \in BOOLEAN
    PROVE  LET q == [x EXCEPT !.pc = "running", !.again = b, !.lag = 0]
           IN /\ q \in RequestState /\ q.pc = "running" /\ q.again = b
              /\ q.key = x.key /\ q.op = x.op /\ q.status = x.status
  <1>1. 0 \in 0..MaxLag
    BY IdempotencyAssumption
  <1> QED BY <1>1 DEF RequestState

LEMMA ClaimKeepsInv ==
    ASSUME IdempotencyInv, NEW r \in Requests, Claim(r) \/ ClaimUnacknowledged(r)
    PROVE  IdempotencyInv'
  <1>1. CASE Claim(r)
    <2>1. request[r] \in RequestState /\ RequestFits(request[r])
      BY DEF IdempotencyInv, IdempotencyTypeOK, RequestsAreFormed
    <2>2. PICK b \in BOOLEAN : b = Stands(request[r].key)
      BY DEF Stands
    <2> DEFINE q == [request[r] EXCEPT !.pc = "running", !.again = b, !.lag = 0]
    <2>3. /\ q \in RequestState /\ q.pc = "running" /\ q.key = request[r].key
          /\ q.op = request[r].op /\ q.again = b /\ q.status = request[r].status
      BY <2>1, RunningRequest
    <2>4. RequestFits(q)
      BY <1>1, <2>1, <2>3 DEF Claim, RequestFits
    <2>5. q.again => q.key \in overran
      BY <1>1, <2>2, <2>3, FreeMeansOver DEF Claim
    <2>6. request' = [request EXCEPT ![r] = q]
      BY <1>1, <2>2 DEF Claim
    <2> HIDE DEF q
    <2> QED BY <1>1, <2>3, <2>4, <2>5, <2>6, GrantKeepsInv DEF Claim
  <1>2. CASE ClaimUnacknowledged(r)
    BY <1>2, GrantKeepsInv, IdempotencyConstants DEF ClaimUnacknowledged, Over
  <1> QED BY <1>1, <1>2

LEMMA HandleKeepsInv ==
    ASSUME IdempotencyInv, NEW r \in Requests, NEW status \in Statuses,
           Handle(r, status)
    PROVE  IdempotencyInv'
  <1> DEFINE k == request[r].key
             q == [request[r] EXCEPT !.pc = "finishing", !.status = status]
             said == [op |-> request[r].op, status |-> status]
  <1>1. /\ IdempotencyTypeOK /\ RequestsAreFormed /\ request[r] \in RequestState
        /\ request[r].pc = "running" /\ request[r].op \in Ops /\ k \in Keys
    BY DEF Handle, IdempotencyInv, IdempotencyTypeOK, RequestsAreFormed,
           RequestState, RequestFits
  <1>2. /\ q \in RequestState /\ q.pc = "finishing" /\ q.status = status
        /\ q.op = request[r].op /\ q.key = k /\ q.again = request[r].again
    BY <1>1 DEF RequestState
  <1>3. RequestFits(q) /\ said \in Answers
    BY <1>1, <1>2 DEF RequestFits, Answers, Statuses
  <1>4. /\ request' = [request EXCEPT ![r] = q] /\ UNCHANGED <<record, overran>>
        /\ claim' = IF claim[k].holder = r
                    THEN [claim EXCEPT ![k].answer = said] ELSE claim
    BY DEF Handle
  <1> HIDE DEF q, said
  <1>5. /\ request'[r] = q /\ \A x \in Requests \ {r} : request'[x] = request[x]
        /\ \A x \in Keys \ {k} : claim'[x] = claim[x]
        /\ claim'[k].holder = claim[k].holder /\ claim'[k].left = claim[k].left
        /\ claim[k].holder = r => claim'[k].answer = said
        /\ claim[k].holder # r => claim'[k] = claim[k]
        /\ claim' \in [Keys -> ClaimState]
    BY <1>1, <1>3, <1>4 DEF IdempotencyTypeOK, ClaimState
  <1>6. (IdempotencyTypeOK /\ RequestsAreFormed)'
    BY <1>1, <1>2, <1>3, <1>4, <1>5 DEF IdempotencyTypeOK, RequestsAreFormed
  <1>7. claim[k].holder = r /\ k \notin overran => record[k].state = "in_progress"
                                                  /\ record[k].op = request[r].op
    BY <1>1 DEF IdempotencyInv, HoldersHaveTheirRow
  <1>8. ClaimsHaveTheirRow' /\ ReplaysTheFirstAnswer'
    BY <1>4, <1>5, <1>7 DEF IdempotencyInv, ClaimsHaveTheirRow, ReplaysTheFirstAnswer
  <1>9. HoldersHaveTheirRow'
    <2> SUFFICES ASSUME NEW x \in Requests,
                        request'[x].pc \in {"running", "finishing"},
                        claim'[request'[x].key].holder = x,
                        request'[x].key \notin overran
                 PROVE  /\ record[request'[x].key].state = "in_progress"
                        /\ record[request'[x].key].op = request'[x].op
                        /\ request'[x].pc = "finishing" =>
                             claim'[request'[x].key].answer =
                               [op |-> request'[x].op, status |-> request'[x].status]
      BY <1>4 DEF HoldersHaveTheirRow
    <2>1. CASE x = r
      BY <1>2, <1>5, <1>7, <2>1 DEF said
    <2>2. CASE x # r
      <3>1. request[x].key \in Keys
        BY <1>1 DEF IdempotencyTypeOK, RequestState
      <3>2. claim'[request[x].key] = claim[request[x].key]
        BY <1>5, <2>2, <3>1
      <3> QED BY <1>5, <2>2, <3>2 DEF IdempotencyInv, HoldersHaveTheirRow
    <2> QED BY <2>1, <2>2
  <1>10. DoneOnce'
    BY <1>2, <1>4, <1>5 DEF IdempotencyInv, DoneOnce
  <1> QED BY <1>6, <1>8, <1>9, <1>10 DEF IdempotencyInv

(* A request that ends the claim on its key and leaves this row: when the   *)
(* claim was its own, the row must say so.                                  *)
LEMMA EndKeepsInv ==
    ASSUME IdempotencyInv, NEW r \in Requests, NEW row \in RecordState, RecordFits(row),
           record' = [record EXCEPT ![request[r].key] = row],
           Ends(r), Over(r), UNCHANGED claim,
           claim[request[r].key].holder = r /\ request[r].key \notin overran =>
             \/ /\ row.state = "completed" /\ row.answer = claim[request[r].key].answer
                /\ row.op = row.answer.op /\ row.left = record[request[r].key].left
                /\ record[request[r].key].state # "none"
             \/ row.state = "none" /\ claim[request[r].key].answer.status = "failed"
    PROVE  IdempotencyInv'
  <1> DEFINE k == request[r].key
  <1>1. IdempotencyTypeOK /\ RequestsAreFormed /\ k \in Keys
    BY DEF IdempotencyInv, IdempotencyTypeOK, RequestState
  <1>2. /\ request'[r] = IdleRequest
        /\ \A x \in Requests \ {r} : request'[x] = request[x]
        /\ record'[k] = row /\ \A x \in Keys \ {k} : record'[x] = record[x]
        /\ overran \subseteq overran' /\ overran' \subseteq Keys
        /\ claim[k].holder = r \/ k \in overran'
    BY <1>1 DEF IdempotencyTypeOK, Over, Ends
  <1>3. (IdempotencyTypeOK /\ RequestsAreFormed)'
    BY <1>1, <1>2, IdempotencyConstants DEF IdempotencyTypeOK, RequestsAreFormed, Over
  <1>4. \A x \in Keys \ overran' : x # k => /\ record'[x] = record[x]
                                            /\ x \notin overran
    BY <1>2
  <1>5. ClaimsHaveTheirRow' /\ ReplaysTheFirstAnswer'
    BY <1>2, <1>4 DEF IdempotencyInv, ClaimsHaveTheirRow, ReplaysTheFirstAnswer
  <1>6. \A x \in Requests \ {r} : request[x].key \in Keys
    BY <1>1 DEF IdempotencyTypeOK, RequestState
  <1>7. HoldersHaveTheirRow'
    BY <1>2, <1>4, <1>6, IdempotencyConstants DEF IdempotencyInv, HoldersHaveTheirRow
  <1>8. DoneOnce'
    BY <1>2, IdempotencyConstants DEF IdempotencyInv, DoneOnce
  <1> QED BY <1>3, <1>5, <1>7, <1>8 DEF IdempotencyInv

LEMMA CompleteKeepsInv ==
    ASSUME IdempotencyInv, NEW r \in Requests, Complete(r)
    PROVE  IdempotencyInv'
  <1> DEFINE k == request[r].key
             said == [op |-> request[r].op, status |-> request[r].status]
             row == IF record[k].state = "none" THEN record[k]
                    ELSE [record[k] EXCEPT !.state = "completed", !.answer = said]
  <1>1. /\ k \in Keys /\ record \in [Keys -> RecordState] /\ RecordFits(record[k])
        /\ request[r].pc = "finishing" /\ request[r].op \in Ops
        /\ request[r].status \in {"ok", "refused"}
    BY DEF Complete, IdempotencyInv, IdempotencyTypeOK, RequestsAreFormed,
           RequestState, RequestFits, Statuses
  <1>2. said \in Answers /\ said.status \in {"ok", "refused"} /\ said.op = request[r].op
    BY <1>1 DEF Answers, Statuses
  <1>3. claim[k].holder = r /\ k \notin overran =>
          /\ record[k].state = "in_progress" /\ record[k].op = request[r].op
          /\ claim[k].answer = said
    BY <1>1 DEF IdempotencyInv, HoldersHaveTheirRow
  <1>4. record' = [record EXCEPT ![k] = row] /\ Ends(r) /\ Over(r) /\ UNCHANGED claim
    <2>1. CASE record[k].state = "none"
      <3>1. record' = record
        BY <2>1 DEF Complete
      <3> QED BY <1>1, <2>1, <3>1 DEF Complete
    <2>2. CASE record[k].state # "none"
      BY <2>2 DEF Complete
    <2> QED BY <2>1, <2>2
  <1> HIDE DEF said
  <1>5. /\ row \in RecordState
        /\ record[k].state # "none" =>
             /\ row.state = "completed" /\ row.answer = said
             /\ row.op = record[k].op /\ row.left = record[k].left
    BY <1>1, <1>2 DEF RecordState
  <1>6. RecordFits(row)
    BY <1>1, <1>2, <1>5 DEF RecordFits
  <1> HIDE DEF row
  <1> QED BY <1>2, <1>3, <1>4, <1>5, <1>6, EndKeepsInv

LEMMA ReleaseKeepsInv ==
    ASSUME IdempotencyInv, NEW r \in Requests, Release(r)
    PROVE  IdempotencyInv'
  <1>1. claim[request[r].key].holder = r /\ request[r].key \notin overran =>
          claim[request[r].key].answer.status = "failed"
    <2>1. request[r].pc = "finishing" /\ request[r].status = "failed"
      BY DEF Release
    <2>2. claim[request[r].key].holder = r /\ request[r].key \notin overran =>
            claim[request[r].key].answer =
              [op |-> request[r].op, status |-> request[r].status]
      BY <2>1 DEF IdempotencyInv, HoldersHaveTheirRow
    <2> QED BY <2>1, <2>2
  <1> QED BY <1>1, EndKeepsInv, IdempotencyConstants DEF Release

LEMMA CrashKeepsInv == ASSUME IdempotencyInv, Crash PROVE IdempotencyInv'
  <1>1. (IdempotencyTypeOK /\ RequestsAreFormed)'
    BY IdempotencyConstants
    DEF Crash, IdempotencyInv, IdempotencyTypeOK, RequestsAreFormed
  <1>2. HoldersHaveTheirRow' /\ DoneOnce'
    BY IdempotencyConstants DEF Crash, HoldersHaveTheirRow, DoneOnce
  <1> QED BY <1>1, <1>2
          DEF Crash, IdempotencyInv, ClaimsHaveTheirRow, ReplaysTheFirstAnswer

(* Time shortens a claim and its row together. *)
LEMMA TickKeepsInv == ASSUME IdempotencyInv, Tick PROVE IdempotencyInv'
  <1>1. IdempotencyTypeOK /\ RequestsAreFormed
    BY DEF IdempotencyInv
  <1>2. ASSUME NEW k \in Keys
        PROVE  /\ record'[k] \in RecordState /\ RecordFits(record'[k])
               /\ record'[k].state = record[k].state /\ record'[k].op = record[k].op
               /\ record'[k].answer = record[k].answer
               /\ record[k].left > 0 => record'[k].left = record[k].left - 1
    <2>1. record[k] \in RecordState /\ RecordFits(record[k])
      BY <1>1 DEF IdempotencyTypeOK
    <2>2. record[k].left \in (-MaxLag)..TTL
      BY <2>1 DEF RecordState
    <2> DEFINE left == Max({-MaxLag, record[k].left - 1})
    <2>3. left \in (-MaxLag)..TTL /\ (record[k].left > 0 => left = record[k].left - 1)
      BY <2>2, MaxOfTwo, IdempotencyAssumption
    <2>4. record'[k] = [record[k] EXCEPT !.left = left]
      BY DEF Tick
    <2> HIDE DEF left
    <2> QED BY <2>1, <2>3, <2>4 DEF RecordState, RecordFits
  <1>3. ASSUME NEW k \in Keys
        PROVE  /\ claim'[k] \in ClaimState
               /\ claim'[k].holder = claim[k].holder
               /\ claim'[k].answer = claim[k].answer
               /\ claim'[k].left > 0 => /\ claim[k].left > 0
                                        /\ claim'[k].left = claim[k].left - 1
    <2>1. claim[k] \in ClaimState /\ claim[k].left \in 0..TTL
      BY <1>1 DEF IdempotencyTypeOK, ClaimState
    <2> DEFINE left == Max({0, claim[k].left - 1})
    <2>2. left \in 0..TTL /\ (left > 0 => left = claim[k].left - 1 /\ claim[k].left > 0)
      BY <2>1, MaxOfTwo, IdempotencyAssumption
    <2>3. claim'[k] = [claim[k] EXCEPT !.left = left]
      BY DEF Tick
    <2> HIDE DEF left
    <2> QED BY <2>1, <2>2, <2>3 DEF ClaimState
  <1>4. ASSUME NEW r \in Requests
        PROVE  /\ request'[r] \in RequestState /\ RequestFits(request'[r])
               /\ request'[r].pc = request[r].pc /\ request'[r].key = request[r].key
               /\ request'[r].op = request[r].op /\ request'[r].again = request[r].again
               /\ request'[r].status = request[r].status
               /\ request[r].key \in Keys
    <2>1. request[r] \in RequestState /\ RequestFits(request[r])
      BY <1>1 DEF IdempotencyTypeOK, RequestsAreFormed
    <2> DEFINE lag == IF request[r].pc = "claiming" THEN request[r].lag + 1 ELSE 0
    <2>2. lag \in 0..MaxLag
      BY <2>1, IdempotencyAssumption DEF Tick, RequestState
    <2>3. request'[r] = [request[r] EXCEPT !.lag = lag]
      BY DEF Tick
    <2> HIDE DEF lag
    <2> QED BY <2>1, <2>2, <2>3 DEF RequestState, RequestFits
  <1>5. UNCHANGED overran
    BY DEF Tick
  <1>6. (IdempotencyTypeOK /\ RequestsAreFormed)'
    <2>1. /\ record' = [k \in Keys |-> record'[k]] /\ claim' = [k \in Keys |-> claim'[k]]
          /\ request' = [r \in Requests |-> request'[r]]
      BY DEF Tick
    <2> QED BY <1>1, <1>2, <1>3, <1>4, <1>5, <2>1
            DEF IdempotencyTypeOK, RequestsAreFormed
  <1>7. ClaimsHaveTheirRow'
    <2> SUFFICES ASSUME NEW k \in Keys \ overran, claim'[k].left > 0
                 PROVE  \/ record'[k].state # "none" /\ record'[k].left = claim'[k].left
                        \/ record'[k].state = "none" /\ claim'[k].answer.status = "failed"
      BY <1>5 DEF ClaimsHaveTheirRow
    <2>1. \/ record[k].state # "none" /\ record[k].left = claim[k].left
          \/ record[k].state = "none" /\ claim[k].answer.status = "failed"
      BY <1>3 DEF IdempotencyInv, ClaimsHaveTheirRow
    <2> QED BY <1>2, <1>3, <2>1
  <1>8. ReplaysTheFirstAnswer'
    BY <1>2, <1>3, <1>5 DEF IdempotencyInv, ReplaysTheFirstAnswer
  <1>9. HoldersHaveTheirRow'
    BY <1>2, <1>3, <1>4, <1>5 DEF IdempotencyInv, HoldersHaveTheirRow
  <1>10. DoneOnce'
    BY <1>4, <1>5 DEF IdempotencyInv, DoneOnce
  <1> QED BY <1>6, <1>7, <1>8, <1>9, <1>10 DEF IdempotencyInv

LEMMA IdempotencyInitInv == IdempotencyInit => IdempotencyInv
  <1> SUFFICES ASSUME IdempotencyInit PROVE IdempotencyInv
    OBVIOUS
  <1>1. [holder |-> NoRequest, left |-> 0, answer |-> NoAnswer] \in ClaimState
    BY IdempotencyConstants, IdempotencyAssumption DEF ClaimState
  <1>2. IdempotencyTypeOK /\ RequestsAreFormed
    BY <1>1, IdempotencyConstants
    DEF IdempotencyInit, IdempotencyTypeOK, RequestsAreFormed
  <1>3. ClaimsHaveTheirRow /\ ReplaysTheFirstAnswer
    BY IdempotencyConstants
    DEF IdempotencyInit, ClaimsHaveTheirRow, ReplaysTheFirstAnswer
  <1>4. HoldersHaveTheirRow /\ DoneOnce
    BY IdempotencyConstants DEF IdempotencyInit, HoldersHaveTheirRow, DoneOnce
  <1> QED BY <1>2, <1>3, <1>4 DEF IdempotencyInv

LEMMA IdempotencyNextInv ==
    IdempotencyInv /\ [IdempotencyNext]_idemVars => IdempotencyInv'
  <1> SUFFICES ASSUME IdempotencyInv, [IdempotencyNext]_idemVars
               PROVE  IdempotencyInv'
    OBVIOUS
  <1>1. ASSUME NEW r \in Requests,
               ClaimFails(r) \/ Replay(r) \/ Panic(r) \/ FinishFails(r)
        PROVE  IdempotencyInv'
    BY <1>1, RequestLeaves DEF ClaimFails, Replay, Panic, FinishFails
  <1>2. CASE UNCHANGED idemVars
    BY <1>2 DEF idemVars, IdempotencyInv, IdempotencyTypeOK, RequestsAreFormed,
                ClaimsHaveTheirRow, HoldersHaveTheirRow, DoneOnce,
                ReplaysTheFirstAnswer
  <1> QED BY <1>1, <1>2, ArrivalKeepsInv, ClaimKeepsInv, HandleKeepsInv,
             CompleteKeepsInv, ReleaseKeepsInv, HangUpKeepsInv, CrashKeepsInv,
             TickKeepsInv DEF IdempotencyNext

THEOREM IdempotencyInvHolds == IdempotencySpec => []IdempotencyInv
  BY IdempotencyInitInv, IdempotencyNextInv, PTL DEF IdempotencySpec

(* Records, requests and claims keep their shape, for any number of keys    *)
(* and requests and any lifetime of a key: a completed record always has an *)
(* answer to replay, and never one of the 500s.                             *)
THEOREM IdempotencyTypeCorrect == IdempotencySpec => []IdempotencyTypeOK
  BY IdempotencyInvHolds, PTL DEF IdempotencyInv

(* While a key is remembered, the work behind it is done once: through      *)
(* crashes, panics, lost claims and answers that could not be stored, unless *)
(* a request that outlived its claim ended another's.                       *)
THEOREM WorkIsDoneOnce == IdempotencySpec => []DoneOnce
  BY IdempotencyInvHolds, PTL DEF IdempotencyInv

(* What a completed record replays is what the claim it stands for was      *)
(* answered, under that claim's fingerprint, with the same exception.       *)
THEOREM FirstAnswerIsReplayed == IdempotencySpec => []ReplaysTheFirstAnswer
  BY IdempotencyInvHolds, PTL DEF IdempotencyInv

(* A row whose time is not up is not free, whatever clock the claim read; and *)
(* whoever ends a claim that is not theirs to end, or a second time, overran. *)
LEMMA StoredAnswerStays ==
    ASSUME IdempotencyInv, IdempotencyNext, NEW k \in Keys,
           record[k].state = "completed", record[k].left > 0
    PROVE  record'[k].answer = record[k].answer \/ k \in overran'
  <1>1. /\ record \in [Keys -> RecordState] /\ record[k] \in RecordState
        /\ request \in [Requests -> RequestState]
    BY DEF IdempotencyInv, IdempotencyTypeOK
  <1>2. ASSUME NEW r \in Requests, Free(r)
        PROVE  request[r].key # k
    <2>1. request[r].lag \in 0..MaxLag /\ record[k].left \in Int
      BY <1>1, IdempotencyAssumption DEF RequestState, RecordState
    <2> QED BY <1>2, <2>1, IdempotencyAssumption DEF Free
  <1>3. ASSUME NEW r \in Requests, Claim(r) \/ ClaimUnacknowledged(r)
        PROVE  record'[k] = record[k]
    <2>1. request[r].key # k
      BY <1>2, <1>3 DEF Claim, ClaimUnacknowledged
    <2>2. record' = [record EXCEPT ![request[r].key] = Granted(r)]
      BY <1>3 DEF Claim, ClaimUnacknowledged
    <2> QED BY <1>1, <2>1, <2>2
  <1>4. ASSUME NEW r \in Requests, Complete(r) \/ Release(r)
        PROVE  record'[k] = record[k] \/ k \in overran'
    <2>1. request[r].pc = "finishing" /\ Ends(r)
      BY <1>4 DEF Complete, Release
    <2>2. CASE request[r].key # k
      BY <1>1, <1>4, <2>2 DEF Complete, Release
    <2>3. CASE request[r].key = k
      <3>1. ~(claim[k].holder = r /\ k \notin overran)
        BY <2>1, <2>3 DEF IdempotencyInv, HoldersHaveTheirRow
      <3> QED BY <2>1, <2>3, <3>1 DEF Ends
    <2> QED BY <2>2, <2>3
  <1>5. CASE Tick
    <2>1. record'[k] = [record[k] EXCEPT !.left = Max({-MaxLag, record[k].left - 1})]
      BY <1>5 DEF Tick
    <2> DEFINE x == Max({-MaxLag, record[k].left - 1})
    <2> HIDE DEF x
    <2>2. [record[k] EXCEPT !.left = x].answer = record[k].answer
      BY <1>1 DEF RecordState
    <2> QED BY <2>1, <2>2 DEF x
  <1>6. CASE record' = record
    BY <1>6
  <1> QED BY <1>3, <1>4, <1>5, <1>6
          DEF IdempotencyNext, Arrive, ClaimFails, Replay, Handle, Panic,
              FinishFails, HangUp, Crash

(* Until its key expires a stored answer is what every repeat is told: only a *)
(* request that outlived its own claim can replace it or give the key up.     *)
THEOREM StoredAnswersStand == IdempotencySpec => AnswerStands
  <1>1. IdempotencyInv /\ [IdempotencyNext]_idemVars =>
          [\A k \in Keys :
             record[k].state = "completed" /\ record[k].left > 0 =>
               record'[k].answer = record[k].answer \/ k \in overran']_idemVars
    BY StoredAnswerStays
  <1> QED BY <1>1, IdempotencyInvHolds, PTL DEF IdempotencySpec, AnswerStands

-----------------------------------------------------------------------------
(* Live. *)

LEMMA IdlePublisherFits ==
    /\ IdlePublisher \in PublisherState
    /\ IdlePublisher.pc = "idle" /\ IdlePublisher.left = {} /\ IdlePublisher.seen = 0
  BY LiveAssumption DEF IdlePublisher, PublisherState

LEMMA FreeStreamFits ==
    /\ FreeStream \in StreamState
    /\ FreeStream.pc = "free" /\ FreeStream.chan = <<>> /\ FreeStream.closes = 0
  BY DEF FreeStream, StreamState

LEMMA LostFits ==
    ASSUME NEW pg \in PageState
    PROVE  Lost(pg) \in PageState
  BY DEF Lost, PageState

LEMMA ReloadingFits ==
    ASSUME NEW pg \in PageState
    PROVE  Reloading(pg) \in PageState
  <1>1. pg.asks \in Int /\ pg.asks >= 0
    BY LiveAssumption DEF PageState
  <1>2. Min({MaxLoads, pg.asks + 1}) \in 0..MaxLoads
    BY <1>1, MinOfTwo, LiveAssumption
  <1>3. PICK n \in 0..MaxLoads : n = Min({MaxLoads, pg.asks + 1})
    BY <1>2
  <1>4. Reloading(pg) = [pg EXCEPT !.asks = n]
    BY <1>3 DEF Reloading
  <1> QED BY <1>4 DEF PageState

(* The page moves, and at most the count of faults with it. *)
LEMMA PageMoves ==
    ASSUME LiveInv, page' \in PageState, faults' \in 0..MaxFaults,
           UNCHANGED <<seats, publisher, stream, brokerVars, server, working, cut>>
    PROVE  LiveInv'
  BY DEF LiveInv, LiveTypeOK, PublishersAreFormed, StreamsAreFormed, DropsAreCounted,
         StopsInOrder, RequestsUnderWay, CleanEndIsClean, brokerVars

LEMMA PageStepKeepsInv ==
    ASSUME LiveInv,
           \/ OpenFails \/ Reconnect \/ Retry \/ TokenEnds \/ Poll
           \/ ReadSeats \/ ReadFails \/ ConnectionDrops
           \/ \E v \in page.answers : ShowSeats(v)
    PROVE  LiveInv'
  <1>0. page \in PageState /\ faults \in 0..MaxFaults /\ seats \in 0..MaxChanges
    BY DEF LiveInv, LiveTypeOK
  <1>1. CASE OpenFails
    BY <1>0, <1>1, LostFits, PageMoves DEF OpenFails, serverVars
  <1>2. CASE Reconnect
    <2>1. [page EXCEPT !.pc = "connecting"] \in PageState
      BY <1>0 DEF PageState
    <2> QED BY <1>0, <1>2, <2>1, PageMoves DEF Reconnect, serverVars
  <1>3. CASE Retry \/ TokenEnds
    <2>1. /\ [page EXCEPT !.aborted = TRUE] \in PageState
          /\ [page EXCEPT !.refused = TRUE] \in PageState
      BY <1>0 DEF PageState
    <2> QED BY <1>0, <1>3, <2>1, PageMoves DEF Retry, TokenEnds, serverVars
  <1>4. CASE Poll
    BY <1>0, <1>4, ReloadingFits, PageMoves DEF Poll, serverVars
  <1>5. CASE ReadSeats \/ ReadFails
    <2>1. PICK n \in 0..MaxLoads : n = page.asks - 1
      BY <1>0, <1>5, LiveAssumption DEF ReadSeats, ReadFails, PageState
    <2>2. PICK A \in SUBSET (0..MaxChanges) :
            A = IF ReadSeats THEN page.answers \cup {seats} ELSE page.answers
      BY <1>0 DEF PageState
    <2>3. page' = [page EXCEPT !.asks = n, !.answers = A]
      BY <1>0, <1>5, <2>1, <2>2 DEF ReadSeats, ReadFails, PageState
    <2>4. page' \in PageState
      BY <1>0, <2>3 DEF PageState
    <2> QED BY <1>0, <1>5, <2>4, PageMoves DEF ReadSeats, ReadFails, serverVars
  <1>6. CASE ConnectionDrops
    <2>1. faults' \in 0..MaxFaults
      BY <1>0, <1>6, LiveAssumption DEF ConnectionDrops
    <2> QED BY <1>0, <1>6, <2>1, LostFits, PageMoves DEF ConnectionDrops
  <1>7. ASSUME NEW v \in page.answers, ShowSeats(v)
        PROVE  LiveInv'
    <2>1. v \in 0..MaxChanges /\ page.answers \ {v} \in SUBSET (0..MaxChanges)
      BY <1>0 DEF PageState
    <2>2. [page EXCEPT !.view = v, !.answers = @ \ {v}] \in PageState
      BY <1>0, <2>1 DEF PageState
    <2> QED BY <1>0, <1>7, <2>2, PageMoves DEF ShowSeats, serverVars
  <1> QED BY <1>1, <1>2, <1>3, <1>4, <1>5, <1>6, <1>7

-----------------------------------------------------------------------------
(* A publisher that is under way takes a step; streams, if they change, only get *)
(* a notice, and what is counted grows.                                          *)
LEMMA PublisherMoves ==
    ASSUME LiveInv, NEW p \in Publishers, NEW q \in PublisherState,
           publisher[p].pc # "idle",
           publisher' = [publisher EXCEPT ![p] = q],
           q.pc \notin {"publishing", "counting"} => q.left = {},
           q.left \subseteq subscribers, q.seen <= thrown',
           dropped' \in Nat, thrown' \in Nat, thrown <= thrown', DropsAreCounted',
           stream' \in [Streams -> StreamState],
           \A s \in Streams :
             /\ stream'[s].pc = stream[s].pc /\ stream'[s].closes = stream[s].closes
             /\ Len(stream'[s].chan) <= SubscriberBuffer,
           UNCHANGED <<seats, page, subscribers, serverVars>>
    PROVE  LiveInv'
  <1>1. publisher'[p] = q /\ \A x \in Publishers \ {p} : publisher'[x] = publisher[x]
    BY DEF LiveInv, LiveTypeOK
  <1>2. LiveTypeOK'
    BY DEF LiveInv, LiveTypeOK, serverVars
  <1>3. PublishersAreFormed'
    <2>1. ASSUME NEW x \in Publishers, x # p
          PROVE  publisher[x].seen \in Nat /\ publisher[x].seen <= thrown'
      BY DEF LiveInv, LiveTypeOK, PublisherState, PublishersAreFormed
    <2> QED BY <1>1, <2>1 DEF LiveInv, PublishersAreFormed
  <1>4. StreamsAreFormed'
    BY DEF LiveInv, StreamsAreFormed
  <1>5. StopsInOrder' /\ CleanEndIsClean'
    <2>1. RequestsUnderWay
      BY DEF RequestsUnderWay
    <2>2. UNCHANGED <<server, working, cut>>
      BY DEF serverVars
    <2> QED BY <2>1, <2>2 DEF LiveInv, StopsInOrder, CleanEndIsClean
  <1> QED BY <1>2, <1>3, <1>4, <1>5 DEF LiveInv

LEMMA PublishKeepsInv ==
    ASSUME LiveInv, NEW p \in Publishers, Publish(p) \/ PublishEnds(p)
    PROVE  LiveInv'
  <1>1. /\ publisher[p] \in PublisherState /\ publisher[p].seen <= thrown
        /\ dropped \in Nat /\ thrown \in Nat /\ thrown <= thrown
        /\ stream \in [Streams -> StreamState]
        /\ \A s \in Streams : Len(stream[s].chan) <= SubscriberBuffer
        /\ subscribers \in SUBSET Streams /\ DropsAreCounted
    BY DEF LiveInv, LiveTypeOK, PublishersAreFormed
  <1>2. UNCHANGED <<seats, stream, page, subscribers, dropped, thrown, serverVars>>
    BY DEF Publish, PublishEnds, brokerVars
  <1>3. DropsAreCounted'
    BY <1>1, <1>2 DEF DropsAreCounted
  <1>4. CASE Publish(p)
    <2> DEFINE q == [publisher[p] EXCEPT !.pc = "publishing", !.left = subscribers]
    <2>1. q \in PublisherState /\ q.pc = "publishing" /\ q.left = subscribers
          /\ q.seen = publisher[p].seen
      BY <1>1 DEF PublisherState
    <2>2. publisher' = [publisher EXCEPT ![p] = q] /\ publisher[p].pc # "idle"
      BY <1>4 DEF Publish, LiveInv, LiveTypeOK
    <2> HIDE DEF q
    <2> QED BY <1>1, <1>2, <1>3, <2>1, <2>2, PublisherMoves
  <1>5. CASE PublishEnds(p)
    <2>1. 0 <= thrown
      BY <1>1
    <2> QED BY <1>1, <1>2, <1>3, <1>5, <2>1, IdlePublisherFits, PublisherMoves
            DEF PublishEnds
  <1> QED BY <1>4, <1>5

LEMMA CountKeepsInv ==
    ASSUME LiveInv, NEW p \in Publishers, Count(p)
    PROVE  LiveInv'
  <1>1. /\ publisher[p] \in PublisherState /\ publisher[p].seen <= thrown
        /\ publisher[p].left \subseteq subscribers
        /\ dropped \in Nat /\ thrown \in Nat
        /\ stream \in [Streams -> StreamState]
        /\ \A s \in Streams : Len(stream[s].chan) <= SubscriberBuffer
    BY DEF LiveInv, LiveTypeOK, PublishersAreFormed
  <1>2. publisher[p].seen \in Nat
    BY <1>1 DEF PublisherState
  <1> DEFINE q == [publisher[p] EXCEPT !.pc = "publishing", !.seen = 0]
  <1>3. q \in PublisherState /\ q.pc = "publishing" /\ q.left = publisher[p].left
        /\ q.seen = 0
    BY <1>1 DEF PublisherState
  <1>4. /\ publisher' = [publisher EXCEPT ![p] = q] /\ publisher[p].pc # "idle"
        /\ dropped' = publisher[p].seen + 1 /\ thrown' = thrown + 1
        /\ UNCHANGED <<seats, subscribers, stream, page, serverVars>>
    BY DEF Count, LiveInv, LiveTypeOK
  <1> HIDE DEF q
  <1>5. dropped' \in Nat /\ thrown' \in Nat /\ thrown <= thrown' /\ 0 <= thrown'
        /\ dropped' <= thrown' /\ dropped' > 0
    BY <1>1, <1>2, <1>4
  <1>6. DropsAreCounted'
    BY <1>5 DEF DropsAreCounted
  <1> QED BY <1>1, <1>3, <1>4, <1>5, <1>6, PublisherMoves

LEMMA PublishToKeepsInv ==
    ASSUME LiveInv, NEW p \in Publishers, NEW s \in Streams, PublishTo(p, s)
    PROVE  LiveInv'
  <1>1. /\ publisher[p] \in PublisherState /\ publisher[p].seen <= thrown
        /\ publisher[p].left \subseteq subscribers
        /\ dropped \in Nat /\ thrown \in Nat /\ thrown <= thrown /\ dropped <= thrown
        /\ stream \in [Streams -> StreamState]
        /\ \A x \in Streams : Len(stream[x].chan) <= SubscriberBuffer
    BY DEF LiveInv, LiveTypeOK, PublishersAreFormed, DropsAreCounted
  <1>2. UNCHANGED <<seats, page, subscribers, dropped, thrown, serverVars>>
        /\ publisher[p].pc = "publishing"
    BY DEF PublishTo, brokerVars
  <1>3. DropsAreCounted'
    BY <1>2 DEF LiveInv, DropsAreCounted
  <1>4. CASE publisher' = [publisher EXCEPT ![p].left = @ \ {s}, ![p].pc = "counting",
                                            ![p].seen = dropped] /\ stream' = stream
    <2> DEFINE q == [publisher[p] EXCEPT !.left = @ \ {s}, !.pc = "counting",
                                         !.seen = dropped]
    <2>1. q \in PublisherState /\ q.pc = "counting" /\ q.left = publisher[p].left \ {s}
          /\ q.seen = dropped
      BY <1>1 DEF PublisherState
    <2>2. publisher' = [publisher EXCEPT ![p] = q]
      BY <1>4 DEF LiveInv, LiveTypeOK
    <2> HIDE DEF q
    <2> QED BY <1>1, <1>2, <1>3, <1>4, <2>1, <2>2, PublisherMoves
  <1>5. CASE publisher' = [publisher EXCEPT ![p].left = @ \ {s}]
    <2> DEFINE q == [publisher[p] EXCEPT !.left = @ \ {s}]
    <2>1. q \in PublisherState /\ q.pc = "publishing" /\ q.left = publisher[p].left \ {s}
          /\ q.seen = publisher[p].seen
      BY <1>1, <1>2 DEF PublisherState
    <2>2. publisher' = [publisher EXCEPT ![p] = q]
      BY <1>5 DEF LiveInv, LiveTypeOK
    <2> HIDE DEF q
    <2>3. CASE stream' = stream
      BY <1>1, <1>2, <1>3, <2>1, <2>2, <2>3, PublisherMoves
    <2>4. CASE /\ stream' = [stream EXCEPT ![s].chan = Append(@, publisher[p].to)]
               /\ Wants(publisher[p].to) /\ Len(stream[s].chan) < SubscriberBuffer
      <3> DEFINE c == Append(stream[s].chan, publisher[p].to)
                 z == [stream[s] EXCEPT !.chan = c]
      <3>1. stream[s] \in StreamState /\ publisher[p].to \in {Everyone, Viewer}
        BY <1>1, <2>4 DEF Wants
      <3>2. c \in Seq({Everyone, Viewer}) /\ Len(c) <= SubscriberBuffer
        BY <3>1, <2>4, LiveAssumption DEF StreamState
      <3> HIDE DEF c
      <3>3. z \in StreamState /\ z.pc = stream[s].pc /\ z.closes = stream[s].closes
            /\ z.chan = c
        BY <3>1, <3>2 DEF StreamState
      <3>4. stream' = [stream EXCEPT ![s] = z]
        BY <2>4 DEF c
      <3> HIDE DEF z
      <3>5. /\ stream' \in [Streams -> StreamState]
            /\ \A x \in Streams :
                 /\ stream'[x].pc = stream[x].pc /\ stream'[x].closes = stream[x].closes
                 /\ Len(stream'[x].chan) <= SubscriberBuffer
        BY <1>1, <3>2, <3>3, <3>4
      <3> QED BY <1>1, <1>2, <1>3, <2>1, <2>2, <3>5, PublisherMoves
    <2> QED BY <1>5, <2>3, <2>4 DEF PublishTo
  <1> QED BY <1>4, <1>5 DEF PublishTo

(* A request comes only while the server runs. *)
LEMMA ChangeKeepsInv ==
    ASSUME LiveInv, NEW p \in Publishers, NEW to \in Addressees, Change(p, to)
    PROVE  LiveInv'
  <1> DEFINE q == [IdlePublisher EXCEPT !.pc = "announcing", !.to = to]
  <1>1. q \in PublisherState /\ q.pc = "announcing" /\ q.left = {} /\ q.seen = 0
    BY IdlePublisherFits DEF PublisherState, IdlePublisher
  <1>2. /\ publisher' = [publisher EXCEPT ![p] = q] /\ server.life = "running"
        /\ seats' = seats + 1 /\ seats < MaxChanges
        /\ UNCHANGED <<stream, page, subscribers, dropped, thrown, server, working, faults, cut>>
    BY DEF Change, brokerVars, serverVars
  <1> HIDE DEF q
  <1>3. seats' \in 0..MaxChanges
    BY <1>2, LiveAssumption DEF LiveInv, LiveTypeOK
  <1>4. LiveTypeOK'
    BY <1>1, <1>2, <1>3 DEF LiveInv, LiveTypeOK
  <1>5. publisher'[p] = q /\ \A x \in Publishers \ {p} : publisher'[x] = publisher[x]
    BY <1>2 DEF LiveInv, LiveTypeOK
  <1>6. PublishersAreFormed'
    <2>1. 0 <= thrown
      BY DEF LiveInv, LiveTypeOK
    <2> QED BY <1>1, <1>2, <1>5, <2>1 DEF LiveInv, PublishersAreFormed
  <1>7. StreamsAreFormed' /\ DropsAreCounted'
    BY <1>2 DEF LiveInv, StreamsAreFormed, DropsAreCounted
  <1>8. StopsInOrder' /\ CleanEndIsClean'
    BY <1>2 DEF StopsInOrder, CleanEndIsClean
  <1> QED BY <1>4, <1>6, <1>7, <1>8 DEF LiveInv

(* One stream takes a step.  It is under way already, or the server still runs; its *)
(* channel is open while it is, or is about to be, a watcher.                       *)
LEMMA StreamMoves ==
    ASSUME LiveInv, NEW s \in Streams, NEW z \in StreamState,
           stream' = [stream EXCEPT ![s] = z],
           Len(z.chan) <= SubscriberBuffer,
           stream[s].pc # "free" \/ server.life = "running",
           page' \in PageState,
           subscribers' \subseteq subscribers \cup {s},
           subscribers' = subscribers
             \/ (NobodyPublishes /\ subscribers \subseteq subscribers' \cup {s}),
           s \in subscribers' => z.pc \in {"watching", "leaving"},
           s \in subscribers' \/ z.pc = "accepted" => z.closes = 0,
           z.closes <= 1,
           UNCHANGED <<seats, publisher, dropped, thrown, serverVars>>
    PROVE  LiveInv'
  <1>1. stream'[s] = z /\ \A x \in Streams \ {s} : stream'[x] = stream[x]
    BY DEF LiveInv, LiveTypeOK
  <1>2. LiveTypeOK'
    <2>1. stream' \in [Streams -> StreamState]
      BY DEF LiveInv, LiveTypeOK
    <2>2. subscribers' \subseteq {x \in Streams : stream'[x].pc \in {"watching", "leaving"}}
      BY <1>1 DEF LiveInv, LiveTypeOK
    <2>3. \A x \in Streams : Len(stream'[x].chan) <= SubscriberBuffer
      BY <1>1 DEF LiveInv, LiveTypeOK
    <2> QED BY <2>1, <2>2, <2>3 DEF LiveInv, LiveTypeOK, serverVars
  <1>3. PublishersAreFormed'
    <2>1. CASE subscribers' = subscribers
      BY <2>1 DEF LiveInv, PublishersAreFormed
    <2>2. CASE NobodyPublishes
      <3>1. \A p \in Publishers : publisher[p].left = {}
        BY <2>2 DEF LiveInv, PublishersAreFormed, NobodyPublishes
      <3> QED BY <3>1 DEF LiveInv, PublishersAreFormed
    <2> QED BY <2>1, <2>2
  <1>4. StreamsAreFormed'
    BY <1>1 DEF LiveInv, StreamsAreFormed
  <1>5. DropsAreCounted'
    BY DEF LiveInv, DropsAreCounted
  <1>6. StopsInOrder' /\ CleanEndIsClean'
    <2>1. RequestsUnderWay \/ server.life = "running"
      BY DEF RequestsUnderWay
    <2>2. UNCHANGED <<server, working, cut>>
      BY DEF serverVars
    <2> QED BY <2>1, <2>2 DEF LiveInv, StopsInOrder, CleanEndIsClean
  <1> QED BY <1>2, <1>3, <1>4, <1>5, <1>6 DEF LiveInv

LEMMA OpenStreamKeepsInv ==
    ASSUME LiveInv, NEW s \in Streams, OpenStream(s)
    PROVE  LiveInv'
  <1> DEFINE z == [FreeStream EXCEPT !.pc = "accepted"]
             pg == Reloading(page)
  <1>1. z \in StreamState /\ z.pc = "accepted" /\ z.chan = <<>> /\ z.closes = 0
    BY FreeStreamFits DEF StreamState, FreeStream
  <1>2. pg \in PageState
    BY ReloadingFits DEF LiveInv, LiveTypeOK
  <1>3. page' = [pg EXCEPT !.pc = "open", !.stream = s, !.stale = FALSE]
    BY DEF OpenStream
  <1> HIDE DEF pg
  <1>4. page' \in PageState
    BY <1>2, <1>3 DEF PageState
  <1>5. /\ stream' = [stream EXCEPT ![s] = z] /\ server.life = "running"
        /\ UNCHANGED <<seats, publisher, subscribers, dropped, thrown, serverVars>>
        /\ stream[s].pc = "free"
    BY DEF OpenStream, brokerVars
  <1> HIDE DEF z
  <1>6. s \notin subscribers
    BY <1>5 DEF LiveInv, LiveTypeOK
  <1>7. Len(z.chan) <= SubscriberBuffer /\ z.closes <= 1
    BY <1>1, LiveAssumption
  <1> QED BY <1>1, <1>4, <1>5, <1>6, <1>7, StreamMoves

LEMMA StreamStepKeepsInv ==
    ASSUME LiveInv, NEW s \in Streams, StreamStep(s)
    PROVE  LiveInv'
  <1>1. /\ stream[s] \in StreamState /\ Len(stream[s].chan) <= SubscriberBuffer
        /\ page \in PageState /\ stream[s].closes <= 1
        /\ (s \in subscribers \/ stream[s].pc = "accepted" => stream[s].closes = 0)
    BY DEF LiveInv, LiveTypeOK, StreamsAreFormed
  <1>2. /\ UNCHANGED <<seats, publisher, dropped, thrown, serverVars>>
        /\ stream[s].pc # "free"
    BY DEF StreamStep, Subscribe, SendNotice, StreamEnds, Unsubscribe, brokerVars
  <1>3. CASE Subscribe(s)
    <2> DEFINE z == [stream[s] EXCEPT !.pc = "watching"]
    <2>1. z \in StreamState /\ z.pc = "watching" /\ z.chan = stream[s].chan
          /\ z.closes = stream[s].closes
      BY <1>1 DEF StreamState
    <2>2. /\ stream' = [stream EXCEPT ![s] = z] /\ subscribers' = subscribers \cup {s}
          /\ page' = page /\ NobodyPublishes /\ stream[s].pc = "accepted"
      BY <1>3 DEF Subscribe
    <2> HIDE DEF z
    <2> QED BY <1>1, <1>2, <2>1, <2>2, StreamMoves
  <1>4. CASE SendNotice(s)
    <2> DEFINE c == Tail(stream[s].chan)
               z == [stream[s] EXCEPT !.chan = c]
    <2>1. c \in Seq({Everyone, Viewer}) /\ Len(c) <= SubscriberBuffer
      BY <1>1, <1>4, LiveAssumption DEF SendNotice, StreamState
    <2> HIDE DEF c
    <2>2. z \in StreamState /\ z.pc = stream[s].pc /\ z.chan = c
          /\ z.closes = stream[s].closes
      BY <1>1, <2>1 DEF StreamState
    <2>3. /\ stream' = [stream EXCEPT ![s] = z] /\ subscribers' = subscribers
          /\ stream[s].pc = "watching"
      BY <1>4 DEF SendNotice, brokerVars, c
    <2>4. page' \in PageState
      BY <1>1, <1>4, ReloadingFits DEF SendNotice
    <2> HIDE DEF z
    <2> QED BY <1>1, <1>2, <2>1, <2>2, <2>3, <2>4, StreamMoves
  <1>5. CASE StreamEnds(s)
    <2> DEFINE z == [stream[s] EXCEPT !.pc = "leaving"]
    <2>1. z \in StreamState /\ z.pc = "leaving" /\ z.chan = stream[s].chan
          /\ z.closes = stream[s].closes
      BY <1>1 DEF StreamState
    <2>2. /\ stream' = [stream EXCEPT ![s] = z] /\ subscribers' = subscribers
          /\ stream[s].pc = "watching"
      BY <1>5 DEF StreamEnds, brokerVars
    <2>3. page' \in PageState
      BY <1>1, <1>5, LostFits DEF StreamEnds
    <2> HIDE DEF z
    <2> QED BY <1>1, <1>2, <2>1, <2>2, <2>3, StreamMoves
  <1>6. CASE Unsubscribe(s)
    <2>1. PICK n \in Nat :
            n = (IF s \in subscribers THEN stream[s].closes + 1 ELSE stream[s].closes)
            /\ n <= 1
      BY <1>1 DEF StreamState
    <2> DEFINE z == [stream[s] EXCEPT !.pc = "free", !.chan = <<>>, !.closes = n]
    <2>2. z \in StreamState /\ z.pc = "free" /\ z.chan = <<>> /\ z.closes = n
      <3> DEFINE none == <<>>
      <3>1. none \in Seq({Everyone, Viewer})
        OBVIOUS
      <3> HIDE DEF none
      <3>2. LET y == [stream[s] EXCEPT !.pc = "free", !.chan = none, !.closes = n]
            IN y \in StreamState /\ y.pc = "free" /\ y.chan = none /\ y.closes = n
        BY <1>1, <3>1 DEF StreamState
      <3> QED BY <3>2 DEF none
    <2>3. /\ stream' = [stream EXCEPT ![s] = z] /\ subscribers' = subscribers \ {s}
          /\ page' = page /\ NobodyPublishes
      BY <1>6, <2>1 DEF Unsubscribe, LiveInv, LiveTypeOK, StreamState
    <2> HIDE DEF z
    <2>4. Len(z.chan) <= SubscriberBuffer
      BY <2>2, LiveAssumption
    <2> QED BY <1>1, <1>2, <2>1, <2>2, <2>3, <2>4, StreamMoves
  <1> QED BY <1>3, <1>4, <1>5, <1>6 DEF StreamStep

-----------------------------------------------------------------------------
(* The server goes on towards its end; nothing else moves but the workers. *)
LEMMA ServerMoves ==
    ASSUME LiveInv,
           server' \in [life : {"running", "stopping", "awaiting", "closing", "closed",
                                "exited"}, clean : BOOLEAN],
           working' \subseteq Workers, faults' \in 0..MaxFaults, cut' \in BOOLEAN,
           server'.clean =>
             /\ server'.life \in {"awaiting", "closing", "closed"} => ~RequestsUnderWay
             /\ server'.life \in {"closing", "closed"} => working' = {}
             /\ server'.life = "exited" => ~cut',
           UNCHANGED <<seats, publisher, stream, page, brokerVars>>
    PROVE  LiveInv'
  <1>1. RequestsUnderWay' = RequestsUnderWay
    BY DEF RequestsUnderWay
  <1>2. StopsInOrder' /\ CleanEndIsClean'
    BY <1>1 DEF StopsInOrder, CleanEndIsClean
  <1>3. LiveTypeOK' /\ PublishersAreFormed' /\ StreamsAreFormed' /\ DropsAreCounted'
    BY DEF LiveInv, LiveTypeOK, PublishersAreFormed, StreamsAreFormed, DropsAreCounted,
           brokerVars
  <1> QED BY <1>2, <1>3 DEF LiveInv

LEMMA StoppingKeepsInv ==
    ASSUME LiveInv,
           \/ Signal \/ ShutdownDone \/ ShutdownTimesOut \/ AwaitWorkers \/ Restart
           \/ \E w \in Workers : WorkerStops(w)
    PROVE  LiveInv'
  <1> DEFINE Server == [life : {"running", "stopping", "awaiting", "closing", "closed",
                                "exited"}, clean : BOOLEAN]
  <1>1. /\ server \in Server /\ working \subseteq Workers /\ faults \in 0..MaxFaults
        /\ cut \in BOOLEAN /\ StopsInOrder /\ CleanEndIsClean
    BY DEF LiveInv, LiveTypeOK
  <1>2. CASE Signal
    <2>1. /\ server' \in Server /\ server'.life = "stopping"
          /\ faults' \in 0..MaxFaults
          /\ UNCHANGED <<seats, publisher, stream, page, brokerVars, working, cut>>
      BY <1>1, <1>2, LiveAssumption DEF Signal
    <2> QED BY <1>1, <2>1, ServerMoves
  <1>3. CASE ShutdownDone
    <2>1. /\ server' \in Server /\ server'.life = "awaiting" /\ ~RequestsUnderWay
          /\ UNCHANGED <<seats, publisher, stream, page, brokerVars, working, faults, cut>>
      BY <1>1, <1>3 DEF ShutdownDone
    <2> QED BY <1>1, <2>1, ServerMoves
  <1>4. CASE ShutdownTimesOut
    <2>1. /\ server' \in Server /\ ~server'.clean
          /\ UNCHANGED <<seats, publisher, stream, page, brokerVars, working, faults, cut>>
      BY <1>1, <1>4 DEF ShutdownTimesOut
    <2> QED BY <1>1, <2>1, ServerMoves
  <1>5. CASE AwaitWorkers
    <2>1. /\ server' \in Server /\ server'.life = "closing" /\ server'.clean = server.clean
          /\ working = {} /\ server.life = "awaiting"
          /\ UNCHANGED <<seats, publisher, stream, page, brokerVars, working, faults, cut>>
      BY <1>1, <1>5 DEF AwaitWorkers
    <2>2. server'.clean => ~RequestsUnderWay
      BY <1>1, <2>1 DEF StopsInOrder
    <2> QED BY <1>1, <2>1, <2>2, ServerMoves
  <1>6. CASE Restart
    <2>1. /\ server' \in Server /\ server'.life = "running" /\ working' = Workers
          /\ cut' \in BOOLEAN
          /\ UNCHANGED <<seats, publisher, stream, page, brokerVars, faults>>
      BY <1>1, <1>6 DEF Restart
    <2> QED BY <1>1, <2>1, ServerMoves
  <1>7. ASSUME NEW w \in Workers, WorkerStops(w)
        PROVE  LiveInv'
    <2>1. /\ working' = working \ {w}
          /\ UNCHANGED <<seats, publisher, stream, page, brokerVars, server, faults, cut>>
      BY <1>7 DEF WorkerStops
    <2>2. server'.clean =>
             /\ server'.life \in {"awaiting", "closing", "closed"} => ~RequestsUnderWay
             /\ server'.life \in {"closing", "closed"} => working' = {}
             /\ server'.life = "exited" => ~cut'
      BY <1>1, <2>1 DEF StopsInOrder, CleanEndIsClean
    <2> QED BY <1>1, <2>1, <2>2, ServerMoves
  <1> QED BY <1>2, <1>3, <1>4, <1>5, <1>6, <1>7

(* Close closes what is open, once. *)
LEMMA CloseKeepsInv ==
    ASSUME LiveInv, Close
    PROVE  LiveInv'
  <1>1. ASSUME NEW s \in Streams
        PROVE  /\ stream'[s] \in StreamState /\ stream'[s].pc = stream[s].pc
               /\ stream'[s].chan = stream[s].chan /\ stream'[s].closes <= 1
               /\ s \notin subscribers => stream'[s] = stream[s]
    <2>1. /\ stream[s] \in StreamState /\ stream[s].closes <= 1
          /\ s \in subscribers => stream[s].closes = 0
      BY DEF LiveInv, LiveTypeOK, StreamsAreFormed
    <2>2. CASE s \in subscribers
      <3>1. stream'[s] = [stream[s] EXCEPT !.closes = 1]
        BY <2>1, <2>2 DEF Close
      <3> QED BY <2>1, <2>2, <3>1 DEF StreamState
    <2>3. CASE s \notin subscribers
      <3>1. stream'[s] = stream[s]
        BY <2>3 DEF Close
      <3> QED BY <2>1, <3>1
    <2> QED BY <2>2, <2>3
  <1>2. /\ subscribers' = {} /\ NobodyPublishes
        /\ server' = [server EXCEPT !.life = "closed"] /\ server.life = "closing"
        /\ UNCHANGED <<seats, publisher, dropped, thrown, page, working, faults, cut>>
    BY DEF Close
  <1>3. /\ server' \in [life : {"running", "stopping", "awaiting", "closing", "closed",
                                "exited"}, clean : BOOLEAN]
        /\ server'.clean = server.clean /\ server'.life = "closed"
    BY <1>2 DEF LiveInv, LiveTypeOK
  <1>4. LiveTypeOK'
    <2>1. stream' \in [Streams -> StreamState]
      BY <1>1 DEF Close
    <2>2. \A s \in Streams : Len(stream'[s].chan) <= SubscriberBuffer
      BY <1>1 DEF LiveInv, LiveTypeOK
    <2> QED BY <1>2, <1>3, <2>1, <2>2 DEF LiveInv, LiveTypeOK
  <1>5. PublishersAreFormed'
    BY <1>2 DEF LiveInv, PublishersAreFormed, NobodyPublishes
  <1>6. StreamsAreFormed'
    <2>1. \A s \in Streams : stream[s].pc = "accepted" => s \notin subscribers
      BY DEF LiveInv, LiveTypeOK
    <2> QED BY <1>1, <1>2, <2>1 DEF LiveInv, StreamsAreFormed
  <1>7. DropsAreCounted'
    BY <1>2 DEF LiveInv, DropsAreCounted
  <1>8. RequestsUnderWay' = RequestsUnderWay
    BY <1>1, <1>2 DEF RequestsUnderWay
  <1>9. StopsInOrder' /\ CleanEndIsClean'
    BY <1>2, <1>3, <1>8 DEF LiveInv, StopsInOrder, CleanEndIsClean
  <1> QED BY <1>4, <1>5, <1>6, <1>7, <1>9 DEF LiveInv

(* Whatever is still there when the process ends is cut short. *)
LEMMA ExitKeepsInv ==
    ASSUME LiveInv, Exit
    PROVE  LiveInv'
  <1>1. /\ server.life = "closed" /\ server' = [server EXCEPT !.life = "exited"]
        /\ cut' = (working # {} \/ RequestsUnderWay) /\ working' = {}
        /\ publisher' = [p \in Publishers |-> IdlePublisher]
        /\ stream' = [s \in Streams |-> FreeStream]
        /\ subscribers' = {} /\ dropped' = 0 /\ thrown' = 0
        /\ page' = (IF page.pc = "open" THEN Lost(page) ELSE page)
        /\ UNCHANGED <<seats, faults>>
    BY DEF Exit
  <1>2. /\ server' \in [life : {"running", "stopping", "awaiting", "closing", "closed",
                                "exited"}, clean : BOOLEAN]
        /\ server'.clean = server.clean /\ server'.life = "exited"
    BY <1>1 DEF LiveInv, LiveTypeOK
  <1>3. cut' \in BOOLEAN
    BY <1>1, (working # {} \/ RequestsUnderWay) \in BOOLEAN, Zenon
  <1>4. page' \in PageState
    BY <1>1, LostFits DEF LiveInv, LiveTypeOK
  <1>5. /\ publisher' \in [Publishers -> PublisherState]
        /\ \A p \in Publishers : publisher'[p].left = {} /\ publisher'[p].seen = 0
    BY <1>1, IdlePublisherFits
  <1>6. /\ stream' \in [Streams -> StreamState]
        /\ \A s \in Streams : stream'[s].closes = 0 /\ Len(stream'[s].chan) = 0
    BY <1>1, FreeStreamFits
  <1>7. LiveTypeOK'
    BY <1>1, <1>2, <1>3, <1>4, <1>5, <1>6, LiveAssumption DEF LiveInv, LiveTypeOK
  <1>8. PublishersAreFormed' /\ StreamsAreFormed' /\ DropsAreCounted'
    BY <1>1, <1>5, <1>6 DEF PublishersAreFormed, StreamsAreFormed, DropsAreCounted
  <1>9. server.clean => ~cut'
    BY <1>1 DEF LiveInv, StopsInOrder
  <1>10. StopsInOrder' /\ CleanEndIsClean'
    BY <1>2, <1>9 DEF StopsInOrder, CleanEndIsClean
  <1> QED BY <1>7, <1>8, <1>10 DEF LiveInv

-----------------------------------------------------------------------------
LEMMA LiveInitInv == LiveInit => LiveInv
  <1> SUFFICES ASSUME LiveInit
               PROVE  LiveInv
    OBVIOUS
  <1>1. LiveTypeOK
    <2>1. page \in PageState /\ seats \in 0..MaxChanges /\ faults \in 0..MaxFaults
      BY LiveAssumption DEF LiveInit, PageState
    <2>2. /\ stream \in [Streams -> StreamState]
          /\ \A s \in Streams : Len(stream[s].chan) <= SubscriberBuffer
      BY FreeStreamFits, LiveAssumption DEF LiveInit
    <2>3. publisher \in [Publishers -> PublisherState] /\ dropped \in Nat /\ thrown \in Nat
      BY IdlePublisherFits DEF LiveInit
    <2>4. /\ server \in [life : {"running", "stopping", "awaiting", "closing", "closed",
                                 "exited"}, clean : BOOLEAN]
          /\ cut \in BOOLEAN
      BY DEF LiveInit
    <2> QED BY <2>1, <2>2, <2>3, <2>4 DEF LiveInit, LiveTypeOK
  <1>2. PublishersAreFormed /\ StreamsAreFormed /\ DropsAreCounted
    BY IdlePublisherFits, FreeStreamFits
       DEF LiveInit, PublishersAreFormed, StreamsAreFormed, DropsAreCounted
  <1>3. StopsInOrder /\ CleanEndIsClean
    BY DEF LiveInit, StopsInOrder, CleanEndIsClean
  <1> QED BY <1>1, <1>2, <1>3 DEF LiveInv

LEMMA LiveNextInv ==
    ASSUME LiveInv, [LiveNext]_liveVars
    PROVE  LiveInv'
  <1>1. CASE UNCHANGED liveVars
    <2>1. page' \in PageState /\ faults' \in 0..MaxFaults
      BY <1>1 DEF liveVars, serverVars, LiveInv, LiveTypeOK
    <2> QED BY <1>1, <2>1, PageMoves DEF liveVars, serverVars
  <1>2. CASE \E p \in Publishers : PublisherStep(p)
    BY <1>2, PublishKeepsInv, CountKeepsInv, PublishToKeepsInv DEF PublisherStep
  <1>3. CASE ServerStep
    BY <1>3, StoppingKeepsInv, CloseKeepsInv, ExitKeepsInv DEF ServerStep
  <1>4. CASE PageConnects
    BY <1>4, PageStepKeepsInv, OpenStreamKeepsInv DEF PageConnects, GetsStream
  <1> QED BY <1>1, <1>2, <1>3, <1>4, ChangeKeepsInv, StreamStepKeepsInv, PageStepKeepsInv,
             StoppingKeepsInv DEF LiveNext, AnswerArrives

(* The parts of the invariant hold together in every state of publishers, streams, *)
(* the page and the server.                                                        *)
THEOREM LiveInvHolds == LiveSpec => []LiveInv
  <1>1. LiveInv /\ [LiveNext]_liveVars => LiveInv'
    BY LiveNextInv
  <1> QED BY <1>1, LiveInitInv, PTL DEF LiveSpec

(* Every variable keeps its shape: a channel holds no more than its buffer and only *)
(* notices for its viewer, and only streams under way are watchers.                 *)
THEOREM LiveTypeCorrect == LiveSpec => []LiveTypeOK
  <1>1. LiveInv => LiveTypeOK
    BY DEF LiveInv
  <1> QED BY <1>1, LiveInvHolds, PTL

(* Unsubscribe and the broker's Close never close a channel twice, and Publish never *)
(* sends on a closed one: the read lock keeps its watchers, and Unsubscribe asks     *)
(* whether it is still one.                                                          *)
THEOREM TheBrokerNeverPanics == LiveSpec => []BrokerNeverPanics
  <1>1. LiveInv => BrokerNeverPanics
    BY DEF LiveInv, LiveTypeOK, PublishersAreFormed, StreamsAreFormed, BrokerNeverPanics,
           PublisherState
  <1> QED BY <1>1, LiveInvHolds, PTL

(* The drops the broker counts happened, and of any that happened it counts one, *)
(* however publishers race on dropped++ under the read lock.                     *)
THEOREM DropsAreAlwaysCounted == LiveSpec => []DropsAreCounted
  <1>1. LiveInv => DropsAreCounted
    BY DEF LiveInv
  <1> QED BY <1>1, LiveInvHolds, PTL

(* When run returns without an error, Shutdown had waited for every request and run *)
(* for every worker: nothing is cut short.                                          *)
THEOREM CleanEndsAreClean == LiveSpec => []CleanEndIsClean
  <1>1. LiveInv => CleanEndIsClean
    BY DEF LiveInv
  <1> QED BY <1>1, LiveInvHolds, PTL

=============================================================================
