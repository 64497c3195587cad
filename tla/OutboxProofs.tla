----------------------------- MODULE OutboxProofs -----------------------------
(***************************************************************************)
(* Proof that the outbox keeps DeliveryPromise: for any number of notices, *)
(* workers and endpoints, any maximum of attempts, any lease and any       *)
(* number of crashes, nothing is recorded as sent that did not go out or   *)
(* had nowhere to go, and nothing is given up before its attempts were     *)
(* made.  No fact about due times is used there: the promise holds however *)
(* late or early a row is tried.                                           *)
(*                                                                         *)
(* The second part proves type correctness, which does speak of due times. *)
(* They are bounded by the longest wait RetryBackoff can return, and that  *)
(* RetryBackoff returns a wait at all is an induction over its argument,   *)
(* made here with sets of numbers (SetInduction) and the least element     *)
(* each of them has.                                                       *)
(***************************************************************************)
EXTENDS Outbox, TLAPS, WellFoundedInduction

(* Rescheduling changes nothing but the due time. *)
LEMMA DueFits ==
    ASSUME NEW row, NEW x, IsRow(row)
    PROVE  /\ IsRow([row EXCEPT !.due = x])
           /\ [row EXCEPT !.due = x].attempts = row.attempts
           /\ [row EXCEPT !.due = x].state = row.state
  BY DEF IsRow

LEMMA LaterFits ==
    ASSUME NEW row, IsRow(row)
    PROVE  /\ IsRow(Later(row))
           /\ Later(row).attempts = row.attempts /\ Later(row).state = row.state
  <1>1. CASE row.state = "owed"
    <2> DEFINE x == Max({row.due - 1, -MaxLag})
    <2>1. Later(row) = [row EXCEPT !.due = x]
      BY <1>1 DEF Later
    <2>2. /\ IsRow([row EXCEPT !.due = x])
          /\ [row EXCEPT !.due = x].attempts = row.attempts
          /\ [row EXCEPT !.due = x].state = row.state
      <3> HIDE DEF x
      <3> QED BY DueFits
    <2> QED BY <2>1, <2>2
  <1>2. CASE row.state # "owed"
    BY <1>2 DEF Later
  <1> QED BY <1>1, <1>2

LEMMA NoDeliveryFits ==
    /\ IsRow(NoDelivery) /\ NoDelivery.attempts = 0 /\ NoDelivery.state = "absent"
    /\ IsRow(NewDelivery) /\ NewDelivery.attempts = 0 /\ NewDelivery.state = "owed"
  BY OutboxAssumption DEF IsRow, NoDelivery, NewDelivery

(* The three outcomes of an attempt on a row that has one left. *)
LEMMA OutcomesFit ==
    ASSUME NEW row, IsRow(row), row.state = "owed", row.attempts < MaxDeliveryAttempts
    PROVE  /\ IsRow(Sent(row)) /\ Sent(row).attempts = row.attempts
           /\ Sent(row).state = "sent"
           /\ IsRow(GiveUp(row)) /\ GiveUp(row).attempts = row.attempts + 1
           /\ GiveUp(row).state = "gaveUp"
           /\ IsRow(Failed(row)) /\ Failed(row).attempts = row.attempts + 1
           /\ \/ /\ Failed(row).state = "gaveUp"
                 /\ row.attempts + 1 = MaxDeliveryAttempts
              \/ /\ Failed(row).state = "owed"
                 /\ row.attempts + 1 < MaxDeliveryAttempts
  <1>1. row.attempts + 1 \in 0 .. MaxDeliveryAttempts /\ row.attempts \in Nat
    BY OutboxAssumption DEF IsRow
  <1>2. /\ IsRow(Sent(row)) /\ Sent(row).attempts = row.attempts
        /\ Sent(row).state = "sent"
    BY DEF IsRow, Sent
  <1>3. /\ IsRow(GiveUp(row)) /\ GiveUp(row).attempts = row.attempts + 1
        /\ GiveUp(row).state = "gaveUp"
    BY <1>1 DEF IsRow, GiveUp
  <1>4. CASE row.attempts + 1 >= MaxDeliveryAttempts
    <2>1. Failed(row) = GiveUp(row)
      BY <1>4 DEF Failed, GiveUp
    <2>2. row.attempts + 1 = MaxDeliveryAttempts
      BY <1>1, <1>4, OutboxAssumption
    <2> QED BY <1>2, <1>3, <2>1, <2>2
  <1>5. CASE ~(row.attempts + 1 >= MaxDeliveryAttempts)
    <2> DEFINE x == RetryBackoff[row.attempts + 1]
               f == [row EXCEPT !.attempts = @ + 1, !.due = x]
    <2>1. Failed(row) = f
      BY <1>5 DEF Failed
    <2> HIDE DEF x
    <2>2. IsRow(f) /\ f.attempts = row.attempts + 1 /\ f.state = "owed"
      BY <1>1 DEF IsRow
    <2>3. row.attempts + 1 < MaxDeliveryAttempts
      BY <1>1, <1>5, OutboxAssumption
    <2> HIDE DEF f
    <2> QED BY <1>2, <1>3, <2>1, <2>2, <2>3
  <1> QED BY <1>4, <1>5

LEMMA IdleWorkerFits ==
    /\ WorkerFits(IdleWorker) /\ IdleWorker.pc = "between" /\ IdleWorker.pushed = FALSE
    /\ \A d \in Deliveries : IdleWorker.copies[d] = NoDelivery
  BY DEF IdleWorker, WorkerFits

-----------------------------------------------------------------------------
(* The copy of a worker that does nothing, while what was observed grows. *)
LEMMA CopyStays ==
    ASSUME NEW x \in Workers, NEW d \in Deliveries,
           CopyFits(x, d, worker[x].copies[d]), worker'[x] = worker[x],
           tries[d] \in 0 .. MaxDeliveryAttempts, tries'[d] \in 0 .. MaxDeliveryAttempts,
           tries[d] <= tries'[d],
           outbox[d].state # "absent" => outbox'[d].state # "absent",
           reached \subseteq reached', excused \subseteq excused'
    PROVE  CopyFits(x, d, worker[x].copies[d])'
  <1> DEFINE c == worker[x].copies[d]
  <1>1. IsRow(c) /\ c.attempts \in Nat /\ c.attempts <= tries[d]
    BY OutboxAssumption DEF CopyFits, RowFits, IsRow
  <1>2. /\ c.attempts <= tries'[d]
        /\ tries[d] = MaxDeliveryAttempts => tries'[d] = MaxDeliveryAttempts
    BY <1>1, OutboxAssumption
  <1>3. /\ c.state = "owed" => c.attempts < MaxDeliveryAttempts
        /\ c.state # "absent" => outbox'[d].state # "absent"
        /\ c.state \in {"sent", "gaveUp"} => worker'[x].pc = "saving" /\ worker'[x].at = d
        /\ c.state = "sent" => d \in reached' \cup excused'
        /\ c.state = "gaveUp" => tries'[d] = MaxDeliveryAttempts \/ d \in excused'
    BY <1>2 DEF CopyFits, RowFits
  <1>4. c = worker'[x].copies[d]
    OBVIOUS
  <1> HIDE DEF c
  <1> QED BY <1>1, <1>2, <1>3, <1>4 DEF CopyFits, RowFits

(* A worker takes a step, rows may change and come to be, and what was observed *)
(* only grows.                                                                  *)
LEMMA WorkerMoves ==
    ASSUME OutboxInv, RowsAreFormed', NEW w \in Workers, NEW v,
           worker' = [worker EXCEPT ![w] = v],
           v \in [pc : {"between", "pushing", "saving"}, copies : {v.copies},
                  at : Deliveries \cup {<<>>}, targets : SUBSET Endpoints, pushed : BOOLEAN],
           DOMAIN v.copies = Deliveries,
           v.pc # "between" => v.at \in Deliveries /\ v.copies[v.at].state # "absent",
           v.pushed => v.pc = "pushing" /\ v.at \in reached',
           \A d \in Deliveries :
             /\ IsRow(v.copies[d])
             /\ v.copies[d].attempts <= tries'[d]
             /\ v.copies[d].state = "owed" => v.copies[d].attempts < MaxDeliveryAttempts
             /\ v.copies[d].state # "absent" => outbox'[d].state # "absent"
             /\ v.copies[d].state \in {"sent", "gaveUp"} => v.pc = "saving" /\ v.at = d
             /\ v.copies[d].state = "sent" => d \in reached' \cup excused'
             /\ v.copies[d].state = "gaveUp" =>
                  tries'[d] = MaxDeliveryAttempts \/ d \in excused',
           \A d \in Deliveries :
             /\ tries[d] <= tries'[d]
             /\ outbox[d].state # "absent" => outbox'[d].state # "absent",
           reached \subseteq reached', excused \subseteq excused'
    PROVE  OutboxInv'
  <1>1. DOMAIN worker' = Workers /\ worker'[w] = v
        /\ \A x \in Workers \ {w} : worker'[x] = worker[x]
    BY DEF OutboxInv, WorkersAreFormed
  <1>2. ASSUME NEW x \in Workers
        PROVE  WorkerFits(worker[x])'
    <2>1. CASE x = w
      BY <2>1, <1>1 DEF WorkerFits
    <2>2. CASE x # w
      BY <2>2, <1>1 DEF OutboxInv, WorkersAreFormed, WorkerFits
    <2> QED BY <2>1, <2>2
  <1>3. ASSUME NEW x \in Workers, NEW d \in Deliveries
        PROVE  CopyFits(x, d, worker[x].copies[d])'
    <2>1. CASE x = w
      BY <2>1, <1>1 DEF CopyFits, RowFits, IsRow
    <2>2. CASE x # w
      <3>1. CopyFits(x, d, worker[x].copies[d]) /\ worker'[x] = worker[x]
        BY <2>2, <1>1 DEF OutboxInv, WorkersAreFormed
      <3>2. tries[d] \in 0 .. MaxDeliveryAttempts /\ tries'[d] \in 0 .. MaxDeliveryAttempts
        BY DEF OutboxInv, RowsAreFormed
      <3> QED BY <3>1, <3>2, CopyStays
    <2> QED BY <2>1, <2>2
  <1> QED BY <1>1, <1>2, <1>3 DEF OutboxInv, WorkersAreFormed

(* Rows are added or rescheduled. *)
LEMMA RowsMove ==
    ASSUME OutboxInv, RowsAreFormed',
           UNCHANGED <<worker, tries, reached, excused>>,
           \A d \in Deliveries : outbox[d].state # "absent" => outbox'[d].state # "absent"
    PROVE  OutboxInv'
  BY DEF OutboxInv, WorkersAreFormed, WorkerFits, CopyFits, RowFits, IsRow

LEMMA StutterKeepsInv ==
    ASSUME OutboxInv, UNCHANGED <<outbox, worker, tries, reached, excused>>
    PROVE  OutboxInv'
  BY DEF OutboxInv, RowsAreFormed, WorkersAreFormed, WorkerFits, CopyFits, RowFits, IsRow

(* Rows that are new, rescheduled or as they were. *)
LEMMA RowsFit ==
    ASSUME OutboxInv, DOMAIN outbox' = Deliveries, tries' = tries,
           \A d \in Deliveries :
             \/ outbox'[d] = outbox[d]
             \/ outbox'[d] = NewDelivery
             \/ \E x : outbox'[d] = [outbox[d] EXCEPT !.due = x]
    PROVE  /\ RowsAreFormed'
           /\ \A d \in Deliveries : outbox[d].state # "absent" => outbox'[d].state # "absent"
  <1>1. ASSUME NEW d \in Deliveries
        PROVE  /\ IsRow(outbox'[d]) /\ outbox'[d].attempts <= tries[d]
               /\ outbox'[d].state = "owed" => outbox'[d].attempts < MaxDeliveryAttempts
               /\ outbox[d].state # "absent" => outbox'[d].state # "absent"
    <2>1. RowFits(d, outbox[d]) /\ tries[d] \in 0 .. MaxDeliveryAttempts
      BY DEF OutboxInv, RowsAreFormed
    <2>2. CASE outbox'[d] = outbox[d]
      BY <2>1, <2>2 DEF RowFits
    <2>3. CASE outbox'[d] = NewDelivery
      BY <2>1, <2>3, NoDeliveryFits, OutboxAssumption
    <2>4. ASSUME NEW x, outbox'[d] = [outbox[d] EXCEPT !.due = x]
          PROVE  /\ IsRow(outbox'[d]) /\ outbox'[d].attempts = outbox[d].attempts
                 /\ outbox'[d].state = outbox[d].state
      BY <2>1, <2>4, DueFits DEF RowFits
    <2> QED BY <2>1, <2>2, <2>3, <2>4 DEF RowFits
  <1>2. RowsAreFormed'
    BY <1>1 DEF OutboxInv, RowsAreFormed, RowFits
  <1> QED BY <1>1, <1>2

LEMMA QueueDeliveriesKeepsInv ==
    ASSUME OutboxInv, NEW n \in Notices, QueueDeliveries(n)
    PROVE  OutboxInv'
  <1>1. /\ DOMAIN outbox' = Deliveries
        /\ \A d \in Deliveries : outbox'[d] = outbox[d] \/ outbox'[d] = NewDelivery
    BY DEF QueueDeliveries
  <1>2. UNCHANGED <<worker, tries, reached, excused>>
    BY DEF QueueDeliveries, observed
  <1> QED BY <1>1, <1>2, RowsFit, RowsMove

(* The rows that are claimed are pushed out of the others' reach. *)
LEMMA LeasedFit ==
    ASSUME OutboxInv, NEW taken, NEW lag, tries' = tries,
           outbox' = [d \in Deliveries |->
                        IF d \in taken THEN Leased(outbox[d], lag) ELSE outbox[d]]
    PROVE  /\ RowsAreFormed'
           /\ \A d \in Deliveries : outbox[d].state # "absent" => outbox'[d].state # "absent"
  <1>1. \A d \in Deliveries : \E x : Leased(outbox[d], lag) = [outbox[d] EXCEPT !.due = x]
    BY DEF Leased
  <1>2. \A d \in Deliveries :
          outbox'[d] = outbox[d] \/ \E x : outbox'[d] = [outbox[d] EXCEPT !.due = x]
    <2> HIDE DEF Leased
    <2> QED BY <1>1
  <1> QED BY <1>2, RowsFit

LEMMA TakeDueUnacknowledgedKeepsInv ==
    ASSUME OutboxInv, NEW w \in Workers, TakeDueUnacknowledged(w)
    PROVE  OutboxInv'
  <1>1. UNCHANGED <<worker, tries, reached, excused>>
    BY DEF TakeDueUnacknowledged, observed
  <1> QED BY <1>1, LeasedFit, RowsMove DEF TakeDueUnacknowledged

LEMMA TakeDueKeepsInv ==
    ASSUME OutboxInv, NEW w \in Workers, TakeDue(w)
    PROVE  OutboxInv'
  <1>0. PICK lag \in 0 .. MaxLag : \E taken \in Claims(lag) :
          /\ outbox' = [d \in Deliveries |->
                          IF d \in taken THEN Leased(outbox[d], lag) ELSE outbox[d]]
          /\ worker' = [worker EXCEPT ![w].copies =
                          [d \in Deliveries |->
                              IF d \in taken THEN [outbox[d] EXCEPT !.due = 0]
                              ELSE NoDelivery]]
    BY DEF TakeDue
  <1>1. PICK taken \in Claims(lag) :
          /\ outbox' = [d \in Deliveries |->
                          IF d \in taken THEN Leased(outbox[d], lag) ELSE outbox[d]]
          /\ worker' = [worker EXCEPT ![w].copies =
                          [d \in Deliveries |->
                              IF d \in taken THEN [outbox[d] EXCEPT !.due = 0]
                              ELSE NoDelivery]]
    BY <1>0
  <1>2. worker[w].pc = "between" /\ UNCHANGED <<tries, reached, excused>>
    BY DEF TakeDue, observed
  <1>3. \A d \in taken : d \in Deliveries /\ outbox[d].state = "owed"
    BY DEF Claims
  <1> DEFINE C == [d \in Deliveries |->
                     IF d \in taken THEN [outbox[d] EXCEPT !.due = 0] ELSE NoDelivery]
             v == [worker[w] EXCEPT !.copies = C]
  <1>4. worker' = [worker EXCEPT ![w] = v]
    BY <1>1
  <1>5. ASSUME NEW d \in Deliveries
        PROVE  /\ IsRow(C[d]) /\ C[d].attempts <= tries[d]
               /\ C[d].state = "owed" => C[d].attempts < MaxDeliveryAttempts
               /\ C[d].state # "absent" => outbox[d].state # "absent"
               /\ C[d].state \in {"absent", "owed"}
    <2>1. RowFits(d, outbox[d]) /\ tries[d] \in 0 .. MaxDeliveryAttempts
      BY DEF OutboxInv, RowsAreFormed
    <2>2. CASE d \in taken
      <3>1. C[d] = [outbox[d] EXCEPT !.due = 0]
        BY <2>2
      <3>2. /\ IsRow([outbox[d] EXCEPT !.due = 0])
            /\ [outbox[d] EXCEPT !.due = 0].attempts = outbox[d].attempts
            /\ [outbox[d] EXCEPT !.due = 0].state = outbox[d].state
        BY <2>1, DueFits DEF RowFits
      <3> HIDE DEF C
      <3> QED BY <1>3, <2>1, <2>2, <3>1, <3>2 DEF RowFits
    <2>3. CASE d \notin taken
      <3>1. C[d] = NoDelivery
        BY <2>3
      <3> HIDE DEF C
      <3> QED BY <2>1, <3>1, NoDeliveryFits, OutboxAssumption
    <2> QED BY <2>2, <2>3
  <1>6. DOMAIN C = Deliveries
    OBVIOUS
  <1> HIDE DEF C
  <1>7. WorkerFits(worker[w])
    BY DEF OutboxInv, WorkersAreFormed
  <1>8. /\ v \in [pc : {"between", "pushing", "saving"}, copies : {v.copies},
                  at : Deliveries \cup {<<>>}, targets : SUBSET Endpoints, pushed : BOOLEAN]
        /\ v.copies = C /\ v.pc = "between" /\ ~v.pushed
    BY <1>2, <1>7 DEF WorkerFits
  <1> HIDE DEF v
  <1>9. /\ RowsAreFormed'
        /\ \A d \in Deliveries : outbox[d].state # "absent" => outbox'[d].state # "absent"
    BY <1>1, <1>2, LeasedFit
  <1>10. \A d \in Deliveries : tries[d] <= tries'[d]
    BY <1>2, OutboxAssumption DEF OutboxInv, RowsAreFormed
  <1> QED BY <1>2, <1>4, <1>5, <1>6, <1>8, <1>9, <1>10, WorkerMoves

-----------------------------------------------------------------------------
(* An attempt ends.  The copy was owed, so another attempt was permitted, and the *)
(* count of attempts made is at least what the copy says.                         *)
LEMMA OutcomeKeepsInv ==
    ASSUME OutboxInv, NEW w \in Workers, NEW d \in Deliveries, NEW copy,
           Outcome(w, d, copy), outbox' = outbox,
           worker[w].pc # "saving", worker[w].copies[d].state = "owed",
           IsRow(copy), copy.state # "absent",
           copy.attempts <= worker[w].copies[d].attempts + 1,
           copy.state = "owed" => copy.attempts < MaxDeliveryAttempts,
           copy.state = "sent" => d \in reached' \cup excused',
           copy.state = "gaveUp" => copy.attempts = MaxDeliveryAttempts \/ d \in excused',
           reached \subseteq reached', excused \subseteq excused'
    PROVE  OutboxInv'
  <1> DEFINE v == [worker[w] EXCEPT !.pc = "saving", !.at = d, !.copies[d] = copy,
                                    !.pushed = FALSE]
  <1>1. WorkerFits(worker[w]) /\ \A e \in Deliveries : CopyFits(w, e, worker[w].copies[e])
    BY DEF OutboxInv, WorkersAreFormed
  <1>2. worker' = [worker EXCEPT ![w] = v]
    BY <1>1 DEF Outcome, OutboxInv, WorkersAreFormed, WorkerFits
  <1>3. /\ v \in [pc : {"between", "pushing", "saving"}, copies : {v.copies},
                  at : Deliveries \cup {<<>>}, targets : SUBSET Endpoints, pushed : BOOLEAN]
        /\ v.copies = [worker[w].copies EXCEPT ![d] = copy]
        /\ v.pc = "saving" /\ v.at = d /\ ~v.pushed
    BY <1>1 DEF WorkerFits
  <1> HIDE DEF v
  <1>4. /\ DOMAIN v.copies = Deliveries /\ v.copies[d] = copy
        /\ \A e \in Deliveries \ {d} : v.copies[e] = worker[w].copies[e]
    BY <1>1, <1>3 DEF WorkerFits
  <1>5. /\ tries \in [Deliveries -> 0 .. MaxDeliveryAttempts]
        /\ tries' = [tries EXCEPT ![d] = IF @ < MaxDeliveryAttempts THEN @ + 1 ELSE @]
    BY DEF Outcome, OutboxInv, RowsAreFormed
  <1>6. /\ tries' \in [Deliveries -> 0 .. MaxDeliveryAttempts]
        /\ \A e \in Deliveries : tries[e] <= tries'[e]
        /\ tries'[d] = IF tries[d] < MaxDeliveryAttempts THEN tries[d] + 1 ELSE tries[d]
    BY <1>5, OutboxAssumption
  <1>7. /\ copy.attempts <= tries'[d]
        /\ copy.attempts = MaxDeliveryAttempts => tries'[d] = MaxDeliveryAttempts
    <2>1. /\ worker[w].copies[d].attempts <= tries[d]
          /\ worker[w].copies[d].attempts \in 0 .. MaxDeliveryAttempts
          /\ copy.attempts \in 0 .. MaxDeliveryAttempts
          /\ tries[d] \in 0 .. MaxDeliveryAttempts
      BY <1>1, <1>5 DEF CopyFits, RowFits, IsRow
    <2> QED BY <1>6, <2>1, OutboxAssumption
  <1>8. RowsAreFormed'
    <2>1. ASSUME NEW e \in Deliveries
          PROVE  RowFits(e, outbox[e])'
      <3>1. RowFits(e, outbox[e]) /\ tries[e] \in 0 .. MaxDeliveryAttempts
            /\ tries'[e] \in 0 .. MaxDeliveryAttempts /\ tries[e] <= tries'[e]
        BY <1>5, <1>6 DEF OutboxInv, RowsAreFormed
      <3>2. outbox[e].attempts <= tries'[e]
        BY <3>1, OutboxAssumption DEF RowFits, IsRow
      <3> QED BY <3>1, <3>2 DEF RowFits
    <2> QED BY <1>6, <2>1 DEF OutboxInv, RowsAreFormed
  <1>9. ASSUME NEW e \in Deliveries, e # d
        PROVE  /\ IsRow(v.copies[e])
               /\ v.copies[e].attempts <= tries'[e]
               /\ v.copies[e].state = "owed" => v.copies[e].attempts < MaxDeliveryAttempts
               /\ v.copies[e].state # "absent" => outbox'[e].state # "absent"
               /\ v.copies[e].state \notin {"sent", "gaveUp"}
    <2>1. v.copies[e] = worker[w].copies[e] /\ CopyFits(w, e, worker[w].copies[e])
          /\ tries[e] \in 0 .. MaxDeliveryAttempts
          /\ tries'[e] \in 0 .. MaxDeliveryAttempts /\ tries[e] <= tries'[e]
      BY <1>1, <1>4, <1>5, <1>6, <1>9
    <2>2. IsRow(v.copies[e]) /\ v.copies[e].attempts <= tries[e]
      BY <2>1 DEF CopyFits, RowFits
    <2>3. v.copies[e].attempts <= tries'[e]
      BY <2>1, <2>2, OutboxAssumption DEF IsRow
    <2> QED BY <2>1, <2>2, <2>3 DEF CopyFits, RowFits
  <1>10. outbox'[d].state # "absent"
    BY <1>1 DEF CopyFits
  <1>11. ASSUME NEW e \in Deliveries
         PROVE  /\ IsRow(v.copies[e])
                /\ v.copies[e].attempts <= tries'[e]
                /\ v.copies[e].state = "owed" => v.copies[e].attempts < MaxDeliveryAttempts
                /\ v.copies[e].state # "absent" => outbox'[e].state # "absent"
                /\ v.copies[e].state \in {"sent", "gaveUp"} => v.pc = "saving" /\ v.at = e
                /\ v.copies[e].state = "sent" => e \in reached' \cup excused'
                /\ v.copies[e].state = "gaveUp" =>
                     tries'[e] = MaxDeliveryAttempts \/ e \in excused'
    <2>1. CASE e = d
      BY <2>1, <1>3, <1>4, <1>7, <1>10
    <2>2. CASE e # d
      BY <2>2, <1>9
    <2> QED BY <2>1, <2>2
  <1>12. /\ v.pc # "between" => v.at \in Deliveries /\ v.copies[v.at].state # "absent"
         /\ v.pushed => v.pc = "pushing" /\ v.at \in reached'
    BY <1>3, <1>4
  <1>13. \A e \in Deliveries :
           /\ tries[e] <= tries'[e]
           /\ outbox[e].state # "absent" => outbox'[e].state # "absent"
    BY <1>6
  <1>14. /\ v \in [pc : {"between", "pushing", "saving"}, copies : {v.copies},
                   at : Deliveries \cup {<<>>}, targets : SUBSET Endpoints, pushed : BOOLEAN]
         /\ DOMAIN v.copies = Deliveries
    BY <1>3, <1>4
  <1> HIDE DEF IsRow
  <1> QED BY <1>2, <1>8, <1>11, <1>12, <1>13, <1>14, WorkerMoves

(* A row a worker has in hand and has no outcome for yet is owed, with an attempt *)
(* left.                                                                          *)
LEMMA InHandIsOwed ==
    ASSUME OutboxInv, NEW w \in Workers, NEW d \in Deliveries,
           worker[w].pc # "saving", worker[w].copies[d].state # "absent"
    PROVE  LET c == worker[w].copies[d]
           IN IsRow(c) /\ c.state = "owed" /\ c.attempts < MaxDeliveryAttempts
  BY DEF OutboxInv, WorkersAreFormed, CopyFits, RowFits, IsRow

(* An attempt ends in one of the three ways the code knows. *)
LEMMA AttemptEnds ==
    ASSUME OutboxInv, NEW w \in Workers, NEW d \in Deliveries,
           worker[w].pc # "saving", worker[w].copies[d].state # "absent",
           outbox' = outbox, reached \subseteq reached', excused \subseteq excused',
           \/ Outcome(w, d, Failed(worker[w].copies[d]))
           \/ Outcome(w, d, Sent(worker[w].copies[d])) /\ d \in reached' \cup excused'
           \/ Outcome(w, d, GiveUp(worker[w].copies[d])) /\ d \in excused'
    PROVE  OutboxInv'
  <1> DEFINE c == worker[w].copies[d]
  <1>1. IsRow(c) /\ c.state = "owed" /\ c.attempts < MaxDeliveryAttempts
    BY InHandIsOwed
  <1>2. c.attempts \in Nat
    BY <1>1, OutboxAssumption DEF IsRow
  <1> HIDE DEF c
  <1>3. CASE Outcome(w, d, Failed(c))
    <2> DEFINE f == Failed(c)
    <2>1. IsRow(f) /\ f.attempts = c.attempts + 1
          /\ \/ f.state = "gaveUp" /\ f.attempts = MaxDeliveryAttempts
             \/ f.state = "owed" /\ f.attempts < MaxDeliveryAttempts
      BY <1>1, OutcomesFit
    <2>2. f.attempts <= c.attempts + 1
      BY <1>2, <2>1
    <2> HIDE DEF f
    <2>3. Outcome(w, d, f)
      BY <1>3 DEF f
    <2> QED BY <1>1, <2>1, <2>2, <2>3, OutcomeKeepsInv DEF c
  <1>4. CASE Outcome(w, d, Sent(c)) /\ d \in reached' \cup excused'
    <2> DEFINE f == Sent(c)
    <2>1. IsRow(f) /\ f.attempts = c.attempts /\ f.state = "sent"
      BY <1>1, OutcomesFit
    <2>2. f.attempts <= c.attempts + 1
      BY <1>2, <2>1
    <2> HIDE DEF f
    <2>3. Outcome(w, d, f)
      BY <1>4 DEF f
    <2> QED BY <1>1, <1>4, <2>1, <2>2, <2>3, OutcomeKeepsInv DEF c
  <1>5. CASE Outcome(w, d, GiveUp(c)) /\ d \in excused'
    <2> DEFINE f == GiveUp(c)
    <2>1. IsRow(f) /\ f.attempts = c.attempts + 1 /\ f.state = "gaveUp"
      BY <1>1, OutcomesFit
    <2>2. f.attempts <= c.attempts + 1
      BY <1>2, <2>1
    <2> HIDE DEF f
    <2>3. Outcome(w, d, f)
      BY <1>5 DEF f
    <2> QED BY <1>1, <1>5, <2>1, <2>2, <2>3, OutcomeKeepsInv DEF c
  <1> QED BY <1>3, <1>4, <1>5 DEF c

LEMMA AttemptKeepsInv ==
    ASSUME OutboxInv, NEW w \in Workers, NEW d \in Deliveries,
           AttemptEmail(w, d) \/ AttemptFails(w, d)
    PROVE  OutboxInv'
  <1>1. worker[w].pc # "saving" /\ worker[w].copies[d].state # "absent"
    BY DEF AttemptEmail, AttemptFails, InHand
  <1>2. CASE AttemptFails(w, d)
    BY <1>1, <1>2, AttemptEnds DEF AttemptFails
  <1>3. CASE AttemptEmail(w, d)
    <2>1. outbox' = outbox /\ reached \subseteq reached' /\ excused \subseteq excused'
      BY <1>3 DEF AttemptEmail
    <2>2. \/ Outcome(w, d, Failed(worker[w].copies[d]))
          \/ Outcome(w, d, Sent(worker[w].copies[d])) /\ d \in reached' \cup excused'
          \/ Outcome(w, d, GiveUp(worker[w].copies[d])) /\ d \in excused'
      BY <1>3 DEF AttemptEmail
    <2> QED BY <1>1, <2>1, <2>2, AttemptEnds
  <1> QED BY <1>2, <1>3

LEMMA SendPushKeepsInv ==
    ASSUME OutboxInv, NEW w \in Workers, SendPush(w)
    PROVE  OutboxInv'
  <1> DEFINE d == worker[w].at
  <1>1. /\ d \in Deliveries /\ worker[w].copies[d].state # "absent"
        /\ worker[w].pc # "saving" /\ (worker[w].pushed => d \in reached)
    BY DEF SendPush, OutboxInv, WorkersAreFormed, WorkerFits
  <1>2. /\ outbox' = outbox /\ reached' = reached /\ excused' = excused
        /\ \/ Outcome(w, d, Failed(worker[w].copies[d]))
           \/ Outcome(w, d, Sent(worker[w].copies[d])) /\ d \in reached
    BY <1>1 DEF SendPush
  <1> HIDE DEF d
  <1> QED BY <1>1, <1>2, AttemptEnds

(* The steps that change where a worker is and none of its copies. *)
LEMMA WorkerGoesOn ==
    ASSUME OutboxInv, NEW w \in Workers, NEW v,
           worker' = [worker EXCEPT ![w] = v],
           v \in [pc : {"between", "pushing", "saving"}, copies : {v.copies},
                  at : Deliveries \cup {<<>>}, targets : SUBSET Endpoints, pushed : BOOLEAN],
           worker[w].pc # "saving", v.pc = "pushing", v.copies = worker[w].copies,
           v.at \in Deliveries, v.copies[v.at].state # "absent",
           v.pushed => v.at \in reached',
           reached \subseteq reached',
           UNCHANGED <<outbox, tries, excused>>
    PROVE  OutboxInv'
  <1>1. WorkerFits(worker[w]) /\ \A d \in Deliveries : CopyFits(w, d, worker[w].copies[d])
    BY DEF OutboxInv, WorkersAreFormed
  <1>2. RowsAreFormed'
    BY DEF OutboxInv, RowsAreFormed, RowFits
  <1>3. ASSUME NEW e \in Deliveries
        PROVE  /\ IsRow(v.copies[e])
               /\ v.copies[e].attempts <= tries'[e]
               /\ v.copies[e].state = "owed" => v.copies[e].attempts < MaxDeliveryAttempts
               /\ v.copies[e].state # "absent" => outbox'[e].state # "absent"
               /\ v.copies[e].state \notin {"sent", "gaveUp"}
    BY <1>1 DEF CopyFits, RowFits
  <1>4. \A d \in Deliveries : tries[d] <= tries'[d]
    BY OutboxAssumption DEF OutboxInv, RowsAreFormed
  <1>5. DOMAIN v.copies = Deliveries
    BY <1>1 DEF WorkerFits
  <1> HIDE DEF IsRow
  <1> QED BY <1>2, <1>3, <1>4, <1>5, WorkerMoves

LEMMA ListTargetsKeepsInv ==
    ASSUME OutboxInv, NEW w \in Workers, NEW d \in Deliveries, ListTargets(w, d)
    PROVE  OutboxInv'
  <1> DEFINE targets == {e \in Endpoints : subscriptions[e] = Recipient[d[1]]}
             v == [worker[w] EXCEPT !.pc = "pushing", !.at = d, !.targets = targets]
  <1>1. /\ worker[w].pc = "between" /\ worker[w].copies[d].state # "absent"
        /\ outbox' = outbox /\ reached' = reached /\ WorkerFits(worker[w])
        /\ DOMAIN worker = Workers
    BY DEF ListTargets, InHand, OutboxInv, WorkersAreFormed
  <1>2. CASE targets = {}
    <2>1. Outcome(w, d, Sent(worker[w].copies[d])) /\ excused' = excused \cup {d}
      BY <1>2 DEF ListTargets
    <2> QED BY <1>1, <2>1, AttemptEnds
  <1>3. CASE targets # {}
    <2>1. targets \in SUBSET Endpoints
      OBVIOUS
    <2>2. /\ worker' = [worker EXCEPT ![w].pc = "pushing", ![w].at = d, ![w].targets = targets]
          /\ UNCHANGED <<tries, excused>>
      BY <1>3 DEF ListTargets
    <2> HIDE DEF targets
    <2>3. worker' = [worker EXCEPT ![w] = v]
      BY <1>1, <2>2 DEF WorkerFits
    <2>4. /\ v \in [pc : {"between", "pushing", "saving"}, copies : {v.copies},
                    at : Deliveries \cup {<<>>}, targets : SUBSET Endpoints, pushed : BOOLEAN]
          /\ v.pc = "pushing" /\ v.at = d /\ v.copies = worker[w].copies /\ ~v.pushed
      BY <1>1, <2>1 DEF WorkerFits
    <2> HIDE DEF v
    <2> QED BY <1>1, <2>2, <2>3, <2>4, WorkerGoesOn
  <1> QED BY <1>2, <1>3

LEMMA PushKeepsInv ==
    ASSUME OutboxInv, NEW w \in Workers, NEW e \in Endpoints, Push(w, e)
    PROVE  OutboxInv'
  <1>1. /\ worker[w].pc = "pushing" /\ WorkerFits(worker[w]) /\ DOMAIN worker = Workers
        /\ worker[w].at \in Deliveries
        /\ worker[w].copies[worker[w].at].state # "absent"
        /\ worker[w].pushed => worker[w].at \in reached
    BY DEF Push, OutboxInv, WorkersAreFormed, WorkerFits
  <1>2. UNCHANGED <<outbox, tries, excused>> /\ reached \subseteq reached'
    BY DEF Push
  <1>3. CASE worker' = [worker EXCEPT ![w].targets = @ \ {e}, ![w].pushed = TRUE]
             /\ reached' = reached \cup {worker[w].at}
    <2> DEFINE v == [worker[w] EXCEPT !.targets = @ \ {e}, !.pushed = TRUE]
    <2>1. worker' = [worker EXCEPT ![w] = v]
      BY <1>1, <1>3 DEF WorkerFits
    <2>2. /\ v \in [pc : {"between", "pushing", "saving"}, copies : {v.copies},
                    at : Deliveries \cup {<<>>}, targets : SUBSET Endpoints, pushed : BOOLEAN]
          /\ v.pc = "pushing" /\ v.at = worker[w].at /\ v.copies = worker[w].copies
      BY <1>1 DEF WorkerFits
    <2> HIDE DEF v
    <2>3. v.at \in reached'
      BY <1>3, <2>2
    <2> QED BY <1>1, <1>2, <2>1, <2>2, <2>3, WorkerGoesOn
  <1>4. CASE worker' = [worker EXCEPT ![w].targets = @ \ {e}]
    <2> DEFINE v == [worker[w] EXCEPT !.targets = @ \ {e}]
    <2>1. worker' = [worker EXCEPT ![w] = v]
      BY <1>4
    <2>2. /\ v \in [pc : {"between", "pushing", "saving"}, copies : {v.copies},
                    at : Deliveries \cup {<<>>}, targets : SUBSET Endpoints, pushed : BOOLEAN]
          /\ v.pc = "pushing" /\ v.at = worker[w].at /\ v.copies = worker[w].copies
          /\ v.pushed = worker[w].pushed
      BY <1>1 DEF WorkerFits
    <2> HIDE DEF v
    <2>3. v.pushed => v.at \in reached'
      BY <1>1, <1>2, <2>2
    <2> QED BY <1>1, <1>2, <2>1, <2>2, <2>3, WorkerGoesOn
  <1> QED BY <1>3, <1>4 DEF Push

(* A worker ends between two rows. *)
LEMMA WorkerRests ==
    ASSUME OutboxInv, RowsAreFormed', NEW w \in Workers, NEW v,
           worker' = [worker EXCEPT ![w] = v],
           v \in [pc : {"between", "pushing", "saving"}, copies : {v.copies},
                  at : Deliveries \cup {<<>>}, targets : SUBSET Endpoints, pushed : BOOLEAN],
           DOMAIN v.copies = Deliveries, v.pc = "between", ~v.pushed,
           \A d \in Deliveries :
             /\ IsRow(v.copies[d])
             /\ v.copies[d].attempts <= tries'[d]
             /\ v.copies[d].state = "owed" => v.copies[d].attempts < MaxDeliveryAttempts
             /\ v.copies[d].state # "absent" => outbox'[d].state # "absent"
             /\ v.copies[d].state \notin {"sent", "gaveUp"},
           \A d \in Deliveries :
             outbox[d].state # "absent" => outbox'[d].state # "absent",
           UNCHANGED <<tries, reached, excused>>
    PROVE  OutboxInv'
  <1>1. \A d \in Deliveries : tries[d] <= tries'[d]
    BY OutboxAssumption DEF OutboxInv, RowsAreFormed
  <1> HIDE DEF IsRow
  <1> QED BY <1>1, WorkerMoves

(* The row is done with for this pass, saved or not. *)
LEMMA FinishedKeepsInv ==
    ASSUME OutboxInv, NEW w \in Workers, worker[w].pc = "saving", Finished(w),
           outbox' = outbox \/
             outbox' = [outbox EXCEPT ![worker[w].at] = worker[w].copies[worker[w].at]],
           UNCHANGED <<tries, reached, excused>>
    PROVE  OutboxInv'
  <1> DEFINE a == worker[w].at
             v == [worker[w] EXCEPT !.pc = "between", !.at = <<>>, !.copies[a] = NoDelivery]
  <1>1. /\ WorkerFits(worker[w]) /\ DOMAIN worker = Workers
        /\ a \in Deliveries /\ worker[w].copies[a].state # "absent"
        /\ ~worker[w].pushed
        /\ \A d \in Deliveries : CopyFits(w, d, worker[w].copies[d])
    BY DEF OutboxInv, WorkersAreFormed, WorkerFits
  <1>2. worker' = [worker EXCEPT ![w] = v]
    BY <1>1 DEF Finished, WorkerFits
  <1>3. /\ v \in [pc : {"between", "pushing", "saving"}, copies : {v.copies},
                  at : Deliveries \cup {<<>>}, targets : SUBSET Endpoints, pushed : BOOLEAN]
        /\ v.copies = [worker[w].copies EXCEPT ![a] = NoDelivery]
        /\ v.pc = "between" /\ v.pushed = worker[w].pushed
    BY <1>1 DEF WorkerFits
  <1> HIDE DEF v
  <1>4. /\ DOMAIN v.copies = Deliveries /\ v.copies[a] = NoDelivery
        /\ \A d \in Deliveries \ {a} : v.copies[d] = worker[w].copies[d]
    BY <1>1, <1>3 DEF WorkerFits
  <1>5. /\ DOMAIN outbox' = Deliveries
        /\ \A d \in Deliveries :
             outbox'[d] = outbox[d] \/ (d = a /\ outbox'[d] = worker[w].copies[d])
    BY <1>1 DEF OutboxInv, RowsAreFormed
  <1>6. \A d \in Deliveries : RowFits(d, outbox[d]) /\ RowFits(d, worker[w].copies[d])
    BY <1>1 DEF OutboxInv, RowsAreFormed, CopyFits
  <1> HIDE DEF a
  <1>7. \A d \in Deliveries :
          /\ IsRow(outbox'[d]) /\ outbox'[d].attempts <= tries[d]
          /\ outbox'[d].state = "owed" => outbox'[d].attempts < MaxDeliveryAttempts
          /\ outbox[d].state # "absent" => outbox'[d].state # "absent"
    <2> SUFFICES ASSUME NEW d \in Deliveries
                 PROVE  /\ IsRow(outbox'[d]) /\ outbox'[d].attempts <= tries[d]
                        /\ outbox'[d].state = "owed" =>
                             outbox'[d].attempts < MaxDeliveryAttempts
                        /\ outbox[d].state # "absent" => outbox'[d].state # "absent"
      OBVIOUS
    <2>1. CASE outbox'[d] = outbox[d]
      BY <2>1, <1>6 DEF RowFits
    <2>2. CASE d = a /\ outbox'[d] = worker[w].copies[d]
      BY <2>2, <1>1, <1>6 DEF RowFits
    <2> QED BY <1>5, <2>1, <2>2
  <1>8. RowsAreFormed'
    BY <1>5, <1>7 DEF OutboxInv, RowsAreFormed, RowFits
  <1>9. ASSUME NEW d \in Deliveries
        PROVE  /\ IsRow(v.copies[d])
               /\ v.copies[d].attempts <= tries'[d]
               /\ v.copies[d].state = "owed" => v.copies[d].attempts < MaxDeliveryAttempts
               /\ v.copies[d].state # "absent" => outbox'[d].state # "absent"
               /\ v.copies[d].state \notin {"sent", "gaveUp"}
    <2>1. CASE d = a
      <3>1. tries[d] \in 0 .. MaxDeliveryAttempts
        BY DEF OutboxInv, RowsAreFormed
      <3> QED BY <2>1, <3>1, <1>4, NoDeliveryFits, OutboxAssumption
    <2>2. CASE d # a
      <3>1. v.copies[d] = worker[w].copies[d] /\ CopyFits(w, d, worker[w].copies[d])
        BY <2>2, <1>1, <1>4
      <3>2. v.copies[d].state \notin {"sent", "gaveUp"}
        BY <2>2, <3>1 DEF CopyFits, a
      <3> QED BY <3>1, <3>2, <1>7 DEF CopyFits, RowFits
    <2> QED BY <2>1, <2>2
  <1>10. ~v.pushed
    BY <1>1, <1>3
  <1>11. \A d \in Deliveries : outbox[d].state # "absent" => outbox'[d].state # "absent"
    BY <1>7
  <1> HIDE DEF IsRow
  <1> QED BY <1>2, <1>3, <1>4, <1>8, <1>9, <1>10, <1>11, WorkerRests

LEMMA WorkerCrashKeepsInv ==
    ASSUME OutboxInv, NEW w \in Workers, WorkerCrash(w)
    PROVE  OutboxInv'
  <1>1. /\ worker' = [worker EXCEPT ![w] = IdleWorker]
        /\ UNCHANGED <<outbox, tries, reached, excused>>
    BY DEF WorkerCrash, observed
  <1>2. RowsAreFormed'
    BY <1>1 DEF OutboxInv, RowsAreFormed, RowFits
  <1>3. \A d \in Deliveries : tries[d] \in 0 .. MaxDeliveryAttempts
    BY DEF OutboxInv, RowsAreFormed
  <1>4. ASSUME NEW d \in Deliveries
        PROVE  /\ IsRow(IdleWorker.copies[d])
               /\ IdleWorker.copies[d].attempts <= tries'[d]
               /\ IdleWorker.copies[d].state = "absent"
    BY <1>1, <1>3, IdleWorkerFits, NoDeliveryFits, OutboxAssumption
  <1>5. /\ IdleWorker \in [pc : {"between", "pushing", "saving"}, copies : {IdleWorker.copies},
                  at : Deliveries \cup {<<>>}, targets : SUBSET Endpoints, pushed : BOOLEAN]
        /\ DOMAIN IdleWorker.copies = Deliveries
    BY IdleWorkerFits DEF WorkerFits
  <1>6. IdleWorker.pc = "between" /\ ~IdleWorker.pushed
    BY IdleWorkerFits
  <1> QED BY <1>1, <1>2, <1>4, <1>5, <1>6, WorkerRests

(* Time changes due times and nothing else. *)
LEMMA TickKeepsInv ==
    ASSUME OutboxInv, Tick
    PROVE  /\ OutboxInv'
           /\ \A d \in Deliveries : outbox'[d].state = outbox[d].state
  <1>0. UNCHANGED <<tries, reached, excused>>
    BY DEF Tick, observed
  <1>1. ASSUME NEW d \in Deliveries
        PROVE  /\ IsRow(outbox'[d]) /\ outbox'[d].attempts = outbox[d].attempts
               /\ outbox'[d].state = outbox[d].state /\ RowFits(d, outbox[d])
    <2>1. outbox'[d] = Later(outbox[d]) /\ RowFits(d, outbox[d])
      BY DEF Tick, OutboxInv, RowsAreFormed
    <2> QED BY <2>1, LaterFits DEF RowFits
  <1>2. RowsAreFormed'
    <2>1. DOMAIN outbox' = Deliveries
      BY DEF Tick
    <2>2. \A d \in Deliveries :
            /\ IsRow(outbox'[d]) /\ outbox'[d].attempts <= tries[d]
            /\ outbox'[d].state = "owed" => outbox'[d].attempts < MaxDeliveryAttempts
      BY <1>1 DEF RowFits
    <2> QED BY <1>0, <2>1, <2>2 DEF OutboxInv, RowsAreFormed, RowFits
  <1>3. DOMAIN worker' = Workers
    BY DEF Tick
  <1>4. ASSUME NEW w \in Workers
        PROVE  /\ WorkerFits(worker[w])'
               /\ worker'[w].pc = worker[w].pc /\ worker'[w].at = worker[w].at
               /\ \A d \in Deliveries :
                    /\ IsRow(worker'[w].copies[d])
                    /\ worker'[w].copies[d].attempts = worker[w].copies[d].attempts
                    /\ worker'[w].copies[d].state = worker[w].copies[d].state
    <2>1. /\ WorkerFits(worker[w])
          /\ \A d \in Deliveries : IsRow(worker[w].copies[d])
      BY DEF OutboxInv, WorkersAreFormed, CopyFits, RowFits
    <2>2. CASE worker[w].pc # "saving"
      <3>1. worker'[w] = worker[w]
        BY <2>2 DEF Tick
      <3> QED BY <1>0, <2>1, <3>1 DEF WorkerFits
    <2>3. CASE worker[w].pc = "saving"
      <3> DEFINE a == worker[w].at
                 L == Later(worker[w].copies[a])
                 v == [worker[w] EXCEPT !.copies[a] = L]
      <3>1. worker'[w] = v /\ a \in Deliveries /\ worker[w].copies[a].state # "absent"
        BY <2>1, <2>3 DEF Tick, WorkerFits
      <3>2. /\ IsRow(L) /\ L.attempts = worker[w].copies[a].attempts
            /\ L.state = worker[w].copies[a].state
        BY <2>1, <3>1, LaterFits
      <3> HIDE DEF L
      <3>3. /\ v \in [pc : {"between", "pushing", "saving"}, copies : {v.copies},
                      at : Deliveries \cup {<<>>}, targets : SUBSET Endpoints,
                      pushed : BOOLEAN]
            /\ v.pc = "saving" /\ v.at = a /\ v.pushed = worker[w].pushed
            /\ v.copies = [worker[w].copies EXCEPT ![a] = L]
        BY <2>1, <2>3 DEF WorkerFits
      <3>4. /\ DOMAIN v.copies = Deliveries /\ v.copies[a] = L
            /\ \A d \in Deliveries \ {a} : v.copies[d] = worker[w].copies[d]
        BY <2>1, <3>1, <3>3 DEF WorkerFits
      <3> HIDE DEF v
      <3>5. ~v.pushed
        BY <2>1, <2>3, <3>3 DEF WorkerFits
      <3>6. WorkerFits(worker[w])'
        BY <3>1, <3>2, <3>3, <3>4, <3>5 DEF WorkerFits
      <3> QED BY <2>1, <2>3, <3>1, <3>2, <3>3, <3>4, <3>6
    <2> QED BY <2>2, <2>3
  <1>5. ASSUME NEW w \in Workers, NEW d \in Deliveries
        PROVE  CopyFits(w, d, worker[w].copies[d])'
    <2>1. CopyFits(w, d, worker[w].copies[d])
      BY DEF OutboxInv, WorkersAreFormed
    <2>2. /\ IsRow(worker'[w].copies[d])
          /\ worker'[w].copies[d].attempts = worker[w].copies[d].attempts
          /\ worker'[w].copies[d].state = worker[w].copies[d].state
          /\ worker'[w].pc = worker[w].pc /\ worker'[w].at = worker[w].at
          /\ outbox'[d].state = outbox[d].state
      BY <1>1, <1>4
    <2> QED BY <1>0, <2>1, <2>2 DEF CopyFits, RowFits
  <1> QED BY <1>1, <1>2, <1>3, <1>4, <1>5 DEF OutboxInv, WorkersAreFormed

-----------------------------------------------------------------------------
LEMMA InitEstablishes ==
    ASSUME OutboxInit
    PROVE  OutboxInv
  <1>1. RowsAreFormed
    BY NoDeliveryFits, OutboxAssumption DEF OutboxInit, RowsAreFormed, RowFits
  <1>2. ASSUME NEW w \in Workers, NEW d \in Deliveries
        PROVE  CopyFits(w, d, worker[w].copies[d])
    <2>1. worker[w].copies[d] = NoDelivery /\ tries[d] = 0
      BY IdleWorkerFits DEF OutboxInit
    <2> QED BY <2>1, NoDeliveryFits DEF CopyFits, RowFits
  <1>3. WorkersAreFormed
    BY <1>2, IdleWorkerFits DEF OutboxInit, WorkersAreFormed
  <1> QED BY <1>1, <1>3 DEF OutboxInv

(* The steps that neither the rows nor the workers notice. *)
PeopleStep ==
    \/ \E n \in Notices : Notify(n) \/ QueueingFails(n)
    \/ \E u \in Users : MarkAllRead(u) \/ VerifyAddress(u)
    \/ \E u \in Users, e \in Endpoints : Subscribe(u, e) \/ Unsubscribe(u, e)
    \/ \E e \in Endpoints : ForgetEndpoint(e)

LEMMA PeopleChangeNoRow ==
    ASSUME PeopleStep
    PROVE  UNCHANGED <<outbox, worker, tries, reached, excused>>
  BY DEF PeopleStep, Notify, QueueingFails, MarkAllRead, VerifyAddress, Subscribe,
         Unsubscribe, ForgetEndpoint, observed

LEMMA StepKeepsInv ==
    ASSUME OutboxInv, [OutboxNext]_outboxVars
    PROVE  OutboxInv'
  <1>1. CASE PeopleStep
    BY <1>1, PeopleChangeNoRow, StutterKeepsInv
  <1>2. CASE UNCHANGED outboxVars
    BY <1>2, StutterKeepsInv DEF outboxVars
  <1>3. ASSUME NEW n \in Notices, QueueDeliveries(n)
        PROVE  OutboxInv'
    BY <1>3, QueueDeliveriesKeepsInv
  <1>4. ASSUME NEW w \in Workers, TakeDue(w) \/ TakeDueUnacknowledged(w) \/ WorkerCrash(w)
        PROVE  OutboxInv'
    BY <1>4, TakeDueKeepsInv, TakeDueUnacknowledgedKeepsInv, WorkerCrashKeepsInv
  <1>5. ASSUME NEW w \in Workers, Attempt(w) \/ \E d \in Deliveries : AttemptFails(w, d)
        PROVE  OutboxInv'
    BY <1>5, AttemptKeepsInv, ListTargetsKeepsInv, PushKeepsInv, SendPushKeepsInv DEF Attempt
  <1>6. ASSUME NEW w \in Workers, Save(w) \/ SaveFails(w)
        PROVE  OutboxInv'
    <2>1. /\ worker[w].pc = "saving" /\ Finished(w) /\ UNCHANGED <<tries, reached, excused>>
          /\ \/ outbox' = outbox
             \/ outbox' = [outbox EXCEPT ![worker[w].at] = worker[w].copies[worker[w].at]]
      BY <1>6 DEF Save, SaveFails, observed
    <2> QED BY <2>1, FinishedKeepsInv
  <1> QED BY <1>1, <1>2, <1>3, <1>4, <1>5, <1>6, TickKeepsInv DEF OutboxNext, PeopleStep

(* The rows and the workers' copies of them fit together in every state. *)
THEOREM OutboxInvHolds == OutboxSpec => []OutboxInv
  <1>1. OutboxInit => OutboxInv
    BY InitEstablishes
  <1>2. OutboxInv /\ [OutboxNext]_outboxVars => OutboxInv'
    BY StepKeepsInv
  <1> QED BY <1>1, <1>2, PTL DEF OutboxSpec

-----------------------------------------------------------------------------
(* Induction over the naturals, for sets: the library states it for operators, *)
(* which cannot be instantiated here, so it is drawn from the well-foundedness *)
(* of their order.                                                             *)

Less == {p \in Nat \X Nat : p[1] < p[2]}

LEMMA LeastExists ==
    ASSUME NEW T \in SUBSET Nat, T # {}
    PROVE  \E m \in T : \A k \in T : m <= k
  <1>1. Less = OpToRel(<, Nat)
    BY DEF Less, OpToRel
  <1>2. PICK m \in T : \A k \in T : ~(<<k, m>> \in Less)
    BY <1>1, NatLessThanWellFounded, WFMin
  <1>3. ASSUME NEW k \in T
        PROVE  m <= k
    <2>1. <<k, m>> \notin Less
      BY <1>2
    <2>2. <<k, m>> \in Nat \X Nat /\ <<k, m>>[1] = k /\ <<k, m>>[2] = m
      OBVIOUS
    <2>3. ~(k < m)
      BY <2>1, <2>2 DEF Less
    <2> QED BY <2>3
  <1> QED BY <1>3

LEMMA SetInduction ==
    ASSUME NEW S, 0 \in S, \A n \in Nat : n \in S => n + 1 \in S
    PROVE  Nat \subseteq S
  <1> SUFFICES ASSUME ~(Nat \subseteq S)
               PROVE  FALSE
    OBVIOUS
  <1>1. Nat \ S # {} /\ Nat \ S \in SUBSET Nat
    OBVIOUS
  <1>2. PICK m \in Nat \ S : \A k \in Nat \ S : m <= k
    BY <1>1, LeastExists
  <1>3. m # 0 /\ m \in Nat
    OBVIOUS
  <1>4. m - 1 \in Nat /\ m - 1 \notin Nat \ S
    BY <1>2, <1>3
  <1> QED BY <1>3, <1>4

-----------------------------------------------------------------------------
(* RetryBackoff, defined by recursion, is the function its definition means. *)

\* The waits after up to n attempts.
Doubles(f, n) ==
    /\ f \in [0 .. n -> Nat]
    /\ \A i \in 0 .. n : f[i] = IF i <= 1 THEN BaseRetryDelay ELSE 2 * f[i - 1]

LEMMA DoublingExists == \A n \in Nat : \E f : Doubles(f, n)
  <1> DEFINE S == {n \in Nat : \E f : Doubles(f, n)}
  <1>1. 0 \in S
    <2>1. Doubles([i \in 0 .. 0 |-> BaseRetryDelay], 0)
      BY OutboxAssumption DEF Doubles
    <2> QED BY <2>1
  <1>2. ASSUME NEW n \in Nat, n \in S
        PROVE  n + 1 \in S
    <2>1. PICK f : Doubles(f, n)
      BY <1>2
    <2> DEFINE g == [i \in 0 .. n + 1 |->
                       IF i <= n THEN f[i] ELSE IF i <= 1 THEN BaseRetryDelay ELSE 2 * f[n]]
    <2>2. Doubles(g, n + 1)
      BY <2>1, OutboxAssumption DEF Doubles
    <2> QED BY <2>2
  <1> HIDE DEF S
  <1>3. Nat \subseteq S
    BY <1>1, <1>2, SetInduction
  <1> QED BY <1>3 DEF S

LEMMA DoublingIsUnique ==
    ASSUME NEW a \in Nat, NEW b \in Nat, NEW f, NEW g, Doubles(f, a), Doubles(g, b)
    PROVE  \A i \in Nat : i <= a /\ i <= b => f[i] = g[i]
  <1> DEFINE S == {i \in Nat : i <= a /\ i <= b => f[i] = g[i]}
  <1>1. 0 \in S
    BY DEF Doubles
  <1>2. ASSUME NEW i \in Nat, i \in S, i + 1 <= a, i + 1 <= b
        PROVE  f[i + 1] = g[i + 1]
    <2>1. i + 1 \in 0 .. a /\ i + 1 \in 0 .. b /\ (i + 1) - 1 = i /\ f[i] = g[i]
      BY <1>2
    <2>2. f[i + 1] = IF i + 1 <= 1 THEN BaseRetryDelay ELSE 2 * f[(i + 1) - 1]
      BY <2>1 DEF Doubles
    <2>3. g[i + 1] = IF i + 1 <= 1 THEN BaseRetryDelay ELSE 2 * g[(i + 1) - 1]
      BY <2>1 DEF Doubles
    <2> QED BY <2>1, <2>2, <2>3
  <1>3. \A i \in Nat : i \in S => i + 1 \in S
    BY <1>2
  <1> HIDE DEF S
  <1>4. Nat \subseteq S
    BY <1>1, <1>3, SetInduction
  <1> QED BY <1>4 DEF S

(* The wait is BaseRetryDelay, doubled for every attempt after the first. *)
LEMMA RetryBackoffDoubles ==
    RetryBackoff = [n \in Nat |->
                      IF n <= 1 THEN BaseRetryDelay ELSE 2 * RetryBackoff[n - 1]]
  <1> DEFINE h(n) == CHOOSE f : Doubles(f, n)
             F == [n \in Nat |-> h(n)[n]]
  <1>1. \A n \in Nat : Doubles(h(n), n)
    BY DoublingExists
  <1> HIDE DEF h
  <1>2. ASSUME NEW n \in Nat
        PROVE  F[n] = IF n <= 1 THEN BaseRetryDelay ELSE 2 * F[n - 1]
    <2>1. CASE n <= 1
      BY <1>1, <2>1 DEF Doubles
    <2>2. CASE ~(n <= 1)
      <3>1. n - 1 \in Nat
        BY <2>2
      <3>2. h(n)[n - 1] = h(n - 1)[n - 1]
        BY <1>1, <3>1, DoublingIsUnique
      <3>3. h(n)[n] = 2 * h(n)[n - 1]
        BY <1>1, <2>2 DEF Doubles
      <3> QED BY <2>2, <3>1, <3>2, <3>3
    <2> QED BY <2>1, <2>2
  <1>3. F = [n \in Nat |-> IF n <= 1 THEN BaseRetryDelay ELSE 2 * F[n - 1]]
    BY <1>2
  <1> HIDE DEF F
  <1>4. \E R : R = [n \in Nat |-> IF n <= 1 THEN BaseRetryDelay ELSE 2 * R[n - 1]]
    BY <1>3
  <1> QED BY <1>4, Zenon DEF RetryBackoff

(* However many attempts failed, RetryBackoff returns a wait. *)
LEMMA RetryBackoffIsDuration == \A n \in Nat : RetryBackoff[n] \in Nat
  <1> DEFINE S == {n \in Nat : RetryBackoff[n] \in Nat}
  <1>1. ASSUME NEW n \in Nat
        PROVE  RetryBackoff[n] = IF n <= 1 THEN BaseRetryDelay ELSE 2 * RetryBackoff[n - 1]
    <2> DEFINE G == [k \in Nat |->
                       IF k <= 1 THEN BaseRetryDelay ELSE 2 * RetryBackoff[k - 1]]
    <2>1. RetryBackoff[n] = G[n]
      BY RetryBackoffDoubles, Zenon
    <2> HIDE DEF RetryBackoff
    <2> QED BY <2>1
  <1>2. 0 \in S
    BY <1>1, OutboxAssumption
  <1>3. ASSUME NEW n \in Nat, n \in S
        PROVE  n + 1 \in S
    <2>1. n + 1 \in Nat /\ (n + 1) - 1 = n
      OBVIOUS
    <2>2. RetryBackoff[n + 1] = IF n + 1 <= 1 THEN BaseRetryDelay ELSE 2 * RetryBackoff[n]
      BY <1>1, <2>1
    <2> QED BY <1>3, <2>1, <2>2, OutboxAssumption
  <1> HIDE DEF S
  <1>4. Nat \subseteq S
    BY <1>2, <1>3, SetInduction
  <1> QED BY <1>4 DEF S

(* The longest a row waits: no delay the code schedules is over MaxDelay. *)
LEMMA DelaysAreBounded ==
    /\ MaxDelay \in Nat /\ DeliveryLease <= MaxDelay
    /\ \A n \in 1 .. MaxDeliveryAttempts - 1 : RetryBackoff[n] <= MaxDelay
  <1> DEFINE upTo(n) == {DeliveryLease} \cup {RetryBackoff[k] : k \in 1 .. n}
             S == {n \in Nat : \E m \in upTo(n) : \A x \in upTo(n) : m >= x}
  <1>1. \A n \in Nat : upTo(n) \subseteq Nat
    BY RetryBackoffIsDuration, OutboxAssumption
  <1>2. 0 \in S
    BY OutboxAssumption
  <1>3. ASSUME NEW n \in Nat, n \in S
        PROVE  n + 1 \in S
    <2>1. PICK m \in upTo(n) : \A x \in upTo(n) : m >= x
      BY <1>3
    <2>2. upTo(n + 1) = upTo(n) \cup {RetryBackoff[n + 1]}
      <3>1. 1 .. n + 1 = (1 .. n) \cup {n + 1}
        OBVIOUS
      <3> QED BY <3>1
    <2>3. m \in Nat /\ RetryBackoff[n + 1] \in Nat /\ upTo(n) \subseteq Nat
      BY <1>1, RetryBackoffIsDuration
    <2> HIDE DEF upTo
    <2>4. CASE m >= RetryBackoff[n + 1]
      BY <2>1, <2>2, <2>4
    <2>5. CASE ~(m >= RetryBackoff[n + 1])
      <3>1. \A x \in upTo(n + 1) : RetryBackoff[n + 1] >= x
        BY <2>1, <2>2, <2>3, <2>5
      <3> QED BY <2>2, <3>1
    <2> QED BY <2>4, <2>5
  <1>4. MaxDeliveryAttempts - 1 \in Nat
    BY OutboxAssumption
  <1> DEFINE D == upTo(MaxDeliveryAttempts - 1)
  <1>5. \E m \in D : \A x \in D : m >= x
    <2> HIDE DEF upTo, D
    <2>1. Nat \subseteq S
      <3> HIDE DEF S
      <3> QED BY <1>2, <1>3, SetInduction
    <2> QED BY <1>4, <2>1 DEF D
  <1>6. MaxDelay = CHOOSE m \in D : \A x \in D : m >= x
    BY DEF MaxDelay, Max
  <1>7. D \subseteq Nat
    BY <1>1, <1>4
  <1>8. /\ DeliveryLease \in D
        /\ \A n \in 1 .. MaxDeliveryAttempts - 1 : RetryBackoff[n] \in D
    OBVIOUS
  <1> HIDE DEF D
  <1>9. MaxDelay \in D /\ \A x \in D : MaxDelay >= x
    BY <1>5, <1>6
  <1> QED BY <1>7, <1>8, <1>9

-----------------------------------------------------------------------------
(* The rows and their copies keep their type, due times included. *)

LEMMA MaxOfTwo ==
    ASSUME NEW a \in Int, NEW b \in Int
    PROVE  Max({a, b}) = IF a >= b THEN a ELSE b
  <1>1. CASE a >= b
    <2>1. \A m \in {a, b} : (\A x \in {a, b} : m >= x) => m = a
      BY <1>1
    <2>2. a \in {a, b} /\ \A x \in {a, b} : a >= x
      BY <1>1
    <2> QED BY <1>1, <2>1, <2>2 DEF Max
  <1>2. CASE ~(a >= b)
    <2>1. \A m \in {a, b} : (\A x \in {a, b} : m >= x) => m = b
      BY <1>2
    <2>2. b \in {a, b} /\ \A x \in {a, b} : b >= x
      BY <1>2
    <2> QED BY <1>2, <2>1, <2>2 DEF Max
  <1> QED BY <1>1, <1>2

(* A row stays one when it is rescheduled within the bounds. *)
LEMMA RescheduledTyped ==
    ASSUME NEW row \in Delivery, NEW x \in -MaxLag .. MaxDelay
    PROVE  [row EXCEPT !.due = x] \in Delivery
  BY DEF Delivery

LEMMA NewRowsTyped ==
    0 \in -MaxLag .. MaxDelay /\ NoDelivery \in Delivery /\ NewDelivery \in Delivery
  <1>1. 0 \in -MaxLag .. MaxDelay /\ 0 \in 0 .. MaxDeliveryAttempts
    BY OutboxAssumption, DelaysAreBounded
  <1> QED BY <1>1 DEF NoDelivery, NewDelivery, Delivery

(* The lease is never longer than MaxDelay, nor in the past by more than MaxLag. *)
LEMMA LeasedTyped ==
    ASSUME NEW row \in Delivery, NEW lag \in 0 .. MaxLag
    PROVE  Leased(row, lag) \in Delivery
  <1> DEFINE x == Max({DeliveryLease - lag, -MaxLag})
  <1>1. x = IF DeliveryLease - lag >= -MaxLag THEN DeliveryLease - lag ELSE -MaxLag
    BY OutboxAssumption, MaxOfTwo
  <1>2. x \in -MaxLag .. MaxDelay
    <2> HIDE DEF x
    <2> QED BY <1>1, OutboxAssumption, DelaysAreBounded
  <1>3. Leased(row, lag) = [row EXCEPT !.due = x]
    BY DEF Leased
  <1> HIDE DEF x
  <1> QED BY <1>2, <1>3, RescheduledTyped

LEMMA LaterTyped ==
    ASSUME NEW row \in Delivery
    PROVE  Later(row) \in Delivery
  <1>1. CASE row.state = "owed"
    <2> DEFINE x == Max({row.due - 1, -MaxLag})
    <2>1. row.due \in -MaxLag .. MaxDelay
      BY DEF Delivery
    <2>2. x = IF row.due - 1 >= -MaxLag THEN row.due - 1 ELSE -MaxLag
      BY <2>1, OutboxAssumption, DelaysAreBounded, MaxOfTwo
    <2>3. x \in -MaxLag .. MaxDelay
      <3> HIDE DEF x
      <3> QED BY <2>1, <2>2, OutboxAssumption, DelaysAreBounded
    <2>4. Later(row) = [row EXCEPT !.due = x]
      BY <1>1 DEF Later
    <2> HIDE DEF x
    <2> QED BY <2>3, <2>4, RescheduledTyped
  <1>2. CASE row.state # "owed"
    BY <1>2 DEF Later
  <1> QED BY <1>1, <1>2

(* The outcomes of an attempt on a row that has one left: the next try is due *)
(* within MaxDelay, and the attempts stay within their maximum.               *)
LEMMA OutcomesTyped ==
    ASSUME NEW row \in Delivery, row.attempts < MaxDeliveryAttempts
    PROVE  Failed(row) \in Delivery /\ Sent(row) \in Delivery /\ GiveUp(row) \in Delivery
  <1>1. row.attempts \in Nat /\ row.attempts + 1 \in 0 .. MaxDeliveryAttempts
    BY OutboxAssumption DEF Delivery
  <1>2. Sent(row) \in Delivery
    BY DEF Sent, Delivery
  <1>3. GiveUp(row) \in Delivery
    BY <1>1 DEF GiveUp, Delivery
  <1>4. CASE row.attempts + 1 >= MaxDeliveryAttempts
    BY <1>2, <1>3, <1>4 DEF Failed, GiveUp
  <1>5. CASE ~(row.attempts + 1 >= MaxDeliveryAttempts)
    <2> DEFINE x == RetryBackoff[row.attempts + 1]
    <2>1. row.attempts + 1 \in 1 .. MaxDeliveryAttempts - 1
      BY <1>1, <1>5, OutboxAssumption
    <2>2. x \in -MaxLag .. MaxDelay
      <3>1. x \in Nat /\ x <= MaxDelay
        BY <2>1, RetryBackoffIsDuration, DelaysAreBounded
      <3> HIDE DEF x
      <3> QED BY <3>1, OutboxAssumption, DelaysAreBounded
    <2>3. Failed(row) = [row EXCEPT !.attempts = @ + 1, !.due = x]
      BY <1>5 DEF Failed
    <2> HIDE DEF x
    <2>4. Failed(row) \in Delivery
      BY <1>1, <2>2, <2>3 DEF Delivery
    <2> QED BY <1>2, <1>3, <2>4
  <1> QED BY <1>4, <1>5

(* The rows that a claim takes. *)
LEMMA ClaimedTyped ==
    ASSUME OutboxTypeOK, NEW lag \in 0 .. MaxLag, NEW taken,
           outbox' = [d \in Deliveries |->
                        IF d \in taken THEN Leased(outbox[d], lag) ELSE outbox[d]]
    PROVE  outbox' \in [Deliveries -> Delivery]
  <1>1. ASSUME NEW d \in Deliveries
        PROVE  outbox[d] \in Delivery /\ Leased(outbox[d], lag) \in Delivery
    <2>1. outbox[d] \in Delivery
      BY DEF OutboxTypeOK
    <2> QED BY <2>1, LeasedTyped
  <1> HIDE DEF Leased, Delivery
  <1> QED BY <1>1

LEMMA TakeDueTyped ==
    ASSUME OutboxTypeOK, NEW w \in Workers, TakeDue(w) \/ TakeDueUnacknowledged(w)
    PROVE  OutboxTypeOK'
  <1>1. outbox' \in [Deliveries -> Delivery]
    BY ClaimedTyped DEF TakeDue, TakeDueUnacknowledged
  <1>2. CASE TakeDue(w)
    <2>1. PICK lag \in 0 .. MaxLag : \E taken \in Claims(lag) :
            worker' = [worker EXCEPT ![w].copies =
                         [d \in Deliveries |->
                             IF d \in taken THEN [outbox[d] EXCEPT !.due = 0] ELSE NoDelivery]]
      BY <1>2 DEF TakeDue
    <2>2. PICK taken \in Claims(lag) :
            worker' = [worker EXCEPT ![w].copies =
                         [d \in Deliveries |->
                             IF d \in taken THEN [outbox[d] EXCEPT !.due = 0] ELSE NoDelivery]]
      BY <2>1
    <2> DEFINE copies == [d \in Deliveries |->
                             IF d \in taken THEN [outbox[d] EXCEPT !.due = 0] ELSE NoDelivery]
    <2>3. ASSUME NEW d \in Deliveries
          PROVE  [outbox[d] EXCEPT !.due = 0] \in Delivery
      <3>1. outbox[d] \in Delivery
        BY DEF OutboxTypeOK
      <3> QED BY <3>1, NewRowsTyped, RescheduledTyped
    <2>4. copies \in [Deliveries -> Delivery]
      <3> HIDE DEF Delivery
      <3> QED BY <2>3, NewRowsTyped
    <2>5. worker' = [worker EXCEPT ![w].copies = copies]
      BY <2>2
    <2> HIDE DEF copies
    <2>6. worker' \in [Workers -> WorkerState]
      BY <2>4, <2>5 DEF OutboxTypeOK, WorkerState
    <2> QED BY <1>1, <1>2, <2>6 DEF TakeDue, OutboxTypeOK, peopleVars, observed
  <1>3. CASE TakeDueUnacknowledged(w)
    BY <1>1, <1>3 DEF TakeDueUnacknowledged, OutboxTypeOK, peopleVars, observed
  <1> QED BY <1>2, <1>3

(* A worker in another state. *)
LEMMA WorkerTyped ==
    ASSUME OutboxTypeOK, NEW w \in Workers, NEW v \in WorkerState,
           worker' = [worker EXCEPT ![w] = v]
    PROVE  worker' \in [Workers -> WorkerState]
  <1> HIDE DEF WorkerState
  <1> QED BY DEF OutboxTypeOK

(* What deliver leaves in the worker's hands. *)
LEMMA OutcomeTyped ==
    ASSUME OutboxTypeOK, NEW w \in Workers, NEW d \in Deliveries, NEW copy \in Delivery,
           Outcome(w, d, copy)
    PROVE  /\ worker' \in [Workers -> WorkerState]
           /\ tries' \in [Deliveries -> 0 .. MaxDeliveryAttempts]
  <1>1. worker' \in [Workers -> WorkerState]
    <2> DEFINE v == [worker[w] EXCEPT !.pc = "saving", !.at = d, !.copies[d] = copy,
                                      !.pushed = FALSE]
    <2>1. worker[w] \in WorkerState /\ worker \in [Workers -> WorkerState]
      BY DEF OutboxTypeOK
    <2>2. worker' = [worker EXCEPT ![w] = v]
      BY <2>1 DEF Outcome, WorkerState
    <2>3. v \in WorkerState
      <3> HIDE DEF Delivery
      <3> QED BY <2>1 DEF WorkerState
    <2> HIDE DEF v
    <2> QED BY <2>2, <2>3, WorkerTyped
  <1>2. tries' \in [Deliveries -> 0 .. MaxDeliveryAttempts]
    BY OutboxAssumption DEF Outcome, OutboxTypeOK
  <1> QED BY <1>1, <1>2

(* An attempt: its outcome is one of the three on a copy that has one left. *)
LEMMA EndedTyped ==
    ASSUME OutboxTypeOK, OutboxInv, NEW w \in Workers, NEW d \in Deliveries,
           worker[w].pc # "saving", worker[w].copies[d].state # "absent",
           \E copy \in {Failed(worker[w].copies[d]), Sent(worker[w].copies[d]),
                        GiveUp(worker[w].copies[d])} : Outcome(w, d, copy)
    PROVE  /\ worker' \in [Workers -> WorkerState]
           /\ tries' \in [Deliveries -> 0 .. MaxDeliveryAttempts]
  <1> DEFINE c == worker[w].copies[d]
  <1>1. c \in Delivery
    BY DEF OutboxTypeOK, WorkerState
  <1>2. c.attempts < MaxDeliveryAttempts
    BY InHandIsOwed
  <1>3. Failed(c) \in Delivery /\ Sent(c) \in Delivery /\ GiveUp(c) \in Delivery
    <2> HIDE DEF c
    <2> QED BY <1>1, <1>2, OutcomesTyped
  <1>4. PICK copy \in {Failed(c), Sent(c), GiveUp(c)} : Outcome(w, d, copy)
    OBVIOUS
  <1>5. copy \in Delivery
    BY <1>3, <1>4
  <1> QED BY <1>4, <1>5, OutcomeTyped

LEMMA AttemptTyped ==
    ASSUME OutboxTypeOK, OutboxInv, NEW w \in Workers,
           Attempt(w) \/ \E d \in Deliveries : AttemptFails(w, d)
    PROVE  OutboxTypeOK'
  <1>1. ASSUME NEW d \in Deliveries, AttemptEmail(w, d) \/ AttemptFails(w, d)
        PROVE  OutboxTypeOK'
    <2>1. /\ worker[w].pc # "saving" /\ worker[w].copies[d].state # "absent"
          /\ \E copy \in {Failed(worker[w].copies[d]), Sent(worker[w].copies[d]),
                          GiveUp(worker[w].copies[d])} : Outcome(w, d, copy)
      BY <1>1 DEF AttemptEmail, AttemptFails, InHand
    <2>2. /\ worker' \in [Workers -> WorkerState]
          /\ tries' \in [Deliveries -> 0 .. MaxDeliveryAttempts]
      BY <2>1, EndedTyped
    <2>3. /\ UNCHANGED <<peopleVars, outbox, crashes>>
          /\ reached' \in {reached, reached \cup {d}} /\ excused' \in {excused, excused \cup {d}}
      BY <1>1 DEF AttemptEmail, AttemptFails
    <2> QED BY <2>2, <2>3 DEF OutboxTypeOK, peopleVars
  <1>2. ASSUME NEW d \in Deliveries, ListTargets(w, d)
        PROVE  OutboxTypeOK'
    <2> DEFINE targets == {e \in Endpoints : subscriptions[e] = Recipient[d[1]]}
    <2>1. /\ worker[w].pc # "saving" /\ worker[w].copies[d].state # "absent"
          /\ UNCHANGED <<peopleVars, outbox, crashes, reached>>
      BY <1>2 DEF ListTargets, InHand
    <2>2. CASE Outcome(w, d, Sent(worker[w].copies[d])) /\ excused' = excused \cup {d}
      <3>1. /\ worker' \in [Workers -> WorkerState]
            /\ tries' \in [Deliveries -> 0 .. MaxDeliveryAttempts]
        BY <2>1, <2>2, EndedTyped
      <3> QED BY <2>1, <2>2, <3>1 DEF OutboxTypeOK, peopleVars
    <2>3. CASE /\ worker' = [worker EXCEPT ![w].pc = "pushing", ![w].at = d,
                                           ![w].targets = targets]
               /\ UNCHANGED <<tries, excused>>
      <3>1. targets \subseteq Endpoints
        OBVIOUS
      <3> HIDE DEF targets
      <3>2. worker' \in [Workers -> WorkerState]
        <4> DEFINE v == [worker[w] EXCEPT !.pc = "pushing", !.at = d, !.targets = targets]
        <4>1. worker[w] \in WorkerState /\ worker \in [Workers -> WorkerState]
          BY DEF OutboxTypeOK
        <4>2. worker' = [worker EXCEPT ![w] = v]
          BY <2>3, <4>1 DEF WorkerState
        <4>3. v \in WorkerState
          BY <3>1, <4>1 DEF WorkerState
        <4> HIDE DEF v
        <4> QED BY <4>2, <4>3, WorkerTyped
      <3> QED BY <2>1, <2>3, <3>2 DEF OutboxTypeOK, peopleVars
    <2> QED BY <1>2, <2>2, <2>3 DEF ListTargets
  <1>3. ASSUME NEW e \in Endpoints, Push(w, e)
        PROVE  OutboxTypeOK'
    <2>1. worker[w].at \in Deliveries
      BY <1>3 DEF Push, OutboxInv, WorkersAreFormed, WorkerFits
    <2>2. worker' \in [Workers -> WorkerState]
      <3> DEFINE v == [worker[w] EXCEPT !.targets = @ \ {e}]
                 u == [worker[w] EXCEPT !.targets = @ \ {e}, !.pushed = TRUE]
      <3>1. worker[w] \in WorkerState /\ worker \in [Workers -> WorkerState]
        BY DEF OutboxTypeOK
      <3>2. worker' = [worker EXCEPT ![w] = v] \/ worker' = [worker EXCEPT ![w] = u]
        BY <1>3, <3>1 DEF Push, WorkerState
      <3>3. v \in WorkerState /\ u \in WorkerState
        BY <3>1 DEF WorkerState
      <3> HIDE DEF v, u
      <3> QED BY <3>2, <3>3, WorkerTyped
    <2>3. subscriptions' \in [Endpoints -> Users \cup {NoUser}]
      BY <1>3 DEF Push, OutboxTypeOK
    <2>4. reached' \subseteq Deliveries
      BY <1>3, <2>1 DEF Push, OutboxTypeOK
    <2> QED BY <1>3, <2>2, <2>3, <2>4 DEF Push, OutboxTypeOK
  <1>4. CASE SendPush(w)
    <2> DEFINE d == worker[w].at
    <2>1. d \in Deliveries /\ worker[w].copies[d].state # "absent" /\ worker[w].pc # "saving"
      BY <1>4 DEF SendPush, OutboxInv, WorkersAreFormed, WorkerFits
    <2>2. /\ UNCHANGED <<peopleVars, outbox, crashes, reached, excused>>
          /\ \E copy \in {Failed(worker[w].copies[d]), Sent(worker[w].copies[d]),
                          GiveUp(worker[w].copies[d])} : Outcome(w, d, copy)
      BY <1>4 DEF SendPush
    <2> HIDE DEF d
    <2>3. /\ worker' \in [Workers -> WorkerState]
          /\ tries' \in [Deliveries -> 0 .. MaxDeliveryAttempts]
      BY <2>1, <2>2, EndedTyped
    <2> QED BY <2>2, <2>3 DEF OutboxTypeOK, peopleVars
  <1> QED BY <1>1, <1>2, <1>3, <1>4 DEF Attempt

(* A copy that is saved or dropped, and a worker that dies. *)
LEMMA SaveTyped ==
    ASSUME OutboxTypeOK, OutboxInv, NEW w \in Workers,
           Save(w) \/ SaveFails(w) \/ WorkerCrash(w)
    PROVE  OutboxTypeOK'
  <1>1. CASE WorkerCrash(w)
    <2>1. IdleWorker \in WorkerState
      BY NewRowsTyped DEF IdleWorker, WorkerState
    <2>2. worker' \in [Workers -> WorkerState]
      BY <1>1, <2>1 DEF WorkerCrash, OutboxTypeOK
    <2>3. crashes' \in 0 .. MaxCrashes
      BY <1>1, OutboxAssumption DEF WorkerCrash, OutboxTypeOK
    <2> QED BY <1>1, <2>2, <2>3 DEF WorkerCrash, OutboxTypeOK, peopleVars, observed
  <1>2. CASE Save(w) \/ SaveFails(w)
    <2>1. worker[w].pc = "saving" /\ Finished(w) /\ UNCHANGED <<peopleVars, crashes, observed>>
      BY <1>2 DEF Save, SaveFails
    <2>2. worker[w].at \in Deliveries /\ worker[w].copies \in [Deliveries -> Delivery]
      BY <2>1 DEF OutboxInv, WorkersAreFormed, WorkerFits, OutboxTypeOK, WorkerState
    <2>3. worker' \in [Workers -> WorkerState]
      <3> DEFINE a == worker[w].at
                 v == [worker[w] EXCEPT !.pc = "between", !.at = <<>>,
                                        !.copies[a] = NoDelivery]
      <3>1. worker[w] \in WorkerState /\ worker \in [Workers -> WorkerState]
        BY DEF OutboxTypeOK
      <3>2. worker' = [worker EXCEPT ![w] = v]
        BY <2>1, <3>1 DEF Finished, WorkerState
      <3>3. v \in WorkerState
        <4> HIDE DEF Delivery, a
        <4> QED BY <3>1, NewRowsTyped DEF WorkerState
      <3> HIDE DEF v
      <3> QED BY <3>2, <3>3, WorkerTyped
    <2>4. outbox' \in [Deliveries -> Delivery]
      <3> HIDE DEF Delivery
      <3> QED BY <1>2, <2>2 DEF Save, SaveFails, OutboxTypeOK
    <2> QED BY <2>1, <2>3, <2>4 DEF OutboxTypeOK, peopleVars, observed
  <1> QED BY <1>1, <1>2

LEMMA TickTyped ==
    ASSUME OutboxTypeOK, OutboxInv, Tick
    PROVE  OutboxTypeOK'
  <1>1. outbox' \in [Deliveries -> Delivery]
    <2>1. \A d \in Deliveries : Later(outbox[d]) \in Delivery
      BY LaterTyped DEF OutboxTypeOK
    <2> HIDE DEF Later, Delivery
    <2> QED BY <2>1 DEF Tick
  <1>2. ASSUME NEW w \in Workers
        PROVE  worker'[w] \in WorkerState
    <2>1. worker[w] \in WorkerState
      BY DEF OutboxTypeOK
    <2>2. CASE worker[w].pc = "saving"
      <3> DEFINE a == worker[w].at
                 c == Later(worker[w].copies[a])
      <3>1. a \in Deliveries /\ worker[w].copies[a] \in Delivery
        BY <2>1, <2>2 DEF OutboxInv, WorkersAreFormed, WorkerFits, WorkerState
      <3>2. c \in Delivery
        BY <3>1, LaterTyped
      <3>3. worker'[w] = [worker[w] EXCEPT !.copies[a] = c]
        BY <2>2 DEF Tick
      <3> HIDE DEF a, c
      <3> QED BY <2>1, <3>1, <3>2, <3>3 DEF WorkerState
    <2>3. CASE worker[w].pc # "saving"
      BY <2>1, <2>3 DEF Tick
    <2> QED BY <2>2, <2>3
  <1>3. worker' \in [Workers -> WorkerState]
    <2> HIDE DEF WorkerState
    <2>1. worker' = [w \in Workers |-> worker'[w]]
      BY DEF Tick
    <2> QED BY <1>2, <2>1
  <1> QED BY <1>1, <1>3 DEF Tick, OutboxTypeOK, peopleVars, observed

(* The notices, the subscriptions and the addresses, and what a withdrawal queues. *)
LEMMA PeopleTyped ==
    ASSUME OutboxTypeOK, PeopleStep \/ \E n \in Notices : QueueDeliveries(n)
    PROVE  OutboxTypeOK'
  <1>1. ASSUME NEW n \in Notices, QueueDeliveries(n)
        PROVE  OutboxTypeOK'
    <2>1. outbox' \in [Deliveries -> Delivery]
      <3> HIDE DEF Delivery
      <3> QED BY <1>1, NewRowsTyped DEF QueueDeliveries, OutboxTypeOK
    <2> QED BY <1>1, <2>1 DEF QueueDeliveries, OutboxTypeOK, observed
  <1>2. ASSUME NEW n \in Notices, Notify(n) \/ QueueingFails(n)
        PROVE  OutboxTypeOK'
    BY <1>2 DEF Notify, QueueingFails, OutboxTypeOK, observed
  <1>3. ASSUME NEW u \in Users, MarkAllRead(u) \/ VerifyAddress(u)
        PROVE  OutboxTypeOK'
    BY <1>3 DEF MarkAllRead, VerifyAddress, OutboxTypeOK, observed
  <1>4. ASSUME NEW u \in Users, NEW e \in Endpoints, Subscribe(u, e) \/ Unsubscribe(u, e)
        PROVE  OutboxTypeOK'
    BY <1>4 DEF Subscribe, Unsubscribe, OutboxTypeOK, observed
  <1>5. ASSUME NEW e \in Endpoints, ForgetEndpoint(e)
        PROVE  OutboxTypeOK'
    BY <1>5 DEF ForgetEndpoint, OutboxTypeOK, observed
  <1> QED BY <1>1, <1>2, <1>3, <1>4, <1>5 DEF PeopleStep

(* Every variable keeps its type: the attempts of a row stay within their       *)
(* maximum, and no due time the code schedules, by lease or by RetryBackoff, is *)
(* further off than MaxDelay.                                                   *)
THEOREM OutboxTypeCorrect == OutboxSpec => []OutboxTypeOK
  <1>1. OutboxInit => OutboxTypeOK
    <2> SUFFICES ASSUME OutboxInit
                 PROVE  OutboxTypeOK
      OBVIOUS
    <2>1. IdleWorker \in WorkerState
      BY NewRowsTyped DEF IdleWorker, WorkerState
    <2>2. outbox \in [Deliveries -> Delivery]
      BY NewRowsTyped DEF OutboxInit
    <2>3. crashes \in 0 .. MaxCrashes /\ tries \in [Deliveries -> 0 .. MaxDeliveryAttempts]
      BY OutboxAssumption DEF OutboxInit
    <2> QED BY <2>1, <2>2, <2>3 DEF OutboxInit, OutboxTypeOK
  <1>2. OutboxTypeOK /\ OutboxInv /\ [OutboxNext]_outboxVars => OutboxTypeOK'
    <2> SUFFICES ASSUME OutboxTypeOK, OutboxInv, [OutboxNext]_outboxVars
                 PROVE  OutboxTypeOK'
      OBVIOUS
    <2>1. CASE UNCHANGED outboxVars
      BY <2>1 DEF outboxVars, OutboxTypeOK
    <2>2. CASE PeopleStep \/ \E n \in Notices : QueueDeliveries(n)
      BY <2>2, PeopleTyped
    <2>3. CASE Tick
      BY <2>3, TickTyped
    <2>4. ASSUME NEW w \in Workers, TakeDue(w) \/ TakeDueUnacknowledged(w)
          PROVE  OutboxTypeOK'
      BY <2>4, TakeDueTyped
    <2>5. ASSUME NEW w \in Workers, Attempt(w) \/ \E d \in Deliveries : AttemptFails(w, d)
          PROVE  OutboxTypeOK'
      BY <2>5, AttemptTyped
    <2>6. ASSUME NEW w \in Workers, Save(w) \/ SaveFails(w) \/ WorkerCrash(w)
          PROVE  OutboxTypeOK'
      BY <2>6, SaveTyped
    <2> QED BY <2>1, <2>2, <2>3, <2>4, <2>5, <2>6 DEF OutboxNext, PeopleStep
  <1> QED BY <1>1, <1>2, OutboxInvHolds, PTL DEF OutboxSpec

-----------------------------------------------------------------------------
(* Step simulation: what each step is to the promise. *)

LEMMA QueueDeliveriesOwes ==
    ASSUME NEW n \in Notices, QueueDeliveries(n)
    PROVE  (\E D \in SUBSET Deliveries : P!OweAll(D)) \/ UNCHANGED P!promiseVars
  <1>0. PICK owed \in SUBSET Deliveries :
          owed = {d \in Deliveries : d[1] = n /\ d[2] \in channels
                                       /\ outbox[d].state = "absent"}
    OBVIOUS
  <1>1. \A d \in Deliveries :
          outbox'[d].state = IF d \in owed THEN "owed" ELSE outbox[d].state
    BY <1>0, NoDeliveryFits DEF QueueDeliveries
  <1>2. UNCHANGED <<tries, reached, excused>>
    BY DEF QueueDeliveries, observed
  <1>3. \A d \in owed : outbox[d].state = "absent"
    BY <1>0
  <1>4. CASE owed = {}
    BY <1>1, <1>2, <1>4 DEF P!promiseVars
  <1>5. CASE owed # {}
    <2>1. P!OweAll(owed)
      BY <1>1, <1>2, <1>3, <1>5 DEF P!OweAll
    <2> QED BY <2>1
  <1> QED BY <1>4, <1>5

(* Rescheduling a row is nothing to the promise. *)
LEMMA StateStays ==
    ASSUME UNCHANGED <<tries, reached, excused>>,
           \A d \in Deliveries : outbox'[d].state = outbox[d].state
    PROVE  UNCHANGED P!promiseVars
  BY DEF P!promiseVars

LEMMA LeasedStateStays ==
    ASSUME OutboxInv, NEW taken, NEW lag, UNCHANGED <<tries, reached, excused>>,
           outbox' = [d \in Deliveries |->
                        IF d \in taken THEN Leased(outbox[d], lag) ELSE outbox[d]]
    PROVE  UNCHANGED P!promiseVars
  <1>1. ASSUME NEW d \in Deliveries
        PROVE  Leased(outbox[d], lag).state = outbox[d].state
    <2>1. IsRow(outbox[d])
      BY DEF OutboxInv, RowsAreFormed, RowFits
    <2> DEFINE x == Max({DeliveryLease - lag, -MaxLag})
    <2>2. Leased(outbox[d], lag) = [outbox[d] EXCEPT !.due = x]
      BY DEF Leased
    <2>3. [outbox[d] EXCEPT !.due = x].state = outbox[d].state
      <3> HIDE DEF x
      <3> QED BY <2>1, DueFits
    <2> QED BY <2>2, <2>3
  <1>2. \A d \in Deliveries : outbox'[d].state = outbox[d].state
    <2> HIDE DEF Leased
    <2> QED BY <1>1
  <1> QED BY <1>2, StateStays

LEMMA OutcomeTries ==
    ASSUME OutboxInv, NEW w \in Workers, NEW d \in Deliveries, NEW copy,
           Outcome(w, d, copy), outbox' = outbox, worker[w].copies[d].state # "absent",
           reached' \in {reached, reached \cup {d}},
           excused' \in {excused, excused \cup {d}}
    PROVE  P!Try(d)
  <1>1. outbox[d].state # "absent"
    BY DEF OutboxInv, WorkersAreFormed, CopyFits
  <1> QED BY <1>1 DEF P!Try, Outcome

LEMMA AttemptTries ==
    ASSUME OutboxInv, NEW w \in Workers, NEW d \in Deliveries,
           AttemptEmail(w, d) \/ AttemptFails(w, d)
    PROVE  P!Try(d)
  <1>1. worker[w].copies[d].state # "absent" /\ outbox' = outbox
        /\ reached' \in {reached, reached \cup {d}}
        /\ excused' \in {excused, excused \cup {d}}
    BY DEF AttemptEmail, AttemptFails, InHand
  <1>2. \E copy : Outcome(w, d, copy)
    BY DEF AttemptEmail, AttemptFails
  <1> QED BY <1>1, <1>2, OutcomeTries

LEMMA PushReaches ==
    ASSUME OutboxInv, NEW w \in Workers, NEW e \in Endpoints, Push(w, e)
    PROVE  (\E d \in Deliveries : P!Reach(d)) \/ UNCHANGED P!promiseVars
  <1> DEFINE d == worker[w].at
  <1>1. d \in Deliveries /\ outbox[d].state # "absent"
    BY DEF Push, OutboxInv, WorkersAreFormed, WorkerFits, CopyFits
  <1>2. UNCHANGED <<outbox, tries, excused>>
        /\ (reached' = reached \/ reached' = reached \cup {d})
    BY DEF Push
  <1> HIDE DEF d
  <1>3. CASE reached' = reached
    BY <1>2, <1>3, StateStays
  <1>4. CASE reached' = reached \cup {d}
    <2>1. P!Reach(d)
      BY <1>1, <1>2, <1>4 DEF P!Reach
    <2> QED BY <1>1, <2>1
  <1> QED BY <1>2, <1>3, <1>4

(* Saving a copy, however late, says what happened: it reopens the row, or records *)
(* an outcome the promise permits at that moment.                                  *)
LEMMA SaveRecords ==
    ASSUME OutboxInv, NEW w \in Workers, Save(w)
    PROVE  \E d \in Deliveries : P!Reopen(d) \/ P!RecordTold(d) \/ P!RecordDropped(d)
  <1> DEFINE d == worker[w].at
             c == worker[w].copies[d]
  <1>1. d \in Deliveries /\ c.state # "absent" /\ CopyFits(w, d, c)
    BY DEF Save, OutboxInv, WorkersAreFormed, WorkerFits
  <1>2. /\ outbox' = [outbox EXCEPT ![d] = c] /\ DOMAIN outbox = Deliveries
        /\ UNCHANGED <<tries, reached, excused>>
    BY DEF Save, observed, OutboxInv, RowsAreFormed
  <1>3. c.state \in {"owed", "sent", "gaveUp"}
    BY <1>1 DEF CopyFits, RowFits, IsRow
  <1> HIDE DEF d, c
  <1>4. /\ outbox'[d].state = c.state
        /\ \A e \in Deliveries \ {d} : outbox'[e].state = outbox[e].state
    BY <1>1, <1>2
  <1>5. [e \in Deliveries |-> outbox'[e].state]
          = [[e \in Deliveries |-> outbox[e].state] EXCEPT ![d] = c.state]
    BY <1>1, <1>4
  <1>6. CASE c.state = "owed"
    BY <1>1, <1>2, <1>5, <1>6 DEF P!Reopen, CopyFits
  <1>7. CASE c.state = "sent"
    BY <1>1, <1>2, <1>5, <1>7 DEF P!RecordTold, CopyFits
  <1>8. CASE c.state = "gaveUp"
    BY <1>1, <1>2, <1>5, <1>8 DEF P!RecordDropped, CopyFits
  <1> QED BY <1>3, <1>6, <1>7, <1>8

LEMMA StepKeepsPromise ==
    ASSUME OutboxInv, [OutboxNext]_outboxVars
    PROVE  [P!PromiseNext]_P!promiseVars
  <1>1. CASE PeopleStep \/ UNCHANGED outboxVars
    BY <1>1, PeopleChangeNoRow, StateStays DEF outboxVars
  <1>2. ASSUME NEW n \in Notices, QueueDeliveries(n)
        PROVE  [P!PromiseNext]_P!promiseVars
    BY <1>2, QueueDeliveriesOwes DEF P!PromiseNext
  <1>3. ASSUME NEW w \in Workers, TakeDue(w) \/ TakeDueUnacknowledged(w)
        PROVE  UNCHANGED P!promiseVars
    <2>1. UNCHANGED <<tries, reached, excused>>
      BY <1>3 DEF TakeDue, TakeDueUnacknowledged, observed
    <2> QED BY <1>3, <2>1, LeasedStateStays DEF TakeDue, TakeDueUnacknowledged
  <1>4. ASSUME NEW w \in Workers, WorkerCrash(w) \/ SaveFails(w)
        PROVE  UNCHANGED P!promiseVars
    BY <1>4, StateStays DEF WorkerCrash, SaveFails, observed
  <1>5. ASSUME NEW w \in Workers, NEW d \in Deliveries, AttemptEmail(w, d) \/ AttemptFails(w, d)
        PROVE  [P!PromiseNext]_P!promiseVars
    BY <1>5, AttemptTries DEF P!PromiseNext
  <1>6. ASSUME NEW w \in Workers, NEW d \in Deliveries, ListTargets(w, d)
        PROVE  [P!PromiseNext]_P!promiseVars
    <2>1. worker[w].copies[d].state # "absent" /\ outbox' = outbox /\ reached' = reached
          /\ \/ excused' = excused \cup {d} /\ \E copy : Outcome(w, d, copy)
             \/ tries' = tries /\ excused' = excused
      BY <1>6 DEF ListTargets, InHand
    <2>2. CASE \E copy : Outcome(w, d, copy) /\ excused' = excused \cup {d}
      BY <2>1, <2>2, OutcomeTries DEF P!PromiseNext
    <2>3. CASE tries' = tries /\ excused' = excused
      BY <2>1, <2>3, StateStays
    <2> QED BY <2>1, <2>2, <2>3
  <1>7. ASSUME NEW w \in Workers, NEW e \in Endpoints, Push(w, e)
        PROVE  [P!PromiseNext]_P!promiseVars
    BY <1>7, PushReaches DEF P!PromiseNext
  <1>8. ASSUME NEW w \in Workers, SendPush(w)
        PROVE  [P!PromiseNext]_P!promiseVars
    <2> DEFINE d == worker[w].at
    <2>1. d \in Deliveries /\ worker[w].copies[d].state # "absent"
      BY <1>8 DEF SendPush, OutboxInv, WorkersAreFormed, WorkerFits
    <2>2. UNCHANGED <<outbox, reached, excused>> /\ \E copy : Outcome(w, d, copy)
      BY <1>8 DEF SendPush
    <2> HIDE DEF d
    <2>3. P!Try(d)
      BY <2>1, <2>2, OutcomeTries
    <2> QED BY <2>1, <2>3 DEF P!PromiseNext
  <1>9. ASSUME NEW w \in Workers, Save(w)
        PROVE  [P!PromiseNext]_P!promiseVars
    BY <1>9, SaveRecords DEF P!PromiseNext
  <1>10. CASE Tick
    BY <1>10, TickKeepsInv, StateStays DEF Tick, observed
  <1> QED BY <1>1, <1>2, <1>3, <1>4, <1>5, <1>6, <1>7, <1>8, <1>9, <1>10
          DEF OutboxNext, PeopleStep, Attempt

(* The outbox with its workers, leases, copies and crashes implements the promise: *)
(* deliver records "sent" only for what went out or had nowhere to go, and gives   *)
(* up only after MaxDeliveryAttempts attempts or on an address nobody proved,      *)
(* although Save overwrites the row with a copy that may be long out of date.      *)
THEOREM OutboxKeepsPromise == OutboxSpec => KeepsPromise
  <1>1. OutboxInit => P!PromiseInit
    BY NoDeliveryFits DEF OutboxInit, P!PromiseInit
  <1>2. OutboxInv /\ [OutboxNext]_outboxVars => [P!PromiseNext]_P!promiseVars
    BY StepKeepsPromise
  <1> QED BY <1>1, <1>2, OutboxInvHolds, PTL DEF OutboxSpec, KeepsPromise, P!Promise

-----------------------------------------------------------------------------
(* What the promise means for the rows, drawn from the abstract specification. *)

PromiseInv == DOMAIN tries = Deliveries /\ P!RecordsAreTrue

LEMMA PromiseStepIsTrue ==
    ASSUME PromiseInv, [P!PromiseNext]_P!promiseVars
    PROVE  PromiseInv'
  <1>1. CASE UNCHANGED P!promiseVars
    <2>1. UNCHANGED <<tries, reached, excused>>
          /\ \A d \in Deliveries : outbox'[d].state = outbox[d].state
      BY <1>1 DEF P!promiseVars
    <2> QED BY <2>1 DEF PromiseInv, P!RecordsAreTrue
  <1>2. ASSUME NEW D \in SUBSET Deliveries, P!OweAll(D)
        PROVE  PromiseInv'
    <2>1. UNCHANGED <<tries, reached, excused>>
          /\ \A d \in Deliveries :
                outbox'[d].state = IF d \in D THEN "owed" ELSE outbox[d].state
      BY <1>2 DEF P!OweAll
    <2> QED BY <2>1 DEF PromiseInv, P!RecordsAreTrue
  <1>3. ASSUME NEW d \in Deliveries, P!Reopen(d) \/ P!RecordTold(d) \/ P!RecordDropped(d)
        PROVE  PromiseInv'
    <2>1. /\ UNCHANGED <<tries, reached, excused>>
          /\ \A x \in Deliveries \ {d} : outbox'[x].state = outbox[x].state
          /\ \/ outbox'[d].state = "owed"
             \/ outbox'[d].state = "sent" /\ d \in reached \cup excused
             \/ /\ outbox'[d].state = "gaveUp"
                /\ tries[d] = MaxDeliveryAttempts \/ d \in excused
      BY <1>3 DEF P!Reopen, P!RecordTold, P!RecordDropped
    <2> QED BY <2>1 DEF PromiseInv, P!RecordsAreTrue
  <1>4. ASSUME NEW d \in Deliveries, P!Try(d) \/ P!Reach(d)
        PROVE  PromiseInv'
    <2>1. /\ reached \subseteq reached' /\ excused \subseteq excused'
          /\ \A x \in Deliveries : outbox'[x].state = outbox[x].state
      BY <1>4 DEF P!Try, P!Reach
    <2>2. /\ DOMAIN tries' = Deliveries
          /\ \A x \in Deliveries :
               tries[x] = MaxDeliveryAttempts => tries'[x] = MaxDeliveryAttempts
      BY <1>4, OutboxAssumption DEF P!Try, P!Reach, PromiseInv
    <2> QED BY <2>1, <2>2 DEF PromiseInv, P!RecordsAreTrue
  <1> QED BY <1>1, <1>2, <1>3, <1>4 DEF P!PromiseNext

(* Whoever keeps DeliveryPromise keeps its table true. *)
THEOREM PromiseMeansTruth == P!Promise => []P!RecordsAreTrue
  <1>1. P!PromiseInit => PromiseInv
    BY DEF P!PromiseInit, PromiseInv, P!RecordsAreTrue
  <1>2. PromiseInv /\ [P!PromiseNext]_P!promiseVars => PromiseInv'
    BY PromiseStepIsTrue
  <1>3. PromiseInv => P!RecordsAreTrue
    BY DEF PromiseInv
  <1> QED BY <1>1, <1>2, <1>3, PTL DEF P!Promise

(* So the deliveries table tells the truth in every state of the outbox, at the *)
(* moment somebody reads it as well: a row marked sent or given up by a worker  *)
(* that overran its lease included.                                             *)
THEOREM OutboxRecordsAreTrue == OutboxSpec => []P!RecordsAreTrue
  BY OutboxKeepsPromise, PromiseMeansTruth, PTL DEF KeepsPromise
=============================================================================
