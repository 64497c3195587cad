------------------------- MODULE ReservationProofs -------------------------
(***************************************************************************)
(* Proofs about Reservation, for any number of users, seats, events and    *)
(* threads and for any bounds.                                             *)
(***************************************************************************)
EXTENDS Reservation, TLAPS

-----------------------------------------------------------------------------
(* The seat rules keep a seat well formed. *)

(* Seat.Hold, when it succeeds, leaves a well-formed held seat that carries *)
(* the hold it was given and no ticket.                                     *)
LEMMA HoldKeepsSeat ==
    ASSUME NEW seat \in SeatState, WellFormed(seat),
           NEW h \in Nat, NEW u \in Users \cup {NoUser}, NEW at \in Nat,
           seat.status # "absent",
           HoldError(seat, h, u, HoldTTL, at) = "ok"
    PROVE  LET new == Hold(seat, h, u, HoldTTL, at) IN
           /\ new \in SeatState
           /\ WellFormed(new)
           /\ new.status = "held" /\ new.holdID = h /\ new.ticketCode = NoID
           /\ seat.status # "reserved"
           /\ h # NoID /\ u # NoUser /\ CanHold(seat, at)
  <1>1. h # NoID /\ u # NoUser /\ CanHold(seat, at)
    BY DEF HoldError
  <1>2. seat.status \in {"available", "held"}
    BY <1>1 DEF CanHold
  <1>3. seat.reservedBy = NoUser /\ seat.ticketCode = NoID
    BY <1>2 DEF WellFormed
  <1>4. Hold(seat, h, u, HoldTTL, at) \in SeatState
    <2> DEFINE until == at + HoldTTL
    <2>1. until \in Nat
      BY ReservationAssumption
    <2> HIDE DEF until
    <2>2. [seat EXCEPT !.status = "held", !.holdID = h, !.heldBy = u,
             !.expiresAt = until, !.reservedBy = NoUser] \in SeatState
      BY <2>1 DEF SeatState, Statuses
    <2> QED BY <2>2 DEF Hold, until
  <1> QED
    BY <1>1, <1>2, <1>3, <1>4 DEF SeatState, WellFormed, Hold, NoID

(* Seat.Confirm, when it succeeds, leaves a well-formed reserved seat that  *)
(* carries no hold, and had a hold of that user that had not run out.       *)
LEMMA ConfirmKeepsSeat ==
    ASSUME NEW seat \in SeatState, WellFormed(seat),
           NEW c \in Nat, NEW u \in Users \cup {NoUser}, NEW at \in Nat,
           ConfirmError(seat, u, c, at) = "ok"
    PROVE  LET new == Confirm(seat, u, c) IN
           /\ new \in SeatState
           /\ WellFormed(new)
           /\ new.status = "reserved" /\ new.holdID = NoID
           /\ new.ticketCode = c /\ new.reservedBy = u
           /\ seat.status = "held" /\ seat.heldBy = u
           /\ at < seat.expiresAt /\ c # NoID
  <1>1. /\ seat.status = "held" /\ seat.heldBy = u
        /\ u # NoUser /\ c # NoID /\ ~IsHoldExpired(seat, at)
    BY DEF ConfirmError
  <1>2. at < seat.expiresAt
    BY <1>1 DEF IsHoldExpired, Reached, SeatState
  <1>3. Confirm(seat, u, c) \in SeatState
    BY DEF SeatState, Statuses, Confirm, ClearHold, NoID
  <1> QED
    BY <1>1, <1>2, <1>3 DEF SeatState, WellFormed, Confirm, ClearHold, NoID

(* Seat.Release, when it succeeds, leaves a well-formed available seat. *)
LEMMA ReleaseKeepsSeat ==
    ASSUME NEW seat \in SeatState, WellFormed(seat),
           NEW u \in Users \cup {NoUser}, ReleaseError(seat, u) = "ok"
    PROVE  LET new == Release(seat) IN
           /\ new \in SeatState
           /\ WellFormed(new)
           /\ new.status = "available"
           /\ new.holdID = NoID /\ new.ticketCode = NoID
           /\ seat.status = "held" /\ seat.heldBy = u
  BY DEF SeatState, Statuses, WellFormed, ReleaseError, Release, ClearHold,
         NoID

(* Seat.ExpireHold leaves a well-formed seat, and a seat whose hold had not *)
(* run out as it was.                                                       *)
LEMMA ExpireKeepsSeat ==
    ASSUME NEW seat \in SeatState, WellFormed(seat), NEW at \in Nat
    PROVE  LET new == ExpireHold(seat, at) IN
           /\ new \in SeatState
           /\ WellFormed(new)
           /\ new.holdID \in {seat.holdID, NoID}
           /\ new.ticketCode = seat.ticketCode
           /\ ~IsHoldExpired(seat, at) => new = seat
  BY DEF SeatState, Statuses, WellFormed, ExpireHold, ClearHold,
         IsHoldExpired, NoID

(* A seat that was just added is well formed and carries nothing. *)
LEMMA NewSeatIsFine ==
    /\ NewSeat \in SeatState /\ WellFormed(NewSeat)
    /\ AbsentSeat \in SeatState /\ WellFormed(AbsentSeat)
    /\ NewSeat.holdID = NoID /\ NewSeat.ticketCode = NoID
    /\ AbsentSeat.holdID = NoID /\ AbsentSeat.ticketCode = NoID
    /\ NewSeat.status = "available" /\ AbsentSeat.status = "absent"
  BY DEF SeatState, Statuses, WellFormed, NewSeat, AbsentSeat, NoID

-----------------------------------------------------------------------------
(* Steps that touch one thread and no seat *)

(* The step keeps the store sound, and a confirmation true that was. *)
Kept == StoreInv' /\ (ConfirmedMeansOwned => ConfirmedMeansOwned')

(* What a thread must look like to be written into a state of Inv without   *)
(* anything else changing: it keeps an identifier it had drawn or gives it  *)
(* up, and claims nothing the store does not say.                           *)
Continues(t, r) ==
    /\ r \in ThreadState
    /\ r.hold < nextID /\ r.code < nextID
    /\ r.pc # "idle" => r.res = "none"
    /\ r.op = "hold" /\ r.pc \in {"gate", "lookup", "update"} =>
         /\ HasFreshHold(t)
         /\ r.hold = thread[t].hold /\ r.user = thread[t].user
         /\ r.seat = thread[t].seat /\ r.at = thread[t].at
    /\ r.op = "confirm" /\ r.pc = "update" =>
         /\ HasFreshCode(t)
         /\ r.code = thread[t].code /\ r.user = thread[t].user
         /\ r.at = thread[t].at
    /\ r.pc \in {"announce", "offer"} => r.seat \in Seats
    /\ r.op = "confirm" /\ (r.pc = "announce" \/ r.res = "ok") =>
         /\ r.seat \in Seats
         /\ ConfirmedMeansOwned =>
              /\ seats[r.seat].status = "reserved"
              /\ seats[r.seat].reservedBy = r.user
              /\ seats[r.seat].ticketCode = r.code

(* A request step that writes nothing to the store keeps the invariant. *)
LEMMA ThreadStepKeepsInv ==
    ASSUME StoreInv, NEW t \in Threads, NEW r, Continues(t, r),
           thread' = [thread EXCEPT ![t] = r],
           UNCHANGED <<now, nextID, seats, cancelled, verified, sweeper>>
    PROVE  Kept
  <1> USE DEF StoreInv
  <1>0. thread \in [Threads -> ThreadState] /\ r \in ThreadState
    BY DEF TypeOK, Continues
  <1>a. \A x \in Threads : thread'[x] = IF x = t THEN r ELSE thread[x]
    BY <1>0
  <1>b. HasFreshHold(t)' => /\ HasFreshHold(t)
                            /\ r.hold = thread[t].hold
                            /\ r.user = thread[t].user
                            /\ r.seat = thread[t].seat /\ r.at = thread[t].at
    BY <1>a DEF Continues, HasFreshHold
  <1>c. HasFreshCode(t)' => /\ HasFreshCode(t)
                            /\ r.code = thread[t].code
                            /\ r.user = thread[t].user
                            /\ r.at = thread[t].at
    BY <1>a DEF Continues, HasFreshCode
  <1>d. \A x \in Threads : x # t =>
          (HasFreshHold(x)' <=> HasFreshHold(x))
          /\ (HasFreshCode(x)' <=> HasFreshCode(x))
    BY <1>a DEF HasFreshHold, HasFreshCode
  <1>1. TypeOK'
    BY <1>0 DEF TypeOK
  <1>2. SeatsWellFormed'
    BY DEF SeatsWellFormed
  <1>3. IDsDrawn'
    BY <1>a DEF IDsDrawn, Continues
  <1>4. HoldsFresh'
    BY <1>a, <1>b, <1>d DEF HoldsFresh
  <1>5. CodesFresh'
    BY <1>a, <1>c, <1>d DEF CodesFresh
  <1>6. WritersKnowTheirSeat'
    BY <1>a DEF WritersKnowTheirSeat, Continues
  <1>7. SweeperReadThePast'
    BY DEF SweeperReadThePast
  <1>9. AnsweredAtTheEnd'
    BY <1>a DEF AnsweredAtTheEnd, Continues
  <1>8. ConfirmedMeansOwned => ConfirmedMeansOwned'
    BY <1>a DEF ConfirmedMeansOwned, Continues
  <1> QED
    BY <1>1, <1>2, <1>3, <1>4, <1>5, <1>6, <1>7, <1>8, <1>9 DEF Kept

-----------------------------------------------------------------------------
(* Steps that write one seat *)

(* A request step that writes one unsold seat keeps the invariant, as long  *)
(* as a hold or a ticket it puts there is the one the thread had drawn, and *)
(* the thread gives that identifier up.                                     *)
LEMMA SeatWriteKeepsInv ==
    ASSUME StoreInv, NEW t \in Threads, NEW s \in Seats,
           NEW new \in SeatState, WellFormed(new),
           NEW r \in ThreadState,
           seats[s].status # "reserved",
           seats' = [seats EXCEPT ![s] = new],
           thread' = [thread EXCEPT ![t] = r],
           UNCHANGED <<now, nextID, cancelled, verified, sweeper>>,
           new.holdID # NoID =>
             HasFreshHold(t) /\ new.holdID = thread[t].hold,
           new.ticketCode # NoID =>
             HasFreshCode(t) /\ new.ticketCode = thread[t].code,
           r.hold < nextID, r.code < nextID,
           r.pc # "idle" => r.res = "none",
           ~(r.op = "hold" /\ r.pc \in {"gate", "lookup", "update"}),
           ~(r.op = "confirm" /\ r.pc = "update"),
           r.pc \in {"announce", "offer"} => r.seat \in Seats,
           r.op = "confirm" /\ (r.pc = "announce" \/ r.res = "ok") =>
             /\ r.seat = s
             /\ new.status = "reserved" /\ new.reservedBy = r.user
             /\ new.ticketCode = r.code
    PROVE  Kept
  <1> USE DEF StoreInv
  <1>0. /\ thread \in [Threads -> ThreadState]
        /\ seats \in [Seats -> SeatState]
    BY DEF TypeOK
  <1>a. \A x \in Threads : thread'[x] = IF x = t THEN r ELSE thread[x]
    BY <1>0
  <1>b. \A x \in Seats : seats'[x] = IF x = s THEN new ELSE seats[x]
    BY <1>0
  <1>c. ~HasFreshHold(t)' /\ ~HasFreshCode(t)'
    BY <1>a DEF HasFreshHold, HasFreshCode
  <1>d. \A x \in Threads : x # t =>
          (HasFreshHold(x)' <=> HasFreshHold(x))
          /\ (HasFreshCode(x)' <=> HasFreshCode(x))
    BY <1>a DEF HasFreshHold, HasFreshCode
  <1>1. TypeOK'
    BY <1>0 DEF TypeOK
  <1>2. SeatsWellFormed'
    <2>1. \A x \in Seats : WellFormed(seats[x])'
      BY <1>b DEF SeatsWellFormed, WellFormed
    <2>2. ASSUME NEW x \in Seats, NEW y \in Seats, x # y
          PROVE  /\ seats'[x].holdID # NoID =>
                      seats'[x].holdID # seats'[y].holdID
                 /\ seats'[x].ticketCode # NoID =>
                      seats'[x].ticketCode # seats'[y].ticketCode
      BY <1>b, <2>2 DEF SeatsWellFormed, HoldsFresh, CodesFresh
    <2> QED BY <2>1, <2>2 DEF SeatsWellFormed
  <1>3. IDsDrawn'
    BY <1>a, <1>b DEF IDsDrawn, NoID
  <1>4. HoldsFresh'
    BY <1>a, <1>b, <1>c, <1>d DEF HoldsFresh
  <1>5. CodesFresh'
    BY <1>a, <1>b, <1>c, <1>d DEF CodesFresh
  <1>6. WritersKnowTheirSeat'
    BY <1>a DEF WritersKnowTheirSeat
  <1>7. SweeperReadThePast'
    BY DEF SweeperReadThePast
  <1>9. AnsweredAtTheEnd'
    BY <1>a DEF AnsweredAtTheEnd
  <1>8. ConfirmedMeansOwned => ConfirmedMeansOwned'
    <2> SUFFICES ASSUME ConfirmedMeansOwned, NEW x \in Threads,
                        thread'[x].op = "confirm",
                        thread'[x].pc = "announce" \/ thread'[x].res = "ok"
                 PROVE  /\ seats'[thread'[x].seat].status = "reserved"
                        /\ seats'[thread'[x].seat].reservedBy = thread'[x].user
                        /\ seats'[thread'[x].seat].ticketCode = thread'[x].code
      BY DEF ConfirmedMeansOwned
    <2>1. CASE x = t
      BY <1>a, <1>b, <2>1
    <2>2. CASE x # t
      <3>1. thread'[x] = thread[x]
        BY <1>a, <2>2
      <3>2. thread[x].seat \in Seats /\ thread[x].seat # s
        BY <3>1 DEF WritersKnowTheirSeat, ConfirmedMeansOwned
      <3> QED BY <1>b, <3>1, <3>2 DEF ConfirmedMeansOwned
    <2> QED BY <2>1, <2>2
  <1> QED
    BY <1>1, <1>2, <1>3, <1>4, <1>5, <1>6, <1>7, <1>8, <1>9 DEF Kept

-----------------------------------------------------------------------------
(* Steps that touch no thread *)

(* A step over all seats that only drops holds and adds seats, and leaves   *)
(* every sold seat alone, keeps the invariant.                              *)
LEMMA BulkWriteKeepsInv ==
    ASSUME StoreInv,
           seats' \in [Seats -> SeatState],
           \A s \in Seats :
             /\ WellFormed(seats[s])'
             /\ seats'[s].holdID \in {seats[s].holdID, NoID}
             /\ seats'[s].ticketCode = seats[s].ticketCode
             /\ seats[s].status = "reserved" => seats'[s] = seats[s],
           sweeper' \in SweeperState, sweeper'.at <= now,
           UNCHANGED <<now, nextID, cancelled, verified, thread>>
    PROVE  Kept
  <1> USE DEF StoreInv
  <1>d. \A x \in Threads :
          (HasFreshHold(x)' <=> HasFreshHold(x))
          /\ (HasFreshCode(x)' <=> HasFreshCode(x))
    BY DEF HasFreshHold, HasFreshCode
  <1>1. TypeOK'
    BY DEF TypeOK
  <1>2. SeatsWellFormed'
    BY DEF SeatsWellFormed
  <1>3. IDsDrawn'
    BY DEF IDsDrawn, NoID
  <1>4. HoldsFresh'
    BY <1>d DEF HoldsFresh
  <1>5. CodesFresh'
    BY <1>d DEF CodesFresh
  <1>6. WritersKnowTheirSeat'
    BY DEF WritersKnowTheirSeat
  <1>7. SweeperReadThePast'
    BY DEF SweeperReadThePast
  <1>9. AnsweredAtTheEnd'
    BY DEF AnsweredAtTheEnd
  <1>8. ConfirmedMeansOwned => ConfirmedMeansOwned'
    BY DEF ConfirmedMeansOwned, WritersKnowTheirSeat
  <1> QED
    BY <1>1, <1>2, <1>3, <1>4, <1>5, <1>6, <1>7, <1>8, <1>9 DEF Kept

-----------------------------------------------------------------------------
(* The initial states, leftover holds included, satisfy the invariant. *)
LEMMA InitInv == Init => Inv
  <1> SUFFICES ASSUME Init PROVE Inv
    OBVIOUS
  <1>1. ASSUME NEW h \in 1..Leftover, NEW u \in Users
        PROVE  /\ LeftoverHold(h, u) \in SeatState
               /\ WellFormed(LeftoverHold(h, u))
               /\ LeftoverHold(h, u).holdID = h
               /\ LeftoverHold(h, u).ticketCode = NoID
    <2>1. h \in Nat /\ h # NoID /\ u # NoUser
      BY ReservationAssumption, NoUserAssumption DEF NoID
    <2>2. HoldError(NewSeat, h, u, HoldTTL, 0) = "ok"
      BY <2>1, ReservationAssumption DEF HoldError, CanHold, NewSeat
    <2> QED
      BY <2>1, <2>2, NewSeatIsFine, HoldKeepsSeat DEF LeftoverHold
  <1>2. \A s \in Seats : /\ seats[s] \in SeatState /\ WellFormed(seats[s])
                         /\ seats[s].ticketCode = NoID
                         /\ seats[s].holdID \in 0..Leftover
    <2> SUFFICES ASSUME NEW s \in Seats
                 PROVE  /\ seats[s] \in SeatState /\ WellFormed(seats[s])
                        /\ seats[s].ticketCode = NoID
                        /\ seats[s].holdID \in 0..Leftover
      OBVIOUS
    <2>1. \/ seats[s] = AbsentSeat \/ seats[s] = NewSeat
          \/ \E h \in 1..Leftover, u \in Users : seats[s] = LeftoverHold(h, u)
      BY DEF Init
    <2>2. CASE seats[s] = AbsentSeat \/ seats[s] = NewSeat
      BY <2>2, NewSeatIsFine, ReservationAssumption DEF NoID
    <2>3. CASE \E h \in 1..Leftover, u \in Users :
                  seats[s] = LeftoverHold(h, u)
      BY <2>3, <1>1, ReservationAssumption
    <2> QED BY <2>1, <2>2, <2>3
  <1>3. TypeOK
    <2>1. seats \in [Seats -> SeatState]
      BY <1>2 DEF Init
    <2>2. IdleThread \in ThreadState /\ IdleSweeper \in SweeperState
      BY DEF IdleThread, ThreadState, Ops, Pcs, Results, NoID, IdleSweeper,
             SweeperState
    <2> QED BY <2>1, <2>2, ReservationAssumption DEF Init, TypeOK
  <1>4. SeatsWellFormed
    BY <1>2 DEF SeatsWellFormed, Init
  <1>5. \A t \in Threads : thread[t] = IdleThread
    BY DEF Init
  <1>6. IDsDrawn
    BY <1>2, <1>5, ReservationAssumption DEF IDsDrawn, Init, IdleThread, NoID
  <1>7. HoldsFresh /\ CodesFresh
    BY <1>5 DEF HoldsFresh, CodesFresh, HasFreshHold, HasFreshCode, IdleThread
  <1>8. WritersKnowTheirSeat /\ ConfirmedMeansOwned /\ AnsweredAtTheEnd
    BY <1>5 DEF WritersKnowTheirSeat, ConfirmedMeansOwned, AnsweredAtTheEnd,
                IdleThread
  <1>9. SweeperReadThePast
    BY DEF SweeperReadThePast, Init, IdleSweeper
  <1> QED BY <1>3, <1>4, <1>6, <1>7, <1>8, <1>9 DEF Inv, StoreInv

-----------------------------------------------------------------------------
(* The steps of a request keep the invariant *)

(* Ending a request, with any answer but a confirmation, keeps Inv. *)
LEMMA FinishContinues ==
    ASSUME StoreInv, NEW t \in Threads, NEW res \in Results,
           thread[t].op # "confirm" \/ res # "ok"
    PROVE  Continues(t, [IdleThread EXCEPT !.op = thread[t].op, !.res = res])
  <1>1. thread[t].op \in Ops
    BY DEF StoreInv, TypeOK, ThreadState
  <1>2. [IdleThread EXCEPT !.op = thread[t].op, !.res = res] \in ThreadState
    BY <1>1 DEF IdleThread, ThreadState, Pcs, NoID
  <1> QED BY <1>2 DEF Continues, IdleThread, StoreInv, IDsDrawn, NoID

(* Moving on within HoldSeat. *)
LEMMA HoldGoesOn ==
    ASSUME StoreInv, NEW t \in Threads, NEW pc \in {"lookup", "update"},
           HasFreshHold(t)
    PROVE  Continues(t, [thread[t] EXCEPT !.pc = pc])
  <1>1. thread[t] \in ThreadState
    BY DEF StoreInv, TypeOK
  <1>2. [thread[t] EXCEPT !.pc = pc] \in ThreadState
    BY <1>1 DEF ThreadState, Pcs
  <1> QED
    BY <1>1, <1>2 DEF Continues, StoreInv, IDsDrawn, AnsweredAtTheEnd,
                      ThreadState, HasFreshHold

(* What HoldSeat answers is an answer. *)
LEMMA HoldOutcomeType ==
    ASSUME NEW t \in Threads
    PROVE  HoldOutcome(t) \in Results
  BY DEF HoldOutcome, HoldError, Results

(* And so is what ConfirmReservation and ReleaseSeat answer. *)
LEMMA ByHoldOutcomeType ==
    ASSUME NEW t \in Threads, NEW s \in Seats
    PROVE  ByHoldOutcome(t, s) \in Results
  BY DEF ByHoldOutcome, ConfirmError, ReleaseError, Results

(* HoldSeat: each of its steps keeps the invariant. *)
LEMMA HoldStepsKeepInv ==
    ASSUME StoreInv, NEW t \in Threads
    PROVE  /\ \A u \in Users, s \in Seats : BeginHold(t, u, s) => Kept
           /\ HoldGate(t) => Kept
           /\ HoldLookup(t) => Kept
           /\ HoldUpdate(t) \/ HoldUpdateUnacknowledged(t) => Kept
           /\ HoldAnnounce(t) => Kept
  <1>0. /\ thread \in [Threads -> ThreadState]
        /\ seats \in [Seats -> SeatState]
    BY DEF StoreInv, TypeOK
  <1>1. ASSUME NEW u \in Users, NEW s \in Seats, BeginHold(t, u, s)
        PROVE  Kept
    <2> DEFINE r == [IdleThread EXCEPT !.op = "hold", !.pc = "gate",
                       !.user = u, !.seat = s, !.hold = nextID, !.at = now]
    <2>1. /\ thread' = [thread EXCEPT ![t] = r] /\ nextID' = nextID + 1
          /\ UNCHANGED <<now, seats, cancelled, verified, sweeper>>
      BY <1>1 DEF BeginHold
    <2>2. /\ r.op = "hold" /\ r.pc = "gate" /\ r.user = u /\ r.seat = s
          /\ r.hold = nextID /\ r.at = now /\ r.code = 0 /\ r.res = "none"
          /\ r \in ThreadState
      BY DEF IdleThread, ThreadState, Ops, Pcs, Results, NoID, StoreInv, TypeOK
    <2> HIDE DEF r
    <2>3. \A x \in Threads : thread'[x] = IF x = t THEN r ELSE thread[x]
      BY <1>0, <2>1
    <2>4. HasFreshHold(t)' /\ ~HasFreshCode(t)'
      BY <2>2, <2>3 DEF HasFreshHold, HasFreshCode
    <2>5. \A x \in Threads : x # t =>
            (HasFreshHold(x)' <=> HasFreshHold(x))
            /\ (HasFreshCode(x)' <=> HasFreshCode(x))
      BY <2>3 DEF HasFreshHold, HasFreshCode
    <2>6. nextID \in Nat /\ now \in Nat
      BY DEF StoreInv, TypeOK
    <2>7. TypeOK'
      BY <1>0, <2>1, <2>2, <2>6 DEF StoreInv, TypeOK
    <2>8. SeatsWellFormed'
      BY <2>1 DEF StoreInv, SeatsWellFormed
    <2>9. IDsDrawn'
      BY <1>0, <2>1, <2>2, <2>3, <2>6
      DEF StoreInv, IDsDrawn, SeatState, ThreadState
    <2>10. HoldsFresh'
      BY <1>0, <2>1, <2>2, <2>3, <2>4, <2>5, <2>6, NoUserAssumption
      DEF StoreInv, HoldsFresh, IDsDrawn, NoID, SeatState, ThreadState
    <2>11. CodesFresh'
      BY <2>1, <2>3, <2>4, <2>5 DEF StoreInv, CodesFresh
    <2>12. /\ WritersKnowTheirSeat' /\ AnsweredAtTheEnd'
           /\ ConfirmedMeansOwned => ConfirmedMeansOwned'
      BY <2>1, <2>2, <2>3
      DEF StoreInv, WritersKnowTheirSeat, ConfirmedMeansOwned, AnsweredAtTheEnd
    <2>13. SweeperReadThePast'
      BY <2>1 DEF StoreInv, SweeperReadThePast
    <2> QED
      BY <2>7, <2>8, <2>9, <2>10, <2>11, <2>12, <2>13 DEF StoreInv, Kept
  <1>2. ASSUME HoldGate(t) PROVE Kept
    <2>1. HasFreshHold(t) /\ thread[t].op = "hold"
      BY <1>2 DEF HoldGate, HasFreshHold
    <2>2. CASE MayTakeSeat(thread[t].user)
      <3>1. Continues(t, [thread[t] EXCEPT !.pc = "lookup"])
        BY <2>1, HoldGoesOn
      <3>2. thread' = [thread EXCEPT ![t] =
                         [thread[t] EXCEPT !.pc = "lookup"]]
        BY <1>0, <1>2, <2>2 DEF HoldGate, GoTo
      <3> QED BY <1>2, <3>1, <3>2, ThreadStepKeepsInv DEF HoldGate
    <2>3. CASE ~MayTakeSeat(thread[t].user)
      BY <1>2, <2>1, <2>3, FinishContinues, ThreadStepKeepsInv
      DEF HoldGate, Finish, Results
    <2> QED BY <2>2, <2>3
  <1>3. ASSUME HoldLookup(t) PROVE Kept
    <2>1. HasFreshHold(t) /\ thread[t].op = "hold"
      BY <1>3 DEF HoldLookup, HasFreshHold
    <2>2. CASE EventOf[thread[t].seat] \in cancelled
      BY <1>3, <2>1, <2>2, FinishContinues, ThreadStepKeepsInv
      DEF HoldLookup, Finish, Results
    <2>3. CASE EventOf[thread[t].seat] \notin cancelled
      <3>1. Continues(t, [thread[t] EXCEPT !.pc = "update"])
        BY <2>1, HoldGoesOn
      <3>2. thread' = [thread EXCEPT ![t] =
                         [thread[t] EXCEPT !.pc = "update"]]
        BY <1>0, <1>3, <2>3 DEF HoldLookup, GoTo
      <3> QED BY <1>3, <3>1, <3>2, ThreadStepKeepsInv DEF HoldLookup
    <2> QED BY <2>2, <2>3
  <1>4. ASSUME HoldUpdate(t) \/ HoldUpdateUnacknowledged(t) PROVE Kept
    <2>1. HasFreshHold(t) /\ thread[t].op = "hold"
      BY <1>4 DEF HoldUpdate, HoldUpdateUnacknowledged, HasFreshHold
    <2>2. CASE HoldOutcome(t) # "ok"
      BY <1>4, <2>1, <2>2, FinishContinues, HoldOutcomeType,
         ThreadStepKeepsInv
      DEF HoldUpdate, HoldUpdateUnacknowledged, Finish
    <2>3. CASE HoldOutcome(t) = "ok"
      <3> DEFINE s == thread[t].seat
      <3>1. /\ s \in Seats /\ thread[t].hold \in Nat
            /\ thread[t].user \in Users \cup {NoUser}
            /\ thread[t].at \in Nat /\ seats[s] \in SeatState
            /\ WellFormed(seats[s])
        BY <1>0, <2>1
        DEF StoreInv, HoldsFresh, SeatsWellFormed, ThreadState
      <3>2. /\ seats[s].status # "absent"
            /\ HoldError(seats[s], thread[t].hold, thread[t].user, HoldTTL,
                         thread[t].at) = "ok"
        BY <2>3 DEF HoldOutcome
      <3>3. /\ HeldSeat(t) \in SeatState /\ WellFormed(HeldSeat(t))
            /\ HeldSeat(t).holdID = thread[t].hold
            /\ HeldSeat(t).ticketCode = NoID
            /\ seats[s].status # "reserved"
        BY <3>1, <3>2, HoldKeepsSeat DEF HeldSeat
      <3>4. /\ seats' = [seats EXCEPT ![s] = HeldSeat(t)]
            /\ UNCHANGED <<now, nextID, cancelled, verified, sweeper>>
            /\ \/ thread' = [thread EXCEPT ![t] =
                                [thread[t] EXCEPT !.pc = "announce"]]
               \/ thread' = [thread EXCEPT ![t] = [IdleThread EXCEPT
                                !.op = "hold", !.res = "store_failed"]]
        BY <1>4, <2>1, <2>3
        DEF HoldUpdate, HoldUpdateUnacknowledged, GoTo, Finish
      <3> HIDE DEF s
      <3>5. thread[t].hold < nextID /\ thread[t].code < nextID /\ 0 < nextID
        BY DEF StoreInv, IDsDrawn
      <3>6. CASE thread' = [thread EXCEPT ![t] =
                              [thread[t] EXCEPT !.pc = "announce"]]
        <4> DEFINE r == [thread[t] EXCEPT !.pc = "announce"]
        <4>1. /\ r \in ThreadState /\ r.pc = "announce" /\ r.op = "hold"
              /\ r.hold = thread[t].hold /\ r.code = thread[t].code
              /\ r.seat = s /\ r.res = "none"
          BY <1>0, <2>1
          DEF ThreadState, Pcs, s, StoreInv, AnsweredAtTheEnd, HasFreshHold
        <4> HIDE DEF r
        <4>2. thread' = [thread EXCEPT ![t] = r]
          BY <3>6 DEF r
        <4> QED
          BY <2>1, <3>1, <3>3, <3>4, <3>5, <4>1, <4>2, SeatWriteKeepsInv
      <3>7. CASE thread' = [thread EXCEPT ![t] = [IdleThread EXCEPT
                              !.op = "hold", !.res = "store_failed"]]
        <4> DEFINE r == [IdleThread EXCEPT !.op = "hold",
                                           !.res = "store_failed"]
        <4>1. /\ r \in ThreadState /\ r.pc = "idle" /\ r.op = "hold"
              /\ r.hold = 0 /\ r.code = 0
          BY DEF ThreadState, Pcs, Ops, Results, IdleThread, NoID
        <4> HIDE DEF r
        <4>2. thread' = [thread EXCEPT ![t] = r]
          BY <3>7 DEF r
        <4> QED
          BY <2>1, <3>1, <3>3, <3>4, <3>5, <4>1, <4>2, SeatWriteKeepsInv
      <3> QED BY <3>4, <3>6, <3>7
    <2> QED BY <2>2, <2>3
  <1>5. ASSUME HoldAnnounce(t) PROVE Kept
    BY <1>5, FinishContinues, ThreadStepKeepsInv
    DEF HoldAnnounce, Finish, Results
  <1> QED BY <1>1, <1>2, <1>3, <1>4, <1>5

(* ConfirmReservation and ReleaseSeat: each of their steps keeps Inv. *)
LEMMA ByHoldStepsKeepInv ==
    ASSUME StoreInv, NEW t \in Threads
    PROVE  /\ \A u \in Users, h \in 1..(nextID - 1) :
                BeginConfirm(t, u, h) \/ BeginRelease(t, u, h) => Kept
           /\ ConfirmGate(t) => Kept
           /\ HoldNotFound(t) => Kept
           /\ \A s \in Seats :
                UpdateByHold(t, s) \/ UpdateByHoldUnacknowledged(t, s) => Kept
           /\ ConfirmAnnounce(t) => Kept
           /\ ReleaseAnnounce(t) => Kept
           /\ ReleaseOffer(t) => Kept
  <1>0. /\ thread \in [Threads -> ThreadState]
        /\ seats \in [Seats -> SeatState] /\ nextID \in Nat /\ now \in Nat
    BY DEF StoreInv, TypeOK
  <1>00. thread[t].hold < nextID /\ thread[t].code < nextID /\ 0 < nextID
    BY DEF StoreInv, IDsDrawn
  <1>1. ASSUME NEW u \in Users, NEW h \in 1..(nextID - 1),
               BeginConfirm(t, u, h) \/ BeginRelease(t, u, h)
        PROVE  Kept
    <2>0. h \in Nat /\ h < nextID
      BY <1>0
    <2>1. CASE BeginConfirm(t, u, h)
      <3> DEFINE r == [IdleThread EXCEPT !.op = "confirm", !.pc = "gate",
                                         !.user = u, !.hold = h]
      <3>1. Continues(t, r)
        BY <1>00, <2>0
        DEF Continues, IdleThread, ThreadState, Ops, Pcs, Results, NoID
      <3> QED BY <2>1, <3>1, ThreadStepKeepsInv DEF BeginConfirm
    <2>2. CASE BeginRelease(t, u, h)
      <3> DEFINE r == [IdleThread EXCEPT !.op = "release", !.pc = "update",
                                         !.user = u, !.hold = h]
      <3>1. Continues(t, r)
        BY <1>00, <2>0
        DEF Continues, IdleThread, ThreadState, Ops, Pcs, Results, NoID
      <3> QED BY <2>2, <3>1, ThreadStepKeepsInv DEF BeginRelease
    <2> QED BY <1>1, <2>1, <2>2
  <1>2. ASSUME ConfirmGate(t) PROVE Kept
    <2>1. CASE ~MayTakeSeat(thread[t].user)
      BY <1>2, <2>1, FinishContinues, ThreadStepKeepsInv
      DEF ConfirmGate, Finish, Results
    <2>2. CASE MayTakeSeat(thread[t].user)
      <3> DEFINE r == [thread[t] EXCEPT !.pc = "update", !.at = now,
                                        !.code = nextID]
      <3>1. /\ thread' = [thread EXCEPT ![t] = r] /\ nextID' = nextID + 1
            /\ UNCHANGED <<now, seats, cancelled, verified, sweeper>>
            /\ thread[t].op = "confirm" /\ thread[t].pc = "gate"
        BY <1>0, <1>2, <2>2 DEF ConfirmGate
      <3>2. /\ r.op = "confirm" /\ r.pc = "update"
            /\ r.user = thread[t].user /\ r.hold = thread[t].hold
            /\ r.at = now /\ r.code = nextID /\ r.res = thread[t].res
            /\ r.seat = thread[t].seat
            /\ r \in ThreadState
        BY <1>0, <3>1 DEF ThreadState, Pcs
      <3> HIDE DEF r
      <3>3. \A x \in Threads : thread'[x] = IF x = t THEN r ELSE thread[x]
        BY <1>0, <3>1
      <3>4. HasFreshCode(t)' /\ ~HasFreshHold(t)'
        BY <3>2, <3>3 DEF HasFreshHold, HasFreshCode
      <3>5. \A x \in Threads : x # t =>
              (HasFreshHold(x)' <=> HasFreshHold(x))
              /\ (HasFreshCode(x)' <=> HasFreshCode(x))
        BY <3>3 DEF HasFreshHold, HasFreshCode
      <3>7. TypeOK'
        BY <1>0, <3>1, <3>2 DEF StoreInv, TypeOK
      <3>8. SeatsWellFormed'
        BY <3>1 DEF StoreInv, SeatsWellFormed
      <3>9. IDsDrawn'
        BY <1>0, <3>1, <3>2, <3>3
        DEF StoreInv, IDsDrawn, SeatState, ThreadState
      <3>10. CodesFresh'
        BY <1>0, <2>2, <3>1, <3>2, <3>3, <3>4, <3>5
        DEF StoreInv, CodesFresh, IDsDrawn, NoID, SeatState, ThreadState,
            MayTakeSeat
      <3>11. HoldsFresh'
        BY <3>1, <3>3, <3>4, <3>5 DEF StoreInv, HoldsFresh
      <3>6. r.res = "none"
        BY <3>1, <3>2 DEF StoreInv, AnsweredAtTheEnd
      <3>12. WritersKnowTheirSeat' /\ AnsweredAtTheEnd'
        BY <3>1, <3>2, <3>3, <3>6
        DEF StoreInv, WritersKnowTheirSeat, AnsweredAtTheEnd
      <3>13. ConfirmedMeansOwned => ConfirmedMeansOwned'
        BY <3>1, <3>2, <3>3, <3>6 DEF StoreInv, ConfirmedMeansOwned
      <3>14. SweeperReadThePast'
        BY <3>1 DEF StoreInv, SweeperReadThePast
      <3> QED
        BY <3>7, <3>8, <3>9, <3>10, <3>11, <3>12, <3>13, <3>14
        DEF StoreInv, Kept
    <2> QED BY <2>1, <2>2
  <1>3. ASSUME HoldNotFound(t) PROVE Kept
    BY <1>3, FinishContinues, ThreadStepKeepsInv
    DEF HoldNotFound, Finish, Results
  <1>4. ASSUME NEW s \in Seats,
               UpdateByHold(t, s) \/ UpdateByHoldUnacknowledged(t, s)
        PROVE  Kept
    <2>0. /\ thread[t].op \in {"confirm", "release"}
          /\ thread[t].pc = "update"
      BY <1>4 DEF UpdateByHold, UpdateByHoldUnacknowledged
    <2>1. CASE ByHoldOutcome(t, s) # "ok"
      BY <1>4, <2>1, FinishContinues, ByHoldOutcomeType, ThreadStepKeepsInv
      DEF UpdateByHold, UpdateByHoldUnacknowledged, Finish
    <2>2. CASE ByHoldOutcome(t, s) = "ok"
      <3> DEFINE new == ByHoldSeat(t, s)
      <3>1. /\ thread[t].user \in Users \cup {NoUser}
            /\ thread[t].code \in Nat /\ thread[t].at \in Nat
            /\ seats[s] \in SeatState /\ WellFormed(seats[s])
        BY <1>0 DEF StoreInv, SeatsWellFormed, ThreadState
      <3>2. /\ new \in SeatState /\ WellFormed(new) /\ new.holdID = NoID
            /\ seats[s].status = "held"
            /\ new.ticketCode # NoID => /\ thread[t].op = "confirm"
                                        /\ new.ticketCode = thread[t].code
            /\ thread[t].op = "confirm" =>
                 /\ new.status = "reserved"
                 /\ new.reservedBy = thread[t].user
                 /\ new.ticketCode = thread[t].code
        <4>1. CASE thread[t].op = "confirm"
          BY <2>2, <3>1, <4>1, ConfirmKeepsSeat DEF ByHoldOutcome, ByHoldSeat
        <4>2. CASE thread[t].op = "release"
          BY <2>2, <3>1, <4>2, ReleaseKeepsSeat DEF ByHoldOutcome, ByHoldSeat
        <4> QED BY <2>0, <4>1, <4>2
      <3>3. thread[t].op = "confirm" => HasFreshCode(t)
        BY <2>0 DEF HasFreshCode
      <3>4. /\ seats' = [seats EXCEPT ![s] = new]
            /\ UNCHANGED <<now, nextID, cancelled, verified, sweeper>>
            /\ \/ thread' = [thread EXCEPT ![t] = [thread[t] EXCEPT
                                !.pc = "announce", !.seat = s]]
               \/ thread' = [thread EXCEPT ![t] = [IdleThread EXCEPT
                                !.op = thread[t].op, !.res = "store_failed"]]
        BY <1>0, <1>4, <2>2
        DEF UpdateByHold, UpdateByHoldUnacknowledged, Finish
      <3> HIDE DEF new
      <3>5. CASE thread' = [thread EXCEPT ![t] = [thread[t] EXCEPT
                              !.pc = "announce", !.seat = s]]
        <4> DEFINE r == [thread[t] EXCEPT !.pc = "announce", !.seat = s]
        <4>1. /\ r \in ThreadState /\ r.pc = "announce"
              /\ r.op = thread[t].op /\ r.seat = s
              /\ r.hold = thread[t].hold /\ r.code = thread[t].code
              /\ r.user = thread[t].user /\ r.res = "none"
          BY <1>0, <2>0 DEF ThreadState, Pcs, StoreInv, AnsweredAtTheEnd
        <4> HIDE DEF r
        <4>2. thread' = [thread EXCEPT ![t] = r]
          BY <3>5 DEF r
        <4>3. /\ ~(r.op = "hold" /\ r.pc \in {"gate", "lookup", "update"})
              /\ ~(r.op = "confirm" /\ r.pc = "update")
              /\ seats[s].status # "reserved"
          BY <3>2, <4>1
        <4>4. r.op = "confirm" /\ (r.pc = "announce" \/ r.res = "ok") =>
                /\ r.seat = s
                /\ new.status = "reserved" /\ new.reservedBy = r.user
                /\ new.ticketCode = r.code
          BY <3>2, <4>1
        <4> QED
          BY <1>00, <3>2, <3>3, <3>4, <4>1, <4>2, <4>3, <4>4,
             SeatWriteKeepsInv
      <3>6. CASE thread' = [thread EXCEPT ![t] = [IdleThread EXCEPT
                              !.op = thread[t].op, !.res = "store_failed"]]
        <4> DEFINE r == [IdleThread EXCEPT !.op = thread[t].op,
                                           !.res = "store_failed"]
        <4>1. /\ r \in ThreadState /\ r.pc = "idle"
              /\ r.op = thread[t].op /\ r.hold = 0 /\ r.code = 0
              /\ r.res = "store_failed"
          BY <1>0 DEF ThreadState, Pcs, Ops, Results, IdleThread, NoID
        <4> HIDE DEF r
        <4>2. thread' = [thread EXCEPT ![t] = r]
          BY <3>6 DEF r
        <4> QED
          BY <1>00, <2>0, <3>2, <3>3, <3>4, <4>1, <4>2, SeatWriteKeepsInv
      <3> QED BY <3>4, <3>5, <3>6
    <2> QED BY <2>1, <2>2
  <1>5. ASSUME ConfirmAnnounce(t) PROVE Kept
    <2> DEFINE r == [thread[t] EXCEPT !.pc = "idle", !.at = 0,
                                      !.hold = NoID, !.res = "ok"]
    <2>1. /\ r \in ThreadState /\ r.pc = "idle" /\ r.op = "confirm"
          /\ r.hold = 0 /\ r.code = thread[t].code
          /\ r.user = thread[t].user /\ r.seat = thread[t].seat
          /\ thread[t].pc = "announce" /\ thread[t].op = "confirm"
      BY <1>0, <1>5 DEF ConfirmAnnounce, ThreadState, Pcs, Results, NoID
    <2>2. thread' = [thread EXCEPT ![t] = r]
      BY <1>0, <1>5 DEF ConfirmAnnounce
    <2> HIDE DEF r
    <2>3. Continues(t, r)
      BY <1>00, <2>1
      DEF Continues, StoreInv, WritersKnowTheirSeat, ConfirmedMeansOwned
    <2> QED BY <1>5, <2>2, <2>3, ThreadStepKeepsInv DEF ConfirmAnnounce
  <1>6. ASSUME ReleaseAnnounce(t) PROVE Kept
    <2>0. thread[t].op = "release" /\ thread[t].pc = "announce"
      BY <1>6 DEF ReleaseAnnounce
    <2>1. Continues(t, [thread[t] EXCEPT !.pc = "offer"])
      BY <1>0, <1>00, <2>0
      DEF Continues, StoreInv, WritersKnowTheirSeat, AnsweredAtTheEnd, ThreadState,
          Pcs
    <2>2. thread' = [thread EXCEPT ![t] = [thread[t] EXCEPT !.pc = "offer"]]
      BY <1>0, <1>6 DEF ReleaseAnnounce, GoTo
    <2> QED BY <1>6, <2>1, <2>2, ThreadStepKeepsInv DEF ReleaseAnnounce
  <1>7. ASSUME ReleaseOffer(t) PROVE Kept
    BY <1>7, FinishContinues, ThreadStepKeepsInv
    DEF ReleaseOffer, Finish, Results
  <1> QED BY <1>1, <1>2, <1>3, <1>4, <1>5, <1>6, <1>7

(* A failing store call, which may strike at any of them, keeps Inv. *)
LEMMA StoreFailsKeepsInv ==
    ASSUME StoreInv, NEW t \in Threads, StoreFails(t)
    PROVE  Kept
  BY FinishContinues, ThreadStepKeepsInv DEF StoreFails, Finish, Results

(* Every step of a request that has begun keeps the invariant. *)
LEMMA RequestKeepsInv ==
    ASSUME StoreInv, NEW t \in Threads, RequestStep(t)
    PROVE  Kept
  BY HoldStepsKeepInv, ByHoldStepsKeepInv, StoreFailsKeepsInv DEF RequestStep

(* The sweeper keeps the invariant. *)
LEMMA SweeperKeepsInv ==
    ASSUME StoreInv, SweeperStep
    PROVE  Kept
  <1>0. /\ seats \in [Seats -> SeatState] /\ sweeper \in SweeperState
        /\ now \in Nat /\ sweeper.at <= now
        /\ \A s \in Seats : WellFormed(seats[s])
    BY DEF StoreInv, TypeOK, SweeperReadThePast, SeatsWellFormed
  <1>1. IdleSweeper \in SweeperState /\ IdleSweeper.at = 0
    BY DEF IdleSweeper, SweeperState
  <1>2. ASSUME UNCHANGED seats, sweeper' \in SweeperState,
               sweeper'.at <= now,
               UNCHANGED <<now, nextID, cancelled, verified, thread>>
        PROVE  Kept
    <2>1. \A s \in Seats : WellFormed(seats[s])'
      BY <1>0, <1>2 DEF WellFormed
    <2> QED BY <1>0, <1>2, <2>1, BulkWriteKeepsInv
  <1>3. ASSUME seats' = [s \in Seats |-> ExpireHold(seats[s], sweeper.at)],
               sweeper' \in SweeperState, sweeper'.at <= now,
               UNCHANGED <<now, nextID, cancelled, verified, thread>>
        PROVE  Kept
    <2>1. sweeper.at \in Nat
      BY <1>0 DEF SweeperState
    <2>2. ASSUME NEW s \in Seats
          PROVE  /\ seats'[s] \in SeatState /\ WellFormed(seats[s])'
                 /\ seats'[s].holdID \in {seats[s].holdID, NoID}
                 /\ seats'[s].ticketCode = seats[s].ticketCode
                 /\ seats[s].status = "reserved" => seats'[s] = seats[s]
      <3>1. seats'[s] = ExpireHold(seats[s], sweeper.at)
        BY <1>3
      <3>2. WellFormed(seats'[s])
        BY <1>0, <2>1, <3>1, ExpireKeepsSeat
      <3>3. WellFormed(seats[s])'
        BY <3>2 DEF WellFormed
      <3>4. seats[s].status = "reserved" => ~IsHoldExpired(seats[s], sweeper.at)
        BY DEF IsHoldExpired
      <3> QED BY <1>0, <2>1, <3>1, <3>3, <3>4, ExpireKeepsSeat
    <2>3. seats' \in [Seats -> SeatState]
      BY <1>3, <2>2
    <2> QED BY <1>3, <2>2, <2>3, BulkWriteKeepsInv
  <1>4. CASE BeginSweep
    <2>1. sweeper' \in SweeperState /\ sweeper'.at = now
      BY <1>0, <1>4 DEF BeginSweep, SweeperState
    <2> QED BY <1>0, <1>2, <1>4, <2>1 DEF BeginSweep
  <1>5. CASE ExpireHolds
    <2>1. sweeper' \in SweeperState /\ sweeper'.at = 0
      BY <1>1, <1>5 DEF ExpireHolds, SweeperState, ExpiredSeats
    <2> QED BY <1>0, <1>3, <1>5, <2>1 DEF ExpireHolds
  <1>6. CASE SweepFails
    BY <1>0, <1>1, <1>2, <1>3, <1>6 DEF SweepFails
  <1>7. CASE \E s \in Seats : SweepOffer(s)
    <2>1. sweeper' \in SweeperState /\ sweeper'.at <= now
      BY <1>0, <1>1, <1>7 DEF SweepOffer, SweeperState
    <2> QED BY <1>2, <1>7, <2>1 DEF SweepOffer
  <1> QED BY <1>4, <1>5, <1>6, <1>7 DEF SweeperStep

(* The administrator, the accounts, the clock and a crash keep Inv. *)
LEMMA EnvironmentKeepsInv ==
    ASSUME StoreInv, Environment
    PROVE  Kept
  <1>0. /\ seats \in [Seats -> SeatState] /\ sweeper \in SweeperState
        /\ now \in Nat /\ sweeper.at <= now
        /\ \A s \in Seats : WellFormed(seats[s])
    BY DEF StoreInv, TypeOK, SweeperReadThePast, SeatsWellFormed
  <1>1. ASSUME NEW e \in Events, CancelEvent(e) PROVE Kept
    BY <1>1 DEF CancelEvent, Kept, StoreInv, TypeOK, SeatsWellFormed,
       WellFormed, IDsDrawn, HoldsFresh, CodesFresh, HasFreshHold, HasFreshCode,
       WritersKnowTheirSeat, AnsweredAtTheEnd, SweeperReadThePast,
       ConfirmedMeansOwned
  <1>2. ASSUME NEW S \in SUBSET Seats, AddSeats(S) PROVE Kept
    <2>1. ASSUME NEW s \in Seats
          PROVE  /\ seats'[s] \in SeatState /\ WellFormed(seats[s])'
                 /\ seats'[s].holdID \in {seats[s].holdID, NoID}
                 /\ seats'[s].ticketCode = seats[s].ticketCode
                 /\ seats[s].status = "reserved" => seats'[s] = seats[s]
      <3>1. CASE seats'[s] = seats[s]
        BY <1>0, <3>1 DEF WellFormed
      <3>2. CASE seats'[s] = NewSeat /\ seats[s].status = "absent"
        BY <1>0, <3>2, NewSeatIsFine DEF WellFormed
      <3> QED BY <1>2, <3>1, <3>2 DEF AddSeats
    <2>2. seats' \in [Seats -> SeatState]
      BY <1>2, <2>1 DEF AddSeats
    <2> QED BY <1>0, <1>2, <2>1, <2>2, BulkWriteKeepsInv DEF AddSeats
  <1>3. ASSUME NEW u \in Users, VerifyEmail(u) PROVE Kept
    BY <1>3 DEF VerifyEmail, Kept, StoreInv, TypeOK, SeatsWellFormed,
       WellFormed, IDsDrawn, HoldsFresh, CodesFresh, HasFreshHold, HasFreshCode,
       WritersKnowTheirSeat, AnsweredAtTheEnd, SweeperReadThePast,
       ConfirmedMeansOwned
  <1>4. CASE Tick
    <2>1. now \in Nat /\ now' = now + 1
      BY <1>0, <1>4 DEF Tick
    <2>2. /\ thread \in [Threads -> ThreadState]
          /\ sweeper.at \in Nat /\ sweeper.at <= now
      BY <1>0 DEF StoreInv, TypeOK, SweeperState
    <2>3. \A t \in Threads : thread[t].at \in Nat
      BY <2>2 DEF ThreadState
    <2>4. HoldsFresh'
      BY <1>4, <2>1, <2>3 DEF Tick, StoreInv, HoldsFresh, HasFreshHold
    <2>5. CodesFresh'
      BY <1>4, <2>1, <2>3 DEF Tick, StoreInv, CodesFresh, HasFreshCode
    <2>6. SweeperReadThePast'
      BY <1>4, <2>1, <2>2 DEF Tick, SweeperReadThePast
    <2>7. TypeOK' /\ SeatsWellFormed' /\ IDsDrawn'
      BY <1>4, <2>1 DEF Tick, StoreInv, TypeOK, SeatsWellFormed, WellFormed, IDsDrawn
    <2>8. /\ WritersKnowTheirSeat' /\ AnsweredAtTheEnd'
          /\ ConfirmedMeansOwned => ConfirmedMeansOwned'
      BY <1>4 DEF Tick, StoreInv, WritersKnowTheirSeat, AnsweredAtTheEnd,
                  ConfirmedMeansOwned
    <2> QED BY <2>4, <2>5, <2>6, <2>7, <2>8 DEF StoreInv, Kept
  <1>5. CASE Crash
    <2>1. IdleThread \in ThreadState /\ IdleSweeper \in SweeperState
      BY DEF IdleThread, ThreadState, Ops, Pcs, Results, NoID, IdleSweeper,
             SweeperState
    <2>2. \A t \in Threads : thread'[t] = IdleThread
      BY <1>5 DEF Crash
    <2>3. TypeOK' /\ SeatsWellFormed'
      BY <1>5, <2>1 DEF Crash, StoreInv, TypeOK, SeatsWellFormed, WellFormed
    <2>4. IDsDrawn'
      BY <1>5, <2>2 DEF Crash, StoreInv, IDsDrawn, IdleThread, NoID
    <2>5. /\ HoldsFresh' /\ CodesFresh' /\ WritersKnowTheirSeat'
          /\ AnsweredAtTheEnd' /\ ConfirmedMeansOwned'
      BY <2>2 DEF HoldsFresh, CodesFresh, HasFreshHold, HasFreshCode,
         WritersKnowTheirSeat, AnsweredAtTheEnd, ConfirmedMeansOwned, IdleThread
    <2>6. SweeperReadThePast'
      BY <1>0, <1>5 DEF Crash, SweeperReadThePast, IdleSweeper
    <2> QED BY <2>3, <2>4, <2>5, <2>6 DEF StoreInv, Kept
  <1> QED BY <1>1, <1>2, <1>3, <1>4, <1>5 DEF Environment

LEMMA StutterKeepsInv == StoreInv /\ UNCHANGED vars => Kept
  BY DEF vars, Kept, StoreInv, TypeOK, SeatsWellFormed, WellFormed, IDsDrawn,
     HoldsFresh, CodesFresh, HasFreshHold, HasFreshCode, WritersKnowTheirSeat,
     AnsweredAtTheEnd, SweeperReadThePast, ConfirmedMeansOwned

(* Whatever the system does next, the invariant survives. *)
LEMMA NextInv == Inv /\ [Next]_vars => Inv'
  <1> SUFFICES ASSUME StoreInv, [Next]_vars PROVE Kept
    BY DEF Inv, Kept
  <1>1. CASE \E t \in Threads :
               \/ \E u \in Users, s \in Seats : BeginHold(t, u, s)
               \/ \E u \in Users, h \in 1..(nextID - 1) :
                    BeginConfirm(t, u, h) \/ BeginRelease(t, u, h)
               \/ RequestStep(t)
    BY <1>1, HoldStepsKeepInv, ByHoldStepsKeepInv, RequestKeepsInv
  <1>2. CASE SweeperStep
    BY <1>2, SweeperKeepsInv
  <1>3. CASE Environment
    BY <1>3, EnvironmentKeepsInv
  <1>4. CASE UNCHANGED vars
    BY <1>4, StutterKeepsInv
  <1> QED BY <1>1, <1>2, <1>3, <1>4 DEF Next

-----------------------------------------------------------------------------
(* The theorems *)

(* The inductive invariant holds in every reachable state. *)
THEOREM InvHolds == Spec => []Inv
  BY InitInv, NextInv, PTL DEF Spec

(* Every variable keeps its type. *)
THEOREM TypeCorrect == Spec => []TypeOK
  <1>1. Inv => TypeOK
    BY DEF Inv, StoreInv
  <1> QED BY <1>1, InvHolds, PTL

(* The seat store never breaks its schema, however requests, sweeps,        *)
(* administrators, failures and restarts interleave.                        *)
THEOREM StoreStaysWellFormed == Spec => []SeatsWellFormed
  <1>1. Inv => SeatsWellFormed
    BY DEF Inv, StoreInv
  <1> QED BY <1>1, InvHolds, PTL

(* A confirmed caller owns the seat they were told they own, for ever. *)
THEOREM ConfirmationsAreTrue == Spec => []ConfirmedMeansOwned
  <1>1. Inv => ConfirmedMeansOwned
    BY DEF Inv, StoreInv
  <1> QED BY <1>1, InvHolds, PTL

-----------------------------------------------------------------------------
(* How a seat can change *)

(* HoldSeat writes seat s for thread t. *)
ClaimedBy(t, s) ==
    /\ thread[t].op = "hold" /\ thread[t].pc = "update"
    /\ thread[t].seat = s
    /\ HoldOutcome(t) = "ok"
    /\ seats'[s] = HeldSeat(t)

(* ConfirmReservation or ReleaseSeat writes seat s for thread t. *)
SettledBy(t, s) ==
    /\ thread[t].op \in {"confirm", "release"}
    /\ thread[t].pc = "update" /\ thread'[t].pc # "update"
    /\ Carries(s, t)
    /\ ByHoldOutcome(t, s) = "ok"
    /\ seats'[s] = ByHoldSeat(t, s)

(* A seat changes only by a claim, by a request naming its hold, by a sweep *)
(* or by being added.                                                       *)
LEMMA SeatChanges ==
    ASSUME StoreInv, Next, NEW s \in Seats, seats'[s] # seats[s]
    PROVE  \/ \E t \in Threads : ClaimedBy(t, s)
           \/ \E t \in Threads : SettledBy(t, s)
           \/ seats'[s] = ExpireHold(seats[s], sweeper.at)
           \/ seats[s].status = "absent" /\ seats'[s] = NewSeat
  <1>0. /\ thread \in [Threads -> ThreadState]
        /\ seats \in [Seats -> SeatState]
    BY DEF StoreInv, TypeOK
  <1>1. ASSUME NEW t \in Threads,
               HoldUpdate(t) \/ HoldUpdateUnacknowledged(t)
        PROVE  ClaimedBy(t, s)
    <2>1. /\ thread[t].op = "hold" /\ thread[t].pc = "update"
          /\ HoldOutcome(t) = "ok"
          /\ seats' = [seats EXCEPT ![thread[t].seat] = HeldSeat(t)]
      BY <1>1 DEF HoldUpdate, HoldUpdateUnacknowledged
    <2> QED BY <1>0, <2>1 DEF ClaimedBy
  <1>2. ASSUME NEW t \in Threads, NEW x \in Seats,
               UpdateByHold(t, x) \/ UpdateByHoldUnacknowledged(t, x)
        PROVE  SettledBy(t, s)
    <2>1. /\ thread[t].op \in {"confirm", "release"}
          /\ thread[t].pc = "update" /\ Carries(x, t)
          /\ ByHoldOutcome(t, x) = "ok"
          /\ seats' = [seats EXCEPT ![x] = ByHoldSeat(t, x)]
      BY <1>2 DEF UpdateByHold, UpdateByHoldUnacknowledged
    <2>2. thread'[t].pc # "update"
      <3>1. CASE UpdateByHold(t, x)
        BY <1>0, <2>1, <3>1 DEF UpdateByHold, ThreadState
      <3>2. CASE UpdateByHoldUnacknowledged(t, x)
        BY <1>0, <3>2 DEF UpdateByHoldUnacknowledged, Finish, IdleThread
      <3> QED BY <1>2, <3>1, <3>2
    <2>3. x = s
      BY <1>0, <2>1
    <2> QED BY <1>0, <2>1, <2>2, <2>3 DEF SettledBy
  <1>3. ASSUME NEW t \in Threads, RequestStep(t)
        PROVE  ClaimedBy(t, s) \/ SettledBy(t, s)
    BY <1>1, <1>2, <1>3
    DEF RequestStep, HoldGate, HoldLookup, HoldAnnounce, ConfirmGate,
        ConfirmAnnounce, HoldNotFound, ReleaseAnnounce, ReleaseOffer,
        StoreFails
  <1>4. CASE SweeperStep
    BY <1>4 DEF SweeperStep, BeginSweep, ExpireHolds, SweepFails, SweepOffer
  <1>5. CASE Environment
    BY <1>5 DEF Environment, CancelEvent, AddSeats, VerifyEmail, Tick, Crash
  <1>6. CASE \E t \in Threads :
               \/ \E u \in Users, x \in Seats : BeginHold(t, u, x)
               \/ \E u \in Users, h \in 1..(nextID - 1) :
                    BeginConfirm(t, u, h) \/ BeginRelease(t, u, h)
    BY <1>6 DEF BeginHold, BeginConfirm, BeginRelease
  <1> QED BY <1>3, <1>4, <1>5, <1>6 DEF Next

(* What each of the four changes finds and leaves. *)
LEMMA ChangeFacts ==
    ASSUME StoreInv, Next, NEW s \in Seats, seats'[s] # seats[s]
    PROVE  /\ seats[s].status # "reserved"
           /\ HasCurrentHold(seats[s], now) =>
                \E t \in Threads : ByItsHolder(t, s)
           /\ seats'[s].status = "reserved" =>
                /\ seats[s].status = "held"
                /\ seats[s].heldBy = seats'[s].reservedBy
                /\ seats[s].heldBy \in verified
                /\ \E t \in Threads : ByItsHolder(t, s)
                                      /\ thread[t].at < seats[s].expiresAt
  <1>0. /\ thread \in [Threads -> ThreadState]
        /\ seats \in [Seats -> SeatState]
        /\ seats[s] \in SeatState /\ WellFormed(seats[s])
        /\ now \in Nat /\ sweeper.at \in Nat /\ sweeper.at <= now
    BY DEF StoreInv, TypeOK, SeatsWellFormed, SweeperState, SweeperReadThePast
  <1>1. ASSUME NEW at \in Nat, at <= now, IsHoldExpired(seats[s], at)
        PROVE  ~HasCurrentHold(seats[s], now)
    BY <1>0, <1>1 DEF IsHoldExpired, HasCurrentHold, Reached, SeatState
  <1>2. ASSUME NEW t \in Threads, ClaimedBy(t, s)
        PROVE  /\ seats[s].status # "reserved"
               /\ ~HasCurrentHold(seats[s], now)
               /\ seats'[s].status = "held"
    <2>1. /\ thread[t].hold \in Nat /\ thread[t].at \in Nat
          /\ thread[t].user \in Users \cup {NoUser} /\ thread[t].at <= now
      BY <1>0, <1>2 DEF ThreadState, ClaimedBy, StoreInv, HoldsFresh, HasFreshHold
    <2>2. /\ seats[s].status # "reserved"
          /\ seats'[s].status = "held"
          /\ CanHold(seats[s], thread[t].at)
      BY <1>0, <1>2, <2>1, HoldKeepsSeat DEF ClaimedBy, HoldOutcome, HeldSeat
    <2>3. \/ seats[s].status = "available"
          \/ IsHoldExpired(seats[s], thread[t].at)
      BY <2>2 DEF CanHold
    <2> QED BY <1>1, <2>1, <2>2, <2>3 DEF HasCurrentHold
  <1>3. ASSUME NEW t \in Threads, SettledBy(t, s)
        PROVE  /\ seats[s].status = "held" /\ ByItsHolder(t, s)
               /\ seats'[s].status = "reserved" =>
                    /\ seats[s].heldBy = seats'[s].reservedBy
                    /\ seats[s].heldBy \in verified
                    /\ thread[t].at < seats[s].expiresAt
    <2>1. /\ thread[t].code \in Nat /\ thread[t].at \in Nat
          /\ thread[t].user \in Users \cup {NoUser}
      BY <1>0 DEF ThreadState
    <2>2. CASE thread[t].op = "confirm"
      <3>1. /\ seats[s].status = "held" /\ seats[s].heldBy = thread[t].user
            /\ seats'[s].reservedBy = thread[t].user
            /\ thread[t].at < seats[s].expiresAt
        BY <1>0, <1>3, <2>1, <2>2, ConfirmKeepsSeat
        DEF SettledBy, ByHoldOutcome, ByHoldSeat
      <3>2. thread[t].user \in verified
        BY <1>3, <2>2 DEF SettledBy, StoreInv, CodesFresh, HasFreshCode
      <3> QED BY <1>3, <3>1, <3>2 DEF ByItsHolder, SettledBy, Carries
    <2>3. CASE thread[t].op = "release"
      <3>1. /\ seats[s].status = "held" /\ seats[s].heldBy = thread[t].user
            /\ seats'[s].status = "available"
        BY <1>0, <1>3, <2>1, <2>3, ReleaseKeepsSeat
        DEF SettledBy, ByHoldOutcome, ByHoldSeat
      <3> QED BY <1>3, <3>1 DEF ByItsHolder, SettledBy, Carries
    <2> QED BY <1>3, <2>2, <2>3 DEF SettledBy
  <1>4. ASSUME seats'[s] = ExpireHold(seats[s], sweeper.at)
        PROVE  /\ seats[s].status = "held" /\ seats'[s].status = "available"
               /\ ~HasCurrentHold(seats[s], now)
    <2>1. IsHoldExpired(seats[s], sweeper.at)
      BY <1>4 DEF ExpireHold
    <2>2. seats'[s].status = "available"
      BY <1>0, <1>4, <2>1 DEF ExpireHold, ClearHold, SeatState
    <2> QED BY <1>0, <1>1, <2>1, <2>2 DEF IsHoldExpired
  <1>5. ASSUME seats[s].status = "absent", seats'[s] = NewSeat
        PROVE  seats'[s].status = "available"
               /\ ~HasCurrentHold(seats[s], now)
    BY <1>5, NewSeatIsFine DEF HasCurrentHold
  <1> QED BY <1>2, <1>3, <1>4, <1>5, SeatChanges

(* A sold seat is never touched again. *)
THEOREM TicketsAreForever == Spec => TicketIsForever
  <1>1. Inv /\ [Next]_vars =>
          [\A s \in Seats : seats[s].status = "reserved" =>
                             seats'[s] = seats[s]]_vars
    BY ChangeFacts DEF Inv, vars
  <1> QED BY <1>1, InvHolds, PTL DEF Spec, TicketIsForever

(* Nobody but its holder touches a hold that has not run out, even though   *)
(* requests and sweeps judge by instants they read in the past.             *)
THEOREM LiveHoldsAreProtected == Spec => LiveHoldIsProtected
  <1>1. ASSUME Inv, NEW s \in Seats, LiveHold(s)
        PROVE  HasCurrentHold(seats[s], now)
    <2>1. now \in Nat /\ seats[s].expiresAt \in Nat
      BY <1>1 DEF Inv, StoreInv, TypeOK, SeatState
    <2> QED BY <1>1, <2>1
            DEF LiveHold, HasCurrentHold, IsHoldExpired, Reached
  <1>2. Inv /\ [Next]_vars =>
          [\A s \in Seats :
             LiveHold(s) /\ seats'[s] # seats[s] =>
                 \E t \in Threads : ByItsHolder(t, s)]_vars
    BY <1>1, ChangeFacts DEF Inv
  <1> QED BY <1>2, InvHolds, PTL DEF Spec, LiveHoldIsProtected

(* A seat is sold only to the verified user whose unexpired hold it is. *)
THEOREM SalesAreEarned == Spec => SaleIsEarned
  <1>1. Inv /\ [Next]_vars =>
          [\A s \in Seats :
             seats[s].status # "reserved" /\ seats'[s].status = "reserved" =>
                 /\ seats[s].status = "held"
                 /\ seats[s].heldBy = seats'[s].reservedBy
                 /\ seats[s].heldBy \in verified
                 /\ \E t \in Threads :
                      ByItsHolder(t, s)
                      /\ thread[t].at < seats[s].expiresAt]_vars
    BY ChangeFacts DEF Inv
  <1> QED BY <1>1, InvHolds, PTL DEF Spec, SaleIsEarned

-----------------------------------------------------------------------------
(* Hold ids are used once *)

(* A hold id on its way to the store was on its way before, or is drawn now. *)
LEMMA FreshHolds ==
    ASSUME StoreInv, Next, NEW t \in Threads, HasFreshHold(t)'
    PROVE  \/ HasFreshHold(t) /\ thread'[t].hold = thread[t].hold
           \/ thread'[t].hold = nextID
  <1>0. thread \in [Threads -> ThreadState]
    BY DEF StoreInv, TypeOK
  <1>1. CASE thread'[t] = thread[t]
    BY <1>1 DEF HasFreshHold
  <1>2. ASSUME NEW x \in Threads, NEW r,
               thread' = [thread EXCEPT ![x] = r],
               \/ ~(r.op = "hold" /\ r.pc \in {"gate", "lookup", "update"})
               \/ HasFreshHold(x) /\ r.hold = thread[x].hold
               \/ r.hold = nextID
        PROVE  \/ HasFreshHold(t) /\ thread'[t].hold = thread[t].hold
               \/ thread'[t].hold = nextID
    BY <1>0, <1>1, <1>2 DEF HasFreshHold
  <1>3. ASSUME NEW x \in Threads, NEW res, Finish(x, res)
        PROVE  \/ HasFreshHold(t) /\ thread'[t].hold = thread[t].hold
               \/ thread'[t].hold = nextID
    <2> DEFINE r == [IdleThread EXCEPT !.op = thread[x].op, !.res = res]
    <2>1. r.pc = "idle" /\ thread' = [thread EXCEPT ![x] = r]
      BY <1>3 DEF Finish, IdleThread
    <2> HIDE DEF r
    <2> QED BY <1>2, <2>1
  <1>4. ASSUME NEW x \in Threads, NEW pc, GoTo(x, pc),
               HasFreshHold(x) \/ pc \notin {"gate", "lookup", "update"}
        PROVE  \/ HasFreshHold(t) /\ thread'[t].hold = thread[t].hold
               \/ thread'[t].hold = nextID
    <2> DEFINE r == [thread[x] EXCEPT !.pc = pc]
    <2>1. /\ r.pc = pc /\ r.hold = thread[x].hold
          /\ thread' = [thread EXCEPT ![x] = r]
      BY <1>0, <1>4 DEF GoTo, ThreadState
    <2> HIDE DEF r
    <2> QED BY <1>2, <1>4, <2>1
  <1>5. ASSUME NEW x \in Threads, RequestStep(x)
        PROVE  \/ HasFreshHold(t) /\ thread'[t].hold = thread[t].hold
               \/ thread'[t].hold = nextID
    <2>1. CASE \/ HoldGate(x) \/ HoldLookup(x) \/ HoldUpdate(x)
               \/ HoldAnnounce(x) \/ HoldUpdateUnacknowledged(x)
      BY <1>3, <1>4, <2>1
      DEF HoldGate, HoldLookup, HoldUpdate, HoldAnnounce,
          HoldUpdateUnacknowledged, HasFreshHold
    <2>2. CASE ConfirmGate(x)
      <3>1. CASE thread' = [thread EXCEPT ![x].pc = "update", ![x].at = now,
                                          ![x].code = nextID]
        <4> DEFINE r == [thread[x] EXCEPT !.pc = "update", !.at = now,
                                          !.code = nextID]
        <4>1. /\ r.op = "confirm" /\ thread' = [thread EXCEPT ![x] = r]
          BY <1>0, <2>2, <3>1 DEF ConfirmGate, ThreadState
        <4> HIDE DEF r
        <4> QED BY <1>2, <4>1
      <3> QED BY <1>3, <2>2, <3>1 DEF ConfirmGate
    <2>3. CASE ConfirmAnnounce(x)
      <3> DEFINE r == [thread[x] EXCEPT !.pc = "idle", !.at = 0,
                                        !.hold = NoID, !.res = "ok"]
      <3>1. r.pc = "idle" /\ thread' = [thread EXCEPT ![x] = r]
        BY <1>0, <2>3 DEF ConfirmAnnounce, ThreadState
      <3> HIDE DEF r
      <3> QED BY <1>2, <3>1
    <2>4. ASSUME NEW s \in Seats, UpdateByHold(x, s)
          PROVE  \/ HasFreshHold(t) /\ thread'[t].hold = thread[t].hold
                 \/ thread'[t].hold = nextID
      <3>1. CASE thread' = [thread EXCEPT ![x].pc = "announce", ![x].seat = s]
        <4> DEFINE r == [thread[x] EXCEPT !.pc = "announce", !.seat = s]
        <4>1. r.pc = "announce" /\ thread' = [thread EXCEPT ![x] = r]
          BY <1>0, <3>1 DEF ThreadState
        <4> HIDE DEF r
        <4> QED BY <1>2, <4>1
      <3> QED BY <1>3, <2>4, <3>1 DEF UpdateByHold
    <2>5. CASE \/ \E s \in Seats : UpdateByHoldUnacknowledged(x, s)
               \/ HoldNotFound(x) \/ ReleaseAnnounce(x) \/ ReleaseOffer(x)
               \/ StoreFails(x)
      BY <1>3, <1>4, <2>5
      DEF UpdateByHoldUnacknowledged, HoldNotFound, ReleaseAnnounce,
          ReleaseOffer, StoreFails
    <2> QED BY <1>5, <2>1, <2>2, <2>3, <2>4, <2>5 DEF RequestStep
  <1>6. ASSUME NEW x \in Threads, NEW u \in Users,
               \/ \E s \in Seats : BeginHold(x, u, s)
               \/ \E h \in 1..(nextID - 1) :
                    BeginConfirm(x, u, h) \/ BeginRelease(x, u, h)
        PROVE  \/ HasFreshHold(t) /\ thread'[t].hold = thread[t].hold
               \/ thread'[t].hold = nextID
    <2>1. ASSUME NEW s \in Seats, BeginHold(x, u, s)
          PROVE  \E r : r.hold = nextID /\ thread' = [thread EXCEPT ![x] = r]
      BY <2>1 DEF BeginHold, IdleThread
    <2>2. ASSUME NEW h, BeginConfirm(x, u, h) \/ BeginRelease(x, u, h)
          PROVE  \E r : r.op # "hold" /\ thread' = [thread EXCEPT ![x] = r]
      BY <2>2 DEF BeginConfirm, BeginRelease, IdleThread
    <2> QED BY <1>2, <1>6, <2>1, <2>2
  <1>7. CASE SweeperStep
    BY <1>1, <1>7 DEF SweeperStep, BeginSweep, ExpireHolds, SweepFails, SweepOffer
  <1>8. CASE Environment
    <2>1. CASE Crash
      BY <2>1 DEF Crash, HasFreshHold, IdleThread
    <2> QED BY <1>1, <1>8, <2>1
            DEF Environment, CancelEvent, AddSeats, VerifyEmail, Tick
  <1> QED BY <1>5, <1>6, <1>7, <1>8 DEF Next

(* A seat takes up a hold only from a request that drew it. *)
LEMMA HoldIDChanges ==
    ASSUME StoreInv, Next, NEW s \in Seats
    PROVE  \/ seats'[s].holdID \in {seats[s].holdID, NoID}
           \/ \E t \in Threads : /\ HasFreshHold(t)
                                 /\ seats'[s].holdID = thread[t].hold
  <1>0. /\ thread \in [Threads -> ThreadState]
        /\ seats[s] \in SeatState /\ WellFormed(seats[s])
        /\ sweeper.at \in Nat
    BY DEF StoreInv, TypeOK, SeatsWellFormed, SweeperState
  <1>1. ASSUME NEW t \in Threads, ClaimedBy(t, s)
        PROVE  HasFreshHold(t) /\ seats'[s].holdID = thread[t].hold
    BY <1>0, <1>1 DEF ClaimedBy, HasFreshHold, HeldSeat, Hold, SeatState
  <1>2. ASSUME NEW t \in Threads, SettledBy(t, s)
        PROVE  seats'[s].holdID = NoID
    <2>1. seats'[s] = ByHoldSeat(t, s)
      BY <1>2 DEF SettledBy
    <2> QED BY <1>0, <2>1
            DEF ByHoldSeat, Confirm, Release, ClearHold, SeatState
  <1>3. ExpireHold(seats[s], sweeper.at).holdID \in {seats[s].holdID, NoID}
    BY <1>0 DEF ExpireHold, ClearHold, SeatState
  <1>4. NewSeat.holdID = NoID
    BY DEF NewSeat
  <1>5. CASE seats'[s] = seats[s]
    BY <1>5
  <1> QED BY <1>1, <1>2, <1>3, <1>4, <1>5, SeatChanges

LEMMA SpentStays ==
    ASSUME StoreInv, Next, NEW h \in 1..(nextID - 1), Spent(h)
    PROVE  Spent(h)'
  <1>1. h # NoID /\ h # nextID
    BY DEF StoreInv, TypeOK, NoID
  <1>2. ASSUME NEW s \in Seats PROVE seats'[s].holdID # h
    BY <1>1, HoldIDChanges DEF Spent
  <1>3. ASSUME NEW t \in Threads, HasFreshHold(t)' PROVE thread'[t].hold # h
    BY <1>1, <1>3, FreshHolds DEF Spent
  <1> QED BY <1>2, <1>3 DEF Spent

(* A hold that ended is never anybody's again: a late or repeated request   *)
(* that names it finds no seat, whoever has the seat by now.                *)
THEOREM SpentHoldsAreGone == Spec => SpentHoldsStaySpent
  <1>1. Inv /\ [Next]_vars =>
          [\A h \in 1..(nextID - 1) : Spent(h) => Spent(h)']_vars
    BY SpentStays DEF Inv
  <1> QED BY <1>1, InvHolds, PTL DEF Spec, SpentHoldsStaySpent
=============================================================================
