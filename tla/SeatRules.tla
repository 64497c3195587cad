----------------------------- MODULE SeatRules -----------------------------
(***************************************************************************)
(* The rules of a single seat: when it may be held, confirmed, released    *)
(* and expired (internal/domain/seat.go, expiry.go, seat_status.go).       *)
(*                                                                         *)
(* A seat is a record.  Identifiers (hold ids and ticket codes) are        *)
(* natural numbers and 0 is the empty string; instants are natural         *)
(* numbers.  A method that returns an error and otherwise mutates the seat *)
(* is a pair: XError gives the error it returns, "ok" when there is none,  *)
(* and X gives the seat it leaves behind when there is none.               *)
(***************************************************************************)
EXTENDS Naturals

CONSTANTS Users,     \* the accounts
          NoUser     \* the empty user id

ASSUME NoUserAssumption == NoUser \notin Users

NoID == 0

(* "absent" is a seat that is not stored yet; the rest is SeatStatus. *)
Statuses == {"absent", "available", "held", "reserved"}

SeatState == [status: Statuses, holdID: Nat, heldBy: Users \cup {NoUser},
              expiresAt: Nat, reservedBy: Users \cup {NoUser},
              ticketCode: Nat]

(* NewSeat: a stored seat that nobody has a claim on. *)
NewSeat == [status |-> "available", holdID |-> NoID, heldBy |-> NoUser,
            expiresAt |-> 0, reservedBy |-> NoUser, ticketCode |-> NoID]

AbsentSeat == [NewSeat EXCEPT !.status = "absent"]

-----------------------------------------------------------------------------
(* Mutant: a deadline arrives an instant early. *)
MutReachedEarly(instant, now) == instant <= now + 1

(* A deadline, and the boundary instant itself, has arrived. *)
Reached(instant, now) == instant <= now

(* Mutant: a timestamp left on a seat in another status reads as expiry. *)
MutStaleTimestampExpires(seat, now) == Reached(seat.expiresAt, now)

IsHoldExpired(seat, now) ==
    seat.status = "held" /\ Reached(seat.expiresAt, now)

(* Mutant: every seat whose hold deadline has passed may be held. *)
MutCanHoldReserved(seat, now) ==
    seat.status \in {"available", "reserved"} \/ IsHoldExpired(seat, now)

CanHold(seat, now) ==
    \/ seat.status = "available"
    \/ seat.status = "held" /\ IsHoldExpired(seat, now)

(* The hold CurrentHold returns is live; without one it returns nil. *)
HasCurrentHold(seat, now) ==
    seat.status = "held" /\ ~IsHoldExpired(seat, now)

(* Mutant: the holder is cleared to the wrong zero value. *)
MutClearHoldWrongZero(seat) ==
    [seat EXCEPT !.holdID = NoID, !.heldBy = NoID, !.expiresAt = 0]

ClearHold(seat) ==
    [seat EXCEPT !.holdID = NoID, !.heldBy = NoUser, !.expiresAt = 0]

-----------------------------------------------------------------------------
HoldError(seat, holdID, user, duration, now) ==
    IF holdID = NoID            THEN "empty_hold_id"
    ELSE IF user = NoUser       THEN "empty_user_id"
    ELSE IF duration <= 0       THEN "invalid_hold_duration"
    ELSE IF ~CanHold(seat, now) THEN "seat_not_available"
    ELSE "ok"

Hold(seat, holdID, user, duration, now) ==
    [seat EXCEPT !.status = "held", !.holdID = holdID, !.heldBy = user,
                 !.expiresAt = now + duration, !.reservedBy = NoUser]

(* Mutant: whoever knows the hold id may confirm. *)
MutConfirmErrorAnyUser(seat, user, ticketCode, now) ==
    IF user = NoUser                 THEN "empty_user_id"
    ELSE IF seat.status # "held"     THEN "seat_not_held"
    ELSE IF IsHoldExpired(seat, now) THEN "hold_expired"
    ELSE IF ticketCode = NoID        THEN "empty_ticket_code"
    ELSE "ok"

(* Ownership is looked at before expiry. *)
ConfirmError(seat, user, ticketCode, now) ==
    IF user = NoUser                 THEN "empty_user_id"
    ELSE IF seat.status # "held"     THEN "seat_not_held"
    ELSE IF seat.heldBy # user       THEN "not_hold_owner"
    ELSE IF IsHoldExpired(seat, now) THEN "hold_expired"
    ELSE IF ticketCode = NoID        THEN "empty_ticket_code"
    ELSE "ok"

Confirm(seat, user, ticketCode) ==
    ClearHold([seat EXCEPT !.status = "reserved", !.reservedBy = user,
                           !.ticketCode = ticketCode])

(* An expired hold may still be released by its owner. *)
ReleaseError(seat, user) ==
    IF user = NoUser             THEN "empty_user_id"
    ELSE IF seat.status # "held" THEN "seat_not_held"
    ELSE IF seat.heldBy # user   THEN "not_hold_owner"
    ELSE "ok"

Release(seat) == ClearHold([seat EXCEPT !.status = "available"])

(* ExpireHold drops a hold that has run out and leaves any other seat. *)
ExpireHold(seat, now) ==
    IF IsHoldExpired(seat, now)
    THEN ClearHold([seat EXCEPT !.status = "available"])
    ELSE seat
=============================================================================
