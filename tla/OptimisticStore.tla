-------------------------- MODULE OptimisticStore --------------------------
(***************************************************************************)
(* The seat store that takes no locks                                      *)
(* (internal/repository/optimistic_seat_repository.go).                    *)
(*                                                                         *)
(* Where Reservation reads, decides and writes a seat in one step, this    *)
(* store reads it, decides on its copy, and writes only if the version of  *)
(* the row has not moved, a bounded number of times.  Every step here is a *)
(* step of Reservation or leaves its variables alone: what callers see is  *)
(* what the store with locks shows them.                                   *)
(***************************************************************************)
EXTENDS Reservation

CONSTANT Attempts   \* how often an update is tried before it is given up

(* Giving an update up is an error callers must expect of any store. *)
ASSUME OptimisticAssumption ==
    /\ Attempts \in Nat \ {0}
    /\ StoreMayFail

VARIABLES
    version,   \* the version column of each seat
    attempt    \* the copy each request decided on and has not written

optimisticVars == <<version, attempt>>

allVars == <<vars, optimisticVars>>

AttemptState == [seat: Seats \cup {NoSeat}, new: SeatState, version: Nat,
                 lost: Nat]

(* Nothing read yet, and that many attempts lost before. *)
Unread(n) == [seat |-> NoSeat, new |-> AbsentSeat, version |-> 0, lost |-> n]

OptimisticInit ==
    /\ Init
    /\ version = [s \in Seats |-> 1]
    /\ attempt = [t \in Threads |-> Unread(0)]

-----------------------------------------------------------------------------
(* What the read of UpdateSeat or UpdateSeatByHoldID can return. *)
Reads(t, s) ==
    IF thread[t].op = "hold" THEN s = thread[t].seat ELSE Carries(s, t)

(* What the closure answers for seat s, and the seat it leaves behind. *)
Outcome(t, s) ==
    IF thread[t].op = "hold" THEN HoldOutcome(t) ELSE ByHoldOutcome(t, s)

Decided(t, s) ==
    IF thread[t].op = "hold" THEN HeldSeat(t) ELSE ByHoldSeat(t, s)

(* The seat was read and the closure has changed the copy. *)
ReadAndDecide(t, s) ==
    /\ thread[t].pc = "update"
    /\ attempt[t].seat = NoSeat
    /\ Reads(t, s)
    /\ Outcome(t, s) = "ok"
    /\ attempt' = [attempt EXCEPT ![t] =
                     [seat |-> s, new |-> Decided(t, s),
                      version |-> version[s], lost |-> attempt[t].lost]]
    /\ UNCHANGED <<vars, version>>

(* The closure refuses the seat, which ends the request. *)
ReadAndRefuse(t, s) ==
    /\ thread[t].pc = "update"
    /\ attempt[t].seat = NoSeat
    /\ Reads(t, s)
    /\ Outcome(t, s) # "ok"
    /\ Finish(t, Outcome(t, s))
    /\ attempt' = [attempt EXCEPT ![t] = Unread(0)]
    /\ UNCHANGED <<now, nextID, seats, cancelled, verified, sweeper, version>>

ReadNothing(t) ==
    /\ attempt[t].seat = NoSeat
    /\ HoldNotFound(t)
    /\ attempt' = [attempt EXCEPT ![t] = Unread(0)]
    /\ UNCHANGED version

(* Mutant: the row is written whatever its version. *)
MutUnchanged(t) == attempt[t].seat # NoSeat

(* The row still has the version that was read. *)
Unchanged(t) ==
    attempt[t].seat # NoSeat /\ version[attempt[t].seat] = attempt[t].version

StoreCopy(t) ==
    /\ seats' = [seats EXCEPT ![attempt[t].seat] = attempt[t].new]
    /\ version' = [version EXCEPT ![attempt[t].seat] = @ + 1]
    /\ attempt' = [attempt EXCEPT ![t] = Unread(0)]
    /\ UNCHANGED <<now, nextID, cancelled, verified, sweeper>>

WriteIfUnchanged(t) ==
    /\ Unchanged(t)
    /\ StoreCopy(t)
    /\ thread' = [thread EXCEPT ![t].pc = "announce",
                                ![t].seat = attempt[t].seat]

(* The row was written and the answer lost. *)
WriteUnacknowledged(t) ==
    /\ Unchanged(t)
    /\ StoreCopy(t)
    /\ Finish(t, "store_failed")

(* No row was written: read again, unless that was the last attempt.        *)
LoseAttempt(t) ==
    /\ attempt[t].seat # NoSeat
    /\ ~Unchanged(t)
    /\ IF attempt[t].lost + 1 < Attempts
       THEN /\ attempt' = [attempt EXCEPT ![t] = Unread(attempt[t].lost + 1)]
            /\ UNCHANGED thread
       ELSE /\ attempt' = [attempt EXCEPT ![t] = Unread(0)]
            /\ Finish(t, "store_failed")
    /\ UNCHANGED <<now, nextID, seats, cancelled, verified, sweeper, version>>

(* The database fails or the request's context is cancelled. *)
CallFails(t) ==
    /\ StoreFails(t)
    /\ attempt' = [attempt EXCEPT ![t] = Unread(0)]
    /\ UNCHANGED version

-----------------------------------------------------------------------------
(* Mutant: a sweep moves the version of every row. *)
MutVersionsAfterSweep == [s \in Seats |-> version[s] + 1]

(* expireHolds moves the version of the rows it frees. *)
VersionsAfterSweep ==
    [s \in Seats |-> IF s \in ExpiredSeats(sweeper.at)
                     THEN version[s] + 1 ELSE version[s]]

SweepSeats ==
    /\ ExpireHolds
    /\ version' = VersionsAfterSweep
    /\ UNCHANGED attempt

SweepSeatsFails ==
    /\ SweepFails
    /\ version' \in {version, VersionsAfterSweep}
    /\ version' = version <=> seats' = seats
    /\ UNCHANGED attempt

OptimisticCrash ==
    /\ Crash
    /\ attempt' = [t \in Threads |-> Unread(0)]
    /\ UNCHANGED version

-----------------------------------------------------------------------------
(* The steps that never write a stored seat are those of Reservation. *)
PlainStep(t) ==
    /\ \/ \E u \in Users, s \in Seats : BeginHold(t, u, s)
       \/ \E u \in Users, h \in 1..(nextID - 1) :
            BeginConfirm(t, u, h) \/ BeginRelease(t, u, h)
       \/ HoldGate(t) \/ HoldLookup(t) \/ HoldAnnounce(t)
       \/ ConfirmGate(t) \/ ConfirmAnnounce(t)
       \/ ReleaseAnnounce(t) \/ ReleaseOffer(t)
    /\ UNCHANGED optimisticVars

UpdateStep(t) ==
    \/ \E s \in Seats : ReadAndDecide(t, s) \/ ReadAndRefuse(t, s)
    \/ ReadNothing(t)
    \/ WriteIfUnchanged(t) \/ WriteUnacknowledged(t) \/ LoseAttempt(t)
    \/ CallFails(t)

OtherStep ==
    /\ \/ BeginSweep
       \/ \E s \in Seats : SweepOffer(s)
       \/ \E e \in Events : CancelEvent(e)
       \/ \E e \in Events : \E S \in SUBSET {s \in Seats : EventOf[s] = e} :
             AddSeats(S)
       \/ \E u \in Users : VerifyEmail(u)
       \/ Tick
    /\ UNCHANGED optimisticVars

OptimisticNext ==
    \/ \E t \in Threads : PlainStep(t) \/ UpdateStep(t)
    \/ SweepSeats \/ SweepSeatsFails
    \/ OtherStep
    \/ OptimisticCrash

OptimisticSpec == OptimisticInit /\ [][OptimisticNext]_allVars

-----------------------------------------------------------------------------
(* Properties *)

(* Every variable of this module has its type. *)
OptimisticTypeOK ==
    /\ version \in [Seats -> Nat]
    /\ attempt \in [Threads -> AttemptState]

(* "the caller sees the same outcome as with row locking": the store that   *)
(* retries implements Reservation, in which every update is one step.       *)
ImplementsReservation == Spec

(* A confirmation or a release loses at most one attempt, however many      *)
(* requests and sweeps race it: whoever was first took the hold away, and   *)
(* the next read says so.  With two attempts or more, neither is ever given *)
(* up as a concurrent update.                                               *)
ByHoldLosesOnce ==
    \A t \in Threads :
        thread[t].op \in {"confirm", "release"} =>
            /\ attempt[t].lost <= 1
            /\ attempt[t].lost = 1 => attempt[t].seat = NoSeat

-----------------------------------------------------------------------------
(* The inductive invariant the proofs rest on *)

(* Only a request at its update has a copy, or attempts behind it. *)
AttemptBelongsToUpdate(t) ==
    IF thread[t].pc = "update"
    THEN thread[t].op \in {"hold", "confirm", "release"}
    ELSE attempt[t] = Unread(0)

(* A copy read at the version the row still has is the copy the closure     *)
(* would make now.                                                          *)
CopyIsCurrent(t) ==
    attempt[t].seat # NoSeat =>
        /\ attempt[t].version <= version[attempt[t].seat]
        /\ Unchanged(t) =>
             /\ Reads(t, attempt[t].seat)
             /\ Outcome(t, attempt[t].seat) = "ok"
             /\ attempt[t].new = Decided(t, attempt[t].seat)

(* The hold of a confirmation or release that was read and then lost its    *)
(* row is gone from every seat, and nobody will write it again.             *)
LostHoldIsGone(t) ==
    /\ thread[t].op \in {"confirm", "release"}
    /\ \/ attempt[t].lost > 0
       \/ attempt[t].seat # NoSeat /\ ~Unchanged(t)
    => /\ thread[t].hold # NoID
       /\ \A s \in Seats : ~Carries(s, t)
       /\ \A u \in Threads : HasFreshHold(u) =>
             thread[u].hold # thread[t].hold

AttemptIsSound(t) ==
    /\ AttemptBelongsToUpdate(t)
    /\ CopyIsCurrent(t)
    /\ LostHoldIsGone(t)

OptimisticInv ==
    /\ Inv
    /\ OptimisticTypeOK
    /\ \A t \in Threads : AttemptIsSound(t)
    /\ ByHoldLosesOnce
=============================================================================
