---------------------------- MODULE Reservation ----------------------------
(***************************************************************************)
(* The reservation core: requests that hold, confirm and release seats,    *)
(* the sweeper that expires holds, and the administrator who adds seats    *)
(* and withdraws events, all running against one seat store                *)
(* (internal/service/reservation_service.go, hold_sweeper.go,              *)
(* eligibility.go, inventory_service.go and the seat stores of             *)
(* internal/repository).                                                   *)
(*                                                                         *)
(* A request runs in a thread and is split at its store calls: everything  *)
(* it read before a call, the clock and the event included, may be stale   *)
(* when the call is made.  One store call is one atomic step, which is     *)
(* what the mutex of the in-memory store and the row locks of the Postgres *)
(* store give.                                                             *)
(***************************************************************************)
EXTENDS SeatRules

CONSTANTS Events,       \* events on sale
          Seats,        \* seats, stored or still to be added
          EventOf,      \* the event a seat belongs to
          NoSeat,       \* no seat
          Threads,      \* goroutines that can run a request
          HoldTTL,      \* how long a hold lasts
          Leftover,     \* hold ids handed out before the first step
          MaxID,        \* bound: identifiers ever drawn
          MaxTime,      \* bound: the last instant of the clock
          StoreMayFail, \* whether store calls can fail (Postgres)
          MayCrash      \* whether the process can crash and restart

ASSUME ReservationAssumption ==
    /\ NoSeat \notin Seats
    /\ EventOf \in [Seats -> Events]
    /\ HoldTTL \in Nat \ {0}
    /\ Leftover \in Nat
    /\ MaxID \in Nat
    /\ MaxTime \in Nat
    /\ StoreMayFail \in BOOLEAN
    /\ MayCrash \in BOOLEAN

VARIABLES
    now,       \* the clock
    nextID,    \* identifiers are drawn at random: here, never drawn before
    seats,     \* the seat store
    cancelled, \* the events that were withdrawn
    verified,  \* the accounts with a confirmed address
    thread,    \* what each goroutine is doing
    sweeper    \* what the hold sweeper is doing

vars == <<now, nextID, seats, cancelled, verified, thread, sweeper>>

-----------------------------------------------------------------------------
(* Threads and the sweeper *)

Ops == {"none", "hold", "confirm", "release"}

Pcs == {"idle", "gate", "lookup", "update", "announce", "offer"}

(* What a request is answered with: "ok", or the error it returns. *)
Results == {"none", "ok", "store_failed", "email_not_verified",
            "event_not_found", "event_cancelled", "seat_not_found",
            "hold_not_found",
            "empty_hold_id", "empty_user_id", "invalid_hold_duration",
            "seat_not_available", "seat_not_held", "not_hold_owner",
            "hold_expired", "empty_ticket_code"}

ThreadState == [op: Ops, pc: Pcs, user: Users \cup {NoUser},
                seat: Seats \cup {NoSeat}, hold: Nat, code: Nat, at: Nat,
                res: Results]

IdleThread == [op |-> "none", pc |-> "idle", user |-> NoUser, seat |-> NoSeat,
               hold |-> NoID, code |-> NoID, at |-> 0, res |-> "none"]

SweeperState == [pc: {"idle", "expire", "offer"}, at: Nat, freed: SUBSET Seats]

IdleSweeper == [pc |-> "idle", at |-> 0, freed |-> {}]

(* A hold of length HoldTTL that user u was given at instant 0. *)
LeftoverHold(h, u) == Hold(NewSeat, h, u, HoldTTL, 0)

Init ==
    /\ now = 0
    /\ nextID = Leftover + 1
    /\ seats \in [Seats -> {AbsentSeat, NewSeat} \cup
                  {LeftoverHold(h, u) : h \in 1..Leftover, u \in Users}]
    /\ \A s1, s2 \in Seats : (seats[s1].holdID = seats[s2].holdID
                              /\ seats[s1].holdID # NoID) => s1 = s2
    /\ cancelled = {}
    /\ verified \in SUBSET Users
    /\ thread = [t \in Threads |-> IdleThread]
    /\ sweeper = IdleSweeper

-----------------------------------------------------------------------------
(* Steps every request is made of *)

(* The request ends, its caller is answered with r and it is forgotten. *)
Finish(t, r) ==
    thread' = [thread EXCEPT ![t] =
                 [IdleThread EXCEPT !.op = thread[t].op, !.res = r]]

GoTo(t, pc) == thread' = [thread EXCEPT ![t].pc = pc]

(* newID(): the identifier drawn is fresh. *)
CanDrawID == nextID <= MaxID

(* VerifiedOnly.MayTakeSeat *)
MayTakeSeat(u) == u \in verified

(* A store call of the request fails and nothing is written. *)
StoreFails(t) ==
    /\ StoreMayFail
    /\ thread[t].pc \in {"gate", "lookup", "update"}
    /\ Finish(t, "store_failed")
    /\ UNCHANGED <<now, nextID, seats, cancelled, verified, sweeper>>

-----------------------------------------------------------------------------
(* HoldSeat *)

(* Mutant: the hold id drawn is one that was drawn before. *)
MutBeginHoldReusesID(t, u, s) ==
    /\ thread[t].pc = "idle"
    /\ CanDrawID
    /\ now + HoldTTL <= MaxTime
    /\ thread' = [thread EXCEPT ![t] =
                    [IdleThread EXCEPT !.op = "hold", !.pc = "gate",
                       !.user = u, !.seat = s, !.hold = nextID, !.at = now]]
    /\ UNCHANGED <<now, nextID, seats, cancelled, verified, sweeper>>

(* Mutant: the hold gets the identifier drawn last. *)
MutBeginHoldLastID(t, u, s) ==
    /\ thread[t].pc = "idle"
    /\ CanDrawID
    /\ now + HoldTTL <= MaxTime
    /\ thread' = [thread EXCEPT ![t] =
                    [IdleThread EXCEPT !.op = "hold", !.pc = "gate",
                       !.user = u, !.seat = s, !.hold = nextID - 1, !.at = now]]
    /\ nextID' = nextID + 1
    /\ UNCHANGED <<now, seats, cancelled, verified, sweeper>>

(* The clock is read and the hold id drawn before anything is checked. *)
BeginHold(t, u, s) ==
    /\ thread[t].pc = "idle"
    /\ CanDrawID
    /\ now + HoldTTL <= MaxTime
    /\ thread' = [thread EXCEPT ![t] =
                    [IdleThread EXCEPT !.op = "hold", !.pc = "gate",
                       !.user = u, !.seat = s, !.hold = nextID, !.at = now]]
    /\ nextID' = nextID + 1
    /\ UNCHANGED <<now, seats, cancelled, verified, sweeper>>

HoldGate(t) ==
    /\ thread[t].op = "hold" /\ thread[t].pc = "gate"
    /\ IF MayTakeSeat(thread[t].user)
       THEN GoTo(t, "lookup")
       ELSE Finish(t, "email_not_verified")
    /\ UNCHANGED <<now, nextID, seats, cancelled, verified, sweeper>>

HoldLookup(t) ==
    /\ thread[t].op = "hold" /\ thread[t].pc = "lookup"
    /\ IF EventOf[thread[t].seat] \in cancelled
       THEN Finish(t, "event_cancelled")
       ELSE GoTo(t, "update")
    /\ UNCHANGED <<now, nextID, seats, cancelled, verified, sweeper>>

(* What the closure of HoldSeat answers for the stored seat. *)
HoldOutcome(t) ==
    LET seat == seats[thread[t].seat]
    IN  IF seat.status = "absent" THEN "seat_not_found"
        ELSE HoldError(seat, thread[t].hold, thread[t].user, HoldTTL,
                       thread[t].at)

HeldSeat(t) == Hold(seats[thread[t].seat], thread[t].hold, thread[t].user,
                    HoldTTL, thread[t].at)

(* UpdateSeat: read, decide and write in one step. *)
HoldUpdate(t) ==
    /\ thread[t].op = "hold" /\ thread[t].pc = "update"
    /\ IF HoldOutcome(t) = "ok"
       THEN /\ seats' = [seats EXCEPT ![thread[t].seat] = HeldSeat(t)]
            /\ GoTo(t, "announce")
       ELSE /\ Finish(t, HoldOutcome(t))
            /\ UNCHANGED seats
    /\ UNCHANGED <<now, nextID, cancelled, verified, sweeper>>

(* The write is committed and its acknowledgement lost: the caller is told  *)
(* of a failure, and nothing after the store call happens.                  *)
HoldUpdateUnacknowledged(t) ==
    /\ StoreMayFail
    /\ thread[t].op = "hold" /\ thread[t].pc = "update"
    /\ HoldOutcome(t) = "ok"
    /\ seats' = [seats EXCEPT ![thread[t].seat] = HeldSeat(t)]
    /\ Finish(t, "store_failed")
    /\ UNCHANGED <<now, nextID, cancelled, verified, sweeper>>

HoldAnnounce(t) ==
    /\ thread[t].op = "hold" /\ thread[t].pc = "announce"
    /\ Finish(t, "ok")
    /\ UNCHANGED <<now, nextID, seats, cancelled, verified, sweeper>>

-----------------------------------------------------------------------------
(* ConfirmReservation and ReleaseSeat, which name a hold and not a seat *)

(* Any hold id ever drawn may be sent, by anybody, as often as they like. *)
BeginConfirm(t, u, h) ==
    /\ thread[t].pc = "idle"
    /\ thread' = [thread EXCEPT ![t] =
                    [IdleThread EXCEPT !.op = "confirm", !.pc = "gate",
                       !.user = u, !.hold = h]]
    /\ UNCHANGED <<now, nextID, seats, cancelled, verified, sweeper>>

(* Past the gate the clock is read and the ticket code drawn. *)
ConfirmGate(t) ==
    /\ thread[t].op = "confirm" /\ thread[t].pc = "gate"
    /\ IF MayTakeSeat(thread[t].user)
       THEN /\ CanDrawID
            /\ thread' = [thread EXCEPT ![t].pc = "update", ![t].at = now,
                                        ![t].code = nextID]
            /\ nextID' = nextID + 1
       ELSE /\ Finish(t, "email_not_verified")
            /\ UNCHANGED nextID
    /\ UNCHANGED <<now, seats, cancelled, verified, sweeper>>

BeginRelease(t, u, h) ==
    /\ thread[t].pc = "idle"
    /\ thread' = [thread EXCEPT ![t] =
                    [IdleThread EXCEPT !.op = "release", !.pc = "update",
                       !.user = u, !.hold = h]]
    /\ UNCHANGED <<now, nextID, seats, cancelled, verified, sweeper>>

(* UpdateSeatByHoldID: the seat that carries the hold the request names. *)
Carries(s, t) == seats[s].holdID = thread[t].hold

HoldNotFound(t) ==
    /\ thread[t].op \in {"confirm", "release"} /\ thread[t].pc = "update"
    /\ \A s \in Seats : ~Carries(s, t)
    /\ Finish(t, "hold_not_found")
    /\ UNCHANGED <<now, nextID, seats, cancelled, verified, sweeper>>

(* What the closure answers for seat s, and the seat it leaves behind. *)
ByHoldOutcome(t, s) ==
    IF thread[t].op = "confirm"
    THEN ConfirmError(seats[s], thread[t].user, thread[t].code, thread[t].at)
    ELSE ReleaseError(seats[s], thread[t].user)

ByHoldSeat(t, s) ==
    IF thread[t].op = "confirm"
    THEN Confirm(seats[s], thread[t].user, thread[t].code)
    ELSE Release(seats[s])

UpdateByHold(t, s) ==
    /\ thread[t].op \in {"confirm", "release"} /\ thread[t].pc = "update"
    /\ Carries(s, t)
    /\ IF ByHoldOutcome(t, s) = "ok"
       THEN /\ seats' = [seats EXCEPT ![s] = ByHoldSeat(t, s)]
            /\ thread' = [thread EXCEPT ![t].pc = "announce", ![t].seat = s]
       ELSE /\ Finish(t, ByHoldOutcome(t, s))
            /\ UNCHANGED seats
    /\ UNCHANGED <<now, nextID, cancelled, verified, sweeper>>

UpdateByHoldUnacknowledged(t, s) ==
    /\ StoreMayFail
    /\ thread[t].op \in {"confirm", "release"} /\ thread[t].pc = "update"
    /\ Carries(s, t)
    /\ ByHoldOutcome(t, s) = "ok"
    /\ seats' = [seats EXCEPT ![s] = ByHoldSeat(t, s)]
    /\ Finish(t, "store_failed")
    /\ UNCHANGED <<now, nextID, cancelled, verified, sweeper>>

(* The answer names the seat and the ticket. *)
ConfirmAnnounce(t) ==
    /\ thread[t].op = "confirm" /\ thread[t].pc = "announce"
    /\ thread' = [thread EXCEPT ![t].pc = "idle", ![t].at = 0,
                                ![t].hold = NoID, ![t].res = "ok"]
    /\ UNCHANGED <<now, nextID, seats, cancelled, verified, sweeper>>

ReleaseAnnounce(t) ==
    /\ thread[t].op = "release" /\ thread[t].pc = "announce"
    /\ GoTo(t, "offer")
    /\ UNCHANGED <<now, nextID, seats, cancelled, verified, sweeper>>

(* The freed seat is offered to whoever listens (SeatOfferer). *)
ReleaseOffer(t) ==
    /\ thread[t].op = "release" /\ thread[t].pc = "offer"
    /\ Finish(t, "ok")
    /\ UNCHANGED <<now, nextID, seats, cancelled, verified, sweeper>>

-----------------------------------------------------------------------------
(* HoldSweeper *)

BeginSweep ==
    /\ sweeper.pc = "idle"
    /\ sweeper' = [sweeper EXCEPT !.pc = "expire", !.at = now]
    /\ UNCHANGED <<now, nextID, seats, cancelled, verified, thread>>

ExpiredSeats(at) == {s \in Seats : IsHoldExpired(seats[s], at)}

(* Mutant: a pass that frees nothing never returns to the ticker. *)
MutSweepStallsOnNothing ==
    /\ sweeper.pc = "expire"
    /\ seats' = [s \in Seats |-> ExpireHold(seats[s], sweeper.at)]
    /\ sweeper' = [pc |-> "offer", at |-> 0,
                   freed |-> ExpiredSeats(sweeper.at)]
    /\ UNCHANGED <<now, nextID, cancelled, verified, thread>>

(* ExpireHolds: every hold that had run out goes, and is reported. *)
ExpireHolds ==
    /\ sweeper.pc = "expire"
    /\ seats' = [s \in Seats |-> ExpireHold(seats[s], sweeper.at)]
    /\ sweeper' = IF ExpiredSeats(sweeper.at) = {}
                  THEN IdleSweeper
                  ELSE [pc |-> "offer", at |-> 0,
                        freed |-> ExpiredSeats(sweeper.at)]
    /\ UNCHANGED <<now, nextID, cancelled, verified, thread>>

(* A failed sweep is logged and the next tick tries again.  The statement   *)
(* may have taken effect all the same: those seats are offered to nobody.   *)
SweepFails ==
    /\ StoreMayFail
    /\ sweeper.pc = "expire"
    /\ \/ UNCHANGED seats
       \/ seats' = [s \in Seats |-> ExpireHold(seats[s], sweeper.at)]
    /\ sweeper' = IdleSweeper
    /\ UNCHANGED <<now, nextID, cancelled, verified, thread>>

SweepOffer(s) ==
    /\ sweeper.pc = "offer"
    /\ s \in sweeper.freed
    /\ sweeper' = IF sweeper.freed = {s}
                  THEN IdleSweeper
                  ELSE [sweeper EXCEPT !.freed = @ \ {s}]
    /\ UNCHANGED <<now, nextID, seats, cancelled, verified, thread>>

-----------------------------------------------------------------------------
(* The administrator, the accounts, the clock and the process *)

(* Mutant: adding a row a second time resets it. *)
MutAddSeatsResets(S) ==
    /\ \E s \in S : seats[s] # NewSeat
    /\ seats' = [s \in Seats |-> IF s \in S THEN NewSeat ELSE seats[s]]
    /\ UNCHANGED <<now, nextID, cancelled, verified, thread, sweeper>>

(* AddSeats: seats that are already stored are left alone. *)
AddSeats(S) ==
    /\ \E s \in S : seats[s].status = "absent"
    /\ seats' = [s \in Seats |->
                   IF s \in S /\ seats[s].status = "absent"
                   THEN NewSeat ELSE seats[s]]
    /\ UNCHANGED <<now, nextID, cancelled, verified, thread, sweeper>>

(* Event.Cancel inside UpdateEvent; a second cancellation is refused. *)
CancelEvent(e) ==
    /\ e \notin cancelled
    /\ cancelled' = cancelled \cup {e}
    /\ UNCHANGED <<now, nextID, seats, verified, thread, sweeper>>

(* The link sent to the account's address is followed. *)
VerifyEmail(u) ==
    /\ u \notin verified
    /\ verified' = verified \cup {u}
    /\ UNCHANGED <<now, nextID, seats, cancelled, thread, sweeper>>

Tick ==
    /\ now < MaxTime
    /\ now' = now + 1
    /\ UNCHANGED <<nextID, seats, cancelled, verified, thread, sweeper>>

(* The process dies and is started again over the same database. *)
Crash ==
    /\ MayCrash
    /\ thread' = [t \in Threads |-> IdleThread]
    /\ sweeper' = IdleSweeper
    /\ UNCHANGED <<now, nextID, seats, cancelled, verified>>

-----------------------------------------------------------------------------
(* A request that has begun goes on. *)
RequestStep(t) ==
    \/ HoldGate(t) \/ HoldLookup(t) \/ HoldUpdate(t) \/ HoldAnnounce(t)
    \/ HoldUpdateUnacknowledged(t)
    \/ ConfirmGate(t) \/ ConfirmAnnounce(t)
    \/ HoldNotFound(t)
    \/ \E s \in Seats : UpdateByHold(t, s) \/ UpdateByHoldUnacknowledged(t, s)
    \/ ReleaseAnnounce(t) \/ ReleaseOffer(t)
    \/ StoreFails(t)

SweeperStep ==
    \/ BeginSweep \/ ExpireHolds \/ SweepFails
    \/ \E s \in Seats : SweepOffer(s)

Environment ==
    \/ \E e \in Events : CancelEvent(e)
    \/ \E e \in Events : \E S \in SUBSET {s \in Seats : EventOf[s] = e} :
          AddSeats(S)
    \/ \E u \in Users : VerifyEmail(u)
    \/ Tick
    \/ Crash

Next ==
    \/ \E t \in Threads :
         \/ \E u \in Users, s \in Seats : BeginHold(t, u, s)
         \/ \E u \in Users, h \in 1..(nextID - 1) :
              BeginConfirm(t, u, h) \/ BeginRelease(t, u, h)
         \/ RequestStep(t)
    \/ SweeperStep
    \/ Environment

Spec == Init /\ [][Next]_vars

(***************************************************************************)
(* Fairness.  The sweeper's ticker keeps firing and its goroutine keeps    *)
(* running, the clock keeps moving, and a database that fails now and then *)
(* does not fail every time.                                               *)
(***************************************************************************)
SweeperFairness ==
    /\ WF_vars(Tick)
    /\ WF_vars(BeginSweep)
    /\ SF_vars(ExpireHolds)
    /\ WF_vars(\E s \in Seats : SweepOffer(s))

FairSpec == Spec /\ SweeperFairness

-----------------------------------------------------------------------------
(* Properties *)

(* Every variable has its type. *)
TypeOK ==
    /\ now \in Nat
    /\ nextID \in Nat
    /\ seats \in [Seats -> SeatState]
    /\ cancelled \in SUBSET Events
    /\ verified \in SUBSET Users
    /\ thread \in [Threads -> ThreadState]
    /\ sweeper \in SweeperState

(* A seat carries hold data exactly while it is held and a ticket exactly   *)
(* once it is reserved: what the check constraints of the seats table       *)
(* demand and what the methods of Seat must keep over any sequence of       *)
(* calls.                                                                   *)
WellFormed(seat) ==
    /\ seat.status = "held" <=> seat.holdID # NoID
    /\ seat.status = "held" <=> seat.heldBy # NoUser
    /\ seat.status = "reserved" <=> seat.reservedBy # NoUser
    /\ seat.status = "reserved" <=> seat.ticketCode # NoID
    /\ seat.status # "held" => seat.expiresAt = 0

(* The seat store always satisfies its schema: every seat is well formed,   *)
(* no two seats share a hold (so UpdateSeatByHoldID finds one seat) and no  *)
(* two share a ticket.                                                      *)
SeatsWellFormed ==
    /\ \A s \in Seats : WellFormed(seats[s])
    /\ \A s1, s2 \in Seats : s1 # s2 =>
         /\ seats[s1].holdID # NoID => seats[s1].holdID # seats[s2].holdID
         /\ seats[s1].ticketCode # NoID =>
              seats[s1].ticketCode # seats[s2].ticketCode

(* A caller who was told the reservation is confirmed owns that seat, under *)
(* the ticket code they were given, from the moment of the write and for    *)
(* ever, whatever the other requests, the sweeper and the administrator do. *)
ConfirmedMeansOwned ==
    \A t \in Threads :
        thread[t].op = "confirm"
            /\ (thread[t].pc = "announce" \/ thread[t].res = "ok") =>
        LET seat == seats[thread[t].seat]
        IN  /\ seat.status = "reserved"
            /\ seat.reservedBy = thread[t].user
            /\ seat.ticketCode = thread[t].code

(* A sold seat is never touched again, not by a late request, a sweep, an   *)
(* administrator adding the row a second time, or a restart.                *)
TicketIsForever ==
    [][\A s \in Seats : seats[s].status = "reserved" =>
                         seats'[s] = seats[s]]_vars

(* Request t changed the store in this step on behalf of the user who holds *)
(* seat s, naming that very hold.                                           *)
ByItsHolder(t, s) ==
    /\ thread[t].op \in {"confirm", "release"}
    /\ thread[t].pc = "update" /\ thread'[t].pc # "update"
    /\ thread[t].hold = seats[s].holdID
    /\ thread[t].user = seats[s].heldBy

(* Seat s is held and its deadline is still to come. *)
LiveHold(s) == seats[s].status = "held" /\ now < seats[s].expiresAt

(* While a hold has not run out by the clock, nobody but its holder changes *)
(* the seat: requests and sweeps that judge expiry by an instant they read  *)
(* earlier never take a live hold away, and nobody extends one.             *)
LiveHoldIsProtected ==
    [][\A s \in Seats :
         LiveHold(s) /\ seats'[s] # seats[s] =>
             \E t \in Threads : ByItsHolder(t, s)]_vars

(* A seat is sold only out of a hold, to the user who has that hold, whose  *)
(* address is confirmed, and who asked before it ran out.                   *)
SaleIsEarned ==
    [][\A s \in Seats :
         seats[s].status # "reserved" /\ seats'[s].status = "reserved" =>
             /\ seats[s].status = "held"
             /\ seats[s].heldBy = seats'[s].reservedBy
             /\ seats[s].heldBy \in verified
             /\ \E t \in Threads :
                  ByItsHolder(t, s) /\ thread[t].at < seats[s].expiresAt]_vars

(* Thread t has drawn a hold id that it has not written. *)
HasFreshHold(t) ==
    thread[t].op = "hold" /\ thread[t].pc \in {"gate", "lookup", "update"}

(* Identifier h is no hold: no seat carries it and no request is about to   *)
(* write it.                                                                *)
Spent(h) ==
    /\ \A s \in Seats : seats[s].holdID # h
    /\ \A t \in Threads : HasFreshHold(t) => thread[t].hold # h

(* A hold that ended never comes back on any seat, so a confirmation or a   *)
(* release that arrives late, twice or after a restart can name nobody      *)
(* else's hold: UpdateSeatByHoldID finds the hold that was meant or none.   *)
SpentHoldsStaySpent ==
    [][\A h \in 1..(nextID - 1) : Spent(h) => Spent(h)']_vars

(* Every hold ends: confirmed, released, or expired by the sweeper. *)
HoldsEnd ==
    \A s \in Seats : \A h \in 1..MaxID :
        seats[s].holdID = h ~> seats[s].holdID # h

(* event.go: after Cancel "no new seats may be claimed". *)
NoClaimAfterCancel ==
    [][\A s \in Seats :
         EventOf[s] \in cancelled =>
             seats'[s].holdID \in {seats[s].holdID, NoID}]_vars

-----------------------------------------------------------------------------
(* The inductive invariant the proofs rest on *)

(* Thread t has drawn a ticket code that it has not written. *)
HasFreshCode(t) ==
    thread[t].op = "confirm" /\ thread[t].pc = "update"

(* Everything in use was drawn before. *)
IDsDrawn ==
    /\ nextID > 0
    /\ \A s \in Seats : seats[s].holdID < nextID
                        /\ seats[s].ticketCode < nextID
    /\ \A t \in Threads : thread[t].hold < nextID /\ thread[t].code < nextID

(* A hold id on its way to the store is on no seat and with no other thread. *)
HoldsFresh ==
    \A t \in Threads : HasFreshHold(t) =>
        /\ thread[t].hold # NoID
        /\ thread[t].user # NoUser
        /\ thread[t].seat \in Seats
        /\ thread[t].at <= now
        /\ \A s \in Seats : seats[s].holdID # thread[t].hold
        /\ \A u \in Threads : u # t /\ HasFreshHold(u) =>
              thread[u].hold # thread[t].hold

(* The same of ticket codes, which only verified users get this far with. *)
CodesFresh ==
    \A t \in Threads : HasFreshCode(t) =>
        /\ thread[t].code # NoID
        /\ thread[t].user \in verified
        /\ thread[t].at <= now
        /\ \A s \in Seats : seats[s].ticketCode # thread[t].code
        /\ \A u \in Threads : u # t /\ HasFreshCode(u) =>
              thread[u].code # thread[t].code

(* A request past its write knows which seat it wrote. *)
WritersKnowTheirSeat ==
    \A t \in Threads :
        \/ thread[t].pc \in {"announce", "offer"}
        \/ thread[t].op = "confirm" /\ thread[t].res = "ok"
        => thread[t].seat \in Seats

(* A request is answered when it ends, not before. *)
AnsweredAtTheEnd ==
    \A t \in Threads : thread[t].pc # "idle" => thread[t].res = "none"

(* The sweeper judges by an instant that has passed. *)
SweeperReadThePast == sweeper.at <= now

(* What keeps the store in its schema.  It is inductive by itself, also     *)
(* when rows are removed, which what was promised to a caller is not.       *)
StoreInv ==
    /\ TypeOK
    /\ SeatsWellFormed
    /\ IDsDrawn
    /\ HoldsFresh
    /\ CodesFresh
    /\ WritersKnowTheirSeat
    /\ AnsweredAtTheEnd
    /\ SweeperReadThePast

Inv == StoreInv /\ ConfirmedMeansOwned
=============================================================================
