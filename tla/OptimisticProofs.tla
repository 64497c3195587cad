-------------------------- MODULE OptimisticProofs --------------------------
(***************************************************************************)
(* Proofs about OptimisticStore: a store that takes no locks and retries   *)
(* shows its callers nothing that a store with locks would not.            *)
(***************************************************************************)
EXTENDS OptimisticStore, ReservationProofs

(* What a step may do to the row of seat s: its version never goes back, a  *)
(* row whose version stands has not changed unless it has just been added,  *)
(* a row whose version moved has another hold, and the only holds that      *)
(* appear are those that requests were bringing.                            *)
RowStep(s) ==
    /\ version'[s] \in Nat /\ version'[s] >= version[s]
    /\ version'[s] = version[s] =>
         \/ seats'[s] = seats[s]
         \/ seats[s].status = "absent" /\ seats'[s] = NewSeat
    /\ version'[s] # version[s] =>
         seats[s].holdID = NoID \/ seats'[s].holdID # seats[s].holdID
    /\ \/ seats'[s].holdID \in {seats[s].holdID, NoID}
       \/ \E u \in Threads : HasFreshHold(u)
                             /\ seats'[s].holdID = thread[u].hold

(* A hold on its way to the store was on its way before, or is new. *)
FreshHoldStep(u) ==
    HasFreshHold(u)' =>
        \/ HasFreshHold(u) /\ thread'[u].hold = thread[u].hold
        \/ thread'[u].hold = nextID

(* A request that has read nothing and lost nothing is sound. *)
LEMMA UnreadIsSound ==
    ASSUME NEW t \in Threads, attempt'[t] = Unread(0),
           thread'[t].pc = "update" =>
               thread'[t].op \in {"hold", "confirm", "release"}
    PROVE  AttemptIsSound(t)'
  BY DEF AttemptIsSound, AttemptBelongsToUpdate, CopyIsCurrent, LostHoldIsGone,
         Unread

(* A seat with an outcome of "ok" is stored. *)
LEMMA DecidedSeatsAreStored ==
    ASSUME NEW t \in Threads, NEW s \in Seats, Reads(t, s),
           Outcome(t, s) = "ok"
    PROVE  seats[s].status # "absent"
  BY DEF Reads, Outcome, HoldOutcome, ByHoldOutcome, ConfirmError, ReleaseError

(* A hold that a confirmation or release could act on is a hold. *)
LEMMA DecidedHoldsAreReal ==
    ASSUME Inv, NEW t \in Threads, NEW s \in Seats, Reads(t, s),
           thread[t].op \in {"confirm", "release"}, Outcome(t, s) = "ok"
    PROVE  /\ seats[s].holdID = thread[t].hold
           /\ thread[t].hold # NoID
           /\ \A x \in Seats : x # s => ~Carries(x, t)
           /\ \A u \in Threads : HasFreshHold(u) =>
                 thread[u].hold # thread[t].hold
  <1>1. seats[s].holdID = thread[t].hold
    BY DEF Reads, Carries
  <1>2. seats[s].status = "held"
    BY DEF Outcome, ByHoldOutcome, ConfirmError, ReleaseError
  <1>3. thread[t].hold # NoID
    BY <1>1, <1>2 DEF Inv, StoreInv, SeatsWellFormed, WellFormed
  <1>4. \A x \in Seats : x # s => ~Carries(x, t)
    BY <1>1, <1>3 DEF Inv, StoreInv, SeatsWellFormed, Carries
  <1>5. \A u \in Threads : HasFreshHold(u) => thread[u].hold # thread[t].hold
    BY <1>1 DEF Inv, StoreInv, HoldsFresh
  <1> QED BY <1>1, <1>3, <1>4, <1>5

(* What the others do leaves a request's copy sound: current, or out of     *)
(* date and its hold gone.                                                  *)
LEMMA OthersKeepSound ==
    ASSUME OptimisticInv, NEW t \in Threads,
           thread'[t] = thread[t], attempt'[t] = attempt[t],
           \A s \in Seats : RowStep(s),
           \A u \in Threads : FreshHoldStep(u)
    PROVE  AttemptIsSound(t)'
  <1>0. /\ Inv /\ AttemptIsSound(t)
        /\ attempt[t] \in AttemptState
        /\ version \in [Seats -> Nat]
        /\ thread[t].hold \in Nat /\ thread[t].hold < nextID
        /\ nextID \in Nat
    BY DEF OptimisticInv, OptimisticTypeOK, Inv, StoreInv, TypeOK, ThreadState, IDsDrawn
  <1> DEFINE a == attempt[t].seat
  <1>1. AttemptBelongsToUpdate(t)'
    BY <1>0 DEF AttemptIsSound, AttemptBelongsToUpdate
  <1>2. a # NoSeat => a \in Seats /\ version[a] \in Nat /\ RowStep(a)
                      /\ attempt[t].version \in Nat
    BY <1>0 DEF AttemptState
  <1>3. ASSUME a # NoSeat, Unchanged(t)'
        PROVE  /\ Unchanged(t) /\ seats'[a] = seats[a]
               /\ Reads(t, a) /\ Outcome(t, a) = "ok"
    <2>1. version'[a] = version[a] /\ Unchanged(t)
      BY <1>0, <1>2, <1>3
         DEF RowStep, Unchanged, AttemptIsSound, CopyIsCurrent
    <2>2. Reads(t, a) /\ Outcome(t, a) = "ok"
      BY <1>0, <1>3, <2>1 DEF AttemptIsSound, CopyIsCurrent
    <2>3. seats[a].status # "absent"
      BY <1>2, <1>3, <2>2, DecidedSeatsAreStored
    <2> QED BY <1>2, <1>3, <2>1, <2>2, <2>3 DEF RowStep
  <1>4. CopyIsCurrent(t)'
    <2> SUFFICES ASSUME a # NoSeat PROVE CopyIsCurrent(t)'
      BY DEF CopyIsCurrent
    <2>1. attempt'[t].version <= version'[a]
      BY <1>0, <1>2 DEF RowStep, AttemptIsSound, CopyIsCurrent
    <2>2. ASSUME Unchanged(t)'
          PROVE  /\ Reads(t, a)' /\ Outcome(t, a)' = "ok"
                 /\ attempt'[t].new = Decided(t, a)'
      <3>1. attempt[t].new = Decided(t, a)
        BY <1>0, <1>3, <2>2 DEF AttemptIsSound, CopyIsCurrent
      <3>2. thread[t].op = "hold" => a = thread[t].seat
        BY <1>3, <2>2 DEF Reads
      <3>3. Reads(t, a)'
        BY <1>3, <2>2 DEF Reads, Carries
      <3>4. Outcome(t, a)' = Outcome(t, a) /\ Decided(t, a)' = Decided(t, a)
        BY <1>3, <2>2, <3>2
           DEF Outcome, Decided, HoldOutcome, HeldSeat, ByHoldOutcome, ByHoldSeat
      <3> QED BY <1>3, <2>2, <3>1, <3>3, <3>4
    <2> QED BY <2>1, <2>2 DEF CopyIsCurrent
  <1>5. LostHoldIsGone(t)'
    <2> SUFFICES ASSUME thread[t].op \in {"confirm", "release"},
                        \/ attempt[t].lost > 0
                        \/ a # NoSeat /\ ~Unchanged(t)'
                 PROVE  /\ thread[t].hold # NoID
                        /\ \A s \in Seats : seats'[s].holdID # thread[t].hold
                        /\ \A u \in Threads : HasFreshHold(u)' =>
                              thread'[u].hold # thread[t].hold
      BY DEF LostHoldIsGone, Carries
    <2>1. /\ thread[t].hold # NoID
          /\ \A u \in Threads : HasFreshHold(u) =>
                thread[u].hold # thread[t].hold
          /\ \A s \in Seats : seats[s].holdID = thread[t].hold =>
                seats'[s].holdID # seats[s].holdID
      <3>1. CASE attempt[t].lost > 0 \/ (a # NoSeat /\ ~Unchanged(t))
        BY <1>0, <3>1 DEF AttemptIsSound, LostHoldIsGone, Carries
      <3>2. CASE a # NoSeat /\ Unchanged(t) /\ ~Unchanged(t)'
        <4>1. Reads(t, a) /\ Outcome(t, a) = "ok"
          BY <1>0, <3>2 DEF AttemptIsSound, CopyIsCurrent
        <4>2. version'[a] # version[a]
          BY <3>2 DEF Unchanged
        <4>3. seats[a].holdID # NoID /\ seats'[a].holdID # seats[a].holdID
          BY <1>0, <1>2, <3>2, <4>1, <4>2, DecidedHoldsAreReal DEF RowStep
        <4> QED BY <1>0, <1>2, <3>2, <4>1, <4>3, DecidedHoldsAreReal DEF Carries
      <3> QED BY <3>1, <3>2
    <2>2. ASSUME NEW s \in Seats PROVE seats'[s].holdID # thread[t].hold
      BY <2>1 DEF RowStep
    <2>3. ASSUME NEW u \in Threads, HasFreshHold(u)'
          PROVE  thread'[u].hold # thread[t].hold
      BY <1>0, <2>1, <2>3 DEF FreshHoldStep
    <2> QED BY <2>1, <2>2, <2>3
  <1> QED BY <1>1, <1>4, <1>5 DEF AttemptIsSound

-----------------------------------------------------------------------------
(* Every step is a step of Reservation *)

(* A write that finds the version unmoved writes what the closure would     *)
(* write now.                                                               *)
LEMMA WriteIsCurrent ==
    ASSUME OptimisticInv, NEW t \in Threads, Unchanged(t)
    PROVE  LET a == attempt[t].seat IN
           /\ a \in Seats
           /\ thread[t].pc = "update"
           /\ thread[t].op \in {"hold", "confirm", "release"}
           /\ Reads(t, a)
           /\ Outcome(t, a) = "ok"
           /\ attempt[t].new = Decided(t, a)
  <1>1. attempt[t] \in AttemptState /\ attempt[t].seat # NoSeat
        /\ AttemptIsSound(t)
    BY DEF OptimisticInv, OptimisticTypeOK, Unchanged
  <1>2. attempt[t].seat \in Seats
    BY <1>1 DEF AttemptState
  <1>3. attempt[t] # Unread(0)
    BY <1>1 DEF Unread
  <1> QED BY <1>1, <1>2, <1>3
          DEF AttemptIsSound, AttemptBelongsToUpdate, CopyIsCurrent

LEMMA WriteImplements ==
    ASSUME OptimisticInv, NEW t \in Threads,
           WriteIfUnchanged(t) \/ WriteUnacknowledged(t)
    PROVE  RequestStep(t)
  <1> DEFINE a == attempt[t].seat
  <1>1. /\ a \in Seats /\ thread[t].pc = "update"
        /\ thread[t].op \in {"hold", "confirm", "release"}
        /\ Reads(t, a) /\ Outcome(t, a) = "ok"
        /\ attempt[t].new = Decided(t, a)
    BY WriteIsCurrent DEF WriteIfUnchanged, WriteUnacknowledged
  <1>2. /\ seats' = [seats EXCEPT ![a] = Decided(t, a)]
        /\ UNCHANGED <<now, nextID, cancelled, verified, sweeper>>
    BY <1>1 DEF WriteIfUnchanged, WriteUnacknowledged, StoreCopy
  <1>3. thread \in [Threads -> ThreadState]
    BY DEF OptimisticInv, Inv, StoreInv, TypeOK
  <1>4. CASE thread[t].op = "hold"
    <2>1. a = thread[t].seat /\ HoldOutcome(t) = "ok"
          /\ Decided(t, a) = HeldSeat(t)
      BY <1>1, <1>4 DEF Reads, Outcome, Decided
    <2>2. CASE WriteIfUnchanged(t)
      <3>1. [thread EXCEPT ![t].pc = "announce", ![t].seat = a]
              = [thread EXCEPT ![t].pc = "announce"]
        BY <1>3, <2>1 DEF ThreadState
      <3>2. HoldUpdate(t)
        BY <1>1, <1>2, <1>4, <2>1, <2>2, <3>1
           DEF HoldUpdate, GoTo, WriteIfUnchanged
      <3> QED BY <3>2 DEF RequestStep
    <2>3. CASE WriteUnacknowledged(t)
      BY <1>1, <1>2, <1>4, <2>1, <2>3, OptimisticAssumption
         DEF HoldUpdateUnacknowledged, WriteUnacknowledged, RequestStep
    <2> QED BY <2>2, <2>3
  <1>5. CASE thread[t].op # "hold"
    <2>1. Carries(a, t) /\ ByHoldOutcome(t, a) = "ok"
          /\ Decided(t, a) = ByHoldSeat(t, a)
          /\ thread[t].op \in {"confirm", "release"}
      BY <1>1, <1>5 DEF Reads, Outcome, Decided
    <2>2. CASE WriteIfUnchanged(t)
      BY <1>1, <1>2, <2>1, <2>2 DEF UpdateByHold, WriteIfUnchanged, RequestStep
    <2>3. CASE WriteUnacknowledged(t)
      BY <1>1, <1>2, <2>1, <2>3, OptimisticAssumption
         DEF UpdateByHoldUnacknowledged, WriteUnacknowledged, RequestStep
    <2> QED BY <2>2, <2>3
  <1> QED BY <1>4, <1>5

LEMMA UpdateImplements ==
    ASSUME OptimisticInv, NEW t \in Threads, UpdateStep(t)
    PROVE  RequestStep(t) \/ UNCHANGED vars
  <1>0. AttemptIsSound(t)
    BY DEF OptimisticInv
  <1>1. CASE \E s \in Seats : ReadAndDecide(t, s)
    BY <1>1 DEF ReadAndDecide
  <1>2. ASSUME NEW s \in Seats, ReadAndRefuse(t, s) PROVE RequestStep(t)
    <2>1. thread[t].op \in {"hold", "confirm", "release"}
      BY <1>0, <1>2 DEF AttemptIsSound, AttemptBelongsToUpdate, ReadAndRefuse
    <2>2. CASE thread[t].op = "hold"
      <3>1. HoldUpdate(t)
        BY <1>2, <2>2 DEF ReadAndRefuse, Outcome, HoldUpdate
      <3> QED BY <3>1 DEF RequestStep
    <2>3. CASE thread[t].op \in {"confirm", "release"}
      <3>1. UpdateByHold(t, s)
        BY <1>2, <2>3 DEF ReadAndRefuse, Outcome, UpdateByHold, Reads
      <3> QED BY <3>1 DEF RequestStep
    <2> QED BY <2>1, <2>2, <2>3
  <1>3. CASE ReadNothing(t)
    BY <1>3 DEF ReadNothing, RequestStep
  <1>4. CASE WriteIfUnchanged(t) \/ WriteUnacknowledged(t)
    BY <1>4, WriteImplements
  <1>5. CASE LoseAttempt(t)
    <2>1. thread[t].pc = "update"
      BY <1>0, <1>5
         DEF AttemptIsSound, AttemptBelongsToUpdate, LoseAttempt, Unread
    <2>2. CASE attempt[t].lost + 1 < Attempts
      BY <1>5, <2>2 DEF LoseAttempt, vars
    <2>3. CASE ~(attempt[t].lost + 1 < Attempts)
      BY <1>5, <2>1, <2>3, OptimisticAssumption
         DEF LoseAttempt, StoreFails, RequestStep
    <2> QED BY <2>2, <2>3
  <1>6. CASE CallFails(t)
    BY <1>6 DEF CallFails, RequestStep
  <1> QED BY <1>1, <1>2, <1>3, <1>4, <1>5, <1>6 DEF UpdateStep

(* No step of the store does anything to what callers see that a store with *)
(* locks could not do.                                                      *)
LEMMA OptimisticStepIsStep ==
    ASSUME OptimisticInv, [OptimisticNext]_allVars
    PROVE  [Next]_vars
  <1>1. CASE UNCHANGED allVars
    BY <1>1 DEF allVars
  <1>2. ASSUME NEW t \in Threads, PlainStep(t) PROVE Next
    BY <1>2 DEF PlainStep, Next, RequestStep
  <1>3. ASSUME NEW t \in Threads, UpdateStep(t) PROVE [Next]_vars
    BY <1>3, UpdateImplements DEF Next
  <1>4. CASE SweepSeats \/ SweepSeatsFails
    BY <1>4 DEF SweepSeats, SweepSeatsFails, Next, SweeperStep
  <1>5. CASE OtherStep
    BY <1>5 DEF OtherStep, Next, SweeperStep, Environment
  <1>6. CASE OptimisticCrash
    BY <1>6 DEF OptimisticCrash, Next, Environment
  <1> QED BY <1>1, <1>2, <1>3, <1>4, <1>5, <1>6 DEF OptimisticNext

-----------------------------------------------------------------------------
(* The invariant *)

LEMMA OptimisticInitInv == OptimisticInit => OptimisticInv
  <1> SUFFICES ASSUME OptimisticInit PROVE OptimisticInv
    OBVIOUS
  <1>1. Inv
    BY InitInv DEF OptimisticInit
  <1>2. Unread(0) \in AttemptState
    BY NewSeatIsFine DEF Unread, AttemptState
  <1>3. OptimisticTypeOK
    BY <1>2 DEF OptimisticTypeOK, OptimisticInit
  <1>4. \A t \in Threads : AttemptIsSound(t) /\ attempt[t].lost = 0
    BY DEF OptimisticInit, Init, IdleThread, Unread, AttemptIsSound,
           AttemptBelongsToUpdate, CopyIsCurrent, LostHoldIsGone
  <1> QED BY <1>1, <1>3, <1>4 DEF OptimisticInv, ByHoldLosesOnce

(* Rows that nothing writes. *)
LEMMA RowsRest ==
    ASSUME OptimisticInv, UNCHANGED <<seats, version>>
    PROVE  \A s \in Seats : RowStep(s)
  BY DEF OptimisticInv, OptimisticTypeOK, RowStep

(* A step that leaves the rows, the attempts of the other requests and      *)
(* their holds alone keeps the invariant if it leaves its own request       *)
(* sound.                                                                   *)
LEMMA OneRequestKeepsInv ==
    ASSUME OptimisticInv, Inv', NEW t \in Threads,
           \A u \in Threads : u # t =>
               thread'[u] = thread[u] /\ attempt'[u] = attempt[u],
           attempt' \in [Threads -> AttemptState],
           version' \in [Seats -> Nat],
           \A s \in Seats : RowStep(s),
           FreshHoldStep(t),
           AttemptIsSound(t)',
           thread'[t].op \in {"confirm", "release"} =>
               /\ attempt'[t].lost <= 1
               /\ attempt'[t].lost = 1 => attempt'[t].seat = NoSeat
    PROVE  OptimisticInv'
  <1>1. \A u \in Threads : FreshHoldStep(u)
    BY DEF FreshHoldStep, HasFreshHold
  <1>2. \A u \in Threads : AttemptIsSound(u)'
    BY <1>1, OthersKeepSound
  <1>3. OptimisticTypeOK'
    BY DEF OptimisticTypeOK
  <1>4. ByHoldLosesOnce'
    BY DEF ByHoldLosesOnce, OptimisticInv
  <1> QED BY <1>2, <1>3, <1>4 DEF OptimisticInv

(* So does a step of no request that leaves the attempts alone. *)
LEMMA NoRequestKeepsInv ==
    ASSUME OptimisticInv, Inv', UNCHANGED <<thread, attempt>>,
           version' \in [Seats -> Nat],
           \A s \in Seats : RowStep(s)
    PROVE  OptimisticInv'
  <1>1. \A u \in Threads : FreshHoldStep(u)
    BY DEF FreshHoldStep, HasFreshHold
  <1>2. \A u \in Threads : AttemptIsSound(u)'
    BY <1>1, OthersKeepSound
  <1> QED BY <1>2 DEF OptimisticInv, OptimisticTypeOK, ByHoldLosesOnce

(* Requests outside their update. *)
LEMMA PlainKeepsInv ==
    ASSUME OptimisticInv, Inv', NEW t \in Threads, PlainStep(t)
    PROVE  OptimisticInv'
  <1>0. /\ thread \in [Threads -> ThreadState]
        /\ attempt \in [Threads -> AttemptState]
        /\ version \in [Seats -> Nat]
        /\ AttemptIsSound(t)
    BY DEF OptimisticInv, Inv, StoreInv, TypeOK, OptimisticTypeOK
  <1>1. UNCHANGED <<version, attempt>>
    BY DEF PlainStep, optimisticVars
  <1> DEFINE Facts ==
        /\ UNCHANGED seats
        /\ thread[t].pc # "update"
        /\ \A u \in Threads : u # t => thread'[u] = thread[u]
        /\ FreshHoldStep(t)
        /\ thread'[t].pc = "update" =>
             thread'[t].op \in {"hold", "confirm", "release"}
  <1>2. Facts
    <2>1. CASE \E u \in Users, s \in Seats : BeginHold(t, u, s)
      BY <1>0, <2>1 DEF BeginHold, IdleThread, FreshHoldStep
    <2>2. CASE \E u \in Users, h \in 1..(nextID - 1) :
                 BeginConfirm(t, u, h) \/ BeginRelease(t, u, h)
      <3> PICK u \in Users, h \in 1..(nextID - 1) :
                 BeginConfirm(t, u, h) \/ BeginRelease(t, u, h)
        BY <2>2
      <3>1. /\ UNCHANGED seats
            /\ thread[t].pc = "idle"
            /\ \A v \in Threads : v # t => thread'[v] = thread[v]
            /\ thread'[t].op \in {"confirm", "release"}
        BY <1>0 DEF BeginConfirm, BeginRelease, IdleThread
      <3> QED BY <3>1 DEF FreshHoldStep, HasFreshHold
    <2>3. CASE HoldGate(t) \/ HoldLookup(t) \/ HoldAnnounce(t)
      <3>1. /\ UNCHANGED seats
            /\ thread[t].op = "hold"
            /\ thread[t].pc \in {"gate", "lookup", "announce"}
            /\ \A v \in Threads : v # t => thread'[v] = thread[v]
        BY <1>0, <2>3
           DEF HoldGate, HoldLookup, HoldAnnounce, GoTo, Finish
      <3>2. \/ thread'[t].pc = "idle"
            \/ /\ thread[t].pc # "announce"
               /\ thread'[t].op = "hold" /\ thread'[t].hold = thread[t].hold
        <4>1. CASE \E r : Finish(t, r)
          BY <1>0, <4>1 DEF Finish, IdleThread
        <4>2. CASE \E pc : thread[t].pc # "announce" /\ GoTo(t, pc)
          BY <1>0, <3>1, <4>2 DEF GoTo, ThreadState
        <4> QED BY <2>3, <4>1, <4>2 DEF HoldGate, HoldLookup, HoldAnnounce
      <3> QED BY <3>1, <3>2 DEF FreshHoldStep, HasFreshHold
    <2>4. CASE ConfirmGate(t) \/ ConfirmAnnounce(t)
      <3>1. /\ UNCHANGED seats
            /\ thread[t].op = "confirm"
            /\ thread[t].pc \in {"gate", "announce"}
            /\ \A v \in Threads : v # t => thread'[v] = thread[v]
        BY <1>0, <2>4 DEF ConfirmGate, ConfirmAnnounce, Finish
      <3>2. thread'[t].op = "confirm"
        <4>1. CASE \E r : Finish(t, r)
          BY <1>0, <3>1, <4>1 DEF Finish, IdleThread
        <4>2. CASE ConfirmAnnounce(t)
          BY <1>0, <3>1, <4>2 DEF ConfirmAnnounce, ThreadState
        <4>3. CASE ConfirmGate(t) /\ MayTakeSeat(thread[t].user)
          BY <1>0, <3>1, <4>3 DEF ConfirmGate, ThreadState
        <4> QED BY <2>4, <4>1, <4>2, <4>3 DEF ConfirmGate
      <3> QED BY <3>1, <3>2 DEF FreshHoldStep, HasFreshHold
    <2>5. CASE ReleaseAnnounce(t) \/ ReleaseOffer(t)
      BY <1>0, <2>5 DEF ReleaseAnnounce, ReleaseOffer, GoTo, Finish, IdleThread,
                        FreshHoldStep, HasFreshHold, ThreadState
    <2> QED BY <2>1, <2>2, <2>3, <2>4, <2>5 DEF PlainStep
  <1>3. attempt'[t] = Unread(0) /\ Unread(0).lost = 0
    BY <1>0, <1>1, <1>2 DEF AttemptIsSound, AttemptBelongsToUpdate, Unread
  <1>4. AttemptIsSound(t)'
    BY <1>2, <1>3, UnreadIsSound
  <1> QED BY <1>0, <1>1, <1>2, <1>3, <1>4, RowsRest, OneRequestKeepsInv

(* A request that ends, its row written or not. *)
LEMMA EndKeepsInv ==
    ASSUME OptimisticInv, Inv', NEW t \in Threads,
           \A u \in Threads : u # t => thread'[u] = thread[u],
           thread'[t].pc \in {"idle", "announce"},
           attempt' = [attempt EXCEPT ![t] = Unread(0)],
           version' \in [Seats -> Nat],
           \A s \in Seats : RowStep(s)
    PROVE  OptimisticInv'
  <1>1. attempt \in [Threads -> AttemptState]
    BY DEF OptimisticInv, OptimisticTypeOK
  <1>2. Unread(0) \in AttemptState /\ Unread(0).lost = 0
    BY NewSeatIsFine DEF Unread, AttemptState
  <1>3. /\ attempt'[t] = Unread(0)
        /\ attempt' \in [Threads -> AttemptState]
        /\ \A u \in Threads : u # t => attempt'[u] = attempt[u]
    BY <1>1, <1>2
  <1>4. FreshHoldStep(t)
    BY DEF FreshHoldStep, HasFreshHold
  <1>5. AttemptIsSound(t)'
    BY <1>3, UnreadIsSound
  <1> QED BY <1>2, <1>3, <1>4, <1>5, OneRequestKeepsInv

(* The row a request writes moves on to another version and another hold. *)
LEMMA WriteMovesRow ==
    ASSUME OptimisticInv, NEW t \in Threads, Unchanged(t), StoreCopy(t)
    PROVE  version' \in [Seats -> Nat] /\ \A s \in Seats : RowStep(s)
  <1> DEFINE a == attempt[t].seat
  <1>0. /\ version \in [Seats -> Nat]
        /\ seats \in [Seats -> SeatState]
        /\ thread[t] \in ThreadState
        /\ Inv
    BY DEF OptimisticInv, Inv, StoreInv, TypeOK, OptimisticTypeOK
  <1>1. /\ a \in Seats /\ thread[t].pc = "update"
        /\ thread[t].op \in {"hold", "confirm", "release"}
        /\ Reads(t, a) /\ Outcome(t, a) = "ok"
        /\ attempt[t].new = Decided(t, a)
    BY WriteIsCurrent
  <1>2. /\ seats' = [seats EXCEPT ![a] = Decided(t, a)]
        /\ version' = [version EXCEPT ![a] = @ + 1]
    BY <1>1 DEF StoreCopy
  <1>3. CASE thread[t].op = "hold"
    <2>1. Decided(t, a).holdID = thread[t].hold /\ HasFreshHold(t)
      <3>1. seats[a] \in SeatState /\ a = thread[t].seat
        BY <1>0, <1>1, <1>3 DEF Reads
      <3> QED BY <1>1, <1>3, <3>1
              DEF Decided, HeldSeat, Hold, HasFreshHold, SeatState
    <2>2. seats[a].holdID # thread[t].hold
      BY <1>0, <1>1, <2>1 DEF Inv, StoreInv, HoldsFresh
    <2> QED BY <1>0, <1>1, <1>2, <2>1, <2>2 DEF RowStep
  <1>4. CASE thread[t].op # "hold"
    <2>1. Decided(t, a).holdID = NoID
      <3>1. seats[a] \in SeatState
        BY <1>0, <1>1
      <3> QED BY <1>4, <3>1
              DEF Decided, ByHoldSeat, Confirm, Release, ClearHold, SeatState
    <2> QED BY <1>0, <1>1, <1>2, <2>1 DEF RowStep
  <1> QED BY <1>3, <1>4

LEMMA UpdateKeepsInv ==
    ASSUME OptimisticInv, Inv', NEW t \in Threads, UpdateStep(t)
    PROVE  OptimisticInv'
  <1>0. /\ thread \in [Threads -> ThreadState] /\ thread[t] \in ThreadState
        /\ attempt \in [Threads -> AttemptState]
        /\ attempt[t] \in AttemptState
        /\ version \in [Seats -> Nat] /\ seats \in [Seats -> SeatState]
        /\ AttemptIsSound(t) /\ Inv /\ ByHoldLosesOnce
    BY DEF OptimisticInv, Inv, StoreInv, TypeOK, OptimisticTypeOK
  <1>1. ASSUME NEW s \in Seats, ReadAndDecide(t, s) PROVE OptimisticInv'
    <2> DEFINE x == [seat |-> s, new |-> Decided(t, s), version |-> version[s],
                     lost |-> attempt[t].lost]
    <2>1. /\ UNCHANGED vars /\ UNCHANGED version /\ UNCHANGED thread
          /\ UNCHANGED seats
          /\ attempt' = [attempt EXCEPT ![t] = x]
          /\ attempt'[t] = x
          /\ thread[t].pc = "update" /\ Reads(t, s) /\ Outcome(t, s) = "ok"
          /\ attempt[t].seat = NoSeat
          /\ s # NoSeat
      BY <1>0, <1>1, ReservationAssumption DEF ReadAndDecide, vars
    <2>2. thread[t].op \in {"hold", "confirm", "release"}
      BY <1>0, <2>1 DEF AttemptIsSound, AttemptBelongsToUpdate
    <2>3. Decided(t, s) \in SeatState
      <3>0. /\ seats[s] \in SeatState /\ WellFormed(seats[s])
            /\ thread[t].hold \in Nat /\ thread[t].code \in Nat
            /\ thread[t].at \in Nat /\ thread[t].user \in Users \cup {NoUser}
        BY <1>0 DEF Inv, StoreInv, SeatsWellFormed, ThreadState
      <3>1. CASE thread[t].op = "hold"
        <4>1. s = thread[t].seat /\ HoldOutcome(t) = "ok"
          BY <2>1, <3>1 DEF Reads, Outcome
        <4>2. /\ seats[s].status # "absent"
              /\ HoldError(seats[s], thread[t].hold, thread[t].user, HoldTTL,
                           thread[t].at) = "ok"
          BY <4>1 DEF HoldOutcome
        <4>3. Hold(seats[s], thread[t].hold, thread[t].user, HoldTTL,
                   thread[t].at) \in SeatState
          BY <3>0, <4>2, HoldKeepsSeat
        <4> QED BY <3>1, <4>1, <4>3 DEF Decided, HeldSeat
      <3>2. CASE thread[t].op = "confirm"
        BY <2>1, <3>0, <3>2, ConfirmKeepsSeat
           DEF Decided, ByHoldSeat, Outcome, ByHoldOutcome
      <3>3. CASE thread[t].op = "release"
        BY <2>1, <3>0, <3>3, ReleaseKeepsSeat
           DEF Decided, ByHoldSeat, Outcome, ByHoldOutcome
      <3> QED BY <2>2, <3>1, <3>2, <3>3
    <2>4. x \in AttemptState
      BY <1>0, <2>3 DEF AttemptState
    <2>5. thread[t].op \in {"confirm", "release"} => x.lost = 0
      BY <1>0, <2>1 DEF AttemptIsSound, LostHoldIsGone, Reads, AttemptState
    <2>6. /\ Reads(t, s)' /\ Outcome(t, s)' = "ok"
          /\ Decided(t, s)' = Decided(t, s)
          /\ Unchanged(t)'
      BY <1>0, <2>1
         DEF Reads, Carries, Outcome, Decided, HoldOutcome, HeldSeat,
             ByHoldOutcome, ByHoldSeat, Unchanged
    <2>7. AttemptIsSound(t)'
      BY <1>0, <2>1, <2>2, <2>5, <2>6
         DEF AttemptIsSound, AttemptBelongsToUpdate, CopyIsCurrent,
             LostHoldIsGone
    <2>8. FreshHoldStep(t)
      BY <2>1 DEF FreshHoldStep, HasFreshHold
    <2>9. /\ attempt' \in [Threads -> AttemptState]
          /\ \A u \in Threads : u # t => attempt'[u] = attempt[u]
      BY <1>0, <2>1, <2>4
    <2> HIDE DEF x
    <2> QED BY <1>0, <2>1, <2>5, <2>7, <2>8, <2>9, RowsRest, OneRequestKeepsInv
  <1>2. ASSUME NEW s \in Seats, ReadAndRefuse(t, s) PROVE OptimisticInv'
    BY <1>0, <1>2, RowsRest, EndKeepsInv DEF ReadAndRefuse, Finish, IdleThread
  <1>3. CASE ReadNothing(t)
    BY <1>0, <1>3, RowsRest, EndKeepsInv
       DEF ReadNothing, HoldNotFound, Finish, IdleThread
  <1>4. CASE WriteIfUnchanged(t)
    <2>1. /\ \A u \in Threads : u # t => thread'[u] = thread[u]
          /\ thread'[t].pc = "announce"
      BY <1>0, <1>4 DEF WriteIfUnchanged, ThreadState
    <2> QED BY <1>4, <2>1, WriteMovesRow, EndKeepsInv
            DEF WriteIfUnchanged, StoreCopy
  <1>5. CASE WriteUnacknowledged(t)
    <2>1. /\ \A u \in Threads : u # t => thread'[u] = thread[u]
          /\ thread'[t].pc = "idle"
      BY <1>0, <1>5 DEF WriteUnacknowledged, Finish, IdleThread
    <2> QED BY <1>5, <2>1, WriteMovesRow, EndKeepsInv
            DEF WriteUnacknowledged, StoreCopy
  <1>6. CASE LoseAttempt(t)
    <2>1. CASE attempt[t].lost + 1 < Attempts
      <3> DEFINE x == Unread(attempt[t].lost + 1)
      <3>1. /\ attempt' = [attempt EXCEPT ![t] = x] /\ attempt'[t] = x
            /\ UNCHANGED <<thread, seats, version>>
            /\ attempt[t].seat # NoSeat /\ ~Unchanged(t)
        BY <1>0, <1>6, <2>1 DEF LoseAttempt
      <3>2. /\ x \in AttemptState /\ x.seat = NoSeat
            /\ x.lost = attempt[t].lost + 1
            /\ attempt[t].lost \in Nat
        BY <1>0, NewSeatIsFine DEF Unread, AttemptState
      <3>3. thread[t].op \in {"confirm", "release"} => x.lost = 1
        BY <1>0, <3>1, <3>2 DEF ByHoldLosesOnce
      <3>4. AttemptBelongsToUpdate(t)'
        BY <1>0, <3>1
           DEF AttemptIsSound, AttemptBelongsToUpdate, Unread
      <3>5. CopyIsCurrent(t)'
        BY <3>1, <3>2 DEF CopyIsCurrent
      <3>6. LostHoldIsGone(t)'
        BY <1>0, <3>1
           DEF AttemptIsSound, LostHoldIsGone, Carries, HasFreshHold
      <3>7. AttemptIsSound(t)'
        BY <3>4, <3>5, <3>6 DEF AttemptIsSound
      <3>8. FreshHoldStep(t)
        BY <3>1 DEF FreshHoldStep, HasFreshHold
      <3>9. /\ attempt' \in [Threads -> AttemptState]
            /\ \A u \in Threads : u # t => attempt'[u] = attempt[u]
        BY <1>0, <3>1, <3>2
      <3> HIDE DEF x
      <3> QED BY <1>0, <3>1, <3>2, <3>3, <3>7, <3>8, <3>9, RowsRest,
                 OneRequestKeepsInv
    <2>2. CASE ~(attempt[t].lost + 1 < Attempts)
      BY <1>0, <1>6, <2>2, RowsRest, EndKeepsInv
         DEF LoseAttempt, Finish, IdleThread
    <2> QED BY <2>1, <2>2
  <1>7. CASE CallFails(t)
    BY <1>0, <1>7, RowsRest, EndKeepsInv
       DEF CallFails, StoreFails, Finish, IdleThread
  <1> QED BY <1>1, <1>2, <1>3, <1>4, <1>5, <1>6, <1>7 DEF UpdateStep

(* The sweep frees rows and moves the version of exactly those. *)
LEMMA SweepMovesRows ==
    ASSUME OptimisticInv, NEW at,
           seats' = [s \in Seats |-> ExpireHold(seats[s], at)],
           version' = [s \in Seats |-> IF s \in ExpiredSeats(at)
                                       THEN version[s] + 1 ELSE version[s]]
    PROVE  version' \in [Seats -> Nat] /\ \A s \in Seats : RowStep(s)
  <1>0. /\ version \in [Seats -> Nat]
        /\ seats \in [Seats -> SeatState]
    BY DEF OptimisticInv, Inv, StoreInv, TypeOK, OptimisticTypeOK
  <1>1. ASSUME NEW s \in Seats PROVE RowStep(s)
    <2>1. CASE IsHoldExpired(seats[s], at)
      <3>1. seats'[s].holdID = NoID /\ version'[s] = version[s] + 1
        BY <1>0, <2>1 DEF ExpireHold, ClearHold, ExpiredSeats, SeatState
      <3> QED BY <1>0, <3>1 DEF RowStep
    <2>2. CASE ~IsHoldExpired(seats[s], at)
      BY <1>0, <2>2 DEF ExpireHold, ExpiredSeats, RowStep
    <2> QED BY <2>1, <2>2
  <1> QED BY <1>0, <1>1

LEMMA SweepKeepsInv ==
    ASSUME OptimisticInv, Inv', SweepSeats \/ SweepSeatsFails
    PROVE  OptimisticInv'
  <1>0. UNCHANGED <<thread, attempt>>
    BY DEF SweepSeats, SweepSeatsFails, ExpireHolds, SweepFails
  <1>1. CASE UNCHANGED <<seats, version>>
    BY <1>0, <1>1, RowsRest, NoRequestKeepsInv DEF OptimisticInv, OptimisticTypeOK
  <1>2. CASE /\ seats' = [s \in Seats |-> ExpireHold(seats[s], sweeper.at)]
             /\ version' = VersionsAfterSweep
    BY <1>0, <1>2, SweepMovesRows, NoRequestKeepsInv DEF VersionsAfterSweep
  <1>3. CASE SweepSeats
    BY <1>2, <1>3 DEF SweepSeats, ExpireHolds
  <1>4. CASE SweepSeatsFails
    BY <1>1, <1>2, <1>4 DEF SweepSeatsFails, SweepFails
  <1> QED BY <1>3, <1>4

LEMMA OtherKeepsInv ==
    ASSUME OptimisticInv, Inv', OtherStep
    PROVE  OptimisticInv'
  <1>0. /\ version \in [Seats -> Nat] /\ seats \in [Seats -> SeatState]
        /\ UNCHANGED <<thread, attempt, version>>
    BY DEF OptimisticInv, Inv, StoreInv, TypeOK, OptimisticTypeOK, OtherStep,
           optimisticVars, BeginSweep, SweepOffer, CancelEvent, AddSeats,
           VerifyEmail, Tick
  <1>1. CASE \E e \in Events : \E S \in SUBSET {s \in Seats : EventOf[s] = e} :
               AddSeats(S)
    <2>1. \A s \in Seats : RowStep(s)
      <3> TAKE s \in Seats
      <3>1. \/ seats'[s] = seats[s]
            \/ seats[s].status = "absent" /\ seats'[s] = NewSeat
        BY <1>1 DEF AddSeats
      <3>2. seats'[s].holdID \in {seats[s].holdID, NoID}
        BY <3>1, NewSeatIsFine
      <3> QED BY <1>0, <3>1, <3>2 DEF RowStep
    <2> QED BY <1>0, <2>1, NoRequestKeepsInv
  <1>2. CASE UNCHANGED seats
    BY <1>0, <1>2, RowsRest, NoRequestKeepsInv
  <1> QED BY <1>1, <1>2 DEF OtherStep, BeginSweep, SweepOffer, CancelEvent,
                            VerifyEmail, Tick

LEMMA OptimisticNextInv ==
    OptimisticInv /\ [OptimisticNext]_allVars => OptimisticInv'
  <1> SUFFICES ASSUME OptimisticInv, [OptimisticNext]_allVars
               PROVE  OptimisticInv'
    OBVIOUS
  <1>1. Inv'
    BY OptimisticStepIsStep, NextInv DEF OptimisticInv
  <1>2. CASE UNCHANGED allVars
    BY <1>1, <1>2, RowsRest, NoRequestKeepsInv
       DEF allVars, vars, optimisticVars, OptimisticInv, OptimisticTypeOK
  <1>3. CASE OptimisticCrash
    <2>1. /\ attempt' = [t \in Threads |-> Unread(0)]
          /\ thread' = [t \in Threads |-> IdleThread]
          /\ version' = version
      BY <1>3 DEF OptimisticCrash, Crash
    <2>2. Unread(0) \in AttemptState /\ Unread(0).lost = 0
      BY NewSeatIsFine DEF Unread, AttemptState
    <2>3. \A t \in Threads : AttemptIsSound(t)'
      BY <2>1, UnreadIsSound DEF IdleThread
    <2> QED BY <1>1, <2>1, <2>2, <2>3
            DEF OptimisticInv, OptimisticTypeOK, ByHoldLosesOnce
  <1> QED BY <1>1, <1>2, <1>3, PlainKeepsInv, UpdateKeepsInv, SweepKeepsInv,
             OtherKeepsInv DEF OptimisticNext

-----------------------------------------------------------------------------
(* Theorems *)

(* The invariant of the optimistic store holds in every reachable state. *)
THEOREM OptimisticInvHolds == OptimisticSpec => []OptimisticInv
  BY OptimisticInitInv, OptimisticNextInv, PTL DEF OptimisticSpec

(* The versions and what each attempt has read keep their types, next to    *)
(* everything Reservation keeps: an attempt that is thrown away and read    *)
(* again never leaves half a seat behind.                                   *)
THEOREM OptimisticTypeCorrect == OptimisticSpec => []OptimisticTypeOK
  <1>1. OptimisticInv => OptimisticTypeOK
    BY DEF OptimisticInv
  <1> QED BY <1>1, OptimisticInvHolds, PTL

(* optimistic_seat_repository.go: reading, deciding and writing only if the *)
(* version stands is, to every caller, one atomic update.                   *)
THEOREM OptimisticImplementsReservation ==
    OptimisticSpec => ImplementsReservation
  <1>1. OptimisticInit => Init
    BY DEF OptimisticInit
  <1>2. OptimisticInv /\ [OptimisticNext]_allVars => [Next]_vars
    BY OptimisticStepIsStep
  <1> QED BY <1>1, <1>2, OptimisticInvHolds, PTL
          DEF OptimisticSpec, ImplementsReservation, Spec

(* A confirmation or release is retried at most once, whatever the number   *)
(* of requests that race it.                                                *)
THEOREM RetriesByHoldAreBounded == OptimisticSpec => []ByHoldLosesOnce
  <1>1. OptimisticInv => ByHoldLosesOnce
    BY DEF OptimisticInv
  <1> QED BY <1>1, OptimisticInvHolds, PTL

(* So sold seats, live holds and sales are as safe without locks, a hold    *)
(* that ended never comes back, the store keeps its schema and whoever was  *)
(* told of a sale owns the seat.                                            *)
THEOREM OptimisticKeepsPromises ==
    OptimisticSpec =>
        /\ TicketIsForever /\ LiveHoldIsProtected
        /\ SaleIsEarned /\ SpentHoldsStaySpent
        /\ []SeatsWellFormed /\ []ConfirmedMeansOwned
  BY OptimisticImplementsReservation, TicketsAreForever, LiveHoldsAreProtected,
     SalesAreEarned, SpentHoldsAreGone, StoreStaysWellFormed,
     ConfirmationsAreTrue, PTL DEF ImplementsReservation
=============================================================================
