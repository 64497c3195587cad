--------------------------- MODULE DeletionProofs ---------------------------
(***************************************************************************)
(* Proofs about EventDeletion: with foreign keys the seat store and the    *)
(* catalogue agree.  No step but an insertion makes a seat out of nothing, *)
(* so the invariant needs little of what requests do.  And with them or    *)
(* without, the seat store keeps to its schema: requests, the sweeper and  *)
(* the administrator's insertions do by the lemmas of ReservationProofs,   *)
(* and a deletion because an absent seat carries nothing.                  *)
(***************************************************************************)
EXTENDS EventDeletion, ReservationProofs

(* The seat store is a function on the seats, whatever its values. *)
IsStore == seats = [s \in Seats |-> seats[s]]

DeletionInv == IsStore /\ SeatsHaveEvents

(* A seat that is not stored is stored after a step only if it was inserted.*)
Appears(s) == seats[s].status = "absent" /\ seats'[s] # seats[s]

(* What requests write, they have read. *)
LEMMA RequestsInsertNothing ==
    ASSUME IsStore, NEW t \in Threads, RequestStep(t)
    PROVE  IsStore' /\ \A s \in Seats : ~Appears(s)
  <1>1. CASE UNCHANGED seats
    BY <1>1 DEF IsStore, Appears
  <1>2. CASE HoldUpdate(t) \/ HoldUpdateUnacknowledged(t)
    BY <1>1, <1>2 DEF HoldUpdate, HoldUpdateUnacknowledged, HoldOutcome,
                      IsStore, Appears
  <1>3. CASE \E s \in Seats :
               UpdateByHold(t, s) \/ UpdateByHoldUnacknowledged(t, s)
    BY <1>1, <1>3 DEF UpdateByHold, UpdateByHoldUnacknowledged, ByHoldOutcome,
                      ConfirmError, ReleaseError, IsStore, Appears
  <1>4. CASE \/ HoldGate(t) \/ HoldLookup(t) \/ HoldAnnounce(t)
             \/ ConfirmGate(t) \/ ConfirmAnnounce(t) \/ HoldNotFound(t)
             \/ ReleaseAnnounce(t) \/ ReleaseOffer(t) \/ StoreFails(t)
    BY <1>1, <1>4 DEF HoldGate, HoldLookup, HoldAnnounce, ConfirmGate,
                      ConfirmAnnounce, HoldNotFound, ReleaseAnnounce,
                      ReleaseOffer, StoreFails
  <1> QED BY <1>2, <1>3, <1>4 DEF RequestStep

(* A sweep only touches seats that are held. *)
LEMMA SweepsInsertNothing ==
    ASSUME IsStore, SweeperStep
    PROVE  IsStore' /\ \A s \in Seats : ~Appears(s)
  BY DEF SweeperStep, BeginSweep, ExpireHolds, SweepFails, SweepOffer,
         ExpireHold, IsHoldExpired, IsStore, Appears

LEMMA DeletionInitInv == DeletionInit => DeletionInv
  <1> SUFFICES ASSUME DeletionInit PROVE DeletionInv
    OBVIOUS
  <1>1. IsStore
    BY DEF DeletionInit, Init, IsStore
  <1>2. SeatsHaveEvents
    BY ReservationAssumption DEF DeletionInit, SeatsHaveEvents
  <1> QED BY <1>1, <1>2 DEF DeletionInv

LEMMA DeletionNextInv ==
    ASSUME ForeignKeys, DeletionInv, [DeletionNext]_allVars
    PROVE  DeletionInv'
  <1>0. IsStore /\ SeatsHaveEvents
    BY DEF DeletionInv
  <1>1. CASE IsStore' /\ UNCHANGED listed /\ \A s \in Seats : ~Appears(s)
    BY <1>0, <1>1 DEF DeletionInv, SeatsHaveEvents, Appears
  <1>2. CASE UNCHANGED <<seats, listed>>
    BY <1>0, <1>2 DEF DeletionInv, SeatsHaveEvents, IsStore
  <1>3. ASSUME NEW t \in Threads, Lookup(t) \/ OtherRequestStep(t)
        PROVE  DeletionInv'
    <2>1. CASE Lookup(t)
      BY <1>2, <2>1 DEF Lookup, HoldLookup, catalogueVars
    <2>2. CASE RequestStep(t) /\ UNCHANGED catalogueVars
      BY <1>0, <1>1, <2>2, RequestsInsertNothing DEF catalogueVars
    <2>3. CASE /\ UNCHANGED catalogueVars
               /\ \/ \E u \in Users, s \in Seats : BeginHold(t, u, s)
                  \/ \E u \in Users, h \in 1..(nextID - 1) :
                       BeginConfirm(t, u, h) \/ BeginRelease(t, u, h)
      BY <1>2, <2>3 DEF BeginHold, BeginConfirm, BeginRelease, catalogueVars
    <2> QED BY <1>3, <2>1, <2>2, <2>3 DEF OtherRequestStep
  <1>4. ASSUME NEW e \in Events, DeleteFinish(e) PROVE DeletionInv'
    <2>1. /\ seats' = [s \in Seats |-> IF s \in SeatsOf(e) THEN AbsentSeat
                                       ELSE seats[s]]
          /\ listed' = listed \ {e}
      BY <1>4 DEF DeleteFinish, Remaining
    <2>2. AbsentSeat.status = "absent"
      BY DEF AbsentSeat, NewSeat
    <2> QED BY <1>0, <2>1, <2>2
            DEF DeletionInv, IsStore, SeatsHaveEvents, SeatsOf
  <1>5. ASSUME NEW e \in Events, CreateEvent(e) PROVE DeletionInv'
    BY <1>0, <1>5 DEF CreateEvent, vars, DeletionInv, SeatsHaveEvents, IsStore
  <1>6. ASSUME NEW e \in Events, CatalogueStep(e), ~DeleteFinish(e),
               ~CreateEvent(e)
        PROVE  DeletionInv'
    BY <1>2, <1>6 DEF CatalogueStep, DeleteCheck, DeleteFails, BeginAdd,
                      CancelEvent, catalogueVars, vars
  <1>7. ASSUME NEW S \in SUBSET Seats, InsertSeats(S) PROVE DeletionInv'
    <2>1. /\ adding \in listed /\ UNCHANGED listed
          /\ \A s \in S : EventOf[s] \in listed
          /\ seats' = [s \in Seats |-> IF s \in S /\ seats[s].status = "absent"
                                       THEN NewSeat ELSE seats[s]]
      BY <1>7 DEF InsertSeats, AddSeats, SeatsOf
    <2> QED BY <1>0, <2>1 DEF DeletionInv, IsStore, SeatsHaveEvents
  <1>8. CASE InsertNothing \/ DeletionCrash
    BY <1>2, <1>8 DEF InsertNothing, DeletionCrash, Crash, vars
  <1>9. CASE SweeperStep /\ UNCHANGED catalogueVars
    BY <1>0, <1>1, <1>9, SweepsInsertNothing DEF catalogueVars
  <1>10. CASE (Tick \/ \E u \in Users : VerifyEmail(u))
                 /\ UNCHANGED catalogueVars
    BY <1>2, <1>10 DEF Tick, VerifyEmail, catalogueVars
  <1>11. CASE UNCHANGED allVars
    BY <1>2, <1>11 DEF allVars, vars, catalogueVars
  <1> QED BY <1>3, <1>4, <1>5, <1>6, <1>7, <1>8, <1>9, <1>10, <1>11
          DEF DeletionNext

(* With foreign keys every stored seat has its event, however many events,  *)
(* seats and requests there are: neither inserting seats after a lookup nor *)
(* deleting an event leaves a seat behind.                                  *)
THEOREM SeatsAlwaysHaveEvents ==
    ASSUME ForeignKeys
    PROVE  DeletionSpec => []SeatsHaveEvents
  <1>1. DeletionInv /\ [DeletionNext]_allVars => DeletionInv'
    BY DeletionNextInv
  <1>2. DeletionInv => SeatsHaveEvents
    BY DEF DeletionInv
  <1> QED BY <1>1, <1>2, DeletionInitInv, PTL DEF DeletionSpec

-----------------------------------------------------------------------------
(* The store stays in its schema *)

(* Removing rows and reviving events keeps the store sound. *)
LEMMA RemovalKeepsStore ==
    ASSUME StoreInv,
           seats' \in [Seats -> SeatState],
           \A s \in Seats : seats'[s] = seats[s] \/ seats'[s] = AbsentSeat,
           cancelled' \subseteq cancelled,
           UNCHANGED <<now, nextID, verified, thread, sweeper>>
    PROVE  StoreInv'
  <1> USE DEF StoreInv
  <1>1. TypeOK'
    BY DEF TypeOK
  <1>2. \A s \in Seats :
          /\ WellFormed(seats'[s])
          /\ seats'[s].holdID \in {seats[s].holdID, NoID}
          /\ seats'[s].ticketCode \in {seats[s].ticketCode, NoID}
    BY NewSeatIsFine DEF SeatsWellFormed
  <1>3. SeatsWellFormed'
    <2>1. \A s \in Seats : WellFormed(seats[s])'
      BY <1>2 DEF WellFormed
    <2> QED BY <1>2, <2>1 DEF SeatsWellFormed
  <1>4. IDsDrawn'
    BY <1>2 DEF IDsDrawn, NoID
  <1>5. HoldsFresh'
    BY <1>2 DEF HoldsFresh, HasFreshHold
  <1>6. CodesFresh'
    BY <1>2 DEF CodesFresh, HasFreshCode
  <1>7. WritersKnowTheirSeat' /\ AnsweredAtTheEnd' /\ SweeperReadThePast'
    BY DEF WritersKnowTheirSeat, AnsweredAtTheEnd, SweeperReadThePast
  <1> QED BY <1>1, <1>3, <1>4, <1>5, <1>6, <1>7

(* DeleteEvent removes the rows of its event, or leaves them be. *)
LEMMA DeletionKeepsStore ==
    ASSUME StoreInv, NEW e \in Events, DeleteFinish(e)
    PROVE  StoreInv'
  <1>1. seats \in [Seats -> SeatState] /\ AbsentSeat \in SeatState
    BY NewSeatIsFine DEF StoreInv, TypeOK
  <1>2. /\ seats' \in [Seats -> SeatState]
        /\ \A s \in Seats : seats'[s] = seats[s] \/ seats'[s] = AbsentSeat
    BY <1>1 DEF DeleteFinish, Remaining
  <1> QED BY <1>2, RemovalKeepsStore DEF DeleteFinish

(* HoldSeat, when its event is not in the catalogue, just ends. *)
LEMMA LookupKeepsStore ==
    ASSUME StoreInv, NEW t \in Threads, Lookup(t)
    PROVE  StoreInv'
  <1>1. CASE HoldLookup(t)
    BY <1>1, HoldStepsKeepInv DEF Kept
  <1>2. CASE /\ Finish(t, "event_not_found")
             /\ UNCHANGED <<now, nextID, seats, cancelled, verified, sweeper>>
    <2>1. thread[t].op # "confirm"
      BY DEF Lookup
    <2>2. Continues(t, [IdleThread EXCEPT !.op = thread[t].op,
                                          !.res = "event_not_found"])
      BY <2>1, FinishContinues DEF Results
    <2> QED BY <1>2, <2>2, ThreadStepKeepsInv DEF Finish, Kept
  <1> QED BY <1>1, <1>2 DEF Lookup

LEMMA CatalogueInitInv == DeletionInit => CatalogueInv
  BY InitInv DEF DeletionInit, CatalogueInv, DeletionTypeOK, Inv, StoreInv

LEMMA CatalogueNextInv ==
    ASSUME CatalogueInv, [DeletionNext]_allVars
    PROVE  CatalogueInv'
  <1>0. StoreInv /\ DeletionTypeOK /\ deleting \subseteq listed
    BY DEF CatalogueInv
  <1>1. StoreInv'
    <2>1. CASE UNCHANGED vars
      BY <1>0, <2>1, StutterKeepsInv DEF Kept
    <2>2. CASE Environment
      BY <1>0, <2>2, EnvironmentKeepsInv DEF Kept
    <2>3. ASSUME NEW t \in Threads, Lookup(t) \/ OtherRequestStep(t)
          PROVE  StoreInv'
      BY <1>0, <2>3, LookupKeepsStore, HoldStepsKeepInv, ByHoldStepsKeepInv,
         RequestKeepsInv
      DEF OtherRequestStep, Kept
    <2>4. ASSUME NEW e \in Events, CatalogueStep(e) PROVE StoreInv'
      <3>1. CASE DeleteFinish(e)
        BY <1>0, <3>1, DeletionKeepsStore
      <3>2. CASE CancelEvent(e)
        BY <2>2, <3>2 DEF Environment
      <3> QED BY <2>1, <2>4, <3>1, <3>2 DEF CatalogueStep, CreateEvent,
                 DeleteCheck, DeleteFails, BeginAdd
    <2>5. ASSUME NEW S \in SUBSET Seats, InsertSeats(S) PROVE StoreInv'
      <3>1. /\ adding \in Events
            /\ S \in SUBSET {s \in Seats : EventOf[s] = adding}
            /\ AddSeats(S)
        BY <1>0, <2>5 DEF InsertSeats, SeatsOf, DeletionTypeOK
      <3> QED BY <2>2, <3>1 DEF Environment
    <2>6. CASE SweeperStep
      BY <1>0, <2>6, SweeperKeepsInv DEF Kept
    <2>7. CASE InsertNothing
      BY <2>1, <2>7 DEF InsertNothing
    <2>8. CASE Tick \/ (\E u \in Users : VerifyEmail(u)) \/ DeletionCrash
      BY <2>2, <2>8 DEF Environment, DeletionCrash
    <2>9. CASE UNCHANGED allVars
      BY <2>1, <2>9 DEF allVars
    <2> QED BY <2>3, <2>4, <2>5, <2>6, <2>7, <2>8, <2>9 DEF DeletionNext
  <1>2. DeletionTypeOK'
    <2>1. TypeOK'
      BY <1>1 DEF StoreInv
    <2>2. /\ listed \subseteq Events /\ deleting \subseteq Events
          /\ adding \in Events \cup {NoEvent}
      BY <1>0 DEF DeletionTypeOK
    <2>3. CASE UNCHANGED catalogueVars
      BY <2>1, <2>2, <2>3 DEF catalogueVars, DeletionTypeOK
    <2>4. ASSUME NEW e \in Events, CatalogueStep(e) PROVE DeletionTypeOK'
      BY <2>1, <2>2, <2>3, <2>4
      DEF DeletionTypeOK, CatalogueStep, CreateEvent, DeleteCheck,
          DeleteFinish, DeleteFails, BeginAdd
    <2>5. CASE InsertNothing \/ DeletionCrash
               \/ \E S \in SUBSET Seats : InsertSeats(S)
      BY <2>1, <2>2, <2>5
      DEF DeletionTypeOK, InsertNothing, DeletionCrash, InsertSeats
    <2> QED BY <2>3, <2>4, <2>5
            DEF DeletionNext, Lookup, OtherRequestStep, allVars
  <1>3. (deleting \subseteq listed)'
    <2>1. CASE UNCHANGED <<listed, deleting>> \/ (deleting' = {} /\ listed' = listed)
      BY <1>0, <2>1
    <2>2. ASSUME NEW e \in Events, CatalogueStep(e) PROVE (deleting \subseteq listed)'
      BY <1>0, <2>2
      DEF CatalogueStep, CreateEvent, DeleteCheck, DeleteFinish, DeleteFails,
          BeginAdd, catalogueVars
    <2> QED BY <2>1, <2>2
            DEF DeletionNext, Lookup, OtherRequestStep, InsertSeats,
                InsertNothing, DeletionCrash, allVars, catalogueVars
  <1> QED BY <1>1, <1>2, <1>3 DEF CatalogueInv

(* The store's invariant and the types hold in every reachable state, with  *)
(* foreign keys and without.                                                *)
THEOREM CatalogueInvHolds == DeletionSpec => []CatalogueInv
  <1>1. CatalogueInv /\ [DeletionNext]_allVars => CatalogueInv'
    BY CatalogueNextInv
  <1> QED BY <1>1, CatalogueInitInv, PTL DEF DeletionSpec

(* Every variable has its type: an insertion that was begun names an event, *)
(* also when that event is deleted meanwhile.                               *)
THEOREM DeletionTypeCorrect == DeletionSpec => []DeletionTypeOK
  <1>1. CatalogueInv => DeletionTypeOK
    BY DEF CatalogueInv
  <1> QED BY <1>1, CatalogueInvHolds, PTL

(* The seat store satisfies its schema, no hold or ticket on two seats,     *)
(* while events are created, deleted and given seats under running          *)
(* requests: rows that vanish under a request and come back as new seats    *)
(* included.                                                                *)
THEOREM StoreSurvivesDeletion == DeletionSpec => []SeatsWellFormed
  <1>1. CatalogueInv => SeatsWellFormed
    BY DEF CatalogueInv, StoreInv
  <1> QED BY <1>1, CatalogueInvHolds, PTL

-----------------------------------------------------------------------------
(* What the catalogue adds to the steps of Reservation *)

(* A step is one of Reservation, ends a deletion, ends a request whose      *)
(* event is not in the catalogue, or leaves the rest of the system alone.   *)
LEMMA DeletionSteps ==
    ASSUME CatalogueInv, [DeletionNext]_allVars
    PROVE  \/ Next
           \/ \E e \in Events : DeleteFinish(e)
           \/ \E t \in Threads :
                /\ Finish(t, "event_not_found")
                /\ UNCHANGED <<now, nextID, seats, cancelled, verified, sweeper>>
           \/ UNCHANGED vars
  <1>1. ASSUME NEW t \in Threads, Lookup(t)
        PROVE  \/ Next
               \/ /\ Finish(t, "event_not_found")
                  /\ UNCHANGED <<now, nextID, seats, cancelled, verified, sweeper>>
    BY <1>1 DEF Lookup, Next, RequestStep
  <1>2. ASSUME NEW t \in Threads, OtherRequestStep(t) PROVE Next
    BY <1>2 DEF OtherRequestStep, Next
  <1>3. ASSUME NEW e \in Events, CatalogueStep(e)
        PROVE  Next \/ DeleteFinish(e) \/ UNCHANGED vars
    BY <1>3 DEF CatalogueStep, CreateEvent, DeleteCheck, DeleteFails, BeginAdd,
                Next, Environment
  <1>4. ASSUME NEW S \in SUBSET Seats, InsertSeats(S) PROVE Next
    <2>1. /\ adding \in Events
          /\ S \in SUBSET {s \in Seats : EventOf[s] = adding}
          /\ AddSeats(S)
      BY <1>4 DEF InsertSeats, SeatsOf, CatalogueInv, DeletionTypeOK
    <2> QED BY <2>1 DEF Next, Environment
  <1>5. CASE SweeperStep \/ Tick \/ (\E u \in Users : VerifyEmail(u)) \/ DeletionCrash
    BY <1>5 DEF Next, Environment, DeletionCrash
  <1>6. CASE InsertNothing \/ UNCHANGED allVars
    BY <1>6 DEF InsertNothing, allVars
  <1> QED BY <1>1, <1>2, <1>3, <1>4, <1>5, <1>6 DEF DeletionNext

(* A deletion leaves a row be or removes it with the event, which was in    *)
(* the catalogue up to then.                                                *)
LEMMA DeletionTakesItsOwn ==
    ASSUME CatalogueInv, NEW e \in Events, DeleteFinish(e),
           NEW s \in Seats, seats'[s] # seats[s]
    PROVE  GoesWithItsEvent(s)
  <1>1. e \in listed /\ listed' = listed \ {e}
    BY DEF CatalogueInv, DeleteFinish
  <1>2. EventOf[s] = e /\ seats'[s] = AbsentSeat
    BY DEF DeleteFinish, Remaining, SeatsOf
  <1> QED BY <1>1, <1>2 DEF GoesWithItsEvent

(* What the other steps do to a seat. *)
LEMMA OtherStepsTakeNothing ==
    ASSUME CatalogueInv, [DeletionNext]_allVars, NEW s \in Seats,
           seats'[s] # seats[s], ~GoesWithItsEvent(s)
    PROVE  /\ seats[s].status # "reserved"
           /\ LiveHold(s) => \E t \in Threads : ByItsHolder(t, s)
           /\ Next
  <1>1. Next
    BY DeletionSteps, DeletionTakesItsOwn DEF vars
  <1>2. StoreInv
    BY DEF CatalogueInv
  <1>3. LiveHold(s) => HasCurrentHold(seats[s], now)
    <2>1. now \in Nat /\ seats[s].expiresAt \in Nat
      BY <1>2 DEF StoreInv, TypeOK, SeatState
    <2> QED BY <2>1 DEF LiveHold, HasCurrentHold, IsHoldExpired, Reached
  <1> QED BY <1>1, <1>2, <1>3, ChangeFacts

(* Only DeleteEvent, whose cascade takes rows as they are by then, takes a  *)
(* sold seat or a live hold from anybody, and only one of the event it      *)
(* removes; with the in-memory store, which has no cascade, nothing does.   *)
THEOREM OnlyDeletionTakes == DeletionSpec => OnlyDeletionTakesAway
  <1>1. CatalogueInv /\ [DeletionNext]_allVars =>
          [\A s \in Seats : seats'[s] # seats[s] /\ ~GoesWithItsEvent(s) =>
             /\ seats[s].status # "reserved"
             /\ LiveHold(s) => \E t \in Threads : ByItsHolder(t, s)]_allVars
    BY OtherStepsTakeNothing
  <1> QED BY <1>1, CatalogueInvHolds, PTL DEF DeletionSpec, OnlyDeletionTakesAway

(* Without foreign keys what a caller was told stays true as well. *)
LEMMA ConfirmedWithoutCascade ==
    ASSUME ~ForeignKeys, CatalogueInv, ConfirmedMeansOwned, [DeletionNext]_allVars
    PROVE  ConfirmedMeansOwned'
  <1>1. Inv /\ thread \in [Threads -> ThreadState]
    BY DEF CatalogueInv, Inv, StoreInv, TypeOK
  <1>2. CASE Next
    BY <1>1, <1>2, NextInv DEF Inv
  <1>3. ASSUME NEW e \in Events, DeleteFinish(e) PROVE ConfirmedMeansOwned'
    BY <1>3 DEF DeleteFinish, Remaining, ConfirmedMeansOwned
  <1>4. ASSUME NEW t \in Threads, Finish(t, "event_not_found"), seats' = seats
        PROVE  ConfirmedMeansOwned'
    <2>1. /\ thread'[t].pc = "idle" /\ thread'[t].res = "event_not_found"
          /\ \A x \in Threads \ {t} : thread'[x] = thread[x]
      BY <1>1, <1>4 DEF Finish, IdleThread
    <2> QED BY <1>4, <2>1 DEF ConfirmedMeansOwned
  <1>5. CASE UNCHANGED vars
    BY <1>5 DEF vars, ConfirmedMeansOwned
  <1> QED BY <1>2, <1>3, <1>4, <1>5, DeletionSteps

(* The in-memory store has no cascade, so a deletion takes no row: sold     *)
(* seats stay sold and whoever was told of a sale owns the seat, also when  *)
(* its event is gone from the catalogue.                                    *)
THEOREM TicketsSurviveWithoutCascade ==
    ASSUME ~ForeignKeys
    PROVE  DeletionSpec => TicketIsForever /\ []ConfirmedMeansOwned
  <1>1. ASSUME CatalogueInv, [DeletionNext]_allVars, NEW s \in Seats,
               seats[s].status = "reserved"
        PROVE  seats'[s] = seats[s]
    <2>1. CASE \E e \in Events : DeleteFinish(e)
      BY <2>1 DEF DeleteFinish, Remaining
    <2>2. CASE Next
      BY <1>1, <2>2, ChangeFacts DEF CatalogueInv
    <2> QED BY <1>1, <2>1, <2>2, DeletionSteps DEF vars
  <1>2. CatalogueInv /\ [DeletionNext]_allVars =>
          [\A s \in Seats : seats[s].status = "reserved" =>
                             seats'[s] = seats[s]]_vars
    BY <1>1
  <1>3. DeletionInit => ConfirmedMeansOwned
    BY InitInv DEF DeletionInit, Inv
  <1>4. CatalogueInv /\ ConfirmedMeansOwned /\ [DeletionNext]_allVars =>
          ConfirmedMeansOwned'
    BY ConfirmedWithoutCascade
  <1> QED BY <1>2, <1>3, <1>4, CatalogueInvHolds, PTL
          DEF DeletionSpec, TicketIsForever

(* A seat is sold only to the verified user whose unexpired hold it is,     *)
(* while events come and go.                                                *)
THEOREM SalesAreEarnedThroughout == DeletionSpec => SaleIsEarned
  <1>1. ASSUME CatalogueInv, [DeletionNext]_allVars, NEW s \in Seats,
               seats[s].status # "reserved", seats'[s].status = "reserved"
        PROVE  /\ seats[s].status = "held"
               /\ seats[s].heldBy = seats'[s].reservedBy
               /\ seats[s].heldBy \in verified
               /\ \E t \in Threads :
                    ByItsHolder(t, s) /\ thread[t].at < seats[s].expiresAt
    <2>1. ~GoesWithItsEvent(s)
      BY <1>1, NewSeatIsFine DEF GoesWithItsEvent
    <2>2. Next /\ StoreInv
      BY <1>1, <2>1, OtherStepsTakeNothing DEF CatalogueInv
    <2> QED BY <1>1, <2>2, ChangeFacts
  <1>2. CatalogueInv /\ [DeletionNext]_allVars =>
          [\A s \in Seats :
             seats[s].status # "reserved" /\ seats'[s].status = "reserved" =>
                 /\ seats[s].status = "held"
                 /\ seats[s].heldBy = seats'[s].reservedBy
                 /\ seats[s].heldBy \in verified
                 /\ \E t \in Threads :
                      ByItsHolder(t, s)
                      /\ thread[t].at < seats[s].expiresAt]_vars
    BY <1>1
  <1> QED BY <1>2, CatalogueInvHolds, PTL DEF DeletionSpec, SaleIsEarned

(* Nor does a hold that ended come back when its seat is removed and added  *)
(* anew: a late request finds nobody else's hold in its place.              *)
THEOREM SpentHoldsAreGoneThroughout == DeletionSpec => SpentHoldsStaySpent
  <1>1. ASSUME CatalogueInv, [DeletionNext]_allVars,
               NEW h \in 1..(nextID - 1), Spent(h)
        PROVE  Spent(h)'
    <2>0. StoreInv /\ h # NoID
      BY <1>1 DEF CatalogueInv, NoID
    <2>1. CASE Next
      BY <1>1, <2>0, <2>1, SpentStays
    <2>2. ASSUME NEW e \in Events, DeleteFinish(e) PROVE Spent(h)'
      <3>1. \A s \in Seats : seats'[s] = seats[s] \/ seats'[s] = AbsentSeat
        BY <2>0, <2>2 DEF DeleteFinish, Remaining, StoreInv, TypeOK
      <3>2. AbsentSeat.holdID = NoID /\ thread' = thread
        BY <2>2 DEF AbsentSeat, NewSeat, DeleteFinish
      <3> QED BY <1>1, <2>0, <3>1, <3>2 DEF Spent, HasFreshHold
    <2>3. ASSUME NEW t \in Threads, Finish(t, "event_not_found"), seats' = seats
          PROVE  Spent(h)'
      <3>1. \A x \in Threads : HasFreshHold(x)' => thread'[x] = thread[x]
        BY <2>0, <2>3 DEF Finish, IdleThread, HasFreshHold, StoreInv, TypeOK
      <3> QED BY <1>1, <2>3, <3>1 DEF Spent, HasFreshHold
    <2>4. CASE UNCHANGED vars
      BY <1>1, <2>4 DEF vars, Spent, HasFreshHold
    <2> QED BY <1>1, <2>1, <2>2, <2>3, <2>4, DeletionSteps
  <1>2. CatalogueInv /\ [DeletionNext]_allVars =>
          [\A h \in 1..(nextID - 1) : Spent(h) => Spent(h)']_vars
    BY <1>1
  <1> QED BY <1>2, CatalogueInvHolds, PTL DEF DeletionSpec, SpentHoldsStaySpent
=============================================================================
