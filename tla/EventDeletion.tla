--------------------------- MODULE EventDeletion ---------------------------
(***************************************************************************)
(* The catalogue of events: an administrator creates and deletes events    *)
(* and adds seats to them while requests run                               *)
(* (internal/service/inventory_service.go, memory_event_repository.go,     *)
(* postgres_event_repository.go).                                          *)
(*                                                                         *)
(* Deleting takes two steps.  The Postgres statement looks at the seats in *)
(* the snapshot it began with, and when its foreign key removes the rows   *)
(* afterwards it takes them as they are by then.  The in-memory store      *)
(* lists the seats under their own lock, lets go of it and removes the     *)
(* event.  Adding seats looks the event up first and inserts afterwards.   *)
(***************************************************************************)
EXTENDS Reservation

CONSTANTS NoEvent,    \* no event
          ForeignKeys \* seats refer to their event and go with it (Postgres)

ASSUME DeletionAssumption ==
    /\ NoEvent \notin Events
    /\ ForeignKeys \in BOOLEAN

VARIABLES
    listed,    \* the events in the catalogue
    deleting,  \* the events whose seats a deletion has found free
    adding     \* the event whose lookup AddSeats is past

catalogueVars == <<listed, deleting, adding>>

allVars == <<vars, catalogueVars>>

SeatsOf(e) == {s \in Seats : EventOf[s] = e}

DeletionInit ==
    /\ Init
    /\ listed = Events
    /\ deleting = {}
    /\ adding = NoEvent

-----------------------------------------------------------------------------
(* The in-memory store keeps the catalogue locked while it deletes. *)
CatalogueUnlocked == ForeignKeys \/ deleting = {}

(* CreateEvent; an id that is taken is refused. *)
CreateEvent(e) ==
    /\ CatalogueUnlocked
    /\ e \notin listed
    /\ listed' = listed \cup {e}
    /\ UNCHANGED <<vars, deleting, adding>>

(* Every seat of e, stored or not, is one that nobody holds or owns. *)
AllFree(e) == \A s \in SeatsOf(e) : seats[s].status \in {"absent", "available"}

(* DeleteEvent finds the seats free; otherwise it is refused. *)
DeleteCheck(e) ==
    /\ CatalogueUnlocked
    /\ e \in listed \ deleting
    /\ AllFree(e)
    /\ deleting' = deleting \cup {e}
    /\ UNCHANGED <<vars, listed, adding>>

(* Mutant: the seats of a deleted event stay behind. *)
MutRemaining(e) == seats

(* What the seat store holds once the event is gone. *)
Remaining(e) ==
    IF ForeignKeys
    THEN [s \in Seats |-> IF s \in SeatsOf(e) THEN AbsentSeat ELSE seats[s]]
    ELSE seats

DeleteFinish(e) ==
    /\ e \in deleting
    /\ deleting' = deleting \ {e}
    /\ listed' = listed \ {e}
    /\ cancelled' = cancelled \ {e}
    /\ seats' = Remaining(e)
    /\ UNCHANGED <<now, nextID, verified, thread, sweeper, adding>>

DeleteFails(e) ==
    /\ StoreMayFail
    /\ e \in deleting
    /\ deleting' = deleting \ {e}
    /\ UNCHANGED <<vars, listed, adding>>

(* AddSeats past its lookup. *)
BeginAdd(e) ==
    /\ CatalogueUnlocked
    /\ adding = NoEvent
    /\ e \in listed
    /\ adding' = e
    /\ UNCHANGED <<vars, listed, deleting>>

(* CreateSeats: a row whose event is gone is refused by the foreign key, if *)
(* there is one.                                                            *)
InsertSeats(S) ==
    /\ adding # NoEvent
    /\ S \subseteq SeatsOf(adding)
    /\ ForeignKeys => adding \in listed
    /\ AddSeats(S)
    /\ adding' = NoEvent
    /\ UNCHANGED <<listed, deleting>>

(* Nothing new to insert, or the insertion is refused or fails. *)
InsertNothing ==
    /\ adding # NoEvent
    /\ \/ \A s \in SeatsOf(adding) : seats[s].status # "absent"
       \/ ForeignKeys /\ adding \notin listed
       \/ StoreMayFail
    /\ adding' = NoEvent
    /\ UNCHANGED <<vars, listed, deleting>>

(* HoldSeat looks its event up; nothing else a request does asks for it. *)
Lookup(t) ==
    /\ thread[t].op = "hold" /\ thread[t].pc = "lookup"
    /\ CatalogueUnlocked
    /\ IF EventOf[thread[t].seat] \in listed
       THEN HoldLookup(t)
       ELSE /\ Finish(t, "event_not_found")
            /\ UNCHANGED <<now, nextID, seats, cancelled, verified, sweeper>>
    /\ UNCHANGED catalogueVars

OtherRequestStep(t) ==
    /\ \/ \E u \in Users, s \in Seats : BeginHold(t, u, s)
       \/ \E u \in Users, h \in 1..(nextID - 1) :
            BeginConfirm(t, u, h) \/ BeginRelease(t, u, h)
       \/ ~(thread[t].op = "hold" /\ thread[t].pc = "lookup") /\ RequestStep(t)
    /\ UNCHANGED catalogueVars

(* A crash ends the administrator's requests too. *)
DeletionCrash ==
    /\ Crash
    /\ deleting' = {}
    /\ adding' = NoEvent
    /\ UNCHANGED listed

CatalogueStep(e) ==
    \/ CreateEvent(e)
    \/ DeleteCheck(e) \/ DeleteFinish(e) \/ DeleteFails(e)
    \/ BeginAdd(e)
    \/ /\ CatalogueUnlocked
       /\ e \in listed
       /\ CancelEvent(e)
       /\ UNCHANGED catalogueVars

DeletionNext ==
    \/ \E t \in Threads : Lookup(t) \/ OtherRequestStep(t)
    \/ \E e \in Events : CatalogueStep(e)
    \/ \E S \in SUBSET Seats : InsertSeats(S)
    \/ InsertNothing
    \/ (SweeperStep \/ Tick \/ \E u \in Users : VerifyEmail(u))
          /\ UNCHANGED catalogueVars
    \/ DeletionCrash

DeletionSpec == DeletionInit /\ [][DeletionNext]_allVars

(* With the sweeper running, as in Reservation. *)
DeletionFairSpec == DeletionSpec /\ SweeperFairness

-----------------------------------------------------------------------------
(* Properties *)

(* Every variable of this module has its type. *)
DeletionTypeOK ==
    /\ TypeOK
    /\ listed \subseteq Events
    /\ deleting \subseteq Events
    /\ adding \in Events \cup {NoEvent}

(* With foreign keys, every stored seat belongs to an event in the          *)
(* catalogue, though seats are inserted after the event was looked up and   *)
(* it may be deleted in between; so nobody is sold a seat of nothing.       *)
SeatsHaveEvents ==
    \A s \in Seats : seats[s].status # "absent" => EventOf[s] \in listed

(* A deletion takes seat s with its event. *)
GoesWithItsEvent(s) ==
    /\ EventOf[s] \in listed \ listed'
    /\ seats'[s] = AbsentSeat

(* A sold seat is only lost with its event, and a hold that has not run out *)
(* is otherwise only changed by its holder: creating the event anew, adding *)
(* its seats a second time, a deletion that failed or was cut short by a    *)
(* crash, and the other deletions, touch nothing that anybody has.          *)
OnlyDeletionTakesAway ==
    [][\A s \in Seats : seats'[s] # seats[s] /\ ~GoesWithItsEvent(s) =>
         /\ seats[s].status # "reserved"
         /\ LiveHold(s) => \E t \in Threads : ByItsHolder(t, s)]_allVars

(* The store stays in its schema while rows come and go.  Not so what was   *)
(* promised to a caller: a deletion that found the seats free takes the row *)
(* of one sold since, so ConfirmedMeansOwned is no part of this invariant.  *)
CatalogueInv == StoreInv /\ DeletionTypeOK /\ deleting \subseteq listed
=============================================================================
