------------------------------ MODULE Handoff ------------------------------
(***************************************************************************)
(* The waiting list and what works it: people join and leave the queue of  *)
(* an event, freed seats are offered through a bounded channel to workers  *)
(* that hold them for whoever stands first, and withdrawing an event       *)
(* drains its queue and tells the people concerned                         *)
(* (internal/service/handoff.go, waiting_list_service.go,                  *)
(* inventory_service.go).                                                  *)
(*                                                                         *)
(* It composes with Reservation: a worker holds a seat by running HoldSeat *)
(* as a thread of that module, and every step here is a step of            *)
(* Reservation or leaves its variables alone.                              *)
(***************************************************************************)
EXTENDS Reservation, WaitingList

CONSTANTS Clients,      \* threads that serve HTTP requests
          Workers,      \* threads of the handoff
          Buffer,       \* capacity of the freed channel
          EntryIDs,     \* bound: ids of queue entries in use at once
          EarlyWaiters, \* who may be queued when the process starts
          SkipLocked,   \* whether taking a waiter skips locked rows (Postgres)
          QueueMayFail, \* whether waiting list and notice stores can fail
          MayStop       \* whether the process can be told to shut down

ASSUME HandoffAssumption ==
    /\ Threads = Clients \cup Workers
    /\ Clients \cap Workers = {}
    /\ Buffer \in Nat \ {0}
    /\ EntryIDs \subseteq Nat
    /\ EarlyWaiters \subseteq Users
    /\ SkipLocked \in BOOLEAN
    /\ QueueMayFail \in BOOLEAN
    /\ MayStop \in BOOLEAN

VARIABLES
    queue,     \* the queue of each event
    joining,   \* joins past the gate that the store has not committed
    freed,     \* the channel of freed seats
    worker,    \* what each worker is doing
    stopping,  \* the context the workers run under is cancelled
    closing,   \* how far the withdrawal of each event has come
    standing   \* observation: who is owed a turn, and since when

handoffVars == <<queue, joining, freed, worker, stopping, closing, standing>>

allVars == <<vars, handoffVars>>

-----------------------------------------------------------------------------
(* State *)

EntryState == [id: EntryIDs, user: Users, joinedAt: Nat]

NoEntry == Entry(0, NoUser, 0)

WorkerState == [pc: {"idle", "take", "begin", "hold", "stopped"},
                seat: Seats \cup {NoSeat}, entry: EntryState \cup {NoEntry}]

IdleWorker == [pc |-> "idle", seat |-> NoSeat, entry |-> NoEntry]

(* How far announceCancellation has come: it lists the seats, drains the    *)
(* queue, writes the notices and queues their deliveries.  It ends "done",  *)
(* "told" without deliveries, or "failed".                                  *)
ClosingState == [pc: {"none", "list", "drain", "notify", "enqueue", "done",
                      "told", "failed"},
                 stake: SUBSET Users]

Standing(u, at) == [user |-> u, since |-> at]

Standers(e) == {x.user : x \in standing[e]}

(* Worker w took somebody off the queue of e and has not settled with them. *)
Serves(w, e) ==
    worker[w].pc \in {"begin", "hold"} /\ EventOf[worker[w].seat] = e

InFlight(e) ==
    {worker[w].entry.user : w \in {x \in Workers : Serves(x, e)}}

UsedIDs ==
    {worker[w].entry.id : w \in Workers}
        \cup {j.entry.id : j \in joining}
        \cup UNION {{queue[e][i].id : i \in DOMAIN queue[e]} : e \in Events}

FreshIDs == EntryIDs \ UsedIDs

(* What an earlier run of the program may have left in a queue. *)
EarlyEntries == [id: EntryIDs, user: EarlyWaiters, joinedAt: {0}]

HandoffInit ==
    /\ Init
    /\ queue \in [Events -> {<<>>} \cup {<<x>> : x \in EarlyEntries}]
    /\ joining = {}
    /\ freed = <<>>
    /\ worker = [w \in Workers |-> IdleWorker]
    /\ stopping = FALSE
    /\ closing = [e \in Events |-> [pc |-> "none", stake |-> {}]]
    /\ standing = [e \in Events |-> {Standing(queue[e][i].user, 0) :
                                       i \in DOMAIN queue[e]}]

-----------------------------------------------------------------------------
(* WaitingListService *)

(* Join up to the store call: past the gate, with an id and the time.       *)
(* Whether the event was withdrawn is not asked.                            *)
BeginJoin(e, u) ==
    /\ MayTakeSeat(u)
    /\ \E id \in FreshIDs :
         joining' = joining \cup {[event |-> e, entry |-> Entry(id, u, now)]}
    /\ UNCHANGED <<vars, queue, freed, worker, stopping, closing, standing>>

(* The store commits the join. *)
FinishJoin(j) ==
    LET e == j.event
        u == j.entry.user
    IN  /\ joining' = joining \ {j}
        /\ queue' = [queue EXCEPT ![e] = JoinQueue(@, j.entry)]
        /\ standing' =
             IF u \in Standers(e) THEN standing
             ELSE [standing EXCEPT ![e] = @ \cup {Standing(u, j.entry.joinedAt)}]
        /\ UNCHANGED <<vars, freed, worker, stopping, closing>>

JoinFails(j) ==
    /\ QueueMayFail
    /\ joining' = joining \ {j}
    /\ UNCHANGED <<vars, queue, freed, worker, stopping, closing, standing>>

Leave(e, u) ==
    /\ IsWaiting(queue[e], u) \/ u \in Standers(e)
    /\ queue' = [queue EXCEPT ![e] = LeaveQueue(@, u)]
    /\ standing' = [standing EXCEPT ![e] = {x \in @ : x.user # u}]
    /\ UNCHANGED <<vars, joining, freed, worker, stopping, closing>>

-----------------------------------------------------------------------------
(* Handoff.Offer: a full channel drops the seat. *)
Offer(s) ==
    /\ freed' = IF Len(freed) < Buffer THEN Append(freed, s) ELSE freed
    /\ UNCHANGED <<queue, joining, worker, stopping, closing, standing>>

(* Handoff.Run and hand *)

WorkerReceive(w) ==
    /\ worker[w].pc = "idle"
    /\ freed # <<>>
    /\ worker' = [worker EXCEPT ![w] =
                    [IdleWorker EXCEPT !.pc = "take", !.seat = Head(freed)]]
    /\ freed' = Tail(freed)
    /\ UNCHANGED <<vars, queue, joining, stopping, closing, standing>>

(* Rows of the queue of e that a join in progress may have locked. *)
Lockable(e) ==
    IF SkipLocked
    THEN {i \in DOMAIN queue[e] :
            \E j \in joining : j.event = e /\ j.entry.user = queue[e][i].user}
    ELSE {}

(* The rows TakeNext may remove: the first that is not locked. *)
Takeable(e) ==
    {i \in DOMAIN queue[e] : \A k \in 1..(i - 1) : k \in Lockable(e)}

WorkerTake(w) ==
    LET e == EventOf[worker[w].seat]
    IN  /\ worker[w].pc = "take"
        /\ \E i \in Takeable(e) :
             /\ worker' = [worker EXCEPT ![w].pc = "begin",
                                         ![w].entry = queue[e][i]]
             /\ queue' = [queue EXCEPT ![e] = RemoveAt(@, i)]
        /\ UNCHANGED <<vars, joining, freed, stopping, closing, standing>>

(* TakeNext finds nobody: the offer is over. *)
WorkerTakeNobody(w) ==
    /\ worker[w].pc = "take"
    /\ DOMAIN queue[EventOf[worker[w].seat]]
         \subseteq Lockable(EventOf[worker[w].seat])
    /\ worker' = [worker EXCEPT ![w] = IdleWorker]
    /\ UNCHANGED <<vars, queue, joining, freed, stopping, closing, standing>>

(* TakeNext fails, before or after the row was deleted. *)
WorkerTakeFails(w) ==
    LET e == EventOf[worker[w].seat]
    IN  /\ QueueMayFail
        /\ worker[w].pc = "take"
        /\ worker' = [worker EXCEPT ![w] = IdleWorker]
        /\ \/ UNCHANGED <<queue, standing>>
           \/ \E i \in Takeable(e) :
                /\ queue' = [queue EXCEPT ![e] = RemoveAt(@, i)]
                /\ standing' = [standing EXCEPT ![e] =
                                  {x \in @ : x.user # queue[e][i].user}]
        /\ UNCHANGED <<vars, joining, freed, stopping, closing>>

(* Mutant: the turn is announced and the seat is not held. *)
MutWorkerBegin(w) ==
    /\ worker[w].pc = "begin"
    /\ worker' = [worker EXCEPT ![w] = IdleWorker]
    /\ UNCHANGED <<vars, queue, joining, freed, stopping, closing, standing>>

(* HoldSeat is called for the waiter who was taken. *)
WorkerBegin(w) ==
    /\ worker[w].pc = "begin"
    /\ BeginHold(w, worker[w].entry.user, worker[w].seat)
    /\ worker' = [worker EXCEPT ![w].pc = "hold"]
    /\ UNCHANGED <<queue, joining, freed, stopping, closing, standing>>

(* HoldSeat has answered worker w. *)
Answered(w) == worker[w].pc = "hold" /\ thread[w].pc = "idle"

(* User u of event e is owed nothing more for the turn that is over; if     *)
(* they joined again meanwhile, it is that place they now stand in.         *)
TurnOver(e, u) ==
    standing' = [standing EXCEPT ![e] =
        {x \in @ : x.user # u} \cup
        {Standing(u, queue[e][i].joinedAt) :
            i \in {k \in DOMAIN queue[e] : queue[e][k].user = u}}]

(* The waiter has the seat, or may not have one and is dropped.             *)
WorkerDone(w) ==
    /\ Answered(w)
    /\ thread[w].res \in {"ok", "email_not_verified"}
    /\ worker' = [worker EXCEPT ![w] = IdleWorker]
    /\ TurnOver(EventOf[worker[w].seat], worker[w].entry.user)
    /\ UNCHANGED <<vars, queue, joining, freed, stopping, closing>>

(* Mutant: Rejoin runs under the context that shutdown cancels. *)
MutWorkerRejoinUnderShutdown(w) ==
    LET e == EventOf[worker[w].seat]
    IN  /\ Answered(w)
        /\ thread[w].res \notin {"ok", "email_not_verified"}
        /\ worker' = [worker EXCEPT ![w] = IdleWorker]
        /\ queue' = IF stopping THEN queue
                    ELSE [queue EXCEPT ![e] = RejoinQueue(@, worker[w].entry)]
        /\ UNCHANGED <<vars, joining, freed, stopping, closing, standing>>

(* HoldSeat failed: the waiter goes back, shutdown or not. *)
WorkerRejoin(w) ==
    LET e == EventOf[worker[w].seat]
    IN  /\ Answered(w)
        /\ thread[w].res \notin {"ok", "email_not_verified"}
        /\ worker' = [worker EXCEPT ![w] = IdleWorker]
        /\ queue' = [queue EXCEPT ![e] = RejoinQueue(@, worker[w].entry)]
        /\ UNCHANGED <<vars, joining, freed, stopping, closing, standing>>

(* Rejoin fails: the waiter is lost, which is logged. *)
WorkerRejoinFails(w) ==
    /\ QueueMayFail
    /\ Answered(w)
    /\ thread[w].res \notin {"ok", "email_not_verified"}
    /\ worker' = [worker EXCEPT ![w] = IdleWorker]
    /\ TurnOver(EventOf[worker[w].seat], worker[w].entry.user)
    /\ UNCHANGED <<vars, queue, joining, freed, stopping, closing>>

(* The process is told to shut down; each worker stops once it is idle,     *)
(* though select may still hand it a seat first.                            *)
Shutdown ==
    /\ MayStop
    /\ ~stopping
    /\ stopping' = TRUE
    /\ UNCHANGED <<vars, queue, joining, freed, worker, closing, standing>>

WorkerStop(w) ==
    /\ stopping
    /\ worker[w].pc = "idle"
    /\ worker' = [worker EXCEPT ![w].pc = "stopped"]
    /\ UNCHANGED <<vars, queue, joining, freed, stopping, closing, standing>>

-----------------------------------------------------------------------------
(* InventoryService.CancelEvent and announceCancellation *)

Withdraw(e) ==
    /\ CancelEvent(e)
    /\ closing' = [closing EXCEPT ![e].pc = "list"]
    /\ UNCHANGED <<queue, joining, freed, worker, stopping, standing>>

(* Mutant: seats nobody has a claim on are not skipped. *)
MutClaimants(e) ==
    {IF seats[s].heldBy # NoUser THEN seats[s].heldBy ELSE seats[s].reservedBy :
        s \in {x \in Seats : EventOf[x] = e}}

(* Whoever holds or owns a seat of e. *)
Claimants(e) ==
    {IF seats[s].heldBy # NoUser THEN seats[s].heldBy ELSE seats[s].reservedBy :
        s \in {x \in Seats : EventOf[x] = e}} \ {NoUser}

WithdrawList(e) ==
    /\ closing[e].pc = "list"
    /\ closing' = [closing EXCEPT ![e] = [pc |-> "drain", stake |-> Claimants(e)]]
    /\ UNCHANGED <<vars, queue, joining, freed, worker, stopping, standing>>

WithdrawDrain(e) ==
    LET stake == closing[e].stake \cup Waiters(queue[e])
    IN  /\ closing[e].pc = "drain"
        /\ closing' = [closing EXCEPT ![e] =
                         [pc |-> IF stake = {} THEN "done" ELSE "notify",
                          stake |-> stake]]
        /\ queue' = [queue EXCEPT ![e] = <<>>]
        /\ standing' = [standing EXCEPT ![e] =
                          {x \in @ : ~IsWaiting(queue[e], x.user)}]
        /\ UNCHANGED <<vars, joining, freed, worker, stopping>>

(* Notify writes every notice or none. *)
WithdrawNotify(e) ==
    /\ closing[e].pc = "notify"
    /\ closing' = [closing EXCEPT ![e].pc = "enqueue"]
    /\ UNCHANGED <<vars, queue, joining, freed, worker, stopping, standing>>

(* queueDeliveries, whose failure is only logged. *)
WithdrawEnqueue(e) ==
    /\ closing[e].pc = "enqueue"
    /\ \E end \in IF QueueMayFail THEN {"done", "told"} ELSE {"done"} :
         closing' = [closing EXCEPT ![e].pc = end]
    /\ UNCHANGED <<vars, queue, joining, freed, worker, stopping, standing>>

(* A step fails and the announcement is given up; the event stays           *)
(* withdrawn.  A drain may have deleted the rows all the same.              *)
WithdrawFails(e) ==
    /\ QueueMayFail
    /\ closing[e].pc \in {"list", "drain", "notify"}
    /\ closing' = [closing EXCEPT ![e].pc = "failed"]
    /\ \/ UNCHANGED <<queue, standing>>
       \/ /\ closing[e].pc = "drain"
          /\ queue' = [queue EXCEPT ![e] = <<>>]
          /\ standing' = [standing EXCEPT ![e] =
                            {x \in @ : ~IsWaiting(queue[e], x.user)}]
    /\ UNCHANGED <<vars, joining, freed, worker, stopping>>

-----------------------------------------------------------------------------
(* A crash loses the channel, the workers and every request under way; the  *)
(* queue and the notices are rows and stay.                                 *)
HandoffCrash ==
    /\ Crash
    /\ joining' = {}
    /\ freed' = <<>>
    /\ worker' = [w \in Workers |-> IdleWorker]
    /\ stopping' = FALSE
    /\ closing' = [e \in Events |->
                     IF closing[e].pc \in {"list", "drain", "notify"}
                     THEN [closing[e] EXCEPT !.pc = "failed"]
                     ELSE IF closing[e].pc = "enqueue"
                     THEN [closing[e] EXCEPT !.pc = "told"]
                     ELSE closing[e]]
    /\ standing' = [e \in Events |->
                      {x \in standing[e] : IsWaiting(queue[e], x.user)}]
    /\ UNCHANGED queue

(* A request of Reservation that neither begins nor offers a seat. *)
PlainRequestStep(t) ==
    /\ thread[t].pc # "offer"
    /\ RequestStep(t)
    /\ UNCHANGED handoffVars

ClientStep(t) ==
    \/ /\ \/ \E u \in Users, s \in Seats : BeginHold(t, u, s)
          \/ \E u \in Users, h \in 1..(nextID - 1) :
               BeginConfirm(t, u, h) \/ BeginRelease(t, u, h)
       /\ UNCHANGED handoffVars
    \/ PlainRequestStep(t)
    \/ ReleaseOffer(t) /\ Offer(thread[t].seat)

WorkerStep(w) ==
    \/ WorkerReceive(w) \/ WorkerTake(w)
    \/ WorkerTakeNobody(w) \/ WorkerTakeFails(w)
    \/ WorkerBegin(w) \/ PlainRequestStep(w)
    \/ WorkerDone(w) \/ WorkerRejoin(w) \/ WorkerRejoinFails(w)
    \/ WorkerStop(w)

SweepStep ==
    \/ (BeginSweep \/ ExpireHolds \/ SweepFails) /\ UNCHANGED handoffVars
    \/ \E s \in Seats : SweepOffer(s) /\ Offer(s)

QueueStep ==
    \/ \E e \in Events, u \in Users : BeginJoin(e, u) \/ Leave(e, u)
    \/ \E j \in joining : FinishJoin(j) \/ JoinFails(j)

WithdrawStep(e) ==
    \/ Withdraw(e) \/ WithdrawList(e) \/ WithdrawDrain(e)
    \/ WithdrawNotify(e) \/ WithdrawEnqueue(e) \/ WithdrawFails(e)

OtherStep ==
    \/ /\ \/ \E e \in Events : \E S \in SUBSET {s \in Seats : EventOf[s] = e} :
               AddSeats(S)
          \/ \E u \in Users : VerifyEmail(u)
          \/ Tick
       /\ UNCHANGED handoffVars
    \/ Shutdown
    \/ HandoffCrash

HandoffNext ==
    \/ \E t \in Clients : ClientStep(t)
    \/ \E w \in Workers : WorkerStep(w)
    \/ SweepStep
    \/ QueueStep
    \/ \E e \in Events : WithdrawStep(e)
    \/ OtherStep

HandoffSpec == HandoffInit /\ [][HandoffNext]_allVars

-----------------------------------------------------------------------------
(* Properties *)

(* Every variable of this module has its type. *)
HandoffTypeOK ==
    /\ queue \in [Events -> Seq(EntryState)]
    /\ joining \subseteq [event: Events, entry: EntryState]
    /\ freed \in Seq(Seats)
    /\ worker \in [Workers -> WorkerState]
    /\ stopping \in BOOLEAN
    /\ closing \in [Events -> ClosingState]
    /\ standing \in [Events -> SUBSET [user: Users, since: Nat]]

(* Every queue stands in the order people joined it and nobody is in it     *)
(* twice, however joins, returns after a failed offer, failures and crashes *)
(* interleave.                                                              *)
QueueInOrder == \A e \in Events : InOrder(queue[e])

(* Nobody who is owed a turn is forgotten: they are in the queue or with a  *)
(* worker, through failed holds, store errors on the seat, withdrawals and  *)
(* a shutdown in the middle of an offer.  Only three things cost somebody   *)
(* their turn: a take whose row was deleted and never arrived, a Rejoin     *)
(* that failed, and a crash while a worker has them.                        *)
NobodyLost ==
    \A e \in Events : \A u \in Standers(e) :
        IsWaiting(queue[e], u) \/ u \in InFlight(e)

(* No further hold can be begun within the bounds of the model. *)
AtTheBound == ~CanDrawID \/ now + HoldTTL > MaxTime

Offered(s) == \E i \in DOMAIN freed : freed[i] = s

(* Worker w is to hold seat s for u, who may have it.                       *)
TurnOf(w, s, u) ==
    /\ worker[w].pc = "begin" /\ worker[w].seat = s /\ worker[w].entry.user = u
    /\ MayTakeSeat(u)

(* No offer is sat on, and no turn is wasted.  A worker comes to every seat *)
(* that is offered.  Once it has taken somebody off the queue for it,       *)
(* whatever races it: the seat is somebody's, or was when the worker came   *)
(* to it, unless the event was withdrawn; and who was taken has the seat or *)
(* is back in the queue.                                                    *)
OfferIsUsed ==
    \A s \in Seats :
        /\ Offered(s) ~> \/ \E w \in Workers : worker[w].pc = "take" /\ worker[w].seat = s
                         \/ AtTheBound
        /\ \A w \in Workers, u \in Users :
             /\ TurnOf(w, s, u) ~> \/ seats[s].status # "available"
                                   \/ EventOf[s] \in cancelled
                                   \/ AtTheBound
             /\ TurnOf(w, s, u) ~> \/ seats[s].heldBy = u
                                   \/ IsWaiting(queue[EventOf[s]], u)
                                   \/ AtTheBound

-----------------------------------------------------------------------------
(* The inductive invariant the proofs rest on *)

(* A worker that is dealing with an offer knows the seat, and once it took  *)
(* somebody off the queue, whom.                                            *)
WorkersKnowTheirTask ==
    \A w \in Workers :
        /\ worker[w].pc \in {"take", "begin", "hold"} => worker[w].seat \in Seats
        /\ worker[w].pc \in {"begin", "hold"} => worker[w].entry \in EntryState

Queued(e) == Range(queue[e])

(* No two entries of an event have the same id, wherever they are: in the   *)
(* queue, on their way into it, or with a worker that may put them back.    *)
(* Without it an entry could come back level with another and the order     *)
(* would have nothing to break the tie.                                     *)
ApartIn(e) ==
    /\ \A x, y \in Queued(e) : x.id = y.id => x = y
    /\ \A j \in joining : j.event = e =>
         /\ \A x \in Queued(e) : x.id # j.entry.id
         /\ \A k \in joining : k.event = e /\ k.entry.id = j.entry.id => k = j
         /\ \A w \in Workers : Serves(w, e) => worker[w].entry.id # j.entry.id
    /\ \A w \in Workers : Serves(w, e) =>
         /\ \A x \in Queued(e) : x.id # worker[w].entry.id
         /\ \A v \in Workers :
              Serves(v, e) /\ worker[v].entry.id = worker[w].entry.id => v = w

EntriesApart == \A e \in Events : ApartIn(e)

HandoffInv ==
    /\ Inv
    /\ HandoffTypeOK
    /\ WorkersKnowTheirTask
    /\ EntriesApart
    /\ QueueInOrder
    /\ NobodyLost
=============================================================================
