-------------------------------- MODULE Outbox --------------------------------
(***************************************************************************)
(* The stored notices, the outbox that owes them to people outside the     *)
(* application, and the workers of several server processes that drain it. *)
(* A worker claims due rows under a lease, keeps copies of them, sends and  *)
(* then overwrites each row with its copy.                                  *)
(*                                                                         *)
(* Instants are kept relative to the present: "due" is how long it is until *)
(* the row may be tried (negative: how long ago), so time has no bound.     *)
(***************************************************************************)
EXTENDS Integers, FiniteSets, FiniteSetsExt

CONSTANTS
    Users,
    NoUser,
    Notices,
    Recipient,      \* whose notice each is
    Deployments,    \* sets of channels a deployment may have senders for
    Endpoints,      \* the browsers that can be pushed to
    Workers,        \* one per server process
    MaxDeliveryAttempts,
    DeliveryLease,
    BaseRetryDelay,
    Batch,          \* rows a worker claims at a time
    MaxLag,         \* the longest a claim waits between clock and statement
    MaxCrashes,     \* how many worker crashes a behaviour may have
    StoreMayFail

ASSUME OutboxAssumption ==
    /\ NoUser \notin Users
    /\ Recipient \in [Notices -> Users]
    /\ Deployments \subseteq SUBSET {"email", "push"}
    /\ MaxDeliveryAttempts \in Nat \ {0}
    /\ DeliveryLease \in Nat \ {0} /\ BaseRetryDelay \in Nat \ {0}
    /\ Batch \in Nat \ {0} /\ MaxLag \in Nat /\ MaxCrashes \in Nat
    /\ StoreMayFail \in BOOLEAN

VARIABLES
    channels,       \* the channels of this deployment
    inbox,          \* the notices table: absent, or stored unread or read
    announcing,     \* notices stored by a request that has yet to queue them
    outbox,         \* the deliveries table
    worker,         \* the locals of Drain and deliver in each process
    subscriptions,  \* whose each endpoint is
    leaving,        \* unsubscriptions between their check and their delete
    verified,       \* users whose address is confirmed
    crashes,
    tries,          \* observed: attempts made, counted up to the maximum
    reached,        \* observed: deliveries a sender accepted
    excused         \* observed: deliveries found to have nowhere to go

peopleVars == <<channels, inbox, announcing, subscriptions, leaving, verified>>
observed == <<tries, reached, excused>>
outboxVars == <<channels, inbox, announcing, outbox, worker, subscriptions,
                leaving, verified, crashes, tries, reached, excused>>

Deliveries == Notices \X UNION Deployments

\* RetryBackoff doubles the wait with every attempt that failed.
RetryBackoff[attempts \in Nat] ==
    IF attempts <= 1 THEN BaseRetryDelay ELSE 2 * RetryBackoff[attempts - 1]

MaxDelay == Max({DeliveryLease} \cup
                {RetryBackoff[n] : n \in 1 .. MaxDeliveryAttempts - 1})

\* A row; sent_at and gave_up_at are both null, or one of them is set.  The due
\* time is kept where it is read: in rows that are owed and in outcomes that
\* schedule the next attempt; everywhere else it is 0.
Delivery == [attempts : 0 .. MaxDeliveryAttempts,
             due : -MaxLag .. MaxDelay,
             state : {"absent", "owed", "sent", "gaveUp"}]

NoDelivery == [attempts |-> 0, due |-> 0, state |-> "absent"]

NewDelivery == [attempts |-> 0, due |-> 0, state |-> "owed"]

IsDone(d) == d.state \in {"sent", "gaveUp"}

\* Giving up one attempt too late.
MutFailedLate(d) ==
    IF d.attempts + 1 > MaxDeliveryAttempts
    THEN [d EXCEPT !.attempts = @ + 1, !.state = "gaveUp"]
    ELSE [d EXCEPT !.attempts = @ + 1, !.due = RetryBackoff[d.attempts + 1]]

\* An attempt that is not counted: the retries never end.
MutFailedUncounted(d) == [d EXCEPT !.due = RetryBackoff[d.attempts + 1]]

Failed(d) ==
    IF d.attempts + 1 >= MaxDeliveryAttempts
    THEN [d EXCEPT !.attempts = @ + 1, !.state = "gaveUp"]
    ELSE [d EXCEPT !.attempts = @ + 1, !.due = RetryBackoff[d.attempts + 1]]

GiveUp(d) == [d EXCEPT !.attempts = @ + 1, !.state = "gaveUp"]

Sent(d) == [d EXCEPT !.state = "sent"]

\* What a worker has in hand: the copies of the rows it claimed and has not
\* finished with, the one it is on, the endpoints SendPush has yet to try, and
\* whether any of them took the message.
WorkerState ==
    [pc : {"between", "pushing", "saving"},
     copies : [Deliveries -> Delivery],
     at : Deliveries \cup {<<>>},
     targets : SUBSET Endpoints,
     pushed : BOOLEAN]

IdleWorker ==
    [pc |-> "between", copies |-> [d \in Deliveries |-> NoDelivery],
     at |-> <<>>, targets |-> {}, pushed |-> FALSE]

OutboxInit ==
    /\ channels \in Deployments
    /\ inbox = [n \in Notices |-> "absent"]
    /\ announcing = {}
    /\ outbox = [d \in Deliveries |-> NoDelivery]
    /\ worker = [w \in Workers |-> IdleWorker]
    /\ subscriptions = [e \in Endpoints |-> NoUser]
    /\ leaving = {}
    /\ verified = {}
    /\ crashes = 0
    /\ tries = [d \in Deliveries |-> 0]
    /\ reached = {}
    /\ excused = {}

-----------------------------------------------------------------------------
(* A withdrawal stores its notices and then queues them for every channel.  *)

Notify(n) ==
    /\ inbox[n] = "absent"
    /\ inbox' = [inbox EXCEPT ![n] = "unread"]
    /\ announcing' = announcing \cup {n}
    /\ UNCHANGED <<channels, outbox, worker, subscriptions, leaving, verified, crashes, observed>>

\* One batch: the rows of every channel, or none when the store fails and the
\* failure is only logged.  A row already queued is left as it is.
QueueDeliveries(n) ==
    /\ n \in announcing
    /\ announcing' = announcing \ {n}
    /\ outbox' = [d \in Deliveries |->
                     IF d[1] = n /\ d[2] \in channels /\ outbox[d].state = "absent"
                     THEN NewDelivery ELSE outbox[d]]
    /\ UNCHANGED <<channels, inbox, worker, subscriptions, leaving, verified, crashes, observed>>

QueueingFails(n) ==
    /\ StoreMayFail
    /\ n \in announcing
    /\ announcing' = announcing \ {n}
    /\ UNCHANGED <<channels, inbox, outbox, worker, subscriptions, leaving, verified, crashes, observed>>

\* Opening the list marks everything the caller has not seen.
MarkAllRead(u) ==
    /\ \E n \in Notices : Recipient[n] = u /\ inbox[n] = "unread"
    /\ inbox' = [n \in Notices |->
                    IF Recipient[n] = u /\ inbox[n] = "unread" THEN "read" ELSE inbox[n]]
    /\ UNCHANGED <<channels, announcing, outbox, worker, subscriptions, leaving, verified, crashes, observed>>

\* Links are only mailed where there is a mailer.
VerifyAddress(u) ==
    /\ "email" \in channels
    /\ u \notin verified
    /\ verified' = verified \cup {u}
    /\ UNCHANGED <<channels, inbox, announcing, outbox, worker, subscriptions, leaving, crashes, observed>>

(* Browsers come and go where there is a pusher.  Subscribing takes an     *)
(* endpoint over from whoever had it; unsubscribing lists the caller's own  *)
(* endpoints and then deletes by endpoint alone.                            *)

Subscribe(u, e) ==
    /\ "push" \in channels
    /\ subscriptions[e] # u
    /\ subscriptions' = [subscriptions EXCEPT ![e] = u]
    /\ UNCHANGED <<channels, inbox, announcing, outbox, worker, leaving, verified, crashes, observed>>

Unsubscribe(u, e) ==
    /\ subscriptions[e] = u
    /\ leaving' = leaving \cup {e}
    /\ UNCHANGED <<channels, inbox, announcing, outbox, worker, subscriptions, verified, crashes, observed>>

ForgetEndpoint(e) ==
    /\ e \in leaving
    /\ leaving' = leaving \ {e}
    /\ \/ subscriptions' = [subscriptions EXCEPT ![e] = NoUser]
       \/ StoreMayFail /\ UNCHANGED subscriptions
    /\ UNCHANGED <<channels, inbox, announcing, outbox, worker, verified, crashes, observed>>

-----------------------------------------------------------------------------
(* One pass of a worker.                                                    *)

InHand(w) == {d \in Deliveries : worker[w].copies[d].state # "absent"}

\* The row as claimed by a worker whose clock reading is "lag" old.
Leased(d, lag) == [d EXCEPT !.due = Max({DeliveryLease - lag, -MaxLag})]

\* What one claiming statement may take: due rows nobody is done with, no more
\* than a batch; rows that another statement has locked are skipped.
Claims(lag) ==
    {taken \in SUBSET {d \in Deliveries :
                          outbox[d].state = "owed" /\ outbox[d].due <= -lag} :
        taken # {} /\ Cardinality(taken) <= Batch}

TakeDue(w) ==
    /\ worker[w].pc = "between" /\ InHand(w) = {}
    /\ \E lag \in 0 .. MaxLag : \E taken \in Claims(lag) :
           /\ outbox' = [d \in Deliveries |->
                            IF d \in taken THEN Leased(outbox[d], lag) ELSE outbox[d]]
           /\ worker' = [worker EXCEPT ![w].copies =
                            [d \in Deliveries |->
                                IF d \in taken THEN [outbox[d] EXCEPT !.due = 0]
                                ELSE NoDelivery]]
    /\ UNCHANGED <<peopleVars, crashes, observed>>

\* The statement took effect and its rows were lost on the way back.
TakeDueUnacknowledged(w) ==
    /\ StoreMayFail
    /\ worker[w].pc = "between" /\ InHand(w) = {}
    /\ \E lag \in 0 .. MaxLag : \E taken \in Claims(lag) :
           outbox' = [d \in Deliveries |->
                        IF d \in taken THEN Leased(outbox[d], lag) ELSE outbox[d]]
    /\ UNCHANGED <<peopleVars, worker, crashes, observed>>

\* deliver ends with the outcome written into the copy, and the row to save.
Outcome(w, d, copy) ==
    /\ worker' = [worker EXCEPT ![w].pc = "saving", ![w].at = d,
                               ![w].copies[d] = copy, ![w].pushed = FALSE]
    /\ tries' = [tries EXCEPT ![d] = IF @ < MaxDeliveryAttempts THEN @ + 1 ELSE @]

\* Email: the address is looked up now, and only a confirmed one is written to.
\* The server may also take the message and fail to say so.
AttemptEmail(w, d) ==
    /\ worker[w].pc = "between" /\ d \in InHand(w) /\ d[2] = "email"
    /\ LET copy == worker[w].copies[d]
           user == Recipient[d[1]]
       IN \/ /\ user \notin verified
             /\ Outcome(w, d, GiveUp(copy))
             /\ excused' = excused \cup {d} /\ UNCHANGED reached
          \/ /\ user \in verified
             /\ Outcome(w, d, Sent(copy))
             /\ reached' = reached \cup {d} /\ UNCHANGED excused
          \/ /\ user \in verified
             /\ Outcome(w, d, Failed(copy))
             /\ reached' \in {reached, reached \cup {d}} /\ UNCHANGED excused
    /\ UNCHANGED <<peopleVars, outbox, crashes>>

\* The notice or the user could not be read: the attempt failed.
AttemptFails(w, d) ==
    /\ StoreMayFail
    /\ worker[w].pc = "between" /\ d \in InHand(w)
    /\ Outcome(w, d, Failed(worker[w].copies[d]))
    /\ UNCHANGED <<peopleVars, outbox, crashes, reached, excused>>

\* Push: the endpoints are listed once; a person with none has been told.
ListTargets(w, d) ==
    /\ worker[w].pc = "between" /\ d \in InHand(w) /\ d[2] = "push"
    /\ LET targets == {e \in Endpoints : subscriptions[e] = Recipient[d[1]]}
       IN \/ /\ targets = {}
             /\ Outcome(w, d, Sent(worker[w].copies[d]))
             /\ excused' = excused \cup {d}
          \/ /\ targets # {}
             /\ worker' = [worker EXCEPT ![w].pc = "pushing", ![w].at = d,
                                        ![w].targets = targets]
             /\ UNCHANGED <<tries, excused>>
    /\ UNCHANGED <<peopleVars, outbox, crashes, reached>>

\* One endpoint: the push service takes the message, or does and the answer is
\* lost, or refuses, or says the endpoint is gone, and then it is forgotten.
Push(w, e) ==
    /\ worker[w].pc = "pushing" /\ e \in worker[w].targets
    /\ \/ /\ worker' = [worker EXCEPT ![w].targets = @ \ {e}, ![w].pushed = TRUE]
          /\ reached' = reached \cup {worker[w].at}
          /\ UNCHANGED subscriptions
       \/ /\ worker' = [worker EXCEPT ![w].targets = @ \ {e}]
          /\ reached' \in {reached, reached \cup {worker[w].at}}
          /\ UNCHANGED subscriptions
       \/ /\ worker' = [worker EXCEPT ![w].targets = @ \ {e}]
          /\ subscriptions' = [subscriptions EXCEPT ![e] = NoUser]
          /\ UNCHANGED reached
    /\ UNCHANGED <<channels, inbox, announcing, leaving, verified, outbox, crashes, tries, excused>>

\* Counting a push that reached nobody as done.
MutSendPush(w) ==
    /\ worker[w].pc = "pushing" /\ worker[w].targets = {}
    /\ Outcome(w, worker[w].at, Sent(worker[w].copies[worker[w].at]))
    /\ UNCHANGED <<peopleVars, outbox, crashes, reached, excused>>

\* SendPush returns: a failure only if nothing got through.
SendPush(w) ==
    /\ worker[w].pc = "pushing" /\ worker[w].targets = {}
    /\ LET copy == worker[w].copies[worker[w].at]
       IN Outcome(w, worker[w].at, IF worker[w].pushed THEN Sent(copy) ELSE Failed(copy))
    /\ UNCHANGED <<peopleVars, outbox, crashes, reached, excused>>

\* The worker is through with the row it was on and turns to the next.
Finished(w) ==
    worker' = [worker EXCEPT ![w].pc = "between", ![w].at = <<>>,
                             ![w].copies[worker[w].at] = NoDelivery]

\* The whole row is overwritten with the copy, whatever happened to it meanwhile.
Save(w) ==
    /\ worker[w].pc = "saving"
    /\ outbox' = [outbox EXCEPT ![worker[w].at] = worker[w].copies[worker[w].at]]
    /\ Finished(w)
    /\ UNCHANGED <<peopleVars, crashes, observed>>

\* Recording the outcome failed, which is only logged.
SaveFails(w) ==
    /\ StoreMayFail
    /\ worker[w].pc = "saving"
    /\ Finished(w)
    /\ UNCHANGED <<peopleVars, outbox, crashes, observed>>

\* The process dies with whatever it had in hand; another takes its place.
WorkerCrash(w) ==
    /\ crashes < MaxCrashes
    /\ worker[w] # IdleWorker
    /\ worker' = [worker EXCEPT ![w] = IdleWorker]
    /\ crashes' = crashes + 1
    /\ UNCHANGED <<peopleVars, outbox, observed>>

Later(d) ==
    IF d.state = "owed" THEN [d EXCEPT !.due = Max({@ - 1, -MaxLag})] ELSE d

Tick ==
    /\ outbox' = [d \in Deliveries |-> Later(outbox[d])]
    /\ worker' = [w \in Workers |->
                     IF worker[w].pc = "saving"
                     THEN [worker[w] EXCEPT !.copies[worker[w].at] = Later(@)]
                     ELSE worker[w]]
    /\ UNCHANGED <<peopleVars, crashes, observed>>

-----------------------------------------------------------------------------

Attempt(w) ==
    \/ \E d \in Deliveries : AttemptEmail(w, d) \/ ListTargets(w, d)
    \/ \E e \in Endpoints : Push(w, e)
    \/ SendPush(w)

OutboxNext ==
    \/ \E n \in Notices : Notify(n) \/ QueueDeliveries(n) \/ QueueingFails(n)
    \/ \E u \in Users : MarkAllRead(u) \/ VerifyAddress(u)
    \/ \E u \in Users, e \in Endpoints : Subscribe(u, e) \/ Unsubscribe(u, e)
    \/ \E e \in Endpoints : ForgetEndpoint(e)
    \/ \E w \in Workers :
           \/ TakeDue(w) \/ TakeDueUnacknowledged(w)
           \/ Attempt(w) \/ \E d \in Deliveries : AttemptFails(w, d)
           \/ Save(w) \/ SaveFails(w) \/ WorkerCrash(w)
    \/ Tick

OutboxSpec == OutboxInit /\ [][OutboxNext]_outboxVars

\* Run comes back on every tick of its timer and works its batch off; the store
\* does not fail every claim and every save for ever.
OutboxFairness ==
    /\ WF_outboxVars(Tick)
    /\ \A w \in Workers :
           /\ SF_outboxVars(TakeDue(w))
           /\ WF_outboxVars(Attempt(w))
           /\ SF_outboxVars(Save(w))

OutboxFairSpec == OutboxSpec /\ OutboxFairness

-----------------------------------------------------------------------------

\* Every variable has its type.
OutboxTypeOK ==
    /\ channels \in Deployments
    /\ inbox \in [Notices -> {"absent", "unread", "read"}]
    /\ announcing \subseteq Notices
    /\ outbox \in [Deliveries -> Delivery]
    /\ worker \in [Workers -> WorkerState]
    /\ subscriptions \in [Endpoints -> Users \cup {NoUser}]
    /\ leaving \subseteq Endpoints
    /\ verified \subseteq Users
    /\ crashes \in 0 .. MaxCrashes
    /\ tries \in [Deliveries -> 0 .. MaxDeliveryAttempts]
    /\ reached \subseteq Deliveries
    /\ excused \subseteq Deliveries

P == INSTANCE DeliveryPromise
         WITH MaxAttempts <- MaxDeliveryAttempts,
              state <- [d \in Deliveries |-> outbox[d].state]

\* Workers that lose races, leases, answers and their lives keep the promise of
\* the outbox: nothing is marked sent that did not go out (or had nowhere to
\* go), and nothing is given up before its attempts were really made.
KeepsPromise == P!Promise

\* Every delivery that was queued is eventually done with for good, although
\* saves fail, workers die and a late save can reopen it.
Drains ==
    \A d \in Deliveries :
        (outbox[d].state # "absent") ~> [](IsDone(outbox[d]))

-----------------------------------------------------------------------------
(* The inductive invariant the proof of KeepsPromise rests on.              *)

\* A row whose due time may be anything.
IsRow(d) == d \in [attempts : 0 .. MaxDeliveryAttempts, due : {d.due},
                   state : {"absent", "owed", "sent", "gaveUp"}]

\* What a row or a copy of it says was really tried, and while it is owed there
\* is an attempt left.
RowFits(d, row) ==
    /\ IsRow(row)
    /\ row.attempts <= tries[d]
    /\ row.state = "owed" => row.attempts < MaxDeliveryAttempts

\* A copy is of a row that is there, has an outcome only while it is being saved,
\* and the outcome is what happened.
CopyFits(w, d, row) ==
    /\ RowFits(d, row)
    /\ row.state # "absent" => outbox[d].state # "absent"
    /\ row.state \in {"sent", "gaveUp"} => worker[w].pc = "saving" /\ worker[w].at = d
    /\ row.state = "sent" => d \in reached \cup excused
    /\ row.state = "gaveUp" => tries[d] = MaxDeliveryAttempts \/ d \in excused

RowsAreFormed ==
    /\ DOMAIN outbox = Deliveries
    /\ tries \in [Deliveries -> 0 .. MaxDeliveryAttempts]
    /\ \A d \in Deliveries : RowFits(d, outbox[d])

\* A worker is on a row it has in hand, and what it counts as pushed went out.
WorkerFits(v) ==
    /\ v \in [pc : {"between", "pushing", "saving"}, copies : {v.copies},
               at : Deliveries \cup {<<>>}, targets : SUBSET Endpoints, pushed : BOOLEAN]
    /\ DOMAIN v.copies = Deliveries
    /\ v.pc # "between" => v.at \in Deliveries /\ v.copies[v.at].state # "absent"
    /\ v.pushed => v.pc = "pushing" /\ v.at \in reached

WorkersAreFormed ==
    /\ DOMAIN worker = Workers
    /\ \A w \in Workers : WorkerFits(worker[w])
    /\ \A w \in Workers, d \in Deliveries : CopyFits(w, d, worker[w].copies[d])

OutboxInv == RowsAreFormed /\ WorkersAreFormed
=============================================================================
