# ticket-reservation: TLA+ models and proofs

The repository is a Go service that sells seats. People hold a seat for a while,
confirm it into a ticket or release it; a sweeper takes holds back that ran out;
a waiting list hands freed seats to whoever waited longest; administrators add,
withdraw and delete events. Around that core are accounts and sessions, idempotency
keys, an outbox of notices and live updates of the seat map. This directory models the parts in which requests,
goroutines and stores race each other, checks them with TLC on small instances and
proves the important safety properties with TLAPS for instances of any size.

## The system

| Part | State | Operations | Hard behaviour | What makes it right |
|---|---|---|---|---|
| Seat rules (`domain/seat.go`, `expiry.go`) | one seat's columns | Hold, Confirm, Release, ExpireHold | the very instant a hold runs out; any sequence of calls | columns stay consistent |
| Reservation service (`service/reservation_service.go`, `eligibility.go`) | locals of a request | HoldSeat, ConfirmReservation, ReleaseSeat | clock, id and event are read before the store call that uses them | a confirmation is true; a live hold is its holder's; a sale is earned |
| Seat stores (`repository/*seat_repository.go`) | the seats | UpdateSeat, UpdateSeatByHoldID, ExpireHolds, CreateSeats | failures, commits whose answer is lost, retries on a version | one update is one step |
| Hold sweeper (`service/hold_sweeper.go`) | none beyond a pass | Sweep | an instant read before the statement runs; failed passes | every hold ends, no live one is taken |
| Waiting list (`service/waiting_list_service.go`, `repository/*waiting_list*`) | a queue per event | Join, Leave, TakeNext, Rejoin, Drain | joins that overtake each other; row locks that are skipped | join order; nobody twice |
| Handoff (`service/handoff.go`) | a bounded channel, workers | Offer, Run, hand | take, hold, put back: three store calls that can fail, a shutdown in the middle | nobody is lost; no offer is sat on, no turn wasted |
| Inventory (`service/inventory_service.go`, `repository/*event_repository.go`) | events | create, update, cancel, delete, add seats | check and act in two calls; a list of steps after the mark | claims are not lost with the event; everybody is told |
| Outbox (`service/delivery_worker.go`, `repository/*delivery*`, `*notification*`) | notices, deliveries | store, queue, claim, attempt, save, give up | a lease that runs out while the notice is being sent; saves that fail; crashes | nothing recorded that did not happen; everything comes to an end |
| Web push (`notify/push.go`, `service/push_service.go`) | endpoints | subscribe, unsubscribe, push to each, forget dead ones | one of several endpoints fails; endpoints that change hands | told only if something got through |
| Idempotency keys (`handler/idempotency.go`, `repository/*idempotency*`) | a record per key | claim, replay, complete, release | a stale claim taken over, a caller who hangs up, a panic | work is done once and the first answer replayed |
| Accounts and verification (`service/account_service.go`, `verification_*.go`) | accounts, links | register, sign in, upgrade a hash, set a role; issue, mail, give back, follow a link | marked as sent before it is sent; copies read before they are written; two registrations at once | a link works once, for its address; nothing is undone |
| Sessions (`auth/token.go`, `handler/auth.go`, `admin.go`, `token_sweeper.go`) | revoked tokens, roles | issue, verify, sign out, sweep, check a role | a sweep that forgets a revocation between two checks; a role taken away meanwhile | a signed out token stays out; administrators only |
| Rate limiter (`handler/ratelimit.go`) | a bucket per policy and caller | Allow, Cleanup | a clock read before the lock; eviction of a bucket that has not refilled | a caller gets no more than the rate and what these two are worth |
| Broker, stream, page (`event/broker.go`, `handler/stream.go`, `web/static/api.js`, `app.js`) | watchers and their buffers; what the page shows | Subscribe, Publish, Unsubscribe, Close; reconnect, poll, reload | slow readers; closing against publishing; refusals; late answers | no send on a closed channel; the page catches up |
| Server lifecycle (`cmd/server/main.go`) | workers, the HTTP server | signal, Shutdown, wait, close | a shutdown that times out skips the wait | a clean end leaves nothing half done |
| Mail text, DTOs, configuration, metrics, migrations, load test | | | | not modelled: wording, I/O and tooling |

How they meet: requests call the reservation service, which calls the gate, the
event store and the seat store in that order. The sweeper and ReleaseSeat offer
freed seats to the handoff through a channel. Its workers take a waiter off the
queue and call HoldSeat for them, and put them back if that fails. CancelEvent marks
the event, lists its seats, drains its queue, writes notices and queues deliveries,
which the delivery workers of every server drain. A request passes Recovery,
Authenticate, RateLimit and Idempotency before its handler, and a change it makes is
published to the broker, whose streams make pages ask for the seats again.
Nothing spans two store calls: every seam between two of them is a place where
another request can step in, and that is where the models split their actions.

## Modules

| Module | Models | Builds on |
|---|---|---|
| `SeatRules` | the methods of `Seat`, as operators on a record | |
| `Reservation` | requests, the sweeper, the administrator and the process over a seat store whose updates are atomic | `SeatRules` |
| `WaitingList` | the queue of one event, as operators on a sequence | |
| `Handoff` | joins, the channel, the workers, withdrawals; composes with the requests | `Reservation`, `WaitingList` |
| `OptimisticStore` | the store that reads, decides and writes if the version stands | `Reservation`, which it implements |
| `EventDeletion` | creating, deleting and filling events while requests run | `Reservation` |
| `DeliveryPromise` | what the outbox promises, without workers, leases or clocks | |
| `Outbox` | notices, deliveries, push endpoints and the workers that drain the outbox | implements `DeliveryPromise` |
| `Sessions` | tokens, revocations and their sweep, the rate limiter, the role check | |
| `Idempotency` | the middleware and its records | |
| `Accounts` | registration, hash upgrades, roles, verification links and their senders | |
| `Live` | broker, streams, the page and the end of the server process | |
| `MCReservation`, `MCHandoff`, `MCOptimistic`, `MCDeletion`, `MCOutbox`, `MCSessions`, `MCIdempotency`, `MCAccounts`, `MCLive` | small instances for TLC | |
| `ReservationProofs`, `HandoffProofs`, `OptimisticProofs`, `DeletionProofs`, `OutboxProofs`, `ServerProofs`, `SessionsProofs`, `AccountsProofs` | theorems and proofs; `ServerProofs` is about `Idempotency` and `Live` | |

### How state and actions correspond to the code

* **A request is a thread** with a program counter. `thread[t]` is its locals: the
  user, the seat or hold it names, the hold id or ticket code it has drawn and the
  instant it read. `HoldSeat` is `BeginHold` (clock and id), `HoldGate`
  (`MayTakeSeat`), `HoldLookup` (`GetEvent`), `HoldUpdate` (`UpdateSeat`) and
  `HoldAnnounce`. Confirming and releasing look a seat up by its hold
  (`UpdateByHold`, `HoldNotFound`). A release goes on to offer the seat. Any request
  may name any id that was ever drawn, as often as it likes.
* **A store call is one step.** That is what the mutex of the in-memory store and
  the row lock of the Postgres store give; `OptimisticStore` shows that the third
  store gives it too. A call may fail with nothing written (`StoreFails`) or with the
  write committed and the answer lost (`...Unacknowledged`, half of `SweepFails`).
* **Identifiers** are random strings in the code; here each draw returns a number
  never drawn before. 0 is the empty string. Instants are numbers.
* **The workers** of the handoff are threads too: a worker that has taken a waiter
  runs the very steps of `HoldSeat`, so everything said of requests holds of them.
* **Row locks of the queue.** A join of somebody who already waits locks their row
  until it commits, and `TakeNext` skips locked rows: `Lockable` and `Takeable`.
* **Withdrawal** is a program counter per event, because `announceCancellation` is
  a list of store calls that runs once.
* **`standing`** in `Handoff` is an observation and no state of the program: who was
  told they are in the queue and since when. Several properties compare it with the
  queue.
* **Deletion** is two steps. In Postgres the statement looks at the seats in its
  snapshot, and the cascade of its foreign key deletes the rows as they are when it
  comes to them. In memory the seats are listed under a lock that is let go before
  the event is removed.
* **A crash** loses threads, channel and workers and keeps what is stored.
* **Times that only matter relative to now** are kept so in `Outbox`, `Sessions`,
  `Idempotency` and `Accounts`: what is left of a token, a link, a lease or a claim
  counts down with `Tick`, so these models have no bound on time. Code that reads the
  clock and then calls the store sees a reading that may be `MaxLag` old.
* **The outbox worker** keeps copies of the rows it claimed (`worker[w].copies`),
  tries them one by one and overwrites each row with its copy (`Save`), which is how a
  worker that overran its lease undoes what another recorded. `tries`, `reached` and
  `excused` observe what really happened; `DeliveryPromise` is stated over them.
* **A request in `Sessions`** goes through `Verify`, `IsTokenRevoked`, `ReadClock`, `Allow`
  and its handler, a step each. `RateLimiter.Allow` reads the clock before it takes its lock, so
  the reading of a request (`lag`, its age) may be used after a younger one. The library then
  takes no time to have passed, but sets its clock back (`Overtaken`, `LevelAt`), and so does
  the limiter with `lastSeen`; the eviction reads the clock before the lock too. A bucket's level
  counts in parts of a request, and an evicted bucket (`Cleanup`, `Evict`) is a full one.
  `credit` observes what the caller is entitled to: it refills with time, is spent by every
  request let through, and is given `MaxLag` for a reading that was overtaken and `Forgiven` for
  an eviction. `RateHolds` says it is never overdrawn; without either allowance it is.
* **A caller who hangs up** in `Idempotency` (`HangUp`) cancels the request's context, and
  every later store call of that request fails, `finish` included. A panic unwinds past
  the middleware to Recovery (`Panic`). `claim` observes the latest claim on a key and
  `overran` the keys on which a request outlived its claim and ended another's.
* **A link** in `Accounts` is marked sent when it is claimed (`ClaimUnsent`), goes out or
  is given back (`SendEmail`, `SendEmailFails`, `Release`), and is spent by deleting its
  row (`Consume`) before the address is marked (`MarkEmailVerified`).
* **The broker's lock** in `Live`: `Publish` holds it for reading across the steps that
  go through the watchers, so publishers interleave and `Count` may write what it read
  too early (`b.dropped++` is a data race); the writers wait for `NobodyPublishes`. A
  page's old stream may linger in the server beside its new one. `Change` stands for any
  service call that publishes.
* **What a page may be refused** in `Live`: a try for a stream or a read of the seats can fail
  at any time (`OpenFails`, `ReadFails`: no server, a refusal by the rate limiter, a store that
  fails). `TokenEnds` makes it fail for good: the token expired or was signed out elsewhere, and
  every later request with it is answered 401, though a stream that is open stays open.

Not in `Reservation`: an administrator who deletes an event. `TicketIsForever` and
the other promises there are about a system in which none does;
`EventDeletion` shows what deletion adds, and "Known divergences" says how it can take a
claimed seat with it.

## Runs

| Run | Properties | Shows |
|---|---|---|
| `reservation` | `TypeOK`, `ConfirmedMeansOwned`, `TicketIsForever`, `LiveHoldIsProtected`, `SaleIsEarned`, `SpentHoldsStaySpent` | two requests, the sweeper, failures, lost answers and crashes over one seat; a hold that was confirmed, released or taken back is on no seat ever again |
| `handoff` | `HandoffTypeOK`, `QueueInOrder`, `NobodyLost` | two people, a worker, failing stores, skipped rows, withdrawals, a shutdown in the middle of an offer, crashes: the queue stays in order, and only a queue store that fails or a crash costs somebody a turn |
| `offer_used` | `OfferIsUsed` | with two people, locked rows, a racing client, joins, leaves and a withdrawal: a worker comes to every offered seat, and a turn ends with the seat somebody's and with who was taken holding it or back in the queue |
| `optimistic` | `OptimisticTypeOK`, `ByHoldLosesOnce`, `ImplementsReservation` | versions and retries look like locks; confirming is retried once at most |
| `deletion` | `SeatsHaveEvents`, `SeatsWellFormed`, `OnlyDeletionTakesAway`, `HoldsEnd` | with foreign keys no seat outlives its event; a ticket or a live hold goes only with the event it is for; the schema of the seats table holds and no two seats share a hold or ticket; every hold ends, under fairness |
| `outbox` | `OutboxTypeOK`, `KeepsPromise`, `Drains` | with overrun leases, lost claims, failed saves and a crash, nothing is recorded as sent or given up that was not, and every delivery comes to an end |
| `sessions` | `SessionsTypeOK`, `SignedOutStaysOut`, `RateHolds`, `AdminsOnly` | sweeping and evicting at the worst moment let nobody in who should not be, only administrators get to what is theirs, and readings overtaken at the limiter's lock and buckets evicted give nobody more than they are stated to be worth |
| `idempotency` | `IdempotencyTypeOK`, `DoneOnce`, `ReplaysTheFirstAnswer`, `AnswerStands` | work under a key is done once and its answer replayed, unless a request outlived its claim; a stored answer stands until its key runs out or such a request replaces it |
| `accounts` | `AccountsTypeOK`, `LinkSpentOnce`, `VerifiedByLink`, `MailedOnce`, `SentOrInHand`, `NothingUndone` | links and accounts survive every interleaving of requests, senders, failures and crashes |
| `live` | `LiveTypeOK`, `BrokerNeverPanics`, `DropsAreCounted`, `CleanEndIsClean`, `PageCatchesUp`, `StreamComesBack` | channels are closed once; a count of drops is never too high nor 0 after a drop; a clean exit finished everything; until its token ends, a page catches up and gets its stream back, whatever is dropped, refused or late |

Two runs show where the code does something a comment or the README denies:

| Run | Property | What happens |
|---|---|---|
| `claim_after_cancel` | `NoClaimAfterCancel` | a claim that looked the event up earlier lands after the withdrawal |
| `answer_kept` | `AnswerIsKept` | a caller hangs up while its request runs: the work is done, the answer is not stored because the request's context is cancelled, and the repeat is refused with 409 until the key expires |

### Known divergences

These are in the models too, though no run is kept for them.

* **Queue after a withdrawal.** `Join` does not ask whether the event is withdrawn and
  `Rejoin` asks nothing, so `FinishJoin` and `WorkerRejoin` can put people into the queue
  after `WithdrawDrain`, where nothing serves them. The repository's README says "The
  queue goes with the event".
* **A place lost.** Joining again while a worker has the first entry inserts a newer one,
  and `RejoinQueue` then drops the first. The comment on `Join` says that "a second tap on
  the button cannot cost someone the time they have already waited".
* **Deleting what is in use.** A hold committed between `DeleteCheck` and `DeleteFinish`
  goes with the event, and with `ForeignKeys = FALSE` (the in-memory store) it outlives
  it. The comment on the statement says that "the check and the delete cannot be split
  apart".
* **Untold and passed over.** A hold written after `WithdrawList` gets no notice. Somebody
  who leaves while a worker has their entry is put back by `WorkerRejoin`. A second join
  of the person at the front locks their row, and `TakeNext` serves the next (`Takeable`).
* **A finished delivery reopened.** A worker that overran its lease saves its failure over
  the other's success (`Save`), and the notice is sent once more. `DeliveryPromise` allows
  it (`Reopen`) and `Drains` shows that it ends.
* **Expired links stay.** `SweepVerifications` is called by tests only. The comment on
  `EmailVerification` says a row is "swept once it expires".
* **A panic keeps the key.** Recovery answers 500, but `finish` never ran, so the key stays
  claimed, where any other 500 gives it up.
* **An endpoint that changed hands.** Unsubscribing checks that the endpoint is the caller's
  and then deletes by endpoint alone (`Unsubscribe`, `ForgetEndpoint`), so an account that
  subscribed the browser in between loses it. The comment says "only the caller's own".
* **A token that ended on an open page.** Authenticate refuses a token that does not verify on
  public routes too. A page that keeps one is answered 401 on every poll and every try for a
  stream, every three seconds for good, and shows "Reconnecting…" over seats that no longer
  change; nothing makes it drop the token. `PageCatchesUp` and
  `StreamComesBack` except such a page (`TokenEnds`).
* **"Retry now"** aborts the stream's one `AbortController`, and every later attempt is made
  with the aborted signal: the page never has a stream again (`Retry`, and `OpenStream`, which
  needs `~page.aborted`), though it still polls. The page says that seats "may be out of date
  for a moment". `StreamComesBack` excepts such a page.
* **Drops that are not counted.** `b.dropped++` runs under the read lock, so two publishers can
  count from the same reading (`Count`), and one of the two drops is lost from the count. The
  comment on `Dropped` says it "reports how many notices were thrown away for slow subscribers";
  what holds is `DropsAreCounted`.
* **A freed seat that nobody gets.** A worker that finds only locked rows uses the offer up
  (`WorkerTakeNobody`): the only waiter joined again at that moment. A waiter whose address is
  not verified is dropped and the next one is not tried (`WorkerDone`). An offer is thrown away
  when the channel is full (`Offer`), when the store fails (`WorkerTakeFails`) or when the
  process ends. The seat then stays free until somebody takes it, and the queue waits, where the
  repository's README says that "whoever has waited longest is given a normal hold on it". So
  `OfferIsUsed` speaks of what a worker does with an offer and whom it took for it, and not of
  the queue as a whole.
* **More than the rate.** `Allow` can credit an interval twice (`Overtaken`), and nothing compares
  `RATE_LIMIT_TTL` with the time a bucket takes to refill (`Forgiven`); a restart forgets every
  bucket.
* **One open stream** outlasts `Shutdown`, since its channel is closed only afterwards: the
  process then ends with an error and without waiting for the workers
  (`ShutdownTimesOut`). `CleanEndIsClean` speaks of the ends that report no error and says
  nothing of this one.

Each passing property also has a mutant, a small change of the code's logic that
breaks it (the operators named `Mut...`).

### Bounds, and why they are enough

`MaxID` bounds the identifiers drawn, `MaxTime` the clock, `EntryIDs` the queue
entries in use at once, `Buffer` the channel, `Leftover` and `EarlyWaiters` what a
run of the program before this one may have left. Two requests, or a request and the
sweeper, are enough for every race over one row, since each step touches one row and
the others only wait. Three identifiers let a hold that was left over, a second claim
and a confirmation meet. `HoldTTL` of 1 or 2 with a clock that reaches its end puts
steps before, on and after the instant a hold runs out. A third attempt in
`optimistic` is what it takes to see that a second one is never lost. Two users are
needed where ownership or order matters, and are interchangeable, hence the
symmetry sets of the runs without liveness. `Buffer` is 1 so that the channel is
full. Deadlock is not checked where a bounded model stops when its identifiers
and its clock run out, and the program may be idle.

`outbox` has two workers, one notice, one browser, either channel, two attempts, and a
lease and a backoff of one tick, so that a lease runs out under a worker at every point;
`MaxLag` of 1 makes a claim use an old clock and `MaxCrashes` bounds crashes, without which
nothing need ever end. `sessions` has one account, one token and two requests, which is
enough for a sign-out and a sweep between the two checks of another request, and for a reading
that is overtaken at the limiter's lock. The allowance is one request every two ticks, readings
are up to one tick old, and a bucket is kept for one tick only, so that one whose last reading was
old is evicted before its caller is entitled to a full one. `idempotency` has three
attempts under one key for two different requests: one that outlives its claim, one that
takes the key over and one that finds out. `accounts` has one address that two people
register, two links, two requests and two senders with a batch of two; links live one
tick. `live` has two publishers, the old and the new stream of one page, a buffer of one
notice, two changes and one fault (`MaxChanges`, `MaxLoads`, `MaxFaults` are bounds of the
model); with two watchers that is enough for both publishers to find a buffer full at once.
`offer_used` starts from a seat that is held and a queue with somebody in it
(`OfferInit` in `MCHandoff`; everybody is verified) and leaves out what does not bear on an offer: the sweeper, adding
seats, and the clock, which stands still. A hold ends there by being released. Three
identifiers are the leftover hold, a claim of the client's that races the worker, and the
worker's own; `AtTheBound` excuses a worker that has none left to draw. `outbox` has a single
delivery at a time, one channel or the other, so a batch of two is in the proofs only. The requests, users, links and senders are interchangeable, hence the symmetry
sets; the runs with liveness have none.

### Fairness

`HoldsEnd` in `deletion` assumes that the clock moves, the sweeper's ticker fires and its
goroutine runs (weak fairness of `Tick`, `BeginSweep` and `SweepOffer`; the loop of
`HoldSweeper.Run` does nothing else), and that a database which fails now and then
does not fail every time (strong fairness of `ExpireHolds`). Requests get no
fairness: a caller may hang up. `offer_used` assumes weak fairness of each
worker (`OfferSpec`), whose loop in `Handoff.Run` only waits for the channel, in a run without
store failures; the property excuses an event withdrawn meanwhile and a model at its bound.
`outbox` assumes that time passes, that a worker works its batch off (weak fairness of an
attempt: every call it makes has a timeout) and that claims and saves, which may fail any
number of times, do not fail for ever (strong fairness, since failing disables them).
`live` assumes that some goroutine of the server runs while one can (`ServerRuns`), that the
page's timers fire (every three seconds to reconnect, every fifteen to poll) and that answers on
their way arrive: weak fairness. A try for a stream or a
read of the seats may fail any number of times, but one that could succeed again and again does
in the end (strong fairness of `GetsStream` and `ReadSeats`): the server refuses a page whose
token is good only for its rate, whose bucket refills while the page waits, or for a store that
fails now and then. Neither is enabled once the token has ended, or for streams once the
controller was aborted, so nothing is assumed of such a page. Drops of the connection and stops
of the server are bounded by `MaxFaults`, and callers get no fairness.

## Proofs

Eight modules hold the theorems. Each safety property is proved from one inductive invariant of its
component, which TLC checked on the component's run first; every action has a step of its own in the
proof that it keeps that invariant. Below, what each invariant adds to the properties and why they
are not inductive without it.

`ReservationProofs` (`Inv`). That a confirmation stays true rests on ticket codes being written once
(`CodesFresh`), that `UpdateSeatByHoldID` finds one seat on hold ids being fresh until they are
written (`HoldsFresh`), and that stale clocks take no live hold on every remembered instant being in
the past (`SweeperReadThePast`, and `at <= now` in the two others). `SeatChanges` then lists the
four ways a seat can change, and the action properties follow from it: `TicketsAreForever`,
`LiveHoldsAreProtected`, `SalesAreEarned`. `SpentHoldsAreGone` (a hold that ended is never on a seat
again, so a late or repeated confirmation reaches nobody else's) follows from where a step can take
a hold id from: a seat only gets one that a request had drawn and not written (`HoldIDChanges`), and
a request that begins draws one that was never drawn before (`FreshHolds`). `TypeCorrect`,
`StoreStaysWellFormed` and `ConfirmationsAreTrue` follow from `Inv`. `Inv` is `StoreInv` and
`ConfirmedMeansOwned`: the first is inductive by itself, so its lemmas (whose conclusion is `Kept`)
and those about what changes serve the deletion of events too, which does not keep the second.

`HandoffProofs` (`HandoffInv`). Every step of the composition is a step of `Reservation` or leaves
its variables alone: `HandoffImplementsReservation`, and the promises about seats carry over
(`HandoffKeepsPromises`: the four action properties, the schema and the truth of confirmations).
`QueuesStayInOrder` needs `EntriesApart`: no two entries of an event have the same id, in the queue,
on the way into it or with a worker that may put them back; otherwise an entry could come back level
with another and nothing would break the tie. It rests on lemmas on sequences: what removing and
inserting do to the elements of a queue and to its order. `NobodyIsLost` follows each place where
somebody leaves the queue or a worker, one lemma for an event the step does not serve and one for
the event it does.

`OptimisticProofs` (`OptimisticInv`). The store without locks implements `Reservation`
(`OptimisticImplementsReservation`), so it keeps the same promises (`OptimisticKeepsPromises`). The
heart is `CopyIsCurrent`: while the version of a row stands, the copy a request decided on is the
copy it would make now, because nothing changes a stored row without moving its version.
`LostHoldIsGone` says the hold of a confirmation that lost its row is on no seat and will never be
again; with it `RetriesByHoldAreBounded` follows.

`DeletionProofs`. `SeatsAlwaysHaveEvents`, under the assumption `ForeignKeys`, needs little but that
no step except an insertion makes a seat out of nothing. `StoreSurvivesDeletion` and
`DeletionTypeCorrect` hold with foreign keys and without (`CatalogueInv`): requests, the sweeper and
insertions by the lemmas of `ReservationProofs`, deletion because an absent row carries no
identifier. `DeletionSteps` sorts the steps into those of `Reservation`, the finish of a deletion, a
request that ends because its event is not found and those that leave the variables of `Reservation`
alone; from it `OnlyDeletionTakes` (a sold seat goes only with its event, a live hold otherwise only
by its holder) follows, which needs that an event being deleted is in the catalogue (`deleting
\subseteq listed` in `CatalogueInv`), and `SalesAreEarnedThroughout` and
`SpentHoldsAreGoneThroughout`: the properties of `reservation` that deletion does not break.
`TicketsSurviveWithoutCascade` assumes `~ForeignKeys`, the in-memory store: there no deletion takes
a row, so sold seats stay sold and confirmations true. With foreign keys both are false, which is
the divergence "Deleting what is in use".

`OutboxProofs` (`OutboxInv`). The outbox implements `DeliveryPromise`. The invariant says of every
copy in a worker's hands that it counts no more attempts than were made, has an outcome only while
it is being saved, and that this outcome happened: so whatever `Save` overwrites, what it writes is
true. `OutboxKeepsPromise` maps each action to a step of the promise or a stutter; `Save` is the one
that may map to `Reopen`. No fact about due times is used for it: the promise is kept however early
or late rows are tried. What the promise is worth is a theorem of its own: `PromiseMeansTruth` says
of every behaviour it allows that a row marked sent did go out or had nowhere to go, and one given
up had all its attempts or nowhere to go, and `OutboxRecordsAreTrue` carries that over to the outbox.

`OutboxTypeCorrect` does speak of due times: none is further off than `MaxDelay`, the longest of the
lease and of the waits `RetryBackoff` returns. `RetryBackoff` is the loop of `retryBackoff` as a
recursive function, so it takes inductions: that a function satisfying the recursion exists,
that it is the only one, that its values are numbers and that a finite set of them has a largest. The library's induction theorem takes an operator, which cannot be
instantiated, but that every non-empty set of numbers has a least member follows from the library's
well-foundedness of their order (`LeastExists`), and from it an induction that speaks of sets
(`SetInduction`). `OutboxInv` comes in where a row is put off: an attempt is left then, so the wait
is among those `MaxDelay` is the largest of.

`ServerProofs` is about two specifications that share nothing. For `Idempotency` (`IdempotencyInv`),
`ClaimsHaveTheirRow` ties the latest claim on a key to the row that stands for it and
`HoldersHaveTheirRow` the row to the request that runs under it, on every key on which no request
outlived its claim; `WorkIsDoneOnce` and `FirstAnswerIsReplayed` follow, and so does the action
property `StoredAnswersStand`: a statement that overwrites or gives up a completed row before it
expires comes from a request that outlived its claim, since a claim that judges by an old clock
takes a row over late and never early, and `HoldersHaveTheirRow` says that the row of a request
still within its claim is not completed. For `Live` (`LiveInv`), who a publisher has yet to send to
is still a watcher, because it holds the lock (`PublishersAreFormed`), and the channel of a watcher
is open (`StreamsAreFormed`): `TheBrokerNeverPanics`. `StopsInOrder` (requests, then workers, then
the end) gives `CleanEndsAreClean`. `DropsAreAlwaysCounted` holds although the increments race,
since a lost increment still writes more than 0 and no more than was dropped.

`SessionsProofs` (`SessionsInv`). A signed-out token is refused by its revocation or by its expiry
(`SignedOutIsRefused`), so no sweep opens a gap between the two checks of a request:
`SignedOutAlwaysStaysOut`. `CreditCovers` says that what is in a bucket, with what it has refilled since the
reading it was last used with, is never more than its caller is entitled to, and that one which
is not kept belongs to somebody entitled to all of it. A reading that was overtaken makes a bucket look up to
`MaxLag` older than it was, and an evicted bucket had been idle for longer than `RateLimitTTL`, so
it lacked `Forgiven` at most: `RateAlwaysHolds`, for any policy and any time a bucket is kept. `OnlyAdminsAdminister`
follows from what a request remembers of the role.

`AccountsProofs` (`AccountsInv`). A request's place in its code says what it has made sure of
(`RequestFits`: past `consuming` its link is spent, at `creating` its id is nobody's), two
registrations never bring the same id (`CreatedApart`), and a link in a sender's hands is marked
sent for as long as its row is there (`SendersAreFormed`). `LinksAreSpentOnce`,
`VerifiedOnlyByLink`, `LinksAreMailedOnce` and `SentIsNotLost` follow, and so does the action
property `AccountsAreNeverUndone`.

The assumptions are the named `ASSUME`s: the absent values are no members of the sets
they stand beside, a hold lasts at least one instant, the bounds are numbers, the
threads of `Handoff` are its clients and workers, a store that retries may fail, a
claim on a key lasts longer than a statement is delayed, and there is a key and an address to
speak of (an idle request's record names one). Nothing else is assumed of the sizes of the sets.

Model-checked only:

* `HoldsEnd`, `OfferIsUsed`, `Drains`, `PageCatchesUp` and `StreamComesBack`: liveness under
  fairness and ENABLED are beyond the prover.

Every invariant and every action property of a passing run, and both refinements
(`ImplementsReservation`, `KeepsPromise`), are proved. No module uses a RECURSIVE operator, which the
prover could not reason about; the one recursive function, `RetryBackoff`, is treated above.

## Plan

The components are modelled and their safety properties proved. What could be added:

1. `EventDeletion`: what a caller who was told of a confirmation keeps when a cascade may take
   rows: the ticket, or its event was deleted since (`ConfirmedMeansOwned` weakened by just that,
   which takes a history of deletions).
2. `Handoff`: as an action property, that nobody is served before somebody who has waited longer
   and whose row no join has locked.

## Not modelled

HTTP decoding and encoding, the wording of notices and mails, the cryptography of
passwords, tokens and pushes, metrics, configuration, migrations other than the
constraints they state, the load test, and the views of the browser application: no state
of their own that others depend on, or cryptography. A listener that fails to start.
Editing an event's text. Queue rows that are deleted with their event.
Two processes over one database share everything the models share, except the
channel, which each has for itself.
