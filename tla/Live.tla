--------------------------------- MODULE Live ---------------------------------
(***************************************************************************)
(* Live updates end to end: a request changes a seat and publishes a notice, *)
(* the broker fans it out to the open streams, a stream writes it to a page, *)
(* and the page asks for the seats again.  With it, how the server process   *)
(* stops: which requests it waits for, which workers, and when the broker    *)
(* lets go of its watchers.                                                  *)
(*                                                                         *)
(* The broker's lock is a reader-writer lock.  Publish holds it for reading  *)
(* over several steps; Subscribe, Unsubscribe and Close hold it for writing  *)
(* and are one step each, taken when nobody publishes.                       *)
(***************************************************************************)
EXTENDS Naturals, Sequences, FiniteSets, FiniteSetsExt

CONSTANTS
    Publishers,     \* requests and workers that announce
    Streams,        \* stream requests a server can have under way
    NoStream,
    Everyone,       \* a notice without an addressee
    Viewer,         \* the user of the page
    Addressees,     \* whom notices are for: everyone, the viewer, other users
    Workers,        \* the background workers run waits for
    SubscriberBuffer,
    MaxChanges,     \* bound on the changes to seats
    MaxLoads,       \* bound on the requests for seats a page has under way
    MaxFaults       \* bound on lost connections and stops of the server

ASSUME LiveAssumption ==
    /\ NoStream \notin Streams /\ Everyone # Viewer /\ Everyone \in Addressees
    /\ SubscriberBuffer \in Nat \ {0} /\ MaxChanges \in Nat
    /\ MaxLoads \in Nat \ {0} /\ MaxFaults \in Nat

VARIABLES
    seats,          \* the state of the seats, as the number of changes to it
    publisher,
    subscribers,    \* the broker's watchers
    dropped,        \* the broker's count of notices thrown away
    stream,         \* the stream handlers and their channels
    page,           \* the browser's page on the seat map
    server,         \* where the process is in its life
    working,        \* the workers still running
    faults,
    thrown,         \* observed: notices thrown away
    cut             \* observed: something was under way when the process ended

brokerVars == <<subscribers, dropped, thrown>>
serverVars == <<server, working, faults, cut>>
liveVars == <<seats, publisher, stream, page, brokerVars, serverVars>>

IdlePublisher == [pc |-> "idle", to |-> Everyone, left |-> {}, seen |-> 0]

FreeStream == [pc |-> "free", chan |-> <<>>, closes |-> 0]

LiveInit ==
    /\ seats = 0
    /\ publisher = [p \in Publishers |-> IdlePublisher]
    /\ subscribers = {} /\ dropped = 0 /\ thrown = 0
    /\ stream = [s \in Streams |-> FreeStream]
    /\ page = [pc |-> "connecting", stream |-> NoStream, stale |-> FALSE,
               aborted |-> FALSE, refused |-> FALSE, view |-> 0, asks |-> 0,
               answers |-> {}]
    /\ server = [life |-> "running", clean |-> TRUE]
    /\ working = Workers /\ faults = 0 /\ cut = FALSE

-----------------------------------------------------------------------------
(* Publishing.                                                              *)

\* A seat changes in the store; the notice comes after it.
Change(p, to) ==
    /\ server.life = "running" /\ publisher[p].pc = "idle"
    /\ seats < MaxChanges
    /\ seats' = seats + 1
    /\ publisher' = [publisher EXCEPT ![p] =
                       [IdlePublisher EXCEPT !.pc = "announcing", !.to = to]]
    /\ UNCHANGED <<stream, page, brokerVars, serverVars>>

\* The read lock is taken and the watchers gone through.
Publish(p) ==
    /\ publisher[p].pc = "announcing"
    /\ publisher' = [publisher EXCEPT ![p].pc = "publishing", ![p].left = subscribers]
    /\ UNCHANGED <<seats, stream, page, brokerVars, serverVars>>

\* Every notice of the event goes to every watcher of it.
MutWants(to) == to \in Addressees

\* The page's stream watches this event; a notice is for all or for its user.
Wants(to) == to \in {Everyone, Viewer}

\* One watcher: passed over, given the notice, or found not keeping up.
PublishTo(p, s) ==
    /\ publisher[p].pc = "publishing" /\ s \in publisher[p].left
    /\ \/ /\ ~Wants(publisher[p].to)
          /\ publisher' = [publisher EXCEPT ![p].left = @ \ {s}]
          /\ UNCHANGED stream
       \/ /\ Wants(publisher[p].to) /\ Len(stream[s].chan) < SubscriberBuffer
          /\ stream' = [stream EXCEPT ![s].chan = Append(@, publisher[p].to)]
          /\ publisher' = [publisher EXCEPT ![p].left = @ \ {s}]
       \/ /\ Wants(publisher[p].to) /\ Len(stream[s].chan) = SubscriberBuffer
          /\ publisher' = [publisher EXCEPT ![p].left = @ \ {s},
                             ![p].pc = "counting", ![p].seen = dropped]
          /\ UNCHANGED stream
    /\ UNCHANGED <<seats, page, brokerVars, serverVars>>

\* Logging the drop without counting it.
MutCount(p) ==
    /\ publisher[p].pc = "counting"
    /\ thrown' = thrown + 1
    /\ publisher' = [publisher EXCEPT ![p].pc = "publishing", ![p].seen = 0]
    /\ UNCHANGED <<seats, subscribers, dropped, stream, page, serverVars>>

\* b.dropped++ under the read lock: what was read may be old when it is written.
Count(p) ==
    /\ publisher[p].pc = "counting"
    /\ dropped' = publisher[p].seen + 1
    /\ thrown' = thrown + 1
    /\ publisher' = [publisher EXCEPT ![p].pc = "publishing", ![p].seen = 0]
    /\ UNCHANGED <<seats, subscribers, stream, page, serverVars>>

PublishEnds(p) ==
    /\ publisher[p].pc = "publishing" /\ publisher[p].left = {}
    /\ publisher' = [publisher EXCEPT ![p] = IdlePublisher]
    /\ UNCHANGED <<seats, stream, page, brokerVars, serverVars>>

\* The write lock is to be had.
NobodyPublishes == \A p \in Publishers : publisher[p].pc \notin {"publishing", "counting"}

-----------------------------------------------------------------------------
(* The page: a stream that comes back after a drop, and a request for the     *)
(* seats on every notice, every reconnect and every fifteen seconds.          *)

\* reloadSeats, as a change to the page.
Reloading(pg) == [pg EXCEPT !.asks = Min({MaxLoads, @ + 1})]

\* The read loop ended: onLost, and another try in three seconds.
Lost(pg) == [pg EXCEPT !.pc = "waiting", !.stream = NoStream, !.stale = TRUE]

\* The page's token runs out or is signed out elsewhere: every later request is
\* answered 401, and nothing on the page gets it another.  A stream that is open
\* was let in before and stays.
TokenEnds ==
    /\ ~page.refused
    /\ page' = [page EXCEPT !.refused = TRUE]
    /\ UNCHANGED <<seats, publisher, stream, brokerVars, serverVars>>

\* The headers are flushed before the stream subscribes, and that is when the
\* page takes itself for live and reads the seats.
OpenStream(s) ==
    /\ page.pc = "connecting" /\ ~page.aborted /\ ~page.refused
    /\ server.life = "running" /\ stream[s].pc = "free"
    /\ stream' = [stream EXCEPT ![s] = [FreeStream EXCEPT !.pc = "accepted"]]
    /\ page' = [Reloading(page) EXCEPT !.pc = "open", !.stream = s, !.stale = FALSE]
    /\ UNCHANGED <<seats, publisher, brokerVars, serverVars>>

\* Nobody answers, the server refuses (the token, the rate, a store that fails),
\* or the request's signal was aborted.
OpenFails ==
    /\ page.pc = "connecting"
    /\ page' = Lost(page)
    /\ UNCHANGED <<seats, publisher, stream, brokerVars, serverVars>>

\* Giving up after a stream has ended.
MutReconnect ==
    /\ page.pc = "waiting" /\ ~page.stale
    /\ page' = [page EXCEPT !.pc = "connecting"]
    /\ UNCHANGED <<seats, publisher, stream, brokerVars, serverVars>>

Reconnect ==
    /\ page.pc = "waiting"
    /\ page' = [page EXCEPT !.pc = "connecting"]
    /\ UNCHANGED <<seats, publisher, stream, brokerVars, serverVars>>

\* "Retry now": the stream's one AbortController is aborted, and every later
\* request is made with its signal.
Retry ==
    /\ page.stale /\ ~page.aborted
    /\ page' = [page EXCEPT !.aborted = TRUE]
    /\ UNCHANGED <<seats, publisher, stream, brokerVars, serverVars>>

\* Polling only while the stream is away.
MutPoll ==
    /\ page.asks < MaxLoads /\ page.stale
    /\ page' = Reloading(page)
    /\ UNCHANGED <<seats, publisher, stream, brokerVars, serverVars>>

Poll ==
    /\ page.asks < MaxLoads
    /\ page' = Reloading(page)
    /\ UNCHANGED <<seats, publisher, stream, brokerVars, serverVars>>

\* The server reads the seats for a request.
ReadSeats ==
    /\ page.asks > 0 /\ server.life = "running" /\ ~page.refused
    /\ page' = [page EXCEPT !.asks = @ - 1, !.answers = @ \cup {seats}]
    /\ UNCHANGED <<seats, publisher, stream, brokerVars, serverVars>>

\* There is no answer, or it is a refusal: the page keeps the seats it has.
ReadFails ==
    /\ page.asks > 0
    /\ page' = [page EXCEPT !.asks = @ - 1]
    /\ UNCHANGED <<seats, publisher, stream, brokerVars, serverVars>>

\* Answers arrive in any order, and the last to arrive is shown.
ShowSeats(v) ==
    /\ v \in page.answers
    /\ page' = [page EXCEPT !.view = v, !.answers = @ \ {v}]
    /\ UNCHANGED <<seats, publisher, stream, brokerVars, serverVars>>

ConnectionDrops ==
    /\ page.pc = "open" /\ faults < MaxFaults
    /\ page' = Lost(page)
    /\ faults' = faults + 1
    /\ UNCHANGED <<seats, publisher, stream, brokerVars, server, working, cut>>

-----------------------------------------------------------------------------
(* A stream request in the server.                                          *)

Subscribe(s) ==
    /\ stream[s].pc = "accepted" /\ NobodyPublishes
    /\ subscribers' = subscribers \cup {s}
    /\ stream' = [stream EXCEPT ![s].pc = "watching"]
    /\ UNCHANGED <<seats, publisher, dropped, thrown, page, serverVars>>

\* A notice goes out.  Written to a page that has gone it may still seem sent.
SendNotice(s) ==
    /\ stream[s].pc = "watching" /\ stream[s].chan # <<>>
    /\ stream' = [stream EXCEPT ![s].chan = Tail(@)]
    /\ page' = IF page.stream = s THEN Reloading(page) ELSE page
    /\ UNCHANGED <<seats, publisher, brokerVars, serverVars>>

\* The request's context is done, a write failed, or the channel is closed and
\* empty: the handler returns, and the page is told no more.
StreamEnds(s) ==
    /\ stream[s].pc = "watching"
    /\ page.stream # s \/ (stream[s].closes > 0 /\ stream[s].chan = <<>>)
    /\ stream' = [stream EXCEPT ![s].pc = "leaving"]
    /\ page' = IF page.stream = s THEN Lost(page) ELSE page
    /\ UNCHANGED <<seats, publisher, brokerVars, serverVars>>

\* Closing without asking whether it is still a watcher.
MutUnsubscribe(s) ==
    /\ stream[s].pc = "leaving" /\ NobodyPublishes
    /\ subscribers' = subscribers \ {s}
    /\ stream' = [stream EXCEPT ![s].pc = "free", ![s].chan = <<>>, ![s].closes = @ + 1]
    /\ UNCHANGED <<seats, publisher, dropped, thrown, page, serverVars>>

Unsubscribe(s) ==
    /\ stream[s].pc = "leaving" /\ NobodyPublishes
    /\ subscribers' = subscribers \ {s}
    /\ stream' = [stream EXCEPT ![s].pc = "free", ![s].chan = <<>>,
                    ![s].closes = IF s \in subscribers THEN @ + 1 ELSE @]
    /\ UNCHANGED <<seats, publisher, dropped, thrown, page, serverVars>>

-----------------------------------------------------------------------------
(* The end of the process.                                                  *)

\* What Shutdown waits for: every request, the streams among them.
RequestsUnderWay ==
    \/ \E s \in Streams : stream[s].pc # "free"
    \/ \E p \in Publishers : publisher[p].pc # "idle"

Signal ==
    /\ server.life = "running" /\ faults < MaxFaults
    /\ server' = [life |-> "stopping", clean |-> TRUE]
    /\ faults' = faults + 1
    /\ UNCHANGED <<seats, publisher, stream, page, brokerVars, working, cut>>

WorkerStops(w) ==
    /\ server.life # "running" /\ w \in working
    /\ working' = working \ {w}
    /\ UNCHANGED <<seats, publisher, stream, page, brokerVars, server, faults, cut>>

\* Shutdown is done in time, or is not and run returns its error at once: the
\* wait for the workers is behind it.
ShutdownDone ==
    /\ server.life = "stopping" /\ ~RequestsUnderWay
    /\ server' = [server EXCEPT !.life = "awaiting"]
    /\ UNCHANGED <<seats, publisher, stream, page, brokerVars, working, faults, cut>>

ShutdownTimesOut ==
    /\ server.life = "stopping" /\ RequestsUnderWay
    /\ server' = [life |-> "closing", clean |-> FALSE]
    /\ UNCHANGED <<seats, publisher, stream, page, brokerVars, working, faults, cut>>

\* Not waiting for the workers.
MutAwaitWorkers ==
    /\ server.life = "awaiting"
    /\ server' = [server EXCEPT !.life = "closing"]
    /\ UNCHANGED <<seats, publisher, stream, page, brokerVars, working, faults, cut>>

AwaitWorkers ==
    /\ server.life = "awaiting" /\ working = {}
    /\ server' = [server EXCEPT !.life = "closing"]
    /\ UNCHANGED <<seats, publisher, stream, page, brokerVars, working, faults, cut>>

\* The deferred Close: every watcher's channel is closed, at last.
Close ==
    /\ server.life = "closing" /\ NobodyPublishes
    /\ subscribers' = {}
    /\ stream' = [s \in Streams |->
                    IF s \in subscribers THEN [stream[s] EXCEPT !.closes = @ + 1]
                    ELSE stream[s]]
    /\ server' = [server EXCEPT !.life = "closed"]
    /\ UNCHANGED <<seats, publisher, dropped, thrown, page, working, faults, cut>>

\* The process ends, and whatever was still running in it.
Exit ==
    /\ server.life = "closed"
    /\ server' = [server EXCEPT !.life = "exited"]
    /\ cut' = (working # {} \/ RequestsUnderWay)
    /\ working' = {}
    /\ publisher' = [p \in Publishers |-> IdlePublisher]
    /\ stream' = [s \in Streams |-> FreeStream]
    /\ subscribers' = {} /\ dropped' = 0 /\ thrown' = 0
    /\ page' = IF page.pc = "open" THEN Lost(page) ELSE page
    /\ UNCHANGED <<seats, faults>>

Restart ==
    /\ server.life = "exited"
    /\ server' = [life |-> "running", clean |-> TRUE]
    /\ working' = Workers
    /\ cut' = FALSE
    /\ UNCHANGED <<seats, publisher, stream, page, brokerVars, faults>>

-----------------------------------------------------------------------------
PublisherStep(p) ==
    \/ Publish(p) \/ Count(p) \/ PublishEnds(p)
    \/ \E s \in Streams : PublishTo(p, s)

StreamStep(s) == Subscribe(s) \/ SendNotice(s) \/ StreamEnds(s) \/ Unsubscribe(s)

ServerStep ==
    \/ ShutdownDone \/ ShutdownTimesOut \/ AwaitWorkers
    \/ Close \/ Exit \/ Restart
    \/ \E w \in Workers : WorkerStops(w)

\* Some goroutine of the server runs.
ServerRuns ==
    \/ \E p \in Publishers : PublisherStep(p)
    \/ \E s \in Streams : StreamStep(s)
    \/ ServerStep

AnswerArrives == \E v \in page.answers : ShowSeats(v)

GetsStream == \E s \in Streams : OpenStream(s)

\* The page keeps trying to have a stream.
PageConnects == Reconnect \/ OpenFails \/ GetsStream

LiveNext ==
    \/ \E p \in Publishers, to \in Addressees : Change(p, to)
    \/ \E p \in Publishers : PublisherStep(p)
    \/ \E s \in Streams : StreamStep(s)
    \/ PageConnects \/ Retry \/ Poll \/ ReadSeats \/ ReadFails \/ TokenEnds
    \/ AnswerArrives
    \/ ConnectionDrops \/ Signal
    \/ ServerStep

LiveSpec == LiveInit /\ [][LiveNext]_liveVars

\* Goroutines are scheduled and timers fire, answers arrive, and a server that
\* would have the page does not refuse it every single time.  Nothing is asked of
\* a page that is refused for good.
LiveFairSpec ==
    /\ LiveSpec
    /\ WF_liveVars(ServerRuns) /\ WF_liveVars(PageConnects)
    /\ WF_liveVars(Poll) /\ WF_liveVars(AnswerArrives)
    /\ SF_liveVars(GetsStream) /\ SF_liveVars(ReadSeats)

-----------------------------------------------------------------------------
(* Properties.                                                              *)

PublisherState == [pc : {"idle", "announcing", "publishing", "counting"},
                   to : Addressees, left : SUBSET Streams, seen : Nat]

StreamState == [pc : {"free", "accepted", "watching", "leaving"},
                chan : Seq({Everyone, Viewer}), closes : Nat]

PageState == [pc : {"connecting", "open", "waiting"}, stream : Streams \cup {NoStream},
              stale : BOOLEAN, aborted : BOOLEAN, refused : BOOLEAN, view : 0..MaxChanges,
              asks : 0..MaxLoads, answers : SUBSET (0..MaxChanges)]

\* Every variable keeps its shape: no channel holds more than its buffer or a
\* notice that is somebody else's, and no watcher is left from another process.
LiveTypeOK ==
    /\ seats \in 0..MaxChanges
    /\ publisher \in [Publishers -> PublisherState]
    /\ subscribers \subseteq {s \in Streams : stream[s].pc \in {"watching", "leaving"}}
    /\ dropped \in Nat /\ thrown \in Nat
    /\ stream \in [Streams -> StreamState]
    /\ \A s \in Streams : Len(stream[s].chan) <= SubscriberBuffer
    /\ page \in PageState
    /\ server \in [life : {"running", "stopping", "awaiting", "closing", "closed", "exited"},
                   clean : BOOLEAN]
    /\ working \subseteq Workers /\ faults \in 0..MaxFaults /\ cut \in BOOLEAN

\* The broker never panics: no channel is closed twice, by a watcher that leaves
\* and by the broker's own Close, and nobody is about to send on a closed one.
BrokerNeverPanics ==
    /\ \A s \in Streams : stream[s].closes <= 1
    /\ \A p \in Publishers : \A s \in publisher[p].left :
         s \in subscribers /\ stream[s].closes = 0

\* The count of dropped notices can fall behind, as publishers race on it, but it
\* never counts what was delivered, and it never misses every drop.
DropsAreCounted ==
    /\ dropped <= thrown
    /\ thrown > 0 => dropped > 0

\* A process that ends without an error finished everything it had begun: its
\* requests were answered and its workers had stopped.
CleanEndIsClean == server.life = "exited" /\ server.clean => ~cut

\* Once the seats stop changing, the page comes to show them as they are and
\* goes on doing so, whatever notices were dropped, missed before the stream
\* subscribed or lost with it, however often a read of the seats fails, and in
\* whatever order answers arrive; unless its token ends, after which it may
\* never show another change.
PageCatchesUp == <>[](page.view = seats \/ page.refused)

\* A page that lost its stream gets another, through drops, refusals and restarts
\* of the server, unless somebody pressed "Retry now" or its token has ended.
StreamComesBack == <>[](page.pc = "open" \/ page.aborted \/ page.refused)

-----------------------------------------------------------------------------
(* The inductive invariant the proofs rest on.                              *)

\* Who goes through the watchers holds the lock, so they are watchers still; and
\* the count it read is of drops that happened.
PublishersAreFormed ==
    \A p \in Publishers :
      /\ publisher[p].pc \notin {"publishing", "counting"} => publisher[p].left = {}
      /\ publisher[p].left \subseteq subscribers
      /\ publisher[p].seen <= thrown

\* The channel of a watcher, or of a stream that is yet to subscribe, is open.
StreamsAreFormed ==
    \A s \in Streams :
      /\ s \in subscribers \/ stream[s].pc = "accepted" => stream[s].closes = 0
      /\ stream[s].closes <= 1

\* Shutdown waits before the workers are waited for, and they before the end.
StopsInOrder ==
    server.clean =>
      /\ server.life \in {"awaiting", "closing", "closed"} => ~RequestsUnderWay
      /\ server.life \in {"closing", "closed"} => working = {}

LiveInv ==
    /\ LiveTypeOK
    /\ PublishersAreFormed
    /\ StreamsAreFormed
    /\ DropsAreCounted
    /\ StopsInOrder
    /\ CleanEndIsClean
=============================================================================
