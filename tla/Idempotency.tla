----------------------------- MODULE Idempotency -----------------------------
(***************************************************************************)
(* The Idempotency middleware over its store: a request that carries a key  *)
(* claims it, runs, and leaves its answer under the key (or gives the key   *)
(* up when it failed); a repeat of the request is answered from the record. *)
(* A request without a key, without a user or with a safe method passes by. *)
(*                                                                         *)
(* The store is the database.  The in-memory store takes the same steps and *)
(* ignores a caller that hangs up, so its behaviours are the ones in which  *)
(* nothing fails.  Keys are per user.  Times are relative to the present.   *)
(***************************************************************************)
EXTENDS Integers, FiniteSets, FiniteSetsExt

CONSTANTS
    Keys,           \* pairs of a user and a key that user chose
    Requests,       \* requests under way at a time
    NoRequest,
    Ops,            \* fingerprints: a method and a path
    NoOp,
    TTL,            \* how long a key is remembered
    MaxLag,         \* the longest wait between reading the clock and the claim
    Faults          \* whether the database and the process may fail

ASSUME IdempotencyAssumption ==
    /\ Keys # {} /\ NoRequest \notin Requests /\ NoOp \notin Ops
    /\ TTL \in Nat /\ MaxLag \in Nat /\ MaxLag < TTL
    /\ Faults \in BOOLEAN

VARIABLES
    record,         \* the rows of idempotency_keys
    request,        \* the requests in the middleware
    claim,          \* observed: the latest claim on each key and what came of it
    overran         \* observed: keys on which a request finished another's claim

idemVars == <<record, request, claim, overran>>

\* What a handler's answer is to this middleware: a status below 400, another
\* below 500, or the rest.
Statuses == {"ok", "refused", "failed"}

NoAnswer == [op |-> NoOp, status |-> "none"]

NoRecord == [state |-> "none", op |-> NoOp, answer |-> NoAnswer, left |-> -MaxLag]

IdleRequest == [pc |-> "idle", key |-> CHOOSE k \in Keys : TRUE, op |-> NoOp,
                status |-> "none", gone |-> FALSE, again |-> FALSE, lag |-> 0]

IdempotencyInit ==
    /\ record = [k \in Keys |-> NoRecord]
    /\ request = [r \in Requests |-> IdleRequest]
    /\ claim = [k \in Keys |-> [holder |-> NoRequest, left |-> 0, answer |-> NoAnswer]]
    /\ overran = {}

Over(r) == request' = [request EXCEPT ![r] = IdleRequest]

\* A store call of this request may fail: the database is away, or the caller
\* hung up and took the request's context with it.
CallFails(r) == Faults \/ request[r].gone

-----------------------------------------------------------------------------
(* The claim.                                                               *)

Arrive(r, k, op) ==
    /\ request[r].pc = "idle"
    /\ request' = [request EXCEPT ![r] =
                     [IdleRequest EXCEPT !.pc = "claiming", !.key = k, !.op = op]]
    /\ UNCHANGED <<record, claim, overran>>

\* Counting the wait for the statement against the row: it is taken over early.
MutFree(r) ==
    LET row == record[request[r].key]
    IN row.state = "none" \/ row.left - request[r].lag <= 0

\* Nothing there, or expired when the claim's clock was read.
Free(r) ==
    LET row == record[request[r].key]
    IN row.state = "none" \/ row.left + request[r].lag <= 0

\* Taking an expired row over without writing the new fingerprint.
MutGranted(r) ==
    LET row == record[request[r].key]
    IN [state |-> "in_progress",
        op |-> IF row.state = "none" THEN request[r].op ELSE row.op,
        answer |-> NoAnswer, left |-> TTL - request[r].lag]

\* The row a granted claim leaves.
Granted(r) ==
    [state |-> "in_progress", op |-> request[r].op, answer |-> NoAnswer,
     left |-> TTL - request[r].lag]

\* Whether the latest claim on the key still stands: it has not expired, and its
\* request has not answered that it failed.
Stands(k) == claim[k].left > 0 /\ claim[k].answer.status # "failed"

Claim(r) ==
    LET k == request[r].key
    IN /\ request[r].pc = "claiming" /\ ~request[r].gone
       /\ Free(r)
       /\ record' = [record EXCEPT ![k] = Granted(r)]
       /\ claim' = [claim EXCEPT ![k] =
                      [holder |-> r, left |-> Granted(r).left, answer |-> NoAnswer]]
       /\ request' = [request EXCEPT ![r].pc = "running", ![r].again = Stands(k),
                                     ![r].lag = 0]
       /\ UNCHANGED overran

\* The claim was committed and the caller told it was not: nobody runs.
ClaimUnacknowledged(r) ==
    LET k == request[r].key
    IN /\ request[r].pc = "claiming" /\ CallFails(r)
       /\ Free(r)
       /\ record' = [record EXCEPT ![k] = Granted(r)]
       /\ claim' = [claim EXCEPT ![k] =
                      [holder |-> NoRequest, left |-> Granted(r).left,
                       answer |-> NoAnswer]]
       /\ Over(r)
       /\ UNCHANGED overran

ClaimFails(r) ==
    /\ request[r].pc = "claiming" /\ CallFails(r)
    /\ Over(r)
    /\ UNCHANGED <<record, claim, overran>>

\* A live record answers: the key was used for something else, the first
\* attempt is not done yet, or here is what it said.
Replay(r) ==
    /\ request[r].pc = "claiming" /\ ~request[r].gone
    /\ ~Free(r)
    /\ Over(r)
    /\ UNCHANGED <<record, claim, overran>>

-----------------------------------------------------------------------------
(* The request itself, and what finish does with its answer.                *)

\* A caller that hung up is answered 499, which is below 500 like a refusal.
Handle(r, status) ==
    LET k == request[r].key
    IN /\ request[r].pc = "running"
       /\ request' = [request EXCEPT ![r].pc = "finishing", ![r].status = status]
       /\ claim' = IF claim[k].holder = r
                   THEN [claim EXCEPT ![k].answer =
                           [op |-> request[r].op, status |-> status]]
                   ELSE claim
       /\ UNCHANGED <<record, overran>>

\* Recovery answers for a handler that panicked; it sits outside this
\* middleware, so finish never runs.
Panic(r) ==
    /\ request[r].pc = "running"
    /\ Over(r)
    /\ UNCHANGED <<record, claim, overran>>

\* Complete and Release name the key and nothing of the claim they end.
Ends(r) ==
    LET k == request[r].key
    IN overran' = IF claim[k].holder = r THEN overran ELSE overran \cup {k}

\* Storing the answer whether or not the row is still there.
MutComplete(r) ==
    LET k == request[r].key
    IN /\ request[r].pc = "finishing" /\ ~request[r].gone
       /\ request[r].status # "failed"
       /\ record' = [record EXCEPT ![k].state = "completed",
                       ![k].answer = [op |-> request[r].op,
                                      status |-> request[r].status]]
       /\ Ends(r)
       /\ Over(r)
       /\ UNCHANGED claim

\* A row that is gone is reported, not written again.
Complete(r) ==
    LET k == request[r].key
    IN /\ request[r].pc = "finishing" /\ ~request[r].gone
       /\ request[r].status # "failed"
       /\ record' = IF record[k].state = "none" THEN record
                    ELSE [record EXCEPT ![k].state = "completed",
                            ![k].answer = [op |-> request[r].op,
                                           status |-> request[r].status]]
       /\ Ends(r)
       /\ Over(r)
       /\ UNCHANGED claim

Release(r) ==
    /\ request[r].pc = "finishing" /\ ~request[r].gone
    /\ request[r].status = "failed"
    /\ record' = [record EXCEPT ![request[r].key] = NoRecord]
    /\ Ends(r)
    /\ Over(r)
    /\ UNCHANGED claim

\* Giving the key up because its answer could not be stored.
MutFinishFails(r) ==
    /\ request[r].pc = "finishing" /\ CallFails(r)
    /\ record' = [record EXCEPT ![request[r].key] = NoRecord]
    /\ Over(r)
    /\ UNCHANGED <<claim, overran>>

\* Only logged: the record stays as the claim left it.
FinishFails(r) ==
    /\ request[r].pc = "finishing" /\ CallFails(r)
    /\ Over(r)
    /\ UNCHANGED <<record, claim, overran>>

-----------------------------------------------------------------------------
(* The world around it.                                                     *)

\* The caller's connection drops and its context is cancelled.
HangUp(r) ==
    /\ request[r].pc # "idle" /\ ~request[r].gone
    /\ request' = [request EXCEPT ![r].gone = TRUE]
    /\ UNCHANGED <<record, claim, overran>>

\* The process ends with everything under way; the rows stay.
Crash ==
    /\ Faults
    /\ request' = [r \in Requests |-> IdleRequest]
    /\ UNCHANGED <<record, claim, overran>>

\* The present moves on; no claim waits longer than MaxLag for its statement.
Tick ==
    /\ \A r \in Requests : request[r].pc = "claiming" => request[r].lag < MaxLag
    /\ record' = [k \in Keys |->
                    [record[k] EXCEPT !.left = Max({-MaxLag, @ - 1})]]
    /\ request' = [r \in Requests |->
                     [request[r] EXCEPT !.lag =
                        IF request[r].pc = "claiming" THEN @ + 1 ELSE 0]]
    /\ claim' = [k \in Keys |-> [claim[k] EXCEPT !.left = Max({0, @ - 1})]]
    /\ UNCHANGED overran

-----------------------------------------------------------------------------
IdempotencyNext ==
    \/ \E r \in Requests :
         \/ \E k \in Keys, op \in Ops : Arrive(r, k, op)
         \/ Claim(r) \/ ClaimUnacknowledged(r) \/ ClaimFails(r) \/ Replay(r)
         \/ \E status \in Statuses : Handle(r, status)
         \/ Panic(r)
         \/ Complete(r) \/ Release(r) \/ FinishFails(r)
         \/ HangUp(r)
    \/ Crash
    \/ Tick

IdempotencySpec == IdempotencyInit /\ [][IdempotencyNext]_idemVars

-----------------------------------------------------------------------------
(* Properties.                                                              *)

Answers == [op : Ops, status : Statuses] \cup {NoAnswer}

RecordState ==
    [state : {"none", "in_progress", "completed"}, op : Ops \cup {NoOp},
     answer : Answers, left : (-MaxLag)..TTL]

RequestState ==
    [pc : {"idle", "claiming", "running", "finishing"}, key : Keys,
     op : Ops \cup {NoOp}, status : Statuses \cup {"none"},
     gone : BOOLEAN, again : BOOLEAN, lag : 0..MaxLag]

ClaimState ==
    [holder : Requests \cup {NoRequest}, left : 0..TTL, answer : Answers]

\* A row that is there has a fingerprint, and one that is completed an answer to
\* replay, never one of the 500s.
RecordFits(row) ==
    /\ row.state = "none" <=> row.op = NoOp
    /\ row.state = "completed" <=> row.answer.status \in {"ok", "refused"}

\* Every variable keeps its shape, and a record is completed exactly when there
\* is an answer in it to replay, never one of the 500s.
IdempotencyTypeOK ==
    /\ record \in [Keys -> RecordState] /\ \A k \in Keys : RecordFits(record[k])
    /\ request \in [Requests -> RequestState]
    /\ claim \in [Keys -> ClaimState]
    /\ overran \subseteq Keys

\* While a key is remembered its work is done once: a request only runs under a
\* key when the claim before it expired or answered that it failed.  That holds
\* through lost connections, panics, crashes and answers that could not be
\* stored; the one exception is a key on which a request outlived its claim and
\* then ended the claim of whoever had taken the key over.
DoneOnce ==
    \A r \in Requests : request[r].again => request[r].key \in overran

\* What a repeat is told is what the first attempt answered, and to the same
\* request: a completed record holds the answer of the claim it stands for, under
\* that claim's fingerprint, with the same exception.
ReplaysTheFirstAnswer ==
    \A k \in Keys \ overran :
      record[k].state = "completed" =>
        /\ record[k].answer = claim[k].answer
        /\ record[k].op = claim[k].answer.op

\* An answer that was stored is neither replaced nor given up before the key
\* expires, although claims judge that by a clock they read earlier and Complete
\* and Release name nothing but the key: whoever comes back until then is told the
\* same.  The exception is the step of a request that outlived its claim.
AnswerStands ==
    [][\A k \in Keys :
         record[k].state = "completed" /\ record[k].left > 0 =>
           record'[k].answer = record[k].answer \/ k \in overran']_idemVars

\* The middleware's comment: "A caller that repeats a request with the same
\* Idempotency-Key gets the first attempt's answer back".  Once the first attempt
\* is over and answered, its answer is there for as long as the key is held.
AnswerIsKept ==
    \A k \in Keys :
      /\ Stands(k) /\ claim[k].answer # NoAnswer
      /\ \A r \in Requests : request[r].pc # "finishing"
      => record[k].state = "completed"

-----------------------------------------------------------------------------
(* The inductive invariant the proofs rest on.                              *)

\* A request in the middleware knows what it asks for, and has a status exactly
\* from its answer on.
RequestFits(q) ==
    /\ q.pc # "idle" => q.op \in Ops
    /\ q.pc = "finishing" <=> q.status # "none"

RequestsAreFormed == \A r \in Requests : RequestFits(request[r])

\* As long as the latest claim on a key has not expired, its row lasts exactly as
\* long, unless the claim's own request gave the key up.
ClaimsHaveTheirRow ==
    \A k \in Keys \ overran :
      claim[k].left > 0 =>
        \/ record[k].state # "none" /\ record[k].left = claim[k].left
        \/ record[k].state = "none" /\ claim[k].answer.status = "failed"

\* The row is the holder's until it finishes, and by then says nothing the holder
\* did not answer.
HoldersHaveTheirRow ==
    \A r \in Requests :
      LET k == request[r].key
      IN request[r].pc \in {"running", "finishing"} /\ claim[k].holder = r
           /\ k \notin overran
         => /\ record[k].state = "in_progress" /\ record[k].op = request[r].op
            /\ request[r].pc = "finishing" =>
                 claim[k].answer = [op |-> request[r].op, status |-> request[r].status]

IdempotencyInv ==
    /\ IdempotencyTypeOK
    /\ RequestsAreFormed
    /\ ClaimsHaveTheirRow
    /\ HoldersHaveTheirRow
    /\ DoneOnce
    /\ ReplaysTheFirstAnswer
=============================================================================
