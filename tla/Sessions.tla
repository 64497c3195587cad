------------------------------- MODULE Sessions -------------------------------
(***************************************************************************)
(* Who a request is let in as: tokens and their expiry, signing out and     *)
(* the sweep of spent revocations, the rate limiter with its eviction of    *)
(* idle buckets, and the role an administrative route asks for.  A request  *)
(* passes Authenticate, RateLimit and then its handler, with a store call   *)
(* between one step and the next.                                           *)
(*                                                                         *)
(* Instants are relative to the present: "left" is what remains of a        *)
(* token's life, "lag" how old a clock reading is when it is used, and      *)
(* "idle" how old the reading is that a bucket was last used with.          *)
(***************************************************************************)
EXTENDS Integers, FiniteSets, FiniteSetsExt

CONSTANTS
    Users,
    NoUser,
    Tokens,         \* token ids; each is issued once
    NoToken,
    Requests,       \* requests under way at a time
    Address,        \* the caller of a request without a token
    TokenTTL,
    Burst, Every,   \* a policy: so many at once, one more every so often
    RateLimitTTL,   \* how long an idle bucket is kept
    MaxLag,         \* the longest a clock reading waits to be used
    StoreMayFail

ASSUME SessionsAssumption ==
    /\ NoUser \notin Users /\ NoToken \notin Tokens /\ Address \notin Users
    /\ TokenTTL \in Nat \ {0} /\ Burst \in Nat \ {0} /\ Every \in Nat \ {0}
    /\ RateLimitTTL \in Nat \ {0}
    /\ MaxLag \in Nat /\ StoreMayFail \in BOOLEAN

VARIABLES
    token,          \* whose each token is and what is left of it
    revoked,        \* the rows of revoked_tokens
    admins,         \* the users whose stored role is admin
    bucket,         \* the rate limiter's visitors
    request,        \* the requests in the middleware chain
    sweeper,        \* the revocation sweeper, and how old its clock reading is
    signedOut,      \* observed: tokens whose sign-out was answered
    credit          \* observed: what each caller is entitled to

sessionVars == <<token, revoked, admins, bucket, request, sweeper, signedOut, credit>>

Ops == {"login", "logout", "work", "admin"}

\* Paths under /auth/ have an allowance of their own, and a caller with a token
\* is limited as itself.
Policy(op) == IF op \in {"login", "logout"} THEN "auth" ELSE "default"

Buckets == {"auth", "default"} \X (Users \cup {Address})

LimitKey(r) ==
    <<Policy(request[r].op),
      IF request[r].token = NoToken THEN Address ELSE token[request[r].token].user>>

\* A bucket's level counts in parts of one request, Every of them to each.
Full == Burst * Every

\* A bucket not used for this long is full and can be forgotten, whatever the
\* lag of whoever looks; it needs no more exact age.
MaxIdle == Max({RateLimitTTL + 1, Full}) + MaxLag

\* A new bucket is full, and last used at the zero time.
NoBucket == [held |-> FALSE, level |-> Full, idle |-> MaxIdle]

\* What a caller may do at one instant: the burst, and what the bucket refills
\* with while a request of theirs waits with an old reading.
MostCredit == Full + MaxLag

\* What the caller of an evicted bucket may have lacked: nothing, when it is kept
\* for long enough to refill, which the configuration does not ask (the defaults
\* are far from the limit, 10 minutes against 30 seconds).
Forgiven == Max({0, MostCredit - (RateLimitTTL + 1)})

IdleRequest == [pc |-> "idle", op |-> "work", token |-> NoToken, lag |-> 0,
                late |-> FALSE, wasAdmin |-> FALSE]

SessionsInit ==
    /\ token = [t \in Tokens |-> [user |-> NoUser, left |-> 0]]
    /\ revoked = {}
    /\ admins \in SUBSET Users
    /\ bucket = [b \in Buckets |-> NoBucket]
    /\ request = [r \in Requests |-> IdleRequest]
    /\ sweeper = [pc |-> "idle", lag |-> 0]
    /\ signedOut = {}
    /\ credit = [b \in Buckets |-> MostCredit]

\* The request is answered, one way or the other, and is over.
Answer(r) == request' = [request EXCEPT ![r] = IdleRequest]

-----------------------------------------------------------------------------
(* Authenticate.  A token that does not verify is refused without a trace.  *)

ArriveAnonymous(r) ==
    /\ request[r].pc = "idle"
    /\ request' = [request EXCEPT ![r] =
                     [IdleRequest EXCEPT !.pc = "admitted", !.op = "login"]]
    /\ UNCHANGED <<token, revoked, admins, bucket, sweeper, signedOut, credit>>

\* Verify: signed by this service, and not expired at the instant it is read.
Verify(r, t, op) ==
    /\ request[r].pc = "idle"
    /\ token[t].user # NoUser /\ token[t].left > 0
    /\ request' = [request EXCEPT ![r] =
                     [pc |-> "verified", op |-> op, token |-> t, lag |-> 0,
                      late |-> t \in signedOut,
                      wasAdmin |-> token[t].user \in admins]]
    /\ UNCHANGED <<token, revoked, admins, bucket, sweeper, signedOut, credit>>

\* Letting the caller in when the check cannot run.
MutIsTokenRevoked(r) ==
    /\ request[r].pc = "verified"
    /\ IF request[r].token \in revoked /\ ~StoreMayFail
       THEN Answer(r)
       ELSE request' = [request EXCEPT ![r].pc = "admitted"]
    /\ UNCHANGED <<token, revoked, admins, bucket, sweeper, signedOut, credit>>

IsTokenRevoked(r) ==
    /\ request[r].pc = "verified"
    /\ IF request[r].token \in revoked
       THEN Answer(r)
       ELSE request' = [request EXCEPT ![r].pc = "admitted"]
    /\ UNCHANGED <<token, revoked, admins, bucket, sweeper, signedOut, credit>>

\* The limiter reads the clock before it waits for its lock.
ReadClock(r) ==
    /\ request[r].pc = "admitted"
    /\ request' = [request EXCEPT ![r].pc = "limiting"]
    /\ UNCHANGED <<token, revoked, admins, bucket, sweeper, signedOut, credit>>

\* The bucket was last used with a younger reading than this one.
Overtaken(b, lag) == bucket[b].held /\ lag > bucket[b].idle

\* What is in the bucket at a reading of this age: the limiter takes no time to
\* have passed when its own clock is ahead.
LevelAt(b, lag) ==
    IF Overtaken(b, lag) THEN bucket[b].level
    ELSE Min({Full, bucket[b].level + bucket[b].idle - lag})

\* What its caller is entitled to: an overtaken reading sets the bucket's clock
\* back, and the time between the two readings refills it once more.
EntitledAt(b, lag) ==
    IF Overtaken(b, lag) THEN Min({MostCredit, credit[b] + MaxLag}) ELSE credit[b]

\* A refused caller's reservation is not given back.
MutAllow(r) ==
    LET b == LimitKey(r)
        lag == request[r].lag
        level == LevelAt(b, lag)
    IN /\ request[r].pc = "limiting"
       /\ bucket' = [bucket EXCEPT ![b] =
                       [held |-> TRUE, level |-> level - Every, idle |-> lag]]
       /\ IF level >= Every
          THEN /\ credit' = [credit EXCEPT ![b] = EntitledAt(b, lag) - Every]
               /\ request' = [request EXCEPT ![r] =
                             [@ EXCEPT !.pc = "allowed", !.lag = 0]]
          ELSE Answer(r) /\ credit' = [credit EXCEPT ![b] = EntitledAt(b, lag)]
       /\ UNCHANGED <<token, revoked, admins, sweeper, signedOut>>

\* RateLimit: a token bucket per policy and caller, used as of the reading; a
\* refusal spends nothing, but it does count as use.
Allow(r) ==
    LET b == LimitKey(r)
        lag == request[r].lag
        level == LevelAt(b, lag)
    IN /\ request[r].pc = "limiting"
       /\ \/ /\ level >= Every
             /\ bucket' = [bucket EXCEPT ![b] =
                             [held |-> TRUE, level |-> level - Every, idle |-> lag]]
             /\ credit' = [credit EXCEPT ![b] = EntitledAt(b, lag) - Every]
             /\ request' = [request EXCEPT ![r] =
                             [@ EXCEPT !.pc = "allowed", !.lag = 0]]
          \/ /\ level < Every
             /\ bucket' = [bucket EXCEPT ![b] =
                             [held |-> TRUE, level |-> level, idle |-> lag]]
             /\ credit' = [credit EXCEPT ![b] = EntitledAt(b, lag)]
             /\ Answer(r)
       /\ UNCHANGED <<token, revoked, admins, sweeper, signedOut>>

\* A store call on the way fails and the request is refused: the revocation
\* check, the account lookup, the role lookup or the handler's own work.
RequestFails(r) ==
    /\ StoreMayFail
    /\ request[r].pc \in {"verified", "allowed"}
    /\ Answer(r)
    /\ UNCHANGED <<token, revoked, admins, bucket, sweeper, signedOut, credit>>

-----------------------------------------------------------------------------
(* The handlers.                                                            *)

\* Signing in issues a token with an id nobody had before.
Login(r, u, t) ==
    /\ request[r].pc = "allowed" /\ request[r].op = "login"
    /\ token[t].user = NoUser
    /\ token' = [token EXCEPT ![t] = [user |-> u, left |-> TokenTTL]]
    /\ Answer(r)
    /\ UNCHANGED <<revoked, admins, bucket, sweeper, signedOut, credit>>

\* Signing out revokes the very token the request came with.
Logout(r) ==
    /\ request[r].pc = "allowed" /\ request[r].op = "logout"
    /\ revoked' = revoked \cup {request[r].token}
    /\ signedOut' = signedOut \cup {request[r].token}
    /\ Answer(r)
    /\ UNCHANGED <<token, admins, bucket, sweeper, credit>>

\* The row was written but the caller was told it failed.
LogoutUnacknowledged(r) ==
    /\ StoreMayFail
    /\ request[r].pc = "allowed" /\ request[r].op = "logout"
    /\ revoked' = revoked \cup {request[r].token}
    /\ Answer(r)
    /\ UNCHANGED <<token, admins, bucket, sweeper, signedOut, credit>>

\* Any other handler, wrong credentials included.
Serve(r) ==
    /\ request[r].pc = "allowed" /\ request[r].op \in {"login", "work"}
    /\ Answer(r)
    /\ UNCHANGED <<token, revoked, admins, bucket, sweeper, signedOut, credit>>

\* A role that cannot be read is not taken for a refusal.
MutRequireAdmin(r) ==
    /\ request[r].pc = "allowed" /\ request[r].op = "admin"
    /\ IF token[request[r].token].user \in admins \/ StoreMayFail
       THEN request' = [request EXCEPT ![r].pc = "permitted"]
       ELSE Answer(r)
    /\ UNCHANGED <<token, revoked, admins, bucket, sweeper, signedOut, credit>>

\* The role is read from the store for every request, not from the token.
RequireAdmin(r) ==
    /\ request[r].pc = "allowed" /\ request[r].op = "admin"
    /\ IF token[request[r].token].user \in admins
       THEN request' = [request EXCEPT ![r].pc = "permitted"]
       ELSE Answer(r)
    /\ UNCHANGED <<token, revoked, admins, bucket, sweeper, signedOut, credit>>

Administer(r) ==
    /\ request[r].pc = "permitted"
    /\ Answer(r)
    /\ UNCHANGED <<token, revoked, admins, bucket, sweeper, signedOut, credit>>

\* The operator's command changes a stored role, either way.
SetRole(u, admin) ==
    /\ admins' = IF admin THEN admins \cup {u} ELSE admins \ {u}
    /\ admins' # admins
    /\ request' = [r \in Requests |->
                     IF admin /\ request[r].token # NoToken
                        /\ token[request[r].token].user = u
                     THEN [request[r] EXCEPT !.wasAdmin = TRUE] ELSE request[r]]
    /\ UNCHANGED <<token, revoked, bucket, sweeper, signedOut, credit>>

-----------------------------------------------------------------------------
(* The revocation sweeper and the eviction of idle buckets, each on a tick   *)
(* of its own.                                                               *)

BeginSweep ==
    /\ sweeper.pc = "idle"
    /\ sweeper' = [pc |-> "sweeping", lag |-> 0]
    /\ UNCHANGED <<token, revoked, admins, bucket, request, signedOut, credit>>

\* Sweeping what is about to expire as well.
MutDeleteExpired ==
    /\ sweeper.pc = "sweeping"
    /\ revoked' = {t \in revoked : token[t].left + sweeper.lag > 1}
    /\ sweeper' = [pc |-> "idle", lag |-> 0]
    /\ UNCHANGED <<token, admins, bucket, request, signedOut, credit>>

\* A row goes once its token had expired when the sweeper read the clock.
DeleteExpired ==
    /\ sweeper.pc = "sweeping"
    /\ revoked' = {t \in revoked : token[t].left + sweeper.lag > 0}
    /\ sweeper' = [pc |-> "idle", lag |-> 0]
    /\ UNCHANGED <<token, admins, bucket, request, signedOut, credit>>

\* A failed pass is logged; the next tick tries again.
SweepRevocationsFails ==
    /\ StoreMayFail
    /\ sweeper.pc = "sweeping"
    /\ sweeper' = [pc |-> "idle", lag |-> 0]
    /\ UNCHANGED <<token, revoked, admins, bucket, request, signedOut, credit>>

\* A bucket is evicted: forgotten, and with it what had been spent from it.
Evict(S) ==
    /\ S # {}
    /\ bucket' = [b \in Buckets |-> IF b \in S THEN NoBucket ELSE bucket[b]]
    /\ credit' = [b \in Buckets |->
                    IF b \in S THEN Min({MostCredit, credit[b] + Forgiven}) ELSE credit[b]]
    /\ UNCHANGED <<token, revoked, admins, request, sweeper, signedOut>>

\* The comparison turned round: what was used lately goes.
MutCleanup ==
    \E lag \in 0..MaxLag :
      Evict({b \in Buckets : bucket[b].held /\ bucket[b].idle - lag < RateLimitTTL})

\* The clock is read before the lock here too.
Cleanup ==
    \E lag \in 0..MaxLag :
      Evict({b \in Buckets : bucket[b].held /\ bucket[b].idle - lag > RateLimitTTL})

\* The present moves on, and a reading that waits grows older, MaxLag at most.  A
\* token long past its end needs no more exact age.
Tick ==
    /\ sweeper.lag < MaxLag \/ sweeper.pc = "idle"
    /\ \A r \in Requests : request[r].pc = "limiting" => request[r].lag < MaxLag
    /\ token' = [t \in Tokens |->
                   [token[t] EXCEPT !.left = Max({-MaxLag, @ - 1})]]
    /\ bucket' = [b \in Buckets |->
                    [bucket[b] EXCEPT !.idle = Min({MaxIdle, @ + 1})]]
    /\ credit' = [b \in Buckets |-> Min({MostCredit, credit[b] + 1})]
    /\ request' = [r \in Requests |->
                     [request[r] EXCEPT !.lag =
                        IF request[r].pc = "limiting" THEN @ + 1 ELSE @]]
    /\ sweeper' = [sweeper EXCEPT !.lag = IF sweeper.pc = "idle" THEN 0 ELSE @ + 1]
    /\ UNCHANGED <<revoked, admins, signedOut>>

-----------------------------------------------------------------------------
RequestStep(r) ==
    \/ ArriveAnonymous(r)
    \/ \E t \in Tokens, op \in Ops \ {"login"} : Verify(r, t, op)
    \/ IsTokenRevoked(r)
    \/ ReadClock(r)
    \/ Allow(r)
    \/ RequestFails(r)
    \/ \E u \in Users, t \in Tokens : Login(r, u, t)
    \/ Logout(r)
    \/ LogoutUnacknowledged(r)
    \/ Serve(r)
    \/ RequireAdmin(r)
    \/ Administer(r)

SessionsNext ==
    \/ \E r \in Requests : RequestStep(r)
    \/ \E u \in Users, admin \in BOOLEAN : SetRole(u, admin)
    \/ BeginSweep \/ DeleteExpired \/ SweepRevocationsFails
    \/ Cleanup
    \/ Tick

SessionsSpec == SessionsInit /\ [][SessionsNext]_sessionVars

-----------------------------------------------------------------------------
(* Properties.                                                              *)

TokenState == [user : Users \cup {NoUser}, left : (-MaxLag)..TokenTTL]

BucketState == [held : BOOLEAN, level : 0..Full, idle : 0..MaxIdle]

RequestState ==
    [pc : {"idle", "verified", "admitted", "limiting", "allowed", "permitted"}, op : Ops,
     token : Tokens \cup {NoToken}, lag : 0..MaxLag, late : BOOLEAN, wasAdmin : BOOLEAN]

\* Authenticate is behind the request.
LetIn == {"admitted", "limiting", "allowed", "permitted"}

\* Every variable keeps its shape; in particular no row of revoked_tokens is
\* for a token that was never issued, and no bucket is overdrawn or overfull.
SessionsTypeOK ==
    /\ token \in [Tokens -> TokenState]
    /\ revoked \cup signedOut \subseteq {t \in Tokens : token[t].user # NoUser}
    /\ admins \subseteq Users
    /\ bucket \in [Buckets -> BucketState]
    /\ request \in [Requests -> RequestState]
    /\ sweeper \in [pc : {"idle", "sweeping"}, lag : 0..MaxLag]

\* A request that came in after its token was signed out never gets past
\* Authenticate while that token is alive: the sweep only forgets a revocation
\* the expiry check no longer needs, even when it runs between the two checks,
\* and a check that cannot run refuses.
SignedOutStaysOut ==
    \A r \in Requests :
      request[r].late /\ request[r].pc \in LetIn
        => token[request[r].token].left <= 0

\* Nobody is let through more often than their policy says, but for two things
\* whose price is stated: a request whose clock reading was overtaken while it
\* waited for the limiter's lock is worth at most MaxLag of refill, and an
\* eviction at most what the bucket could still lack, which is nothing when
\* buckets are kept for long enough.
RateHolds == \A b \in Buckets : credit[b] >= 0

\* An administrative route runs only for a user who held the role at some point
\* while the request was under way, whatever the role was when the token was
\* issued.
AdminsOnly == \A r \in Requests : request[r].pc = "permitted" => request[r].wasAdmin

-----------------------------------------------------------------------------
(* The inductive invariant the proofs rest on.                              *)

\* A request that is not for signing in has a token, its token was issued to
\* somebody, whoever has the role now had it while the request was under way, and
\* the request has come as far as its two checks allow.
RequestFits(q) ==
    /\ q.pc # "idle" /\ q.op # "login" => q.token # NoToken
    /\ q.token # NoToken => token[q.token].user # NoUser
    /\ q.token # NoToken /\ token[q.token].user \in admins => q.wasAdmin
    /\ q.late => q.token \in signedOut
    /\ q.late /\ q.pc \in LetIn => token[q.token].left <= 0
    /\ q.pc = "permitted" => q.wasAdmin

RequestsAreFormed == \A r \in Requests : RequestFits(request[r])

\* A token that was signed out is refused by one check or by the other.
SignedOutIsRefused == \A t \in signedOut : t \in revoked \/ token[t].left <= 0

\* What a bucket would let through is never more than its caller is entitled to,
\* and a bucket that is not kept is as new, owed to somebody entitled to all of it.
CreditCovers ==
    /\ credit \in [Buckets -> Int]
    /\ \A b \in Buckets :
         /\ credit[b] <= MostCredit
         /\ bucket[b].held /\ credit[b] < MostCredit
              => bucket[b].level + bucket[b].idle <= credit[b]
         /\ ~bucket[b].held => bucket[b] = NoBucket /\ credit[b] = MostCredit

SessionsInv ==
    /\ SessionsTypeOK
    /\ RequestsAreFormed
    /\ SignedOutIsRefused
    /\ CreditCovers
=============================================================================
