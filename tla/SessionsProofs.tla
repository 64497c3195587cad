---------------------------- MODULE SessionsProofs ----------------------------
(***************************************************************************)
(* Proofs about Sessions: a token that was signed out stays out, the rate  *)
(* limiter lets nobody through more often than its policy says, and        *)
(* administrative routes are for administrators, for any number of users,  *)
(* tokens and requests and any lifetimes.                                  *)
(***************************************************************************)
EXTENDS Sessions, TLAPS

(* The larger and the smaller of two numbers. *)
LEMMA MaxOfTwo ==
    ASSUME NEW a \in Int, NEW b \in Int
    PROVE  Max({a, b}) = IF a >= b THEN a ELSE b
  BY DEF Max

LEMMA MinOfTwo ==
    ASSUME NEW a \in Int, NEW b \in Int
    PROVE  Min({a, b}) = IF a <= b THEN a ELSE b
  BY DEF Min

(* The numbers of the rate limiter, and how they compare. *)
LEMMA LimitsAreNat ==
    /\ Full \in Nat /\ RateLimitTTL \in Nat /\ MaxLag \in Nat /\ Every \in Nat
    /\ MostCredit = Full + MaxLag /\ MostCredit \in Nat
    /\ MaxIdle \in Nat /\ MaxIdle >= Full + MaxLag
    /\ Forgiven \in Nat /\ RateLimitTTL + 1 + Forgiven >= MostCredit
  <1>1. /\ Full \in Nat /\ RateLimitTTL \in Nat /\ MaxLag \in Nat /\ Every \in Nat
        /\ MostCredit = Full + MaxLag /\ MostCredit \in Nat
    BY SessionsAssumption DEF Full, MostCredit
  <1>2. MaxIdle = (IF RateLimitTTL + 1 >= Full THEN RateLimitTTL + 1 ELSE Full) + MaxLag
    BY <1>1, MaxOfTwo DEF MaxIdle
  <1>3. Forgiven = IF 0 >= MostCredit - (RateLimitTTL + 1) THEN 0
                  ELSE MostCredit - (RateLimitTTL + 1)
    BY <1>1, MaxOfTwo DEF Forgiven
  <1> QED BY <1>1, <1>2, <1>3

LEMMA IdleFits ==
    /\ IdleRequest \in RequestState
    /\ IdleRequest.pc = "idle" /\ IdleRequest.token = NoToken /\ IdleRequest.late = FALSE
  BY SessionsAssumption DEF IdleRequest, RequestState, Ops

LEMMA NoBucketFits ==
    /\ NoBucket \in BucketState
    /\ NoBucket.level = Full /\ NoBucket.idle = MaxIdle /\ NoBucket.held = FALSE
  BY LimitsAreNat DEF NoBucket, BucketState

-----------------------------------------------------------------------------
(* One request takes a step; the tokens, the roles and the revocations stay. *)
LEMMA RequestMoves ==
    ASSUME SessionsInv, NEW r \in Requests, NEW q \in RequestState, RequestFits(q),
           request' = [request EXCEPT ![r] = q],
           UNCHANGED <<token, revoked, admins, sweeper, signedOut>>,
           bucket' \in [Buckets -> BucketState], CreditCovers'
    PROVE  SessionsInv'
  <1>1. SessionsTypeOK'
    BY DEF SessionsInv, SessionsTypeOK
  <1>2. request'[r] = q /\ \A x \in Requests \ {r} : request'[x] = request[x]
    BY DEF SessionsInv, SessionsTypeOK
  <1>3. RequestsAreFormed'
    BY <1>2 DEF SessionsInv, RequestsAreFormed, RequestFits
  <1> QED BY <1>1, <1>3 DEF SessionsInv, SignedOutIsRefused

(* The rate limiter is not asked. *)
LEMMA RequestGoesOn ==
    ASSUME SessionsInv, NEW r \in Requests, NEW q \in RequestState, RequestFits(q),
           request' = [request EXCEPT ![r] = q],
           UNCHANGED <<token, revoked, admins, bucket, sweeper, signedOut, credit>>
    PROVE  SessionsInv'
  <1>1. bucket' \in [Buckets -> BucketState] /\ CreditCovers'
    BY DEF SessionsInv, SessionsTypeOK, CreditCovers
  <1> QED BY <1>1, RequestMoves

(* The request is over. *)
LEMMA AnswerKeepsInv ==
    ASSUME SessionsInv, NEW r \in Requests, Answer(r),
           UNCHANGED <<token, revoked, admins, bucket, sweeper, signedOut, credit>>
    PROVE  SessionsInv'
  <1>1. RequestFits(IdleRequest)
    BY IdleFits DEF RequestFits
  <1> QED BY <1>1, IdleFits, RequestGoesOn DEF Answer

LEMMA ArrivalKeepsInv ==
    ASSUME SessionsInv, NEW r \in Requests, ArriveAnonymous(r)
    PROVE  SessionsInv'
  <1> DEFINE q == [IdleRequest EXCEPT !.pc = "admitted", !.op = "login"]
  <1>1. q \in RequestState /\ q.token = NoToken /\ q.late = FALSE /\ q.pc = "admitted"
        /\ q.op = "login"
    BY IdleFits DEF RequestState, IdleRequest, Ops
  <1>2. RequestFits(q)
    BY <1>1 DEF RequestFits
  <1> QED BY <1>1, <1>2, RequestGoesOn DEF ArriveAnonymous

LEMMA VerifyKeepsInv ==
    ASSUME SessionsInv, NEW r \in Requests, NEW t \in Tokens, NEW op \in Ops,
           Verify(r, t, op)
    PROVE  SessionsInv'
  <1>0. PICK late \in BOOLEAN : late = (t \in signedOut)
    BY (t \in signedOut) \in BOOLEAN, Zenon
  <1>1. PICK admin \in BOOLEAN : admin = (token[t].user \in admins)
    BY (token[t].user \in admins) \in BOOLEAN, Zenon
  <1> DEFINE q == [pc |-> "verified", op |-> op, token |-> t, late |-> late,
                   lag |-> 0, wasAdmin |-> admin]
  <1>2. q \in RequestState /\ q.token = t /\ q.pc = "verified"
    BY SessionsAssumption DEF RequestState
  <1>3. q.late = late /\ q.wasAdmin = admin
    OBVIOUS
  <1>4. token[t].user # NoUser /\ t # NoToken
    BY SessionsAssumption DEF Verify
  <1>5. request' = [request EXCEPT ![r] = q]
    BY <1>0, <1>1 DEF Verify
  <1> HIDE DEF q
  <1>6. RequestFits(q)
    BY <1>0, <1>1, <1>2, <1>3, <1>4 DEF RequestFits, LetIn
  <1> QED BY <1>2, <1>5, <1>6, RequestGoesOn DEF Verify

(* The steps that change where a request is and nothing else. *)
LEMMA PassKeepsInv ==
    ASSUME SessionsInv, NEW r \in Requests,
           IsTokenRevoked(r) \/ ReadClock(r) \/ RequireAdmin(r)
    PROVE  SessionsInv'
  <1>1. request[r] \in RequestState /\ RequestFits(request[r])
    BY DEF SessionsInv, SessionsTypeOK, RequestsAreFormed
  <1>2. CASE Answer(r)
    BY <1>2, AnswerKeepsInv DEF IsTokenRevoked, ReadClock, RequireAdmin
  <1>3. CASE IsTokenRevoked(r) /\ ~Answer(r)
    <2> DEFINE q == [request[r] EXCEPT !.pc = "admitted"]
    <2>1. /\ q \in RequestState /\ q.pc = "admitted" /\ q.op = request[r].op
          /\ q.token = request[r].token /\ q.late = request[r].late
          /\ q.wasAdmin = request[r].wasAdmin
      BY <1>1 DEF RequestState
    <2>2. /\ request' = [request EXCEPT ![r] = q] /\ request[r].token \notin revoked
          /\ request[r].pc = "verified"
          /\ UNCHANGED <<token, revoked, admins, bucket, sweeper, signedOut, credit>>
      BY <1>3 DEF IsTokenRevoked
    <2>3. request[r].late => token[request[r].token].left <= 0
      BY <1>1, <2>2 DEF RequestFits, SessionsInv, SignedOutIsRefused
    <2>4. RequestFits(q)
      BY <1>1, <2>1, <2>2, <2>3 DEF RequestFits
    <2> QED BY <2>1, <2>2, <2>4, RequestGoesOn
  <1>4. CASE RequireAdmin(r) /\ ~Answer(r)
    <2> DEFINE q == [request[r] EXCEPT !.pc = "permitted"]
    <2>1. /\ q \in RequestState /\ q.pc = "permitted" /\ q.op = request[r].op
          /\ q.token = request[r].token /\ q.late = request[r].late
          /\ q.wasAdmin = request[r].wasAdmin
      BY <1>1 DEF RequestState
    <2>2. /\ request' = [request EXCEPT ![r] = q]
          /\ token[request[r].token].user \in admins
          /\ request[r].pc = "allowed" /\ request[r].op = "admin"
          /\ UNCHANGED <<token, revoked, admins, bucket, sweeper, signedOut, credit>>
      BY <1>4 DEF RequireAdmin
    <2>3. RequestFits(q)
      BY <1>1, <2>1, <2>2 DEF RequestFits, LetIn
    <2> QED BY <2>1, <2>2, <2>3, RequestGoesOn
  <1>5. CASE ReadClock(r)
    <2> DEFINE q == [request[r] EXCEPT !.pc = "limiting"]
    <2>1. /\ q \in RequestState /\ q.pc = "limiting" /\ q.op = request[r].op
          /\ q.token = request[r].token /\ q.late = request[r].late
          /\ q.wasAdmin = request[r].wasAdmin
      BY <1>1 DEF RequestState
    <2>2. /\ request' = [request EXCEPT ![r] = q] /\ request[r].pc = "admitted"
          /\ UNCHANGED <<token, revoked, admins, bucket, sweeper, signedOut, credit>>
      BY <1>5 DEF ReadClock
    <2>3. RequestFits(q)
      BY <1>1, <2>1, <2>2 DEF RequestFits, LetIn
    <2> QED BY <2>1, <2>2, <2>3, RequestGoesOn
  <1> QED BY <1>2, <1>3, <1>4, <1>5

(* Every caller has a bucket. *)
LEMMA LimitKeyType ==
    ASSUME SessionsInv, NEW r \in Requests
    PROVE  LimitKey(r) \in Buckets
  <1>1. request[r] \in RequestState /\ RequestFits(request[r])
    BY DEF SessionsInv, SessionsTypeOK, RequestsAreFormed
  <1>2. request[r].token # NoToken => token[request[r].token].user \in Users
    BY <1>1 DEF RequestState, RequestFits, SessionsInv, SessionsTypeOK, TokenState
  <1> QED BY <1>2 DEF LimitKey, Policy, Buckets

(* A bucket used as of a reading, overtaken or not, holds no more than its  *)
(* caller is entitled to, and the time since that reading with it.          *)
LEMMA LevelIsEntitled ==
    ASSUME SessionsInv, NEW b \in Buckets, NEW lag \in 0..MaxLag
    PROVE  /\ LevelAt(b, lag) \in 0..Full
           /\ EntitledAt(b, lag) \in Int /\ EntitledAt(b, lag) <= MostCredit
           /\ LevelAt(b, lag) + lag <= EntitledAt(b, lag)
  <1>1. /\ bucket[b] \in BucketState /\ bucket[b].level \in 0..Full
        /\ bucket[b].idle \in 0..MaxIdle
    BY DEF SessionsInv, SessionsTypeOK, BucketState
  <1>2. /\ credit[b] \in Int /\ credit[b] <= MostCredit
        /\ bucket[b].held /\ credit[b] < MostCredit
             => bucket[b].level + bucket[b].idle <= credit[b]
        /\ ~bucket[b].held => bucket[b] = NoBucket /\ credit[b] = MostCredit
    BY DEF SessionsInv, CreditCovers
  <1>3. CASE Overtaken(b, lag)
    <2>1. bucket[b].held /\ lag > bucket[b].idle /\ LevelAt(b, lag) = bucket[b].level
      BY <1>3 DEF Overtaken, LevelAt
    <2>2. EntitledAt(b, lag) = IF MostCredit <= credit[b] + MaxLag THEN MostCredit
                               ELSE credit[b] + MaxLag
      BY <1>2, <1>3, MinOfTwo, LimitsAreNat DEF EntitledAt
    <2> QED BY <1>1, <1>2, <2>1, <2>2, LimitsAreNat
  <1>4. CASE ~Overtaken(b, lag)
    <2>1. EntitledAt(b, lag) = credit[b]
      BY <1>4 DEF EntitledAt
    <2>2. lag <= bucket[b].idle
      BY <1>1, <1>2, <1>4, NoBucketFits, LimitsAreNat DEF Overtaken
    <2>3. LevelAt(b, lag) = IF Full <= bucket[b].level + bucket[b].idle - lag THEN Full
                            ELSE bucket[b].level + bucket[b].idle - lag
      BY <1>1, <1>4, MinOfTwo, LimitsAreNat DEF LevelAt
    <2>4. LevelAt(b, lag) + lag <= bucket[b].level + bucket[b].idle
          /\ LevelAt(b, lag) \in 0..Full
      BY <1>1, <2>2, <2>3, LimitsAreNat
    <2> QED BY <1>1, <1>2, <2>1, <2>4, LimitsAreNat
  <1> QED BY <1>3, <1>4

(* A caller is let through out of its credit; refusing it costs nothing. *)
LEMMA AllowKeepsInv ==
    ASSUME SessionsInv, NEW r \in Requests, Allow(r)
    PROVE  SessionsInv'
  <1> DEFINE b == LimitKey(r)
             lag == request[r].lag
             level == LevelAt(b, lag)
             due == EntitledAt(b, lag)
             kept(n) == [held |-> TRUE, level |-> n, idle |-> lag]
  <1>1. request[r] \in RequestState /\ RequestFits(request[r]) /\ b \in Buckets
        /\ lag \in 0..MaxLag
    BY LimitKeyType DEF SessionsInv, SessionsTypeOK, RequestsAreFormed, RequestState
  <1>2. bucket \in [Buckets -> BucketState] /\ credit \in [Buckets -> Int]
    BY DEF SessionsInv, SessionsTypeOK, CreditCovers
  <1>3. level \in 0..Full /\ due \in Int /\ due <= MostCredit /\ level + lag <= due
    BY <1>1, LevelIsEntitled
  <1> HIDE DEF level, due, b, lag
  <1>4. ASSUME NEW n \in 0..Full, NEW c \in Int, n + lag <= c, c <= MostCredit,
               bucket' = [bucket EXCEPT ![b] = kept(n)],
               credit' = [credit EXCEPT ![b] = c]
        PROVE  bucket' \in [Buckets -> BucketState] /\ CreditCovers'
    <2>1. kept(n) \in BucketState
      BY <1>1, LimitsAreNat DEF BucketState
    <2>2. /\ bucket' \in [Buckets -> BucketState] /\ credit' \in [Buckets -> Int]
          /\ \A x \in Buckets \ {b} : bucket'[x] = bucket[x] /\ credit'[x] = credit[x]
          /\ bucket'[b] = kept(n) /\ credit'[b] = c
      BY <1>1, <1>2, <1>4, <2>1
    <2>3. kept(n).level = n /\ kept(n).idle = lag /\ kept(n).held = TRUE
      OBVIOUS
    <2> HIDE DEF kept
    <2> QED BY <1>4, <2>2, <2>3 DEF SessionsInv, CreditCovers
  <1>5. CASE level >= Every
    <2> DEFINE q == [request[r] EXCEPT !.pc = "allowed", !.lag = 0]
    <2>1. /\ q \in RequestState /\ q.pc = "allowed" /\ q.op = request[r].op
          /\ q.token = request[r].token /\ q.late = request[r].late
          /\ q.wasAdmin = request[r].wasAdmin
      <3>1. 0 \in 0..MaxLag
        BY LimitsAreNat
      <3> QED BY <1>1, <3>1 DEF RequestState
    <2>2. /\ bucket' = [bucket EXCEPT ![b] = kept(level - Every)]
          /\ credit' = [credit EXCEPT ![b] = due - Every]
          /\ request' = [request EXCEPT ![r] = q] /\ request[r].pc = "limiting"
          /\ UNCHANGED <<token, revoked, admins, sweeper, signedOut>>
      BY <1>3, <1>5, LimitsAreNat DEF Allow, level, due, b, lag
    <2>3. RequestFits(q)
      BY <1>1, <2>1, <2>2 DEF RequestFits, LetIn
    <2>4. bucket' \in [Buckets -> BucketState] /\ CreditCovers'
      <3>1. /\ level - Every \in 0..Full /\ due - Every \in Int
            /\ (level - Every) + lag <= due - Every /\ due - Every <= MostCredit
        BY <1>1, <1>3, <1>5, LimitsAreNat
      <3> QED BY <1>4, <2>2, <3>1
    <2> QED BY <2>1, <2>2, <2>3, <2>4, RequestMoves
  <1>6. CASE ~(level >= Every)
    <2>1. /\ bucket' = [bucket EXCEPT ![b] = kept(level)]
          /\ credit' = [credit EXCEPT ![b] = due]
          /\ Answer(r) /\ UNCHANGED <<token, revoked, admins, sweeper, signedOut>>
      BY <1>6 DEF Allow, level, due, b, lag
    <2>2. bucket' \in [Buckets -> BucketState] /\ CreditCovers'
      BY <1>3, <1>4, <2>1
    <2>3. RequestFits(IdleRequest)
      BY IdleFits DEF RequestFits
    <2> QED BY <2>1, <2>2, <2>3, IdleFits, RequestMoves DEF Answer
  <1> QED BY <1>5, <1>6

(* What every step that only touches the tokens and the requests leaves. *)
LEMMA BucketsRest ==
    ASSUME SessionsInv, UNCHANGED <<bucket, credit>>
    PROVE  bucket' \in [Buckets -> BucketState] /\ CreditCovers'
  BY DEF SessionsInv, SessionsTypeOK, CreditCovers

(* A new token belongs to no request that is under way. *)
LEMMA LoginKeepsInv ==
    ASSUME SessionsInv, NEW r \in Requests, NEW u \in Users, NEW t \in Tokens,
           Login(r, u, t)
    PROVE  SessionsInv'
  <1>1. [user |-> u, left |-> TokenTTL] \in TokenState
    BY SessionsAssumption DEF TokenState
  <1>2. /\ token \in [Tokens -> TokenState] /\ token[t].user = NoUser
        /\ token' = [token EXCEPT ![t] = [user |-> u, left |-> TokenTTL]]
        /\ request' = [request EXCEPT ![r] = IdleRequest]
        /\ UNCHANGED <<revoked, admins, bucket, sweeper, signedOut, credit>>
    BY DEF Login, Answer, SessionsInv, SessionsTypeOK
  <1>3. /\ token' \in [Tokens -> TokenState] /\ token'[t].user = u
        /\ \A x \in Tokens \ {t} : token'[x] = token[x]
    BY <1>1, <1>2
  <1>4. t \notin revoked \cup signedOut /\ u # NoUser
    BY <1>2, SessionsAssumption DEF SessionsInv, SessionsTypeOK
  <1>5. SessionsTypeOK'
    BY <1>2, <1>3, <1>4, IdleFits DEF SessionsInv, SessionsTypeOK
  <1>6. SignedOutIsRefused'
    BY <1>2, <1>3, <1>4 DEF SessionsInv, SessionsTypeOK, SignedOutIsRefused
  <1>7. RequestsAreFormed'
    <2> SUFFICES ASSUME NEW x \in Requests PROVE RequestFits(request[x])'
      BY DEF RequestsAreFormed
    <2>1. request[x] \in RequestState /\ RequestFits(request[x])
      BY DEF SessionsInv, SessionsTypeOK, RequestsAreFormed
    <2>2. CASE x = r
      <3>1. request'[x] = IdleRequest
        BY <1>2, <2>2 DEF SessionsInv, SessionsTypeOK
      <3> QED BY <3>1, IdleFits DEF RequestFits
    <2>3. CASE x # r
      <3>1. request'[x] = request[x]
        BY <1>2, <2>3 DEF SessionsInv, SessionsTypeOK
      <3>2. request[x].token # t /\ request[x].token \in Tokens \cup {NoToken}
        BY <1>2, <2>1, SessionsAssumption DEF RequestFits, RequestState
      <3>3. request[x].token # NoToken =>
              token'[request[x].token] = token[request[x].token]
        BY <1>3, <3>2
      <3>4. request[x].late => request[x].token # NoToken
        BY <2>1, SessionsAssumption DEF RequestFits, SessionsInv, SessionsTypeOK
      <3> QED BY <1>2, <2>1, <3>1, <3>3, <3>4 DEF RequestFits
    <2> QED BY <2>2, <2>3
  <1> QED BY <1>2, <1>5, <1>6, <1>7, BucketsRest DEF SessionsInv

(* Signing out, answered or not. *)
LEMMA LogoutKeepsInv ==
    ASSUME SessionsInv, NEW r \in Requests, Logout(r) \/ LogoutUnacknowledged(r)
    PROVE  SessionsInv'
  <1> DEFINE t == request[r].token
  <1>1. /\ t \in Tokens /\ token[t].user # NoUser
        /\ revoked' = revoked \cup {t} /\ signedOut' \in {signedOut, signedOut \cup {t}}
        /\ request' = [request EXCEPT ![r] = IdleRequest]
        /\ UNCHANGED <<token, admins, bucket, sweeper, credit>>
    <2>1. request[r] \in RequestState /\ RequestFits(request[r])
      BY DEF SessionsInv, SessionsTypeOK, RequestsAreFormed
    <2>2. t # NoToken
      BY <2>1 DEF Logout, LogoutUnacknowledged, RequestFits
    <2>3. t \in Tokens /\ token[t].user # NoUser
      BY <2>1, <2>2 DEF RequestFits, RequestState
    <2> QED BY <2>3 DEF Logout, LogoutUnacknowledged, Answer
  <1> HIDE DEF t
  <1>2. SessionsTypeOK'
    BY <1>1, IdleFits DEF SessionsInv, SessionsTypeOK
  <1>3. SignedOutIsRefused'
    BY <1>1 DEF SessionsInv, SignedOutIsRefused
  <1>4. RequestsAreFormed'
    <2>1. /\ request'[r] = IdleRequest
          /\ \A x \in Requests \ {r} : request'[x] = request[x]
      BY <1>1 DEF SessionsInv, SessionsTypeOK
    <2> QED BY <1>1, <2>1, IdleFits DEF SessionsInv, RequestsAreFormed, RequestFits
  <1> QED BY <1>1, <1>2, <1>3, <1>4, BucketsRest DEF SessionsInv

(* A role that is given is seen by the requests of its user. *)
LEMMA SetRoleKeepsInv ==
    ASSUME SessionsInv, NEW u \in Users, NEW admin \in BOOLEAN, SetRole(u, admin)
    PROVE  SessionsInv'
  <1>1. UNCHANGED <<token, revoked, bucket, sweeper, signedOut, credit>>
        /\ admins' \subseteq Users /\ (~admin => admins' \subseteq admins)
        /\ admins' \subseteq admins \cup {u}
    BY DEF SetRole, SessionsInv, SessionsTypeOK
  <1>2. ASSUME NEW r \in Requests
        PROVE  request'[r] \in RequestState /\ RequestFits(request[r])'
    <2>1. request[r] \in RequestState /\ RequestFits(request[r])
      BY DEF SessionsInv, SessionsTypeOK, RequestsAreFormed
    <2>2. CASE admin /\ request[r].token # NoToken /\ token[request[r].token].user = u
      <3>1. request'[r] = [request[r] EXCEPT !.wasAdmin = TRUE]
        BY <2>2 DEF SetRole
      <3>2. /\ request'[r] \in RequestState /\ request'[r].wasAdmin = TRUE
            /\ request'[r].pc = request[r].pc /\ request'[r].op = request[r].op
            /\ request'[r].token = request[r].token
            /\ request'[r].late = request[r].late
        BY <2>1, <3>1 DEF RequestState
      <3> QED BY <1>1, <2>1, <3>2 DEF RequestFits
    <2>3. CASE ~(admin /\ request[r].token # NoToken
                 /\ token[request[r].token].user = u)
      <3>1. request'[r] = request[r]
        BY <2>3 DEF SetRole
      <3>2. request[r].token # NoToken /\ token[request[r].token].user \in admins'
              => token[request[r].token].user \in admins
        BY <1>1, <2>3
      <3> QED BY <1>1, <2>1, <3>1, <3>2 DEF RequestFits
    <2> QED BY <2>2, <2>3
  <1>3. request' = [r \in Requests |-> request'[r]]
    BY DEF SetRole
  <1>4. SessionsTypeOK' /\ RequestsAreFormed'
    BY <1>1, <1>2, <1>3 DEF SessionsInv, SessionsTypeOK, RequestsAreFormed
  <1>5. SignedOutIsRefused'
    BY <1>1 DEF SessionsInv, SignedOutIsRefused
  <1> QED BY <1>1, <1>4, <1>5, BucketsRest DEF SessionsInv

(* The sweep forgets only tokens that had expired when it read the clock. *)
LEMMA SweepKeepsInv ==
    ASSUME SessionsInv, BeginSweep \/ DeleteExpired \/ SweepRevocationsFails
    PROVE  SessionsInv'
  <1>1. /\ UNCHANGED <<token, admins, bucket, request, signedOut, credit>>
        /\ revoked' \subseteq revoked
        /\ sweeper' \in [pc : {"idle", "sweeping"}, lag : 0..MaxLag]
    BY SessionsAssumption DEF BeginSweep, DeleteExpired, SweepRevocationsFails
  <1>2. \A t \in revoked \ revoked' : token[t].left <= 0
    <2> SUFFICES ASSUME NEW t \in revoked \ revoked' PROVE token[t].left <= 0
      OBVIOUS
    <2>1. token[t].left \in Int /\ sweeper.lag \in Nat
      BY SessionsAssumption DEF SessionsInv, SessionsTypeOK, TokenState
    <2>2. ~(token[t].left + sweeper.lag > 0)
      BY DEF BeginSweep, DeleteExpired, SweepRevocationsFails
    <2> QED BY <2>1, <2>2
  <1>3. SessionsTypeOK'
    BY <1>1 DEF SessionsInv, SessionsTypeOK
  <1>4. SignedOutIsRefused'
    BY <1>1, <1>2 DEF SessionsInv, SignedOutIsRefused
  <1>5. RequestsAreFormed'
    BY <1>1 DEF SessionsInv, RequestsAreFormed, RequestFits
  <1> QED BY <1>1, <1>3, <1>4, <1>5, BucketsRest DEF SessionsInv

(* A bucket idle for longer than it is kept lacks at most what its eviction *)
(* is taken to forgive.                                                     *)
LEMMA CleanupKeepsInv == ASSUME SessionsInv, Cleanup PROVE SessionsInv'
  <1>1. PICK lag \in 0..MaxLag :
          Evict({b \in Buckets : bucket[b].held /\ bucket[b].idle - lag > RateLimitTTL})
    BY DEF Cleanup
  <1> DEFINE S == {b \in Buckets : bucket[b].held /\ bucket[b].idle - lag > RateLimitTTL}
             Owed(b) == Min({MostCredit, credit[b] + Forgiven})
  <1>2. /\ UNCHANGED <<token, revoked, admins, request, sweeper, signedOut>>
        /\ bucket' = [b \in Buckets |-> IF b \in S THEN NoBucket ELSE bucket[b]]
        /\ credit' = [b \in Buckets |-> IF b \in S THEN Owed(b) ELSE credit[b]]
    BY <1>1 DEF Evict
  <1>3. ASSUME NEW b \in S PROVE Owed(b) = MostCredit
    <2>1. /\ bucket[b].level \in Nat /\ bucket[b].idle \in Nat
          /\ bucket[b].held /\ bucket[b].idle - lag > RateLimitTTL
      BY LimitsAreNat DEF SessionsInv, SessionsTypeOK, BucketState
    <2>2. /\ credit[b] \in Int /\ credit[b] <= MostCredit
          /\ bucket[b].held /\ credit[b] < MostCredit
               => bucket[b].level + bucket[b].idle <= credit[b]
      BY DEF SessionsInv, CreditCovers
    <2>3. Owed(b) = IF MostCredit <= credit[b] + Forgiven THEN MostCredit
                    ELSE credit[b] + Forgiven
      BY <2>2, MinOfTwo, LimitsAreNat
    <2> HIDE DEF Owed
    <2> QED BY <2>1, <2>2, <2>3, LimitsAreNat
  <1> HIDE DEF S, Owed
  <1>4. bucket' \in [Buckets -> BucketState]
    BY <1>2, NoBucketFits DEF SessionsInv, SessionsTypeOK
  <1>5. CreditCovers'
    <2>1. ASSUME NEW b \in Buckets, b \in S
          PROVE  bucket'[b] = NoBucket /\ credit'[b] = MostCredit
      BY <1>2, <1>3, <2>1
    <2>2. ASSUME NEW b \in Buckets, b \notin S
          PROVE  bucket'[b] = bucket[b] /\ credit'[b] = credit[b]
      BY <1>2, <2>2
    <2>3. \A b \in Buckets : credit'[b] \in Int
      BY <2>1, <2>2, LimitsAreNat DEF SessionsInv, CreditCovers
    <2>4. credit' \in [Buckets -> Int]
      BY <1>2, <2>3
    <2> QED BY <2>1, <2>2, <2>4, NoBucketFits, LimitsAreNat DEF SessionsInv, CreditCovers
  <1>6. SessionsTypeOK' /\ RequestsAreFormed' /\ SignedOutIsRefused'
    BY <1>2, <1>4
    DEF SessionsInv, SessionsTypeOK, RequestsAreFormed, RequestFits, SignedOutIsRefused
  <1> QED BY <1>5, <1>6 DEF SessionsInv

(* Time shortens tokens and refills a bucket no faster than a caller's      *)
(* credit.                                                                  *)
LEMMA TickKeepsInv == ASSUME SessionsInv, Tick PROVE SessionsInv'
  <1>1. UNCHANGED <<revoked, admins, signedOut>>
    BY DEF Tick
  <1>2. ASSUME NEW t \in Tokens
        PROVE  /\ token'[t] \in TokenState /\ token'[t].user = token[t].user
               /\ token[t].left <= 0 => token'[t].left <= 0
    <2>1. token[t] \in TokenState /\ token[t].left \in (-MaxLag)..TokenTTL
      BY DEF SessionsInv, SessionsTypeOK, TokenState
    <2> DEFINE left == Max({-MaxLag, token[t].left - 1})
    <2>2. left \in (-MaxLag)..TokenTTL /\ (token[t].left <= 0 => left <= 0)
      BY <2>1, MaxOfTwo, SessionsAssumption
    <2>3. token'[t] = [token[t] EXCEPT !.left = left]
      BY DEF Tick
    <2> HIDE DEF left
    <2> QED BY <2>1, <2>2, <2>3 DEF TokenState
  <1>3. ASSUME NEW b \in Buckets
        PROVE  /\ bucket'[b] \in BucketState /\ credit'[b] \in Int
               /\ credit'[b] <= MostCredit
               /\ bucket'[b].held /\ credit'[b] < MostCredit
                    => bucket'[b].level + bucket'[b].idle <= credit'[b]
               /\ ~bucket'[b].held => bucket'[b] = NoBucket /\ credit'[b] = MostCredit
    <2>1. /\ bucket[b] \in BucketState /\ bucket[b].level \in Nat
          /\ bucket[b].idle \in 0..MaxIdle
      BY LimitsAreNat DEF SessionsInv, SessionsTypeOK, BucketState
    <2>2. /\ credit[b] \in Int /\ credit[b] <= MostCredit
          /\ bucket[b].held /\ credit[b] < MostCredit
               => bucket[b].level + bucket[b].idle <= credit[b]
          /\ ~bucket[b].held => bucket[b] = NoBucket /\ credit[b] = MostCredit
      BY DEF SessionsInv, CreditCovers
    <2>3. credit'[b] = IF MostCredit <= credit[b] + 1 THEN MostCredit ELSE credit[b] + 1
      BY <2>2, MinOfTwo, LimitsAreNat DEF Tick
    <2> DEFINE idle == Min({MaxIdle, bucket[b].idle + 1})
    <2>4. idle = IF MaxIdle <= bucket[b].idle + 1 THEN MaxIdle ELSE bucket[b].idle + 1
      BY <2>1, MinOfTwo, LimitsAreNat
    <2>5. bucket'[b] = [bucket[b] EXCEPT !.idle = idle]
      BY DEF Tick
    <2> HIDE DEF idle
    <2>6. /\ bucket'[b] \in BucketState /\ bucket'[b].level = bucket[b].level
          /\ bucket'[b].idle = idle /\ bucket'[b].held = bucket[b].held
      BY <2>1, <2>4, <2>5, LimitsAreNat DEF BucketState
    <2>7. CASE bucket[b].held
      BY <2>1, <2>2, <2>3, <2>4, <2>6, <2>7, LimitsAreNat
    <2>8. CASE ~bucket[b].held
      <3>1. idle = MaxIdle
        BY <2>2, <2>4, <2>8, NoBucketFits, LimitsAreNat
      <3>2. bucket'[b] = NoBucket
        BY <2>2, <2>5, <2>8, <3>1 DEF NoBucket
      <3> QED BY <2>2, <2>3, <2>6, <2>8, <3>2, LimitsAreNat
    <2> QED BY <2>7, <2>8
  <1>4. /\ token' = [t \in Tokens |-> token'[t]]
        /\ bucket' = [b \in Buckets |-> bucket'[b]]
        /\ credit' = [b \in Buckets |-> credit'[b]]
    BY DEF Tick
  <1>5. sweeper' \in [pc : {"idle", "sweeping"}, lag : 0..MaxLag]
    <2>1. sweeper \in [pc : {"idle", "sweeping"}, lag : 0..MaxLag]
      BY DEF SessionsInv, SessionsTypeOK
    <2>2. (IF sweeper.pc = "idle" THEN 0 ELSE sweeper.lag + 1) \in 0..MaxLag
      BY <2>1, SessionsAssumption DEF Tick
    <2> QED BY <2>1, <2>2 DEF Tick
  <1>6. ASSUME NEW r \in Requests
         PROVE  /\ request'[r] \in RequestState
                /\ request'[r].pc = request[r].pc /\ request'[r].op = request[r].op
                /\ request'[r].token = request[r].token
                /\ request'[r].late = request[r].late
                /\ request'[r].wasAdmin = request[r].wasAdmin
    <2>1. request[r] \in RequestState /\ request[r].lag \in 0..MaxLag
      BY DEF SessionsInv, SessionsTypeOK, RequestState
    <2> DEFINE lag == IF request[r].pc = "limiting" THEN request[r].lag + 1
                      ELSE request[r].lag
    <2>2. lag \in 0..MaxLag
      BY <2>1, LimitsAreNat DEF Tick
    <2>3. request'[r] = [request[r] EXCEPT !.lag = lag]
      BY DEF Tick
    <2> HIDE DEF lag
    <2> QED BY <2>1, <2>2, <2>3 DEF RequestState
  <1>7. request' = [r \in Requests |-> request'[r]]
    BY DEF Tick
  <1>8. SessionsTypeOK'
    BY <1>1, <1>2, <1>3, <1>4, <1>5, <1>6, <1>7 DEF SessionsInv, SessionsTypeOK
  <1>9. CreditCovers'
    BY <1>3, <1>4 DEF CreditCovers
  <1>10. SignedOutIsRefused'
    BY <1>1, <1>2 DEF SessionsInv, SessionsTypeOK, SignedOutIsRefused
  <1>11. RequestsAreFormed'
    <2> SUFFICES ASSUME NEW r \in Requests PROVE RequestFits(request[r])'
      BY DEF RequestsAreFormed
    <2>1. request[r] \in RequestState /\ RequestFits(request[r])
      BY DEF SessionsInv, SessionsTypeOK, RequestsAreFormed
    <2>2. /\ request[r].token # NoToken => request[r].token \in Tokens
          /\ request[r].late => request[r].token \in Tokens
      BY <2>1 DEF RequestState, RequestFits, SessionsInv, SessionsTypeOK
    <2> QED BY <1>1, <1>2, <1>6, <2>1, <2>2 DEF RequestFits
  <1> QED BY <1>8, <1>9, <1>10, <1>11 DEF SessionsInv

-----------------------------------------------------------------------------
(* Theorems *)

LEMMA SessionsInitInv == SessionsInit => SessionsInv
  <1> SUFFICES ASSUME SessionsInit PROVE SessionsInv
    OBVIOUS
  <1>1. [user |-> NoUser, left |-> 0] \in TokenState
    BY SessionsAssumption DEF TokenState
  <1>2. SessionsTypeOK
    BY <1>1, IdleFits, NoBucketFits, SessionsAssumption DEF SessionsInit, SessionsTypeOK
  <1>3. RequestsAreFormed
    BY IdleFits DEF SessionsInit, RequestsAreFormed, RequestFits
  <1>4. CreditCovers /\ SignedOutIsRefused
    BY NoBucketFits, LimitsAreNat DEF SessionsInit, CreditCovers, SignedOutIsRefused
  <1> QED BY <1>2, <1>3, <1>4 DEF SessionsInv

LEMMA SessionsNextInv == SessionsInv /\ [SessionsNext]_sessionVars => SessionsInv'
  <1> SUFFICES ASSUME SessionsInv, [SessionsNext]_sessionVars PROVE SessionsInv'
    OBVIOUS
  <1>1. ASSUME NEW r \in Requests, RequestFails(r) \/ Serve(r) \/ Administer(r)
        PROVE  SessionsInv'
    BY <1>1, AnswerKeepsInv DEF RequestFails, Serve, Administer
  <1>2. ASSUME NEW r \in Requests, RequestStep(r) PROVE SessionsInv'
    BY <1>1, <1>2, ArrivalKeepsInv, VerifyKeepsInv, PassKeepsInv, AllowKeepsInv,
       LoginKeepsInv, LogoutKeepsInv DEF RequestStep
  <1>3. CASE UNCHANGED sessionVars
    BY <1>3 DEF sessionVars, SessionsInv, SessionsTypeOK, RequestsAreFormed,
                RequestFits, SignedOutIsRefused, CreditCovers
  <1> QED BY <1>2, <1>3, SetRoleKeepsInv, SweepKeepsInv, CleanupKeepsInv,
             TickKeepsInv DEF SessionsNext

THEOREM SessionsInvHolds == SessionsSpec => []SessionsInv
  BY SessionsInitInv, SessionsNextInv, PTL DEF SessionsSpec

(* Tokens, revocations, buckets and requests keep their shape: no bucket is *)
(* overdrawn or overfull, and nothing is revoked that was never issued.     *)
THEOREM SessionsTypeCorrect == SessionsSpec => []SessionsTypeOK
  BY SessionsInvHolds, PTL DEF SessionsInv

(* A request that came in after its token was signed out never gets past    *)
(* Authenticate while the token is alive, whatever the sweeper of           *)
(* revocations does between its two checks.                                 *)
THEOREM SignedOutAlwaysStaysOut == SessionsSpec => []SignedOutStaysOut
  <1>1. SessionsInv => SignedOutStaysOut
    BY DEF SessionsInv, RequestsAreFormed, RequestFits, SignedOutStaysOut
  <1> QED BY <1>1, SessionsInvHolds, PTL

(* Nobody is let through more often than their policy says, but for at most *)
(* MaxLag of refill when a request's clock reading was overtaken while it   *)
(* waited for the lock, and for what an evicted bucket could still lack.    *)
THEOREM RateAlwaysHolds == SessionsSpec => []RateHolds
  <1>1. SessionsInv => RateHolds
    <2> SUFFICES ASSUME SessionsInv, NEW b \in Buckets PROVE credit[b] >= 0
      BY DEF RateHolds
    <2>1. bucket[b].level \in Nat /\ bucket[b].idle \in Nat
      BY LimitsAreNat DEF SessionsInv, SessionsTypeOK, BucketState
    <2>2. /\ credit[b] \in Int /\ credit[b] <= MostCredit
          /\ bucket[b].held /\ credit[b] < MostCredit
               => bucket[b].level + bucket[b].idle <= credit[b]
          /\ ~bucket[b].held => credit[b] = MostCredit
      BY DEF SessionsInv, CreditCovers
    <2> QED BY <2>1, <2>2, LimitsAreNat
  <1> QED BY <1>1, SessionsInvHolds, PTL

(* An administrative route runs only for a user who held the role while the *)
(* request was under way.                                                   *)
THEOREM OnlyAdminsAdminister == SessionsSpec => []AdminsOnly
  <1>1. SessionsInv => AdminsOnly
    BY DEF SessionsInv, RequestsAreFormed, RequestFits, AdminsOnly
  <1> QED BY <1>1, SessionsInvHolds, PTL
=============================================================================
