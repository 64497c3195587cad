---------------------------- MODULE AccountsProofs ----------------------------
(***************************************************************************)
(* Proofs about Accounts: a verification link works once and only for the  *)
(* address and the account it was mailed for, two senders never mail the   *)
(* same link, none is lost but by a fault, and no request undoes what      *)
(* another did to an account; for any number of addresses, links, requests *)
(* and senders, any lifetime and any batch.                                *)
(***************************************************************************)
EXTENDS Accounts, TLAPS

LEMMA SomeAddress == (CHOOSE a \in Addresses : TRUE) \in Addresses
  BY AccountsAssumption

LEMMA NoAccountFits == NoAccount \in Account /\ NoAccount.id = NoUser /\ NoAccount.verified = FALSE
  BY DEF NoAccount, Account

LEMMA IdleFits ==
    /\ IdleRequest \in RequestState
    /\ IdleRequest.pc = "idle" /\ IdleRequest.user = NoAccount
    /\ IdleRequest.link = NoLink /\ IdleRequest.usable = FALSE
  BY SomeAddress, NoAccountFits DEF IdleRequest, RequestState

LEMMA IdleSenderFits ==
    /\ IdleSender \in SenderState
    /\ IdleSender.pc = "idle" /\ IdleSender.hand = {} /\ IdleSender.back = NoLink
  BY DEF IdleSender, SenderState

LEMMA NoRowFits ==
    NoRow \in LinkState /\ NoRow.state = "undrawn" /\ NoRow.sent = FALSE
  BY SomeAddress, AccountsAssumption DEF NoRow, LinkState

(* A deleted row still says for whom it was, and is neither sent nor alive. *)
LEMMA GoneFits ==
    ASSUME NEW row \in LinkState
    PROVE  /\ Gone(row) \in LinkState /\ Gone(row).state = "gone" /\ Gone(row).sent = FALSE
           /\ Gone(row).user = row.user /\ Gone(row).email = row.email
  <1>1. 0 \in 0..VerificationTTL
    BY AccountsAssumption
  <1> QED BY <1>1 DEF Gone, LinkState

(* A new account is an account, and has the id it was given. *)
LEMMA NewUserFits ==
    ASSUME NEW u \in Users
    PROVE  NewUser(u) \in Account /\ NewUser(u).id = u /\ NewUser(u).verified = FALSE
  BY DEF NewUser, Account

-----------------------------------------------------------------------------
(* Steps of requests that leave the links and the senders alone. *)
LEMMA SendersStay ==
    ASSUME AccountsInv, UNCHANGED <<link, sender, mailed, spent, misreported, dropped>>,
           AccountsTypeOK', AccountsAreFormed', RequestsAreFormed', CreatedApart',
           VerifiedByLink'
    PROVE  AccountsInv'
  BY DEF AccountsInv, LinksAreFormed, SendersAreFormed, LinkSpentOnce, MailedOnce,
         SentOrInHand

(* A request goes on, over the accounts and the links as they are. *)
LEMMA RequestMoves ==
    ASSUME AccountsInv, NEW r \in Requests, NEW q \in RequestState, RequestFits(q),
           q.pc # "creating",
           request' = [request EXCEPT ![r] = q],
           UNCHANGED <<account, drawn, link, sender, mailed, spent, misreported, dropped>>
    PROVE  AccountsInv'
  <1>1. AccountsTypeOK'
    BY DEF AccountsInv, AccountsTypeOK
  <1>2. request'[r] = q /\ \A x \in Requests \ {r} : request'[x] = request[x]
    BY DEF AccountsInv, AccountsTypeOK
  <1>3. RequestsAreFormed'
    BY <1>2 DEF AccountsInv, RequestsAreFormed, RequestFits
  <1>4. CreatedApart'
    BY <1>2 DEF AccountsInv, CreatedApart
  <1>5. AccountsAreFormed' /\ VerifiedByLink'
    BY DEF AccountsInv, AccountsAreFormed, VerifiedByLink
  <1> QED BY <1>1, <1>3, <1>4, <1>5, SendersStay

LEMMA OverKeepsInv ==
    ASSUME AccountsInv, NEW r \in Requests, Over(r),
           UNCHANGED <<account, drawn, link, sender, mailed, spent, misreported, dropped>>
    PROVE  AccountsInv'
  <1>1. RequestFits(IdleRequest)
    BY IdleFits DEF RequestFits
  <1> QED BY <1>1, IdleFits, RequestMoves DEF Over

LEMMA BeginRegisterKeepsInv ==
    ASSUME AccountsInv, NEW r \in Requests, NEW a \in Addresses, NEW u \in Users,
           BeginRegister(r, a, u)
    PROVE  AccountsInv'
  <1> DEFINE q == [IdleRequest EXCEPT !.pc = "creating", !.email = a, !.user = NewUser(u)]
  <1>1. q \in RequestState /\ q.pc = "creating" /\ q.user = NewUser(u) /\ q.user.id = u
    BY IdleFits, NewUserFits DEF RequestState, IdleRequest
  <1>2. request' = [request EXCEPT ![r] = q] /\ drawn' = drawn \cup {u} /\ u \notin drawn
        /\ UNCHANGED <<account, link, sender, mailed, spent, misreported, dropped>>
    BY DEF BeginRegister
  <1> HIDE DEF q
  <1>3. AccountsTypeOK'
    BY <1>1, <1>2 DEF AccountsInv, AccountsTypeOK
  <1>4. request'[r] = q /\ \A x \in Requests \ {r} : request'[x] = request[x]
    BY <1>2 DEF AccountsInv, AccountsTypeOK
  <1>5. \A b \in Addresses : account[b].id # u
    BY <1>2, AccountsAssumption DEF AccountsInv, AccountsAreFormed
  <1>6. RequestsAreFormed'
    BY <1>1, <1>2, <1>4, <1>5 DEF AccountsInv, RequestsAreFormed, RequestFits
  <1>7. CreatedApart'
    BY <1>1, <1>2, <1>4 DEF AccountsInv, CreatedApart, RequestsAreFormed, RequestFits
  <1>8. AccountsAreFormed' /\ VerifiedByLink'
    BY <1>2 DEF AccountsInv, AccountsAreFormed, VerifiedByLink
  <1> QED BY <1>2, <1>3, <1>6, <1>7, <1>8, SendersStay

(* An account is stored for the first time, for a request that then is in q. *)
LEMMA StoreKeepsInv ==
    ASSUME AccountsInv, NEW r \in Requests, NEW q \in RequestState,
           request[r].pc = "creating", account[request[r].email] = NoAccount,
           account' = [account EXCEPT ![request[r].email] = request[r].user],
           request' = [request EXCEPT ![r] = q],
           q.pc = "idle" \/ (q.pc = "issuing" /\ q.user = request[r].user),
           UNCHANGED <<drawn, link, sender, mailed, spent, misreported, dropped>>
    PROVE  AccountsInv'
  <1> DEFINE e == request[r].email
             u == request[r].user.id
  <1>1. /\ request[r] \in RequestState /\ RequestFits(request[r])
        /\ e \in Addresses /\ request[r].user \in Account
    BY DEF AccountsInv, AccountsTypeOK, RequestsAreFormed, RequestState
  <1>2. /\ u \in drawn /\ u \in Users /\ u # NoUser /\ request[r].user = NewUser(u)
        /\ \A b \in Addresses : account[b].id # u
    BY <1>1, AccountsAssumption DEF RequestFits, AccountsInv, AccountsTypeOK
  <1>3. account'[e] = NewUser(u) /\ \A b \in Addresses \ {e} : account'[b] = account[b]
    BY <1>1, <1>2 DEF AccountsInv, AccountsTypeOK
  <1>4. NewUser(u).id = u /\ NewUser(u).verified = FALSE
    BY <1>2, NewUserFits
  <1>5. request'[r] = q /\ \A x \in Requests \ {r} : request'[x] = request[x]
    BY DEF AccountsInv, AccountsTypeOK
  <1>t. account' \in [Addresses -> Account]
    BY <1>1 DEF AccountsInv, AccountsTypeOK
  <1> HIDE DEF e, u
  <1>6. \A a, b \in Addresses :
          a # b /\ account'[a] # NoAccount => account'[a].id # account'[b].id
    BY <1>2, <1>3, <1>4, NoAccountFits DEF AccountsInv, AccountsTypeOK
  <1>7. AccountsTypeOK'
    BY <1>t, <1>6 DEF AccountsInv, AccountsTypeOK, NoAccount
  <1>8. AccountsAreFormed'
    <2>1. \A a \in Addresses :
            /\ account'[a].id = NoUser => account'[a] = NoAccount
            /\ account'[a].id # NoUser => account'[a].id \in drawn
      BY <1>2, <1>3, <1>4 DEF AccountsInv, AccountsAreFormed
    <2> QED BY <2>1 DEF AccountsAreFormed, NoAccount
  <1>9. ASSUME NEW x \in Requests
        PROVE  RequestFits(request[x])' 
    <2>1. CASE x = r
      BY <2>1, <1>2, <1>5 DEF RequestFits, u
    <2>2. CASE x # r
      <3>1. RequestFits(request[x]) /\ request'[x] = request[x]
        BY <2>2, <1>5 DEF AccountsInv, RequestsAreFormed
      <3>2. request[x].pc = "creating" =>
              /\ request[x].user.id # u
              /\ \A b \in Addresses : account'[b].id # request[x].user.id
        BY <2>2, <3>1, <1>3, <1>4 DEF AccountsInv, CreatedApart, RequestFits, u
      <3>3. request[x].pc = "upgrading" => account'[request[x].email] # NoAccount
        <4>1. request[x].email \in Addresses
          BY DEF AccountsInv, AccountsTypeOK, RequestState
        <4>2. NewUser(u) # NoAccount
          BY <1>2, <1>4, NoAccountFits
        <4>3. request[x].pc = "upgrading" => account[request[x].email] # NoAccount
          BY <3>1 DEF RequestFits
        <4> QED BY <4>1, <4>2, <4>3, <1>3
      <3> QED BY <3>1, <3>2, <3>3 DEF RequestFits
    <2> QED BY <2>1, <2>2
  <1>10. RequestsAreFormed'
    BY <1>9 DEF RequestsAreFormed
  <1>11. CreatedApart'
    BY <1>5 DEF AccountsInv, CreatedApart
  <1>12. VerifiedByLink'
    BY <1>3, <1>4 DEF AccountsInv, VerifiedByLink
  <1> QED BY <1>7, <1>8, <1>10, <1>11, <1>12, SendersStay

LEMMA CreateKeepsInv ==
    ASSUME AccountsInv, NEW r \in Requests,
           CreateUser(r) \/ CreateUserUnacknowledged(r)
    PROVE  AccountsInv'
  <1>1. CASE account[request[r].email] # NoAccount
    BY <1>1, OverKeepsInv DEF CreateUser, CreateUserUnacknowledged
  <1>2. CASE account[request[r].email] = NoAccount /\ Over(r)
    BY <1>2, IdleFits, StoreKeepsInv DEF CreateUser, CreateUserUnacknowledged, Over
  <1>3. CASE account[request[r].email] = NoAccount /\ ~Over(r)
    <2> DEFINE q == [request[r] EXCEPT !.pc = "issuing"]
    <2>1. q \in RequestState /\ q.pc = "issuing" /\ q.user = request[r].user
      BY DEF AccountsInv, AccountsTypeOK, RequestState
    <2>2. request' = [request EXCEPT ![r] = q]
      BY <1>3 DEF CreateUser, CreateUserUnacknowledged
    <2> QED BY <1>3, <2>1, <2>2, StoreKeepsInv DEF CreateUser, CreateUserUnacknowledged
  <1> QED BY <1>1, <1>2, <1>3

(* An account is changed where it is: its id stays, and it is verified only when *)
(* it was or when a link mailed for it was followed.                             *)
LEMMA ChangeKeepsInv ==
    ASSUME AccountsInv, NEW a \in Addresses, NEW v \in Account,
           account[a] # NoAccount, v.id = account[a].id,
           v.verified =>
             \/ account[a].verified
             \/ \E l \in mailed \cap spent : link[l].user = v.id /\ link[l].email = a,
           account' = [account EXCEPT ![a] = v],
           request' = request \/ (\E r \in Requests : Over(r)),
           UNCHANGED <<drawn, link, sender, mailed, spent, misreported, dropped>>
    PROVE  AccountsInv'
  <1>1. account'[a] = v /\ \A b \in Addresses \ {a} : account'[b] = account[b]
    BY DEF AccountsInv, AccountsTypeOK
  <1>2. account[a].id # NoUser /\ v # NoAccount
    BY NoAccountFits DEF AccountsInv, AccountsAreFormed
  <1>3. account' \in [Addresses -> Account]
    BY DEF AccountsInv, AccountsTypeOK
  <1>4. /\ request' \in [Requests -> RequestState]
        /\ \A x \in Requests : request'[x] = request[x] \/ request'[x] = IdleRequest
    BY IdleFits DEF AccountsInv, AccountsTypeOK, Over
  <1>5. \A b, c \in Addresses :
          b # c /\ account'[b] # NoAccount => account'[b].id # account'[c].id
    BY <1>1 DEF AccountsInv, AccountsTypeOK
  <1>6. AccountsTypeOK'
    BY <1>3, <1>4, <1>5 DEF AccountsInv, AccountsTypeOK
  <1>7. AccountsAreFormed'
    BY <1>1, <1>2 DEF AccountsInv, AccountsAreFormed
  <1>8. ASSUME NEW x \in Requests
        PROVE  RequestFits(request[x])'
    <2>1. CASE request'[x] = IdleRequest
      BY <2>1, IdleFits DEF RequestFits
    <2>2. CASE request'[x] = request[x]
      <3>1. RequestFits(request[x])
        BY DEF AccountsInv, RequestsAreFormed
      <3>2. \A b \in Addresses : account'[b].id = account[b].id
        BY <1>1
      <3>3. request[x].email \in Addresses
        BY DEF AccountsInv, AccountsTypeOK, RequestState
      <3>4. request[x].pc = "upgrading" => account'[request[x].email] # NoAccount
        BY <3>1, <3>3, <1>1, <1>2 DEF RequestFits
      <3> QED BY <2>2, <3>1, <3>2, <3>4 DEF RequestFits
    <2> QED BY <2>1, <2>2, <1>4
  <1>9. RequestsAreFormed'
    BY <1>8 DEF RequestsAreFormed
  <1>10. CreatedApart'
    BY <1>4, IdleFits DEF AccountsInv, CreatedApart
  <1>11. VerifiedByLink'
    <2>1. ASSUME NEW b \in Addresses, account'[b].verified
          PROVE  \E l \in mailed \cap spent :
                   link[l].user = account'[b].id /\ link[l].email = b
      BY <2>1, <1>1 DEF AccountsInv, VerifiedByLink
    <2> QED BY <2>1 DEF VerifiedByLink
  <1> QED BY <1>6, <1>7, <1>9, <1>10, <1>11, SendersStay

LEMMA UpdatePasswordHashKeepsInv ==
    ASSUME AccountsInv, NEW r \in Requests, UpdatePasswordHash(r)
    PROVE  AccountsInv'
  <1> DEFINE a == request[r].email
             v == [account[a] EXCEPT !.hash = "new"]
  <1>1. a \in Addresses /\ account[a] # NoAccount /\ account[a] \in Account
    BY DEF AccountsInv, AccountsTypeOK, RequestState, RequestsAreFormed, RequestFits,
           UpdatePasswordHash
  <1>2. v \in Account /\ v.id = account[a].id /\ v.verified = account[a].verified
    BY <1>1 DEF Account
  <1>3. account' = [account EXCEPT ![a] = v] /\ Over(r)
        /\ UNCHANGED <<drawn, link, sender, mailed, spent, misreported, dropped>>
    BY DEF UpdatePasswordHash
  <1> HIDE DEF a, v
  <1> QED BY <1>1, <1>2, <1>3, ChangeKeepsInv

LEMMA SetRoleKeepsInv ==
    ASSUME AccountsInv, NEW a \in Addresses, NEW role \in {"customer", "admin"},
           SetRole(a, role)
    PROVE  AccountsInv'
  <1> DEFINE v == [account[a] EXCEPT !.role = role]
  <1>1. account[a] \in Account
    BY DEF AccountsInv, AccountsTypeOK
  <1>2. v \in Account /\ v.id = account[a].id /\ v.verified = account[a].verified
    BY <1>1 DEF Account
  <1>3. account' = [account EXCEPT ![a] = v] /\ account[a] # NoAccount
        /\ UNCHANGED <<drawn, link, request, sender, mailed, spent, misreported, dropped>>
    BY DEF SetRole
  <1> HIDE DEF v
  <1> QED BY <1>2, <1>3, ChangeKeepsInv

(* Marking needs the link's own account, still at the link's own address. *)
LEMMA MarkEmailVerifiedKeepsInv ==
    ASSUME AccountsInv, NEW r \in Requests, MarkEmailVerified(r)
    PROVE  AccountsInv'
  <1> DEFINE l == request[r].link
             a == link[l].email
             v == [account[a] EXCEPT !.verified = TRUE]
  <1>1. l \in mailed \cap spent /\ l \in Links
    BY DEF AccountsInv, AccountsTypeOK, RequestsAreFormed, RequestFits, MarkEmailVerified
  <1>2. a \in Addresses /\ link[l].user \in Users /\ account[a] \in Account
    BY <1>1 DEF AccountsInv, AccountsTypeOK, LinkState, LinksAreFormed
  <1>3. v \in Account /\ v.id = account[a].id
    BY <1>2 DEF Account
  <1>4. /\ account' = IF account[a].id = link[l].user THEN [account EXCEPT ![a] = v]
                      ELSE account
        /\ Over(r)
        /\ UNCHANGED <<drawn, link, sender, mailed, spent, misreported, dropped>>
    BY DEF MarkEmailVerified
  <1> HIDE DEF v
  <1>5. CASE account[a].id = link[l].user
    <2>1. account[a] # NoAccount
      BY <1>2, <1>5, NoAccountFits, AccountsAssumption
    <2>2. \E k \in mailed \cap spent : link[k].user = v.id /\ link[k].email = a
      BY <1>1, <1>3, <1>5
    <2> HIDE DEF a
    <2> QED BY <1>2, <1>3, <1>4, <1>5, <2>1, <2>2, ChangeKeepsInv
  <1>6. CASE account[a].id # link[l].user
    BY <1>4, <1>6, OverKeepsInv
  <1> QED BY <1>5, <1>6

LEMMA ResendKeepsInv ==
    ASSUME AccountsInv, NEW r \in Requests, NEW a \in Addresses, Resend(r, a)
    PROVE  AccountsInv'
  <1> DEFINE q == [IdleRequest EXCEPT !.pc = "issuing", !.email = a,
                                      !.user.id = account[a].id]
  <1>1. account[a] \in Account /\ account[a].id \in Users
    BY NoAccountFits DEF Resend, AccountsInv, AccountsTypeOK, AccountsAreFormed, Account
  <1>2. q \in RequestState /\ q.pc = "issuing" /\ q.user.id = account[a].id
    BY <1>1, IdleFits, NoAccountFits DEF RequestState, Account, IdleRequest, NoAccount
  <1>3. request' = [request EXCEPT ![r] = q]
        /\ UNCHANGED <<account, drawn, link, sender, mailed, spent, misreported, dropped>>
    BY DEF Resend
  <1> HIDE DEF q
  <1>4. RequestFits(q)
    BY <1>1, <1>2 DEF RequestFits
  <1> QED BY <1>2, <1>3, <1>4, RequestMoves

LEMMA LoginKeepsInv ==
    ASSUME AccountsInv, NEW r \in Requests, NEW a \in Addresses, Login(r, a)
    PROVE  AccountsInv'
  <1> DEFINE q == [IdleRequest EXCEPT !.pc = "upgrading", !.email = a, !.user = account[a]]
  <1>1. account[a] \in Account /\ account[a] # NoAccount
    BY DEF Login, AccountsInv, AccountsTypeOK, NoAccount
  <1>2. q \in RequestState /\ q.pc = "upgrading" /\ q.email = a
    BY <1>1, IdleFits DEF RequestState, IdleRequest
  <1>3. request' = [request EXCEPT ![r] = q]
        /\ UNCHANGED <<account, drawn, link, sender, mailed, spent, misreported, dropped>>
    BY DEF Login
  <1> HIDE DEF q
  <1>4. RequestFits(q)
    BY <1>1, <1>2 DEF RequestFits
  <1> QED BY <1>2, <1>3, <1>4, RequestMoves

LEMMA BeginVerifyKeepsInv ==
    ASSUME AccountsInv, NEW r \in Requests, NEW l \in Links, BeginVerify(r, l)
    PROVE  AccountsInv'
  <1>0. PICK usable \in BOOLEAN : usable = (link[l].left > 0)
    BY (link[l].left > 0) \in BOOLEAN, Zenon
  <1> DEFINE q == [IdleRequest EXCEPT !.pc = "consuming", !.link = l, !.usable = usable]
  <1>1. q \in RequestState /\ q.pc = "consuming" /\ q.link = l
    BY IdleFits DEF RequestState, IdleRequest
  <1>2. request' = [request EXCEPT ![r] = q] /\ l \in mailed
        /\ UNCHANGED <<account, drawn, link, sender, mailed, spent, misreported, dropped>>
    BY <1>0 DEF BeginVerify
  <1> HIDE DEF q
  <1>3. RequestFits(q)
    BY <1>1, <1>2 DEF RequestFits
  <1> QED BY <1>1, <1>2, <1>3, RequestMoves

-----------------------------------------------------------------------------
(* Steps that leave the accounts alone. *)
LEMMA AccountsStay ==
    ASSUME AccountsInv, UNCHANGED <<account, drawn>>,
           mailed \subseteq mailed', spent \subseteq spent',
           \A l \in mailed \cap spent :
             link'[l].user = link[l].user /\ link'[l].email = link[l].email,
           \A x \in Requests :
             \/ request'[x] = request[x]
             \/ request'[x] = IdleRequest
             \/ request'[x].pc = "marking" /\ request'[x].link \in mailed' \cap spent',
           AccountsTypeOK', LinksAreFormed', SendersAreFormed', LinkSpentOnce',
           MailedOnce', SentOrInHand'
    PROVE  AccountsInv'
  <1>1. AccountsAreFormed'
    BY DEF AccountsInv, AccountsAreFormed
  <1>2. VerifiedByLink'
    BY DEF AccountsInv, VerifiedByLink
  <1>3. ASSUME NEW x \in Requests
        PROVE  RequestFits(request[x])'
    <2>1. CASE request'[x] = request[x]
      BY <2>1 DEF AccountsInv, RequestsAreFormed, RequestFits
    <2>2. CASE request'[x] = IdleRequest
      BY <2>2, IdleFits DEF RequestFits
    <2>3. CASE request'[x].pc = "marking" /\ request'[x].link \in mailed' \cap spent'
      BY <2>3 DEF RequestFits
    <2> QED BY <2>1, <2>2, <2>3
  <1>4. RequestsAreFormed'
    BY <1>3 DEF RequestsAreFormed
  <1>5. CreatedApart'
    BY IdleFits DEF AccountsInv, CreatedApart
  <1> QED BY <1>1, <1>2, <1>4, <1>5 DEF AccountsInv

(* A row is written that no sender knew of. *)
LEMMA IssueKeepsInv ==
    ASSUME AccountsInv, NEW r \in Requests, NEW l \in Links, Issue(r, l)
    PROVE  AccountsInv'
  <1> DEFINE row == [state |-> "live", user |-> request[r].user.id,
                     email |-> request[r].email, left |-> VerificationTTL, sent |-> FALSE]
  <1>1. /\ request[r] \in RequestState /\ request[r].user.id \in Users
    BY DEF Issue, AccountsInv, AccountsTypeOK, RequestsAreFormed, RequestFits
  <1>2. row \in LinkState /\ row.state = "live" /\ row.sent = FALSE /\ row.user \in Users
    BY <1>1, AccountsAssumption DEF RequestState, LinkState
  <1>3. link' = [link EXCEPT ![l] = row] /\ link[l].state = "undrawn"
        /\ request' = [request EXCEPT ![r] = IdleRequest]
        /\ UNCHANGED <<account, drawn, sender, mailed, spent, misreported, dropped>>
    BY DEF Issue, Over
  <1> HIDE DEF row
  <1>4. link'[l] = row /\ \A k \in Links \ {l} : link'[k] = link[k]
    BY <1>3 DEF AccountsInv, AccountsTypeOK
  <1>5. AccountsTypeOK'
    BY <1>2, <1>3, IdleFits DEF AccountsInv, AccountsTypeOK
  <1>6. l \notin mailed /\ l \notin spent /\ \A s \in Senders : l \notin sender[s].hand
    BY <1>3 DEF AccountsInv, LinksAreFormed, SendersAreFormed
  <1>7. LinksAreFormed'
    BY <1>2, <1>3, <1>4, <1>6 DEF AccountsInv, LinksAreFormed
  <1>8. SendersAreFormed'
    BY <1>3, <1>4, <1>6 DEF AccountsInv, AccountsTypeOK, SenderState, SendersAreFormed
  <1>9. LinkSpentOnce'
    BY <1>3, <1>4, <1>6 DEF AccountsInv, AccountsTypeOK, LinkSpentOnce
  <1>10. MailedOnce'
    BY <1>3 DEF AccountsInv, MailedOnce
  <1>11. SentOrInHand'
    BY <1>2, <1>3, <1>4 DEF AccountsInv, SentOrInHand
  <1>12. \A k \in mailed \cap spent : link'[k].user = link[k].user /\ link'[k].email = link[k].email
    BY <1>4, <1>6 DEF AccountsInv, AccountsTypeOK
  <1>13. \A x \in Requests : request'[x] = request[x] \/ request'[x] = IdleRequest
    BY <1>3 DEF AccountsInv, AccountsTypeOK
  <1> QED BY <1>3, <1>5, <1>7, <1>8, <1>9, <1>10, <1>11, <1>12, <1>13, AccountsStay

(* The row of a link that is followed in time is deleted. *)
LEMMA SpendKeepsInv ==
    ASSUME AccountsInv, NEW r \in Requests, NEW l \in Links,
           l \in mailed, link[l].state = "live",
           link' = [link EXCEPT ![l] = Gone(@)], spent' = spent \cup {l},
           \/ request' = [request EXCEPT ![r] = IdleRequest]
           \/ request' = [request EXCEPT ![r].pc = "marking"] /\ request[r].link = l,
           UNCHANGED <<account, drawn, sender, mailed, misreported, dropped>>
    PROVE  AccountsInv'
  <1>1. link[l] \in LinkState
    BY DEF AccountsInv, AccountsTypeOK
  <1>2. /\ Gone(link[l]) \in LinkState /\ Gone(link[l]).state = "gone"
        /\ Gone(link[l]).sent = FALSE
        /\ Gone(link[l]).user = link[l].user /\ Gone(link[l]).email = link[l].email
    BY <1>1, GoneFits
  <1>3. link'[l] = Gone(link[l]) /\ \A k \in Links \ {l} : link'[k] = link[k]
    BY DEF AccountsInv, AccountsTypeOK
  <1>4. /\ request' \in [Requests -> RequestState]
        /\ \A x \in Requests :
             \/ request'[x] = request[x]
             \/ request'[x] = IdleRequest
             \/ request'[x].pc = "marking" /\ request'[x].link \in mailed' \cap spent'
    <2>1. [request[r] EXCEPT !.pc = "marking"] \in RequestState
          /\ [request[r] EXCEPT !.pc = "marking"].pc = "marking"
          /\ [request[r] EXCEPT !.pc = "marking"].link = request[r].link
      BY DEF AccountsInv, AccountsTypeOK, RequestState
    <2>2. request \in [Requests -> RequestState]
      BY DEF AccountsInv, AccountsTypeOK
    <2>3. CASE request' = [request EXCEPT ![r] = IdleRequest]
      BY <2>2, <2>3, IdleFits
    <2>4. CASE request' = [request EXCEPT ![r].pc = "marking"] /\ request[r].link = l
      BY <2>1, <2>2, <2>4
    <2> QED BY <2>3, <2>4
  <1>5. link' \in [Links -> LinkState]
    BY <1>2 DEF AccountsInv, AccountsTypeOK
  <1> HIDE DEF Gone
  <1>6. AccountsTypeOK'
    BY <1>4, <1>5 DEF AccountsInv, AccountsTypeOK
  <1>7. LinksAreFormed'
    BY <1>2, <1>3 DEF AccountsInv, LinksAreFormed
  <1>8. SendersAreFormed'
    BY <1>2, <1>3 DEF AccountsInv, AccountsTypeOK, SenderState, SendersAreFormed
  <1>9. LinkSpentOnce'
    BY <1>2, <1>3 DEF AccountsInv, AccountsTypeOK, LinkSpentOnce
  <1>10. MailedOnce'
    BY DEF AccountsInv, MailedOnce
  <1>11. SentOrInHand'
    BY <1>2, <1>3 DEF AccountsInv, SentOrInHand
  <1>12. \A k \in mailed \cap spent : link'[k].user = link[k].user /\ link'[k].email = link[k].email
    BY <1>2, <1>3 DEF AccountsInv, AccountsTypeOK
  <1> QED BY <1>4, <1>6, <1>7, <1>8, <1>9, <1>10, <1>11, <1>12, AccountsStay

LEMMA ConsumeKeepsInv ==
    ASSUME AccountsInv, NEW r \in Requests, Consume(r) \/ ConsumeUnacknowledged(r)
    PROVE  AccountsInv'
  <1> DEFINE l == request[r].link
  <1>1. l \in mailed /\ l \in Links
    BY DEF Consume, ConsumeUnacknowledged, AccountsInv, AccountsTypeOK, RequestsAreFormed,
           RequestFits
  <1>2. CASE Over(r) /\ spent' = spent /\ link' = link
    BY <1>2, OverKeepsInv DEF Consume, ConsumeUnacknowledged
  <1>3. CASE ~(Over(r) /\ spent' = spent /\ link' = link)
    <2>1. /\ link[l].state = "live"
          /\ link' = [link EXCEPT ![l] = Gone(@)] /\ spent' = spent \cup {l}
          /\ \/ request' = [request EXCEPT ![r] = IdleRequest]
             \/ request' = [request EXCEPT ![r].pc = "marking"]
          /\ UNCHANGED <<account, drawn, sender, mailed, misreported, dropped>>
      BY <1>3 DEF Consume, ConsumeUnacknowledged, Over
    <2> QED BY <1>1, <2>1, SpendKeepsInv
  <1> QED BY <1>2, <1>3

(* Time only takes life from the links. *)
LEMMA TickKeepsInv ==
    ASSUME AccountsInv, Tick
    PROVE  AccountsInv'
  <1>1. ASSUME NEW k \in Links
        PROVE  /\ link'[k] \in LinkState /\ link'[k].state = link[k].state
               /\ link'[k].user = link[k].user /\ link'[k].email = link[k].email
               /\ link'[k].sent = link[k].sent
    <2>1. link[k] \in LinkState
      BY DEF AccountsInv, AccountsTypeOK
    <2>2. PICK n \in 0..VerificationTTL : n = IF link[k].left = 0 THEN 0 ELSE link[k].left - 1
      BY <2>1, AccountsAssumption DEF LinkState
    <2>3. link'[k] = [link[k] EXCEPT !.left = n]
      BY <2>2 DEF Tick
    <2> QED BY <2>1, <2>3 DEF LinkState
  <1>2. AccountsTypeOK'
    BY <1>1 DEF Tick, AccountsInv, AccountsTypeOK
  <1>3. LinksAreFormed'
    BY <1>1 DEF Tick, AccountsInv, LinksAreFormed
  <1>4. SendersAreFormed'
    BY <1>1 DEF Tick, AccountsInv, AccountsTypeOK, SenderState, SendersAreFormed
  <1>5. LinkSpentOnce'
    BY <1>1 DEF Tick, AccountsInv, AccountsTypeOK, LinkSpentOnce
  <1>6. MailedOnce' /\ SentOrInHand'
    BY <1>1 DEF Tick, AccountsInv, MailedOnce, SentOrInHand
  <1>7. \A k \in mailed \cap spent : link'[k].user = link[k].user /\ link'[k].email = link[k].email
    BY <1>1 DEF AccountsInv, AccountsTypeOK
  <1> QED BY <1>2, <1>3, <1>4, <1>5, <1>6, <1>7, AccountsStay DEF Tick

-----------------------------------------------------------------------------
(* Steps of a sender that leave the rows alone: what it puts down went out or is *)
(* dropped, and what went out and stays in its hand was misreported.             *)
LEMMA SenderMoves ==
    ASSUME AccountsInv, NEW s \in Senders, NEW w \in SenderState,
           sender' = [sender EXCEPT ![s] = w],
           w.hand \subseteq sender[s].hand,
           w.pc = "releasing" <=> w.back \in w.hand,
           w.pc \in {"idle", "claiming"} => w.hand = {},
           mailed \subseteq mailed', misreported \subseteq misreported',
           dropped \subseteq dropped',
           misreported' \subseteq Links, dropped' \subseteq Links,
           mailed' \subseteq mailed \cup sender[s].hand,
           \A l \in w.hand : l \in mailed' => l \in misreported',
           sender[s].hand \subseteq w.hand \cup mailed' \cup dropped',
           UNCHANGED <<account, drawn, link, request, spent>>
    PROVE  AccountsInv'
  <1>1. sender'[s] = w /\ \A q \in Senders \ {s} : sender'[q] = sender[q]
    BY DEF AccountsInv, AccountsTypeOK
  <1>2. sender[s].hand \subseteq Links
    BY DEF AccountsInv, AccountsTypeOK, SenderState
  <1>3. \A q \in Senders : sender'[q].pc = "releasing" <=> sender'[q].back \in sender'[q].hand
    BY <1>1 DEF AccountsInv, AccountsTypeOK
  <1>4. sender' \in [Senders -> SenderState] /\ mailed' \subseteq Links
    BY <1>2 DEF AccountsInv, AccountsTypeOK
  <1>5. AccountsTypeOK'
    BY <1>3, <1>4 DEF AccountsInv, AccountsTypeOK
  <1>6. LinksAreFormed'
    <2>1. ASSUME NEW l \in Links, l \in mailed', l \notin mailed
          PROVE  link[l].state # "undrawn" /\ (link[l].state = "live" => link[l].sent)
      BY <2>1 DEF AccountsInv, SendersAreFormed
    <2> QED BY <2>1 DEF AccountsInv, LinksAreFormed
  <1>7. SendersAreFormed'
    BY <1>1 DEF AccountsInv, SendersAreFormed
  <1>8. LinkSpentOnce'
    BY DEF AccountsInv, LinkSpentOnce
  <1>9. MailedOnce'
    <2>1. \A x, y \in Senders : x # y => sender'[x].hand \cap sender'[y].hand = {}
      BY <1>1 DEF AccountsInv, MailedOnce
    <2>2. ASSUME NEW x \in Senders, NEW l \in sender'[x].hand, l \in mailed'
          PROVE  l \in misreported'
      <3>1. CASE x = s
        BY <2>2, <3>1, <1>1
      <3>2. CASE x # s
        BY <2>2, <3>2, <1>1 DEF AccountsInv, MailedOnce
      <3> QED BY <3>1, <3>2
    <2> QED BY <2>1, <2>2 DEF MailedOnce
  <1>10. SentOrInHand'
    <2>1. ASSUME NEW l \in Links, l \notin dropped', link[l].sent, l \notin mailed'
          PROVE  \E x \in Senders : l \in sender'[x].hand
      <3>1. PICK x \in Senders : l \in sender[x].hand
        BY <2>1 DEF AccountsInv, SentOrInHand
      <3> QED BY <2>1, <3>1, <1>1
    <2> QED BY <2>1 DEF SentOrInHand
  <1> QED BY <1>5, <1>6, <1>7, <1>8, <1>9, <1>10, AccountsStay

LEMMA BeginSendKeepsInv ==
    ASSUME AccountsInv, NEW s \in Senders, BeginSend(s)
    PROVE  AccountsInv'
  <1> DEFINE stale == {l \in Links : link[l].state = "live" /\ link[l].left = 0}
             w == [IdleSender EXCEPT !.pc = "claiming", !.stale = stale]
  <1>0. stale \in SUBSET Links
    OBVIOUS
  <1> HIDE DEF stale
  <1>1. w \in SenderState /\ w.pc = "claiming" /\ w.hand = {} /\ w.back = NoLink
    BY <1>0, IdleSenderFits DEF SenderState, IdleSender
  <1>2. sender' = [sender EXCEPT ![s] = w] /\ sender[s].hand = {}
        /\ UNCHANGED <<account, drawn, link, request, mailed, spent, misreported, dropped>>
    BY DEF BeginSend, stale, AccountsInv, SendersAreFormed
  <1>3. misreported \subseteq Links /\ dropped \subseteq Links
    BY DEF AccountsInv, AccountsTypeOK
  <1> HIDE DEF w
  <1> QED BY <1>1, <1>2, <1>3, SenderMoves

(* What putting a link down leaves in the sender's hand. *)
LEMMA PutDownFits ==
    ASSUME AccountsInv, NEW s \in Senders, NEW l \in sender[s].hand, PutDown(s, l)
    PROVE  \E w \in SenderState :
             /\ sender' = [sender EXCEPT ![s] = w]
             /\ w.hand = sender[s].hand \ {l}
             /\ w.pc = "releasing" <=> w.back \in w.hand
             /\ w.pc \in {"idle", "claiming"} => w.hand = {}
  <1>1. sender[s] \in SenderState
    BY DEF AccountsInv, AccountsTypeOK
  <1>2. CASE sender[s].hand = {l}
    <2>1. sender' = [sender EXCEPT ![s] = IdleSender]
      BY <1>2 DEF PutDown
    <2> HIDE DEF IdleSender
    <2>2. IdleSender.pc # "releasing" /\ IdleSender.back \notin IdleSender.hand
          /\ IdleSender.hand = sender[s].hand \ {l}
      BY <1>2, IdleSenderFits
    <2>3. IdleSender \in SenderState
      BY IdleSenderFits
    <2> QED BY <1>2, <2>1, <2>2, <2>3, Zenon
  <1>3. CASE sender[s].hand # {l}
    <2> DEFINE w == [sender[s] EXCEPT !.pc = "sending", !.hand = @ \ {l}, !.back = NoLink]
    <2>1. w \in SenderState /\ w.pc = "sending" /\ w.hand = sender[s].hand \ {l}
          /\ w.back = NoLink /\ NoLink \notin w.hand
      BY <1>1, AccountsAssumption DEF SenderState
    <2>2. sender' = [sender EXCEPT ![s] = w]
      BY <1>3 DEF PutDown
    <2> HIDE DEF w
    <2> QED BY <2>1, <2>2
  <1> QED BY <1>2, <1>3

LEMMA SendEmailKeepsInv ==
    ASSUME AccountsInv, NEW s \in Senders, NEW l \in Links, SendEmail(s, l)
    PROVE  AccountsInv'
  <1>1. l \in sender[s].hand /\ PutDown(s, l) /\ mailed' = mailed \cup {l}
        /\ UNCHANGED <<account, drawn, link, request, spent, misreported, dropped>>
    BY DEF SendEmail
  <1>2. PICK w \in SenderState :
          /\ sender' = [sender EXCEPT ![s] = w]
          /\ w.hand = sender[s].hand \ {l}
          /\ w.pc = "releasing" <=> w.back \in w.hand
          /\ w.pc \in {"idle", "claiming"} => w.hand = {}
    BY <1>1, PutDownFits
  <1>3. misreported \subseteq Links /\ dropped \subseteq Links
        /\ \A k \in sender[s].hand : k \in mailed => k \in misreported
    BY DEF AccountsInv, AccountsTypeOK, MailedOnce
  <1> QED BY <1>1, <1>2, <1>3, SenderMoves

LEMMA SendEmailFailsKeepsInv ==
    ASSUME AccountsInv, NEW s \in Senders, NEW l \in Links, NEW arrived \in BOOLEAN,
           SendEmailFails(s, l, arrived)
    PROVE  AccountsInv'
  <1> DEFINE w == [sender[s] EXCEPT !.pc = "releasing", !.back = l]
  <1>1. w \in SenderState /\ w.pc = "releasing" /\ w.back = l /\ w.hand = sender[s].hand
    BY DEF AccountsInv, AccountsTypeOK, SenderState
  <1>2. sender' = [sender EXCEPT ![s] = w] /\ l \in sender[s].hand
        /\ UNCHANGED <<account, drawn, link, request, spent, dropped>>
    BY DEF SendEmailFails
  <1>3. misreported \subseteq Links /\ dropped \subseteq Links
        /\ \A k \in sender[s].hand : k \in mailed => k \in misreported
    BY DEF AccountsInv, AccountsTypeOK, MailedOnce
  <1>4. \/ mailed' = mailed /\ misreported' = misreported
        \/ mailed' = mailed \cup {l} /\ misreported' = misreported \cup {l}
    BY DEF SendEmailFails
  <1> HIDE DEF w
  <1> QED BY <1>1, <1>2, <1>3, <1>4, SenderMoves

LEMMA ReleaseFailsKeepsInv ==
    ASSUME AccountsInv, NEW s \in Senders, ReleaseFails(s)
    PROVE  AccountsInv'
  <1> DEFINE l == sender[s].back
  <1>1. l \in sender[s].hand /\ l \in Links /\ PutDown(s, l) /\ dropped' = dropped \cup {l}
        /\ UNCHANGED <<account, drawn, link, request, mailed, spent, misreported>>
    BY DEF ReleaseFails, AccountsInv, AccountsTypeOK, SenderState
  <1> HIDE DEF l
  <1>2. PICK w \in SenderState :
          /\ sender' = [sender EXCEPT ![s] = w]
          /\ w.hand = sender[s].hand \ {l}
          /\ w.pc = "releasing" <=> w.back \in w.hand
          /\ w.pc \in {"idle", "claiming"} => w.hand = {}
    BY <1>1, PutDownFits
  <1>3. misreported \subseteq Links /\ dropped \subseteq Links
        /\ \A k \in sender[s].hand : k \in mailed => k \in misreported
    BY DEF AccountsInv, AccountsTypeOK, MailedOnce
  <1> QED BY <1>1, <1>2, <1>3, SenderMoves

LEMMA SenderCrashKeepsInv ==
    ASSUME AccountsInv, NEW s \in Senders, SenderCrash(s)
    PROVE  AccountsInv'
  <1>1. misreported \subseteq Links /\ dropped \subseteq Links /\ sender[s].hand \subseteq Links
    BY DEF AccountsInv, AccountsTypeOK, SenderState
  <1> QED BY <1>1, IdleSenderFits, SenderMoves DEF SenderCrash

-----------------------------------------------------------------------------
(* Steps of a sender that write sent. *)
LEMMA SentMoves ==
    ASSUME AccountsInv, NEW s \in Senders, NEW w \in SenderState,
           sender' = [sender EXCEPT ![s] = w],
           w.pc = "releasing" <=> w.back \in w.hand,
           w.pc \in {"idle", "claiming"} => w.hand = {},
           link' \in [Links -> LinkState],
           \A l \in Links :
             /\ link'[l].state = link[l].state /\ link'[l].user = link[l].user
             /\ link'[l].email = link[l].email,
           dropped \subseteq dropped', dropped' \subseteq Links,
           LinksAreFormed', SendersAreFormed', MailedOnce', SentOrInHand',
           UNCHANGED <<account, drawn, request, mailed, spent, misreported>>
    PROVE  AccountsInv'
  <1>1. sender'[s] = w /\ \A q \in Senders \ {s} : sender'[q] = sender[q]
    BY DEF AccountsInv, AccountsTypeOK
  <1>2. \A q \in Senders : sender'[q].pc = "releasing" <=> sender'[q].back \in sender'[q].hand
    BY <1>1 DEF AccountsInv, AccountsTypeOK
  <1>3. sender' \in [Senders -> SenderState]
    BY DEF AccountsInv, AccountsTypeOK
  <1>4. AccountsTypeOK'
    BY <1>2, <1>3 DEF AccountsInv, AccountsTypeOK
  <1>5. LinkSpentOnce'
    BY DEF AccountsInv, AccountsTypeOK, LinkSpentOnce
  <1>6. \A k \in mailed \cap spent : link'[k].user = link[k].user /\ link'[k].email = link[k].email
    BY DEF AccountsInv, AccountsTypeOK
  <1> QED BY <1>4, <1>5, <1>6, AccountsStay

(* Claimed links are marked sent, whether or not the claimer hears of it. *)
LEMMA ClaimMoves ==
    ASSUME AccountsInv, NEW s \in Senders, NEW w \in SenderState, NEW batch \in SUBSET Links,
           sender[s].pc = "claiming",
           \A l \in batch : link[l].state = "live" /\ ~link[l].sent,
           link' = MarkedSent(batch),
           sender' = [sender EXCEPT ![s] = w],
           w.back = NoLink, w.pc \in {"idle", "sending"}, w.pc = "idle" => w.hand = {},
           w.hand \subseteq batch,
           dropped \subseteq dropped', dropped' \subseteq dropped \cup batch,
           batch \subseteq w.hand \cup dropped',
           UNCHANGED <<account, drawn, request, mailed, spent, misreported>>
    PROVE  AccountsInv'
  <1>1. ASSUME NEW l \in Links
        PROVE  /\ link'[l] \in LinkState /\ link'[l].state = link[l].state
               /\ link'[l].user = link[l].user /\ link'[l].email = link[l].email
               /\ l \in batch => link'[l].sent
               /\ l \notin batch => link'[l] = link[l]
    <2>1. link[l] \in LinkState
      BY DEF AccountsInv, AccountsTypeOK
    <2>2. CASE l \in batch
      <3>1. link'[l] = [link[l] EXCEPT !.sent = TRUE]
        BY <2>2 DEF MarkedSent
      <3> QED BY <2>1, <2>2, <3>1 DEF LinkState
    <2>3. CASE l \notin batch
      <3>1. link'[l] = link[l]
        BY <2>3 DEF MarkedSent
      <3> QED BY <2>1, <2>3, <3>1
    <2> QED BY <2>2, <2>3
  <1>2. link' \in [Links -> LinkState]
    BY <1>1 DEF MarkedSent
  <1>3. sender'[s] = w /\ \A q \in Senders \ {s} : sender'[q] = sender[q]
    BY DEF AccountsInv, AccountsTypeOK
  <1>4. sender[s].hand = {} /\ NoLink \notin w.hand /\ dropped' \subseteq Links
    BY AccountsAssumption DEF AccountsInv, AccountsTypeOK, SendersAreFormed
  <1>5. \A q \in Senders : sender[q].hand \cap batch = {}
    BY DEF AccountsInv, SendersAreFormed
  <1>6. LinksAreFormed'
    <2>1. ASSUME NEW l \in Links
          PROVE  /\ link'[l].state # "undrawn" => link'[l].user \in Users
                 /\ l \in mailed \cup spent => link'[l].state # "undrawn"
                 /\ link'[l].sent => link'[l].state = "live"
                 /\ link'[l].state = "live" /\ ~link'[l].sent /\ l \in mailed
                      => l \in misreported
      BY <1>1 DEF AccountsInv, LinksAreFormed
    <2> QED BY <2>1 DEF LinksAreFormed
  <1>7. SendersAreFormed'
    <2>1. \A q \in Senders : sender[q].hand \subseteq Links
      BY DEF AccountsInv, AccountsTypeOK, SenderState
    <2>2. \A l \in sender'[s].hand : link'[l].state # "undrawn" /\ link'[l].sent
      BY <1>1, <1>3
    <2>3. \A q \in Senders \ {s} : \A l \in sender'[q].hand :
            link'[l].state # "undrawn" /\ (link'[l].state = "live" => link'[l].sent)
      BY <1>1, <1>3, <1>5, <2>1 DEF AccountsInv, SendersAreFormed
    <2>4. \A q \in Senders : sender'[q].pc \in {"idle", "claiming"} => sender'[q].hand = {}
      BY <1>3 DEF AccountsInv, SendersAreFormed
    <2> QED BY <2>2, <2>3, <2>4 DEF SendersAreFormed
  <1>8. MailedOnce'
    <2>1. \A x, y \in Senders : x # y => sender'[x].hand \cap sender'[y].hand = {}
      BY <1>3, <1>5 DEF AccountsInv, MailedOnce
    <2>2. \A l \in batch : l \in mailed => l \in misreported
      BY DEF AccountsInv, LinksAreFormed
    <2>3. \A x \in Senders : \A l \in sender'[x].hand : l \in mailed => l \in misreported
      BY <2>2, <1>3 DEF AccountsInv, MailedOnce
    <2> QED BY <2>1, <2>3 DEF MailedOnce
  <1>9. SentOrInHand'
    <2>1. ASSUME NEW l \in Links, l \notin dropped', link'[l].sent, l \notin mailed
          PROVE  \E x \in Senders : l \in sender'[x].hand
      <3>1. CASE l \in batch
        BY <2>1, <3>1, <1>3
      <3>2. CASE l \notin batch
        <4>1. PICK x \in Senders : l \in sender[x].hand
          BY <2>1, <3>2, <1>1 DEF AccountsInv, SentOrInHand
        <4> QED BY <4>1, <1>3, <1>4
      <3> QED BY <3>1, <3>2
    <2> QED BY <2>1 DEF SentOrInHand
  <1> QED BY <1>1, <1>2, <1>4, <1>6, <1>7, <1>8, <1>9, SentMoves

LEMMA ClaimKeepsInv ==
    ASSUME AccountsInv, NEW s \in Senders, NEW batch \in SUBSET Links,
           ClaimUnsent(s, batch) \/ ClaimFails(s, batch)
    PROVE  AccountsInv'
  <1>1. \A l \in batch : link[l].state = "live" /\ ~link[l].sent
    BY DEF ClaimUnsent, ClaimFails, Claimable
  <1>2. dropped \subseteq Links
    BY DEF AccountsInv, AccountsTypeOK
  <1>3. CASE ClaimFails(s, batch)
    BY <1>1, <1>2, <1>3, IdleSenderFits, ClaimMoves DEF ClaimFails
  <1>4. CASE ClaimUnsent(s, batch) /\ batch = {}
    <2>1. sender' = [sender EXCEPT ![s] = IdleSender]
      BY <1>4 DEF ClaimUnsent
    <2> QED BY <1>1, <1>2, <1>4, <2>1, IdleSenderFits, ClaimMoves DEF ClaimUnsent
  <1>5. CASE ClaimUnsent(s, batch) /\ batch # {}
    <2> DEFINE w == [IdleSender EXCEPT !.pc = "sending", !.hand = batch]
    <2>1. w \in SenderState /\ w.pc = "sending" /\ w.hand = batch /\ w.back = NoLink
      BY IdleSenderFits DEF SenderState, IdleSender
    <2>2. sender' = [sender EXCEPT ![s] = w]
      BY <1>5 DEF ClaimUnsent
    <2> HIDE DEF w
    <2> QED BY <1>1, <1>2, <1>5, <2>1, <2>2, ClaimMoves DEF ClaimUnsent
  <1> QED BY <1>3, <1>4, <1>5

(* A link given back may be claimed again: if it went out, that was misreported. *)
LEMMA ReleaseKeepsInv ==
    ASSUME AccountsInv, NEW s \in Senders, Release(s)
    PROVE  AccountsInv'
  <1> DEFINE b == sender[s].back
  <1>1. /\ b \in sender[s].hand /\ b \in Links /\ PutDown(s, b)
        /\ link' = [link EXCEPT ![b].sent = FALSE]
        /\ UNCHANGED <<account, drawn, request, mailed, spent, misreported, dropped>>
    BY DEF Release, AccountsInv, AccountsTypeOK, SenderState
  <1> HIDE DEF b
  <1>2. PICK w \in SenderState :
          /\ sender' = [sender EXCEPT ![s] = w]
          /\ w.hand = sender[s].hand \ {b}
          /\ w.pc = "releasing" <=> w.back \in w.hand
          /\ w.pc \in {"idle", "claiming"} => w.hand = {}
    BY <1>1, PutDownFits
  <1>3. /\ link[b] \in LinkState
        /\ [link[b] EXCEPT !.sent = FALSE] \in LinkState
        /\ [link[b] EXCEPT !.sent = FALSE].state = link[b].state
        /\ [link[b] EXCEPT !.sent = FALSE].user = link[b].user
        /\ [link[b] EXCEPT !.sent = FALSE].email = link[b].email
        /\ [link[b] EXCEPT !.sent = FALSE].sent = FALSE
    BY <1>1 DEF AccountsInv, AccountsTypeOK, LinkState
  <1>4. /\ link'[b] = [link[b] EXCEPT !.sent = FALSE]
        /\ \A l \in Links \ {b} : link'[l] = link[l]
    BY <1>1 DEF AccountsInv, AccountsTypeOK
  <1>5. /\ link'[b].state = link[b].state /\ link'[b].user = link[b].user
        /\ link'[b].email = link[b].email /\ link'[b].sent = FALSE
    BY <1>3, <1>4
  <1>6. link' \in [Links -> LinkState]
    BY <1>1, <1>3 DEF AccountsInv, AccountsTypeOK
  <1>7. sender'[s] = w /\ \A q \in Senders \ {s} : sender'[q] = sender[q]
    BY <1>2 DEF AccountsInv, AccountsTypeOK
  <1>8. b \in mailed => b \in misreported
    BY <1>1 DEF AccountsInv, MailedOnce
  <1>9. LinksAreFormed'
    BY <1>1, <1>4, <1>5, <1>8 DEF AccountsInv, LinksAreFormed
  <1>10. \A q \in Senders : sender'[q].hand \subseteq sender[q].hand /\ b \notin sender'[q].hand
    BY <1>1, <1>2, <1>7 DEF AccountsInv, MailedOnce
  <1>11. SendersAreFormed'
    <2>1. \A q \in Senders : sender[q].hand \subseteq Links
      BY DEF AccountsInv, AccountsTypeOK, SenderState
    <2>2. \A q \in Senders : \A l \in sender'[q].hand :
            link'[l].state # "undrawn" /\ (link'[l].state = "live" => link'[l].sent)
      BY <1>4, <1>10, <2>1 DEF AccountsInv, SendersAreFormed
    <2>3. \A q \in Senders : sender'[q].pc \in {"idle", "claiming"} => sender'[q].hand = {}
      BY <1>2, <1>7 DEF AccountsInv, SendersAreFormed
    <2> QED BY <2>2, <2>3 DEF SendersAreFormed
  <1>12. MailedOnce'
    BY <1>1, <1>10 DEF AccountsInv, MailedOnce
  <1>13. SentOrInHand'
    <2>1. ASSUME NEW l \in Links, l \notin dropped, link'[l].sent, l \notin mailed
          PROVE  \E x \in Senders : l \in sender'[x].hand
      <3>1. l # b
        BY <2>1, <1>5
      <3>2. PICK x \in Senders : l \in sender[x].hand
        BY <2>1, <3>1, <1>4 DEF AccountsInv, SentOrInHand
      <3> QED BY <3>1, <3>2, <1>2, <1>7
    <2> QED BY <1>1, <2>1 DEF SentOrInHand
  <1>14. dropped \subseteq Links
    BY DEF AccountsInv, AccountsTypeOK
  <1> QED BY <1>1, <1>2, <1>4, <1>5, <1>6, <1>9, <1>11, <1>12, <1>13, <1>14, SentMoves

-----------------------------------------------------------------------------
LEMMA InitEstablishes ==
    ASSUME AccountsInit
    PROVE  AccountsInv
  <1> DEFINE Old(u) == [NoAccount EXCEPT !.id = u, !.hash = "old"]
  <1>1. \A u \in Users : Old(u) \in Account /\ Old(u).id = u /\ Old(u).verified = FALSE
    BY NoAccountFits DEF Account, NoAccount
  <1>2. \A a \in Addresses : account[a] = NoAccount \/ \E u \in Users : account[a] = Old(u)
    BY DEF AccountsInit
  <1> HIDE DEF Old
  <1>3. \A a \in Addresses :
          /\ account[a] \in Account /\ account[a].verified = FALSE
          /\ account[a].id = NoUser => account[a] = NoAccount
    BY <1>1, <1>2, NoAccountFits, AccountsAssumption
  <1>4. account \in [Addresses -> Account] /\ drawn \subseteq Users
    <2>1. account = [a \in Addresses |-> account[a]]
      BY DEF AccountsInit
    <2>2. \A a \in Addresses : account[a].id # NoUser => account[a].id \in Users
      BY <1>3 DEF Account
    <2> QED BY <2>1, <2>2, <1>3 DEF AccountsInit
  <1>5. AccountsTypeOK
    BY <1>4, NoRowFits, IdleFits, IdleSenderFits DEF AccountsInit, AccountsTypeOK
  <1>6. AccountsAreFormed /\ VerifiedByLink
    BY <1>3 DEF AccountsInit, AccountsAreFormed, VerifiedByLink
  <1>7. RequestsAreFormed /\ CreatedApart
    BY IdleFits DEF AccountsInit, RequestsAreFormed, RequestFits, CreatedApart
  <1>8. LinksAreFormed /\ SendersAreFormed /\ LinkSpentOnce /\ MailedOnce /\ SentOrInHand
    BY NoRowFits, IdleSenderFits DEF AccountsInit, LinksAreFormed, SendersAreFormed,
       LinkSpentOnce, MailedOnce, SentOrInHand
  <1> QED BY <1>5, <1>6, <1>7, <1>8 DEF AccountsInv

LEMMA StepKeepsInv ==
    ASSUME AccountsInv, [AccountsNext]_accountVars
    PROVE  AccountsInv'
  <1>1. ASSUME NEW r \in Requests, NEW a \in Addresses, NEW u \in Users,
               BeginRegister(r, a, u)
        PROVE  AccountsInv'
    BY <1>1, BeginRegisterKeepsInv
  <1>2. ASSUME NEW r \in Requests, NEW a \in Addresses, Resend(r, a) \/ Login(r, a)
        PROVE  AccountsInv'
    BY <1>2, ResendKeepsInv, LoginKeepsInv
  <1>3. ASSUME NEW r \in Requests, NEW l \in Links, BeginVerify(r, l)
        PROVE  AccountsInv'
    BY <1>3, BeginVerifyKeepsInv
  <1>4. ASSUME NEW r \in Requests, RequestStep(r)
        PROVE  AccountsInv'
    <2>1. CASE RequestFails(r)
      BY <2>1, OverKeepsInv DEF RequestFails
    <2> QED BY <1>4, <2>1, CreateKeepsInv, IssueKeepsInv, UpdatePasswordHashKeepsInv,
               ConsumeKeepsInv, MarkEmailVerifiedKeepsInv DEF RequestStep
  <1>5. ASSUME NEW a \in Addresses, NEW role \in {"customer", "admin"}, SetRole(a, role)
        PROVE  AccountsInv'
    BY <1>5, SetRoleKeepsInv
  <1>6. ASSUME NEW s \in Senders, SenderStep(s) \/ SenderCrash(s)
        PROVE  AccountsInv'
    BY <1>6, BeginSendKeepsInv, ClaimKeepsInv, SendEmailKeepsInv, SendEmailFailsKeepsInv,
       ReleaseKeepsInv, ReleaseFailsKeepsInv, SenderCrashKeepsInv DEF SenderStep
  <1>7. CASE UNCHANGED accountVars
    <2>1. UNCHANGED <<account, drawn, link, request, sender, mailed, spent, misreported, dropped>>
      BY <1>7 DEF accountVars
    <2>2. AccountsTypeOK' /\ AccountsAreFormed' /\ RequestsAreFormed' /\ CreatedApart'
          /\ VerifiedByLink'
      BY <2>1 DEF AccountsInv, AccountsTypeOK, AccountsAreFormed, RequestsAreFormed,
                  RequestFits, CreatedApart, VerifiedByLink
    <2> QED BY <2>1, <2>2, SendersStay
  <1> QED BY <1>1, <1>2, <1>3, <1>4, <1>5, <1>6, <1>7, TickKeepsInv DEF AccountsNext

-----------------------------------------------------------------------------
(* The parts of the invariant hold together in every state of accounts, links, *)
(* requests and senders.                                                       *)
THEOREM AccountsInvHolds == AccountsSpec => []AccountsInv
  <1>1. AccountsInit => AccountsInv
    BY InitEstablishes
  <1>2. AccountsInv /\ [AccountsNext]_accountVars => AccountsInv'
    BY StepKeepsInv
  <1> QED BY <1>1, <1>2, PTL DEF AccountsSpec

(* Every variable keeps its shape, and no two addresses share an account id. *)
THEOREM AccountsTypeCorrect == AccountsSpec => []AccountsTypeOK
  <1>1. AccountsInv => AccountsTypeOK
    BY DEF AccountsInv
  <1> QED BY <1>1, AccountsInvHolds, PTL

(* Consume deletes the row, and neither Release nor the other server's sender *)
(* writes it back: a link works once.                                         *)
THEOREM LinksAreSpentOnce == AccountsSpec => []LinkSpentOnce
  <1>1. AccountsInv => LinkSpentOnce
    BY DEF AccountsInv
  <1> QED BY <1>1, AccountsInvHolds, PTL

(* MarkEmailVerified marks nothing but the account a followed link was mailed *)
(* for, at the address it was mailed to.                                      *)
THEOREM VerifiedOnlyByLink == AccountsSpec => []VerifiedByLink
  <1>1. AccountsInv => VerifiedByLink
    BY DEF AccountsInv
  <1> QED BY <1>1, AccountsInvHolds, PTL

(* ClaimUnsent gives a link to one sender, and gives out again only one whose *)
(* mail was reported as failed.                                               *)
THEOREM LinksAreMailedOnce == AccountsSpec => []MailedOnce
  <1>1. AccountsInv => MailedOnce
    BY DEF AccountsInv
  <1> QED BY <1>1, AccountsInvHolds, PTL

(* Marking a link sent before it is mailed loses it only when a claim's answer, *)
(* a release or a sender is lost.                                               *)
THEOREM SentIsNotLost == AccountsSpec => []SentOrInHand
  <1>1. AccountsInv => SentOrInHand
    BY DEF AccountsInv
  <1> QED BY <1>1, AccountsInvHolds, PTL

-----------------------------------------------------------------------------
(* What no step does to an account that is there. *)
LEMMA StepUndoesNothing ==
    ASSUME AccountsInv, AccountsNext, NEW a \in Addresses, account[a] # NoAccount
    PROVE  /\ account'[a].id = account[a].id
           /\ account[a].verified => account'[a].verified
           /\ account[a].hash = "new" => account'[a].hash = "new"
  <1>0. account \in [Addresses -> Account] /\ account[a] \in Account
    BY DEF AccountsInv, AccountsTypeOK
  <1>1. ASSUME NEW r \in Requests, CreateUser(r) \/ CreateUserUnacknowledged(r)
        PROVE  account'[a] = account[a]
    BY <1>0, <1>1 DEF CreateUser, CreateUserUnacknowledged
  <1>2. ASSUME NEW r \in Requests, UpdatePasswordHash(r)
        PROVE  account'[a] = account[a] \/ account'[a] = [account[a] EXCEPT !.hash = "new"]
    BY <1>0, <1>2 DEF UpdatePasswordHash
  <1>3. ASSUME NEW r \in Requests, MarkEmailVerified(r)
        PROVE  account'[a] = account[a] \/ account'[a] = [account[a] EXCEPT !.verified = TRUE]
    BY <1>0, <1>3 DEF MarkEmailVerified
  <1>4. ASSUME NEW b \in Addresses, NEW role \in {"customer", "admin"}, SetRole(b, role)
        PROVE  account'[a] = account[a] \/ account'[a] = [account[a] EXCEPT !.role = role]
    BY <1>0, <1>4 DEF SetRole
  <1>5. ASSUME NEW s \in Senders, SenderStep(s) \/ SenderCrash(s)
        PROVE  account' = account
    BY <1>5 DEF SenderStep, SenderCrash, BeginSend, ClaimUnsent, ClaimFails, SendEmail,
                SendEmailFails, Release, ReleaseFails
  <1>6. ASSUME NEW r \in Requests,
               \/ \E b \in Addresses, u \in Users : BeginRegister(r, b, u)
               \/ \E b \in Addresses : Resend(r, b) \/ Login(r, b)
               \/ \E l \in Links : BeginVerify(r, l) \/ Issue(r, l)
               \/ Consume(r) \/ ConsumeUnacknowledged(r) \/ RequestFails(r)
        PROVE  account' = account
    BY <1>6 DEF BeginRegister, Resend, Login, BeginVerify, Issue, Consume,
                ConsumeUnacknowledged, RequestFails
  <1>7. \/ account'[a] = account[a]
        \/ account'[a] = [account[a] EXCEPT !.hash = "new"]
        \/ account'[a] = [account[a] EXCEPT !.verified = TRUE]
        \/ \E role \in {"customer", "admin"} : account'[a] = [account[a] EXCEPT !.role = role]
    BY <1>1, <1>2, <1>3, <1>4, <1>5, <1>6 DEF AccountsNext, RequestStep, Tick
  <1> QED BY <1>0, <1>7 DEF Account

(* Whatever a request, the hash upgrade, the operator's command or a followed *)
(* link had read before, its write leaves the others' parts of an account:    *)
(* the id stays, verified stays, and a new hash is not put back.              *)
THEOREM AccountsAreNeverUndone == AccountsSpec => NothingUndone
  <1>1. AccountsInv /\ [AccountsNext]_accountVars =>
          [\A a \in Addresses : account[a] # NoAccount =>
             /\ account'[a].id = account[a].id
             /\ account[a].verified => account'[a].verified
             /\ account[a].hash = "new" => account'[a].hash = "new"]_accountVars
    BY StepUndoesNothing
  <1> QED BY <1>1, AccountsInvHolds, PTL DEF AccountsSpec, NothingUndone

=============================================================================
