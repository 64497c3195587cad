------------------------------- MODULE Accounts -------------------------------
(***************************************************************************)
(* Accounts and the proof that an address is the account's own: registering, *)
(* signing in with the upgrade of an old hash, the role the operator's       *)
(* command sets, the verification links with the workers that mail them, and *)
(* what following one does.  Every store call is a step of its own; several  *)
(* servers share the database, so there are several senders.                 *)
(*                                                                         *)
(* A link's remaining life is relative to the present, and whether it has    *)
(* expired is settled when the clock is read, before the statement that uses *)
(* the reading.                                                              *)
(***************************************************************************)
EXTENDS Naturals, FiniteSets, FiniteSetsExt

CONSTANTS
    Users,          \* account ids; each is drawn once
    NoUser,
    Addresses,      \* normalised and well formed
    Links,          \* verification tokens; each is drawn once
    NoLink,
    Requests,       \* requests under way at a time
    Senders,        \* the verification sender of each server
    VerificationTTL,
    Batch,          \* how many links one pass of a sender takes
    Faults          \* whether the database, the mail server and a server may fail

ASSUME AccountsAssumption ==
    /\ NoUser \notin Users /\ NoLink \notin Links
    /\ Addresses # {}
    /\ VerificationTTL \in Nat \ {0} /\ Batch \in Nat \ {0}
    /\ Faults \in BOOLEAN

VARIABLES
    account,        \* the account of each address
    drawn,          \* the account ids in use so far
    link,           \* the rows of email_verifications, and what became of them
    request,
    sender,
    mailed,         \* the links that reached the address they were for
    spent,          \* observed: links that somebody followed in time
    misreported,    \* observed: mails that went out and were reported failed
    dropped         \* observed: links marked sent that no sender will ever mail

accountVars ==
    <<account, drawn, link, request, sender, mailed, spent, misreported, dropped>>

Account == [id : Users \cup {NoUser}, hash : {"none", "old", "new"},
            role : {"customer", "admin"}, verified : BOOLEAN]

NoAccount == [id |-> NoUser, hash |-> "none", role |-> "customer", verified |-> FALSE]

NoRow == [state |-> "undrawn", user |-> NoUser, email |-> CHOOSE a \in Addresses : TRUE,
          left |-> 0, sent |-> FALSE]

IdleRequest == [pc |-> "idle", email |-> CHOOSE a \in Addresses : TRUE,
                user |-> NoAccount, link |-> NoLink, usable |-> FALSE]

IdleSender == [pc |-> "idle", stale |-> {}, hand |-> {}, back |-> NoLink]

\* Accounts made before the hasher's settings changed may be there already.
AccountsInit ==
    /\ account \in [Addresses -> {NoAccount} \cup
                      {[NoAccount EXCEPT !.id = u, !.hash = "old"] : u \in Users}]
    /\ \A a, b \in Addresses : a # b /\ account[a] # NoAccount => account[a].id # account[b].id
    /\ drawn = {account[a].id : a \in Addresses} \ {NoUser}
    /\ link = [l \in Links |-> NoRow]
    /\ request = [r \in Requests |-> IdleRequest]
    /\ sender = [s \in Senders |-> IdleSender]
    /\ mailed = {} /\ spent = {} /\ misreported = {} /\ dropped = {}

Over(r) == request' = [request EXCEPT ![r] = IdleRequest]

-----------------------------------------------------------------------------
(* Registering.                                                             *)

\* A user put together by hand, without a role.
MutNewUser(u) == [id |-> u, hash |-> "new", role |-> "", verified |-> FALSE]

NewUser(u) == [id |-> u, hash |-> "new", role |-> "customer", verified |-> FALSE]

\* Validated, hashed, and given an id nobody has.
BeginRegister(r, a, u) ==
    /\ request[r].pc = "idle"
    /\ u \notin drawn
    /\ drawn' = drawn \cup {u}
    /\ request' = [request EXCEPT ![r] =
                     [IdleRequest EXCEPT !.pc = "creating", !.email = a,
                                         !.user = NewUser(u)]]
    /\ UNCHANGED <<account, link, sender, mailed, spent, misreported, dropped>>

\* An insert that overwrites on conflict.
MutCreateUser(r) ==
    /\ request[r].pc = "creating"
    /\ account' = [account EXCEPT ![request[r].email] = request[r].user]
    /\ request' = [request EXCEPT ![r].pc = "issuing"]
    /\ UNCHANGED <<drawn, link, sender, mailed, spent, misreported, dropped>>

\* The address decides: taken, or this account's from now on.
CreateUser(r) ==
    /\ request[r].pc = "creating"
    /\ \/ /\ account[request[r].email] = NoAccount
          /\ account' = [account EXCEPT ![request[r].email] = request[r].user]
          /\ request' = [request EXCEPT ![r].pc = "issuing"]
       \/ /\ account[request[r].email] # NoAccount
          /\ Over(r)
          /\ UNCHANGED account
    /\ UNCHANGED <<drawn, link, sender, mailed, spent, misreported, dropped>>

\* Stored, but the caller was told it was not: there is an account and no link.
CreateUserUnacknowledged(r) ==
    /\ Faults
    /\ request[r].pc = "creating"
    /\ account[request[r].email] = NoAccount
    /\ account' = [account EXCEPT ![request[r].email] = request[r].user]
    /\ Over(r)
    /\ UNCHANGED <<drawn, link, sender, mailed, spent, misreported, dropped>>

\* A fresh link for the address, not yet sent.
Issue(r, l) ==
    /\ request[r].pc = "issuing"
    /\ link[l].state = "undrawn"
    /\ link' = [link EXCEPT ![l] =
                  [state |-> "live", user |-> request[r].user.id,
                   email |-> request[r].email, left |-> VerificationTTL,
                   sent |-> FALSE]]
    /\ Over(r)
    /\ UNCHANGED <<account, drawn, sender, mailed, spent, misreported, dropped>>

\* A signed in caller asks again; the links before it stay as they are.
Resend(r, a) ==
    /\ request[r].pc = "idle"
    /\ account[a] # NoAccount /\ ~account[a].verified
    /\ request' = [request EXCEPT ![r] =
                     [IdleRequest EXCEPT !.pc = "issuing", !.email = a,
                                         !.user.id = account[a].id]]
    /\ UNCHANGED <<account, drawn, link, sender, mailed, spent, misreported, dropped>>

\* A store call fails.  Registering goes on without a link; every other request
\* is answered with the failure.
RequestFails(r) ==
    /\ Faults
    /\ request[r].pc # "idle"
    /\ Over(r)
    /\ UNCHANGED <<account, drawn, link, sender, mailed, spent, misreported, dropped>>

-----------------------------------------------------------------------------
(* Signing in upgrades a hash made with superseded settings, from the copy of *)
(* the account it read; the operator's command sets a role.                   *)

Login(r, a) ==
    /\ request[r].pc = "idle"
    /\ account[a].hash = "old"
    /\ request' = [request EXCEPT ![r] =
                     [IdleRequest EXCEPT !.pc = "upgrading", !.email = a,
                                         !.user = account[a]]]
    /\ UNCHANGED <<account, drawn, link, sender, mailed, spent, misreported, dropped>>

\* Storing the copy that was read, with the new hash in it.
MutUpdatePasswordHash(r) ==
    /\ request[r].pc = "upgrading"
    /\ account' = [account EXCEPT ![request[r].email] =
                     [request[r].user EXCEPT !.hash = "new"]]
    /\ Over(r)
    /\ UNCHANGED <<drawn, link, sender, mailed, spent, misreported, dropped>>

\* Only the hash, and whether or not it worked the caller is signed in.
UpdatePasswordHash(r) ==
    /\ request[r].pc = "upgrading"
    /\ account' = [account EXCEPT ![request[r].email].hash = "new"]
    /\ Over(r)
    /\ UNCHANGED <<drawn, link, sender, mailed, spent, misreported, dropped>>

SetRole(a, role) ==
    /\ account[a] # NoAccount
    /\ account' = [account EXCEPT ![a].role = role]
    /\ UNCHANGED <<drawn, link, request, sender, mailed, spent, misreported, dropped>>

-----------------------------------------------------------------------------
(* The senders.                                                             *)

\* The clock is read; what has expired by then will not be taken.
BeginSend(s) ==
    /\ sender[s].pc = "idle"
    /\ sender' = [sender EXCEPT ![s] =
                    [IdleSender EXCEPT !.pc = "claiming",
                       !.stale = {l \in Links : link[l].state = "live" /\ link[l].left = 0}]]
    /\ UNCHANGED <<account, drawn, link, request, mailed, spent, misreported, dropped>>

\* A batch of what nobody has sent, the oldest first.
Claimable(s, batch) ==
    LET unsent == {l \in Links \ sender[s].stale : link[l].state = "live" /\ ~link[l].sent}
    IN /\ batch \subseteq unsent
       /\ Cardinality(batch) = Min({Batch, Cardinality(unsent)})
       /\ \A l \in batch, k \in unsent \ batch : link[l].left <= link[k].left

MarkedSent(batch) ==
    [l \in Links |-> IF l \in batch THEN [link[l] EXCEPT !.sent = TRUE] ELSE link[l]]

\* Marking a link only once it has gone.
MutClaimUnsent(s, batch) ==
    /\ sender[s].pc = "claiming"
    /\ Claimable(s, batch)
    /\ sender' = [sender EXCEPT ![s] =
                    IF batch = {} THEN IdleSender
                    ELSE [IdleSender EXCEPT !.pc = "sending", !.hand = batch]]
    /\ UNCHANGED <<account, drawn, link, request, mailed, spent, misreported, dropped>>

\* Claiming marks them sent.
ClaimUnsent(s, batch) ==
    /\ sender[s].pc = "claiming"
    /\ Claimable(s, batch)
    /\ link' = MarkedSent(batch)
    /\ sender' = [sender EXCEPT ![s] =
                    IF batch = {} THEN IdleSender
                    ELSE [IdleSender EXCEPT !.pc = "sending", !.hand = batch]]
    /\ UNCHANGED <<account, drawn, request, mailed, spent, misreported, dropped>>

\* The statement fails, or it was carried out and its answer got lost.
ClaimFails(s, batch) ==
    /\ Faults
    /\ sender[s].pc = "claiming"
    /\ batch = {} \/ Claimable(s, batch)
    /\ link' = MarkedSent(batch)
    /\ sender' = [sender EXCEPT ![s] = IdleSender]
    /\ dropped' = dropped \cup batch
    /\ UNCHANGED <<account, drawn, request, mailed, spent, misreported>>

\* The sender is done with one link of its batch.
PutDown(s, l) ==
    sender' = [sender EXCEPT ![s] =
                 IF sender[s].hand = {l} THEN IdleSender
                 ELSE [sender[s] EXCEPT !.pc = "sending", !.hand = @ \ {l}, !.back = NoLink]]

SendEmail(s, l) ==
    /\ sender[s].pc = "sending" /\ l \in sender[s].hand
    /\ mailed' = mailed \cup {l}
    /\ PutDown(s, l)
    /\ UNCHANGED <<account, drawn, link, request, spent, misreported, dropped>>

\* A link that could not be sent is logged and left.
MutSendEmailFails(s, l, arrived) ==
    /\ Faults
    /\ sender[s].pc = "sending" /\ l \in sender[s].hand
    /\ mailed' = IF arrived THEN mailed \cup {l} ELSE mailed
    /\ misreported' = IF arrived THEN misreported \cup {l} ELSE misreported
    /\ PutDown(s, l)
    /\ UNCHANGED <<account, drawn, link, request, spent, dropped>>

\* The mail server refuses it, or takes it and is not heard to.
SendEmailFails(s, l, arrived) ==
    /\ Faults
    /\ sender[s].pc = "sending" /\ l \in sender[s].hand
    /\ mailed' = IF arrived THEN mailed \cup {l} ELSE mailed
    /\ misreported' = IF arrived THEN misreported \cup {l} ELSE misreported
    /\ sender' = [sender EXCEPT ![s].pc = "releasing", ![s].back = l]
    /\ UNCHANGED <<account, drawn, link, request, spent, dropped>>

\* Giving a link back by writing its row again.
MutRelease(s) ==
    /\ sender[s].pc = "releasing"
    /\ link' = [link EXCEPT ![sender[s].back].sent = FALSE,
                            ![sender[s].back].state = "live"]
    /\ PutDown(s, sender[s].back)
    /\ UNCHANGED <<account, drawn, request, mailed, spent, misreported, dropped>>

\* A row that is still there is unsent again.
Release(s) ==
    /\ sender[s].pc = "releasing"
    /\ link' = [link EXCEPT ![sender[s].back].sent = FALSE]
    /\ PutDown(s, sender[s].back)
    /\ UNCHANGED <<account, drawn, request, mailed, spent, misreported, dropped>>

ReleaseFails(s) ==
    /\ Faults
    /\ sender[s].pc = "releasing"
    /\ dropped' = dropped \cup {sender[s].back}
    /\ PutDown(s, sender[s].back)
    /\ UNCHANGED <<account, drawn, link, request, mailed, spent, misreported>>

\* A server goes down with its sender's batch.
SenderCrash(s) ==
    /\ Faults
    /\ sender[s].pc # "idle"
    /\ dropped' = dropped \cup sender[s].hand
    /\ sender' = [sender EXCEPT ![s] = IdleSender]
    /\ UNCHANGED <<account, drawn, link, request, mailed, spent, misreported>>

-----------------------------------------------------------------------------
(* Following a link.                                                        *)

\* Somebody who got the mail follows the link; the clock is read.
BeginVerify(r, l) ==
    /\ request[r].pc = "idle"
    /\ l \in mailed
    /\ request' = [request EXCEPT ![r] =
                     [IdleRequest EXCEPT !.pc = "consuming", !.link = l,
                                         !.usable = link[l].left > 0]]
    /\ UNCHANGED <<account, drawn, link, sender, mailed, spent, misreported, dropped>>

\* What is left of a deleted row: for whom it was.
Gone(row) == [row EXCEPT !.state = "gone", !.left = 0, !.sent = FALSE]

\* Reading the row is enough, and nobody minds when there is none.
MutConsume(r) ==
    /\ request[r].pc = "consuming"
    /\ request' = [request EXCEPT ![r].pc = "marking"]
    /\ UNCHANGED <<account, drawn, link, sender, mailed, spent, misreported, dropped>>

\* Deleting the row is what spends it: unknown, spent and expired are all refused.
Consume(r) ==
    LET l == request[r].link
    IN /\ request[r].pc = "consuming"
       /\ \/ /\ link[l].state = "live" /\ request[r].usable
             /\ link' = [link EXCEPT ![l] = Gone(@)]
             /\ spent' = spent \cup {l}
             /\ request' = [request EXCEPT ![r].pc = "marking"]
          \/ /\ link[l].state = "gone" \/ ~request[r].usable
             /\ Over(r)
             /\ UNCHANGED <<link, spent>>
       /\ UNCHANGED <<account, drawn, sender, mailed, misreported, dropped>>

\* Spent, but the caller was told it failed and the address is not marked.
ConsumeUnacknowledged(r) ==
    LET l == request[r].link
    IN /\ Faults
       /\ request[r].pc = "consuming"
       /\ link[l].state = "live" /\ request[r].usable
       /\ link' = [link EXCEPT ![l] = Gone(@)]
       /\ spent' = spent \cup {l}
       /\ Over(r)
       /\ UNCHANGED <<account, drawn, sender, mailed, misreported, dropped>>

\* Only while the account still has that address.
MarkEmailVerified(r) ==
    LET l == request[r].link
    IN /\ request[r].pc = "marking"
       /\ account' = IF account[link[l].email].id = link[l].user
                     THEN [account EXCEPT ![link[l].email].verified = TRUE]
                     ELSE account
       /\ Over(r)
       /\ UNCHANGED <<drawn, link, sender, mailed, spent, misreported, dropped>>

\* Links grow old; nothing in the running service removes the expired ones.
Tick ==
    /\ link' = [l \in Links |-> [link[l] EXCEPT !.left = IF @ = 0 THEN 0 ELSE @ - 1]]
    /\ UNCHANGED <<account, drawn, request, sender, mailed, spent, misreported, dropped>>

-----------------------------------------------------------------------------
RequestStep(r) ==
    \/ CreateUser(r) \/ CreateUserUnacknowledged(r)
    \/ \E l \in Links : Issue(r, l)
    \/ UpdatePasswordHash(r)
    \/ Consume(r) \/ ConsumeUnacknowledged(r)
    \/ MarkEmailVerified(r)
    \/ RequestFails(r)

SenderStep(s) ==
    \/ BeginSend(s)
    \/ \E batch \in SUBSET Links : ClaimUnsent(s, batch) \/ ClaimFails(s, batch)
    \/ \E l \in Links : SendEmail(s, l)
    \/ \E l \in Links, arrived \in BOOLEAN : SendEmailFails(s, l, arrived)
    \/ Release(s) \/ ReleaseFails(s)

AccountsNext ==
    \/ \E r \in Requests :
         \/ \E a \in Addresses, u \in Users : BeginRegister(r, a, u)
         \/ \E a \in Addresses : Resend(r, a) \/ Login(r, a)
         \/ \E l \in Links : BeginVerify(r, l)
         \/ RequestStep(r)
    \/ \E a \in Addresses, role \in {"customer", "admin"} : SetRole(a, role)
    \/ \E s \in Senders : SenderStep(s) \/ SenderCrash(s)
    \/ Tick

AccountsSpec == AccountsInit /\ [][AccountsNext]_accountVars

-----------------------------------------------------------------------------
(* Properties.                                                              *)

LinkState == [state : {"undrawn", "live", "gone"}, user : Users \cup {NoUser},
              email : Addresses, left : 0..VerificationTTL, sent : BOOLEAN]

RequestState ==
    [pc : {"idle", "creating", "issuing", "upgrading", "consuming", "marking"},
     email : Addresses, user : Account, link : Links \cup {NoLink}, usable : BOOLEAN]

SenderState == [pc : {"idle", "claiming", "sending", "releasing"}, stale : SUBSET Links,
                hand : SUBSET Links, back : Links \cup {NoLink}]

\* Every variable keeps its shape, and no two addresses share an account id.
AccountsTypeOK ==
    /\ account \in [Addresses -> Account]
    /\ \A a, b \in Addresses :
         a # b /\ account[a] # NoAccount => account[a].id # account[b].id
    /\ drawn \subseteq Users
    /\ link \in [Links -> LinkState]
    /\ request \in [Requests -> RequestState]
    /\ sender \in [Senders -> SenderState]
    /\ \A s \in Senders : sender[s].pc = "releasing" <=> sender[s].back \in sender[s].hand
    /\ mailed \cup spent \cup misreported \cup dropped \subseteq Links

\* Following a link works once: a row that somebody's link spent never comes
\* back, whatever the senders still do with it.
LinkSpentOnce == \A l \in spent : link[l].state = "gone"

\* An address counts as verified only once a link mailed to that very address for
\* that very account was followed before it expired.
VerifiedByLink ==
    \A a \in Addresses :
      account[a].verified =>
        \E l \in mailed \cap spent : link[l].user = account[a].id /\ link[l].email = a

\* Two senders never hold the same link, and a link that went out is never taken
\* up again unless its mail was reported as failed.
MailedOnce ==
    \A s \in Senders : \A l \in sender[s].hand :
      /\ \A q \in Senders \ {s} : l \notin sender[q].hand
      /\ l \in mailed => l \in misreported

\* A link marked sent either went out or is still in a sender's hands: only a
\* crash, or a database that fails at the wrong moment, loses one.
SentOrInHand ==
    \A l \in Links \ dropped :
      link[l].sent => l \in mailed \/ \E s \in Senders : l \in sender[s].hand

\* Requests, the hash upgrade, the operator's command and following a link each
\* change their own part of an account: nobody loses an address to a second
\* registration, a verified address stays verified, and a stronger hash is never
\* put back, whatever each of them had read before.
NothingUndone ==
    [][\A a \in Addresses : account[a] # NoAccount =>
         /\ account'[a].id = account[a].id
         /\ account[a].verified => account'[a].verified
         /\ account[a].hash = "new" => account'[a].hash = "new"]_accountVars

-----------------------------------------------------------------------------
(* The inductive invariant the proofs rest on.                              *)

\* Only an address without an account has no id, and every id was drawn.
AccountsAreFormed ==
    \A a \in Addresses :
      /\ account[a].id = NoUser => account[a] = NoAccount
      /\ account[a].id # NoUser => account[a].id \in drawn

\* What a request has made sure of by the time it is where it is.
RequestFits(q) ==
    /\ q.pc = "creating" =>
         /\ q.user.id \in drawn /\ q.user = NewUser(q.user.id)
         /\ \A a \in Addresses : account[a].id # q.user.id
    /\ q.pc = "issuing" => q.user.id \in Users
    /\ q.pc = "upgrading" => account[q.email] # NoAccount
    /\ q.pc \in {"consuming", "marking"} => q.link \in mailed
    /\ q.pc = "marking" => q.link \in spent

RequestsAreFormed == \A r \in Requests : RequestFits(request[r])

\* Two requests never bring the same new account.
CreatedApart ==
    \A r, q \in Requests :
      r # q /\ request[r].pc = "creating" /\ request[q].pc = "creating"
        => request[r].user.id # request[q].user.id

\* A row that was ever issued says for whom; a link is sent only while its row is
\* there; and one that went out and may be claimed again was misreported.
LinksAreFormed ==
    \A l \in Links :
      /\ link[l].state # "undrawn" => link[l].user \in Users
      /\ l \in mailed \cup spent => link[l].state # "undrawn"
      /\ link[l].sent => link[l].state = "live"
      /\ link[l].state = "live" /\ ~link[l].sent /\ l \in mailed => l \in misreported

\* A sender holds links only between a claim and the last of its batch, and the
\* ones it holds are marked sent for as long as their rows are there.
SendersAreFormed ==
    \A s \in Senders :
      /\ sender[s].pc \in {"idle", "claiming"} => sender[s].hand = {}
      /\ \A l \in sender[s].hand :
           /\ link[l].state # "undrawn"
           /\ link[l].state = "live" => link[l].sent

AccountsInv ==
    /\ AccountsTypeOK
    /\ AccountsAreFormed
    /\ RequestsAreFormed
    /\ CreatedApart
    /\ LinksAreFormed
    /\ SendersAreFormed
    /\ LinkSpentOnce
    /\ VerifiedByLink
    /\ MailedOnce
    /\ SentOrInHand

=============================================================================
