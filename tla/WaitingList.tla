---------------------------- MODULE WaitingList ----------------------------
(***************************************************************************)
(* The queue of one event, as the waiting list stores keep it              *)
(* (internal/repository/memory_waiting_list_repository.go,                 *)
(* postgres_waiting_list_repository.go, internal/domain/waiting.go).       *)
(*                                                                         *)
(* A queue is a sequence of entries, front first.  The Postgres store      *)
(* keeps rows and orders them when it reads; both answer alike as long as  *)
(* the sequence stays in the order of Before.                              *)
(***************************************************************************)
EXTENDS Naturals, SequencesExt

Entry(id, user, at) == [id |-> id, user |-> user, joinedAt |-> at]

(* Earlier first; the id, a random string, breaks ties. *)
Before(x, y) ==
    \/ x.joinedAt < y.joinedAt
    \/ x.joinedAt = y.joinedAt /\ x.id < y.id

IsWaiting(queue, user) == \E i \in DOMAIN queue : queue[i].user = user

(* indexOfUser, counting from one; asked only of somebody who waits. *)
Position(queue, user) == CHOOSE i \in DOMAIN queue : queue[i].user = user

(* Mutant: an entry always goes to the back. *)
MutAppend(queue, entry) == Append(queue, entry)

(* Ahead of the first entry it stands before, at the back if there is none. *)
InsertInOrder(queue, entry) ==
    LET behind == {i \in DOMAIN queue : Before(entry, queue[i])}
        at     == IF behind = {} THEN Len(queue) + 1
                  ELSE CHOOSE i \in behind : \A j \in behind : i <= j
    IN  InsertAt(queue, at, entry)

(* Joining again keeps the place already taken. *)
JoinQueue(queue, entry) ==
    IF IsWaiting(queue, entry.user) THEN queue ELSE InsertInOrder(queue, entry)

(* Rejoin has the same rule: an entry of the same user wins. *)
RejoinQueue(queue, entry) ==
    IF IsWaiting(queue, entry.user) THEN queue ELSE InsertInOrder(queue, entry)

(* Leaving a queue one is not in changes nothing. *)
LeaveQueue(queue, user) ==
    IF IsWaiting(queue, user)
    THEN RemoveAt(queue, Position(queue, user))
    ELSE queue

Waiters(queue) == {queue[i].user : i \in DOMAIN queue}

(* Whoever joined earlier stands ahead, and nobody stands twice. *)
InOrder(queue) ==
    \A i, k \in DOMAIN queue : i < k =>
        /\ Before(queue[i], queue[k])
        /\ queue[i].user # queue[k].user
=============================================================================
