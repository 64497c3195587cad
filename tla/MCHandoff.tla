----------------------------- MODULE MCHandoff -----------------------------
(* Small instances of Handoff for TLC. *)
EXTENDS Handoff

CONSTANTS e1, s1, s2, u1, u2, c1, w1, w2

(* One event with one seat, or with both. *)
OneSeat == s1 :> e1

TwoSeats == (s1 :> e1) @@ (s2 :> e1)

(* The part of HandoffSpec an offer is made and used in: a seat that is held *)
(* and may be released, somebody in the queue, and clients, joins and a      *)
(* withdrawal to race the workers.  The clock stands still, the workers keep  *)
(* running, and nothing is asked of anybody else.                            *)
OfferInit ==
    /\ HandoffInit
    /\ verified = Users
    /\ \A s \in Seats : seats[s].status = "held"
    /\ \A e \in Events : queue[e] # <<>>

OfferNext ==
    \/ \E t \in Clients : ClientStep(t)
    \/ \E w \in Workers : WorkerStep(w)
    \/ QueueStep
    \/ \E e \in Events : Withdraw(e)

OfferSpec ==
    /\ OfferInit /\ [][OfferNext]_allVars
    /\ \A w \in Workers : WF_allVars(WorkerStep(w))

UserSymmetry == Permutations(Users)
=============================================================================
