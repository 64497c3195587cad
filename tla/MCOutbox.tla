------------------------------ MODULE MCOutbox -------------------------------
(* Instances of Outbox for TLC. *)
EXTENDS Outbox, TLC

CONSTANTS u1, u2, n1, p1, p2, w1, w2

OneRecipient == n1 :> u1

WorkerSymmetry == Permutations(Workers)
=============================================================================
