---------------------------- MODULE MCOptimistic ----------------------------
(* Small instances of OptimisticStore for TLC. *)
EXTENDS OptimisticStore, TLC

CONSTANTS e1, s1, u1, u2, t1, t2

(* One event with one seat. *)
OneSeat == s1 :> e1

Symmetry == Permutations(Users) \cup Permutations(Threads)
=============================================================================
