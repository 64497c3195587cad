---------------------------- MODULE MCIdempotency ----------------------------
(* One key, two requests it is used for, and three attempts at a time: one that *)
(* outlives its claim, one that takes the key over, and one more.              *)
EXTENDS Idempotency, TLC

CONSTANTS k1, r1, r2, r3, a, b

MCKeys == {k1}
MCRequests == {r1, r2, r3}
MCOps == {a, b}

MCSymmetry == Permutations(MCRequests) \cup Permutations(MCOps)
=============================================================================
