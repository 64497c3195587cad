------------------------------ MODULE MCSessions ------------------------------
(* One account, one token and two requests at a time: enough for a request to  *)
(* be caught between its two checks by a sign-out and by a sweep.              *)
EXTENDS Sessions, TLC

CONSTANTS u1, k1, r1, r2

MCUsers == {u1}
MCTokens == {k1}
MCRequests == {r1, r2}

MCSymmetry == Permutations(Requests)
=============================================================================
