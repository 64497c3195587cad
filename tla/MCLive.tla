-------------------------------- MODULE MCLive --------------------------------
(* Two publishers, a page whose old stream may linger beside its new one, and a *)
(* buffer of one notice, so that notices are dropped.                          *)
EXTENDS Live

CONSTANTS p1, p2, s1, s2, w1, o1
=============================================================================
