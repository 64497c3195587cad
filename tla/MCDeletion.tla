----------------------------- MODULE MCDeletion -----------------------------
(* Small instances of EventDeletion for TLC. *)
EXTENDS EventDeletion, TLC

CONSTANTS e1, s1, s2, u1, t1, t2

(* One event with one seat, or with both. *)
OneSeat == s1 :> e1

TwoSeats == (s1 :> e1) @@ (s2 :> e1)
=============================================================================
