------------------------------ MODULE MCAccounts ------------------------------
(* One address two people may register at once, two links for it, two requests *)
(* and two senders that take up to two links in a pass.                        *)
EXTENDS Accounts, TLC

CONSTANTS u1, u2, a1, l1, l2, r1, r2, s1, s2

MCUsers == {u1, u2}
MCAddresses == {a1}
MCLinks == {l1, l2}
MCRequests == {r1, r2}
MCSenders == {s1, s2}

MCSymmetry ==
    Permutations(MCUsers) \cup Permutations(MCLinks)
      \cup Permutations(MCRequests) \cup Permutations(MCSenders)
=============================================================================
