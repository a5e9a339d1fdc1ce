---------------------------- MODULE MCTwoFactor ----------------------------
(* Small instances of TwoFactor for TLC. *)
EXTENDS TwoFactor, TLC

CONSTANTS r1, r2, r3

MCRequests2 == {r1, r2}
MCRequests3 == {r1, r2, r3}

\* The slots are interchangeable.
MCSymmetry2 == Permutations(MCRequests2)
MCSymmetry3 == Permutations(MCRequests3)
=============================================================================
