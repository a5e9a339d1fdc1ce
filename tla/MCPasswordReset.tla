-------------------------- MODULE MCPasswordReset --------------------------
(* A small instance of PasswordReset for TLC. *)
EXTENDS PasswordReset, TLC

CONSTANTS u1, u2, r1, r2

MCUsers == {u1, u2}
MCRequests == {r1, r2}

\* Accounts are interchangeable, and so are the slots.
MCSymmetry == Permutations(MCUsers) \union Permutations(MCRequests)
=============================================================================
