-------------------------- MODULE MCConfirmations --------------------------
(* A small instance of Confirmations for TLC. *)
EXTENDS Confirmations, TLC

CONSTANTS u1, u2, e1, e2, r1, r2

MCUsers == {u1, u2}
MCEmails == {e1, e2}
MCRequests == {r1, r2}

\* Accounts, addresses and slots are interchangeable.
MCSymmetry ==
    Permutations(MCUsers) \union Permutations(MCEmails) \union Permutations(MCRequests)
=============================================================================
