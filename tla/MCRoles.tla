------------------------------ MODULE MCRoles ------------------------------
(* Small instances of Roles for TLC. *)
EXTENDS Roles, TLC

CONSTANTS u1, u2, u3, r1, r2

MCUsers2 == {u1, u2}
MCUsers3 == {u1, u2, u3}
MCRequests2 == {r1, r2}
MCRoles == {"admin"}
MCRoleNames == {"admin", "nobody"}

\* Accounts are interchangeable, and so are the slots.
MCSymmetry2 == Permutations(MCUsers2) \union Permutations(MCRequests2)
MCSymmetry3 == Permutations(MCUsers3) \union Permutations(MCRequests2)
=============================================================================
