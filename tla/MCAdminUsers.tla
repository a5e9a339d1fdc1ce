---------------------------- MODULE MCAdminUsers ----------------------------
(* Small instances of AdminUsers for TLC. *)
EXTENDS AdminUsers

MCMatching == {1, 3, 4}
=============================================================================
