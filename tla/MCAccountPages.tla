--------------------------- MODULE MCAccountPages ---------------------------
(* Small instances of AccountPages for TLC. *)
EXTENDS AccountPages
=============================================================================
