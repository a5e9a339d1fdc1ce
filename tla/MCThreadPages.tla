--------------------------- MODULE MCThreadPages ---------------------------
(* Small instances of ThreadPages for TLC. *)
EXTENDS ThreadPages

MCGrants == {{"lock", "unpublish_post"}, {"unpublish_thread"}}
MCCitations == {{}, {1, 2}}
=============================================================================
