----------------------------- MODULE MCSessions -----------------------------
(* Small instances of Sessions for TLC. *)
EXTENDS Sessions, TLC

CONSTANTS t1, t2, u1

MCTabs == {t1, t2}
MCOneUser == {u1}
MCEntries == (t1 :> {"withdrawal"}) @@ (t2 :> {"board"})
=============================================================================
