------------------------------- MODULE MCJobs -------------------------------
(* Small instances of Jobs for TLC. *)
EXTENDS Jobs

CONSTANTS r1, r2, p1, u1

MCRequests == {r1}
MCRequests2 == {r1, r2}
MCPurges == {p1}
MCUsers == {u1}
=============================================================================
