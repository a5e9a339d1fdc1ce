---------------------------- MODULE MCThreads ----------------------------
(* Instances of Threads for TLC: which routes a run has open, and what a body may cite. *)
EXTENDS ThreadsRefinement, TLC

PostingRoutes == ThreadOperations
AllRoutes == ThreadOperations \union ModerationOperations

NoCitations == {{}}
SomeCitations == {{}, {1, 2}, {2, 3}}

Symmetry == Permutations(Users) \union Permutations(Requests)

=============================================================================
