----------------------------- MODULE MCJobQueue -----------------------------
(* Two jobs that share three lease tokens under a budget of two attempts.   *)
EXTENDS JobQueue, TLC

Symmetry == Permutations(Jobs) \cup Permutations(Leases)

=============================================================================
