---------------------------- MODULE MCImportRuns ----------------------------
(* One import whose runs are interrupted at any step, each followed by the  *)
(* next claim of the job, while the plan file may be lost at any time; the  *)
(* other imports are the destinations that Reserve may find taken.          *)
EXTENDS ImportRuns, TLC

Symmetry == Permutations(Leases)

=============================================================================
