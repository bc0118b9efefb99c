---------------------------- MODULE MCJobRunner ----------------------------
(***************************************************************************)
(* One job, three claims of it, and one crash or graceful stop at any      *)
(* moment.  With two slots the run of a reaped claim and the run of the    *)
(* next one are in flight together.                                        *)
(***************************************************************************)
EXTENDS JobRunner, TLC

Symmetry == Permutations(Jobs) \cup Permutations(Leases)

=============================================================================
