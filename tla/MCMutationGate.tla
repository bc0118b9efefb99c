--------------------------- MODULE MCMutationGate ---------------------------
(* Three mutations against two names of checkpoints, each used again and     *)
(* again: one may still be settling, or its task hang, while the other asks. *)
EXTENDS MutationGate
=============================================================================
