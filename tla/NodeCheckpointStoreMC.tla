----------------------- MODULE NodeCheckpointStoreMC -----------------------
(***************************************************************************)
(* Three processes and one checkpoint: one dies holding the claim, the two *)
(* others find its lock file.                                              *)
(***************************************************************************)
EXTENDS NodeCheckpointStore, TLC

Symmetry == Permutations(Procs)
=============================================================================
