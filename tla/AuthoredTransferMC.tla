------------------------- MODULE AuthoredTransferMC -------------------------
(***************************************************************************)
(* Two processes: the second may take over from the first after it dies.   *)
(***************************************************************************)
EXTENDS AuthoredTransfer, TLC

Symmetry == Permutations(Procs) \cup Permutations(Sources)
=============================================================================
