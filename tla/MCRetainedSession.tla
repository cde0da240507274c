------------------------- MODULE MCRetainedSession --------------------------
(* Small instances of RetainedSession: two operations, one of which declares  *)
(* a cleanup and may replace the connection, for safety; that one alone for   *)
(* liveness.  The platform opens at most two connections.                     *)
EXTENDS RetainedSession, TLC

MCOps == {"plain", "restore"}
MCRestore == {"restore"}
MCSymmetry == Permutations(Connections)
=============================================================================
