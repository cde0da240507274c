-------------------------- MODULE SessionProgressMC --------------------------
(* What must happen in a session: a behaviour is either the locks of           *)
(* MCOperationLocks, or the retained session with one operation, which         *)
(* declares a cleanup and may replace the connection.                          *)
EXTENDS MCOperationLocks

CONSTANTS Ops, Connections, RetainedLimit, TaskLimit, TimerLimit, NoConnection

VARIABLES kind,
          ended, captureLost, generation, connection, lease, reestablish,
          acquirer, acqStage, acqConn, terminal, rawStage, rawConn, disc, discConn,
          ops, pc, gen, target, outbound, platform, held, disposing

session == <<ended, captureLost, generation, connection, lease, reestablish, acquirer, acqStage, acqConn,
             terminal, rawStage, rawConn, disc, discConn, ops, pc, gen, target, outbound, platform, held,
             disposing>>

Session == INSTANCE RetainedSession WITH closed <- ended, WithCleanup <- Ops, Lifecycle <- Ops

ProgressInit == kind \in {"locks", "session"} /\ Init /\ Session!Init

ProgressNext ==
    /\ UNCHANGED kind
    /\ \/ kind = "locks" /\ Next /\ UNCHANGED session
       \/ kind = "session" /\ Session!Next /\ UNCHANGED vars

\* The component that does not run has no step enabled.
ProgressSpec ==
    /\ ProgressInit /\ [][ProgressNext]_<<kind, vars, session>>
    /\ \A h \in Handlers : WF_vars(kind = "locks" /\ Resume(h))
    /\ Session!Fairness

-----------------------------------------------------------------------------
\* A session that was closed holds no connection in the end (RetainedSession).
ClosedSessionReleases == Session!ClosedSessionReleases

\* A cleanup ends (RetainedSession).
CleanupEnds == Session!CleanupEnds
=============================================================================
