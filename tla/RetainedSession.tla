--------------------------- MODULE RetainedSession ---------------------------
(***************************************************************************)
(* The core of a retained session on a direct channel (no scheduling       *)
(* topology): packages/core/src/retained-session.ts.  Its connection and   *)
(* the leases of it, the operations and their cleanups, the one physical   *)
(* write that may be unresolved, the raw terminal, and the disconnect that *)
(* every fatal path joins.                                                 *)
(*                                                                         *)
(* The session is one JavaScript thread: an action is what runs between    *)
(* two awaits of a task.  The tasks are the client's connect, one #run per *)
(* activation, the opening of the raw terminal, and the disconnect; where  *)
(* a task awaits is its stage (pc for a #run).  Everything that a task     *)
(* awaits may be overtaken by a cancel, a disconnect or a lost recording.  *)
(*                                                                         *)
(* What authored code does in its turns, and when the platform answers, is *)
(* not constrained.  A wait that the session itself rejects on revocation  *)
(* (a read, a timer, a mailbox) is part of the turn.  The platform (the    *)
(* connections, their leases and their disposal) is external.              *)
(***************************************************************************)
EXTENDS Naturals, FiniteSets

CONSTANTS
    Ops,            \* the operations a client may start
    WithCleanup,    \* those that declare a cleanup
    Lifecycle,      \* those that may close and reacquire the connection
    Connections,    \* bound: the platform connections that may be opened
    RetainedLimit,  \* 32 in #start: operations not yet acknowledged
    TaskLimit,      \* 64 in #start: logical tasks
    TimerLimit,     \* #maximumTimers
    NoConnection    \* undefined

ASSUME SessionAssumption ==
    /\ IsFiniteSet(Ops)
    /\ WithCleanup \subseteq Ops /\ Lifecycle \subseteq Ops
    /\ NoConnection \notin Connections
    /\ RetainedLimit \in Nat /\ TaskLimit \in Nat /\ TimerLimit \in Nat

Run(o)     == <<o, "run">>
Cleanup(o) == <<o, "cleanup">>
Activations == Ops \X {"run", "cleanup"}
OpOf(a) == a[1]
IsCleanup(a) == a[2] = "cleanup"

\* The owner of the channel is an activation, the invalidation event that an
\* activation waits for, or nobody.
Event(a) == <<a[1], a[2], "event">>
Nobody   == <<"nobody">>
Client   == <<"client">>

Outcomes == {"completed", "failed", "cancelled"}

VARIABLES
    closed, captureLost, generation,    \* #closed, #captureFailure, #generation
    connection, lease,      \* #connection; the connection #lease belongs to
    reestablish,            \* #protocolReestablishmentRequired
    acquirer,               \* who is in #openConnection: Nobody, Client or an activation
    acqStage, acqConn,      \* where it awaits, and the connection it got
    terminal,               \* #rawTerminal is set
    rawStage, rawConn,      \* where #openRawTerminal awaits, and its connection
    disc, discConn,         \* where #disconnectOnce awaits, and its connection
    ops,                    \* the table of activations, see TableType
    pc, gen, target,        \* of each activation: where #run awaits, its generation,
                            \* the connection it is closing
    outbound,               \* the activations whose physical write is unresolved
    platform, held,         \* external: each connection, and the lease held on it
    disposing               \* external: connections being released and closed

shut    == <<closed, generation, connection, lease, terminal, disc, discConn, disposing>>
acq     == <<acquirer, acqStage, acqConn>>
rawTask == <<rawStage, rawConn>>
world   == <<platform, held>>
runs    == <<pc, gen, target>>
vars == <<shut, captureLost, reestablish, acq, rawTask, ops, runs, outbound, world>>

TableType ==
    [st       : [Activations -> {"none", "live", "revoked", "finished"}],
     owner    : Activations \cup {Event(a) : a \in Activations} \cup {Nobody},
     withheld : SUBSET Ops,                     \* cleanupChild not yet transferred
     wanted   : [Ops -> Outcomes \cup {"none"}],\* the outcome its cleanup will report
     tasks    : Nat, timers : Nat,              \* #tasks, #cleanupTimers
     known    : SUBSET Ops,                     \* keys of #activations
     result   : [Ops -> Outcomes \cup {"none"}],
     ends     : [Ops -> Nat]]                   \* operation-end events published

Init ==
    /\ closed = FALSE /\ captureLost = FALSE /\ generation = 0
    /\ connection = NoConnection /\ lease = NoConnection /\ reestablish = FALSE
    /\ acquirer = Nobody /\ acqStage = "idle" /\ acqConn = NoConnection
    /\ terminal = FALSE /\ rawStage = "idle" /\ rawConn = NoConnection
    /\ disc = "no" /\ discConn = NoConnection
    /\ ops = [st |-> [a \in Activations |-> "none"], owner |-> Nobody, withheld |-> {},
              wanted |-> [o \in Ops |-> "none"], tasks |-> 0, timers |-> 0, known |-> {},
              result |-> [o \in Ops |-> "none"], ends |-> [o \in Ops |-> 0]]
    /\ pc = [a \in Activations |-> "none"]
    /\ gen = [a \in Activations |-> 0]
    /\ target = [a \in Activations |-> NoConnection]
    /\ outbound = {}
    /\ platform = [c \in Connections |-> "unopened"]
    /\ held = [c \in Connections |-> "none"]
    /\ disposing = {}

Some(c) == {c} \ {NoConnection}

\* #live of an activation that owns the channel, but for its work account.
Live(a) ==
    /\ ops.st[a] = "live" /\ ~closed /\ gen[a] = generation
    /\ ops.owner = a /\ ~captureLost

-----------------------------------------------------------------------------
(* #finish and #finishReserved, as functions of the table.                   *)

\* The result of an operation, published and retained.
Conclude(t, o, outcome) ==
    [t EXCEPT !.st[Run(o)] = "finished", !.result[o] = outcome, !.ends[o] = @ + 1]

\* cleanupComplete: a failed cleanup spoils a completed operation.
AfterCleanup(t, o, outcome) ==
    IF outcome # "completed" /\ t.wanted[o] = "completed" THEN "failed" ELSE t.wanted[o]

\* The child ends, and with it its parent.
FinishCleanup(t, o, outcome) ==
    Conclude([t EXCEPT !.st[Cleanup(o)] = "finished", !.owner = Nobody, !.timers = @ - 1],
             o, AfterCleanup(t, o, outcome))

\* A cleanup that is not handed the channel.
BeginCleanupUnowned(t, o, outcome) ==
    [t EXCEPT !.st[Run(o)] = "revoked", !.st[Cleanup(o)] = "live",
              !.withheld = @ \ {o}, !.wanted[o] = outcome]

\* The withheld child takes over: the parent is revoked, not finished.
BeginCleanup(t, o, outcome) ==
    [t EXCEPT !.st[Run(o)] = "revoked", !.st[Cleanup(o)] = "live", !.owner = Cleanup(o),
              !.withheld = @ \ {o}, !.wanted[o] = outcome]

\* A skipped cleanup that keeps its reservation of a task.
SkipCleanupKeepingTask(t, o, outcome) ==
    Conclude([t EXCEPT !.owner = Nobody, !.withheld = @ \ {o}, !.timers = @ - 1],
             o, IF outcome = "completed" THEN "failed" ELSE outcome)

\* In unsafe execution the withheld child is given up with its task and timer.
SkipCleanup(t, o, outcome) ==
    Conclude([t EXCEPT !.owner = Nobody, !.withheld = @ \ {o}, !.tasks = @ - 1, !.timers = @ - 1],
             o, IF outcome = "completed" THEN "failed" ELSE outcome)

Unsafe(exhausted) == closed \/ captureLost \/ exhausted

\* A finish that runs again for an operation whose cleanup has not ended.
FinishAgain(t, a, outcome, exhausted) ==
    IF t.st[a] \in {"finished", "none"} THEN t
    ELSE IF IsCleanup(a) THEN FinishCleanup(t, OpOf(a), outcome)
    ELSE IF OpOf(a) \notin t.withheld THEN Conclude([t EXCEPT !.owner = Nobody], OpOf(a), outcome)
    ELSE IF Unsafe(exhausted) THEN SkipCleanup(t, OpOf(a), outcome)
    ELSE BeginCleanup(t, OpOf(a), outcome)

\* #finish returns at once for an activation that is finished or whose cleanup
\* is pending (the only one revoked and not finished).
Finish(t, a, outcome, exhausted) ==
    IF t.st[a] # "live" THEN t
    ELSE IF IsCleanup(a) THEN FinishCleanup(t, OpOf(a), outcome)
    ELSE IF OpOf(a) \notin t.withheld THEN Conclude([t EXCEPT !.owner = Nobody], OpOf(a), outcome)
    ELSE IF Unsafe(exhausted) THEN SkipCleanup(t, OpOf(a), outcome)
    ELSE BeginCleanup(t, OpOf(a), outcome)

\* #finish ends in a disconnect when a cleanup failed or had to be skipped.
Fatal(a, outcome, exhausted) ==
    /\ ops.st[a] = "live"
    /\ IF IsCleanup(a) THEN outcome # "completed"
                       ELSE OpOf(a) \in ops.withheld /\ Unsafe(exhausted)

\* The loop that cancels every live activation of a closed session, or of one that
\* lost its recording: nothing is safe, so every withheld cleanup is skipped.  A
\* parent whose cleanup runs ends with it.
RevokeAll(t) ==
    LET running  == {o \in Ops : t.st[Run(o)] = "live"}
        cleaning == {o \in Ops : t.st[Cleanup(o)] = "live"}
    IN [t EXCEPT
          !.st = [a \in Activations |-> IF t.st[a] \in {"live", "revoked"} THEN "finished" ELSE t.st[a]],
          !.owner = IF running \cup cleaning = {} THEN t.owner ELSE Nobody,
          !.withheld = {},
          !.tasks = @ - Cardinality(t.withheld),
          !.timers = @ - Cardinality(t.withheld) - Cardinality(cleaning),
          !.result = [o \in Ops |-> IF o \in running THEN "cancelled"
                                    ELSE IF o \in cleaning THEN AfterCleanup(t, o, "cancelled")
                                    ELSE t.result[o]],
          !.ends = [o \in Ops |-> t.ends[o] + IF o \in running \cup cleaning THEN 1 ELSE 0]]

\* #disconnectOnce up to its first await, the writes ob being unresolved: with one
\* unresolved the disposal is not awaited.
Shut(ob) ==
    /\ closed' = TRUE /\ generation' = generation + 1 /\ terminal' = FALSE
    /\ discConn' = connection
    /\ disposing' = disposing \cup Some(connection)
    /\ IF ob = {} THEN disc' = "disposing" /\ UNCHANGED <<connection, lease>>
                  ELSE disc' = "closing" /\ connection' = NoConnection /\ lease' = NoConnection

\* The table becomes t; a fatal end disconnects, once.
Commit(t, fatal, ob) ==
    IF fatal /\ ~closed THEN ops' = RevokeAll(t) /\ Shut(ob)
                        ELSE ops' = t /\ UNCHANGED shut

\* The child's #run starts in the step that begins the cleanup; its generation is
\* the session's.
PcAfter(t, f) ==
    [b \in Activations |-> IF IsCleanup(b) /\ ops.st[b] = "none" /\ t.st[b] = "live" THEN "turn" ELSE f[b]]
GenAfter(t) ==
    [b \in Activations |-> IF IsCleanup(b) /\ ops.st[b] = "none" /\ t.st[b] = "live" THEN generation ELSE gen[b]]

\* #run's catch and the entry of its finally: a ends with this outcome.
EndRun(a, outcome, exhausted, fatal, ob) ==
    LET t == Finish(ops, a, outcome, exhausted)
    IN  /\ Commit(t, fatal \/ Fatal(a, outcome, exhausted), ob)
        /\ pc' = [PcAfter(t, pc) EXCEPT ![a] = "unwind"]
        /\ gen' = GenAfter(t)

-----------------------------------------------------------------------------
(* Clients: starting, cancelling and acknowledging operations.               *)

\* #start in the order of its refusals, then #run up to its first turn.
Start(o) ==
    /\ ops.st[Run(o)] = "none"
    /\ ~reestablish
    /\ connection # NoConnection /\ ~closed /\ ~captureLost
    /\ acquirer # Client                                      \* #entering
    /\ ops.owner = Nobody
    /\ Cardinality(ops.known) < RetainedLimit
    /\ ops.tasks < TaskLimit
    /\ o \in WithCleanup => ops.tasks + 2 <= TaskLimit /\ ops.timers < TimerLimit
    /\ LET more == IF o \in WithCleanup THEN 1 ELSE 0
       IN ops' = [ops EXCEPT !.st[Run(o)] = "live", !.owner = Run(o), !.known = @ \cup {o},
                             !.tasks = @ + 1 + more, !.timers = @ + more,
                             !.withheld = IF o \in WithCleanup THEN @ \cup {o} ELSE @]
    /\ pc' = [pc EXCEPT ![Run(o)] = "turn"]
    /\ gen' = [gen EXCEPT ![Run(o)] = generation]
    /\ UNCHANGED <<shut, captureLost, reestablish, acq, rawTask, target, outbound, world>>

\* cancel-operation: the run goes on to its next await with its authority gone.
Cancel(o) ==
    /\ o \in ops.known
    /\ ops.st[Run(o)] = "live"
    /\ LET t == Finish(ops, Run(o), "cancelled", FALSE)
       IN  /\ Commit(t, Fatal(Run(o), "cancelled", FALSE), outbound)
           /\ pc' = PcAfter(t, pc)
           /\ gen' = GenAfter(t)
    /\ UNCHANGED <<captureLost, reestablish, acq, rawTask, target, outbound, world>>

Acknowledge(o) ==
    /\ o \in ops.known
    /\ ops.result[o] # "none"
    /\ ops' = [ops EXCEPT !.known = @ \ {o}]
    /\ UNCHANGED <<shut, captureLost, reestablish, acq, rawTask, runs, outbound, world>>

\* disconnect, or the last client's detach.
Disconnect ==
    /\ ~closed
    /\ Commit(ops, TRUE, outbound)
    /\ UNCHANGED <<captureLost, reestablish, acq, rawTask, runs, outbound, world>>

\* The recording is lost: every activation is cancelled, and a cleanup that had to
\* be skipped, or was cut short, closes the session.
CaptureLoss ==
    /\ ~captureLost
    /\ captureLost' = TRUE
    /\ LET fatal == ops.withheld # {} \/ \E o \in Ops : ops.st[Cleanup(o)] = "live"
           t == RevokeAll(ops)
       IN  IF fatal /\ ~closed THEN ops' = t /\ Shut(outbound) ELSE ops' = t /\ UNCHANGED shut
    /\ UNCHANGED <<reestablish, acq, rawTask, runs, outbound, world>>

-----------------------------------------------------------------------------
(* One activation's #run.                                                    *)

\* The turn returns a result.
TurnResult(a) ==
    /\ pc[a] = "turn" /\ Live(a)
    /\ EndRun(a, "completed", FALSE, FALSE, outbound)
    /\ UNCHANGED <<captureLost, reestablish, acq, rawTask, target, outbound, world>>

\* The turn fails, or what it asked for is refused, or its answer finds the
\* activation revoked.
TurnFails(a, exhausted) ==
    /\ pc[a] = "turn"
    /\ EndRun(a, "failed", exhausted, FALSE, outbound)
    /\ UNCHANGED <<captureLost, reestablish, acq, rawTask, target, outbound, world>>

\* The execution is terminated with the turn.
TurnTraps(a) ==
    /\ pc[a] = "turn"
    /\ EndRun(a, "failed", TRUE, TRUE, outbound)
    /\ UNCHANGED <<captureLost, reestablish, acq, rawTask, target, outbound, world>>

Connected == connection # NoConnection /\ lease # NoConnection /\ ~terminal

\* A write that does not ask whether an earlier one has settled.
WriteUnchecked(a) ==
    /\ pc[a] = "turn" /\ Live(a) /\ Connected
    /\ outbound' = outbound \cup {a}
    /\ pc' = [pc EXCEPT ![a] = "write"]
    /\ UNCHANGED <<shut, captureLost, reestablish, acq, rawTask, ops, gen, target, world>>

\* #write up to the await of its receipt (#control likewise).
Write(a) ==
    /\ pc[a] = "turn" /\ Live(a) /\ Connected
    /\ outbound = {}
    /\ outbound' = outbound \cup {a}
    /\ pc' = [pc EXCEPT ![a] = "write"]
    /\ UNCHANGED <<shut, captureLost, reestablish, acq, rawTask, ops, gen, target, world>>

\* The platform answers, however late; only an accepted write of an activation that
\* is still live goes on.
WriteSettles(a, accepted) ==
    /\ pc[a] = "write"
    /\ outbound' = outbound \ {a}
    /\ IF accepted /\ Live(a)
       THEN pc' = [pc EXCEPT ![a] = "turn"] /\ UNCHANGED <<shut, ops, gen>>
       ELSE EndRun(a, "failed", FALSE, FALSE, outbound \ {a})
    /\ UNCHANGED <<captureLost, reestablish, acq, rawTask, target, world>>

\* #closeConnection up to its first await.  In direct mode no other activation is live.
Close(a) ==
    /\ pc[a] = "turn" /\ Live(a) /\ Connected
    /\ OpOf(a) \in Lifecycle
    /\ connection' = NoConnection /\ lease' = NoConnection
    /\ generation' = generation + 1
    /\ gen' = [gen EXCEPT ![a] = generation + 1]
    /\ target' = [target EXCEPT ![a] = connection]
    /\ disposing' = disposing \cup {connection}
    /\ pc' = [pc EXCEPT ![a] = "closing"]
    /\ UNCHANGED <<closed, captureLost, terminal, disc, discConn, reestablish, acq, rawTask, ops,
                   outbound, world>>

\* The disposal has ended well and the closer is still live: the state cells are
\* invalidated and the event is dispatched, as a task that owns the channel.
Closed_Invalidate(a) ==
    /\ pc[a] = "closing" /\ target[a] \notin disposing
    /\ Live(a)
    /\ ops.tasks < TaskLimit
    /\ ops' = [ops EXCEPT !.owner = Event(a), !.tasks = @ + 1]
    /\ pc' = [pc EXCEPT ![a] = "invalidating"]
    /\ UNCHANGED <<shut, captureLost, reestablish, acq, rawTask, gen, target, outbound, world>>

\* The disposal failed, or its closer was revoked meanwhile: the session ends.
Closed_Fails(a) ==
    /\ pc[a] = "closing" /\ target[a] \notin disposing
    /\ EndRun(a, "failed", FALSE, TRUE, outbound)
    /\ UNCHANGED <<captureLost, reestablish, acq, rawTask, target, outbound, world>>

EventLive(a) ==
    /\ ops.st[a] = "live" /\ ~closed /\ ~captureLost /\ gen[a] = generation /\ ops.owner = Event(a)

\* #invalidation: the module has taken notice, the channel is its closer's again.
Invalidated(a) ==
    /\ pc[a] = "invalidating" /\ EventLive(a)
    /\ ops' = [ops EXCEPT !.owner = a, !.tasks = @ - 1]
    /\ pc' = [pc EXCEPT ![a] = "turn"]
    /\ UNCHANGED <<shut, captureLost, reestablish, acq, rawTask, gen, target, outbound, world>>

\* It has not, or the event was revoked: the session ends.
Invalidated_Fails(a) ==
    /\ pc[a] = "invalidating"
    /\ LET retired == [ops EXCEPT !.tasks = @ - 1,
                                  !.owner = IF ops.st[a] = "live" /\ ~closed THEN a ELSE @]
           t == Finish(retired, a, "failed", FALSE)
       IN  /\ Commit(t, TRUE, outbound)
           /\ pc' = [PcAfter(t, pc) EXCEPT ![a] = "unwind"]
           /\ gen' = GenAfter(t)
    /\ UNCHANGED <<captureLost, reestablish, acq, rawTask, target, outbound, world>>

\* connection-reacquire, up to the await of the platform's open.
Reacquire(a) ==
    /\ pc[a] = "turn" /\ Live(a)
    /\ OpOf(a) \in Lifecycle
    /\ connection = NoConnection /\ acquirer = Nobody /\ outbound = {}
    /\ acquirer' = a /\ acqStage' = "opening" /\ acqConn' = NoConnection
    /\ pc' = [pc EXCEPT ![a] = "opening"]
    /\ UNCHANGED <<shut, captureLost, reestablish, rawTask, ops, gen, target, outbound, world>>

\* The rest of #run's finally: an ordinary run first awaits its cleanup.
Unwind(a) ==
    /\ pc[a] = "unwind"
    /\ ops.st[a] = "finished"
    /\ ops' = [ops EXCEPT !.tasks = @ - 1]
    /\ pc' = [pc EXCEPT ![a] = "retired"]
    /\ UNCHANGED <<shut, captureLost, reestablish, acq, rawTask, gen, target, outbound, world>>

\* A wall bound that is looked at only between two effects of the cleanup.
CleanupTimeoutBetweenEffects(o) ==
    /\ ops.st[Cleanup(o)] = "live" /\ pc[Cleanup(o)] = "turn"
    /\ LET t == Finish(ops, Cleanup(o), "cancelled", FALSE)
       IN Commit(t, TRUE, outbound)
    /\ UNCHANGED <<captureLost, reestablish, acq, rawTask, runs, outbound, world>>

\* The cleanup's wall bound expires.
CleanupTimeout(o) ==
    /\ ops.st[Cleanup(o)] = "live"
    /\ LET t == Finish(ops, Cleanup(o), "cancelled", FALSE)
       IN Commit(t, TRUE, outbound)
    /\ UNCHANGED <<captureLost, reestablish, acq, rawTask, runs, outbound, world>>

-----------------------------------------------------------------------------
(* #openConnection, for a client or for a live activation.                   *)

\* connect, up to the await of the platform's open.
Connect ==
    /\ connection = NoConnection /\ ~closed /\ acquirer = Nobody /\ ops.owner = Nobody
    /\ outbound = {}
    /\ acquirer' = Client /\ acqStage' = "opening" /\ acqConn' = NoConnection
    /\ UNCHANGED <<shut, captureLost, reestablish, rawTask, ops, runs, outbound, world>>

\* An unresolved write refuses the acquisition, and a connect that fails disconnects.
Connect_Refused ==
    /\ connection = NoConnection /\ ~closed /\ acquirer = Nobody /\ ops.owner = Nobody
    /\ outbound # {}
    /\ Commit(ops, TRUE, outbound)
    /\ UNCHANGED <<captureLost, reestablish, acq, rawTask, runs, outbound, world>>

\* check() of #openConnection.
MayAcquire == ~closed /\ (acquirer # Client => Live(acquirer))

\* The platform opens; an acquirer that is gone gives the connection back.
Acq_Opened(c) ==
    /\ acqStage = "opening"
    /\ platform[c] = "unopened"
    /\ platform' = [platform EXCEPT ![c] = "open"]
    /\ acqConn' = c
    /\ IF MayAcquire THEN acqStage' = "leasing" /\ UNCHANGED disposing
                     ELSE acqStage' = "undoing" /\ disposing' = disposing \cup {c}
    /\ UNCHANGED <<closed, generation, connection, lease, terminal, disc, discConn, captureLost,
                   reestablish, acquirer, rawTask, ops, runs, outbound, held>>

\* The platform refuses to open, or to lease.
Acq_Refused ==
    /\ acqStage \in {"opening", "leasing"}
    /\ acqStage' = "undoing"
    /\ disposing' = disposing \cup Some(acqConn)
    /\ UNCHANGED <<closed, generation, connection, lease, terminal, disc, discConn, captureLost,
                   reestablish, acquirer, acqConn, rawTask, ops, runs, outbound, world>>

\* The grant that forgets to look whether the session was closed meanwhile.
Acq_InstalledUnchecked ==
    /\ acqStage = "leasing"
    /\ held' = [held EXCEPT ![acqConn] = "protocol"]
    /\ generation' = generation + 1
    /\ connection' = acqConn /\ lease' = acqConn
    /\ reestablish' = IF acquirer = Client THEN FALSE ELSE reestablish
    /\ IF acquirer = Client THEN UNCHANGED <<pc, gen>>
       ELSE pc' = [pc EXCEPT ![acquirer] = "turn"] /\ gen' = [gen EXCEPT ![acquirer] = generation + 1]
    /\ acquirer' = Nobody /\ acqStage' = "idle" /\ acqConn' = NoConnection
    /\ UNCHANGED <<closed, terminal, disc, discConn, disposing, captureLost, rawTask, ops, target,
                   outbound, platform>>

\* The lease arrives at a live acquirer, and everything is installed.
Acq_Installed ==
    /\ acqStage = "leasing"
    /\ MayAcquire
    /\ held' = [held EXCEPT ![acqConn] = "protocol"]
    /\ generation' = generation + 1
    /\ connection' = acqConn /\ lease' = acqConn
    /\ reestablish' = IF acquirer = Client THEN FALSE ELSE reestablish
    /\ IF acquirer = Client THEN UNCHANGED <<pc, gen>>
       ELSE pc' = [pc EXCEPT ![acquirer] = "turn"] /\ gen' = [gen EXCEPT ![acquirer] = generation + 1]
    /\ acquirer' = Nobody /\ acqStage' = "idle" /\ acqConn' = NoConnection
    /\ UNCHANGED <<closed, terminal, disc, discConn, disposing, captureLost, rawTask, ops, target,
                   outbound, platform>>

\* The lease arrives too late: "disposed, never installed as a new grant".
Acq_Late ==
    /\ acqStage = "leasing"
    /\ ~MayAcquire
    /\ held' = [held EXCEPT ![acqConn] = "protocol"]
    /\ acqStage' = "undoing"
    /\ disposing' = disposing \cup {acqConn}
    /\ UNCHANGED <<closed, generation, connection, lease, terminal, disc, discConn, captureLost,
                   reestablish, acquirer, acqConn, rawTask, ops, runs, outbound, platform>>

\* What was got is given back: a client's connect disconnects, an activation fails.
Acq_Undone ==
    /\ acqStage = "undoing" /\ acqConn \notin disposing
    /\ acquirer' = Nobody /\ acqStage' = "idle" /\ acqConn' = NoConnection
    /\ IF acquirer = Client THEN Commit(ops, TRUE, outbound) /\ UNCHANGED <<pc, gen>>
                              ELSE EndRun(acquirer, "failed", FALSE, FALSE, outbound)
    /\ UNCHANGED <<captureLost, reestablish, rawTask, target, outbound, world>>

-----------------------------------------------------------------------------
(* The raw terminal.                                                         *)

Active == {o \in Ops : ops.st[Run(o)] # "none" /\ ops.result[o] = "none"}

\* open-raw-terminal, up to the invalidation of the state cells: protocol work must
\* be quiescent, then the protocol's grant ends.
RawOpen ==
    /\ ~terminal /\ connection # NoConnection /\ lease # NoConnection /\ ~closed
    /\ acquirer = Nobody /\ Active = {} /\ ops.tasks = 0 /\ outbound = {}
    /\ reestablish' = TRUE
    /\ generation' = generation + 1
    /\ lease' = NoConnection
    /\ ops' = [ops EXCEPT !.owner = Nobody]
    /\ rawStage' = "invalidating" /\ rawConn' = connection
    /\ UNCHANGED <<closed, connection, terminal, disc, discConn, disposing, captureLost, acq, runs,
                   outbound, world>>

Raw_Invalidated ==
    /\ rawStage = "invalidating" /\ ~closed
    /\ rawStage' = "releasing"
    /\ UNCHANGED <<shut, captureLost, reestablish, acq, rawConn, ops, runs, outbound, world>>

\* The invalidation throws, as it must when the session was closed meanwhile: nothing
\* catches it, the protocol lease is left to the connection.
Raw_InvalidationFails ==
    /\ rawStage = "invalidating"
    /\ rawStage' = "idle" /\ rawConn' = NoConnection
    /\ UNCHANGED <<shut, captureLost, reestablish, acq, ops, runs, outbound, world>>

\* The protocol lease is released, and the raw one asked for.
Raw_Released ==
    /\ rawStage = "releasing"
    /\ held' = [held EXCEPT ![rawConn] = "none"]
    /\ rawStage' = "acquiring"
    /\ UNCHANGED <<shut, captureLost, reestablish, acq, rawConn, ops, runs, outbound, platform>>

\* The platform grants the lease of a connection that is open and not being closed;
\* the session's continuation has not run yet.
Raw_Granted ==
    /\ rawStage = "acquiring"
    /\ platform[rawConn] = "open" /\ rawConn \notin disposing
    /\ held' = [held EXCEPT ![rawConn] = "raw"]
    /\ rawStage' = "granted"
    /\ UNCHANGED <<shut, captureLost, reestablish, acq, rawConn, ops, runs, outbound, platform>>

\* The release or the acquisition fails: the connection is given up.
Raw_Refused ==
    /\ rawStage \in {"releasing", "acquiring"}
    /\ rawStage' = "undoing"
    /\ connection' = NoConnection
    /\ disposing' = disposing \cup {rawConn}
    /\ UNCHANGED <<closed, generation, lease, terminal, disc, discConn, captureLost, reestablish, acq,
                   rawConn, ops, runs, outbound, world>>

\* The continuation installs the lease; it does not look whether the session is closed.
Raw_Installed ==
    /\ rawStage = "granted"
    /\ lease' = rawConn /\ terminal' = TRUE
    /\ rawStage' = "open"
    /\ UNCHANGED <<closed, generation, connection, disc, discConn, disposing, captureLost, reestablish,
                   acq, rawConn, ops, runs, outbound, world>>

\* exit-raw-terminal, the end of its subscription, or the end of its input.
Raw_Exit ==
    /\ terminal
    /\ terminal' = FALSE /\ lease' = NoConnection /\ connection' = NoConnection
    /\ generation' = generation + 1
    /\ disposing' = disposing \cup {rawConn}
    /\ rawStage' = "undoing"
    /\ UNCHANGED <<closed, disc, discConn, captureLost, reestablish, acq, rawConn, ops, runs, outbound, world>>

Raw_Undone ==
    /\ \/ rawStage = "undoing" /\ rawConn \notin disposing
       \/ rawStage = "open" /\ ~terminal        \* a disconnect took it away
    /\ rawStage' = "idle" /\ rawConn' = NoConnection
    /\ UNCHANGED <<shut, captureLost, reestablish, acq, ops, runs, outbound, world>>

-----------------------------------------------------------------------------
(* The disconnect's own task, and the platform.                              *)

\* The awaited disposal has ended.
Disc_Disposed ==
    /\ disc = "disposing" /\ discConn \notin disposing
    /\ disc' = "closing" /\ connection' = NoConnection /\ lease' = NoConnection
    /\ UNCHANGED <<closed, generation, terminal, discConn, disposing, captureLost, reestablish, acq,
                   rawTask, ops, runs, outbound, world>>

\* The execution and the recording are closed, connection-close is published.
Disc_Done ==
    /\ disc = "closing"
    /\ disc' = "done"
    /\ UNCHANGED <<closed, generation, connection, lease, terminal, discConn, disposing, captureLost,
                   reestablish, acq, rawTask, ops, runs, outbound, world>>

\* External: the lease is released, then the connection closed.
Dispose(c) ==
    /\ c \in disposing
    /\ platform' = [platform EXCEPT ![c] = "closed"]
    /\ held' = [held EXCEPT ![c] = "none"]
    /\ disposing' = disposing \ {c}
    /\ UNCHANGED <<closed, generation, connection, lease, terminal, disc, discConn, captureLost,
                   reestablish, acq, rawTask, ops, runs, outbound>>

-----------------------------------------------------------------------------
RunStep(a) ==
    \/ TurnResult(a) \/ (\E x \in BOOLEAN : TurnFails(a, x)) \/ TurnTraps(a)
    \/ Write(a) \/ (\E x \in BOOLEAN : WriteSettles(a, x))
    \/ Close(a) \/ Closed_Invalidate(a) \/ Closed_Fails(a) \/ Invalidated(a) \/ Invalidated_Fails(a)
    \/ Reacquire(a) \/ Unwind(a)

AcqStep == (\E c \in Connections : Acq_Opened(c)) \/ Acq_Refused \/ Acq_Installed \/ Acq_Late \/ Acq_Undone

RawStep ==
    \/ Raw_Invalidated \/ Raw_InvalidationFails \/ Raw_Released \/ Raw_Granted \/ Raw_Refused
    \/ Raw_Installed \/ Raw_Undone

Next ==
    \/ \E o \in Ops : Start(o) \/ Cancel(o) \/ Acknowledge(o) \/ CleanupTimeout(o)
    \/ Disconnect \/ CaptureLoss \/ Connect \/ Connect_Refused
    \/ \E a \in Activations : RunStep(a)
    \/ AcqStep
    \/ RawOpen \/ RawStep \/ Raw_Exit
    \/ Disc_Disposed \/ Disc_Done
    \/ \E c \in Connections : Dispose(c)

(***************************************************************************)
(* Fairness: the platform disposes of what it is given, grants or refuses  *)
(* a lease, and fires the cleanup's timer; a raw terminal whose connection *)
(* is closed sees the end of its input; and what awaits a settled promise  *)
(* goes on.  Turns, writes and the opening of a connection may never end.  *)
(***************************************************************************)
Fairness ==
    /\ \A c \in Connections : WF_vars(Dispose(c))
    /\ WF_vars(acqStage = "leasing" /\ AcqStep) /\ WF_vars(Acq_Undone)
    /\ WF_vars(RawStep)
    /\ WF_vars(terminal /\ platform[rawConn] = "closed" /\ Raw_Exit)
    /\ \A a \in Activations : WF_vars(Closed_Invalidate(a) \/ Closed_Fails(a))
    /\ \A o \in Ops : WF_vars(CleanupTimeout(o))
    /\ WF_vars(Disc_Disposed \/ Disc_Done)

Spec == Init /\ [][Next]_vars /\ Fairness

-----------------------------------------------------------------------------
\* The type of the state.
TypeOK ==
    /\ closed \in BOOLEAN /\ captureLost \in BOOLEAN /\ generation \in Nat
    /\ connection \in Connections \cup {NoConnection} /\ lease \in Connections \cup {NoConnection}
    /\ reestablish \in BOOLEAN /\ terminal \in BOOLEAN
    /\ acquirer \in Activations \cup {Nobody, Client}
    /\ acqStage \in {"idle", "opening", "leasing", "undoing"}
    /\ acqConn \in Connections \cup {NoConnection}
    /\ rawStage \in {"idle", "invalidating", "releasing", "acquiring", "granted", "open", "undoing"}
    /\ rawConn \in Connections \cup {NoConnection}
    /\ disc \in {"no", "disposing", "closing", "done"} /\ discConn \in Connections \cup {NoConnection}
    /\ ops \in TableType
    /\ pc \in [Activations -> {"none", "turn", "write", "closing", "invalidating", "opening",
                               "unwind", "retired"}]
    /\ gen \in [Activations -> Nat]
    /\ target \in [Activations -> Connections \cup {NoConnection}]
    /\ outbound \subseteq Activations
    /\ platform \in [Connections -> {"unopened", "open", "closed"}]
    /\ held \in [Connections -> {"none", "protocol", "raw"}]
    /\ disposing \subseteq Connections

\* The channel is owned exactly while one activation is unfinished: by it, or by the
\* event it waits for.  So a second operation never runs beside it, and when it ends,
\* however it ends, the next one can start.
OwnerExact ==
    /\ \A a \in Activations : ops.st[a] = "live" => ops.owner \in {a, Event(a)}
    /\ ops.owner # Nobody => \E a \in Activations : ops.st[a] = "live" /\ ops.owner \in {a, Event(a)}

\* #tasks and #cleanupTimers count what they are for: the runs that have not
\* unwound, the events that are out, the cleanups withheld and the cleanups that
\* run.  A leak would in time refuse every operation ("retained.task-limit") and
\* every raw terminal; a surplus would admit too many.
AccountsExact ==
    /\ ops.tasks = Cardinality({a \in Activations : pc[a] \notin {"none", "retired"}})
                   + Cardinality({a \in Activations : pc[a] = "invalidating"})
                   + Cardinality(ops.withheld)
    /\ ops.timers = Cardinality(ops.withheld) + Cardinality({o \in Ops : ops.st[Cleanup(o)] = "live"})

\* Every operation that was accepted publishes its end once, through cancellation,
\* cleanup, lost recording and disconnect, and a closed session owes none.
OneResult ==
    \A o \in Ops :
        /\ ops.ends[o] = IF ops.result[o] = "none" THEN 0 ELSE 1
        /\ closed /\ ops.st[Run(o)] # "none" => ops.result[o] # "none"

\* No connection that the platform opened is lost sight of: it is the installed one,
\* or a task that still has to run, or the platform, is about to dispose of it.
ConnectionsAccounted ==
    \A c \in Connections :
        /\ platform[c] = "open" =>
              \/ c = connection \/ c \in disposing
              \/ c = acqConn /\ acqStage # "idle"
              \/ c = rawConn /\ rawStage \in {"releasing", "acquiring", "granted"} /\ ~closed
        /\ held[c] # "none" => platform[c] = "open"

\* A physical write is submitted only by the live owner of the channel, on an open
\* connection whose protocol lease the session holds, and never while an earlier
\* one, of whatever operation or connection, is unresolved; the connection is not the
\* one a raw terminal has, or is getting or giving up.
WriteAuthorityStep ==
    \A a \in outbound' \ outbound :
        /\ outbound = {}
        /\ ops.st[a] = "live" /\ ops.owner = a /\ ~closed
        /\ platform[connection] = "open" /\ held[connection] = "protocol"
        /\ connection \notin disposing /\ rawConn # connection

WriteAuthority == [][WriteAuthorityStep]_vars

\* A session that is closed gives every connection back, also one that the platform
\* opened or leased after the close.
ClosedSessionReleases ==
    closed ~> [](\A c \in Connections : platform[c] = "open" => c \in disposing \/ acqStage = "undoing")

\* An operation whose cleanup has begun ends.
CleanupEnds ==
    \A o \in Ops : ops.st[Run(o)] = "revoked" ~> ops.result[o] # "none"
=============================================================================
