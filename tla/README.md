# A verification of the protodriver runtime

protodriver runs device modules, written in Lua, against devices on serial and USB
channels. An application (the CLI, or the web application's worker) makes a
*session* for one module on one platform, and clients talk to the session over an
RPC boundary: they connect it, start and cancel the operations the module
declares, subscribe to its events, open a raw terminal, and disconnect. This
directory holds TLA+ models of the parts of that runtime whose correctness depends
on the order in which things happen, the TLC configurations that check them, and
proofs of what holds for every size.

The reference is the TypeScript code under `src/packages/*/src`. `PROJECT.json`
gives, for each definition, the lines it stands for.

- [The system](#the-system): the components, their state, what is hard about them
- [How the code is read](#how-the-code-is-read)
- [Modules](#modules): what each models, and how it corresponds to the code
- [Runs](#runs): what is checked, with which bounds
- [Proofs](#proofs)
- [Disagreements found](#disagreements-found)
- [What is not modelled](#what-is-not-modelled) and [the plan](#plan)

## The system

Paths are relative to `src/packages`. The runtime is one JavaScript thread per
session. There are no data races; what interleaves are tasks, and a task is
interrupted only where it awaits. A worker, in the web application, makes a second
thread, and only messages cross.

| Component | Where | State it keeps | Operations | Talks to |
|---|---|---|---|---|
| Retained session | `core/src/retained-session.ts` | the connection and its lease, generation, activations and their locks, task and timer accounts, retained results, the unresolved write, the raw terminal, client leases | RPC requests (connect, disconnect, start, cancel, acknowledge, attach, subscribe, raw terminal); deliveries from the platform; the ends of turns, waits, timers | everything below |
| Receive ingress | `core/src/ingress.ts` | the chain of received chunks, one pending read, the termination, metrics, a custody sink | push; read, release; close, discard; bind custody | transports push, the session or a raw terminal reads |
| Operation locks | `core/src/retained-session.ts` (`#takeLocks`, `#releaseLocks`) | owner of each lock, ordered waiters | start, wait, finish, hand over to a cleanup, disconnect | the session's activations |
| Event delivery | `core/src/events.ts` | per subscriber a queue, a count of lossless events, coalescing slots; a replay ring | publish, publishTo, subscribe, unsubscribe, evict, drain | once in the session, once in the client |
| Session RPC | `core/src/rpc.ts` | pending calls, subscriptions made and asked for, listeners | request, subscribe, dispose, receive, close, workerLost | client, adapter, `serveSessionRpc` |
| Client leases, retained results | `core/src/lifecycle.ts`, `leases.ts` | clients with expiry; results per operation, bounded | attach, heartbeat, expire, detach; retain, await, acknowledge, evict | session |
| Resource broker | `core/src/resources.ts` | resources, their owners and grants, calls in flight, read buffers | register, grant, read, write, seek, cancel, close, endOperation, endSession, shutdown | files of the application |
| Transfers, checkpoints | `transfer-runtime/src` | actions in flight, confirmed and durable offsets; a chain of records on disk | admit, settle, cancel, verify, resume; create, append, recover, retire | session's authored transfers, resource broker |
| Capture | `core/src/capture.ts`, `capture-rpc.ts`, `recording-connection.ts` | a reservation account, the record sequence, the destination | reserve, record, seal, fail | session, transports |
| Input custody and retirement | `core/src/input-retirement.ts`, `input-work.ts` | tickets of delivered chunks, work that fanned out of them, cuts | observe, begin and end work, cut, retire | ingress, session |
| Polls | `core/src/authored-poll.ts` | due times, debt, an active poll | tick, run, skip, suspend | session, clock |
| Ready queue, mailboxes, timers, state cells | `core/src/ready-queue.ts`, `retained-mailbox.ts`, `authored-expiry.ts`, `authored-state.ts` | bounded queues, expiries, cells with provenance | enqueue, take; arm, fire; set, expire, invalidate | session with a scheduling topology |
| Sources and streams | `core/src/streaming-source.ts`, `source-materialization` | chunks fetched, digests | materialize, stream | resource broker |
| Diagnostics | `core/src/diagnostics.ts` | a ring and batches per subscriber | record, subscribe | session RPC |
| Acquisition, channel groups | `core/src/acquisition.ts`, `channel-group.ts` | members acquired so far | acquire all, roll back | platforms |
| Authored admission | `core/src/authored-admission.ts` | none | validate declarations and values | session's constructor |
| Work accounts | `core/src/native-work*.ts` | bytes and work reserved | reserve, release | session, Lua VM |
| Transports | `transport-node-serial`, `transport-node-usb`, `transport-browser-serial`, `transport-browser-usb`, `transport-mock` | a native port, its reader, writes under way, closing | open, lease, write, control, close | ingress, native events |
| Lua VM host and bridge | `lua-vm/src`, `lua-vm/bridge` | coroutines, memory and instruction budgets | start a turn, resume, terminate | session |
| Applications, contracts, front ends | `../apps`, `contracts`, `control-model`, `generated-*` | start-up, files, rendering | | the session's clients |

What is hard about it:

- *Overtaking at awaits.* Everything a task awaits (an open, a lease, a disposal, a
  write's receipt, a cleanup) may be overtaken by a cancel, a disconnect or a lost
  recording, and the answer arrives afterwards: at a session that is closed, at an
  activation that is revoked, at a connection that was replaced.
- *Accounts that several paths settle.* The session counts tasks and cleanup timers
  that are withheld at the start of an operation and given back on four different
  paths; the envelope counts subscriptions asked for and made; the queue of a
  subscriber counts lossless events and coalescing slots.
- *One end each.* An operation can be ended by its own result, a failure, a cancel,
  a cleanup's timeout, lost recording and a disconnect, in any order, and must
  publish one end.
- *Bounded queues.* Every queue has a limit, and what happens at the limit is a
  protocol of its own: terminate the channel, evict the subscriber, refuse the call.
- *Peers.* A stalled subscriber, a handler that waits for its locks, a client that
  disposes what is still being made.

`PROJECT.json` lists these as hazards, at the lines where they bite, with the
properties that guard them.

What makes each component correct, in a sentence: the *session* writes only with
authority, ends every operation once, keeps exact accounts and gives every
connection back; the *ingress* loses nothing silently and never leaves a reader
waiting; the *locks* follow the activation that runs under them, are handed out in
order and are not forgotten; *event delivery* keeps order, loses nothing due to a
live subscriber and isolates peers; the *RPC boundary* settles every call and stops
what was disposed; the *broker* confines a grant to its owner and closes each
resource once; a *checkpoint* never claims what the device did not confirm; the
*capture* contains everything that happened, or says that it does not; *retired
input* was interpreted; a *transport* delivers everything it received before its
end.

## How the code is read

- An action is what runs without interruption: a synchronous method with everything
  it calls, or the code of a task between two awaits. An await is a stage of the
  task, kept in a variable.
- What authored code does, and when a platform answers, is not constrained. A wait
  that the session itself rejects on revocation (a read, a timer, a mailbox) is
  part of an authored turn.
- Data is abstracted to what a property tells apart: octets to their offset in the
  stream, events to their number and coalescing keys, an answer to whether it is
  too large.
- History variables, and fields that only record history, say so where they are
  declared. Nothing is decided by them, except where a bound limits the length of a
  behaviour.
- Beside some definitions stands a second one with a longer name, a plausible wrong
  form of the same code (`GrantedByNotBlocking` beside `GrantedBy`). No behaviour
  uses them; `PROJECT.json` pairs each with the property it would break.

## Modules

Each section names the modules of one part of the system, what is a step in them, and
what is coarser than the code; the proofs about a module `M` are in `MProofs`, those about
the transports in `TransportsProofs`, those about the locks and the boundary to clients in
`SessionBoundaryProofs`, see [Proofs](#proofs). Components that do not share state are checked side by
side in one run: the module of the run declares the variables of all of them and a
`kind`, chosen at the start, that says which one the behaviour is about; the others
stand still.

### The path of an input: BoundedIngress, InputCustody, AuthoredScheduler

**BoundedIngress** (`core/src/ingress.ts`). Every method is synchronous, so an action is
a method: `Push` in its four cases (terminated, overflow, refused by the custody sink,
kept), `Incoming` and the three `Next_` cases of a read, `Release`, `Close`, `Discard`,
and `Bind`, `BindFails`, `Dispose` for the custody sink. The only thing left behind by
a call is a pending read, settled by whatever comes first. A chunk is its size, its
custody ticket and its offset `at` in the stream of accepted octets; that tells every
loss, duplication and reordering apart. Soft-limit pressure callbacks change no state
of the channel and are left out.

**InputCustody** (`input-retirement.ts`, `authored-input-retirement.ts`,
`input-work.ts`, and the session's calls of them). Each input has an account (octets
queued, buffered, handed over, in the work of an activation), a node in the index and a
delivery; the AVL tree is the set of what it holds. `Handed over` octets go to the
activations of one handler, at most `Quantum` at a time, with or without an entry that
hears them first. A sample of the cut says which inputs are retired; `certified`
records what it said. The publication frames of a channel group and the index's
watches, which the session never uses, are left out; that ordinary work runs out is a
`Disconnect`; a local cancel always comes with a revocation.

**AuthoredScheduler** (`ready-queue.ts` and, of `retained-session.ts`, waits, timers,
deadlines, mailboxes, routed helper channels, reads, writes, relayed writes, the ledger
of effects). A step is a task or one promise reaction; `micro` is the queue of
reactions, which runs dry before the next task. Stamps of the clock are kept as their
order. Left out: taps, helpers that call helpers, sessions whose helpers own the
channel without a schedule, the deferral of raw input, the re-authorization of a
scheduled write; the limits on queued turns and live effects are not reached.

### The session: OperationLocks, RetainedSession

**OperationLocks** (`#takeLocks`, `#releaseLocks` in `retained-session.ts`). `Start`,
`StartHandler_Take`, `StartHandler_Wait` are `#start` and `#takeLocks`; `Finish` and
`CleanupComplete` run `#releaseLocks`, a scan over the waiters in insertion order which
grants a waiter only when its locks are free and no waiter before it, granted or not,
wants one of them. `GrantedBy` states what the scan grants as a set; an assumption of
`MCOperationLocks` evaluates the loop as it is written against it, for every queue of
the instance. Between a grant and the waiter's own continuation (`Resume`) a cancel may
come: the phase `granted`. `FinishToCleanup` hands the locks to the cleanup.

**RetainedSession** is the heart: connection, operations, cleanups, writes, raw
terminal, disconnect, on a direct channel. The tasks are

- the client's `connect` and an operation's reacquisition, both `#openConnection`:
  `acqStage` goes from `opening` to `leasing`, to `undoing` when something failed or
  came too late (`Acq_*`);
- one `#run` per activation, an operation's run or its cleanup, with its stage in
  `pc`: `turn`, `write` (the receipt), `closing` and `invalidating`
  (`#closeConnection`), `opening`, `unwind` (its `finally`), `retired`;
- `#openRawTerminal` (`rawStage`, `Raw_*`);
- `#disconnectOnce` (`disc`, `Disc_*`), joined by every fatal path: `Shut` is its
  code up to the first await, `Commit(t, fatal, ...)` a step that ends in it.

What `#finish` and `#cancel` do is written as functions on the table of activations
(`Finish`, `BeginCleanup`, `SkipCleanup`, `FinishCleanup`, `RevokeAll`), for one step
of the code applies several. A `Finish` whose argument `exhausted` is true stands
for the unsafe causes in which no cleanup may run: an exhausted budget, a
terminated execution, a missing terminal. Three things are coarser than the code:
the invalidation of state cells is merged with the end of the disposal
(`Closed_Invalidate`); a recording that is lost is always an action of its own
(`CaptureLoss`), never in the middle of a finish; and the platform, external,
opens, leases, disposes and answers as it likes but does not lie: what it reports
as closed is closed.

### The boundary to clients: EventDelivery, SessionRpc, SessionClients, OperationResults

**EventDelivery** (`core/src/events.ts`), the whole class. An event has a number and a
set of keys: none for a lossless one, one for an operation's progress, one per cell for
a change of state. `Enqueue` strips the superseded keys from older events (`Strip`),
evicts a subscriber whose lossless queue is full, schedules its drain. A drain takes
one event, calls the listener and awaits it. The same class serves the session and,
again, its client.

**SessionRpc** (`core/src/rpc.ts`): a client, one of the two adapters, and the session's
side. `calls` records every call; `pending`, `active` and `reserved` are the adapter's;
`listening` the client's; `served` the session's. Requests and answers travel in order,
answers to plain calls are given in any order or never. `Terminate` is `close()` or
`workerLost()`, after which what was on its way may or may not still arrive. The
session's own eviction of a subscriber (`SessionEvicts`) tells nobody, as in the code.
Diagnostic subscriptions, heartbeats and the bounded queue of events between session
and adapter are left out.

**SessionClients** (`apps/web/src/session-worker-host.ts` and the session's own
requests): clients, subscriptions and one pending capture are accepted before a connect
makes the session, replayed into it one after the other, and forwarded from then on.
Every connect request builds a session; two that overlap make two.

**OperationResults** (`lifecycle.ts`, `#start`, `#finish`, `acknowledge-operation`): the
retention's active and retained operations and its waiters, with the session's own
account of the operations it knows.

### Transfers: NodeCheckpointStore, AuthoredTransfer, DurableTransfer, TransferRuntime

**NodeCheckpointStore** (`apps/cli/src/transfer-checkpoints.ts`): one file per
checkpoint, one lock file per claim, processes that share them. Every awaited
file-system call is a step, which may fail; another process may act, and this one die,
between any two. **AuthoredTransfer** (`core/src/authored-transfer.ts`) is the transfer
service of an operation over that store, with a device that buffers, commits late,
reports later still and may forget, and a link that breaks. `svc[p].at` is
`"waiting"` while the service awaits the store; the code after the await is an action
of its own. The device, its protocol and the driver's Lua are external.

**DurableTransfer** is the abstract specification: a record with a prefix, a horizon and
whether finalization began, never ahead of the device, the device never beyond the
horizon, a finalization sent only after the record says so and, if not repeatable,
never twice. `AuthoredTransfer` implements it (`ImplementsContract`): the record is the
checkpoint's file, wherever the service, its claim and its call happen to be.

**TransferRuntime** (`transfer-runtime/src`): the fresh host-to-device executor with its
window, its settlement (reports, acknowledgements, none) and cancellation; the executor
that resumes from a checkpoint; the device-to-host executor. `run.at` is the await the
execution is in; every wait ends with an answer, the caller's abort or its timeout, and
what was asked of the device may happen afterwards. Content is the version of the
source it was read from, a digest the version it was taken of.
`TransferRuntimeMC` also evaluates, as an assumption, the fold of
`reconcileConfirmedPrefix()` against its set-theoretic meaning (`Spans`).

### Transports: ByteConnection, DeviceLink, NodeSerial, BrowserSerial, NodeUsb, BrowserUsb, UsbOpening, ChannelLeases

**ByteConnection** says what `contracts/src/transport.ts` promises of a connection and
its channel on any platform; the four transports are shown to implement it
(`ImplementsConnection`). **DeviceLink** holds what they share: a record per `open()`
of one device, the half-duplex read, the receipt of a write, relative time.
**NodeSerial** has the recovery deadline of a path and the arbitration of a disconnect,
**BrowserSerial** the context lock and the one release of a port, **NodeUsb** the
transfers a close cancels, **BrowserUsb** a window of transfers that cannot be
cancelled. **UsbOpening** is `open()` of the two USB transports call by call, with
`usb-profile.ts`; **ChannelLeases** the lease of a channel and `channel-group.ts`.
Control transfers of an open USB connection, line settings and diagnostics are left out.

### Services: CaptureWriter, CaptureDelivery, PollService, ResourceBroker

**CaptureWriter** (`core/src/capture.ts`): `record()` queues or drops into the pending
gap; the drain writes; reservations are taken before an effect; `close()` and
`abort()`. An operator says what the loader takes of a file, so that the honesty of a
recording is stated about the file at every moment, a torn one included.
**CaptureDelivery** (`capture-rpc.ts`, `apps/cli/src/capture-destination.ts`) is the way
of a part from the worker to the directory over either adapter, neither of which
numbers its calls; the close of a file is awaited, while other calls come and go. **PollService** (`authored-poll.ts`) keeps the service as one record
and its methods as functions of it, since a handler of the session calls several; a job
is a turn that waits in the session's queue and may be stale when it comes.
**ResourceBroker** (`resources.ts`, what `handle()` reaches): one resource, a call in
flight until the microtask that settles it, cancels in between, delegation to another
operation.

## Runs

| Run | Instance | Distinct states | What it shows |
|---|---|---|---|
| `received_input` | queue of 3 octets, chunks of 1 and 2, 2 consumers, 2 bindings; custody of 2 inputs, 3 octets, 2 handler activations; turns of a reader and two alike activations (symmetric), 3 requests | 1 738 507 | no octet lost unreported, in order, no reader left waiting, custody complete; an input called retired was interpreted and every account balances; no wakeup lost, the ledger exact |
| `session_progress` | 3 locks, 3 operations, 3 handlers; or one operation with cleanup and lifecycle on 2 connections | 143 957 | locks follow activations, in order, nobody stranded; a closed session gives connections back, a cleanup ends |
| `retained_session` | 2 operations, one with cleanup and lifecycle, 2 connections (symmetric) | 1 014 021 | write authority, exact owner and accounts, one result, connections accounted |
| `client_boundary` | 2 subscribers (one may never return), 2 keys, 3 events, depth 1; both adapters, 2 subscriptions, 3 calls; 2 clients, 2 connects; 5 operations | 416 717 | delivery exact, calls accounted for, nothing promised to a client is lost or kept too long, peers independent |
| `event_replay`, `session_rpc_hung` | the same | | violations, see below |
| `authored_transfer` | 2 processes, source of 2, 2 sources, 2 attempts, 5 revisions, 1 fault (symmetric) | 2 208 828 | the durable contract is implemented; what is confirmed is on the device; a claim is exclusive |
| `checkpoint_race` | 3 processes | | violation, see below |
| `transfer_runtime` | 3 octets in chunks of 2, window 2, 1 resume, 2 faults, 1 change of the source | 1 696 864 | the checkpoint is truthful, outcomes are honest, finalization once, every step counts |
| `transports` | each transport with 2 connections; USB packet sizes 1, 2; 2 channels, 2 groups | 561 634 | promises of a connection kept, silence kept, every close answers, devices opened as declared |
| `host_services` | buffer 4, parts of 2, 4 observations; 3 calls of the delivery; 1 plan over connections or 2; source of 4 in chunks of 2, 3 grants | 663 355 | a recording is honest and ends; polls keep their distance and are not forgotten, but for those forsaken with a release (below); the broker's reads and delegations are exact |
| `turn_order` | as `received_input` | | violation, see below |

**Why these bounds.** A limit of 3 octets with chunks of 1 and 2 meets a chunk that
fits, one that fills the queue and one that overflows a queue with room left, and 6
octets pass the limit twice. Pieces of one octet, of inputs of one and two, end inside
an input and at its end; two activations may hold pieces of the same input. Three
requests are enough for a wait to be matched, its activation to be overtaken and the
overtaker to end. Two handlers with overlapping locks and one that overlaps with each
make the scan's order matter. In the session, two operations are the fewest for one to
follow another that left something unresolved, and two connections the fewest for a
late answer to meet a replaced connection; an operation starts at most once, so a third
adds no new neighbour. `TaskLimit` 3 and `TimerLimit` 1 are reached. With depth 1 the
second lossless event evicts; three events are the fewest for a multi-cell change to be
superseded in part and followed. Every limit of the client boundary refuses once. A
resumed transfer needs two processes, one crash, and revisions to open, report, admit,
finalize and verify; a third process brings only the race of `checkpoint_race`. In the
library a short last chunk, a report inside a chunk and answers out of order need three
octets in two chunks. Silence and arbitration of one tick, with timers due before
native callbacks, order every pair of deadlines; one chunk heard overflows at the
second. Three overlapping calls of a delivery are an answer taken for another's.

**Deadlock** is off in all passing runs but not for the same reason: sessions, RPC
clients, transfers, captures and closed connections really stop when they are done, and
behaviours of one component of a run stop when its bounds are used up.

**Fairness.** Safety needs none. `SessionProgressMC`: the reaction to a resolved promise
runs (`Resume`), the platform disposes of what it is given and grants or refuses a lease,
the cleanup's wall timer fires, a raw terminal whose connection is closed sees the end
of its input, and a task whose awaited promise has settled goes on. Turns, writes and
the opening of a connection may hang for ever: `ClosedSessionReleases` and
`CleanupEnds` hold all the same; `WaiterServed` states in the formula itself that
authored code that runs ends again and again. `ClientBoundaryMC`: microtasks run (drain,
report), the listeners in `Prompt` settle while the others may never, messages are
delivered and the session answers what it works on. `TransportsMC`: timers run and the
platform answers what it was asked; the host need not close, a device need not send.
`HostServicesMC`: storage answers and microtasks run. `TransferRuntime` has none: that
an execution ends is shown by a ranking function that every step lowers
(`EveryStepCounts`), the timers of its waits being steps. All of it is weak fairness.

**Symmetry** (of connections, activations, processes and sources) is used only in runs
without liveness properties.

## Proofs

`tlapm` checks every proof to its leaves. All theorems hold for every value of the
constants that satisfies the assumptions the modules declare, which say what the code
or the configuration gives: limits are natural numbers, sets of operations are finite,
and the values that mean nobody or nothing (`NobodyAssumption`, `NoneAssumption`,
`NoOwnerAssumption`, `EndingAssumption`) are none of the others. TLC evaluates every one
of them. Two hypotheses are in the theorems themselves: `LocksAssumption` (handlers
and operations are different places, cleanups belong to operations), and, for the
transfer service, `AtMostTwo`: there are at most two processes. The second is not for
convenience. With three, two of them may remove the same dead owner's lock, and the run
`checkpoint_race` shows that a claim is then not exclusive.

**ReceivedInputProofs**, the receive queue. `IngressInvariant` is the inductive invariant `IInv`, from
which `IngressTypeOK`, `IngressNoSilentLoss`, `IngressWaiter`, `IngressCustody` and
the action property `IngressDeliveredInOrder` follow. Two strengthenings are needed.
`Tiles` says that the queued chunks tile the offsets from `delivered` to `accepted`
*and* that each ends at or before `accepted`: the second follows from the first only
by induction over the queue, so it is carried along. `BindingsNumbered` says that a
new binding was never revoked, without which a sink newly installed might be one
that was told it is revoked. The lemmas `TilesTail` and its companions say what
taking and appending a chunk do to a tiling. `PathsAreIngress` carries
all of it over to the composed run.

**ReceivedInputProofs**, the turns, for any activations, mailboxes, requests and limits:
`WakeupsKept` and `TurnsAreAccounted`, from `TurnsInvariant` and `SchedulerAssumption`
(activations and mailboxes are finite sets, told apart from what stands for neither and
from the names of the other events). `Place` says of an activation that it is at *one*
place: it has one turn, or runs, or waits for one thing, or one reaction will resume it,
or it is helped, or it has ended. It is what makes an event settle a wait once, and it
speaks of the reactions and the ready queue together, because a turn passes through
both. With it go `QueueInv` (the state of the ready queue and the tasks that belong to
it), `RelayInv` (one relay runs, has one turn, and the platform's call is its own;
others queue behind it only until that turn), `MailInv` and `ReceiptInv` (one consumer,
one holder), and `LedgerInv`. `WakeInv` is what is behind `NoLostWakeup`, which speaks
of the moments between tasks only: it names the three ways in which a match of the waits
is to come (a task is posted, the queue is posted, a reaction will consider), and holds
in the middle of a task too. `LedgerInv` says of each *possible* effect that it is held
exactly when it is owed, which a step changes at one place; the sets of `LedgerExact`
follow. Two steps are long. The end of an activation (`EndKeeps`) takes it out of every
queue at once, and its calls, its helper's route and the relays behind it must be left
as the others expect them. A match removes from the wait's input, timers or mailbox at
once what it gives the activation, so that no other wait is left with an event that is
gone. Nothing is said of *which* turn runs next: that the order of readiness is not kept
is the finding of `turn_order`.

**SessionBoundaryProofs**, the locks. The three invariants are inductive only together: that a
waiter has a reason to wait is kept by a release because the scan grants every
waiter without one, and that a granted waiter gets *all* its locks rests on two
granted waiters never wanting the same lock, which follows from the waiters being
totally ordered (in `TypeOK`). `GrantedDisjoint` and `HandedOwners` say so;
`ReleasePreserves` does the scan for the three actions that release.
`LocksNoOvertaking` is proved from the same invariant.

**SessionBoundaryProofs**, the boundary to clients, for any calls, subscriptions, clients,
operations and limits. `BoundaryCallsAccounted` rests on `RpcInv`. That a call is in one
place (`OnePlace`) needs little else; that the limit on subscriptions counts exactly and
nothing is served that ended (`Limit`, `Served`) needs the *order*: `CallsInOrder` says
that the calls of a subscription are numbered as they were made, travel in that order both
ways, and are answered before any later request is read, so that a subscribe is settled
before its unsubscribe. Plain calls, answered in any order, are told apart for that.
`BoundaryLeasesAndResultsKept` has two halves. While one session is made, the lists of the
host are those that were accepted, and the session being made agrees with them except for
what changes meanwhile (`OneSession`); of a capture, that the host's number is the one
being opened, or is late (`OneCapture`); where two sessions are made at once nothing is
claimed. Of results: those not acknowledged and not kept were lost, and are at most as many as
were acknowledged while they ran. At the bound of the retention this is a count,
`FewLost`: what is kept fills the retention, and the session knows no more operations than
that (`MaxKnown <= MaxResults`, in the code 32 and 64), so what else is not acknowledged
was forgotten early.

**RetainedSessionProofs.** Every safety
property of the session holds for any operations, connections and limits:
`SessionTypeOK`, `SessionOwner`, `SessionAccounts`, `SessionOneResult`,
`SessionConnections` and the action property `SessionWriteAuthority`, all from
`SessionInvariant` and `SessionAssumption`. The first part is about the table of
activations alone: what `#finish`, the loop of `#cancel` and a change of stage keep of
`TableInv`, whose parts need each other (that one activation lives at most, `Owned`,
is what makes a finish free the channel; that a cleanup runs exactly while its parent
is revoked, in `Lives`, is what makes its end publish a result once; the accounts are
cardinalities of the stages). The second part is about the steps. Three further facts are
needed: `Quiet`, that nothing lives in a session that is closed or lost its recording,
so that a task which a disconnect overtook finds nothing left to end; `Conn`, where a
connection may be (while someone acquires nothing is installed; what is being
undone is disposed of; a raw terminal's connection is the installed one, without a
protocol lease, until the session is closed); and `Links`, that an acquiring
activation awaits its connection and that nothing lives beside a raw terminal. What
the two parts do not need is as telling: `Raw_Installed` may set the terminal of a
session that is already closed, and `Conn` therefore says of a raw terminal mostly what
holds while it is not.

**TransportsProofs.** The opening of a USB device: `OpeningInv` says what each stage of
`open()` holds at the device and has seen of its descriptors; a stage on the way back
holds less. The leases: `LeasesInv` says that a group holds only what it asked
for so far and, once granted, all of it until the channels end. Together they give `TransportsDevicesAccounted`. `TransportsImplementConnection`
is the refinement of `ByteConnection` by the four adapters, for any number of
connections. The contract speaks of one connection at a time, so the proof does too:
`StepOf(r, s)` is a step of the contract from record `r` to record `s`, and each adapter
has an invariant of one record (`NodeSerialRecord` and its companions) and a lemma for
each function of the code that several actions share (`Finished`, `Closed`, `Arrived`)
before those of its actions.
`TransportsKeepSilence` is the action property
`SilenceKept`: `BrowserCalm` says that a timer covers what a browser's connection owes,
`NodeCalm` the same of a Node connection whose path is owed so much. The path's recovery
is shared, and whoever is through with a wait drops it, so `NodeQuiet` needs that all
connections but one are done with, and owe nothing; that is what `overlap` excepts.

**AuthoredTransferProofs.** The inductive invariant is, for each process, a relation of
what its service waits for and where its call of the store is (`Shape`), what the
checkpoints it has in hand say of the file and the device (`Agrees`), and what it may
believe of the lock (`Locked`); for the device, that it is behind the durable horizon
(`DeviceInv`); and an account of finalizations, done and under way (`FinalsInv`). A
step has two halves: the process it belongs to goes on (the lemmas `...Goes`), and what
the others believe survives it (`StillGo`). The second is where checkpoints in hand
must be older revisions of the file or the file itself (`Older`), and where two
processes are needed. From it follow `ClaimIsExclusive`, `WhatIsConfirmedIsOnTheDevice`
and, step by step, the refinement `TransferImplementsContract`.

**TransferRuntimeProofs.** What an execution relies on of the device cannot be invariant
as it stands, for a device may lose everything at any moment: it is conditioned on the
link being usable and the generation being its own, and a loss takes one or the other
(`HeldOf`, lemma `Loses`). `ShapeOf` says what each stage says of the execution alone,
`CheckpointInv` that what a checkpoint confirms was durable in its generation, `LinkInv`
that a report on a usable link is not ahead of the device, `FinalInv` when a
finalization may still run, `SinkInv` where the sink ends, `CountInv` that what is in
flight are chunks. Executions move in few ways, so the frames come first: `Goes`,
`GoesCommitted`, `GoesLinked` and `ReadsOn` for a step that goes on, `Ends` for one that
ends, `Gains` and `Loses` for the device. The action property `OutcomeIsHonest` is the
invariant read at the last step. `EveryStepIsCounted` shows that each step lowers `Rank`,
a natural number, for every window and number of observations: chunks to do are told
by where they begin, so there are at most `Length` of them (`TodoBounded`). That the
execution ends, which follows, is thereby reduced to this theorem without fairness.

**HostServicesProofs.** The resource broker, for any operations, source, chunk size and
declared extent: `BrokerExact`. The invariant says of each stage of a read what the
session and its host know of the grant, the staged chunk and the bytes already debited.
A grant's number is known to the operation it was made for and to no other; a staged
chunk ends where the source stands, and begins where the reader that is told of it will
read on; the debit covers what was delivered and the read under way; and what was
submitted to the sink is what it accepted and what is under way. Source and sink move
apart, so each step is one of two frames, `SourceGoes` or `SinkGoes`, or ends the
operation.

**PollServiceProofs.** The scheduled work, for any plans, operations, delays, bucket and
bounds, under `PollAssumption` and `NamesAssumption` (plans, operations and what stands
for neither are told apart): `NothingForgotten`, `BucketExact` and `PollsKeepDistance`.
`PollInv` is built of what the two parts of the service keep. What is scheduled
(`PlansInv`, `ReleaseInv`): of a plan at most a timer or a turn that is not stale, of a
service that is on and a plan nobody polls, and of the release the same; that the turn of
a *timed* plan never survives the start of an operation is why an arming finds no timer.
`TriedInv`: a release that is due is obstructed or will be tried, unless its last
obstruction was an operation of an older connection (`Forsakes`, which `history.latecomer`
remembers): `NothingForgotten` and the theorems except that case, in which the code does
forget the release and every poll (*Polls* under "Disagreements found"). What the service
believes of the session (`LinkInv`, `OnInv`, `HeldInv`): while it is on the connection is
there and of its generation, and every operation of that generation that is busy is in its
foreground; `OnInv` needs `RunsInv`, that what closes or reacquires a connection runs
alone. `DistanceInv`: a delay left is at least the distance left, in each generation.
`BucketInv`: credit and time since the last reckoning give the permits of a bucket that is
refilled at every period. The methods of the service are functions, so each has a lemma
that says what it does (`ArmIs`, `ResumeIs`, `ForegroundRetiredIs`, ...) and one that says
what it leaves scheduled (`ResumeScheduled`, `RetiredScheduled`, ...); those of the queue
count the turns of a kind (`CountAppend`, `CountEpoch`, ...). The runs instantiate the
service twice, and `HostServicesProofs` carries the three facts over to both: there
`NothingForgotten` includes the bucket.

**Model-checked only.** All liveness (`WaiterServed`, `ClosedSessionReleases`,
`CleanupEnds`, `PeersIndependent`, `EndedSubscriptionsStop`, `CaptureEnds`, `CloseAnswers`),
which with `ENABLED` is beyond the prover. Beyond it too is what needs induction over
data, such as that the loop of `#releaseLocks` computes `GrantedBy` for a queue of any
length: TLC compares them for the queues of the instance. So is `RecordingHonest`, whose
account of the lines written is a fold over them, `DeliveryExact`, whose account of what
a consumer saw is a fold over the notices, and `RetirementExact`, whose accounts are sums
over the ranges of an input and over what a filter leaves of them.

## Disagreements found

Shown by a run that expects a violation, and listed as findings in `PROJECT.json`:

1. **A subscription that asks for no replay gets all of it**
   (`core/src/events.ts:123`, run `event_replay`). `this.#replay.slice(-replayLast)` is
   the whole ring for the default `replayLast` of 0, since -0 is 0.
2. **An answer too large never settles a call of the direct adapter**
   (`core/src/rpc.ts:374`, run `session_rpc_hung`). The call leaves `#pending` before
   its answer is measured; when `settle()` throws, the catch finds nothing to reject.
   The postMessage adapter rejects it. `CallsAccounted` states the exception, so that
   the rest of the account is checked.
3. **Two processes may come to hold one checkpoint** (`apps/cli/src/transfer-checkpoints.ts:212`,
   run `checkpoint_race`). A dead owner's lock is read, probed and unlinked by path; the
   path may name another process's lock by then.
4. **Turns are not taken in the order in which they became ready**
   (`core/src/ready-queue.ts:35`, run `turn_order`). The waits are matched before an
   awaited promise, the earliest job is taken after it; a match reaches the queue later
   still.

Met while modelling, and either modelled as the code does it or left out; no run is
about them:

- *Transports.* `NodeUsb.write` asks whether the connection is usable, not whether it is
  closing. Control transfers in flight are not settled by Node's close, which may then
  throw, and the memoized close leaves the handle open. `NodeSerial.close()` during the
  arbitration of a disconnect reports a close by the host. `waitForRecovery` drops a
  deadline that was extended meanwhile, so with overlapping connections a close may
  answer while silence is owed: `SilenceKept` excepts what `overlap` records. A native open
  begun before a concurrent close's silence was noted may land inside it.
  `BrowserSerial` releases port and lock at once after a stream error; without a lock
  manager a late release may close a port that a newer connection reopened.
- *Transfers.* A resume that finds everything on the device commits `verifying` after
  the completion, so that a failed verification lets a not-repeatable finalization be
  repeated. The digest of what remains is taken after the check of the whole, so a
  source that changes in between is spliced unless verification is declared. Confirmed
  ranges out of order make a resumed commit be refused. Errors before the claim is
  consumed leave it held. An abort between a chunk's read and its admission leaves a
  chunk in flight that was never sent.
- *Capture.* Two concurrent requests to start one both pass the guard, and one recorder
  is orphaned. A raw terminal's reception keeps its old time with a fresh number. A
  throwing `onRecordingLoss` or a failed write leaves lines that the footer does not
  count, and the loader refuses the file. A header that cannot be written aborts nothing.
  An open of a part that races the end stays open (`raced`). Of two ends at once the
  second answers before the files that the first closes are closed.
- *Resource broker.* A cancelled read that took part of a staged chunk loses octets
  (`reader` knows). A release-read whose native close fails leaves the source open and
  ungranted. One resource for two source arguments overwrites the first's reservation.
- *Polls.* An operation that reacquired its own connection loses its failure backoff. A
  settled read that retired the foreground leaves `released` as it was. A release that is
  due can be forgotten, and every poll with it: an operation closes its connection and
  ends, but its `#run` still waits for a sink or a store; the client connects again and
  `resume()` drops the operation from the foreground (`authored-poll.ts:180`); the release
  falls due while the session is not quiescent (`:212`); when the operation retires,
  `foregroundRetired` and `resume` return at once (`:146`, `:176`) and nobody calls
  `settled()`; and while a release is due `#arm` arms no plan (`:240`). That lasts until a
  foreground operation starts or the connection changes. `NothingForgotten` excepts
  exactly this; without the exception TLC finds it in the instance of `host_services`, in
  twelve steps.
- *Scheduler.* A control transfer registers its call without refusing queued relays.
- *Clients.* A heartbeat that stops is never noticed. `acknowledge-operation` accepts an
  operation that still runs, which can then be cancelled no more. One client's
  acknowledgement removes what others have not read. An attach that races a detach
  leaves a ghost heartbeat (`rpc.ts:599`). `#emit` overflowing throws inside a listener
  and the event is lost to a live subscriber (`retained-session.ts:585`).
- *Worker host.* While a pending capture starts, what is attached or withdrawn is not
  replayed (`missed`); a capture asked for after the host looked never settles; of two
  concurrent connects the second session replaces the first, which keeps its device.

## What is not modelled

The list of components in `PROJECT.json` says for each whether and why. Left out for
good: authored admission and contracts (sequential validation of data and types), work
accounts (arithmetic on one thread), the value ABI of the Lua VM (encoding), the front
ends and the applications' file handling (rendering and I/O), and the mock transport (a
test double). Left out so far: source streams and materialization, diagnostics, state
cells and the expiry ledger, the admission of a transfer, the session's entry and
requirements, heartbeats and the broker's own RPC, control transfers of USB, the start
and loss of workers.

## Plan

1. Proofs: of `EventDelivery` and `InputCustody`, what does not rest on folds over their
   sequences; for the rest the sums would have to be carried along in the state.
2. Models: `SourceStreams` (a materialized source that changes while a transfer reads
   it), the session's calls around it, `StateLedger`, `WorkerHost`.
