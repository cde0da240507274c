----------------------------- MODULE PollService -----------------------------
(***************************************************************************)
(* The scheduled work of a session: AuthoredPollService, packages/core/    *)
(* src/authored-poll.ts, and what the session around it does to it.        *)
(*                                                                         *)
(* The service is one record, svc; a method is a function of it, so that a *)
(* handler of the session that calls several of them is one step.  A job   *)
(* is a turn that waits in the session's ready queue; it is stale when the *)
(* epoch, the revision or the origin it was made for has been left behind. *)
(* Time is relative: what is left of a delay, or how long ago, capped.     *)
(*                                                                         *)
(* All plans are of the session's mode (a plan of another is never armed). *)
(* topology: on a direct channel one operation runs at a time, and a plan  *)
(* may release the device after idleness, if all plans are timed; with     *)
(* handlers, operations overlap and none releases (authored-admission.ts). *)
(***************************************************************************)
EXTENDS Integers, Sequences, FiniteSets

CONSTANTS
    Plans,          \* the polls of the session
    Periodic,       \* those without idle timing, where nothing releases
    Ops,            \* foreground operations
    Interval,       \* intervalMs
    Backoff,        \* failureBackoffMs
    ReleaseAfter,   \* releaseAfterIdleMs
    Burst,          \* the bucket
    Refill,         \* refillEveryMs
    MaxGeneration,  \* bound: connections, opened and closed
    MaxQueue        \* bound: a timer fires only while fewer turns wait

PollAssumption ==
    /\ Periodic \subseteq Plans
    /\ Interval \in Nat \ {0} /\ Backoff \in Nat \ {0} /\ ReleaseAfter \in Nat \ {0}
    /\ Burst \in Nat \ {0} /\ Refill \in Nat \ {0}
    /\ Cardinality(Plans) <= Burst          \* grantPollPlans
    /\ MaxGeneration \in Nat /\ MaxQueue \in Nat \ {0}

VARIABLES
    topology,   \* "releasing": direct, with an idle release; or "periodic"
    svc,        \* the service, see Service
    queue,      \* #turns: its jobs
    session,    \* the session's link, generation and latches
    op,         \* the foreground operations: stage, generation, what they will report
    reading,    \* a native read whose operation has retired: whose, on the present pump
    history     \* what a reader of the wire would reckon, see History

pollVars == <<topology, svc, queue, session, op, reading, history>>

Off == -1
NoOne == "no one"

Service ==
    [enabled |-> FALSE, closed |-> FALSE, generation |-> 0,
     due     |-> [p \in Plans |-> 0],           \* until dueUs
     timer   |-> [p \in Plans |-> Off],
     active  |-> [p \in Plans |-> "none"],      \* none, running, or ended and not retired
     born    |-> [p \in Plans |-> 0],           \* activeGeneration
     foreground |-> [o \in {} |-> 0],           \* #foreground
     idle    |-> Off,                           \* since #operatorIdleUs
     rtimer  |-> Off,                           \* #releaseTimer
     releaseDue |-> FALSE, releasing |-> FALSE, released |-> FALSE,
     credit  |-> Burst, elapsed |-> 0,          \* since #refilledUs
     strayed |-> FALSE]                         \* a timer was armed over a running one

\* permits: a bucket that is refilled at once; owed: how long a plan must still wait after
\* its last poll; idleFor: how long no foreground operation of this generation was busy.
\* latecomer: a release that is due was forsaken on this connection, see Forsakes.
History == [permits |-> Burst, phase |-> 0, owed |-> [p \in Plans |-> 0], idleFor |-> 0,
            latecomer |-> FALSE]

PollInit ==
    /\ topology \in {"releasing", "periodic"}
    /\ svc = Service /\ queue = <<>>
    /\ session = [link |-> FALSE, generation |-> 0, entering |-> FALSE, offer |-> FALSE, lost |-> FALSE]
    /\ op = [o \in Ops |-> [st |-> "none", generation |-> 0, reentry |-> FALSE, done |-> FALSE]]
    /\ reading = [who |-> NoOne, present |-> FALSE]
    /\ history = History

Timed == IF topology = "releasing" THEN Plans ELSE Plans \ Periodic
Larger(a, b) == IF a > b THEN a ELSE b
Smaller(a, b) == IF a < b THEN a ELSE b

Foreground(s) == DOMAIN s.foreground
With(f, o, g) == [x \in DOMAIN f \cup {o} |-> IF x = o THEN g ELSE f[x]]
Without(f, S) == [x \in DOMAIN f \ S |-> f[x]]

-----------------------------------------------------------------------------
(* The methods of the service.                                             *)

Armable(s, p) ==
    /\ s.enabled /\ ~s.closed /\ ~s.released /\ ~s.releaseDue
    /\ s.active[p] = "none"
    /\ p \in Timed => Foreground(s) = {}

\* #arm, of each of these plans.
Arm(s, S) ==
    [s EXCEPT !.timer = [p \in Plans |-> IF p \in S /\ Armable(s, p) THEN s.due[p] ELSE @[p]],
              !.strayed = @ \/ \E p \in S : Armable(s, p) /\ s.timer[p] # Off]

\* #armRelease.
ArmRelease(s) ==
    [s EXCEPT !.rtimer =
        IF /\ topology = "releasing" /\ s.enabled /\ ~s.closed /\ ~s.released
           /\ Foreground(s) = {} /\ s.idle # Off
        THEN Larger(0, ReleaseAfter - s.idle) ELSE Off]

\* #resetIdle, of each of these plans.
ResetIdle(s, S) ==
    [s EXCEPT !.due = [p \in Plans |-> IF p \in S THEN Larger(@[p], Interval) ELSE @[p]],
              !.strayed = @ \/ \E p \in S : s.timer[p] # Off]

Pause(s) == [s EXCEPT !.enabled = FALSE, !.rtimer = Off, !.timer = [p \in Plans |-> Off]]

\* resume() with nothing to do.
Resumed(s, g) == s.closed \/ (s.enabled /\ s.generation = g)

\* resume() that arms the plans where they were.
ResumeHasty(s, g) ==
    IF Resumed(s, g) THEN s
    ELSE LET on == [Pause(s) EXCEPT !.enabled = TRUE, !.generation = g,
                        !.foreground = Without(@, {o \in Foreground(s) : s.foreground[o] # g})]
             idle == [on EXCEPT !.idle = IF Foreground(on) = {} /\ @ = Off THEN 0 ELSE @]
         IN Arm(ArmRelease(idle), Plans)

Resume(s, g) ==
    IF Resumed(s, g) THEN s
    ELSE LET on == [Pause(s) EXCEPT !.enabled = TRUE, !.generation = g,
                        !.foreground = Without(@, {o \in Foreground(s) : s.foreground[o] # g})]
             idle == [on EXCEPT !.idle = IF Foreground(on) = {} /\ @ = Off THEN 0 ELSE @]
         IN Arm([ArmRelease(idle) EXCEPT !.due = [p \in Plans |-> Larger(@[p], Interval)]], Plans)

ForegroundStarted(s, o, g) ==
    [s EXCEPT !.foreground = With(@, o, g),
              !.rtimer = Off, !.idle = Off, !.releaseDue = FALSE,
              !.timer = [p \in Plans |-> IF p \in Timed THEN Off ELSE @[p]]]

\* Nothing, unless o was the last one.
ForegroundRetired(s, o, successfulReentry) ==
    LET left == [s EXCEPT !.foreground = Without(@, {o})]
        idle == [left EXCEPT !.released = @ /\ ~successfulReentry, !.idle = 0]
    IN IF o \notin Foreground(s) \/ Foreground(left) # {} THEN left
       ELSE Arm(ResetIdle(ArmRelease(idle), Timed), Timed)

OperationReacquired(s, a, g) ==
    [s EXCEPT !.foreground = IF a \in Foreground(s) THEN With(@, a, g) ELSE @,
              !.born = [p \in Plans |-> IF p = a THEN g ELSE @[p]]]

\* terminal(): the plan stays active, and its next time is reckoned from here.
Terminal(s, p, completed) ==
    LET delay == IF completed THEN Interval ELSE Backoff
    IN [s EXCEPT !.active[p] = "ended",
                 !.due[p] = IF p \notin Timed THEN delay
                            ELSE IF s.born[p] = s.generation THEN Larger(@, delay) ELSE @]

Settled(s, p) ==
    LET free == [s EXCEPT !.active[p] = "none"]
    IN IF p \in Timed /\ s.born[p] = s.generation /\ Foreground(s) = {} THEN ResetIdle(free, {p}) ELSE free

\* retired() that leaves it to the next resume() to arm the plan.
RetiredUnarmed(s, p) == Settled(s, p)

Retired(s, p) == Arm(Settled(s, p), {p})

\* #tryRelease.
TryRelease(s, quiescent) ==
    IF /\ s.releaseDue /\ ~s.released /\ ~s.releasing /\ Foreground(s) = {} /\ s.enabled
       /\ \A p \in Plans : s.active[p] = "none"
       /\ quiescent
    THEN [s EXCEPT !.releasing = TRUE, !.timer = [p \in Plans |-> Off]]
    ELSE s

\* #debit: what the bucket holds now.
Refilled(s) ==
    [s EXCEPT !.credit = Smaller(Burst, @ + s.elapsed \div Refill), !.elapsed = @ % Refill]

-----------------------------------------------------------------------------
(* The jobs.                                                               *)

Poll(p)   == [kind |-> "poll", plan |-> p, fresh |-> TRUE]
Release   == [kind |-> "release", plan |-> NoOne, fresh |-> TRUE]
Again     == [kind |-> "again", plan |-> NoOne, fresh |-> TRUE]
Conclude  == [kind |-> "conclude", plan |-> NoOne, fresh |-> TRUE]

Outdated(q, Old(_)) == [i \in DOMAIN q |-> [q[i] EXCEPT !.fresh = @ /\ ~Old(q[i])]]

NewEpoch(q) == Outdated(q, LAMBDA j : j.kind \in {"poll", "release"})
NewRevision(q, S) == Outdated(q, LAMBDA j : j.plan \in S)
Busier(q) == Outdated(q, LAMBDA j : j.kind = "release" \/ j.plan \in Timed)

\* settled(), and the end of retired().
TryAgain(s, q) == IF s.releaseDue /\ ~s.closed THEN Append(q, Again) ELSE q

\* What resume() and foregroundRetired() leave behind.
AfterResume(s, g, q) == IF Resumed(s, g) THEN q ELSE NewEpoch(q)
AfterForeground(s, o, q) == IF Foreground(s) = {o} THEN NewRevision(q, Timed) ELSE q

Busy(o) == op[o].st # "none"
Running == {o \in Ops : op[o].st = "running"} \cup {p \in Plans : svc.active[p] = "running"}
NoTask == /\ \A o \in Ops : ~Busy(o)
          /\ \A p \in Plans : svc.active[p] = "none"
Quiescent == NoTask /\ ~reading.present

\* The session's refusals, in #start.
Startable == /\ session.link /\ ~svc.closed /\ ~session.lost /\ ~session.entering /\ ~svc.releasing
             /\ topology = "releasing" => Running = {}

Unobserved == UNCHANGED <<topology, op, reading, session>>

Turn == queue # <<>> /\ queue' = Tail(queue)

\* The wire sees a poll: a permit is gone.
Spent == history' = [history EXCEPT !.permits = @ - 1]

Job_Poll(p) ==
    LET due == [svc EXCEPT !.releaseDue = TRUE]
        late == topology = "releasing" /\ svc.idle # Off /\ svc.idle >= ReleaseAfter
    IN /\ Turn /\ Head(queue).plan = p /\ Head(queue).fresh /\ Armable(svc, p)
       /\ \/ late /\ svc' = TryRelease(due, Quiescent) /\ UNCHANGED history
          \/ ~late /\ svc.due[p] > 0 /\ svc' = Arm(svc, {p}) /\ UNCHANGED history
          \/ /\ ~late /\ svc.due[p] = 0
             /\ Startable /\ ~session.offer /\ Refilled(svc).credit > 0
             /\ svc' = [Refilled(svc) EXCEPT !.credit = @ - 1, !.active[p] = "running",
                                             !.born[p] = svc.generation]
             /\ Spent
          \/ /\ ~late /\ svc.due[p] = 0         \* refused before the debit
             /\ svc' = Arm([svc EXCEPT !.due[p] = Interval], {p})
             /\ UNCHANGED history
          \/ /\ ~late /\ svc.due[p] = 0 /\ Startable /\ ~session.offer /\ Refilled(svc).credit = 0
             /\ svc' = Arm([Refilled(svc) EXCEPT !.due[p] = Interval], {p})
             /\ UNCHANGED history
       /\ Unobserved

Job_Release ==
    /\ Turn /\ Head(queue).kind = "release" /\ Head(queue).fresh
    /\ Foreground(svc) = {} /\ ~svc.closed
    /\ svc' = TryRelease([svc EXCEPT !.releaseDue = TRUE], Quiescent)
    /\ Unobserved /\ UNCHANGED history

Job_Again ==
    /\ Turn /\ Head(queue).kind = "again"
    /\ svc' = TryRelease(svc, Quiescent)
    /\ Unobserved /\ UNCHANGED history

Job_Conclude ==
    /\ Turn /\ Head(queue).kind = "conclude"
    /\ svc' = [svc EXCEPT !.released = TRUE, !.releaseDue = FALSE, !.releasing = FALSE]
    /\ Unobserved /\ UNCHANGED history

\* A job that finds that it was left behind.
Job_Stale ==
    /\ Turn
    /\ LET j == Head(queue)
       IN \/ j.kind = "poll" /\ ~(j.fresh /\ Armable(svc, j.plan))
          \/ j.kind = "release" /\ ~(j.fresh /\ Foreground(svc) = {})
    /\ Unobserved /\ UNCHANGED <<svc, history>>

-----------------------------------------------------------------------------
(* Time.                                                                   *)

Timer_Plan(p) ==
    /\ svc.timer[p] = 0 /\ Len(queue) < MaxQueue
    /\ svc' = [svc EXCEPT !.timer[p] = Off] /\ queue' = Append(queue, Poll(p))
    /\ Unobserved /\ UNCHANGED history

Timer_Release ==
    /\ svc.rtimer = 0 /\ Len(queue) < MaxQueue
    /\ svc' = [svc EXCEPT !.rtimer = Off] /\ queue' = Append(queue, Release)
    /\ Unobserved /\ UNCHANGED history

\* state.invalidate() has settled.
Invalidated ==
    /\ svc.releasing /\ ~svc.closed /\ ~session.lost
    /\ \A i \in DOMAIN queue : queue[i].kind # "conclude"
    /\ queue' = Append(queue, Conclude)
    /\ Unobserved /\ UNCHANGED <<svc, history>>

Less(n) == IF n > 0 THEN n - 1 ELSE n

\* An operation of this generation, or the read it left, keeps the foreground busy.
ForegroundBusy == \E o \in Ops : (Busy(o) \/ reading.who = o) /\ op[o].generation = session.generation

\* Beyond a full bucket, only the part of the period counts.
Later(e) == IF e + 1 >= (Burst + 1) * Refill THEN e + 1 - Refill ELSE e + 1

Tick ==
    /\ ~svc.closed
    /\ svc' = [svc EXCEPT !.due = [p \in Plans |-> Less(@[p])],
                          !.timer = [p \in Plans |-> Less(@[p])],
                          !.rtimer = Less(@),
                          !.idle = IF @ = Off THEN Off ELSE Smaller(@ + 1, ReleaseAfter),
                          !.elapsed = Later(@)]
    /\ history' = [history EXCEPT
            !.permits = IF history.phase + 1 = Refill THEN Smaller(Burst, @ + 1) ELSE @,
            !.phase = (@ + 1) % Refill,
            !.owed = [p \in Plans |-> Less(@[p])],
            !.idleFor = IF ForegroundBusy THEN 0 ELSE Smaller(@ + 1, Interval)]
    /\ queue' = queue /\ Unobserved

-----------------------------------------------------------------------------
(* The session.                                                            *)

\* The end of #run resumes the service, unless the session cannot use it.
Resumes == ~svc.closed /\ ~session.lost /\ session.link /\ ~session.entering /\ ~session.offer
AtEnd(s, q) ==
    /\ svc' = IF Resumes THEN Resume(s, session.generation) ELSE s
    /\ queue' = IF Resumes THEN AfterResume(s, session.generation, q) ELSE q

NextGeneration == session.generation < MaxGeneration

\* connect: the connection is there, and entry runs.
Connect ==
    /\ ~session.link /\ ~svc.closed /\ ~session.entering /\ Running = {} /\ NextGeneration
    /\ session' = [session EXCEPT !.link = TRUE, !.generation = @ + 1, !.entering = TRUE]
    /\ history' = [history EXCEPT !.idleFor = 0]
    /\ UNCHANGED <<topology, svc, queue, op, reading>>

Entered ==
    /\ session.entering /\ ~svc.closed
    /\ session' = [session EXCEPT !.entering = FALSE]
    /\ svc' = Resume(svc, session.generation)
    /\ queue' = AfterResume(svc, session.generation, queue)
    /\ UNCHANGED <<topology, op, reading, history>>

Operation_Starts(o) ==
    /\ Startable /\ ~Busy(o) /\ reading.who # o
    /\ op' = [op EXCEPT ![o] = [st |-> "running", generation |-> session.generation,
                                reentry |-> svc.released, done |-> FALSE]]
    /\ session' = [session EXCEPT !.offer = FALSE]
    /\ svc' = ForegroundStarted(svc, o, session.generation)
    /\ queue' = Busier(queue)
    /\ history' = [history EXCEPT !.idleFor = 0, !.latecomer = FALSE]
    /\ UNCHANGED <<topology, reading>>

\* #finish: its result is published, and it may still have to settle.
Operation_Ends(o) ==
    /\ op[o].st = "running"
    /\ \E completed \in BOOLEAN : op' = [op EXCEPT ![o].st = "ended", ![o].done = completed]
    /\ UNCHANGED <<topology, svc, queue, session, reading, history>>

Leaves(who) == reading.who = NoOne /\ session.link /\ topology = "releasing"
               /\ reading' = [who |-> who, present |-> TRUE]

\* The last obstruction of a release that is due was an operation of an older connection:
\* resume() had dropped it from the foreground, and so its end tries nothing again.
Forsakes(o) == svc.enabled /\ svc.releaseDue /\ o \notin Foreground(svc) /\ Quiescent'

\* The end of its #run; a native read that it gave up keeps the foreground busy.
Operation_Retires(o) ==
    LET reentered == op[o].reentry /\ op[o].done /\ ~svc.closed
    IN /\ op[o].st = "ended"
       /\ op' = [op EXCEPT ![o].st = "none"]
       /\ \/ Leaves(o) /\ AtEnd(svc, queue)
          \/ /\ UNCHANGED reading
             /\ AtEnd(ForegroundRetired(svc, o, reentered), AfterForeground(svc, o, queue))
       /\ history' = [history EXCEPT !.latecomer = @ \/ Forsakes(o)]
       /\ UNCHANGED <<topology, session>>

\* The native read settles: #readInput.
Read_Settles ==
    /\ reading.who # NoOne /\ reading' = [who |-> NoOne, present |-> FALSE]
    /\ LET o == reading.who
           after == IF o \in Ops THEN ForegroundRetired(svc, o, FALSE) ELSE svc
       IN /\ svc' = after
          /\ queue' = TryAgain(after, IF o \in Ops THEN AfterForeground(svc, o, queue) ELSE queue)
    /\ UNCHANGED <<topology, session, op, history>>

Poll_Ends(p, completed) ==
    /\ svc.active[p] = "running"
    /\ svc' = Terminal(svc, p, completed)
    /\ history' = [history EXCEPT !.owed[p] = IF p \in Timed /\ svc.born[p] # svc.generation THEN @
                                             ELSE IF completed THEN Interval ELSE Backoff]
    /\ queue' = queue /\ Unobserved

Poll_Retires(p) ==
    /\ svc.active[p] = "ended"
    /\ \/ Leaves("poll") \/ UNCHANGED reading
    /\ LET revised == IF p \in Timed THEN NewRevision(queue, {p}) ELSE queue
       IN AtEnd(Retired(svc, p), TryAgain(svc, revised))
    /\ UNCHANGED <<topology, session, op, history>>

\* An operation closes the connection it runs on, and acquires it anew.
Closes(a) ==
    /\ a \in Running /\ session.link /\ ~svc.closed /\ topology = "releasing" /\ NextGeneration
    /\ session' = [session EXCEPT !.link = FALSE, !.generation = @ + 1]
    /\ svc' = Pause(svc) /\ queue' = NewEpoch(queue)
    /\ op' = [o \in Ops |-> IF o = a THEN [op[o] EXCEPT !.generation = session.generation + 1] ELSE op[o]]
    /\ reading' = [reading EXCEPT !.present = FALSE]
    /\ history' = [history EXCEPT !.idleFor = 0, !.latecomer = FALSE]
    /\ UNCHANGED topology

Reacquires(a) ==
    /\ a \in Running /\ ~session.link /\ ~svc.closed /\ topology = "releasing" /\ NextGeneration
    /\ session' = [session EXCEPT !.link = TRUE, !.generation = @ + 1]
    /\ svc' = OperationReacquired(svc, a, session.generation + 1)
    /\ op' = [o \in Ops |-> IF o = a THEN [op[o] EXCEPT !.generation = session.generation + 1] ELSE op[o]]
    /\ history' = [history EXCEPT !.idleFor = 0]
    /\ UNCHANGED <<topology, queue, reading>>

\* A raw terminal is opened, and closed: the protocol must be established anew.
RawTerminal ==
    /\ session.link /\ ~session.entering /\ ~svc.closed /\ NoTask /\ NextGeneration
    /\ session' = [session EXCEPT !.link = FALSE, !.generation = @ + 1]
    /\ svc' = Pause(svc) /\ queue' = NewEpoch(queue)
    /\ reading' = [reading EXCEPT !.present = FALSE]
    /\ history' = [history EXCEPT !.idleFor = 0, !.latecomer = FALSE]
    /\ UNCHANGED <<topology, op>>

\* A checkpoint is inspected: the offer to resume silences the polls until an operation.
Offer ==
    /\ session.link /\ ~session.entering /\ ~svc.closed /\ Running = {}
    /\ session' = [session EXCEPT !.offer = TRUE]
    /\ svc' = Pause(svc) /\ queue' = NewEpoch(queue)
    /\ UNCHANGED <<topology, op, reading, history>>

Cancelled(S) == [o \in Ops |-> IF o \in S /\ op[o].st = "running" THEN [op[o] EXCEPT !.st = "ended"] ELSE op[o]]
PollsCancelled(s) ==
    LET going == {p \in Plans : s.active[p] = "running"}
        delayed == [p \in Plans |-> Terminal(s, p, FALSE).due[p]]
    IN [s EXCEPT !.active = [p \in Plans |-> IF p \in going THEN "ended" ELSE @[p]],
                 !.due = [p \in Plans |-> IF p \in going THEN delayed[p] ELSE @[p]]]

\* onRecordingLoss: the failure stays, and nothing starts any more.
RecordingLost ==
    /\ ~session.lost /\ ~svc.closed
    /\ session' = [session EXCEPT !.lost = TRUE]
    /\ svc' = PollsCancelled(Pause(svc)) /\ queue' = NewEpoch(queue)
    /\ op' = Cancelled(Ops)
    /\ UNCHANGED <<topology, reading, history>>

\* #disconnectOnce, of a client or after a failure; the queue refuses from now on.
Disconnect ==
    /\ ~svc.closed
    /\ session' = [session EXCEPT !.link = FALSE, !.entering = FALSE]
    /\ svc' = PollsCancelled([Pause(svc) EXCEPT !.closed = TRUE, !.releasing = FALSE])
    /\ queue' = <<>>
    /\ op' = Cancelled(Ops) /\ reading' = [reading EXCEPT !.present = FALSE]
    /\ UNCHANGED <<topology, history>>

PollNext ==
    \/ \E p \in Plans : \/ Job_Poll(p) \/ Timer_Plan(p) \/ Poll_Retires(p)
                        \/ \E completed \in BOOLEAN : Poll_Ends(p, completed)
                        \/ Closes(p) \/ Reacquires(p)
    \/ \E o \in Ops : \/ Operation_Starts(o) \/ Operation_Ends(o) \/ Operation_Retires(o)
                      \/ Closes(o) \/ Reacquires(o)
    \/ Job_Release \/ Job_Again \/ Job_Conclude \/ Job_Stale
    \/ Timer_Release \/ Invalidated \/ Tick
    \/ Connect \/ Entered \/ Read_Settles \/ RawTerminal \/ Offer \/ RecordingLost \/ Disconnect

PollSpec == PollInit /\ [][PollNext]_pollVars

-----------------------------------------------------------------------------
Waiting(j) == Cardinality({i \in DOMAIN queue : queue[i] = j})

\* Nothing scheduled is forgotten, with one exception, and nothing is scheduled twice.  While
\* the session is connected and nothing holds it, the service is on.  While it is on, a plan
\* that may be polled has one timer or one turn that waits, whatever started, retired, was
\* paused, was refused or was left behind meanwhile; and so does the idle release, until the
\* device is released.  A release that is due and obstructed is tried again when what
\* obstructs it is gone, except when that was an operation of an older connection
\* (history.latecomer, see Forsakes): the code then forgets it, and since no plan is armed
\* while a release is due it forgets every poll, until a foreground operation starts or the
\* connection changes.
NothingForgotten ==
    /\ ~svc.strayed
    /\ /\ session.link /\ ~session.entering /\ ~session.offer /\ ~session.lost /\ ~svc.closed /\ NoTask
       => svc.enabled /\ svc.generation = session.generation
    /\ \A p \in Plans :
         Armable(svc, p) => (IF svc.timer[p] # Off THEN 1 ELSE 0) + Waiting(Poll(p)) = 1
    /\ /\ topology = "releasing" /\ svc.enabled /\ ~svc.releasing /\ ~svc.released /\ Foreground(svc) = {}
       => IF svc.releaseDue
          THEN history.latecomer \/ ~Quiescent \/ Waiting(Again) + Waiting(Release) > 0 \/ svc.rtimer # Off
          ELSE (IF svc.rtimer # Off THEN 1 ELSE 0) + Waiting(Release) = 1

\* A poll keeps its distance: it starts only on the connection it was scheduled for, never
\* while the device is being released or is; not before its interval, or its backoff after
\* a failure, has passed since its last one; and, if it is timed by idleness, not before
\* its interval has passed since the last foreground operation settled or the connection
\* came up.
KeepsDistance ==
    \A p \in Plans :
       svc.active[p] = "none" /\ svc'.active[p] = "running" =>
          /\ session.link /\ ~session.entering /\ ~session.offer /\ ~session.lost
          /\ svc.generation = session.generation
          /\ ~svc.releasing /\ ~svc.released
          /\ history.owed[p] = 0
          /\ p \in Timed => ~ForegroundBusy /\ history.idleFor >= Interval

PollsKeepDistance == [][KeepsDistance]_pollVars

\* There is one bucket, and it is exact: polls of all plans together start as if a permit
\* were added at every full period since the start, up to the burst; no pause, generation,
\* refusal or late reckoning adds one or loses one.
BucketExact ==
    /\ history.permits >= 0
    /\ Smaller(Burst, svc.credit + svc.elapsed \div Refill) = history.permits
=============================================================================
