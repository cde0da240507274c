--------------------------- MODULE OperationLocks ---------------------------
(***************************************************************************)
(* The named locks of one retained session, which keep the operations and  *)
(* the input handlers of an authored device module apart: #lockOwners and  *)
(* #lockWaiters of packages/core/src/retained-session.ts, with the four    *)
(* places that change them (#start, #takeLocks, #releaseLocks, #finish).   *)
(*                                                                         *)
(* An activation takes all its declared locks at once or waits for all of  *)
(* them, holding none.  An operation never waits: #start refuses it.  A    *)
(* handler (or the session's entry) waits in a Map, whose order is the     *)
(* order of insertion.  When an operation with a declared cleanup ends,    *)
(* its locks pass to the cleanup child, which releases them.               *)
(*                                                                         *)
(* JavaScript runs each of these methods without interruption.  The one    *)
(* gap is between a grant, which resolves the waiter's promise, and the    *)
(* waiter's own continuation: the phase "granted".                         *)
(*                                                                         *)
(* An activation is used once in the code; here it is a place, free again  *)
(* when its activation has ended, so that starvation can be asked about.   *)
(***************************************************************************)
EXTENDS Naturals, FiniteSets

CONSTANTS
    Locks,          \* the lock names the module declares
    Operations,     \* places of operations, scheduled polls included
    Handlers,       \* places of handlers and of the entry
    LocksOf,        \* the locks each declaration lists
    WithCleanup,    \* the operations that declare a cleanup
    Suspends        \* suspendWhileLocksHeld of the poll an operation is

Activations == Operations \cup Handlers

ASSUME LocksAssumption ==
    /\ Operations \cap Handlers = {}
    /\ LocksOf \in [Activations -> SUBSET Locks]
    /\ WithCleanup \subseteq Operations
    /\ Suspends \in [Operations -> SUBSET Locks]

VARIABLES
    closed,     \* the session is disconnected
    phase,      \* what the activation of each place is doing
    owner,      \* #lockOwners
    waiters,    \* the keys of #lockWaiters
    ahead       \* for each waiter, those inserted in #lockWaiters before it

vars == <<closed, phase, owner, waiters, ahead>>

Body(a)    == [of |-> a, part |-> "body"]
Cleanup(o) == [of |-> o, part |-> "cleanup"]
Free       == [of |-> "nobody", part |-> "free"]

Owners == [of : Activations, part : {"body", "cleanup"}] \cup {Free}

Phases == {"idle", "waiting", "granted", "running", "cleaning"}

Overlap(a, b) == LocksOf[a] \cap LocksOf[b] # {}

-----------------------------------------------------------------------------
Init ==
    /\ closed = FALSE
    /\ phase = [a \in Activations |-> "idle"]
    /\ owner = [l \in Locks |-> Free]
    /\ waiters = {}
    /\ ahead = [h \in Handlers |-> {}]

AllFree(o, a) == \A l \in LocksOf[a] : o[l] = Free

\* A grant that looks at the locks and forgets who else waits for them.
MayTakeIgnoringWaiters(a) == AllFree(owner, a)

\* The test of #start and of #takeLocks: no lock of a is owned, none is waited for.
MayTake(a) ==
    /\ AllFree(owner, a)
    /\ \A h \in waiters : ~Overlap(h, a)

Own(o, a) == [l \in Locks |-> IF l \in LocksOf[a] THEN Body(a) ELSE o[l]]

\* #start, then #run up to #takeLocks in the same turn: an operation whose locks
\* are not free is refused.  A poll is also skipped while a lock it yields to is held.
Start(o) ==
    /\ ~closed
    /\ phase[o] = "idle"
    /\ \A l \in Suspends[o] : owner[l] = Free
    /\ MayTake(o)
    /\ owner' = Own(owner, o)
    /\ phase' = [phase EXCEPT ![o] = "running"]
    /\ UNCHANGED <<closed, waiters, ahead>>

\* #startHandler (or #entry), then #run up to #takeLocks, which grants ...
StartHandler_Take(h) ==
    /\ ~closed
    /\ phase[h] = "idle"
    /\ MayTake(h)
    /\ owner' = Own(owner, h)
    /\ phase' = [phase EXCEPT ![h] = "running"]
    /\ UNCHANGED <<closed, waiters, ahead>>

\* ... or enters the handler in #lockWaiters, after all that are there.
StartHandler_Wait(h) ==
    /\ ~closed
    /\ phase[h] = "idle"
    /\ ~MayTake(h)
    /\ phase' = [phase EXCEPT ![h] = "waiting"]
    /\ waiters' = waiters \cup {h}
    /\ ahead' = [ahead EXCEPT ![h] = waiters]
    /\ UNCHANGED <<closed, owner>>

\* The continuation of a granted waiter runs.
Resume(h) ==
    /\ phase[h] = "granted"
    /\ phase' = [phase EXCEPT ![h] = "running"]
    /\ UNCHANGED <<closed, owner, waiters, ahead>>

-----------------------------------------------------------------------------
\* A scan that grants any waiter whose locks are free, passing those blocked before it.
GrantedByNotBlocking(w, o) == {h \in w : AllFree(o, h)}

(***************************************************************************)
(* The scan at the end of #releaseLocks over the waiters w with the locks  *)
(* o: in the order of insertion, a waiter whose locks are all free and not *)
(* blocked is granted; granted or not, the locks it asks for are owned or  *)
(* blocked for every later one.  Hence it is granted exactly when its      *)
(* locks are free and no earlier waiter asks for one of them.              *)
(***************************************************************************)
GrantedBy(w, o) ==
    {h \in w : AllFree(o, h) /\ \A g \in w \cap ahead[h] : ~Overlap(g, h)}

\* The locks after the scan: a lock that a granted waiter asks for is its own.
Handed(granted, o) ==
    [l \in Locks |-> IF \E h \in granted : l \in LocksOf[h]
                     THEN Body(CHOOSE h \in granted : l \in LocksOf[h])
                     ELSE o[l]]

Freed(a) == [l \in Locks |-> IF owner[l] \in {Body(a), Cleanup(a)} THEN Free ELSE owner[l]]

\* A release that wakes nobody.
ReleaseLocksSilently(a) ==
    /\ owner' = Freed(a)
    /\ waiters' = waiters \ {a}
    /\ ahead' = [h \in Handlers |-> ahead[h] \ {a}]
    /\ phase' = [phase EXCEPT ![a] = "idle"]

\* #releaseLocks(a) of an open session, and a's end.
ReleaseLocks(a) ==
    LET o == Freed(a)
        w == waiters \ {a}
        granted == GrantedBy(w, o)
    IN  /\ owner' = Handed(granted, o)
        /\ waiters' = w \ granted
        /\ ahead' = [h \in Handlers |-> ahead[h] \ (granted \cup {a})]
        /\ phase' = [b \in Activations |->
                        IF b \in granted THEN "granted" ELSE IF b = a THEN "idle" ELSE phase[b]]

\* #finish of an activation without a cleanup, whatever it was doing: it returned,
\* failed or was cancelled, waiting for its locks or granted them a moment ago.
Finish(a) ==
    /\ ~closed
    /\ a \notin WithCleanup
    /\ phase[a] \in {"waiting", "granted", "running"}
    /\ ReleaseLocks(a)
    /\ UNCHANGED closed

\* A cleanup that starts after the ordinary part has let go of its locks.
FinishToCleanupReleasing(o) ==
    /\ ~closed
    /\ o \in WithCleanup
    /\ phase[o] = "running"
    /\ owner' = Freed(o)
    /\ phase' = [phase EXCEPT ![o] = "cleaning"]
    /\ UNCHANGED <<closed, waiters, ahead>>

\* #finish of an operation with a cleanup: #revokeActivation keeps the locks, and
\* they are made the child's.
FinishToCleanup(o) ==
    /\ ~closed
    /\ o \in WithCleanup
    /\ phase[o] = "running"
    /\ owner' = [l \in Locks |-> IF owner[l] = Body(o) THEN Cleanup(o) ELSE owner[l]]
    /\ phase' = [phase EXCEPT ![o] = "cleaning"]
    /\ UNCHANGED <<closed, waiters, ahead>>

\* #finish of the child: its #releaseLocks, then cleanupComplete and with it the
\* parent's, which finds nothing more to free or to grant.
CleanupComplete(o) ==
    /\ ~closed
    /\ phase[o] = "cleaning"
    /\ ReleaseLocks(o)
    /\ UNCHANGED closed

\* #disconnect, up to its first await: the session is closed, then every live
\* activation is cancelled; #releaseLocks of a closed session grants nothing.  A
\* failed handler, a failed cleanup and an unsafe one end in it too.
Disconnect ==
    /\ ~closed
    /\ closed' = TRUE
    /\ LET live == {a \in Activations : phase[a] # "idle"}
       IN  /\ owner' = [l \in Locks |-> IF owner[l].of \in live THEN Free ELSE owner[l]]
           /\ waiters' = waiters \ live
           /\ ahead' = [h \in Handlers |-> ahead[h] \ live]
           /\ phase' = [a \in Activations |-> "idle"]

-----------------------------------------------------------------------------
Next ==
    \/ \E o \in Operations : Start(o) \/ FinishToCleanup(o) \/ CleanupComplete(o)
    \/ \E h \in Handlers : StartHandler_Take(h) \/ StartHandler_Wait(h) \/ Resume(h)
    \/ \E a \in Activations : Finish(a)
    \/ Disconnect

\* The reaction to a resolved promise runs: the JavaScript runtime sees to it.
\* Nothing is assumed of authored code.
Spec == Init /\ [][Next]_vars /\ \A h \in Handlers : WF_vars(Resume(h))

-----------------------------------------------------------------------------
\* The type of the state.  The Map of waiters has an order: of two waiters one is
\* ahead of the other.
TypeOK ==
    /\ closed \in BOOLEAN
    /\ phase \in [Activations -> Phases]
    /\ owner \in [Locks -> Owners]
    /\ waiters = {h \in Handlers : phase[h] = "waiting"}
    /\ ahead \in [Handlers -> SUBSET Handlers]
    /\ \A g, h \in waiters : g # h => (g \in ahead[h] <=> h \notin ahead[g])
    /\ \A h \in Handlers : h \notin ahead[h] /\ ahead[h] \subseteq waiters

\* A lock is owned by exactly the activation that runs under it, through its
\* cleanup: two activations never run under one lock, an activation never runs
\* with less than all its locks, a waiter holds none, and nothing that has ended
\* keeps one ("its locks pass to the child", #finish; #releaseLocks).
LocksFollowActivation ==
    \A a \in Activations, l \in Locks :
        /\ owner[l] = Body(a) <=> l \in LocksOf[a] /\ phase[a] \in {"granted", "running"}
        /\ owner[l] = Cleanup(a) <=> l \in LocksOf[a] /\ phase[a] = "cleaning"

\* A handler never waits without a reason: one of its locks is owned, or a waiter
\* before it asks for one of them; and a closed session leaves nobody waiting.
\* Whatever is released, whoever is cancelled, the scan has woken all it could.
NoStrandedWaiter ==
    \A h \in waiters :
        /\ ~closed
        /\ \/ \E l \in LocksOf[h] : owner[l] # Free
           \/ \E g \in waiters \cap ahead[h] : Overlap(g, h)

\* While a handler waits, a lock it asks for goes only to a waiter before it, or
\* from an operation to that operation's cleanup: neither a later handler nor an
\* operation started meanwhile overtakes it.
NoOvertakingStep ==
    \A h \in waiters \cap waiters', l \in Locks :
        l \in LocksOf[h] /\ owner'[l] \notin {owner[l], Free} =>
            \/ \E g \in ahead[h] : owner'[l] = Body(g)
            \/ \E o \in Operations : owner[l] = Body(o) /\ owner'[l] = Cleanup(o)

NoOvertaking == [][NoOvertakingStep]_vars

\* If authored code that runs always ends, every waiting handler is granted its
\* locks or revoked, however many operations and handlers come and go meanwhile.
WaiterServed ==
    (\A a \in Activations : []<>(phase[a] \notin {"running", "cleaning"}))
        => \A h \in Handlers : phase[h] = "waiting" ~> phase[h] # "waiting"
=============================================================================
