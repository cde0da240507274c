--------------------------- MODULE OperationResults ---------------------------
(***************************************************************************)
(* The results of a session's operations, from the start of an operation   *)
(* to the acknowledgement of its result: OperationResultRetention          *)
(* (core/src/lifecycle.ts) with the session's calls of it and its own      *)
(* account of the operations it knows (core/src/retained-session.ts).      *)
(* `ended', `acknowledged' and `early' only record what happened.          *)
(***************************************************************************)
EXTENDS Naturals, SequencesExt

CONSTANTS
    Ops,
    Polls,        \* those the session starts and acknowledges itself
    MaxKnown,     \* 32 in #start: operations not yet acknowledged
    MaxActive,    \* maximumConcurrentOperations
    MaxResults    \* maximumRetainedOperationResults

ResultsAssumption ==
    /\ Polls \subseteq Ops
    /\ MaxKnown \in Nat /\ MaxActive \in Nat /\ MaxResults \in Nat
    /\ MaxKnown <= MaxResults      \* 32 of DEFAULT_HOST_RESOURCE_LIMITS, which has 64

VARIABLES
    active, retained, waiters,  \* of the retention
    known,                      \* #activations, for operations
    ended, acknowledged,
    early                       \* acknowledged while they ran

resultVars == <<active, retained, waiters, known, ended, acknowledged, early>>

ResultsInit ==
    /\ active = {} /\ retained = <<>> /\ waiters = {} /\ known = {}
    /\ ended = {} /\ acknowledged = {} /\ early = {}

(* #start: an operation's identity is new. *)
Start(o) ==
    /\ o \notin active \cup ended
    /\ Cardinality(known) < MaxKnown /\ Cardinality(active) < MaxActive
    /\ active' = active \cup {o} /\ known' = known \cup {o}
    /\ UNCHANGED <<retained, waiters, ended, acknowledged, early>>

(* complete(): the oldest results make room, and every call that waits for *)
(* this one is answered.                                                   *)
KeepFewer(q) == IF Len(q) >= MaxResults THEN Tail(q) ELSE q
Keep(q) == IF Len(q) > MaxResults THEN SubSeq(q, Len(q) - MaxResults + 1, Len(q)) ELSE q

Complete(o) ==
    /\ o \in active
    /\ active' = active \ {o}
    /\ retained' = Keep(Append(retained, o))
    /\ waiters' = waiters \ {o}
    /\ ended' = ended \cup {o}
    /\ UNCHANGED <<known, acknowledged, early>>

(* awaitResult() of an operation that runs; of another it answers at once. *)
AwaitResult(o) ==
    /\ o \in active
    /\ waiters' = waiters \cup {o}
    /\ UNCHANGED <<active, retained, known, ended, acknowledged, early>>

(* acknowledge(), after which the session forgets the activation, also one *)
(* that still runs.                                                        *)
Acknowledge(o) ==
    /\ o \in known \cup ToSet(retained)
    /\ retained' = RemoveFirst(retained, o)
    /\ known' = known \ {o}
    /\ acknowledged' = IF o \in ended THEN acknowledged \cup {o} ELSE acknowledged
    /\ early' = IF o \in active THEN early \cup {o} ELSE early
    /\ UNCHANGED <<active, waiters, ended>>

(* The task of a poll that ended acknowledges it. *)
PollRetires(o) == o \in Polls \cap ended /\ Acknowledge(o)

ResultsNext ==
    \E o \in Ops : Start(o) \/ Complete(o) \/ AwaitResult(o) \/ PollRetires(o)
                   \/ (o \notin Polls /\ Acknowledge(o))

(* A result is there until its client acknowledges it: the retention's     *)
(* bound costs at most one result for each operation that was acknowledged *)
(* before it had ended.  A call that waits for a result has one coming.    *)
ResultsKept ==
    LET lost == ended \ (acknowledged \cup ToSet(retained))
    IN /\ Cardinality(lost) <= Cardinality(early)
       /\ waiters \subseteq active
=============================================================================
