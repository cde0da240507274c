------------------------ MODULE RetainedSessionProofs ------------------------
(***************************************************************************)
(* Proofs about RetainedSession, for any operations, connections and       *)
(* limits: first what the table of activations keeps, whatever #finish and *)
(* #cancel do to it (Conclude, Finish, RevokeAll, ... preserve TableInv),  *)
(* then the steps and the connections.                                     *)
(***************************************************************************)
EXTENDS RetainedSession, FiniteSetTheorems, TLAPS

-----------------------------------------------------------------------------
(* The table.                                                              *)

States  == {"none", "live", "revoked", "finished"}
Ended   == {"none", "finished"}
Results == Outcomes \cup {"none"}
Owners  == Activations \cup {Event(a) : a \in Activations} \cup {Nobody}

\* The type of the table, but for the signs of the two accounts, which follow only
\* from AccountsExact.
Typed(t) ==
    t \in [st : [Activations -> States], owner : Owners, withheld : SUBSET Ops,
           wanted : [Ops -> Results], tasks : Int, timers : Int, known : SUBSET Ops,
           result : [Ops -> Results], ends : [Ops -> Nat]]

\* The life of one operation: a cleanup runs exactly while its parent is revoked, it
\* is withheld only while the parent runs, and the result and its publication come
\* with the parent's end.
Lives(t) ==
    \A o \in Ops :
        /\ t.st[Cleanup(o)] # "revoked"
        /\ t.st[Run(o)] = "revoked" <=> t.st[Cleanup(o)] = "live"
        /\ t.st[Run(o)] \in {"none", "live"} => t.st[Cleanup(o)] = "none"
        /\ o \in t.withheld => t.st[Run(o)] = "live"
        /\ t.result[o] # "none" <=> t.st[Run(o)] = "finished"
        /\ t.ends[o] = IF t.result[o] = "none" THEN 0 ELSE 1
        /\ t.st[Cleanup(o)] = "live" => t.wanted[o] # "none"

\* The owner of the channel is the one activation that lives.
Owned(t) ==
    /\ \A a \in Activations : t.st[a] = "live" => t.owner \in {a, Event(a)}
    /\ t.owner # Nobody => \E a \in Activations : t.st[a] = "live" /\ t.owner \in {a, Event(a)}

\* The accounts, where the #run of each activation awaits as p says.
Begun(p)       == {a \in Activations : p[a] \notin {"none", "retired"}}
Invalidating(p) == {a \in Activations : p[a] = "invalidating"}
Cleaning(t)     == {o \in Ops : t.st[Cleanup(o)] = "live"}

Accounts(t, p) ==
    /\ t.tasks = Cardinality(Begun(p)) + Cardinality(Invalidating(p)) + Cardinality(t.withheld)
    /\ t.timers = Cardinality(t.withheld) + Cardinality(Cleaning(t))

Stages == {"none", "turn", "write", "closing", "invalidating", "opening", "unwind", "retired"}

\* A #run exists exactly for the activations that have begun.
Staged(t, p) ==
    /\ p \in [Activations -> Stages]
    /\ \A a \in Activations : p[a] = "none" <=> t.st[a] = "none"

TableInv(t, p) == Typed(t) /\ Lives(t) /\ Owned(t) /\ Staged(t, p) /\ Accounts(t, p)

\* PcAfter, for a step from table t to r.
NextPc(t, r, p) ==
    [b \in Activations |-> IF IsCleanup(b) /\ t.st[b] = "none" /\ r.st[b] = "live" THEN "turn" ELSE p[b]]

-----------------------------------------------------------------------------
\* Activations, events and those who are neither are told apart.
LEMMA Names ==
    /\ \A o \in Ops : Run(o) \in Activations /\ Cleanup(o) \in Activations
    /\ \A o, p : Run(o) # Cleanup(p)
    /\ \A o, p : Run(o) = Run(p) => o = p
    /\ \A o, p : Cleanup(o) = Cleanup(p) => o = p
    /\ \A a \in Activations : OpOf(a) \in Ops /\ (a = Run(OpOf(a)) \/ a = Cleanup(OpOf(a)))
    /\ \A a \in Activations : IsCleanup(a) <=> a = Cleanup(OpOf(a))
    /\ \A o : OpOf(Run(o)) = o /\ OpOf(Cleanup(o)) = o
BY DEF Run, Cleanup, Activations, OpOf, IsCleanup

\* Owners are told apart: activations, events and nobody.
LEMMA OwnerNames ==
    /\ \A a, b \in Activations : Event(a) = Event(b) => a = b
    /\ \A a, b \in Activations : Event(a) # b
    /\ \A a \in Activations : Event(a) # Nobody /\ a # Nobody /\ a # Client
    /\ Nobody # Client
    /\ \A a \in Activations : a \in Owners /\ Event(a) \in Owners
    /\ Nobody \in Owners
BY DEF Event, Activations, Nobody, Client, Owners

\* Two activations never live together.
LEMMA OneLives ==
    ASSUME NEW t, Owned(t), NEW a \in Activations, NEW b \in Activations,
           t.st[a] = "live", t.st[b] = "live"
    PROVE  a = b
BY OwnerNames DEF Owned

-----------------------------------------------------------------------------
(* What each function makes of the fields.                                   *)

\* The result of an operation is recorded and published.
LEMMA ConcludeFields ==
    ASSUME NEW t, Typed(t), NEW o \in Ops, NEW x \in Outcomes
    PROVE  LET r == Conclude(t, o, x)
           IN  /\ Typed(r)
               /\ r.st = [t.st EXCEPT ![Run(o)] = "finished"]
               /\ r.result = [t.result EXCEPT ![o] = x]
               /\ r.ends = [t.ends EXCEPT ![o] = t.ends[o] + 1]
               /\ r.owner = t.owner /\ r.withheld = t.withheld /\ r.wanted = t.wanted
               /\ r.tasks = t.tasks /\ r.timers = t.timers /\ r.known = t.known
<1> DEFINE st == [t.st EXCEPT ![Run(o)] = "finished"]
           result == [t.result EXCEPT ![o] = x]
           ends == [t.ends EXCEPT ![o] = t.ends[o] + 1]
           r == [t EXCEPT !.st = st, !.result = result, !.ends = ends]
<1>1. st \in [Activations -> States] /\ result \in [Ops -> Results] /\ ends \in [Ops -> Nat]
  BY Names DEF Typed, States, Results
<1>2. Conclude(t, o, x) = r
  BY DEF Typed, Conclude
<1> HIDE DEF st, result, ends
<1>3. /\ Typed(r) /\ r.st = st /\ r.result = result /\ r.ends = ends
      /\ r.owner = t.owner /\ r.withheld = t.withheld /\ r.wanted = t.wanted
      /\ r.tasks = t.tasks /\ r.timers = t.timers /\ r.known = t.known
  BY <1>1 DEF Typed
<1> QED
  BY <1>2, <1>3 DEF st, result, ends

\* What the cleanup reports, and what a completed operation becomes without it.
LEMMA OutcomesKept ==
    /\ \A t, x, o : x \in Outcomes /\ t.wanted[o] \in Outcomes => AfterCleanup(t, o, x) \in Outcomes
    /\ \A x \in Outcomes : (IF x = "completed" THEN "failed" ELSE x) \in Outcomes
BY DEF AfterCleanup, Outcomes

\* The end of a cleanup is the end of its parent.
LEMMA FinishCleanupFields ==
    ASSUME NEW t, Typed(t), NEW o \in Ops, NEW x \in Outcomes, t.wanted[o] # "none"
    PROVE  LET r == FinishCleanup(t, o, x)
           IN  /\ Typed(r)
               /\ r.st = [a \in Activations |-> IF a \in {Run(o), Cleanup(o)} THEN "finished" ELSE t.st[a]]
               /\ \E y \in Outcomes : r.result = [t.result EXCEPT ![o] = y]
               /\ r.ends = [t.ends EXCEPT ![o] = t.ends[o] + 1]
               /\ r.owner = Nobody /\ r.withheld = t.withheld /\ r.wanted = t.wanted
               /\ r.tasks = t.tasks /\ r.timers = t.timers - 1 /\ r.known = t.known
<1> DEFINE st == [t.st EXCEPT ![Cleanup(o)] = "finished"]
           timers == t.timers - 1
           q == [t EXCEPT !.st = st, !.owner = Nobody, !.timers = timers]
           y == AfterCleanup(t, o, x)
<1>1. st \in [Activations -> States] /\ timers \in Int /\ Nobody \in Owners
  BY Names, OwnerNames DEF Typed, States
<1>2. y \in Outcomes
  <2>1. t.wanted[o] \in Outcomes
    BY DEF Typed, Results
  <2> QED
    BY <2>1, OutcomesKept
<1>3. FinishCleanup(t, o, x) = Conclude(q, o, y)
  BY DEF FinishCleanup
<1> HIDE DEF st, timers, y
<1>4. /\ Typed(q) /\ q.st = st /\ q.owner = Nobody /\ q.timers = timers
      /\ q.withheld = t.withheld /\ q.wanted = t.wanted /\ q.tasks = t.tasks
      /\ q.known = t.known /\ q.result = t.result /\ q.ends = t.ends
  BY <1>1 DEF Typed
<1> HIDE DEF q
<1> DEFINE r == Conclude(q, o, y)
<1>5. /\ Typed(r)
      /\ r.st = [q.st EXCEPT ![Run(o)] = "finished"]
      /\ r.result = [q.result EXCEPT ![o] = y]
      /\ r.ends = [q.ends EXCEPT ![o] = q.ends[o] + 1]
      /\ r.owner = q.owner /\ r.withheld = q.withheld /\ r.wanted = q.wanted
      /\ r.tasks = q.tasks /\ r.timers = q.timers /\ r.known = q.known
  BY <1>2, <1>4, ConcludeFields
<1> HIDE DEF r
<1>6. r.st = [a \in Activations |-> IF a \in {Run(o), Cleanup(o)} THEN "finished" ELSE t.st[a]]
  BY <1>4, <1>5, Names DEF st, Typed
<1> QED
  BY <1>2, <1>3, <1>4, <1>5, <1>6 DEF r, timers

\* The withheld cleanup takes over.
LEMMA BeginCleanupFields ==
    ASSUME NEW t, Typed(t), NEW o \in Ops, NEW x \in Outcomes
    PROVE  LET r == BeginCleanup(t, o, x)
           IN  /\ Typed(r)
               /\ r.st = [a \in Activations |-> IF a = Run(o) THEN "revoked"
                                                ELSE IF a = Cleanup(o) THEN "live" ELSE t.st[a]]
               /\ r.owner = Cleanup(o) /\ r.withheld = t.withheld \ {o}
               /\ r.wanted = [t.wanted EXCEPT ![o] = x]
               /\ r.result = t.result /\ r.ends = t.ends
               /\ r.tasks = t.tasks /\ r.timers = t.timers /\ r.known = t.known
<1> DEFINE s1 == [t.st EXCEPT ![Run(o)] = "revoked"]
           st == [s1 EXCEPT ![Cleanup(o)] = "live"]
           withheld == t.withheld \ {o}
           wanted == [t.wanted EXCEPT ![o] = x]
           r == [t EXCEPT !.st = st, !.owner = Cleanup(o), !.withheld = withheld, !.wanted = wanted]
<1>1. /\ st \in [Activations -> States] /\ Cleanup(o) \in Owners
      /\ withheld \in SUBSET Ops /\ wanted \in [Ops -> Results]
  BY Names, OwnerNames DEF Typed, States, Results
<1>2. BeginCleanup(t, o, x) = r
  BY DEF Typed, BeginCleanup
<1>3. st = [a \in Activations |-> IF a = Run(o) THEN "revoked"
                                  ELSE IF a = Cleanup(o) THEN "live" ELSE t.st[a]]
  BY Names DEF Typed
<1> HIDE DEF st, withheld, wanted
<1>4. /\ Typed(r) /\ r.st = st /\ r.owner = Cleanup(o) /\ r.withheld = withheld /\ r.wanted = wanted
      /\ r.result = t.result /\ r.ends = t.ends
      /\ r.tasks = t.tasks /\ r.timers = t.timers /\ r.known = t.known
  BY <1>1 DEF Typed
<1> QED
  BY <1>2, <1>3, <1>4 DEF withheld, wanted

\* The withheld cleanup is given up with what was reserved for it.
LEMMA SkipCleanupFields ==
    ASSUME NEW t, Typed(t), NEW o \in Ops, NEW x \in Outcomes
    PROVE  LET r == SkipCleanup(t, o, x)
           IN  /\ Typed(r)
               /\ r.st = [t.st EXCEPT ![Run(o)] = "finished"]
               /\ \E y \in Outcomes : r.result = [t.result EXCEPT ![o] = y]
               /\ r.ends = [t.ends EXCEPT ![o] = t.ends[o] + 1]
               /\ r.owner = Nobody /\ r.withheld = t.withheld \ {o} /\ r.wanted = t.wanted
               /\ r.tasks = t.tasks - 1 /\ r.timers = t.timers - 1 /\ r.known = t.known
<1> DEFINE withheld == t.withheld \ {o}
           tasks == t.tasks - 1
           timers == t.timers - 1
           q == [t EXCEPT !.owner = Nobody, !.withheld = withheld, !.tasks = tasks, !.timers = timers]
           y == IF x = "completed" THEN "failed" ELSE x
<1>1. withheld \in SUBSET Ops /\ tasks \in Int /\ timers \in Int /\ Nobody \in Owners
  BY OwnerNames DEF Typed
<1>2. y \in Outcomes
  BY OutcomesKept
<1>3. SkipCleanup(t, o, x) = Conclude(q, o, y)
  BY DEF SkipCleanup
<1> HIDE DEF withheld, tasks, timers, y
<1>4. /\ Typed(q) /\ q.owner = Nobody /\ q.withheld = withheld /\ q.tasks = tasks /\ q.timers = timers
      /\ q.st = t.st /\ q.wanted = t.wanted /\ q.known = t.known /\ q.result = t.result /\ q.ends = t.ends
  BY <1>1 DEF Typed
<1> HIDE DEF q
<1> DEFINE r == Conclude(q, o, y)
<1>5. /\ Typed(r)
      /\ r.st = [q.st EXCEPT ![Run(o)] = "finished"]
      /\ r.result = [q.result EXCEPT ![o] = y]
      /\ r.ends = [q.ends EXCEPT ![o] = q.ends[o] + 1]
      /\ r.owner = q.owner /\ r.withheld = q.withheld /\ r.wanted = q.wanted
      /\ r.tasks = q.tasks /\ r.timers = q.timers /\ r.known = q.known
  BY <1>2, <1>4, ConcludeFields
<1> HIDE DEF r
<1> QED
  BY <1>2, <1>3, <1>4, <1>5 DEF r, withheld, tasks, timers

\* The loop that revokes everything.
LEMMA RevokeAllFields ==
    ASSUME NEW t, Typed(t), Lives(t), Owned(t), IsFiniteSet(Ops)
    PROVE  LET r == RevokeAll(t)
           IN  /\ Typed(r)
               /\ r.st = [a \in Activations |-> IF t.st[a] \in {"live", "revoked"} THEN "finished" ELSE t.st[a]]
               /\ \A o \in Ops : r.result[o] # "none" <=>
                     t.result[o] # "none" \/ t.st[Run(o)] = "live" \/ t.st[Cleanup(o)] = "live"
               /\ r.ends = [o \in Ops |-> t.ends[o] + IF t.st[Run(o)] = "live" \/ t.st[Cleanup(o)] = "live"
                                                      THEN 1 ELSE 0]
               /\ r.owner = Nobody /\ r.withheld = {} /\ r.wanted = t.wanted
               /\ r.tasks = t.tasks - Cardinality(t.withheld)
               /\ r.timers = t.timers - Cardinality(t.withheld) - Cardinality(Cleaning(t))
               /\ r.known = t.known
<1> DEFINE running == {o \in Ops : t.st[Run(o)] = "live"}
           cleaning == {o \in Ops : t.st[Cleanup(o)] = "live"}
           st == [a \in Activations |-> IF t.st[a] \in {"live", "revoked"} THEN "finished" ELSE t.st[a]]
           owner == IF running \cup cleaning = {} THEN t.owner ELSE Nobody
           tasks == t.tasks - Cardinality(t.withheld)
           timers == t.timers - Cardinality(t.withheld) - Cardinality(cleaning)
           result == [o \in Ops |-> IF o \in running THEN "cancelled"
                                    ELSE IF o \in cleaning THEN AfterCleanup(t, o, "cancelled")
                                    ELSE t.result[o]]
           ends == [o \in Ops |-> t.ends[o] + IF o \in running \cup cleaning THEN 1 ELSE 0]
           r == [t EXCEPT !.st = st, !.owner = owner, !.withheld = {}, !.tasks = tasks,
                          !.timers = timers, !.result = result, !.ends = ends]
<1>1. Cardinality(t.withheld) \in Nat /\ Cardinality(cleaning) \in Nat
  <2>1. t.withheld \in SUBSET Ops /\ cleaning \in SUBSET Ops
    BY DEF Typed
  <2> HIDE DEF cleaning
  <2> QED
    BY <2>1, FS_Subset, FS_CardinalityType
<1>2. owner = Nobody
  <2>1. CASE t.owner = Nobody
    BY <2>1
  <2>2. CASE t.owner # Nobody
    <3>1. PICK a \in Activations : t.st[a] = "live"
      BY <2>2 DEF Owned
    <3>2. OpOf(a) \in running \cup cleaning
      BY <3>1, Names
    <3> QED
      BY <3>2
  <2> QED
    BY <2>1, <2>2
<1>3. \A o \in cleaning : AfterCleanup(t, o, "cancelled") \in Outcomes
  <2> SUFFICES ASSUME NEW o \in cleaning PROVE AfterCleanup(t, o, "cancelled") \in Outcomes
    OBVIOUS
  <2>1. t.wanted[o] \in Outcomes /\ "cancelled" \in Outcomes
    BY DEF Lives, Typed, Results, Outcomes
  <2> QED
    BY <2>1, OutcomesKept
<1>4. /\ st \in [Activations -> States] /\ owner \in Owners /\ {} \in SUBSET Ops
      /\ tasks \in Int /\ timers \in Int
  BY <1>1, <1>2, OwnerNames DEF Typed, States
<1>5. ends \in [Ops -> Nat]
  BY DEF Typed
<1>6. /\ result \in [Ops -> Results]
      /\ \A o \in Ops : result[o] # "none" <=> t.result[o] # "none" \/ o \in running \cup cleaning
  BY <1>3 DEF Typed, Results, Outcomes
<1>7. RevokeAll(t) = r
  BY DEF Typed, RevokeAll
<1>8. r.known = t.known /\ r.wanted = t.wanted
  BY DEF Typed
<1>9. /\ Typed(r) /\ r.st = st /\ r.owner = owner /\ r.withheld = {} /\ r.tasks = tasks
      /\ r.timers = timers /\ r.result = result /\ r.ends = ends
  <2> HIDE DEF st, owner, tasks, timers, result, ends
  <2> QED
    BY <1>4, <1>5, <1>6 DEF Typed
<1> HIDE DEF r
<1> QED
  BY <1>2, <1>6, <1>7, <1>8, <1>9 DEF Cleaning

-----------------------------------------------------------------------------
(* What each function keeps.                                                 *)

\* The sets that are counted are finite.
LEMMA Finite ==
    /\ IsFiniteSet(Ops)
    /\ \A S \in SUBSET Ops : IsFiniteSet(S) /\ Cardinality(S) \in Nat
    /\ \A S \in SUBSET Activations : IsFiniteSet(S) /\ Cardinality(S) \in Nat
<1>1. IsFiniteSet(Ops)
  BY SessionAssumption
<1>2. IsFiniteSet({"run", "cleanup"})
  <2>1. IsFiniteSet({"run"})
    BY FS_Singleton
  <2>2. {"run", "cleanup"} = {"run"} \cup {"cleanup"}
    OBVIOUS
  <2> QED
    BY <2>1, <2>2, FS_AddElement
<1>3. IsFiniteSet(Activations)
  BY <1>1, <1>2, FS_Product DEF Activations
<1>4. \A S, T : IsFiniteSet(S) /\ T \in SUBSET S => IsFiniteSet(T) /\ Cardinality(T) \in Nat
  BY FS_Subset, FS_CardinalityType
<1> QED
  BY <1>1, <1>3, <1>4

\* An operation that ends without a cleanup.
LEMMA EndedKeeps ==
    ASSUME NEW t, NEW p, TableInv(t, p), NEW o \in Ops, t.st[Run(o)] = "live",
           NEW r, Typed(r), r.st = [t.st EXCEPT ![Run(o)] = "finished"],
           \E y \in Outcomes : r.result = [t.result EXCEPT ![o] = y],
           r.ends = [t.ends EXCEPT ![o] = t.ends[o] + 1],
           r.owner = Nobody, r.withheld = t.withheld \ {o}, r.wanted = t.wanted
    PROVE  Lives(r) /\ Owned(r) /\ Staged(r, p) /\ NextPc(t, r, p) = p /\ Cleaning(r) = Cleaning(t)
<1> USE DEF TableInv
<1>1. /\ \A a \in Activations : a # Run(o) => r.st[a] = t.st[a]
      /\ r.st[Run(o)] = "finished"
  BY Names DEF Typed
<1>2. PICK y \in Outcomes : r.result = [t.result EXCEPT ![o] = y]
  OBVIOUS
<1>3. y # "none" /\ r.result[o] = y /\ \A q \in Ops \ {o} : r.result[q] = t.result[q] /\ r.ends[q] = t.ends[q]
  BY <1>2 DEF Typed, Outcomes
<1>4. r.ends[o] = 1
  BY DEF Lives, Typed
<1>5. Lives(r)
  BY <1>1, <1>3, <1>4, Names DEF Lives
<1>6. Owned(r)
  BY <1>1, OneLives, Names DEF Owned
<1>7. Staged(r, p)
  BY <1>1, Names DEF Staged
<1>8. NextPc(t, r, p) = p
  BY <1>1, Names DEF NextPc, Staged
<1>9. Cleaning(r) = Cleaning(t)
  BY <1>1, Names DEF Cleaning
<1> QED
  BY <1>5, <1>6, <1>7, <1>8, <1>9

\* An operation without a cleanup ends.
LEMMA ConcludeKeeps ==
    ASSUME NEW t, NEW p, TableInv(t, p), NEW o \in Ops, t.st[Run(o)] = "live", o \notin t.withheld,
           NEW x \in Outcomes
    PROVE  LET r == Conclude([t EXCEPT !.owner = Nobody], o, x)
           IN  TableInv(r, NextPc(t, r, p)) /\ r.known = t.known
<1> USE DEF TableInv
<1> DEFINE q == [t EXCEPT !.owner = Nobody]
           r == Conclude(q, o, x)
<1>1. /\ Typed(q) /\ q.owner = Nobody /\ q.st = t.st /\ q.withheld = t.withheld /\ q.wanted = t.wanted
      /\ q.tasks = t.tasks /\ q.timers = t.timers /\ q.known = t.known
      /\ q.result = t.result /\ q.ends = t.ends
  BY OwnerNames DEF Typed
<1> HIDE DEF q
<1>2. /\ Typed(r)
      /\ r.st = [q.st EXCEPT ![Run(o)] = "finished"]
      /\ r.result = [q.result EXCEPT ![o] = x]
      /\ r.ends = [q.ends EXCEPT ![o] = q.ends[o] + 1]
      /\ r.owner = q.owner /\ r.withheld = q.withheld /\ r.wanted = q.wanted
      /\ r.tasks = q.tasks /\ r.timers = q.timers /\ r.known = q.known
  BY <1>1, ConcludeFields
<1> HIDE DEF r
<1>3. r.withheld = t.withheld \ {o}
  BY <1>1, <1>2
<1>4. Lives(r) /\ Owned(r) /\ Staged(r, p) /\ NextPc(t, r, p) = p /\ Cleaning(r) = Cleaning(t)
  BY <1>1, <1>2, <1>3, EndedKeeps
<1>5. Accounts(r, p)
  BY <1>1, <1>2, <1>4 DEF Accounts
<1> QED
  BY <1>1, <1>2, <1>4, <1>5 DEF r, q

\* An operation ends in unsafe execution, its cleanup given up.
LEMMA SkipCleanupKeeps ==
    ASSUME NEW t, NEW p, TableInv(t, p), NEW o \in Ops, t.st[Run(o)] = "live", o \in t.withheld,
           NEW x \in Outcomes
    PROVE  LET r == SkipCleanup(t, o, x)
           IN  TableInv(r, NextPc(t, r, p)) /\ r.known = t.known
<1> USE DEF TableInv
<1> DEFINE r == SkipCleanup(t, o, x)
<1>1. /\ Typed(r)
      /\ r.st = [t.st EXCEPT ![Run(o)] = "finished"]
      /\ \E y \in Outcomes : r.result = [t.result EXCEPT ![o] = y]
      /\ r.ends = [t.ends EXCEPT ![o] = t.ends[o] + 1]
      /\ r.owner = Nobody /\ r.withheld = t.withheld \ {o} /\ r.wanted = t.wanted
      /\ r.tasks = t.tasks - 1 /\ r.timers = t.timers - 1 /\ r.known = t.known
  BY SkipCleanupFields
<1> HIDE DEF r
<1>2. Lives(r) /\ Owned(r) /\ Staged(r, p) /\ NextPc(t, r, p) = p /\ Cleaning(r) = Cleaning(t)
  BY <1>1, EndedKeeps
<1>3. Cardinality(r.withheld) = Cardinality(t.withheld) - 1
  <2>1. t.withheld \in SUBSET Ops
    BY DEF Typed
  <2>2. IsFiniteSet(t.withheld)
    BY <2>1, Finite
  <2> QED
    BY <1>1, <2>2, FS_RemoveElement
<1>4. Accounts(r, p)
  <2>1. /\ Cardinality(Begun(p)) \in Nat /\ Cardinality(Invalidating(p)) \in Nat
        /\ Cardinality(t.withheld) \in Nat /\ Cardinality(Cleaning(t)) \in Nat
    BY Finite DEF Begun, Invalidating, Cleaning, Typed
  <2> QED
    BY <1>1, <1>2, <1>3, <2>1 DEF Accounts
<1> QED
  BY <1>1, <1>2, <1>4 DEF r

\* An operation hands over to its cleanup, and its task and timer with the channel.
LEMMA BeginCleanupKeeps ==
    ASSUME NEW t, NEW p, TableInv(t, p), NEW o \in Ops, t.st[Run(o)] = "live", o \in t.withheld,
           NEW x \in Outcomes
    PROVE  LET r == BeginCleanup(t, o, x)
           IN  TableInv(r, NextPc(t, r, p)) /\ r.known = t.known
<1> USE DEF TableInv
<1> DEFINE r == BeginCleanup(t, o, x)
           n == NextPc(t, r, p)
<1>1. /\ Typed(r)
      /\ r.st = [a \in Activations |-> IF a = Run(o) THEN "revoked"
                                       ELSE IF a = Cleanup(o) THEN "live" ELSE t.st[a]]
      /\ r.owner = Cleanup(o) /\ r.withheld = t.withheld \ {o}
      /\ r.wanted = [t.wanted EXCEPT ![o] = x]
      /\ r.result = t.result /\ r.ends = t.ends
      /\ r.tasks = t.tasks /\ r.timers = t.timers /\ r.known = t.known
  BY BeginCleanupFields
<1> HIDE DEF r
<1>2. t.st[Cleanup(o)] = "none" /\ t.st[Run(o)] # "none"
  BY DEF Lives
<1>3. /\ \A a \in Activations : a \notin {Run(o), Cleanup(o)} => r.st[a] = t.st[a]
      /\ r.st[Run(o)] = "revoked" /\ r.st[Cleanup(o)] = "live"
  BY <1>1, Names
<1>4. /\ \A q \in Ops \ {o} : r.wanted[q] = t.wanted[q]
      /\ r.wanted[o] # "none"
  BY <1>1 DEF Typed, Outcomes
<1>5. Lives(r)
  <2> SUFFICES ASSUME NEW q \in Ops
               PROVE /\ r.st[Cleanup(q)] # "revoked"
                     /\ r.st[Run(q)] = "revoked" <=> r.st[Cleanup(q)] = "live"
                     /\ r.st[Run(q)] \in {"none", "live"} => r.st[Cleanup(q)] = "none"
                     /\ q \in r.withheld => r.st[Run(q)] = "live"
                     /\ r.result[q] # "none" <=> r.st[Run(q)] = "finished"
                     /\ r.ends[q] = IF r.result[q] = "none" THEN 0 ELSE 1
                     /\ r.st[Cleanup(q)] = "live" => r.wanted[q] # "none"
    BY DEF Lives
  <2>1. CASE q = o
    BY <1>1, <1>3, <1>4, <2>1 DEF Lives
  <2>2. CASE q # o
    <3>1. r.st[Run(q)] = t.st[Run(q)] /\ r.st[Cleanup(q)] = t.st[Cleanup(q)]
      BY <1>3, <2>2, Names
    <3> QED
      BY <1>1, <1>4, <2>2, <3>1 DEF Lives
  <2> QED
    BY <2>1, <2>2
<1>6. Owned(r)
  <2>1. \A a \in Activations : r.st[a] = "live" => a = Cleanup(o)
    BY <1>3, OneLives, Names
  <2> QED
    BY <1>1, <1>3, <2>1, Names DEF Owned
<1>7. n = [p EXCEPT ![Cleanup(o)] = "turn"]
  BY <1>2, <1>3, Names DEF NextPc, Staged
<1>8. Staged(r, n)
  BY <1>2, <1>3, <1>7, Names DEF Staged, Stages
<1>9. Accounts(r, n)
  <2>1. /\ Begun(n) = Begun(p) \cup {Cleanup(o)} /\ Cleanup(o) \notin Begun(p)
        /\ Invalidating(n) = Invalidating(p)
    BY <1>2, <1>7, Names DEF Staged, Begun, Invalidating
  <2>2. Cleaning(r) = Cleaning(t) \cup {o} /\ o \notin Cleaning(t)
    BY <1>2, <1>3, Names DEF Cleaning
  <2>3. IsFiniteSet(Begun(p)) /\ IsFiniteSet(Cleaning(t)) /\ IsFiniteSet(t.withheld)
    BY Finite DEF Begun, Cleaning, Typed
  <2>4. /\ Cardinality(Begun(p)) \in Nat /\ Cardinality(Invalidating(p)) \in Nat
        /\ Cardinality(t.withheld) \in Nat /\ Cardinality(Cleaning(t)) \in Nat
    BY Finite DEF Begun, Invalidating, Cleaning, Typed
  <2>5. /\ Cardinality(Begun(n)) = Cardinality(Begun(p)) + 1
        /\ Cardinality(Cleaning(r)) = Cardinality(Cleaning(t)) + 1
        /\ Cardinality(r.withheld) = Cardinality(t.withheld) - 1
    <3>1. Cardinality(Begun(n)) = Cardinality(Begun(p)) + 1
      BY <2>1, <2>3, FS_AddElement
    <3>2. Cardinality(Cleaning(r)) = Cardinality(Cleaning(t)) + 1
      BY <2>2, <2>3, FS_AddElement
    <3>3. Cardinality(r.withheld) = Cardinality(t.withheld) - 1
      BY <1>1, <2>3, FS_RemoveElement
    <3> QED
      BY <3>1, <3>2, <3>3
  <2> QED
    BY <1>1, <2>1, <2>4, <2>5 DEF Accounts
<1> QED
  BY <1>1, <1>5, <1>6, <1>8, <1>9 DEF r

\* A cleanup ends, and its operation with it.
LEMMA FinishCleanupKeeps ==
    ASSUME NEW t, NEW p, TableInv(t, p), NEW o \in Ops, t.st[Cleanup(o)] = "live", NEW x \in Outcomes
    PROVE  LET r == FinishCleanup(t, o, x)
           IN  TableInv(r, p) /\ NextPc(t, r, p) = p /\ r.known = t.known
<1> USE DEF TableInv
<1> DEFINE r == FinishCleanup(t, o, x)
<1>1. /\ Typed(r)
      /\ r.st = [a \in Activations |-> IF a \in {Run(o), Cleanup(o)} THEN "finished" ELSE t.st[a]]
      /\ \E y \in Outcomes : r.result = [t.result EXCEPT ![o] = y]
      /\ r.ends = [t.ends EXCEPT ![o] = t.ends[o] + 1]
      /\ r.owner = Nobody /\ r.withheld = t.withheld /\ r.wanted = t.wanted
      /\ r.tasks = t.tasks /\ r.timers = t.timers - 1 /\ r.known = t.known
  BY FinishCleanupFields DEF Lives
<1> HIDE DEF r
<1>2. t.st[Run(o)] = "revoked" /\ o \notin t.withheld
  BY DEF Lives
<1>3. /\ \A a \in Activations : a \notin {Run(o), Cleanup(o)} => r.st[a] = t.st[a]
      /\ r.st[Run(o)] = "finished" /\ r.st[Cleanup(o)] = "finished"
  BY <1>1, Names
<1>4. PICK y \in Outcomes : r.result = [t.result EXCEPT ![o] = y]
  BY <1>1
<1>5. /\ y # "none" /\ r.result[o] = y /\ r.ends[o] = 1
      /\ \A q \in Ops \ {o} : r.result[q] = t.result[q] /\ r.ends[q] = t.ends[q]
  BY <1>1, <1>2, <1>4 DEF Typed, Outcomes, Lives
<1>6. Lives(r)
  <2> SUFFICES ASSUME NEW q \in Ops
               PROVE /\ r.st[Cleanup(q)] # "revoked"
                     /\ r.st[Run(q)] = "revoked" <=> r.st[Cleanup(q)] = "live"
                     /\ r.st[Run(q)] \in {"none", "live"} => r.st[Cleanup(q)] = "none"
                     /\ q \in r.withheld => r.st[Run(q)] = "live"
                     /\ r.result[q] # "none" <=> r.st[Run(q)] = "finished"
                     /\ r.ends[q] = IF r.result[q] = "none" THEN 0 ELSE 1
                     /\ r.st[Cleanup(q)] = "live" => r.wanted[q] # "none"
    BY DEF Lives
  <2>1. CASE q = o
    BY <1>1, <1>2, <1>3, <1>5, <2>1
  <2>2. CASE q # o
    <3>1. r.st[Run(q)] = t.st[Run(q)] /\ r.st[Cleanup(q)] = t.st[Cleanup(q)]
      BY <1>3, <2>2, Names
    <3> QED
      BY <1>1, <1>5, <2>2, <3>1 DEF Lives
  <2> QED
    BY <2>1, <2>2
<1>7. Owned(r)
  <2>1. \A a \in Activations : r.st[a] # "live"
    BY <1>3, OneLives, Names
  <2> QED
    BY <1>1, <2>1 DEF Owned
<1>8. NextPc(t, r, p) = p
  BY <1>3, Names DEF NextPc, Staged
<1>9. Staged(r, p)
  BY <1>2, <1>3, Names DEF Staged
<1>10. Accounts(r, p)
  <2>1. Cleaning(r) = Cleaning(t) \ {o} /\ o \in Cleaning(t)
    BY <1>3, Names DEF Cleaning
  <2>2. IsFiniteSet(Cleaning(t))
    BY Finite DEF Cleaning
  <2>3. /\ Cardinality(Begun(p)) \in Nat /\ Cardinality(Invalidating(p)) \in Nat
        /\ Cardinality(t.withheld) \in Nat /\ Cardinality(Cleaning(t)) \in Nat
    BY Finite DEF Begun, Invalidating, Cleaning, Typed
  <2>4. Cardinality(Cleaning(r)) = Cardinality(Cleaning(t)) - 1
    BY <2>1, <2>2, FS_RemoveElement
  <2> QED
    BY <1>1, <2>3, <2>4 DEF Accounts
<1> QED
  BY <1>1, <1>6, <1>7, <1>8, <1>9, <1>10 DEF r

\* #finish, whatever ends the activation.
LEMMA FinishKeeps ==
    ASSUME NEW t, NEW p, TableInv(t, p), NEW a \in Activations, NEW x \in Outcomes, NEW e \in BOOLEAN
    PROVE  LET r == Finish(t, a, x, e)
           IN  /\ TableInv(r, NextPc(t, r, p))
               /\ r.known = t.known
               /\ t.st[a] # "live" => r = t
               /\ IsCleanup(a) => NextPc(t, r, p) = p
<1> DEFINE o == OpOf(a)
<1>1. NextPc(t, t, p) = p
  BY DEF NextPc, TableInv, Staged
<1>2. CASE t.st[a] # "live"
  BY <1>1, <1>2 DEF Finish
<1>3. CASE t.st[a] = "live" /\ IsCleanup(a)
  <2>1. o \in Ops /\ a = Cleanup(o)
    BY <1>3, Names
  <2>2. Finish(t, a, x, e) = FinishCleanup(t, o, x)
    BY <1>3 DEF Finish
  <2> QED
    BY <1>3, <2>1, <2>2, FinishCleanupKeeps
<1>4. CASE t.st[a] = "live" /\ ~IsCleanup(a)
  <2>1. o \in Ops /\ a = Run(o)
    BY <1>4, Names
  <2>2. CASE o \notin t.withheld
    <3>1. Finish(t, a, x, e) = Conclude([t EXCEPT !.owner = Nobody], o, x)
      BY <1>4, <2>2 DEF Finish
    <3> QED
      BY <1>4, <2>1, <2>2, <3>1, ConcludeKeeps
  <2>3. CASE o \in t.withheld /\ Unsafe(e)
    <3>1. Finish(t, a, x, e) = SkipCleanup(t, o, x)
      BY <1>4, <2>3 DEF Finish
    <3> QED
      BY <1>4, <2>1, <2>3, <3>1, SkipCleanupKeeps
  <2>4. CASE o \in t.withheld /\ ~Unsafe(e)
    <3>1. Finish(t, a, x, e) = BeginCleanup(t, o, x)
      BY <1>4, <2>4 DEF Finish
    <3> QED
      BY <1>4, <2>1, <2>4, <3>1, BeginCleanupKeeps
  <2> QED
    BY <2>2, <2>3, <2>4
<1> QED
  BY <1>2, <1>3, <1>4

\* The loop that revokes everything leaves nothing that lives, or that waits for one
\* that does.
LEMMA RevokeAllKeeps ==
    ASSUME NEW t, NEW p, TableInv(t, p)
    PROVE  LET r == RevokeAll(t)
           IN  /\ TableInv(r, p)
               /\ r.known = t.known
               /\ \A a \in Activations : r.st[a] \in Ended
<1> USE DEF TableInv
<1> DEFINE r == RevokeAll(t)
<1>1. /\ Typed(r)
      /\ r.st = [a \in Activations |-> IF t.st[a] \in {"live", "revoked"} THEN "finished" ELSE t.st[a]]
      /\ \A o \in Ops : r.result[o] # "none" <=>
            t.result[o] # "none" \/ t.st[Run(o)] = "live" \/ t.st[Cleanup(o)] = "live"
      /\ r.ends = [o \in Ops |-> t.ends[o] + IF t.st[Run(o)] = "live" \/ t.st[Cleanup(o)] = "live"
                                             THEN 1 ELSE 0]
      /\ r.owner = Nobody /\ r.withheld = {} /\ r.wanted = t.wanted
      /\ r.tasks = t.tasks - Cardinality(t.withheld)
      /\ r.timers = t.timers - Cardinality(t.withheld) - Cardinality(Cleaning(t))
      /\ r.known = t.known
  BY Finite, RevokeAllFields
<1> HIDE DEF r
<1>2. \A a \in Activations : /\ r.st[a] \in Ended
                             /\ r.st[a] = "none" <=> t.st[a] = "none"
  BY <1>1 DEF Typed, States, Ended
<1>3. Lives(r)
  <2> SUFFICES ASSUME NEW o \in Ops
               PROVE /\ r.st[Cleanup(o)] # "revoked"
                     /\ r.st[Run(o)] = "revoked" <=> r.st[Cleanup(o)] = "live"
                     /\ r.st[Run(o)] \in {"none", "live"} => r.st[Cleanup(o)] = "none"
                     /\ o \in r.withheld => r.st[Run(o)] = "live"
                     /\ r.result[o] # "none" <=> r.st[Run(o)] = "finished"
                     /\ r.ends[o] = IF r.result[o] = "none" THEN 0 ELSE 1
                     /\ r.st[Cleanup(o)] = "live" => r.wanted[o] # "none"
    BY DEF Lives
  <2>1. Run(o) \in Activations /\ Cleanup(o) \in Activations
    BY Names
  <2>2. /\ r.st[Run(o)] \in Ended /\ r.st[Cleanup(o)] \in Ended
        /\ r.st[Run(o)] = "none" => r.st[Cleanup(o)] = "none"
    BY <1>2, <2>1 DEF Lives
  <2>3. r.result[o] # "none" <=> r.st[Run(o)] = "finished"
    BY <1>1, <2>1 DEF Lives, Typed, States
  <2>4. r.ends[o] = IF r.result[o] = "none" THEN 0 ELSE 1
    BY <1>1 DEF Lives
  <2> QED
    BY <1>1, <2>2, <2>3, <2>4 DEF Ended
<1>4. Owned(r)
  BY <1>1, <1>2 DEF Owned, Ended
<1>5. Staged(r, p)
  BY <1>2 DEF Staged
<1>6. Accounts(r, p)
  <2>1. Cleaning(r) = {}
    BY <1>2, Names DEF Cleaning, Ended
  <2>2. Cardinality({}) = 0
    BY FS_EmptySet
  <2>3. /\ Cardinality(Begun(p)) \in Nat /\ Cardinality(Invalidating(p)) \in Nat
        /\ Cardinality(t.withheld) \in Nat /\ Cardinality(Cleaning(t)) \in Nat
    BY Finite DEF Begun, Invalidating, Cleaning, Typed
  <2> QED
    BY <1>1, <2>1, <2>2, <2>3 DEF Accounts
<1> QED
  BY <1>1, <1>2, <1>3, <1>4, <1>5, <1>6 DEF r

\* A #run goes on from one await to the next.
LEMMA RestageKeeps ==
    ASSUME NEW t, NEW p, TableInv(t, p), NEW a \in Activations,
           p[a] \notin {"none", "retired", "invalidating"},
           NEW s \in Stages \ {"none", "retired", "invalidating"}
    PROVE  TableInv(t, [p EXCEPT ![a] = s])
<1> DEFINE q == [p EXCEPT ![a] = s]
<1>1. Staged(t, q)
  BY DEF TableInv, Staged, Stages
<1>2. Begun(q) = Begun(p) /\ Invalidating(q) = Invalidating(p)
  BY DEF TableInv, Staged, Begun, Invalidating
<1> QED
  BY <1>1, <1>2 DEF TableInv, Accounts

\* An activation that goes on does so in the stage in which it ended.
LEMMA NextPcKeeps ==
    ASSUME NEW t, NEW r, NEW p, Staged(t, p), NEW a \in Activations, p[a] # "none"
    PROVE  NextPc(t, r, p)[a] = p[a]
BY DEF NextPc, Staged

\* The channel changes hands, and #tasks goes with the stages.
LEMMA ReownKeeps ==
    ASSUME NEW t, NEW p, TableInv(t, p), NEW q, Staged(t, q), NEW w \in Owners, NEW k \in Int,
           \A a \in Activations : t.st[a] = "live" => w \in {a, Event(a)},
           w # Nobody => \E a \in Activations : t.st[a] = "live" /\ w \in {a, Event(a)},
           k = Cardinality(Begun(q)) + Cardinality(Invalidating(q)) + Cardinality(t.withheld),
           NEW r, Typed(r), r.st = t.st, r.owner = w, r.tasks = k, r.withheld = t.withheld,
           r.wanted = t.wanted, r.timers = t.timers, r.result = t.result, r.ends = t.ends
    PROVE  TableInv(r, q)
<1>1. Lives(r)
  BY DEF TableInv, Lives
<1>2. Owned(r)
  BY DEF Owned
<1>3. Staged(r, q)
  BY DEF Staged
<1>4. Cleaning(r) = Cleaning(t)
  BY DEF Cleaning
<1>5. Accounts(r, q)
  BY <1>4 DEF TableInv, Accounts
<1> QED
  BY <1>1, <1>2, <1>3, <1>5 DEF TableInv

\* What a change of one stage makes of the accounts.
LEMMA StageCounts ==
    ASSUME NEW t, NEW p, TableInv(t, p), NEW a \in Activations, p[a] \notin {"none", "retired"},
           NEW s \in Stages \ {"none"},
           NEW q \in [Activations -> Stages], q[a] = s, \A b \in Activations : b # a => q[b] = p[b]
    PROVE  /\ Staged(t, q)
           /\ Cardinality(Begun(q)) = Cardinality(Begun(p)) - (IF s = "retired" THEN 1 ELSE 0)
           /\ Cardinality(Invalidating(q)) =
                 Cardinality(Invalidating(p)) + (IF s = "invalidating" THEN 1 ELSE 0)
                                              - (IF p[a] = "invalidating" THEN 1 ELSE 0)
           /\ Cardinality(Begun(p)) \in Nat /\ Cardinality(Invalidating(p)) \in Nat
           /\ Cardinality(t.withheld) \in Nat
<1>0. p \in [Activations -> Stages] /\ \A b \in Activations : p[b] = "none" <=> t.st[b] = "none"
  BY DEF TableInv, Staged
<1>1. q[a] = s /\ \A b \in Activations : b # a => q[b] = p[b]
  OBVIOUS
<1>3. Staged(t, q)
  BY <1>0, <1>1 DEF Staged
<1>4. /\ IsFiniteSet(Begun(p)) /\ IsFiniteSet(Invalidating(p))
      /\ Cardinality(Begun(p)) \in Nat /\ Cardinality(Invalidating(p)) \in Nat
      /\ Cardinality(t.withheld) \in Nat
  <2>1. Begun(p) \in SUBSET Activations /\ Invalidating(p) \in SUBSET Activations /\ t.withheld \in SUBSET Ops
    BY DEF Begun, Invalidating, TableInv, Typed
  <2> QED
    BY <2>1, Finite
<1>5. Cardinality(Begun(q)) = Cardinality(Begun(p)) - (IF s = "retired" THEN 1 ELSE 0)
  <2>1. CASE s = "retired"
    <3>1. Begun(q) = Begun(p) \ {a} /\ a \in Begun(p)
      BY <1>1, <2>1 DEF Begun
    <3>2. Cardinality(Begun(q)) = Cardinality(Begun(p)) - 1
      BY <1>4, <3>1, FS_RemoveElement
    <3> QED
      BY <2>1, <3>2
  <2>2. CASE s # "retired"
    <3>1. Begun(q) = Begun(p)
      BY <1>1, <2>2 DEF Begun
    <3> QED
      BY <1>4, <2>2, <3>1
  <2> QED
    BY <2>1, <2>2
<1>6. Cardinality(Invalidating(q)) =
            Cardinality(Invalidating(p)) + (IF s = "invalidating" THEN 1 ELSE 0)
                                         - (IF p[a] = "invalidating" THEN 1 ELSE 0)
  <2>1. CASE (s = "invalidating") <=> (p[a] = "invalidating")
    <3>1. Invalidating(q) = Invalidating(p)
      BY <1>1, <2>1 DEF Invalidating
    <3> QED
      BY <1>4, <2>1, <3>1
  <2>2. CASE s = "invalidating" /\ p[a] # "invalidating"
    <3>1. Invalidating(q) = Invalidating(p) \cup {a} /\ a \notin Invalidating(p)
      BY <1>1, <2>2 DEF Invalidating
    <3>2. Cardinality(Invalidating(q)) = Cardinality(Invalidating(p)) + 1
      BY <1>4, <3>1, FS_AddElement
    <3> QED
      BY <1>4, <2>2, <3>2
  <2>3. CASE s # "invalidating" /\ p[a] = "invalidating"
    <3>1. Invalidating(q) = Invalidating(p) \ {a} /\ a \in Invalidating(p)
      BY <1>1, <2>3 DEF Invalidating
    <3>2. Cardinality(Invalidating(q)) = Cardinality(Invalidating(p)) - 1
      BY <1>4, <3>1, FS_RemoveElement
    <3> QED
      BY <1>4, <2>3, <3>2
  <2> QED
    BY <2>1, <2>2, <2>3
<1> QED
  BY <1>3, <1>4, <1>5, <1>6

\* An activation goes on to stage s; the channel and #tasks go with it.
LEMMA MoveKeeps ==
    ASSUME NEW t, NEW p, TableInv(t, p), NEW a \in Activations, p[a] \notin {"none", "retired"},
           NEW s \in Stages \ {"none"}, NEW w \in Owners, NEW k,
           k = t.tasks - (IF s = "retired" THEN 1 ELSE 0) + (IF s = "invalidating" THEN 1 ELSE 0)
                       - (IF p[a] = "invalidating" THEN 1 ELSE 0),
           \A b \in Activations : t.st[b] = "live" => w \in {b, Event(b)},
           w # Nobody => \E b \in Activations : t.st[b] = "live" /\ w \in {b, Event(b)}
    PROVE  TableInv([t EXCEPT !.owner = w, !.tasks = k], [p EXCEPT ![a] = s])
<1> DEFINE q == [p EXCEPT ![a] = s]
           r == [t EXCEPT !.owner = w, !.tasks = k]
<1>1. q \in [Activations -> Stages] /\ q[a] = s /\ \A b \in Activations : b # a => q[b] = p[b]
  BY DEF TableInv, Staged
<1>2. t.tasks \in Int
  BY DEF TableInv, Typed
<1>3. k \in Int
  BY <1>2
<1>4. /\ Typed(r) /\ r.st = t.st /\ r.owner = w /\ r.tasks = k /\ r.withheld = t.withheld
      /\ r.wanted = t.wanted /\ r.timers = t.timers /\ r.result = t.result /\ r.ends = t.ends
  BY <1>3 DEF TableInv, Typed
<1> HIDE DEF q, r
<1>5. /\ Staged(t, q)
      /\ Cardinality(Begun(q)) = Cardinality(Begun(p)) - (IF s = "retired" THEN 1 ELSE 0)
      /\ Cardinality(Invalidating(q)) =
            Cardinality(Invalidating(p)) + (IF s = "invalidating" THEN 1 ELSE 0)
                                         - (IF p[a] = "invalidating" THEN 1 ELSE 0)
      /\ Cardinality(Begun(p)) \in Nat /\ Cardinality(Invalidating(p)) \in Nat
      /\ Cardinality(t.withheld) \in Nat
  BY <1>1, StageCounts
<1>6. k = Cardinality(Begun(q)) + Cardinality(Invalidating(q)) + Cardinality(t.withheld)
  BY <1>5 DEF TableInv, Accounts
<1>7. TableInv(r, q)
  BY <1>3, <1>4, <1>5, <1>6, ReownKeeps
<1> QED
  BY <1>7 DEF r, q

\* An operation starts on a channel that nobody owns.
LEMMA StartKeeps ==
    ASSUME NEW t, NEW p, TableInv(t, p), NEW o \in Ops, t.st[Run(o)] = "none", t.owner = Nobody,
           NEW W, NEW m, m = (IF o \in W THEN 1 ELSE 0)
    PROVE  LET r == [t EXCEPT !.st[Run(o)] = "live", !.owner = Run(o), !.known = @ \cup {o},
                              !.tasks = @ + 1 + m, !.timers = @ + m,
                              !.withheld = IF o \in W THEN @ \cup {o} ELSE @]
           IN  TableInv(r, [p EXCEPT ![Run(o)] = "turn"])
<1> USE DEF TableInv
<1> DEFINE st == [t.st EXCEPT ![Run(o)] = "live"]
           known == t.known \cup {o}
           tasks == t.tasks + 1 + m
           timers == t.timers + m
           withheld == IF o \in W THEN t.withheld \cup {o} ELSE t.withheld
           r == [t EXCEPT !.st = st, !.owner = Run(o), !.known = known, !.tasks = tasks,
                          !.timers = timers, !.withheld = withheld]
           q == [p EXCEPT ![Run(o)] = "turn"]
<1>1. /\ st \in [Activations -> States] /\ Run(o) \in Owners /\ known \in SUBSET Ops
      /\ tasks \in Int /\ timers \in Int /\ withheld \in SUBSET Ops
  BY Names, OwnerNames DEF Typed, States
<1>2. [t EXCEPT !.st[Run(o)] = "live", !.owner = Run(o), !.known = @ \cup {o},
                !.tasks = @ + 1 + m, !.timers = @ + m,
                !.withheld = IF o \in W THEN @ \cup {o} ELSE @] = r
  BY DEF Typed
<1>3. st[Run(o)] = "live" /\ \A a \in Activations : a # Run(o) => st[a] = t.st[a]
  BY Names DEF Typed
<1> HIDE DEF st, known, tasks, timers, withheld
<1>4. /\ Typed(r) /\ r.st = st /\ r.owner = Run(o) /\ r.tasks = tasks
      /\ r.timers = timers /\ r.withheld = withheld
      /\ r.wanted = t.wanted /\ r.result = t.result /\ r.ends = t.ends
  BY <1>1 DEF Typed
<1> HIDE DEF r
<1>5. \A a \in Activations : t.st[a] # "live"
  BY OwnerNames DEF Owned
<1>6. t.st[Cleanup(o)] = "none" /\ o \notin t.withheld /\ p[Run(o)] = "none"
  BY Names DEF Lives, Staged
<1>7. Lives(r)
  <2> SUFFICES ASSUME NEW v \in Ops
               PROVE /\ r.st[Cleanup(v)] # "revoked"
                     /\ r.st[Run(v)] = "revoked" <=> r.st[Cleanup(v)] = "live"
                     /\ r.st[Run(v)] \in {"none", "live"} => r.st[Cleanup(v)] = "none"
                     /\ v \in r.withheld => r.st[Run(v)] = "live"
                     /\ r.result[v] # "none" <=> r.st[Run(v)] = "finished"
                     /\ r.ends[v] = IF r.result[v] = "none" THEN 0 ELSE 1
                     /\ r.st[Cleanup(v)] = "live" => r.wanted[v] # "none"
    BY DEF Lives
  <2>1. r.st[Cleanup(v)] = t.st[Cleanup(v)]
    BY <1>3, <1>4, Names
  <2>2. CASE v = o
    BY <1>3, <1>4, <1>6, <2>1, <2>2 DEF Lives
  <2>3. CASE v # o
    <3>1. r.st[Run(v)] = t.st[Run(v)] /\ (v \in r.withheld <=> v \in t.withheld)
      BY <1>3, <1>4, <2>3, Names DEF withheld
    <3> QED
      BY <1>4, <2>1, <3>1 DEF Lives
  <2> QED
    BY <2>2, <2>3
<1>8. Owned(r)
  BY <1>3, <1>4, <1>5, Names DEF Owned
<1>9. q[Run(o)] = "turn" /\ (\A a \in Activations : a # Run(o) => q[a] = p[a]) /\ q \in [Activations -> Stages]
  BY Names DEF Staged, Stages
<1> HIDE DEF q
<1>10. Staged(r, q)
  BY <1>3, <1>4, <1>9, Names DEF Staged
<1>11. Accounts(r, q)
  <2>1. Begun(q) = Begun(p) \cup {Run(o)} /\ Run(o) \notin Begun(p) /\ Invalidating(q) = Invalidating(p)
    BY <1>6, <1>9, Names DEF Begun, Invalidating
  <2>2. Cleaning(r) = Cleaning(t)
    BY <1>3, <1>4, Names DEF Cleaning
  <2>3. IsFiniteSet(Begun(p)) /\ IsFiniteSet(t.withheld)
    BY Finite DEF Begun, Typed
  <2>4. /\ Cardinality(Begun(p)) \in Nat /\ Cardinality(Invalidating(p)) \in Nat
        /\ Cardinality(t.withheld) \in Nat /\ Cardinality(Cleaning(t)) \in Nat
    BY Finite DEF Begun, Invalidating, Cleaning, Typed
  <2>5. Cardinality(Begun(q)) = Cardinality(Begun(p)) + 1
    BY <2>1, <2>3, FS_AddElement
  <2>6. Cardinality(r.withheld) = Cardinality(t.withheld) + m
    <3>1. CASE o \in W
      <4>1. Cardinality(t.withheld \cup {o}) = Cardinality(t.withheld) + 1
        BY <1>6, <2>3, FS_AddElement
      <4> QED
        BY <1>4, <3>1, <4>1 DEF withheld
    <3>2. CASE o \notin W
      BY <1>4, <2>4, <3>2 DEF withheld
    <3> QED
      BY <3>1, <3>2
  <2> QED
    BY <1>4, <2>1, <2>2, <2>4, <2>5, <2>6 DEF Accounts, tasks, timers
<1> QED
  BY <1>2, <1>4, <1>7, <1>8, <1>10, <1>11 DEF q

\* An acknowledged operation is only forgotten.
LEMMA AcknowledgeKeeps ==
    ASSUME NEW t, NEW p, TableInv(t, p), NEW o
    PROVE  LET r == [t EXCEPT !.known = @ \ {o}]
           IN  TableInv(r, p) /\ r.st = t.st
<1> DEFINE r == [t EXCEPT !.known = @ \ {o}]
<1>1. /\ Typed(r) /\ r.st = t.st /\ r.owner = t.owner /\ r.tasks = t.tasks
      /\ r.withheld = t.withheld /\ r.wanted = t.wanted /\ r.timers = t.timers
      /\ r.result = t.result /\ r.ends = t.ends
  BY DEF TableInv, Typed
<1> HIDE DEF r
<1>2. Lives(r) /\ Owned(r) /\ Staged(r, p) /\ Cleaning(r) = Cleaning(t)
  BY <1>1 DEF TableInv, Lives, Owned, Staged, Cleaning
<1>3. Accounts(r, p)
  BY <1>1, <1>2 DEF TableInv, Accounts
<1> QED
  BY <1>1, <1>2, <1>3 DEF TableInv, r

-----------------------------------------------------------------------------
(* The steps and the connections.                                          *)

Cells == Connections \cup {NoConnection}

\* The types that TableInv does not give.
Types ==
    /\ closed \in BOOLEAN /\ captureLost \in BOOLEAN /\ generation \in Nat
    /\ connection \in Cells /\ lease \in Cells
    /\ reestablish \in BOOLEAN /\ terminal \in BOOLEAN
    /\ acquirer \in Activations \cup {Nobody, Client}
    /\ acqStage \in {"idle", "opening", "leasing", "undoing"}
    /\ acqConn \in Cells
    /\ rawStage \in {"idle", "invalidating", "releasing", "acquiring", "granted", "open", "undoing"}
    /\ rawConn \in Cells
    /\ disc \in {"no", "disposing", "closing", "done"} /\ discConn \in Cells
    /\ gen \in [Activations -> Nat]
    /\ target \in [Activations -> Cells]
    /\ outbound \subseteq Activations
    /\ platform \in [Connections -> {"unopened", "open", "closed"}]
    /\ held \in [Connections -> {"none", "protocol", "raw"}]
    /\ disposing \subseteq Connections

\* Nothing lives in a session that is closed or lost its recording.
Quiet == closed \/ captureLost => \A a \in Activations : ops.st[a] \in Ended

\* A raw terminal has the connection, or is getting it.
RawBusy == rawStage \in {"invalidating", "releasing", "acquiring", "granted", "open"}

Gone(c) == c = NoConnection \/ c \in disposing \/ platform[c] = "closed"

\* The one who acquires has nothing installed beside it, and what it has got is its own.
Acquiring ==
    /\ acqStage = "idle" <=> acquirer = Nobody
    /\ acqStage # "idle" => connection = NoConnection
    /\ acqStage \in {"idle", "opening"} => acqConn = NoConnection
    /\ acqStage = "leasing" => /\ acqConn # NoConnection /\ acqConn # rawConn
                               /\ platform[acqConn] = "open" /\ acqConn \notin disposing
    /\ acqStage = "undoing" => Gone(acqConn)

\* While a raw terminal is busy in a session that is not closed, its connection is the
\* installed one, without a protocol lease, and a client must connect anew before
\* any operation starts.
RawHolds ==
    /\ RawBusy /\ ~closed => connection = rawConn /\ rawConn # NoConnection /\ reestablish
    /\ terminal => rawStage = "open"
    /\ rawStage = "open" /\ ~closed => terminal
    /\ RawBusy /\ ~closed /\ ~terminal => lease = NoConnection
    /\ rawStage = "idle" <=> rawConn = NoConnection
    /\ rawStage = "undoing" => Gone(rawConn)

\* The protocol's lease, where the session has one, is what the platform granted.
Leased ==
    ~closed /\ ~terminal /\ lease # NoConnection =>
        /\ lease = connection /\ platform[lease] = "open" /\ held[lease] = "protocol"
        /\ lease \notin disposing /\ rawConn # lease

\* A disconnect disposes of what was installed, and installs nothing.
Closing ==
    /\ disc = "no" <=> ~closed
    /\ disc = "no" => discConn = NoConnection
    /\ closed => Gone(discConn) /\ connection \in {NoConnection, discConn}

\* What the platform has not opened, nobody knows.
Unopened ==
    \A c \in Connections : platform[c] = "unopened" =>
        c \notin disposing \cup {connection, acqConn, rawConn, discConn} /\ held[c] = "none"

Conn == Acquiring /\ RawHolds /\ Leased /\ Closing /\ Unopened /\ ConnectionsAccounted

\* What the activations have to do with the connection.
Links ==
    /\ acquirer \in Activations => pc[acquirer] = "opening"
    /\ RawBusy /\ ~closed => \A a \in Activations : ops.st[a] # "live"

IInv == Types /\ TableInv(ops, pc) /\ Quiet /\ Conn /\ Links

-----------------------------------------------------------------------------
\* A connection that may be undefined.
LEMMA NoConnectionIsNone == NoConnection \notin Connections
BY SessionAssumption

\* Some is the set of what is defined.
LEMMA SomeIs ==
    \A c \in Cells :
        Some(c) \subseteq Connections /\ (Some(c) = IF c = NoConnection THEN {} ELSE {c})
BY NoConnectionIsNone DEF Some, Cells

\* An acquirer that was refused is done with what it got.
GivenBack ==
    /\ acqStage = "undoing" /\ acqConn \notin disposing
    /\ acquirer' = Nobody /\ acqStage' = "idle" /\ acqConn' = NoConnection

\* A disconnect, up to its first await, keeps what is known of the connections.
LEMMA ShutKeepsConn ==
    ASSUME Types, Conn, NEW ob, ~closed, Shut(ob), UNCHANGED acq \/ GivenBack,
           UNCHANGED <<reestablish, rawTask, world>>
    PROVE  Conn'
<1> USE SomeIs, NoConnectionIsNone DEF Types, Conn, rawTask, world, Shut, Cells
<1>1. Acquiring'
  BY DEF Acquiring, Gone, acq, GivenBack
<1>2. RawHolds'
  BY DEF RawHolds, RawBusy, Gone
<1>3. Leased'
  BY DEF Leased
<1>4. Closing'
  BY DEF Closing, Gone
<1>5. Unopened'
  BY DEF Unopened, acq, GivenBack
<1>6. ConnectionsAccounted'
  BY DEF ConnectionsAccounted, RawHolds, RawBusy, Acquiring, Gone, acq, GivenBack
<1> QED
  BY <1>1, <1>2, <1>3, <1>4, <1>5, <1>6

\* What a disconnect, up to its first await, makes of the fields.
LEMMA ShutKeepsTypes ==
    ASSUME Types, NEW ob, Shut(ob)
    PROVE  /\ closed' /\ closed' \in BOOLEAN /\ generation' \in Nat /\ terminal' \in BOOLEAN
           /\ connection' \in Cells /\ lease' \in Cells
           /\ disc' \in {"no", "disposing", "closing", "done"} /\ discConn' \in Cells
           /\ disposing' \subseteq Connections
<1>0. closed' = TRUE /\ terminal' = FALSE /\ discConn' = connection /\ generation' = generation + 1
  BY DEF Shut
<1>1. closed' /\ closed' \in BOOLEAN /\ generation' \in Nat /\ terminal' \in BOOLEAN /\ discConn' \in Cells
  <2>1. closed' \in BOOLEAN /\ terminal' \in BOOLEAN
    BY <1>0
  <2>2. generation' \in Nat
    BY <1>0 DEF Types
  <2>3. discConn' \in Cells
    BY <1>0 DEF Types
  <2> QED
    BY <1>0, <2>1, <2>2, <2>3
<1>2. disposing' \subseteq Connections
  BY SomeIs DEF Types, Shut
<1>3. CASE ob = {}
  BY <1>1, <1>2, <1>3 DEF Types, Shut
<1>4. CASE ob # {}
  BY <1>1, <1>2, <1>4 DEF Types, Shut, Cells
<1> QED
  BY <1>3, <1>4

\* What a step that ends in Commit makes of the table and of the session.
LEMMA CommitKeeps ==
    ASSUME IInv, NEW t, NEW p, TableInv(t, p),
           closed \/ captureLost => \A a \in Activations : t.st[a] \in Ended,
           NEW f, NEW ob, Commit(t, f, ob), UNCHANGED captureLost
    PROVE  /\ TableInv(ops', p) /\ Quiet'
           /\ \A a \in Activations : ops'.st[a] = "live" => t.st[a] = "live"
           /\ UNCHANGED shut \/ (~closed /\ Shut(ob))
<1>1. CASE f /\ ~closed
  <2>1. ops' = RevokeAll(t) /\ Shut(ob)
    BY <1>1 DEF Commit
  <2>2. TableInv(ops', p) /\ \A a \in Activations : ops'.st[a] \in Ended
    BY <2>1, RevokeAllKeeps
  <2> QED
    BY <1>1, <2>1, <2>2 DEF Quiet, Ended
<1>2. CASE ~(f /\ ~closed)
  <2>1. ops' = t /\ UNCHANGED shut
    BY <1>2 DEF Commit
  <2> QED
    BY <2>1 DEF Quiet, shut
<1> QED
  BY <1>1, <1>2

\* In a session that is closed or lost its recording, a finish changes nothing.
LEMMA FinishQuiet ==
    ASSUME IInv, NEW a \in Activations, NEW x \in Outcomes, NEW e \in BOOLEAN
    PROVE  /\ closed \/ captureLost => \A b \in Activations : Finish(ops, a, x, e).st[b] \in Ended
           /\ (\A b \in Activations : ops.st[b] # "live") => Finish(ops, a, x, e) = ops
<1>1. (\A b \in Activations : ops.st[b] # "live") => Finish(ops, a, x, e) = ops
  BY FinishKeeps DEF IInv
<1> QED
  BY <1>1 DEF IInv, Quiet, Ended

\* #run's catch and finally.
LEMMA EndRunKeeps ==
    ASSUME IInv, NEW a \in Activations, pc[a] \notin {"none", "retired", "invalidating"},
           NEW x \in Outcomes, NEW e \in BOOLEAN, NEW f, NEW ob, EndRun(a, x, e, f, ob),
           UNCHANGED captureLost
    PROVE  /\ TableInv(ops', pc') /\ Quiet'
           /\ gen' \in [Activations -> Nat]
           /\ \A b \in Activations : b # a /\ pc[b] # "none" => pc'[b] = pc[b]
           /\ (\A b \in Activations : ops.st[b] # "live") => \A b \in Activations : ops'.st[b] # "live"
           /\ UNCHANGED shut \/ (~closed /\ Shut(ob))
<1> DEFINE t == Finish(ops, a, x, e)
           n == NextPc(ops, t, pc)
           p == [n EXCEPT ![a] = "unwind"]
<1>1. TableInv(t, n)
  BY FinishKeeps DEF IInv
<1>2. n = PcAfter(t, pc)
  BY DEF NextPc, PcAfter
<1>3. \A b \in Activations : pc[b] # "none" => n[b] = pc[b]
  BY NextPcKeeps DEF IInv, TableInv
<1>4. pc' = p /\ gen' = GenAfter(t) /\ Commit(t, f \/ Fatal(a, x, e), ob)
  BY <1>2 DEF EndRun
<1>5. /\ closed \/ captureLost => \A b \in Activations : t.st[b] \in Ended
      /\ (\A b \in Activations : ops.st[b] # "live") => t = ops
  BY FinishQuiet
<1> HIDE DEF t, n
<1>6. TableInv(t, p)
  BY <1>1, <1>3, RestageKeeps DEF Stages
<1> HIDE DEF p
<1>7. /\ TableInv(ops', p) /\ Quiet'
      /\ \A b \in Activations : ops'.st[b] = "live" => t.st[b] = "live"
      /\ UNCHANGED shut \/ (~closed /\ Shut(ob))
  BY <1>4, <1>5, <1>6, CommitKeeps
<1>8. gen' \in [Activations -> Nat]
  BY <1>4 DEF IInv, Types, GenAfter
<1>9. \A b \in Activations : b # a /\ pc[b] # "none" => pc'[b] = pc[b]
  <2>1. n \in [Activations -> Stages]
    BY <1>1 DEF TableInv, Staged
  <2> QED
    BY <1>3, <1>4, <2>1 DEF p
<1> QED
  BY <1>4, <1>5, <1>7, <1>8, <1>9

\* A step of the operations: of the session's connections it changes nothing, or what a
\* disconnect does, and an acquirer may be done.
LEMMA SessionStep ==
    ASSUME IInv, TableInv(ops', pc'), Quiet',
           UNCHANGED shut \/ (~closed /\ \E ob : Shut(ob)),
           UNCHANGED acq \/ GivenBack,
           UNCHANGED <<reestablish, rawTask, world>>,
           captureLost' \in BOOLEAN, gen' \in [Activations -> Nat],
           target' \in [Activations -> Cells], outbound' \subseteq Activations,
           acquirer' \in Activations => pc'[acquirer'] = "opening",
           RawBusy /\ ~closed => \A a \in Activations : ops'.st[a] # "live"
    PROVE  IInv'
<1>1. /\ acquirer' \in Activations \cup {Nobody, Client}
      /\ acqStage' \in {"idle", "opening", "leasing", "undoing"}
      /\ acqConn' \in Cells
  BY DEF IInv, Types, Cells, acq, GivenBack
<1>2. CASE UNCHANGED shut
  <2>1. Types'
    BY <1>1, <1>2 DEF IInv, Types, shut, rawTask, world
  <2>2. Conn'
    <3> USE <1>2 DEF IInv, Conn, shut, rawTask, world, Gone
    <3>1. Acquiring'
      BY DEF Acquiring, acq, GivenBack
    <3>2. RawHolds' /\ Leased' /\ Closing'
      BY DEF RawHolds, RawBusy, Leased, Closing
    <3>3. Unopened'
      BY NoConnectionIsNone DEF Unopened, acq, GivenBack
    <3>4. ConnectionsAccounted'
      BY NoConnectionIsNone DEF ConnectionsAccounted, Acquiring, acq, GivenBack
    <3> QED
      BY <3>1, <3>2, <3>3, <3>4
  <2>3. Links'
    BY <1>2 DEF Links, RawBusy, shut, rawTask
  <2> QED
    BY <2>1, <2>2, <2>3 DEF IInv
<1>3. ASSUME NEW ob, ~closed, Shut(ob)
      PROVE  IInv'
  <2>1. /\ closed' /\ closed' \in BOOLEAN /\ generation' \in Nat /\ terminal' \in BOOLEAN
        /\ connection' \in Cells /\ lease' \in Cells
        /\ disc' \in {"no", "disposing", "closing", "done"} /\ discConn' \in Cells
        /\ disposing' \subseteq Connections
    BY <1>3, ShutKeepsTypes DEF IInv
  <2>2. Types'
    BY <1>1, <2>1 DEF IInv, Types, rawTask, world
  <2>3. Conn'
    BY <1>3, ShutKeepsConn DEF IInv
  <2>4. Links'
    BY <2>1 DEF Links
  <2> QED
    BY <2>2, <2>3, <2>4 DEF IInv
<1> QED
  BY <1>2, <1>3

\* The same, where nobody is done acquiring.
LEMMA OperationStep ==
    ASSUME IInv, TableInv(ops', pc'), Quiet',
           UNCHANGED shut \/ (~closed /\ \E ob : Shut(ob)),
           UNCHANGED <<reestablish, acq, rawTask, world>>,
           captureLost' \in BOOLEAN, gen' \in [Activations -> Nat],
           target' \in [Activations -> Cells], outbound' \subseteq Activations,
           acquirer \in Activations => pc'[acquirer] = "opening",
           RawBusy /\ ~closed => \A a \in Activations : ops'.st[a] # "live"
    PROVE  IInv'
<1>1. UNCHANGED acq /\ UNCHANGED <<reestablish, rawTask, world>>
  OBVIOUS
<1>2. acquirer' \in Activations => pc'[acquirer'] = "opening"
  BY <1>1 DEF acq
<1> QED
  BY <1>1, <1>2, SessionStep

\* An activation's #run ends.
LEMMA EndRunStep ==
    ASSUME IInv, NEW a \in Activations, pc[a] \in {"turn", "write", "closing"},
           NEW x \in Outcomes, NEW e \in BOOLEAN, NEW f, NEW ob, EndRun(a, x, e, f, ob),
           UNCHANGED <<captureLost, reestablish, acq, rawTask, target, world>>,
           outbound' \subseteq Activations
    PROVE  IInv'
<1>1. /\ TableInv(ops', pc') /\ Quiet'
      /\ gen' \in [Activations -> Nat]
      /\ \A b \in Activations : b # a /\ pc[b] # "none" => pc'[b] = pc[b]
      /\ (\A b \in Activations : ops.st[b] # "live") => \A b \in Activations : ops'.st[b] # "live"
      /\ UNCHANGED shut \/ (~closed /\ Shut(ob))
  BY EndRunKeeps
<1>2. captureLost' \in BOOLEAN /\ target' \in [Activations -> Cells]
  BY DEF IInv, Types
<1>3. acquirer \in Activations => pc'[acquirer] = "opening"
  BY <1>1 DEF IInv, Links
<1>4. RawBusy /\ ~closed => \A b \in Activations : ops'.st[b] # "live"
  BY <1>1 DEF IInv, Links
<1>5. UNCHANGED <<reestablish, acq, rawTask, world>>
  OBVIOUS
<1> HIDE DEF EndRun
<1> QED
  BY <1>1, <1>2, <1>3, <1>4, <1>5, OperationStep

\* A step that ends in Commit.
LEMMA CommitStep ==
    ASSUME IInv, NEW t, TableInv(t, pc'),
           closed \/ captureLost => \A a \in Activations : t.st[a] \in Ended,
           RawBusy /\ ~closed => \A a \in Activations : t.st[a] # "live",
           NEW f, NEW ob, Commit(t, f, ob),
           acquirer \in Activations => pc'[acquirer] = "opening", gen' \in [Activations -> Nat],
           UNCHANGED <<captureLost, reestablish, acq, rawTask, target, outbound, world>>
    PROVE  IInv'
<1>1. /\ TableInv(ops', pc') /\ Quiet'
      /\ \A a \in Activations : ops'.st[a] = "live" => t.st[a] = "live"
      /\ UNCHANGED shut \/ (~closed /\ Shut(ob))
  BY CommitKeeps
<1>2. captureLost' \in BOOLEAN /\ target' \in [Activations -> Cells] /\ outbound' \subseteq Activations
  BY DEF IInv, Types
<1>3. RawBusy /\ ~closed => \A a \in Activations : ops'.st[a] # "live"
  BY <1>1
<1> HIDE DEF Commit
<1> QED
  BY <1>1, <1>2, <1>3, OperationStep

\* A step on a table that is not closed and keeps who is live.
LEMMA TableStep ==
    ASSUME IInv, TableInv(ops', pc'), \A a \in Activations : ops'.st[a] = ops.st[a],
           UNCHANGED <<shut, captureLost, reestablish, acq, rawTask, gen, target, world>>,
           outbound' \subseteq Activations,
           acquirer \in Activations => pc'[acquirer] = "opening"
    PROVE  IInv'
<1>1. Quiet'
  BY DEF IInv, Quiet, shut
<1>2. /\ captureLost' \in BOOLEAN /\ target' \in [Activations -> Cells] /\ gen' \in [Activations -> Nat]
      /\ RawBusy /\ ~closed => \A a \in Activations : ops'.st[a] # "live"
  BY DEF IInv, Types, Links
<1> QED
  BY <1>1, <1>2, OperationStep

-----------------------------------------------------------------------------
(* The steps of the operations.                                              *)

\* #start: a start needs a channel without an owner, and a connection established anew.
LEMMA StartStep == ASSUME IInv, NEW o \in Ops, Start(o) PROVE IInv'
<1>1. TableInv(ops', pc')
  <2> DEFINE m == IF o \in WithCleanup THEN 1 ELSE 0
  <2>1. ops' = [ops EXCEPT !.st[Run(o)] = "live", !.owner = Run(o), !.known = @ \cup {o},
                           !.tasks = @ + 1 + m, !.timers = @ + m,
                           !.withheld = IF o \in WithCleanup THEN @ \cup {o} ELSE @]
    BY DEF Start
  <2>2. pc' = [pc EXCEPT ![Run(o)] = "turn"] /\ ops.st[Run(o)] = "none" /\ ops.owner = Nobody
    BY DEF Start
  <2>3. TableInv(ops, pc)
    BY DEF IInv
  <2> QED
    BY <2>1, <2>2, <2>3, StartKeeps
<1>2. /\ UNCHANGED <<shut, captureLost, reestablish, acq, rawTask, target, outbound, world>>
      /\ ~closed /\ ~captureLost /\ ~reestablish
      /\ gen' = [gen EXCEPT ![Run(o)] = generation]
      /\ pc' = [pc EXCEPT ![Run(o)] = "turn"] /\ ops.st[Run(o)] = "none"
  BY DEF Start
<1>3. Quiet'
  BY <1>2 DEF Quiet, shut
<1>4. gen' \in [Activations -> Nat]
  BY <1>2, Names DEF IInv, Types
<1>5. acquirer \in Activations => pc'[acquirer] = "opening"
  BY <1>2, Names DEF IInv, Links, TableInv, Staged
<1>6. ~(RawBusy /\ ~closed)
  BY <1>2 DEF IInv, Conn, RawHolds
<1>7. captureLost' \in BOOLEAN /\ target' \in [Activations -> Cells] /\ outbound' \subseteq Activations
  BY <1>2 DEF IInv, Types
<1> QED
  BY <1>1, <1>2, <1>3, <1>4, <1>5, <1>6, <1>7, OperationStep

\* cancel-operation: the table is what #finish makes of it.
LEMMA CancelStep == ASSUME IInv, NEW o \in Ops, Cancel(o) PROVE IInv'
<1> DEFINE t == Finish(ops, Run(o), "cancelled", FALSE)
<1>1. /\ Commit(t, Fatal(Run(o), "cancelled", FALSE), outbound)
      /\ pc' = PcAfter(t, pc) /\ gen' = GenAfter(t)
      /\ UNCHANGED <<captureLost, reestablish, acq, rawTask, target, outbound, world>>
  BY DEF Cancel
<1>2. Run(o) \in Activations /\ "cancelled" \in Outcomes
  BY Names DEF Outcomes
<1>3. TableInv(t, NextPc(ops, t, pc))
  BY <1>2, FinishKeeps DEF IInv
<1>4. /\ closed \/ captureLost => \A a \in Activations : t.st[a] \in Ended
      /\ (\A a \in Activations : ops.st[a] # "live") => t = ops
  BY <1>2, FinishQuiet
<1> HIDE DEF t
<1>5. pc' = NextPc(ops, t, pc)
  BY <1>1 DEF NextPc, PcAfter
<1>6. RawBusy /\ ~closed => \A a \in Activations : t.st[a] # "live"
  BY <1>4 DEF IInv, Links
<1>7. acquirer \in Activations => pc'[acquirer] = "opening"
  BY <1>5, NextPcKeeps DEF IInv, Links, TableInv
<1>8. gen' \in [Activations -> Nat]
  BY <1>1 DEF IInv, Types, GenAfter
<1> QED
  BY <1>1, <1>3, <1>4, <1>5, <1>6, <1>7, <1>8, CommitStep

\* The wall bound of a cleanup: it ends, and with it the session.
LEMMA CleanupTimeoutStep == ASSUME IInv, NEW o \in Ops, CleanupTimeout(o) PROVE IInv'
<1> DEFINE t == Finish(ops, Cleanup(o), "cancelled", FALSE)
<1>1. /\ Commit(t, TRUE, outbound) /\ pc' = pc /\ gen' = gen
      /\ UNCHANGED <<captureLost, reestablish, acq, rawTask, target, outbound, world>>
  BY DEF CleanupTimeout, runs
<1>2. Cleanup(o) \in Activations /\ IsCleanup(Cleanup(o)) /\ "cancelled" \in Outcomes
  BY Names DEF Outcomes, IsCleanup, Cleanup
<1>3. TableInv(t, NextPc(ops, t, pc)) /\ NextPc(ops, t, pc) = pc
  BY <1>2, FinishKeeps DEF IInv
<1>4. /\ closed \/ captureLost => \A a \in Activations : t.st[a] \in Ended
      /\ (\A a \in Activations : ops.st[a] # "live") => t = ops
  BY <1>2, FinishQuiet
<1> HIDE DEF t
<1>5. /\ RawBusy /\ ~closed => \A a \in Activations : t.st[a] # "live"
      /\ acquirer \in Activations => pc'[acquirer] = "opening"
      /\ gen' \in [Activations -> Nat]
  BY <1>1, <1>4 DEF IInv, Links, Types
<1>6. TableInv(t, pc')
  BY <1>1, <1>3
<1> QED
  BY <1>1, <1>4, <1>5, <1>6, CommitStep

\* A disconnect of the table as it stands, as the client's or a refused connect's.
LEMMA DisconnectStep ==
    ASSUME IInv, Commit(ops, TRUE, outbound),
           UNCHANGED <<captureLost, reestablish, acq, rawTask, runs, outbound, world>>
    PROVE  IInv'
<1>1. pc' = pc /\ gen' = gen /\ UNCHANGED target
  BY DEF runs
<1>2. /\ TableInv(ops, pc')
      /\ closed \/ captureLost => \A a \in Activations : ops.st[a] \in Ended
      /\ RawBusy /\ ~closed => \A a \in Activations : ops.st[a] # "live"
      /\ acquirer \in Activations => pc'[acquirer] = "opening"
      /\ gen' \in [Activations -> Nat]
  BY <1>1 DEF IInv, Quiet, Links, Types
<1> HIDE DEF Commit
<1> QED
  BY <1>1, <1>2, CommitStep

\* An acknowledgment forgets, and changes nothing else.
LEMMA AcknowledgeStep == ASSUME IInv, NEW o \in Ops, Acknowledge(o) PROVE IInv'
<1>1. /\ ops' = [ops EXCEPT !.known = @ \ {o}] /\ pc' = pc
      /\ UNCHANGED <<shut, captureLost, reestablish, acq, rawTask, gen, target, outbound, world>>
  BY DEF Acknowledge, runs
<1>2. TableInv(ops', pc') /\ ops'.st = ops.st
  BY <1>1, AcknowledgeKeeps DEF IInv
<1>3. outbound' \subseteq Activations /\ (acquirer \in Activations => pc'[acquirer] = "opening")
  BY <1>1 DEF IInv, Types, Links
<1> QED
  BY <1>1, <1>2, <1>3, TableStep

\* A lost recording leaves nothing that lives.
LEMMA CaptureLossStep == ASSUME IInv, CaptureLoss PROVE IInv'
<1>1. /\ captureLost' = TRUE /\ ops' = RevokeAll(ops) /\ pc' = pc
      /\ UNCHANGED shut \/ (~closed /\ Shut(outbound))
      /\ UNCHANGED <<reestablish, acq, rawTask, gen, target, outbound, world>>
  BY DEF CaptureLoss, runs
<1>2. TableInv(ops', pc') /\ \A a \in Activations : ops'.st[a] \in Ended
  BY <1>1, RevokeAllKeeps DEF IInv
<1>3. Quiet'
  BY <1>2 DEF Quiet
<1>4. RawBusy /\ ~closed => \A a \in Activations : ops'.st[a] # "live"
  BY <1>2 DEF Ended
<1>5. /\ gen' \in [Activations -> Nat] /\ target' \in [Activations -> Cells]
      /\ outbound' \subseteq Activations /\ captureLost' \in BOOLEAN
      /\ acquirer \in Activations => pc'[acquirer] = "opening"
  BY <1>1 DEF IInv, Types, Links
<1> QED
  BY <1>1, <1>2, <1>3, <1>4, <1>5, OperationStep

-----------------------------------------------------------------------------
(* The steps of a #run.                                                      *)

\* A turn ends, with a result, a failure or a trap.
LEMMA TurnStep ==
    ASSUME IInv, NEW a \in Activations,
           TurnResult(a) \/ (\E e \in BOOLEAN : TurnFails(a, e)) \/ TurnTraps(a)
    PROVE  IInv'
<1>1. PICK x \in Outcomes, e \in BOOLEAN, f \in BOOLEAN :
        /\ pc[a] = "turn" /\ EndRun(a, x, e, f, outbound)
        /\ UNCHANGED <<captureLost, reestablish, acq, rawTask, target, outbound, world>>
  <2> USE DEF Outcomes
  <2>1. CASE TurnResult(a)
    BY <2>1 DEF TurnResult
  <2>2. CASE \E e \in BOOLEAN : TurnFails(a, e)
    BY <2>2 DEF TurnFails
  <2>3. CASE TurnTraps(a)
    BY <2>3 DEF TurnTraps
  <2> QED
    BY <2>1, <2>2, <2>3
<1>2. outbound' \subseteq Activations
  BY <1>1 DEF IInv, Types
<1> QED
  BY <1>1, <1>2, EndRunStep

\* A close that fails, or whose closer was revoked, ends the session.
LEMMA ClosedFailsStep == ASSUME IInv, NEW a \in Activations, Closed_Fails(a) PROVE IInv'
<1>1. /\ pc[a] = "closing" /\ EndRun(a, "failed", FALSE, TRUE, outbound)
      /\ UNCHANGED <<captureLost, reestablish, acq, rawTask, target, outbound, world>>
      /\ "failed" \in Outcomes
  BY DEF Closed_Fails, Outcomes
<1>2. outbound' \subseteq Activations
  BY <1>1 DEF IInv, Types
<1> QED
  BY <1>1, <1>2, EndRunStep

\* A #run goes on, and the table stays.
LEMMA GoesOn ==
    ASSUME IInv, NEW a \in Activations, pc[a] \in {"turn", "write"}, NEW s \in {"turn", "write"},
           pc' = [pc EXCEPT ![a] = s], outbound' \subseteq Activations,
           UNCHANGED <<shut, captureLost, reestablish, acq, rawTask, ops, gen, target, world>>
    PROVE  IInv'
<1>1. /\ s \in Stages \ {"none", "retired", "invalidating"}
      /\ pc[a] \notin {"none", "retired", "invalidating"}
  BY DEF Stages
<1>2. TableInv(ops, pc')
  BY <1>1, RestageKeeps DEF IInv
<1>3. TableInv(ops', pc') /\ ops'.st = ops.st
  BY <1>2
<1>4. acquirer \in Activations => pc'[acquirer] = "opening"
  BY DEF IInv, Links, TableInv, Staged
<1> QED
  BY <1>3, <1>4, TableStep

\* A write awaits its receipt.
LEMMA WriteStep == ASSUME IInv, NEW a \in Activations, Write(a) PROVE IInv'
<1>1. /\ pc[a] = "turn" /\ pc' = [pc EXCEPT ![a] = "write"] /\ outbound' = outbound \cup {a}
      /\ UNCHANGED <<shut, captureLost, reestablish, acq, rawTask, ops, gen, target, world>>
  BY DEF Write
<1>2. outbound' \subseteq Activations
  BY <1>1 DEF IInv, Types
<1> QED
  BY <1>1, <1>2, GoesOn

\* A receipt lets its run go on, or ends it.
LEMMA WriteSettlesStep ==
    ASSUME IInv, NEW a \in Activations, NEW y \in BOOLEAN, WriteSettles(a, y)
    PROVE  IInv'
<1>1. /\ pc[a] = "write" /\ outbound' = outbound \ {a}
      /\ UNCHANGED <<captureLost, reestablish, acq, rawTask, target, world>>
      /\ \/ pc' = [pc EXCEPT ![a] = "turn"] /\ UNCHANGED <<shut, ops, gen>>
         \/ EndRun(a, "failed", FALSE, FALSE, outbound \ {a})
  BY DEF WriteSettles
<1>2. outbound' \subseteq Activations /\ "failed" \in Outcomes
  BY <1>1 DEF IInv, Types, Outcomes
<1>3. CASE pc' = [pc EXCEPT ![a] = "turn"] /\ UNCHANGED <<shut, ops, gen>>
  BY <1>1, <1>2, <1>3, GoesOn
<1>4. CASE EndRun(a, "failed", FALSE, FALSE, outbound \ {a})
  BY <1>1, <1>2, <1>4, EndRunStep
<1> QED
  BY <1>1, <1>3, <1>4

\* The event of an invalidation takes the channel and a task.
LEMMA ClosedInvalidateStep == ASSUME IInv, NEW a \in Activations, Closed_Invalidate(a) PROVE IInv'
<1> DEFINE k == ops.tasks + 1
           w == Event(a)
<1>1. /\ pc[a] = "closing" /\ ops.st[a] = "live"
      /\ pc' = [pc EXCEPT ![a] = "invalidating"]
      /\ UNCHANGED <<shut, captureLost, reestablish, acq, rawTask, gen, target, outbound, world>>
  BY DEF Closed_Invalidate, Live
<1>2. TableInv(ops, pc) /\ ops.tasks \in Int
  BY DEF IInv, TableInv, Typed
<1>3. ops' = [ops EXCEPT !.owner = w, !.tasks = k]
  BY <1>2 DEF Closed_Invalidate, TableInv, Typed
<1>4. /\ w \in Owners
      /\ \A b \in Activations : ops.st[b] = "live" => w \in {b, Event(b)}
      /\ w # Nobody => \E b \in Activations : ops.st[b] = "live" /\ w \in {b, Event(b)}
  BY <1>1, <1>2, OwnerNames, OneLives DEF TableInv
<1>5. TableInv([ops EXCEPT !.owner = w, !.tasks = k], [pc EXCEPT ![a] = "invalidating"])
  <2> DEFINE s == "invalidating"
  <2>1. /\ pc[a] \notin {"none", "retired"} /\ s \in Stages \ {"none"}
        /\ k = ops.tasks - (IF s = "retired" THEN 1 ELSE 0) + (IF s = "invalidating" THEN 1 ELSE 0)
                         - (IF pc[a] = "invalidating" THEN 1 ELSE 0)
    BY <1>1, <1>2 DEF Stages
  <2> HIDE DEF k, w, s
  <2>2. TableInv([ops EXCEPT !.owner = w, !.tasks = k], [pc EXCEPT ![a] = s])
    BY <1>2, <1>4, <2>1, MoveKeeps
  <2> QED
    BY <2>2 DEF s
<1> HIDE DEF k, w
<1>6. \A b \in Activations : ops'.st[b] = ops.st[b]
  BY <1>2, <1>3 DEF TableInv, Typed
<1>7. TableInv(ops', pc')
  BY <1>1, <1>3, <1>5
<1>8. acquirer \in Activations => pc'[acquirer] = "opening"
  BY <1>1 DEF IInv, Links, TableInv, Staged
<1>9. outbound' \subseteq Activations
  BY <1>1 DEF IInv, Types
<1> QED
  BY <1>1, <1>6, <1>7, <1>8, <1>9, TableStep

\* The event gives channel and task back.
LEMMA InvalidatedStep == ASSUME IInv, NEW a \in Activations, Invalidated(a) PROVE IInv'
<1> DEFINE k == ops.tasks - 1
           w == a
<1>1. /\ pc[a] = "invalidating" /\ ops.st[a] = "live"
      /\ pc' = [pc EXCEPT ![a] = "turn"]
      /\ UNCHANGED <<shut, captureLost, reestablish, acq, rawTask, gen, target, outbound, world>>
  BY DEF Invalidated, EventLive
<1>2. TableInv(ops, pc) /\ ops.tasks \in Int
  BY DEF IInv, TableInv, Typed
<1>3. ops' = [ops EXCEPT !.owner = w, !.tasks = k]
  BY <1>2 DEF Invalidated, TableInv, Typed
<1>4. /\ w \in Owners
      /\ \A b \in Activations : ops.st[b] = "live" => w \in {b, Event(b)}
      /\ w # Nobody => \E b \in Activations : ops.st[b] = "live" /\ w \in {b, Event(b)}
  BY <1>1, <1>2, OwnerNames, OneLives DEF TableInv
<1>5. TableInv([ops EXCEPT !.owner = w, !.tasks = k], [pc EXCEPT ![a] = "turn"])
  <2> DEFINE s == "turn"
  <2>1. /\ pc[a] \notin {"none", "retired"} /\ s \in Stages \ {"none"}
        /\ k = ops.tasks - (IF s = "retired" THEN 1 ELSE 0) + (IF s = "invalidating" THEN 1 ELSE 0)
                         - (IF pc[a] = "invalidating" THEN 1 ELSE 0)
    BY <1>1, <1>2 DEF Stages
  <2> HIDE DEF k, w, s
  <2>2. TableInv([ops EXCEPT !.owner = w, !.tasks = k], [pc EXCEPT ![a] = s])
    BY <1>2, <1>4, <2>1, MoveKeeps
  <2> QED
    BY <2>2 DEF s
<1> HIDE DEF k, w
<1>6. \A b \in Activations : ops'.st[b] = ops.st[b]
  BY <1>2, <1>3 DEF TableInv, Typed
<1>7. TableInv(ops', pc')
  BY <1>1, <1>3, <1>5
<1>8. acquirer \in Activations => pc'[acquirer] = "opening"
  BY <1>1 DEF IInv, Links, TableInv, Staged
<1>9. outbound' \subseteq Activations
  BY <1>1 DEF IInv, Types
<1> QED
  BY <1>1, <1>6, <1>7, <1>8, <1>9, TableStep

\* The end of #run gives its task back.
LEMMA UnwindStep == ASSUME IInv, NEW a \in Activations, Unwind(a) PROVE IInv'
<1> DEFINE k == ops.tasks - 1
           w == ops.owner
<1>1. /\ pc[a] = "unwind"
      /\ pc' = [pc EXCEPT ![a] = "retired"]
      /\ UNCHANGED <<shut, captureLost, reestablish, acq, rawTask, gen, target, outbound, world>>
  BY DEF Unwind
<1>2. TableInv(ops, pc) /\ ops.tasks \in Int
  BY DEF IInv, TableInv, Typed
<1>3. ops' = [ops EXCEPT !.owner = w, !.tasks = k]
  BY <1>2 DEF Unwind, TableInv, Typed
<1>4. /\ w \in Owners
      /\ \A b \in Activations : ops.st[b] = "live" => w \in {b, Event(b)}
      /\ w # Nobody => \E b \in Activations : ops.st[b] = "live" /\ w \in {b, Event(b)}
  BY <1>2 DEF TableInv, Typed, Owned
<1>5. TableInv([ops EXCEPT !.owner = w, !.tasks = k], [pc EXCEPT ![a] = "retired"])
  <2> DEFINE s == "retired"
  <2>1. /\ pc[a] \notin {"none", "retired"} /\ s \in Stages \ {"none"}
        /\ k = ops.tasks - (IF s = "retired" THEN 1 ELSE 0) + (IF s = "invalidating" THEN 1 ELSE 0)
                         - (IF pc[a] = "invalidating" THEN 1 ELSE 0)
    BY <1>1, <1>2 DEF Stages
  <2> HIDE DEF k, w, s
  <2>2. TableInv([ops EXCEPT !.owner = w, !.tasks = k], [pc EXCEPT ![a] = s])
    BY <1>2, <1>4, <2>1, MoveKeeps
  <2> QED
    BY <2>2 DEF s
<1> HIDE DEF k, w
<1>6. \A b \in Activations : ops'.st[b] = ops.st[b]
  BY <1>2, <1>3 DEF TableInv, Typed
<1>7. TableInv(ops', pc')
  BY <1>1, <1>3, <1>5
<1>8. acquirer \in Activations => pc'[acquirer] = "opening"
  BY <1>1 DEF IInv, Links, TableInv, Staged
<1>9. outbound' \subseteq Activations
  BY <1>1 DEF IInv, Types
<1> QED
  BY <1>1, <1>6, <1>7, <1>8, <1>9, TableStep

\* The event was refused: its task is given back, the channel is its closer's again, and
\* the session ends.
LEMMA InvalidatedFailsStep == ASSUME IInv, NEW a \in Activations, Invalidated_Fails(a) PROVE IInv'
<1> DEFINE k == ops.tasks - 1
           w == IF ops.st[a] = "live" /\ ~closed THEN a ELSE ops.owner
           retired == [ops EXCEPT !.owner = w, !.tasks = k]
           p == [pc EXCEPT ![a] = "unwind"]
           t == Finish(retired, a, "failed", FALSE)
           n == NextPc(retired, t, p)
<1>1. TableInv(ops, pc) /\ ops.tasks \in Int
  BY DEF IInv, TableInv, Typed
<1>2. /\ pc[a] = "invalidating"
      /\ Commit(t, TRUE, outbound)
      /\ pc' = [PcAfter(t, pc) EXCEPT ![a] = "unwind"] /\ gen' = GenAfter(t)
      /\ UNCHANGED <<captureLost, reestablish, acq, rawTask, target, outbound, world>>
  <2>1. [ops EXCEPT !.tasks = @ - 1, !.owner = IF ops.st[a] = "live" /\ ~closed THEN a ELSE @] = retired
    BY <1>1 DEF TableInv, Typed
  <2> QED
    BY <2>1 DEF Invalidated_Fails
<1>3. /\ w \in Owners
      /\ \A b \in Activations : ops.st[b] = "live" => w \in {b, Event(b)}
      /\ w # Nobody => \E b \in Activations : ops.st[b] = "live" /\ w \in {b, Event(b)}
  <2>1. CASE ops.st[a] = "live" /\ ~closed
    BY <1>1, <2>1, OwnerNames, OneLives DEF TableInv
  <2>2. CASE ~(ops.st[a] = "live" /\ ~closed)
    BY <1>1, <2>2 DEF TableInv, Typed, Owned
  <2> QED
    BY <2>1, <2>2
<1>4. TableInv(retired, p)
  <2> DEFINE s == "unwind"
  <2>1. /\ pc[a] \notin {"none", "retired"} /\ s \in Stages \ {"none"}
        /\ k = ops.tasks - (IF s = "retired" THEN 1 ELSE 0) + (IF s = "invalidating" THEN 1 ELSE 0)
                         - (IF pc[a] = "invalidating" THEN 1 ELSE 0)
    BY <1>1, <1>2 DEF Stages
  <2> HIDE DEF k, w, s
  <2>2. TableInv([ops EXCEPT !.owner = w, !.tasks = k], [pc EXCEPT ![a] = s])
    BY <1>1, <1>3, <2>1, MoveKeeps
  <2> QED
    BY <2>2 DEF s
<1>5. retired.st = ops.st
  BY <1>1 DEF TableInv, Typed
<1> HIDE DEF retired
<1>6. TableInv(t, n)
  BY <1>4, FinishKeeps DEF Outcomes
<1>7. /\ closed \/ captureLost => \A b \in Activations : t.st[b] \in Ended
      /\ (\A b \in Activations : ops.st[b] # "live") => \A b \in Activations : t.st[b] # "live"
  <2>1. retired.st[a] # "live" => t = retired
    BY DEF Finish
  <2> QED
    BY <1>5, <2>1 DEF IInv, Quiet, Ended
<1> HIDE DEF t
<1>8. pc' = n
  <2>1. pc \in [Activations -> Stages] /\ (\A b \in Activations : pc[b] = "none" <=> ops.st[b] = "none")
    BY <1>1 DEF TableInv, Staged
  <2>2. ops.st[a] # "none"
    BY <1>2, <2>1
  <2> QED
    BY <1>2, <1>5, <2>1, <2>2 DEF NextPc, PcAfter
<1>9. gen' \in [Activations -> Nat]
  BY <1>2 DEF IInv, Types, GenAfter
<1>10. acquirer \in Activations => pc'[acquirer] = "opening"
  <2>1. acquirer \in Activations => p[acquirer] = "opening"
    BY <1>2 DEF IInv, Links, TableInv, Staged
  <2>2. Staged(retired, p)
    BY <1>4 DEF TableInv
  <2> HIDE DEF p
  <2> QED
    BY <1>8, <2>1, <2>2, NextPcKeeps
<1>11. RawBusy /\ ~closed => \A b \in Activations : t.st[b] # "live"
  BY <1>7 DEF IInv, Links
<1>12. TableInv(t, pc')
  BY <1>6, <1>8
<1> HIDE DEF n
<1> QED
  BY <1>2, <1>7, <1>9, <1>10, <1>11, <1>12, CommitStep
-----------------------------------------------------------------------------
(* The steps of the connections: the table and its stages stay, but for an   *)
(* activation that waits for a connection.                                   *)

\* What is known of the table stays where the table does.
LEMMA SameTable ==
    ASSUME IInv, UNCHANGED <<closed, captureLost, ops, pc>>
    PROVE  TableInv(ops', pc') /\ Quiet'
BY DEF IInv, Quiet

\* A client acquires where nothing is installed.
LEMMA ConnectStep == ASSUME IInv, Connect PROVE IInv'
<1> USE DEF Connect, shut, acq, rawTask, world, runs
<1>1. TableInv(ops', pc') /\ Quiet'
  BY SameTable
<1>2. Types'
  BY DEF IInv, Types
<1>3. Conn'
  BY OwnerNames DEF IInv, Conn, Acquiring, RawHolds, RawBusy, Leased, Closing, Unopened, Gone,
         ConnectionsAccounted
<1>4. Links'
  BY OwnerNames DEF IInv, Links, RawBusy
<1> QED
  BY <1>1, <1>2, <1>3, <1>4 DEF IInv

\* So does an activation, which waits for it.
LEMMA ReacquireStep == ASSUME IInv, NEW a \in Activations, Reacquire(a) PROVE IInv'
<1> USE DEF Reacquire, shut, acq, rawTask, world, runs
<1>1. TableInv(ops', pc')
  <2>1. /\ "opening" \in Stages \ {"none", "retired", "invalidating"}
        /\ pc[a] \notin {"none", "retired", "invalidating"}
    BY DEF Stages
  <2>2. TableInv(ops, pc')
    BY <2>1, RestageKeeps DEF IInv
  <2> QED
    BY <2>2
<1>2. Quiet'
  BY DEF IInv, Quiet
<1>3. Types'
  BY DEF IInv, Types
<1>4. Conn'
  BY OwnerNames DEF IInv, Conn, Acquiring, RawHolds, RawBusy, Leased, Closing, Unopened, Gone,
         ConnectionsAccounted
<1>5. Links'
  BY DEF IInv, Links, RawBusy, TableInv, Staged
<1> QED
  BY <1>1, <1>2, <1>3, <1>4, <1>5 DEF IInv

\* What the platform opened is its acquirer's, or is disposed of.
LEMMA AcqOpenedStep == ASSUME IInv, NEW c \in Connections, Acq_Opened(c) PROVE IInv'
<1> USE DEF Acq_Opened, rawTask, runs
<1>1. TableInv(ops', pc') /\ Quiet'
  BY SameTable
<1>2. Types'
  BY DEF IInv, Types, Cells
<1>3. Conn'
  <2> USE NoConnectionIsNone DEF IInv, Conn, Types, Gone
  <2>1. Acquiring'
    BY DEF Acquiring, Unopened
  <2>2. RawHolds'
    BY DEF RawHolds, RawBusy
  <2>3. Leased'
    BY DEF Leased, Acquiring
  <2>4. Closing'
    BY DEF Closing
  <2>5. Unopened'
    BY DEF Unopened
  <2>6. ConnectionsAccounted'
    BY DEF ConnectionsAccounted, Acquiring
  <2> QED
    BY <2>1, <2>2, <2>3, <2>4, <2>5, <2>6
<1>4. Links'
  BY DEF IInv, Links, RawBusy
<1> QED
  BY <1>1, <1>2, <1>3, <1>4 DEF IInv

\* What was opened before a refusal is disposed of.
LEMMA AcqRefusedStep == ASSUME IInv, Acq_Refused PROVE IInv'
<1> USE DEF Acq_Refused, rawTask, runs, world
<1>1. TableInv(ops', pc') /\ Quiet'
  BY SameTable
<1>2. Types'
  BY SomeIs DEF IInv, Types, Cells
<1>3. Conn'
  <2> USE NoConnectionIsNone, SomeIs DEF IInv, Conn, Types, Gone
  <2>1. Acquiring'
    BY DEF Acquiring
  <2>2. RawHolds'
    BY DEF RawHolds, RawBusy
  <2>3. Leased'
    BY DEF Leased, Acquiring
  <2>4. Closing'
    BY DEF Closing
  <2>5. Unopened'
    BY DEF Unopened
  <2>6. ConnectionsAccounted'
    BY DEF ConnectionsAccounted, Acquiring
  <2> QED
    BY <2>1, <2>2, <2>3, <2>4, <2>5, <2>6
<1>4. Links'
  BY DEF IInv, Links, RawBusy
<1> QED
  BY <1>1, <1>2, <1>3, <1>4 DEF IInv

\* A lease that comes too late is disposed of with its connection.
LEMMA AcqLateStep == ASSUME IInv, Acq_Late PROVE IInv'
<1> USE DEF Acq_Late, rawTask, runs
<1>1. TableInv(ops', pc') /\ Quiet'
  BY SameTable
<1>2. acqConn \in Connections /\ acqConn # NoConnection
  BY DEF IInv, Conn, Types, Cells, Acquiring
<1>3. Types'
  BY <1>2 DEF IInv, Types
<1>4. Conn'
  <2> USE <1>2, NoConnectionIsNone DEF IInv, Conn, Types, Gone
  <2>1. Acquiring'
    BY DEF Acquiring
  <2>2. RawHolds'
    BY DEF RawHolds, RawBusy
  <2>3. Leased'
    BY DEF Leased, Acquiring
  <2>4. Closing'
    BY DEF Closing
  <2>5. Unopened'
    BY DEF Unopened
  <2>6. ConnectionsAccounted'
    BY DEF ConnectionsAccounted, Acquiring
  <2> QED
    BY <2>1, <2>2, <2>3, <2>4, <2>5, <2>6
<1>5. Links'
  BY DEF IInv, Links, RawBusy
<1> QED
  BY <1>1, <1>3, <1>4, <1>5 DEF IInv

\* A lease that comes in time is installed where nothing is: no raw terminal is busy then.
LEMMA AcqInstalledStep == ASSUME IInv, Acq_Installed PROVE IInv'
<1> USE DEF Acq_Installed, rawTask, MayAcquire
<1>1. acqConn \in Connections /\ acqConn # NoConnection /\ ~closed
  BY DEF IInv, Conn, Types, Cells, Acquiring
<1>2. acquirer # Client => acquirer \in Activations /\ pc[acquirer] = "opening"
  BY DEF IInv, Conn, Types, Acquiring, Links
<1>3. TableInv(ops', pc')
  <2>1. CASE acquirer = Client
    BY <2>1 DEF IInv
  <2>2. CASE acquirer # Client
    <3>1. "turn" \in Stages \ {"none", "retired", "invalidating"}
      BY DEF Stages
    <3>2. pc[acquirer] \notin {"none", "retired", "invalidating"} /\ acquirer \in Activations
      BY <1>2, <2>2
    <3>3. TableInv(ops, [pc EXCEPT ![acquirer] = "turn"])
      BY <3>1, <3>2, RestageKeeps DEF IInv
    <3> QED
      BY <2>2, <3>3
  <2> QED
    BY <2>1, <2>2
<1>4. Quiet'
  BY DEF IInv, Quiet
<1>5. ~RawBusy
  BY <1>1 DEF IInv, Conn, Acquiring, RawHolds
<1>6. Types'
  <2>1. gen' \in [Activations -> Nat] /\ generation' \in Nat
    BY <1>2 DEF IInv, Types
  <2>2. reestablish' \in BOOLEAN
    BY DEF IInv, Types
  <2> QED
    BY <1>1, <2>1, <2>2 DEF IInv, Types, Cells
<1>7. Conn'
  <2> USE <1>1, <1>5, NoConnectionIsNone DEF IInv, Conn, Types, Gone
  <2>1. Acquiring'
    BY OwnerNames DEF Acquiring
  <2>2. RawHolds'
    BY DEF RawHolds, RawBusy
  <2>3. Leased'
    BY DEF Leased, Acquiring
  <2>4. Closing'
    BY DEF Closing
  <2>5. Unopened'
    BY DEF Unopened
  <2>6. ConnectionsAccounted'
    BY DEF ConnectionsAccounted, Acquiring
  <2> QED
    BY <2>1, <2>2, <2>3, <2>4, <2>5, <2>6
<1>8. Links'
  BY <1>5, OwnerNames DEF IInv, Links, RawBusy
<1> QED
  BY <1>3, <1>4, <1>6, <1>7, <1>8 DEF IInv
\* The acquirer that was refused disconnects or fails.
LEMMA AcqUndoneStep == ASSUME IInv, Acq_Undone PROVE IInv'
<1>1. GivenBack /\ UNCHANGED <<captureLost, reestablish, rawTask, target, outbound, world>>
  BY DEF Acq_Undone, GivenBack
<1>2. /\ captureLost' \in BOOLEAN /\ target' \in [Activations -> Cells] /\ outbound' \subseteq Activations
      /\ acquirer' \notin Activations
      /\ UNCHANGED <<reestablish, rawTask, world>>
  BY <1>1, OwnerNames DEF IInv, Types, GivenBack
<1>3. CASE acquirer = Client
  <2>1. Commit(ops, TRUE, outbound) /\ pc' = pc /\ gen' = gen
    BY <1>3 DEF Acq_Undone
  <2>2. /\ TableInv(ops', pc) /\ Quiet'
        /\ \A a \in Activations : ops'.st[a] = "live" => ops.st[a] = "live"
        /\ UNCHANGED shut \/ (~closed /\ Shut(outbound))
    BY <1>1, <2>1, CommitKeeps DEF IInv, Quiet
  <2>3. gen' \in [Activations -> Nat] /\ TableInv(ops', pc')
    BY <2>1, <2>2 DEF IInv, Types
  <2>4. RawBusy /\ ~closed => \A a \in Activations : ops'.st[a] # "live"
    BY <2>2 DEF IInv, Links
  <2> QED
    BY <1>1, <1>2, <2>2, <2>3, <2>4, SessionStep
<1>4. CASE acquirer # Client
  <2>1. EndRun(acquirer, "failed", FALSE, FALSE, outbound)
    BY <1>4 DEF Acq_Undone
  <2>2. acquirer \in Activations /\ pc[acquirer] = "opening" /\ "failed" \in Outcomes
    BY <1>1, <1>4 DEF IInv, Conn, Types, Acquiring, Links, GivenBack, Outcomes
  <2>3. pc[acquirer] \notin {"none", "retired", "invalidating"} /\ UNCHANGED captureLost
    BY <1>1, <2>2
  <2>4. /\ TableInv(ops', pc') /\ Quiet'
        /\ gen' \in [Activations -> Nat]
        /\ (\A b \in Activations : ops.st[b] # "live") => \A b \in Activations : ops'.st[b] # "live"
        /\ UNCHANGED shut \/ (~closed /\ Shut(outbound))
    BY <2>1, <2>2, <2>3, EndRunKeeps
  <2>5. RawBusy /\ ~closed => \A b \in Activations : ops'.st[b] # "live"
    BY <2>4 DEF IInv, Links
  <2> QED
    BY <1>1, <1>2, <2>4, <2>5, SessionStep
<1> QED
  BY <1>3, <1>4

-----------------------------------------------------------------------------
(* The steps of the raw terminal, the disconnect and the platform.           *)

\* A raw terminal opens where nothing lives, so nobody owns the channel.
LEMMA RawOpenStep == ASSUME IInv, RawOpen PROVE IInv'
<1> USE DEF RawOpen, acq, runs, world
<1>1. connection \in Connections /\ connection # NoConnection /\ ~closed
  BY DEF IInv, Types, Cells
<1>2. \A a \in Activations : ops.st[a] # "live"
  <2> SUFFICES ASSUME NEW a \in Activations, ops.st[a] = "live" PROVE FALSE
    OBVIOUS
  <2> DEFINE o == OpOf(a)
  <2>1. /\ o \in Ops /\ (a = Run(o) \/ a = Cleanup(o))
        /\ Run(o) \in Activations /\ Cleanup(o) \in Activations
    BY Names
  <2> HIDE DEF o
  <2>2. ops.st[Run(o)] \in {"live", "revoked"}
    BY <2>1 DEF IInv, TableInv, Lives
  <2>3. ops.result[o] = "none"
    BY <2>1, <2>2 DEF IInv, TableInv, Lives
  <2>4. o \in Active
    BY <2>1, <2>2, <2>3 DEF Active
  <2> QED
    BY <2>4
<1>3. TableInv(ops', pc') /\ ops'.st = ops.st
  <2>1. ops.owner = Nobody
    BY <1>2 DEF IInv, TableInv, Owned
  <2>2. ops' = ops
    BY <2>1 DEF IInv, TableInv, Typed
  <2> QED
    BY <2>2 DEF IInv
<1>4. Quiet'
  BY <1>3 DEF IInv, Quiet
<1>5. Types'
  BY <1>1 DEF IInv, Types, Cells
<1>6. Conn'
  <2> USE <1>1, NoConnectionIsNone DEF IInv, Conn, Types, Gone
  <2>1. Acquiring'
    BY DEF Acquiring
  <2>2. RawHolds'
    BY DEF RawHolds, RawBusy
  <2>3. Leased'
    BY DEF Leased
  <2>4. Closing'
    BY DEF Closing
  <2>5. Unopened'
    BY DEF Unopened
  <2>6. ConnectionsAccounted'
    BY DEF ConnectionsAccounted, RawHolds, RawBusy
  <2> QED
    BY <2>1, <2>2, <2>3, <2>4, <2>5, <2>6
<1>7. Links'
  BY <1>2, <1>3 DEF IInv, Links
<1> QED
  BY <1>3, <1>4, <1>5, <1>6, <1>7 DEF IInv

\* The raw terminal's own task, and its exit.
LEMMA RawTaskStep == ASSUME IInv, RawStep \/ Raw_Exit PROVE IInv'
<1> USE DEF shut, acq, runs, world
<1>1. TableInv(ops', pc') /\ Quiet'
  <2>1. UNCHANGED <<closed, captureLost, ops, pc>>
    BY DEF RawStep, Raw_Invalidated, Raw_InvalidationFails, Raw_Released, Raw_Granted, Raw_Refused,
           Raw_Installed, Raw_Undone, Raw_Exit
  <2> QED
    BY <2>1, SameTable
<1>2. Links'
  BY DEF IInv, Links, RawBusy, RawStep, Raw_Invalidated, Raw_InvalidationFails, Raw_Released, Raw_Granted,
         Raw_Refused, Raw_Installed, Raw_Undone, Raw_Exit
<1>3. rawStage # "idle" => rawConn \in Connections
  BY DEF IInv, Conn, RawHolds, Types, Cells
<1>4. Types'
  <2> USE <1>3 DEF IInv, Types, Cells
  <2>1. CASE Raw_Invalidated \/ Raw_InvalidationFails \/ Raw_Undone
    BY <2>1 DEF Raw_Invalidated, Raw_InvalidationFails, Raw_Undone
  <2>2. CASE Raw_Released \/ Raw_Granted
    BY <2>2 DEF Raw_Released, Raw_Granted
  <2>3. CASE Raw_Refused
    BY <2>3 DEF Raw_Refused
  <2>4. CASE Raw_Installed
    BY <2>4 DEF Raw_Installed
  <2>5. CASE Raw_Exit
    <3>1. rawStage = "open" /\ rawConn \in Connections
      BY <2>5 DEF Raw_Exit, Conn, RawHolds
    <3>2. /\ terminal' = FALSE /\ lease' = NoConnection /\ connection' = NoConnection
          /\ generation' = generation + 1 /\ disposing' = disposing \cup {rawConn} /\ rawStage' = "undoing"
          /\ UNCHANGED <<closed, disc, discConn, captureLost, reestablish, acq, rawConn, ops, runs,
                         outbound, world>>
      BY <2>5 DEF Raw_Exit
    <3>3. generation' \in Nat
      BY <3>2
    <3>4. disposing' \subseteq Connections
      BY <3>1, <3>2
    <3>5. terminal' \in BOOLEAN
      BY <3>2
    <3> QED
      BY <3>2, <3>3, <3>4, <3>5
  <2> QED
    BY <2>1, <2>2, <2>3, <2>4, <2>5 DEF RawStep
<1>5. Conn'
  <2> USE <1>3, NoConnectionIsNone
      DEF IInv, Conn, Types, Gone, Acquiring, RawHolds, RawBusy, Leased, Closing, Unopened,
          ConnectionsAccounted
  <2>1. CASE Raw_Invalidated
    BY <2>1 DEF Raw_Invalidated
  <2>2. CASE Raw_InvalidationFails
    BY <2>2 DEF Raw_InvalidationFails
  <2>3. CASE Raw_Released
    BY <2>3 DEF Raw_Released
  <2>4. CASE Raw_Granted
    BY <2>4 DEF Raw_Granted
  <2>5. CASE Raw_Refused
    BY <2>5 DEF Raw_Refused
  <2>6. CASE Raw_Installed
    BY <2>6 DEF Raw_Installed
  <2>7. CASE Raw_Undone
    BY <2>7 DEF Raw_Undone
  <2>8. CASE Raw_Exit
    BY <2>8 DEF Raw_Exit
  <2> QED
    BY <2>1, <2>2, <2>3, <2>4, <2>5, <2>6, <2>7, <2>8 DEF RawStep
<1> QED
  BY <1>1, <1>2, <1>4, <1>5 DEF IInv

\* The rest of the disconnect.
LEMMA DisconnectTaskStep == ASSUME IInv, Disc_Disposed \/ Disc_Done PROVE IInv'
<1> USE DEF Disc_Disposed, Disc_Done, acq, rawTask, runs, world
<1>1. TableInv(ops', pc') /\ Quiet'
  BY SameTable
<1>2. Types'
  BY DEF IInv, Types, Cells
<1>3. Conn'
  BY NoConnectionIsNone
     DEF IInv, Conn, Types, Gone, Acquiring, RawHolds, RawBusy, Leased, Closing, Unopened,
          ConnectionsAccounted
<1>4. Links'
  BY DEF IInv, Links, RawBusy
<1> QED
  BY <1>1, <1>2, <1>3, <1>4 DEF IInv

\* The platform closes what it was given, which nobody leases.
LEMMA DisposeStep == ASSUME IInv, NEW c \in Connections, Dispose(c) PROVE IInv'
<1> USE DEF Dispose, acq, rawTask, runs
<1>1. TableInv(ops', pc') /\ Quiet'
  BY SameTable
<1>2. Types'
  BY DEF IInv, Types, Cells
<1>3. Conn'
  <2> USE NoConnectionIsNone DEF IInv, Conn, Types, Gone
  <2>1. Acquiring'
    BY DEF Acquiring, Cells
  <2>2. RawHolds'
    BY DEF RawHolds, RawBusy, Cells
  <2>3. Leased'
    BY DEF Leased, Cells
  <2>4. Closing'
    BY DEF Closing, Cells
  <2>5. Unopened'
    BY DEF Unopened
  <2>6. ConnectionsAccounted'
    BY DEF ConnectionsAccounted
  <2> QED
    BY <2>1, <2>2, <2>3, <2>4, <2>5, <2>6
<1>4. Links'
  BY DEF IInv, Links, RawBusy
<1> QED
  BY <1>1, <1>2, <1>3, <1>4 DEF IInv
\* #closeConnection disposes of the installed connection; no raw terminal is busy then.
LEMMA CloseStep == ASSUME IInv, NEW a \in Activations, Close(a) PROVE IInv'
<1> USE DEF Close, acq, rawTask, world
<1>1. connection \in Connections /\ connection # NoConnection /\ ops.st[a] = "live" /\ ~closed
  BY DEF IInv, Types, Cells, Connected, Live
<1>2. ~RawBusy
  BY <1>1 DEF IInv, Links
<1>3. TableInv(ops', pc')
  <2>1. /\ "closing" \in Stages \ {"none", "retired", "invalidating"}
        /\ pc[a] \notin {"none", "retired", "invalidating"}
    BY DEF Stages
  <2>2. TableInv(ops, pc')
    BY <2>1, RestageKeeps DEF IInv
  <2> QED
    BY <2>2
<1>4. Quiet'
  BY DEF IInv, Quiet
<1>5. Types'
  <2>1. gen' \in [Activations -> Nat] /\ target' \in [Activations -> Cells] /\ generation' \in Nat
    BY DEF IInv, Types
  <2> QED
    BY <1>1, <2>1 DEF IInv, Types, Cells
<1>6. Conn'
  <2> USE <1>1, <1>2, NoConnectionIsNone DEF IInv, Conn, Types, Gone
  <2>1. Acquiring'
    BY DEF Acquiring
  <2>2. RawHolds'
    BY DEF RawHolds, RawBusy
  <2>3. Leased'
    BY DEF Leased
  <2>4. Closing'
    BY DEF Closing
  <2>5. Unopened'
    BY DEF Unopened
  <2>6. ConnectionsAccounted'
    BY DEF ConnectionsAccounted, RawHolds, RawBusy
  <2> QED
    BY <2>1, <2>2, <2>3, <2>4, <2>5, <2>6
<1>7. Links'
  BY <1>2 DEF IInv, Links, RawBusy, TableInv, Staged
<1> QED
  BY <1>3, <1>4, <1>5, <1>6, <1>7 DEF IInv

-----------------------------------------------------------------------------
(* The theorems.                                                             *)

\* The invariant holds at first,
LEMMA InitIInv == Init => IInv
<1> SUFFICES ASSUME Init PROVE IInv
  OBVIOUS
<1>1. Types
  BY DEF Init, Types, Cells
<1>2. /\ ops = [st |-> [a \in Activations |-> "none"], owner |-> Nobody, withheld |-> {},
                wanted |-> [o \in Ops |-> "none"], tasks |-> 0, timers |-> 0, known |-> {},
                result |-> [o \in Ops |-> "none"], ends |-> [o \in Ops |-> 0]]
      /\ pc = [a \in Activations |-> "none"]
  BY DEF Init
<1>3. /\ Typed(ops) /\ ops.st = [a \in Activations |-> "none"] /\ ops.owner = Nobody
      /\ ops.withheld = {} /\ ops.tasks = 0 /\ ops.timers = 0
      /\ ops.result = [o \in Ops |-> "none"] /\ ops.ends = [o \in Ops |-> 0]
  BY <1>2, OwnerNames DEF Typed, States, Results
<1>4. TableInv(ops, pc)
  <2>1. Lives(ops)
    BY <1>3, Names DEF Lives
  <2>2. Owned(ops)
    BY <1>3 DEF Owned
  <2>3. Staged(ops, pc)
    BY <1>2, <1>3 DEF Staged, Stages
  <2>4. Begun(pc) = {} /\ Invalidating(pc) = {} /\ Cleaning(ops) = {}
    BY <1>2, <1>3, Names DEF Begun, Invalidating, Cleaning
  <2>5. Accounts(ops, pc)
    BY <1>3, <2>4, FS_EmptySet DEF Accounts
  <2> QED
    BY <1>3, <2>1, <2>2, <2>3, <2>5 DEF TableInv
<1>5. Quiet
  BY <1>3 DEF Quiet, Ended
<1>6. Conn
  BY NoConnectionIsNone DEF Init, Conn, Acquiring, RawHolds, RawBusy, Leased, Closing, Unopened, Gone,
     ConnectionsAccounted
<1>7. Links
  BY OwnerNames DEF Init, Links, RawBusy
<1> QED
  BY <1>1, <1>4, <1>5, <1>6, <1>7 DEF IInv

\* and each step keeps it.
LEMMA StepIInv == IInv /\ [Next]_vars => IInv'
<1> SUFFICES ASSUME IInv, [Next]_vars PROVE IInv'
  OBVIOUS
<1>1. ASSUME NEW o \in Ops, Start(o) \/ Cancel(o) \/ Acknowledge(o) \/ CleanupTimeout(o)
      PROVE  IInv'
  BY <1>1, StartStep, CancelStep, AcknowledgeStep, CleanupTimeoutStep
<1>2. CASE Disconnect
  BY <1>2, DisconnectStep DEF Disconnect
<1>3. CASE CaptureLoss
  BY <1>3, CaptureLossStep
<1>4. CASE Connect
  BY <1>4, ConnectStep
<1>5. CASE Connect_Refused
  BY <1>5, DisconnectStep DEF Connect_Refused
<1>6. ASSUME NEW a \in Activations, RunStep(a)
      PROVE  IInv'
  <2>1. CASE TurnResult(a) \/ (\E e \in BOOLEAN : TurnFails(a, e)) \/ TurnTraps(a)
    BY <2>1, TurnStep
  <2>2. CASE Write(a)
    BY <2>2, WriteStep
  <2>3. CASE \E y \in BOOLEAN : WriteSettles(a, y)
    BY <2>3, WriteSettlesStep
  <2>4. CASE Close(a)
    BY <2>4, CloseStep
  <2>5. CASE Closed_Invalidate(a)
    BY <2>5, ClosedInvalidateStep
  <2>6. CASE Closed_Fails(a)
    BY <2>6, ClosedFailsStep
  <2>7. CASE Invalidated(a)
    BY <2>7, InvalidatedStep
  <2>8. CASE Invalidated_Fails(a)
    BY <2>8, InvalidatedFailsStep
  <2>9. CASE Reacquire(a)
    BY <2>9, ReacquireStep
  <2>10. CASE Unwind(a)
    BY <2>10, UnwindStep
  <2> QED
    BY <1>6, <2>1, <2>2, <2>3, <2>4, <2>5, <2>6, <2>7, <2>8, <2>9, <2>10 DEF RunStep
<1>7. CASE AcqStep
  BY <1>7, AcqOpenedStep, AcqRefusedStep, AcqInstalledStep, AcqLateStep, AcqUndoneStep DEF AcqStep
<1>8. CASE RawOpen
  BY <1>8, RawOpenStep
<1>9. CASE RawStep \/ Raw_Exit
  BY <1>9, RawTaskStep
<1>10. CASE Disc_Disposed \/ Disc_Done
  BY <1>10, DisconnectTaskStep
<1>11. ASSUME NEW c \in Connections, Dispose(c)
       PROVE  IInv'
  BY <1>11, DisposeStep
<1>12. CASE UNCHANGED vars
  <2>1. TableInv(ops', pc') /\ \A a \in Activations : ops'.st[a] = ops.st[a]
    BY <1>12 DEF IInv, vars, runs
  <2>2. /\ UNCHANGED <<shut, captureLost, reestablish, acq, rawTask, gen, target, world>>
        /\ outbound' \subseteq Activations
        /\ acquirer \in Activations => pc'[acquirer] = "opening"
    BY <1>12 DEF IInv, Types, Links, vars, runs
  <2> QED
    BY <2>1, <2>2, TableStep
<1> QED
  BY <1>1, <1>2, <1>3, <1>4, <1>5, <1>6, <1>7, <1>8, <1>9, <1>10, <1>11, <1>12 DEF Next

\* The invariant of the session, for any operations, connections and limits.
THEOREM SessionInvariant == Spec => []IInv
BY InitIInv, StepIInv, PTL DEF Spec

\* The accounts count sets, so they are not negative.
LEMMA IInvTypeOK == IInv => TypeOK
<1> SUFFICES ASSUME IInv PROVE TypeOK
  OBVIOUS
<1>1. ops \in TableType
  <2>1. Typed(ops) /\ Accounts(ops, pc)
    BY DEF IInv, TableInv
  <2>2. ops.tasks \in Nat /\ ops.timers \in Nat
    <3>1. /\ Cardinality(Begun(pc)) \in Nat /\ Cardinality(Invalidating(pc)) \in Nat
          /\ Cardinality(ops.withheld) \in Nat /\ Cardinality(Cleaning(ops)) \in Nat
      BY <2>1, Finite DEF Begun, Invalidating, Cleaning, Typed
    <3> QED
      BY <2>1, <3>1 DEF Accounts
  <2> QED
    BY <2>1, <2>2 DEF Typed, TableType, States, Owners, Results
<1>2. pc \in [Activations -> {"none", "turn", "write", "closing", "invalidating", "opening",
                               "unwind", "retired"}]
  BY DEF IInv, TableInv, Staged, Stages
<1>3. Types
  BY DEF IInv
<1> QED
  BY <1>1, <1>2, <1>3 DEF TypeOK, Types, Cells

\* The type of the state: no account ever becomes negative.
THEOREM SessionTypeOK == Spec => []TypeOK
BY SessionInvariant, IInvTypeOK, PTL

\* The channel is owned by the activation that is unfinished, or by its event, or by
\* nobody where all are.
THEOREM SessionOwner == Spec => []OwnerExact
<1>1. IInv => OwnerExact
  BY DEF IInv, TableInv, Owned, OwnerExact
<1> QED
  BY <1>1, SessionInvariant, PTL

\* #tasks and #cleanupTimers are what the stages and the table say.
THEOREM SessionAccounts == Spec => []AccountsExact
<1>1. IInv => AccountsExact
  BY DEF IInv, TableInv, Accounts, Begun, Invalidating, Cleaning, AccountsExact
<1> QED
  BY <1>1, SessionInvariant, PTL

\* One end for each operation, and none is owed by a closed session.
THEOREM SessionOneResult == Spec => []OneResult
<1>1. IInv => OneResult
  <2> SUFFICES ASSUME IInv, NEW o \in Ops
               PROVE  /\ ops.ends[o] = IF ops.result[o] = "none" THEN 0 ELSE 1
                      /\ closed /\ ops.st[Run(o)] # "none" => ops.result[o] # "none"
    BY DEF OneResult
  <2>1. ops.ends[o] = IF ops.result[o] = "none" THEN 0 ELSE 1
    BY DEF IInv, TableInv, Lives
  <2>2. closed => ops.st[Run(o)] \in Ended
    BY Names DEF IInv, Quiet
  <2>3. ops.st[Run(o)] = "finished" => ops.result[o] # "none"
    BY DEF IInv, TableInv, Lives
  <2> QED
    BY <2>1, <2>2, <2>3 DEF Ended
<1> QED
  BY <1>1, SessionInvariant, PTL

\* No connection that the platform opened is lost sight of.
THEOREM SessionConnections == Spec => []ConnectionsAccounted
<1>1. IInv => ConnectionsAccounted
  BY DEF IInv, Conn
<1> QED
  BY <1>1, SessionInvariant, PTL

\* Who writes owns the channel, on the one connection whose lease is the protocol's.
THEOREM SessionWriteAuthority == Spec => WriteAuthority
<1>1. IInv /\ [Next]_vars => WriteAuthorityStep
  <2> SUFFICES ASSUME IInv, [Next]_vars, NEW a \in outbound' \ outbound
               PROVE  /\ outbound = {}
                      /\ ops.st[a] = "live" /\ ops.owner = a /\ ~closed
                      /\ platform[connection] = "open" /\ held[connection] = "protocol"
                      /\ connection \notin disposing /\ rawConn # connection
    BY DEF WriteAuthorityStep
  <2>1. a \in Activations /\ Write(a)
    BY DEF Next, Start, Cancel, Acknowledge, CleanupTimeout, Disconnect, CaptureLoss, Connect, Connect_Refused,
           RunStep, TurnResult, TurnFails, TurnTraps, Write, WriteSettles, Close, Closed_Invalidate,
           Closed_Fails, Invalidated, Invalidated_Fails, Reacquire, Unwind, AcqStep, Acq_Opened, Acq_Refused,
           Acq_Installed, Acq_Late, Acq_Undone, RawOpen, RawStep, Raw_Invalidated, Raw_InvalidationFails,
           Raw_Released, Raw_Granted, Raw_Refused, Raw_Installed, Raw_Undone, Raw_Exit, Disc_Disposed,
           Disc_Done, Dispose, vars
  <2>2. /\ outbound = {} /\ ops.st[a] = "live" /\ ops.owner = a /\ ~closed
        /\ lease # NoConnection /\ ~terminal
    BY <2>1 DEF Write, Live, Connected
  <2> QED
    BY <2>2 DEF IInv, Conn, Leased
<1> QED
  BY <1>1, SessionInvariant, PTL DEF Spec, WriteAuthority
=============================================================================
