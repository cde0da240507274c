------------------------- MODULE SessionBoundaryProofs -------------------------
(***************************************************************************)
(* Proofs about what the session keeps apart and what lies between it and  *)
(* its clients: OperationLocks, and the calls (SessionRpc), the leases     *)
(* (SessionClients) and the results (OperationResults) of                  *)
(* ClientBoundaryMC, for any sets of activations, calls, clients and       *)
(* operations and any limits.                                              *)
(*                                                                         *)
(* Locks: that a waiter has a reason is kept by a release because the scan *)
(* grants every waiter without one, and that a granted waiter gets ALL its *)
(* locks rests on two granted waiters never asking for the same lock,      *)
(* which the total order in TypeOK gives.                                  *)
(*                                                                         *)
(* Calls: the requests and the answers of a subscription pass in order, so *)
(* the answer of a subscribe is taken before that of its unsubscribe.      *)
(*                                                                         *)
(* Leases: while one session is made the lists of the host are those that  *)
(* were accepted, and the session made misses only what changes meanwhile. *)
(*                                                                         *)
(* Results: an ended operation without a result was acknowledged early,    *)
(* or made room for another; the session knows no more operations than     *)
(* the retention holds, so there are no more of the second than the first. *)
(***************************************************************************)
EXTENDS OperationLocks, ClientBoundaryMC, FiniteSetTheorems, SequenceTheorems, TLAPS

IInv == TypeOK /\ LocksFollowActivation /\ NoStrandedWaiter

\* Owners are told apart by the activation and the part of it that owns.
LEMMA OwnersDistinct ==
    /\ \A a, b : Body(a) = Body(b) <=> a = b
    /\ \A a, b : Cleanup(a) = Cleanup(b) <=> a = b
    /\ \A a, b : Body(a) # Cleanup(b)
    /\ \A a : Body(a) # Free /\ Cleanup(a) # Free
    /\ Free \in Owners
    /\ \A a \in Activations : Body(a) \in Owners /\ Cleanup(a) \in Owners
BY DEF Body, Cleanup, Free, Owners

\* The scan grants waiters only, whose locks are free, and never two that overlap.
LEMMA GrantedDisjoint ==
    ASSUME TypeOK, NEW w \in SUBSET waiters, NEW o
    PROVE  /\ GrantedBy(w, o) \subseteq w
           /\ \A h \in GrantedBy(w, o) : AllFree(o, h)
           /\ \A g, h \in GrantedBy(w, o) : g # h => ~Overlap(g, h)
BY DEF TypeOK, GrantedBy, Overlap

\* What the locks are after a scan.
LEMMA HandedOwners ==
    ASSUME LocksAssumption, TypeOK, NEW w \in SUBSET waiters, NEW o, NEW l \in Locks
    PROVE  /\ \A h \in GrantedBy(w, o) : l \in LocksOf[h] => Handed(GrantedBy(w, o), o)[l] = Body(h)
           /\ (\A h \in GrantedBy(w, o) : l \notin LocksOf[h]) => Handed(GrantedBy(w, o), o)[l] = o[l]
<1> DEFINE granted == GrantedBy(w, o)
<1>1. \A g, h \in granted : l \in LocksOf[g] /\ l \in LocksOf[h] => g = h
  BY GrantedDisjoint DEF Overlap
<1> HIDE DEF granted
<1>2. Handed(granted, o)[l] = IF \E h \in granted : l \in LocksOf[h]
                              THEN Body(CHOOSE h \in granted : l \in LocksOf[h]) ELSE o[l]
  BY DEF Handed
<1>3. ASSUME NEW h \in granted, l \in LocksOf[h]
      PROVE  Handed(granted, o)[l] = Body(h)
  <2>1. (CHOOSE g \in granted : l \in LocksOf[g]) = h
    BY <1>1, <1>3
  <2> QED BY <1>2, <1>3, <2>1
<1> QED BY <1>2, <1>3 DEF granted

-----------------------------------------------------------------------------
\* A release by an activation that is not idle keeps the invariant, and hands a
\* lock a waiter still asks for only to a waiter before it.
LEMMA ReleasePreserves ==
    ASSUME LocksAssumption, IInv, ~closed, NEW a \in Activations, phase[a] # "idle",
           ReleaseLocks(a), UNCHANGED closed
    PROVE  IInv' /\ NoOvertakingStep
<1> DEFINE o == Freed(a)
           w == waiters \ {a}
           granted == GrantedBy(w, o)
<1>0. w \in SUBSET waiters
  OBVIOUS
<1>1. /\ granted \subseteq w
      /\ \A h \in granted : AllFree(o, h)
      /\ \A g, h \in granted : g # h => ~Overlap(g, h)
  BY <1>0, GrantedDisjoint DEF IInv
<1>2. /\ owner' = Handed(granted, o)
      /\ waiters' = w \ granted
      /\ ahead' = [h \in Handlers |-> ahead[h] \ (granted \cup {a})]
      /\ phase' = [b \in Activations |->
                      IF b \in granted THEN "granted" ELSE IF b = a THEN "idle" ELSE phase[b]]
  BY DEF ReleaseLocks
<1>3. \A h \in w \ granted : ~AllFree(o, h) \/ \E g \in w \cap ahead[h] : Overlap(g, h)
  BY DEF GrantedBy
<1>4. /\ DOMAIN owner' = Locks
      /\ \A l \in Locks : /\ \A h \in granted : l \in LocksOf[h] => owner'[l] = Body(h)
                          /\ (\A h \in granted : l \notin LocksOf[h]) => owner'[l] = o[l]
  <2>1. TypeOK
    BY DEF IInv
  <2>2. ASSUME NEW l \in Locks
        PROVE  /\ \A h \in granted : l \in LocksOf[h] => Handed(granted, o)[l] = Body(h)
               /\ (\A h \in granted : l \notin LocksOf[h]) => Handed(granted, o)[l] = o[l]
    <3>1. LocksAssumption /\ TypeOK /\ w \in SUBSET waiters /\ l \in Locks
      BY <1>0, <2>1, <2>2
    <3> HIDE DEF o, w
    <3> QED BY <3>1, HandedOwners DEF granted
  <2>3. DOMAIN Handed(granted, o) = Locks
    BY DEF Handed
  <2> HIDE DEF granted, o
  <2> QED BY <1>2, <2>2, <2>3
<1>4a. owner' = [l \in Locks |-> owner'[l]]
  BY <1>2 DEF Handed
<1>5. \A l \in Locks : o[l] = IF owner[l] \in {Body(a), Cleanup(a)} THEN Free ELSE owner[l]
  BY DEF Freed
<1>6. \A h \in Activations : LocksOf[h] \subseteq Locks
  BY DEF LocksAssumption
<1>7. \A h \in granted : \A l \in LocksOf[h] : o[l] = Free
  BY <1>1 DEF AllFree
<1>8. \A h \in w \ granted : \/ \E l \in LocksOf[h] : o[l] # Free
                             \/ \E g \in w \cap ahead[h] : Overlap(g, h)
  BY <1>3 DEF AllFree
<1>9. waiters \subseteq Handlers /\ \A h \in granted : phase[h] = "waiting" /\ h \in Activations /\ h # a
  BY <1>1 DEF IInv, TypeOK, Activations
<1> HIDE DEF o, w, granted
<1>10. TypeOK'
  <2>1. closed' \in BOOLEAN
    BY DEF IInv, TypeOK
  <2>2. phase' \in [Activations -> Phases]
    BY <1>2 DEF IInv, TypeOK, Phases
  <2>3. owner' \in [Locks -> Owners]
    <3>1. \A l \in Locks : owner'[l] \in Owners
      BY <1>4, <1>5, <1>9, OwnersDistinct DEF IInv, TypeOK
    <3> QED BY <3>1, <1>4a
  <2>4. waiters' = {h \in Handlers : phase'[h] = "waiting"}
    BY <1>1, <1>2, <1>9 DEF IInv, TypeOK, w, Activations
  <2>5. ahead' \in [Handlers -> SUBSET Handlers]
    BY <1>2 DEF IInv, TypeOK
  <2>6. \A g, h \in waiters' : g # h => (g \in ahead'[h] <=> h \notin ahead'[g])
    BY <1>2, <1>9 DEF IInv, TypeOK, w
  <2>7. \A h \in Handlers : h \notin ahead'[h] /\ ahead'[h] \subseteq waiters'
    BY <1>2, <1>9 DEF IInv, TypeOK, w
  <2> QED BY <2>1, <2>2, <2>3, <2>4, <2>5, <2>6, <2>7 DEF TypeOK
<1>11. LocksFollowActivation'
  <2> SUFFICES ASSUME NEW b \in Activations, NEW l \in Locks
               PROVE  /\ owner'[l] = Body(b) <=> l \in LocksOf[b] /\ phase'[b] \in {"granted", "running"}
                      /\ owner'[l] = Cleanup(b) <=> l \in LocksOf[b] /\ phase'[b] = "cleaning"
    BY DEF LocksFollowActivation
  <2>0. /\ owner[l] = Body(b) <=> l \in LocksOf[b] /\ phase[b] \in {"granted", "running"}
        /\ owner[l] = Cleanup(b) <=> l \in LocksOf[b] /\ phase[b] = "cleaning"
    BY DEF IInv, LocksFollowActivation
  <2>1. CASE \E h \in granted : l \in LocksOf[h]
    <3>1. PICK h \in granted : l \in LocksOf[h]
      BY <2>1
    <3>2. owner'[l] = Body(h) /\ phase'[h] = "granted" /\ o[l] = Free
      BY <3>1, <1>4, <1>2, <1>7, <1>9
    <3>3. CASE b = h
      BY <3>1, <3>2, <3>3, OwnersDistinct
    <3>4. CASE b # h /\ b \in granted
      BY <3>1, <3>2, <3>4, <1>1, <1>2, OwnersDistinct DEF Overlap
    <3>5. CASE b \notin granted /\ b = a
      BY <3>2, <3>5, <1>2, <1>9, OwnersDistinct
    <3>6. CASE b \notin granted /\ b # a
      <4>1. phase'[b] = phase[b]
        BY <3>6, <1>2
      <4>2. owner[l] # Body(b) /\ owner[l] # Cleanup(b)
        BY <3>2, <3>6, <1>5, OwnersDistinct
      <4> QED BY <3>1, <3>2, <3>6, <4>1, <4>2, <2>0, OwnersDistinct
    <3> QED BY <3>3, <3>4, <3>5, <3>6
  <2>2. CASE \A h \in granted : l \notin LocksOf[h]
    <3>1. owner'[l] = o[l]
      BY <2>2, <1>4
    <3>2. CASE b \in granted
      <4>1. l \notin LocksOf[b] /\ phase[b] = "waiting" /\ b # a
        BY <2>2, <3>2, <1>9
      <4> QED BY <4>1, <3>1, <2>0, <1>5, OwnersDistinct
    <3>3. CASE b \notin granted /\ b = a
      BY <3>1, <3>3, <1>2, <1>5, OwnersDistinct
    <3>4. CASE b \notin granted /\ b # a
      BY <3>1, <3>4, <1>2, <1>5, <2>0, OwnersDistinct
    <3> QED BY <3>2, <3>3, <3>4
  <2> QED BY <2>1, <2>2
<1>12. NoStrandedWaiter'
  <2> SUFFICES ASSUME NEW h \in waiters'
               PROVE  \/ \E l \in LocksOf[h] : owner'[l] # Free
                      \/ \E g \in waiters' \cap ahead'[h] : Overlap(g, h)
    BY DEF NoStrandedWaiter
  <2>1. h \in w /\ h \notin granted /\ h \in Handlers /\ h \in Activations
    BY <1>2, <1>9 DEF w, Activations
  <2>2. CASE \E l \in LocksOf[h] : o[l] # Free
    <3>1. PICK l \in LocksOf[h] : o[l] # Free
      BY <2>2
    <3>2. owner'[l] # Free
      BY <3>1, <2>1, <1>4, <1>6, OwnersDistinct
    <3> QED BY <3>1, <3>2
  <2>3. CASE \E g \in w \cap ahead[h] : Overlap(g, h)
    <3>1. PICK g \in w \cap ahead[h] : Overlap(g, h)
      BY <2>3
    <3>2. CASE g \in granted
      <4>1. PICK l \in LocksOf[g] : l \in LocksOf[h]
        BY <3>1 DEF Overlap
      <4>2. owner'[l] = Body(g)
        BY <3>2, <4>1, <2>1, <1>4, <1>6
      <4> QED BY <4>1, <4>2, OwnersDistinct
    <3>3. CASE g \notin granted
      <4>1. g \in waiters' /\ g \in ahead'[h]
        BY <3>1, <3>3, <2>1, <1>2 DEF w
      <4> QED BY <3>1, <4>1
    <3> QED BY <3>2, <3>3
  <2> QED BY <2>1, <2>2, <2>3, <1>8
<1>13. NoOvertakingStep
  <2> SUFFICES ASSUME NEW h \in waiters \cap waiters', NEW l \in Locks,
                      l \in LocksOf[h], owner'[l] \notin {owner[l], Free}
               PROVE  \E g \in ahead[h] : owner'[l] = Body(g)
    BY DEF NoOvertakingStep
  <2>1. PICK g \in granted : l \in LocksOf[g]
    BY <1>4, <1>5
  <2>2. owner'[l] = Body(g) /\ g # h /\ g \in w /\ h \in w
    BY <2>1, <1>4, <1>2, <1>1 DEF w
  <2>3. h \notin ahead[g]
    BY <2>1, <2>2 DEF granted, GrantedBy, Overlap
  <2> QED BY <2>2, <2>3 DEF IInv, TypeOK, w
<1> QED BY <1>10, <1>11, <1>12, <1>13 DEF IInv

-----------------------------------------------------------------------------
\* A place that takes its locks at once takes free ones that nobody waits for.
LEMMA TakePreserves ==
    ASSUME LocksAssumption, IInv, NEW a \in Activations, phase[a] = "idle", MayTake(a),
           owner' = Own(owner, a), phase' = [phase EXCEPT ![a] = "running"],
           UNCHANGED <<closed, waiters, ahead>>
    PROVE  IInv' /\ NoOvertakingStep
<1>1. \A l \in Locks : owner'[l] = IF l \in LocksOf[a] THEN Body(a) ELSE owner[l]
  BY DEF Own
<1>2. \A l \in LocksOf[a] : owner[l] = Free
  BY DEF MayTake, AllFree
<1>3. \A h \in waiters : LocksOf[h] \cap LocksOf[a] = {} /\ h # a /\ phase[h] = "waiting"
  BY DEF MayTake, Overlap, IInv, TypeOK
<1>4. TypeOK'
  <2>1. owner' \in [Locks -> Owners]
    <3>1. \A l \in Locks : owner'[l] \in Owners
      BY <1>1, OwnersDistinct DEF IInv, TypeOK
    <3> QED BY <3>1 DEF Own
  <2>2. phase' \in [Activations -> Phases] /\ waiters' = {h \in Handlers : phase'[h] = "waiting"}
    BY <1>3 DEF IInv, TypeOK, Phases, Activations
  <2> QED BY <2>1, <2>2 DEF IInv, TypeOK
<1>5. LocksFollowActivation'
  <2> SUFFICES ASSUME NEW b \in Activations, NEW l \in Locks
               PROVE  /\ owner'[l] = Body(b) <=> l \in LocksOf[b] /\ phase'[b] \in {"granted", "running"}
                      /\ owner'[l] = Cleanup(b) <=> l \in LocksOf[b] /\ phase'[b] = "cleaning"
    BY DEF LocksFollowActivation
  <2>0. /\ owner[l] = Body(b) <=> l \in LocksOf[b] /\ phase[b] \in {"granted", "running"}
        /\ owner[l] = Cleanup(b) <=> l \in LocksOf[b] /\ phase[b] = "cleaning"
    BY DEF IInv, LocksFollowActivation
  <2>1. phase'[b] = IF b = a THEN "running" ELSE phase[b]
    BY DEF IInv, TypeOK
  <2>2. CASE l \in LocksOf[a]
    BY <2>0, <2>1, <2>2, <1>1, <1>2, OwnersDistinct
  <2>3. CASE l \notin LocksOf[a]
    BY <2>0, <2>1, <2>3, <1>1, OwnersDistinct
  <2> QED BY <2>2, <2>3
<1>6. NoStrandedWaiter'
  <2> SUFFICES ASSUME NEW h \in waiters
               PROVE  /\ ~closed
                      /\ \/ \E l \in LocksOf[h] : owner'[l] # Free
                         \/ \E g \in waiters \cap ahead[h] : Overlap(g, h)
    BY DEF NoStrandedWaiter
  <2>1. LocksOf[h] \subseteq Locks
    BY DEF LocksAssumption, IInv, TypeOK, Activations
  <2> QED BY <2>1, <1>1, <1>3 DEF IInv, NoStrandedWaiter
<1>7. NoOvertakingStep
  BY <1>1, <1>3 DEF NoOvertakingStep
<1> QED BY <1>4, <1>5, <1>6, <1>7 DEF IInv

LEMMA InitIInv == LocksAssumption /\ Init => IInv
<1> SUFFICES ASSUME LocksAssumption, Init PROVE IInv
  OBVIOUS
<1>1. TypeOK
  BY OwnersDistinct DEF Init, TypeOK, Phases, Activations
<1>2. LocksFollowActivation
  BY OwnersDistinct DEF Init, LocksFollowActivation
<1>3. NoStrandedWaiter
  BY DEF Init, NoStrandedWaiter
<1> QED BY <1>1, <1>2, <1>3 DEF IInv

LEMMA StepIInv ==
    ASSUME LocksAssumption, IInv, [Next]_vars
    PROVE  IInv' /\ (NoOvertakingStep \/ UNCHANGED vars)
<1>1. ASSUME NEW o \in Operations, Start(o) PROVE IInv' /\ NoOvertakingStep
  BY <1>1, TakePreserves DEF Start, Activations
<1>2. ASSUME NEW h \in Handlers, StartHandler_Take(h) PROVE IInv' /\ NoOvertakingStep
  BY <1>2, TakePreserves DEF StartHandler_Take, Activations
<1>3. ASSUME NEW h \in Handlers, StartHandler_Wait(h) PROVE IInv' /\ NoOvertakingStep
  <2>1. /\ ~closed /\ phase[h] = "idle" /\ ~MayTake(h) /\ UNCHANGED <<closed, owner>>
        /\ phase' = [phase EXCEPT ![h] = "waiting"] /\ waiters' = waiters \cup {h}
        /\ ahead' = [ahead EXCEPT ![h] = waiters] /\ h \in Activations /\ h \notin waiters
    BY <1>3 DEF StartHandler_Wait, IInv, TypeOK, Activations
  <2>2. TypeOK'
    BY <2>1 DEF IInv, TypeOK, Phases, Activations
  <2>3. LocksFollowActivation'
    BY <2>1 DEF IInv, TypeOK, LocksFollowActivation
  <2>4. NoStrandedWaiter'
    <3>1. (\E l \in LocksOf[h] : owner[l] # Free) \/ \E g \in waiters : Overlap(g, h)
      BY <2>1 DEF MayTake, AllFree
    <3> QED BY <2>1, <3>1 DEF IInv, TypeOK, NoStrandedWaiter
  <2>5. NoOvertakingStep
    BY <2>1 DEF NoOvertakingStep
  <2> QED BY <2>2, <2>3, <2>4, <2>5 DEF IInv
<1>4. ASSUME NEW h \in Handlers, Resume(h) PROVE IInv' /\ NoOvertakingStep
  <2>1. /\ phase[h] = "granted" /\ phase' = [phase EXCEPT ![h] = "running"]
        /\ UNCHANGED <<closed, owner, waiters, ahead>> /\ h \in Activations
    BY <1>4 DEF Resume, Activations
  <2>2. TypeOK'
    BY <2>1 DEF IInv, TypeOK, Phases, Activations
  <2>3. LocksFollowActivation'
    BY <2>1 DEF IInv, TypeOK, LocksFollowActivation
  <2>4. NoStrandedWaiter'
    BY <2>1 DEF IInv, NoStrandedWaiter
  <2>5. NoOvertakingStep
    BY <2>1 DEF NoOvertakingStep
  <2> QED BY <2>2, <2>3, <2>4, <2>5 DEF IInv
<1>5. ASSUME NEW a \in Activations, Finish(a) PROVE IInv' /\ NoOvertakingStep
  <2>1. ~closed /\ phase[a] # "idle" /\ ReleaseLocks(a) /\ UNCHANGED closed
    BY <1>5 DEF Finish
  <2> QED BY <2>1, ReleasePreserves
<1>6. ASSUME NEW o \in Operations, CleanupComplete(o) PROVE IInv' /\ NoOvertakingStep
  <2>1. ~closed /\ phase[o] # "idle" /\ ReleaseLocks(o) /\ UNCHANGED closed /\ o \in Activations
    BY <1>6 DEF CleanupComplete, Activations
  <2> QED BY <2>1, ReleasePreserves
<1>7. ASSUME NEW o \in Operations, FinishToCleanup(o) PROVE IInv' /\ NoOvertakingStep
  <2>1. /\ phase[o] = "running" /\ phase' = [phase EXCEPT ![o] = "cleaning"]
        /\ owner' = [l \in Locks |-> IF owner[l] = Body(o) THEN Cleanup(o) ELSE owner[l]]
        /\ UNCHANGED <<closed, waiters, ahead>> /\ o \in Activations
    BY <1>7 DEF FinishToCleanup, Activations
  <2>2. \A l \in Locks : owner'[l] = IF owner[l] = Body(o) THEN Cleanup(o) ELSE owner[l]
    BY <2>1
  <2>3. TypeOK'
    <3>1. owner' \in [Locks -> Owners]
      BY <2>1, OwnersDistinct DEF IInv, TypeOK
    <3> QED BY <3>1, <2>1 DEF IInv, TypeOK, Phases, Activations
  <2>4. LocksFollowActivation'
    <3> SUFFICES ASSUME NEW b \in Activations, NEW l \in Locks
                 PROVE  /\ owner'[l] = Body(b) <=> l \in LocksOf[b] /\ phase'[b] \in {"granted", "running"}
                        /\ owner'[l] = Cleanup(b) <=> l \in LocksOf[b] /\ phase'[b] = "cleaning"
      BY DEF LocksFollowActivation
    <3>1. /\ owner[l] = Body(b) <=> l \in LocksOf[b] /\ phase[b] \in {"granted", "running"}
          /\ owner[l] = Cleanup(b) <=> l \in LocksOf[b] /\ phase[b] = "cleaning"
          /\ owner[l] = Body(o) <=> l \in LocksOf[o]
      BY <2>1 DEF IInv, LocksFollowActivation
    <3>2. phase'[b] = IF b = o THEN "cleaning" ELSE phase[b]
      BY <2>1 DEF IInv, TypeOK
    <3>3. CASE b = o
      BY <3>1, <3>2, <3>3, <2>1, <2>2, OwnersDistinct
    <3>4. CASE b # o
      BY <3>1, <3>2, <3>4, <2>2, OwnersDistinct
    <3> QED BY <3>3, <3>4
  <2>5. NoStrandedWaiter'
    <3>1. \A h \in waiters : LocksOf[h] \subseteq Locks
      BY DEF LocksAssumption, IInv, TypeOK, Activations
    <3>2. \A l \in Locks : owner[l] # Free => owner'[l] # Free
      BY <2>2, OwnersDistinct
    <3> QED BY <2>1, <3>1, <3>2 DEF IInv, NoStrandedWaiter
  <2>6. NoOvertakingStep
    BY <2>2 DEF NoOvertakingStep
  <2> QED BY <2>3, <2>4, <2>5, <2>6 DEF IInv
<1>8. ASSUME Disconnect PROVE IInv' /\ NoOvertakingStep
  <2> DEFINE alive == {a \in Activations : phase[a] # "idle"}
  <2>1. /\ closed' = TRUE /\ phase' = [a \in Activations |-> "idle"]
        /\ owner' = [l \in Locks |-> IF owner[l].of \in alive THEN Free ELSE owner[l]]
        /\ waiters' = waiters \ alive /\ ahead' = [h \in Handlers |-> ahead[h] \ alive]
    BY <1>8 DEF Disconnect
  <2>2. waiters \subseteq alive
    BY DEF IInv, TypeOK, Activations
  <2>3. \A l \in Locks : owner'[l] = Free
    <3> SUFFICES ASSUME NEW l \in Locks, owner[l] # Free PROVE owner[l].of \in alive
      BY <2>1
    <3>1. PICK a \in Activations : owner[l] \in {Body(a), Cleanup(a)}
      BY DEF IInv, TypeOK, Owners, Body, Cleanup
    <3>2. phase[a] # "idle"
      BY <3>1 DEF IInv, LocksFollowActivation
    <3> QED BY <3>1, <3>2 DEF Body, Cleanup
  <2>4. TypeOK'
    <3>1. owner' \in [Locks -> Owners]
      <4>1. owner' = [l \in Locks |-> owner'[l]]
        BY <2>1
      <4> QED BY <4>1, <2>3, OwnersDistinct
    <3>2. waiters' = {} /\ ahead' \in [Handlers -> SUBSET Handlers]
      BY <2>1, <2>2 DEF IInv, TypeOK
    <3>3. \A h \in Handlers : ahead'[h] = {}
      BY <2>1, <2>2 DEF IInv, TypeOK
    <3> QED BY <3>1, <3>2, <3>3, <2>1 DEF TypeOK, Phases, Activations
  <2>5. LocksFollowActivation'
    BY <2>1, <2>3, OwnersDistinct DEF LocksFollowActivation
  <2>6. NoStrandedWaiter'
    BY <2>1, <2>2 DEF NoStrandedWaiter
  <2>7. NoOvertakingStep
    BY <2>1, <2>2 DEF NoOvertakingStep
  <2> QED BY <2>4, <2>5, <2>6, <2>7 DEF IInv
<1>9. CASE UNCHANGED vars
  BY <1>9 DEF vars, IInv, TypeOK, LocksFollowActivation, NoStrandedWaiter
<1> QED BY <1>1, <1>2, <1>3, <1>4, <1>5, <1>6, <1>7, <1>8, <1>9 DEF Next

-----------------------------------------------------------------------------
\* The invariant that the three below are read off.
THEOREM LocksInvariant == LocksAssumption => (Spec => []IInv)
<1> SUFFICES ASSUME LocksAssumption PROVE Spec => []IInv
  OBVIOUS
<1>1. Init => IInv
  BY InitIInv
<1>2. IInv /\ [Next]_vars => IInv'
  BY StepIInv
<1> QED BY <1>1, <1>2, PTL DEF Spec

\* The state has its type, and the Map of waiters an order.
THEOREM LocksTypeOK == LocksAssumption => (Spec => []TypeOK)
<1>1. IInv => TypeOK
  BY DEF IInv
<1> QED BY <1>1, LocksInvariant, PTL

\* Each lock is owned by the one activation that runs under it.
THEOREM LocksExclusive == LocksAssumption => (Spec => []LocksFollowActivation)
<1>1. IInv => LocksFollowActivation
  BY DEF IInv
<1> QED BY <1>1, LocksInvariant, PTL

\* No handler waits without a reason.
THEOREM LocksNoStrandedWaiter == LocksAssumption => (Spec => []NoStrandedWaiter)
<1>1. IInv => NoStrandedWaiter
  BY DEF IInv
<1> QED BY <1>1, LocksInvariant, PTL

\* No step gives a lock past a handler that waits for it.
THEOREM LocksNoOvertaking == LocksAssumption => (Spec => NoOvertaking)
<1> SUFFICES ASSUME LocksAssumption PROVE Spec => NoOvertaking
  OBVIOUS
<1>1. IInv /\ [Next]_vars => [NoOvertakingStep]_vars
  BY StepIInv
<1> QED BY <1>1, LocksInvariant, PTL DEF Spec, NoOvertaking

-----------------------------------------------------------------------------
\* What is left of a sequence without its head.
LEMMA TailFacts ==
    ASSUME NEW S, NEW q \in Seq(S), q # <<>>
    PROVE  /\ Tail(q) \in Seq(S) /\ Len(q) \in Nat
           /\ DOMAIN q = 1..Len(q) /\ DOMAIN Tail(q) = 1..Len(q) - 1
           /\ 1 \in DOMAIN q /\ Head(q) = q[1] /\ q[1] \in S
           /\ \A i \in DOMAIN Tail(q) : Tail(q)[i] = q[i + 1] /\ i + 1 \in DOMAIN q
           /\ \A i \in DOMAIN q : i # 1 => i - 1 \in DOMAIN Tail(q) /\ Tail(q)[i - 1] = q[i]
<1>1. /\ Tail(q) \in Seq(S) /\ Len(Tail(q)) = Len(q) - 1
      /\ \A i \in 1 .. Len(Tail(q)) : Tail(q)[i] = q[i + 1]
  BY HeadTailProperties
<1>2. Len(q) \in Nat /\ DOMAIN q = 1..Len(q) /\ Len(q) # 0
  BY LenProperties, EmptySeq
<1>3. DOMAIN Tail(q) = 1..Len(q) - 1
  BY <1>1, LenProperties
<1>4. Head(q) = q[1] /\ q[1] \in S
  BY <1>2, ElementOfSeq
<1> QED BY <1>1, <1>2, <1>3, <1>4

\* A sequence with an element appended.
LEMMA AppendFacts ==
    ASSUME NEW S, NEW q \in Seq(S), NEW e \in S
    PROVE  /\ Append(q, e) \in Seq(S) /\ Len(q) \in Nat
           /\ DOMAIN q = 1..Len(q) /\ DOMAIN Append(q, e) = 1..Len(q) + 1
           /\ \A i \in DOMAIN q : Append(q, e)[i] = q[i] /\ i \in DOMAIN Append(q, e)
           /\ Append(q, e)[Len(q) + 1] = e
           /\ \A i \in DOMAIN Append(q, e) : i \in DOMAIN q \/ i = Len(q) + 1
<1>1. Append(q, e) \in Seq(S) /\ Len(Append(q, e)) = Len(q) + 1
  BY AppendProperties
<1>2. Len(q) \in Nat /\ DOMAIN q = 1..Len(q)
  BY LenProperties
<1>3. DOMAIN Append(q, e) = 1..Len(q) + 1
  BY <1>1, LenProperties
<1> QED BY <1>1, <1>2, <1>3, AppendProperties

\* FiniteSets as SessionRpc knows it.
LEMMA SizeIsCardinality ==
    ASSUME NEW S
    PROVE  Rp!Cardinality(S) = Cardinality(S)
BY DEF Rp!Cardinality, Cardinality

\* A finite set with an element added.
LEMMA AddOne ==
    ASSUME NEW S, IsFiniteSet(S), NEW x
    PROVE  /\ IsFiniteSet(S \cup {x}) /\ Cardinality(S) \in Nat /\ Cardinality(S \cup {x}) \in Nat
           /\ Cardinality(S \cup {x}) <= Cardinality(S) + 1
<1>1. /\ IsFiniteSet(S \cup {x})
      /\ Cardinality(S \cup {x}) = IF x \in S THEN Cardinality(S) ELSE Cardinality(S) + 1
  BY FS_AddElement
<1>2. Cardinality(S) \in Nat
  BY FS_CardinalityType
<1> QED BY <1>1, <1>2

-----------------------------------------------------------------------------
Kind(n) == calls[n].kind
SubOf(n) == calls[n].sub
IsPlain(n) == Kind(n) = "plain"
Sent(n) == \E i \in DOMAIN up : up[i] = n
Answered(n) == \E i \in DOMAIN down : down[i].call = n

RpcTypes ==
    /\ adapter \in Adapters /\ dead \in BOOLEAN
    /\ calls \in Seq(Rp!CallType)
    /\ pending \subseteq DOMAIN calls /\ serving \subseteq DOMAIN calls
    /\ up \in Seq(Nat) /\ \A i \in DOMAIN up : up[i] \in DOMAIN calls
    /\ down \in Seq([call : Nat, ok : BOOLEAN]) /\ \A i \in DOMAIN down : down[i].call \in DOMAIN calls
    /\ IsFiniteSet(active) /\ IsFiniteSet(reserved)

CallsInOrder ==
    /\ \A m, n \in DOMAIN calls :
          Kind(m) = "subscribe" /\ ~IsPlain(n) /\ SubOf(m) = SubOf(n) /\ m # n => m < n
    /\ \A i, j \in DOMAIN up : i < j => up[i] < up[j]
    /\ \A i, j \in DOMAIN down :
          i < j /\ ~IsPlain(down[i].call) /\ ~IsPlain(down[j].call) => down[i].call < down[j].call
    /\ \A i \in DOMAIN down, j \in DOMAIN up : ~IsPlain(down[i].call) => down[i].call < up[j]

OnePlace ==
    /\ \A i, j \in DOMAIN down : down[i].call = down[j].call => i = j
    /\ \A n \in serving : IsPlain(n) /\ ~Sent(n) /\ ~Answered(n)
    /\ \A n \in DOMAIN calls : ~(Sent(n) /\ Answered(n))
    /\ ~dead => \A n \in DOMAIN calls : n \in pending <=> Sent(n) \/ n \in serving \/ Answered(n)

Outcomes ==
    /\ \A n \in pending : calls[n].outcome = "none"
    /\ \A n \in DOMAIN calls \ pending : calls[n].outcome # "none" \/ (adapter = "direct" /\ calls[n].large)
    /\ \A n \in DOMAIN calls \ pending : Sent(n) \/ n \in serving => calls[n].outcome # "none"
    /\ \A n \in DOMAIN calls : calls[n].large => IsPlain(n)
    /\ dead => pending = {}

Limit ==
    /\ ~dead => reserved = {SubOf(n) : n \in {m \in pending : Kind(m) = "subscribe"}}
    /\ ~dead => Cardinality(active \cup reserved) <= MaxSubs
    /\ \A n \in DOMAIN calls : Kind(n) = "unsubscribe" /\ calls[n].outcome = "ok" => SubOf(n) \notin active \cup reserved

Served ==
    /\ ~dead => \A s \in served :
          s \in active \/ \E i \in DOMAIN down : down[i].ok /\ Kind(down[i].call) = "subscribe" /\ SubOf(down[i].call) = s
    /\ \A i \in DOMAIN down : down[i].ok /\ Kind(down[i].call) = "unsubscribe" => SubOf(down[i].call) \notin served

RpcInv == RpcTypes /\ CallsInOrder /\ OnePlace /\ Outcomes /\ Limit /\ Served

\* A new call, accepted or refused, keeps the invariant.
LEMMA NewCallKeeps ==
    ASSUME RpcInv, Rp!RpcAssumption, ~dead, NEW c \in Rp!CallType,
           c.outcome = "none", ~c.large,
           c.kind = "subscribe" => \A n \in DOMAIN calls : SubOf(n) # c.sub,
           Rp!Accepted(c) \/ Rp!Refused(c),
           UNCHANGED <<adapter, dead, active, serving, down, served>>
    PROVE  RpcInv'
<1>0. PICK new : new = Len(calls) + 1
  OBVIOUS
<1>1. PICK d \in Rp!CallType :
        /\ d.kind = c.kind /\ d.sub = c.sub /\ d.large = c.large
        /\ calls' = Append(calls, d)
        /\ \/ /\ d.outcome = "none" /\ Rp!MayCall(c.kind)
              /\ pending' = pending \cup {new} /\ up' = Append(up, new)
              /\ reserved' = IF c.kind = "subscribe" THEN reserved \cup {c.sub} ELSE reserved
           \/ d.outcome = "failed" /\ UNCHANGED <<pending, up, reserved>>
  <2>1. CASE Rp!Accepted(c)
    BY <1>0, <2>1 DEF Rp!Accepted
  <2>2. CASE Rp!Refused(c)
    <3>1. [c EXCEPT !.outcome = "failed"] \in Rp!CallType
      BY DEF Rp!CallType
    <3>2. [c EXCEPT !.outcome = "failed"].outcome = "failed"
      BY DEF Rp!CallType
    <3>3. /\ [c EXCEPT !.outcome = "failed"].kind = c.kind
          /\ [c EXCEPT !.outcome = "failed"].sub = c.sub
          /\ [c EXCEPT !.outcome = "failed"].large = c.large
      BY DEF Rp!CallType
    <3> QED BY <2>2, <3>1, <3>2, <3>3 DEF Rp!Refused
  <2> QED BY <2>1, <2>2
<1>2. /\ calls' \in Seq(Rp!CallType) /\ Len(calls) \in Nat /\ new \in Nat
      /\ DOMAIN calls = 1..Len(calls) /\ DOMAIN calls' = 1..new /\ new \notin DOMAIN calls
      /\ \A n \in DOMAIN calls : calls'[n] = calls[n] /\ n \in DOMAIN calls' /\ n < new
      /\ calls'[new] = d /\ new \in DOMAIN calls'
      /\ \A n \in DOMAIN calls' : n \in DOMAIN calls \/ n = new
  BY <1>0, <1>1, AppendFacts DEF RpcInv, RpcTypes
<1>3. \/ pending' = pending /\ up' = up /\ d.outcome = "failed" /\ reserved' = reserved
      \/ /\ pending' = pending \cup {new} /\ up' = Append(up, new)
         /\ d.outcome = "none" /\ Rp!MayCall(c.kind)
         /\ reserved' = IF c.kind = "subscribe" THEN reserved \cup {c.sub} ELSE reserved
  BY <1>1
<1>20. /\ Append(up, new) \in Seq(Nat) /\ Len(up) \in Nat
       /\ DOMAIN up = 1..Len(up) /\ DOMAIN Append(up, new) = 1..Len(up) + 1
       /\ \A i \in DOMAIN up : Append(up, new)[i] = up[i] /\ i \in DOMAIN Append(up, new)
       /\ Append(up, new)[Len(up) + 1] = new
       /\ \A i \in DOMAIN Append(up, new) : i \in DOMAIN up \/ i = Len(up) + 1
  <2>1. up \in Seq(Nat) /\ new \in Nat
    BY <1>2 DEF RpcInv, RpcTypes
  <2> QED BY <2>1, AppendFacts
<1>21. /\ up' \in Seq(Nat) /\ Len(up) \in Nat
       /\ \A i \in DOMAIN up' : (i \in DOMAIN up /\ up'[i] = up[i]) \/ (i = Len(up) + 1 /\ up'[i] = new)
       /\ \A i \in DOMAIN up : i \in DOMAIN up' /\ up'[i] = up[i] /\ i \in Nat /\ i <= Len(up)
  <2>1. up \in Seq(Nat)
    BY DEF RpcInv, RpcTypes
  <2>2. CASE up' = up
    BY <2>1, <2>2, <1>20
  <2>3. CASE up' = Append(up, new)
    BY <2>3, <1>20
  <2> QED BY <2>2, <2>3, <1>3
<1>4. \A n \in DOMAIN calls : Kind(n)' = Kind(n) /\ SubOf(n)' = SubOf(n) /\ (IsPlain(n)' <=> IsPlain(n))
  BY <1>2 DEF Kind, SubOf, IsPlain
<1>5. Kind(new)' = c.kind /\ SubOf(new)' = c.sub /\ (IsPlain(new)' <=> c.kind = "plain")
  BY <1>1, <1>2 DEF Kind, SubOf, IsPlain
<1>6. /\ \A n \in DOMAIN calls : (Sent(n)' <=> Sent(n)) /\ (Answered(n)' <=> Answered(n))
      /\ ~Answered(new)' /\ new \notin serving /\ ~Sent(new)
      /\ Sent(new)' <=> new \in pending'
  <2>1. \A n \in DOMAIN calls : (Sent(n)' <=> Sent(n)) /\ (Answered(n)' <=> Answered(n))
    BY <1>2, <1>21 DEF Sent, Answered
  <2>2. ~Answered(new)' /\ new \notin serving /\ ~Sent(new) /\ new \notin pending
    BY <1>2 DEF Sent, Answered, RpcInv, RpcTypes
  <2>3. CASE up' = up /\ pending' = pending
    <3>1. ~Sent(new)'
      BY <2>2, <2>3 DEF Sent
    <3>2. new \notin pending'
      BY <2>2, <2>3
    <3> QED BY <3>1, <3>2, <2>1, <2>2
  <2>4. CASE up' = Append(up, new) /\ pending' = pending \cup {new}
    <3>1. Len(up) + 1 \in DOMAIN up' /\ up'[Len(up) + 1] = new
      BY <2>4, <1>20
    <3>2. Sent(new)'
      BY <3>1 DEF Sent
    <3>3. new \in pending'
      BY <2>4
    <3> QED BY <3>2, <3>3, <2>1, <2>2
  <2> QED BY <2>1, <2>2, <2>3, <2>4, <1>3
<1>7. RpcTypes'
  <2>1. reserved' = reserved \/ reserved' = reserved \cup {c.sub}
    BY <1>3
  <2>2. IsFiniteSet(reserved')
    BY <2>1, FS_AddElement DEF RpcInv, RpcTypes
  <2>3. up' \in Seq(Nat) /\ \A i \in DOMAIN up' : up'[i] \in DOMAIN calls'
    BY <1>2, <1>21 DEF RpcInv, RpcTypes
  <2>4. pending' \subseteq DOMAIN calls'
    BY <1>2, <1>3 DEF RpcInv, RpcTypes
  <2> QED BY <1>2, <2>2, <2>3, <2>4 DEF RpcInv, RpcTypes
<1>8. CallsInOrder'
  <2>1. \A m, n \in DOMAIN calls' :
          Kind(m)' = "subscribe" /\ ~IsPlain(n)' /\ SubOf(m)' = SubOf(n)' /\ m # n => m < n
    BY <1>2, <1>4, <1>5 DEF RpcInv, CallsInOrder
  <2>2. \A i, j \in DOMAIN up' : i < j => up'[i] < up'[j]
    <3>1. \A i \in DOMAIN up : up[i] \in DOMAIN calls /\ up[i] < new
      BY <1>2 DEF RpcInv, RpcTypes
    <3>2. \A i, j \in DOMAIN up : i < j => up[i] < up[j]
      BY DEF RpcInv, CallsInOrder
    <3> QED BY <3>1, <3>2, <1>21
  <2>3. \A i \in DOMAIN down : down[i].call \in DOMAIN calls
    BY DEF RpcInv, RpcTypes
  <2>9. down' = down
    OBVIOUS
  <2>4. \A i, j \in DOMAIN down :
          i < j /\ ~IsPlain(down[i].call)' /\ ~IsPlain(down[j].call)' => down[i].call < down[j].call
    BY <1>4, <2>3 DEF RpcInv, CallsInOrder
  <2>5. \A i \in DOMAIN down, j \in DOMAIN up' : ~IsPlain(down[i].call)' => down[i].call < up'[j]
    BY <1>2, <1>21, <1>4, <2>3 DEF RpcInv, CallsInOrder
  <2> QED BY <2>1, <2>2, <2>4, <2>5, <2>9 DEF CallsInOrder
<1>9. OnePlace'
  <2>1. \A n \in serving : IsPlain(n)' /\ ~Sent(n)' /\ ~Answered(n)'
    BY <1>4, <1>6 DEF RpcInv, OnePlace, RpcTypes
  <2>2. \A n \in DOMAIN calls' : ~(Sent(n)' /\ Answered(n)')
    BY <1>2, <1>6 DEF RpcInv, OnePlace
  <2>3. \A n \in DOMAIN calls' : n \in pending' <=> Sent(n)' \/ n \in serving \/ Answered(n)'
    <3>1. \A n \in DOMAIN calls : n \in pending' <=> n \in pending
      BY <1>2, <1>3
    <3> QED BY <3>1, <1>2, <1>6 DEF RpcInv, OnePlace
  <2> QED BY <2>1, <2>2, <2>3 DEF RpcInv, OnePlace
<1>10. Outcomes'
  <2>1. \A n \in DOMAIN calls : n \in pending' <=> n \in pending
    BY <1>2, <1>3
  <2>2. \A n \in DOMAIN calls : calls'[n] = calls[n] /\ (Sent(n)' <=> Sent(n)) /\ (IsPlain(n)' <=> IsPlain(n))
    BY <1>2, <1>4, <1>6
  <2>3. /\ new \in pending' => calls'[new].outcome = "none"
        /\ new \notin pending' => calls'[new].outcome # "none"
        /\ ~calls'[new].large
    BY <1>1, <1>2, <1>3 DEF RpcInv, RpcTypes
  <2>4. \A n \in DOMAIN calls' : n \in DOMAIN calls \/ n = new
    BY <1>2
  <2>5. \A n \in pending' : n \in DOMAIN calls \/ n = new
    BY <2>4, <1>7 DEF RpcTypes
  <2> QED BY <2>1, <2>2, <2>3, <2>4, <2>5, <1>6 DEF RpcInv, Outcomes
<1>11. Limit'
  <2>1. reserved' = {SubOf(n)' : n \in {m \in pending' : Kind(m)' = "subscribe"}}
    <3>1. reserved = {SubOf(n) : n \in {m \in pending : Kind(m) = "subscribe"}} /\ pending \subseteq DOMAIN calls
      BY DEF RpcInv, Limit, RpcTypes
    <3>2. CASE pending' = pending /\ reserved' = reserved
      BY <3>1, <3>2, <1>4
    <3>3. CASE pending' = pending \cup {new} /\ c.kind = "subscribe" /\ reserved' = reserved \cup {c.sub}
      BY <3>1, <3>3, <1>4, <1>5
    <3>4. CASE pending' = pending \cup {new} /\ c.kind # "subscribe" /\ reserved' = reserved
      BY <3>1, <3>4, <1>4, <1>5
    <3> QED BY <3>2, <3>3, <3>4, <1>3
  <2>2. Cardinality(active \cup reserved') <= MaxSubs
    <3>1. IsFiniteSet(active) /\ IsFiniteSet(reserved) /\ Cardinality(active \cup reserved) <= MaxSubs
      BY DEF RpcInv, RpcTypes, Limit
    <3>2. CASE reserved' = reserved
      BY <3>1, <3>2
    <3>3. CASE c.kind = "subscribe" /\ Rp!MayCall(c.kind) /\ reserved' = reserved \cup {c.sub}
      <4>1. Cardinality(active) + Cardinality(reserved) < MaxSubs
        BY <3>3, SizeIsCardinality DEF Rp!MayCall
      <4>2. /\ IsFiniteSet(active \cup reserved) /\ Cardinality(active) \in Nat /\ Cardinality(reserved) \in Nat
            /\ Cardinality(active \cup reserved) = Cardinality(active) + Cardinality(reserved) - Cardinality(active \cap reserved)
            /\ Cardinality(active \cap reserved) \in Nat
        BY <3>1, FS_Union, FS_CardinalityType, FS_Intersection
      <4>3. Cardinality((active \cup reserved) \cup {c.sub}) <= Cardinality(active \cup reserved) + 1
        BY <4>2, AddOne
      <4>4. active \cup reserved' = (active \cup reserved) \cup {c.sub}
        BY <3>3
      <4>5. Cardinality(active \cup reserved') \in Nat
        BY <4>2, <4>4, FS_AddElement, FS_CardinalityType
      <4>6. MaxSubs \in Nat
        BY DEF Rp!RpcAssumption
      <4>7. Cardinality(active \cup reserved') <= Cardinality(active \cup reserved) + 1
        BY <4>3, <4>4
      <4>8. Cardinality(active \cup reserved) \in Nat
        BY <4>2, FS_CardinalityType
      <4> QED BY <4>1, <4>2, <4>5, <4>6, <4>7, <4>8
    <3> QED BY <3>2, <3>3, <1>3
  <2>3. \A n \in DOMAIN calls' : Kind(n)' = "unsubscribe" /\ calls'[n].outcome = "ok" => SubOf(n)' \notin active \cup reserved'
    <3>1. ASSUME NEW n \in DOMAIN calls, Kind(n) = "unsubscribe", calls[n].outcome = "ok"
          PROVE  SubOf(n) \notin active \cup reserved'
      <4>1. SubOf(n) \notin active \cup reserved
        BY <3>1 DEF RpcInv, Limit
      <4> QED BY <4>1, <1>3
    <3>2. calls'[new].outcome # "ok"
      BY <1>2, <1>3
    <3> QED BY <3>1, <3>2, <1>2, <1>4
  <2> QED BY <2>1, <2>2, <2>3 DEF Limit
<1>12. Served'
  <2>1. \A i \in DOMAIN down : down[i].call \in DOMAIN calls
    BY DEF RpcInv, RpcTypes
  <2> QED BY <2>1, <1>4 DEF RpcInv, Served
<1> QED BY <1>7, <1>8, <1>9, <1>10, <1>11, <1>12 DEF RpcInv

\* The session ends a subscriber, or something else happens that is none of the calls'.
LEMMA EvictionKeeps ==
    ASSUME RpcInv, served' \subseteq served,
           UNCHANGED <<adapter, dead, calls, pending, active, reserved, up, serving, down>>
    PROVE  RpcInv'
<1>1. RpcTypes' /\ CallsInOrder' /\ OnePlace' /\ Outcomes' /\ Limit'
  BY DEF RpcInv, RpcTypes, CallsInOrder, OnePlace, Outcomes, Limit, Kind, SubOf, IsPlain, Sent, Answered
<1>2. Served'
  BY DEF RpcInv, Served, Kind, SubOf
<1> QED BY <1>1, <1>2 DEF RpcInv

\* The next request leaves `up', and is answered at once or worked on.
LEMMA ServeKeeps ==
    ASSUME RpcInv, Rp!Serve
    PROVE  RpcInv'
<1>0. PICK n, c : n = Head(up) /\ c = calls[n]
  OBVIOUS
<1>1. up # <<>> /\ up' = Tail(up) /\ UNCHANGED <<adapter, dead, calls, pending, active, reserved>>
  BY DEF Rp!Serve
<1>2. /\ up' \in Seq(Nat) /\ up[1] = n /\ n \in DOMAIN calls /\ n \in Nat
      /\ DOMAIN up = 1..Len(up) /\ DOMAIN up' = 1..Len(up) - 1 /\ Len(up) \in Nat /\ 1 \in DOMAIN up
      /\ \A i \in DOMAIN up' : up'[i] = up[i + 1] /\ i + 1 \in DOMAIN up
      /\ \A i \in DOMAIN up : i # 1 => i - 1 \in DOMAIN up' /\ up'[i - 1] = up[i]
  BY <1>0, <1>1, TailFacts DEF RpcInv, RpcTypes
<1>3. calls' = calls /\ pending' = pending /\ dead' = dead /\ adapter' = adapter /\ active' = active /\ reserved' = reserved
  BY <1>1
<1>4. \A m : Kind(m)' = Kind(m) /\ SubOf(m)' = SubOf(m) /\ (IsPlain(m)' <=> IsPlain(m))
  BY <1>3 DEF Kind, SubOf, IsPlain
<1>5. \/ n \notin pending /\ UNCHANGED <<serving, down, served>>
      \/ Kind(n) = "plain" /\ serving' = serving \cup {n} /\ UNCHANGED <<down, served>>
      \/ /\ Kind(n) = "subscribe" /\ served' = served \cup {SubOf(n)}
         /\ down' = Append(down, [call |-> n, ok |-> TRUE]) /\ UNCHANGED serving
      \/ /\ Kind(n) = "unsubscribe" /\ served' = served \ {SubOf(n)}
         /\ down' = Append(down, [call |-> n, ok |-> TRUE]) /\ UNCHANGED serving
      \/ /\ ~IsPlain(n)
         /\ down' = Append(down, [call |-> n, ok |-> FALSE]) /\ UNCHANGED <<serving, served>>
  BY <1>0 DEF Rp!Serve, Rp!Reply, Kind, SubOf, IsPlain
<1>10. \A j \in DOMAIN up' : n < up'[j]
  BY <1>2 DEF RpcInv, CallsInOrder
<1>6. ~Sent(n)' /\ \A m \in DOMAIN calls : m # n => (Sent(m)' <=> Sent(m))
  <2>1. \A i \in DOMAIN up' : up'[i] # n
    <3>1. \A i \in DOMAIN up' : up'[i] \in Nat
      BY <1>2
    <3> QED BY <1>2, <1>10, <3>1
  <2>2. ASSUME NEW m, m # n  PROVE Sent(m)' <=> Sent(m)
    BY <1>2, <2>2 DEF Sent
  <2> QED BY <2>1, <2>2 DEF Sent
<1>7. Sent(n) /\ ~Answered(n) /\ n \notin serving
  <2>1. Sent(n)
    BY <1>2 DEF Sent
  <2> QED BY <2>1, <1>2 DEF RpcInv, OnePlace
<1>8. (~dead => n \in pending) /\ (n \notin pending => calls[n].outcome # "none")
  BY <1>2, <1>7 DEF RpcInv, OnePlace, Outcomes
<1>9. \A i, j \in DOMAIN up' : i < j => up'[i] < up'[j]
  BY <1>2 DEF RpcInv, CallsInOrder
<1>11. \A i \in DOMAIN down, j \in DOMAIN up' : ~IsPlain(down[i].call) => down[i].call < up'[j]
  BY <1>2 DEF RpcInv, CallsInOrder
<1>12. CASE /\ down' = down /\ served' = served
            /\ \/ serving' = serving /\ n \notin pending
               \/ serving' = serving \cup {n} /\ Kind(n) = "plain"
  <2>1. RpcTypes'
    BY <1>1, <1>2, <1>3, <1>12 DEF RpcInv, RpcTypes
  <2>2. CallsInOrder'
    BY <1>3, <1>4, <1>9, <1>11, <1>12 DEF RpcInv, CallsInOrder
  <2>3. \A m : Answered(m)' <=> Answered(m)
    BY <1>12 DEF Answered
  <2>4. OnePlace'
    <3>1. \A i, j \in DOMAIN down' : down'[i].call = down'[j].call => i = j
      BY <1>12 DEF RpcInv, OnePlace
    <3>2. \A m \in serving' : IsPlain(m)' /\ ~Sent(m)' /\ ~Answered(m)'
      BY <1>4, <1>6, <1>7, <1>12, <2>3 DEF RpcInv, RpcTypes, OnePlace, IsPlain
    <3>3. \A m \in DOMAIN calls : ~(Sent(m)' /\ Answered(m)')
      BY <1>6, <2>3 DEF RpcInv, OnePlace
    <3>4. ~dead => \A m \in DOMAIN calls : m \in pending <=> Sent(m)' \/ m \in serving' \/ Answered(m)'
      BY <1>6, <1>7, <1>8, <1>12, <2>3 DEF RpcInv, OnePlace
    <3> QED BY <1>3, <3>1, <3>2, <3>3, <3>4 DEF OnePlace
  <2>5. Outcomes'
    BY <1>3, <1>4, <1>6, <1>8, <1>12 DEF RpcInv, Outcomes, RpcTypes
  <2>6. Limit'
    BY <1>3 DEF RpcInv, Limit, Kind, SubOf
  <2>7. Served'
    BY <1>3, <1>12 DEF RpcInv, Served, Kind, SubOf
  <2> QED BY <2>1, <2>2, <2>4, <2>5, <2>6, <2>7 DEF RpcInv
<1>13. ASSUME NEW b \in BOOLEAN, down' = Append(down, [call |-> n, ok |-> b]), ~IsPlain(n), serving' = serving,
              \/ b = FALSE /\ served' = served
              \/ b = TRUE /\ Kind(n) = "subscribe" /\ served' = served \cup {SubOf(n)}
              \/ b = TRUE /\ Kind(n) = "unsubscribe" /\ served' = served \ {SubOf(n)}
       PROVE  RpcInv'
  <2>0. PICK last : last = Len(down) + 1
    OBVIOUS
  <2>1. /\ down' \in Seq([call : Nat, ok : BOOLEAN]) /\ last \in Nat
        /\ DOMAIN down = 1..last - 1 /\ last \in DOMAIN down'
        /\ \A i \in DOMAIN down : down'[i] = down[i] /\ i \in DOMAIN down' /\ i # last
        /\ down'[last].call = n /\ down'[last].ok = b
        /\ \A i \in DOMAIN down' : i = last \/ (i \in DOMAIN down /\ i < last)
    <3>1. PICK e : e = [call |-> n, ok |-> b]
      OBVIOUS
    <3>2. down \in Seq([call : Nat, ok : BOOLEAN]) /\ e \in [call : Nat, ok : BOOLEAN] /\ e.call = n /\ e.ok = b
      BY <1>2, <1>13, <3>1 DEF RpcInv, RpcTypes
    <3>3. down' = Append(down, e)
      BY <1>13, <3>1
    <3>4. /\ Append(down, e) \in Seq([call : Nat, ok : BOOLEAN]) /\ Len(down) \in Nat
          /\ DOMAIN down = 1..Len(down) /\ DOMAIN Append(down, e) = 1..Len(down) + 1
          /\ \A i \in DOMAIN down : Append(down, e)[i] = down[i] /\ i \in DOMAIN Append(down, e)
          /\ Append(down, e)[Len(down) + 1] = e
          /\ \A i \in DOMAIN Append(down, e) : i \in DOMAIN down \/ i = Len(down) + 1
      BY <3>2, AppendFacts
    <3>5. last - 1 = Len(down)
      BY <2>0, <3>4
    <3> QED BY <2>0, <3>2, <3>3, <3>4, <3>5
  <2>2. \A m : m # n => (Answered(m)' <=> Answered(m))
    BY <2>1 DEF Answered
  <2>3. Answered(n)' /\ \A i \in DOMAIN down : down[i].call # n
    BY <2>1, <1>7 DEF Answered
  <2>4. RpcTypes'
    <3>1. \A i \in DOMAIN up' : up'[i] \in DOMAIN calls
      BY <1>2 DEF RpcInv, RpcTypes
    <3>2. \A i \in DOMAIN down' : down'[i].call \in DOMAIN calls
      BY <1>2, <2>1 DEF RpcInv, RpcTypes
    <3> QED BY <1>2, <1>3, <1>13, <2>1, <3>1, <3>2 DEF RpcInv, RpcTypes
  <2>5. CallsInOrder'
    <3>1. \A i \in DOMAIN down : ~IsPlain(down[i].call) => down[i].call < n
      BY <1>2 DEF RpcInv, CallsInOrder
    <3>2. \A i, j \in DOMAIN down :
             i < j /\ ~IsPlain(down[i].call) /\ ~IsPlain(down[j].call) => down[i].call < down[j].call
      BY DEF RpcInv, CallsInOrder
    <3>3. \A i, j \in DOMAIN down' :
             i < j /\ ~IsPlain(down'[i].call) /\ ~IsPlain(down'[j].call) => down'[i].call < down'[j].call
      <4>1. ASSUME NEW i \in DOMAIN down', NEW j \in DOMAIN down', i < j,
                   ~IsPlain(down'[i].call), ~IsPlain(down'[j].call)
            PROVE  down'[i].call < down'[j].call
        <5>1. i \in DOMAIN down
          BY <2>1, <4>1
        <5>2. CASE j = last
          BY <2>1, <3>1, <4>1, <5>1, <5>2
        <5>3. CASE j \in DOMAIN down
          BY <2>1, <3>2, <4>1, <5>1, <5>3
        <5> QED BY <2>1, <5>2, <5>3
      <4> QED BY <4>1
    <3>4. \A i \in DOMAIN down', j \in DOMAIN up' : ~IsPlain(down'[i].call) => down'[i].call < up'[j]
      BY <2>1, <1>10, <1>11
    <3>5. \A k, m \in DOMAIN calls :
             Kind(k) = "subscribe" /\ ~IsPlain(m) /\ SubOf(k) = SubOf(m) /\ k # m => k < m
      BY DEF RpcInv, CallsInOrder
    <3> QED BY <1>3, <1>4, <1>9, <3>3, <3>4, <3>5 DEF CallsInOrder
  <2>6. OnePlace'
    <3>1. \A i, j \in DOMAIN down' : down'[i].call = down'[j].call => i = j
      BY <2>1, <2>3 DEF RpcInv, OnePlace
    <3>2. \A m \in serving' : IsPlain(m)' /\ ~Sent(m)' /\ ~Answered(m)'
      BY <1>4, <1>6, <1>7, <1>13, <2>2 DEF RpcInv, RpcTypes, OnePlace
    <3>3. \A m \in DOMAIN calls : ~(Sent(m)' /\ Answered(m)')
      BY <1>6, <2>2 DEF RpcInv, OnePlace
    <3>4. ~dead => \A m \in DOMAIN calls : m \in pending <=> Sent(m)' \/ m \in serving' \/ Answered(m)'
      BY <1>6, <1>7, <1>8, <1>13, <2>2, <2>3 DEF RpcInv, OnePlace
    <3> QED BY <1>3, <3>1, <3>2, <3>3, <3>4 DEF OnePlace
  <2>7. Outcomes'
    BY <1>3, <1>4, <1>6, <1>13 DEF RpcInv, Outcomes, RpcTypes
  <2>8. Limit'
    BY <1>3 DEF RpcInv, Limit, Kind, SubOf
  <2>9. Served'
    <3>1. \A i \in DOMAIN down : down[i].call \in DOMAIN calls /\ (~IsPlain(down[i].call) => down[i].call < n)
      BY <1>2 DEF RpcInv, CallsInOrder, RpcTypes
    <3>2. ~dead => \A s \in served' : s \in active \/ \E i \in DOMAIN down' :
             down'[i].ok /\ Kind(down'[i].call) = "subscribe" /\ SubOf(down'[i].call) = s
      <4>1. ASSUME ~dead, NEW s \in served', s \notin active
            PROVE  \E i \in DOMAIN down' : down'[i].ok /\ Kind(down'[i].call) = "subscribe" /\ SubOf(down'[i].call) = s
        <5>1. CASE s \in served
          <6>1. PICK i \in DOMAIN down : down[i].ok /\ Kind(down[i].call) = "subscribe" /\ SubOf(down[i].call) = s
            BY <4>1, <5>1 DEF RpcInv, Served
          <6>2. i \in DOMAIN down' /\ down'[i] = down[i]
            BY <2>1
          <6> QED BY <6>1, <6>2
        <5>2. CASE s \notin served
          <6>1. b = TRUE /\ Kind(n) = "subscribe" /\ s = SubOf(n)
            BY <1>13, <4>1, <5>2
          <6> QED BY <6>1, <2>1
        <5> QED BY <5>1, <5>2
      <4> QED BY <4>1
    <3>3. ASSUME NEW i \in DOMAIN down', down'[i].ok, Kind(down'[i].call) = "unsubscribe"
          PROVE  SubOf(down'[i].call) \notin served'
      <4>1. CASE i = last
        BY <1>13, <2>1, <3>3, <4>1
      <4>2. CASE i \in DOMAIN down
        <5>1. down'[i] = down[i] /\ SubOf(down[i].call) \notin served
          BY <2>1, <3>3, <4>2 DEF RpcInv, Served
        <5>2. down[i].call < n /\ down[i].call \in DOMAIN calls /\ ~IsPlain(down[i].call)
          BY <3>1, <3>3, <4>2, <5>1 DEF IsPlain
        <5>3. Kind(n) = "subscribe" => SubOf(n) # SubOf(down[i].call)
          <6>1. down[i].call \in Nat /\ n \in Nat
            BY <1>2, <4>2 DEF RpcInv, RpcTypes
          <6> QED BY <5>2, <6>1, <1>2 DEF RpcInv, CallsInOrder
        <5> QED BY <1>13, <5>1, <5>3
      <4> QED BY <2>1, <4>1, <4>2
    <3> QED BY <1>3, <1>4, <3>2, <3>3 DEF Served
  <2> QED BY <2>4, <2>5, <2>6, <2>7, <2>8, <2>9 DEF RpcInv
<1>14. CASE Kind(n) = "subscribe" /\ served' = served \cup {SubOf(n)}
            /\ down' = Append(down, [call |-> n, ok |-> TRUE]) /\ UNCHANGED serving
  BY <1>13, <1>14 DEF IsPlain
<1>15. CASE Kind(n) = "unsubscribe" /\ served' = served \ {SubOf(n)}
            /\ down' = Append(down, [call |-> n, ok |-> TRUE]) /\ UNCHANGED serving
  BY <1>13, <1>15 DEF IsPlain
<1>16. CASE ~IsPlain(n) /\ down' = Append(down, [call |-> n, ok |-> FALSE]) /\ UNCHANGED <<serving, served>>
  BY <1>13, <1>16
<1> QED BY <1>5, <1>12, <1>14, <1>15, <1>16

\* The session answers a plain call it works on.
LEMMA AnswerKeeps ==
    ASSUME RpcInv, NEW n, Rp!Answer(n)
    PROVE  RpcInv'
<1>1. PICK b, large \in BOOLEAN :
        /\ n \in serving /\ serving' = serving \ {n}
        /\ down' = Append(down, [call |-> n, ok |-> b]) /\ calls' = [calls EXCEPT ![n].large = large]
        /\ UNCHANGED <<adapter, dead, pending, active, reserved, up, served>>
  BY DEF Rp!Answer, Rp!Reply, Rp!client
<1>2. /\ adapter' = adapter /\ dead' = dead /\ pending' = pending /\ active' = active
      /\ reserved' = reserved /\ up' = up /\ served' = served
  BY <1>1
<1>3. n \in DOMAIN calls /\ calls \in Seq(Rp!CallType) /\ calls[n] \in Rp!CallType /\ n \in Nat
  <2>1. n \in DOMAIN calls /\ calls \in Seq(Rp!CallType)
    BY <1>1 DEF RpcInv, RpcTypes
  <2>2. DOMAIN calls = 1..Len(calls) /\ Len(calls) \in Nat
    BY <2>1, LenProperties
  <2> QED BY <2>1, <2>2, ElementOfSeq
<1>4. calls' \in Seq(Rp!CallType) /\ DOMAIN calls' = DOMAIN calls
  <2>1. [calls[n] EXCEPT !.large = large] \in Rp!CallType
    BY <1>1, <1>3 DEF Rp!CallType
  <2>2. calls' = [calls EXCEPT ![n] = [calls[n] EXCEPT !.large = large]]
    BY <1>1
  <2>3. n \in 1..Len(calls)
    BY <1>3, LenProperties
  <2>4. calls' \in Seq(Rp!CallType)
    BY <1>3, <2>1, <2>2, <2>3, ExceptSeq
  <2> QED BY <2>2, <2>4
<1>5. /\ \A m \in DOMAIN calls : m # n => calls'[m] = calls[m]
      /\ calls'[n].kind = calls[n].kind /\ calls'[n].sub = calls[n].sub /\ calls'[n].outcome = calls[n].outcome
  BY <1>1, <1>3 DEF Rp!CallType
<1>6. \A m \in DOMAIN calls : Kind(m)' = Kind(m) /\ SubOf(m)' = SubOf(m) /\ (IsPlain(m)' <=> IsPlain(m))
                              /\ calls'[m].outcome = calls[m].outcome
  BY <1>5 DEF Kind, SubOf, IsPlain
<1>7. IsPlain(n) /\ ~Sent(n) /\ ~Answered(n)
  BY <1>1 DEF RpcInv, OnePlace
<1>8. PICK last :
        /\ down' \in Seq([call : Nat, ok : BOOLEAN]) /\ last \in Nat
        /\ DOMAIN down = 1..last - 1 /\ last \in DOMAIN down'
        /\ \A i \in DOMAIN down : down'[i] = down[i] /\ i \in DOMAIN down' /\ i # last
        /\ down'[last].call = n
        /\ \A i \in DOMAIN down' : i = last \/ (i \in DOMAIN down /\ i < last)
  <2>1. PICK e : e = [call |-> n, ok |-> b]
    OBVIOUS
  <2>2. down \in Seq([call : Nat, ok : BOOLEAN]) /\ e \in [call : Nat, ok : BOOLEAN] /\ e.call = n
    BY <1>1, <1>3, <2>1 DEF RpcInv, RpcTypes
  <2>3. down' = Append(down, e)
    BY <1>1, <2>1
  <2>4. /\ Append(down, e) \in Seq([call : Nat, ok : BOOLEAN]) /\ Len(down) \in Nat
        /\ DOMAIN down = 1..Len(down) /\ DOMAIN Append(down, e) = 1..Len(down) + 1
        /\ \A i \in DOMAIN down : Append(down, e)[i] = down[i] /\ i \in DOMAIN Append(down, e)
        /\ Append(down, e)[Len(down) + 1] = e
        /\ \A i \in DOMAIN Append(down, e) : i \in DOMAIN down \/ i = Len(down) + 1
    BY <2>2, AppendFacts
  <2>5. PICK last : last = Len(down) + 1
    OBVIOUS
  <2>6. last - 1 = Len(down)
    BY <2>4, <2>5
  <2> QED BY <2>2, <2>3, <2>4, <2>5, <2>6
<1>9. \A i \in DOMAIN down : down[i].call \in DOMAIN calls /\ down[i].call # n
  BY <1>7 DEF RpcInv, RpcTypes, Answered
<1>10. /\ \A m : m # n => (Answered(m)' <=> Answered(m))
       /\ Answered(n)' /\ \A m : Sent(m)' <=> Sent(m)
  BY <1>2, <1>8 DEF Answered, Sent
<1>11. RpcTypes'
  <2>1. \A i \in DOMAIN down' : down'[i].call \in DOMAIN calls
    BY <1>3, <1>8, <1>9
  <2> QED BY <1>1, <1>2, <1>4, <1>8, <2>1 DEF RpcInv, RpcTypes
<1>12. CallsInOrder'
  <2>1. \A k, m \in DOMAIN calls :
           Kind(k)' = "subscribe" /\ ~IsPlain(m)' /\ SubOf(k)' = SubOf(m)' /\ k # m => k < m
    BY <1>6 DEF RpcInv, CallsInOrder
  <2>2. \A i \in DOMAIN down' : calls'[down'[i].call].kind # "plain" => i \in DOMAIN down /\ down'[i] = down[i] /\ ~IsPlain(down[i].call)
    BY <1>3, <1>6, <1>7, <1>8, <1>9 DEF IsPlain, Kind
  <2>3. \A i, j \in DOMAIN down' :
           i < j /\ calls'[down'[i].call].kind # "plain" /\ calls'[down'[j].call].kind # "plain" => down'[i].call < down'[j].call
    BY <2>2 DEF RpcInv, CallsInOrder
  <2>4. \A i \in DOMAIN down', j \in DOMAIN up : calls'[down'[i].call].kind # "plain" => down'[i].call < up[j]
    BY <2>2 DEF RpcInv, CallsInOrder
  <2>5. \A i, j \in DOMAIN up : i < j => up[i] < up[j]
    BY DEF RpcInv, CallsInOrder
  <2> QED BY <1>2, <1>4, <2>1, <2>3, <2>4, <2>5 DEF CallsInOrder, IsPlain, Kind
<1>13. OnePlace'
  <2>1. \A i, j \in DOMAIN down' : down'[i].call = down'[j].call => i = j
    BY <1>8, <1>9 DEF RpcInv, OnePlace
  <2>2. \A m \in serving' : IsPlain(m)' /\ ~Sent(m)' /\ ~Answered(m)'
    BY <1>1, <1>6, <1>10 DEF RpcInv, RpcTypes, OnePlace
  <2>3. \A m \in DOMAIN calls : ~(Sent(m)' /\ Answered(m)')
    BY <1>7, <1>10 DEF RpcInv, OnePlace
  <2>4. ~dead => \A m \in DOMAIN calls : m \in pending <=> Sent(m)' \/ m \in serving' \/ Answered(m)'
    BY <1>1, <1>10 DEF RpcInv, OnePlace
  <2> QED BY <1>2, <1>4, <2>1, <2>2, <2>3, <2>4 DEF OnePlace
<1>14. Outcomes'
  <2>1. \A m \in DOMAIN calls : calls'[m].large => IsPlain(m)
    BY <1>5, <1>7 DEF RpcInv, Outcomes
  <2>2. n \in pending \/ calls[n].outcome # "none"
    BY <1>1, <1>3 DEF RpcInv, Outcomes
  <2>3. \A m \in DOMAIN calls \ pending : calls'[m].outcome # "none" \/ (adapter = "direct" /\ calls'[m].large)
    BY <1>5, <2>2 DEF RpcInv, Outcomes
  <2>4. \A m \in DOMAIN calls \ pending : Sent(m)' \/ m \in serving' => calls'[m].outcome # "none"
    BY <1>1, <1>6, <1>10 DEF RpcInv, Outcomes
  <2>5. \A m \in pending : calls'[m].outcome = "none"
    BY <1>6 DEF RpcInv, Outcomes, RpcTypes
  <2> QED BY <1>2, <1>4, <1>6, <2>1, <2>3, <2>4, <2>5 DEF RpcInv, Outcomes
<1>15. Limit'
  <2>1. {SubOf(m)' : m \in {k \in pending : Kind(k)' = "subscribe"}} = {SubOf(m) : m \in {k \in pending : Kind(k) = "subscribe"}}
    BY <1>6 DEF RpcInv, RpcTypes
  <2>2. \A m \in DOMAIN calls : Kind(m)' = "unsubscribe" /\ calls'[m].outcome = "ok" => SubOf(m)' \notin active \cup reserved
    BY <1>6 DEF RpcInv, Limit
  <2> QED BY <1>2, <1>4, <2>1, <2>2 DEF RpcInv, Limit
<1>16. Served'
  <2>1. \A i \in DOMAIN down : down'[i] = down[i] /\ i \in DOMAIN down' /\ calls'[down[i].call].kind = Kind(down[i].call)
                               /\ calls'[down[i].call].sub = SubOf(down[i].call)
    BY <1>6, <1>8, <1>9 DEF Kind, SubOf
  <2>2. ~dead => \A s \in served : s \in active \/ \E i \in DOMAIN down' :
            down'[i].ok /\ calls'[down'[i].call].kind = "subscribe" /\ calls'[down'[i].call].sub = s
    <3>1. ASSUME ~dead, NEW s \in served, s \notin active
          PROVE  \E i \in DOMAIN down' : down'[i].ok /\ calls'[down'[i].call].kind = "subscribe" /\ calls'[down'[i].call].sub = s
      <4>1. PICK i \in DOMAIN down : down[i].ok /\ Kind(down[i].call) = "subscribe" /\ SubOf(down[i].call) = s
        BY <3>1 DEF RpcInv, Served
      <4> QED BY <4>1, <2>1
    <3> QED BY <3>1
  <2>3. \A i \in DOMAIN down' : down'[i].ok /\ calls'[down'[i].call].kind = "unsubscribe" => calls'[down'[i].call].sub \notin served
    <3>1. Kind(n)' # "unsubscribe"
      BY <1>3, <1>6, <1>7 DEF IsPlain
    <3>2. ASSUME NEW i \in DOMAIN down', down'[i].ok, calls'[down'[i].call].kind = "unsubscribe"
          PROVE  calls'[down'[i].call].sub \notin served
      <4>1. i \in DOMAIN down
        BY <3>1, <3>2, <1>8 DEF Kind
      <4>2. down[i].ok /\ Kind(down[i].call) = "unsubscribe" /\ calls'[down'[i].call].sub = SubOf(down[i].call)
        BY <2>1, <3>2, <4>1
      <4> QED BY <4>1, <4>2 DEF RpcInv, Served
    <3> QED BY <3>2
  <2> QED BY <1>2, <2>2, <2>3 DEF Served, Kind, SubOf
<1> QED BY <1>11, <1>12, <1>13, <1>14, <1>15, <1>16 DEF RpcInv

\* An answer of a call that is no longer pending is thrown away.
LEMMA StaleAnswerKeeps ==
    ASSUME RpcInv, down # <<>>, down' = Tail(down), Head(down).call \notin pending,
           UNCHANGED <<adapter, dead, calls, pending, active, reserved, up, serving, served>>
    PROVE  RpcInv'
<1>1. /\ down' \in Seq([call : Nat, ok : BOOLEAN]) /\ Head(down) = down[1] /\ 1 \in DOMAIN down
      /\ DOMAIN down = 1..Len(down) /\ DOMAIN down' = 1..Len(down) - 1 /\ Len(down) \in Nat
      /\ \A i \in DOMAIN down' : down'[i] = down[i + 1] /\ i + 1 \in DOMAIN down
  BY TailFacts DEF RpcInv, RpcTypes
<1>2. dead
  <2>1. down[1].call \in DOMAIN calls /\ Answered(down[1].call)
    BY <1>1 DEF RpcInv, RpcTypes, Answered
  <2> QED BY <1>1, <2>1 DEF RpcInv, OnePlace
<1>3. /\ adapter' = adapter /\ dead' = dead /\ pending' = pending /\ active' = active /\ calls' = calls
      /\ reserved' = reserved /\ up' = up /\ served' = served /\ serving' = serving
  OBVIOUS
<1>4. \A m : /\ Kind(m)' = Kind(m) /\ SubOf(m)' = SubOf(m) /\ (IsPlain(m)' <=> IsPlain(m))
             /\ (Sent(m)' <=> Sent(m)) /\ (Answered(m)' => Answered(m))
  BY <1>1, <1>3 DEF Kind, SubOf, IsPlain, Sent, Answered
<1>5. RpcTypes'
  BY <1>1, <1>3 DEF RpcInv, RpcTypes
<1>6. CallsInOrder'
  <2>3. \A i, j \in DOMAIN down' : i < j => i + 1 < j + 1
    BY <1>1
  <2>1. \A i, j \in DOMAIN down' :
           i < j /\ ~IsPlain(down'[i].call) /\ ~IsPlain(down'[j].call) => down'[i].call < down'[j].call
    BY <1>1, <2>3 DEF RpcInv, CallsInOrder
  <2>2. \A i \in DOMAIN down', j \in DOMAIN up : ~IsPlain(down'[i].call) => down'[i].call < up[j]
    BY <1>1 DEF RpcInv, CallsInOrder
  <2> QED BY <1>3, <1>4, <2>1, <2>2 DEF RpcInv, CallsInOrder
<1>7. OnePlace'
  <2>1. \A i, j \in DOMAIN down' : down'[i].call = down'[j].call => i = j
    BY <1>1 DEF RpcInv, OnePlace
  <2> QED BY <1>2, <1>3, <1>4, <2>1 DEF RpcInv, OnePlace
<1>8. Outcomes' /\ Limit'
  BY <1>3, <1>4 DEF RpcInv, Outcomes, Limit, Kind, SubOf
<1>9. Served'
  BY <1>1, <1>2, <1>3, <1>4 DEF RpcInv, Served
<1> QED BY <1>5, <1>6, <1>7, <1>8, <1>9 DEF RpcInv

\* The answer of a pending call settles it.
LEMMA AnswerReceivedKeeps ==
    ASSUME RpcInv, NEW n, NEW b, down # <<>>, n = Head(down).call, b = Head(down).ok,
           n \in pending, down' = Tail(down), pending' = pending \ {n},
           calls' = [calls EXCEPT ![n].outcome = Rp!Outcome(n, b)], Rp!Settle(calls[n], b),
           UNCHANGED <<adapter, dead, up, serving, served>>
    PROVE  RpcInv'
<1>1. /\ down' \in Seq([call : Nat, ok : BOOLEAN]) /\ down[1].call = n /\ down[1].ok = b /\ 1 \in DOMAIN down
      /\ DOMAIN down = 1..Len(down) /\ DOMAIN down' = 1..Len(down) - 1 /\ Len(down) \in Nat
      /\ \A i \in DOMAIN down' : down'[i] = down[i + 1] /\ i + 1 \in DOMAIN down
      /\ \A i \in DOMAIN down : i # 1 => i - 1 \in DOMAIN down' /\ down'[i - 1] = down[i]
  BY TailFacts DEF RpcInv, RpcTypes
<1>2. /\ adapter' = adapter /\ dead' = dead /\ up' = up /\ served' = served /\ serving' = serving
  OBVIOUS
<1>3. ~dead /\ n \in DOMAIN calls /\ calls[n] \in Rp!CallType /\ calls \in Seq(Rp!CallType) /\ b \in BOOLEAN
  <2>1. ~dead /\ n \in DOMAIN calls /\ calls \in Seq(Rp!CallType)
    BY DEF RpcInv, RpcTypes, Outcomes
  <2>2. DOMAIN calls = 1..Len(calls)
    BY <2>1, LenProperties
  <2>3. down[1] \in [call : Nat, ok : BOOLEAN]
    BY <1>1, ElementOfSeq DEF RpcInv, RpcTypes
  <2> QED BY <1>1, <2>1, <2>2, <2>3, ElementOfSeq
<1>4. PICK r : r = Rp!Outcome(n, b)
  OBVIOUS
<1>5. r \in {"none", "ok", "failed"} /\ (r = "none" => adapter = "direct" /\ calls[n].large) /\ (r = "ok" => b)
  BY <1>4 DEF Rp!Outcome
<1>6. calls' \in Seq(Rp!CallType) /\ DOMAIN calls' = DOMAIN calls
  <2>1. [calls[n] EXCEPT !.outcome = r] \in Rp!CallType
    BY <1>3, <1>5 DEF Rp!CallType
  <2>2. calls' = [calls EXCEPT ![n] = [calls[n] EXCEPT !.outcome = r]]
    BY <1>4
  <2>3. n \in 1..Len(calls)
    BY <1>3, LenProperties
  <2>4. calls' \in Seq(Rp!CallType)
    BY <1>3, <2>1, <2>2, <2>3, ExceptSeq
  <2> QED BY <2>2, <2>4
<1>7. /\ \A m \in DOMAIN calls : m # n => calls'[m] = calls[m]
      /\ calls'[n].kind = calls[n].kind /\ calls'[n].sub = calls[n].sub /\ calls'[n].large = calls[n].large
      /\ calls'[n].outcome = r
  BY <1>3, <1>4 DEF Rp!CallType
<1>8. \A m \in DOMAIN calls : /\ Kind(m)' = Kind(m) /\ SubOf(m)' = SubOf(m) /\ (IsPlain(m)' <=> IsPlain(m))
                              /\ calls'[m].large = calls[m].large
  BY <1>7 DEF Kind, SubOf, IsPlain
<1>9. Answered(n) /\ ~Sent(n) /\ n \notin serving
  <2>1. Answered(n)
    BY <1>1 DEF Answered
  <2> QED BY <1>3, <2>1 DEF RpcInv, OnePlace
<1>10. /\ \A m : m # n => (Answered(m)' <=> Answered(m))
       /\ ~Answered(n)' /\ \A m : Sent(m)' <=> Sent(m)
  <2>1. ASSUME NEW m, m # n
        PROVE  Answered(m)' <=> Answered(m)
    <3>1. Answered(m)' => Answered(m)
      BY <1>1 DEF Answered
    <3>2. ASSUME NEW i \in DOMAIN down, down[i].call = m
          PROVE  Answered(m)'
      <4>1. i - 1 \in DOMAIN down' /\ down'[i - 1] = down[i]
        BY <1>1, <2>1, <3>2
      <4> QED BY <3>2, <4>1 DEF Answered
    <3> QED BY <3>1, <3>2 DEF Answered
  <2>2. ~Answered(n)'
    BY <1>1 DEF Answered, RpcInv, OnePlace
  <2> QED BY <1>2, <2>1, <2>2 DEF Sent
<1>11. \A i \in DOMAIN down' : /\ down'[i].call \in DOMAIN calls
                              /\ calls'[down'[i].call].kind = Kind(down'[i].call) /\ calls'[down'[i].call].sub = SubOf(down'[i].call)
  BY <1>1, <1>8 DEF RpcInv, RpcTypes, Kind, SubOf
<1>12. /\ Kind(n) = "subscribe" /\ b => active' = active \cup {SubOf(n)}
       /\ Kind(n) = "unsubscribe" /\ b => active' = active \ {SubOf(n)}
       /\ ~b \/ Kind(n) = "plain" => active' = active
       /\ Kind(n) = "subscribe" => reserved' = reserved \ {SubOf(n)}
       /\ Kind(n) # "subscribe" => reserved' = reserved
       /\ Kind(n) \in {"plain", "subscribe", "unsubscribe"}
  BY <1>3 DEF Rp!Settle, Rp!CallType, Kind, SubOf
<1>13. active' \cup reserved' \subseteq active \cup reserved
  <2>1. Kind(n) = "subscribe" => SubOf(n) \in reserved
    BY <1>3 DEF RpcInv, Limit
  <2> QED BY <1>3, <1>12, <2>1
<1>14. RpcTypes'
  <2>1. IsFiniteSet(active') /\ IsFiniteSet(reserved')
    <3>1. IsFiniteSet(active \cup reserved)
      BY FS_Union DEF RpcInv, RpcTypes
    <3>2. active' \subseteq active \cup reserved /\ reserved' \subseteq active \cup reserved
      BY <1>13
    <3> QED BY <3>1, <3>2, FS_Subset
  <2> QED BY <1>1, <1>2, <1>6, <1>11, <2>1 DEF RpcInv, RpcTypes
<1>15. CallsInOrder'
  <2>1. \A k, m \in DOMAIN calls :
           Kind(k)' = "subscribe" /\ ~IsPlain(m)' /\ SubOf(k)' = SubOf(m)' /\ k # m => k < m
    BY <1>8 DEF RpcInv, CallsInOrder
  <2>5. \A i, j \in DOMAIN down' : i < j => i + 1 < j + 1
    BY <1>1
  <2>2. \A i, j \in DOMAIN down' :
           i < j /\ calls'[down'[i].call].kind # "plain" /\ calls'[down'[j].call].kind # "plain"
              => down'[i].call < down'[j].call
    <3>1. \A i \in DOMAIN down' :
             calls'[down'[i].call].kind = Kind(down[i + 1].call) /\ down'[i] = down[i + 1] /\ i + 1 \in DOMAIN down
      BY <1>1, <1>11
    <3>2. \A i, j \in DOMAIN down :
             i < j /\ Kind(down[i].call) # "plain" /\ Kind(down[j].call) # "plain" => down[i].call < down[j].call
      BY DEF RpcInv, CallsInOrder, IsPlain
    <3> QED BY <2>5, <3>1, <3>2
  <2>3. \A i \in DOMAIN down', j \in DOMAIN up : calls'[down'[i].call].kind # "plain" => down'[i].call < up[j]
    BY <1>1, <1>11 DEF RpcInv, CallsInOrder, IsPlain
  <2>4. \A i, j \in DOMAIN up : i < j => up[i] < up[j]
    BY DEF RpcInv, CallsInOrder
  <2> QED BY <1>2, <1>6, <2>1, <2>2, <2>3, <2>4 DEF CallsInOrder, IsPlain, Kind
<1>16. OnePlace'
  <2>1. \A i, j \in DOMAIN down' : down'[i].call = down'[j].call => i = j
    BY <1>1 DEF RpcInv, OnePlace
  <2>2. \A m \in serving : IsPlain(m)' /\ ~Sent(m)' /\ ~Answered(m)'
    BY <1>8, <1>9, <1>10 DEF RpcInv, RpcTypes, OnePlace
  <2>3. \A m \in DOMAIN calls : ~(Sent(m)' /\ Answered(m)')
    BY <1>10 DEF RpcInv, OnePlace
  <2>4. \A m \in DOMAIN calls : m \in pending' <=> Sent(m)' \/ m \in serving \/ Answered(m)'
    BY <1>3, <1>9, <1>10 DEF RpcInv, OnePlace
  <2> QED BY <1>2, <1>6, <2>1, <2>2, <2>3, <2>4 DEF OnePlace
<1>17. Outcomes'
  <2>1. \A m \in DOMAIN calls : calls'[m].large => IsPlain(m)'
    BY <1>8 DEF RpcInv, Outcomes
  <2>2. \A m \in DOMAIN calls \ pending' : calls'[m].outcome # "none" \/ (adapter = "direct" /\ calls'[m].large)
    BY <1>5, <1>7 DEF RpcInv, Outcomes
  <2>3. \A m \in DOMAIN calls \ pending' : Sent(m)' \/ m \in serving => calls'[m].outcome # "none"
    BY <1>7, <1>9, <1>10 DEF RpcInv, Outcomes
  <2>4. \A m \in pending' : calls'[m].outcome = "none"
    BY <1>7 DEF RpcInv, Outcomes, RpcTypes
  <2> QED BY <1>2, <1>3, <1>6, <2>1, <2>2, <2>3, <2>4 DEF Outcomes
<1>18. Limit'
  <2>1. reserved = {SubOf(m) : m \in {k \in pending : Kind(k) = "subscribe"}} /\ pending \subseteq DOMAIN calls
    BY <1>3 DEF RpcInv, Limit, RpcTypes
  <2>2. reserved' = {SubOf(m) : m \in {k \in pending' : Kind(k) = "subscribe"}}
    <3>1. CASE Kind(n) = "subscribe"
      <4>1. \A m \in pending : Kind(m) = "subscribe" /\ SubOf(m) = SubOf(n) => m = n
        <5>1. ASSUME NEW m \in pending, Kind(m) = "subscribe", SubOf(m) = SubOf(n), m # n
              PROVE  FALSE
          <6>1. m < n /\ n < m
            BY <2>1, <3>1, <5>1, <1>3 DEF RpcInv, CallsInOrder, IsPlain
          <6>2. m \in Nat /\ n \in Nat
            BY <1>3, <2>1, <5>1, LenProperties
          <6> QED BY <6>1, <6>2
        <5> QED BY <5>1
      <4>2. reserved' = reserved \ {SubOf(n)}
        BY <1>12, <3>1
      <4> QED BY <2>1, <4>1, <4>2
    <3>2. CASE Kind(n) # "subscribe"
      <4>1. reserved' = reserved
        BY <1>12, <3>2
      <4> QED BY <2>1, <4>1, <3>2
    <3> QED BY <3>1, <3>2
  <2>3. {SubOf(m)' : m \in {k \in pending' : Kind(k)' = "subscribe"}} = {SubOf(m) : m \in {k \in pending' : Kind(k) = "subscribe"}}
    BY <1>8, <2>1
  <2>4. Cardinality(active' \cup reserved') <= MaxSubs
    <3>1. IsFiniteSet(active \cup reserved) /\ Cardinality(active \cup reserved) <= MaxSubs
      BY <1>3, FS_Union DEF RpcInv, RpcTypes, Limit
    <3>2. Cardinality(active' \cup reserved') <= Cardinality(active \cup reserved)
          /\ Cardinality(active' \cup reserved') \in Nat /\ Cardinality(active \cup reserved) \in Nat
      BY <3>1, <1>13, FS_Subset, FS_CardinalityType
    <3>3. MaxSubs \in Nat
      BY BoundaryAssumption DEF Rp!RpcAssumption
    <3> QED BY <3>1, <3>2, <3>3
  <2>5. \A m \in DOMAIN calls : Kind(m) = "unsubscribe" /\ calls'[m].outcome = "ok" => SubOf(m) \notin active' \cup reserved'
    <3>1. ASSUME NEW m \in DOMAIN calls, m # n, Kind(m) = "unsubscribe", calls'[m].outcome = "ok"
          PROVE  SubOf(m) \notin active' \cup reserved'
      <4>1. SubOf(m) \notin active \cup reserved
        BY <1>7, <3>1 DEF RpcInv, Limit
      <4> QED BY <4>1, <1>13
    <3>2. ASSUME Kind(n) = "unsubscribe", r = "ok"
          PROVE  SubOf(n) \notin active' \cup reserved'
      <4>1. SubOf(n) \notin active' /\ reserved' = reserved
        BY <1>5, <1>12, <3>2
      <4>2. ASSUME NEW k \in pending, Kind(k) = "subscribe", SubOf(k) = SubOf(n)
            PROVE  FALSE
        <5>1. k \in DOMAIN calls /\ k # n /\ ~IsPlain(n) /\ ~IsPlain(k)
          BY <2>1, <3>2, <4>2 DEF IsPlain
        <5>2. k < n /\ k \in Nat /\ n \in Nat
          BY <1>3, <4>2, <5>1, LenProperties DEF RpcInv, CallsInOrder
        <5>3. Sent(k) \/ k \in serving \/ Answered(k)
          BY <1>3, <4>2, <5>1 DEF RpcInv, OnePlace
        <5>4. CASE Sent(k)
          <6>1. n < k
            BY <1>1, <5>1, <5>4 DEF Sent, RpcInv, CallsInOrder
          <6> QED BY <5>2, <6>1
        <5>5. CASE k \in serving
          BY <5>1, <5>5 DEF RpcInv, OnePlace
        <5>6. CASE Answered(k)
          <6>1. PICK j \in DOMAIN down : down[j].call = k
            BY <5>6 DEF Answered
          <6>2. 1 < j
            BY <1>1, <5>1, <6>1
          <6>3. n < k
            BY <1>1, <5>1, <6>1, <6>2 DEF RpcInv, CallsInOrder
          <6> QED BY <5>2, <6>3
        <5> QED BY <5>3, <5>4, <5>5, <5>6
      <4> QED BY <2>1, <4>1, <4>2
    <3> QED BY <3>1, <3>2, <1>7
  <2> QED BY <1>6, <1>8, <2>2, <2>3, <2>4, <2>5 DEF Limit
<1>19. Served'
  <2>1. \A s \in served : s \in active' \/ \E i \in DOMAIN down' :
           down'[i].ok /\ Kind(down'[i].call) = "subscribe" /\ SubOf(down'[i].call) = s
    <3>1. ASSUME NEW s \in served, s \notin active'
          PROVE  \E i \in DOMAIN down' : down'[i].ok /\ Kind(down'[i].call) = "subscribe" /\ SubOf(down'[i].call) = s
      <4>1. s \notin active
        <5>1. Kind(n) = "unsubscribe" /\ b => SubOf(n) \notin served
          BY <1>1 DEF RpcInv, Served
        <5> QED BY <3>1, <5>1, <1>3, <1>12
      <4>2. PICK i \in DOMAIN down : down[i].ok /\ Kind(down[i].call) = "subscribe" /\ SubOf(down[i].call) = s
        BY <1>3, <4>1 DEF RpcInv, Served
      <4>3. i # 1
        BY <1>1, <1>12, <3>1, <4>2
      <4>4. i - 1 \in DOMAIN down' /\ down'[i - 1] = down[i]
        BY <1>1, <4>2, <4>3
      <4> QED BY <4>2, <4>4
    <3> QED BY <3>1
  <2>2. \A i \in DOMAIN down' : down'[i].ok /\ Kind(down'[i].call) = "unsubscribe" => SubOf(down'[i].call) \notin served
    BY <1>1 DEF RpcInv, Served
  <2> QED BY <1>2, <1>11, <2>1, <2>2 DEF Served, Kind, SubOf
<1> QED BY <1>14, <1>15, <1>16, <1>17, <1>18, <1>19 DEF RpcInv

\* The adapter receives an answer, of a pending call or of one that was given up.
LEMMA ReceiveKeeps ==
    ASSUME RpcInv, Rp!Receive
    PROVE  RpcInv'
<1>1. CASE Head(down).call \notin pending
  BY <1>1, StaleAnswerKeeps DEF Rp!Receive
<1>2. CASE Head(down).call \in pending
  <2>1. PICK n, b : n = Head(down).call /\ b = Head(down).ok
    OBVIOUS
  <2> QED BY <1>2, <2>1, AnswerReceivedKeeps DEF Rp!Receive
<1> QED BY <1>1, <1>2

\* The end of the adapter rejects what is pending.
LEMMA TerminateKeeps ==
    ASSUME RpcInv, Rp!Terminate
    PROVE  RpcInv'
<1>1. /\ dead' = TRUE /\ pending' = {} /\ adapter' = adapter /\ active' = active /\ reserved' = reserved /\ served' = served
      /\ \/ up' = up /\ serving' = serving /\ down' = down
         \/ up' = <<>> /\ serving' = {} /\ down' = <<>>
  BY DEF Rp!Terminate, Rp!wire
<1>2. calls \in Seq(Rp!CallType) /\ Len(calls) \in Nat /\ DOMAIN calls = 1..Len(calls)
      /\ \A m \in DOMAIN calls : calls[m] \in Rp!CallType
  <2>1. calls \in Seq(Rp!CallType)
    BY DEF RpcInv, RpcTypes
  <2> QED BY <2>1, LenProperties, ElementOfSeq
<1>3. calls' = [m \in 1..Len(calls) |-> IF m \in pending THEN [calls[m] EXCEPT !.outcome = "failed"] ELSE calls[m]]
  BY <1>2 DEF Rp!Terminate, Rp!Rejected, Rp!Numbers
<1>4. DOMAIN calls' = DOMAIN calls
  BY <1>2, <1>3
<1>5. ASSUME NEW m \in DOMAIN calls
      PROVE  /\ calls'[m] \in Rp!CallType
             /\ calls'[m].kind = calls[m].kind /\ calls'[m].sub = calls[m].sub /\ calls'[m].large = calls[m].large
             /\ m \in pending => calls'[m].outcome = "failed"
             /\ m \notin pending => calls'[m].outcome = calls[m].outcome
  <2>1. CASE m \in pending
    <3>1. PICK c : c = calls[m] /\ c \in Rp!CallType
      BY <1>2
    <3>2. calls'[m] = [c EXCEPT !.outcome = "failed"]
      BY <1>2, <1>3, <2>1, <3>1
    <3> QED BY <2>1, <3>1, <3>2 DEF Rp!CallType
  <2>2. CASE m \notin pending
    BY <1>2, <1>3, <2>2
  <2> QED BY <2>1, <2>2
<1>6. calls' \in Seq(Rp!CallType)
  <2>1. calls' \in [1..Len(calls) -> Rp!CallType]
    BY <1>2, <1>3, <1>5
  <2> QED BY <1>2, <2>1, SeqDef
<1>7. \A m \in DOMAIN calls : Kind(m)' = Kind(m) /\ SubOf(m)' = SubOf(m) /\ (IsPlain(m)' <=> IsPlain(m))
  BY <1>5 DEF Kind, SubOf, IsPlain
<1>8. \A m : (Sent(m)' => Sent(m)) /\ (Answered(m)' => Answered(m)) /\ (m \in serving' => m \in serving)
  BY <1>1 DEF Sent, Answered
<1>9. RpcTypes'
  <2>1. up' \in Seq(Nat) /\ down' \in Seq([call : Nat, ok : BOOLEAN]) /\ serving' \subseteq DOMAIN calls
    BY <1>1, EmptySeq DEF RpcInv, RpcTypes
  <2>2. (\A i \in DOMAIN up' : up'[i] \in DOMAIN calls) /\ (\A i \in DOMAIN down' : down'[i].call \in DOMAIN calls)
    BY <1>1 DEF RpcInv, RpcTypes
  <2> QED BY <1>1, <1>4, <1>6, <2>1, <2>2 DEF RpcInv, RpcTypes
<1>10. /\ \A i \in DOMAIN down' : down'[i].call \in DOMAIN calls /\ i \in DOMAIN down /\ down'[i] = down[i]
       /\ \A i \in DOMAIN up' : i \in DOMAIN up /\ up'[i] = up[i]
  BY <1>1 DEF RpcInv, RpcTypes
<1>11. CallsInOrder'
  <2>1. \A k, m \in DOMAIN calls :
           Kind(k)' = "subscribe" /\ ~IsPlain(m)' /\ SubOf(k)' = SubOf(m)' /\ k # m => k < m
    BY <1>7 DEF RpcInv, CallsInOrder
  <2>2. \A i \in DOMAIN down' : calls'[down'[i].call].kind = Kind(down[i].call)
    BY <1>7, <1>10 DEF Kind
  <2>3. \A i, j \in DOMAIN down' :
           i < j /\ calls'[down'[i].call].kind # "plain" /\ calls'[down'[j].call].kind # "plain"
              => down'[i].call < down'[j].call
    BY <1>10, <2>2 DEF RpcInv, CallsInOrder, IsPlain
  <2>4. \A i \in DOMAIN down', j \in DOMAIN up' : calls'[down'[i].call].kind # "plain" => down'[i].call < up'[j]
    BY <1>10, <2>2 DEF RpcInv, CallsInOrder, IsPlain
  <2>5. \A i, j \in DOMAIN up' : i < j => up'[i] < up'[j]
    BY <1>10 DEF RpcInv, CallsInOrder
  <2> QED BY <1>4, <2>1, <2>3, <2>4, <2>5 DEF CallsInOrder, IsPlain, Kind
<1>12. OnePlace'
  <2>1. \A i, j \in DOMAIN down' : down'[i].call = down'[j].call => i = j
    BY <1>10 DEF RpcInv, OnePlace
  <2>2. \A m \in serving' : IsPlain(m)' /\ ~Sent(m)' /\ ~Answered(m)'
    BY <1>7, <1>8 DEF RpcInv, RpcTypes, OnePlace
  <2>3. \A m \in DOMAIN calls : ~(Sent(m)' /\ Answered(m)')
    BY <1>8 DEF RpcInv, OnePlace
  <2> QED BY <1>1, <1>4, <2>1, <2>2, <2>3 DEF OnePlace
<1>13. Outcomes'
  <2>1. \A m \in DOMAIN calls : calls'[m].outcome # "none" \/ (adapter = "direct" /\ calls'[m].large)
    BY <1>5 DEF RpcInv, Outcomes
  <2>2. \A m \in DOMAIN calls : Sent(m)' \/ m \in serving' => calls'[m].outcome # "none"
    BY <1>5, <1>8 DEF RpcInv, Outcomes
  <2>3. \A m \in DOMAIN calls : calls'[m].large => IsPlain(m)'
    BY <1>5, <1>7 DEF RpcInv, Outcomes
  <2> QED BY <1>1, <1>4, <2>1, <2>2, <2>3 DEF Outcomes
<1>14. Limit'
  <2>1. \A m \in DOMAIN calls : Kind(m)' = "unsubscribe" /\ calls'[m].outcome = "ok" => SubOf(m)' \notin active \cup reserved
    BY <1>5, <1>7 DEF RpcInv, Limit
  <2> QED BY <1>1, <1>4, <2>1 DEF Limit
<1>15. Served'
  <2>1. \A i \in DOMAIN down' : /\ calls'[down'[i].call].kind = Kind(down[i].call)
                                /\ calls'[down'[i].call].sub = SubOf(down[i].call)
    BY <1>7, <1>10 DEF Kind, SubOf
  <2>2. \A i \in DOMAIN down' : down'[i].ok /\ calls'[down'[i].call].kind = "unsubscribe" => calls'[down'[i].call].sub \notin served
    BY <1>10, <2>1 DEF RpcInv, Served
  <2> QED BY <1>1, <2>2 DEF Served, Kind, SubOf
<1> QED BY <1>9, <1>11, <1>12, <1>13, <1>14, <1>15 DEF RpcInv

\* Every step of SessionRpc keeps the invariant.
LEMMA RpcStep ==
    ASSUME RpcInv, Rp!RpcAssumption, Rp!Next
    PROVE  RpcInv'
<1>1. ASSUME NEW verb \in {"plain", "subscribe", "unsubscribe"}, NEW s \in Subs \cup {"none"}, ~dead,
             verb = "subscribe" => \A n \in DOMAIN calls : calls[n].sub # s,
             Rp!Accepted(Rp!Call(verb, s)) \/ Rp!Refused(Rp!Call(verb, s)),
             UNCHANGED <<adapter, dead, active, serving, down, served>>
      PROVE  RpcInv'
  <2>1. PICK c : c = Rp!Call(verb, s)
    OBVIOUS
  <2>2. c \in Rp!CallType /\ c.outcome = "none" /\ ~c.large /\ c.kind = verb /\ c.sub = s
    BY <1>1, <2>1 DEF Rp!Call, Rp!CallType
  <2> QED BY <1>1, <2>1, <2>2, NewCallKeeps DEF SubOf
<1>2. CASE Rp!PlainCall
  BY <1>1, <1>2 DEF Rp!PlainCall
<1>3. ASSUME NEW s \in Subs, Rp!Subscribe(s)
      PROVE  RpcInv'
  BY <1>1, <1>3 DEF Rp!Subscribe, Rp!Numbers
<1>4. ASSUME NEW s \in Subs, Rp!RequestUnsubscribe(s), UNCHANGED <<adapter, dead, active, serving, down, served>>
      PROVE  RpcInv'
  <2>1. CASE dead
    BY <1>4, <2>1, EvictionKeeps DEF Rp!RequestUnsubscribe
  <2>2. CASE ~dead
    BY <1>1, <1>4, <2>2 DEF Rp!RequestUnsubscribe
  <2> QED BY <2>1, <2>2
<1>5. ASSUME NEW s \in Subs, Rp!Dispose(s) \/ Rp!Report(s)
      PROVE  RpcInv'
  BY <1>4, <1>5 DEF Rp!Dispose, Rp!Report
<1>6. ASSUME NEW s \in Subs, Rp!Evict(s) \/ Rp!SessionEvicts(s)
      PROVE  RpcInv'
  BY <1>6, EvictionKeeps DEF Rp!Evict, Rp!SessionEvicts, Rp!wire
<1>7. ASSUME NEW n \in 1..MaxCalls, Rp!Answer(n)
      PROVE  RpcInv'
  BY <1>7, AnswerKeeps
<1> QED BY <1>2, <1>3, <1>5, <1>6, <1>7, ServeKeeps, ReceiveKeeps, TerminateKeeps DEF Rp!Next

\* What the invariant says of the properties.
LEMMA RpcAccounts ==
    ASSUME RpcInv
    PROVE  CallsAccounted
<1>1. ASSUME NEW n \in pending
      PROVE  Cardinality({i \in DOMAIN up : up[i] = n}) + Cardinality({n} \cap serving)
                + Cardinality({i \in DOMAIN down : down[i].call = n}) = 1
  <2>1. n \in DOMAIN calls /\ ~dead
    BY DEF RpcInv, RpcTypes, Outcomes
  <2>2. \/ Sent(n) /\ n \notin serving /\ ~Answered(n)
        \/ ~Sent(n) /\ n \in serving /\ ~Answered(n)
        \/ ~Sent(n) /\ n \notin serving /\ Answered(n)
    BY <2>1 DEF RpcInv, OnePlace
  <2>3. \/ {i \in DOMAIN up : up[i] = n} = {} /\ ~Sent(n)
        \/ (\E k : {i \in DOMAIN up : up[i] = n} = {k}) /\ Sent(n)
    <3>1. \A i, j \in DOMAIN up : up[i] = n /\ up[j] = n => i = j
      <4>1. DOMAIN up = 1..Len(up) /\ Len(up) \in Nat /\ \A i \in DOMAIN up : up[i] \in Nat
        <5>1. up \in Seq(Nat)
          BY DEF RpcInv, RpcTypes
        <5> QED BY <5>1, LenProperties, ElementOfSeq
      <4>2. \A i, j \in DOMAIN up : i < j => up[i] < up[j]
        BY DEF RpcInv, CallsInOrder
      <4> QED BY <4>1, <4>2
    <3>2. ASSUME NEW k \in DOMAIN up, up[k] = n
          PROVE  {i \in DOMAIN up : up[i] = n} = {k}
      BY <3>1, <3>2
    <3> QED BY <3>2 DEF Sent
  <2>4. \/ {i \in DOMAIN down : down[i].call = n} = {} /\ ~Answered(n)
        \/ (\E k : {i \in DOMAIN down : down[i].call = n} = {k}) /\ Answered(n)
    <3>1. \A i, j \in DOMAIN down : down[i].call = n /\ down[j].call = n => i = j
      BY DEF RpcInv, OnePlace
    <3>2. ASSUME NEW k \in DOMAIN down, down[k].call = n
          PROVE  {i \in DOMAIN down : down[i].call = n} = {k}
      BY <3>1, <3>2
    <3> QED BY <3>2 DEF Answered
  <2>5. {n} \cap serving = IF n \in serving THEN {n} ELSE {}
    OBVIOUS
  <2>6. Cardinality({}) = 0 /\ \A k : Cardinality({k}) = 1
    BY FS_EmptySet, FS_Singleton
  <2>7. /\ Cardinality({i \in DOMAIN up : up[i] = n}) = IF Sent(n) THEN 1 ELSE 0
        /\ Cardinality({n} \cap serving) = IF n \in serving THEN 1 ELSE 0
        /\ Cardinality({i \in DOMAIN down : down[i].call = n}) = IF Answered(n) THEN 1 ELSE 0
    BY <2>3, <2>4, <2>5, <2>6
  <2> QED BY <2>2, <2>7
<1>2. Rp!CallsAccounted
  BY <1>1, SizeIsCardinality DEF RpcInv, Outcomes, Rp!CallsAccounted, Rp!Numbers
<1>3. Rp!SubscriptionsCounted
  <2>1. ASSUME ~dead
        PROVE  reserved = {calls[n].sub : n \in Rp!Of("subscribe", pending)}
    BY <2>1 DEF RpcInv, Limit, Kind, SubOf, Rp!Of
  <2>2. ASSUME ~dead
        PROVE  Rp!Cardinality(active \cup reserved) <= MaxSubs
    BY <2>2, SizeIsCardinality DEF RpcInv, Limit
  <2>3. ASSUME ~dead
        PROVE  served \subseteq active \cup {calls[n].sub : n \in pending}
    <3>1. ASSUME NEW s \in served, s \notin active
          PROVE  \E n \in pending : calls[n].sub = s
      <4>1. PICK i \in DOMAIN down : SubOf(down[i].call) = s
        BY <2>3, <3>1 DEF RpcInv, Served
      <4>2. down[i].call \in pending
        BY <2>3 DEF RpcInv, RpcTypes, OnePlace, Answered
      <4> QED BY <4>1, <4>2 DEF SubOf
    <3> QED BY <3>1
  <2>4. \A n \in Rp!Of("unsubscribe", Rp!Numbers) :
           calls[n].outcome = "ok" => calls[n].sub \notin active \cup reserved
    BY DEF RpcInv, Limit, Kind, SubOf, Rp!Of, Rp!Numbers
  <2> QED BY <2>1, <2>2, <2>3, <2>4 DEF Rp!SubscriptionsCounted
<1> QED BY <1>2, <1>3 DEF CallsAccounted

\* A call that the adapter holds is in exactly one place and a call it does not hold
\* was settled; the limit on subscriptions counts those made and those asked for, and
\* the session serves no others.
THEOREM BoundaryCallsAccounted == BoundarySpec => []CallsAccounted
<1>1. BoundaryInit => RpcInv
  <2> SUFFICES ASSUME BoundaryInit PROVE RpcInv
    OBVIOUS
  <2>1. /\ adapter \in Adapters /\ dead = FALSE /\ calls = <<>> /\ pending = {} /\ active = {} /\ reserved = {}
        /\ up = <<>> /\ serving = {} /\ down = <<>> /\ served = {}
    BY DEF BoundaryInit, Rp!Init
  <2>2. RpcTypes
    <3>1. calls \in Seq(Rp!CallType) /\ up \in Seq(Nat) /\ down \in Seq([call : Nat, ok : BOOLEAN])
      BY <2>1, EmptySeq
    <3>2. IsFiniteSet(active) /\ IsFiniteSet(reserved)
      BY <2>1, FS_EmptySet
    <3>3. DOMAIN up = {} /\ DOMAIN down = {}
      BY <2>1
    <3> QED BY <2>1, <3>1, <3>2, <3>3 DEF RpcTypes
  <2>3. CallsInOrder /\ OnePlace /\ Outcomes
    BY <2>1 DEF CallsInOrder, OnePlace, Outcomes
  <2>4. Limit
    <3>1. Cardinality(active \cup reserved) = 0 /\ MaxSubs \in Nat
      BY <2>1, FS_EmptySet, BoundaryAssumption DEF Rp!RpcAssumption
    <3> QED BY <2>1, <3>1 DEF Limit
  <2>5. Served
    BY <2>1 DEF Served
  <2> QED BY <2>2, <2>3, <2>4, <2>5 DEF RpcInv
<1>2. RpcInv /\ [BoundaryNext]_boundaryVars => RpcInv'
  <2> SUFFICES ASSUME RpcInv, [BoundaryNext]_boundaryVars PROVE RpcInv'
    OBVIOUS
  <2>1. CASE kind = "calls" /\ Rp!Next
    BY <2>1, RpcStep, BoundaryAssumption
  <2>2. CASE UNCHANGED rpc
    BY <2>2, EvictionKeeps DEF rpc
  <2> QED BY <2>1, <2>2 DEF BoundaryNext, boundaryVars
<1> QED BY <1>1, <1>2, RpcAccounts, PTL DEF BoundarySpec

-----------------------------------------------------------------------------
Agree(b) == /\ \A c \in Clients \ missed : c \in sess[b].clients <=> c \in hosted.clients
            /\ \A s \in LeasedSubs \ missed : s \in sess[b].subs <=> s \in hosted.subs

LeaseTypes ==
    /\ hosted \in [clients : SUBSET Clients, subs : SUBSET LeasedSubs, capture : Nat]
    /\ build \in [Builds -> [stage : {"idle", "resolving", "creating", "capturing", "refused", "installed"}, capture : Nat]]
    /\ server \in Builds \cup {0}
    /\ sess \in [Builds -> [clients : SUBSET Clients, subs : SUBSET LeasedSubs, capture : BOOLEAN, link : {"idle", "connecting", "connected", "closed"}]]
    /\ accepted \in [clients : SUBSET Clients, subs : SUBSET LeasedSubs]
    /\ past \in [asked : Nat, settled : SUBSET Nat, late : SUBSET Nat]

OneSession ==
    "all" \notin missed =>
    /\ \A b, d \in Builds : Cl!UnderWay(b) /\ Cl!UnderWay(d) => b = d
    /\ server # 0 => \A b \in Builds : ~Cl!UnderWay(b)
    /\ server = 0 => hosted.clients = accepted.clients /\ hosted.subs = accepted.subs
    /\ \A b \in Builds : Cl!At(b, "capturing") => Agree(b) 

OneCapture ==
    "all" \notin missed =>
    /\ hosted.capture \in 0 .. past.asked
    /\ \A k \in 1 .. past.asked : k \in past.settled \/ (hosted.capture = k /\ (server = 0 \/ k \in past.late))
    /\ \A b \in Builds : Cl!UnderWay(b) /\ ~Cl!At(b, "resolving") =>
         /\ build[b].capture # 0 => hosted.capture = build[b].capture
         /\ build[b].capture = 0 /\ hosted.capture # 0 => hosted.capture \in past.late
         /\ Cl!At(b, "capturing") => build[b].capture # 0

LeasesInv == LeaseTypes /\ OneSession /\ OneCapture /\ Cl!SessionKnowsClients

\* The lists of the host change alike for those accepted, and the session being made
\* misses what changes while it is.
LEMMA HostListsKeep ==
    ASSUME LeasesInv, Cl!ClientsAssumption, Cl!Waiting, NEW x,
           hosted' \in [clients : SUBSET Clients, subs : SUBSET LeasedSubs, capture : Nat],
           accepted' \in [clients : SUBSET Clients, subs : SUBSET LeasedSubs],
           hosted'.capture = hosted.capture,
           \A y : y # x => /\ y \in hosted'.clients <=> y \in hosted.clients
                           /\ y \in hosted'.subs <=> y \in hosted.subs,
           hosted.clients = accepted.clients /\ hosted.subs = accepted.subs =>
               hosted'.clients = accepted'.clients /\ hosted'.subs = accepted'.subs,
           Cl!Replayed(x), Cl!HostUnchanged, UNCHANGED past
    PROVE  LeasesInv'
<1>1. /\ build' = build /\ server' = server /\ sess' = sess /\ past' = past /\ server = 0
      /\ missed \subseteq missed'
      /\ \A b \in Builds : Cl!At(b, "capturing") => x \in missed'
  BY DEF Cl!HostUnchanged, Cl!Replayed, Cl!Waiting
<1>2. LeaseTypes'
  BY <1>1 DEF LeasesInv, LeaseTypes
<1>3. OneSession'
  <2> SUFFICES ASSUME "all" \notin missed'
               PROVE  /\ \A b, d \in Builds : Cl!UnderWay(b)' /\ Cl!UnderWay(d)' => b = d
                      /\ server' # 0 => \A b \in Builds : ~Cl!UnderWay(b)'
                      /\ server' = 0 => hosted'.clients = accepted'.clients /\ hosted'.subs = accepted'.subs
                      /\ \A b \in Builds : Cl!At(b, "capturing")' => Agree(b)'
    BY DEF OneSession
  <2>1. "all" \notin missed
    BY <1>1
  <2>2. \A b, d \in Builds : Cl!UnderWay(b)' /\ Cl!UnderWay(d)' => b = d
    BY <1>1, <2>1 DEF LeasesInv, OneSession, Cl!UnderWay
  <2>3. hosted'.clients = accepted'.clients /\ hosted'.subs = accepted'.subs
    BY <1>1, <2>1 DEF LeasesInv, OneSession
  <2>4. ASSUME NEW b \in Builds, Cl!At(b, "capturing")'
        PROVE  Agree(b)'
    <3>1. Cl!At(b, "capturing") /\ x \in missed'
      BY <1>1, <2>4 DEF Cl!At
    <3>2. Agree(b)
      BY <2>1, <3>1 DEF LeasesInv, OneSession
    <3> QED BY <1>1, <3>1, <3>2 DEF Agree
  <2> QED BY <1>1, <2>2, <2>3, <2>4
<1>4. OneCapture'
  BY <1>1 DEF LeasesInv, OneCapture, Cl!UnderWay, Cl!At
<1>5. Cl!SessionKnowsClients'
  BY <1>1 DEF Cl!SessionKnowsClients
<1> QED BY <1>2, <1>3, <1>4, <1>5 DEF LeasesInv

\* A build moves on without the capture being settled or the session installed.
LEMMA HostRequestsKeep ==
    ASSUME LeasesInv, Cl!ClientsAssumption,
           \/ \E c \in Clients : Cl!HostAttach(c) \/ Cl!HostDetach(c)
           \/ \E s \in LeasedSubs : Cl!HostSubscribe(s) \/ Cl!HostUnsubscribe(s)
    PROVE  LeasesInv'
<1>1. /\ hosted \in [clients : SUBSET Clients, subs : SUBSET LeasedSubs, capture : Nat]
      /\ accepted \in [clients : SUBSET Clients, subs : SUBSET LeasedSubs]
  BY DEF LeasesInv, LeaseTypes
<1>2. ASSUME NEW c \in Clients, Cl!HostAttach(c)
      PROVE  LeasesInv'
  <2>1. /\ hosted' = [hosted EXCEPT !.clients = @ \cup {c}] /\ accepted' = [accepted EXCEPT !.clients = @ \cup {c}]
    BY <1>2 DEF Cl!HostAttach
  <2>2. /\ hosted' \in [clients : SUBSET Clients, subs : SUBSET LeasedSubs, capture : Nat]
        /\ accepted' \in [clients : SUBSET Clients, subs : SUBSET LeasedSubs]
        /\ hosted'.clients = hosted.clients \cup {c} /\ hosted'.subs = hosted.subs /\ hosted'.capture = hosted.capture
        /\ accepted'.clients = accepted.clients \cup {c} /\ accepted'.subs = accepted.subs
    BY <1>1, <2>1
  <2> QED BY <1>2, <2>2, HostListsKeep DEF Cl!HostAttach
<1>3. ASSUME NEW c \in Clients, Cl!HostDetach(c)
      PROVE  LeasesInv'
  <2>1. /\ hosted' = [hosted EXCEPT !.clients = @ \ {c}] /\ accepted' = [accepted EXCEPT !.clients = @ \ {c}]
    BY <1>3 DEF Cl!HostDetach
  <2>2. /\ hosted' \in [clients : SUBSET Clients, subs : SUBSET LeasedSubs, capture : Nat]
        /\ accepted' \in [clients : SUBSET Clients, subs : SUBSET LeasedSubs]
        /\ hosted'.clients = hosted.clients \ {c} /\ hosted'.subs = hosted.subs /\ hosted'.capture = hosted.capture
        /\ accepted'.clients = accepted.clients \ {c} /\ accepted'.subs = accepted.subs
    BY <1>1, <2>1
  <2> QED BY <1>3, <2>2, HostListsKeep DEF Cl!HostDetach
<1>4. ASSUME NEW s \in LeasedSubs, Cl!HostSubscribe(s)
      PROVE  LeasesInv'
  <2>1. /\ hosted' = [hosted EXCEPT !.subs = @ \cup {s}] /\ accepted' = [accepted EXCEPT !.subs = @ \cup {s}]
    BY <1>4 DEF Cl!HostSubscribe
  <2>2. /\ hosted' \in [clients : SUBSET Clients, subs : SUBSET LeasedSubs, capture : Nat]
        /\ accepted' \in [clients : SUBSET Clients, subs : SUBSET LeasedSubs]
        /\ hosted'.subs = hosted.subs \cup {s} /\ hosted'.clients = hosted.clients /\ hosted'.capture = hosted.capture
        /\ accepted'.subs = accepted.subs \cup {s} /\ accepted'.clients = accepted.clients
    BY <1>1, <2>1
  <2> QED BY <1>4, <2>2, HostListsKeep DEF Cl!HostSubscribe
<1>5. ASSUME NEW s \in LeasedSubs, Cl!HostUnsubscribe(s)
      PROVE  LeasesInv'
  <2>1. /\ hosted' = [hosted EXCEPT !.subs = @ \ {s}] /\ accepted' = [accepted EXCEPT !.subs = @ \ {s}]
    BY <1>5 DEF Cl!HostUnsubscribe
  <2>2. /\ hosted' \in [clients : SUBSET Clients, subs : SUBSET LeasedSubs, capture : Nat]
        /\ accepted' \in [clients : SUBSET Clients, subs : SUBSET LeasedSubs]
        /\ hosted'.subs = hosted.subs \ {s} /\ hosted'.clients = hosted.clients /\ hosted'.capture = hosted.capture
        /\ accepted'.subs = accepted.subs \ {s} /\ accepted'.clients = accepted.clients
    BY <1>1, <2>1
  <2> QED BY <1>5, <2>2, HostListsKeep DEF Cl!HostUnsubscribe
<1> QED BY <1>2, <1>3, <1>4, <1>5

\* A capture is asked for while no session is installed.
LEMMA HostStartCaptureKeeps ==
    ASSUME LeasesInv, Cl!HostStartCapture
    PROVE  LeasesInv'
<1>1. /\ hosted \in [clients : SUBSET Clients, subs : SUBSET LeasedSubs, capture : Nat]
      /\ past \in [asked : Nat, settled : SUBSET Nat, late : SUBSET Nat]
  BY DEF LeasesInv, LeaseTypes
<1>2. PICK k, late : k = past.asked + 1
        /\ late = IF \E b \in Builds : build[b].stage \in {"creating", "capturing"} THEN past.late \cup {k} ELSE past.late
  OBVIOUS
<1>3. /\ server = 0 /\ hosted.capture = 0 /\ hosted' = [hosted EXCEPT !.capture = k]
      /\ past' = [past EXCEPT !.asked = k, !.late = late]
      /\ build' = build /\ server' = server /\ sess' = sess /\ accepted' = accepted /\ missed' = missed
  BY <1>2 DEF Cl!HostStartCapture, Cl!HostUnchanged, Cl!Waiting
<1>4. /\ k \in Nat /\ late \in SUBSET Nat /\ k = past.asked + 1
  BY <1>1, <1>2
<1>5. /\ hosted' \in [clients : SUBSET Clients, subs : SUBSET LeasedSubs, capture : Nat]
      /\ hosted'.clients = hosted.clients /\ hosted'.subs = hosted.subs /\ hosted'.capture = k
  BY <1>1, <1>3, <1>4
<1>6. /\ past' \in [asked : Nat, settled : SUBSET Nat, late : SUBSET Nat]
      /\ past'.asked = k /\ past'.late = late /\ past'.settled = past.settled
  BY <1>1, <1>3, <1>4
<1>7. LeaseTypes'
  BY <1>3, <1>5, <1>6 DEF LeasesInv, LeaseTypes
<1>8. OneSession' /\ Cl!SessionKnowsClients'
  BY <1>3, <1>5 DEF LeasesInv, OneSession, Cl!SessionKnowsClients, Agree, Cl!UnderWay, Cl!At, Cl!S
<1>9. OneCapture'
  <2> SUFFICES ASSUME "all" \notin missed
               PROVE  /\ hosted'.capture \in 0 .. past'.asked
                      /\ \A j \in 1 .. past'.asked :
                            j \in past'.settled \/ (hosted'.capture = j /\ (server' = 0 \/ j \in past'.late))
                      /\ \A b \in Builds : Cl!UnderWay(b) /\ ~Cl!At(b, "resolving") =>
                            /\ build[b].capture # 0 => hosted'.capture = build[b].capture
                            /\ build[b].capture = 0 /\ hosted'.capture # 0 => hosted'.capture \in past'.late
                            /\ Cl!At(b, "capturing") => build[b].capture # 0
    BY <1>3 DEF OneCapture, Cl!UnderWay, Cl!At
  <2>1. \A j \in 1 .. past.asked : j \in past.settled
    BY <1>3 DEF LeasesInv, OneCapture
  <2>2. \A j \in 1 .. k : j \in 1 .. past.asked \/ j = k
    BY <1>1, <1>4
  <2>3. ASSUME NEW b \in Builds, Cl!UnderWay(b), ~Cl!At(b, "resolving")
        PROVE  /\ build[b].capture = 0 /\ ~Cl!At(b, "capturing") /\ k \in late
    <3>1. build[b].capture = 0 /\ ~Cl!At(b, "capturing")
      BY <1>3, <2>3 DEF LeasesInv, OneCapture
    <3>2. build[b].stage \in {"creating", "capturing"}
      BY <2>3 DEF Cl!UnderWay, Cl!At
    <3> QED BY <3>1, <3>2, <1>2
  <2> QED BY <1>3, <1>4, <1>5, <1>6, <2>1, <2>2, <2>3
<1> QED BY <1>7, <1>8, <1>9 DEF LeasesInv

\* A connect request that makes a session begins.
LEMMA HostConnectKeeps ==
    ASSUME LeasesInv, NEW b \in Builds, Cl!HostConnect(b)
    PROVE  LeasesInv'
<1>1. /\ build' = [build EXCEPT ![b].stage = "resolving"] /\ Cl!At(b, "idle") /\ server = 0
      /\ hosted' = hosted /\ server' = server /\ sess' = sess /\ accepted' = accepted /\ past' = past
      /\ missed' = IF \E d \in Builds : Cl!UnderWay(d) THEN missed \cup {"all"} ELSE missed
  BY DEF Cl!HostConnect, Cl!Waiting
<1>2. /\ build' \in [Builds -> [stage : {"idle", "resolving", "creating", "capturing", "refused", "installed"}, capture : Nat]]
      /\ build'[b].stage = "resolving" /\ \A d \in Builds \ {b} : build'[d] = build[d]
  BY <1>1 DEF LeasesInv, LeaseTypes
<1>3. LeaseTypes'
  BY <1>1, <1>2 DEF LeasesInv, LeaseTypes
<1>4. CASE "all" \in missed'
  BY <1>1, <1>3, <1>4 DEF LeasesInv, OneSession, OneCapture, Cl!SessionKnowsClients
<1>5. CASE "all" \notin missed'
  <2>1. missed' = missed /\ \A d \in Builds : ~Cl!UnderWay(d)
    BY <1>1, <1>5
  <2>2. \A d \in Builds : /\ Cl!UnderWay(d)' <=> d = b
                          /\ ~Cl!At(d, "capturing")' /\ (d = b => Cl!At(d, "resolving")')
    BY <1>2, <2>1 DEF Cl!UnderWay, Cl!At
  <2>3. OneSession'
    BY <1>1, <2>1, <2>2 DEF LeasesInv, OneSession
  <2>4. OneCapture'
    BY <1>1, <2>1, <2>2 DEF LeasesInv, OneCapture
  <2>5. Cl!SessionKnowsClients'
    BY <1>1 DEF Cl!SessionKnowsClients
  <2> QED BY <1>3, <2>3, <2>4, <2>5 DEF LeasesInv
<1> QED BY <1>4, <1>5

\* The device was found: the capture that waits is read.
LEMMA ResolvedKeeps ==
    ASSUME LeasesInv, NEW b \in Builds, Cl!Resolved(b)
    PROVE  LeasesInv'
<1>1. /\ hosted' = hosted /\ server' = server /\ sess' = sess /\ accepted' = accepted /\ past' = past /\ missed' = missed
      /\ Cl!At(b, "resolving")
      /\ \/ build' = [build EXCEPT ![b].stage = "refused"]
         \/ build' = [build EXCEPT ![b] = [stage |-> "creating", capture |-> hosted.capture]]
  BY DEF Cl!Resolved
<1>2. /\ build' \in [Builds -> [stage : {"idle", "resolving", "creating", "capturing", "refused", "installed"}, capture : Nat]]
      /\ \A d \in Builds \ {b} : build'[d] = build[d]
      /\ \/ build'[b].stage = "refused"
         \/ build'[b].stage = "creating" /\ build'[b].capture = hosted.capture
  <2>1. hosted.capture \in Nat
    BY DEF LeasesInv, LeaseTypes
  <2>2. CASE build' = [build EXCEPT ![b].stage = "refused"]
    BY <2>2 DEF LeasesInv, LeaseTypes
  <2>3. CASE build' = [build EXCEPT ![b] = [stage |-> "creating", capture |-> hosted.capture]]
    BY <2>1, <2>3 DEF LeasesInv, LeaseTypes
  <2> QED BY <1>1, <2>2, <2>3
<1>3. LeaseTypes'
  BY <1>1, <1>2 DEF LeasesInv, LeaseTypes
<1>4. Cl!UnderWay(b) /\ \A d \in Builds : (Cl!UnderWay(d)' => Cl!UnderWay(d)) /\ (Cl!At(d, "capturing")' => Cl!At(d, "capturing"))
  BY <1>1, <1>2 DEF Cl!UnderWay, Cl!At
<1>5. OneSession'
  BY <1>1, <1>4 DEF LeasesInv, OneSession, Agree
<1>6. OneCapture'
  <2>1. \A d \in Builds \ {b} : /\ Cl!UnderWay(d)' <=> Cl!UnderWay(d)
                                /\ \A stage : Cl!At(d, stage)' <=> Cl!At(d, stage)
    BY <1>2 DEF Cl!UnderWay, Cl!At
  <2>2. ~Cl!At(b, "capturing")' /\ (Cl!UnderWay(b)' => build'[b].capture = hosted.capture)
    BY <1>2 DEF Cl!UnderWay, Cl!At
  <2> QED BY <1>1, <1>2, <2>1, <2>2 DEF LeasesInv, OneCapture
<1>7. Cl!SessionKnowsClients'
  BY <1>1 DEF LeasesInv, Cl!SessionKnowsClients, Cl!S
<1> QED BY <1>3, <1>5, <1>6, <1>7 DEF LeasesInv

\* A connect request that fails settles the capture it read.
LEMMA RefusedKeeps ==
    ASSUME LeasesInv, NEW b \in Builds, Cl!At(b, "creating"), Cl!Refused(b),
           UNCHANGED <<server, sess, accepted, missed>>
    PROVE  LeasesInv'
<1>1. PICK k : k = build[b].capture
  OBVIOUS
<1>2. /\ build' = [build EXCEPT ![b].stage = "refused"]
      /\ server' = server /\ sess' = sess /\ accepted' = accepted /\ missed' = missed
      /\ \/ /\ k # 0 /\ hosted.capture = k
            /\ hosted' = [hosted EXCEPT !.capture = 0] /\ past' = [past EXCEPT !.settled = @ \cup {k}]
         \/ hosted' = hosted /\ past' = past
  BY <1>1 DEF Cl!Refused
<1>3. /\ hosted \in [clients : SUBSET Clients, subs : SUBSET LeasedSubs, capture : Nat]
      /\ past \in [asked : Nat, settled : SUBSET Nat, late : SUBSET Nat] /\ k \in Nat
  BY <1>1 DEF LeasesInv, LeaseTypes
<1>4. /\ build' \in [Builds -> [stage : {"idle", "resolving", "creating", "capturing", "refused", "installed"}, capture : Nat]]
      /\ \A d \in Builds \ {b} : build'[d] = build[d]
      /\ build'[b].stage = "refused"
  BY <1>2 DEF LeasesInv, LeaseTypes
<1>5. \/ /\ hosted.capture = k /\ hosted'.capture = 0 /\ past'.settled = past.settled \cup {k}
         /\ hosted'.clients = hosted.clients /\ hosted'.subs = hosted.subs
         /\ past'.asked = past.asked /\ past'.late = past.late
         /\ hosted' \in [clients : SUBSET Clients, subs : SUBSET LeasedSubs, capture : Nat]
         /\ past' \in [asked : Nat, settled : SUBSET Nat, late : SUBSET Nat]
      \/ hosted' = hosted /\ past' = past
  BY <1>2, <1>3
<1>6. hosted'.clients = hosted.clients /\ hosted'.subs = hosted.subs
  BY <1>5
<1>7. LeaseTypes'
  BY <1>2, <1>3, <1>4, <1>5 DEF LeasesInv, LeaseTypes
<1>8. /\ Cl!UnderWay(b) /\ ~Cl!UnderWay(b)'
      /\ \A d \in Builds \ {b} : (Cl!UnderWay(d)' <=> Cl!UnderWay(d)) /\ \A stage : (Cl!At(d, stage)' <=> Cl!At(d, stage))
      /\ ~Cl!At(b, "capturing")'
  BY <1>4 DEF Cl!UnderWay, Cl!At
<1>9. OneSession'
  BY <1>2, <1>6, <1>8 DEF LeasesInv, OneSession, Agree
<1>10. OneCapture'
  <2> SUFFICES ASSUME "all" \notin missed PROVE OneCapture'
    BY <1>2 DEF OneCapture
  <2>1. \A d \in Builds : ~Cl!UnderWay(d)'
    BY <1>8 DEF LeasesInv, OneSession
  <2>2. hosted'.capture \in 0 .. past'.asked
    BY <1>3, <1>5 DEF LeasesInv, OneCapture
  <2>3. \A j \in 1 .. past'.asked : j \in past'.settled \/ (hosted'.capture = j /\ (server' = 0 \/ j \in past'.late))
    BY <1>2, <1>5 DEF LeasesInv, OneCapture
  <2> QED BY <2>1, <2>2, <2>3 DEF OneCapture
<1>11. Cl!SessionKnowsClients'
  BY <1>2 DEF LeasesInv, Cl!SessionKnowsClients, Cl!S
<1> QED BY <1>7, <1>9, <1>10, <1>11 DEF LeasesInv

\* The session that is installed knows what was accepted.
LEMMA InstallKeeps ==
    ASSUME LeasesInv, Cl!ClientsAssumption, NEW b \in Builds, Cl!UnderWay(b), NEW session,
           session \in [clients : SUBSET Clients, subs : SUBSET LeasedSubs, capture : BOOLEAN,
                        link : {"idle", "connecting", "connected", "closed"}],
           Cl!Install(b, session), UNCHANGED <<accepted, missed>>,
           hosted' \in [clients : SUBSET Clients, subs : SUBSET LeasedSubs, capture : Nat],
           past' \in [asked : Nat, settled : SUBSET Nat, late : SUBSET Nat],
           hosted'.clients = hosted.clients, hosted'.subs = hosted.subs,
           "all" \notin missed =>
              /\ \A c \in Clients \ missed : c \in session.clients <=> c \in hosted.clients
              /\ \A s \in LeasedSubs \ missed : s \in session.subs <=> s \in hosted.subs
              /\ hosted'.capture \in 0 .. past'.asked
              /\ \A j \in 1 .. past'.asked : j \in past'.settled \/ (hosted'.capture = j /\ j \in past'.late)
    PROVE  LeasesInv'
<1>1. /\ build' = [build EXCEPT ![b].stage = "installed"] /\ server' = b /\ accepted' = accepted /\ missed' = missed
      /\ sess' = [sess EXCEPT ![b] = [session EXCEPT !.link = IF session.clients = {} THEN "idle" ELSE "connecting"]]
  BY DEF Cl!Install
<1>2. /\ build' \in [Builds -> [stage : {"idle", "resolving", "creating", "capturing", "refused", "installed"}, capture : Nat]]
      /\ \A d \in Builds \ {b} : build'[d] = build[d]
      /\ build'[b].stage = "installed"
  BY <1>1 DEF LeasesInv, LeaseTypes
<1>3. PICK t : t = [session EXCEPT !.link = IF session.clients = {} THEN "idle" ELSE "connecting"]
  OBVIOUS
<1>4. /\ t \in [clients : SUBSET Clients, subs : SUBSET LeasedSubs, capture : BOOLEAN,
                link : {"idle", "connecting", "connected", "closed"}]
      /\ t.clients = session.clients /\ t.subs = session.subs
  BY <1>3
<1>5. sess' \in [Builds -> [clients : SUBSET Clients, subs : SUBSET LeasedSubs, capture : BOOLEAN,
                            link : {"idle", "connecting", "connected", "closed"}]] /\ sess'[b] = t
  BY <1>1, <1>3, <1>4 DEF LeasesInv, LeaseTypes
<1>6. LeaseTypes'
  BY <1>1, <1>2, <1>5 DEF LeasesInv, LeaseTypes
<1>7. CASE "all" \in missed
  BY <1>1, <1>6, <1>7 DEF LeasesInv, OneSession, OneCapture, Cl!SessionKnowsClients
<1>8. CASE "all" \notin missed
  <2>1. \A d \in Builds : ~Cl!UnderWay(d)'
    BY <1>2, <1>8 DEF LeasesInv, OneSession, Cl!UnderWay
  <2>2. \A d \in Builds : ~Cl!At(d, "capturing")'
    BY <2>1 DEF Cl!UnderWay, Cl!At
  <2>3. server = 0 /\ hosted.clients = accepted.clients /\ hosted.subs = accepted.subs
    BY <1>8 DEF LeasesInv, OneSession, LeaseTypes
  <2>4. b # 0
    BY DEF Cl!ClientsAssumption
  <2>5. OneSession'
    BY <1>1, <2>1, <2>2, <2>4 DEF OneSession
  <2>6. OneCapture'
    BY <1>1, <1>8, <2>1 DEF OneCapture
  <2>7. Cl!S' = t
    BY <1>1, <1>5 DEF Cl!S
  <2>8. Cl!SessionKnowsClients'
    BY <1>1, <1>4, <1>8, <2>3, <2>7 DEF Cl!SessionKnowsClients
  <2> QED BY <1>6, <2>5, <2>6, <2>8 DEF LeasesInv
<1> QED BY <1>7, <1>8

\* The session was made, and is installed unless a capture has to be opened for it.
LEMMA CreatedKeeps ==
    ASSUME LeasesInv, Cl!ClientsAssumption, NEW b \in Builds, Cl!Created(b)
    PROVE  LeasesInv'
<1>1. Cl!At(b, "creating") /\ accepted' = accepted /\ missed' = missed /\ Cl!UnderWay(b) /\ ~Cl!At(b, "resolving")
  BY DEF Cl!Created, Cl!At, Cl!UnderWay
<1>2. PICK session : session = Cl!Replay(hosted)
  OBVIOUS
<1>3. /\ session \in [clients : SUBSET Clients, subs : SUBSET LeasedSubs, capture : BOOLEAN,
                      link : {"idle", "connecting", "connected", "closed"}]
      /\ session.clients = hosted.clients /\ session.subs = hosted.subs
      /\ hosted \in [clients : SUBSET Clients, subs : SUBSET LeasedSubs, capture : Nat]
      /\ past \in [asked : Nat, settled : SUBSET Nat, late : SUBSET Nat]
  BY <1>2 DEF Cl!Replay, Cl!Blank, LeasesInv, LeaseTypes
<1>4. CASE Cl!Refused(b) /\ UNCHANGED <<server, sess>>
  BY <1>1, <1>4, RefusedKeeps
<1>5. CASE build[b].capture = 0 /\ Cl!Install(b, session) /\ UNCHANGED <<hosted, past>>
  <2>1. ASSUME "all" \notin missed
        PROVE  /\ hosted.capture \in 0 .. past.asked
               /\ \A j \in 1 .. past.asked : j \in past.settled \/ (hosted.capture = j /\ j \in past.late)
    BY <1>1, <1>5, <2>1 DEF LeasesInv, OneCapture
  <2>2. hosted' = hosted /\ past' = past /\ UNCHANGED <<accepted, missed>>
    BY <1>1, <1>5
  <2> QED BY <1>1, <1>3, <1>5, <2>1, <2>2, InstallKeeps
<1>6. CASE /\ build[b].capture # 0 /\ build' = [build EXCEPT ![b].stage = "capturing"]
           /\ sess' = [sess EXCEPT ![b] = session] /\ UNCHANGED <<hosted, server, past>>
  <2>1. /\ build' \in [Builds -> [stage : {"idle", "resolving", "creating", "capturing", "refused", "installed"}, capture : Nat]]
        /\ \A d \in Builds \ {b} : build'[d] = build[d]
        /\ build'[b].stage = "capturing" /\ build'[b].capture = build[b].capture
    BY <1>6 DEF LeasesInv, LeaseTypes
  <2>2. /\ sess' \in [Builds -> [clients : SUBSET Clients, subs : SUBSET LeasedSubs, capture : BOOLEAN,
                                 link : {"idle", "connecting", "connected", "closed"}]]
        /\ sess'[b] = session /\ \A d \in Builds \ {b} : sess'[d] = sess[d]
    BY <1>3, <1>6 DEF LeasesInv, LeaseTypes
  <2>3. hosted' = hosted /\ server' = server /\ past' = past
    BY <1>6
  <2>4. LeaseTypes'
    BY <1>1, <2>1, <2>2, <2>3 DEF LeasesInv, LeaseTypes
  <2>5. \A d \in Builds : /\ Cl!UnderWay(d)' <=> Cl!UnderWay(d)
                          /\ Cl!At(d, "resolving")' <=> Cl!At(d, "resolving")
                          /\ Cl!At(d, "capturing")' <=> Cl!At(d, "capturing") \/ d = b
    BY <1>1, <2>1 DEF Cl!UnderWay, Cl!At
  <2>6. OneSession'
    <3>1. Agree(b)'
      BY <1>3, <2>2, <2>3 DEF Agree
    <3>2. \A d \in Builds \ {b} : Agree(d) => Agree(d)'
      BY <1>1, <2>2, <2>3 DEF Agree
    <3> QED BY <1>1, <2>3, <2>5, <3>1, <3>2 DEF LeasesInv, OneSession
  <2>7. OneCapture'
    <3>1. \A d \in Builds : build'[d].capture = build[d].capture
      BY <2>1
    <3> QED BY <1>1, <1>6, <2>3, <2>5, <3>1 DEF LeasesInv, OneCapture
  <2>8. Cl!SessionKnowsClients'
    <3>1. "all" \notin missed => server = 0
      BY <1>1 DEF LeasesInv, OneSession
    <3> QED BY <1>1, <2>3, <3>1 DEF Cl!SessionKnowsClients
  <2> QED BY <2>4, <2>6, <2>7, <2>8 DEF LeasesInv
<1> QED BY <1>2, <1>4, <1>5, <1>6 DEF Cl!Created

\* The capture was opened for the session, or not.
LEMMA CapturedKeeps ==
    ASSUME LeasesInv, Cl!ClientsAssumption, NEW b \in Builds, NEW ok \in BOOLEAN, Cl!Captured(b, ok)
    PROVE  LeasesInv'
<1>1. PICK k : k = build[b].capture
  OBVIOUS
<1>2. /\ Cl!At(b, "capturing") /\ accepted' = accepted /\ missed' = missed /\ Cl!UnderWay(b) /\ ~Cl!At(b, "resolving")
      /\ hosted' = [hosted EXCEPT !.capture = 0] /\ past' = [past EXCEPT !.settled = @ \cup {k}]
  BY <1>1 DEF Cl!Captured, Cl!At, Cl!UnderWay
<1>3. /\ hosted \in [clients : SUBSET Clients, subs : SUBSET LeasedSubs, capture : Nat]
      /\ past \in [asked : Nat, settled : SUBSET Nat, late : SUBSET Nat] /\ k \in Nat
  BY <1>1 DEF LeasesInv, LeaseTypes
<1>4. /\ hosted' \in [clients : SUBSET Clients, subs : SUBSET LeasedSubs, capture : Nat]
      /\ hosted'.clients = hosted.clients /\ hosted'.subs = hosted.subs /\ hosted'.capture = 0
      /\ past' \in [asked : Nat, settled : SUBSET Nat, late : SUBSET Nat]
      /\ past'.asked = past.asked /\ past'.settled = past.settled \cup {k}
  BY <1>2, <1>3
<1>5. ASSUME "all" \notin missed
      PROVE  /\ hosted'.capture \in 0 .. past'.asked
             /\ \A j \in 1 .. past'.asked : j \in past'.settled
  <2>1. hosted.capture = k
    BY <1>1, <1>2, <1>5 DEF LeasesInv, OneCapture
  <2> QED BY <1>3, <1>4, <1>5, <2>1 DEF LeasesInv, OneCapture
<1>6. CASE ok
  <2>1. PICK session : session = [sess[b] EXCEPT !.capture = TRUE]
    OBVIOUS
  <2>2. sess[b] \in [clients : SUBSET Clients, subs : SUBSET LeasedSubs, capture : BOOLEAN,
                     link : {"idle", "connecting", "connected", "closed"}]
    BY DEF LeasesInv, LeaseTypes
  <2>3. /\ session \in [clients : SUBSET Clients, subs : SUBSET LeasedSubs, capture : BOOLEAN,
                        link : {"idle", "connecting", "connected", "closed"}]
        /\ session.clients = sess[b].clients /\ session.subs = sess[b].subs
    BY <2>1, <2>2
  <2>4. Cl!Install(b, session) /\ UNCHANGED <<accepted, missed>>
    BY <1>6, <2>1 DEF Cl!Captured
  <2>5. ASSUME "all" \notin missed
        PROVE  /\ \A c \in Clients \ missed : c \in session.clients <=> c \in hosted.clients
               /\ \A s \in LeasedSubs \ missed : s \in session.subs <=> s \in hosted.subs
    BY <1>2, <2>3, <2>5 DEF LeasesInv, OneSession, Agree
  <2> QED BY <1>2, <1>4, <1>5, <2>3, <2>4, <2>5, InstallKeeps
<1>7. CASE ~ok
  <2>1. /\ build' = [build EXCEPT ![b].stage = "refused"] /\ server' = server /\ sess' = sess
    BY <1>7 DEF Cl!Captured
  <2>2. /\ build' \in [Builds -> [stage : {"idle", "resolving", "creating", "capturing", "refused", "installed"}, capture : Nat]]
        /\ \A d \in Builds \ {b} : build'[d] = build[d]
        /\ build'[b].stage = "refused"
    BY <2>1 DEF LeasesInv, LeaseTypes
  <2>3. LeaseTypes'
    BY <1>2, <1>4, <2>1, <2>2 DEF LeasesInv, LeaseTypes
  <2>4. CASE "all" \in missed
    BY <1>2, <2>3, <2>4 DEF LeasesInv, OneSession, OneCapture, Cl!SessionKnowsClients
  <2>5. CASE "all" \notin missed
    <3>1. \A d \in Builds : ~Cl!UnderWay(d)'
      BY <1>2, <2>2, <2>5 DEF LeasesInv, OneSession, Cl!UnderWay
    <3>2. \A d \in Builds : ~Cl!At(d, "capturing")'
      BY <3>1 DEF Cl!UnderWay, Cl!At
    <3>3. OneSession'
      BY <1>2, <1>4, <2>1, <2>5, <3>1, <3>2 DEF LeasesInv, OneSession
    <3>4. OneCapture'
      BY <1>5, <2>5, <3>1 DEF OneCapture
    <3>5. Cl!SessionKnowsClients'
      <4>1. server = 0
        BY <1>2, <2>5 DEF LeasesInv, OneSession
      <4> QED BY <2>1, <4>1 DEF Cl!SessionKnowsClients
    <3> QED BY <2>3, <3>3, <3>4, <3>5 DEF LeasesInv
  <2> QED BY <2>4, <2>5
<1> QED BY <1>6, <1>7

\* What the session and the accounts make of a request once it is installed.
LEMMA SessionRequestsKeep ==
    ASSUME LeasesInv, NEW b \in Builds, NEW t,
           sess' = [sess EXCEPT ![b] = t],
           t \in [clients : SUBSET Clients, subs : SUBSET LeasedSubs, capture : BOOLEAN,
                  link : {"idle", "connecting", "connected", "closed"}],
           accepted' \in [clients : SUBSET Clients, subs : SUBSET LeasedSubs],
           Cl!SessionUnchanged, UNCHANGED past,
           \/ t.clients = sess[b].clients /\ t.subs = sess[b].subs /\ accepted' = accepted
           \/ /\ b = server /\ server # 0
              /\ \A c \in Clients : (c \in sess[b].clients <=> c \in accepted.clients) =>
                                        (c \in t.clients <=> c \in accepted'.clients)
              /\ \A s \in LeasedSubs : (s \in sess[b].subs <=> s \in accepted.subs) =>
                                        (s \in t.subs <=> s \in accepted'.subs)
    PROVE  LeasesInv'
<1>1. hosted' = hosted /\ build' = build /\ server' = server /\ missed' = missed /\ past' = past
  BY DEF Cl!SessionUnchanged
<1>2. /\ sess' \in [Builds -> [clients : SUBSET Clients, subs : SUBSET LeasedSubs, capture : BOOLEAN,
                               link : {"idle", "connecting", "connected", "closed"}]]
      /\ sess'[b] = t /\ \A d \in Builds \ {b} : sess'[d] = sess[d]
  BY DEF LeasesInv, LeaseTypes
<1>3. LeaseTypes'
  BY <1>1, <1>2 DEF LeasesInv, LeaseTypes
<1>4. OneCapture'
  BY <1>1 DEF LeasesInv, OneCapture, Cl!UnderWay, Cl!At
<1>5. CASE t.clients = sess[b].clients /\ t.subs = sess[b].subs /\ accepted' = accepted
  <2>1. \A d \in Builds : sess'[d].clients = sess[d].clients /\ sess'[d].subs = sess[d].subs
    BY <1>2, <1>5
  <2>2. OneSession'
    BY <1>1, <1>5, <2>1 DEF LeasesInv, OneSession, Agree, Cl!UnderWay, Cl!At
  <2>3. server # 0 => server \in Builds
    BY DEF LeasesInv, LeaseTypes
  <2>4. Cl!SessionKnowsClients'
    BY <1>1, <1>5, <2>1, <2>3 DEF LeasesInv, Cl!SessionKnowsClients, Cl!S
  <2> QED BY <1>3, <1>4, <2>2, <2>4 DEF LeasesInv
<1>6. CASE /\ b = server /\ server # 0
           /\ \A c \in Clients : (c \in sess[b].clients <=> c \in accepted.clients) =>
                                     (c \in t.clients <=> c \in accepted'.clients)
           /\ \A s \in LeasedSubs : (s \in sess[b].subs <=> s \in accepted.subs) =>
                                     (s \in t.subs <=> s \in accepted'.subs)
  <2>1. "all" \notin missed => \A d \in Builds : ~Cl!UnderWay(d) /\ ~Cl!At(d, "capturing")
    BY <1>6 DEF LeasesInv, OneSession, Cl!UnderWay, Cl!At
  <2>2. OneSession'
    BY <1>1, <1>6, <2>1 DEF OneSession, Cl!UnderWay, Cl!At
  <2>3. Cl!S = sess[b] /\ Cl!S' = t
    BY <1>1, <1>2, <1>6 DEF Cl!S
  <2>4. Cl!SessionKnowsClients'
    BY <1>1, <1>6, <2>3 DEF LeasesInv, Cl!SessionKnowsClients
  <2> QED BY <1>3, <1>4, <2>2, <2>4 DEF LeasesInv
<1> QED BY <1>5, <1>6

\* The steps of an installed session.
LEMMA SessionStepsKeep ==
    ASSUME LeasesInv,
           \/ \E c \in Clients : Cl!Attach(c) \/ Cl!Detach(c)
           \/ \E s \in LeasedSubs : Cl!Subscribe(s) \/ Cl!Unsubscribe(s)
           \/ Cl!Connect \/ Cl!Disconnect
           \/ \E b \in Builds, ok \in BOOLEAN : Cl!Connected(b, ok)
    PROVE  LeasesInv'
<1>1. /\ \A b \in Builds : sess[b] \in [clients : SUBSET Clients, subs : SUBSET LeasedSubs, capture : BOOLEAN,
                                        link : {"idle", "connecting", "connected", "closed"}]
      /\ accepted \in [clients : SUBSET Clients, subs : SUBSET LeasedSubs]
      /\ server \in Builds \cup {0}
  BY DEF LeasesInv, LeaseTypes
<1>2. ASSUME NEW b \in Builds, NEW link \in {"idle", "connecting", "connected", "closed"},
             sess' = [sess EXCEPT ![b].link = link], Cl!SessionUnchanged, UNCHANGED <<accepted, past>>
      PROVE  LeasesInv'
  <2>1. PICK t : t = [sess[b] EXCEPT !.link = link]
    OBVIOUS
  <2>2. /\ t \in [clients : SUBSET Clients, subs : SUBSET LeasedSubs, capture : BOOLEAN,
                  link : {"idle", "connecting", "connected", "closed"}]
        /\ t.clients = sess[b].clients /\ t.subs = sess[b].subs
    BY <1>1, <2>1
  <2>3. sess' = [sess EXCEPT ![b] = t]
    BY <1>2, <2>1
  <2> QED BY <1>1, <1>2, <2>2, <2>3, SessionRequestsKeep
<1>3. ASSUME NEW b \in Builds, NEW ok \in BOOLEAN, Cl!Connected(b, ok)
      PROVE  LeasesInv'
  BY <1>2, <1>3 DEF Cl!Connected
<1>4. CASE Cl!Connect
  BY <1>1, <1>2, <1>4 DEF Cl!Connect, Cl!Known, Cl!Serving
<1>5. CASE Cl!Disconnect
  BY <1>1, <1>2, <1>5 DEF Cl!Disconnect, Cl!Known, Cl!Serving
<1>6. ASSUME NEW c \in Clients, Cl!Attach(c)
      PROVE  LeasesInv'
  <2>1. PICK t : t = [sess[server] EXCEPT !.clients = @ \cup {c}]
    OBVIOUS
  <2>2. server \in Builds /\ server # 0
    BY <1>1, <1>6 DEF Cl!Attach, Cl!Serving
  <2>3. /\ t \in [clients : SUBSET Clients, subs : SUBSET LeasedSubs, capture : BOOLEAN,
                  link : {"idle", "connecting", "connected", "closed"}]
        /\ t.clients = sess[server].clients \cup {c} /\ t.subs = sess[server].subs
    BY <1>1, <2>1, <2>2
  <2>4. /\ accepted' \in [clients : SUBSET Clients, subs : SUBSET LeasedSubs]
        /\ accepted'.clients = accepted.clients \cup {c} /\ accepted'.subs = accepted.subs
    BY <1>1, <1>6 DEF Cl!Attach
  <2>5. sess' = [sess EXCEPT ![server] = t] /\ Cl!SessionUnchanged /\ UNCHANGED past
    BY <1>6, <2>1 DEF Cl!Attach
  <2> QED BY <2>2, <2>3, <2>4, <2>5, SessionRequestsKeep
<1>7. ASSUME NEW c \in Clients, Cl!Detach(c)
      PROVE  LeasesInv'
  <2>1. PICK link : link = IF Cl!S.clients \ {c} = {} THEN "closed" ELSE sess[server].link
    OBVIOUS
  <2>2. PICK t : t = [sess[server] EXCEPT !.clients = @ \ {c}, !.link = link]
    OBVIOUS
  <2>3. server \in Builds /\ server # 0
    BY <1>1, <1>7 DEF Cl!Detach, Cl!Known, Cl!Serving
  <2>4. link \in {"idle", "connecting", "connected", "closed"}
    BY <1>1, <2>1, <2>3
  <2>5. /\ t \in [clients : SUBSET Clients, subs : SUBSET LeasedSubs, capture : BOOLEAN,
                  link : {"idle", "connecting", "connected", "closed"}]
        /\ t.clients = sess[server].clients \ {c} /\ t.subs = sess[server].subs
    BY <1>1, <2>2, <2>3, <2>4
  <2>6. /\ accepted' \in [clients : SUBSET Clients, subs : SUBSET LeasedSubs]
        /\ accepted'.clients = accepted.clients \ {c} /\ accepted'.subs = accepted.subs
    BY <1>1, <1>7 DEF Cl!Detach
  <2>7. sess' = [sess EXCEPT ![server] = t] /\ Cl!SessionUnchanged /\ UNCHANGED past
    BY <1>1, <1>7, <2>1, <2>2, <2>3 DEF Cl!Detach
  <2> QED BY <2>3, <2>5, <2>6, <2>7, SessionRequestsKeep
<1>8. ASSUME NEW s \in LeasedSubs, Cl!Subscribe(s)
      PROVE  LeasesInv'
  <2>1. PICK t : t = [sess[server] EXCEPT !.subs = @ \cup {s}]
    OBVIOUS
  <2>2. server \in Builds /\ server # 0
    BY <1>1, <1>8 DEF Cl!Subscribe, Cl!Known, Cl!Serving
  <2>3. /\ t \in [clients : SUBSET Clients, subs : SUBSET LeasedSubs, capture : BOOLEAN,
                  link : {"idle", "connecting", "connected", "closed"}]
        /\ t.subs = sess[server].subs \cup {s} /\ t.clients = sess[server].clients
    BY <1>1, <2>1, <2>2
  <2>4. /\ accepted' \in [clients : SUBSET Clients, subs : SUBSET LeasedSubs]
        /\ accepted'.subs = accepted.subs \cup {s} /\ accepted'.clients = accepted.clients
    BY <1>1, <1>8 DEF Cl!Subscribe
  <2>5. sess' = [sess EXCEPT ![server] = t] /\ Cl!SessionUnchanged /\ UNCHANGED past
    BY <1>8, <2>1 DEF Cl!Subscribe
  <2> QED BY <2>2, <2>3, <2>4, <2>5, SessionRequestsKeep
<1>9. ASSUME NEW s \in LeasedSubs, Cl!Unsubscribe(s)
      PROVE  LeasesInv'
  <2>1. PICK t : t = [sess[server] EXCEPT !.subs = @ \ {s}]
    OBVIOUS
  <2>2. server \in Builds /\ server # 0
    BY <1>1, <1>9 DEF Cl!Unsubscribe, Cl!Known, Cl!Serving
  <2>3. /\ t \in [clients : SUBSET Clients, subs : SUBSET LeasedSubs, capture : BOOLEAN,
                  link : {"idle", "connecting", "connected", "closed"}]
        /\ t.subs = sess[server].subs \ {s} /\ t.clients = sess[server].clients
    BY <1>1, <2>1, <2>2
  <2>4. /\ accepted' \in [clients : SUBSET Clients, subs : SUBSET LeasedSubs]
        /\ accepted'.subs = accepted.subs \ {s} /\ accepted'.clients = accepted.clients
    BY <1>1, <1>9 DEF Cl!Unsubscribe
  <2>5. sess' = [sess EXCEPT ![server] = t] /\ Cl!SessionUnchanged /\ UNCHANGED past
    BY <1>9, <2>1 DEF Cl!Unsubscribe
  <2> QED BY <2>2, <2>3, <2>4, <2>5, SessionRequestsKeep
<1> QED BY <1>3, <1>4, <1>5, <1>6, <1>7, <1>8, <1>9

\* Every step of SessionClients keeps the invariant.
LEMMA LeasesStep ==
    ASSUME LeasesInv, Cl!ClientsAssumption, Cl!ClientsNext
    PROVE  LeasesInv'
<1>1. ASSUME NEW b \in Builds, Cl!HostConnect(b) \/ Cl!Resolved(b) \/ Cl!Created(b) \/ Cl!CreationFails(b)
      PROVE  LeasesInv'
  <2>1. Cl!CreationFails(b) => LeasesInv'
    BY RefusedKeeps DEF Cl!CreationFails
  <2> QED BY <1>1, <2>1, HostConnectKeeps, ResolvedKeeps, CreatedKeeps
<1>2. ASSUME NEW b \in Builds, NEW ok \in BOOLEAN, Cl!Captured(b, ok)
      PROVE  LeasesInv'
  BY <1>2, CapturedKeeps
<1> QED BY <1>1, <1>2, HostRequestsKeep, HostStartCaptureKeeps, SessionStepsKeep DEF Cl!ClientsNext

\* Nothing is leased at first.
LEMMA LeasesInitially ==
    ASSUME Cl!ClientsInit, Cl!ClientsAssumption
    PROVE  LeasesInv
<1>1. /\ hosted = [clients |-> {}, subs |-> {}, capture |-> 0] /\ server = 0
      /\ \A b \in Builds : build[b] = [stage |-> "idle", capture |-> 0]
      /\ accepted = [clients |-> {}, subs |-> {}]
      /\ past = [asked |-> 0, settled |-> {}, late |-> {}]
  BY DEF Cl!ClientsInit
<1>2. LeaseTypes
  BY DEF Cl!ClientsInit, LeaseTypes, Cl!Blank
<1>3. \A b \in Builds : ~Cl!UnderWay(b) /\ ~Cl!At(b, "capturing")
  BY <1>1 DEF Cl!UnderWay, Cl!At
<1>4. OneSession /\ OneCapture /\ Cl!SessionKnowsClients
  BY <1>1, <1>3 DEF OneSession, OneCapture, Cl!SessionKnowsClients
<1> QED BY <1>2, <1>4 DEF LeasesInv

-----------------------------------------------------------------------------
Distinct(q) == \A i, j \in DOMAIN q : q[i] = q[j] => i = j
In(q) == {q[i] : i \in DOMAIN q}
Unacknowledged == ended \ acknowledged
Lost == Unacknowledged \ In(retained)

ResultsInv ==
    /\ running \subseteq Ops /\ known \subseteq running \cup ended /\ retained \in Seq(Ops)
    /\ Distinct(retained) /\ In(retained) \subseteq Unacknowledged /\ Len(retained) <= MaxResults
    /\ running \cap ended = {} /\ awaiting \subseteq running /\ acknowledged \subseteq ended
    /\ IsFiniteSet(known) /\ IsFiniteSet(ended) /\ IsFiniteSet(early) /\ Cardinality(known) <= MaxKnown
    /\ running \cup Unacknowledged \subseteq known \cup early
    /\ Cardinality(Lost) <= Cardinality(early)

\* FiniteSets and Sequences as OperationResults knows them.
LEMMA ResultsLibrary ==
    /\ \A S : Re!Cardinality(S) = Cardinality(S)
    /\ \A q : Re!ToSet(q) = In(q)
<1>1. ASSUME NEW S PROVE Re!Cardinality(S) = Cardinality(S)
  BY DEF Re!Cardinality, Cardinality
<1> QED BY <1>1 DEF Re!ToSet, In

\* As many elements as places.
LEMMA DistinctSize ==
    ASSUME NEW S, NEW q \in Seq(S), Distinct(q)
    PROVE  IsFiniteSet(In(q)) /\ Cardinality(In(q)) = Len(q) /\ Len(q) \in Nat
<1>1. Len(q) \in Nat /\ q \in [1..Len(q) -> S] /\ DOMAIN q = 1..Len(q)
  BY LenProperties
<1>2. q \in Bijection(1..Len(q), In(q))
  BY <1>1 DEF Distinct, In, Bijection, Injection, Surjection, IsInjective
<1>3. ExistsBijection(1..Len(q), In(q))
  BY <1>2 DEF ExistsBijection
<1> QED BY <1>1, <1>3, FS_CountingElements, FS_NatBijection

\* What is left when an element is removed.
LEMMA RemoveFirstFacts ==
    ASSUME NEW S, NEW q \in Seq(S), Distinct(q), NEW e
    PROVE  LET r == Re!RemoveFirst(q, e)
           IN  r \in Seq(S) /\ Distinct(r) /\ In(r) = In(q) \ {e} /\ Len(r) <= Len(q)
<1> DEFINE r == Re!RemoveFirst(q, e)
<1>1. Len(q) \in Nat /\ DOMAIN q = 1..Len(q) /\ \A i \in 1..Len(q) : q[i] \in S
  BY LenProperties, ElementOfSeq
<1>2. CASE \A i \in 1..Len(q) : q[i] # e
  <2>1. r = q
    BY <1>2 DEF Re!RemoveFirst
  <2> QED BY <1>1, <1>2, <2>1 DEF In
<1>3. CASE \E i \in 1..Len(q) : q[i] = e
  <2>1. PICK k \in 1..Len(q) : q[k] = e
    BY <1>3
  <2>2. {i \in 1..Len(q) : q[i] = e} = {k}
    BY <1>1, <2>1 DEF Distinct
  <2>3. Re!Min({k}) = k
    BY <2>1 DEF Re!Min
  <2>4. Re!SelectInSeq(q, LAMBDA v : v = e) = k
    BY <2>2, <2>3 DEF Re!SelectInSeq
  <2>5. r = SubSeq(q, 1, k - 1) \o SubSeq(q, k + 1, Len(q))
    BY <1>3, <2>4 DEF Re!RemoveFirst, Re!RemoveAt
  <2>6. PICK n : n = Len(q)
    OBVIOUS
  <2>7. /\ SubSeq(q, 1, k - 1) \in Seq(S) /\ Len(SubSeq(q, 1, k - 1)) = k - 1
        /\ \A i \in 1 .. k - 1 : SubSeq(q, 1, k - 1)[i] = q[i]
    BY <1>1, SubSeqProperties
  <2>8. /\ SubSeq(q, k + 1, n) \in Seq(S) /\ Len(SubSeq(q, k + 1, n)) = n - k
        /\ \A i \in 1 .. n - k : SubSeq(q, k + 1, n)[i] = q[k + i]
    <3>1. /\ SubSeq(q, k + 1, n) \in Seq(S)
          /\ Len(SubSeq(q, k + 1, n)) = IF k + 1 <= n THEN n - (k + 1) + 1 ELSE 0
          /\ \A i \in 1 .. n - (k + 1) + 1 : SubSeq(q, k + 1, n)[i] = q[k + 1 + i - 1]
      BY <1>1, <2>6, SubSeqProperties
    <3>2. k \in 1 .. n /\ n \in Nat
      BY <1>1, <2>6
    <3>3. \A i \in 1 .. n - k : k + 1 + i - 1 = k + i /\ i \in 1 .. n - (k + 1) + 1
      BY <3>2
    <3> QED BY <3>1, <3>2, <3>3
  <2>9. /\ r \in Seq(S) /\ Len(r) = n - 1
        /\ \A i \in 1 .. n - 1 : r[i] = IF i < k THEN q[i] ELSE q[i + 1]
    <3>1. PICK a, b : a = SubSeq(q, 1, k - 1) /\ b = SubSeq(q, k + 1, n)
      OBVIOUS
    <3>2. a \in Seq(S) /\ b \in Seq(S) /\ Len(a) = k - 1 /\ Len(b) = n - k /\ r = a \o b
      BY <2>5, <2>6, <2>7, <2>8, <3>1
    <3>3. /\ a \o b \in Seq(S) /\ Len(a \o b) = Len(a) + Len(b)
          /\ \A i \in 1 .. Len(a) + Len(b) : (a \o b)[i] = IF i <= Len(a) THEN a[i] ELSE b[i - Len(a)]
      BY <3>2, ConcatProperties
    <3>4. k \in 1 .. n /\ n \in Nat
      BY <1>1, <2>6
    <3>5. Len(r) = n - 1 /\ r \in Seq(S)
      BY <3>2, <3>3, <3>4
    <3>6. ASSUME NEW i \in 1 .. n - 1
          PROVE  r[i] = IF i < k THEN q[i] ELSE q[i + 1]
      <4>1. r[i] = IF i <= k - 1 THEN a[i] ELSE b[i - (k - 1)]
        BY <3>2, <3>3, <3>4
      <4>2. CASE i < k
        <5>1. i \in 1 .. k - 1 /\ i <= k - 1
          BY <3>4, <4>2
        <5> QED BY <2>7, <3>1, <4>1, <4>2, <5>1
      <4>3. CASE ~(i < k)
        <5>1. i - (k - 1) \in 1 .. n - k /\ k + (i - (k - 1)) = i + 1 /\ ~(i <= k - 1)
          BY <3>4, <4>3
        <5>2. b[i - (k - 1)] = q[k + (i - (k - 1))]
          BY <2>8, <3>1, <5>1
        <5> QED BY <4>1, <4>3, <5>1, <5>2
      <4> QED BY <4>2, <4>3
    <3> QED BY <3>5, <3>6
  <2>10. DOMAIN r = 1 .. n - 1 /\ n \in Nat /\ k \in 1 .. n /\ DOMAIN q = 1 .. n
    BY <1>1, <2>6, <2>9, LenProperties
  <2> HIDE DEF r
  <2>11. Distinct(r)
    <3>1. PICK m : m = [i \in 1 .. n - 1 |-> IF i < k THEN i ELSE i + 1]
      OBVIOUS
    <3>2. \A i \in 1 .. n - 1 : m[i] \in 1 .. n /\ r[i] = q[m[i]]
      BY <2>9, <2>10, <3>1
    <3>3. \A i, j \in 1 .. n - 1 : m[i] = m[j] => i = j
      BY <2>10, <3>1
    <3>4. \A i, j \in 1 .. n : q[i] = q[j] => i = j
      BY <2>10 DEF Distinct
    <3> QED BY <2>10, <3>2, <3>3, <3>4 DEF Distinct
  <2>12. In(r) = In(q) \ {e}
    <3>1. ASSUME NEW i \in 1 .. n - 1
          PROVE  r[i] \in In(q) \ {e}
      <4>1. PICK j \in 1 .. n : r[i] = q[j] /\ j # k
        <5>1. CASE i < k
          BY <2>9, <2>10, <5>1
        <5>2. CASE ~(i < k)
          <6>1. i + 1 \in 1 .. n /\ i + 1 # k /\ r[i] = q[i + 1]
            BY <2>9, <2>10, <5>2
          <6> QED BY <6>1
        <5> QED BY <5>1, <5>2
      <4>2. q[j] # e
        BY <2>1, <2>10, <4>1 DEF Distinct
      <4> QED BY <2>10, <4>1, <4>2 DEF In
    <3>2. ASSUME NEW j \in 1 .. n, q[j] # e
          PROVE  \E i \in 1 .. n - 1 : r[i] = q[j]
      <4>1. CASE j < k
        <5>1. j \in 1 .. n - 1 /\ r[j] = q[j]
          BY <2>9, <2>10, <4>1
        <5> QED BY <5>1
      <4>2. CASE ~(j < k)
        <5>1. j # k
          BY <2>1, <3>2
        <5>2. j - 1 \in 1 .. n - 1 /\ ~(j - 1 < k) /\ (j - 1) + 1 = j
          BY <2>10, <4>2, <5>1
        <5>3. r[j - 1] = q[j]
          BY <2>9, <5>2
        <5> QED BY <5>2, <5>3
      <4> QED BY <4>1, <4>2
    <3>3. In(r) \subseteq In(q) \ {e}
      BY <2>10, <3>1 DEF In
    <3>4. In(q) \ {e} \subseteq In(r)
      BY <2>10, <3>2 DEF In
    <3> QED BY <3>3, <3>4
  <2> QED BY <2>6, <2>9, <2>10, <2>11, <2>12 DEF r
<1> QED BY <1>2, <1>3

\* What is left when the newest result has been kept.
LEMMA KeepFacts ==
    ASSUME Re!ResultsAssumption, NEW S, NEW q \in Seq(S), Distinct(q), Len(q) <= MaxResults + 1
    PROVE  LET r == Re!Keep(q)
           IN  /\ r \in Seq(S) /\ Distinct(r) /\ In(r) \subseteq In(q) /\ Len(r) <= MaxResults
               /\ r = q \/ Len(r) = MaxResults
<1> DEFINE r == Re!Keep(q)
<1>1. PICK n : n = Len(q)
  OBVIOUS
<1>2. n \in Nat /\ DOMAIN q = 1..n /\ (\A i \in 1..n : q[i] \in S) /\ MaxResults \in Nat /\ n <= MaxResults + 1
  BY <1>1, LenProperties, ElementOfSeq DEF Re!ResultsAssumption
<1>3. CASE n <= MaxResults
  <2>1. r = q
    BY <1>1, <1>2, <1>3 DEF Re!Keep
  <2> QED BY <1>1, <1>3, <2>1
<1>4. CASE n > MaxResults
  <2>1. n = MaxResults + 1 /\ n - MaxResults + 1 = 2
    BY <1>2, <1>4
  <2>2. r = SubSeq(q, 2, n)
    BY <1>1, <1>4, <2>1 DEF Re!Keep
  <2>3. /\ SubSeq(q, 2, n) \in Seq(S)
        /\ Len(SubSeq(q, 2, n)) = IF 2 <= n THEN n - 2 + 1 ELSE 0
        /\ \A i \in 1 .. n - 2 + 1 : SubSeq(q, 2, n)[i] = q[2 + i - 1]
    BY <1>2, SubSeqProperties
  <2> HIDE DEF r
  <2>4. r \in Seq(S) /\ Len(r) = MaxResults /\ DOMAIN r = 1 .. MaxResults
    BY <1>2, <2>1, <2>2, <2>3, LenProperties
  <2>5. \A i \in 1 .. MaxResults : r[i] = q[i + 1] /\ i + 1 \in 1 .. n
    <3>1. ASSUME NEW i \in 1 .. MaxResults
          PROVE  r[i] = q[i + 1] /\ i + 1 \in 1 .. n
      <4>1. i \in 1 .. n - 2 + 1 /\ 2 + i - 1 = i + 1 /\ i + 1 \in 1 .. n
        BY <1>2, <2>1
      <4> QED BY <2>2, <2>3, <4>1
    <3> QED BY <3>1
  <2>6. Distinct(r)
    <3>1. \A i, j \in 1 .. MaxResults : i + 1 = j + 1 => i = j
      BY <1>2
    <3>2. \A i, j \in 1 .. n : q[i] = q[j] => i = j
      BY <1>2 DEF Distinct
    <3> QED BY <2>4, <2>5, <3>1, <3>2 DEF Distinct
  <2>7. In(r) \subseteq In(q)
    BY <1>2, <2>4, <2>5 DEF In
  <2> QED BY <1>2, <2>4, <2>6, <2>7 DEF r
<1> QED BY <1>2, <1>3, <1>4

\* When the retention is full, no more results are lost than were acknowledged early:
\* the session knows no more operations than the retention holds.
LEMMA FewLost ==
    ASSUME Re!ResultsAssumption, NEW K, NEW E, NEW U, NEW R, IsFiniteSet(K), IsFiniteSet(E),
           Cardinality(K) <= MaxKnown, U \subseteq K \cup E, R \subseteq U, Cardinality(R) = MaxResults
    PROVE  Cardinality(U \ R) <= Cardinality(E)
<1>1. MaxKnown \in Nat /\ MaxResults \in Nat /\ MaxKnown <= MaxResults
  BY DEF Re!ResultsAssumption
<1>2. /\ IsFiniteSet(K \cup E)
      /\ Cardinality(K \cup E) = Cardinality(K) + Cardinality(E) - Cardinality(K \cap E)
      /\ Cardinality(K \cap E) \in Nat
  BY FS_Union, FS_Intersection, FS_CardinalityType
<1>3. IsFiniteSet(U) /\ Cardinality(U) <= Cardinality(K \cup E)
  BY <1>2, FS_Subset
<1>4. Cardinality(U \ R) = Cardinality(U) - Cardinality(U \cap R) /\ U \cap R = R
  BY <1>3, FS_Difference
<1>5. /\ Cardinality(U) \in Nat /\ Cardinality(E) \in Nat /\ Cardinality(K) \in Nat /\ Cardinality(K \cup E) \in Nat
  BY <1>2, <1>3, FS_CardinalityType
<1>6. Cardinality(U \ R) = Cardinality(U) - MaxResults
  BY <1>4
<1>7. Cardinality(K) <= MaxKnown
  OBVIOUS
<1> QED BY <1>1, <1>2, <1>3, <1>5, <1>6, <1>7

\* An operation starts: it is known until its result is acknowledged.
LEMMA StartKeeps ==
    ASSUME ResultsInv, Re!ResultsAssumption, NEW o \in Ops, Re!Start(o)
    PROVE  ResultsInv'
<1>1. /\ o \notin running \cup ended /\ running' = running \cup {o} /\ known' = known \cup {o}
      /\ Cardinality(known) < MaxKnown
      /\ retained' = retained /\ awaiting' = awaiting /\ ended' = ended /\ acknowledged' = acknowledged /\ early' = early
  BY ResultsLibrary DEF Re!Start
<1>2. IsFiniteSet(known') /\ Cardinality(known') <= MaxKnown
  <2>1. IsFiniteSet(known) /\ MaxKnown \in Nat
    BY DEF ResultsInv, Re!ResultsAssumption
  <2>2. IsFiniteSet(known') /\ Cardinality(known') = (IF o \in known THEN Cardinality(known) ELSE Cardinality(known) + 1)
    BY <1>1, <2>1, FS_AddElement
  <2>3. Cardinality(known) \in Nat
    BY <2>1, FS_CardinalityType
  <2> QED BY <1>1, <2>1, <2>2, <2>3
<1>3. Cardinality(Lost') <= Cardinality(early') /\ Distinct(retained') /\ In(retained') \subseteq Unacknowledged'
  BY <1>1 DEF ResultsInv, Lost, Unacknowledged, Distinct, In
<1> QED BY <1>1, <1>2, <1>3 DEF ResultsInv, Unacknowledged

\* An operation ends: its result is kept, and the eldest makes room.
LEMMA CompleteKeeps ==
    ASSUME ResultsInv, Re!ResultsAssumption, NEW o \in Ops, Re!Complete(o)
    PROVE  ResultsInv'
<1>1. PICK q, r : q = Append(retained, o) /\ r = Re!Keep(q)
  OBVIOUS
<1>2. /\ o \in running /\ running' = running \ {o} /\ retained' = r /\ awaiting' = awaiting \ {o} /\ ended' = ended \cup {o}
      /\ known' = known /\ acknowledged' = acknowledged /\ early' = early
  BY <1>1 DEF Re!Complete
<1>3. /\ o \notin ended /\ retained \in Seq(Ops) /\ Distinct(retained) /\ In(retained) \subseteq ended \ acknowledged
      /\ Len(retained) <= MaxResults
  BY <1>2 DEF ResultsInv, Unacknowledged
<1>4. /\ q \in Seq(Ops) /\ Len(retained) \in Nat /\ DOMAIN retained = 1..Len(retained)
      /\ DOMAIN q = 1..Len(retained) + 1 /\ Len(q) = Len(retained) + 1
      /\ \A i \in DOMAIN retained : q[i] = retained[i]
      /\ q[Len(retained) + 1] = o
  BY <1>1, <1>3, AppendFacts, AppendProperties
<1>5. In(q) = In(retained) \cup {o} /\ Distinct(q)
  <2>1. \A i \in DOMAIN q : i \in DOMAIN retained \/ i = Len(retained) + 1
    BY <1>4
  <2>2. \A i \in DOMAIN retained : retained[i] # o /\ i \in DOMAIN q
    BY <1>3, <1>4 DEF In
  <2>3. In(q) = In(retained) \cup {o}
    BY <1>4, <2>1, <2>2 DEF In
  <2>4. Distinct(q)
    BY <1>3, <1>4, <2>1, <2>2 DEF Distinct
  <2> QED BY <2>3, <2>4
<1>6. /\ r \in Seq(Ops) /\ Distinct(r) /\ In(r) \subseteq In(q) /\ Len(r) <= MaxResults
      /\ r = q \/ Len(r) = MaxResults
  <2>1. Len(q) <= MaxResults + 1
    BY <1>3, <1>4 DEF Re!ResultsAssumption
  <2> QED BY <1>1, <1>4, <1>5, <2>1, KeepFacts
<1>7. o \notin acknowledged /\ Unacknowledged' = Unacknowledged \cup {o} /\ o \notin Unacknowledged
  BY <1>2, <1>3 DEF ResultsInv, Unacknowledged
<1>8. IsFiniteSet(ended')
  BY <1>2, FS_AddElement DEF ResultsInv
<1>9. running' \cup Unacknowledged' \subseteq known' \cup early'
  BY <1>2, <1>7 DEF ResultsInv
<1>10. In(retained') \subseteq Unacknowledged' /\ Distinct(retained')
  <2>1. In(r) \subseteq Unacknowledged'
    BY <1>5, <1>6, <1>7 DEF ResultsInv
  <2>2. In(retained') = In(r) /\ (Distinct(retained') <=> Distinct(r))
    BY <1>2 DEF In, Distinct
  <2> QED BY <1>6, <2>1, <2>2
<1>11. Cardinality(Lost') <= Cardinality(early')
  <2>1. Lost' = Unacknowledged' \ In(r)
    BY <1>2 DEF Lost, In
  <2>2. CASE r = q
    <3>1. Lost' = Lost
      BY <1>5, <1>7, <2>1, <2>2 DEF Lost
    <3> QED BY <1>2, <3>1 DEF ResultsInv
  <2>3. CASE Len(r) = MaxResults
    <3>1. Cardinality(In(r)) = MaxResults
      BY <1>6, <2>3, DistinctSize
    <3>2. In(r) \subseteq Unacknowledged'
      BY <1>5, <1>6, <1>7 DEF ResultsInv
    <3>3. IsFiniteSet(known) /\ IsFiniteSet(early) /\ Cardinality(known) <= MaxKnown
      BY DEF ResultsInv
    <3>4. Unacknowledged' \subseteq known \cup early
      BY <1>2, <1>9
    <3>5. Cardinality(Unacknowledged' \ In(r)) <= Cardinality(early)
      BY <3>1, <3>2, <3>3, <3>4, FewLost
    <3> QED BY <1>2, <2>1, <3>5
  <2> QED BY <1>6, <2>2, <2>3
<1> QED BY <1>2, <1>6, <1>8, <1>9, <1>10, <1>11 DEF ResultsInv

\* A client acknowledges an operation, ended or not.
LEMMA AcknowledgeKeeps ==
    ASSUME ResultsInv, NEW o \in Ops, Re!Acknowledge(o)
    PROVE  ResultsInv'
<1>1. PICK r : r = Re!RemoveFirst(retained, o)
  OBVIOUS
<1>2. /\ o \in known \cup In(retained) /\ retained' = r /\ known' = known \ {o}
      /\ acknowledged' = (IF o \in ended THEN acknowledged \cup {o} ELSE acknowledged)
      /\ early' = (IF o \in running THEN early \cup {o} ELSE early)
      /\ running' = running /\ awaiting' = awaiting /\ ended' = ended
  BY <1>1, ResultsLibrary DEF Re!Acknowledge
<1>3. r \in Seq(Ops) /\ Distinct(r) /\ In(r) = In(retained) \ {o} /\ Len(r) <= Len(retained)
  BY <1>1, RemoveFirstFacts DEF ResultsInv
<1>4. Len(r) <= MaxResults
  <2>1. Len(r) \in Nat /\ Len(retained) \in Nat /\ Len(retained) <= MaxResults /\ MaxResults \in Nat
    BY <1>3, LenProperties, BoundaryAssumption DEF ResultsInv, Re!ResultsAssumption
  <2> QED BY <1>3, <2>1
<1>5. IsFiniteSet(known') /\ Cardinality(known') <= MaxKnown
  <2>1. IsFiniteSet(known) /\ Cardinality(known) <= MaxKnown /\ MaxKnown \in Nat
    BY BoundaryAssumption DEF ResultsInv, Re!ResultsAssumption
  <2>2. IsFiniteSet(known') /\ Cardinality(known') <= Cardinality(known)
    BY <1>2, <2>1, FS_Subset
  <2>3. Cardinality(known') \in Nat /\ Cardinality(known) \in Nat
    BY <2>1, <2>2, FS_CardinalityType
  <2> QED BY <2>1, <2>2, <2>3
<1>6. /\ IsFiniteSet(early) /\ IsFiniteSet(early') /\ Cardinality(early) \in Nat /\ Cardinality(early') \in Nat
      /\ Cardinality(early) <= Cardinality(early')
  <2>1. IsFiniteSet(early) /\ (early' = early \/ early' = early \cup {o})
    BY <1>2 DEF ResultsInv
  <2>2. IsFiniteSet(early') /\ early \subseteq early'
    BY <2>1, FS_AddElement
  <2> QED BY <2>1, <2>2, FS_Subset, FS_CardinalityType
<1>7. Unacknowledged' = Unacknowledged \ {o}
  <2>1. o \in known \/ o \in Unacknowledged
    BY <1>2 DEF ResultsInv
  <2> QED BY <1>2 DEF Unacknowledged
<1>8. /\ running' \cup Unacknowledged' \subseteq known' \cup early'
      /\ In(retained') \subseteq Unacknowledged' /\ Distinct(retained') /\ acknowledged' \subseteq ended'
      /\ known' \subseteq running' \cup ended'
  BY <1>2, <1>3, <1>7 DEF ResultsInv, In, Distinct
<1>9. Cardinality(Lost') <= Cardinality(early')
  <2>1. Lost' \subseteq Lost
    BY <1>2, <1>3, <1>7 DEF Lost, In
  <2>2. IsFiniteSet(Lost)
    <3>1. IsFiniteSet(ended) /\ Lost \subseteq ended
      BY DEF ResultsInv, Lost, Unacknowledged
    <3> QED BY <3>1, FS_Subset
  <2>3. Cardinality(Lost') <= Cardinality(Lost) /\ IsFiniteSet(Lost')
    BY <2>1, <2>2, FS_Subset
  <2>4. Cardinality(Lost') \in Nat /\ Cardinality(Lost) \in Nat
    BY <2>2, <2>3, FS_CardinalityType
  <2>5. Cardinality(Lost) <= Cardinality(early)
    BY DEF ResultsInv
  <2> QED BY <1>6, <2>3, <2>4, <2>5
<1> QED BY <1>2, <1>3, <1>4, <1>5, <1>6, <1>8, <1>9 DEF ResultsInv

\* Every step of OperationResults keeps the invariant.
LEMMA ResultsStep ==
    ASSUME ResultsInv, Re!ResultsAssumption, Re!ResultsNext
    PROVE  ResultsInv'
<1>1. ASSUME NEW o \in Ops, Re!AwaitResult(o)
      PROVE  ResultsInv'
  <2>1. /\ o \in running /\ awaiting' = awaiting \cup {o}
        /\ running' = running /\ retained' = retained /\ known' = known /\ ended' = ended
        /\ acknowledged' = acknowledged /\ early' = early
    BY <1>1 DEF Re!AwaitResult
  <2>2. Unacknowledged' = Unacknowledged /\ Lost' = Lost /\ In(retained') = In(retained) /\ Distinct(retained') = Distinct(retained)
    BY <2>1 DEF Unacknowledged, Lost, In, Distinct
  <2> QED BY <2>1, <2>2 DEF ResultsInv
<1>2. ASSUME NEW o \in Ops, Re!PollRetires(o)
      PROVE  ResultsInv'
  BY <1>2, AcknowledgeKeeps DEF Re!PollRetires
<1> QED BY <1>1, <1>2, StartKeeps, CompleteKeeps, AcknowledgeKeeps DEF Re!ResultsNext

\* No result at first.
LEMMA ResultsInitially ==
    ASSUME Re!ResultsInit, Re!ResultsAssumption
    PROVE  ResultsInv
<1>1. /\ running = {} /\ retained = <<>> /\ awaiting = {} /\ known = {}
      /\ ended = {} /\ acknowledged = {} /\ early = {}
  BY DEF Re!ResultsInit
<1>2. Cardinality({}) = 0 /\ IsFiniteSet({}) /\ MaxKnown \in Nat /\ MaxResults \in Nat
  BY FS_EmptySet DEF Re!ResultsAssumption
<1>3. retained \in Seq(Ops) /\ Len(retained) = 0 /\ DOMAIN retained = {}
  BY <1>1, EmptySeq
<1>4. Distinct(retained) /\ In(retained) = {} /\ Unacknowledged = {} /\ Lost = {}
  BY <1>1, <1>3 DEF Distinct, In, Unacknowledged, Lost
<1> QED BY <1>1, <1>2, <1>3, <1>4 DEF ResultsInv

\* What the invariant says of the property.
LEMMA ResultsAccounted ==
    ASSUME ResultsInv
    PROVE  Re!ResultsKept
<1>1. ended \ (acknowledged \cup In(retained)) = Lost
  BY DEF Lost, Unacknowledged
<1> QED BY <1>1, ResultsLibrary DEF ResultsInv, Re!ResultsKept

\* The session that is installed knows the clients, the subscriptions and the capture
\* accepted for it before (replayed by session-worker-host.ts), and no more results are
\* lost than were acknowledged early (lifecycle.ts, retained-session.ts).
THEOREM BoundaryLeasesAndResultsKept == BoundarySpec => []LeasesAndResultsKept
<1> DEFINE Kept == LeasesInv /\ ResultsInv
<1>1. BoundaryInit => Kept
  BY LeasesInitially, ResultsInitially, BoundaryAssumption DEF BoundaryInit
<1>2. LeasesInv /\ UNCHANGED leases => LeasesInv'
  <2> SUFFICES ASSUME LeasesInv, UNCHANGED leases PROVE LeasesInv'
    OBVIOUS
  <2>1. /\ hosted' = hosted /\ build' = build /\ server' = server /\ sess' = sess
        /\ accepted' = accepted /\ missed' = missed /\ past' = past
    BY DEF leases
  <2>2. LeaseTypes'
    BY <2>1 DEF LeasesInv, LeaseTypes
  <2>3. OneSession'
    BY <2>1 DEF LeasesInv, OneSession, Cl!UnderWay, Cl!At, Agree
  <2>4. OneCapture'
    BY <2>1 DEF LeasesInv, OneCapture, Cl!UnderWay, Cl!At
  <2>5. Cl!SessionKnowsClients'
    BY <2>1 DEF LeasesInv, Cl!SessionKnowsClients, Cl!S
  <2> QED BY <2>2, <2>3, <2>4, <2>5 DEF LeasesInv
<1>3. ResultsInv /\ UNCHANGED results => ResultsInv'
  BY DEF results, ResultsInv, Distinct, In, Unacknowledged, Lost
<1>4. Kept /\ [BoundaryNext]_boundaryVars => Kept'
  <2> SUFFICES ASSUME Kept, [BoundaryNext]_boundaryVars PROVE Kept'
    OBVIOUS
  <2>1. UNCHANGED leases \/ Cl!ClientsNext
    BY DEF BoundaryNext, boundaryVars
  <2>2. UNCHANGED results \/ Re!ResultsNext
    BY DEF BoundaryNext, boundaryVars
  <2>3. LeasesInv'
    BY <1>2, <2>1, LeasesStep, BoundaryAssumption
  <2>4. ResultsInv'
    BY <1>3, <2>2, ResultsStep, BoundaryAssumption
  <2> QED BY <2>3, <2>4
<1>5. Kept => LeasesAndResultsKept
  BY ResultsAccounted DEF LeasesAndResultsKept, LeasesInv, OneCapture, Cl!CaptureTakenOver
<1> HIDE DEF Kept
<1> QED BY <1>1, <1>4, <1>5, PTL DEF BoundarySpec
===============================================================================
