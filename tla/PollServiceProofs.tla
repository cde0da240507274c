-------------------------- MODULE PollServiceProofs --------------------------
(***************************************************************************)
(* Proofs about the scheduled work of a session, for any plans, operations *)
(* and delays: that nothing scheduled is forgotten or doubled, that the    *)
(* polls keep their distance, and that the bucket they share is exact.     *)
(***************************************************************************)
EXTENDS PollService, FiniteSetTheorems, FunctionTheorems, TLAPS

-----------------------------------------------------------------------------
(* The values of the variables.                                            *)

Delays == Nat \cup {Off}
Stages == {"none", "running", "ended"}
Foregrounds == UNION {[S -> Nat] : S \in SUBSET Ops}
Services ==
    [enabled : BOOLEAN, closed : BOOLEAN, generation : Nat,
     due : [Plans -> Nat], timer : [Plans -> Delays], active : [Plans -> Stages], born : [Plans -> Nat],
     foreground : Foregrounds, idle : Delays, rtimer : Delays,
     releaseDue : BOOLEAN, releasing : BOOLEAN, released : BOOLEAN,
     credit : Nat, elapsed : Nat, strayed : BOOLEAN]
Jobs == [kind : {"poll"}, plan : Plans, fresh : BOOLEAN]
        \cup [kind : {"release", "again", "conclude"}, plan : {NoOne}, fresh : BOOLEAN]
Sessions == [link : BOOLEAN, generation : Nat, entering : BOOLEAN, offer : BOOLEAN, lost : BOOLEAN]
OperationRecords == [st : Stages, generation : Nat, reentry : BOOLEAN, done : BOOLEAN]
Readings == [who : Ops \cup {NoOne, "poll"}, present : BOOLEAN]
Histories == [permits : Int, phase : Nat, owed : [Plans -> Nat], idleFor : Nat, latecomer : BOOLEAN]

\* Plans and operations are told apart, from each other and from what stands for neither.
NamesAssumption == NoOne \notin Plans \cup Ops /\ "poll" \notin Ops /\ Plans \cap Ops = {}

\* What every lemma about a step is told.
Given == PollAssumption /\ NamesAssumption /\ topology \in {"releasing", "periodic"}

\* How often a job waits in a queue.
Count(q, j) == Cardinality({i \in DOMAIN q : q[i] = j})
Concludes(q) == \E i \in DOMAIN q : q[i].kind = "conclude"

-----------------------------------------------------------------------------
(* The inductive invariant.                                                *)

\* Nothing is scheduled for a plan; and what is scheduled is once, of a service that is on,
\* for a plan that is neither polled nor held by the foreground.
Unscheduled(s, q, p) == s.timer[p] = Off /\ Count(q, Poll(p)) = 0
PlanAt(s, q, p) ==
    /\ s.timer[p] # Off => Count(q, Poll(p)) = 0
    /\ Count(q, Poll(p)) <= 1
    /\ Unscheduled(s, q, p) \/ /\ s.enabled /\ ~s.closed /\ s.active[p] = "none"
                               /\ p \in Timed => Foreground(s) = {}
    /\ Armable(s, p) => ~Unscheduled(s, q, p)
PlansInv(s, q) == ~s.strayed /\ \A p \in Plans : PlanAt(s, q, p)

\* The idle release is once scheduled, unless it is due or done.
Unreleased(s) == topology = "releasing" /\ s.enabled /\ ~s.releasing /\ ~s.released /\ Foreground(s) = {}
ReleaseInv(s, q) ==
    /\ s.closed => ~s.enabled
    /\ Foreground(s) # {} \/ topology # "releasing" =>
          ~s.releaseDue /\ s.rtimer = Off /\ Count(q, Release) = 0
    /\ topology # "releasing" => ~s.releasing /\ ~s.released /\ ~Concludes(q)
    /\ Unreleased(s) /\ ~s.releaseDue =>
          /\ s.rtimer # Off => Count(q, Release) = 0
          /\ s.rtimer = Off => Count(q, Release) = 1

\* One that is due is tried again, unless it was forsaken, n, a, r and h being the session,
\* the operations, the reading and the history.
Obstructed(s, a, r) == (\E o \in Ops : a[o].st # "none") \/ (\E p \in Plans : s.active[p] # "none") \/ r.present
TriedInv(s, q, a, r, h) ==
    Unreleased(s) /\ s.releaseDue =>
       h.latecomer \/ Obstructed(s, a, r) \/ Count(q, Again) > 0 \/ Count(q, Release) > 0 \/ s.rtimer # Off

\* The service and the session's connection.
LinkInv(s, n) ==
    s.enabled => n.link /\ ~n.entering /\ s.generation = n.generation
OnInv(s, n, a) ==
    (/\ n.link /\ ~n.entering /\ ~n.offer /\ ~n.lost /\ ~s.closed
     /\ \A o \in Ops : a[o].st = "none"
     /\ \A p \in Plans : s.active[p] = "none") => s.enabled

\* What runs, and what the service knows of the operations.
Runs(s, a) == {o \in Ops : a[o].st = "running"} \cup {p \in Plans : s.active[p] = "running"}
RunsInv(s, n, a) ==
    /\ n.entering => n.link /\ Runs(s, a) = {}
    /\ topology = "releasing" => \A x, y \in Runs(s, a) : x = y
HeldInv(s, n, a, r) ==
    \A o \in Ops :
       /\ a[o].generation <= n.generation
       /\ r.who = o => a[o].st = "none"
       /\ a[o].st = "running" => a[o].generation = n.generation /\ o \in Foreground(s)
       /\ (a[o].st # "none" \/ r.who = o) /\ n.link /\ a[o].generation = n.generation =>
             o \in Foreground(s) /\ s.foreground[o] = n.generation

\* What is left of a delay is what is left of the distance, at least.
DistanceInv(s, h) ==
    /\ \A p \in Plans : h.owed[p] <= s.due[p] /\ (s.active[p] = "running" => h.owed[p] = 0)
    /\ s.enabled /\ Foreground(s) = {} => \A p \in Timed : h.idleFor + s.due[p] >= Interval

\* The bucket, and the one that is refilled at once.
BucketInv(s, h) ==
    /\ s.credit <= Burst /\ s.elapsed < (Burst + 1) * Refill
    /\ h.phase = s.elapsed % Refill
    /\ h.permits = Smaller(Burst, s.credit + s.elapsed \div Refill)

\* What is scheduled, and what the rest of the state says of it.
Scheduled(s, q) == s \in Services /\ q \in Seq(Jobs) /\ PlansInv(s, q) /\ ReleaseInv(s, q)
Sound(s, q, n, a, r, h) ==
    /\ Scheduled(s, q) /\ n \in Sessions /\ a \in [Ops -> OperationRecords]
    /\ r \in Readings /\ h \in Histories
    /\ LinkInv(s, n) /\ RunsInv(s, n, a) /\ HeldInv(s, n, a, r)
    /\ DistanceInv(s, h) /\ BucketInv(s, h)

PollInv ==
    /\ topology \in {"releasing", "periodic"}
    /\ Sound(svc, queue, session, op, reading, history)
    /\ TriedInv(svc, queue, op, reading, history)
    /\ OnInv(svc, session, op)

-----------------------------------------------------------------------------
(* The turns that wait.                                                    *)

Places(q, j) == {i \in DOMAIN q : q[i] = j}

\* A job waits a number of times.
LEMMA CountFinite ==
  ASSUME NEW q \in Seq(Jobs), NEW j
  PROVE  IsFiniteSet(Places(q, j)) /\ Count(q, j) = Cardinality(Places(q, j)) /\ Count(q, j) \in Nat
<1>1. DOMAIN q = 1 .. Len(q) /\ Len(q) \in Nat
  OBVIOUS
<1>2. IsFiniteSet(1 .. Len(q))
  BY <1>1, FS_Interval
<1>3. Places(q, j) \in SUBSET (1 .. Len(q))
  BY <1>1 DEF Places
<1>4. IsFiniteSet(Places(q, j))
  BY <1>2, <1>3, FS_Subset
<1>5. Count(q, j) = Cardinality(Places(q, j))
  BY DEF Count, Places
<1> QED BY <1>4, <1>5, FS_CardinalityType

\* What waits in one place waits the same times in the other.
LEMMA CountSame ==
  ASSUME NEW q \in Seq(Jobs), NEW r \in Seq(Jobs), Len(q) = Len(r), NEW j,
         \A i \in 1 .. Len(q) : r[i] = j <=> q[i] = j
  PROVE  Count(r, j) = Count(q, j)
<1>1. DOMAIN q = 1 .. Len(q) /\ DOMAIN r = 1 .. Len(q)
  OBVIOUS
<1>2. Places(q, j) = Places(r, j)
  BY <1>1 DEF Places
<1> QED BY <1>2, CountFinite

\* What waits nowhere waits no time.
LEMMA CountNone ==
  ASSUME NEW q \in Seq(Jobs), NEW j
  PROVE  Count(q, j) = 0 <=> \A i \in 1 .. Len(q) : q[i] # j
<1>1. DOMAIN q = 1 .. Len(q)
  OBVIOUS
<1>2. Places(q, j) = {} <=> \A i \in 1 .. Len(q) : q[i] # j
  BY <1>1 DEF Places
<1>3. Count(q, j) = 0 <=> Places(q, j) = {}
  BY CountFinite, FS_EmptySet
<1> QED BY <1>2, <1>3

LEMMA CountEmpty == \A j : Count(<<>>, j) = 0
<1>1. <<>> \in Seq(Jobs) /\ Len(<<>>) = 0
  OBVIOUS
<1>2. ASSUME NEW j PROVE Count(<<>>, j) = 0
  <2>1. \A i \in 1 .. Len(<<>>) : <<>>[i] # j
    BY <1>1
  <2> QED BY <1>1, <2>1, CountNone
<1> QED BY <1>2

\* A turn that is appended adds itself.
LEMMA CountAppend ==
  ASSUME NEW q \in Seq(Jobs), NEW m \in Jobs
  PROVE  /\ Append(q, m) \in Seq(Jobs)
         /\ \A j : Count(Append(q, m), j) = Count(q, j) + (IF m = j THEN 1 ELSE 0)
         /\ Concludes(Append(q, m)) => Concludes(q) \/ m.kind = "conclude"
<1> PICK r : r = Append(q, m)
  OBVIOUS
<1>1. /\ r \in Seq(Jobs) /\ Len(q) \in Nat /\ Len(r) = Len(q) + 1 /\ r[Len(q) + 1] = m
      /\ DOMAIN q = 1 .. Len(q) /\ DOMAIN r = 1 .. (Len(q) + 1)
      /\ \A i \in 1 .. Len(q) : r[i] = q[i]
  OBVIOUS
<1>2. ASSUME NEW j PROVE Count(r, j) = Count(q, j) + (IF m = j THEN 1 ELSE 0)
  <2>1. Places(r, j) = Places(q, j) \cup (IF m = j THEN {Len(q) + 1} ELSE {})
    BY <1>1 DEF Places
  <2>2. Len(q) + 1 \notin Places(q, j)
    BY <1>1 DEF Places
  <2>3. /\ IsFiniteSet(Places(q, j)) /\ Count(q, j) = Cardinality(Places(q, j)) /\ Count(q, j) \in Nat
        /\ Count(r, j) = Cardinality(Places(r, j))
    BY <1>1, CountFinite
  <2>4. CASE m = j
    <3>1. Places(r, j) = Places(q, j) \cup {Len(q) + 1}
      BY <2>1, <2>4
    <3>2. Cardinality(Places(q, j) \cup {Len(q) + 1}) = Cardinality(Places(q, j)) + 1
      BY <2>2, <2>3, FS_AddElement
    <3> QED BY <2>3, <2>4, <3>1, <3>2
  <2>5. CASE m # j
    <3>1. Places(r, j) = Places(q, j)
      BY <2>1, <2>5
    <3> QED BY <2>3, <2>5, <3>1
  <2> QED BY <2>4, <2>5
<1>3. Concludes(r) => Concludes(q) \/ m.kind = "conclude"
  BY <1>1 DEF Concludes
<1> QED BY <1>1, <1>2, <1>3

\* A turn that is taken takes itself away.
LEMMA CountTail ==
  ASSUME NEW q \in Seq(Jobs), q # <<>>
  PROVE  /\ Head(q) \in Jobs /\ Tail(q) \in Seq(Jobs)
         /\ \A j : Count(q, j) = Count(Tail(q), j) + (IF Head(q) = j THEN 1 ELSE 0)
         /\ Concludes(Tail(q)) \/ Head(q).kind = "conclude" => Concludes(q)
<1> PICK r, m : r = Tail(q) /\ m = Head(q)
  OBVIOUS
<1>1. /\ m \in Jobs /\ r \in Seq(Jobs) /\ m = q[1] /\ Len(r) = Len(q) - 1 /\ Len(q) \in Nat
      /\ DOMAIN q = 1 .. Len(q) /\ DOMAIN r = 1 .. Len(r)
      /\ Len(q) > 0 /\ \A i \in 1 .. Len(r) : r[i] = q[i + 1]
  OBVIOUS
<1>2. ASSUME NEW j PROVE Count(q, j) = Count(r, j) + (IF m = j THEN 1 ELSE 0)
  <2> DEFINE F == [i \in Places(r, j) |-> i + 1]
             S == Places(q, j) \ {1}
  <2>1. F \in [Places(r, j) -> S]
    <3>1. \A i \in Places(r, j) : i + 1 \in S
      BY <1>1 DEF Places
    <3> QED BY <3>1
  <2>2. \A i, k \in Places(r, j) : i # k => F[i] # F[k]
    BY <1>1 DEF Places
  <2>3. \A t \in S : \E i \in Places(r, j) : F[i] = t
    <3>1. ASSUME NEW t \in S PROVE t - 1 \in Places(r, j) /\ F[t - 1] = t
      BY <1>1 DEF Places
    <3> HIDE DEF F, S
    <3> QED BY <3>1
  <2>4. /\ IsFiniteSet(Places(q, j)) /\ Count(q, j) = Cardinality(Places(q, j)) /\ Count(q, j) \in Nat
        /\ IsFiniteSet(Places(r, j)) /\ Count(r, j) = Cardinality(Places(r, j)) /\ Count(r, j) \in Nat
    BY <1>1, CountFinite
  <2>5. Cardinality(S) = IF 1 \in Places(q, j) THEN Cardinality(Places(q, j)) - 1 ELSE Cardinality(Places(q, j))
    BY <2>4, FS_RemoveElement
  <2>6. 1 \in Places(q, j) <=> m = j
    BY <1>1 DEF Places
  <2> HIDE DEF F, S
  <2>7. F \in Injection(Places(r, j), S) /\ F \in Surjection(Places(r, j), S)
    BY <2>1, <2>2, <2>3, Fun_IsInj, Fun_IsSurj
  <2>8. ExistsBijection(Places(r, j), S)
    BY <2>7 DEF ExistsBijection, Bijection
  <2>9. Cardinality(S) = Count(r, j)
    BY <2>4, <2>8, FS_Bijection
  <2> QED BY <2>4, <2>5, <2>6, <2>9
<1>3. Concludes(r) \/ m.kind = "conclude" => Concludes(q)
  BY <1>1 DEF Concludes
<1> QED BY <1>1, <1>2, <1>3
\* The jobs the invariant speaks of differ.
LEMMA JobsDiffer ==
  ASSUME NamesAssumption
  PROVE  /\ \A p \in Plans : Poll(p) \in Jobs
         /\ Release \in Jobs /\ Again \in Jobs /\ Conclude \in Jobs
         /\ \A p, r \in Plans : Poll(p) = Poll(r) => p = r
         /\ \A p \in Plans : Poll(p) # Release /\ Poll(p) # Again /\ Poll(p) # Conclude
         /\ Release # Again /\ Release # Conclude /\ Again # Conclude
         /\ \A p \in Plans : Poll(p).kind = "poll"
         /\ Release.kind = "release" /\ Again.kind = "again" /\ Conclude.kind = "conclude"
<1>1. \A p, r \in Plans : Poll(p) = Poll(r) => p = r
  <2> SUFFICES ASSUME NEW p \in Plans, NEW r \in Plans, Poll(p) = Poll(r) PROVE p = r
    OBVIOUS
  <2>1. Poll(p).plan = p /\ Poll(r).plan = r
    BY DEF Poll
  <2> QED BY <2>1
<1>2. \A p \in Plans : Poll(p).kind = "poll"
  BY DEF Poll
<1>3. Release.kind = "release" /\ Again.kind = "again" /\ Conclude.kind = "conclude"
  BY DEF Release, Again, Conclude
<1>4. \A p \in Plans : Poll(p) \in Jobs
  BY DEF Poll, Jobs
<1>5. Release \in Jobs /\ Again \in Jobs /\ Conclude \in Jobs
  BY DEF Release, Again, Conclude, Jobs
<1>6. \A p \in Plans : Poll(p) # Release /\ Poll(p) # Again /\ Poll(p) # Conclude
  BY <1>2, <1>3
<1>7. Release # Again /\ Release # Conclude /\ Again # Conclude
  BY <1>3
<1> QED BY <1>1, <1>2, <1>3, <1>4, <1>5, <1>6, <1>7

\* What a job is told by.
LEMMA JobIs ==
  ASSUME NamesAssumption, NEW m \in Jobs
  PROVE  /\ \A p \in Plans : m = Poll(p) <=> m.plan = p /\ m.fresh
         /\ m = Release <=> m.kind = "release" /\ m.fresh
         /\ m = Again <=> m.kind = "again" /\ m.fresh
         /\ m.kind = "poll" <=> m.plan \in Plans
         /\ m.kind \in {"poll", "release", "again", "conclude"} /\ m.fresh \in BOOLEAN
<1>1. CASE m \in [kind : {"poll"}, plan : Plans, fresh : BOOLEAN]
  <2>1. m = [kind |-> "poll", plan |-> m.plan, fresh |-> m.fresh] /\ m.plan \in Plans /\ m.fresh \in BOOLEAN
        /\ m.kind = "poll"
    BY <1>1
  <2>2. \A p \in Plans : m = Poll(p) <=> m.plan = p /\ m.fresh
    BY <2>1 DEF Poll
  <2>3. m # Release /\ m # Again
    BY <2>1 DEF Release, Again
  <2> QED BY <2>1, <2>2, <2>3
<1>2. CASE m \in [kind : {"release", "again", "conclude"}, plan : {NoOne}, fresh : BOOLEAN]
  <2>1. m = [kind |-> m.kind, plan |-> NoOne, fresh |-> m.fresh] /\ m.fresh \in BOOLEAN /\ m.plan = NoOne
        /\ m.kind \in {"release", "again", "conclude"}
    BY <1>2
  <2>2. m.plan \notin Plans
    BY <2>1 DEF NamesAssumption
  <2>3. \A p \in Plans : m # Poll(p)
    BY <2>1, <2>2 DEF Poll
  <2>4. (m = Release <=> m.kind = "release" /\ m.fresh) /\ (m = Again <=> m.kind = "again" /\ m.fresh)
    BY <2>1 DEF Release, Again
  <2> QED BY <2>1, <2>2, <2>3, <2>4
<1> QED BY <1>1, <1>2 DEF Jobs

\* A turn made stale.
LEMMA Staled ==
  ASSUME NamesAssumption, NEW m \in Jobs, NEW c \in BOOLEAN, NEW n, n = [m EXCEPT !.fresh = c]
  PROVE  n \in Jobs /\ n.kind = m.kind /\ n.plan = m.plan /\ n.fresh = c
<1>1. CASE m \in [kind : {"poll"}, plan : Plans, fresh : BOOLEAN]
  BY <1>1 DEF Jobs
<1>2. CASE m \in [kind : {"release", "again", "conclude"}, plan : {NoOne}, fresh : BOOLEAN]
  BY <1>2 DEF Jobs
<1> QED BY <1>1, <1>2 DEF Jobs

\* A new epoch leaves every poll and release behind, and nothing else.
LEMMA CountEpoch ==
  ASSUME NamesAssumption, NEW q \in Seq(Jobs)
  PROVE  /\ NewEpoch(q) \in Seq(Jobs)
         /\ \A p \in Plans : Count(NewEpoch(q), Poll(p)) = 0
         /\ Count(NewEpoch(q), Release) = 0 /\ Count(NewEpoch(q), Again) = Count(q, Again)
         /\ Concludes(NewEpoch(q)) => Concludes(q)
<1> PICK r : r = NewEpoch(q)
  OBVIOUS
<1>1. r = [i \in 1 .. Len(q) |-> [q[i] EXCEPT !.fresh = @ /\ ~(q[i].kind \in {"poll", "release"})]] /\ Len(q) \in Nat
  BY DEF NewEpoch, Outdated
<1>2. ASSUME NEW i \in 1 .. Len(q)
      PROVE  /\ q[i] \in Jobs /\ r[i] \in Jobs /\ r[i].kind = q[i].kind /\ r[i].plan = q[i].plan
             /\ r[i].fresh <=> q[i].fresh /\ q[i].kind \notin {"poll", "release"}
  <2> PICK m, n : m = q[i] /\ n = r[i]
    OBVIOUS
  <2> PICK c \in BOOLEAN : c <=> (m.fresh /\ m.kind \notin {"poll", "release"})
    OBVIOUS
  <2>1. m \in Jobs
    OBVIOUS
  <2>2. n = [m EXCEPT !.fresh = c]
    BY <1>1, <2>1, JobIs
  <2> QED BY <2>1, <2>2, Staled
<1>3. r \in Seq(Jobs) /\ Len(r) = Len(q)
  BY <1>1, <1>2
<1>4. \A i \in 1 .. Len(q) : r[i] # Release /\ (\A p \in Plans : r[i] # Poll(p)) /\ (r[i] = Again <=> q[i] = Again)
  BY <1>2, JobIs
<1>6. Concludes(r) => Concludes(q)
  <2>1. DOMAIN q = 1 .. Len(q) /\ DOMAIN r = 1 .. Len(q)
    BY <1>1
  <2> QED BY <1>2, <2>1 DEF Concludes
<1> QED BY <1>3, <1>6, <1>4, CountSame, CountNone

\* A new revision leaves the polls of these plans behind.
LEMMA CountRevision ==
  ASSUME NamesAssumption, NEW q \in Seq(Jobs), NEW S \in SUBSET Plans
  PROVE  /\ NewRevision(q, S) \in Seq(Jobs)
         /\ \A p \in Plans : Count(NewRevision(q, S), Poll(p)) = IF p \in S THEN 0 ELSE Count(q, Poll(p))
         /\ Count(NewRevision(q, S), Release) = Count(q, Release) /\ Count(NewRevision(q, S), Again) = Count(q, Again)
         /\ Concludes(NewRevision(q, S)) => Concludes(q)
<1> PICK r : r = NewRevision(q, S)
  OBVIOUS
<1>1. r = [i \in 1 .. Len(q) |-> [q[i] EXCEPT !.fresh = @ /\ ~(q[i].plan \in S)]] /\ Len(q) \in Nat
  BY DEF NewRevision, Outdated
<1>2. ASSUME NEW i \in 1 .. Len(q)
      PROVE  /\ q[i] \in Jobs /\ r[i] \in Jobs /\ r[i].kind = q[i].kind /\ r[i].plan = q[i].plan
             /\ r[i].fresh <=> q[i].fresh /\ q[i].plan \notin S
  <2> PICK m, n : m = q[i] /\ n = r[i]
    OBVIOUS
  <2> PICK c \in BOOLEAN : c <=> (m.fresh /\ m.plan \notin S)
    OBVIOUS
  <2>1. m \in Jobs
    OBVIOUS
  <2>2. n = [m EXCEPT !.fresh = c]
    BY <1>1, <2>1, JobIs
  <2> QED BY <2>1, <2>2, Staled
<1>3. r \in Seq(Jobs) /\ Len(r) = Len(q)
  BY <1>1, <1>2
<1>4. \A i \in 1 .. Len(q) : (r[i] = Release <=> q[i] = Release) /\ (r[i] = Again <=> q[i] = Again)
  BY <1>2, JobIs
<1>5. ASSUME NEW p \in Plans
      PROVE  Count(r, Poll(p)) = IF p \in S THEN 0 ELSE Count(q, Poll(p))
  <2>1. CASE p \in S
    <3>1. \A i \in 1 .. Len(q) : r[i] # Poll(p)
      BY <1>2, <2>1, JobIs
    <3> QED BY <1>3, <2>1, <3>1, CountNone
  <2>2. CASE p \notin S
    <3>1. \A i \in 1 .. Len(q) : r[i] = Poll(p) <=> q[i] = Poll(p)
      BY <1>2, <2>2, JobIs
    <3> QED BY <1>3, <2>2, <3>1, CountSame
  <2> QED BY <2>1, <2>2
<1>6. Concludes(r) => Concludes(q)
  <2>1. DOMAIN q = 1 .. Len(q) /\ DOMAIN r = 1 .. Len(q)
    BY <1>1
  <2> QED BY <1>2, <2>1 DEF Concludes
<1> QED BY <1>3, <1>6, <1>4, <1>5, CountSame

\* A foreground operation leaves the release and the timed polls behind.
LEMMA CountBusier ==
  ASSUME NamesAssumption, NEW q \in Seq(Jobs), Timed \subseteq Plans
  PROVE  /\ Busier(q) \in Seq(Jobs)
         /\ \A p \in Plans : Count(Busier(q), Poll(p)) = IF p \in Timed THEN 0 ELSE Count(q, Poll(p))
         /\ Count(Busier(q), Release) = 0 /\ Count(Busier(q), Again) = Count(q, Again)
         /\ Concludes(Busier(q)) => Concludes(q)
<1> PICK r, S : r = Busier(q) /\ S = Timed
  OBVIOUS
<1>1. r = [i \in 1 .. Len(q) |-> [q[i] EXCEPT !.fresh = @ /\ ~(q[i].kind = "release" \/ q[i].plan \in S)]] /\ Len(q) \in Nat
  BY DEF Busier, Outdated
<1>2. ASSUME NEW i \in 1 .. Len(q)
      PROVE  /\ q[i] \in Jobs /\ r[i] \in Jobs /\ r[i].kind = q[i].kind /\ r[i].plan = q[i].plan
             /\ r[i].fresh <=> q[i].fresh /\ q[i].kind # "release" /\ q[i].plan \notin S
  <2> PICK m, n : m = q[i] /\ n = r[i]
    OBVIOUS
  <2> PICK c \in BOOLEAN : c <=> (m.fresh /\ m.kind # "release" /\ m.plan \notin S)
    OBVIOUS
  <2>1. m \in Jobs
    OBVIOUS
  <2>2. n = [m EXCEPT !.fresh = c]
    BY <1>1, <2>1, JobIs
  <2> QED BY <2>1, <2>2, Staled
<1>3. r \in Seq(Jobs) /\ Len(r) = Len(q)
  BY <1>1, <1>2
<1>4. \A i \in 1 .. Len(q) : r[i] # Release /\ (r[i] = Again <=> q[i] = Again)
  BY <1>2, JobIs
<1>5. ASSUME NEW p \in Plans
      PROVE  Count(r, Poll(p)) = IF p \in S THEN 0 ELSE Count(q, Poll(p))
  <2>1. CASE p \in S
    <3>1. \A i \in 1 .. Len(q) : r[i] # Poll(p)
      BY <1>2, <2>1, JobIs
    <3> QED BY <1>3, <2>1, <3>1, CountNone
  <2>2. CASE p \notin S
    <3>1. \A i \in 1 .. Len(q) : r[i] = Poll(p) <=> q[i] = Poll(p)
      BY <1>2, <2>2, JobIs
    <3> QED BY <1>3, <2>2, <3>1, CountSame
  <2> QED BY <2>1, <2>2
<1>6. Concludes(r) => Concludes(q)
  <2>1. DOMAIN q = 1 .. Len(q) /\ DOMAIN r = 1 .. Len(q)
    BY <1>1
  <2> QED BY <1>2, <2>1 DEF Concludes
<1> QED BY <1>3, <1>6, <1>4, <1>5, CountSame, CountNone
-----------------------------------------------------------------------------
(* The methods of the service.                                             *)

\* What the foreground holds, with an operation and without some.
LEMMA ForegroundWith ==
  ASSUME NEW f \in Foregrounds, NEW o \in Ops, NEW g \in Nat
  PROVE  /\ With(f, o, g) \in Foregrounds /\ DOMAIN With(f, o, g) = DOMAIN f \cup {o}
         /\ With(f, o, g)[o] = g /\ \A x \in DOMAIN f \ {o} : With(f, o, g)[x] = f[x]
<1>1. PICK S \in SUBSET Ops : f \in [S -> Nat]
  BY DEF Foregrounds
<1>2. With(f, o, g) \in [S \cup {o} -> Nat] /\ S \cup {o} \in SUBSET Ops
  BY <1>1 DEF With
<1> QED BY <1>1, <1>2 DEF Foregrounds, With

LEMMA ForegroundWithout ==
  ASSUME NEW f \in Foregrounds, NEW T
  PROVE  /\ Without(f, T) \in Foregrounds /\ DOMAIN Without(f, T) = DOMAIN f \ T
         /\ \A x \in DOMAIN f \ T : Without(f, T)[x] = f[x]
<1>1. PICK S \in SUBSET Ops : f \in [S -> Nat]
  BY DEF Foregrounds
<1>2. Without(f, T) \in [S \ T -> Nat] /\ S \ T \in SUBSET Ops
  BY <1>1 DEF Without
<1> QED BY <1>1, <1>2 DEF Foregrounds, Without

LEMMA ForegroundIs ==
  ASSUME NEW f \in Foregrounds
  PROVE  DOMAIN f \subseteq Ops /\ \A o \in DOMAIN f : f[o] \in Nat
BY DEF Foregrounds

\* What arming changes nothing of.
Alike(s, t) ==
    /\ t.enabled = s.enabled /\ t.closed = s.closed /\ t.generation = s.generation
    /\ t.active = s.active /\ t.born = s.born /\ t.foreground = s.foreground
    /\ t.idle = s.idle /\ t.releaseDue = s.releaseDue /\ t.releasing = s.releasing
    /\ t.released = s.released /\ t.credit = s.credit /\ t.elapsed = s.elapsed

LEMMA ArmableAlike ==
  ASSUME NEW s \in Services, NEW t \in Services, Alike(s, t), NEW p
  PROVE  Armable(t, p) <=> Armable(s, p)
BY DEF Alike, Armable, Foreground

LEMMA ArmIs ==
  ASSUME NEW s \in Services, NEW S \in SUBSET Plans
  PROVE  /\ Arm(s, S) \in Services /\ Alike(s, Arm(s, S))
         /\ Arm(s, S).due = s.due /\ Arm(s, S).rtimer = s.rtimer
         /\ \A p \in Plans : Arm(s, S).timer[p] = IF p \in S /\ Armable(s, p) THEN s.due[p] ELSE s.timer[p]
         /\ Arm(s, S).strayed <=> s.strayed \/ \E p \in S : Armable(s, p) /\ s.timer[p] # Off
<1>f. PICK f : f = [p \in Plans |-> IF p \in S /\ Armable(s, p) THEN s.due[p] ELSE s.timer[p]]
  OBVIOUS
<1>c. PICK c \in BOOLEAN : c <=> (s.strayed \/ \E p \in S : Armable(s, p) /\ s.timer[p] # Off)
  OBVIOUS
<1>1. s.due \in [Plans -> Nat] /\ s.timer \in [Plans -> Delays] /\ s.strayed \in BOOLEAN
  BY DEF Services
<1>2. f \in [Plans -> Delays]
  BY <1>f, <1>1 DEF Delays
<1>3. Arm(s, S) = [s EXCEPT !.timer = f, !.strayed = c]
  BY <1>f, <1>c, <1>1 DEF Arm
<1>4. Arm(s, S) \in Services /\ Arm(s, S).timer = f /\ (Arm(s, S).strayed <=> c)
  BY <1>2, <1>3 DEF Services
<1>5. Alike(s, Arm(s, S)) /\ Arm(s, S).due = s.due /\ Arm(s, S).rtimer = s.rtimer
  BY <1>3 DEF Services, Alike
<1> QED BY <1>f, <1>c, <1>4, <1>5

LEMMA ArmReleaseIs ==
  ASSUME NEW s \in Services, PollAssumption
  PROVE  /\ ArmRelease(s) \in Services /\ Alike(s, ArmRelease(s))
         /\ ArmRelease(s).due = s.due /\ ArmRelease(s).timer = s.timer /\ ArmRelease(s).strayed = s.strayed
         /\ ArmRelease(s).rtimer # Off <=>
               /\ topology = "releasing" /\ s.enabled /\ ~s.closed /\ ~s.released
               /\ Foreground(s) = {} /\ s.idle # Off
<1>n. PICK n : n = IF /\ topology = "releasing" /\ s.enabled /\ ~s.closed /\ ~s.released
                    /\ Foreground(s) = {} /\ s.idle # Off
                 THEN Larger(0, ReleaseAfter - s.idle) ELSE Off
  OBVIOUS
<1>1. s.idle \in Delays
  BY DEF Services
<1>2. /\ n \in Delays
      /\ n # Off <=> /\ topology = "releasing" /\ s.enabled /\ ~s.closed /\ ~s.released
                     /\ Foreground(s) = {} /\ s.idle # Off
  BY <1>n, <1>1 DEF Delays, Off, Larger, PollAssumption
<1>3. ArmRelease(s) = [s EXCEPT !.rtimer = n]
  BY <1>n DEF ArmRelease
<1>4. ArmRelease(s) \in Services /\ ArmRelease(s).rtimer = n
  BY <1>2, <1>3 DEF Services
<1>5. /\ Alike(s, ArmRelease(s)) /\ ArmRelease(s).due = s.due /\ ArmRelease(s).timer = s.timer
      /\ ArmRelease(s).strayed = s.strayed
  BY <1>3 DEF Services, Alike
<1> QED BY <1>2, <1>4, <1>5

LEMMA ResetIdleIs ==
  ASSUME NEW s \in Services, NEW S \in SUBSET Plans, PollAssumption
  PROVE  /\ ResetIdle(s, S) \in Services /\ Alike(s, ResetIdle(s, S))
         /\ ResetIdle(s, S).timer = s.timer /\ ResetIdle(s, S).rtimer = s.rtimer
         /\ \A p \in Plans : ResetIdle(s, S).due[p] = IF p \in S THEN Larger(s.due[p], Interval) ELSE s.due[p]
         /\ ResetIdle(s, S).strayed <=> s.strayed \/ \E p \in S : s.timer[p] # Off
<1>f. PICK f : f = [p \in Plans |-> IF p \in S THEN Larger(s.due[p], Interval) ELSE s.due[p]]
  OBVIOUS
<1>c. PICK c \in BOOLEAN : c <=> (s.strayed \/ \E p \in S : s.timer[p] # Off)
  OBVIOUS
<1>1. s.due \in [Plans -> Nat] /\ s.timer \in [Plans -> Delays] /\ s.strayed \in BOOLEAN
  BY DEF Services
<1>2. f \in [Plans -> Nat]
  BY <1>f, <1>1 DEF Larger, PollAssumption
<1>3. ResetIdle(s, S) = [s EXCEPT !.due = f, !.strayed = c]
  BY <1>f, <1>c, <1>1 DEF ResetIdle
<1>4. ResetIdle(s, S) \in Services /\ ResetIdle(s, S).due = f /\ (ResetIdle(s, S).strayed <=> c)
  BY <1>2, <1>3 DEF Services
<1>5. /\ Alike(s, ResetIdle(s, S)) /\ ResetIdle(s, S).timer = s.timer /\ ResetIdle(s, S).rtimer = s.rtimer
  BY <1>3 DEF Services, Alike
<1> QED BY <1>f, <1>c, <1>4, <1>5

LEMMA PauseIs ==
  ASSUME NEW s \in Services
  PROVE  /\ Pause(s) \in Services /\ Pause(s).enabled = FALSE /\ Pause(s).rtimer = Off
         /\ \A p \in Plans : Pause(s).timer[p] = Off
         /\ Pause(s).closed = s.closed /\ Pause(s).generation = s.generation /\ Pause(s).due = s.due
         /\ Pause(s).active = s.active /\ Pause(s).born = s.born /\ Pause(s).foreground = s.foreground
         /\ Pause(s).idle = s.idle /\ Pause(s).releaseDue = s.releaseDue /\ Pause(s).releasing = s.releasing
         /\ Pause(s).released = s.released /\ Pause(s).credit = s.credit /\ Pause(s).elapsed = s.elapsed
         /\ Pause(s).strayed = s.strayed
<1> PICK f : f = [p \in Plans |-> Off]
  OBVIOUS
<1>1. f \in [Plans -> Delays] /\ Off \in Delays /\ \A p \in Plans : f[p] = Off
  BY DEF Delays
<1>2. Pause(s) = [s EXCEPT !.enabled = FALSE, !.rtimer = Off, !.timer = f]
  BY DEF Pause
<1> QED BY <1>1, <1>2 DEF Services
\* resume(), where it does something: the service is on, for this generation; what the
\* foreground held in another is dropped; every plan is armed anew, and the release.
ResumedFrom(s, t, g) ==
    /\ t.enabled = TRUE /\ t.closed = s.closed /\ t.generation = g
    /\ t.active = s.active /\ t.born = s.born
    /\ t.releaseDue = s.releaseDue /\ t.releasing = s.releasing /\ t.released = s.released
    /\ t.credit = s.credit /\ t.elapsed = s.elapsed
    /\ Foreground(t) = {o \in Foreground(s) : s.foreground[o] = g}
    /\ \A o \in Foreground(t) : t.foreground[o] = s.foreground[o]
    /\ \A p \in Plans : t.due[p] = Larger(s.due[p], Interval)
    /\ \A p \in Plans : t.timer[p] # Off <=> Armable(t, p)
    /\ t.rtimer # Off <=> topology = "releasing" /\ ~t.released /\ Foreground(t) = {}
    /\ ~s.strayed => ~t.strayed

LEMMA ResumeIs ==
  ASSUME PollAssumption, NEW s \in Services, NEW g \in Nat, ~Resumed(s, g)
  PROVE  Resume(s, g) \in Services /\ ResumedFrom(s, Resume(s, g), g)
<1>p. PICK h : h = Without(s.foreground, {o \in Foreground(s) : s.foreground[o] # g})
  OBVIOUS
<1>f. s.foreground \in Foregrounds /\ s.idle \in Delays /\ s.due \in [Plans -> Nat] /\ ~s.closed
  BY DEF Services, Resumed
<1>h. /\ h \in Foregrounds /\ DOMAIN h = {o \in Foreground(s) : s.foreground[o] = g}
      /\ \A o \in DOMAIN h : h[o] = s.foreground[o]
  <2>1. PICK T : T = {o \in Foreground(s) : s.foreground[o] # g}
    OBVIOUS
  <2>2. h = Without(s.foreground, T)
    BY <1>p, <2>1
  <2>3. h \in Foregrounds /\ DOMAIN h = DOMAIN s.foreground \ T /\ \A o \in DOMAIN s.foreground \ T : h[o] = s.foreground[o]
    <3>1. PICK f : f = s.foreground
      OBVIOUS
    <3>2. f \in Foregrounds
      BY <1>f, <3>1
    <3>3. /\ Without(f, T) \in Foregrounds /\ DOMAIN Without(f, T) = DOMAIN f \ T
          /\ \A x \in DOMAIN f \ T : Without(f, T)[x] = f[x]
      BY <3>2, ForegroundWithout
    <3> QED BY <2>2, <3>1, <3>3
  <2>4. DOMAIN s.foreground \ T = {o \in Foreground(s) : s.foreground[o] = g}
    BY <2>1 DEF Foreground
  <2> QED BY <2>3, <2>4
<1>1. PICK a : a = Pause(s)
  OBVIOUS
<1>2. /\ a \in Services /\ a.rtimer = Off /\ \A p \in Plans : a.timer[p] = Off
      /\ a.closed = s.closed /\ a.due = s.due
      /\ a.active = s.active /\ a.born = s.born
      /\ a.idle = s.idle /\ a.releaseDue = s.releaseDue /\ a.releasing = s.releasing
      /\ a.released = s.released /\ a.credit = s.credit /\ a.elapsed = s.elapsed
      /\ a.strayed = s.strayed /\ a.foreground = s.foreground
  BY <1>1, PauseIs
<1>3. PICK b : b = [a EXCEPT !.enabled = TRUE, !.generation = g, !.foreground = h]
  OBVIOUS
<1>4. /\ b \in Services /\ b.enabled = TRUE /\ b.generation = g /\ b.foreground = h
      /\ b.closed = a.closed /\ b.due = a.due /\ b.timer = a.timer /\ b.rtimer = a.rtimer
      /\ b.active = a.active /\ b.born = a.born
      /\ b.idle = a.idle /\ b.releaseDue = a.releaseDue /\ b.releasing = a.releasing
      /\ b.released = a.released /\ b.credit = a.credit /\ b.elapsed = a.elapsed
      /\ b.strayed = a.strayed
  BY <1>2, <1>3, <1>h DEF Services
<1>5. PICK n : n = IF Foreground(b) = {} /\ b.idle = Off THEN 0 ELSE b.idle
  OBVIOUS
<1>6. n \in Delays /\ (Foreground(b) = {} => n # Off)
  BY <1>2, <1>4, <1>5, <1>f DEF Delays, Off
<1>7. PICK c : c = [b EXCEPT !.idle = n]
  OBVIOUS
<1>8. /\ c \in Services /\ c.idle = n
      /\ c.enabled = TRUE /\ c.generation = g /\ c.foreground = h
      /\ c.closed = a.closed /\ c.due = a.due /\ c.timer = a.timer
      /\ c.active = a.active /\ c.born = a.born
      /\ c.releaseDue = a.releaseDue /\ c.releasing = a.releasing
      /\ c.released = a.released /\ c.credit = a.credit /\ c.elapsed = a.elapsed
      /\ c.strayed = a.strayed
  BY <1>4, <1>6, <1>7 DEF Services
<1>9. PICK d : d = ArmRelease(c)
  OBVIOUS
<1>10. /\ d \in Services /\ Alike(c, d) /\ d.due = c.due /\ d.timer = c.timer /\ d.strayed = c.strayed
       /\ d.rtimer # Off <=> /\ topology = "releasing" /\ ~c.released
                             /\ Foreground(c) = {} /\ c.idle # Off
  BY <1>2, <1>8, <1>9, <1>f, ArmReleaseIs
<1>11. PICK e, u : e = [d EXCEPT !.due = u] /\ u = [p \in Plans |-> Larger(s.due[p], Interval)]
  OBVIOUS
<1>12. u \in [Plans -> Nat] /\ \A p \in Plans : u[p] = Larger(s.due[p], Interval)
  BY <1>11, <1>f DEF Larger, PollAssumption
<1>13. /\ e \in Services /\ e.due = u /\ Alike(c, e) /\ e.timer = c.timer /\ e.strayed = c.strayed
       /\ e.rtimer = d.rtimer
  BY <1>10, <1>11, <1>12 DEF Services, Alike
<1>14. Resume(s, g) = Arm(e, Plans)
  <2> DEFINE B == [Pause(s) EXCEPT !.enabled = TRUE, !.generation = g,
                     !.foreground = Without(@, {o \in Foreground(s) : s.foreground[o] # g})]
             C == [B EXCEPT !.idle = IF Foreground(B) = {} /\ @ = Off THEN 0 ELSE @]
             D == ArmRelease(C)
             E == [D EXCEPT !.due = [p \in Plans |-> Larger(@[p], Interval)]]
  <2>1. Resume(s, g) = Arm(E, Plans)
    BY DEF Resume
  <2>2. b = B
    BY <1>p, <1>1, <1>2, <1>3 DEF Services
  <2>3. C = [B EXCEPT !.idle = IF Foreground(B) = {} /\ B.idle = Off THEN 0 ELSE B.idle]
    OBVIOUS
  <2>4. E = [D EXCEPT !.due = [p \in Plans |-> Larger(D.due[p], Interval)]]
    OBVIOUS
  <2>5. D = ArmRelease(C)
    OBVIOUS
  <2> HIDE DEF B, C, D, E
  <2>6. c = C
    BY <2>2, <2>3, <1>5, <1>7
  <2>7. d = D
    BY <2>5, <2>6, <1>9
  <2>8. D.due = s.due
    BY <1>2, <1>4, <1>8, <1>10, <2>7
  <2>9. [p \in Plans |-> Larger(D.due[p], Interval)] = u
    BY <1>11, <2>8
  <2>10. e = E
    BY <2>4, <2>7, <2>9, <1>11
  <2> QED BY <2>1, <2>10
<1>15. PICK t : t = Arm(e, Plans)
  OBVIOUS
<1>16. /\ t \in Services /\ Alike(e, t) /\ t.due = e.due /\ t.rtimer = e.rtimer
       /\ \A p \in Plans : t.timer[p] = IF Armable(e, p) THEN e.due[p] ELSE e.timer[p]
       /\ t.strayed <=> e.strayed \/ \E p \in Plans : Armable(e, p) /\ e.timer[p] # Off
  <2>1. Plans \in SUBSET Plans
    OBVIOUS
  <2> QED BY <1>13, <1>15, <2>1, ArmIs
<1>17. \A p \in Plans : e.timer[p] = Off
  BY <1>2, <1>8, <1>13
<1>18. ~s.strayed => ~t.strayed
  BY <1>16, <1>17, <1>2, <1>8, <1>13
<1>19. /\ t.enabled = TRUE /\ t.closed = s.closed /\ t.generation = g
       /\ t.active = s.active /\ t.born = s.born
       /\ t.releaseDue = s.releaseDue /\ t.releasing = s.releasing /\ t.released = s.released
       /\ t.credit = s.credit /\ t.elapsed = s.elapsed /\ t.foreground = h /\ c.foreground = h
       /\ c.released = t.released
  BY <1>2, <1>8, <1>13, <1>16 DEF Alike
<1>20. \A p \in Plans : t.due[p] = Larger(s.due[p], Interval)
  BY <1>12, <1>13, <1>16
<1>21. \A p \in Plans : t.timer[p] # Off <=> Armable(t, p)
  <2>1. \A p \in Plans : Armable(t, p) <=> Armable(e, p)
    BY <1>13, <1>16, ArmableAlike
  <2>2. \A p \in Plans : e.due[p] # Off
    BY <1>12, <1>13 DEF Off
  <2> QED BY <1>16, <1>17, <2>1, <2>2
<1>22. t.rtimer # Off <=> topology = "releasing" /\ ~t.released /\ Foreground(t) = {}
  <2>1. Foreground(t) = Foreground(c) /\ Foreground(b) = Foreground(c)
    BY <1>19, <1>4 DEF Foreground
  <2> QED BY <1>19, <1>10, <1>13, <1>16, <1>6, <1>8, <2>1
<1>23. /\ Foreground(t) = {o \in Foreground(s) : s.foreground[o] = g}
       /\ \A o \in Foreground(t) : t.foreground[o] = s.foreground[o]
  BY <1>19, <1>h DEF Foreground
<1> QED BY <1>14, <1>15, <1>16, <1>18, <1>19, <1>20, <1>21, <1>22, <1>23 DEF ResumedFrom
LEMMA TimedIs ==
  ASSUME Given
  PROVE  Timed \in SUBSET Plans /\ (topology = "releasing" => Timed = Plans)
BY DEF Given, PollAssumption, Timed

\* The last of the foreground retires, or another.
LEMMA ForegroundRetiredIs ==
  ASSUME Given, NEW s \in Services, NEW o \in Ops, NEW b \in BOOLEAN, NEW t, t = ForegroundRetired(s, o, b)
  PROVE  /\ t \in Services
         /\ t.enabled = s.enabled /\ t.closed = s.closed /\ t.generation = s.generation
         /\ t.active = s.active /\ t.born = s.born /\ t.credit = s.credit /\ t.elapsed = s.elapsed
         /\ t.releaseDue = s.releaseDue /\ t.releasing = s.releasing
         /\ Foreground(t) = Foreground(s) \ {o} /\ \A x \in Foreground(t) : t.foreground[x] = s.foreground[x]
         /\ Foreground(s) # {o} =>
               t.timer = s.timer /\ t.rtimer = s.rtimer /\ t.due = s.due /\ t.strayed = s.strayed /\ t.released = s.released
         /\ Foreground(s) = {o} =>
               /\ t.released => s.released
               /\ \A p \in Plans : t.due[p] = IF p \in Timed THEN Larger(s.due[p], Interval) ELSE s.due[p]
               /\ \A p \in Plans : t.timer[p] = IF p \in Timed /\ Armable(t, p) THEN t.due[p] ELSE s.timer[p]
               /\ t.rtimer # Off <=> topology = "releasing" /\ t.enabled /\ ~t.closed /\ ~t.released
               /\ ~s.strayed /\ (\A p \in Timed : s.timer[p] = Off) => ~t.strayed
<1>p. PICK h : h = Without(s.foreground, {o})
  OBVIOUS
<1>f. s.foreground \in Foregrounds
  BY DEF Services
<1>h. h \in Foregrounds /\ DOMAIN h = Foreground(s) \ {o} /\ \A x \in DOMAIN h : h[x] = s.foreground[x]
  <2>1. PICK f : f = s.foreground
    OBVIOUS
  <2>2. f \in Foregrounds
    BY <1>f, <2>1
  <2>3. /\ Without(f, {o}) \in Foregrounds /\ DOMAIN Without(f, {o}) = DOMAIN f \ {o}
        /\ \A x \in DOMAIN f \ {o} : Without(f, {o})[x] = f[x]
    BY <2>2, ForegroundWithout
  <2> QED BY <1>p, <2>1, <2>3 DEF Foreground
<1>1. PICK a : a = [s EXCEPT !.foreground = h]
  OBVIOUS
<1>2. /\ a \in Services /\ a.foreground = h
      /\ a.enabled = s.enabled /\ a.closed = s.closed /\ a.generation = s.generation
      /\ a.active = s.active /\ a.born = s.born /\ a.credit = s.credit /\ a.elapsed = s.elapsed
      /\ a.releaseDue = s.releaseDue /\ a.releasing = s.releasing /\ a.released = s.released
      /\ a.timer = s.timer /\ a.rtimer = s.rtimer /\ a.due = s.due /\ a.strayed = s.strayed /\ a.idle = s.idle
  BY <1>1, <1>h DEF Services
<1>3. PICK c \in BOOLEAN : c <=> (a.released /\ ~b)
  OBVIOUS
<1>4. PICK d : d = [a EXCEPT !.released = c, !.idle = 0]
  OBVIOUS
<1>5. /\ d \in Services /\ d.foreground = h /\ (d.released <=> a.released /\ ~b) /\ d.idle = 0
      /\ d.enabled = s.enabled /\ d.closed = s.closed /\ d.generation = s.generation
      /\ d.active = s.active /\ d.born = s.born /\ d.credit = s.credit /\ d.elapsed = s.elapsed
      /\ d.releaseDue = s.releaseDue /\ d.releasing = s.releasing
      /\ d.timer = s.timer /\ d.due = s.due /\ d.strayed = s.strayed
  BY <1>2, <1>3, <1>4 DEF Services, Delays
<1>6. PICK S : S = Timed
  OBVIOUS
<1>7. S \in SUBSET Plans
  BY <1>6, TimedIs
<1>8. PICK e, g, k : e = ArmRelease(d) /\ g = ResetIdle(e, S) /\ k = Arm(g, S)
  OBVIOUS
<1>9. /\ e \in Services /\ Alike(d, e) /\ e.due = d.due /\ e.timer = d.timer /\ e.strayed = d.strayed
      /\ e.rtimer # Off <=> /\ topology = "releasing" /\ d.enabled /\ ~d.closed /\ ~d.released
                            /\ Foreground(d) = {} /\ d.idle # Off
  BY <1>5, <1>8, ArmReleaseIs DEF Given
<1>10. /\ g \in Services /\ Alike(e, g) /\ g.timer = e.timer /\ g.rtimer = e.rtimer
       /\ \A p \in Plans : g.due[p] = IF p \in S THEN Larger(e.due[p], Interval) ELSE e.due[p]
       /\ g.strayed <=> e.strayed \/ \E p \in S : e.timer[p] # Off
  BY <1>7, <1>8, <1>9, ResetIdleIs DEF Given
<1>11. /\ k \in Services /\ Alike(g, k) /\ k.due = g.due /\ k.rtimer = g.rtimer
       /\ \A p \in Plans : k.timer[p] = IF p \in S /\ Armable(g, p) THEN g.due[p] ELSE g.timer[p]
       /\ k.strayed <=> g.strayed \/ \E p \in S : Armable(g, p) /\ g.timer[p] # Off
  BY <1>7, <1>8, <1>10, ArmIs
<1>12. t = IF o \notin Foreground(s) \/ Foreground(a) # {} THEN a ELSE k
  <2> DEFINE A == [s EXCEPT !.foreground = Without(@, {o})]
             D == [A EXCEPT !.released = @ /\ ~b, !.idle = 0]
  <2>1. t = IF o \notin Foreground(s) \/ Foreground(A) # {} THEN A ELSE Arm(ResetIdle(ArmRelease(D), Timed), Timed)
    BY DEF ForegroundRetired
  <2>2. a = A
    BY <1>1, <1>p
  <2>3. D = [A EXCEPT !.released = A.released /\ ~b, !.idle = 0]
    OBVIOUS
  <2> HIDE DEF A, D
  <2>4. d = D
    BY <2>2, <2>3, <1>3, <1>4, <1>2 DEF Services
  <2> QED BY <2>1, <2>2, <2>4, <1>6, <1>8
<1>13. Foreground(a) = Foreground(s) \ {o}
  BY <1>2, <1>h DEF Foreground
<1>14. CASE Foreground(s) # {o}
  <2>1. t = a
    BY <1>12, <1>13, <1>14
  <2> QED BY <2>1, <1>2, <1>13, <1>14, <1>h DEF Foreground
<1>15. CASE Foreground(s) = {o}
  <2>1. t = k
    BY <1>12, <1>13, <1>15
  <2>2. /\ k.enabled = s.enabled /\ k.closed = s.closed /\ k.generation = s.generation
        /\ k.active = s.active /\ k.born = s.born /\ k.credit = s.credit /\ k.elapsed = s.elapsed
        /\ k.releaseDue = s.releaseDue /\ k.releasing = s.releasing /\ k.foreground = h
        /\ k.released = d.released
    BY <1>5, <1>9, <1>10, <1>11 DEF Alike
  <2>3. Foreground(k) = {} /\ Foreground(d) = {} /\ Foreground(k) = Foreground(s) \ {o}
    BY <2>2, <1>5, <1>h, <1>15 DEF Foreground
  <2>4. k.released => s.released
    BY <2>2, <1>5, <1>2
  <2>5. \A p \in Plans : k.due[p] = IF p \in S THEN Larger(s.due[p], Interval) ELSE s.due[p]
    BY <1>5, <1>9, <1>10, <1>11
  <2>6. \A p \in Plans : Armable(k, p) <=> Armable(g, p)
    BY <1>10, <1>11, ArmableAlike
  <2>7. \A p \in Plans : k.timer[p] = IF p \in S /\ Armable(k, p) THEN k.due[p] ELSE s.timer[p]
    BY <2>6, <1>5, <1>9, <1>10, <1>11
  <2>8. k.rtimer # Off <=> topology = "releasing" /\ k.enabled /\ ~k.closed /\ ~k.released
    BY <2>2, <2>3, <1>5, <1>9, <1>10, <1>11 DEF Off
  <2>9. ~s.strayed /\ (\A p \in S : s.timer[p] = Off) => ~k.strayed
    BY <1>7, <1>5, <1>9, <1>10, <1>11
  <2> QED BY <1>6, <1>11, <1>15, <2>1, <2>2, <2>3, <2>4, <2>5, <2>7, <2>8, <2>9, <1>h DEF Foreground
<1> QED BY <1>14, <1>15
-----------------------------------------------------------------------------
(* What each method leaves scheduled.                                      *)

\* The fields the proofs look at.
LEMMA ServiceIs ==
  ASSUME NEW s \in Services
  PROVE  /\ s.enabled \in BOOLEAN /\ s.closed \in BOOLEAN /\ s.generation \in Nat
         /\ s.due \in [Plans -> Nat] /\ s.timer \in [Plans -> Delays] /\ s.active \in [Plans -> Stages]
         /\ s.born \in [Plans -> Nat] /\ s.foreground \in Foregrounds /\ Foreground(s) \subseteq Ops
         /\ s.idle \in Delays /\ s.rtimer \in Delays /\ s.releaseDue \in BOOLEAN /\ s.releasing \in BOOLEAN
         /\ s.released \in BOOLEAN /\ s.credit \in Nat /\ s.elapsed \in Nat /\ s.strayed \in BOOLEAN
<1>1. s.foreground \in Foregrounds
  BY DEF Services
<1>2. Foreground(s) \subseteq Ops
  <2>1. PICK f : f = s.foreground
    OBVIOUS
  <2> QED BY <1>1, <2>1, ForegroundIs DEF Foreground
<1> QED BY <1>2 DEF Services

\* After resume() every plan has its timer and the release its own.
LEMMA ResumeScheduled ==
  ASSUME Given, NEW s, NEW q, Scheduled(s, q), NEW g \in Nat, NEW t, NEW u,
         t = Resume(s, g), u = AfterResume(s, g, q)
  PROVE  /\ Scheduled(t, u) /\ Count(u, Again) = Count(q, Again)
         /\ Resumed(s, g) => t = s /\ u = q
         /\ ~Resumed(s, g) => ResumedFrom(s, t, g) /\ \A a, r, h : TriedInv(t, u, a, r, h)
<1> USE DEF Given
<1>1. CASE Resumed(s, g)
  BY <1>1 DEF Resume, AfterResume
<1>2. CASE ~Resumed(s, g)
  <2>1. s \in Services /\ q \in Seq(Jobs) /\ ~s.strayed /\ ReleaseInv(s, q) /\ ~s.closed
    BY <1>2 DEF Scheduled, PlansInv, Resumed
  <2>2. t \in Services /\ ResumedFrom(s, t, g)
    BY <1>2, <2>1, ResumeIs
  <2>3. u = NewEpoch(q)
    BY <1>2 DEF AfterResume
  <2>4. /\ u \in Seq(Jobs) /\ \A p \in Plans : Count(u, Poll(p)) = 0
        /\ Count(u, Release) = 0 /\ Count(u, Again) = Count(q, Again) /\ (Concludes(u) => Concludes(q))
    BY <2>1, <2>3, CountEpoch
  <2>5. /\ t.enabled = TRUE /\ t.closed = FALSE /\ ~t.strayed
        /\ \A p \in Plans : t.timer[p] # Off <=> Armable(t, p)
        /\ t.rtimer # Off <=> topology = "releasing" /\ ~t.released /\ Foreground(t) = {}
        /\ Foreground(t) \subseteq Foreground(s)
        /\ t.releaseDue = s.releaseDue /\ t.releasing = s.releasing /\ t.released = s.released
    BY <2>1, <2>2, ServiceIs DEF ResumedFrom
  <2>6. PlansInv(t, u)
    BY <2>4, <2>5 DEF PlansInv, PlanAt, Unscheduled, Armable
  <2>7. ReleaseInv(t, u)
    BY <2>1, <2>4, <2>5 DEF ReleaseInv, Unreleased
  <2>8. \A a, r, h : TriedInv(t, u, a, r, h)
    BY <2>5 DEF TriedInv, Unreleased
  <2> QED BY <1>2, <2>2, <2>4, <2>6, <2>7, <2>8 DEF Scheduled
<1> QED BY <1>1, <1>2

\* When the last of the foreground retires, the timed plans get their timers, and the release.
LEMMA RetiredScheduled ==
  ASSUME Given, NEW s, NEW q, Scheduled(s, q), NEW o \in Ops, NEW b \in BOOLEAN, NEW t, NEW u,
         t = ForegroundRetired(s, o, b), u = AfterForeground(s, o, q)
  PROVE  /\ Scheduled(t, u) /\ Count(u, Again) = Count(q, Again)
         /\ \A a, r, h : TriedInv(s, q, a, r, h) => TriedInv(t, u, a, r, h)
<1> USE DEF Given
<1>1. s \in Services /\ q \in Seq(Jobs) /\ ~s.strayed /\ ReleaseInv(s, q) /\ PlansInv(s, q)
  BY DEF Scheduled, PlansInv
<1>2. /\ t \in Services
      /\ t.enabled = s.enabled /\ t.closed = s.closed /\ t.active = s.active
      /\ t.releaseDue = s.releaseDue /\ t.releasing = s.releasing
      /\ Foreground(t) = Foreground(s) \ {o}
      /\ Foreground(s) # {o} =>
            t.timer = s.timer /\ t.rtimer = s.rtimer /\ t.strayed = s.strayed /\ t.released = s.released
      /\ Foreground(s) = {o} =>
            /\ t.released => s.released
            /\ \A p \in Plans : t.timer[p] = IF p \in Timed /\ Armable(t, p) THEN t.due[p] ELSE s.timer[p]
            /\ t.rtimer # Off <=> topology = "releasing" /\ t.enabled /\ ~t.closed /\ ~t.released
            /\ ~s.strayed /\ (\A p \in Timed : s.timer[p] = Off) => ~t.strayed
  BY <1>1, ForegroundRetiredIs
<1>3. CASE Foreground(s) # {o}
  <2>1. u = q
    BY <1>3 DEF AfterForeground
  <2>2. Foreground(t) = {} <=> Foreground(s) = {}
    BY <1>2, <1>3
  <2>3. PlansInv(t, u)
    BY <1>1, <1>2, <1>3, <2>1, <2>2 DEF PlansInv, PlanAt, Unscheduled, Armable
  <2>4. ReleaseInv(t, u)
    BY <1>1, <1>2, <1>3, <2>1, <2>2 DEF ReleaseInv, Unreleased
  <2>5. \A a, r, h : TriedInv(s, q, a, r, h) => TriedInv(t, u, a, r, h)
    BY <1>2, <1>3, <2>1, <2>2 DEF TriedInv, Unreleased, Obstructed
  <2> QED BY <1>1, <1>2, <2>1, <2>3, <2>4, <2>5 DEF Scheduled
<1>4. CASE Foreground(s) = {o}
  <2>1. u = NewRevision(q, Timed)
    BY <1>4 DEF AfterForeground
  <2>2. /\ u \in Seq(Jobs)
        /\ \A p \in Plans : Count(u, Poll(p)) = IF p \in Timed THEN 0 ELSE Count(q, Poll(p))
        /\ Count(u, Release) = Count(q, Release) /\ Count(u, Again) = Count(q, Again)
        /\ Concludes(u) => Concludes(q)
    BY <1>1, <2>1, TimedIs, CountRevision
  <2>3. Count(q, Release) = 0 /\ ~s.releaseDue /\ Foreground(t) = {} /\ Foreground(s) # {}
    BY <1>1, <1>2, <1>4 DEF ReleaseInv
  <2>4. \A p \in Timed : s.timer[p] = Off
    BY <1>1, <2>3, TimedIs DEF PlansInv, PlanAt, Unscheduled
  <2>5. ~t.strayed
    BY <1>1, <1>2, <1>4, <2>4
  <2>6. \A p \in Plans : t.due[p] # Off
    BY <1>2, ServiceIs DEF Off
  <2>7. PlansInv(t, u)
    <3>1. ASSUME NEW p \in Plans PROVE PlanAt(t, u, p)
      <4>1. CASE p \in Timed
        <5>1. t.timer[p] # Off <=> Armable(t, p)
          BY <1>2, <1>4, <2>4, <2>6, <4>1
        <5> QED BY <2>2, <2>3, <4>1, <5>1 DEF PlanAt, Unscheduled, Armable
      <4>2. CASE p \notin Timed
        <5>1. t.timer[p] = s.timer[p] /\ Count(u, Poll(p)) = Count(q, Poll(p))
          BY <1>2, <1>4, <2>2, <4>2
        <5>2. PlanAt(s, q, p) /\ topology # "releasing"
          BY <1>1, <4>2, TimedIs DEF PlansInv
        <5>3. Armable(t, p) => Armable(s, p)
          BY <1>1, <1>2, <4>2, <5>2 DEF Armable, ReleaseInv
        <5> QED BY <1>2, <4>2, <5>1, <5>2, <5>3 DEF PlanAt, Unscheduled
      <4> QED BY <4>1, <4>2
    <3> QED BY <2>5, <3>1 DEF PlansInv
  <2>8. ReleaseInv(t, u)
    BY <1>1, <1>2, <1>4, <2>2, <2>3 DEF ReleaseInv, Unreleased
  <2>9. \A a, r, h : TriedInv(t, u, a, r, h)
    BY <1>2, <2>3 DEF TriedInv
  <2> QED BY <1>2, <2>2, <2>7, <2>8, <2>9 DEF Scheduled
<1> QED BY <1>3, <1>4
\* While the service is paused nothing is scheduled.
LEMMA PausedScheduled ==
  ASSUME Given, NEW s, NEW q, Scheduled(s, q), NEW t \in Services, NEW u \in Seq(Jobs),
         t.enabled = FALSE, \A p \in Plans : t.timer[p] = Off, t.rtimer = Off,
         t.strayed = s.strayed, t.foreground = s.foreground, t.releaseDue = s.releaseDue,
         t.released = s.released, t.releasing \in {s.releasing, FALSE},
         \A p \in Plans : Count(u, Poll(p)) = 0, Count(u, Release) = 0, Concludes(u) => Concludes(q)
  PROVE  Scheduled(t, u) /\ \A a, r, h : TriedInv(t, u, a, r, h)
<1>1. PlansInv(t, u)
  BY DEF Scheduled, PlansInv, PlanAt, Unscheduled, Armable
<1>2. ReleaseInv(t, u)
  BY ServiceIs DEF Scheduled, ReleaseInv, Unreleased, Foreground
<1>3. \A a, r, h : TriedInv(t, u, a, r, h)
  BY DEF TriedInv, Unreleased
<1> QED BY <1>1, <1>2, <1>3 DEF Scheduled

\* foregroundStarted(): the timed plans and the release wait for the foreground.
StartedFrom(s, t, o, g) ==
    /\ t.enabled = s.enabled /\ t.closed = s.closed /\ t.generation = s.generation /\ t.due = s.due
    /\ t.active = s.active /\ t.born = s.born /\ t.credit = s.credit /\ t.elapsed = s.elapsed
    /\ t.releasing = s.releasing /\ t.released = s.released /\ t.strayed = s.strayed
    /\ t.rtimer = Off /\ t.releaseDue = FALSE
    /\ \A p \in Plans : (p \in Timed => t.timer[p] = Off) /\ (p \notin Timed => t.timer[p] = s.timer[p])
    /\ Foreground(t) = Foreground(s) \cup {o}
    /\ t.foreground[o] = g /\ \A x \in Foreground(s) \ {o} : t.foreground[x] = s.foreground[x]

LEMMA ForegroundStartedIs ==
  ASSUME Given, NEW s \in Services, NEW o \in Ops, NEW g \in Nat, NEW t, t = ForegroundStarted(s, o, g)
  PROVE  t \in Services /\ StartedFrom(s, t, o, g)
<1>1. s.foreground \in Foregrounds /\ s.timer \in [Plans -> Delays]
  BY ServiceIs
<1>2. PICK f, h, k : /\ f = s.foreground /\ h = With(f, o, g)
                     /\ k = [p \in Plans |-> IF p \in Timed THEN Off ELSE s.timer[p]]
  OBVIOUS
<1>3. /\ h \in Foregrounds /\ DOMAIN h = Foreground(s) \cup {o}
      /\ h[o] = g /\ \A x \in DOMAIN h \ {o} : h[x] = s.foreground[x]
  <2>1. f \in Foregrounds
    BY <1>1, <1>2
  <2>2. /\ With(f, o, g) \in Foregrounds /\ DOMAIN With(f, o, g) = DOMAIN f \cup {o}
        /\ With(f, o, g)[o] = g /\ \A x \in DOMAIN f \ {o} : With(f, o, g)[x] = f[x]
    BY <2>1, ForegroundWith
  <2> QED BY <1>2, <2>2 DEF Foreground
<1>4. k \in [Plans -> Delays]
  BY <1>1, <1>2 DEF Delays
<1>5. t = [s EXCEPT !.foreground = h, !.rtimer = Off, !.idle = Off, !.releaseDue = FALSE, !.timer = k]
  BY <1>2 DEF ForegroundStarted
<1>6. /\ t \in Services
      /\ t.enabled = s.enabled /\ t.closed = s.closed /\ t.generation = s.generation /\ t.due = s.due
      /\ t.active = s.active /\ t.born = s.born /\ t.credit = s.credit /\ t.elapsed = s.elapsed
      /\ t.releasing = s.releasing /\ t.released = s.released /\ t.strayed = s.strayed
      /\ t.rtimer = Off /\ t.releaseDue = FALSE /\ t.timer = k /\ t.foreground = h
  <2>1. Off \in Delays
    BY DEF Delays
  <2> HIDE DEF Given
  <2> QED BY <1>3, <1>4, <1>5, <2>1 DEF Services
<1>7. \A p \in Plans : (p \in Timed => t.timer[p] = Off) /\ (p \notin Timed => t.timer[p] = s.timer[p])
  BY <1>2, <1>6
<1> QED BY <1>3, <1>6, <1>7 DEF Foreground, StartedFrom

LEMMA StartedScheduled ==
  ASSUME Given, NEW s, NEW q, Scheduled(s, q), NEW o \in Ops, NEW g \in Nat, NEW t, NEW u,
         t = ForegroundStarted(s, o, g), u = Busier(q)
  PROVE  Scheduled(t, u) /\ \A a, r, h : TriedInv(t, u, a, r, h)
<1> USE DEF Given
<1>1. s \in Services /\ q \in Seq(Jobs) /\ ~s.strayed /\ ReleaseInv(s, q) /\ PlansInv(s, q)
  BY DEF Scheduled, PlansInv
<1>2. /\ t \in Services /\ t.enabled = s.enabled /\ t.closed = s.closed /\ t.active = s.active
      /\ t.releasing = s.releasing /\ t.released = s.released /\ t.strayed = s.strayed
      /\ t.rtimer = Off /\ t.releaseDue = FALSE
      /\ \A p \in Plans : (p \in Timed => t.timer[p] = Off) /\ (p \notin Timed => t.timer[p] = s.timer[p])
      /\ Foreground(t) = Foreground(s) \cup {o}
  <2>1. t \in Services /\ StartedFrom(s, t, o, g)
    BY <1>1, ForegroundStartedIs
  <2> QED BY <2>1 DEF StartedFrom
<1>3. /\ u \in Seq(Jobs)
      /\ \A p \in Plans : Count(u, Poll(p)) = IF p \in Timed THEN 0 ELSE Count(q, Poll(p))
      /\ Count(u, Release) = 0 /\ (Concludes(u) => Concludes(q))
  BY <1>1, TimedIs, CountBusier
<1>4. ASSUME NEW p \in Plans PROVE PlanAt(t, u, p)
  <2>1. CASE p \in Timed
    BY <1>2, <1>3, <2>1 DEF PlanAt, Unscheduled, Armable
  <2>2. CASE p \notin Timed
    <3>1. PlanAt(s, q, p) /\ topology # "releasing"
      BY <1>1, <2>2, TimedIs DEF PlansInv
    <3>2. Armable(t, p) <=> Armable(s, p)
      BY <1>1, <1>2, <2>2, <3>1 DEF Armable, ReleaseInv
    <3> QED BY <1>2, <1>3, <2>2, <3>1, <3>2 DEF PlanAt, Unscheduled
  <2> QED BY <2>1, <2>2
<1>5. ReleaseInv(t, u)
  BY <1>1, <1>2, <1>3 DEF ReleaseInv, Unreleased
<1>6. \A a, r, h : TriedInv(t, u, a, r, h)
  BY <1>2 DEF TriedInv
<1> QED BY <1>1, <1>2, <1>3, <1>4, <1>5, <1>6 DEF Scheduled, PlansInv

\* A release that is due is asked for again.
LEMMA AgainScheduled ==
  ASSUME Given, NEW s, NEW q, Scheduled(s, q), NEW u, u = TryAgain(s, q)
  PROVE  Scheduled(s, u) /\ \A a, r, h : TriedInv(s, u, a, r, h)
<1> USE DEF Given
<1>1. q \in Seq(Jobs) /\ Again \in Jobs /\ \A j : Count(q, j) \in Nat
  BY JobsDiffer, CountFinite DEF Scheduled
<1>2. CASE s.releaseDue /\ ~s.closed
  <2>1. u = Append(q, Again)
    BY <1>2 DEF TryAgain
  <2>2. u \in Seq(Jobs) /\ (\A j : Count(u, j) = Count(q, j) + (IF Again = j THEN 1 ELSE 0))
        /\ (Concludes(u) => Concludes(q))
    BY <1>1, <2>1, CountAppend, JobsDiffer
  <2>3. (\A p \in Plans : Count(u, Poll(p)) = Count(q, Poll(p))) /\ Count(u, Release) = Count(q, Release) /\ Count(u, Again) > 0
    BY <1>1, <2>2, JobsDiffer
  <2>4. PlansInv(s, u) /\ ReleaseInv(s, u)
    BY <2>2, <2>3 DEF Scheduled, PlansInv, PlanAt, Unscheduled, ReleaseInv
  <2> QED BY <2>2, <2>3, <2>4 DEF Scheduled, TriedInv
<1>3. CASE ~(s.releaseDue /\ ~s.closed)
  <2>1. u = q
    BY <1>3 DEF TryAgain
  <2>2. ~(Unreleased(s) /\ s.releaseDue)
    BY <1>3 DEF Scheduled, ReleaseInv, Unreleased
  <2> QED BY <2>1, <2>2 DEF TriedInv
<1> QED BY <1>2, <1>3

\* retired(): the plan is armed, if it may be.
LEMMA RetiredIs ==
  ASSUME Given, NEW s \in Services, NEW p \in Plans, NEW t, t = Retired(s, p)
  PROVE  /\ t \in Services
         /\ t.enabled = s.enabled /\ t.closed = s.closed /\ t.generation = s.generation
         /\ t.born = s.born /\ t.credit = s.credit /\ t.elapsed = s.elapsed /\ t.foreground = s.foreground
         /\ t.releasing = s.releasing /\ t.released = s.released /\ t.releaseDue = s.releaseDue
         /\ t.rtimer = s.rtimer
         /\ \A x \in Plans : t.active[x] = IF x = p THEN "none" ELSE s.active[x]
         /\ \A x \in Plans : t.due[x] >= s.due[x]
         /\ \A x \in Plans : t.timer[x] = IF x = p /\ Armable(t, p) THEN t.due[x] ELSE s.timer[x]
         /\ ~s.strayed /\ s.timer[p] = Off => ~t.strayed
<1>1. PICK f : f = [s.active EXCEPT ![p] = "none"]
  OBVIOUS
<1>2. f \in [Plans -> Stages] /\ \A x \in Plans : f[x] = IF x = p THEN "none" ELSE s.active[x]
  BY <1>1, ServiceIs DEF Stages
<1>3. PICK a : a = [s EXCEPT !.active = f]
  OBVIOUS
<1>4. /\ a \in Services /\ a.active = f
      /\ a.enabled = s.enabled /\ a.closed = s.closed /\ a.generation = s.generation
      /\ a.born = s.born /\ a.credit = s.credit /\ a.elapsed = s.elapsed /\ a.foreground = s.foreground
      /\ a.releasing = s.releasing /\ a.released = s.released /\ a.releaseDue = s.releaseDue
      /\ a.rtimer = s.rtimer /\ a.timer = s.timer /\ a.due = s.due /\ a.strayed = s.strayed
  BY <1>2, <1>3 DEF Services
<1>5. PICK c : c = Settled(s, p)
  OBVIOUS
<1>6. c = a \/ c = ResetIdle(a, {p})
  <2>1. a = [s EXCEPT !.active[p] = "none"]
    BY <1>1, <1>3
  <2> QED BY <1>5, <2>1 DEF Settled
<1>7. /\ c \in Services /\ Alike(a, c) /\ c.timer = a.timer /\ c.rtimer = a.rtimer
      /\ \A x \in Plans : c.due[x] >= a.due[x]
      /\ ~a.strayed /\ a.timer[p] = Off => ~c.strayed
  <2>1. CASE c = a
    <3>1. \A x \in Plans : a.due[x] \in Nat
      BY <1>4, ServiceIs
    <3> QED BY <1>4, <2>1, <3>1 DEF Alike
  <2>2. CASE c = ResetIdle(a, {p})
    <3>1. /\ c \in Services /\ Alike(a, c) /\ c.timer = a.timer /\ c.rtimer = a.rtimer
          /\ \A x \in Plans : c.due[x] = IF x \in {p} THEN Larger(a.due[x], Interval) ELSE a.due[x]
          /\ c.strayed <=> a.strayed \/ \E x \in {p} : a.timer[x] # Off
      BY <1>4, <2>2, ResetIdleIs DEF Given
    <3>2. \A x \in Plans : a.due[x] \in Nat
      BY <1>4, ServiceIs
    <3> QED BY <3>1, <3>2 DEF Larger, Given, PollAssumption
  <2> QED BY <1>6, <2>1, <2>2
<1>8. t = Arm(c, {p})
  BY <1>5 DEF Retired
<1>9. /\ t \in Services /\ Alike(c, t) /\ t.due = c.due /\ t.rtimer = c.rtimer
      /\ \A x \in Plans : t.timer[x] = IF x \in {p} /\ Armable(c, x) THEN c.due[x] ELSE c.timer[x]
      /\ t.strayed <=> c.strayed \/ \E x \in {p} : Armable(c, x) /\ c.timer[x] # Off
  BY <1>7, <1>8, ArmIs
<1>10. Armable(t, p) <=> Armable(c, p)
  BY <1>7, <1>9, ArmableAlike
<1>11. /\ t.enabled = s.enabled /\ t.closed = s.closed /\ t.generation = s.generation
       /\ t.born = s.born /\ t.credit = s.credit /\ t.elapsed = s.elapsed /\ t.foreground = s.foreground
       /\ t.releasing = s.releasing /\ t.released = s.released /\ t.releaseDue = s.releaseDue
       /\ t.rtimer = s.rtimer /\ t.active = f
  BY <1>4, <1>7, <1>9 DEF Alike
<1>12. ~s.strayed /\ s.timer[p] = Off => ~t.strayed
  BY <1>4, <1>7, <1>9
<1> QED BY <1>2, <1>4, <1>7, <1>9, <1>10, <1>11, <1>12
\* retired() of a poll, whose turns that wait are left behind.
LEMMA PollRetiredScheduled ==
  ASSUME Given, NEW s, NEW q, Scheduled(s, q), NEW p \in Plans, s.active[p] # "none", NEW t, NEW u,
         t = Retired(s, p), u = IF p \in Timed THEN NewRevision(q, {p}) ELSE q
  PROVE  Scheduled(t, u)
<1> USE DEF Given
<1>1. s \in Services /\ q \in Seq(Jobs) /\ ~s.strayed /\ ReleaseInv(s, q) /\ PlansInv(s, q)
  BY DEF Scheduled, PlansInv
<1>2. Unscheduled(s, q, p)
  BY <1>1 DEF PlansInv, PlanAt
<1>3. /\ t \in Services
      /\ t.enabled = s.enabled /\ t.closed = s.closed /\ t.foreground = s.foreground
      /\ t.releasing = s.releasing /\ t.released = s.released /\ t.releaseDue = s.releaseDue
      /\ t.rtimer = s.rtimer
      /\ \A x \in Plans : t.active[x] = IF x = p THEN "none" ELSE s.active[x]
      /\ \A x \in Plans : t.timer[x] = IF x = p /\ Armable(t, p) THEN t.due[x] ELSE s.timer[x]
      /\ ~s.strayed /\ s.timer[p] = Off => ~t.strayed
  BY <1>1, RetiredIs
<1>4. /\ u \in Seq(Jobs) /\ \A x \in Plans : Count(u, Poll(x)) = Count(q, Poll(x))
      /\ Count(u, Release) = Count(q, Release) /\ (Concludes(u) => Concludes(q))
  <2>1. CASE p \in Timed
    <3>1. u = NewRevision(q, {p}) /\ {p} \in SUBSET Plans
      BY <2>1
    <3>2. /\ u \in Seq(Jobs) /\ \A x \in Plans : Count(u, Poll(x)) = IF x \in {p} THEN 0 ELSE Count(q, Poll(x))
          /\ Count(u, Release) = Count(q, Release) /\ (Concludes(u) => Concludes(q))
      BY <1>1, <3>1, CountRevision
    <3> QED BY <1>2, <3>2 DEF Unscheduled
  <2>2. CASE p \notin Timed
    BY <1>1, <2>2
  <2> QED BY <2>1, <2>2
<1>5. \A x \in Plans : t.due[x] # Off
  BY <1>3, ServiceIs DEF Off
<1>6. ASSUME NEW x \in Plans PROVE PlanAt(t, u, x)
  <2>1. CASE x = p
    <3>1. (t.timer[p] # Off <=> Armable(t, p)) /\ Count(u, Poll(p)) = 0
      BY <1>2, <1>3, <1>4, <1>5 DEF Unscheduled
    <3> QED BY <2>1, <3>1 DEF PlanAt, Unscheduled, Armable
  <2>2. CASE x # p
    <3>1. PlanAt(s, q, x) /\ (Armable(t, x) <=> Armable(s, x))
      BY <1>1, <1>3, <2>2 DEF PlansInv, Armable, Foreground
    <3> QED BY <1>3, <1>4, <2>2, <3>1 DEF PlanAt, Unscheduled, Foreground
  <2> QED BY <2>1, <2>2
<1>7. ~t.strayed
  BY <1>1, <1>2, <1>3 DEF Unscheduled
<1>8. ReleaseInv(t, u)
  BY <1>1, <1>3, <1>4 DEF ReleaseInv, Unreleased, Foreground
<1> QED BY <1>3, <1>4, <1>6, <1>7, <1>8 DEF Scheduled, PlansInv

\* A release that becomes due holds the plans.
LEMMA DueScheduled ==
  ASSUME Given, NEW s, NEW q, Scheduled(s, q), topology = "releasing", Foreground(s) = {},
         NEW t, t = [s EXCEPT !.releaseDue = TRUE],
         NEW u \in Seq(Jobs), \A p \in Plans : Count(u, Poll(p)) <= Count(q, Poll(p))
  PROVE  Scheduled(t, u)
<1> USE DEF Given
<1>1. s \in Services /\ q \in Seq(Jobs) /\ ~s.strayed /\ ReleaseInv(s, q) /\ PlansInv(s, q)
  BY DEF Scheduled, PlansInv
<1>2. /\ t \in Services /\ t.releaseDue = TRUE /\ t.enabled = s.enabled /\ t.closed = s.closed
      /\ t.active = s.active /\ t.timer = s.timer /\ t.foreground = s.foreground /\ t.strayed = s.strayed
  BY <1>1 DEF Services
<1>3. \A p \in Plans : Count(u, Poll(p)) \in Nat /\ Count(q, Poll(p)) \in Nat
  BY <1>1, CountFinite
<1>4. ASSUME NEW p \in Plans PROVE PlanAt(t, u, p)
  <2>1. PlanAt(s, q, p) /\ Count(u, Poll(p)) \in Nat /\ Count(q, Poll(p)) \in Nat /\ Count(u, Poll(p)) <= Count(q, Poll(p))
    BY <1>1, <1>3 DEF PlansInv
  <2> QED BY <1>2, <2>1 DEF PlanAt, Unscheduled, Armable, Foreground
<1>5. ReleaseInv(t, u)
  BY <1>1, <1>2 DEF ReleaseInv, Unreleased, Foreground
<1> QED BY <1>1, <1>2, <1>4, <1>5 DEF Scheduled, PlansInv

\* #tryRelease: the release begins, or is obstructed.
LEMMA TryReleaseScheduled ==
  ASSUME Given, NEW s, NEW q, Scheduled(s, q), NEW c \in BOOLEAN, NEW t, t = TryRelease(s, c)
  PROVE  /\ Scheduled(t, q)
         /\ t.enabled = s.enabled /\ t.closed = s.closed /\ t.generation = s.generation /\ t.due = s.due
         /\ t.active = s.active /\ t.born = s.born /\ t.foreground = s.foreground
         /\ t.credit = s.credit /\ t.elapsed = s.elapsed
         /\ \A a, r, h : (c <=> ~Obstructed(s, a, r)) => TriedInv(t, q, a, r, h)
<1> USE DEF Given
<1>1. s \in Services /\ q \in Seq(Jobs) /\ ~s.strayed /\ ReleaseInv(s, q) /\ PlansInv(s, q)
  BY DEF Scheduled, PlansInv
<1>2. CASE /\ s.releaseDue /\ ~s.released /\ ~s.releasing /\ Foreground(s) = {} /\ s.enabled
           /\ (\A p \in Plans : s.active[p] = "none") /\ c
  <2>1. PICK k : k = [p \in Plans |-> Off]
    OBVIOUS
  <2>2. k \in [Plans -> Delays] /\ \A p \in Plans : k[p] = Off
    BY <2>1 DEF Delays
  <2>3. t = [s EXCEPT !.releasing = TRUE, !.timer = k]
    BY <1>2, <2>1 DEF TryRelease
  <2>4. /\ t \in Services /\ t.releasing = TRUE /\ t.timer = k
        /\ t.enabled = s.enabled /\ t.closed = s.closed /\ t.generation = s.generation /\ t.due = s.due
        /\ t.active = s.active /\ t.born = s.born /\ t.foreground = s.foreground
        /\ t.credit = s.credit /\ t.elapsed = s.elapsed /\ t.strayed = s.strayed
        /\ t.releaseDue = s.releaseDue /\ t.released = s.released /\ t.rtimer = s.rtimer
    BY <1>1, <2>2, <2>3 DEF Services
  <2>5. PlansInv(t, q)
    BY <1>1, <1>2, <2>2, <2>4 DEF PlansInv, PlanAt, Unscheduled, Armable, Foreground
  <2>6. ReleaseInv(t, q)
    BY <1>1, <1>2, <2>4 DEF ReleaseInv, Unreleased, Foreground
  <2>7. \A a, r, h : TriedInv(t, q, a, r, h)
    BY <2>4 DEF TriedInv, Unreleased
  <2> QED BY <1>1, <2>4, <2>5, <2>6, <2>7 DEF Scheduled
<1>3. CASE ~(/\ s.releaseDue /\ ~s.released /\ ~s.releasing /\ Foreground(s) = {} /\ s.enabled
             /\ (\A p \in Plans : s.active[p] = "none") /\ c)
  <2>1. t = s
    BY <1>3 DEF TryRelease
  <2>2. \A a, r, h : (c <=> ~Obstructed(s, a, r)) => TriedInv(s, q, a, r, h)
    BY <1>3 DEF TriedInv, Unreleased, Obstructed
  <2> QED BY <2>1, <2>2
<1> QED BY <1>2, <1>3

\* A turn taken to poll a plan leaves a plan without one, which is armed.
LEMMA ArmedScheduled ==
  ASSUME Given, NEW s, NEW q, Scheduled(s, q), q # <<>>, NEW p \in Plans, Head(q) = Poll(p), Armable(s, p),
         NEW v \in Services, v.enabled = s.enabled, v.closed = s.closed, v.active = s.active,
         v.foreground = s.foreground, v.releaseDue = s.releaseDue, v.releasing = s.releasing,
         v.released = s.released, v.timer = s.timer, v.rtimer = s.rtimer, v.strayed = s.strayed,
         NEW t, t = Arm(v, {p})
  PROVE  Scheduled(t, Tail(q)) /\ Alike(v, t) /\ t.due = v.due /\ t.rtimer = s.rtimer
<1> USE DEF Given
<1>1. s \in Services /\ q \in Seq(Jobs) /\ ~s.strayed /\ ReleaseInv(s, q) /\ PlansInv(s, q)
  BY DEF Scheduled, PlansInv
<1>2. PICK u : u = Tail(q)
  OBVIOUS
<1>3. /\ u \in Seq(Jobs) /\ \A j : Count(q, j) = Count(u, j) + (IF Poll(p) = j THEN 1 ELSE 0)
      /\ Concludes(u) => Concludes(q)
  BY <1>1, <1>2, CountTail
<1>4. \A j : Count(q, j) \in Nat /\ Count(u, j) \in Nat
  BY <1>1, <1>3, CountFinite
<1>5. /\ Count(u, Release) = Count(q, Release)
      /\ \A x \in Plans : x # p => Count(u, Poll(x)) = Count(q, Poll(x))
      /\ Count(q, Poll(p)) = Count(u, Poll(p)) + 1
  BY <1>3, <1>4, JobsDiffer
<1>6. Count(u, Poll(p)) = 0 /\ s.timer[p] = Off
  BY <1>1, <1>4, <1>5 DEF PlansInv, PlanAt, Unscheduled
<1>7. /\ t \in Services /\ Alike(v, t) /\ t.due = v.due /\ t.rtimer = v.rtimer
      /\ \A x \in Plans : t.timer[x] = IF x \in {p} /\ Armable(v, x) THEN v.due[x] ELSE v.timer[x]
      /\ t.strayed <=> v.strayed \/ \E x \in {p} : Armable(v, x) /\ v.timer[x] # Off
  <2>1. {p} \in SUBSET Plans
    OBVIOUS
  <2> QED BY <2>1, ArmIs
<1>8. ~t.strayed
  BY <1>1, <1>6, <1>7
<1>9. \A x \in Plans : (Armable(v, x) <=> Armable(s, x)) /\ (Armable(t, x) <=> Armable(s, x))
  <2>1. \A x \in Plans : Armable(t, x) <=> Armable(v, x)
    BY <1>7, ArmableAlike
  <2>2. \A x \in Plans : Armable(v, x) <=> Armable(s, x)
    BY DEF Armable, Foreground
  <2> QED BY <2>1, <2>2
<1>10. \A x \in Plans : v.due[x] # Off
  BY ServiceIs DEF Off
<1>11. ASSUME NEW x \in Plans PROVE PlanAt(t, u, x)
  <2>1. t.enabled = s.enabled /\ t.closed = s.closed /\ t.active = s.active /\ Foreground(t) = Foreground(s)
    BY <1>7 DEF Alike, Foreground
  <2>2. CASE x = p
    <3>1. t.timer[p] # Off /\ Armable(t, p)
      BY <1>7, <1>9, <1>10
    <3>2. ~Unscheduled(t, u, p)
      BY <3>1 DEF Unscheduled
    <3>3. t.enabled /\ ~t.closed /\ t.active[p] = "none" /\ (p \in Timed => Foreground(t) = {})
      BY <3>1 DEF Armable
    <3>4. t.timer[p] # Off => Count(u, Poll(p)) = 0
      BY <1>6
    <3>5. Count(u, Poll(p)) <= 1
      BY <1>6
    <3>6. PlanAt(t, u, p)
      BY <3>2, <3>3, <3>4, <3>5 DEF PlanAt
    <3> QED BY <2>2, <3>6
  <2>3. CASE x # p
    <3>1. PlanAt(s, q, x) /\ t.timer[x] = s.timer[x] /\ Count(u, Poll(x)) = Count(q, Poll(x))
      BY <1>1, <1>5, <1>7, <2>3 DEF PlansInv
    <3> QED BY <1>9, <2>1, <3>1 DEF PlanAt, Unscheduled
  <2> QED BY <2>2, <2>3
<1>12. ReleaseInv(t, u)
  BY <1>1, <1>3, <1>5, <1>7 DEF ReleaseInv, Unreleased, Foreground, Alike
<1> QED BY <1>2, <1>3, <1>7, <1>8, <1>11, <1>12 DEF Scheduled, PlansInv
-----------------------------------------------------------------------------
(* The steps.                                                              *)

\* What a step must establish, of the next values.
Kept ==
    /\ topology' = topology
    /\ Sound(svc', queue', session', op', reading', history')
    /\ TriedInv(svc', queue', op', reading', history')
    /\ OnInv(svc', session', op')

LEMMA KeptIsKept == ASSUME Given, Kept PROVE PollInv'
<1>1. Timed' = Timed
  BY DEF Kept, Timed
<1>2. PlansInv(svc, queue)'
  BY <1>1 DEF Kept, Sound, Scheduled, PlansInv, PlanAt, Unscheduled, Armable
<1>3. ReleaseInv(svc, queue)' /\ TriedInv(svc, queue, op, reading, history)'
  BY DEF Kept, Sound, Scheduled, ReleaseInv, TriedInv, Unreleased
<1>4. LinkInv(svc, session)' /\ RunsInv(svc, session, op)' /\ HeldInv(svc, session, op, reading)'
  BY DEF Kept, Sound, LinkInv, RunsInv, HeldInv
<1>5. DistanceInv(svc, history)' /\ BucketInv(svc, history)' /\ OnInv(svc, session, op)'
  BY <1>1 DEF Kept, Sound, DistanceInv, BucketInv, OnInv
<1>6. /\ svc' \in Services /\ queue' \in Seq(Jobs) /\ session' \in Sessions /\ op' \in [Ops -> OperationRecords]
      /\ reading' \in Readings /\ history' \in Histories
  BY DEF Kept, Sound, Scheduled
<1>7. topology' \in {"releasing", "periodic"}
  BY DEF Given, Kept
<1> QED BY <1>2, <1>3, <1>4, <1>5, <1>6, <1>7 DEF PollInv, Sound, Scheduled

\* What the invariant says of the state, in one place.
LEMMA Facts ==
  ASSUME PollInv
  PROVE  /\ Scheduled(svc, queue) /\ PlansInv(svc, queue) /\ ReleaseInv(svc, queue)
         /\ TriedInv(svc, queue, op, reading, history)
         /\ svc \in Services /\ queue \in Seq(Jobs)
         /\ session \in Sessions /\ op \in [Ops -> OperationRecords] /\ reading \in Readings /\ history \in Histories
         /\ LinkInv(svc, session) /\ RunsInv(svc, session, op) /\ HeldInv(svc, session, op, reading)
         /\ DistanceInv(svc, history) /\ BucketInv(svc, history) /\ OnInv(svc, session, op)
BY DEF PollInv, Sound, Scheduled

\* The device is quiet when nothing obstructs its release.
LEMMA QuietIs == Quiescent <=> ~Obstructed(svc, op, reading)
BY DEF Quiescent, Obstructed, NoTask, Busy

\* A step that changes the schedule alone.
LEMMA Reschedules ==
  ASSUME Given, PollInv, Unobserved, history' = history,
         Scheduled(svc', queue'), TriedInv(svc', queue', op, reading, history),
         svc'.enabled = svc.enabled, svc'.closed = svc.closed, svc'.generation = svc.generation,
         svc'.active = svc.active, svc'.foreground = svc.foreground,
         \A p \in Plans : svc'.due[p] >= svc.due[p],
         BucketInv(svc', history)
  PROVE  Kept
<1>1. UNCHANGED <<topology, op, reading, session, history>>
  BY DEF Unobserved
<1>2. svc \in Services /\ svc' \in Services /\ history \in Histories
  BY Facts DEF Scheduled
<1>3. LinkInv(svc', session) /\ OnInv(svc', session, op)
  BY Facts DEF LinkInv, OnInv
<1>4. RunsInv(svc', session, op) /\ HeldInv(svc', session, op, reading)
  <2>1. Runs(svc', op) = Runs(svc, op)
    BY DEF Runs
  <2> QED BY <2>1, Facts DEF RunsInv, HeldInv, Foreground
<1>5. DistanceInv(svc', history)
  <2>1. \A p \in Plans : history.owed[p] \in Nat /\ svc.due[p] \in Nat /\ svc'.due[p] \in Nat
    BY <1>2, ServiceIs DEF Histories
  <2>2. history.idleFor \in Nat /\ Interval \in Nat
    BY <1>2 DEF Histories, Given, PollAssumption
  <2>3. \A p \in Plans : history.owed[p] <= svc'.due[p] /\ (svc'.active[p] = "running" => history.owed[p] = 0)
    BY <2>1, Facts DEF DistanceInv
  <2>4. ASSUME svc'.enabled, Foreground(svc') = {}, NEW p \in Timed PROVE history.idleFor + svc'.due[p] >= Interval
    <3>1. history.idleFor + svc.due[p] >= Interval /\ p \in Plans
      BY <2>4, Facts, TimedIs DEF DistanceInv, Foreground
    <3> QED BY <2>1, <2>2, <3>1
  <2> QED BY <2>3, <2>4 DEF DistanceInv
<1>6. Sound(svc', queue', session, op, reading, history)
  BY <1>3, <1>4, <1>5, Facts DEF Sound
<1> QED BY <1>1, <1>3, <1>6 DEF Kept
\* The turn that is taken is of the queue, and says what it is by itself.
LEMMA TurnIs ==
  ASSUME Given, PollInv, Turn
  PROVE  /\ queue # <<>> /\ queue' = Tail(queue) /\ Head(queue) \in Jobs /\ Tail(queue) \in Seq(Jobs)
         /\ \A j : /\ Count(queue, j) = Count(Tail(queue), j) + (IF Head(queue) = j THEN 1 ELSE 0)
                   /\ Count(queue, j) \in Nat /\ Count(Tail(queue), j) \in Nat
         /\ Concludes(Tail(queue)) \/ Head(queue).kind = "conclude" => Concludes(queue)
<1>1. queue \in Seq(Jobs) /\ queue # <<>> /\ queue' = Tail(queue)
  BY Facts DEF Turn
<1>2. Tail(queue) \in Seq(Jobs)
  BY <1>1, CountTail
<1> QED BY <1>1, <1>2, CountTail, CountFinite

\* Less of the turns that are no poll and no release leaves the schedule as it is.
LEMMA TakenScheduled ==
  ASSUME Given, NEW s, NEW q, Scheduled(s, q), NEW u \in Seq(Jobs), Concludes(u) => Concludes(q),
         \A p \in Plans : \/ Count(u, Poll(p)) = Count(q, Poll(p))
                         \/ (Count(u, Poll(p)) <= Count(q, Poll(p)) /\ ~Armable(s, p)),
         \/ Count(u, Release) = Count(q, Release)
         \/ (Count(u, Release) = 0 /\ (s.releaseDue \/ ~Unreleased(s)))
  PROVE  Scheduled(s, u)
<1>1. \A p \in Plans : Count(u, Poll(p)) \in Nat /\ Count(q, Poll(p)) \in Nat
  BY CountFinite DEF Scheduled
<1>2. ASSUME NEW p \in Plans PROVE PlanAt(s, u, p)
  <2>1. PlanAt(s, q, p) /\ Count(u, Poll(p)) \in Nat /\ Count(q, Poll(p)) \in Nat
    BY <1>1 DEF Scheduled, PlansInv
  <2>2. \/ Count(u, Poll(p)) = Count(q, Poll(p))
        \/ Count(u, Poll(p)) <= Count(q, Poll(p)) /\ ~Armable(s, p)
    OBVIOUS
  <2> QED BY <2>1, <2>2 DEF PlanAt, Unscheduled
<1>3. ReleaseInv(s, u)
  BY DEF Scheduled, ReleaseInv
<1> QED BY <1>2, <1>3 DEF Scheduled, PlansInv

LEMMA JobStaleKeeps == ASSUME Given, PollInv, Job_Stale PROVE Kept
<1> USE DEF Given
<1>1. /\ queue # <<>> /\ queue' = Tail(queue) /\ Head(queue) \in Jobs /\ Tail(queue) \in Seq(Jobs)
      /\ \A j : /\ Count(queue, j) = Count(Tail(queue), j) + (IF Head(queue) = j THEN 1 ELSE 0)
                /\ Count(queue, j) \in Nat /\ Count(Tail(queue), j) \in Nat
      /\ Concludes(Tail(queue)) \/ Head(queue).kind = "conclude" => Concludes(queue)
  BY TurnIs DEF Job_Stale
<1>2. Unobserved /\ svc' = svc /\ history' = history
  BY DEF Job_Stale
<1>3. PICK j : j = Head(queue)
  OBVIOUS
<1>4. /\ j \in Jobs
      /\ \/ j.kind = "poll" /\ ~(j.fresh /\ Armable(svc, j.plan))
         \/ j.kind = "release" /\ ~(j.fresh /\ Foreground(svc) = {})
  BY <1>1, <1>3 DEF Job_Stale
<1>5. j # Again
  BY <1>4, JobsDiffer
<1>6. \A p \in Plans : j = Poll(p) => ~Armable(svc, p)
  BY <1>4, JobIs, JobsDiffer
<1>7. j = Release => Foreground(svc) # {}
  BY <1>4, JobIs, JobsDiffer
<1>8. ASSUME NEW p \in Plans
      PROVE  \/ Count(queue', Poll(p)) = Count(queue, Poll(p))
             \/ (Count(queue', Poll(p)) <= Count(queue, Poll(p)) /\ ~Armable(svc, p))
  <2>1. /\ Count(queue, Poll(p)) = Count(queue', Poll(p)) + (IF j = Poll(p) THEN 1 ELSE 0)
        /\ Count(queue, Poll(p)) \in Nat /\ Count(queue', Poll(p)) \in Nat
    BY <1>1, <1>3
  <2> QED BY <1>6, <2>1
<1>9. Count(queue', Release) = Count(queue, Release) /\ Count(queue', Again) = Count(queue, Again)
  <2>1. /\ Count(queue, Release) = Count(queue', Release) + (IF j = Release THEN 1 ELSE 0)
        /\ Count(queue, Release) \in Nat /\ Count(queue', Release) \in Nat
        /\ Count(queue, Again) = Count(queue', Again) + (IF j = Again THEN 1 ELSE 0)
        /\ Count(queue, Again) \in Nat /\ Count(queue', Again) \in Nat
    BY <1>1, <1>3
  <2>2. j # Release
    <3>1. SUFFICES ASSUME j = Release PROVE FALSE
      OBVIOUS
    <3>2. Count(queue, Release) = 0
      BY <1>7, <3>1, Facts DEF ReleaseInv
    <3> QED BY <2>1, <3>1, <3>2
  <2> QED BY <1>5, <2>1, <2>2
<1>10. Scheduled(svc, queue')
  <2>1. queue' \in Seq(Jobs) /\ (Concludes(queue') => Concludes(queue))
    BY <1>1
  <2>2. Scheduled(svc, queue)
    BY Facts
  <2> HIDE DEF Given
  <2> QED BY <1>8, <1>9, <2>1, <2>2, TakenScheduled
<1>11. TriedInv(svc, queue', op, reading, history)
  BY <1>9, Facts DEF TriedInv
<1>12. \A p \in Plans : svc.due[p] >= svc.due[p]
  BY Facts, ServiceIs
<1> QED BY <1>2, <1>10, <1>11, <1>12, Facts, Reschedules

\* A step that tries the release, of a service that may have noted that it is due.
LEMMA TryKeeps ==
  ASSUME Given, PollInv, Unobserved, history' = history,
         NEW s, Scheduled(s, queue'), svc' = TryRelease(s, Quiescent),
         s.enabled = svc.enabled, s.closed = svc.closed, s.generation = svc.generation, s.due = svc.due,
         s.active = svc.active, s.foreground = svc.foreground, s.credit = svc.credit, s.elapsed = svc.elapsed
  PROVE  Kept
<1>1. PICK c \in BOOLEAN : c <=> Quiescent
  OBVIOUS
<1>2. svc' = TryRelease(s, c)
  BY <1>1 DEF TryRelease
<1>3. /\ Scheduled(svc', queue')
      /\ svc'.enabled = s.enabled /\ svc'.closed = s.closed /\ svc'.generation = s.generation /\ svc'.due = s.due
      /\ svc'.active = s.active /\ svc'.foreground = s.foreground
      /\ svc'.credit = s.credit /\ svc'.elapsed = s.elapsed
      /\ \A a, r, h : (c <=> ~Obstructed(s, a, r)) => TriedInv(svc', queue', a, r, h)
  BY <1>2, TryReleaseScheduled
<1>4. TriedInv(svc', queue', op, reading, history)
  <2>1. Obstructed(s, op, reading) <=> Obstructed(svc, op, reading)
    BY DEF Obstructed
  <2> QED BY <1>1, <1>3, <2>1, QuietIs
<1>5. BucketInv(svc', history)
  BY <1>3, Facts DEF BucketInv
<1>6. \A p \in Plans : svc'.due[p] >= svc.due[p]
  <2>1. \A p \in Plans : svc.due[p] \in Nat
    BY Facts, ServiceIs
  <2> QED BY <1>3, <2>1
<1> QED BY <1>3, <1>4, <1>5, <1>6, Reschedules

LEMMA JobAgainKeeps == ASSUME Given, PollInv, Job_Again PROVE Kept
<1>1. /\ queue # <<>> /\ queue' = Tail(queue) /\ Head(queue) \in Jobs /\ queue' \in Seq(Jobs)
      /\ \A j : /\ Count(queue, j) = Count(queue', j) + (IF Head(queue) = j THEN 1 ELSE 0)
                /\ Count(queue, j) \in Nat /\ Count(queue', j) \in Nat
      /\ Concludes(queue') => Concludes(queue)
  BY TurnIs DEF Job_Again
<1>2. Head(queue).kind = "again"
  BY DEF Job_Again
<1>3. \A p \in Plans : Head(queue) # Poll(p)
  BY <1>2, JobsDiffer DEF Given
<1>4. Head(queue) # Release
  BY <1>2, JobsDiffer DEF Given
<1>5. \A p \in Plans : Count(queue', Poll(p)) = Count(queue, Poll(p))
  BY <1>1, <1>3
<1>6. Count(queue', Release) = Count(queue, Release)
  BY <1>1, <1>4
<1>7. Scheduled(svc, queue')
  <2>1. queue' \in Seq(Jobs) /\ (Concludes(queue') => Concludes(queue))
    BY <1>1
  <2>2. Scheduled(svc, queue)
    BY Facts
  <2> QED BY <1>5, <1>6, <2>1, <2>2, TakenScheduled
<1>8. Unobserved /\ history' = history /\ svc' = TryRelease(svc, Quiescent)
  BY DEF Job_Again
<1> QED BY <1>7, <1>8, TryKeeps

\* A turn taken that makes the release due.
LEMMA DueKeeps ==
  ASSUME Given, PollInv, Turn, topology = "releasing", Foreground(svc) = {}, Unobserved, history' = history,
         svc' = TryRelease([svc EXCEPT !.releaseDue = TRUE], Quiescent)
  PROVE  Kept
<1>1. /\ queue' \in Seq(Jobs)
      /\ \A j : /\ Count(queue, j) = Count(queue', j) + (IF Head(queue) = j THEN 1 ELSE 0)
                /\ Count(queue, j) \in Nat /\ Count(queue', j) \in Nat
  BY TurnIs
<1>2. \A p \in Plans : Count(queue', Poll(p)) <= Count(queue, Poll(p))
  BY <1>1
<1>3. PICK s : s = [svc EXCEPT !.releaseDue = TRUE]
  OBVIOUS
<1>4. Scheduled(s, queue')
  BY <1>1, <1>2, <1>3, Facts, DueScheduled
<1>5. /\ s.enabled = svc.enabled /\ s.closed = svc.closed /\ s.generation = svc.generation /\ s.due = svc.due
      /\ s.active = svc.active /\ s.foreground = svc.foreground /\ s.credit = svc.credit /\ s.elapsed = svc.elapsed
  BY <1>3, Facts DEF Services
<1> QED BY <1>3, <1>4, <1>5, TryKeeps

LEMMA JobReleaseKeeps == ASSUME Given, PollInv, Job_Release PROVE Kept
<1>1. /\ Turn /\ Head(queue).kind = "release" /\ Head(queue).fresh /\ Foreground(svc) = {}
      /\ Unobserved /\ history' = history
      /\ svc' = TryRelease([svc EXCEPT !.releaseDue = TRUE], Quiescent)
  BY DEF Job_Release
<1>2. /\ Head(queue) \in Jobs
      /\ \A j : /\ Count(queue, j) = Count(queue', j) + (IF Head(queue) = j THEN 1 ELSE 0)
                /\ Count(queue, j) \in Nat /\ Count(queue', j) \in Nat
  BY <1>1, TurnIs
<1>3. Head(queue) = Release
  BY <1>1, <1>2, JobIs DEF Given
<1>4. Count(queue, Release) # 0
  BY <1>2, <1>3
<1>5. topology = "releasing"
  BY <1>4, Facts DEF ReleaseInv
<1> QED BY <1>1, <1>5, DueKeeps

LEMMA JobConcludeKeeps == ASSUME Given, PollInv, Job_Conclude PROVE Kept
<1>1. /\ Turn /\ Head(queue).kind = "conclude" /\ Unobserved /\ history' = history
      /\ svc' = [svc EXCEPT !.released = TRUE, !.releaseDue = FALSE, !.releasing = FALSE]
  BY DEF Job_Conclude
<1>2. /\ Head(queue) \in Jobs /\ queue' \in Seq(Jobs)
      /\ \A j : /\ Count(queue, j) = Count(queue', j) + (IF Head(queue) = j THEN 1 ELSE 0)
                /\ Count(queue, j) \in Nat /\ Count(queue', j) \in Nat
      /\ Concludes(queue)
  BY <1>1, TurnIs
<1>3. \A p \in Plans : Head(queue) # Poll(p)
  BY <1>1, JobsDiffer DEF Given
<1>4. Head(queue) # Release
  BY <1>1, JobsDiffer DEF Given
<1>5. (\A p \in Plans : Count(queue', Poll(p)) = Count(queue, Poll(p))) /\ Count(queue', Release) = Count(queue, Release)
  BY <1>2, <1>3, <1>4
<1>6. topology = "releasing"
  BY <1>2, Facts DEF ReleaseInv
<1>7. /\ svc' \in Services /\ svc'.released = TRUE /\ svc'.releaseDue = FALSE /\ svc'.releasing = FALSE
      /\ svc'.enabled = svc.enabled /\ svc'.closed = svc.closed /\ svc'.generation = svc.generation
      /\ svc'.due = svc.due /\ svc'.timer = svc.timer /\ svc'.rtimer = svc.rtimer
      /\ svc'.active = svc.active /\ svc'.foreground = svc.foreground /\ svc'.strayed = svc.strayed
      /\ svc'.credit = svc.credit /\ svc'.elapsed = svc.elapsed
  BY <1>1, Facts DEF Services
<1>8. PlansInv(svc', queue')
  BY <1>5, <1>7, Facts DEF PlansInv, PlanAt, Unscheduled, Armable, Foreground
<1>9. ReleaseInv(svc', queue')
  BY <1>5, <1>6, <1>7, Facts DEF ReleaseInv, Unreleased, Foreground
<1>10. TriedInv(svc', queue', op, reading, history)
  BY <1>7 DEF TriedInv
<1>11. BucketInv(svc', history)
  BY <1>7, Facts DEF BucketInv
<1>12. \A p \in Plans : svc'.due[p] >= svc.due[p]
  <2>1. \A p \in Plans : svc.due[p] \in Nat
    BY Facts, ServiceIs
  <2> QED BY <1>7, <2>1
<1> QED BY <1>1, <1>2, <1>7, <1>8, <1>9, <1>10, <1>11, <1>12, Reschedules DEF Scheduled

LEMMA TimerPlanKeeps == ASSUME Given, PollInv, NEW p \in Plans, Timer_Plan(p) PROVE Kept
<1>1. /\ svc.timer[p] = 0 /\ svc' = [svc EXCEPT !.timer[p] = Off] /\ queue' = Append(queue, Poll(p))
      /\ Unobserved /\ history' = history
  BY DEF Timer_Plan
<1>2. Poll(p) \in Jobs /\ queue \in Seq(Jobs) /\ svc \in Services /\ PlansInv(svc, queue)
  BY JobsDiffer, Facts DEF Given
<1>3. /\ queue' \in Seq(Jobs) /\ (Concludes(queue') => Concludes(queue) \/ Poll(p).kind = "conclude")
      /\ \A j : Count(queue', j) = Count(queue, j) + (IF Poll(p) = j THEN 1 ELSE 0)
  BY <1>1, <1>2, CountAppend
<1>4. \A j : Count(queue, j) \in Nat
  BY <1>2, CountFinite
<1>5. /\ \A x \in Plans : x # p => Count(queue', Poll(x)) = Count(queue, Poll(x))
      /\ Count(queue', Release) = Count(queue, Release) /\ Count(queue', Again) = Count(queue, Again)
      /\ Concludes(queue') => Concludes(queue)
      /\ Count(queue', Poll(p)) = Count(queue, Poll(p)) + 1
  BY <1>3, <1>4, JobsDiffer DEF Given
<1>6. PICK f : f = [svc.timer EXCEPT ![p] = Off]
  OBVIOUS
<1>7. f \in [Plans -> Delays] /\ \A x \in Plans : f[x] = IF x = p THEN Off ELSE svc.timer[x]
  BY <1>2, <1>6, ServiceIs DEF Delays
<1>8. svc' = [svc EXCEPT !.timer = f]
  BY <1>1, <1>6
<1>9. /\ svc' \in Services /\ svc'.timer = f
      /\ svc'.enabled = svc.enabled /\ svc'.closed = svc.closed /\ svc'.generation = svc.generation
      /\ svc'.due = svc.due /\ svc'.rtimer = svc.rtimer
      /\ svc'.released = svc.released /\ svc'.releaseDue = svc.releaseDue /\ svc'.releasing = svc.releasing
      /\ svc'.active = svc.active /\ svc'.foreground = svc.foreground /\ svc'.strayed = svc.strayed
      /\ svc'.credit = svc.credit /\ svc'.elapsed = svc.elapsed
  BY <1>2, <1>7, <1>8 DEF Services
<1>10. svc.timer[p] # Off
  BY <1>1 DEF Off
<1>11. ASSUME NEW x \in Plans PROVE PlanAt(svc', queue', x)
  <2>1. PlanAt(svc, queue, x) /\ (Armable(svc', x) <=> Armable(svc, x))
    BY <1>2, <1>9 DEF PlansInv, Armable, Foreground
  <2>2. CASE x = p
    <3>1. Count(queue, Poll(p)) = 0 /\ svc'.timer[p] = Off
      BY <1>7, <1>9, <1>10, <2>1, <2>2 DEF PlanAt
    <3>2. Count(queue', Poll(p)) = 1
      BY <1>5, <3>1
    <3>3. svc.enabled /\ ~svc.closed /\ svc.active[p] = "none" /\ (p \in Timed => Foreground(svc) = {})
      BY <1>10, <2>1, <2>2 DEF PlanAt, Unscheduled
    <3> QED BY <1>9, <2>2, <3>1, <3>2, <3>3 DEF PlanAt, Unscheduled, Foreground
  <2>3. CASE x # p
    <3>1. svc'.timer[x] = svc.timer[x] /\ Count(queue', Poll(x)) = Count(queue, Poll(x))
      BY <1>5, <1>7, <1>9, <2>3
    <3> QED BY <1>9, <2>1, <3>1 DEF PlanAt, Unscheduled, Foreground
  <2> QED BY <2>2, <2>3
<1>12. PlansInv(svc', queue')
  BY <1>2, <1>9, <1>11 DEF PlansInv
<1>13. ReleaseInv(svc', queue')
  BY <1>5, <1>9, Facts DEF ReleaseInv, Unreleased, Foreground
<1>14. TriedInv(svc', queue', op, reading, history)
  BY <1>5, <1>9, Facts DEF TriedInv, Unreleased, Foreground, Obstructed
<1>15. BucketInv(svc', history)
  BY <1>9, Facts DEF BucketInv
<1>16. \A x \in Plans : svc'.due[x] >= svc.due[x]
  <2>1. \A x \in Plans : svc.due[x] \in Nat
    BY Facts, ServiceIs
  <2> QED BY <1>9, <2>1
<1> QED BY <1>1, <1>3, <1>9, <1>12, <1>13, <1>14, <1>15, <1>16, Reschedules DEF Scheduled

LEMMA TimerReleaseKeeps == ASSUME Given, PollInv, Timer_Release PROVE Kept
<1>1. /\ svc.rtimer = 0 /\ svc' = [svc EXCEPT !.rtimer = Off] /\ queue' = Append(queue, Release)
      /\ Unobserved /\ history' = history
  BY DEF Timer_Release
<1>2. Release \in Jobs /\ queue \in Seq(Jobs) /\ svc \in Services /\ PlansInv(svc, queue)
  BY JobsDiffer, Facts DEF Given
<1>3. /\ queue' \in Seq(Jobs) /\ (Concludes(queue') => Concludes(queue) \/ Release.kind = "conclude")
      /\ \A j : Count(queue', j) = Count(queue, j) + (IF Release = j THEN 1 ELSE 0)
  BY <1>1, <1>2, CountAppend
<1>4. \A j : Count(queue, j) \in Nat
  BY <1>2, CountFinite
<1>5. /\ \A x \in Plans : Count(queue', Poll(x)) = Count(queue, Poll(x))
      /\ Count(queue', Release) = Count(queue, Release) + 1
      /\ Concludes(queue') => Concludes(queue)
  BY <1>3, <1>4, JobsDiffer DEF Given
<1>6. Off \in Delays /\ svc.rtimer # Off
  BY <1>1 DEF Delays, Off
<1>7. /\ svc' \in Services /\ svc'.rtimer = Off
      /\ svc'.enabled = svc.enabled /\ svc'.closed = svc.closed /\ svc'.generation = svc.generation
      /\ svc'.due = svc.due /\ svc'.timer = svc.timer
      /\ svc'.released = svc.released /\ svc'.releaseDue = svc.releaseDue /\ svc'.releasing = svc.releasing
      /\ svc'.active = svc.active /\ svc'.foreground = svc.foreground /\ svc'.strayed = svc.strayed
      /\ svc'.credit = svc.credit /\ svc'.elapsed = svc.elapsed
  BY <1>1, <1>2, <1>6 DEF Services
<1>8. PlansInv(svc', queue')
  BY <1>2, <1>5, <1>7 DEF PlansInv, PlanAt, Unscheduled, Armable, Foreground
<1>9. ReleaseInv(svc', queue')
  <2>1. ReleaseInv(svc, queue) /\ Count(queue, Release) \in Nat
    BY <1>4, Facts
  <2>2. Foreground(svc) = {} /\ topology = "releasing"
    BY <1>6, <2>1 DEF ReleaseInv
  <2>3. Unreleased(svc) /\ ~svc.releaseDue => Count(queue, Release) = 0
    BY <1>6, <2>1 DEF ReleaseInv
  <2> QED BY <1>5, <1>7, <2>1, <2>2, <2>3 DEF ReleaseInv, Unreleased, Foreground
<1>10. TriedInv(svc', queue', op, reading, history)
  <2>1. Count(queue', Release) > 0
    BY <1>4, <1>5
  <2> QED BY <2>1 DEF TriedInv
<1>11. BucketInv(svc', history)
  BY <1>7, Facts DEF BucketInv
<1>12. \A x \in Plans : svc'.due[x] >= svc.due[x]
  <2>1. \A x \in Plans : svc.due[x] \in Nat
    BY Facts, ServiceIs
  <2> QED BY <1>7, <2>1
<1> QED BY <1>1, <1>3, <1>7, <1>8, <1>9, <1>10, <1>11, <1>12, Reschedules DEF Scheduled

LEMMA InvalidatedKeeps == ASSUME Given, PollInv, Invalidated PROVE Kept
<1>1. /\ svc.releasing /\ queue' = Append(queue, Conclude) /\ svc' = svc
      /\ Unobserved /\ history' = history
  BY DEF Invalidated
<1>2. Conclude \in Jobs /\ queue \in Seq(Jobs) /\ svc \in Services
  BY JobsDiffer, Facts DEF Given
<1>3. /\ queue' \in Seq(Jobs)
      /\ \A j : Count(queue', j) = Count(queue, j) + (IF Conclude = j THEN 1 ELSE 0)
  BY <1>1, <1>2, CountAppend
<1>4. \A j : Count(queue, j) \in Nat
  BY <1>2, CountFinite
<1>5. /\ \A x \in Plans : Count(queue', Poll(x)) = Count(queue, Poll(x))
      /\ Count(queue', Release) = Count(queue, Release) /\ Count(queue', Again) = Count(queue, Again)
  BY <1>3, <1>4, JobsDiffer DEF Given
<1>6. topology = "releasing"
  BY <1>1, Facts DEF ReleaseInv
<1>7. Scheduled(svc, queue')
  BY <1>3, <1>5, <1>6, Facts DEF Scheduled, PlansInv, PlanAt, Unscheduled, ReleaseInv
<1>8. TriedInv(svc, queue', op, reading, history)
  BY <1>5, Facts DEF TriedInv
<1>9. \A x \in Plans : svc.due[x] >= svc.due[x]
  BY Facts, ServiceIs
<1> QED BY <1>1, <1>7, <1>8, <1>9, Facts, Reschedules

-----------------------------------------------------------------------------
(* The bucket.                                                             *)

\* Division, as the prover is told it.
LEMMA DivMod ==
  ASSUME NEW e \in Nat, NEW R \in Nat \ {0}
  PROVE  e \div R \in Nat /\ e % R \in 0 .. (R - 1) /\ e = R * (e \div R) + (e % R)
BY SMT

LEMMA DivUnique ==
  ASSUME NEW e \in Nat, NEW R \in Nat \ {0}, NEW k \in Nat, NEW r \in 0 .. (R - 1), e = R * k + r
  PROVE  e \div R = k /\ e % R = r
<1>1. e \div R \in Nat /\ e % R \in 0 .. (R - 1) /\ e = R * (e \div R) + (e % R)
  BY DivMod
<1>2. PICK l, m \in Int : l = e \div R /\ m = e % R
  BY <1>1
<1>3. R * (l - k) = r - m
  <2>1. R * l + m = R * k + r
    BY <1>1, <1>2
  <2>2. R * (l - k) = R * l - R * k
    OBVIOUS
  <2> QED BY <2>1, <2>2, <1>2, <1>1
<1>4. r - m < R /\ r - m > -R
  BY <1>1, <1>2
<1>5. l - k = 0
  <2>1. CASE l - k >= 1
    <3>1. R * (l - k) >= R
      BY <2>1
    <3> QED BY <3>1, <1>3, <1>4
  <2>2. CASE l - k <= -1
    <3>1. R * (l - k) <= -R
      BY <2>2
    <3> QED BY <3>1, <1>3, <1>4
  <2> QED BY <2>1, <2>2, <1>2
<1> QED BY <1>2, <1>3, <1>5, <1>1

\* A bucket that was just reckoned.
LEMMA BucketIs ==
  ASSUME PollAssumption, NEW s, NEW h, s.credit \in Nat, s.elapsed \in Nat, s.credit <= Burst, s.elapsed < Refill,
         h.phase = s.elapsed, h.permits = s.credit
  PROVE  BucketInv(s, h)
<1>1. Burst \in Nat /\ Refill \in Nat \ {0}
  BY DEF PollAssumption
<1>2. PICK e \in Nat : e = s.elapsed
  OBVIOUS
<1>3. e \div Refill = 0 /\ e % Refill = e
  <2>1. e \in 0 .. (Refill - 1) /\ e = Refill * 0 + e
    BY <1>1, <1>2
  <2> QED BY <2>1, <1>1, DivUnique
<1>4. (Burst + 1) * Refill >= Refill
  BY <1>1
<1>5. s.elapsed < (Burst + 1) * Refill
  <2>1. (Burst + 1) * Refill \in Nat
    BY <1>1
  <2> QED BY <2>1, <1>1, <1>4
<1> QED BY <1>1, <1>2, <1>3, <1>5 DEF BucketInv, Smaller

LEMMA RefilledIs ==
  ASSUME PollAssumption, NEW s \in Services, NEW h \in Histories, BucketInv(s, h), NEW t, t = Refilled(s)
  PROVE  /\ t \in Services
         /\ t.enabled = s.enabled /\ t.closed = s.closed /\ t.generation = s.generation /\ t.due = s.due
         /\ t.active = s.active /\ t.born = s.born /\ t.foreground = s.foreground
         /\ t.releaseDue = s.releaseDue /\ t.releasing = s.releasing /\ t.released = s.released
         /\ t.timer = s.timer /\ t.rtimer = s.rtimer /\ t.strayed = s.strayed
         /\ t.credit = h.permits /\ t.credit <= Burst
         /\ t.elapsed = h.phase /\ t.elapsed < Refill
<1>1. Burst \in Nat /\ Refill \in Nat \ {0} /\ s.elapsed \in Nat /\ s.credit \in Nat
  BY ServiceIs DEF PollAssumption
<1>2. PICK c, e : c = Smaller(Burst, s.credit + s.elapsed \div Refill) /\ e = s.elapsed % Refill
  OBVIOUS
<1>3. s.elapsed \div Refill \in Nat /\ e \in Nat /\ e < Refill
  BY <1>1, <1>2, DivMod
<1>4. c \in Nat /\ c <= Burst
  BY <1>1, <1>2, <1>3 DEF Smaller
<1>5. c = h.permits /\ e = h.phase
  BY <1>2 DEF BucketInv
<1>6. t = [s EXCEPT !.credit = c, !.elapsed = e]
  BY <1>2 DEF Refilled
<1>7. /\ t \in Services /\ t.credit = c /\ t.elapsed = e
      /\ t.enabled = s.enabled /\ t.closed = s.closed /\ t.generation = s.generation /\ t.due = s.due
      /\ t.active = s.active /\ t.born = s.born /\ t.foreground = s.foreground
      /\ t.releaseDue = s.releaseDue /\ t.releasing = s.releasing /\ t.released = s.released
      /\ t.timer = s.timer /\ t.rtimer = s.rtimer /\ t.strayed = s.strayed
  BY <1>3, <1>4, <1>6 DEF Services
<1> QED BY <1>3, <1>4, <1>5, <1>7

\* The bucket as time passes, and the one that is refilled at once.
LEMMA BucketTicks ==
  ASSUME PollAssumption, NEW s \in Services, NEW h \in Histories, BucketInv(s, h), NEW t, NEW k,
         t.credit = s.credit, t.elapsed = Later(s.elapsed),
         k.permits = IF h.phase + 1 = Refill THEN Smaller(Burst, h.permits + 1) ELSE h.permits,
         k.phase = (h.phase + 1) % Refill
  PROVE  BucketInv(t, k) /\ Later(s.elapsed) \in Nat
<1>1. Burst \in Nat \ {0} /\ Refill \in Nat \ {0} /\ s.elapsed \in Nat /\ s.credit \in Nat
  BY ServiceIs DEF PollAssumption
<1>2. PICK e, n, m, c \in Int : e = s.elapsed /\ n = e \div Refill /\ m = e % Refill /\ c = s.credit
  <2>1. PICK e, c \in Nat : e = s.elapsed /\ c = s.credit
    BY <1>1
  <2>2. e \div Refill \in Nat /\ e % Refill \in 0 .. (Refill - 1)
    BY <1>1, DivMod
  <2>3. PICK n, m : n = e \div Refill /\ m = e % Refill
    OBVIOUS
  <2>4. n \in Int /\ m \in Int
    BY <1>1, <2>2, <2>3
  <2> QED BY <2>1, <2>3, <2>4
<1>3. /\ e \in Nat /\ c \in Nat /\ n \in Nat /\ m \in 0 .. (Refill - 1) /\ e = Refill * n + m
      /\ c <= Burst /\ e < (Burst + 1) * Refill /\ h.phase = m /\ h.permits = Smaller(Burst, c + n)
  BY <1>1, <1>2, DivMod DEF BucketInv
<1>4. CASE m + 1 # Refill
  <2>1. e + 1 = Refill * n + (m + 1) /\ m + 1 \in 0 .. (Refill - 1)
    BY <1>1, <1>3, <1>4
  <2>2. (e + 1) \div Refill = n /\ (e + 1) % Refill = m + 1
    <3>1. PICK f, r : f = e + 1 /\ r = m + 1
      OBVIOUS
    <3>2. f \in Nat /\ r \in 0 .. (Refill - 1) /\ f = Refill * n + r
      BY <1>3, <2>1, <3>1
    <3>3. f \div Refill = n /\ f % Refill = r
      BY <1>1, <1>3, <3>2, DivUnique
    <3> QED BY <3>1, <3>3
  <2>3. (m + 1) % Refill = m + 1
    <3>1. m + 1 \in Nat /\ m + 1 = Refill * 0 + (m + 1)
      BY <1>1, <1>3
    <3> QED BY <3>1, <1>1, <2>1, DivUnique
  <2>4. e + 1 < (Burst + 1) * Refill
    <3>1. n < Burst + 1
      <4>1. CASE n >= Burst + 1
        <5>1. Refill * n >= Refill * (Burst + 1)
          BY <1>1, <1>3, <4>1
        <5>2. Refill * (Burst + 1) = (Burst + 1) * Refill /\ Refill * n \in Nat /\ (Burst + 1) * Refill \in Nat
          BY <1>1, <1>3
        <5> QED BY <1>3, <5>1, <5>2
      <4> QED BY <1>1, <1>3, <4>1
    <3>2. Refill * (Burst - n) >= 0 /\ Refill * (Burst - n) = Burst * Refill - Refill * n
      BY <1>1, <1>3, <3>1
    <3>3. (Burst + 1) * Refill = Burst * Refill + Refill
      BY <1>1
    <3> QED BY <1>1, <1>3, <2>1, <3>2, <3>3
  <2>5. Later(e) = e + 1
    BY <1>1, <1>3, <2>4 DEF Later
  <2>6. t.elapsed = e + 1 /\ t.credit = c /\ k.phase = m + 1 /\ k.permits = Smaller(Burst, c + n)
    BY <1>2, <1>3, <1>4, <2>3, <2>5
  <2>7. e + 1 \in Nat
    BY <1>3
  <2> QED BY <1>2, <1>3, <2>2, <2>4, <2>5, <2>6, <2>7 DEF BucketInv
<1>5. CASE m + 1 = Refill
  <2>1. Refill % Refill = 0
    <3>1. Refill = Refill * 1 + 0 /\ 0 \in 0 .. (Refill - 1)
      BY <1>1
    <3> QED BY <3>1, <1>1, DivUnique
  <2>2. k.phase = 0 /\ k.permits = Smaller(Burst, Smaller(Burst, c + n) + 1)
    BY <1>3, <1>5, <2>1
  <2>3. e + 1 = Refill * (n + 1)
    <3>1. Refill * (n + 1) = Refill * n + Refill
      BY <1>1, <1>3
    <3> QED BY <1>1, <1>3, <1>5, <3>1
  <2>4. (Burst + 1) * Refill \in Nat /\ (Burst + 1) * Refill = Refill * (Burst + 1)
    BY <1>1
  <2>5. n <= Burst
    <3>1. CASE n >= Burst + 1
      <4>1. Refill * n >= Refill * (Burst + 1) /\ Refill * n \in Nat
        BY <1>1, <1>3, <3>1
      <4> QED BY <1>3, <2>4, <4>1
    <3> QED BY <1>1, <1>3, <3>1
  <2>6. CASE n = Burst
    <3>1. e + 1 = (Burst + 1) * Refill
      BY <2>3, <2>4, <2>6
    <3>2. Later(e) = e + 1 - Refill
      BY <1>3, <3>1, <2>4 DEF Later
    <3>3. Later(e) = Refill * Burst + 0 /\ Later(e) \in Nat
      <4>1. Refill * (Burst + 1) = Refill * Burst + Refill /\ Refill * Burst \in Nat
        BY <1>1
      <4> QED BY <1>1, <1>3, <2>4, <3>1, <3>2, <4>1
    <3>4. Later(e) \div Refill = Burst /\ Later(e) % Refill = 0
      <4>1. 0 \in 0 .. (Refill - 1)
        BY <1>1
      <4> QED BY <1>1, <3>3, <4>1, DivUnique
    <3>5. Later(e) < (Burst + 1) * Refill
      BY <1>1, <1>3, <2>4, <3>1, <3>2
    <3>6. t.elapsed = Later(e) /\ t.credit = c
      BY <1>2
    <3>7. Smaller(Burst, c + Burst) = Burst /\ Smaller(Burst, Smaller(Burst, c + n) + 1) = Burst
      BY <1>1, <1>3, <2>6 DEF Smaller
    <3>8. t.credit + t.elapsed \div Refill = c + Burst
      BY <3>4, <3>6
    <3> QED BY <1>2, <1>3, <2>2, <3>3, <3>4, <3>5, <3>6, <3>7, <3>8 DEF BucketInv
  <2>7. CASE n < Burst
    <3>1. e + 1 < (Burst + 1) * Refill
      <4>1. Refill * (Burst - n) >= Refill
        BY <1>1, <1>3, <2>7
      <4>2. Refill * (Burst - n) = Refill * (Burst + 1) - Refill * (n + 1)
        BY <1>1, <1>3
      <4>3. Refill * (Burst + 1) \in Nat /\ Refill * (n + 1) \in Nat
        BY <1>1, <1>3
      <4> QED BY <1>1, <2>3, <2>4, <4>1, <4>2, <4>3
    <3>2. Later(e) = e + 1
      BY <1>3, <2>4, <3>1 DEF Later
    <3>3. (e + 1) \div Refill = n + 1 /\ (e + 1) % Refill = 0
      <4>1. 0 \in 0 .. (Refill - 1) /\ e + 1 = Refill * (n + 1) + 0 /\ n + 1 \in Nat /\ e + 1 \in Nat
        BY <1>1, <1>3, <2>3
      <4> QED BY <1>1, <4>1, DivUnique
    <3>4. t.elapsed = e + 1 /\ t.credit = c
      BY <1>2, <3>2
    <3>5. Smaller(Burst, c + (n + 1)) = Smaller(Burst, Smaller(Burst, c + n) + 1)
      BY <1>1, <1>3 DEF Smaller
    <3>6. t.credit + t.elapsed \div Refill = c + (n + 1)
      BY <3>3, <3>4
    <3>7. e + 1 \in Nat
      BY <1>3
    <3> QED BY <1>2, <1>3, <2>2, <3>1, <3>2, <3>3, <3>4, <3>5, <3>6, <3>7 DEF BucketInv
  <2> QED BY <1>1, <1>3, <2>5, <2>6, <2>7
<1> QED BY <1>4, <1>5

-----------------------------------------------------------------------------
(* The turn of a plan.                                                     *)

\* A plan that is not polled yet, or was refused, is armed again.
LEMMA RearmKeeps ==
  ASSUME Given, PollInv, Turn, NEW p \in Plans, Head(queue) = Poll(p), Armable(svc, p),
         Unobserved, history' = history,
         NEW v \in Services, v.enabled = svc.enabled, v.closed = svc.closed, v.generation = svc.generation,
         v.active = svc.active, v.foreground = svc.foreground, v.releaseDue = svc.releaseDue,
         v.releasing = svc.releasing, v.released = svc.released, v.timer = svc.timer,
         v.rtimer = svc.rtimer, v.strayed = svc.strayed,
         \A x \in Plans : v.due[x] >= svc.due[x],
         BucketInv(v, history),
         svc' = Arm(v, {p})
  PROVE  Kept
<1>1. queue # <<>> /\ queue' = Tail(queue)
  BY TurnIs
<1>2. Scheduled(svc, queue)
  BY Facts
<1>3. Scheduled(svc', queue') /\ Alike(v, svc') /\ svc'.due = v.due /\ svc'.rtimer = svc.rtimer
  BY <1>1, <1>2, ArmedScheduled
<1>4. TriedInv(svc', queue', op, reading, history)
  BY <1>3 DEF TriedInv, Alike, Armable
<1>5. BucketInv(svc', history)
  BY <1>3 DEF BucketInv, Alike
<1>6. /\ svc'.enabled = svc.enabled /\ svc'.closed = svc.closed /\ svc'.generation = svc.generation
      /\ svc'.active = svc.active /\ svc'.foreground = svc.foreground
      /\ \A x \in Plans : svc'.due[x] >= svc.due[x]
  BY <1>3 DEF Alike
<1> QED BY <1>3, <1>4, <1>5, <1>6, Reschedules

\* The plan is polled.
LEMMA PollStartKeeps ==
  ASSUME Given, PollInv, Turn, NEW p \in Plans, Head(queue) = Poll(p), Armable(svc, p),
         Unobserved, svc.due[p] = 0, Startable, ~session.offer, Refilled(svc).credit > 0,
         svc' = [Refilled(svc) EXCEPT !.credit = @ - 1, !.active[p] = "running", !.born[p] = svc.generation],
         Spent
  PROVE  Kept
<1> USE DEF Given
<1>0. svc \in Services /\ history \in Histories /\ ReleaseInv(svc, queue) /\ PlansInv(svc, queue) /\ BucketInv(svc, history)
  BY Facts
<1>1. /\ queue' \in Seq(Jobs) /\ queue' = Tail(queue)
      /\ \A j : /\ Count(queue, j) = Count(queue', j) + (IF Poll(p) = j THEN 1 ELSE 0)
                /\ Count(queue, j) \in Nat /\ Count(queue', j) \in Nat
      /\ Concludes(queue') => Concludes(queue)
  BY TurnIs
<1>2. PICK v : v = Refilled(svc)
  OBVIOUS
<1>3. /\ v \in Services
      /\ v.enabled = svc.enabled /\ v.closed = svc.closed /\ v.generation = svc.generation /\ v.due = svc.due
      /\ v.active = svc.active /\ v.born = svc.born /\ v.foreground = svc.foreground
      /\ v.releaseDue = svc.releaseDue /\ v.releasing = svc.releasing /\ v.released = svc.released
      /\ v.timer = svc.timer /\ v.rtimer = svc.rtimer /\ v.strayed = svc.strayed
      /\ v.credit = history.permits /\ v.credit <= Burst
      /\ v.elapsed = history.phase /\ v.elapsed < Refill
  BY <1>0, <1>2, RefilledIs
<1>4. PICK c, f, b : /\ c = v.credit - 1 /\ f = [svc.active EXCEPT ![p] = "running"]
                     /\ b = [svc.born EXCEPT ![p] = svc.generation]
  OBVIOUS
<1>5. /\ c \in Nat /\ c <= Burst /\ f \in [Plans -> Stages] /\ b \in [Plans -> Nat]
      /\ \A x \in Plans : f[x] = IF x = p THEN "running" ELSE svc.active[x]
  <2>1. v.credit \in Nat /\ v.credit > 0 /\ Burst \in Nat
    BY <1>2, <1>3, ServiceIs DEF PollAssumption
  <2>2. svc.active \in [Plans -> Stages] /\ svc.born \in [Plans -> Nat] /\ svc.generation \in Nat
    BY <1>0, ServiceIs
  <2> QED BY <1>3, <1>4, <2>1, <2>2 DEF Stages
<1>6. svc' = [v EXCEPT !.credit = c, !.active = f, !.born = b]
  BY <1>2, <1>3, <1>4
<1>7. /\ svc' \in Services /\ svc'.credit = c /\ svc'.active = f
      /\ svc'.enabled = svc.enabled /\ svc'.closed = svc.closed /\ svc'.generation = svc.generation
      /\ svc'.due = svc.due /\ svc'.foreground = svc.foreground
      /\ svc'.releaseDue = svc.releaseDue /\ svc'.releasing = svc.releasing /\ svc'.released = svc.released
      /\ svc'.timer = svc.timer /\ svc'.rtimer = svc.rtimer /\ svc'.strayed = svc.strayed
      /\ svc'.elapsed = v.elapsed
  BY <1>3, <1>5, <1>6 DEF Services
<1>8. UNCHANGED <<topology, op, reading, session>>
  BY DEF Unobserved
<1>9. Count(queue', Release) = Count(queue, Release)
  BY <1>1, JobsDiffer
<1>10. ASSUME NEW x \in Plans PROVE PlanAt(svc', queue', x)
  <2>1. PlanAt(svc, queue, x)
    BY <1>0 DEF PlansInv
  <2>2. CASE x = p
    <3>1. Count(queue', Poll(p)) = 0 /\ svc.timer[p] = Off
      BY <1>1, <2>1, <2>2 DEF PlanAt, Unscheduled
    <3>2. ~Armable(svc', p)
      BY <1>5, <1>7 DEF Armable
    <3> QED BY <1>7, <2>2, <3>1, <3>2 DEF PlanAt, Unscheduled
  <2>3. CASE x # p
    <3>1. Count(queue', Poll(x)) = Count(queue, Poll(x))
      BY <1>1, <2>3, JobsDiffer
    <3>2. svc'.active[x] = svc.active[x] /\ (Armable(svc', x) <=> Armable(svc, x))
      BY <1>5, <1>7, <2>3 DEF Armable, Foreground
    <3> QED BY <1>7, <2>1, <3>1, <3>2 DEF PlanAt, Unscheduled, Foreground
  <2> QED BY <2>2, <2>3
<1>11. Scheduled(svc', queue')
  <2>1. PlansInv(svc', queue')
    BY <1>0, <1>7, <1>10 DEF PlansInv
  <2>2. ReleaseInv(svc', queue')
    BY <1>0, <1>1, <1>7, <1>9 DEF ReleaseInv, Unreleased, Foreground
  <2> QED BY <1>1, <1>7, <2>1, <2>2 DEF Scheduled
<1>12. TriedInv(svc', queue', op, reading, history')
  BY <1>7 DEF TriedInv, Armable
<1>13. history' \in Histories /\ history'.permits = c /\ history'.phase = history.phase
       /\ history'.owed = history.owed /\ history'.idleFor = history.idleFor
  BY <1>0, <1>3, <1>4 DEF Spent, Histories
<1>14. LinkInv(svc', session) /\ OnInv(svc', session, op)
  BY <1>7, Facts DEF LinkInv, OnInv, Armable
<1>15. RunsInv(svc', session, op)
  <2>1. Runs(svc', op) \subseteq Runs(svc, op) \cup {p}
    BY <1>5, <1>7 DEF Runs
  <2>2. topology = "releasing" => Runs(svc, op) = {}
    BY DEF Startable, Running, Runs
  <2>3. ~session.entering
    BY DEF Startable
  <2> QED BY <2>1, <2>2, <2>3 DEF RunsInv
<1>16. HeldInv(svc', session, op, reading)
  BY <1>7, Facts DEF HeldInv, Foreground
<1>17. DistanceInv(svc', history')
  <2>1. history.owed[p] \in Nat /\ DistanceInv(svc, history)
    BY <1>0, Facts DEF Histories
  <2>2. history.owed[p] = 0
    BY <2>1 DEF DistanceInv
  <2> QED BY <1>5, <1>7, <1>13, <2>1, <2>2 DEF DistanceInv, Foreground
<1>18. BucketInv(svc', history')
  <2>1. v.elapsed \in Nat
    BY <1>3, ServiceIs
  <2>2. PollAssumption
    OBVIOUS
  <2>3. PICK s, h : s = svc' /\ h = history'
    OBVIOUS
  <2>4. /\ s.credit \in Nat /\ s.elapsed \in Nat /\ s.credit <= Burst /\ s.elapsed < Refill
        /\ h.phase = s.elapsed /\ h.permits = s.credit
    BY <1>3, <1>5, <1>7, <1>13, <2>1, <2>3
  <2>5. BucketInv(s, h)
    BY <2>2, <2>4, BucketIs
  <2> QED BY <2>3, <2>5
<1> QED BY <1>8, <1>11, <1>12, <1>13, <1>14, <1>15, <1>16, <1>17, <1>18, Facts DEF Kept, Sound

LEMMA JobPollKeeps == ASSUME Given, PollInv, NEW p \in Plans, Job_Poll(p) PROVE Kept
<1>1. Turn /\ Head(queue).plan = p /\ Head(queue).fresh /\ Armable(svc, p) /\ Unobserved
  BY DEF Job_Poll
<1>2. Head(queue) = Poll(p)
  BY <1>1, TurnIs, JobIs DEF Given
<1>3. svc \in Services /\ history \in Histories /\ BucketInv(svc, history)
  BY Facts
<1>4. Interval \in Nat /\ PollAssumption
  BY DEF Given, PollAssumption
<1>5. \A x \in Plans : svc.due[x] \in Nat
  BY <1>3, ServiceIs
<1>6. CASE /\ topology = "releasing"
           /\ svc' = TryRelease([svc EXCEPT !.releaseDue = TRUE], Quiescent) /\ UNCHANGED history
  <2>1. Foreground(svc) = {}
    BY <1>1, <1>6, TimedIs DEF Armable
  <2> QED BY <1>1, <1>6, <2>1, DueKeeps
<1>7. CASE svc' = Arm(svc, {p}) /\ UNCHANGED history
  <2>1. \A x \in Plans : svc.due[x] >= svc.due[x]
    BY <1>5
  <2> QED BY <1>1, <1>2, <1>3, <1>7, <2>1, RearmKeeps
<1>8. CASE svc.due[p] = 0 /\ svc' = Arm([svc EXCEPT !.due[p] = Interval], {p}) /\ UNCHANGED history
  <2>1. PICK v, f : v = [svc EXCEPT !.due[p] = Interval] /\ f = [svc.due EXCEPT ![p] = Interval]
    OBVIOUS
  <2>2. f \in [Plans -> Nat] /\ \A x \in Plans : f[x] = IF x = p THEN Interval ELSE svc.due[x]
    BY <1>3, <1>4, <2>1, ServiceIs
  <2>3. v = [svc EXCEPT !.due = f]
    BY <2>1
  <2>4. /\ v \in Services /\ v.due = f
        /\ v.enabled = svc.enabled /\ v.closed = svc.closed /\ v.generation = svc.generation
        /\ v.active = svc.active /\ v.foreground = svc.foreground /\ v.releaseDue = svc.releaseDue
        /\ v.releasing = svc.releasing /\ v.released = svc.released /\ v.timer = svc.timer
        /\ v.rtimer = svc.rtimer /\ v.strayed = svc.strayed /\ v.credit = svc.credit /\ v.elapsed = svc.elapsed
    BY <1>3, <2>2, <2>3 DEF Services
  <2>5. \A x \in Plans : v.due[x] >= svc.due[x]
    BY <1>4, <1>5, <1>8, <2>2, <2>4
  <2>6. BucketInv(v, history)
    BY <1>3, <2>4 DEF BucketInv
  <2>7. svc' = Arm(v, {p}) /\ history' = history
    BY <1>8, <2>1
  <2> QED BY <1>1, <1>2, <2>4, <2>5, <2>6, <2>7, RearmKeeps
<1>9. CASE svc.due[p] = 0 /\ svc' = Arm([Refilled(svc) EXCEPT !.due[p] = Interval], {p}) /\ UNCHANGED history
  <2>1. PICK r : r = Refilled(svc)
    OBVIOUS
  <2>2. /\ r \in Services
        /\ r.enabled = svc.enabled /\ r.closed = svc.closed /\ r.generation = svc.generation /\ r.due = svc.due
        /\ r.active = svc.active /\ r.foreground = svc.foreground
        /\ r.releaseDue = svc.releaseDue /\ r.releasing = svc.releasing /\ r.released = svc.released
        /\ r.timer = svc.timer /\ r.rtimer = svc.rtimer /\ r.strayed = svc.strayed
        /\ r.credit = history.permits /\ r.credit <= Burst
        /\ r.elapsed = history.phase /\ r.elapsed < Refill
    BY <1>3, <1>4, <2>1, RefilledIs
  <2>3. PICK v, f : v = [r EXCEPT !.due[p] = Interval] /\ f = [r.due EXCEPT ![p] = Interval]
    OBVIOUS
  <2>4. f \in [Plans -> Nat] /\ \A x \in Plans : f[x] = IF x = p THEN Interval ELSE svc.due[x]
    BY <1>4, <2>2, <2>3, ServiceIs
  <2>5. v = [r EXCEPT !.due = f]
    BY <2>3
  <2>6. /\ v \in Services /\ v.due = f
        /\ v.enabled = svc.enabled /\ v.closed = svc.closed /\ v.generation = svc.generation
        /\ v.active = svc.active /\ v.foreground = svc.foreground /\ v.releaseDue = svc.releaseDue
        /\ v.releasing = svc.releasing /\ v.released = svc.released /\ v.timer = svc.timer
        /\ v.rtimer = svc.rtimer /\ v.strayed = svc.strayed /\ v.credit = r.credit /\ v.elapsed = r.elapsed
    BY <2>2, <2>4, <2>5 DEF Services
  <2>7. \A x \in Plans : v.due[x] >= svc.due[x]
    BY <1>4, <1>5, <1>9, <2>4, <2>6
  <2>8. BucketInv(v, history)
    <3>1. r.credit \in Nat /\ r.elapsed \in Nat
      BY <2>2, ServiceIs
    <3> QED BY <1>4, <2>2, <2>6, <3>1, BucketIs
  <2>9. svc' = Arm(v, {p}) /\ history' = history
    BY <1>9, <2>1, <2>3
  <2> QED BY <1>1, <1>2, <2>6, <2>7, <2>8, <2>9, RearmKeeps
<1>10. CASE /\ svc.due[p] = 0 /\ Startable /\ ~session.offer /\ Refilled(svc).credit > 0
            /\ svc' = [Refilled(svc) EXCEPT !.credit = @ - 1, !.active[p] = "running", !.born[p] = svc.generation]
            /\ Spent
  BY <1>1, <1>2, <1>10, PollStartKeeps
<1> QED BY <1>6, <1>7, <1>8, <1>9, <1>10 DEF Job_Poll

-----------------------------------------------------------------------------
(* Time, and the session.                                                  *)

\* The foreground is held by what an enabled service has in it.
LEMMA FreeIsIdle ==
  ASSUME PollInv, svc.enabled, Foreground(svc) = {}
  PROVE  ~ForegroundBusy
<1>1. session.link /\ HeldInv(svc, session, op, reading)
  BY Facts DEF LinkInv
<1> QED BY <1>1 DEF HeldInv, ForegroundBusy, Busy

LEMMA TickKeeps == ASSUME Given, PollInv, Tick PROVE Kept
<1> USE DEF Given
<1>0. /\ svc \in Services /\ history \in Histories /\ ReleaseInv(svc, queue) /\ PlansInv(svc, queue)
      /\ BucketInv(svc, history) /\ DistanceInv(svc, history)
  BY Facts
<1>1. UNCHANGED <<topology, op, reading, session>> /\ queue' = queue
  BY DEF Tick, Unobserved
<1>2. PICK d, f, r, i, e :
         /\ d = [p \in Plans |-> Less(svc.due[p])] /\ f = [p \in Plans |-> Less(svc.timer[p])]
         /\ r = Less(svc.rtimer) /\ e = Later(svc.elapsed)
         /\ i = IF svc.idle = Off THEN Off ELSE Smaller(svc.idle + 1, ReleaseAfter)
  OBVIOUS
<1>3. PICK m, w, l :
         /\ m = IF history.phase + 1 = Refill THEN Smaller(Burst, history.permits + 1) ELSE history.permits
         /\ w = [p \in Plans |-> Less(history.owed[p])]
         /\ l = IF ForegroundBusy THEN 0 ELSE Smaller(history.idleFor + 1, Interval)
  OBVIOUS
<1>4. /\ svc' = [svc EXCEPT !.due = d, !.timer = f, !.rtimer = r, !.idle = i, !.elapsed = e]
      /\ history' = [history EXCEPT !.permits = m, !.phase = (history.phase + 1) % Refill, !.owed = w, !.idleFor = l]
  BY <1>2, <1>3 DEF Tick
<1>5. /\ d \in [Plans -> Nat] /\ \A p \in Plans : d[p] = Less(svc.due[p])
      /\ f \in [Plans -> Delays] /\ \A p \in Plans : f[p] # Off <=> svc.timer[p] # Off
      /\ r \in Delays /\ (r # Off <=> svc.rtimer # Off) /\ i \in Delays
  <2>1. /\ \A p \in Plans : svc.due[p] \in Nat /\ svc.timer[p] \in Delays
        /\ svc.rtimer \in Delays /\ svc.idle \in Delays /\ ReleaseAfter \in Nat
    BY <1>0, ServiceIs DEF PollAssumption
  <2>2. \A n \in Nat : Less(n) \in Nat
    BY DEF Less
  <2>3. \A n \in Delays : Less(n) \in Delays /\ (Less(n) # Off <=> n # Off)
    BY DEF Less, Delays, Off
  <2>4. i \in Delays
    BY <1>2, <2>1 DEF Delays, Off, Smaller
  <2> QED BY <1>2, <2>1, <2>2, <2>3, <2>4
<1>6. /\ m \in Int /\ w \in [Plans -> Nat] /\ l \in Nat /\ (history.phase + 1) % Refill \in Nat
      /\ \A p \in Plans : w[p] = Less(history.owed[p]) /\ history.owed[p] \in Nat
      /\ history.idleFor \in Nat
  <2>1. /\ \A p \in Plans : history.owed[p] \in Nat
        /\ history.permits \in Int /\ history.phase \in Nat /\ history.idleFor \in Nat
        /\ Burst \in Nat /\ Refill \in Nat \ {0} /\ Interval \in Nat
    BY <1>0 DEF Histories, PollAssumption
  <2>2. \A n \in Nat : Less(n) \in Nat
    BY DEF Less
  <2>3. m \in Int /\ l \in Nat
    BY <1>3, <2>1 DEF Smaller
  <2>4. (history.phase + 1) % Refill \in Nat
    <3>1. PICK n \in Nat : n = history.phase + 1
      BY <2>1
    <3>2. n % Refill \in 0 .. (Refill - 1)
      BY <2>1, <3>1, DivMod
    <3> QED BY <2>1, <3>1, <3>2
  <2> QED BY <1>3, <2>1, <2>2, <2>3, <2>4
<1>7. e \in Nat
  <2>1. svc.elapsed \in Nat /\ Burst \in Nat /\ Refill \in Nat
    BY <1>0, ServiceIs DEF PollAssumption
  <2>2. (Burst + 1) * Refill \in Nat /\ (Burst + 1) * Refill >= Refill
    BY <2>1
  <2> QED BY <1>2, <2>1, <2>2 DEF Later
<1>8. /\ svc' \in Services /\ svc'.due = d /\ svc'.timer = f /\ svc'.rtimer = r /\ svc'.elapsed = e
      /\ svc'.enabled = svc.enabled /\ svc'.closed = svc.closed /\ svc'.generation = svc.generation
      /\ svc'.active = svc.active /\ svc'.foreground = svc.foreground
      /\ svc'.releaseDue = svc.releaseDue /\ svc'.releasing = svc.releasing /\ svc'.released = svc.released
      /\ svc'.strayed = svc.strayed /\ svc'.credit = svc.credit
  BY <1>0, <1>4, <1>5, <1>7 DEF Services
<1>9. /\ history' \in Histories /\ history'.permits = m /\ history'.phase = (history.phase + 1) % Refill
      /\ history'.owed = w /\ history'.idleFor = l /\ history'.latecomer = history.latecomer
  BY <1>0, <1>4, <1>6 DEF Histories
<1>10. Scheduled(svc', queue')
  <2>1. PlansInv(svc', queue')
    BY <1>0, <1>1, <1>5, <1>8 DEF PlansInv, PlanAt, Unscheduled, Armable, Foreground
  <2>2. ReleaseInv(svc', queue')
    BY <1>0, <1>1, <1>5, <1>8 DEF ReleaseInv, Unreleased, Foreground
  <2> QED BY <1>1, <1>8, <2>1, <2>2, Facts DEF Scheduled
<1>11. TriedInv(svc', queue', op, reading, history')
  BY <1>1, <1>5, <1>8, <1>9, Facts DEF TriedInv, Unreleased, Obstructed, Foreground
<1>12. LinkInv(svc', session) /\ OnInv(svc', session, op)
  BY <1>8, Facts DEF LinkInv, OnInv
<1>13. RunsInv(svc', session, op) /\ HeldInv(svc', session, op, reading)
  BY <1>8, Facts DEF RunsInv, Runs, HeldInv, Foreground
<1>14. DistanceInv(svc', history')
  <2>1. \A p \in Plans : svc.due[p] \in Nat
    BY <1>0, ServiceIs
  <2>2. \A x, y \in Nat : x <= y => Less(x) <= Less(y)
    BY DEF Less
  <2>3. Less(0) = 0
    BY DEF Less
  <2>4. ASSUME NEW p \in Plans PROVE w[p] <= d[p] /\ (svc'.active[p] = "running" => w[p] = 0)
    <3>1. history.owed[p] <= svc.due[p] /\ (svc.active[p] = "running" => history.owed[p] = 0)
      BY <1>0 DEF DistanceInv
    <3> QED BY <1>5, <1>6, <1>8, <2>1, <2>2, <2>3, <3>1
  <2>5. ASSUME svc'.enabled, Foreground(svc') = {}, NEW p \in Timed PROVE l + d[p] >= Interval
    <3>1. p \in Plans /\ history.idleFor + svc.due[p] >= Interval
      BY <1>0, <1>8, <2>5, TimedIs DEF DistanceInv, Foreground
    <3>2. ~ForegroundBusy
      BY <1>8, <2>5, FreeIsIdle DEF Foreground
    <3>3. l = Smaller(history.idleFor + 1, Interval) /\ d[p] = Less(svc.due[p]) /\ Interval \in Nat
      BY <1>3, <1>5, <3>1, <3>2 DEF PollAssumption
    <3> QED BY <1>6, <2>1, <3>1, <3>3 DEF Smaller, Less
  <2> QED BY <1>8, <1>9, <2>4, <2>5 DEF DistanceInv
<1>15. BucketInv(svc', history')
  <2>1. PollAssumption
    OBVIOUS
  <2>2. PICK t, k : t = svc' /\ k = history'
    OBVIOUS
  <2>3. /\ t.credit = svc.credit /\ t.elapsed = Later(svc.elapsed)
        /\ k.permits = IF history.phase + 1 = Refill THEN Smaller(Burst, history.permits + 1) ELSE history.permits
        /\ k.phase = (history.phase + 1) % Refill
    BY <1>2, <1>3, <1>8, <1>9, <2>2
  <2>4. BucketInv(t, k)
    <3> HIDE DEF Given
    <3> QED BY <1>0, <2>1, <2>3, BucketTicks
  <2> QED BY <2>2, <2>4
<1> QED BY <1>1, <1>8, <1>9, <1>10, <1>11, <1>12, <1>13, <1>14, <1>15, Facts DEF Kept, Sound

\* A step that leaves the service alone while it is off.
LEMMA ConnectKeeps == ASSUME Given, PollInv, Connect PROVE Kept
<1>1. /\ ~session.link /\ Running = {}
      /\ session' = [session EXCEPT !.link = TRUE, !.generation = @ + 1, !.entering = TRUE]
      /\ history' = [history EXCEPT !.idleFor = 0]
      /\ UNCHANGED <<topology, svc, queue, op, reading>>
  BY DEF Connect
<1>2. /\ session \in Sessions /\ history \in Histories /\ op \in [Ops -> OperationRecords]
      /\ HeldInv(svc, session, op, reading)
  BY Facts
<1>3. /\ session' \in Sessions /\ session'.link = TRUE /\ session'.generation = session.generation + 1
      /\ session'.entering = TRUE /\ session.generation \in Nat
  <2>1. session.generation \in Nat
    BY <1>2 DEF Sessions
  <2>2. PICK g \in Nat : g = session.generation + 1
    BY <2>1
  <2>3. session' = [session EXCEPT !.link = TRUE, !.generation = g, !.entering = TRUE]
    BY <1>1, <2>2
  <2>4. session' \in Sessions /\ session'.link = TRUE /\ session'.generation = g /\ session'.entering = TRUE
    BY <1>2, <2>3 DEF Sessions
  <2> QED BY <2>1, <2>2, <2>4
<1>4. /\ history' \in Histories /\ history'.permits = history.permits /\ history'.phase = history.phase
      /\ history'.owed = history.owed /\ history'.latecomer = history.latecomer
  BY <1>1, <1>2 DEF Histories
<1>5. ~svc.enabled
  BY <1>1, Facts DEF LinkInv
<1>6. Runs(svc, op) = {}
  BY <1>1 DEF Running, Runs
<1>7. LinkInv(svc, session') /\ OnInv(svc, session', op) /\ RunsInv(svc, session', op)
  BY <1>3, <1>5, <1>6 DEF LinkInv, OnInv, RunsInv
<1>8. HeldInv(svc, session', op, reading)
  <2>1. ASSUME NEW o \in Ops
        PROVE  /\ op[o].generation <= session'.generation /\ op[o].generation # session'.generation
               /\ op[o].st # "running" /\ (reading.who = o => op[o].st = "none")
    <3>1. op[o].generation \in Nat /\ op[o].generation <= session.generation /\ (reading.who = o => op[o].st = "none")
      BY <1>2 DEF HeldInv, OperationRecords
    <3>2. op[o].st # "running"
      BY <1>6 DEF Runs
    <3> QED BY <1>3, <3>1, <3>2
  <2> QED BY <2>1 DEF HeldInv
<1>9. DistanceInv(svc, history') /\ BucketInv(svc, history')
  BY <1>4, <1>5, Facts DEF DistanceInv, BucketInv
<1>10. TriedInv(svc, queue, op, reading, history')
  BY <1>4, Facts DEF TriedInv
<1> QED BY <1>1, <1>3, <1>4, <1>7, <1>8, <1>9, <1>10, Facts DEF Kept, Sound

\* resume() of a sound service: it is on, and what it forgets of the foreground is of
\* another generation.
LEMMA ResumeSound ==
  ASSUME Given, NEW s, NEW q, NEW n, NEW a, NEW r, NEW h, Sound(s, q, n, a, r, h), n.link, ~n.entering,
         NEW t, NEW u, t = Resume(s, n.generation), u = AfterResume(s, n.generation, q)
  PROVE  /\ Sound(t, u, n, a, r, h) /\ (TriedInv(s, q, a, r, h) => TriedInv(t, u, a, r, h))
         /\ t.closed = s.closed /\ t.active = s.active /\ (~s.closed => t.enabled)
<1>0. /\ Scheduled(s, q) /\ n \in Sessions /\ a \in [Ops -> OperationRecords] /\ r \in Readings /\ h \in Histories
      /\ LinkInv(s, n) /\ RunsInv(s, n, a) /\ HeldInv(s, n, a, r)
      /\ DistanceInv(s, h) /\ BucketInv(s, h) /\ s \in Services
  BY DEF Sound, Scheduled
<1>1. PICK g : g = n.generation
  OBVIOUS
<1>2. g \in Nat
  BY <1>0, <1>1 DEF Sessions
<1>3. /\ Scheduled(t, u)
      /\ Resumed(s, g) => t = s /\ u = q
      /\ ~Resumed(s, g) => ResumedFrom(s, t, g) /\ \A x, y, z : TriedInv(t, u, x, y, z)
  <2>1. t = Resume(s, g) /\ u = AfterResume(s, g, q)
    BY <1>1
  <2> QED BY <1>0, <1>2, <2>1, ResumeScheduled
<1>4. CASE Resumed(s, g)
  <2>1. ~s.closed => s.enabled
    BY <1>4 DEF Resumed
  <2> QED BY <1>3, <1>4, <2>1
<1>5. CASE ~Resumed(s, g)
  <2>1. ResumedFrom(s, t, g) /\ (\A x, y, z : TriedInv(t, u, x, y, z)) /\ t \in Services
    BY <1>3, <1>5 DEF Scheduled
  <2>2. LinkInv(t, n)
    BY <1>1, <2>1 DEF LinkInv, ResumedFrom
  <2>3. RunsInv(t, n, a)
    BY <1>0, <2>1 DEF RunsInv, Runs, ResumedFrom
  <2>4. HeldInv(t, n, a, r)
    <3>1. ASSUME NEW o \in Ops
          PROVE  /\ a[o].generation <= n.generation
                 /\ r.who = o => a[o].st = "none"
                 /\ a[o].st = "running" => a[o].generation = n.generation /\ o \in Foreground(t)
                 /\ (a[o].st # "none" \/ r.who = o) /\ n.link /\ a[o].generation = n.generation =>
                       o \in Foreground(t) /\ t.foreground[o] = n.generation
      <4>1. /\ a[o].generation <= n.generation
            /\ r.who = o => a[o].st = "none"
            /\ a[o].st = "running" => a[o].generation = n.generation /\ o \in Foreground(s)
            /\ (a[o].st # "none" \/ r.who = o) /\ n.link /\ a[o].generation = n.generation =>
                  o \in Foreground(s) /\ s.foreground[o] = n.generation
        BY <1>0 DEF HeldInv
      <4>2. o \in Foreground(s) /\ s.foreground[o] = n.generation => o \in Foreground(t) /\ t.foreground[o] = n.generation
        <5>1. /\ Foreground(t) = {x \in Foreground(s) : s.foreground[x] = g}
              /\ \A x \in Foreground(t) : t.foreground[x] = s.foreground[x]
          BY <2>1 DEF ResumedFrom
        <5> QED BY <1>1, <5>1
      <4> QED BY <4>1, <4>2
    <3> QED BY <3>1 DEF HeldInv
  <2>5. DistanceInv(t, h)
    <3>1. \A p \in Plans : t.due[p] = Larger(s.due[p], Interval) /\ t.active[p] = s.active[p]
      BY <2>1 DEF ResumedFrom
    <3>2. /\ \A p \in Plans : s.due[p] \in Nat /\ h.owed[p] \in Nat
          /\ Interval \in Nat /\ h.idleFor \in Nat
      BY <1>0, ServiceIs DEF Given, PollAssumption, Histories
    <3>3. \A p \in Plans : t.due[p] >= s.due[p] /\ t.due[p] >= Interval /\ t.due[p] \in Nat
      BY <3>1, <3>2 DEF Larger
    <3>4. ASSUME NEW p \in Plans PROVE h.owed[p] <= t.due[p] /\ (t.active[p] = "running" => h.owed[p] = 0)
      <4>1. h.owed[p] <= s.due[p] /\ (s.active[p] = "running" => h.owed[p] = 0)
        BY <1>0 DEF DistanceInv
      <4> QED BY <3>1, <3>2, <3>3, <4>1
    <3>5. ASSUME NEW p \in Timed PROVE h.idleFor + t.due[p] >= Interval
      <4>1. p \in Plans
        BY TimedIs
      <4> QED BY <3>2, <3>3, <4>1
    <3> QED BY <3>4, <3>5 DEF DistanceInv
  <2>6. BucketInv(t, h)
    BY <1>0, <2>1 DEF BucketInv, ResumedFrom
  <2>7. t.closed = s.closed /\ t.active = s.active /\ t.enabled
    BY <2>1 DEF ResumedFrom
  <2> QED BY <1>0, <1>3, <2>1, <2>2, <2>3, <2>4, <2>5, <2>6, <2>7 DEF Sound
<1> QED BY <1>4, <1>5

\* It touches no plan that is polled.
LEMMA AtEndLeaves ==
  ASSUME Given, NEW s \in Services, NEW q, session \in Sessions, AtEnd(s, q)
  PROVE  svc'.active = s.active
<1>1. CASE Resumes
  <2>1. svc' = Resume(s, session.generation) /\ session.generation \in Nat
    BY <1>1 DEF AtEnd, Sessions
  <2>2. CASE Resumed(s, session.generation)
    BY <2>1, <2>2 DEF Resume
  <2>3. CASE ~Resumed(s, session.generation)
    BY <2>1, <2>3, ResumeIs DEF ResumedFrom, Given
  <2> QED BY <2>2, <2>3
<1>2. CASE ~Resumes
  BY <1>2 DEF AtEnd
<1> QED BY <1>1, <1>2

\* The end of #run.
LEMMA AtEndIs ==
  ASSUME Given, NEW s, NEW q, NEW a, NEW r, NEW h, Sound(s, q, session, a, r, h), TriedInv(s, q, a, r, h),
         s.closed = svc.closed, AtEnd(s, q)
  PROVE  /\ Sound(svc', queue', session, a, r, h) /\ TriedInv(svc', queue', a, r, h)
         /\ OnInv(svc', session, a)
<1>1. CASE Resumes
  <2>1. /\ svc' = Resume(s, session.generation) /\ queue' = AfterResume(s, session.generation, q)
        /\ session.link /\ ~session.entering /\ ~svc.closed
    BY <1>1 DEF AtEnd, Resumes
  <2>2. PICK n : n = session
    OBVIOUS
  <2>3. PICK t, u : t = svc' /\ u = queue'
    OBVIOUS
  <2>4. t = Resume(s, n.generation) /\ u = AfterResume(s, n.generation, q) /\ n.link /\ ~n.entering /\ Sound(s, q, n, a, r, h)
    BY <2>1, <2>2, <2>3
  <2>5. Sound(t, u, n, a, r, h) /\ (TriedInv(s, q, a, r, h) => TriedInv(t, u, a, r, h))
        /\ (~s.closed => t.enabled)
    BY <2>4, ResumeSound
  <2>6. t.enabled
    BY <2>1, <2>5
  <2> QED BY <2>2, <2>3, <2>5, <2>6 DEF OnInv
<1>2. CASE ~Resumes
  <2>1. svc' = s /\ queue' = q
    BY <1>2 DEF AtEnd
  <2>2. OnInv(s, session, a)
    BY <1>2 DEF OnInv, Resumes
  <2> QED BY <2>1, <2>2
<1> QED BY <1>1, <1>2

LEMMA EnteredKeeps == ASSUME Given, PollInv, Entered PROVE Kept
<1>1. /\ session.entering /\ ~svc.closed
      /\ session' = [session EXCEPT !.entering = FALSE]
      /\ svc' = Resume(svc, session.generation)
      /\ queue' = AfterResume(svc, session.generation, queue)
      /\ UNCHANGED <<topology, op, reading, history>>
  BY DEF Entered
<1>2. PICK n : n = session'
  OBVIOUS
<1>3. n \in Sessions /\ n.link = session.link /\ n.generation = session.generation /\ n.entering = FALSE
  BY <1>1, <1>2, Facts DEF Sessions
<1>4. session.link /\ Runs(svc, op) = {} /\ ~svc.enabled
  BY <1>1, Facts DEF RunsInv, LinkInv
<1>5. LinkInv(svc, n) /\ RunsInv(svc, n, op)
  BY <1>3, <1>4 DEF LinkInv, RunsInv
<1>6. HeldInv(svc, n, op, reading)
  BY <1>3, Facts DEF HeldInv
<1>7. Sound(svc, queue, n, op, reading, history)
  BY <1>3, <1>5, <1>6, Facts DEF Sound
<1>8. PICK t, u : t = svc' /\ u = queue'
  OBVIOUS
<1>9. t = Resume(svc, n.generation) /\ u = AfterResume(svc, n.generation, queue) /\ n.link /\ ~n.entering
  BY <1>1, <1>3, <1>4, <1>8
<1>10. /\ Sound(t, u, n, op, reading, history)
       /\ TriedInv(svc, queue, op, reading, history) => TriedInv(t, u, op, reading, history)
       /\ ~svc.closed => t.enabled
  BY <1>7, <1>9, ResumeSound
<1>11. OnInv(t, n, op) /\ TriedInv(t, u, op, reading, history)
  BY <1>1, <1>10, Facts DEF OnInv
<1> QED BY <1>1, <1>2, <1>8, <1>10, <1>11 DEF Kept

-----------------------------------------------------------------------------
(* OperationRecords and polls.                                                   *)

LEMMA OperationStartsKeeps == ASSUME Given, PollInv, NEW o \in Ops, Operation_Starts(o) PROVE Kept
<1>1. /\ Startable /\ op[o].st = "none" /\ reading.who # o
      /\ op' = [op EXCEPT ![o] = [st |-> "running", generation |-> session.generation,
                                reentry |-> svc.released, done |-> FALSE]]
      /\ session' = [session EXCEPT !.offer = FALSE]
      /\ svc' = ForegroundStarted(svc, o, session.generation)
      /\ queue' = Busier(queue)
      /\ history' = [history EXCEPT !.idleFor = 0, !.latecomer = FALSE]
      /\ UNCHANGED <<topology, reading>>
  BY DEF Operation_Starts, Busy
<1>2. /\ session \in Sessions /\ history \in Histories /\ op \in [Ops -> OperationRecords] /\ svc \in Services
      /\ HeldInv(svc, session, op, reading) /\ Scheduled(svc, queue)
  BY Facts
<1>3. PICK g : g = session.generation
  OBVIOUS
<1>4. g \in Nat
  BY <1>2, <1>3 DEF Sessions
<1>5. /\ session' \in Sessions /\ session'.link = session.link /\ session'.generation = g
      /\ session'.entering = session.entering /\ session'.lost = session.lost
  BY <1>1, <1>2, <1>3 DEF Sessions
<1>6. PICK t, u : t = svc' /\ u = queue'
  OBVIOUS
<1>7. t = ForegroundStarted(svc, o, g) /\ u = Busier(queue)
  BY <1>1, <1>3, <1>6
<1>8. Scheduled(t, u) /\ \A x, y, z : TriedInv(t, u, x, y, z)
  BY <1>2, <1>4, <1>7, StartedScheduled
<1>9. t \in Services /\ StartedFrom(svc, t, o, g)
  BY <1>2, <1>4, <1>7, ForegroundStartedIs
<1>10. PICK m : m = [st |-> "running", generation |-> g, reentry |-> svc.released, done |-> FALSE]
  OBVIOUS
<1>11. m \in OperationRecords /\ m.st = "running" /\ m.generation = g
  BY <1>2, <1>4, <1>10, ServiceIs DEF OperationRecords, Stages
<1>12. /\ op' \in [Ops -> OperationRecords] /\ op'[o] = m
       /\ \A x \in Ops : x # o => op'[x] = op[x]
  BY <1>1, <1>2, <1>3, <1>10, <1>11
<1>13. /\ history' \in Histories /\ history'.permits = history.permits /\ history'.phase = history.phase
       /\ history'.owed = history.owed
  BY <1>1, <1>2 DEF Histories
<1>14. LinkInv(t, session')
  BY <1>5, <1>3, <1>9, Facts DEF LinkInv, StartedFrom
<1>15. OnInv(t, session', op')
  BY <1>11, <1>12 DEF OnInv
<1>16. RunsInv(t, session', op')
  <2>1. ~session'.entering
    BY <1>1, <1>5 DEF Startable
  <2>2. topology = "releasing" => Runs(svc, op) = {}
    BY <1>1 DEF Startable, Running, Runs
  <2>3. t.active = svc.active
    BY <1>9 DEF StartedFrom
  <2>4. Runs(t, op') \subseteq Runs(svc, op) \cup {o}
    BY <1>12, <2>3 DEF Runs
  <2> QED BY <2>1, <2>2, <2>4 DEF RunsInv
<1>17. HeldInv(t, session', op', reading)
  <2>0. /\ Foreground(t) = Foreground(svc) \cup {o} /\ t.foreground[o] = g
        /\ \A x \in Foreground(svc) \ {o} : t.foreground[x] = svc.foreground[x]
    BY <1>9 DEF StartedFrom
  <2>1. ASSUME NEW x \in Ops
        PROVE  /\ op'[x].generation <= session'.generation
               /\ reading.who = x => op'[x].st = "none"
               /\ op'[x].st = "running" => op'[x].generation = session'.generation /\ x \in Foreground(t)
               /\ (op'[x].st # "none" \/ reading.who = x) /\ session'.link /\ op'[x].generation = session'.generation =>
                     x \in Foreground(t) /\ t.foreground[x] = session'.generation
    <3>1. CASE x = o
      BY <1>1, <1>4, <1>5, <1>11, <1>12, <2>0, <3>1
    <3>2. CASE x # o
      <4>1. /\ op[x].generation <= session.generation
            /\ reading.who = x => op[x].st = "none"
            /\ op[x].st = "running" => op[x].generation = session.generation /\ x \in Foreground(svc)
            /\ (op[x].st # "none" \/ reading.who = x) /\ session.link /\ op[x].generation = session.generation =>
                  x \in Foreground(svc) /\ svc.foreground[x] = session.generation
        BY <1>2 DEF HeldInv
      <4>2. op'[x] = op[x]
        BY <1>12, <3>2
      <4>3. x \in Foreground(svc) => x \in Foreground(t) /\ t.foreground[x] = svc.foreground[x]
        BY <2>0, <3>2
      <4> QED BY <1>3, <1>5, <4>1, <4>2, <4>3
    <3> QED BY <3>1, <3>2
  <2> QED BY <2>1 DEF HeldInv
<1>18. DistanceInv(t, history') /\ BucketInv(t, history')
  <2>1. t.due = svc.due /\ t.active = svc.active /\ t.credit = svc.credit /\ t.elapsed = svc.elapsed
        /\ Foreground(t) # {}
    BY <1>9 DEF StartedFrom
  <2> QED BY <1>13, <2>1, Facts DEF DistanceInv, BucketInv
<1> QED BY <1>1, <1>5, <1>6, <1>8, <1>12, <1>13, <1>14, <1>15, <1>16, <1>17, <1>18, Facts DEF Kept, Sound

LEMMA OperationEndsKeeps == ASSUME Given, PollInv, NEW o \in Ops, Operation_Ends(o) PROVE Kept
<1>1. /\ op[o].st = "running" /\ UNCHANGED <<topology, svc, queue, session, reading, history>>
      /\ op \in [Ops -> OperationRecords]
  BY Facts DEF Operation_Ends
<1>2. PICK completed \in BOOLEAN : op' = [op EXCEPT ![o].st = "ended", ![o].done = completed]
  BY DEF Operation_Ends
<1>3. PICK m : m = [op[o] EXCEPT !.st = "ended", !.done = completed]
  OBVIOUS
<1>4. m \in OperationRecords /\ m.st = "ended" /\ m.generation = op[o].generation
  BY <1>1, <1>3 DEF OperationRecords, Stages
<1>5. op' = [op EXCEPT ![o] = m]
  BY <1>1, <1>2, <1>3
<1>6. op' \in [Ops -> OperationRecords] /\ op'[o] = m /\ \A x \in Ops : x # o => op'[x] = op[x]
  BY <1>1, <1>4, <1>5
<1>7. OnInv(svc, session, op')
  BY <1>4, <1>6 DEF OnInv
<1>8. RunsInv(svc, session, op')
  <2>1. Runs(svc, op') \subseteq Runs(svc, op)
    BY <1>4, <1>6 DEF Runs
  <2> QED BY <2>1, Facts DEF RunsInv
<1>9. HeldInv(svc, session, op', reading)
  <2>1. HeldInv(svc, session, op, reading)
    BY Facts
  <2>2. \A x \in Ops : /\ op'[x].generation = op[x].generation /\ (op'[x].st # "none" <=> op[x].st # "none")
                       /\ op'[x].st = "running" => op[x].st = "running"
    BY <1>1, <1>4, <1>6
  <2> QED BY <2>1, <2>2 DEF HeldInv
<1>10. TriedInv(svc, queue, op', reading, history)
  <2>1. Obstructed(svc, op', reading)
    BY <1>4, <1>6 DEF Obstructed
  <2> QED BY <2>1 DEF TriedInv
<1> QED BY <1>1, <1>6, <1>7, <1>8, <1>9, <1>10, Facts DEF Kept, Sound

\* An operation's run, or its read, ends: the foreground is retired.
LEMMA RetiredSound ==
  ASSUME Given, PollInv, NEW o \in Ops, NEW b \in BOOLEAN, NEW a \in [Ops -> OperationRecords], NEW r \in Readings,
         NEW h \in Histories, h.permits = history.permits, h.phase = history.phase, h.owed = history.owed,
         h.idleFor = history.idleFor, a[o].st = "none", r.who # o, op[o].st # "running",
         \A x \in Ops : x # o => a[x] = op[x] /\ (r.who = x => reading.who = x),
         a[o].generation = op[o].generation,
         NEW t, NEW u, t = ForegroundRetired(svc, o, b), u = AfterForeground(svc, o, queue)
  PROVE  /\ Sound(t, u, session, a, r, h) /\ t.closed = svc.closed /\ t.enabled = svc.enabled
         /\ t.active = svc.active /\ t.releaseDue = svc.releaseDue
         /\ \A x, y, z : TriedInv(svc, queue, x, y, z) => TriedInv(t, u, x, y, z)
         /\ o \in Foreground(svc) => \A x, y, z : TriedInv(t, u, x, y, z)
<1>1. svc \in Services /\ Scheduled(svc, queue) /\ HeldInv(svc, session, op, reading) /\ RunsInv(svc, session, op)
      /\ DistanceInv(svc, history) /\ ReleaseInv(svc, queue) /\ history \in Histories
  BY Facts
<1>2. /\ Scheduled(t, u) /\ \A x, y, z : TriedInv(svc, queue, x, y, z) => TriedInv(t, u, x, y, z)
  BY <1>1, RetiredScheduled
<1>3. /\ t \in Services
      /\ t.enabled = svc.enabled /\ t.closed = svc.closed /\ t.generation = svc.generation
      /\ t.active = svc.active /\ t.credit = svc.credit /\ t.elapsed = svc.elapsed
      /\ t.releaseDue = svc.releaseDue
      /\ Foreground(t) = Foreground(svc) \ {o} /\ \A x \in Foreground(t) : t.foreground[x] = svc.foreground[x]
      /\ Foreground(svc) # {o} => t.due = svc.due
      /\ Foreground(svc) = {o} =>
            \A p \in Plans : t.due[p] = IF p \in Timed THEN Larger(svc.due[p], Interval) ELSE svc.due[p]
  BY <1>1, ForegroundRetiredIs
<1>4. LinkInv(t, session)
  BY <1>3, Facts DEF LinkInv
<1>5. RunsInv(t, session, a)
  <2>1. Runs(t, a) = Runs(svc, op)
    BY <1>3 DEF Runs
  <2> QED BY <1>1, <2>1 DEF RunsInv
<1>6. HeldInv(t, session, a, r)
  <2>1. ASSUME NEW x \in Ops
        PROVE  /\ a[x].generation <= session.generation
               /\ r.who = x => a[x].st = "none"
               /\ a[x].st = "running" => a[x].generation = session.generation /\ x \in Foreground(t)
               /\ (a[x].st # "none" \/ r.who = x) /\ session.link /\ a[x].generation = session.generation =>
                     x \in Foreground(t) /\ t.foreground[x] = session.generation
    <3>0. /\ op[x].generation <= session.generation
          /\ reading.who = x => op[x].st = "none"
          /\ op[x].st = "running" => op[x].generation = session.generation /\ x \in Foreground(svc)
          /\ (op[x].st # "none" \/ reading.who = x) /\ session.link /\ op[x].generation = session.generation =>
                x \in Foreground(svc) /\ svc.foreground[x] = session.generation
      BY <1>1 DEF HeldInv
    <3>1. CASE x = o
      BY <3>0, <3>1
    <3>2. CASE x # o
      <4>1. a[x] = op[x] /\ (r.who = x => reading.who = x)
        BY <3>2
      <4>2. x \in Foreground(svc) => x \in Foreground(t) /\ t.foreground[x] = svc.foreground[x]
        BY <1>3, <3>2
      <4> QED BY <3>0, <4>1, <4>2
    <3> QED BY <3>1, <3>2
  <2> QED BY <2>1 DEF HeldInv
<1>7. DistanceInv(t, h)
  <2>1. /\ \A p \in Plans : svc.due[p] \in Nat /\ history.owed[p] \in Nat
        /\ Interval \in Nat /\ history.idleFor \in Nat
    BY <1>1, ServiceIs DEF Given, PollAssumption, Histories
  <2>2. \A p \in Plans : t.due[p] >= svc.due[p] /\ t.due[p] \in Nat
    BY <1>3, <2>1 DEF Larger
  <2>3. ASSUME NEW p \in Plans PROVE h.owed[p] <= t.due[p] /\ (t.active[p] = "running" => h.owed[p] = 0)
    <3>1. history.owed[p] <= svc.due[p] /\ (svc.active[p] = "running" => history.owed[p] = 0)
      BY <1>1 DEF DistanceInv
    <3> QED BY <1>3, <2>1, <2>2, <3>1
  <2>4. ASSUME t.enabled, Foreground(t) = {}, NEW p \in Timed PROVE h.idleFor + t.due[p] >= Interval
    <3>0. p \in Plans
      BY TimedIs
    <3>1. CASE Foreground(svc) = {o}
      <4>1. t.due[p] >= Interval
        BY <1>3, <2>1, <3>0, <3>1 DEF Larger
      <4> QED BY <2>1, <2>2, <3>0, <4>1
    <3>2. CASE Foreground(svc) # {o}
      <4>1. Foreground(svc) = {}
        BY <1>3, <2>4, <3>2
      <4>2. history.idleFor + svc.due[p] >= Interval
        BY <1>1, <1>3, <2>4, <4>1 DEF DistanceInv
      <4> QED BY <1>3, <3>2, <4>2
    <3> QED BY <3>1, <3>2
  <2> QED BY <2>3, <2>4 DEF DistanceInv
<1>8. BucketInv(t, h)
  BY <1>3, Facts DEF BucketInv
<1>9. o \in Foreground(svc) => \A x, y, z : TriedInv(t, u, x, y, z)
  BY <1>1, <1>3 DEF ReleaseInv, TriedInv
<1> QED BY <1>2, <1>3, <1>4, <1>5, <1>6, <1>7, <1>8, <1>9, Facts DEF Sound

LEMMA OperationRetiresKeeps == ASSUME Given, PollInv, NEW o \in Ops, Operation_Retires(o) PROVE Kept
<1>1. /\ op[o].st = "ended" /\ op' = [op EXCEPT ![o].st = "none"]
      /\ history' = [history EXCEPT !.latecomer = @ \/ Forsakes(o)]
      /\ UNCHANGED <<topology, session>>
  BY DEF Operation_Retires
<1>2. /\ history \in Histories /\ op \in [Ops -> OperationRecords] /\ svc \in Services /\ reading \in Readings
      /\ HeldInv(svc, session, op, reading)
  BY Facts
<1>3. PICK m : m = [op[o] EXCEPT !.st = "none"]
  OBVIOUS
<1>4. m \in OperationRecords /\ m.st = "none" /\ m.generation = op[o].generation
  BY <1>2, <1>3 DEF OperationRecords, Stages
<1>5. op' = [op EXCEPT ![o] = m]
  BY <1>1, <1>2, <1>3
<1>6. op' \in [Ops -> OperationRecords] /\ op'[o] = m /\ \A x \in Ops : x # o => op'[x] = op[x]
  BY <1>2, <1>4, <1>5
<1>7. PICK c \in BOOLEAN : c <=> (history.latecomer \/ Forsakes(o))
  OBVIOUS
<1>8. history' = [history EXCEPT !.latecomer = c]
  <2>1. history.latecomer \in BOOLEAN
    BY <1>2 DEF Histories
  <2>2. c = (history.latecomer \/ Forsakes(o))
    BY <1>7
  <2> QED BY <1>1, <2>2
<1>9. /\ history' \in Histories /\ history'.permits = history.permits /\ history'.phase = history.phase
      /\ history'.owed = history.owed /\ history'.idleFor = history.idleFor /\ (history'.latecomer <=> c)
  BY <1>2, <1>8 DEF Histories
<1>10. reading.who # o
  BY <1>1, <1>2 DEF HeldInv
<1>11. PICK a, h : a = op' /\ h = history'
  OBVIOUS
<1>12. /\ a \in [Ops -> OperationRecords] /\ a[o].st = "none" /\ a[o].generation = op[o].generation
       /\ \A x \in Ops : x # o => a[x] = op[x]
       /\ h \in Histories /\ h.permits = history.permits /\ h.phase = history.phase
       /\ h.owed = history.owed /\ h.idleFor = history.idleFor /\ (h.latecomer <=> c)
  BY <1>4, <1>6, <1>9, <1>11
<1>13. CASE Leaves(o) /\ AtEnd(svc, queue)
  <2>1. PICK r : r = reading'
    OBVIOUS
  <2>2. r \in Readings /\ r.who = o /\ r.present = TRUE /\ reading.who = NoOne
    BY <1>13, <2>1 DEF Leaves, Readings
  <2>3. RunsInv(svc, session, a)
    <3>1. Runs(svc, a) = Runs(svc, op)
      BY <1>1, <1>12 DEF Runs
    <3> QED BY <3>1, Facts DEF RunsInv
  <2>4. HeldInv(svc, session, a, r)
    <3>1. ASSUME NEW x \in Ops
          PROVE  /\ a[x].generation <= session.generation
                 /\ r.who = x => a[x].st = "none"
                 /\ a[x].st = "running" => a[x].generation = session.generation /\ x \in Foreground(svc)
                 /\ (a[x].st # "none" \/ r.who = x) /\ session.link /\ a[x].generation = session.generation =>
                       x \in Foreground(svc) /\ svc.foreground[x] = session.generation
      <4>0. /\ op[x].generation <= session.generation
            /\ op[x].st = "running" => op[x].generation = session.generation /\ x \in Foreground(svc)
            /\ (op[x].st # "none") /\ session.link /\ op[x].generation = session.generation =>
                  x \in Foreground(svc) /\ svc.foreground[x] = session.generation
        BY <1>2 DEF HeldInv
      <4>1. CASE x = o
        BY <1>1, <1>12, <4>0, <4>1
      <4>2. CASE x # o
        BY <1>12, <2>2, <4>0, <4>2
      <4> QED BY <4>1, <4>2
    <3> QED BY <3>1 DEF HeldInv
  <2>5. DistanceInv(svc, h) /\ BucketInv(svc, h)
    BY <1>12, Facts DEF DistanceInv, BucketInv
  <2>6. Sound(svc, queue, session, a, r, h)
    BY <1>12, <2>2, <2>3, <2>4, <2>5, Facts DEF Sound
  <2>7. TriedInv(svc, queue, a, r, h)
    BY <2>2 DEF TriedInv, Obstructed
  <2>8. Sound(svc', queue', session, a, r, h) /\ TriedInv(svc', queue', a, r, h) /\ OnInv(svc', session, a)
    BY <1>13, <2>6, <2>7, AtEndIs
  <2> QED BY <1>1, <1>11, <2>1, <2>8 DEF Kept
<1>14. ASSUME NEW b \in BOOLEAN, reading' = reading, AtEnd(ForegroundRetired(svc, o, b), AfterForeground(svc, o, queue))
       PROVE  Kept
  <2>1. PICK t, u : t = ForegroundRetired(svc, o, b) /\ u = AfterForeground(svc, o, queue)
    OBVIOUS
  <2>2. op[o].st # "running"
    BY <1>1
  <2>3. /\ Sound(t, u, session, a, reading, h) /\ t.closed = svc.closed /\ t.releaseDue = svc.releaseDue
        /\ t.enabled = svc.enabled
        /\ o \in Foreground(svc) => \A x, y, z : TriedInv(t, u, x, y, z)
    BY <1>2, <1>10, <1>12, <2>1, <2>2, RetiredSound
  <2>5. AtEnd(t, u)
    BY <1>14, <2>1
  <2>4. TriedInv(t, u, a, reading, h)
    <3>1. CASE o \in Foreground(svc)
      BY <2>3, <3>1
    <3>2. CASE o \notin Foreground(svc)
      <4>1. svc'.active = t.active
        BY <2>3, <2>5, AtEndLeaves, Facts DEF Sound, Scheduled
      <4>2. ~Quiescent' => Obstructed(t, a, reading)
        BY <1>11, <1>14, <4>1 DEF Quiescent, NoTask, Busy, Obstructed
      <4>3. t.enabled /\ t.releaseDue /\ Quiescent' => h.latecomer
        BY <1>7, <1>12, <2>3, <3>2 DEF Forsakes
      <4> QED BY <4>2, <4>3 DEF TriedInv, Unreleased
    <3> QED BY <3>1, <3>2
  <2>6. Sound(svc', queue', session, a, reading, h) /\ TriedInv(svc', queue', a, reading, h) /\ OnInv(svc', session, a)
    BY <2>3, <2>4, <2>5, AtEndIs
  <2> QED BY <1>1, <1>11, <1>14, <2>6 DEF Kept
<1>15. PICK b : b = (op[o].reentry /\ op[o].done /\ ~svc.closed)
  OBVIOUS
<1>16. b \in BOOLEAN
  BY <1>15
<1>17. \/ Leaves(o) /\ AtEnd(svc, queue)
       \/ reading' = reading /\ AtEnd(ForegroundRetired(svc, o, b), AfterForeground(svc, o, queue))
  BY <1>15 DEF Operation_Retires
<1> QED BY <1>13, <1>14, <1>16, <1>17

LEMMA ReadSettlesKeeps == ASSUME Given, PollInv, Read_Settles PROVE Kept
<1>1. /\ reading.who # NoOne /\ reading' = [who |-> NoOne, present |-> FALSE]
      /\ UNCHANGED <<topology, session, op, history>>
  BY DEF Read_Settles
<1>2. PICK o, r : o = reading.who /\ r = reading'
  OBVIOUS
<1>3. r \in Readings /\ r.who = NoOne /\ r.present = FALSE
  BY <1>1, <1>2 DEF Readings
<1>4. NoOne \notin Ops
  BY DEF Given, NamesAssumption
<1>5. PICK t, u : /\ t = IF o \in Ops THEN ForegroundRetired(svc, o, FALSE) ELSE svc
                  /\ u = IF o \in Ops THEN AfterForeground(svc, o, queue) ELSE queue
  OBVIOUS
<1>6. svc' = t /\ queue' = TryAgain(t, u)
  BY <1>2, <1>5 DEF Read_Settles
<1>7. /\ Sound(t, u, session, op, r, history) /\ t.closed = svc.closed /\ t.enabled = svc.enabled
      /\ t.active = svc.active
  <2>1. CASE o \in Ops
    <3>0. PICK b \in BOOLEAN : b <=> FALSE
      OBVIOUS
    <3>1. t = ForegroundRetired(svc, o, b) /\ u = AfterForeground(svc, o, queue)
      <4>1. t = ForegroundRetired(svc, o, FALSE) /\ u = AfterForeground(svc, o, queue)
        BY <1>5, <2>1
      <4>2. b = FALSE
        BY <3>0
      <4> QED BY <4>1, <4>2
    <3>2. op[o].st = "none" /\ op[o].st # "running"
      BY <1>2, <2>1, Facts DEF HeldInv
    <3>3. r.who # o /\ \A x \in Ops : r.who # x
      BY <1>3, <1>4, <2>1
    <3>4. op \in [Ops -> OperationRecords] /\ history \in Histories
      BY Facts
    <3> QED BY <1>3, <2>1, <3>1, <3>2, <3>3, <3>4, RetiredSound
  <2>2. CASE o \notin Ops
    <3>1. t = svc /\ u = queue
      BY <1>5, <2>2
    <3>2. HeldInv(svc, session, op, r)
      <4>1. \A x \in Ops : r.who # x
        BY <1>3, <1>4
      <4> QED BY <4>1, Facts DEF HeldInv
    <3> QED BY <1>3, <3>1, <3>2, Facts DEF Sound
  <2> QED BY <2>1, <2>2
<1>8. Scheduled(t, u)
  BY <1>7 DEF Sound
<1>9. PICK v : v = TryAgain(t, u)
  OBVIOUS
<1>10. Scheduled(t, v) /\ \A x, y, z : TriedInv(t, v, x, y, z)
  BY <1>8, <1>9, AgainScheduled
<1>11. Sound(t, v, session, op, r, history)
  BY <1>7, <1>10 DEF Sound
<1>12. OnInv(t, session, op)
  BY <1>7, Facts DEF OnInv
<1> QED BY <1>1, <1>2, <1>6, <1>9, <1>10, <1>11, <1>12 DEF Kept

\* terminal() of a poll.
LEMMA TerminalIs ==
  ASSUME Given, NEW s \in Services, NEW p \in Plans, NEW b \in BOOLEAN, NEW t, t = Terminal(s, p, b)
  PROVE  /\ t \in Services
         /\ t.enabled = s.enabled /\ t.closed = s.closed /\ t.generation = s.generation
         /\ t.timer = s.timer /\ t.rtimer = s.rtimer /\ t.strayed = s.strayed
         /\ t.born = s.born /\ t.credit = s.credit /\ t.elapsed = s.elapsed /\ t.foreground = s.foreground
         /\ t.releasing = s.releasing /\ t.released = s.released /\ t.releaseDue = s.releaseDue
         /\ \A x \in Plans : t.active[x] = IF x = p THEN "ended" ELSE s.active[x]
         /\ \A x \in Plans : x # p => t.due[x] = s.due[x]
         /\ p \in Timed => t.due[p] >= s.due[p]
         /\ (p \notin Timed \/ s.born[p] = s.generation) => t.due[p] >= IF b THEN Interval ELSE Backoff
<1>1. PICK d, n : /\ d = IF b THEN Interval ELSE Backoff
                  /\ n = IF p \notin Timed THEN d ELSE IF s.born[p] = s.generation THEN Larger(s.due[p], d) ELSE s.due[p]
  OBVIOUS
<1>2. /\ s.due \in [Plans -> Nat] /\ s.active \in [Plans -> Stages] /\ s.due[p] \in Nat /\ d \in Nat
  BY <1>1, ServiceIs DEF Given, PollAssumption
<1>3. n \in Nat /\ (p \in Timed => n >= s.due[p]) /\ ((p \notin Timed \/ s.born[p] = s.generation) => n >= d)
  BY <1>1, <1>2 DEF Larger
<1>4. PICK f, g : f = [s.active EXCEPT ![p] = "ended"] /\ g = [s.due EXCEPT ![p] = n]
  OBVIOUS
<1>5. /\ f \in [Plans -> Stages] /\ g \in [Plans -> Nat] /\ g[p] = n
      /\ \A x \in Plans : f[x] = IF x = p THEN "ended" ELSE s.active[x]
      /\ \A x \in Plans : x # p => g[x] = s.due[x]
  BY <1>2, <1>3, <1>4 DEF Stages
<1>6. t = [s EXCEPT !.active = f, !.due = g]
  <2>1. t = [s EXCEPT !.active[p] = "ended", !.due[p] = n]
    BY <1>1 DEF Terminal
  <2> QED BY <1>4, <2>1
<1>7. /\ t \in Services /\ t.active = f /\ t.due = g
      /\ t.enabled = s.enabled /\ t.closed = s.closed /\ t.generation = s.generation
      /\ t.timer = s.timer /\ t.rtimer = s.rtimer /\ t.strayed = s.strayed
      /\ t.born = s.born /\ t.credit = s.credit /\ t.elapsed = s.elapsed /\ t.foreground = s.foreground
      /\ t.releasing = s.releasing /\ t.released = s.released /\ t.releaseDue = s.releaseDue
  BY <1>5, <1>6 DEF Services
<1> QED BY <1>1, <1>3, <1>5, <1>7

LEMMA PollEndsKeeps == ASSUME Given, PollInv, NEW p \in Plans, NEW b \in BOOLEAN, Poll_Ends(p, b) PROVE Kept
<1>0. /\ svc \in Services /\ history \in Histories /\ ReleaseInv(svc, queue) /\ PlansInv(svc, queue)
      /\ DistanceInv(svc, history) /\ queue \in Seq(Jobs)
  BY Facts
<1>1. /\ svc.active[p] = "running" /\ svc' = Terminal(svc, p, b) /\ queue' = queue
      /\ UNCHANGED <<topology, op, reading, session>>
  BY DEF Poll_Ends, Unobserved
<1>2. PICK t : t = svc'
  OBVIOUS
<1>3. /\ t \in Services
      /\ t.enabled = svc.enabled /\ t.closed = svc.closed /\ t.generation = svc.generation
      /\ t.timer = svc.timer /\ t.rtimer = svc.rtimer /\ t.strayed = svc.strayed
      /\ t.credit = svc.credit /\ t.elapsed = svc.elapsed /\ t.foreground = svc.foreground
      /\ t.releasing = svc.releasing /\ t.released = svc.released /\ t.releaseDue = svc.releaseDue
      /\ \A x \in Plans : t.active[x] = IF x = p THEN "ended" ELSE svc.active[x]
      /\ \A x \in Plans : x # p => t.due[x] = svc.due[x]
      /\ p \in Timed => t.due[p] >= svc.due[p]
      /\ (p \notin Timed \/ svc.born[p] = svc.generation) => t.due[p] >= IF b THEN Interval ELSE Backoff
  BY <1>0, <1>1, <1>2, TerminalIs
<1>4. PICK w : w = IF p \in Timed /\ svc.born[p] # svc.generation THEN history.owed[p]
                   ELSE IF b THEN Interval ELSE Backoff
  OBVIOUS
<1>5. history.owed \in [Plans -> Nat] /\ history.owed[p] \in Nat /\ history.idleFor \in Nat /\ w \in Nat
      /\ Interval \in Nat
  BY <1>0, <1>4 DEF Histories, Given, PollAssumption
<1>6. PICK f : f = [history.owed EXCEPT ![p] = w]
  OBVIOUS
<1>7. f \in [Plans -> Nat] /\ \A x \in Plans : f[x] = IF x = p THEN w ELSE history.owed[x]
  BY <1>5, <1>6
<1>8. history' = [history EXCEPT !.owed = f]
  BY <1>4, <1>6 DEF Poll_Ends
<1>9. /\ history' \in Histories /\ history'.permits = history.permits /\ history'.phase = history.phase
      /\ history'.owed = f /\ history'.idleFor = history.idleFor
  BY <1>0, <1>7, <1>8 DEF Histories
<1>10. Scheduled(t, queue)
  <2>1. \A x \in Plans : (t.active[x] = "none" <=> svc.active[x] = "none")
    BY <1>1, <1>3
  <2>2. PlansInv(t, queue)
    BY <1>0, <1>3, <2>1 DEF PlansInv, PlanAt, Unscheduled, Armable, Foreground
  <2>3. ReleaseInv(t, queue)
    BY <1>0, <1>3 DEF ReleaseInv, Unreleased, Foreground
  <2> QED BY <1>0, <1>3, <2>2, <2>3 DEF Scheduled
<1>11. t.active[p] # "none"
  BY <1>3
<1>12. TriedInv(t, queue, op, reading, history') /\ OnInv(t, session, op)
  BY <1>11 DEF TriedInv, Obstructed, OnInv
<1>13. LinkInv(t, session)
  BY <1>3, Facts DEF LinkInv
<1>14. RunsInv(t, session, op)
  <2>1. Runs(t, op) \subseteq Runs(svc, op)
    BY <1>3 DEF Runs
  <2> QED BY <2>1, Facts DEF RunsInv
<1>15. HeldInv(t, session, op, reading)
  BY <1>3, Facts DEF HeldInv, Foreground
<1>16. DistanceInv(t, history')
  <2>0. \A x \in Plans : t.due[x] \in Nat /\ svc.due[x] \in Nat
    BY <1>0, <1>3, ServiceIs
  <2>1. ASSUME NEW x \in Plans PROVE f[x] <= t.due[x] /\ (t.active[x] = "running" => f[x] = 0)
    <3>1. history.owed[x] <= svc.due[x] /\ (svc.active[x] = "running" => history.owed[x] = 0)
      BY <1>0 DEF DistanceInv
    <3>2. CASE x = p
      <4>1. CASE p \in Timed /\ svc.born[p] # svc.generation
        BY <1>1, <1>3, <1>4, <1>5, <1>7, <2>0, <3>1, <3>2, <4>1
      <4>2. CASE p \notin Timed \/ svc.born[p] = svc.generation
        BY <1>3, <1>4, <1>7, <3>2, <4>2
      <4> QED BY <4>1, <4>2
    <3>3. CASE x # p
      BY <1>3, <1>7, <3>1, <3>3
    <3> QED BY <3>2, <3>3
  <2>2. ASSUME t.enabled, Foreground(t) = {}, NEW x \in Timed PROVE history.idleFor + t.due[x] >= Interval
    <3>1. x \in Plans /\ history.idleFor + svc.due[x] >= Interval
      BY <1>0, <1>3, <2>2, TimedIs DEF DistanceInv, Foreground
    <3>2. t.due[x] >= svc.due[x]
      BY <1>3, <2>0, <2>2, <3>1
    <3> QED BY <1>5, <2>0, <3>1, <3>2
  <2> QED BY <1>9, <2>1, <2>2 DEF DistanceInv
<1>17. BucketInv(t, history')
  BY <1>3, <1>9, Facts DEF BucketInv
<1> QED BY <1>1, <1>2, <1>9, <1>10, <1>12, <1>13, <1>14, <1>15, <1>16, <1>17, Facts DEF Kept, Sound

LEMMA PollRetiresKeeps == ASSUME Given, PollInv, NEW p \in Plans, Poll_Retires(p) PROVE Kept
<1>0. /\ svc \in Services /\ history \in Histories /\ Scheduled(svc, queue)
      /\ DistanceInv(svc, history) /\ queue \in Seq(Jobs)
  BY Facts
<1>1. svc.active[p] = "ended" /\ UNCHANGED <<topology, session, op, history>>
  BY DEF Poll_Retires
<1>2. PICK t, u, r : /\ t = Retired(svc, p) /\ u = IF p \in Timed THEN NewRevision(queue, {p}) ELSE queue
                     /\ r = reading'
  OBVIOUS
<1>3. AtEnd(t, TryAgain(svc, u))
  BY <1>2 DEF Poll_Retires
<1>4. Scheduled(t, u)
  BY <1>0, <1>1, <1>2, PollRetiredScheduled
<1>5. /\ t \in Services
      /\ t.enabled = svc.enabled /\ t.closed = svc.closed /\ t.generation = svc.generation
      /\ t.credit = svc.credit /\ t.elapsed = svc.elapsed /\ t.foreground = svc.foreground
      /\ t.releaseDue = svc.releaseDue
      /\ \A x \in Plans : t.active[x] = IF x = p THEN "none" ELSE svc.active[x]
      /\ \A x \in Plans : t.due[x] >= svc.due[x]
  BY <1>0, <1>2, RetiredIs
<1>6. PICK v : v = TryAgain(t, u)
  OBVIOUS
<1>7. TryAgain(svc, u) = v
  BY <1>5, <1>6 DEF TryAgain
<1>8. Scheduled(t, v) /\ \A x, y, z : TriedInv(t, v, x, y, z)
  BY <1>4, <1>6, AgainScheduled
<1>9. r \in Readings /\ (r = reading \/ r.who = "poll")
  <2>1. CASE Leaves("poll")
    BY <1>2, <2>1 DEF Leaves, Readings
  <2>2. CASE reading' = reading
    BY <1>2, <2>2, Facts
  <2> QED BY <2>1, <2>2 DEF Poll_Retires
<1>10. LinkInv(t, session)
  BY <1>5, Facts DEF LinkInv
<1>11. RunsInv(t, session, op)
  <2>1. Runs(t, op) \subseteq Runs(svc, op)
    BY <1>5 DEF Runs
  <2> QED BY <2>1, Facts DEF RunsInv
<1>12. HeldInv(t, session, op, r)
  <2>1. \A x \in Ops : r.who = x => reading.who = x
    BY <1>9 DEF Given, NamesAssumption
  <2> QED BY <1>5, <2>1, Facts DEF HeldInv, Foreground
<1>13. DistanceInv(t, history)
  <2>0. /\ \A x \in Plans : t.due[x] \in Nat /\ svc.due[x] \in Nat /\ history.owed[x] \in Nat
        /\ history.idleFor \in Nat /\ Interval \in Nat
    BY <1>0, <1>5, ServiceIs DEF Histories, Given, PollAssumption
  <2>1. ASSUME NEW x \in Plans PROVE history.owed[x] <= t.due[x] /\ (t.active[x] = "running" => history.owed[x] = 0)
    <3>1. history.owed[x] <= svc.due[x] /\ (svc.active[x] = "running" => history.owed[x] = 0)
      BY <1>0 DEF DistanceInv
    <3> QED BY <1>5, <2>0, <3>1
  <2>2. ASSUME t.enabled, Foreground(t) = {}, NEW x \in Timed PROVE history.idleFor + t.due[x] >= Interval
    <3>1. x \in Plans /\ history.idleFor + svc.due[x] >= Interval
      BY <1>0, <1>5, <2>2, TimedIs DEF DistanceInv, Foreground
    <3> QED BY <1>5, <2>0, <3>1
  <2> QED BY <2>1, <2>2 DEF DistanceInv
<1>14. BucketInv(t, history)
  BY <1>5, Facts DEF BucketInv
<1>15. Sound(t, v, session, op, r, history)
  BY <1>8, <1>9, <1>10, <1>11, <1>12, <1>13, <1>14, Facts DEF Sound
<1>16. AtEnd(t, v) /\ TriedInv(t, v, op, r, history)
  BY <1>3, <1>7, <1>8
<1>17. Sound(svc', queue', session, op, r, history) /\ TriedInv(svc', queue', op, r, history) /\ OnInv(svc', session, op)
  BY <1>5, <1>15, <1>16, AtEndIs
<1> QED BY <1>1, <1>2, <1>17 DEF Kept

-----------------------------------------------------------------------------
(* The connection is closed, or lost.                                      *)

\* The service, paused.
Silenced(t) ==
    /\ t.enabled = FALSE /\ (\A p \in Plans : t.timer[p] = Off) /\ t.rtimer = Off
    /\ t.strayed = svc.strayed /\ t.foreground = svc.foreground /\ t.releaseDue = svc.releaseDue
    /\ t.released = svc.released /\ t.releasing \in {svc.releasing, FALSE}
    /\ t.credit = svc.credit /\ t.elapsed = svc.elapsed
    /\ \A p \in Plans : /\ svc.active[p] = "running" \/ t.due[p] = svc.due[p]
                        /\ t.active[p] = "running" => svc.active[p] = "running"

LEMMA PauseSound ==
  ASSUME Given, PollInv, NEW t \in Services, Silenced(t), NEW u, u \in {NewEpoch(queue), <<>>},
         NEW n \in Sessions, NEW k \in [Ops -> OperationRecords], NEW r \in Readings, NEW h \in Histories,
         h.permits = history.permits, h.phase = history.phase, h.owed = history.owed,
         RunsInv(t, n, k), HeldInv(t, n, k, r)
  PROVE  Sound(t, u, n, k, r, h) /\ TriedInv(t, u, k, r, h)
<1>1. svc \in Services /\ queue \in Seq(Jobs) /\ Scheduled(svc, queue) /\ DistanceInv(svc, history) /\ history \in Histories
  BY Facts
<1>2. /\ u \in Seq(Jobs) /\ \A p \in Plans : Count(u, Poll(p)) = 0
      /\ Count(u, Release) = 0 /\ (Concludes(u) => Concludes(queue))
  <2>1. CASE u = NewEpoch(queue)
    BY <1>1, <2>1, CountEpoch DEF Given
  <2>2. CASE u = <<>>
    <3>1. u \in Seq(Jobs) /\ DOMAIN u = {}
      BY <2>2
    <3>2. ~Concludes(u)
      BY <3>1 DEF Concludes
    <3> QED BY <2>2, <3>1, <3>2, CountEmpty
  <2> QED BY <2>1, <2>2
<1>3. Scheduled(t, u) /\ \A a, x, y : TriedInv(t, u, a, x, y)
  BY <1>1, <1>2, PausedScheduled DEF Silenced
<1>4. LinkInv(t, n)
  BY DEF LinkInv, Silenced
<1>5. DistanceInv(t, h)
  <2>1. ASSUME NEW p \in Plans PROVE history.owed[p] <= t.due[p] /\ (t.active[p] = "running" => history.owed[p] = 0)
    <3>1. history.owed[p] <= svc.due[p] /\ (svc.active[p] = "running" => history.owed[p] = 0)
      BY <1>1 DEF DistanceInv
    <3>2. t.due[p] \in Nat
      BY ServiceIs
    <3> QED BY <3>1, <3>2 DEF Silenced
  <2>2. ~t.enabled
    BY DEF Silenced
  <2> QED BY <2>1, <2>2 DEF DistanceInv
<1>6. BucketInv(t, h)
  BY Facts DEF BucketInv, Silenced
<1> QED BY <1>3, <1>4, <1>5, <1>6 DEF Sound

\* A session whose connection is gone for a new generation.
LEMMA SessionLeft ==
  ASSUME PollInv, NEW n, NEW b \in BOOLEAN, n = [session EXCEPT !.link = b, !.generation = @ + 1]
  PROVE  /\ n \in Sessions /\ n.link = b /\ n.generation = session.generation + 1 /\ session.generation \in Nat
         /\ n.entering = session.entering /\ n.offer = session.offer /\ n.lost = session.lost
<1>1. session \in Sessions
  BY Facts
<1>2. session.generation \in Nat
  BY <1>1 DEF Sessions
<1>3. PICK g \in Nat : g = session.generation + 1
  BY <1>2
<1>4. n = [session EXCEPT !.link = b, !.generation = g]
  BY <1>3
<1> QED BY <1>1, <1>2, <1>3, <1>4 DEF Sessions

LEMMA ReadingLeft ==
  ASSUME PollInv, NEW r, r = [reading EXCEPT !.present = FALSE]
  PROVE  r \in Readings /\ r.who = reading.who
BY Facts DEF Readings

LEMMA IdleLeft ==
  ASSUME PollInv, NEW h, h = [history EXCEPT !.idleFor = 0]
  PROVE  /\ h \in Histories /\ h.permits = history.permits /\ h.phase = history.phase /\ h.owed = history.owed
         /\ h.latecomer = history.latecomer
BY Facts DEF Histories

LEMMA HistoryLeft ==
  ASSUME PollInv, NEW h, h = [history EXCEPT !.idleFor = 0, !.latecomer = FALSE]
  PROVE  h \in Histories /\ h.permits = history.permits /\ h.phase = history.phase /\ h.owed = history.owed
BY Facts DEF Histories

\* The operation a moves on to the generation g, and no other does.
MovesOn(f, a, g, k) == k = [o \in Ops |-> IF o = a THEN [f[o] EXCEPT !.generation = g] ELSE f[o]]
Recorded(f) == f \in [Ops -> OperationRecords]
MovedOn(f, a, g, k) == \A o \in Ops : /\ k[o].st = f[o].st
                                      /\ o = a => k[o].generation = g
                                      /\ o # a => k[o].generation = f[o].generation

\* What is left of the operations' records then.
LEMMA Moved ==
  ASSUME NEW f, Recorded(f), NEW a, NEW g \in Nat, NEW k, MovesOn(f, a, g, k)
  PROVE  Recorded(k) /\ MovedOn(f, a, g, k)
<1>1. ASSUME NEW m \in OperationRecords, NEW n, n = [m EXCEPT !.generation = g]
      PROVE  n \in OperationRecords /\ n.generation = g /\ n.st = m.st
  BY <1>1 DEF OperationRecords
<1>2. ASSUME NEW o \in Ops
      PROVE  /\ k[o] \in OperationRecords /\ k[o].st = f[o].st
             /\ o = a => k[o].generation = g
             /\ o # a => k[o].generation = f[o].generation
  <2>1. CASE o = a
    <3>1. k[o] = [f[o] EXCEPT !.generation = g] /\ f[o] \in OperationRecords
      BY <2>1 DEF MovesOn, Recorded
    <3> QED BY <1>1, <2>1, <3>1
  <2>2. CASE o # a
    <3>1. k[o] = f[o] /\ f[o] \in OperationRecords
      BY <2>2 DEF MovesOn, Recorded
    <3> QED BY <2>2, <3>1
  <2> QED BY <2>1, <2>2
<1>3. \A o \in Ops : k[o] \in OperationRecords
  BY <1>2
<1>4. k = [o \in Ops |-> k[o]]
  BY DEF MovesOn
<1>5. MovedOn(f, a, g, k)
  BY <1>2 DEF MovedOn
<1> QED BY <1>3, <1>4, <1>5 DEF Recorded

\* Whoever closes or reacquires the connection runs alone, and is known to the service.
LEMMA RunsAlone ==
  ASSUME Given, PollInv, NEW a, a \in Running, topology = "releasing", NEW k \in [Ops -> OperationRecords],
         NEW g \in Nat, g = session.generation + 1, session.generation \in Nat,
         \A o \in Ops : /\ k[o].st = op[o].st
                        /\ o = a => k[o].generation = g
                        /\ o # a => k[o].generation = op[o].generation
  PROVE  /\ ~session.entering /\ Runs(svc, k) = Runs(svc, op)
         /\ \A o \in Ops : /\ k[o].generation <= g
                           /\ reading.who = o => k[o].st = "none"
                           /\ k[o].st = "running" => o = a /\ k[o].generation = g /\ o \in Foreground(svc)
                           /\ (k[o].st # "none" \/ reading.who = o) /\ k[o].generation = g => o = a /\ reading.who # o
                           /\ o = a => o \in Foreground(svc)
<1>1. a \in Runs(svc, op)
  BY DEF Running, Runs
<1>2. ~session.entering /\ \A x \in Runs(svc, op) : x = a
  BY <1>1, Facts DEF RunsInv
<1>3. Runs(svc, k) = Runs(svc, op)
  BY DEF Runs
<1>4. ASSUME NEW o \in Ops
      PROVE  /\ k[o].generation <= g
             /\ reading.who = o => k[o].st = "none"
             /\ k[o].st = "running" => o = a /\ k[o].generation = g /\ o \in Foreground(svc)
             /\ (k[o].st # "none" \/ reading.who = o) /\ k[o].generation = g => o = a /\ reading.who # o
             /\ o = a => o \in Foreground(svc)
  <2>1. /\ op[o].generation <= session.generation /\ op[o].generation \in Nat
        /\ reading.who = o => op[o].st = "none"
        /\ op[o].st = "running" => o \in Foreground(svc)
    BY Facts DEF HeldInv, OperationRecords
  <2>2. op[o].st = "running" => o = a
    BY <1>2 DEF Runs
  <2>3. o = a => op[o].st = "running"
    BY <1>1 DEF Runs, Given, NamesAssumption
  <2> QED BY <2>1, <2>2, <2>3
<1> QED BY <1>2, <1>3, <1>4

LEMMA ClosesKeeps == ASSUME Given, PollInv, NEW a, Closes(a) PROVE Kept
<1>1. /\ a \in Running /\ session.link /\ ~svc.closed /\ topology = "releasing"
      /\ session' = [session EXCEPT !.link = FALSE, !.generation = @ + 1]
      /\ svc' = Pause(svc) /\ queue' = NewEpoch(queue)
      /\ op' = [o \in Ops |-> IF o = a THEN [op[o] EXCEPT !.generation = session.generation + 1] ELSE op[o]]
      /\ reading' = [reading EXCEPT !.present = FALSE]
      /\ history' = [history EXCEPT !.idleFor = 0, !.latecomer = FALSE]
      /\ topology' = topology
  BY DEF Closes
<1>2. PICK n, r, h, k : n = session' /\ r = reading' /\ h = history' /\ k = op'
  OBVIOUS
<1>3. /\ n \in Sessions /\ n.link = FALSE /\ n.generation = session.generation + 1 /\ session.generation \in Nat
      /\ n.entering = session.entering
  BY <1>1, <1>2, SessionLeft
<1>4. r \in Readings /\ r.who = reading.who
  BY <1>1, <1>2, ReadingLeft
<1>5. /\ h \in Histories /\ h.permits = history.permits /\ h.phase = history.phase /\ h.owed = history.owed
  BY <1>1, <1>2, HistoryLeft
<1>6. PICK g \in Nat : g = session.generation + 1
  BY <1>3
<1>7. /\ k \in [Ops -> OperationRecords]
      /\ \A o \in Ops : /\ k[o].st = op[o].st
                        /\ o = a => k[o].generation = g
                        /\ o # a => k[o].generation = op[o].generation
  <2>1. MovesOn(op, a, g, k) /\ Recorded(op)
    BY <1>1, <1>2, <1>6, Facts DEF MovesOn, Recorded
  <2>2. Recorded(k) /\ MovedOn(op, a, g, k)
    BY <2>1, Moved
  <2> QED BY <2>2 DEF Recorded, MovedOn
<1>8. /\ ~session.entering /\ Runs(svc, k) = Runs(svc, op)
      /\ \A o \in Ops : /\ k[o].generation <= g
                        /\ reading.who = o => k[o].st = "none"
                        /\ k[o].st = "running" => o = a /\ k[o].generation = g /\ o \in Foreground(svc)
  BY <1>1, <1>3, <1>6, <1>7, RunsAlone
<1>9. PICK t : t = svc'
  OBVIOUS
<1>10. /\ t \in Services /\ t.enabled = FALSE /\ (\A p \in Plans : t.timer[p] = Off) /\ t.rtimer = Off
       /\ t.strayed = svc.strayed /\ t.foreground = svc.foreground /\ t.releaseDue = svc.releaseDue
       /\ t.released = svc.released /\ t.releasing = svc.releasing
       /\ t.credit = svc.credit /\ t.elapsed = svc.elapsed /\ t.due = svc.due /\ t.active = svc.active
  BY <1>1, <1>9, PauseIs, Facts
<1>11. RunsInv(t, n, k)
  <2>1. Runs(t, k) = Runs(svc, op)
    BY <1>8, <1>10 DEF Runs
  <2> QED BY <1>3, <1>8, <2>1, Facts DEF RunsInv
<1>12. HeldInv(t, n, k, r)
  BY <1>3, <1>4, <1>6, <1>8, <1>10 DEF HeldInv, Foreground
<1>13. OnInv(t, n, k)
  BY <1>3 DEF OnInv
<1>14. Silenced(t)
  BY <1>10 DEF Silenced
<1>15. PICK u : u = queue'
  OBVIOUS
<1>16. Sound(t, u, n, k, r, h) /\ TriedInv(t, u, k, r, h)
  <2>1. u \in {NewEpoch(queue), <<>>}
    BY <1>1, <1>15
  <2> QED BY <1>3, <1>4, <1>5, <1>7, <1>10, <1>11, <1>12, <1>14, <2>1, PauseSound
<1> QED BY <1>1, <1>2, <1>9, <1>13, <1>15, <1>16 DEF Kept

LEMMA RawTerminalKeeps == ASSUME Given, PollInv, RawTerminal PROVE Kept
<1>1. /\ session.link /\ ~session.entering /\ NoTask
      /\ session' = [session EXCEPT !.link = FALSE, !.generation = @ + 1]
      /\ svc' = Pause(svc) /\ queue' = NewEpoch(queue)
      /\ reading' = [reading EXCEPT !.present = FALSE]
      /\ history' = [history EXCEPT !.idleFor = 0, !.latecomer = FALSE]
      /\ topology' = topology /\ op' = op
  BY DEF RawTerminal
<1>2. PICK n, r, h : n = session' /\ r = reading' /\ h = history'
  OBVIOUS
<1>3. /\ n \in Sessions /\ n.link = FALSE /\ n.generation = session.generation + 1 /\ session.generation \in Nat
      /\ n.entering = session.entering
  BY <1>1, <1>2, SessionLeft
<1>4. r \in Readings /\ r.who = reading.who
  BY <1>1, <1>2, ReadingLeft
<1>5. /\ h \in Histories /\ h.permits = history.permits /\ h.phase = history.phase /\ h.owed = history.owed
  BY <1>1, <1>2, HistoryLeft
<1>6. PICK t : t = svc'
  OBVIOUS
<1>7. /\ t \in Services /\ t.enabled = FALSE /\ (\A p \in Plans : t.timer[p] = Off) /\ t.rtimer = Off
      /\ t.strayed = svc.strayed /\ t.foreground = svc.foreground /\ t.releaseDue = svc.releaseDue
      /\ t.released = svc.released /\ t.releasing = svc.releasing
      /\ t.credit = svc.credit /\ t.elapsed = svc.elapsed /\ t.due = svc.due /\ t.active = svc.active
  BY <1>1, <1>6, PauseIs, Facts
<1>8. op \in [Ops -> OperationRecords] /\ \A o \in Ops : op[o].st = "none"
  BY <1>1, Facts DEF NoTask, Busy
<1>9. RunsInv(t, n, op)
  <2>1. Runs(t, op) = {}
    BY <1>1, <1>7, <1>8 DEF Runs, NoTask
  <2> QED BY <1>1, <1>3, <2>1 DEF RunsInv
<1>10. HeldInv(t, n, op, r)
  <2>1. ASSUME NEW o \in Ops PROVE op[o].generation <= n.generation
    <3>1. op[o].generation <= session.generation /\ op[o].generation \in Nat
      BY <1>8, Facts DEF HeldInv, OperationRecords
    <3> QED BY <1>3, <3>1
  <2> QED BY <1>3, <1>8, <2>1 DEF HeldInv
<1>11. OnInv(t, n, op)
  BY <1>3 DEF OnInv
<1>12. Silenced(t)
  BY <1>7 DEF Silenced
<1>13. PICK u : u = queue'
  OBVIOUS
<1>14. Sound(t, u, n, op, r, h) /\ TriedInv(t, u, op, r, h)
  <2>1. u \in {NewEpoch(queue), <<>>}
    BY <1>1, <1>13
  <2> QED BY <1>3, <1>4, <1>5, <1>7, <1>8, <1>9, <1>10, <1>12, <2>1, PauseSound
<1> QED BY <1>1, <1>2, <1>6, <1>11, <1>13, <1>14 DEF Kept

LEMMA OfferKeeps == ASSUME Given, PollInv, Offer PROVE Kept
<1>1. /\ session.link /\ ~session.entering
      /\ session' = [session EXCEPT !.offer = TRUE]
      /\ svc' = Pause(svc) /\ queue' = NewEpoch(queue)
      /\ UNCHANGED <<topology, op, reading, history>>
  BY DEF Offer
<1>2. PICK n : n = session'
  OBVIOUS
<1>3. /\ n \in Sessions /\ n.link = session.link /\ n.generation = session.generation /\ n.entering = session.entering
      /\ n.offer = TRUE
  BY <1>1, <1>2, Facts DEF Sessions
<1>4. PICK t : t = svc'
  OBVIOUS
<1>5. /\ t \in Services /\ t.enabled = FALSE /\ (\A p \in Plans : t.timer[p] = Off) /\ t.rtimer = Off
      /\ t.strayed = svc.strayed /\ t.foreground = svc.foreground /\ t.releaseDue = svc.releaseDue
      /\ t.released = svc.released /\ t.releasing = svc.releasing
      /\ t.credit = svc.credit /\ t.elapsed = svc.elapsed /\ t.due = svc.due /\ t.active = svc.active
  BY <1>1, <1>4, PauseIs, Facts
<1>6. RunsInv(t, n, op)
  <2>1. Runs(t, op) = Runs(svc, op)
    BY <1>5 DEF Runs
  <2> QED BY <1>3, <2>1, Facts DEF RunsInv
<1>7. HeldInv(t, n, op, reading)
  BY <1>3, <1>5, Facts DEF HeldInv, Foreground
<1>8. OnInv(t, n, op)
  BY <1>3 DEF OnInv
<1>9. op \in [Ops -> OperationRecords] /\ reading \in Readings /\ history \in Histories
  BY Facts
<1>10. Silenced(t)
  BY <1>5 DEF Silenced
<1>11. PICK u : u = queue'
  OBVIOUS
<1>12. Sound(t, u, n, op, reading, history) /\ TriedInv(t, u, op, reading, history)
  <2>1. u \in {NewEpoch(queue), <<>>}
    BY <1>1, <1>11
  <2> QED BY <1>3, <1>5, <1>6, <1>7, <1>9, <1>10, <2>1, PauseSound
<1> QED BY <1>1, <1>2, <1>4, <1>8, <1>11, <1>12 DEF Kept

\* Every poll that runs is ended.
LEMMA PollsCancelledIs ==
  ASSUME Given, NEW s \in Services, NEW t, t = PollsCancelled(s)
  PROVE  /\ t \in Services
         /\ t.enabled = s.enabled /\ t.closed = s.closed /\ t.timer = s.timer /\ t.rtimer = s.rtimer
         /\ t.strayed = s.strayed /\ t.credit = s.credit /\ t.elapsed = s.elapsed /\ t.foreground = s.foreground
         /\ t.releasing = s.releasing /\ t.released = s.released /\ t.releaseDue = s.releaseDue
         /\ \A p \in Plans : /\ t.active[p] # "running"
                             /\ s.active[p] = "running" \/ t.due[p] = s.due[p]
<1>1. s.due \in [Plans -> Nat] /\ s.active \in [Plans -> Stages]
  BY ServiceIs
<1>2. PICK d : d = [p \in Plans |-> Terminal(s, p, FALSE).due[p]]
  OBVIOUS
<1>3. \A p \in Plans : d[p] \in Nat
  <2>1. ASSUME NEW p \in Plans PROVE Terminal(s, p, FALSE).due[p] \in Nat
    <3>1. PICK b \in BOOLEAN : b = FALSE
      OBVIOUS
    <3>2. PICK v : v = Terminal(s, p, b)
      OBVIOUS
    <3>3. v \in Services
      BY <3>2, TerminalIs
    <3>4. v.due[p] \in Nat
      BY <3>3, ServiceIs
    <3> QED BY <3>1, <3>2, <3>4
  <2> QED BY <1>2, <2>1
<1>4. PICK f, g : /\ f = [p \in Plans |-> IF s.active[p] = "running" THEN "ended" ELSE s.active[p]]
                  /\ g = [p \in Plans |-> IF s.active[p] = "running" THEN d[p] ELSE s.due[p]]
  OBVIOUS
<1>5. /\ f \in [Plans -> Stages] /\ g \in [Plans -> Nat]
      /\ \A p \in Plans : f[p] # "running" /\ (s.active[p] = "running" \/ g[p] = s.due[p])
  <2>1. \A p \in Plans : g[p] \in Nat /\ f[p] \in Stages /\ f[p] # "running" /\ (s.active[p] = "running" \/ g[p] = s.due[p])
    BY <1>1, <1>3, <1>4 DEF Stages
  <2>2. f \in [Plans -> Stages]
    BY <1>1, <1>4 DEF Stages
  <2>3. g \in [Plans -> Nat]
    BY <1>1, <1>3, <1>4
  <2> QED BY <2>1, <2>2, <2>3
<1>6. t = [s EXCEPT !.active = f, !.due = g]
  <2>1. PICK W : W = {p \in Plans : s.active[p] = "running"}
    OBVIOUS
  <2>2. t = [s EXCEPT !.active = [p \in Plans |-> IF p \in W THEN "ended" ELSE s.active[p]],
                      !.due = [p \in Plans |-> IF p \in W THEN d[p] ELSE s.due[p]]]
    BY <1>2, <2>1 DEF PollsCancelled
  <2>3. [p \in Plans |-> IF p \in W THEN "ended" ELSE s.active[p]] = f
    BY <1>4, <2>1
  <2>4. [p \in Plans |-> IF p \in W THEN d[p] ELSE s.due[p]] = g
    BY <1>4, <2>1
  <2> QED BY <2>2, <2>3, <2>4
<1>7. /\ t \in Services /\ t.active = f /\ t.due = g
      /\ t.enabled = s.enabled /\ t.closed = s.closed /\ t.timer = s.timer /\ t.rtimer = s.rtimer
      /\ t.strayed = s.strayed /\ t.credit = s.credit /\ t.elapsed = s.elapsed /\ t.foreground = s.foreground
      /\ t.releasing = s.releasing /\ t.released = s.released /\ t.releaseDue = s.releaseDue
  BY <1>5, <1>6 DEF Services
<1> QED BY <1>5, <1>7

\* Every operation that runs is ended.
LEMMA CancelledIs ==
  ASSUME PollInv, NEW k, k = Cancelled(Ops)
  PROVE  /\ k \in [Ops -> OperationRecords]
         /\ \A o \in Ops : /\ k[o].st # "running" /\ k[o].generation = op[o].generation
                           /\ k[o].st = "none" <=> op[o].st = "none"
<1>1. op \in [Ops -> OperationRecords]
  BY Facts
<1>2. ASSUME NEW m \in OperationRecords, NEW n, n = [m EXCEPT !.st = "ended"]
      PROVE  n \in OperationRecords /\ n.generation = m.generation /\ n.st = "ended"
  BY <1>2 DEF OperationRecords, Stages
<1>3. k = [o \in Ops |-> IF op[o].st = "running" THEN [op[o] EXCEPT !.st = "ended"] ELSE op[o]]
  BY DEF Cancelled
<1>4. ASSUME NEW o \in Ops
      PROVE  /\ k[o] \in OperationRecords /\ k[o].st # "running" /\ k[o].generation = op[o].generation
             /\ k[o].st = "none" <=> op[o].st = "none"
  <2>1. CASE op[o].st = "running"
    <3>1. k[o] = [op[o] EXCEPT !.st = "ended"] /\ op[o] \in OperationRecords
      BY <1>1, <1>3, <2>1
    <3> QED BY <1>2, <2>1, <3>1
  <2>2. CASE op[o].st # "running"
    <3>1. k[o] = op[o] /\ op[o] \in OperationRecords
      BY <1>1, <1>3, <2>2
    <3> QED BY <2>2, <3>1
  <2> QED BY <2>1, <2>2
<1>5. k \in [Ops -> OperationRecords]
  <2>1. \A o \in Ops : k[o] \in OperationRecords
    BY <1>4
  <2> QED BY <1>3, <2>1
<1> QED BY <1>4, <1>5

LEMMA RecordingLostKeeps == ASSUME Given, PollInv, RecordingLost PROVE Kept
<1>1. /\ session' = [session EXCEPT !.lost = TRUE]
      /\ svc' = PollsCancelled(Pause(svc)) /\ queue' = NewEpoch(queue)
      /\ op' = Cancelled(Ops)
      /\ UNCHANGED <<topology, reading, history>>
  BY DEF RecordingLost
<1>2. PICK n, k : n = session' /\ k = op'
  OBVIOUS
<1>3. /\ n \in Sessions /\ n.link = session.link /\ n.generation = session.generation /\ n.entering = session.entering
      /\ n.lost = TRUE
  BY <1>1, <1>2, Facts DEF Sessions
<1>4. /\ k \in [Ops -> OperationRecords]
      /\ \A o \in Ops : /\ k[o].st # "running" /\ k[o].generation = op[o].generation
                        /\ k[o].st = "none" <=> op[o].st = "none"
  BY <1>1, <1>2, CancelledIs
<1>5. PICK s, t : s = Pause(svc) /\ t = svc'
  OBVIOUS
<1>6. /\ s \in Services /\ s.enabled = FALSE /\ (\A p \in Plans : s.timer[p] = Off) /\ s.rtimer = Off
      /\ s.strayed = svc.strayed /\ s.foreground = svc.foreground /\ s.releaseDue = svc.releaseDue
      /\ s.released = svc.released /\ s.releasing = svc.releasing
      /\ s.credit = svc.credit /\ s.elapsed = svc.elapsed /\ s.due = svc.due /\ s.active = svc.active
  BY <1>5, PauseIs, Facts
<1>7. /\ t \in Services
      /\ t.enabled = s.enabled /\ t.timer = s.timer /\ t.rtimer = s.rtimer
      /\ t.strayed = s.strayed /\ t.credit = s.credit /\ t.elapsed = s.elapsed /\ t.foreground = s.foreground
      /\ t.releasing = s.releasing /\ t.released = s.released /\ t.releaseDue = s.releaseDue
      /\ \A p \in Plans : /\ t.active[p] # "running"
                          /\ s.active[p] = "running" \/ t.due[p] = s.due[p]
  BY <1>1, <1>5, <1>6, PollsCancelledIs
<1>8. Runs(t, k) = {}
  BY <1>4, <1>7 DEF Runs
<1>9. RunsInv(t, n, k)
  BY <1>3, <1>8, Facts DEF RunsInv
<1>10. HeldInv(t, n, k, reading)
  <2>1. t.foreground = svc.foreground
    BY <1>6, <1>7
  <2> QED BY <1>3, <1>4, <2>1, Facts DEF HeldInv, Foreground
<1>11. OnInv(t, n, k)
  BY <1>3 DEF OnInv
<1>12. \A p \in Plans : /\ svc.active[p] = "running" \/ t.due[p] = svc.due[p]
                        /\ t.active[p] = "running" => svc.active[p] = "running"
  BY <1>6, <1>7
<1>13. reading \in Readings /\ history \in Histories
  BY Facts
<1>14. Silenced(t)
  BY <1>6, <1>7, <1>12 DEF Silenced
<1>15. PICK u : u = queue'
  OBVIOUS
<1>16. Sound(t, u, n, k, reading, history) /\ TriedInv(t, u, k, reading, history)
  <2>1. u \in {NewEpoch(queue), <<>>}
    BY <1>1, <1>15
  <2> QED BY <1>3, <1>4, <1>7, <1>9, <1>10, <1>13, <1>14, <2>1, PauseSound
<1> QED BY <1>1, <1>2, <1>5, <1>11, <1>15, <1>16 DEF Kept

LEMMA DisconnectKeeps == ASSUME Given, PollInv, Disconnect PROVE Kept
<1>1. /\ session' = [session EXCEPT !.link = FALSE, !.entering = FALSE]
      /\ svc' = PollsCancelled([Pause(svc) EXCEPT !.closed = TRUE, !.releasing = FALSE])
      /\ queue' = <<>>
      /\ op' = Cancelled(Ops) /\ reading' = [reading EXCEPT !.present = FALSE]
      /\ UNCHANGED <<topology, history>>
  BY DEF Disconnect
<1>2. PICK n, k, r : n = session' /\ k = op' /\ r = reading'
  OBVIOUS
<1>3. /\ n \in Sessions /\ n.link = FALSE /\ n.generation = session.generation /\ n.entering = FALSE
  BY <1>1, <1>2, Facts DEF Sessions
<1>4. /\ k \in [Ops -> OperationRecords]
      /\ \A o \in Ops : /\ k[o].st # "running" /\ k[o].generation = op[o].generation
                        /\ k[o].st = "none" <=> op[o].st = "none"
  BY <1>1, <1>2, CancelledIs
<1>5. r \in Readings /\ r.who = reading.who
  BY <1>1, <1>2, ReadingLeft
<1>6. PICK s, c, t : s = Pause(svc) /\ c = [s EXCEPT !.closed = TRUE, !.releasing = FALSE] /\ t = svc'
  OBVIOUS
<1>7. /\ s \in Services /\ s.enabled = FALSE /\ (\A p \in Plans : s.timer[p] = Off) /\ s.rtimer = Off
      /\ s.strayed = svc.strayed /\ s.foreground = svc.foreground /\ s.releaseDue = svc.releaseDue
      /\ s.released = svc.released
      /\ s.credit = svc.credit /\ s.elapsed = svc.elapsed /\ s.due = svc.due /\ s.active = svc.active
  BY <1>6, PauseIs, Facts
<1>8. /\ c \in Services /\ c.enabled = s.enabled /\ c.timer = s.timer /\ c.rtimer = s.rtimer /\ c.releasing = FALSE
      /\ c.strayed = s.strayed /\ c.foreground = s.foreground /\ c.releaseDue = s.releaseDue
      /\ c.released = s.released
      /\ c.credit = s.credit /\ c.elapsed = s.elapsed /\ c.due = s.due /\ c.active = s.active
  BY <1>6, <1>7 DEF Services
<1>9. /\ t \in Services
      /\ t.enabled = c.enabled /\ t.timer = c.timer /\ t.rtimer = c.rtimer
      /\ t.strayed = c.strayed /\ t.credit = c.credit /\ t.elapsed = c.elapsed /\ t.foreground = c.foreground
      /\ t.releasing = c.releasing /\ t.released = c.released /\ t.releaseDue = c.releaseDue
      /\ \A p \in Plans : /\ t.active[p] # "running"
                          /\ c.active[p] = "running" \/ t.due[p] = c.due[p]
  <2>1. t = PollsCancelled(c)
    BY <1>1, <1>6
  <2> QED BY <1>8, <2>1, PollsCancelledIs
<1>10. Runs(t, k) = {}
  BY <1>4, <1>9 DEF Runs
<1>11. RunsInv(t, n, k)
  BY <1>3, <1>10 DEF RunsInv
<1>12. HeldInv(t, n, k, r)
  BY <1>3, <1>4, <1>5, Facts DEF HeldInv
<1>13. OnInv(t, n, k)
  BY <1>3 DEF OnInv
<1>14. \A p \in Plans : /\ svc.active[p] = "running" \/ t.due[p] = svc.due[p]
                        /\ t.active[p] = "running" => svc.active[p] = "running"
  BY <1>7, <1>8, <1>9
<1>15. history \in Histories
  BY Facts
<1>16. queue' \in {NewEpoch(queue), <<>>} /\ t.releasing \in {svc.releasing, FALSE}
  BY <1>1, <1>8, <1>9
<1>17. /\ t.enabled = FALSE /\ (\A p \in Plans : t.timer[p] = Off) /\ t.rtimer = Off
       /\ t.strayed = svc.strayed /\ t.foreground = svc.foreground /\ t.releaseDue = svc.releaseDue
       /\ t.released = svc.released /\ t.credit = svc.credit /\ t.elapsed = svc.elapsed
  BY <1>7, <1>8, <1>9
<1>18. Silenced(t)
  BY <1>14, <1>16, <1>17 DEF Silenced
<1>19. PICK u : u = queue'
  OBVIOUS
<1>20. Sound(t, u, n, k, r, history) /\ TriedInv(t, u, k, r, history)
  <2>1. u \in {NewEpoch(queue), <<>>}
    BY <1>1, <1>19
  <2> QED BY <1>3, <1>4, <1>5, <1>9, <1>11, <1>12, <1>15, <1>18, <2>1, PauseSound
<1> QED BY <1>1, <1>2, <1>6, <1>13, <1>19, <1>20 DEF Kept

\* operationReacquired() of the one that runs.
LEMMA ReacquiredIs ==
  ASSUME NEW s \in Services, NEW a, NEW g \in Nat, NEW t, t = OperationReacquired(s, a, g)
  PROVE  /\ t \in Services
         /\ t.enabled = s.enabled /\ t.closed = s.closed /\ t.due = s.due
         /\ t.active = s.active /\ t.timer = s.timer /\ t.rtimer = s.rtimer /\ t.strayed = s.strayed
         /\ t.credit = s.credit /\ t.elapsed = s.elapsed
         /\ t.releasing = s.releasing /\ t.released = s.released /\ t.releaseDue = s.releaseDue
         /\ Foreground(t) = Foreground(s) /\ (a \in Foreground(s) => g = t.foreground[a])
<1>1. s.foreground \in Foregrounds /\ s.born \in [Plans -> Nat] /\ Foreground(s) \subseteq Ops
  BY ServiceIs
<1>2. PICK f : f = s.foreground
  OBVIOUS
<1>3. PICK h, b : /\ h = IF a \in Foreground(s) THEN With(f, a, g) ELSE f
                  /\ b = [p \in Plans |-> IF p = a THEN g ELSE s.born[p]]
  OBVIOUS
<1>4. h \in Foregrounds /\ DOMAIN h = DOMAIN f /\ (a \in Foreground(s) => g = h[a])
  <2>1. CASE a \in Foreground(s)
    <3>1. f \in Foregrounds /\ a \in Ops /\ a \in DOMAIN f
      BY <1>1, <1>2, <2>1 DEF Foreground
    <3>2. With(f, a, g) \in Foregrounds /\ DOMAIN With(f, a, g) = DOMAIN f \cup {a} /\ With(f, a, g)[a] = g
      BY <3>1, ForegroundWith
    <3> QED BY <1>3, <2>1, <3>1, <3>2
  <2>2. CASE a \notin Foreground(s)
    BY <1>1, <1>2, <1>3, <2>2
  <2> QED BY <2>1, <2>2
<1>5. b \in [Plans -> Nat]
  BY <1>1, <1>3
<1>6. t = [s EXCEPT !.foreground = h, !.born = b]
  BY <1>2, <1>3 DEF OperationReacquired
<1>7. /\ t \in Services /\ t.foreground = h
      /\ t.enabled = s.enabled /\ t.closed = s.closed /\ t.due = s.due
      /\ t.active = s.active /\ t.timer = s.timer /\ t.rtimer = s.rtimer /\ t.strayed = s.strayed
      /\ t.credit = s.credit /\ t.elapsed = s.elapsed
      /\ t.releasing = s.releasing /\ t.released = s.released /\ t.releaseDue = s.releaseDue
  BY <1>4, <1>5, <1>6 DEF Services
<1> QED BY <1>2, <1>4, <1>7 DEF Foreground

LEMMA ReacquiresKeeps == ASSUME Given, PollInv, NEW a, Reacquires(a) PROVE Kept
<1>1. /\ a \in Running /\ ~session.link /\ topology = "releasing"
      /\ session' = [session EXCEPT !.link = TRUE, !.generation = @ + 1]
      /\ svc' = OperationReacquired(svc, a, session.generation + 1)
      /\ op' = [o \in Ops |-> IF o = a THEN [op[o] EXCEPT !.generation = session.generation + 1] ELSE op[o]]
      /\ history' = [history EXCEPT !.idleFor = 0]
      /\ UNCHANGED <<topology, queue, reading>>
  BY DEF Reacquires
<1>2. PICK n, h, k : n = session' /\ h = history' /\ k = op'
  OBVIOUS
<1>3. /\ n \in Sessions /\ n.link = TRUE /\ n.generation = session.generation + 1 /\ session.generation \in Nat
      /\ n.entering = session.entering
  BY <1>1, <1>2, SessionLeft
<1>4. /\ h \in Histories /\ h.permits = history.permits /\ h.phase = history.phase /\ h.owed = history.owed
  BY <1>1, <1>2, IdleLeft
<1>5. PICK g \in Nat : g = session.generation + 1
  BY <1>3
<1>6. /\ k \in [Ops -> OperationRecords]
      /\ \A o \in Ops : /\ k[o].st = op[o].st
                        /\ o = a => k[o].generation = g
                        /\ o # a => k[o].generation = op[o].generation
  <2>1. MovesOn(op, a, g, k) /\ Recorded(op)
    BY <1>1, <1>2, <1>5, Facts DEF MovesOn, Recorded
  <2>2. Recorded(k) /\ MovedOn(op, a, g, k)
    BY <2>1, Moved
  <2> QED BY <2>2 DEF Recorded, MovedOn
<1>7. /\ ~session.entering /\ Runs(svc, k) = Runs(svc, op)
      /\ \A o \in Ops : /\ k[o].generation <= g
                        /\ reading.who = o => k[o].st = "none"
                        /\ k[o].st = "running" => o = a /\ k[o].generation = g /\ o \in Foreground(svc)
                        /\ (k[o].st # "none" \/ reading.who = o) /\ k[o].generation = g => o = a /\ reading.who # o
                        /\ o = a => o \in Foreground(svc)
  BY <1>1, <1>3, <1>5, <1>6, RunsAlone
<1>8. PICK t : t = svc'
  OBVIOUS
<1>9. /\ t \in Services
      /\ t.enabled = svc.enabled /\ t.closed = svc.closed /\ t.due = svc.due
      /\ t.active = svc.active /\ t.timer = svc.timer /\ t.rtimer = svc.rtimer /\ t.strayed = svc.strayed
      /\ t.credit = svc.credit /\ t.elapsed = svc.elapsed
      /\ t.releasing = svc.releasing /\ t.released = svc.released /\ t.releaseDue = svc.releaseDue
      /\ Foreground(t) = Foreground(svc) /\ (a \in Foreground(svc) => g = t.foreground[a])
  <2>1. t = OperationReacquired(svc, a, g) /\ svc \in Services
    BY <1>1, <1>5, <1>8, Facts
  <2> QED BY <2>1, ReacquiredIs
<1>10. ~t.enabled
  BY <1>1, <1>9, Facts DEF LinkInv
<1>11. Scheduled(t, queue)
  <2>1. PlansInv(t, queue)
    BY <1>9, Facts DEF PlansInv, PlanAt, Unscheduled, Armable
  <2>2. ReleaseInv(t, queue)
    BY <1>9, Facts DEF ReleaseInv, Unreleased
  <2> QED BY <1>9, <2>1, <2>2, Facts DEF Scheduled
<1>12. TriedInv(t, queue, k, reading, h) /\ LinkInv(t, n)
  BY <1>10 DEF TriedInv, Unreleased, LinkInv
<1>13. RunsInv(t, n, k)
  <2>1. Runs(t, k) = Runs(svc, op)
    BY <1>7, <1>9 DEF Runs
  <2> QED BY <1>3, <1>7, <2>1, Facts DEF RunsInv
<1>14. HeldInv(t, n, k, reading)
  <2>1. n.generation = g
    BY <1>3, <1>5
  <2>2. ASSUME NEW o \in Ops
        PROVE  /\ k[o].generation <= n.generation
               /\ reading.who = o => k[o].st = "none"
               /\ k[o].st = "running" => k[o].generation = n.generation /\ o \in Foreground(t)
               /\ (k[o].st # "none" \/ reading.who = o) /\ n.link /\ k[o].generation = n.generation =>
                     o \in Foreground(t) /\ t.foreground[o] = n.generation
    BY <1>7, <1>9, <2>1
  <2> QED BY <2>2 DEF HeldInv
<1>15. OnInv(t, n, k)
  <2>1. (a \in Ops /\ op[a].st = "running") \/ (a \in Plans /\ svc.active[a] = "running")
    BY <1>1 DEF Running
  <2>2. (a \in Ops /\ k[a].st = "running") \/ (a \in Plans /\ t.active[a] = "running")
    BY <1>6, <1>9, <2>1
  <2> QED BY <2>2 DEF OnInv
<1>16. DistanceInv(t, h) /\ BucketInv(t, h)
  BY <1>4, <1>9, <1>10, Facts DEF DistanceInv, BucketInv
<1>17. Sound(t, queue, n, k, reading, h)
  BY <1>3, <1>4, <1>6, <1>11, <1>12, <1>13, <1>14, <1>16, Facts DEF Sound
<1> QED BY <1>1, <1>2, <1>8, <1>12, <1>15, <1>17 DEF Kept

-----------------------------------------------------------------------------
(* The invariant holds.                                                    *)

LEMMA PollStarts == ASSUME PollAssumption, NamesAssumption, PollInit PROVE PollInv
<1>1. /\ topology \in {"releasing", "periodic"}
      /\ svc = Service /\ queue = <<>>
      /\ session = [link |-> FALSE, generation |-> 0, entering |-> FALSE, offer |-> FALSE, lost |-> FALSE]
      /\ op = [o \in Ops |-> [st |-> "none", generation |-> 0, reentry |-> FALSE, done |-> FALSE]]
      /\ reading = [who |-> NoOne, present |-> FALSE]
      /\ history = History
  BY DEF PollInit
<1>2. Burst \in Nat \ {0} /\ Refill \in Nat \ {0} /\ Off \in Delays
  BY DEF PollAssumption, Delays
<1>3. PICK f, z, w, e : /\ f = [p \in Plans |-> Off] /\ z = [p \in Plans |-> 0] /\ w = [p \in Plans |-> "none"]
                        /\ e = [o \in {} |-> 0]
  OBVIOUS
<1>4. /\ f \in [Plans -> Delays] /\ z \in [Plans -> Nat] /\ w \in [Plans -> Stages]
      /\ \A p \in Plans : f[p] = Off /\ w[p] = "none" /\ z[p] = 0
  BY <1>2, <1>3 DEF Stages
<1>5. e \in Foregrounds /\ DOMAIN e = {}
  <2>1. DOMAIN e = {} /\ e \in [{} -> Nat]
    BY <1>3
  <2>2. {} \in SUBSET Ops
    OBVIOUS
  <2> QED BY <2>1, <2>2 DEF Foregrounds
<1>6. svc = [enabled |-> FALSE, closed |-> FALSE, generation |-> 0, due |-> z, timer |-> f, active |-> w, born |-> z,
             foreground |-> e, idle |-> Off, rtimer |-> Off, releaseDue |-> FALSE, releasing |-> FALSE,
             released |-> FALSE, credit |-> Burst, elapsed |-> 0, strayed |-> FALSE]
  BY <1>1, <1>3 DEF Service
<1>7. /\ svc \in Services /\ svc.enabled = FALSE /\ svc.closed = FALSE /\ svc.due = z /\ svc.timer = f /\ svc.active = w
      /\ svc.foreground = e /\ svc.rtimer = Off /\ svc.releaseDue = FALSE /\ svc.releasing = FALSE
      /\ svc.released = FALSE /\ svc.credit = Burst /\ svc.elapsed = 0 /\ svc.strayed = FALSE
  BY <1>2, <1>4, <1>5, <1>6 DEF Services
<1>8. /\ history \in Histories /\ history.permits = Burst /\ history.phase = 0 /\ history.owed = z
  <2>1. history = [permits |-> Burst, phase |-> 0, owed |-> z, idleFor |-> 0, latecomer |-> FALSE]
    BY <1>1, <1>3 DEF History
  <2> QED BY <1>2, <1>4, <2>1 DEF Histories
<1>9. /\ session \in Sessions /\ session.link = FALSE /\ session.entering = FALSE /\ session.generation = 0
      /\ reading \in Readings /\ reading.who = NoOne
  BY <1>1 DEF Sessions, Readings
<1>10. op \in [Ops -> OperationRecords] /\ \A o \in Ops : op[o].st = "none" /\ op[o].generation = 0
  BY <1>1 DEF OperationRecords, Stages
<1>11. queue \in Seq(Jobs) /\ (\A j : Count(queue, j) = 0) /\ ~Concludes(queue)
  <2>1. DOMAIN queue = {}
    BY <1>1
  <2> QED BY <1>1, <2>1, CountEmpty DEF Concludes
<1>12. Scheduled(svc, queue)
  <2>1. PlansInv(svc, queue)
    BY <1>4, <1>7, <1>11 DEF PlansInv, PlanAt, Unscheduled, Armable
  <2>2. ReleaseInv(svc, queue)
    BY <1>7, <1>11 DEF ReleaseInv, Unreleased
  <2> QED BY <1>7, <1>11, <2>1, <2>2 DEF Scheduled
<1>13. LinkInv(svc, session) /\ OnInv(svc, session, op) /\ TriedInv(svc, queue, op, reading, history)
  BY <1>7, <1>9 DEF LinkInv, OnInv, TriedInv
<1>14. RunsInv(svc, session, op)
  <2>1. Runs(svc, op) = {}
    BY <1>4, <1>7, <1>10 DEF Runs
  <2> QED BY <1>9, <2>1 DEF RunsInv
<1>15. HeldInv(svc, session, op, reading)
  BY <1>9, <1>10 DEF HeldInv
<1>16. DistanceInv(svc, history)
  BY <1>4, <1>7, <1>8 DEF DistanceInv
<1>17. BucketInv(svc, history)
  <2>1. PICK s, h : s = svc /\ h = history
    OBVIOUS
  <2>2. /\ s.credit \in Nat /\ s.elapsed \in Nat /\ s.credit <= Burst /\ s.elapsed < Refill
        /\ h.phase = s.elapsed /\ h.permits = s.credit
    BY <1>2, <1>7, <1>8, <2>1
  <2>3. BucketInv(s, h)
    BY <2>2, BucketIs
  <2> QED BY <2>1, <2>3
<1> QED BY <1>1, <1>8, <1>9, <1>10, <1>12, <1>13, <1>14, <1>15, <1>16, <1>17 DEF PollInv, Sound

LEMMA PollStep == ASSUME PollAssumption, NamesAssumption, PollInv, PollNext PROVE PollInv'
<1>1. Given
  BY DEF Given, PollInv
<1>2. ASSUME NEW p \in Plans, Job_Poll(p) PROVE Kept
  BY <1>1, <1>2, JobPollKeeps
<1>3. ASSUME NEW p \in Plans, Timer_Plan(p) PROVE Kept
  BY <1>1, <1>3, TimerPlanKeeps
<1>4. ASSUME NEW p \in Plans, Poll_Retires(p) PROVE Kept
  BY <1>1, <1>4, PollRetiresKeeps
<1>5. ASSUME NEW p \in Plans, NEW b \in BOOLEAN, Poll_Ends(p, b) PROVE Kept
  BY <1>1, <1>5, PollEndsKeeps
<1>6. ASSUME NEW a, Closes(a) PROVE Kept
  BY <1>1, <1>6, ClosesKeeps
<1>7. ASSUME NEW a, Reacquires(a) PROVE Kept
  BY <1>1, <1>7, ReacquiresKeeps
<1>8. ASSUME NEW o \in Ops, Operation_Starts(o) PROVE Kept
  BY <1>1, <1>8, OperationStartsKeeps
<1>9. ASSUME NEW o \in Ops, Operation_Ends(o) PROVE Kept
  BY <1>1, <1>9, OperationEndsKeeps
<1>10. ASSUME NEW o \in Ops, Operation_Retires(o) PROVE Kept
  BY <1>1, <1>10, OperationRetiresKeeps
<1>11. ASSUME Job_Release \/ Job_Again \/ Job_Conclude \/ Job_Stale PROVE Kept
  BY <1>1, <1>11, JobReleaseKeeps, JobAgainKeeps, JobConcludeKeeps, JobStaleKeeps
<1>12. ASSUME Timer_Release \/ Invalidated \/ Tick PROVE Kept
  BY <1>1, <1>12, TimerReleaseKeeps, InvalidatedKeeps, TickKeeps
<1>13. ASSUME Connect \/ Entered \/ Read_Settles \/ RawTerminal \/ Offer PROVE Kept
  BY <1>1, <1>13, ConnectKeeps, EnteredKeeps, ReadSettlesKeeps, RawTerminalKeeps, OfferKeeps
<1>14. ASSUME RecordingLost \/ Disconnect PROVE Kept
  BY <1>1, <1>14, RecordingLostKeeps, DisconnectKeeps
<1>15. Kept
  BY <1>2, <1>3, <1>4, <1>5, <1>6, <1>7, <1>8, <1>9, <1>10, <1>11, <1>12, <1>13, <1>14 DEF PollNext
<1> QED BY <1>1, <1>15, KeptIsKept

LEMMA PollStutters == ASSUME PollInv, UNCHANGED pollVars PROVE PollInv'
BY DEF pollVars, PollInv, Sound, Scheduled, PlansInv, PlanAt, Unscheduled, Armable, ReleaseInv, Unreleased,
   TriedInv, Obstructed, LinkInv, OnInv, RunsInv, HeldInv, DistanceInv, BucketInv, Timed

\* The invariant, for any plans, operations and delays.
THEOREM PollInvariant == ASSUME PollAssumption, NamesAssumption PROVE PollSpec => []PollInv
<1>1. PollInit => PollInv
  BY PollStarts
<1>2. PollInv /\ [PollNext]_pollVars => PollInv'
  BY PollStep, PollStutters
<1> QED BY <1>1, <1>2, PTL DEF PollSpec

\* What the invariant says of the properties.
LEMMA NothingIsForgotten == ASSUME PollInv PROVE NothingForgotten
<1>1. \A j : Waiting(j) = Count(queue, j) /\ Count(queue, j) \in Nat
  BY Facts, CountFinite DEF Waiting, Count
<1>2. ~svc.strayed
  BY Facts DEF PlansInv
<1>3. /\ session.link /\ ~session.entering /\ ~session.offer /\ ~session.lost /\ ~svc.closed /\ NoTask
      => svc.enabled /\ svc.generation = session.generation
  BY Facts DEF OnInv, LinkInv, NoTask, Busy
<1>4. ASSUME NEW p \in Plans, Armable(svc, p)
      PROVE  (IF svc.timer[p] # Off THEN 1 ELSE 0) + Waiting(Poll(p)) = 1
  <2>1. PlanAt(svc, queue, p) /\ Count(queue, Poll(p)) \in Nat /\ Waiting(Poll(p)) = Count(queue, Poll(p))
    BY <1>1, Facts DEF PlansInv
  <2> QED BY <1>4, <2>1 DEF PlanAt, Unscheduled
<1>5. ASSUME topology = "releasing" /\ svc.enabled /\ ~svc.releasing /\ ~svc.released /\ Foreground(svc) = {}
      PROVE  IF svc.releaseDue
             THEN history.latecomer \/ ~Quiescent \/ Waiting(Again) + Waiting(Release) > 0 \/ svc.rtimer # Off
             ELSE (IF svc.rtimer # Off THEN 1 ELSE 0) + Waiting(Release) = 1
  <2>1. /\ Waiting(Again) = Count(queue, Again) /\ Count(queue, Again) \in Nat
        /\ Waiting(Release) = Count(queue, Release) /\ Count(queue, Release) \in Nat
    BY <1>1
  <2>2. Unreleased(svc)
    BY <1>5 DEF Unreleased
  <2>3. CASE svc.releaseDue
    <3>1. history.latecomer \/ Obstructed(svc, op, reading) \/ Count(queue, Again) > 0 \/ Count(queue, Release) > 0 \/ svc.rtimer # Off
      BY <2>2, <2>3, Facts DEF TriedInv
    <3> QED BY <2>1, <2>3, <3>1, QuietIs
  <2>4. CASE ~svc.releaseDue
    <3>1. (svc.rtimer # Off => Count(queue, Release) = 0) /\ (svc.rtimer = Off => Count(queue, Release) = 1)
      BY <2>2, <2>4, Facts DEF ReleaseInv
    <3> QED BY <2>1, <2>4, <3>1
  <2> QED BY <2>3, <2>4
<1> QED BY <1>2, <1>3, <1>4, <1>5 DEF NothingForgotten

LEMMA BucketIsExact == ASSUME PollAssumption, PollInv PROVE BucketExact
<1>1. svc \in Services /\ BucketInv(svc, history)
  BY Facts
<1>2. svc.credit \in Nat /\ svc.elapsed \in Nat /\ Burst \in Nat /\ Refill \in Nat \ {0}
  BY <1>1, ServiceIs DEF PollAssumption
<1>3. svc.elapsed \div Refill \in Nat
  <2>1. PICK e \in Nat : e = svc.elapsed
    BY <1>2
  <2> QED BY <1>2, <2>1, DivMod
<1>4. Smaller(Burst, svc.credit + svc.elapsed \div Refill) = history.permits
  BY <1>1 DEF BucketInv
<1>5. Smaller(Burst, svc.credit + svc.elapsed \div Refill) >= 0
  BY <1>2, <1>3 DEF Smaller
<1> QED BY <1>4, <1>5 DEF BucketExact

-----------------------------------------------------------------------------
(* When a poll starts.                                                     *)

\* No plan that is not polled is polled in t.
NoneBegins(t) == \A p \in Plans : svc.active[p] = "none" => t.active[p] # "running"

LEMMA SameBegins ==
  ASSUME NEW t, t.active = svc.active
  PROVE  NoneBegins(t)
BY DEF NoneBegins

\* What the end of #run leaves as it is.
LEMMA AtEndBegins ==
  ASSUME Given, PollInv, NEW s \in Services, NEW q, s.closed = svc.closed, NoneBegins(s), AtEnd(s, q)
  PROVE  NoneBegins(svc')
<1>1. CASE Resumes /\ ~Resumed(s, session.generation)
  <2>1. PICK g \in Nat : g = session.generation
    BY Facts DEF Sessions
  <2>2. PICK t : t = Resume(s, g)
    OBVIOUS
  <2>3. ResumedFrom(s, t, g)
    BY <1>1, <2>1, <2>2, ResumeIs DEF Given
  <2>4. svc' = t
    BY <1>1, <2>1, <2>2 DEF AtEnd
  <2> QED BY <2>3, <2>4 DEF ResumedFrom, NoneBegins
<1>2. CASE ~Resumes \/ Resumed(s, session.generation)
  <2>1. svc' = s
    BY <1>2 DEF AtEnd, Resume
  <2> QED BY <2>1
<1> QED BY <1>1, <1>2

\* The release starts no poll.
LEMMA ReleaseBegins ==
  ASSUME PollInv, NEW c, NEW t, t \in {TryRelease(svc, c), TryRelease([svc EXCEPT !.releaseDue = TRUE], c)}
  PROVE  NoneBegins(t)
<1>1. PICK d : d = [svc EXCEPT !.releaseDue = TRUE]
  OBVIOUS
<1>2. svc \in Services /\ d \in Services /\ d.active = svc.active
  BY <1>1, Facts DEF Services
<1>3. ASSUME NEW s \in {svc, d} PROVE TryRelease(s, c).active = svc.active
  <2>1. s \in Services /\ s.active = svc.active
    BY <1>2, <1>3
  <2> QED BY <2>1 DEF TryRelease, Services
<1>4. t \in {TryRelease(svc, c), TryRelease(d, c)}
  BY <1>1
<1> QED BY <1>3, <1>4, SameBegins

\* The turn of one plan starts no other.
LEMMA TurnBegins ==
  ASSUME Given, PollInv, NEW q \in Plans, Job_Poll(q), NEW p \in Plans,
         svc.active[p] = "none", svc'.active[p] = "running"
  PROVE  /\ q = p /\ Armable(svc, p) /\ svc.due[p] = 0 /\ Startable /\ ~session.offer
<1>1. svc \in Services /\ history \in Histories /\ BucketInv(svc, history) /\ Interval \in Nat /\ PollAssumption
  BY Facts DEF Given, PollAssumption
<1>2. PICK r : r = Refilled(svc)
  OBVIOUS
<1>3. r \in Services /\ r.active = svc.active /\ r.born = svc.born /\ r.due = svc.due
  BY <1>1, <1>2, RefilledIs
<1>4. ASSUME NEW s, s \in {svc, [svc EXCEPT !.due[q] = Interval], [r EXCEPT !.due[q] = Interval]}
      PROVE  Arm(s, {q}).active = svc.active
  <2>1. PICK f : f = [svc.due EXCEPT ![q] = Interval]
    OBVIOUS
  <2>2. f \in [Plans -> Nat]
    BY <1>1, <2>1, ServiceIs
  <2>3. s \in {svc, [svc EXCEPT !.due = f], [r EXCEPT !.due = f]}
    BY <1>3, <1>4, <2>1
  <2>4. s \in Services /\ s.active = svc.active
    BY <1>1, <1>3, <2>2, <2>3 DEF Services
  <2> QED BY <2>4, ArmIs DEF Alike
<1>5. ~NoneBegins(svc')
  BY DEF NoneBegins
<1>6. CASE svc' = TryRelease([svc EXCEPT !.releaseDue = TRUE], Quiescent)
  BY <1>5, <1>6, ReleaseBegins
<1>7. CASE svc' \in {Arm(svc, {q}), Arm([svc EXCEPT !.due[q] = Interval], {q}),
                     Arm([Refilled(svc) EXCEPT !.due[q] = Interval], {q})}
  BY <1>2, <1>4, <1>5, <1>7, SameBegins
<1>8. CASE /\ svc.due[q] = 0 /\ Startable /\ ~session.offer
           /\ svc' = [Refilled(svc) EXCEPT !.credit = @ - 1, !.active[q] = "running", !.born[q] = svc.generation]
  <2>1. PICK c, f, b : c = r.credit - 1 /\ f = [svc.active EXCEPT ![q] = "running"] /\ b = [svc.born EXCEPT ![q] = svc.generation]
    OBVIOUS
  <2>2. svc' = [r EXCEPT !.credit = c, !.active = f, !.born = b]
    BY <1>2, <1>3, <1>8, <2>1
  <2>3. svc'.active = f
    BY <1>3, <2>2 DEF Services
  <2>4. f[p] = IF p = q THEN "running" ELSE svc.active[p]
    BY <1>1, <2>1, ServiceIs
  <2>5. q = p
    BY <2>3, <2>4
  <2> QED BY <1>8, <2>5 DEF Job_Poll
<1> QED BY <1>6, <1>7, <1>8 DEF Job_Poll

\* Nothing else starts a poll.
LEMMA OthersBegin ==
  ASSUME Given, PollInv, PollNext, \A q \in Plans : ~Job_Poll(q)
  PROVE  NoneBegins(svc')
<1>0. svc \in Services /\ session \in Sessions /\ session.generation \in Nat
  BY Facts DEF Sessions
<1>s. svc' = svc => NoneBegins(svc')
  BY SameBegins
<1>p. NoneBegins(Pause(svc))
  BY <1>0, PauseIs, SameBegins
<1>1. ASSUME NEW p \in Plans, Timer_Plan(p) PROVE NoneBegins(svc')
  <2>1. svc' = [svc EXCEPT !.timer[p] = Off]
    BY <1>1 DEF Timer_Plan
  <2>2. svc'.active = svc.active
    BY <1>0, <2>1 DEF Services
  <2> QED BY <2>2, SameBegins
<1>2. ASSUME NEW p \in Plans, Poll_Retires(p) PROVE NoneBegins(svc')
  <2>1. PICK t, u : t = Retired(svc, p) /\ AtEnd(t, u)
    BY <1>2 DEF Poll_Retires
  <2>2. t \in Services /\ t.closed = svc.closed /\ \A x \in Plans : t.active[x] = IF x = p THEN "none" ELSE svc.active[x]
    BY <1>0, <2>1, RetiredIs, <1>2 DEF Poll_Retires
  <2>3. NoneBegins(t)
    BY <2>2 DEF NoneBegins
  <2> QED BY <2>1, <2>2, <2>3, AtEndBegins
<1>3. ASSUME NEW p \in Plans, NEW b \in BOOLEAN, Poll_Ends(p, b) PROVE NoneBegins(svc')
  <2>1. PICK t : t = Terminal(svc, p, b)
    OBVIOUS
  <2>2. \A x \in Plans : t.active[x] = IF x = p THEN "ended" ELSE svc.active[x]
    BY <1>0, <2>1, TerminalIs
  <2>3. svc' = t
    BY <1>3, <2>1 DEF Poll_Ends
  <2> QED BY <2>2, <2>3 DEF NoneBegins
<1>4. ASSUME NEW a, Closes(a) PROVE NoneBegins(svc')
  BY <1>p, <1>4 DEF Closes
<1>5. ASSUME NEW a, Reacquires(a) PROVE NoneBegins(svc')
  <2>1. PICK f, b : svc' = [svc EXCEPT !.foreground = f, !.born = b]
    BY <1>5 DEF Reacquires, OperationReacquired
  <2>2. svc'.active = svc.active
    BY <1>0, <2>1 DEF Services
  <2> QED BY <2>2, SameBegins
<1>6. ASSUME NEW o \in Ops, Operation_Starts(o) PROVE NoneBegins(svc')
  <2>1. PICK g \in Nat : g = session.generation
    BY <1>0
  <2>2. PICK t : t = ForegroundStarted(svc, o, g)
    OBVIOUS
  <2>3. StartedFrom(svc, t, o, g) /\ svc' = t
    BY <1>0, <1>6, <2>1, <2>2, ForegroundStartedIs DEF Operation_Starts
  <2> QED BY <2>3, SameBegins DEF StartedFrom
<1>7. ASSUME NEW o \in Ops, Operation_Ends(o) PROVE NoneBegins(svc')
  BY <1>s, <1>7 DEF Operation_Ends
<1>8. ASSUME NEW o \in Ops, NEW b \in BOOLEAN PROVE
        LET t == ForegroundRetired(svc, o, b) IN t \in Services /\ t.closed = svc.closed /\ NoneBegins(t)
  <2>1. PICK t : t = ForegroundRetired(svc, o, b)
    OBVIOUS
  <2>2. t \in Services /\ t.closed = svc.closed /\ t.active = svc.active
    BY <1>0, <2>1, ForegroundRetiredIs
  <2> QED BY <2>1, <2>2, SameBegins
<1>9. ASSUME NEW o \in Ops, Operation_Retires(o) PROVE NoneBegins(svc')
  <2>1. PICK b \in BOOLEAN : b <=> (op[o].reentry /\ op[o].done /\ ~svc.closed)
    OBVIOUS
  <2>2. \/ AtEnd(svc, queue)
        \/ AtEnd(ForegroundRetired(svc, o, op[o].reentry /\ op[o].done /\ ~svc.closed), AfterForeground(svc, o, queue))
    BY <1>9 DEF Operation_Retires
  <2>3. AtEnd(svc, queue) \/ AtEnd(ForegroundRetired(svc, o, b), AfterForeground(svc, o, queue))
    <3>1. b = (op[o].reentry /\ op[o].done /\ ~svc.closed)
      BY <2>1
    <3> QED BY <2>2, <3>1
  <2>4. NoneBegins(svc)
    BY SameBegins
  <2>5. PICK t, q : AtEnd(t, q) /\ t \in Services /\ t.closed = svc.closed /\ NoneBegins(t)
    BY <1>0, <1>8, <2>3, <2>4
  <2> QED BY <2>5, AtEndBegins
<1>10. ASSUME Job_Release \/ Job_Again PROVE NoneBegins(svc')
  BY <1>10, ReleaseBegins DEF Job_Release, Job_Again
<1>11. ASSUME Job_Conclude \/ Timer_Release \/ Tick PROVE NoneBegins(svc')
  <2>1. svc'.active = svc.active
    BY <1>0, <1>11 DEF Job_Conclude, Timer_Release, Tick, Services
  <2> QED BY <2>1, SameBegins
<1>12. ASSUME Job_Stale \/ Invalidated \/ Connect PROVE NoneBegins(svc')
  BY <1>s, <1>12 DEF Job_Stale, Invalidated, Connect
<1>13. ASSUME Entered PROVE NoneBegins(svc')
  <2>1. CASE Resumed(svc, session.generation)
    BY <1>s, <1>13, <2>1 DEF Entered, Resume
  <2>2. CASE ~Resumed(svc, session.generation)
    <3>1. PICK g \in Nat : g = session.generation
      BY <1>0
    <3>2. PICK t : t = Resume(svc, g)
      OBVIOUS
    <3>3. ResumedFrom(svc, t, g) /\ svc' = t
      BY <1>0, <1>13, <2>2, <3>1, <3>2, ResumeIs DEF Given, Entered
    <3> QED BY <3>3, SameBegins DEF ResumedFrom
  <2> QED BY <2>1, <2>2
<1>14. ASSUME Read_Settles PROVE NoneBegins(svc')
  <2>1. PICK b \in BOOLEAN : b <=> FALSE
    OBVIOUS
  <2>2. b = FALSE
    BY <2>1
  <2>3. svc' = svc \/ \E o \in Ops : svc' = ForegroundRetired(svc, o, FALSE)
    BY <1>14 DEF Read_Settles
  <2> QED BY <1>s, <1>8, <2>2, <2>3
<1>15. ASSUME RawTerminal \/ Offer PROVE NoneBegins(svc')
  BY <1>p, <1>15 DEF RawTerminal, Offer
<1>16. ASSUME NEW s \in Services PROVE NoneBegins(PollsCancelled(s))
  <2>1. \A p \in Plans : PollsCancelled(s).active[p] # "running"
    BY <1>16, PollsCancelledIs
  <2> QED BY <2>1 DEF NoneBegins
<1>17. ASSUME RecordingLost \/ Disconnect PROVE NoneBegins(svc')
  <2>1. PICK a, d : a = Pause(svc) /\ d = [a EXCEPT !.closed = TRUE, !.releasing = FALSE]
    OBVIOUS
  <2>2. a \in Services
    BY <1>0, <2>1, PauseIs
  <2>3. d \in Services
    BY <2>1, <2>2 DEF Services
  <2>4. svc' \in {PollsCancelled(a), PollsCancelled(d)}
    BY <1>17, <2>1 DEF RecordingLost, Disconnect
  <2> QED BY <1>16, <2>2, <2>3, <2>4
<1> QED BY <1>1, <1>2, <1>3, <1>4, <1>5, <1>6, <1>7, <1>9, <1>10, <1>11, <1>12, <1>13, <1>14, <1>15, <1>17 DEF PollNext

\* What the invariant says of a poll that starts.
LEMMA StartKeepsDistance == ASSUME Given, PollInv, PollNext PROVE KeepsDistance
<1> SUFFICES ASSUME NEW p \in Plans, svc.active[p] = "none", svc'.active[p] = "running"
             PROVE  /\ session.link /\ ~session.entering /\ ~session.offer /\ ~session.lost
                    /\ svc.generation = session.generation
                    /\ ~svc.releasing /\ ~svc.released
                    /\ history.owed[p] = 0
                    /\ p \in Timed => ~ForegroundBusy /\ history.idleFor >= Interval
  BY DEF KeepsDistance
<1>1. \E q \in Plans : Job_Poll(q)
  BY OthersBegin DEF NoneBegins
<1>2. Armable(svc, p) /\ svc.due[p] = 0 /\ Startable /\ ~session.offer
  BY <1>1, TurnBegins
<1>3. svc.enabled /\ ~svc.released
  BY <1>2 DEF Armable
<1>4. session.link /\ ~session.entering /\ svc.generation = session.generation
  BY <1>3, Facts DEF LinkInv
<1>5. history.owed[p] = 0
  <2>1. history.owed[p] <= svc.due[p] /\ history.owed[p] \in Nat
    BY Facts DEF DistanceInv, Histories
  <2> QED BY <1>2, <2>1
<1>6. ASSUME p \in Timed PROVE ~ForegroundBusy /\ history.idleFor >= Interval
  <2>1. Foreground(svc) = {}
    BY <1>2, <1>6 DEF Armable
  <2>2. history.idleFor + svc.due[p] >= Interval /\ history.idleFor \in Nat /\ Interval \in Nat
    BY <1>3, <1>6, <2>1, Facts DEF DistanceInv, Histories, Given, PollAssumption
  <2> QED BY <1>2, <1>3, <2>1, <2>2, FreeIsIdle
<1> QED BY <1>2, <1>3, <1>4, <1>5, <1>6 DEF Startable

-----------------------------------------------------------------------------
(* The properties, for any plans, operations and delays.                   *)

\* Nothing scheduled is forgotten and nothing is scheduled twice: the service is on whenever
\* the session can use it, every plan that may be polled has one timer or one turn, and so
\* does the idle release, except one that is due and was forsaken: its last obstruction was
\* an operation of an older connection, and until an operation starts or the connection
\* changes the code tries neither it nor any poll.
THEOREM PollsNeverForgotten ==
  ASSUME PollAssumption, NamesAssumption PROVE PollSpec => []NothingForgotten
<1>1. PollInv => NothingForgotten
  BY NothingIsForgotten
<1> QED BY <1>1, PollInvariant, PTL

\* The bucket that the plans share grants a poll exactly when one that is refilled at every
\* period would.
THEOREM PollsShareBucket ==
  ASSUME PollAssumption, NamesAssumption PROVE PollSpec => []BucketExact
<1>1. PollInv => BucketExact
  BY BucketIsExact
<1> QED BY <1>1, PollInvariant, PTL

\* A poll starts on its own connection, at its distance from the last one and from the
\* foreground, and never while the device is released.
THEOREM PollsStayApart ==
  ASSUME PollAssumption, NamesAssumption PROVE PollSpec => PollsKeepDistance
<1>1. PollInv /\ [PollNext]_pollVars => [KeepsDistance]_pollVars
  <2>1. PollInv => topology \in {"releasing", "periodic"}
    BY DEF PollInv
  <2> QED BY <2>1, StartKeepsDistance DEF Given
<1> QED BY <1>1, PollInvariant, PTL DEF PollSpec, PollsKeepDistance
=============================================================================
