----------------------- MODULE AuthoredTransferProofs -----------------------
(***************************************************************************)
(* Proofs about the resumable transfer service over the command line's     *)
(* checkpoint store.                                                       *)
(*                                                                         *)
(* The inductive invariant says, for each process, what its service and    *)
(* its store call may be together (Shape), what the checkpoints it holds   *)
(* in memory say of the file and the device (Agrees) and what it may       *)
(* believe of the lock file (Locked); for the device, that it is behind    *)
(* the durable horizon (DeviceInv); and it counts the finalizations        *)
(* (FinalsInv).  A service's step is proved in two parts: the process it   *)
(* belongs to goes on (the lemmas ...Goes), and the rest stays (StillGo).  *)
(* The steps of the store, of a crash, of the link and of the device       *)
(* follow, then the theorems.                                              *)
(***************************************************************************)
EXTENDS AuthoredTransfer, FiniteSets, FiniteSetTheorems, FunctionTheorems, SequenceTheorems, TLAPS

\* What a service, a store call, a carrier and a report may be.
ServiceOps == {"none", "prepare", "open", "report", "admit", "finalize", "verify", "retire", "release"}
Services == [at : {"idle", "ready", "refused", "waiting", "sending"}, op : ServiceOps,
             claim : Checkpoints \cup {None}, resuming : BOOLEAN, quiet : BOOLEAN,
             submitted : 0 .. Length, next : 0 .. Length, src : Sources \cup {None}, revoked : BOOLEAN]
Calls == [op : {"none", "claim", "commit", "release", "complete"},
          at : {"idle", "read", "open", "reopen", "write", "inspect", "unlink", "rename",
                "file", "lock", "done", "failed"},
          seen : Checkpoints \cup {None}, want : Checkpoints \cup {None}]
Carriers == [kind : {"data"}, lo : 0 .. Length, hi : 0 .. Length, src : Sources] \cup [kind : {"final"}]
Reports == [kind : {"report"}, gen : Nat, com : 0 .. Length, vol : 0 .. Length]
             \cup [kind : {"digest"}, gen : Nat, img : Seq(Sources)]

\* The type invariant.
TypeOK ==
  /\ file \in Checkpoints \cup {None}
  /\ lock \in [pid : Procs, written : BOOLEAN] \cup {None}
  /\ temporary \in [Procs -> BOOLEAN] /\ claims \in [Procs -> BOOLEAN] /\ live \in [Procs -> BOOLEAN]
  /\ call \in [Procs -> Calls] /\ svc \in [Procs -> Services]
  /\ faults \in Nat
  /\ policy \in {"repeatable", "not-repeatable"} /\ conn \in Procs \cup {None}
  /\ wire \in Seq(Carriers) /\ inbox \in Reports \cup {None}
  /\ dev \in [gen : Nat, vol : 0 .. Length, com : 0 .. Length, img : Seq(Sources), reached : 0 .. Length, fin : Nat]
  /\ outcome \in {"none", "open", "verified", "retired"} /\ closings \in Nat /\ attempts \in Nat

\* A checkpoint that has entered finalization.
Closing(r) == r.phase \in {"finalizing", "verifying"}

\* what p's call c says of the lock file
Holding(p, c) ==
  \/ claims[p]
  \/ c.op = "claim" /\ c.at = "write"
  \/ c.op = "release" /\ c.at = "unlink"

\* A process that holds the lock file wrote its own name into it, and one that
\* removes a dead owner's lock still finds a dead owner there.
Locked(p, c) ==
  /\ claims[p] \/ c # Idle => live[p]
  /\ Holding(p, c) => lock # None /\ lock.pid = p
  /\ c.op = "claim" /\ c.at = "unlink" => lock # None /\ ~live[lock.pid]
  /\ c.op = "complete" /\ c.at \in {"file", "lock"} => claims[p]
  /\ c.op = "commit" /\ c.at \in {"rename", "done"} => claims[p]
  /\ c.op = "release" => ~claims[p]

\* The horizon the checkpoint admits.
Horizon == IF file # None THEN file.admitted ELSE IF outcome = "none" THEN 0 ELSE Length

\* What checkpoint r says is behind the device and from the file's source.
Known(r) ==
  /\ outcome # "none"
  /\ r.gen # None => r.gen <= dev.gen
  /\ r.gen = dev.gen => r.prefix <= dev.com
  /\ r.prefix <= dev.reached
  /\ file # None => r.src = file.src

\* r is the checkpoint's file or one of its earlier revisions.
Older(r) == file # None => r.rev <= file.rev /\ (r.rev = file.rev => r = file)

\* What b, written by operation op, may change of a.
Follows(op, a, b) ==
  /\ b.rev = a.rev + 1 /\ b.src = a.src
  /\ \/ /\ op = "report" /\ b.phase = "transferring" /\ b.prefix >= a.prefix
        /\ b.admitted = a.admitted /\ (Closing(a) => Repeatable)
     \/ /\ op = "admit" /\ a.phase = "transferring" /\ b.phase = "transferring" /\ b.prefix = a.prefix
        /\ b.admitted >= a.admitted
     \/ /\ op = "finalize" /\ b.phase = "finalizing" /\ a.prefix = Length /\ b.prefix = Length
        /\ b.admitted = a.admitted /\ (Closing(a) => Repeatable)
     \/ /\ op = "verify" /\ Closing(a) /\ b.phase = "verifying" /\ b.prefix = a.prefix
        /\ b.admitted = a.admitted

\* The store calls a waiting service may be in, one definition for each kind.
Claiming(s, c) ==
  /\ s.op \in {"prepare", "open"} /\ s.claim = None
  /\ c.op = "claim" /\ c.at \in {"read", "open", "reopen", "write", "inspect", "unlink", "done", "failed"}
  /\ c.at \notin {"read", "failed"} => c.seen # None
  /\ c.want = None /\ (s.op = "open" => ~s.resuming)
Committing(s, c) ==
  /\ s.op \in {"report", "admit", "finalize", "verify"} /\ s.claim # None
  /\ c.op = "commit" /\ c.at \in {"write", "rename", "done", "failed"}
  /\ c.want # None /\ c.seen = None /\ Follows(s.op, s.claim, c.want)
  /\ s.op = "admit" => s.next <= c.want.admitted
  /\ s.op \in {"admit", "finalize"} => ~s.resuming
Completing(s, c) ==
  /\ s.op \in {"verify", "retire"} /\ s.claim # None
  /\ c.op = "complete" /\ c.at \in {"file", "lock", "done", "failed"} /\ c.want = None /\ c.seen = None
Releasing(s, c) ==
  /\ s.op = "release" /\ s.claim = None
  /\ c.op = "release" /\ c.at \in {"unlink", "done", "failed"} /\ c.want = None /\ c.seen = None

\* Which calls go with which service.
Shape(s, c) ==
  \/ s = NoService /\ c = Idle
  \/ s.at \in {"ready", "refused"} /\ c = Idle /\ s.op = "none"
  \/ s.at = "sending" /\ c = Idle /\ s.op \in {"admit", "finalize"} /\ s.claim # None
  \/ s.at = "waiting" /\ (Claiming(s, c) \/ Committing(s, c) \/ Completing(s, c) \/ Releasing(s, c))

\* what p holds agrees with the checkpoint's file and the device
Agrees(p, s, c) ==
  /\ s.at # "idle" => s.src \in Sources
  /\ s.claim # None => Known(s.claim) /\ Older(s.claim)
  /\ c.seen # None => Known(c.seen) /\ Older(c.seen)
  /\ c.want # None => Known(c.want)
  /\ c # Idle => outcome # "none"
  /\ (s.claim # None /\ s.at # "refused") \/ s.op = "open" => (file # None => s.src = file.src)
  /\ s.resuming /\ s.claim # None /\ s.at # "refused" /\ Closing(s.claim) => Repeatable
  /\ c.op = "commit" /\ c.at = "rename" => file # None /\ file.rev + 1 = c.want.rev
  /\ c.op = "commit" /\ c.at = "done" => file # None /\ file = c.want
  /\ s.op = "verify" => dev.fin > 0
  /\ s.op = "verify" /\ c.op = "complete" /\ c.at = "file" => file # None /\ file.phase = "verifying"
  /\ s.at = "sending" => claims[p] /\ (s.op = "admit" => s.next <= Horizon)

\* What holds of process p while its service is s and its call is c.
Process(p, s, c) == Shape(s, c) /\ Agrees(p, s, c) /\ Locked(p, c)

ProcessInv == \A p \in Procs : Process(p, svc[p], call[p])

\* The device is behind the horizon, its image and what is on its way to it come
\* from the checkpoint's source, and its reports are not ahead of it.
DeviceInv ==
  /\ dev.vol = Len(dev.img) /\ dev.com <= dev.vol /\ dev.vol <= Horizon /\ dev.com <= dev.reached
  /\ file # None => \A i \in 1 .. Len(dev.img) : dev.img[i] = file.src
  /\ \A i \in 1 .. Len(wire) : wire[i].kind = "data" =>
       wire[i].hi <= Horizon /\ (file # None => wire[i].src = file.src)
  /\ outcome = "none" => wire = <<>>
  /\ inbox # None /\ inbox.kind = "report" =>
       /\ inbox.gen <= dev.gen /\ (inbox.gen = dev.gen => inbox.com <= dev.com)
       /\ inbox.com <= dev.reached
  /\ inbox # None /\ inbox.kind = "digest" => dev.fin > 0
  /\ file # None => outcome = "open" /\ Known(file)
  /\ outcome = "open" => file # None

\* The two-process hypothesis: with three, two can remove the same dead owner's
\* lock and the claim is not exclusive (the run checkpoint_race).
AtMostTwo == \A a, b, c \in Procs : a = b \/ a = c \/ b = c

\* A finalization whose command is still to be written.
Finishes(s, c) == s.op = "finalize" /\ (s.at = "sending" \/ (c.op = "commit" /\ c.at = "done"))
Pending(p) == Finishes(svc[p], call[p])
FinalsOn(w) == Cardinality({i \in 1 .. Len(w) : w[i].kind = "final"})

\* Each finalization executed, on the wire or about to be written was closed for once.
FinalsInv == dev.fin + FinalsOn(wire) + (IF \E p \in Procs : Pending(p) THEN 1 ELSE 0) <= closings

\* The inductive invariant.
Inv == TypeOK /\ ProcessInv /\ DeviceInv /\ FinalsInv

\* p goes on as s, with the store call c
Goes(p, s, c) ==
  /\ svc' = [svc EXCEPT ![p] = s] /\ call' = [call EXCEPT ![p] = c]
  /\ s \in Services /\ c \in Calls /\ Process(p, s, c)'
  /\ Finishes(s, c) => Pending(p)

\* The file, the lock and the device stay.
Still == UNCHANGED <<file, lock, live, dev, outcome, policy>>

\* What is known of a checkpoint stays with them.
LEMMA StillKnown ==
  ASSUME Still, NEW r
  PROVE  /\ Known(r)' <=> Known(r)
         /\ Older(r)' <=> Older(r)
         /\ Horizon' = Horizon
BY DEF Still, Known, Older, Horizon

\* The fields of no call.
LEMMA IdleCall == Idle \in Calls /\ Idle.op = "none" /\ Idle.at = "idle" /\ Idle.seen = None /\ Idle.want = None
BY DEF Idle, Calls

\* What the invariant says of one process.
LEMMA AtProcess ==
  ASSUME TypeOK, ProcessInv, NEW p \in Procs
  PROVE  /\ svc[p] \in Services /\ call[p] \in Calls
         /\ Shape(svc[p], call[p]) /\ Agrees(p, svc[p], call[p]) /\ Locked(p, call[p])
<1>1. svc[p] \in Services /\ call[p] \in Calls
  BY DEF TypeOK
<1>2. Process(p, svc[p], call[p])
  BY DEF ProcessInv
<1> QED BY <1>1, <1>2 DEF Process

\* A service whose operation is over forgets the operation's details.
LEMMA Away ==
  ASSUME NEW r \in Services, NEW s, s = [r EXCEPT !.op = "none", !.quiet = FALSE, !.next = 0]
  PROVE  /\ s \in Services /\ s.op = "none" /\ s.next = 0
         /\ s.at = r.at /\ s.claim = r.claim /\ s.resuming = r.resuming /\ s.src = r.src
<1>1. 0 \in 0 .. Length
  BY TransferAssumption
<1> QED BY <1>1 DEF Services, ServiceOps

\* Enough for p to go on: the policy is fixed, so its shape survives the step.
LEMMA GoesOn ==
  ASSUME NEW p, NEW s \in Services, NEW c \in Calls,
         svc' = [svc EXCEPT ![p] = s], call' = [call EXCEPT ![p] = c],
         UNCHANGED policy, Shape(s, c), Agrees(p, s, c)', Locked(p, c)', Finishes(s, c) => Pending(p)
  PROVE  \E s1, c1 : Goes(p, s1, c1)
<1>1. Shape(s, c)'
  BY DEF Shape, Claiming, Committing, Completing, Releasing, Follows, Repeatable
<1> QED BY <1>1 DEF Goes, Process

\* The call a waiting service is in.
LEMMA Waits ==
  ASSUME NEW s \in Services, NEW c \in Calls, Shape(s, c), s.at = "waiting"
  PROVE  /\ s.op \in {"prepare", "open"} => Claiming(s, c)
         /\ s.op \in {"report", "admit", "finalize"} => Committing(s, c)
         /\ s.op = "verify" => Committing(s, c) \/ Completing(s, c)
         /\ s.op = "retire" => Completing(s, c)
         /\ s.op = "release" => Releasing(s, c)
BY DEF Shape, Claiming, Committing, Completing, Releasing, NoService

\* A service that is not waiting is in no call.
LEMMA Acts ==
  ASSUME NEW s, NEW c, Shape(s, c)
  PROVE  /\ s.at \in {"ready", "refused"} => c = Idle /\ s.op = "none"
         /\ s.at = "sending" => c = Idle /\ s.op \in {"admit", "finalize"} /\ s.claim # None
         /\ s.at = "idle" => s = NoService /\ c = Idle
BY DEF Shape, NoService

\* The fields of no service.
LEMMA NoServiceType ==
  ASSUME NEW s, s = NoService
  PROVE  /\ s \in Services /\ s.at = "idle" /\ s.op = "none" /\ s.claim = None /\ s.resuming = FALSE
         /\ s.quiet = FALSE /\ s.submitted = 0 /\ s.next = 0 /\ s.src = None /\ s.revoked = FALSE
<1>1. 0 \in 0 .. Length
  BY TransferAssumption
<1> QED BY <1>1 DEF NoService, Services, ServiceOps

\* The fields of a call that was just made.
LEMMA BegunCall ==
  ASSUME NEW op \in {"claim", "commit", "release", "complete"},
         NEW at \in {"read", "write", "unlink", "file", "failed"}, NEW want \in Checkpoints \cup {None},
         NEW c, c = [op |-> op, at |-> at, seen |-> None, want |-> want]
  PROVE  c \in Calls /\ c.op = op /\ c.at = at /\ c.seen = None /\ c.want = want /\ c # Idle
BY DEF Calls, Idle

\* prepare() goes on with the checkpoint it claimed.
LEMMA PreparedGoes ==
  ASSUME TypeOK, ProcessInv, NEW p \in Procs, Prepared(p)
  PROVE  \E s, c : Goes(p, s, c)
<1> PICK s0, c0 : s0 = svc[p] /\ c0 = call[p]
  OBVIOUS
<1>1. /\ s0 \in Services /\ c0 \in Calls /\ Shape(s0, c0) /\ Agrees(p, s0, c0) /\ Locked(p, c0)
  BY AtProcess
<1>2. /\ s0.at = "waiting" /\ s0.op = "prepare" /\ c0.at = "done" /\ Still /\ UNCHANGED claims
      /\ live[p]
  BY DEF Prepared, Returned, Disk, env, ghosts, Still
<1> DEFINE ok == ~s0.revoked /\ MayResume(c0.seen, s0.src)
           at == IF ok THEN "ready" ELSE "refused"
<1> PICK r : r = [s0 EXCEPT !.at = at, !.claim = c0.seen, !.submitted = c0.seen.prefix]
  OBVIOUS
<1> PICK s : s = [r EXCEPT !.op = "none", !.quiet = FALSE, !.next = 0]
  OBVIOUS
<1>4. c0.op = "claim" /\ c0.seen # None /\ c0.seen \in Checkpoints /\ c0.want = None
  BY <1>1, <1>2 DEF Shape, Claiming, Committing, Completing, Releasing, Services, Calls, NoService
<1>5. c0.seen.prefix \in 0 .. Length /\ at \in {"ready", "refused"}
  BY <1>4 DEF Checkpoints
<1>6. r \in Services /\ r.at = at /\ r.claim = c0.seen /\ r.resuming = s0.resuming /\ r.src = s0.src
  <2> HIDE DEF at
  <2> QED BY <1>1, <1>4, <1>5 DEF Services
<1>7. /\ s \in Services /\ s.at = at /\ s.claim = c0.seen /\ s.op = "none"
      /\ s.resuming = s0.resuming /\ s.src = s0.src
  <2> HIDE DEF at
  <2> QED BY <1>6, Away
<1>3. svc' = [svc EXCEPT ![p] = s] /\ call' = [call EXCEPT ![p] = Idle]
  <2>1. r.at # "sending"
    BY <1>6
  <2> QED BY <2>1 DEF Prepared, Back
<1>8. Shape(s, Idle)
  BY <1>7 DEF Shape
<1>9. Agrees(p, s, Idle)'
  BY <1>1, <1>2, <1>4, <1>7, IdleCall, StillKnown DEF Agrees, MayResume, Closing, Known, Still, Repeatable
<1>10. Locked(p, Idle)'
  BY <1>1, <1>2, IdleCall DEF Locked, Holding, Still
<1> QED BY <1>2, <1>3, <1>7, <1>8, <1>9, <1>10, IdleCall, GoesOn DEF Still, Pending, Finishes

\* #open() goes on with the checkpoint it created and claimed.
LEMMA OpenedGoes ==
  ASSUME TypeOK, ProcessInv, NEW p \in Procs, Opened(p)
  PROVE  \E s, c : Goes(p, s, c)
<1> PICK s0, c0 : s0 = svc[p] /\ c0 = call[p]
  OBVIOUS
<1>1. /\ s0 \in Services /\ c0 \in Calls /\ Shape(s0, c0) /\ Agrees(p, s0, c0) /\ Locked(p, c0)
      /\ svc \in [Procs -> Services] /\ call \in [Procs -> Calls]
  BY AtProcess DEF TypeOK
<1>2. /\ s0.at = "waiting" /\ s0.op = "open" /\ c0.at = "done" /\ Still /\ UNCHANGED claims
      /\ live[p]
  BY DEF Opened, Returned, Disk, env, ghosts, Still
<1>3. c0.op = "claim" /\ c0.seen # None /\ c0.seen \in Checkpoints /\ ~s0.resuming
  BY <1>1, <1>2, Waits, NoneAssumption DEF Claiming, Committing, Completing, Releasing, Calls, Follows
<1> PICK r : r = [s0 EXCEPT !.at = "ready", !.claim = c0.seen]
  OBVIOUS
<1> PICK s : s = [r EXCEPT !.op = "none", !.quiet = FALSE, !.next = 0]
  OBVIOUS
<1>4. r \in Services /\ r.at = "ready" /\ r.claim = c0.seen /\ r.resuming = s0.resuming /\ r.src = s0.src
  BY <1>1, <1>3 DEF Services, Checkpoints
<1>5. s \in Services /\ s.op = "none" /\ s.at = "ready" /\ s.claim = c0.seen /\ s.resuming = s0.resuming /\ s.src = s0.src
  BY <1>4, Away
<1>6. svc' = [svc EXCEPT ![p] = s] /\ call' = [call EXCEPT ![p] = Idle]
  <2>1. r.at # "sending"
    BY <1>4
  <2> QED BY <2>1 DEF Opened, Back
<1>7. Shape(s, Idle)
  BY <1>5 DEF Shape
<1>8. Agrees(p, s, Idle)'
  BY <1>1, <1>2, <1>3, <1>5, IdleCall, StillKnown DEF Agrees, Closing, Known, Older, Still, Repeatable
<1>9. Locked(p, Idle)'
  BY <1>1, <1>2, IdleCall DEF Locked, Holding, Still
<1> QED BY <1>2, <1>5, <1>6, <1>7, <1>8, <1>9, IdleCall, GoesOn DEF Still, Pending, Finishes

\* #report() goes on once its commit is made.
LEMMA ReportedGoes ==
  ASSUME TypeOK, ProcessInv, NEW p \in Procs, Reported(p)
  PROVE  \E s, c : Goes(p, s, c)
<1> PICK s0, c0 : s0 = svc[p] /\ c0 = call[p]
  OBVIOUS
<1>1. /\ s0 \in Services /\ c0 \in Calls /\ Shape(s0, c0) /\ Agrees(p, s0, c0) /\ Locked(p, c0)
      /\ svc \in [Procs -> Services] /\ call \in [Procs -> Calls]
  BY AtProcess DEF TypeOK
<1>2. /\ s0.at = "waiting" /\ s0.op = "report" /\ c0.at = "done" /\ Still /\ UNCHANGED claims
      /\ live[p]
  BY DEF Reported, Returned, Disk, env, ghosts, Still
<1>3. /\ c0.op = "commit" /\ c0.want \in Checkpoints /\ c0.want # None /\ s0.claim # None
      /\ c0.want.phase = "transferring"
  BY <1>1, <1>2, Waits, NoneAssumption DEF Committing, Calls, Follows
<1> PICK on : on = (s0.resuming /\ s0.quiet /\ ~s0.revoked)
  OBVIOUS
<1> PICK n, b : n = (IF on THEN c0.want.prefix ELSE s0.submitted) /\ b = (s0.resuming /\ ~on)
  OBVIOUS
<1> PICK r : r = [s0 EXCEPT !.at = "ready", !.claim = c0.want, !.submitted = n, !.resuming = b]
  OBVIOUS
<1> PICK s : s = [r EXCEPT !.op = "none", !.quiet = FALSE, !.next = 0]
  OBVIOUS
<1>4. n \in 0 .. Length /\ b \in BOOLEAN
  BY <1>1, <1>3 DEF Services, Checkpoints
<1>5. r \in Services /\ r.at = "ready" /\ r.claim = c0.want /\ r.src = s0.src /\ (r.resuming <=> b)
  BY <1>1, <1>3, <1>4 DEF Services
<1>6. s \in Services /\ s.op = "none" /\ s.at = "ready" /\ s.claim = c0.want /\ s.src = s0.src
  BY <1>5, Away
<1>7. svc' = [svc EXCEPT ![p] = s] /\ call' = [call EXCEPT ![p] = Idle]
  <2>1. r.at # "sending"
    BY <1>5
  <2>2. r = [s0 EXCEPT !.at = "ready", !.claim = c0.want,
               !.submitted = IF on THEN c0.want.prefix ELSE @, !.resuming = @ /\ ~on]
    BY <1>1 DEF Services
  <2> QED BY <2>1, <2>2 DEF Reported, Back
<1>8. Shape(s, Idle)
  BY <1>6 DEF Shape
<1>9. Agrees(p, s, Idle)'
  BY <1>1, <1>2, <1>3, <1>6, IdleCall, StillKnown DEF Agrees, Closing, Known, Older, Still, Checkpoints
<1>10. Locked(p, Idle)'
  BY <1>1, <1>2, IdleCall DEF Locked, Holding, Still
<1> QED BY <1>2, <1>6, <1>7, <1>8, <1>9, <1>10, IdleCall, GoesOn DEF Still, Pending, Finishes

\* #admit() goes on to the carrier's write once the horizon is durable.
LEMMA AdmittedGoes ==
  ASSUME TypeOK, ProcessInv, NEW p \in Procs, Admitted(p)
  PROVE  \E s, c : Goes(p, s, c)
<1> PICK s0, c0 : s0 = svc[p] /\ c0 = call[p]
  OBVIOUS
<1>1. /\ s0 \in Services /\ c0 \in Calls /\ Shape(s0, c0) /\ Agrees(p, s0, c0) /\ Locked(p, c0)
      /\ svc \in [Procs -> Services] /\ call \in [Procs -> Calls]
  BY AtProcess DEF TypeOK
<1>2. /\ s0.at = "waiting" /\ s0.op = "admit" /\ c0.at = "done" /\ Still /\ UNCHANGED claims
      /\ live[p]
  BY DEF Admitted, Returned, Disk, env, ghosts, Still
<1>3. /\ c0.op = "commit" /\ c0.want \in Checkpoints /\ c0.want # None /\ s0.claim # None
      /\ (s0.op = "admit" => s0.next <= c0.want.admitted) /\ Follows(s0.op, s0.claim, c0.want) /\ ~s0.resuming
  BY <1>1, <1>2, Waits, NoneAssumption DEF Committing, Calls
<1> PICK at : at = (IF s0.revoked THEN "ready" ELSE "sending")
  OBVIOUS
<1>r. PICK r : r = [s0 EXCEPT !.claim = c0.want, !.at = at]
  OBVIOUS
<1>4. /\ r \in Services /\ r.at = at /\ r.claim = c0.want /\ r.resuming = s0.resuming
      /\ r.src = s0.src /\ r.op = s0.op /\ r.next = s0.next
  BY <1>r, <1>1, <1>3 DEF Services
<1>0. PICK s : s = (IF at = "sending" THEN r ELSE [r EXCEPT !.op = "none", !.quiet = FALSE, !.next = 0])
  OBVIOUS
<1>5. /\ s \in Services /\ s.at = at /\ s.claim = c0.want /\ s.resuming = s0.resuming
      /\ s.src = s0.src /\ (at = "sending" => s.op = s0.op /\ s.next = s0.next)
      /\ (at = "ready" => s.op = "none")
  <2>1. CASE at = "sending"
    <3>1. s = r
      BY <1>0, <2>1
    <3> QED BY <1>4, <2>1, <3>1
  <2>2. CASE at # "sending"
    <3>1. s = [r EXCEPT !.op = "none", !.quiet = FALSE, !.next = 0]
      BY <1>0, <2>2
    <3>2. r \in Services
      BY <1>4
    <3>3. /\ s \in Services /\ s.op = "none" /\ s.next = 0
          /\ s.at = r.at /\ s.claim = r.claim /\ s.resuming = r.resuming /\ s.src = r.src
      BY <3>1, <3>2, Away
    <3> QED BY <1>4, <2>2, <3>3
  <2> QED BY <2>1, <2>2
<1>6. svc' = [svc EXCEPT ![p] = s] /\ call' = [call EXCEPT ![p] = Idle]
  <2>1. r = [svc[p] EXCEPT !.claim = call[p].want, !.at = IF svc[p].revoked THEN "ready" ELSE "sending"]
    BY <1>r
  <2>2. s = IF r.at = "sending" THEN r ELSE [r EXCEPT !.op = "none", !.quiet = FALSE, !.next = 0]
    BY <1>0, <1>4
  <2> QED BY <2>1, <2>2 DEF Admitted, Back
<1>7. Shape(s, Idle)
  BY <1>2, <1>3, <1>5 DEF Shape
<1>8. s.resuming /\ Closing(s.claim) => Repeatable
  BY <1>3, <1>5
<1>9. Known(s.claim) /\ Older(s.claim) /\ claims[p] /\ file = c0.want /\ file # None
  BY <1>1, <1>2, <1>3, <1>5 DEF Agrees, Older, Locked, Checkpoints
<1>10. s.at = "sending" => (s.op = "admit" => s.next <= Horizon)
  BY <1>2, <1>3, <1>5, <1>9 DEF Horizon
<1>11. Agrees(p, s, Idle)'
  BY <1>1, <1>2, <1>3, <1>5, <1>8, <1>9, <1>10, IdleCall, StillKnown DEF Agrees, Closing, Known, Still, Repeatable
<1>12. Locked(p, Idle)'
  BY <1>1, <1>2, IdleCall DEF Locked, Holding, Still
<1> QED BY <1>2, <1>5, <1>6, <1>7, <1>11, <1>12, IdleCall, GoesOn DEF Still, Pending, Finishes

\* #finalize() goes on to its command once the checkpoint says so.
LEMMA FinalizingGoes ==
  ASSUME TypeOK, ProcessInv, NEW p \in Procs, Finalizing(p)
  PROVE  \E s, c : Goes(p, s, c)
<1> PICK s0, c0 : s0 = svc[p] /\ c0 = call[p]
  OBVIOUS
<1>1. /\ s0 \in Services /\ c0 \in Calls /\ Shape(s0, c0) /\ Agrees(p, s0, c0) /\ Locked(p, c0)
      /\ svc \in [Procs -> Services] /\ call \in [Procs -> Calls]
  BY AtProcess DEF TypeOK
<1>2. /\ s0.at = "waiting" /\ s0.op = "finalize" /\ c0.at = "done" /\ Still /\ UNCHANGED claims
      /\ live[p]
  BY DEF Finalizing, Returned, Disk, env, ghosts, Still
<1>3. /\ c0.op = "commit" /\ c0.want \in Checkpoints /\ c0.want # None /\ s0.claim # None
      /\ (s0.op = "admit" => s0.next <= c0.want.admitted) /\ Follows(s0.op, s0.claim, c0.want) /\ ~s0.resuming
  BY <1>1, <1>2, Waits, NoneAssumption DEF Committing, Calls
<1> PICK at : at = (IF s0.revoked THEN "ready" ELSE "sending")
  OBVIOUS
<1>r. PICK r : r = [s0 EXCEPT !.claim = c0.want, !.at = at]
  OBVIOUS
<1>4. /\ r \in Services /\ r.at = at /\ r.claim = c0.want /\ r.resuming = s0.resuming
      /\ r.src = s0.src /\ r.op = s0.op /\ r.next = s0.next
  BY <1>r, <1>1, <1>3 DEF Services
<1>0. PICK s : s = (IF at = "sending" THEN r ELSE [r EXCEPT !.op = "none", !.quiet = FALSE, !.next = 0])
  OBVIOUS
<1>5. /\ s \in Services /\ s.at = at /\ s.claim = c0.want /\ s.resuming = s0.resuming
      /\ s.src = s0.src /\ (at = "sending" => s.op = s0.op /\ s.next = s0.next)
      /\ (at = "ready" => s.op = "none")
  <2>1. CASE at = "sending"
    <3>1. s = r
      BY <1>0, <2>1
    <3> QED BY <1>4, <2>1, <3>1
  <2>2. CASE at # "sending"
    <3>1. s = [r EXCEPT !.op = "none", !.quiet = FALSE, !.next = 0]
      BY <1>0, <2>2
    <3>2. r \in Services
      BY <1>4
    <3>3. /\ s \in Services /\ s.op = "none" /\ s.next = 0
          /\ s.at = r.at /\ s.claim = r.claim /\ s.resuming = r.resuming /\ s.src = r.src
      BY <3>1, <3>2, Away
    <3> QED BY <1>4, <2>2, <3>3
  <2> QED BY <2>1, <2>2
<1>6. svc' = [svc EXCEPT ![p] = s] /\ call' = [call EXCEPT ![p] = Idle]
  <2>1. r = [svc[p] EXCEPT !.claim = call[p].want, !.at = IF svc[p].revoked THEN "ready" ELSE "sending"]
    BY <1>r
  <2>2. s = IF r.at = "sending" THEN r ELSE [r EXCEPT !.op = "none", !.quiet = FALSE, !.next = 0]
    BY <1>0, <1>4
  <2> QED BY <2>1, <2>2 DEF Finalizing, Back
<1>7. Shape(s, Idle)
  BY <1>2, <1>3, <1>5 DEF Shape
<1>8. s.resuming /\ Closing(s.claim) => Repeatable
  BY <1>3, <1>5
<1>9. Known(s.claim) /\ Older(s.claim) /\ claims[p] /\ file = c0.want /\ file # None
  BY <1>1, <1>2, <1>3, <1>5 DEF Agrees, Older, Locked, Checkpoints
<1>10. s.at = "sending" => (s.op = "admit" => s.next <= Horizon)
  BY <1>2, <1>3, <1>5, <1>9 DEF Horizon
<1>11. Agrees(p, s, Idle)'
  BY <1>1, <1>2, <1>3, <1>5, <1>8, <1>9, <1>10, IdleCall, StillKnown DEF Agrees, Closing, Known, Still, Repeatable
<1>12. Locked(p, Idle)'
  BY <1>1, <1>2, IdleCall DEF Locked, Holding, Still
<1> QED BY <1>2, <1>3, <1>5, <1>6, <1>7, <1>11, <1>12, IdleCall, GoesOn DEF Still, Pending, Finishes

\* The carrier is written.
LEMMA SendGoes ==
  ASSUME TypeOK, ProcessInv, NEW p \in Procs, Send(p)
  PROVE  \E s, c : Goes(p, s, c)
<1> PICK s0, c0 : s0 = svc[p] /\ c0 = call[p]
  OBVIOUS
<1>1. /\ s0 \in Services /\ c0 \in Calls /\ Shape(s0, c0) /\ Agrees(p, s0, c0) /\ Locked(p, c0)
      /\ svc \in [Procs -> Services] /\ call \in [Procs -> Calls]
  BY AtProcess DEF TypeOK
<1>2. /\ s0.at = "sending" /\ Still /\ UNCHANGED <<claims, call>> /\ live[p]
  BY DEF Send, store, ghosts, Still
<1>3. c0 = Idle
  BY <1>1, <1>2, Acts
<1> PICK s : s = [s0 EXCEPT !.at = "ready", !.op = "none", !.submitted = s0.next, !.next = 0]
  OBVIOUS
<1>4. 0 \in 0 .. Length
  BY TransferAssumption
<1>5. /\ s \in Services /\ s.at = "ready" /\ s.claim = s0.claim /\ s.resuming = s0.resuming
      /\ s.src = s0.src /\ s.op = "none"
  BY <1>1, <1>4 DEF Services, ServiceOps
<1>6. svc' = [svc EXCEPT ![p] = s] /\ call' = [call EXCEPT ![p] = Idle]
  <2>1. svc' = [svc EXCEPT ![p] = s]
    BY <1>1 DEF Send, Services
  <2> QED BY <1>1, <1>2, <1>3, <2>1
<1>7. Shape(s, Idle)
  BY <1>5 DEF Shape
<1>8. Agrees(p, s, Idle)'
  BY <1>1, <1>2, <1>3, <1>5, IdleCall, StillKnown DEF Agrees, Closing, Known, Still, Repeatable
<1>9. Locked(p, Idle)'
  BY <1>1, <1>2, <1>3, IdleCall DEF Locked, Holding, Still
<1> QED BY <1>2, <1>5, <1>6, <1>7, <1>8, <1>9, IdleCall, GoesOn DEF Still, Pending, Finishes

\* The finalization is commanded.
LEMMA SendFinalGoes ==
  ASSUME TypeOK, ProcessInv, NEW p \in Procs, SendFinal(p)
  PROVE  \E s, c : Goes(p, s, c)
<1> PICK s0, c0 : s0 = svc[p] /\ c0 = call[p]
  OBVIOUS
<1>1. /\ s0 \in Services /\ c0 \in Calls /\ Shape(s0, c0) /\ Agrees(p, s0, c0) /\ Locked(p, c0)
      /\ svc \in [Procs -> Services] /\ call \in [Procs -> Calls]
  BY AtProcess DEF TypeOK
<1>2. /\ s0.at = "sending" /\ Still /\ UNCHANGED <<claims, call>> /\ live[p]
  BY DEF SendFinal, store, ghosts, Still
<1>3. c0 = Idle
  BY <1>1, <1>2, Acts
<1> PICK s : s = [s0 EXCEPT !.at = "ready", !.op = "none"]
  OBVIOUS
<1>4. 0 \in 0 .. Length
  BY TransferAssumption
<1>5. /\ s \in Services /\ s.at = "ready" /\ s.claim = s0.claim /\ s.resuming = s0.resuming
      /\ s.src = s0.src /\ s.op = "none"
  BY <1>1, <1>4 DEF Services, ServiceOps
<1>6. svc' = [svc EXCEPT ![p] = s] /\ call' = [call EXCEPT ![p] = Idle]
  <2>1. svc' = [svc EXCEPT ![p] = s]
    BY <1>1 DEF SendFinal, Services
  <2> QED BY <1>1, <1>2, <1>3, <2>1
<1>7. Shape(s, Idle)
  BY <1>5 DEF Shape
<1>8. Agrees(p, s, Idle)'
  BY <1>1, <1>2, <1>3, <1>5, IdleCall, StillKnown DEF Agrees, Closing, Known, Still, Repeatable
<1>9. Locked(p, Idle)'
  BY <1>1, <1>2, <1>3, IdleCall DEF Locked, Holding, Still
<1> QED BY <1>2, <1>5, <1>6, <1>7, <1>8, <1>9, IdleCall, GoesOn DEF Still, Pending, Finishes

\* A process nothing happens to.
LEMMA StaysGoes ==
  ASSUME TypeOK, ProcessInv, NEW p \in Procs, Still, UNCHANGED <<svc, call, claims>>
  PROVE  \E s, c : Goes(p, s, c)
<1>1. /\ svc[p] \in Services /\ call[p] \in Calls /\ Shape(svc[p], call[p])
      /\ Agrees(p, svc[p], call[p]) /\ Locked(p, call[p])
  BY AtProcess
<1>2. svc' = [svc EXCEPT ![p] = svc[p]] /\ call' = [call EXCEPT ![p] = call[p]]
  BY DEF TypeOK
<1> PICK s0, c0 : s0 = svc[p] /\ c0 = call[p]
  OBVIOUS
<1>3. Agrees(p, s0, c0)' /\ Locked(p, c0)'
  BY <1>1, StillKnown DEF Agrees, Locked, Holding, Still, Repeatable
<1> QED BY <1>1, <1>2, <1>3, GoesOn DEF Still, Pending, Finishes

\* A service that begins a store call in its own turn.
LEMMA AwaitType ==
  ASSUME NEW r \in Services, NEW op \in ServiceOps, NEW s, s = [r EXCEPT !.at = "waiting", !.op = op]
  PROVE  /\ s \in Services /\ s.at = "waiting" /\ s.op = op /\ s.claim = r.claim
         /\ s.resuming = r.resuming /\ s.src = r.src /\ s.next = r.next
BY DEF Services

\* A commit's checkpoint is the next revision.
LEMMA NextRevision ==
  ASSUME NEW r \in Checkpoints, NEW q, q = [r EXCEPT !.rev = @ + 1]
  PROVE  /\ q \in Checkpoints /\ q # None /\ q.rev = r.rev + 1 /\ q.phase = r.phase /\ q.gen = r.gen
         /\ q.prefix = r.prefix /\ q.admitted = r.admitted /\ q.src = r.src
<1>1. r.rev + 1 \in Nat
  BY DEF Checkpoints
<1>2. q \in Checkpoints
  BY <1>1 DEF Checkpoints
<1> QED BY <1>1, <1>2, NoneAssumption DEF Checkpoints

\* prepare() begins, with a claim when it resumes.
LEMMA PrepareGoes ==
  ASSUME TypeOK, ProcessInv, NEW src \in Sources, NEW resume \in BOOLEAN, NEW p \in Procs, Prepare(p, src, resume)
  PROVE  \E s, c : Goes(p, s, c)
<1> PICK s0, c0 : s0 = svc[p] /\ c0 = call[p]
  OBVIOUS
<1>1. /\ s0 \in Services /\ c0 \in Calls /\ Shape(s0, c0) /\ Agrees(p, s0, c0) /\ Locked(p, c0)
      /\ svc \in [Procs -> Services] /\ call \in [Procs -> Calls]
  BY AtProcess DEF TypeOK
<1>2. s0 = NoService /\ c0 = Idle /\ live[p] /\ Still /\ UNCHANGED claims /\ resume = (outcome # "none")
  BY DEF Prepare, Disk, env, Still
<1> PICK n : n = NoService
  OBVIOUS
<1>3. CASE resume
  <2> PICK c : c = [op |-> "claim", at |-> "read", seen |-> None, want |-> None]
    OBVIOUS
  <2> PICK s : s = [n EXCEPT !.at = "waiting", !.op = "prepare", !.resuming = TRUE, !.src = src]
    OBVIOUS
  <2>0. n \in Services /\ n.op = "none" /\ n.claim = None
    BY NoServiceType
  <2>1. /\ s \in Services /\ s.at = "waiting" /\ s.op = "prepare" /\ s.claim = None /\ s.src = src
    BY <2>0 DEF Services, ServiceOps
  <2>2. c \in Calls /\ c.op = "claim" /\ c.at = "read" /\ c.seen = None /\ c.want = None /\ c # Idle
    BY BegunCall
  <2>3. svc' = [svc EXCEPT ![p] = s] /\ call' = [call EXCEPT ![p] = c]
    BY <1>3 DEF Prepare, Claim, Begin
  <2>4. Shape(s, c)
    BY <2>1, <2>2 DEF Shape, Claiming
  <2>5. Agrees(p, s, c)'
    BY <1>2, <1>3, <2>1, <2>2 DEF Agrees, Still
  <2>6. Locked(p, c)'
    BY <1>1, <1>2, <2>2, IdleCall DEF Locked, Holding, Still
  <2> QED BY <1>2, <2>1, <2>2, <2>3, <2>4, <2>5, <2>6, GoesOn DEF Still, Pending, Finishes
<1>4. CASE ~resume
  <2> PICK s : s = [n EXCEPT !.at = "ready", !.src = src]
    OBVIOUS
  <2>0. n \in Services /\ n.op = "none" /\ n.claim = None
    BY NoServiceType
  <2>1. /\ s \in Services /\ s.at = "ready" /\ s.op = "none" /\ s.claim = None /\ s.src = src
    BY <2>0 DEF Services, ServiceOps
  <2>2. svc' = [svc EXCEPT ![p] = s] /\ call' = [call EXCEPT ![p] = Idle]
    BY <1>1, <1>2, <1>4 DEF Prepare
  <2>3. Shape(s, Idle)
    BY <2>1 DEF Shape
  <2>4. Agrees(p, s, Idle)'
    BY <1>2, <2>1, IdleCall DEF Agrees, Still
  <2>5. Locked(p, Idle)'
    BY <1>1, <1>2, IdleCall DEF Locked, Holding, Still
  <2> QED BY <1>2, <2>1, <2>2, <2>3, <2>4, <2>5, IdleCall, GoesOn DEF Still, Pending, Finishes
<1> QED BY <1>3, <1>4

\* #report() commits what an acceptable report says.
LEMMA ReportGoes ==
  ASSUME TypeOK, ProcessInv, DeviceInv, NEW p \in Procs, Report(p)
  PROVE  \E s, c : Goes(p, s, c)
<1> PICK s0, c0 : s0 = svc[p] /\ c0 = call[p]
  OBVIOUS
<1>1. /\ s0 \in Services /\ c0 \in Calls /\ Shape(s0, c0) /\ Agrees(p, s0, c0) /\ Locked(p, c0)
      /\ svc \in [Procs -> Services] /\ call \in [Procs -> Calls]
  BY AtProcess DEF TypeOK
<1>2. CASE ~Acceptable(p, inbox)
  <2>1. Still /\ UNCHANGED <<svc, call, claims>>
    BY <1>2 DEF Report, store, ghosts, Still
  <2> QED BY <2>1, StaysGoes
<1>3. CASE Acceptable(p, inbox)
  <2>1. /\ s0.at = "ready" /\ Still /\ UNCHANGED claims /\ live[p] /\ s0.claim # None /\ ~s0.revoked
        /\ inbox # None /\ inbox.kind = "report"
    BY <1>3 DEF Report, Usable, Ready, CommitOf, Commit, Disk, env, ghosts, Still
  <2>0. /\ inbox.gen \in Nat /\ inbox.com \in 0 .. Length /\ inbox.gen <= dev.gen
        /\ (inbox.gen = dev.gen => inbox.com <= dev.com) /\ inbox.com <= dev.reached
    BY <2>1 DEF TypeOK, Reports, DeviceInv
  <2>2. c0 = Idle /\ s0.claim \in Checkpoints /\ Known(s0.claim) /\ Older(s0.claim) /\ outcome # "none"
    BY <1>1, <2>1, Acts DEF Services, Agrees, Known
  <2> PICK a : a = [s0.claim EXCEPT !.phase = "transferring", !.gen = inbox.gen, !.prefix = inbox.com]
    OBVIOUS
  <2>3. /\ a \in Checkpoints /\ a.rev = s0.claim.rev /\ a.src = s0.claim.src
        /\ a.phase = "transferring" /\ a.gen = inbox.gen /\ a.prefix = inbox.com /\ a.admitted = s0.claim.admitted
    BY <2>0, <2>2 DEF Checkpoints, Phases
  <2> PICK want : want = [a EXCEPT !.rev = @ + 1]
    OBVIOUS
  <2>4. /\ want \in Checkpoints /\ want # None /\ want.rev = a.rev + 1 /\ want.phase = a.phase
        /\ want.gen = a.gen /\ want.prefix = a.prefix /\ want.admitted = a.admitted /\ want.src = a.src
    BY <2>3, NextRevision
  <2> PICK c : c = [op |-> "commit", at |-> "write", seen |-> None, want |-> want]
    OBVIOUS
  <2>5. c \in Calls /\ c.op = "commit" /\ c.at = "write" /\ c.seen = None /\ c.want = want /\ c # Idle
    BY <2>4, BegunCall
  <2> PICK s : s = [s0 EXCEPT !.at = "waiting", !.op = "report", !.quiet = (inbox.vol = inbox.com)]
    OBVIOUS
  <2>6. /\ s \in Services /\ s.at = "waiting" /\ s.op = "report" /\ s.claim = s0.claim
        /\ s.resuming = s0.resuming /\ s.src = s0.src
    BY <1>1 DEF Services, ServiceOps
  <2>7. svc' = [svc EXCEPT ![p] = s] /\ call' = [call EXCEPT ![p] = c]
    BY <1>1, <1>3 DEF Report, CommitOf, Commit, Begin, Services
  <2>8. Follows("report", s0.claim, want)
    BY <1>1, <1>3, <2>1, <2>2, <2>3, <2>4 DEF Follows, Acceptable, Agrees, Closing
  <2>9. Shape(s, c)
    BY <2>1, <2>4, <2>5, <2>6, <2>8 DEF Shape, Committing
  <2>10. Known(want)
    BY <2>0, <2>2, <2>3, <2>4 DEF Known, DeviceInv
  <2>11. Agrees(p, s, c)'
    BY <1>1, <2>1, <2>2, <2>4, <2>5, <2>6, <2>10, StillKnown, NoneAssumption DEF Agrees, Still, Repeatable
  <2>12. Locked(p, c)'
    BY <1>1, <2>1, <2>5 DEF Locked, Holding, Still
  <2> QED BY <2>1, <2>5, <2>6, <2>7, <2>9, <2>11, <2>12, GoesOn DEF Still, Pending, Finishes
<1> QED BY <1>2, <1>3

\* #admit() commits the horizon.
LEMMA AdmitGoes ==
  ASSUME TypeOK, ProcessInv, NEW p \in Procs, Admit(p)
  PROVE  \E s, c : Goes(p, s, c)
<1> PICK s0, c0 : s0 = svc[p] /\ c0 = call[p]
  OBVIOUS
<1>1. /\ s0 \in Services /\ c0 \in Calls /\ Shape(s0, c0) /\ Agrees(p, s0, c0) /\ Locked(p, c0)
      /\ svc \in [Procs -> Services] /\ call \in [Procs -> Calls]
  BY AtProcess DEF TypeOK
<1>2. PICK n \in s0.submitted + 1 .. Length :
        /\ CommitOf(p, "admit", [s0.claim EXCEPT !.admitted = IF n > @ THEN n ELSE @])
        /\ svc' = [svc EXCEPT ![p].at = "waiting", ![p].op = "admit", ![p].next = n]
  BY DEF Admit
<1>3. n \in 0 .. Length
  BY <1>1 DEF Services
<1>5. PICK horizon : horizon = (IF n > s0.claim.admitted THEN n ELSE s0.claim.admitted)
  OBVIOUS
<1>4. QED
  <2>1. /\ s0.at = "ready" /\ Still /\ UNCHANGED claims /\ live[p] /\ s0.claim # None /\ ~s0.revoked
        /\ s0.claim.gen # None /\ s0.claim.phase = "transferring" /\ ~s0.resuming
    BY <1>2 DEF Admit, Usable, Ready, CommitOf, Commit, Disk, env, ghosts, Still
  <2>2. c0 = Idle /\ s0.claim \in Checkpoints /\ Known(s0.claim) /\ Older(s0.claim) /\ outcome # "none"
    BY <1>1, <2>1, Acts DEF Services, Agrees, Known
  <2>0. horizon \in 0 .. Length /\ horizon >= s0.claim.admitted /\ n <= horizon
    BY <1>3, <1>5, <2>2 DEF Checkpoints
  <2> PICK a : a = [s0.claim EXCEPT !.admitted = horizon]
    OBVIOUS
  <2>3. /\ a \in Checkpoints /\ a.rev = s0.claim.rev /\ a.src = s0.claim.src
        /\ a.phase = s0.claim.phase /\ a.gen = s0.claim.gen /\ a.prefix = s0.claim.prefix
        /\ a.admitted = horizon
    BY <2>0, <2>2 DEF Checkpoints, Phases
  <2> PICK want : want = [a EXCEPT !.rev = @ + 1]
    OBVIOUS
  <2>4. /\ want \in Checkpoints /\ want # None /\ want.rev = a.rev + 1 /\ want.phase = a.phase
        /\ want.gen = a.gen /\ want.prefix = a.prefix /\ want.admitted = a.admitted /\ want.src = a.src
    BY <2>3, NextRevision
  <2> PICK c : c = [op |-> "commit", at |-> "write", seen |-> None, want |-> want]
    OBVIOUS
  <2>5. c \in Calls /\ c.op = "commit" /\ c.at = "write" /\ c.seen = None /\ c.want = want /\ c # Idle
    BY <2>4, BegunCall
  <2> PICK s : s = [s0 EXCEPT !.at = "waiting", !.op = "admit", !.next = n]
    OBVIOUS
  <2>6. /\ s \in Services /\ s.at = "waiting" /\ s.op = "admit" /\ s.claim = s0.claim
        /\ s.resuming = s0.resuming /\ s.src = s0.src /\ s.next = n
    BY <1>1, <1>3 DEF Services, ServiceOps
  <2>7. svc' = [svc EXCEPT ![p] = s] /\ call' = [call EXCEPT ![p] = c]
    <3>1. a = [s0.claim EXCEPT !.admitted = IF n > @ THEN n ELSE @]
      BY <1>5, <2>2 DEF Checkpoints
    <3> QED BY <1>1, <1>2, <3>1 DEF CommitOf, Commit, Begin, Services
  <2>8. Follows("admit", s0.claim, want)
    BY <2>0, <2>1, <2>2, <2>3, <2>4 DEF Follows
  <2>9. Shape(s, c)
    <3>1. n <= want.admitted
      BY <2>0, <2>3, <2>4
    <3>2. Committing(s, c)
      BY <2>1, <2>4, <2>5, <2>6, <2>8, <3>1 DEF Committing
    <3> QED BY <2>6, <3>2 DEF Shape
  <2>10. Known(want)
    BY <2>2, <2>3, <2>4 DEF Known
  <2>11. Agrees(p, s, c)'
    BY <1>1, <2>1, <2>2, <2>4, <2>5, <2>6, <2>10, StillKnown, NoneAssumption DEF Agrees, Still, Repeatable
  <2>12. Locked(p, c)'
    BY <1>1, <2>1, <2>5 DEF Locked, Holding, Still
  <2> QED BY <2>1, <2>5, <2>6, <2>7, <2>9, <2>11, <2>12, GoesOn DEF Still, Pending, Finishes

\* #finalize() commits the phase.
LEMMA FinalizeGoes ==
  ASSUME TypeOK, ProcessInv, NEW p \in Procs, Finalize(p)
  PROVE  \E s, c : Goes(p, s, c)
<1> PICK s0, c0 : s0 = svc[p] /\ c0 = call[p]
  OBVIOUS
<1>1. /\ s0 \in Services /\ c0 \in Calls /\ Shape(s0, c0) /\ Agrees(p, s0, c0) /\ Locked(p, c0)
      /\ svc \in [Procs -> Services] /\ call \in [Procs -> Calls]
  BY AtProcess DEF TypeOK
<1>4. QED
  <2>1. /\ s0.at = "ready" /\ Still /\ UNCHANGED claims /\ live[p] /\ s0.claim # None /\ ~s0.revoked
        /\ ~s0.resuming /\ s0.claim.prefix = Length
        /\ s0.claim.phase = "transferring" \/ (s0.claim.phase = "finalizing" /\ Repeatable)
    BY DEF Finalize, Usable, Ready, CommitOf, Commit, Disk, env, ghosts, Still
  <2>2. c0 = Idle /\ s0.claim \in Checkpoints /\ Known(s0.claim) /\ Older(s0.claim) /\ outcome # "none"
    BY <1>1, <2>1, Acts DEF Services, Agrees, Known
  <2> PICK a : a = [s0.claim EXCEPT !.phase = "finalizing"]
    OBVIOUS
  <2>3. /\ a \in Checkpoints /\ a.rev = s0.claim.rev /\ a.src = s0.claim.src
        /\ a.phase = "finalizing" /\ a.gen = s0.claim.gen /\ a.prefix = s0.claim.prefix
        /\ a.admitted = s0.claim.admitted
    BY <2>2 DEF Checkpoints, Phases
  <2> PICK want : want = [a EXCEPT !.rev = @ + 1]
    OBVIOUS
  <2>4. /\ want \in Checkpoints /\ want # None /\ want.rev = a.rev + 1 /\ want.phase = a.phase
        /\ want.gen = a.gen /\ want.prefix = a.prefix /\ want.admitted = a.admitted /\ want.src = a.src
    BY <2>3, NextRevision
  <2> PICK c : c = [op |-> "commit", at |-> "write", seen |-> None, want |-> want]
    OBVIOUS
  <2>5. c \in Calls /\ c.op = "commit" /\ c.at = "write" /\ c.seen = None /\ c.want = want /\ c # Idle
    BY <2>4, BegunCall
  <2> PICK s : s = [s0 EXCEPT !.at = "waiting", !.op = "finalize"]
    OBVIOUS
  <2>6. /\ s \in Services /\ s.at = "waiting" /\ s.op = "finalize" /\ s.claim = s0.claim
        /\ s.resuming = s0.resuming /\ s.src = s0.src
    BY <1>1 DEF Services, ServiceOps
  <2>7. svc' = [svc EXCEPT ![p] = s] /\ call' = [call EXCEPT ![p] = c]
    BY <1>1 DEF Finalize, Await, CommitOf, Commit, Begin, Services
  <2>8. Follows("finalize", s0.claim, want)
    BY <2>1, <2>2, <2>3, <2>4 DEF Follows, Closing
  <2>9. Shape(s, c)
    BY <2>1, <2>4, <2>5, <2>6, <2>8 DEF Shape, Committing
  <2>10. Known(want)
    BY <2>2, <2>3, <2>4 DEF Known
  <2>11. Agrees(p, s, c)'
    BY <1>1, <2>1, <2>2, <2>4, <2>5, <2>6, <2>10, StillKnown, NoneAssumption DEF Agrees, Still, Repeatable
  <2>12. Locked(p, c)'
    BY <1>1, <2>1, <2>5 DEF Locked, Holding, Still
  <2> QED BY <2>1, <2>5, <2>6, <2>7, <2>9, <2>11, <2>12, GoesOn DEF Still, Pending, Finishes

\* #verify() commits the phase when the device's digest is the source's.
LEMMA VerifyGoes ==
  ASSUME TypeOK, ProcessInv, DeviceInv, NEW p \in Procs, Verify(p)
  PROVE  \E s, c : Goes(p, s, c)
<1> PICK s0, c0 : s0 = svc[p] /\ c0 = call[p]
  OBVIOUS
<1>1. /\ s0 \in Services /\ c0 \in Calls /\ Shape(s0, c0) /\ Agrees(p, s0, c0) /\ Locked(p, c0)
      /\ svc \in [Procs -> Services] /\ call \in [Procs -> Calls]
  BY AtProcess DEF TypeOK
<1>2. CASE ~(svc[p].claim.phase = "finalizing" /\ inbox.img = Digest(svc[p].src))
  <2>1. Still /\ UNCHANGED <<svc, call, claims>>
    BY <1>2 DEF Verify, store, ghosts, Still
  <2> QED BY <2>1, StaysGoes
<1>3. CASE svc[p].claim.phase = "finalizing" /\ inbox.img = Digest(svc[p].src)
  <2>1. /\ s0.at = "ready" /\ Still /\ UNCHANGED claims /\ live[p] /\ s0.claim # None /\ ~s0.revoked
        /\ inbox # None /\ inbox.kind = "digest" /\ s0.claim.phase = "finalizing"
    BY <1>3 DEF Verify, Usable, Ready, CommitOf, Commit, Disk, env, ghosts, Still
  <2>0. dev.fin > 0
    BY <2>1 DEF DeviceInv
  <2>2. c0 = Idle /\ s0.claim \in Checkpoints /\ Known(s0.claim) /\ Older(s0.claim) /\ outcome # "none"
    BY <1>1, <2>1, Acts DEF Services, Agrees, Known
  <2> PICK a : a = [s0.claim EXCEPT !.phase = "verifying"]
    OBVIOUS
  <2>3. /\ a \in Checkpoints /\ a.rev = s0.claim.rev /\ a.src = s0.claim.src
        /\ a.phase = "verifying" /\ a.gen = s0.claim.gen /\ a.prefix = s0.claim.prefix
        /\ a.admitted = s0.claim.admitted
    BY <2>2 DEF Checkpoints, Phases
  <2> PICK want : want = [a EXCEPT !.rev = @ + 1]
    OBVIOUS
  <2>4. /\ want \in Checkpoints /\ want # None /\ want.rev = a.rev + 1 /\ want.phase = a.phase
        /\ want.gen = a.gen /\ want.prefix = a.prefix /\ want.admitted = a.admitted /\ want.src = a.src
    BY <2>3, NextRevision
  <2> PICK c : c = [op |-> "commit", at |-> "write", seen |-> None, want |-> want]
    OBVIOUS
  <2>5. c \in Calls /\ c.op = "commit" /\ c.at = "write" /\ c.seen = None /\ c.want = want /\ c # Idle
    BY <2>4, BegunCall
  <2> PICK s : s = [s0 EXCEPT !.at = "waiting", !.op = "verify"]
    OBVIOUS
  <2>6. /\ s \in Services /\ s.at = "waiting" /\ s.op = "verify" /\ s.claim = s0.claim
        /\ s.resuming = s0.resuming /\ s.src = s0.src
    BY <1>1 DEF Services, ServiceOps
  <2>7. svc' = [svc EXCEPT ![p] = s] /\ call' = [call EXCEPT ![p] = c]
    BY <1>1, <1>3 DEF Verify, Await, CommitOf, Commit, Begin, Services
  <2>8. Follows("verify", s0.claim, want)
    BY <2>1, <2>2, <2>3, <2>4 DEF Follows, Closing
  <2>9. Shape(s, c)
    BY <2>1, <2>4, <2>5, <2>6, <2>8 DEF Shape, Committing
  <2>10. Known(want)
    BY <2>2, <2>3, <2>4 DEF Known
  <2>11. Agrees(p, s, c)'
    BY <1>1, <2>1, <2>2, <2>4, <2>5, <2>6, <2>10, <2>0, StillKnown, NoneAssumption DEF Agrees, Still, Repeatable
  <2>12. Locked(p, c)'
    BY <1>1, <2>1, <2>5 DEF Locked, Holding, Still
  <2> QED BY <2>1, <2>5, <2>6, <2>7, <2>9, <2>11, <2>12, GoesOn DEF Still, Pending, Finishes
<1> QED BY <1>2, <1>3

\* No service is left as it is at the end of an operation.
LEMMA CalledBack ==
  ASSUME NEW n, n = NoService
  PROVE  [n EXCEPT !.op = "none", !.quiet = FALSE, !.next = 0] = n
<1>m. PICK m : m = [n EXCEPT !.op = "none", !.quiet = FALSE, !.next = 0]
  OBVIOUS
<1>1. /\ n \in Services /\ n.op = "none" /\ n.quiet = FALSE /\ n.next = 0
  BY NoServiceType
<1>2. /\ m \in Services /\ m.at = n.at /\ m.op = n.op /\ m.claim = n.claim /\ m.resuming = n.resuming
      /\ m.quiet = n.quiet /\ m.submitted = n.submitted /\ m.next = n.next /\ m.src = n.src
      /\ m.revoked = n.revoked
  BY <1>m, <1>1 DEF Services
<1>3. m = n
  BY <1>1, <1>2 DEF Services
<1> QED BY <1>m, <1>3

\* #verify() goes on to remove the checkpoint.
LEMMA VerifyingGoes ==
  ASSUME TypeOK, ProcessInv, NEW p \in Procs, Verifying(p)
  PROVE  \E s, c : Goes(p, s, c)
<1> PICK s0, c0 : s0 = svc[p] /\ c0 = call[p]
  OBVIOUS
<1>1. /\ s0 \in Services /\ c0 \in Calls /\ Shape(s0, c0) /\ Agrees(p, s0, c0) /\ Locked(p, c0)
      /\ svc \in [Procs -> Services] /\ call \in [Procs -> Calls]
  BY AtProcess DEF TypeOK
<1>2. /\ s0.at = "waiting" /\ s0.op = "verify" /\ c0.at = "done" /\ c0.op = "commit"
      /\ Still /\ UNCHANGED claims /\ live[p]
  BY DEF Verifying, Returned, Disk, env, ghosts, Still
<1>3. /\ c0.want \in Checkpoints /\ c0.want # None /\ s0.claim # None
      /\ Follows("verify", s0.claim, c0.want) /\ c0.seen = None
  BY <1>1, <1>2, Waits, NoneAssumption DEF Committing, Completing, Calls
<1>4. /\ Known(c0.want) /\ Older(c0.want) /\ claims[p] /\ file = c0.want /\ file # None
      /\ c0.want.phase = "verifying" /\ outcome # "none" /\ dev.fin > 0
      /\ s0.src = file.src /\ (s0.resuming => Repeatable)
  BY <1>1, <1>2, <1>3 DEF Agrees, Older, Locked, Follows, Checkpoints, Known
<1>5. CASE s0.revoked
  <2>r. PICK r : r = [s0 EXCEPT !.at = "ready", !.claim = c0.want]
    OBVIOUS
  <2>s. PICK s : s = [r EXCEPT !.op = "none", !.quiet = FALSE, !.next = 0]
    OBVIOUS
  <2>1. r \in Services /\ r.at = "ready" /\ r.claim = c0.want /\ r.resuming = s0.resuming /\ r.src = s0.src
    BY <1>1, <1>3, <2>r DEF Services
  <2>2. s \in Services /\ s.op = "none" /\ s.at = "ready" /\ s.claim = c0.want /\ s.resuming = s0.resuming /\ s.src = s0.src
    <3>1. r \in Services
      BY <2>1
    <3>2. /\ s \in Services /\ s.op = "none" /\ s.at = r.at /\ s.claim = r.claim
          /\ s.resuming = r.resuming /\ s.src = r.src
      BY <3>1, <2>s, Away
    <3> QED BY <2>1, <3>2
  <2>3. svc' = [svc EXCEPT ![p] = s] /\ call' = [call EXCEPT ![p] = Idle]
    <3>1. r.at # "sending"
      BY <2>1
    <3> QED BY <1>5, <2>r, <2>s, <3>1 DEF Verifying, Back
  <2>4. Shape(s, Idle)
    BY <2>2 DEF Shape
  <2>5. Agrees(p, s, Idle)'
    BY <1>1, <1>2, <1>3, <1>4, <2>2, IdleCall, StillKnown DEF Agrees, Still, Repeatable
  <2>6. Locked(p, Idle)'
    BY <1>1, <1>2, IdleCall DEF Locked, Holding, Still
  <2> QED BY <1>2, <2>2, <2>3, <2>4, <2>5, <2>6, IdleCall, GoesOn DEF Still, Pending, Finishes
<1>6. CASE ~s0.revoked
  <2>s. PICK s : s = [s0 EXCEPT !.claim = c0.want]
    OBVIOUS
  <2>c. PICK c : c = [op |-> "complete", at |-> "file", seen |-> None, want |-> None]
    OBVIOUS
  <2>1. /\ s \in Services /\ s.at = "waiting" /\ s.op = "verify" /\ s.claim = c0.want
        /\ s.resuming = s0.resuming /\ s.src = s0.src
    BY <1>1, <1>2, <1>3, <2>s DEF Services
  <2>2. c \in Calls /\ c.op = "complete" /\ c.at = "file" /\ c.seen = None /\ c.want = None /\ c # Idle
    BY <2>c, BegunCall
  <2>3. svc' = [svc EXCEPT ![p] = s] /\ call' = [call EXCEPT ![p] = c]
    <3>1. c = [Idle EXCEPT !.op = "complete", !.at = IF claims[p] THEN "file" ELSE "failed"]
      <4>i. PICK i : i = Idle
        OBVIOUS
      <4>d. PICK d : d = [i EXCEPT !.op = "complete", !.at = "file"]
        OBVIOUS
      <4>1. i \in Calls /\ i.seen = None /\ i.want = None
        BY <4>i, IdleCall
      <4>2. d \in Calls /\ d.op = "complete" /\ d.at = "file" /\ d.seen = None /\ d.want = None
        BY <4>1, <4>d DEF Calls
      <4>3. c = d
        BY <2>2, <4>2 DEF Calls
      <4> QED BY <1>4, <4>i, <4>d, <4>3
    <3>2. /\ svc' = [svc EXCEPT ![p].claim = c0.want]
          /\ call' = [call EXCEPT ![p] = [Idle EXCEPT !.op = "complete", !.at = IF claims[p] THEN "file" ELSE "failed"]]
      BY <1>6 DEF Verifying
    <3>3. svc' = [svc EXCEPT ![p] = s]
      BY <1>1, <2>s, <3>2
    <3> QED BY <1>1, <3>1, <3>2, <3>3
  <2>4. Shape(s, c)
    BY <1>3, <2>1, <2>2 DEF Shape, Completing
  <2>5. Agrees(p, s, c)'
    BY <1>1, <1>2, <1>3, <1>4, <2>1, <2>2, StillKnown DEF Agrees, Still, Repeatable
  <2>6. Locked(p, c)'
    BY <1>1, <1>2, <1>4, <2>2 DEF Locked, Holding, Still
  <2> QED BY <1>2, <2>1, <2>2, <2>3, <2>4, <2>5, <2>6, GoesOn DEF Still, Pending, Finishes
<1> QED BY <1>5, <1>6

\* retire() removes the checkpoint.
LEMMA RetireGoes ==
  ASSUME TypeOK, ProcessInv, NEW p \in Procs, Retire(p)
  PROVE  \E s, c : Goes(p, s, c)
<1> PICK s0, c0 : s0 = svc[p] /\ c0 = call[p]
  OBVIOUS
<1>1. /\ s0 \in Services /\ c0 \in Calls /\ Shape(s0, c0) /\ Agrees(p, s0, c0) /\ Locked(p, c0)
      /\ svc \in [Procs -> Services] /\ call \in [Procs -> Calls]
  BY AtProcess DEF TypeOK
<1>2. /\ s0.at = "ready" /\ s0.claim # None /\ Still /\ UNCHANGED claims /\ live[p]
  BY DEF Retire, Ready, Complete, Disk, ghosts, Still
<1>3. outcome # "none"
  BY <1>1, <1>2 DEF Agrees, Known
<1>s. PICK s : s = [s0 EXCEPT !.at = "waiting", !.op = "retire"]
  OBVIOUS
<1>at. PICK at : at = IF claims[p] THEN "file" ELSE "failed"
  OBVIOUS
<1>c. PICK c : c = [op |-> "complete", at |-> at, seen |-> None, want |-> None]
  OBVIOUS
<1>4. at \in {"file", "failed"} /\ (at = "file" => claims[p])
  BY <1>at
<1>5. /\ s \in Services /\ s.at = "waiting" /\ s.op = "retire" /\ s.claim = s0.claim
      /\ s.resuming = s0.resuming /\ s.src = s0.src
  BY <1>1, <1>s DEF Services, ServiceOps
<1>6. c \in Calls /\ c.op = "complete" /\ c.at = at /\ c.seen = None /\ c.want = None /\ c # Idle
  BY <1>c, <1>4, BegunCall
<1>7. svc' = [svc EXCEPT ![p] = s] /\ call' = [call EXCEPT ![p] = c]
  BY <1>1, <1>s, <1>at, <1>c DEF Retire, Await, Complete, Begin
<1>8. Shape(s, c)
  BY <1>2, <1>4, <1>5, <1>6 DEF Shape, Completing
<1>9. Agrees(p, s, c)'
  BY <1>1, <1>2, <1>3, <1>5, <1>6, StillKnown DEF Agrees, Still, Repeatable
<1>10. Locked(p, c)'
  BY <1>1, <1>2, <1>4, <1>6 DEF Locked, Holding, Still
<1> QED BY <1>2, <1>5, <1>6, <1>7, <1>8, <1>9, <1>10, GoesOn DEF Still, Pending, Finishes

\* The checkpoint is gone and the operation is over.
LEMMA CompletedGoes ==
  ASSUME TypeOK, ProcessInv, NEW p \in Procs, Completed(p)
  PROVE  \E s, c : Goes(p, s, c)
<1> PICK s0, c0 : s0 = svc[p] /\ c0 = call[p]
  OBVIOUS
<1>1. /\ s0 \in Services /\ c0 \in Calls /\ Shape(s0, c0) /\ Agrees(p, s0, c0) /\ Locked(p, c0)
      /\ svc \in [Procs -> Services] /\ call \in [Procs -> Calls]
  BY AtProcess DEF TypeOK
<1>2. Still /\ UNCHANGED claims /\ live[p] /\ s0.at = "waiting"
  BY DEF Completed, Returned, Disk, env, ghosts, Still
<1>r. PICK r : r = [s0 EXCEPT !.at = "ready", !.claim = None, !.revoked = TRUE]
  OBVIOUS
<1>s. PICK s : s = [r EXCEPT !.op = "none", !.quiet = FALSE, !.next = 0]
  OBVIOUS
<1>3. r \in Services /\ r.at = "ready" /\ r.claim = None /\ r.src = s0.src
  BY <1>1, <1>r DEF Services
<1>4. s \in Services /\ s.op = "none" /\ s.at = "ready" /\ s.claim = None /\ s.src = s0.src
  <2>1. r \in Services
    BY <1>3
  <2>2. /\ s \in Services /\ s.op = "none" /\ s.at = r.at /\ s.claim = r.claim /\ s.src = r.src
    BY <2>1, <1>s, Away
  <2> QED BY <1>3, <2>2
<1>5. svc' = [svc EXCEPT ![p] = s] /\ call' = [call EXCEPT ![p] = Idle]
  <2>1. r.at # "sending"
    BY <1>3
  <2> QED BY <1>r, <1>s, <2>1 DEF Completed, Back
<1>6. Shape(s, Idle)
  BY <1>4 DEF Shape
<1>7. Agrees(p, s, Idle)'
  BY <1>1, <1>2, <1>4, IdleCall DEF Agrees
<1>8. Locked(p, Idle)'
  BY <1>1, <1>2, IdleCall DEF Locked, Holding, Still
<1> QED BY <1>2, <1>4, <1>5, <1>6, <1>7, <1>8, IdleCall, GoesOn DEF Still, Pending, Finishes

\* The service is over: nothing of it is left.
LEMMA EndGoes ==
  ASSUME TypeOK, ProcessInv, NEW p \in Procs, Still, UNCHANGED claims,
         live[p] \/ ~claims[p],
         svc' = [svc EXCEPT ![p] = NoService], call' = [call EXCEPT ![p] = Idle]
  PROVE  \E s, c : Goes(p, s, c)
<1> PICK s0, c0 : s0 = svc[p] /\ c0 = call[p]
  OBVIOUS
<1>1. /\ s0 \in Services /\ c0 \in Calls /\ Shape(s0, c0) /\ Agrees(p, s0, c0) /\ Locked(p, c0)
  BY AtProcess
<1>n. PICK n : n = NoService
  OBVIOUS
<1>2. n \in Services /\ n.at = "idle" /\ n.op = "none" /\ n.claim = None /\ n.resuming = FALSE
  BY <1>n, NoServiceType
<1>3. Shape(n, Idle)
  BY <1>n DEF Shape
<1>4. Agrees(p, n, Idle)'
  BY <1>2, IdleCall DEF Agrees
<1>5. Locked(p, Idle)'
  BY <1>1, IdleCall DEF Locked, Holding, Still
<1>6. svc' = [svc EXCEPT ![p] = n] /\ call' = [call EXCEPT ![p] = Idle]
  BY <1>n
<1> QED BY <1>2, <1>3, <1>4, <1>5, <1>6, IdleCall, GoesOn DEF Still, Pending, Finishes

\* A store call that failed leaves the claim as it was.
LEMMA CallFailedGoes ==
  ASSUME TypeOK, ProcessInv, NEW p \in Procs, CallFailed(p)
  PROVE  \E s, c : Goes(p, s, c)
<1> PICK s0, c0 : s0 = svc[p] /\ c0 = call[p]
  OBVIOUS
<1>1. /\ s0 \in Services /\ c0 \in Calls /\ Shape(s0, c0) /\ Agrees(p, s0, c0) /\ Locked(p, c0)
      /\ svc \in [Procs -> Services] /\ call \in [Procs -> Calls]
  BY AtProcess DEF TypeOK
<1>2. s0.at = "waiting" /\ c0.at = "failed" /\ Still /\ UNCHANGED claims /\ live[p]
  BY DEF CallFailed, Disk, env, ghosts, Still
<1>3. CASE s0.op \in {"prepare", "release"}
  <2>1. svc' = [svc EXCEPT ![p] = NoService] /\ call' = [call EXCEPT ![p] = Idle]
    <3>n. PICK n : n = NoService
      OBVIOUS
    <3>1. [n EXCEPT !.op = "none", !.quiet = FALSE, !.next = 0] = n /\ n.at # "sending"
      BY <3>n, CalledBack, NoServiceType
    <3>2. Back(p, n)
      BY <1>3, <3>n DEF CallFailed
    <3> QED BY <3>n, <3>1, <3>2 DEF Back
  <2> QED BY <1>2, <2>1, EndGoes
<1>4. CASE s0.op \notin {"prepare", "release"}
  <2>r. PICK r : r = [s0 EXCEPT !.at = "ready"]
    OBVIOUS
  <2>s. PICK s : s = [r EXCEPT !.op = "none", !.quiet = FALSE, !.next = 0]
    OBVIOUS
  <2>1. r \in Services /\ r.at = "ready" /\ r.claim = s0.claim /\ r.resuming = s0.resuming /\ r.src = s0.src
    BY <1>1, <2>r DEF Services
  <2>2. s \in Services /\ s.op = "none" /\ s.at = "ready" /\ s.claim = s0.claim /\ s.resuming = s0.resuming /\ s.src = s0.src
    <3>1. r \in Services
      BY <2>1
    <3>2. /\ s \in Services /\ s.op = "none" /\ s.at = r.at /\ s.claim = r.claim
          /\ s.resuming = r.resuming /\ s.src = r.src
      BY <3>1, <2>s, Away
    <3> QED BY <2>1, <3>2
  <2>3. svc' = [svc EXCEPT ![p] = s] /\ call' = [call EXCEPT ![p] = Idle]
    <3>1. r.at # "sending"
      BY <2>1
    <3>2. Back(p, r)
      BY <1>4, <2>r DEF CallFailed
    <3> QED BY <2>s, <3>1, <3>2 DEF Back
  <2>4. Shape(s, Idle)
    BY <2>2 DEF Shape
  <2>5. Agrees(p, s, Idle)'
    BY <1>1, <1>2, <2>2, IdleCall, StillKnown DEF Agrees, Still, Repeatable
  <2>6. Locked(p, Idle)'
    BY <1>1, <1>2, IdleCall DEF Locked, Holding, Still
  <2> QED BY <1>2, <2>2, <2>3, <2>4, <2>5, <2>6, IdleCall, GoesOn DEF Still, Pending, Finishes
<1> QED BY <1>3, <1>4

\* release() is over.
LEMMA ReleasedGoes ==
  ASSUME TypeOK, ProcessInv, NEW p \in Procs, Released(p)
  PROVE  \E s, c : Goes(p, s, c)
<1>1. Still /\ UNCHANGED claims /\ live[p]
  BY DEF Released, Returned, Disk, env, ghosts, Still
<1>2. svc' = [svc EXCEPT ![p] = NoService] /\ call' = [call EXCEPT ![p] = Idle]
  <2>n. PICK n : n = NoService
    OBVIOUS
  <2>1. [n EXCEPT !.op = "none", !.quiet = FALSE, !.next = 0] = n /\ n.at # "sending"
    BY <2>n, CalledBack, NoServiceType
  <2>2. Back(p, n)
    BY <2>n DEF Released
  <2> QED BY <2>n, <2>1, <2>2 DEF Back
<1> QED BY <1>1, <1>2, EndGoes

\* release() gives up the claim in memory before it removes the lock file.
LEMMA ReleaseServiceGoes ==
  ASSUME TypeOK, ProcessInv, NEW p \in Procs, ReleaseService(p)
  PROVE  /\ \E s, c : Goes(p, s, c)
         /\ \A q \in Procs \ {p} : claims'[q] = claims[q]
<1> PICK s0, c0 : s0 = svc[p] /\ c0 = call[p]
  OBVIOUS
<1>1. /\ s0 \in Services /\ c0 \in Calls /\ Shape(s0, c0) /\ Agrees(p, s0, c0) /\ Locked(p, c0)
      /\ svc \in [Procs -> Services] /\ call \in [Procs -> Calls] /\ claims \in [Procs -> BOOLEAN]
  BY AtProcess DEF TypeOK
<1>2. s0.at \in {"ready", "refused"} /\ live[p] /\ Still
  BY DEF ReleaseService, Disk, env, ghosts, Still
<1>3. c0 = Idle
  BY <1>1, <1>2, Acts
<1>4. CASE s0.claim = None
  <2>1. svc' = [svc EXCEPT ![p] = NoService] /\ UNCHANGED <<call, claims>>
    BY <1>4 DEF ReleaseService
  <2>2. call' = [call EXCEPT ![p] = Idle]
    BY <1>1, <1>3, <2>1
  <2> QED BY <1>2, <2>1, <2>2, EndGoes
<1>5. CASE s0.claim # None
  <2>0. Release(p) /\ svc' = [svc EXCEPT ![p].at = "waiting", ![p].op = "release", ![p].claim = None]
    BY <1>5 DEF ReleaseService
  <2>s. PICK s : s = [s0 EXCEPT !.at = "waiting", !.op = "release", !.claim = None]
    OBVIOUS
  <2>at. PICK at : at = IF claims[p] THEN "unlink" ELSE "failed"
    OBVIOUS
  <2>c. PICK c : c = [op |-> "release", at |-> at, seen |-> None, want |-> None]
    OBVIOUS
  <2>1. at \in {"unlink", "failed"} /\ (at = "unlink" => claims[p])
    BY <2>at
  <2>2. s \in Services /\ s.at = "waiting" /\ s.op = "release" /\ s.claim = None /\ s.src = s0.src
    BY <1>1, <2>s DEF Services, ServiceOps
  <2>3. c \in Calls /\ c.op = "release" /\ c.at = at /\ c.seen = None /\ c.want = None /\ c # Idle
    BY <2>c, <2>1, BegunCall
  <2>4. /\ svc' = [svc EXCEPT ![p] = s] /\ call' = [call EXCEPT ![p] = c]
        /\ claims' = [claims EXCEPT ![p] = FALSE]
    BY <1>1, <2>0, <2>s, <2>at, <2>c DEF Release, Begin
  <2>5. Shape(s, c)
    BY <2>1, <2>2, <2>3 DEF Shape, Releasing
  <2>6. outcome # "none"
    BY <1>1, <1>5 DEF Agrees, Known
  <2>7. Agrees(p, s, c)'
    BY <1>1, <1>2, <2>2, <2>3, <2>6 DEF Agrees, Still
  <2>8. Locked(p, c)'
    BY <1>1, <1>2, <2>1, <2>3, <2>4 DEF Locked, Holding, Still
  <2>9. \E s1, c1 : Goes(p, s1, c1)
    BY <1>2, <2>2, <2>3, <2>4, <2>5, <2>7, <2>8, GoesOn DEF Still, Pending, Finishes
  <2> QED BY <1>1, <2>4, <2>9
<1> QED BY <1>4, <1>5

\* A revoked operation differs in nothing else.
LEMMA RevokedGoes ==
  ASSUME TypeOK, ProcessInv, NEW p \in Procs, Still, UNCHANGED <<call, claims>>,
         svc[p].at # "idle", svc' = [svc EXCEPT ![p].revoked = TRUE]
  PROVE  \E s, c : Goes(p, s, c)
<1> PICK s0, c0 : s0 = svc[p] /\ c0 = call[p]
  OBVIOUS
<1>1. /\ s0 \in Services /\ c0 \in Calls /\ Shape(s0, c0) /\ Agrees(p, s0, c0) /\ Locked(p, c0)
      /\ svc \in [Procs -> Services] /\ call \in [Procs -> Calls]
  BY AtProcess DEF TypeOK
<1>s. PICK s : s = [s0 EXCEPT !.revoked = TRUE]
  OBVIOUS
<1>2. /\ s \in Services /\ s.at = s0.at /\ s.op = s0.op /\ s.claim = s0.claim /\ s.resuming = s0.resuming
      /\ s.next = s0.next /\ s.src = s0.src
  BY <1>1, <1>s DEF Services
<1>3. svc' = [svc EXCEPT ![p] = s] /\ call' = [call EXCEPT ![p] = c0]
  BY <1>1, <1>s
<1>4. s0 # NoService
  BY NoServiceType
<1>5. Shape(s, c0)
  BY <1>1, <1>2, <1>4 DEF Shape, Claiming, Committing, Completing, Releasing
<1>6. Agrees(p, s, c0)'
  BY <1>1, <1>2, StillKnown DEF Agrees, Still, Repeatable
<1>7. Locked(p, c0)'
  BY <1>1 DEF Locked, Holding, Still
<1> QED BY <1>1, <1>2, <1>3, <1>5, <1>6, <1>7, GoesOn DEF Still, Pending, Finishes

\* Everything the steps of another process or of the device may do to what q holds.
LEMMA AgreesFrame ==
  ASSUME NEW q \in Procs, NEW s \in Services, NEW c \in Calls, Agrees(q, s, c), UNCHANGED policy,
         outcome # "none" => outcome' # "none",
         \A r \in Checkpoints : Known(r) /\ Older(r) => Known(r)' /\ Older(r)',
         \A r \in Checkpoints : Known(r) => Known(r)' \/ c.want = None,
         dev.fin > 0 => dev'.fin > 0,
         s.op = "open" \/ s.claim # None => (file' # None => file # None /\ file'.src = file.src),
         c.op = "commit" /\ c.at \in {"rename", "done"} => file' = file,
         c.op = "complete" /\ c.at = "file" => file' = file,
         s.at = "sending" => claims'[q] = claims[q] /\ Horizon' = Horizon
  PROVE  Agrees(q, s, c)'
<1>1. /\ s.claim # None => s.claim \in Checkpoints
      /\ c.seen # None => c.seen \in Checkpoints
      /\ c.want # None => c.want \in Checkpoints
  BY DEF Services, Calls
<1>2. s.claim # None => Known(s.claim)' /\ Older(s.claim)'
  BY <1>1 DEF Agrees
<1>3. c.seen # None => Known(c.seen)' /\ Older(c.seen)'
  BY <1>1 DEF Agrees
<1>4. c.want # None => Known(c.want)'
  BY <1>1 DEF Agrees
<1> QED BY <1>2, <1>3, <1>4 DEF Agrees, Repeatable

\* What keeps q's hold of the lock.
LEMMA LockedFrame ==
  ASSUME NEW q \in Procs, NEW c, Locked(q, c),
         claims'[q] = claims[q], live'[q] = live[q],
         Holding(q, c) => lock' # None /\ lock'.pid = q,
         c.op = "claim" /\ c.at = "unlink" => lock' # None /\ ~live'[lock'.pid]
  PROVE  Locked(q, c)'
BY DEF Locked, Holding

\* A shape does not depend on the state, but for the policy.
LEMMA ShapeFrame ==
  ASSUME NEW s, NEW c, Shape(s, c), UNCHANGED policy
  PROVE  Shape(s, c)'
BY DEF Shape, Claiming, Committing, Completing, Releasing, Follows, Repeatable

\* The file and the device stay; the lock may move.
Steady == UNCHANGED <<file, dev, outcome, policy>>

\* A step that moves neither the checkpoint's file nor the device, nor q's hold of the lock.
LEMMA OtherStays ==
  ASSUME TypeOK, ProcessInv, NEW q \in Procs, Steady,
         claims'[q] = claims[q], live'[q] = live[q], svc'[q] = svc[q], call'[q] = call[q],
         Holding(q, call[q]) => lock' # None /\ lock'.pid = q,
         call[q].op = "claim" /\ call[q].at = "unlink" => lock' # None /\ ~live'[lock'.pid]
  PROVE  Process(q, svc[q], call[q])'
<1> PICK s, c : s = svc[q] /\ c = call[q]
  OBVIOUS
<1>1. s \in Services /\ c \in Calls /\ Shape(s, c) /\ Agrees(q, s, c) /\ Locked(q, c)
  BY AtProcess
<1>2. Agrees(q, s, c)'
  BY <1>1 DEF Agrees, Steady, Repeatable, Known, Older, Horizon
<1>3. Locked(q, c)'
  BY <1>1, LockedFrame
<1>4. Shape(s, c)'
  BY <1>1, ShapeFrame DEF Steady
<1>5. Process(q, s, c)'
  BY <1>2, <1>3, <1>4 DEF Process
<1>6. s = svc'[q] /\ c = call'[q]
  OBVIOUS
<1> QED BY <1>5, <1>6

\* p goes on and every other process stays what it was.
LEMMA AllGo ==
  ASSUME TypeOK, NEW p \in Procs, NEW s \in Services, NEW c \in Calls,
         svc' = [svc EXCEPT ![p] = s], call' = [call EXCEPT ![p] = c], Process(p, s, c)',
         \A q \in Procs \ {p} : Process(q, svc[q], call[q])'
  PROVE  ProcessInv' /\ svc' \in [Procs -> Services] /\ call' \in [Procs -> Calls]
<1>1. svc \in [Procs -> Services] /\ call \in [Procs -> Calls]
  BY DEF TypeOK
<1>2. svc'[p] = s /\ call'[p] = c
  BY <1>1
<1>3. Process(p, svc[p], call[p])'
  BY <1>2
<1>4. svc' \in [Procs -> Services] /\ call' \in [Procs -> Calls]
  BY <1>1
<1> QED BY <1>3, <1>4 DEF ProcessInv

\* A step of p's service: the file, the lock and the device stay.
LEMMA StillGo ==
  ASSUME TypeOK, ProcessInv, NEW p \in Procs, Still, \E s, c : Goes(p, s, c),
         \A q \in Procs \ {p} : claims'[q] = claims[q]
  PROVE  /\ ProcessInv' /\ svc' \in [Procs -> Services] /\ call' \in [Procs -> Calls]
         /\ \A q \in Procs : Pending(q)' => Pending(q)
<1>1. PICK s, c : Goes(p, s, c)
  OBVIOUS
<1>2. /\ svc' = [svc EXCEPT ![p] = s] /\ call' = [call EXCEPT ![p] = c]
      /\ s \in Services /\ c \in Calls /\ Process(p, s, c)' /\ (Finishes(s, c) => Pending(p))
  BY <1>1 DEF Goes
<1>3. svc \in [Procs -> Services] /\ call \in [Procs -> Calls]
  BY DEF TypeOK
<1>4. ASSUME NEW q \in Procs \ {p} PROVE Process(q, svc[q], call[q])'
  <2>1. svc'[q] = svc[q] /\ call'[q] = call[q]
    BY <1>2, <1>3
  <2>2. Locked(q, call[q])
    BY AtProcess
  <2>3. /\ Holding(q, call[q]) => lock' # None /\ lock'.pid = q
        /\ call[q].op = "claim" /\ call[q].at = "unlink" => lock' # None /\ ~live'[lock'.pid]
    BY <2>2 DEF Locked, Still
  <2> QED BY <2>1, <2>3, OtherStays DEF Still, Steady
<1>5. ProcessInv' /\ svc' \in [Procs -> Services] /\ call' \in [Procs -> Calls]
  BY <1>2, <1>4, AllGo
<1>6. ASSUME NEW q \in Procs, Pending(q)' PROVE Pending(q)
  <2>1. CASE q = p
    <3>1. svc'[p] = s /\ call'[p] = c
      BY <1>2, <1>3
    <3>2. Finishes(s, c)
      BY <1>6, <2>1, <3>1 DEF Pending
    <3> QED BY <1>2, <2>1, <3>2
  <2>2. CASE q # p
    <3>1. svc'[q] = svc[q] /\ call'[q] = call[q]
      BY <1>2, <1>3, <2>2
    <3> QED BY <1>6, <3>1 DEF Pending
  <2> QED BY <2>1, <2>2
<1> QED BY <1>5, <1>6

-----------------------------------------------------------------------------
\* Who holds the lock file is alone with it.
LEMMA HeldElsewhere ==
  ASSUME TypeOK, ProcessInv, NEW p \in Procs, NEW q \in Procs, p # q, lock.pid = p
  PROVE  /\ ~Holding(q, call[q]) /\ ~claims[q]
         /\ live[p] => ~(call[q].op = "claim" /\ call[q].at = "unlink")
         /\ ~(call[q].op = "complete" /\ call[q].at \in {"file", "lock"})
         /\ ~(call[q].op = "commit" /\ call[q].at \in {"rename", "done"})
         /\ svc[q].at # "sending"
<1>1. Locked(q, call[q]) /\ Agrees(q, svc[q], call[q])
  BY AtProcess
<1>2. ~Holding(q, call[q])
  BY <1>1 DEF Locked
<1>3. ~claims[q]
  BY <1>2 DEF Holding
<1> QED BY <1>1, <1>2, <1>3 DEF Locked, Agrees

\* The service that is in a store call.
LEMMA StoreShape ==
  ASSUME NEW s, NEW c, Shape(s, c), c.op # "none"
  PROVE  /\ s.at = "waiting" /\ c # Idle
         /\ c.op = "claim" => Claiming(s, c)
         /\ c.op = "commit" => Committing(s, c)
         /\ c.op = "complete" => Completing(s, c)
         /\ c.op = "release" => Releasing(s, c)
BY DEF Shape, Idle, Claiming, Committing, Completing, Releasing

\* A call that advances keeps its other fields.
LEMMA NextAt ==
  ASSUME NEW c0 \in Calls, NEW at \in {"open", "reopen", "write", "inspect", "unlink", "rename",
                                        "file", "lock", "done", "failed"},
         NEW c, c = [c0 EXCEPT !.at = at]
  PROVE  c \in Calls /\ c.op = c0.op /\ c.at = at /\ c.seen = c0.seen /\ c.want = c0.want
BY DEF Calls

\* A store call that advances and changes neither the file nor the device.
LEMMA StoreAdvances ==
  ASSUME TypeOK, ProcessInv, NEW p \in Procs, Steady, UNCHANGED <<svc, live>>,
         \A q \in Procs \ {p} : claims'[q] = claims[q],
         NEW c \in Calls, call' = [call EXCEPT ![p] = c],
         Shape(svc[p], c), Agrees(p, svc[p], c)', Locked(p, c)',
         Finishes(svc[p], c) => Pending(p),
         \A q \in Procs \ {p} : Holding(q, call[q]) => lock' # None /\ lock'.pid = q,
         \A q \in Procs \ {p} : call[q].op = "claim" /\ call[q].at = "unlink" => lock' # None /\ ~live'[lock'.pid]
  PROVE  /\ ProcessInv' /\ call' \in [Procs -> Calls]
         /\ \A q \in Procs : Pending(q)' => Pending(q)
<1> PICK s : s = svc[p]
  OBVIOUS
<1>1. s \in Services /\ svc' = [svc EXCEPT ![p] = s] /\ svc'[p] = s
  BY DEF TypeOK
<1>2. Process(p, s, c)'
  <2>1. Shape(s, c)'
    BY ShapeFrame DEF Steady
  <2>2. Agrees(p, s, c)'
    BY <1>1
  <2> QED BY <2>1, <2>2 DEF Process
<1>3. call \in [Procs -> Calls]
  BY DEF TypeOK
<1>4. ASSUME NEW q \in Procs \ {p} PROVE Process(q, svc[q], call[q])'
  <2>1. svc'[q] = svc[q] /\ call'[q] = call[q]
    BY <1>3
  <2> QED BY <2>1, OtherStays
<1>5. ProcessInv' /\ call' \in [Procs -> Calls]
  BY <1>1, <1>2, <1>4, AllGo
<1>6. ASSUME NEW q \in Procs, Pending(q)' PROVE Pending(q)
  <2>1. CASE q = p
    <3>1. svc'[p] = svc[p] /\ call'[p] = c
      BY <1>3
    <3> QED BY <1>6, <2>1, <3>1 DEF Pending
  <2>2. CASE q # p
    <3>1. svc'[q] = svc[q] /\ call'[q] = call[q]
      BY <1>3, <2>2
    <3> QED BY <1>6, <3>1 DEF Pending
  <2> QED BY <2>1, <2>2
<1> QED BY <1>5, <1>6

\* What the invariant says of a process at a step of its call.
LEMMA AtCall ==
  ASSUME TypeOK, ProcessInv, NEW p \in Procs, NEW op \in {"claim", "commit", "release", "complete"},
         NEW at, At(p, op, at)
  PROVE  /\ svc[p] \in Services /\ call[p] \in Calls /\ live[p]
         /\ Shape(svc[p], call[p]) /\ Agrees(p, svc[p], call[p]) /\ Locked(p, call[p])
         /\ svc[p].at = "waiting" /\ call[p] # Idle /\ call[p].op = op /\ call[p].at = at
         /\ op = "claim" => Claiming(svc[p], call[p])
         /\ op = "commit" => Committing(svc[p], call[p])
         /\ op = "complete" => Completing(svc[p], call[p])
         /\ op = "release" => Releasing(svc[p], call[p])
         /\ outcome # "none"
         /\ call \in [Procs -> Calls] /\ claims \in [Procs -> BOOLEAN]
<1>1. /\ svc[p] \in Services /\ call[p] \in Calls
      /\ Shape(svc[p], call[p]) /\ Agrees(p, svc[p], call[p]) /\ Locked(p, call[p])
  BY AtProcess
<1>2. call[p].op = op /\ call[p].at = at /\ call[p].op # "none" /\ live[p]
  BY DEF At
<1>3. /\ svc[p].at = "waiting" /\ call[p] # Idle
      /\ call[p].op = "claim" => Claiming(svc[p], call[p])
      /\ call[p].op = "commit" => Committing(svc[p], call[p])
      /\ call[p].op = "complete" => Completing(svc[p], call[p])
      /\ call[p].op = "release" => Releasing(svc[p], call[p])
  BY <1>1, <1>2, StoreShape
<1>4. outcome # "none"
  BY <1>1, <1>3 DEF Agrees
<1> QED BY <1>1, <1>2, <1>3, <1>4 DEF TypeOK

\* The lock stays: nobody's hold of it changes.
LEMMA LockStays ==
  ASSUME TypeOK, ProcessInv, UNCHANGED <<lock, live>>, NEW q \in Procs
  PROVE  /\ Holding(q, call[q]) => lock' # None /\ lock'.pid = q
         /\ call[q].op = "claim" /\ call[q].at = "unlink" => lock' # None /\ ~live'[lock'.pid]
<1>1. Locked(q, call[q])
  BY AtProcess
<1> QED BY <1>1 DEF Locked

\* claim() reads the checkpoint.
LEMMA ClaimReadKeeps ==
  ASSUME TypeOK, ProcessInv, DeviceInv, NEW p \in Procs, Claim_Read(p), UNCHANGED <<svc, dev, outcome, policy>>
  PROVE  /\ ProcessInv' /\ call' \in [Procs -> Calls]
         /\ \A q \in Procs : Pending(q)' => Pending(q)
<1> PICK s0, c0 : s0 = svc[p] /\ c0 = call[p]
  OBVIOUS
<1>1. /\ s0 \in Services /\ c0 \in Calls /\ live[p] /\ Agrees(p, s0, c0) /\ Locked(p, c0) /\ s0.at = "waiting"
      /\ c0.op = "claim" /\ c0.at = "read" /\ Claiming(s0, c0) /\ outcome # "none" /\ call \in [Procs -> Calls]
  BY AtCall DEF Claim_Read
<1>2. UNCHANGED <<file, lock, temporary, claims, live, faults>> /\ file \in Checkpoints \cup {None}
  BY DEF Claim_Read, TypeOK
<1>at. PICK at : at = IF file = None THEN "failed" ELSE "open"
  OBVIOUS
<1>c. PICK c : c = [c0 EXCEPT !.seen = file, !.at = at]
  OBVIOUS
<1>3. at \in {"failed", "open"} /\ (at = "open" => file # None)
  BY <1>at
<1>4. c \in Calls /\ c.op = "claim" /\ c.at = at /\ c.seen = file /\ c.want = c0.want
  BY <1>1, <1>2, <1>3, <1>c DEF Calls
<1>5. call' = [call EXCEPT ![p] = c]
  BY <1>1, <1>at, <1>c DEF Claim_Read
<1>6. Shape(s0, c)
  BY <1>1, <1>3, <1>4 DEF Shape, Claiming
<1>7. file # None => Known(file) /\ Older(file)
  BY <1>2 DEF DeviceInv, Older, Checkpoints
<1>8. Agrees(p, s0, c)'
  BY <1>1, <1>2, <1>4, <1>7 DEF Agrees, Known, Older, Horizon, Repeatable
<1>9. Locked(p, c)'
  BY <1>1, <1>2, <1>3, <1>4 DEF Locked, Holding
<1> QED BY <1>1, <1>2, <1>4, <1>5, <1>6, <1>8, <1>9, LockStays, StoreAdvances DEF Steady, Finishes

\* claim() inspects the lock it could not open.
LEMMA ClaimInspectKeeps ==
  ASSUME TypeOK, ProcessInv, NEW p \in Procs, Claim_Inspect(p), UNCHANGED <<svc, dev, outcome, policy>>
  PROVE  /\ ProcessInv' /\ call' \in [Procs -> Calls]
         /\ \A q \in Procs : Pending(q)' => Pending(q)
<1> PICK s0, c0 : s0 = svc[p] /\ c0 = call[p]
  OBVIOUS
<1>1. /\ s0 \in Services /\ c0 \in Calls /\ live[p] /\ Agrees(p, s0, c0) /\ Locked(p, c0) /\ s0.at = "waiting"
      /\ c0.op = "claim" /\ c0.at = "inspect" /\ Claiming(s0, c0) /\ outcome # "none" /\ call \in [Procs -> Calls]
  BY AtCall DEF Claim_Inspect
<1>2. UNCHANGED <<file, lock, temporary, claims, live, faults>>
  BY DEF Claim_Inspect
<1>at. PICK at : at = IF DeadOwner(lock) THEN "unlink" ELSE "failed"
  OBVIOUS
<1>c. PICK c : c = [c0 EXCEPT !.at = at]
  OBVIOUS
<1>3. at \in {"failed", "unlink"} /\ (at = "unlink" => lock # None /\ ~live[lock.pid])
  BY <1>at DEF DeadOwner
<1>4. c \in Calls /\ c.op = c0.op /\ c.at = at /\ c.seen = c0.seen /\ c.want = c0.want
  BY <1>1, <1>3, <1>c, NextAt
<1>5. call' = [call EXCEPT ![p] = c]
  BY <1>1, <1>at, <1>c DEF Claim_Inspect, Goto
<1>6. Shape(s0, c)
  BY <1>1, <1>3, <1>4 DEF Shape, Claiming
<1>8. Agrees(p, s0, c)'
  BY <1>1, <1>2, <1>4 DEF Agrees, Known, Older, Horizon, Repeatable
<1>9. Locked(p, c)'
  BY <1>1, <1>2, <1>3, <1>4 DEF Locked, Holding
<1> QED BY <1>1, <1>2, <1>4, <1>5, <1>6, <1>8, <1>9, LockStays, StoreAdvances DEF Steady, Finishes

\* claim() opens the lock file, when there is none.
LEMMA ClaimOpenKeeps ==
  ASSUME TypeOK, ProcessInv, NEW p \in Procs, Claim_Open(p), UNCHANGED <<svc, dev, outcome, policy>>
  PROVE  /\ ProcessInv' /\ call' \in [Procs -> Calls]
         /\ \A q \in Procs : Pending(q)' => Pending(q)
         /\ lock' \in [pid : Procs, written : BOOLEAN] \cup {None}
<1> PICK s0, c0 : s0 = svc[p] /\ c0 = call[p]
  OBVIOUS
<1>0. PICK b \in {"open", "reopen"} : At(p, "claim", b)
  BY DEF Claim_Open
<1>1. /\ s0 \in Services /\ c0 \in Calls /\ live[p] /\ Agrees(p, s0, c0) /\ Locked(p, c0) /\ s0.at = "waiting"
      /\ c0.op = "claim" /\ c0.at = b /\ Claiming(s0, c0) /\ outcome # "none" /\ call \in [Procs -> Calls]
  BY <1>0, AtCall
<1>2. UNCHANGED <<file, temporary, claims, live, faults>>
  BY DEF Claim_Open
<1>3. PICK at \in {"write", "inspect", "failed"} :
        /\ call' = [call EXCEPT ![p].at = at]
        /\ at = "write" => lock = None /\ lock' = [pid |-> p, written |-> FALSE]
        /\ at # "write" => lock' = lock
  <2>1. CASE lock = None
    BY <2>1 DEF Claim_Open, Goto
  <2>2. CASE lock # None
    <3>1. Goto(p, "inspect") \/ Goto(p, "failed")
      BY <2>2 DEF Claim_Open
    <3> QED BY <2>2, <3>1 DEF Claim_Open, Goto
  <2> QED BY <2>1, <2>2
<1>c. PICK c : c = [c0 EXCEPT !.at = at]
  OBVIOUS
<1>4. c \in Calls /\ c.op = c0.op /\ c.at = at /\ c.seen = c0.seen /\ c.want = c0.want
  BY <1>1, <1>c, NextAt
<1>5. call' = [call EXCEPT ![p] = c]
  BY <1>1, <1>3, <1>c
<1>6. Shape(s0, c)
  BY <1>1, <1>4 DEF Shape, Claiming
<1>7. at = "write" => lock' # None /\ lock'.pid = p /\ lock' \in [pid : Procs, written : BOOLEAN]
  <2> PICK l : l = [pid |-> p, written |-> FALSE]
    OBVIOUS
  <2>1. None # l /\ l.pid = p /\ l \in [pid : Procs, written : BOOLEAN]
    BY NoOwnerAssumption
  <2>2. at = "write" => lock' = l
    BY <1>3
  <2> QED BY <2>1, <2>2
<1>8. Agrees(p, s0, c)'
  BY <1>1, <1>2, <1>4 DEF Agrees, Known, Older, Horizon, Repeatable
<1>9. Locked(p, c)'
  BY <1>1, <1>2, <1>3, <1>4, <1>7 DEF Locked, Holding
<1>10. ASSUME NEW q \in Procs \ {p}
       PROVE  /\ Holding(q, call[q]) => lock' # None /\ lock'.pid = q
              /\ call[q].op = "claim" /\ call[q].at = "unlink" => lock' # None /\ ~live'[lock'.pid]
  <2>1. Locked(q, call[q])
    BY AtProcess
  <2> QED BY <1>2, <1>3, <2>1 DEF Locked
<1>11. /\ ProcessInv' /\ call' \in [Procs -> Calls]
       /\ \A q \in Procs : Pending(q)' => Pending(q)
  BY <1>1, <1>2, <1>4, <1>5, <1>6, <1>8, <1>9, <1>10, StoreAdvances DEF Steady, Finishes
<1>12. lock' \in [pid : Procs, written : BOOLEAN] \cup {None}
  BY <1>3, <1>7 DEF TypeOK
<1> QED BY <1>11, <1>12

\* claim() writes its owner.
LEMMA ClaimWriteKeeps ==
  ASSUME TypeOK, ProcessInv, NEW p \in Procs, Claim_Write(p), UNCHANGED <<svc, dev, outcome, policy>>
  PROVE  /\ ProcessInv' /\ call' \in [Procs -> Calls]
         /\ \A q \in Procs : Pending(q)' => Pending(q)
         /\ lock' \in [pid : Procs, written : BOOLEAN] \cup {None}
<1> PICK s0, c0 : s0 = svc[p] /\ c0 = call[p]
  OBVIOUS
<1>1. /\ s0 \in Services /\ c0 \in Calls /\ live[p] /\ Agrees(p, s0, c0) /\ Locked(p, c0) /\ s0.at = "waiting"
      /\ c0.op = "claim" /\ c0.at = "write" /\ Claiming(s0, c0) /\ outcome # "none" /\ call \in [Procs -> Calls]
      /\ claims \in [Procs -> BOOLEAN]
  BY AtCall DEF Claim_Write
<1>2. UNCHANGED <<file, live>>
  BY DEF Claim_Write
<1>0. lock # None /\ lock.pid = p /\ lock \in [pid : Procs, written : BOOLEAN]
  BY <1>1 DEF Locked, Holding, TypeOK
<1>3. PICK at \in {"done", "failed"} :
        /\ call' = [call EXCEPT ![p].at = at]
        /\ lock' = [lock EXCEPT !.written = TRUE] \/ lock' = lock
        /\ claims' = claims \/ claims' = [claims EXCEPT ![p] = TRUE]
  BY <1>0 DEF Claim_Write, Goto
<1>c. PICK c : c = [c0 EXCEPT !.at = at]
  OBVIOUS
<1>4. c \in Calls /\ c.op = c0.op /\ c.at = at /\ c.seen = c0.seen /\ c.want = c0.want
  BY <1>1, <1>c, NextAt
<1>5. call' = [call EXCEPT ![p] = c]
  BY <1>1, <1>3, <1>c
<1>6. Shape(s0, c)
  BY <1>1, <1>4 DEF Shape, Claiming
<1>7. lock' # None /\ lock'.pid = p /\ lock' \in [pid : Procs, written : BOOLEAN]
  <2>1. CASE lock' = lock
    BY <1>0, <2>1
  <2>2. CASE lock' = [lock EXCEPT !.written = TRUE]
    <3>1. lock' = [pid |-> p, written |-> TRUE]
      BY <1>0, <2>2
    <3> QED BY <3>1, NoOwnerAssumption
  <2> QED BY <1>3, <2>1, <2>2
<1>8. Agrees(p, s0, c)'
  BY <1>1, <1>2, <1>4 DEF Agrees, Known, Older, Horizon, Repeatable
<1>9. Locked(p, c)'
  BY <1>1, <1>2, <1>3, <1>4, <1>7 DEF Locked, Holding
<1>10. ASSUME NEW q \in Procs \ {p}
       PROVE  /\ Holding(q, call[q]) => lock' # None /\ lock'.pid = q
              /\ call[q].op = "claim" /\ call[q].at = "unlink" => lock' # None /\ ~live'[lock'.pid]
              /\ claims'[q] = claims[q]
  BY <1>0, <1>1, <1>3, HeldElsewhere
<1>11. /\ ProcessInv' /\ call' \in [Procs -> Calls]
       /\ \A q \in Procs : Pending(q)' => Pending(q)
  BY <1>1, <1>2, <1>4, <1>5, <1>6, <1>8, <1>9, <1>10, StoreAdvances DEF Steady, Finishes
<1> QED BY <1>7, <1>11

\* The lock of a dead process is taken away while nobody else relies on it: the
\* only other process is the dead one.
LEMMA ClaimUnlinkKeeps ==
  ASSUME TypeOK, ProcessInv, AtMostTwo, NEW p \in Procs, Claim_Unlink(p), UNCHANGED <<svc, dev, outcome, policy>>
  PROVE  /\ ProcessInv' /\ call' \in [Procs -> Calls]
         /\ \A q \in Procs : Pending(q)' => Pending(q)
<1> PICK s0, c0 : s0 = svc[p] /\ c0 = call[p]
  OBVIOUS
<1>1. /\ s0 \in Services /\ c0 \in Calls /\ live[p] /\ Agrees(p, s0, c0) /\ Locked(p, c0) /\ s0.at = "waiting"
      /\ c0.op = "claim" /\ c0.at = "unlink" /\ Claiming(s0, c0) /\ outcome # "none" /\ call \in [Procs -> Calls]
  BY AtCall DEF Claim_Unlink
<1>2. UNCHANGED <<file, temporary, claims, live, faults>>
  BY DEF Claim_Unlink
<1>3. lock # None /\ lock.pid \in Procs /\ ~live[lock.pid] /\ ~claims[p]
  <2>1. lock # None /\ ~live[lock.pid]
    BY <1>1 DEF Locked
  <2> QED BY <1>1, <2>1 DEF Locked, Holding, TypeOK
<1>c. PICK c : c = [c0 EXCEPT !.at = "reopen"]
  OBVIOUS
<1>4. c \in Calls /\ c.op = c0.op /\ c.at = "reopen" /\ c.seen = c0.seen /\ c.want = c0.want
  BY <1>1, <1>c, NextAt
<1>5. call' = [call EXCEPT ![p] = c]
  BY <1>1, <1>3, <1>c DEF Claim_Unlink, Goto
<1>6. Shape(s0, c)
  BY <1>1, <1>4 DEF Shape, Claiming
<1>8. Agrees(p, s0, c)'
  BY <1>1, <1>2, <1>4 DEF Agrees, Known, Older, Horizon, Repeatable
<1>9. Locked(p, c)'
  BY <1>1, <1>2, <1>3, <1>4 DEF Locked, Holding
<1>10. ASSUME NEW q \in Procs \ {p}
       PROVE  ~Holding(q, call[q]) /\ ~(call[q].op = "claim" /\ call[q].at = "unlink")
  <2>1. Locked(q, call[q]) /\ (Holding(q, call[q]) => claims[q] \/ call[q] # Idle)
        /\ (call[q].op = "claim" => call[q] # Idle)
    BY AtProcess, IdleCall DEF Holding
  <2>2. ~Holding(q, call[q])
    BY <1>3, <2>1 DEF Locked
  <2>3. lock.pid # p /\ (call[q].op = "claim" => lock.pid # q)
    BY <1>1, <1>3, <2>1 DEF Locked
  <2> QED BY <1>3, <2>2, <2>3 DEF AtMostTwo
<1> QED BY <1>1, <1>2, <1>4, <1>5, <1>6, <1>8, <1>9, <1>10, StoreAdvances DEF Steady, Finishes

\* commit() writes its temporary file.
LEMMA CommitWriteKeeps ==
  ASSUME TypeOK, ProcessInv, NEW p \in Procs, Commit_Write(p), UNCHANGED <<svc, dev, outcome, policy>>
  PROVE  /\ ProcessInv' /\ call' \in [Procs -> Calls]
         /\ \A q \in Procs : Pending(q)' => Pending(q)
<1> PICK s0, c0 : s0 = svc[p] /\ c0 = call[p]
  OBVIOUS
<1>1. /\ s0 \in Services /\ c0 \in Calls /\ live[p] /\ Agrees(p, s0, c0) /\ Locked(p, c0) /\ s0.at = "waiting"
      /\ c0.op = "commit" /\ c0.at = "write" /\ Committing(s0, c0) /\ outcome # "none" /\ call \in [Procs -> Calls]
  BY AtCall DEF Commit_Write
<1>2. UNCHANGED <<file, lock, claims, live>>
  BY DEF Commit_Write
<1>3. PICK at \in {"rename", "failed"} :
        call' = [call EXCEPT ![p].at = at] /\ (at = "rename" => Current(p))
  BY DEF Commit_Write, Goto
<1>c. PICK c : c = [c0 EXCEPT !.at = at]
  OBVIOUS
<1>4. c \in Calls /\ c.op = c0.op /\ c.at = at /\ c.seen = c0.seen /\ c.want = c0.want
  BY <1>1, <1>c, NextAt
<1>5. call' = [call EXCEPT ![p] = c]
  BY <1>1, <1>3, <1>c
<1>6. Shape(s0, c)
  BY <1>1, <1>4 DEF Shape, Committing
<1>8. Agrees(p, s0, c)'
  BY <1>1, <1>2, <1>3, <1>4 DEF Agrees, Known, Older, Horizon, Repeatable, Current
<1>9. Locked(p, c)'
  BY <1>1, <1>2, <1>3, <1>4 DEF Locked, Holding, Current
<1> QED BY <1>1, <1>2, <1>4, <1>5, <1>6, <1>8, <1>9, LockStays, StoreAdvances DEF Steady, Finishes

\* release() removes the lock file that is its own.
LEMMA ReleaseUnlinkKeeps ==
  ASSUME TypeOK, ProcessInv, NEW p \in Procs, Release_Unlink(p), UNCHANGED <<svc, dev, outcome, policy>>
  PROVE  /\ ProcessInv' /\ call' \in [Procs -> Calls]
         /\ \A q \in Procs : Pending(q)' => Pending(q)
<1> PICK s0, c0 : s0 = svc[p] /\ c0 = call[p]
  OBVIOUS
<1>1. /\ s0 \in Services /\ c0 \in Calls /\ live[p] /\ Agrees(p, s0, c0) /\ Locked(p, c0) /\ s0.at = "waiting"
      /\ c0.op = "release" /\ c0.at = "unlink" /\ Releasing(s0, c0) /\ outcome # "none" /\ call \in [Procs -> Calls]
  BY AtCall DEF Release_Unlink
<1>2. UNCHANGED <<file, temporary, claims, live, faults>>
  BY DEF Release_Unlink
<1>3. lock # None /\ lock.pid = p
  BY <1>1 DEF Locked, Holding
<1>c. PICK c : c = [c0 EXCEPT !.at = "done"]
  OBVIOUS
<1>4. c \in Calls /\ c.op = c0.op /\ c.at = "done" /\ c.seen = c0.seen /\ c.want = c0.want
  BY <1>1, <1>c, NextAt
<1>5. call' = [call EXCEPT ![p] = c]
  BY <1>1, <1>c DEF Release_Unlink, Goto
<1>6. Shape(s0, c)
  BY <1>1, <1>4 DEF Shape, Releasing
<1>8. Agrees(p, s0, c)'
  BY <1>1, <1>2, <1>4 DEF Agrees, Known, Older, Horizon, Repeatable
<1>9. Locked(p, c)'
  BY <1>1, <1>2, <1>3, <1>4 DEF Locked, Holding
<1>10. ASSUME NEW q \in Procs \ {p}
       PROVE  ~Holding(q, call[q]) /\ ~(call[q].op = "claim" /\ call[q].at = "unlink")
  BY <1>1, <1>3, HeldElsewhere
<1> QED BY <1>1, <1>2, <1>4, <1>5, <1>6, <1>8, <1>9, <1>10, StoreAdvances DEF Steady, Finishes

\* complete() removes the lock file that is its own.
LEMMA CompleteLockKeeps ==
  ASSUME TypeOK, ProcessInv, NEW p \in Procs, Complete_Lock(p), UNCHANGED <<svc, dev, outcome, policy>>
  PROVE  /\ ProcessInv' /\ call' \in [Procs -> Calls]
         /\ \A q \in Procs : Pending(q)' => Pending(q)
<1> PICK s0, c0 : s0 = svc[p] /\ c0 = call[p]
  OBVIOUS
<1>1. /\ s0 \in Services /\ c0 \in Calls /\ live[p] /\ Agrees(p, s0, c0) /\ Locked(p, c0) /\ s0.at = "waiting"
      /\ c0.op = "complete" /\ c0.at = "lock" /\ Completing(s0, c0) /\ outcome # "none" /\ call \in [Procs -> Calls]
      /\ claims \in [Procs -> BOOLEAN]
  BY AtCall DEF Complete_Lock
<1>2. UNCHANGED <<file, temporary, live, faults>>
  BY DEF Complete_Lock
<1>3. lock # None /\ lock.pid = p
  BY <1>1 DEF Locked, Holding
<1>c. PICK c : c = [c0 EXCEPT !.at = "done"]
  OBVIOUS
<1>4. c \in Calls /\ c.op = c0.op /\ c.at = "done" /\ c.seen = c0.seen /\ c.want = c0.want
  BY <1>1, <1>c, NextAt
<1>5. call' = [call EXCEPT ![p] = c] /\ claims' = [claims EXCEPT ![p] = FALSE]
  BY <1>1, <1>3, <1>c DEF Complete_Lock, Goto
<1>6. Shape(s0, c)
  BY <1>1, <1>4 DEF Shape, Completing
<1>8. Agrees(p, s0, c)'
  BY <1>1, <1>2, <1>4 DEF Agrees, Known, Older, Horizon, Repeatable
<1>9. Locked(p, c)'
  BY <1>1, <1>2, <1>3, <1>4, <1>5 DEF Locked, Holding
<1>10. ASSUME NEW q \in Procs \ {p}
       PROVE  /\ ~Holding(q, call[q]) /\ ~(call[q].op = "claim" /\ call[q].at = "unlink")
              /\ claims'[q] = claims[q]
  BY <1>1, <1>3, <1>5, HeldElsewhere
<1> QED BY <1>1, <1>2, <1>4, <1>5, <1>6, <1>8, <1>9, <1>10, StoreAdvances DEF Steady, Finishes

\* The rename makes the next revision the checkpoint: who holds the claim is alone.
LEMMA CommitRenameKeeps ==
  ASSUME TypeOK, ProcessInv, DeviceInv, NEW p \in Procs, Commit_Rename(p), UNCHANGED <<svc, dev, outcome, policy>>
  PROVE  /\ ProcessInv' /\ call' \in [Procs -> Calls]
         /\ \A q \in Procs \ {p} : ~Pending(q) /\ ~Pending(q)'
         /\ ~Pending(p)
         /\ Pending(p)' => svc[p].op = "finalize"
         /\ file # None /\ file.rev + 1 = file'.rev /\ file' \in Checkpoints /\ file' # None
         /\ Follows(svc[p].op, file, file') /\ Known(file)' /\ outcome = "open"
         /\ svc[p].op \in {"report", "admit", "finalize", "verify"}
         /\ svc[p].op \in {"report", "finalize"} /\ Closing(file) => Repeatable
<1> PICK s0, c0 : s0 = svc[p] /\ c0 = call[p]
  OBVIOUS
<1>1. /\ s0 \in Services /\ c0 \in Calls /\ live[p] /\ Agrees(p, s0, c0) /\ Locked(p, c0) /\ s0.at = "waiting"
      /\ c0.op = "commit" /\ c0.at = "rename" /\ Committing(s0, c0) /\ outcome # "none" /\ call \in [Procs -> Calls]
  BY AtCall DEF Commit_Rename
<1>2. UNCHANGED <<lock, claims, live>> /\ file' = c0.want
  BY DEF Commit_Rename
<1>3. PICK at \in {"done", "failed"} : call' = [call EXCEPT ![p].at = at]
  BY DEF Commit_Rename, Goto
<1>c. PICK c : c = [c0 EXCEPT !.at = at]
  OBVIOUS
<1>4. c \in Calls /\ c.op = c0.op /\ c.at = at /\ c.seen = c0.seen /\ c.want = c0.want
  BY <1>1, <1>c, NextAt
<1>5. call' = [call EXCEPT ![p] = c]
  BY <1>1, <1>3, <1>c
<1>6. /\ file # None /\ file \in Checkpoints /\ c0.want \in Checkpoints /\ c0.want # None
      /\ s0.claim # None /\ s0.claim \in Checkpoints /\ file.rev + 1 = c0.want.rev
      /\ Follows(s0.op, s0.claim, c0.want) /\ Known(c0.want)
      /\ s0.op \in {"report", "admit", "finalize", "verify"} /\ claims[p]
  BY <1>1 DEF Agrees, Committing, TypeOK, Calls, Services, Locked
<1>7. s0.claim = file
  <2>1. s0.claim.rev + 1 = c0.want.rev /\ Older(s0.claim)
    BY <1>1, <1>6 DEF Follows, Agrees
  <2>2. s0.claim.rev \in Nat /\ file.rev \in Nat
    BY <1>6 DEF Checkpoints
  <2>3. s0.claim.rev = file.rev
    BY <1>6, <2>1, <2>2
  <2> QED BY <1>6, <2>1, <2>3 DEF Older
<1>8. c0.want.src = file.src
  BY <1>6, <1>7 DEF Follows
<1>9. ASSUME NEW r \in Checkpoints
      PROVE  /\ Known(r) => Known(r)'
             /\ Older(r) => Older(r)'
  <2>1. Known(r) => Known(r)'
    BY <1>2, <1>6, <1>8 DEF Known
  <2>2. r.rev \in Nat /\ file.rev \in Nat /\ file'.rev \in Nat
    BY <1>2, <1>6 DEF Checkpoints
  <2>3. Older(r) => r.rev < file'.rev
    BY <1>2, <1>6, <2>2 DEF Older
  <2> QED BY <2>1, <2>2, <2>3 DEF Older
<1>10. lock # None /\ lock.pid = p
  BY <1>1, <1>6 DEF Locked, Holding
<1>11. Shape(s0, c)'
  <2>1. Shape(s0, c)
    BY <1>1, <1>4 DEF Shape, Committing
  <2> QED BY <2>1, ShapeFrame
<1>12. Agrees(p, s0, c)'
  <2>1. Known(s0.claim)' /\ Older(s0.claim)' /\ Known(c0.want)'
    BY <1>1, <1>6, <1>9 DEF Agrees
  <2>2. c.seen = None /\ c.at # "rename" /\ c.op = "commit" /\ (c.at = "done" => file' = c.want)
    BY <1>1, <1>2, <1>4 DEF Committing
  <2>3. s0.src = file'.src /\ file' # None
    BY <1>1, <1>2, <1>6, <1>8 DEF Agrees
  <2> QED BY <1>1, <1>4, <1>6, <2>1, <2>2, <2>3 DEF Agrees, Repeatable
<1>13. Locked(p, c)'
  BY <1>1, <1>2, <1>4, <1>6 DEF Locked, Holding
<1>14. ASSUME NEW q \in Procs \ {p} PROVE Process(q, svc[q], call[q])' /\ ~Pending(q) /\ ~Pending(q)'
  <2> PICK s, d : s = svc[q] /\ d = call[q]
    OBVIOUS
  <2>1. svc'[q] = s /\ call'[q] = d
    BY <1>1, <1>5
  <2>2. s \in Services /\ d \in Calls /\ Shape(s, d) /\ Agrees(q, s, d) /\ Locked(q, d)
    BY AtProcess
  <2>3. /\ ~Holding(q, d) /\ ~claims[q] /\ ~(d.op = "claim" /\ d.at = "unlink")
        /\ ~(d.op = "complete" /\ d.at \in {"file", "lock"})
        /\ ~(d.op = "commit" /\ d.at \in {"rename", "done"})
        /\ s.at # "sending"
    BY <1>1, <1>10, HeldElsewhere
  <2>4. Agrees(q, s, d)'
    <3>1. \A r \in Checkpoints : Known(r) /\ Older(r) => Known(r)' /\ Older(r)'
      BY <1>9
    <3>2. \A r \in Checkpoints : Known(r) => Known(r)' \/ d.want = None
      BY <1>9
    <3>3. file' # None => file # None /\ file'.src = file.src
      BY <1>2, <1>6, <1>8
    <3> QED BY <2>2, <2>3, <3>1, <3>2, <3>3, AgreesFrame
  <2>5. Locked(q, d)'
    BY <1>2, <2>2, <2>3 DEF Locked, Holding
  <2>6. Shape(s, d)'
    BY <2>2, ShapeFrame
  <2>7. Process(q, s, d)'
    BY <2>4, <2>5, <2>6 DEF Process
  <2>8. ~Pending(q) /\ ~Pending(q)'
    BY <2>1, <2>3 DEF Pending, Finishes
  <2> QED BY <2>1, <2>7, <2>8
<1>15. Process(p, s0, c)'
  BY <1>11, <1>12, <1>13 DEF Process
<1>16. svc' = [svc EXCEPT ![p] = s0]
  BY DEF TypeOK
<1>17. ProcessInv' /\ call' \in [Procs -> Calls]
  BY <1>1, <1>4, <1>5, <1>14, <1>15, <1>16, AllGo
<1>18. ~Pending(p) /\ (Pending(p)' => s0.op = "finalize")
  BY <1>1 DEF Pending, Finishes
<1>19. outcome = "open"
  BY <1>6 DEF DeviceInv
<1>20. s0.op \in {"report", "finalize"} /\ Closing(file) => Repeatable
  BY <1>6, <1>7 DEF Follows
<1>21. Known(file)'
  <2>1. Known(c0.want)'
    BY <1>6, <1>9
  <2> QED BY <1>2, <2>1 DEF Known
<1> QED BY <1>2, <1>6, <1>7, <1>14, <1>17, <1>18, <1>19, <1>20, <1>21

\* complete() removes the checkpoint's file: only the claim's holder does.
LEMMA CompleteFileKeeps ==
  ASSUME TypeOK, ProcessInv, NEW p \in Procs, Complete_File(p), UNCHANGED <<svc, dev, policy>>,
         outcome' \in {outcome, "verified", "retired"}
  PROVE  /\ ProcessInv' /\ call' \in [Procs -> Calls]
         /\ \A q \in Procs : Pending(q)' => Pending(q)
         /\ svc[p].op \in {"verify", "retire"} /\ outcome # "none"
         /\ svc[p].op = "verify" => dev.fin > 0 /\ file # None /\ file.phase = "verifying"
<1> PICK s0, c0 : s0 = svc[p] /\ c0 = call[p]
  OBVIOUS
<1>1. /\ s0 \in Services /\ c0 \in Calls /\ live[p] /\ Shape(s0, c0) /\ Agrees(p, s0, c0) /\ Locked(p, c0)
      /\ s0.at = "waiting" /\ c0.op = "complete" /\ c0.at = "file" /\ Completing(s0, c0) /\ outcome # "none"
      /\ call \in [Procs -> Calls]
  BY AtCall DEF Complete_File
<1>2. UNCHANGED <<lock, claims, live>> /\ file' = None /\ outcome' # "none"
  BY <1>1 DEF Complete_File
<1>3. PICK at \in {"lock", "failed"} : call' = [call EXCEPT ![p].at = at]
  BY DEF Complete_File, Goto
<1>c. PICK c : c = [c0 EXCEPT !.at = at]
  OBVIOUS
<1>4. c \in Calls /\ c.op = c0.op /\ c.at = at /\ c.seen = c0.seen /\ c.want = c0.want
  BY <1>1, <1>c, NextAt
<1>5. call' = [call EXCEPT ![p] = c]
  BY <1>1, <1>3, <1>c
<1>6. claims[p] /\ lock # None /\ lock.pid = p
  BY <1>1 DEF Locked, Holding
<1>7. ASSUME NEW r \in Checkpoints, Known(r)
      PROVE  Known(r)' /\ Older(r)'
  BY <1>2, <1>7 DEF Known, Older
<1>8. Agrees(p, s0, c)'
  <2>1. c.seen = None /\ c.want = None /\ c.op = "complete" /\ c.at # "file" /\ s0.claim \in Checkpoints
    BY <1>1, <1>4 DEF Completing, Services
  <2>2. Known(s0.claim)' /\ Older(s0.claim)'
    BY <1>1, <1>7, <2>1 DEF Agrees, Completing
  <2> QED BY <1>1, <1>2, <2>1, <2>2 DEF Agrees, Repeatable
<1>9. Locked(p, c)'
  BY <1>1, <1>2, <1>4, <1>6 DEF Locked, Holding
<1>10. Shape(s0, c)'
  <2>1. Shape(s0, c)
    BY <1>1, <1>4 DEF Shape, Completing
  <2> QED BY <2>1, ShapeFrame
<1>11. ASSUME NEW q \in Procs \ {p} PROVE Process(q, svc[q], call[q])' /\ (Pending(q)' => Pending(q))
  <2> PICK s, d : s = svc[q] /\ d = call[q]
    OBVIOUS
  <2>1. svc'[q] = s /\ call'[q] = d
    BY <1>1, <1>5
  <2>2. s \in Services /\ d \in Calls /\ Shape(s, d) /\ Agrees(q, s, d) /\ Locked(q, d)
    BY AtProcess
  <2>3. /\ ~Holding(q, d) /\ ~claims[q] /\ ~(d.op = "claim" /\ d.at = "unlink")
        /\ ~(d.op = "complete" /\ d.at \in {"file", "lock"})
        /\ ~(d.op = "commit" /\ d.at \in {"rename", "done"})
        /\ s.at # "sending"
    BY <1>1, <1>6, HeldElsewhere
  <2>4. Agrees(q, s, d)'
    <3>1. \A r \in Checkpoints : Known(r) /\ Older(r) => Known(r)' /\ Older(r)'
      BY <1>7
    <3>2. \A r \in Checkpoints : Known(r) => Known(r)' \/ d.want = None
      BY <1>7
    <3> QED BY <1>2, <2>2, <2>3, <3>1, <3>2, AgreesFrame
  <2>5. Locked(q, d)'
    BY <1>2, <2>2, <2>3 DEF Locked, Holding
  <2>6. Shape(s, d)'
    BY <2>2, ShapeFrame
  <2>7. Process(q, s, d)'
    BY <2>4, <2>5, <2>6 DEF Process
  <2>8. Pending(q)' => Pending(q)
    BY <2>1 DEF Pending, Finishes
  <2> QED BY <2>1, <2>7, <2>8
<1>12. Process(p, s0, c)'
  BY <1>8, <1>9, <1>10 DEF Process
<1>13. svc' = [svc EXCEPT ![p] = s0]
  BY DEF TypeOK
<1>14. ProcessInv' /\ call' \in [Procs -> Calls]
  BY <1>1, <1>4, <1>5, <1>11, <1>12, <1>13, AllGo
<1>15. Pending(p)' => Pending(p)
  <2>1. svc'[p] = s0 /\ call'[p] = c
    BY <1>1, <1>5
  <2> QED BY <1>1, <1>4, <2>1 DEF Pending, Finishes
<1>16. s0.op = "verify" => dev.fin > 0 /\ file # None /\ file.phase = "verifying"
  BY <1>1 DEF Agrees
<1> QED BY <1>1, <1>11, <1>14, <1>15, <1>16 DEF Completing

\* A process that dies leaves the others what they had.
LEMMA CrashKeeps ==
  ASSUME TypeOK, ProcessInv, NEW p \in Procs, Crash(p)
  PROVE  /\ ProcessInv' /\ svc' \in [Procs -> Services] /\ call' \in [Procs -> Calls]
         /\ \A q \in Procs : Pending(q)' => Pending(q)
<1>1. /\ svc' = [svc EXCEPT ![p] = NoService] /\ call' = [call EXCEPT ![p] = Idle]
      /\ claims' = [claims EXCEPT ![p] = FALSE] /\ live' = [live EXCEPT ![p] = FALSE]
      /\ UNCHANGED <<lock, file, dev, outcome, policy>>
  BY DEF Crash, Die, env, ghosts
<1>2. /\ svc \in [Procs -> Services] /\ call \in [Procs -> Calls]
      /\ claims \in [Procs -> BOOLEAN] /\ live \in [Procs -> BOOLEAN]
      /\ lock \in [pid : Procs, written : BOOLEAN] \cup {None}
  BY DEF TypeOK
<1>n. PICK n : n = NoService
  OBVIOUS
<1>3. n \in Services /\ n.at = "idle" /\ n.op = "none" /\ n.claim = None /\ n.resuming = FALSE
  BY <1>n, NoServiceType
<1>4. Process(p, n, Idle)'
  <2>1. Shape(n, Idle)'
    BY <1>n DEF Shape
  <2>2. Agrees(p, n, Idle)'
    BY <1>3, IdleCall DEF Agrees
  <2>3. Locked(p, Idle)'
    BY <1>1, <1>2, IdleCall DEF Locked, Holding
  <2> QED BY <2>1, <2>2, <2>3 DEF Process
<1>5. ASSUME NEW q \in Procs \ {p} PROVE Process(q, svc[q], call[q])' /\ (Pending(q)' => Pending(q))
  <2>1. svc'[q] = svc[q] /\ call'[q] = call[q] /\ claims'[q] = claims[q] /\ live'[q] = live[q]
    BY <1>1, <1>2
  <2>2. Locked(q, call[q])
    BY AtProcess
  <2>3. Holding(q, call[q]) => lock' # None /\ lock'.pid = q
    BY <1>1, <2>2 DEF Locked
  <2>4. call[q].op = "claim" /\ call[q].at = "unlink" => lock' # None /\ ~live'[lock'.pid]
    BY <1>1, <1>2, <2>2 DEF Locked
  <2>5. Process(q, svc[q], call[q])'
    BY <1>1, <2>1, <2>3, <2>4, OtherStays DEF Steady
  <2>6. Pending(q)' => Pending(q)
    BY <2>1 DEF Pending
  <2> QED BY <2>5, <2>6
<1>6. svc' = [svc EXCEPT ![p] = n]
  BY <1>1, <1>n
<1>7. ProcessInv' /\ svc' \in [Procs -> Services] /\ call' \in [Procs -> Calls]
  BY <1>1, <1>3, <1>4, <1>5, <1>6, IdleCall, AllGo
<1>8. ~Pending(p)'
  <2>1. svc'[p] = n
    BY <1>2, <1>6
  <2> QED BY <1>3, <2>1 DEF Pending, Finishes
<1> QED BY <1>5, <1>7, <1>8

\* Nothing is known of a checkpoint before there is one.
LEMMA NothingYet ==
  ASSUME TypeOK, ProcessInv, NEW q \in Procs, outcome = "none"
  PROVE  /\ svc[q].claim = None /\ call[q] = Idle
         /\ svc[q].at # "sending" /\ svc[q].op # "open" /\ svc[q].op # "verify"
<1> PICK s, c : s = svc[q] /\ c = call[q]
  OBVIOUS
<1>1. s \in Services /\ c \in Calls /\ Shape(s, c) /\ Agrees(q, s, c) /\ Locked(q, c)
  BY AtProcess
<1>2. s.claim = None /\ c = Idle
  BY <1>1 DEF Agrees, Known
<1>3. s.at # "waiting" /\ (s.at = "idle" => s.op = "none")
  BY <1>1, <1>2, IdleCall, NoServiceType DEF Shape, Claiming, Committing, Completing, Releasing
<1> QED BY <1>1, <1>2, <1>3, IdleCall, NoServiceType DEF Shape, Claiming, Committing, Completing, Releasing

\* A checkpoint is created when there was none, and says nothing yet.
LEMMA OpenKeeps ==
  ASSUME TypeOK, ProcessInv, DeviceInv, NEW p \in Procs, Open(p)
  PROVE  /\ ProcessInv' /\ svc' \in [Procs -> Services] /\ call' \in [Procs -> Calls]
         /\ \A q \in Procs : Pending(q)' => Pending(q)
         /\ file = None /\ outcome = "none" /\ file' \in Checkpoints /\ file' # None /\ outcome' = "open"
         /\ file'.prefix = 0 /\ file'.admitted = 0 /\ file'.phase = "preparing" /\ file'.gen = None
         /\ Known(file)'
<1> PICK s0, c0 : s0 = svc[p] /\ c0 = call[p]
  OBVIOUS
<1>1. /\ s0 \in Services /\ c0 \in Calls /\ Shape(s0, c0) /\ Agrees(p, s0, c0) /\ Locked(p, c0)
      /\ svc \in [Procs -> Services] /\ call \in [Procs -> Calls]
      /\ dev.reached \in 0 .. Length
  BY AtProcess DEF TypeOK
<1>2. /\ s0.at = "ready" /\ live[p] /\ s0.claim = None /\ ~s0.resuming /\ outcome = "none" /\ outcome' = "open"
      /\ file' = FreshCheckpoint(s0.src) /\ c0 = Idle
      /\ UNCHANGED <<lock, temporary, claims, live, faults, dev, policy>>
  BY DEF Open, Usable, Ready, Claim, env
<1>3. file = None
  BY <1>2 DEF DeviceInv
<1>4. PICK f : f = FreshCheckpoint(s0.src)
  OBVIOUS
<1>5. /\ f \in Checkpoints /\ f.prefix = 0 /\ f.admitted = 0 /\ f.phase = "preparing" /\ f.gen = None
      /\ f.src = s0.src
  <2>1. s0.src \in Sources /\ 0 \in 0 .. Length /\ 0 \in Nat
    BY <1>1, <1>2, TransferAssumption DEF Agrees
  <2> QED BY <1>4, <2>1 DEF FreshCheckpoint, Checkpoints, Phases
<1>6. file' = f /\ f # None
  BY <1>2, <1>4, <1>5, NoneAssumption
<1>s. PICK s : s = [s0 EXCEPT !.at = "waiting", !.op = "open"]
  OBVIOUS
<1>c. PICK c : c = [op |-> "claim", at |-> "read", seen |-> None, want |-> None]
  OBVIOUS
<1>7. /\ s \in Services /\ s.at = "waiting" /\ s.op = "open" /\ s.claim = None /\ ~s.resuming /\ s.src = s0.src
  BY <1>1, <1>2, <1>s DEF Services, ServiceOps
<1>8. c \in Calls /\ c.op = "claim" /\ c.at = "read" /\ c.seen = None /\ c.want = None /\ c # Idle
  BY <1>c, BegunCall
<1>9. svc' = [svc EXCEPT ![p] = s] /\ call' = [call EXCEPT ![p] = c]
  BY <1>1, <1>s, <1>c DEF Open, Claim, Begin, Await
<1>10. Process(p, s, c)'
  <2>1. Shape(s, c)
    BY <1>7, <1>8 DEF Shape, Claiming
  <2>2. Shape(s, c)'
    BY <1>2, <2>1, ShapeFrame
  <2>3. Agrees(p, s, c)'
    BY <1>1, <1>2, <1>5, <1>6, <1>7, <1>8 DEF Agrees
  <2>4. Locked(p, c)'
    BY <1>1, <1>2, <1>8, IdleCall DEF Locked, Holding
  <2> QED BY <2>2, <2>3, <2>4 DEF Process
<1>11. ASSUME NEW q \in Procs \ {p} PROVE Process(q, svc[q], call[q])' /\ (Pending(q)' => Pending(q))
  <2> PICK t, d : t = svc[q] /\ d = call[q]
    OBVIOUS
  <2>1. t \in Services /\ d \in Calls /\ Shape(t, d) /\ Agrees(q, t, d) /\ Locked(q, d)
    BY AtProcess
  <2>2. svc'[q] = t /\ call'[q] = d
    BY <1>1, <1>9
  <2>3. t.claim = None /\ d = Idle /\ t.at # "sending" /\ t.op # "open" /\ t.op # "verify"
    BY <1>2, NothingYet
  <2>4. Shape(t, d)'
    BY <1>2, <2>1, ShapeFrame
  <2>5. Agrees(q, t, d)'
    BY <1>2, <2>1, <2>3, IdleCall DEF Agrees
  <2>6. Locked(q, d)'
    BY <1>2, <2>1 DEF Locked, Holding
  <2>7. Process(q, t, d)'
    BY <2>4, <2>5, <2>6 DEF Process
  <2> QED BY <2>2, <2>7 DEF Pending
<1>12. ProcessInv' /\ svc' \in [Procs -> Services] /\ call' \in [Procs -> Calls]
  BY <1>7, <1>8, <1>9, <1>10, <1>11, AllGo
<1>13. ~Pending(p)'
  <2>1. svc'[p] = s
    BY <1>1, <1>9
  <2> QED BY <1>7, <2>1 DEF Pending, Finishes
<1>14. Known(file)'
  <2>1. f.prefix <= dev.reached
    BY <1>1, <1>5
  <2>2. dev.gen \in Nat
    BY DEF TypeOK
  <2> QED BY <1>2, <1>5, <1>6, <2>1, <2>2, NoneAssumption DEF Known
<1> QED BY <1>2, <1>3, <1>5, <1>6, <1>11, <1>12, <1>13, <1>14

\* What the device may do: it gets further, or it forgets and begins a generation.
DevMoves == /\ UNCHANGED <<file, lock, claims, live, outcome, policy, svc, call>>
            /\ dev'.gen >= dev.gen /\ dev'.reached >= dev.reached /\ dev'.fin >= dev.fin
            /\ dev'.gen = dev.gen => dev'.com >= dev.com

\* What was known of a checkpoint stays so while the device moves.
LEMMA DeviceMoves ==
  ASSUME TypeOK, ProcessInv, DevMoves,
         dev' \in [gen : Nat, vol : 0 .. Length, com : 0 .. Length, img : Seq(Sources), reached : 0 .. Length, fin : Nat]
  PROVE  /\ ProcessInv' /\ svc' \in [Procs -> Services] /\ call' \in [Procs -> Calls]
         /\ \A q \in Procs : Pending(q)' => Pending(q)
         /\ \A r \in Checkpoints : Known(r) => Known(r)'
<1>1. /\ dev.gen \in Nat /\ dev.com \in Nat /\ dev.reached \in Nat /\ dev.fin \in Nat
      /\ dev'.gen \in Nat /\ dev'.com \in Nat /\ dev'.reached \in Nat /\ dev'.fin \in Nat
  BY DEF TypeOK
<1>2. ASSUME NEW r \in Checkpoints, Known(r) PROVE Known(r)'
  <2>1. r.prefix \in Nat /\ r.gen \in Nat \cup {None}
    BY DEF Checkpoints
  <2>2. r.prefix <= dev'.reached
    BY <1>1, <1>2, <2>1 DEF Known, DevMoves
  <2>3. r.gen # None => r.gen <= dev'.gen
    BY <1>1, <1>2, <2>1 DEF Known, DevMoves
  <2>4. r.gen = dev'.gen => r.prefix <= dev'.com
    <3> SUFFICES ASSUME r.gen = dev'.gen PROVE r.prefix <= dev'.com
      OBVIOUS
    <3>1. r.gen # None
      BY <1>1, NoneAssumption
    <3>2. dev'.gen = dev.gen
      BY <1>1, <1>2, <2>1, <3>1 DEF Known, DevMoves
    <3> QED BY <1>1, <1>2, <2>1, <3>2 DEF Known, DevMoves
  <2> QED BY <1>2, <2>2, <2>3, <2>4 DEF Known, DevMoves
<1>3. ASSUME NEW q \in Procs PROVE Process(q, svc[q], call[q])'
  <2> PICK s, c : s = svc[q] /\ c = call[q]
    OBVIOUS
  <2>1. s \in Services /\ c \in Calls /\ Shape(s, c) /\ Agrees(q, s, c) /\ Locked(q, c)
    BY AtProcess
  <2>2. svc'[q] = s /\ call'[q] = c
    BY DEF DevMoves
  <2>3. Shape(s, c)'
    BY <2>1, ShapeFrame DEF DevMoves
  <2>4. Locked(q, c)'
    BY <2>1 DEF Locked, Holding, DevMoves
  <2>5. Agrees(q, s, c)'
    <3>1. \A r : Older(r)' <=> Older(r)
      BY DEF Older, DevMoves
    <3>2. dev.fin > 0 => dev'.fin > 0
      BY <1>1 DEF DevMoves
    <3>3. Horizon' = Horizon
      BY DEF Horizon, DevMoves
    <3>4. \A r \in Checkpoints : Known(r) /\ Older(r) => Known(r)' /\ Older(r)'
      BY <1>2, <3>1
    <3>5. \A r \in Checkpoints : Known(r) => Known(r)' \/ c.want = None
      BY <1>2
    <3>6. file' = file /\ claims' = claims /\ outcome' = outcome /\ policy' = policy
      BY DEF DevMoves
    <3>7. s.op = "open" \/ s.claim # None => (file' # None => file # None /\ file'.src = file.src)
      BY <3>6
    <3> QED BY <2>1, <3>2, <3>3, <3>4, <3>5, <3>6, <3>7, AgreesFrame
  <2>6. Process(q, s, c)'
    BY <2>3, <2>4, <2>5 DEF Process
  <2> QED BY <2>2, <2>6
<1>4. \A q \in Procs : Pending(q)' => Pending(q)
  BY DEF Pending, DevMoves
<1> QED BY <1>2, <1>3, <1>4 DEF ProcessInv, DevMoves, TypeOK

\* A link that breaks revokes the operation of the process that had it.
LEMMA DisconnectKeeps ==
  ASSUME TypeOK, ProcessInv, Disconnect
  PROVE  /\ ProcessInv' /\ svc' \in [Procs -> Services] /\ call' \in [Procs -> Calls]
         /\ \A q \in Procs : Pending(q)' => Pending(q)
<1>1. conn \in Procs /\ Still /\ UNCHANGED <<call, claims>>
      /\ svc' = [svc EXCEPT ![conn].revoked = (svc[conn].at # "idle")]
  BY DEF Disconnect, store, ghosts, Still, TypeOK
<1> PICK p : p = conn
  OBVIOUS
<1>2. p \in Procs /\ svc \in [Procs -> Services] /\ call \in [Procs -> Calls]
  BY <1>1 DEF TypeOK
<1>3. CASE svc[p].at = "idle"
  <2>1. svc[p].revoked = FALSE
    BY <1>2, <1>3, AtProcess, Acts, NoServiceType
  <2>2. svc' = svc
    BY <1>1, <1>2, <1>3, <2>1 DEF Services
  <2>3. \E s, c : Goes(p, s, c)
    BY <1>1, <1>2, <2>2, StaysGoes
  <2> QED BY <1>1, <1>2, <2>3, StillGo
<1>4. CASE svc[p].at # "idle"
  <2>1. svc' = [svc EXCEPT ![p].revoked = TRUE]
    BY <1>1, <1>4
  <2>2. \E s, c : Goes(p, s, c)
    BY <1>1, <1>2, <1>4, <2>1, RevokedGoes
  <2> QED BY <1>1, <1>2, <2>2, StillGo
<1> QED BY <1>3, <1>4

\* The positions of the finalization commands on a wire.
FinalsAt(w) == {i \in 1 .. Len(w) : w[i].kind = "final"}

\* They are finitely many.
LEMMA FinalsFinite ==
  ASSUME NEW w \in Seq(Carriers)
  PROVE  IsFiniteSet(FinalsAt(w)) /\ FinalsOn(w) = Cardinality(FinalsAt(w)) /\ FinalsOn(w) \in Nat
<1>1. Len(w) \in Nat
  OBVIOUS
<1>2. IsFiniteSet(1 .. Len(w))
  BY <1>1, FS_Interval
<1>3. FinalsAt(w) \in SUBSET (1 .. Len(w))
  BY DEF FinalsAt
<1>4. IsFiniteSet(FinalsAt(w))
  BY <1>2, <1>3, FS_Subset
<1>5. FinalsOn(w) = Cardinality(FinalsAt(w))
  BY DEF FinalsOn, FinalsAt
<1> QED BY <1>4, <1>5, FS_CardinalityType

\* An empty wire has none.
LEMMA FinalsEmpty == FinalsOn(<<>>) = 0
<1>1. FinalsAt(<<>>) = {}
  BY DEF FinalsAt
<1>2. FinalsOn(<<>>) = Cardinality(FinalsAt(<<>>))
  BY DEF FinalsOn, FinalsAt
<1> QED BY <1>1, <1>2, FS_EmptySet

\* A command that is written adds itself.
LEMMA FinalsAppend ==
  ASSUME NEW w \in Seq(Carriers), NEW m \in Carriers
  PROVE  /\ Append(w, m) \in Seq(Carriers)
         /\ FinalsOn(Append(w, m)) = FinalsOn(w) + (IF m.kind = "final" THEN 1 ELSE 0)
<1> PICK v : v = Append(w, m)
  OBVIOUS
<1>1. /\ v \in Seq(Carriers) /\ Len(w) \in Nat /\ Len(v) = Len(w) + 1 /\ v[Len(w) + 1] = m
      /\ \A i \in 1 .. Len(w) : v[i] = w[i]
  OBVIOUS
<1>2. FinalsAt(v) = FinalsAt(w) \cup (IF m.kind = "final" THEN {Len(w) + 1} ELSE {})
  BY <1>1 DEF FinalsAt
<1>3. Len(w) + 1 \notin FinalsAt(w)
  BY <1>1 DEF FinalsAt
<1>4. /\ IsFiniteSet(FinalsAt(w)) /\ FinalsOn(w) = Cardinality(FinalsAt(w)) /\ FinalsOn(w) \in Nat
      /\ FinalsOn(v) = Cardinality(FinalsAt(v))
  BY <1>1, FinalsFinite
<1>5. CASE m.kind = "final"
  <2>1. FinalsAt(v) = FinalsAt(w) \cup {Len(w) + 1}
    BY <1>2, <1>5
  <2>2. Cardinality(FinalsAt(w) \cup {Len(w) + 1}) = Cardinality(FinalsAt(w)) + 1
    BY <1>3, <1>4, FS_AddElement
  <2> QED BY <1>1, <1>4, <1>5, <2>1, <2>2
<1>6. CASE m.kind # "final"
  <2>1. FinalsAt(v) = FinalsAt(w)
    BY <1>2, <1>6
  <2> QED BY <1>1, <1>4, <1>6, <2>1
<1> QED BY <1>5, <1>6

\* A command that is read takes itself away.
LEMMA FinalsTail ==
  ASSUME NEW w \in Seq(Carriers), w # <<>>
  PROVE  /\ Head(w) \in Carriers /\ Tail(w) \in Seq(Carriers) /\ Head(w) = w[1]
         /\ Len(Tail(w)) = Len(w) - 1 /\ Len(w) \in Nat
         /\ \A i \in 1 .. Len(Tail(w)) : Tail(w)[i] = w[i + 1]
         /\ FinalsOn(w) = FinalsOn(Tail(w)) + (IF Head(w).kind = "final" THEN 1 ELSE 0)
<1> PICK v, m : v = Tail(w) /\ m = Head(w)
  OBVIOUS
<1>1. /\ m \in Carriers /\ v \in Seq(Carriers) /\ m = w[1] /\ Len(v) = Len(w) - 1 /\ Len(w) \in Nat
      /\ Len(w) > 0 /\ \A i \in 1 .. Len(v) : v[i] = w[i + 1]
  OBVIOUS
<1> DEFINE F == [i \in FinalsAt(v) |-> i + 1]
           S == FinalsAt(w) \ {1}
<1>2. S = {F[i] : i \in FinalsAt(v)}
  <2>1. ASSUME NEW j \in S PROVE j - 1 \in FinalsAt(v) /\ F[j - 1] = j
    BY <1>1 DEF FinalsAt
  <2>2. ASSUME NEW i \in FinalsAt(v) PROVE F[i] \in S
    BY <1>1 DEF FinalsAt
  <2> HIDE DEF F, S
  <2>3. \A j \in S : \E i \in FinalsAt(v) : j = F[i]
    BY <2>1
  <2> QED BY <2>2, <2>3
<1>3. ExistsBijection(FinalsAt(v), S)
  <2>1. F \in [FinalsAt(v) -> S]
    <3>1. \A i \in FinalsAt(v) : i + 1 \in S
      BY <1>1 DEF FinalsAt
    <3> QED BY <3>1
  <2>2. \A i, j \in FinalsAt(v) : i # j => F[i] # F[j]
    BY <1>1 DEF FinalsAt
  <2>3. \A t \in S : \E i \in FinalsAt(v) : F[i] = t
    <3> HIDE DEF F, S
    <3> QED BY <1>2
  <2> HIDE DEF F, S
  <2>4. F \in Injection(FinalsAt(v), S)
    BY <2>1, <2>2, Fun_IsInj
  <2>5. F \in Surjection(FinalsAt(v), S)
    BY <2>1, <2>3, Fun_IsSurj
  <2> QED BY <2>4, <2>5 DEF ExistsBijection, Bijection
<1>4. /\ IsFiniteSet(FinalsAt(v)) /\ FinalsOn(v) = Cardinality(FinalsAt(v)) /\ FinalsOn(v) \in Nat
      /\ IsFiniteSet(FinalsAt(w)) /\ FinalsOn(w) = Cardinality(FinalsAt(w)) /\ FinalsOn(w) \in Nat
  BY <1>1, FinalsFinite
<1>5. Cardinality(S) = FinalsOn(v)
  <2> HIDE DEF S
  <2> QED BY <1>3, <1>4, FS_Bijection
<1>6. Cardinality(S) = IF 1 \in FinalsAt(w) THEN Cardinality(FinalsAt(w)) - 1 ELSE Cardinality(FinalsAt(w))
  BY <1>4, FS_RemoveElement
<1>7. 1 \in FinalsAt(w) <=> m.kind = "final"
  BY <1>1 DEF FinalsAt
<1>8. FinalsOn(w) = FinalsOn(v) + (IF m.kind = "final" THEN 1 ELSE 0)
  <2> HIDE DEF S
  <2> QED BY <1>4, <1>5, <1>6, <1>7
<1> QED BY <1>1, <1>8

\* A report or digest may be taken from the inbox; the rest of what the device did stays.
LEMMA DeviceStays ==
  ASSUME DeviceInv, UNCHANGED <<file, dev, outcome, wire>>, inbox' \in {inbox, None}
  PROVE  DeviceInv'
BY DEF DeviceInv, Known, Horizon

\* The horizon is within the source.
LEMMA HorizonType == ASSUME TypeOK PROVE Horizon \in 0 .. Length
<1>1. 0 \in 0 .. Length /\ Length \in 0 .. Length
  BY TransferAssumption
<1>2. file # None => file.admitted \in 0 .. Length
  BY DEF TypeOK, Checkpoints
<1> QED BY <1>1, <1>2 DEF Horizon

\* A command written by the process that has the port, under the horizon and from the
\* checkpoint's source.
LEMMA DeviceFed ==
  ASSUME TypeOK, DeviceInv, UNCHANGED <<file, dev, outcome, inbox>>, NEW m \in Carriers,
         wire' \in {wire, Append(wire, m)}, outcome # "none",
         m.kind = "data" => m.hi <= Horizon /\ (file # None => m.src = file.src)
  PROVE  DeviceInv' /\ wire' \in Seq(Carriers)
<1>1. CASE wire' = wire
  BY <1>1, DeviceStays DEF TypeOK
<1>2. CASE wire' = Append(wire, m)
  <2>1. wire \in Seq(Carriers)
    BY DEF TypeOK
  <2>2. /\ wire' \in Seq(Carriers) /\ Len(wire) \in Nat /\ Len(wire') = Len(wire) + 1
        /\ wire'[Len(wire) + 1] = m /\ \A i \in 1 .. Len(wire) : wire'[i] = wire[i]
    BY <1>2, <2>1
  <2>3. Horizon' = Horizon
    BY DEF Horizon
  <2>4. ASSUME NEW i \in 1 .. Len(wire'), wire'[i].kind = "data"
        PROVE  wire'[i].hi <= Horizon /\ (file # None => wire'[i].src = file.src)
    <3>1. CASE i \in 1 .. Len(wire)
      BY <2>2, <2>4, <3>1 DEF DeviceInv
    <3>2. CASE i = Len(wire) + 1
      BY <2>2, <2>4, <3>2
    <3> QED BY <2>2, <3>1, <3>2
  <2>5. \A i \in 1 .. Len(wire') : wire'[i].kind = "data" =>
          wire'[i].hi <= Horizon' /\ (file' # None => wire'[i].src = file'.src)
    BY <2>3, <2>4
  <2>6. DeviceInv'
    <3> HIDE <1>2
    <3> QED BY <2>3, <2>5 DEF DeviceInv, Known
  <2> QED BY <2>2, <2>6
<1> QED BY <1>1, <1>2

\* The carrier written is under the durable horizon.
LEMMA SendFeeds ==
  ASSUME TypeOK, ProcessInv, DeviceInv, NEW p \in Procs, Send(p)
  PROVE  DeviceInv' /\ wire' \in Seq(Carriers) /\ FinalsOn(wire') = FinalsOn(wire)
<1>s. PICK s0 : s0 = svc[p]
  OBVIOUS
<1>1. /\ s0 \in Services /\ Shape(s0, call[p]) /\ Agrees(p, s0, call[p])
      /\ s0.at = "sending" /\ s0.op = "admit"
  BY <1>s, AtProcess DEF Send
<1>2. s0.claim # None /\ s0.src \in Sources /\ s0.next \in 0 .. Length /\ s0.submitted \in 0 .. Length
  BY <1>1, Acts DEF Agrees, Services
<1>m. PICK m : m = [kind |-> "data", lo |-> s0.submitted, hi |-> s0.next, src |-> s0.src]
  OBVIOUS
<1>3. m \in Carriers /\ m.kind = "data" /\ m.hi = s0.next /\ m.src = s0.src
  BY <1>2, <1>m DEF Carriers
<1>4. m.hi <= Horizon /\ (file # None => m.src = file.src) /\ outcome # "none"
  BY <1>1, <1>2, <1>3 DEF Agrees, Known
<1>5. UNCHANGED <<file, dev, outcome, inbox>> /\ wire' \in {wire, Append(wire, m)}
  BY <1>s, <1>m DEF Send, store, ghosts
<1>6. DeviceInv' /\ wire' \in Seq(Carriers)
  BY <1>3, <1>4, <1>5, DeviceFed
<1>7. FinalsOn(wire') = FinalsOn(wire)
  <2>1. wire \in Seq(Carriers)
    BY DEF TypeOK
  <2>2. FinalsOn(Append(wire, m)) = FinalsOn(wire) /\ FinalsOn(wire) \in Nat
    BY <1>3, <2>1, FinalsAppend, FinalsFinite
  <2> QED BY <1>5, <2>2
<1> QED BY <1>6, <1>7

\* The finalization written is the one that was due.
LEMMA SendFinalFeeds ==
  ASSUME TypeOK, ProcessInv, DeviceInv, NEW p \in Procs, SendFinal(p)
  PROVE  /\ DeviceInv' /\ wire' \in Seq(Carriers) /\ FinalsOn(wire') \in {FinalsOn(wire), FinalsOn(wire) + 1}
         /\ Pending(p) /\ ~Pending(p)' /\ claims[p]
<1>s. PICK s0 : s0 = svc[p]
  OBVIOUS
<1>1. /\ s0 \in Services /\ Shape(s0, call[p]) /\ Agrees(p, s0, call[p])
      /\ s0.at = "sending" /\ s0.op = "finalize" /\ svc \in [Procs -> Services]
  BY <1>s, AtProcess DEF SendFinal, TypeOK
<1>2. s0.claim # None /\ claims[p] /\ outcome # "none"
  BY <1>1, Acts DEF Agrees, Known
<1>m. PICK m : m = [kind |-> "final"]
  OBVIOUS
<1>3. m \in Carriers /\ m.kind = "final"
  BY <1>m DEF Carriers
<1>5. UNCHANGED <<file, dev, outcome, inbox>> /\ wire' \in {wire, Append(wire, m)}
  BY <1>m DEF SendFinal, store, ghosts
<1>6. DeviceInv' /\ wire' \in Seq(Carriers)
  BY <1>2, <1>3, <1>5, DeviceFed
<1>7. FinalsOn(wire') \in {FinalsOn(wire), FinalsOn(wire) + 1}
  <2>1. wire \in Seq(Carriers)
    BY DEF TypeOK
  <2>2. FinalsOn(Append(wire, m)) = FinalsOn(wire) + 1
    BY <1>3, <2>1, FinalsAppend
  <2> QED BY <1>5, <2>2
<1>8. Pending(p)
  BY <1>s, <1>1 DEF Pending, Finishes
<1>9. ~Pending(p)'
  <2>r. PICK r : r = [svc[p] EXCEPT !.at = "ready", !.op = "none"]
    OBVIOUS
  <2>1. svc' = [svc EXCEPT ![p] = r]
    BY <1>1, <2>r DEF SendFinal
  <2>2. svc'[p] = r /\ r.op = "none"
    BY <1>s, <1>1, <2>r, <2>1 DEF Services
  <2> QED BY <2>2 DEF Pending, Finishes
<1> QED BY <1>2, <1>6, <1>7, <1>8, <1>9

\* The file moves on, or goes away.
LEMMA DeviceFollows ==
  ASSUME TypeOK, DeviceInv, UNCHANGED <<dev, wire, inbox>>, Horizon \in Nat, Horizon' \in Nat,
         Horizon <= Horizon', outcome' # "none", outcome' = "open" <=> file' # None,
         file' # None => file # None /\ file'.src = file.src /\ Known(file)'
  PROVE  DeviceInv'
<1>1. dev.vol \in Nat
  BY DEF TypeOK
<1>2. dev.vol <= Horizon'
  BY <1>1 DEF DeviceInv
<1>3. ASSUME NEW i \in 1 .. Len(wire), wire[i].kind = "data"
      PROVE  wire[i].hi <= Horizon' /\ (file' # None => wire[i].src = file'.src)
  <2>1. wire[i] \in Carriers
    BY DEF TypeOK
  <2>2. wire[i].hi \in Nat
    BY <1>3, <2>1 DEF Carriers
  <2>3. wire[i].hi <= Horizon /\ (file # None => wire[i].src = file.src)
    BY <1>3 DEF DeviceInv
  <2> QED BY <2>2, <2>3
<1>4. file' # None => \A i \in 1 .. Len(dev.img) : dev.img[i] = file'.src
  BY DEF DeviceInv
<1>5. \A i \in 1 .. Len(wire') : wire'[i].kind = "data" =>
          wire'[i].hi <= Horizon' /\ (file' # None => wire'[i].src = file'.src)
  BY <1>3
<1> QED BY <1>2, <1>4, <1>5 DEF DeviceInv, Known

\* The device keeps up with the file's next revision.
LEMMA RenameFollows ==
  ASSUME TypeOK, DeviceInv, NEW op, UNCHANGED <<dev, wire, inbox, outcome>>,
         file # None, file' # None, file' \in Checkpoints, outcome = "open",
         Follows(op, file, file'), Known(file)'
  PROVE  DeviceInv'
<1>1. Horizon = file.admitted /\ Horizon' = file'.admitted
  BY DEF Horizon
<1>2. file.admitted \in Nat /\ file'.admitted \in Nat
  BY DEF TypeOK, Checkpoints
<1>3. file'.src = file.src /\ file'.admitted >= file.admitted
  BY <1>2 DEF Follows
<1>4. Horizon \in Nat /\ Horizon' \in Nat /\ Horizon <= Horizon'
  BY <1>1, <1>2, <1>3
<1> QED BY <1>3, <1>4, DeviceFollows

\* The device keeps its promise after the checkpoint is gone.
LEMMA CompleteFollows ==
  ASSUME TypeOK, DeviceInv, UNCHANGED <<dev, wire, inbox>>,
         file' = None, outcome' \in {outcome, "verified", "retired"}, outcome' # "none", outcome' # "open"
  PROVE  DeviceInv'
<1>1. Horizon' = Length
  BY DEF Horizon
<1>2. Horizon \in Nat /\ Horizon' \in Nat /\ Horizon <= Horizon'
  BY <1>1, HorizonType, TransferAssumption
<1>3. outcome' = "open" <=> file' # None
  OBVIOUS
<1> QED BY <1>2, <1>3, DeviceFollows

\* A fresh checkpoint finds a device that was sent nothing.
LEMMA OpenFollows ==
  ASSUME TypeOK, DeviceInv, UNCHANGED <<dev, wire, inbox>>, file = None, outcome = "none",
         file' # None, outcome' = "open", file'.admitted = 0, Known(file)'
  PROVE  DeviceInv'
<1>1. Horizon = 0 /\ Horizon' = 0
  BY DEF Horizon
<1>2. dev.vol = 0 /\ Len(dev.img) = 0 /\ wire = <<>>
  <2>1. dev.vol \in Nat
    BY DEF TypeOK
  <2> QED BY <1>1, <2>1 DEF DeviceInv
<1>3. \A i \in 1 .. Len(dev.img) : FALSE
  BY <1>2
<1>4. \A i \in 1 .. Len(wire') : FALSE
  BY <1>2
<1> QED BY <1>1, <1>3, <1>4 DEF DeviceInv

\* What the device may be.
Devices == [gen : Nat, vol : 0 .. Length, com : 0 .. Length, img : Seq(Sources), reached : 0 .. Length, fin : Nat]

\* What a step of the device or of the port keeps, in one list.
LinkKeeps ==
  /\ ProcessInv' /\ svc' \in [Procs -> Services] /\ call' \in [Procs -> Calls]
  /\ \A q \in Procs : Pending(q)' => Pending(q)
  /\ DeviceInv' /\ dev' \in Devices /\ wire' \in Seq(Carriers) /\ inbox' \in Reports \cup {None}
  /\ dev'.fin + FinalsOn(wire') <= dev.fin + FinalsOn(wire)

\* The type invariant's part about the device and the link.
LEMMA DevType ==
  ASSUME TypeOK
  PROVE  /\ dev \in Devices /\ dev.gen \in Nat /\ dev.vol \in Nat /\ dev.com \in Nat /\ dev.reached \in Nat
         /\ dev.fin \in Nat /\ dev.img \in Seq(Sources) /\ dev.vol <= Length /\ Length \in Nat
         /\ wire \in Seq(Carriers) /\ inbox \in Reports \cup {None}
         /\ Horizon \in Nat /\ FinalsOn(wire) \in Nat
<1>1. wire \in Seq(Carriers) /\ dev \in Devices /\ inbox \in Reports \cup {None}
  BY DEF TypeOK, Devices
<1>2. Horizon \in Nat /\ Length \in Nat
  BY HorizonType, TransferAssumption
<1>3. FinalsOn(wire) \in Nat
  BY <1>1, FinalsFinite
<1> QED BY <1>1, <1>2, <1>3 DEF Devices

\* A step of the device, as every process sees it.
LEMMA LinkMoves ==
  ASSUME TypeOK, ProcessInv, DeviceInv, DevMoves, dev' \in Devices
  PROVE  /\ ProcessInv' /\ svc' \in [Procs -> Services] /\ call' \in [Procs -> Calls]
         /\ \A q \in Procs : Pending(q)' => Pending(q)
         /\ file # None => Known(file)'
<1>1. dev' \in [gen : Nat, vol : 0 .. Length, com : 0 .. Length, img : Seq(Sources), reached : 0 .. Length, fin : Nat]
  BY DEF Devices
<1>2. /\ ProcessInv' /\ svc' \in [Procs -> Services] /\ call' \in [Procs -> Calls]
      /\ \A q \in Procs : Pending(q)' => Pending(q)
      /\ \A r \in Checkpoints : Known(r) => Known(r)'
  BY <1>1, DeviceMoves
<1>3. file # None => file \in Checkpoints /\ Known(file)
  BY DEF TypeOK, DeviceInv
<1>4. file # None => Known(file)'
  <2>r. PICK r : r = file
    OBVIOUS
  <2> SUFFICES ASSUME file # None PROVE Known(file)'
    OBVIOUS
  <2>1. r \in Checkpoints /\ Known(r)
    BY <1>3, <2>r
  <2>2. Known(r)' /\ file' = r
    BY <1>2, <2>1, <2>r DEF DevMoves
  <2> QED BY <2>2 DEF Known
<1> QED BY <1>2, <1>4

\* A connection that opens may find what the device had not committed lost.
LEMMA ConnectKeeps ==
  ASSUME TypeOK, ProcessInv, DeviceInv, NEW p \in Procs, Connect(p)
  PROVE  LinkKeeps
<1>1. /\ UNCHANGED <<store, svc, policy, ghosts>> /\ wire' = <<>> /\ inbox' = None
  BY DEF Connect
<1>2. PICK v \in {dev.com, dev.vol} : dev' = [dev EXCEPT !.vol = v, !.img = SubSeq(@, 1, v)]
  BY DEF Connect
<1>3. /\ v \in 0 .. Length /\ dev.com <= v /\ v <= dev.vol /\ dev.vol = Len(dev.img)
  BY <1>2, DevType DEF DeviceInv, TypeOK
<1>s. PICK s : s = SubSeq(dev.img, 1, v)
  OBVIOUS
<1>4. s \in Seq(Sources) /\ Len(s) = v /\ \A i \in 1 .. v : s[i] = dev.img[i]
  <2>1. \A i \in 1 .. v : dev.img[i] \in Sources
    BY <1>3, DevType
  <2>2. v \in Nat /\ 1 \in Int /\ v \in Int
    BY <1>3, DevType
  <2>3. /\ s \in Seq(Sources) /\ Len(s) = (IF 1 <= v THEN v - 1 + 1 ELSE 0)
        /\ \A i \in 1 .. v - 1 + 1 : s[i] = dev.img[1 + i - 1]
    BY <1>s, <2>1, <2>2, SubSeqProperties
  <2>4. v - 1 + 1 = v /\ \A i \in 1 .. v : 1 + i - 1 = i
    BY <2>2
  <2>5. Len(s) = v
    BY <2>2, <2>3, <2>4
  <2> QED BY <2>3, <2>4, <2>5
<1>d. dev' = [dev EXCEPT !.vol = v, !.img = s]
  BY <1>2, <1>s
<1>5. /\ dev' \in Devices /\ dev'.gen = dev.gen /\ dev'.com = dev.com /\ dev'.reached = dev.reached
      /\ dev'.fin = dev.fin /\ dev'.vol = v /\ dev'.img = s
  BY <1>3, <1>4, <1>d, DevType DEF Devices
<1>6. DevMoves
  BY <1>1, <1>5, DevType DEF DevMoves, store, ghosts
<1>7. /\ ProcessInv' /\ svc' \in [Procs -> Services] /\ call' \in [Procs -> Calls]
      /\ \A q \in Procs : Pending(q)' => Pending(q)
      /\ file # None => Known(file)'
  BY <1>5, <1>6, LinkMoves
<1>8. DeviceInv'
  <2>1. Horizon' = Horizon /\ file' = file /\ outcome' = outcome
    BY <1>1 DEF Horizon, store, ghosts
  <2>2. v <= Horizon
    BY <1>3, DevType DEF DeviceInv
  <2>3. file # None => \A i \in 1 .. Len(s) : s[i] = file.src
    <3> SUFFICES ASSUME file # None, NEW i \in 1 .. v PROVE s[i] = file.src
      BY <1>4
    <3>1. i \in 1 .. Len(dev.img)
      BY <1>3, DevType
    <3>2. dev.img[i] = file.src
      BY <3>1 DEF DeviceInv
    <3> QED BY <1>4, <3>2
  <2>4. \A i \in 1 .. Len(wire') : FALSE
    BY <1>1
  <2>5. file' # None => outcome' = "open" /\ Known(file)'
    BY <1>7, <2>1 DEF DeviceInv
  <2>6. outcome' = "open" => file' # None
    BY <2>1 DEF DeviceInv
  <2>7. dev'.com <= dev'.reached
    BY <1>5 DEF DeviceInv
  <2> QED BY <1>1, <1>3, <1>4, <1>5, <2>1, <2>2, <2>3, <2>4, <2>5, <2>6, <2>7 DEF DeviceInv
<1>9. dev'.fin + FinalsOn(wire') <= dev.fin + FinalsOn(wire)
  BY <1>1, <1>5, DevType, FinalsEmpty
<1>10. wire' \in Seq(Carriers) /\ inbox' \in Reports \cup {None}
  BY <1>1
<1> QED BY <1>5, <1>7, <1>8, <1>9, <1>10 DEF LinkKeeps

\* A connection that breaks loses what was on its way.
LEMMA DisconnectKeepsAll ==
  ASSUME TypeOK, ProcessInv, DeviceInv, Disconnect
  PROVE  LinkKeeps
<1>1. /\ UNCHANGED <<file, outcome, dev>> /\ wire' = <<>> /\ inbox' = None
  BY DEF Disconnect, store, ghosts
<1>2. DeviceInv'
  <2>1. Horizon' = Horizon /\ \A i \in 1 .. Len(wire') : FALSE
    BY <1>1 DEF Horizon
  <2> QED BY <1>1, <2>1 DEF DeviceInv, Known
<1>3. dev'.fin + FinalsOn(wire') <= dev.fin + FinalsOn(wire)
  BY <1>1, DevType, FinalsEmpty
<1>4. wire' \in Seq(Carriers) /\ inbox' \in Reports \cup {None} /\ dev' \in Devices
  BY <1>1, DevType
<1> QED BY <1>2, <1>3, <1>4, DisconnectKeeps DEF LinkKeeps

\* A device that forgets begins a generation no checkpoint names.
LEMMA DeviceForgetsKeeps ==
  ASSUME TypeOK, ProcessInv, DeviceInv, DeviceForgets
  PROVE  LinkKeeps
<1>1. /\ UNCHANGED <<file, lock, claims, call, live, svc, policy, wire, inbox, outcome>>
      /\ dev' = [dev EXCEPT !.gen = @ + 1, !.vol = 0, !.com = 0, !.img = <<>>]
  BY DEF DeviceForgets, ghosts
<1>2. /\ dev'.gen = dev.gen + 1 /\ dev'.com = 0 /\ dev'.reached = dev.reached
      /\ dev'.fin = dev.fin /\ dev'.vol = 0 /\ dev'.img = <<>> /\ dev' \in Devices
  <2>1. 0 \in 0 .. Length /\ dev.gen + 1 \in Nat /\ <<>> \in Seq(Sources)
    BY DevType
  <2> QED BY <1>1, <2>1, DevType DEF Devices
<1>3. DevMoves
  BY <1>1, <1>2, DevType DEF DevMoves
<1>4. /\ ProcessInv' /\ svc' \in [Procs -> Services] /\ call' \in [Procs -> Calls]
      /\ \A q \in Procs : Pending(q)' => Pending(q)
      /\ file # None => Known(file)'
  BY <1>2, <1>3, LinkMoves
<1>5. DeviceInv'
  <2>1. Horizon' = Horizon
    BY <1>1 DEF Horizon
  <2>2. inbox # None /\ inbox.kind = "report" =>
          /\ inbox.gen <= dev'.gen /\ (inbox.gen = dev'.gen => inbox.com <= dev'.com)
          /\ inbox.com <= dev'.reached
    <3> SUFFICES ASSUME inbox # None, inbox.kind = "report"
                 PROVE  /\ inbox.gen <= dev'.gen /\ inbox.gen # dev'.gen
                        /\ inbox.com <= dev'.reached
      OBVIOUS
    <3>1. inbox.gen \in Nat
      BY DevType DEF Reports
    <3>2. inbox.gen <= dev.gen /\ inbox.com <= dev.reached
      BY DEF DeviceInv
    <3> QED BY <1>2, <3>1, <3>2, DevType
  <2>3. Len(dev'.img) = 0
    BY <1>2
  <2>4. \A i \in 1 .. Len(dev'.img) : FALSE
    BY <2>3
  <2>5. dev'.com <= dev'.vol /\ dev'.vol <= Horizon /\ dev'.com <= dev'.reached
    BY <1>2, DevType
  <2> QED BY <1>1, <1>2, <1>4, <2>1, <2>2, <2>3, <2>4, <2>5 DEF DeviceInv
<1>6. dev'.fin + FinalsOn(wire') <= dev.fin + FinalsOn(wire)
  BY <1>1, <1>2, DevType
<1> QED BY <1>1, <1>2, <1>4, <1>5, <1>6, DevType DEF LinkKeeps

\* An image that was continued from one source.
LEMMA Filled ==
  ASSUME NEW img \in Seq(Sources), NEW n \in Nat, NEW src \in Sources,
         NEW s, s = img \o [i \in 1 .. n |-> src]
  PROVE  /\ s \in Seq(Sources) /\ Len(s) = Len(img) + n /\ Len(img) \in Nat
         /\ \A i \in 1 .. Len(s) : s[i] = IF i <= Len(img) THEN img[i] ELSE src
<1>f. PICK f : f = [i \in 1 .. n |-> src]
  OBVIOUS
<1>1. f \in [1 .. n -> Sources] /\ \A i \in 1 .. n : f[i] = src
  BY <1>f
<1>2. f \in Seq(Sources)
  BY <1>1, SeqDef
<1>3. Len(f) = n
  <2>1. DOMAIN f = 1 .. n /\ DOMAIN f = 1 .. Len(f) /\ Len(f) \in Nat
    BY <1>1, <1>2, LenProperties
  <2> QED BY <2>1
<1>4. Len(img) \in Nat
  BY LenProperties
<1>5. /\ s \in Seq(Sources) /\ Len(s) = Len(img) + Len(f)
      /\ \A i \in 1 .. Len(img) + Len(f) : s[i] = IF i <= Len(img) THEN img[i] ELSE f[i - Len(img)]
  BY <1>f, <1>2, ConcatProperties
<1>6. ASSUME NEW i \in 1 .. Len(s), ~(i <= Len(img)) PROVE f[i - Len(img)] = src
  BY <1>1, <1>3, <1>4, <1>5, <1>6
<1> QED BY <1>3, <1>4, <1>5, <1>6

\* The device takes the next carrier or executes the next finalization.
LEMMA DeviceReadsKeeps ==
  ASSUME TypeOK, ProcessInv, DeviceInv, DeviceReads
  PROVE  LinkKeeps
<1>m. PICK m : m = Head(wire)
  OBVIOUS
<1>1. /\ UNCHANGED <<file, lock, claims, live, svc, call, policy, inbox, outcome>> /\ wire' = Tail(wire) /\ wire # <<>>
      /\ dev' = (IF m.kind = "final" THEN [dev EXCEPT !.fin = IF dev.com = Length THEN @ + 1 ELSE @]
                 ELSE IF m.lo <= dev.vol /\ m.hi > dev.vol
                 THEN [dev EXCEPT !.vol = m.hi, !.img = @ \o [i \in 1 .. m.hi - dev.vol |-> m.src]]
                 ELSE dev)
  BY <1>m DEF DeviceReads, store, ghosts
<1>2. /\ m \in Carriers /\ wire' \in Seq(Carriers) /\ m = wire[1] /\ Len(wire') = Len(wire) - 1
      /\ \A i \in 1 .. Len(wire') : wire'[i] = wire[i + 1]
      /\ FinalsOn(wire) = FinalsOn(wire') + (IF m.kind = "final" THEN 1 ELSE 0)
      /\ Len(wire) \in Nat /\ Len(wire) > 0
  <2>1. wire \in Seq(Carriers)
    BY DevType
  <2>2. Len(wire) > 0
    BY <1>1, <2>1, EmptySeq
  <2> QED BY <1>m, <1>1, <2>1, <2>2, FinalsTail
<1>3. FinalsOn(wire') \in Nat
  BY <1>2, FinalsFinite
<1>4. /\ dev' \in Devices /\ dev'.gen = dev.gen /\ dev'.com = dev.com /\ dev'.reached = dev.reached
      /\ dev'.fin + FinalsOn(wire') <= dev.fin + FinalsOn(wire) /\ dev'.fin >= dev.fin
      /\ dev'.vol = Len(dev'.img) /\ dev'.com <= dev'.vol /\ dev'.vol <= Horizon
      /\ file # None => \A i \in 1 .. Len(dev'.img) : dev'.img[i] = file.src
  <2>0. /\ dev.vol = Len(dev.img) /\ dev.com <= dev.vol /\ dev.vol <= Horizon
        /\ file # None => \A i \in 1 .. Len(dev.img) : dev.img[i] = file.src
    BY DEF DeviceInv
  <2>1. CASE m.kind = "final"
    <3>k. PICK k : k = IF dev.com = Length THEN dev.fin + 1 ELSE dev.fin
      OBVIOUS
    <3>1. dev' = [dev EXCEPT !.fin = k] /\ k \in Nat /\ dev.fin <= k /\ k <= dev.fin + 1
      BY <1>1, <2>1, <3>k, DevType
    <3>2. /\ dev' \in Devices /\ dev'.gen = dev.gen /\ dev'.com = dev.com /\ dev'.reached = dev.reached
          /\ dev'.fin = k /\ dev'.vol = dev.vol /\ dev'.img = dev.img
      BY <3>1, DevType DEF Devices
    <3>3. k + FinalsOn(wire') <= dev.fin + FinalsOn(wire)
      BY <1>2, <1>3, <2>1, <3>1, DevType
    <3> QED BY <2>0, <3>1, <3>2, <3>3
  <2>2. CASE m.kind # "final" /\ m.lo <= dev.vol /\ m.hi > dev.vol
    <3>1. m.kind = "data" /\ m.hi \in 0 .. Length /\ m.src \in Sources
      BY <1>2, <2>2 DEF Carriers
    <3>2. m.hi <= Horizon /\ (file # None => m.src = file.src)
      <4>1. 1 \in 1 .. Len(wire)
        BY <1>2
      <4> QED BY <1>2, <3>1, <4>1 DEF DeviceInv
    <3>n. PICK n : n = m.hi - dev.vol
      OBVIOUS
    <3>s. PICK s : s = dev.img \o [i \in 1 .. n |-> m.src]
      OBVIOUS
    <3>3. n \in Nat /\ dev.vol + n = m.hi
      BY <2>2, <3>1, <3>n, DevType
    <3>4. /\ s \in Seq(Sources) /\ Len(s) = Len(dev.img) + n /\ Len(dev.img) \in Nat
          /\ \A i \in 1 .. Len(s) : s[i] = IF i <= Len(dev.img) THEN dev.img[i] ELSE m.src
      BY <3>1, <3>3, <3>s, DevType, Filled
    <3>5. dev' = [dev EXCEPT !.vol = m.hi, !.img = s]
      BY <1>1, <2>2, <3>n, <3>s
    <3>6. /\ dev' \in Devices /\ dev'.gen = dev.gen /\ dev'.com = dev.com /\ dev'.reached = dev.reached
          /\ dev'.fin = dev.fin /\ dev'.vol = m.hi /\ dev'.img = s
      BY <3>1, <3>4, <3>5, DevType DEF Devices
    <3>7. Len(s) = m.hi
      BY <2>0, <3>3, <3>4
    <3>8. file # None => \A i \in 1 .. Len(s) : s[i] = file.src
      BY <2>0, <3>2, <3>4
    <3>9. dev.com <= m.hi
      BY <2>0, <2>2, <3>1, DevType
    <3>10. FinalsOn(wire') = FinalsOn(wire)
      BY <1>2, <1>3, <2>2
    <3> QED BY <1>3, <3>2, <3>6, <3>7, <3>8, <3>9, <3>10, DevType
  <2>3. CASE m.kind # "final" /\ ~(m.lo <= dev.vol /\ m.hi > dev.vol)
    <3>1. dev' = dev
      BY <1>1, <2>3
    <3>2. FinalsOn(wire') = FinalsOn(wire)
      BY <1>2, <1>3, <2>3
    <3> QED BY <2>0, <3>1, <3>2, DevType
  <2> QED BY <2>1, <2>2, <2>3
<1>5. DevMoves
  BY <1>1, <1>4, DevType DEF DevMoves
<1>6. /\ ProcessInv' /\ svc' \in [Procs -> Services] /\ call' \in [Procs -> Calls]
      /\ \A q \in Procs : Pending(q)' => Pending(q)
      /\ file # None => Known(file)'
  BY <1>4, <1>5, LinkMoves
<1>7. DeviceInv'
  <2>1. Horizon' = Horizon
    BY <1>1 DEF Horizon
  <2>2. ASSUME NEW i \in 1 .. Len(wire'), wire'[i].kind = "data"
        PROVE  wire'[i].hi <= Horizon /\ (file # None => wire'[i].src = file.src)
    <3>1. i + 1 \in 1 .. Len(wire) /\ wire'[i] = wire[i + 1]
      BY <1>2
    <3> QED BY <2>2, <3>1 DEF DeviceInv
  <2>3. outcome # "none"
    BY <1>1 DEF DeviceInv
  <2>4. dev.fin > 0 => dev'.fin > 0
    BY <1>4, DevType DEF Devices
  <2>5. \A i \in 1 .. Len(wire') : wire'[i].kind = "data" =>
          wire'[i].hi <= Horizon' /\ (file' # None => wire'[i].src = file'.src)
    BY <1>1, <2>1, <2>2
  <2>6. /\ inbox' # None /\ inbox'.kind = "report" =>
           /\ inbox'.gen <= dev'.gen /\ (inbox'.gen = dev'.gen => inbox'.com <= dev'.com)
           /\ inbox'.com <= dev'.reached
        /\ inbox' # None /\ inbox'.kind = "digest" => dev'.fin > 0
    BY <1>1, <1>4, <2>4 DEF DeviceInv
  <2>7. /\ file' # None => outcome' = "open" /\ Known(file)'
        /\ outcome' = "open" => file' # None
    BY <1>1, <1>6 DEF DeviceInv
  <2>8. dev'.vol <= Horizon' /\ dev'.com <= dev'.reached /\ outcome' # "none"
    BY <1>1, <1>4, <2>1, <2>3 DEF DeviceInv
  <2>9. file' # None => \A i \in 1 .. Len(dev'.img) : dev'.img[i] = file'.src
    BY <1>1, <1>4
  <2> QED BY <1>4, <2>5, <2>6, <2>7, <2>8, <2>9 DEF DeviceInv
<1> QED BY <1>1, <1>2, <1>4, <1>6, <1>7, DevType DEF LinkKeeps

\* The device commits up to what it has, and reports it.
LEMMA DeviceReportsKeeps ==
  ASSUME TypeOK, ProcessInv, DeviceInv, DeviceReports
  PROVE  /\ LinkKeeps
         /\ dev'.fin = dev.fin /\ (dev'.reached = dev.reached \/ dev'.reached \in dev.reached .. Horizon)
<1>1. UNCHANGED <<file, lock, claims, live, svc, call, policy, wire, outcome>>
  BY DEF DeviceReports, store, ghosts
<1>2. \/ \E k \in dev.com .. dev.vol :
            /\ dev' = [dev EXCEPT !.com = k, !.reached = IF k > @ THEN k ELSE @]
            /\ inbox' = [kind |-> "report", gen |-> dev.gen, com |-> k, vol |-> dev.vol]
      \/ dev' = dev /\ dev.fin > 0 /\ inbox' = [kind |-> "digest", gen |-> dev.gen, img |-> dev.img]
  BY DEF DeviceReports
<1>0. /\ dev.vol = Len(dev.img) /\ dev.com <= dev.vol /\ dev.vol <= Horizon /\ dev.com <= dev.reached
  BY DEF DeviceInv
<1>3. /\ dev' \in Devices /\ dev'.gen = dev.gen /\ dev'.vol = dev.vol /\ dev'.img = dev.img /\ dev'.fin = dev.fin
      /\ dev'.com >= dev.com /\ dev'.com <= dev.vol /\ dev'.com <= dev'.reached
      /\ dev'.reached >= dev.reached /\ (dev'.reached = dev.reached \/ dev'.reached <= Horizon)
      /\ inbox' \in Reports /\ (inbox'.kind = "digest" => dev.fin > 0)
      /\ inbox'.kind = "report" => inbox'.gen = dev.gen /\ inbox'.com = dev'.com
  <2>1. CASE \E k \in dev.com .. dev.vol :
               /\ dev' = [dev EXCEPT !.com = k, !.reached = IF k > @ THEN k ELSE @]
               /\ inbox' = [kind |-> "report", gen |-> dev.gen, com |-> k, vol |-> dev.vol]
    <3>1. PICK k \in dev.com .. dev.vol :
               /\ dev' = [dev EXCEPT !.com = k, !.reached = IF k > @ THEN k ELSE @]
               /\ inbox' = [kind |-> "report", gen |-> dev.gen, com |-> k, vol |-> dev.vol]
      BY <2>1
    <3>r. PICK r : r = IF k > dev.reached THEN k ELSE dev.reached
      OBVIOUS
    <3>2. /\ k \in 0 .. Length /\ r \in 0 .. Length /\ dev.vol \in 0 .. Length /\ k <= r /\ dev.reached <= r
          /\ k <= Horizon /\ (r = dev.reached \/ r <= Horizon)
      BY <1>0, <3>r, DevType DEF Devices
    <3>3. /\ dev' \in Devices /\ dev'.gen = dev.gen /\ dev'.vol = dev.vol /\ dev'.img = dev.img /\ dev'.fin = dev.fin
          /\ dev'.com = k /\ dev'.reached = r
      <4>1. dev' = [dev EXCEPT !.com = k, !.reached = r]
        BY <3>1, <3>r
      <4> QED BY <3>2, <4>1, DevType DEF Devices
    <3>4. inbox' \in Reports /\ inbox'.kind = "report" /\ inbox'.gen = dev.gen /\ inbox'.com = k
      BY <3>1, <3>2, DevType DEF Reports
    <3> QED BY <3>2, <3>3, <3>4
  <2>2. CASE dev' = dev /\ dev.fin > 0 /\ inbox' = [kind |-> "digest", gen |-> dev.gen, img |-> dev.img]
    <3>1. inbox' \in Reports /\ inbox'.kind = "digest"
      BY <2>2, DevType DEF Reports
    <3> QED BY <1>0, <2>2, <3>1, DevType
  <2> QED BY <1>2, <2>1, <2>2
<1>4. DevMoves
  BY <1>1, <1>3, DevType DEF DevMoves
<1>5. /\ ProcessInv' /\ svc' \in [Procs -> Services] /\ call' \in [Procs -> Calls]
      /\ \A q \in Procs : Pending(q)' => Pending(q)
      /\ file # None => Known(file)'
  BY <1>3, <1>4, LinkMoves
<1>6. DeviceInv'
  <2>1. Horizon' = Horizon
    BY <1>1 DEF Horizon
  <2>2. dev'.gen \in Nat /\ dev'.com \in Nat /\ dev'.reached \in Nat
    BY <1>3 DEF Devices
  <2>3. /\ inbox' # None /\ inbox'.kind = "report" =>
           /\ inbox'.gen <= dev'.gen /\ (inbox'.gen = dev'.gen => inbox'.com <= dev'.com)
           /\ inbox'.com <= dev'.reached
        /\ inbox' # None /\ inbox'.kind = "digest" => dev'.fin > 0
    BY <1>3, <2>2
  <2>4. /\ file' # None => outcome' = "open" /\ Known(file)'
        /\ outcome' = "open" => file' # None
    BY <1>1, <1>5 DEF DeviceInv
  <2>5. /\ dev'.vol = Len(dev'.img) /\ dev'.com <= dev'.vol /\ dev'.vol <= Horizon'
        /\ file' # None => \A i \in 1 .. Len(dev'.img) : dev'.img[i] = file'.src
    BY <1>1, <1>3, <2>1 DEF DeviceInv
  <2>6. \A i \in 1 .. Len(wire') : wire'[i].kind = "data" =>
          wire'[i].hi <= Horizon' /\ (file' # None => wire'[i].src = file'.src)
    BY <1>1, <2>1 DEF DeviceInv
  <2>7. outcome' = "none" => wire' = <<>>
    BY <1>1 DEF DeviceInv
  <2> QED BY <1>3, <2>3, <2>4, <2>5, <2>6, <2>7 DEF DeviceInv
<1>7. dev'.fin + FinalsOn(wire') <= dev.fin + FinalsOn(wire)
  BY <1>1, <1>3, DevType
<1>8. LinkKeeps
  BY <1>1, <1>3, <1>5, <1>6, <1>7, DevType DEF LinkKeeps
<1> QED BY <1>3, <1>8, DevType DEF Devices

\* No finalization is due that was not closed for.
LEMMA FinalsStay ==
  ASSUME TypeOK, FinalsInv, dev'.fin \in Nat, wire' \in Seq(Carriers), closings' \in Nat, closings <= closings',
         dev'.fin + FinalsOn(wire') <= dev.fin + FinalsOn(wire),
         \A q \in Procs : Pending(q)' => Pending(q)
  PROVE  FinalsInv'
<1>1. FinalsOn(wire') \in Nat /\ FinalsOn(wire) \in Nat /\ dev.fin \in Nat /\ closings \in Nat
  BY DevType, FinalsFinite DEF TypeOK
<1>2. PICK a, b : /\ a = (IF \E q \in Procs : Pending(q) THEN 1 ELSE 0)
                  /\ b = (IF \E q \in Procs : Pending(q)' THEN 1 ELSE 0)
  OBVIOUS
<1>3. a \in Nat /\ b \in Nat /\ b <= a
  BY <1>2
<1>4. dev.fin + FinalsOn(wire) + a <= closings
  BY <1>2 DEF FinalsInv
<1>5. dev'.fin + FinalsOn(wire') + b <= closings'
  BY <1>1, <1>3, <1>4
<1> QED BY <1>2, <1>5 DEF FinalsInv, FinalsOn

\* A step of p's service that writes nothing to the wire.
LEMMA QuietStep ==
  ASSUME Inv, NEW p \in Procs, Still, \E s, c : Goes(p, s, c),
         UNCHANGED <<temporary, faults, conn, closings, wire>>,
         claims' \in [Procs -> BOOLEAN], \A q \in Procs \ {p} : claims'[q] = claims[q],
         inbox' \in {inbox, None}, attempts' \in Nat
  PROVE  Inv'
<1>0. TypeOK /\ ProcessInv /\ DeviceInv /\ FinalsInv
  BY DEF Inv
<1>1. /\ ProcessInv' /\ svc' \in [Procs -> Services] /\ call' \in [Procs -> Calls]
      /\ \A q \in Procs : Pending(q)' => Pending(q)
  BY <1>0, StillGo
<1>2. TypeOK'
  BY <1>0, <1>1 DEF TypeOK, Still
<1>3. DeviceInv'
  BY <1>0, DeviceStays DEF Still
<1>4. FinalsInv'
  <2>1. dev' = dev /\ wire' = wire /\ closings' = closings
    BY DEF Still
  <2>2. dev.fin + FinalsOn(wire) <= dev.fin + FinalsOn(wire) /\ closings <= closings /\ closings \in Nat
    BY <1>0, DevType DEF TypeOK
  <2> QED BY <1>0, <1>1, <2>1, <2>2, DevType, FinalsStay
<1> QED BY <1>1, <1>2, <1>3, <1>4 DEF Inv

\* A step of the port or of the device.
LEMMA LinkStep ==
  ASSUME Inv, LinkKeeps, UNCHANGED <<file, lock, temporary, claims, live, policy, outcome, closings, attempts>>,
         faults' \in Nat, conn' \in Procs \cup {None}
  PROVE  Inv'
<1>0. TypeOK /\ ProcessInv /\ DeviceInv /\ FinalsInv
  BY DEF Inv
<1>1. TypeOK'
  BY <1>0 DEF TypeOK, LinkKeeps, Devices
<1>2. FinalsInv'
  <2>1. closings' \in Nat /\ closings <= closings'
    BY <1>0 DEF TypeOK
  <2>2. dev'.fin \in Nat
    BY DEF LinkKeeps, Devices
  <2> QED BY <1>0, <2>1, <2>2, FinalsStay DEF LinkKeeps
<1> QED BY <1>1, <1>2 DEF Inv, LinkKeeps

\* The invariant is kept by the link and the device.
LEMMA LinkStepsKeepInv ==
  ASSUME Inv, Disconnect \/ DeviceReads \/ DeviceReports \/ DeviceForgets \/ \E p \in Procs : Connect(p)
  PROVE  Inv'
<1>0. TypeOK /\ ProcessInv /\ DeviceInv /\ FinalsInv
  BY DEF Inv
<1>1. faults \in Nat /\ conn \in Procs \cup {None}
  BY <1>0 DEF TypeOK
<1>2. CASE Disconnect
  <2>1. LinkKeeps
    BY <1>0, <1>2, DisconnectKeepsAll
  <2>2. /\ UNCHANGED <<file, lock, temporary, claims, live, policy, outcome, closings, attempts>>
        /\ faults' \in Nat /\ conn' \in Procs \cup {None}
    BY <1>1, <1>2 DEF Disconnect, store, ghosts
  <2> QED BY <2>1, <2>2, LinkStep
<1>3. CASE DeviceReads
  <2>1. LinkKeeps
    BY <1>0, <1>3, DeviceReadsKeeps
  <2>2. /\ UNCHANGED <<file, lock, temporary, claims, live, policy, outcome, closings, attempts>>
        /\ faults' \in Nat /\ conn' \in Procs \cup {None}
    BY <1>1, <1>3 DEF DeviceReads, store, ghosts
  <2> QED BY <2>1, <2>2, LinkStep
<1>4. CASE DeviceReports
  <2>1. LinkKeeps
    BY <1>0, <1>4, DeviceReportsKeeps
  <2>2. /\ UNCHANGED <<file, lock, temporary, claims, live, policy, outcome, closings, attempts>>
        /\ faults' \in Nat /\ conn' \in Procs \cup {None}
    BY <1>1, <1>4 DEF DeviceReports, store, ghosts
  <2> QED BY <2>1, <2>2, LinkStep
<1>5. CASE DeviceForgets
  <2>1. LinkKeeps
    BY <1>0, <1>5, DeviceForgetsKeeps
  <2>2. /\ UNCHANGED <<file, lock, temporary, claims, live, policy, outcome, closings, attempts>>
        /\ faults' \in Nat /\ conn' \in Procs \cup {None}
    BY <1>1, <1>5 DEF DeviceForgets, ghosts
  <2> QED BY <2>1, <2>2, LinkStep
<1>6. ASSUME NEW p \in Procs, Connect(p) PROVE Inv'
  <2>1. LinkKeeps
    BY <1>0, <1>6, ConnectKeeps
  <2>2. /\ UNCHANGED <<file, lock, temporary, claims, live, policy, outcome, closings, attempts>>
        /\ faults' \in Nat /\ conn' \in Procs \cup {None}
    BY <1>1, <1>6 DEF Connect, store, ghosts
  <2> QED BY <2>1, <2>2, LinkStep
<1> QED BY <1>2, <1>3, <1>4, <1>5, <1>6

\* The invariant is kept when a process dies.
LEMMA CrashKeepsInv ==
  ASSUME Inv, NEW p \in Procs, Crash(p)
  PROVE  Inv'
<1>0. TypeOK /\ ProcessInv /\ DeviceInv /\ FinalsInv
  BY DEF Inv
<1>1. /\ ProcessInv' /\ svc' \in [Procs -> Services] /\ call' \in [Procs -> Calls]
      /\ \A q \in Procs : Pending(q)' => Pending(q)
  BY <1>0, CrashKeeps
<1>2. /\ UNCHANGED <<file, lock, faults, policy, conn, wire, inbox, dev, outcome, closings, attempts>>
      /\ live' = [live EXCEPT ![p] = FALSE] /\ claims' = [claims EXCEPT ![p] = FALSE]
      /\ temporary' = [temporary EXCEPT ![p] = FALSE]
  BY DEF Crash, Die, env, ghosts
<1>3. TypeOK'
  <2>1. live' \in [Procs -> BOOLEAN] /\ claims' \in [Procs -> BOOLEAN] /\ temporary' \in [Procs -> BOOLEAN]
    BY <1>0, <1>2 DEF TypeOK
  <2> QED BY <1>0, <1>1, <1>2, <2>1 DEF TypeOK
<1>4. DeviceInv'
  BY <1>0, <1>2, DeviceStays
<1>5. FinalsInv'
  <2>1. dev.fin + FinalsOn(wire) <= dev.fin + FinalsOn(wire) /\ closings <= closings /\ closings \in Nat
    BY <1>0, DevType DEF TypeOK
  <2> QED BY <1>0, <1>1, <1>2, <2>1, DevType, FinalsStay
<1> QED BY <1>1, <1>3, <1>4, <1>5 DEF Inv

\* The invariant holds at first.
LEMMA InitInv == Init => Inv
<1> SUFFICES ASSUME Init PROVE Inv
  OBVIOUS
<1>1. /\ file = None /\ lock = None /\ faults = 0 /\ conn = None /\ wire = <<>> /\ inbox = None
      /\ temporary = [p \in Procs |-> FALSE] /\ claims = [p \in Procs |-> FALSE]
      /\ live = [p \in Procs |-> TRUE] /\ call = [p \in Procs |-> Idle]
      /\ svc = [p \in Procs |-> NoService] /\ policy \in {"repeatable", "not-repeatable"}
      /\ dev = NewDevice /\ outcome = "none" /\ closings = 0 /\ attempts = 0
  BY DEF Init, StoreInit
<1>2. /\ dev \in Devices /\ dev.gen = 0 /\ dev.vol = 0 /\ dev.com = 0 /\ dev.img = <<>> /\ dev.reached = 0
      /\ dev.fin = 0
  BY <1>1, TransferAssumption DEF NewDevice, Devices
<1>n. PICK n : n = NoService
  OBVIOUS
<1>3. n \in Services /\ n.at = "idle" /\ n.op = "none" /\ n.claim = None /\ n.resuming = FALSE
  BY <1>n, NoServiceType
<1>4. \A p \in Procs : svc[p] = n /\ call[p] = Idle /\ claims[p] = FALSE
  BY <1>1, <1>n
<1>5. TypeOK
  <2>1. svc \in [Procs -> Services] /\ call \in [Procs -> Calls]
    BY <1>1, <1>n, <1>3, IdleCall
  <2>2. wire \in Seq(Carriers)
    BY <1>1
  <2> QED BY <1>1, <1>2, <2>1, <2>2 DEF TypeOK, Devices
<1>6. ASSUME NEW p \in Procs PROVE Process(p, svc[p], call[p])
  <2>1. Shape(svc[p], call[p])
    BY <1>4, <1>n DEF Shape
  <2>2. Agrees(p, svc[p], call[p])
    BY <1>3, <1>4, IdleCall DEF Agrees
  <2>3. Locked(p, call[p])
    BY <1>1, <1>4, IdleCall DEF Locked, Holding
  <2> QED BY <2>1, <2>2, <2>3 DEF Process
<1>7. DeviceInv
  <2>1. Horizon = 0 /\ Len(dev.img) = 0
    BY <1>1, <1>2 DEF Horizon
  <2> QED BY <1>1, <1>2, <2>1 DEF DeviceInv
<1>8. FinalsInv
  <2>1. \A p \in Procs : ~Pending(p)
    BY <1>3, <1>4 DEF Pending, Finishes
  <2> QED BY <1>1, <1>2, <2>1, FinalsEmpty DEF FinalsInv
<1> QED BY <1>5, <1>6, <1>7, <1>8 DEF Inv, ProcessInv

\* What a step of the service that writes no carrier leaves alone.
Quiet == /\ Still /\ UNCHANGED <<temporary, faults, conn, closings, wire>>
         /\ inbox' \in {inbox, None} /\ attempts' \in Nat

\* The same, when no claim moves.
LEMMA QuietClaims ==
  ASSUME Inv, NEW p \in Procs, Quiet, UNCHANGED claims, \E s, c : Goes(p, s, c)
  PROVE  Inv'
<1>1. claims' \in [Procs -> BOOLEAN] /\ \A q \in Procs \ {p} : claims'[q] = claims[q]
  BY DEF Inv, TypeOK
<1> QED BY <1>1, QuietStep DEF Quiet

\* The invariant is kept after an await.
LEMMA ServiceContinues ==
  ASSUME Inv, NEW p \in Procs,
         \/ Prepared(p) \/ Opened(p) \/ Reported(p) \/ Admitted(p) \/ Finalizing(p) \/ Verifying(p)
         \/ Completed(p) \/ CallFailed(p) \/ Released(p)
  PROVE  Inv'
<1>0. TypeOK /\ ProcessInv /\ attempts \in Nat
  BY DEF Inv, TypeOK
<1>1. CASE Prepared(p)
  <2>1. Quiet /\ UNCHANGED claims
    BY <1>0, <1>1 DEF Prepared, Quiet, Still, Disk, env, ghosts
  <2>2. \E s, c : Goes(p, s, c)
    BY <1>0, <1>1, PreparedGoes
  <2> QED BY <2>1, <2>2, QuietClaims
<1>2. CASE Opened(p)
  <2>1. Quiet /\ UNCHANGED claims
    BY <1>0, <1>2 DEF Opened, Quiet, Still, Disk, env, ghosts
  <2>2. \E s, c : Goes(p, s, c)
    BY <1>0, <1>2, OpenedGoes
  <2> QED BY <2>1, <2>2, QuietClaims
<1>3. CASE Reported(p)
  <2>1. Quiet /\ UNCHANGED claims
    BY <1>0, <1>3 DEF Reported, Quiet, Still, Disk, env, ghosts
  <2>2. \E s, c : Goes(p, s, c)
    BY <1>0, <1>3, ReportedGoes
  <2> QED BY <2>1, <2>2, QuietClaims
<1>4. CASE Admitted(p)
  <2>1. Quiet /\ UNCHANGED claims
    BY <1>0, <1>4 DEF Admitted, Quiet, Still, Disk, env, ghosts
  <2>2. \E s, c : Goes(p, s, c)
    BY <1>0, <1>4, AdmittedGoes
  <2> QED BY <2>1, <2>2, QuietClaims
<1>5. CASE Finalizing(p)
  <2>1. Quiet /\ UNCHANGED claims
    BY <1>0, <1>5 DEF Finalizing, Quiet, Still, Disk, env, ghosts
  <2>2. \E s, c : Goes(p, s, c)
    BY <1>0, <1>5, FinalizingGoes
  <2> QED BY <2>1, <2>2, QuietClaims
<1>6. CASE Verifying(p)
  <2>1. Quiet /\ UNCHANGED claims
    BY <1>0, <1>6 DEF Verifying, Quiet, Still, Disk, env, ghosts
  <2>2. \E s, c : Goes(p, s, c)
    BY <1>0, <1>6, VerifyingGoes
  <2> QED BY <2>1, <2>2, QuietClaims
<1>7. CASE Completed(p)
  <2>1. Quiet /\ UNCHANGED claims
    BY <1>0, <1>7 DEF Completed, Quiet, Still, Disk, env, ghosts
  <2>2. \E s, c : Goes(p, s, c)
    BY <1>0, <1>7, CompletedGoes
  <2> QED BY <2>1, <2>2, QuietClaims
<1>8. CASE CallFailed(p)
  <2>1. Quiet /\ UNCHANGED claims
    BY <1>0, <1>8 DEF CallFailed, Quiet, Still, Disk, env, ghosts
  <2>2. \E s, c : Goes(p, s, c)
    BY <1>0, <1>8, CallFailedGoes
  <2> QED BY <2>1, <2>2, QuietClaims
<1>9. CASE Released(p)
  <2>1. Quiet /\ UNCHANGED claims
    BY <1>0, <1>9 DEF Released, Quiet, Still, Disk, env, ghosts
  <2>2. \E s, c : Goes(p, s, c)
    BY <1>0, <1>9, ReleasedGoes
  <2> QED BY <2>1, <2>2, QuietClaims
<1> QED BY <1>1, <1>2, <1>3, <1>4, <1>5, <1>6, <1>7, <1>8, <1>9

\* The invariant is kept where an operation begins.
LEMMA ServiceBegins ==
  ASSUME Inv, NEW p \in Procs,
         \/ (\E src \in Sources, r \in BOOLEAN : Prepare(p, src, r))
         \/ Report(p) \/ Admit(p) \/ Finalize(p) \/ Verify(p) \/ Retire(p) \/ Revoke(p)
  PROVE  Inv'
<1>0. TypeOK /\ ProcessInv /\ DeviceInv /\ attempts \in Nat
  BY DEF Inv, TypeOK
<1>1. ASSUME NEW src \in Sources, NEW r \in BOOLEAN, Prepare(p, src, r) PROVE Inv'
  <2>1. Quiet /\ UNCHANGED claims
    <3>1. attempts' = attempts + 1 /\ UNCHANGED <<Disk, claims, env, outcome, closings>>
      BY <1>1 DEF Prepare
    <3> QED BY <1>0, <3>1 DEF Quiet, Still, Disk, env
  <2>2. \E s, c : Goes(p, s, c)
    BY <1>0, <1>1, PrepareGoes
  <2> QED BY <2>1, <2>2, QuietClaims
<1>2. CASE Report(p)
  <2>1. Quiet /\ UNCHANGED claims
    BY <1>0, <1>2 DEF Report, Quiet, Still, CommitOf, Disk, store, ghosts
  <2>2. \E s, c : Goes(p, s, c)
    BY <1>0, <1>2, ReportGoes
  <2> QED BY <2>1, <2>2, QuietClaims
<1>3. CASE Admit(p)
  <2>1. Quiet /\ UNCHANGED claims
    BY <1>0, <1>3 DEF Admit, Quiet, Still, CommitOf, Disk, env, ghosts
  <2>2. \E s, c : Goes(p, s, c)
    BY <1>0, <1>3, AdmitGoes
  <2> QED BY <2>1, <2>2, QuietClaims
<1>4. CASE Finalize(p)
  <2>1. Quiet /\ UNCHANGED claims
    BY <1>0, <1>4 DEF Finalize, Quiet, Still, CommitOf, Disk, env, ghosts
  <2>2. \E s, c : Goes(p, s, c)
    BY <1>0, <1>4, FinalizeGoes
  <2> QED BY <2>1, <2>2, QuietClaims
<1>5. CASE Verify(p)
  <2>1. Quiet /\ UNCHANGED claims
    BY <1>0, <1>5 DEF Verify, Quiet, Still, CommitOf, Disk, store, ghosts
  <2>2. \E s, c : Goes(p, s, c)
    BY <1>0, <1>5, VerifyGoes
  <2> QED BY <2>1, <2>2, QuietClaims
<1>6. CASE Retire(p)
  <2>1. Quiet /\ UNCHANGED claims
    BY <1>0, <1>6 DEF Retire, Quiet, Still, Disk, ghosts
  <2>2. \E s, c : Goes(p, s, c)
    BY <1>0, <1>6, RetireGoes
  <2> QED BY <2>1, <2>2, QuietClaims
<1>7. CASE Revoke(p)
  <2>1. Quiet /\ UNCHANGED <<claims, call>> /\ svc[p].at # "idle" /\ svc' = [svc EXCEPT ![p].revoked = TRUE]
    BY <1>0, <1>7 DEF Revoke, Quiet, Still, store, env, ghosts
  <2>2. \E s, c : Goes(p, s, c)
    BY <1>0, <2>1, RevokedGoes DEF Quiet
  <2> QED BY <2>1, <2>2, QuietClaims
<1> QED BY <1>1, <1>2, <1>3, <1>4, <1>5, <1>6, <1>7

\* The invariant is kept when a claim is given up.
LEMMA ReleaseServiceKeepsInv ==
  ASSUME Inv, NEW p \in Procs, ReleaseService(p)
  PROVE  Inv'
<1>0. TypeOK /\ ProcessInv /\ attempts \in Nat /\ claims \in [Procs -> BOOLEAN]
  BY DEF Inv, TypeOK
<1>1. Quiet
  BY <1>0 DEF ReleaseService, Quiet, Still, Disk, env, ghosts
<1>2. (\E s, c : Goes(p, s, c)) /\ \A q \in Procs \ {p} : claims'[q] = claims[q]
  BY <1>0, ReleaseServiceGoes
<1>3. claims' \in [Procs -> BOOLEAN]
  BY <1>0 DEF ReleaseService, Release
<1> QED BY <1>1, <1>2, <1>3, QuietStep DEF Quiet

\* The invariant is kept when a carrier is written.
LEMMA SendKeepsInv ==
  ASSUME Inv, NEW p \in Procs, Send(p)
  PROVE  Inv'
<1>0. TypeOK /\ ProcessInv /\ DeviceInv /\ FinalsInv
  BY DEF Inv
<1>1. Still /\ UNCHANGED <<temporary, faults, conn, closings, claims, inbox, attempts>>
  BY DEF Send, Still, store, ghosts
<1>2. /\ ProcessInv' /\ svc' \in [Procs -> Services] /\ call' \in [Procs -> Calls]
      /\ \A q \in Procs : Pending(q)' => Pending(q)
  BY <1>0, <1>1, SendGoes, StillGo
<1>3. DeviceInv' /\ wire' \in Seq(Carriers) /\ FinalsOn(wire') = FinalsOn(wire)
  BY <1>0, SendFeeds
<1>4. TypeOK'
  BY <1>0, <1>1, <1>2, <1>3 DEF TypeOK, Still
<1>5. FinalsInv'
  <2>1. dev' = dev /\ closings' = closings
    BY <1>1 DEF Still
  <2>2. dev.fin + FinalsOn(wire') <= dev.fin + FinalsOn(wire) /\ closings <= closings /\ closings \in Nat
    BY <1>0, <1>3, DevType DEF TypeOK
  <2> QED BY <1>0, <1>2, <1>3, <2>1, <2>2, DevType, FinalsStay
<1> QED BY <1>2, <1>3, <1>4, <1>5 DEF Inv

\* A finalization that will be commanded holds the claim.
LEMMA PendingClaims ==
  ASSUME TypeOK, ProcessInv, NEW q \in Procs, Pending(q)
  PROVE  claims[q] /\ lock # None /\ lock.pid = q
<1>1. Agrees(q, svc[q], call[q]) /\ Locked(q, call[q])
  BY AtProcess
<1>2. claims[q]
  BY <1>1 DEF Pending, Finishes, Agrees, Locked
<1> QED BY <1>1, <1>2 DEF Locked, Holding

\* The one finalization that was due is the one that goes to the wire.
LEMMA SendFinalKeepsInv ==
  ASSUME Inv, NEW p \in Procs, SendFinal(p)
  PROVE  Inv'
<1>0. TypeOK /\ ProcessInv /\ DeviceInv /\ FinalsInv
  BY DEF Inv
<1>1. Still /\ UNCHANGED <<temporary, faults, conn, closings, claims, inbox, attempts>>
  BY DEF SendFinal, Still, store, ghosts
<1>2. /\ ProcessInv' /\ svc' \in [Procs -> Services] /\ call' \in [Procs -> Calls]
      /\ \A q \in Procs : Pending(q)' => Pending(q)
  BY <1>0, <1>1, SendFinalGoes, StillGo
<1>3. /\ DeviceInv' /\ wire' \in Seq(Carriers) /\ FinalsOn(wire') \in {FinalsOn(wire), FinalsOn(wire) + 1}
      /\ Pending(p) /\ ~Pending(p)'
  BY <1>0, SendFinalFeeds
<1>4. TypeOK'
  BY <1>0, <1>1, <1>2, <1>3 DEF TypeOK, Still
<1>5. \A q \in Procs : ~Pending(q)'
  <2>1. ASSUME NEW q \in Procs, Pending(q)' PROVE q = p
    <3>1. Pending(q)
      BY <1>2, <2>1
    <3> QED BY <1>0, <1>3, <3>1, PendingClaims
  <2> QED BY <1>3, <2>1
<1>6. FinalsInv'
  <2>1. dev.fin + FinalsOn(wire) + 1 <= closings
    BY <1>0, <1>3 DEF FinalsInv
  <2>2. dev'.fin + FinalsOn(wire') + 0 <= closings'
    BY <1>0, <1>1, <1>3, <2>1, DevType DEF Still, TypeOK
  <2> QED BY <1>5, <2>2 DEF FinalsInv, FinalsOn
<1> QED BY <1>2, <1>3, <1>4, <1>6 DEF Inv

\* The invariant is kept when a checkpoint is created.
LEMMA OpenKeepsInv ==
  ASSUME Inv, NEW p \in Procs, Open(p)
  PROVE  Inv'
<1>0. TypeOK /\ ProcessInv /\ DeviceInv /\ FinalsInv
  BY DEF Inv
<1>1. UNCHANGED <<lock, temporary, claims, live, faults, policy, conn, wire, inbox, dev, closings, attempts>>
  BY DEF Open, env
<1>2. /\ ProcessInv' /\ svc' \in [Procs -> Services] /\ call' \in [Procs -> Calls]
      /\ \A q \in Procs : Pending(q)' => Pending(q)
      /\ file = None /\ outcome = "none" /\ file' \in Checkpoints /\ file' # None /\ outcome' = "open"
      /\ file'.admitted = 0 /\ Known(file)'
  BY <1>0, OpenKeeps
<1>3. DeviceInv'
  BY <1>0, <1>1, <1>2, OpenFollows
<1>4. TypeOK'
  BY <1>0, <1>1, <1>2 DEF TypeOK
<1>5. FinalsInv'
  <2>1. dev.fin + FinalsOn(wire) <= dev.fin + FinalsOn(wire) /\ closings <= closings /\ closings \in Nat
    BY <1>0, DevType DEF TypeOK
  <2> QED BY <1>0, <1>1, <1>2, <2>1, DevType, FinalsStay
<1> QED BY <1>2, <1>3, <1>4, <1>5 DEF Inv

\* The invariant is kept by every step of a service.
LEMMA ServiceKeepsInv ==
  ASSUME Inv, NEW p \in Procs, Service(p)
  PROVE  Inv'
BY ServiceContinues, ServiceBegins, ReleaseServiceKeepsInv, SendKeepsInv, SendFinalKeepsInv, OpenKeepsInv
   DEF Service

\* A step of p's store call that leaves the checkpoint's file as it is.
LEMMA StoreStays ==
  ASSUME Inv, UNCHANGED <<file, live, svc, env, outcome, closings, attempts>>,
         ProcessInv', call' \in [Procs -> Calls], \A q \in Procs : Pending(q)' => Pending(q),
         lock' \in [pid : Procs, written : BOOLEAN] \cup {None}, temporary' \in [Procs -> BOOLEAN],
         claims' \in [Procs -> BOOLEAN], faults' \in Nat
  PROVE  Inv'
<1>0. TypeOK /\ ProcessInv /\ DeviceInv /\ FinalsInv
  BY DEF Inv
<1>1. TypeOK'
  BY <1>0 DEF TypeOK, env
<1>2. DeviceInv'
  BY <1>0, DeviceStays DEF env
<1>3. FinalsInv'
  <2>1. dev.fin + FinalsOn(wire) <= dev.fin + FinalsOn(wire) /\ closings <= closings /\ closings \in Nat
    BY <1>0, DevType DEF TypeOK
  <2>2. dev' = dev /\ wire' = wire
    BY DEF env
  <2> QED BY <1>0, <2>1, <2>2, DevType, FinalsStay
<1> QED BY <1>1, <1>2, <1>3 DEF Inv

\* The invariant's parts.
LEMMA StoreTypes ==
  ASSUME Inv
  PROVE  /\ TypeOK /\ ProcessInv /\ DeviceInv /\ FinalsInv
         /\ lock \in [pid : Procs, written : BOOLEAN] \cup {None} /\ temporary \in [Procs -> BOOLEAN]
         /\ claims \in [Procs -> BOOLEAN] /\ faults \in Nat /\ file \in Checkpoints \cup {None}
BY DEF Inv, TypeOK

\* The invariant is kept by the store's steps that leave the file alone.
LEMMA StoreKeepsFile ==
  ASSUME Inv, AtMostTwo, NEW p \in Procs, ServiceStore(p),
         ~Commit_Rename(p), ~Complete_File(p)
  PROVE  Inv'
<1>1. \/ Claim_Read(p) \/ Claim_Open(p) \/ Claim_Write(p) \/ Claim_Inspect(p) \/ Claim_Unlink(p)
      \/ Commit_Write(p) \/ Release_Unlink(p) \/ Complete_Lock(p)
  BY DEF ServiceStore, StoreStep
<1>2. UNCHANGED <<file, live>>
  BY <1>1 DEF Claim_Read, Claim_Open, Claim_Write, Claim_Inspect, Claim_Unlink, Commit_Write,
              Release_Unlink, Complete_Lock
<1>3. UNCHANGED <<svc, env, attempts, outcome, closings>>
  BY <1>2 DEF ServiceStore
<1>4. UNCHANGED <<svc, dev, outcome, policy>>
  BY <1>3 DEF env
<1>5. CASE Claim_Read(p)
  <2>1. ProcessInv' /\ call' \in [Procs -> Calls] /\ \A q \in Procs : Pending(q)' => Pending(q)
    BY <1>4, <1>5, StoreTypes, ClaimReadKeeps
  <2>2. lock' \in [pid : Procs, written : BOOLEAN] \cup {None}
    BY <1>5, StoreTypes DEF Claim_Read
  <2>3. temporary' \in [Procs -> BOOLEAN] /\ claims' \in [Procs -> BOOLEAN] /\ faults' \in Nat
    BY <1>5, StoreTypes DEF Claim_Read
  <2> QED BY <1>2, <1>3, <2>1, <2>2, <2>3, StoreStays
<1>6. CASE Claim_Open(p)
  <2>1. ProcessInv' /\ call' \in [Procs -> Calls] /\ \A q \in Procs : Pending(q)' => Pending(q)
    BY <1>4, <1>6, StoreTypes, ClaimOpenKeeps
  <2>2. lock' \in [pid : Procs, written : BOOLEAN] \cup {None}
    BY <1>4, <1>6, StoreTypes, ClaimOpenKeeps
  <2>3. temporary' \in [Procs -> BOOLEAN] /\ claims' \in [Procs -> BOOLEAN] /\ faults' \in Nat
    BY <1>6, StoreTypes DEF Claim_Open
  <2> QED BY <1>2, <1>3, <2>1, <2>2, <2>3, StoreStays
<1>7. CASE Claim_Write(p)
  <2>1. ProcessInv' /\ call' \in [Procs -> Calls] /\ \A q \in Procs : Pending(q)' => Pending(q)
    BY <1>4, <1>7, StoreTypes, ClaimWriteKeeps
  <2>2. lock' \in [pid : Procs, written : BOOLEAN] \cup {None}
    BY <1>4, <1>7, StoreTypes, ClaimWriteKeeps
  <2>3. temporary' \in [Procs -> BOOLEAN] /\ claims' \in [Procs -> BOOLEAN] /\ faults' \in Nat
    <3>1. /\ temporary' \in {temporary, [temporary EXCEPT ![p] = FALSE]}
          /\ claims' \in {claims, [claims EXCEPT ![p] = TRUE]} /\ faults' \in {faults, faults + 1}
      BY <1>7 DEF Claim_Write
    <3>2. temporary \in [Procs -> BOOLEAN] /\ claims \in [Procs -> BOOLEAN] /\ faults \in Nat
      BY StoreTypes
    <3>3. temporary' \in [Procs -> BOOLEAN]
      BY <3>1, <3>2
    <3>4. claims' \in [Procs -> BOOLEAN]
      BY <3>1, <3>2
    <3>5. faults' \in Nat
      BY <3>1, <3>2
    <3> QED BY <3>3, <3>4, <3>5
  <2> QED BY <1>2, <1>3, <2>1, <2>2, <2>3, StoreStays
<1>8. CASE Claim_Inspect(p)
  <2>1. ProcessInv' /\ call' \in [Procs -> Calls] /\ \A q \in Procs : Pending(q)' => Pending(q)
    BY <1>4, <1>8, StoreTypes, ClaimInspectKeeps
  <2>2. lock' \in [pid : Procs, written : BOOLEAN] \cup {None}
    BY <1>8, StoreTypes DEF Claim_Inspect
  <2>3. temporary' \in [Procs -> BOOLEAN] /\ claims' \in [Procs -> BOOLEAN] /\ faults' \in Nat
    BY <1>8, StoreTypes DEF Claim_Inspect
  <2> QED BY <1>2, <1>3, <2>1, <2>2, <2>3, StoreStays
<1>9. CASE Claim_Unlink(p)
  <2>1. ProcessInv' /\ call' \in [Procs -> Calls] /\ \A q \in Procs : Pending(q)' => Pending(q)
    BY <1>4, <1>9, StoreTypes, ClaimUnlinkKeeps
  <2>2. lock' \in [pid : Procs, written : BOOLEAN] \cup {None}
    BY <1>9, StoreTypes DEF Claim_Unlink
  <2>3. temporary' \in [Procs -> BOOLEAN] /\ claims' \in [Procs -> BOOLEAN] /\ faults' \in Nat
    BY <1>9, StoreTypes DEF Claim_Unlink
  <2> QED BY <1>2, <1>3, <2>1, <2>2, <2>3, StoreStays
<1>10. CASE Commit_Write(p)
  <2>1. ProcessInv' /\ call' \in [Procs -> Calls] /\ \A q \in Procs : Pending(q)' => Pending(q)
    BY <1>4, <1>10, StoreTypes, CommitWriteKeeps
  <2>2. lock' \in [pid : Procs, written : BOOLEAN] \cup {None}
    BY <1>10, StoreTypes DEF Commit_Write
  <2>3. temporary' \in [Procs -> BOOLEAN] /\ claims' \in [Procs -> BOOLEAN] /\ faults' \in Nat
    <3>1. /\ temporary' \in {temporary, [temporary EXCEPT ![p] = TRUE]}
          /\ claims' \in {claims, [claims EXCEPT ![p] = TRUE]} /\ faults' \in {faults, faults + 1}
      BY <1>10 DEF Commit_Write
    <3>2. temporary \in [Procs -> BOOLEAN] /\ claims \in [Procs -> BOOLEAN] /\ faults \in Nat
      BY StoreTypes
    <3>3. temporary' \in [Procs -> BOOLEAN]
      BY <3>1, <3>2
    <3>4. claims' \in [Procs -> BOOLEAN]
      BY <3>1, <3>2
    <3>5. faults' \in Nat
      BY <3>1, <3>2
    <3> QED BY <3>3, <3>4, <3>5
  <2> QED BY <1>2, <1>3, <2>1, <2>2, <2>3, StoreStays
<1>11. CASE Release_Unlink(p)
  <2>1. ProcessInv' /\ call' \in [Procs -> Calls] /\ \A q \in Procs : Pending(q)' => Pending(q)
    BY <1>4, <1>11, StoreTypes, ReleaseUnlinkKeeps
  <2>2. lock' \in [pid : Procs, written : BOOLEAN] \cup {None}
    BY <1>11, StoreTypes DEF Release_Unlink
  <2>3. temporary' \in [Procs -> BOOLEAN] /\ claims' \in [Procs -> BOOLEAN] /\ faults' \in Nat
    BY <1>11, StoreTypes DEF Release_Unlink
  <2> QED BY <1>2, <1>3, <2>1, <2>2, <2>3, StoreStays
<1>12. CASE Complete_Lock(p)
  <2>1. ProcessInv' /\ call' \in [Procs -> Calls] /\ \A q \in Procs : Pending(q)' => Pending(q)
    BY <1>4, <1>12, StoreTypes, CompleteLockKeeps
  <2>2. lock' \in [pid : Procs, written : BOOLEAN] \cup {None}
    BY <1>12, StoreTypes DEF Complete_Lock
  <2>3. temporary' \in [Procs -> BOOLEAN] /\ claims' \in [Procs -> BOOLEAN] /\ faults' \in Nat
    BY <1>12, StoreTypes DEF Complete_Lock
  <2> QED BY <1>2, <1>3, <2>1, <2>2, <2>3, StoreStays
<1> QED BY <1>1, <1>5, <1>6, <1>7, <1>8, <1>9, <1>10, <1>11, <1>12

\* The rename enters finalization at most once for each finalization it lets through.
LEMMA RenameKeepsInv ==
  ASSUME Inv, NEW p \in Procs, ServiceStore(p), Commit_Rename(p)
  PROVE  Inv'
<1>0. /\ UNCHANGED <<lock, claims, live, svc, policy, conn, wire, inbox, dev, attempts>>
      /\ temporary' = [temporary EXCEPT ![p] = FALSE] /\ faults' \in {faults, faults + 1}
      /\ file' = call[p].want
  BY DEF ServiceStore, Commit_Rename, env
<1>1. /\ file # None /\ file' \in Checkpoints /\ file' # None /\ file.rev + 1 = file'.rev
      /\ svc[p].op \in {"report", "admit", "finalize", "verify"}
  <2>1. At(p, "commit", "rename")
    BY DEF Commit_Rename
  <2>2. Agrees(p, svc[p], call[p]) /\ Committing(svc[p], call[p]) /\ call[p] \in Calls /\ At(p, "commit", "rename")
    BY <2>1, StoreTypes, AtCall
  <2> QED BY <1>0, <2>2, NoneAssumption DEF Agrees, Committing, Follows, Calls, At
<1>2. outcome' = outcome
  BY <1>1 DEF ServiceStore
<1>3. /\ ProcessInv' /\ call' \in [Procs -> Calls]
      /\ \A q \in Procs \ {p} : ~Pending(q) /\ ~Pending(q)'
      /\ ~Pending(p) /\ (Pending(p)' => svc[p].op = "finalize")
      /\ Follows(svc[p].op, file, file') /\ Known(file)' /\ outcome = "open"
  BY <1>0, <1>2, StoreTypes, CommitRenameKeeps
<1>4. file' # file
  <2>1. file.rev \in Nat
    BY <1>1, StoreTypes DEF Checkpoints
  <2> QED BY <1>1, <2>1
<1>5. svc[p].op = "finalize" => file'.phase = "finalizing"
  BY <1>3 DEF Follows
<1>6. closings' \in Nat /\ closings \in Nat /\ closings <= closings' /\ (svc[p].op = "finalize" => closings' = closings + 1)
  <2>1. closings' = IF file'.phase = "finalizing" THEN closings + 1 ELSE closings
    BY <1>1, <1>4 DEF ServiceStore
  <2>2. closings \in Nat
    BY StoreTypes DEF TypeOK
  <2> QED BY <1>5, <2>1, <2>2
<1>7. DeviceInv'
  <2>o. PICK op : op = svc[p].op
    OBVIOUS
  <2>1. Follows(op, file, file')
    BY <1>3, <2>o
  <2> QED BY <1>0, <1>1, <1>2, <1>3, <2>1, StoreTypes, RenameFollows
<1>8. FinalsInv'
  <2>1. dev.fin + FinalsOn(wire) <= closings
    <3>1. \A q \in Procs : ~Pending(q)
      BY <1>3
    <3> QED BY <3>1, StoreTypes, DevType DEF FinalsInv
  <2>2. CASE Pending(p)'
    <3>1. closings' = closings + 1
      BY <1>3, <1>6, <2>2
    <3>2. dev'.fin + FinalsOn(wire') + 1 <= closings'
      BY <1>0, <1>6, <2>1, <3>1, StoreTypes, DevType
    <3> QED BY <2>2, <3>2 DEF FinalsInv, FinalsOn
  <2>3. CASE ~Pending(p)'
    <3>1. \A q \in Procs : ~Pending(q)'
      BY <1>3, <2>3
    <3>2. dev'.fin + FinalsOn(wire') + 0 <= closings'
      BY <1>0, <1>6, <2>1, StoreTypes, DevType
    <3> QED BY <3>1, <3>2 DEF FinalsInv, FinalsOn
  <2> QED BY <2>2, <2>3
<1>9. TypeOK'
  <2>1. temporary' \in [Procs -> BOOLEAN] /\ faults' \in Nat
    BY <1>0, StoreTypes
  <2> QED BY <1>0, <1>1, <1>2, <1>3, <1>6, <2>1, StoreTypes DEF TypeOK
<1> QED BY <1>3, <1>7, <1>8, <1>9 DEF Inv

\* The invariant is kept when the file is removed.
LEMMA CompleteFileKeepsInv ==
  ASSUME Inv, NEW p \in Procs, ServiceStore(p), Complete_File(p)
  PROVE  Inv'
<1>0. /\ UNCHANGED <<lock, claims, live, svc, policy, conn, wire, inbox, dev, attempts, temporary, faults>>
      /\ file' = None
  BY DEF ServiceStore, Complete_File, env
<1>1. closings' = closings
  BY <1>0 DEF ServiceStore
<1>2. outcome' = IF file # None THEN (IF svc[p].op = "verify" THEN "verified" ELSE "retired") ELSE outcome
  BY <1>0 DEF ServiceStore
<1>3. outcome' \in {outcome, "verified", "retired"}
  BY <1>2
<1>4. /\ ProcessInv' /\ call' \in [Procs -> Calls] /\ outcome # "none"
      /\ \A q \in Procs : Pending(q)' => Pending(q)
  BY <1>0, <1>3, StoreTypes, CompleteFileKeeps
<1>5. outcome' # "none" /\ outcome' # "open"
  BY <1>2, <1>4, StoreTypes DEF DeviceInv
<1>6. DeviceInv'
  BY <1>0, <1>3, <1>5, StoreTypes, CompleteFollows
<1>7. TypeOK'
  BY <1>0, <1>1, <1>3, <1>4, StoreTypes DEF TypeOK
<1>8. FinalsInv'
  <2>1. dev.fin + FinalsOn(wire) <= dev.fin + FinalsOn(wire) /\ closings <= closings /\ closings \in Nat
    BY StoreTypes, DevType DEF TypeOK
  <2> QED BY <1>0, <1>1, <1>4, <2>1, StoreTypes, DevType, FinalsStay
<1> QED BY <1>4, <1>6, <1>7, <1>8 DEF Inv

\* The inductive invariant.
LEMMA NextInv ==
  ASSUME AtMostTwo, Inv, [Next]_tvars
  PROVE  Inv'
<1>1. ASSUME NEW p \in Procs, ServiceStore(p) PROVE Inv'
  BY <1>1, StoreKeepsFile, RenameKeepsInv, CompleteFileKeepsInv
<1>2. CASE UNCHANGED tvars
  <2>1. Still /\ UNCHANGED <<svc, env, attempts, closings>> /\ UNCHANGED store /\ UNCHANGED <<call, claims>>
    BY <1>2 DEF tvars, store, env, ghosts, Still
  <2>2. TypeOK' /\ ProcessInv' /\ DeviceInv' /\ FinalsInv'
    BY <2>1 DEF Inv, TypeOK, ProcessInv, Process, Shape, Agrees, Locked, Holding, DeviceInv, FinalsInv, Pending,
         Claiming, Committing, Completing, Releasing, Follows, Known, Older, Horizon, Repeatable, Still, env, store
  <2> QED BY <2>2 DEF Inv
<1> QED BY <1>1, <1>2, ServiceKeepsInv, CrashKeepsInv, LinkStepsKeepInv DEF Next

\* What the processes, the lock file, the checkpoint's file, the wire and the device
\* say of each other holds in every state, for any sources, length and bounds.
THEOREM TransferInvariant == ASSUME AtMostTwo PROVE Spec => []Inv
<1>1. Init => Inv
  BY InitInv
<1>2. Inv /\ [Next]_tvars => Inv'
  BY NextInv
<1> QED BY <1>1, <1>2, PTL DEF Spec

\* No two live processes hold the claim.
THEOREM ClaimIsExclusive == ASSUME AtMostTwo PROVE Spec => []ClaimExclusive
<1>1. Inv => ClaimExclusive
  <2> SUFFICES ASSUME Inv PROVE ClaimExclusive
    OBVIOUS
  <2>1. ASSUME NEW p \in Procs, claims[p] PROVE lock.pid = p
    <3>1. Locked(p, call[p])
      BY AtProcess DEF Inv
    <3> QED BY <2>1, <3>1 DEF Locked, Holding
  <2> QED BY <2>1 DEF ClaimExclusive
<1> QED BY <1>1, TransferInvariant, PTL

\* What the checkpoint says is confirmed its device has durably committed, byte for
\* byte from the checkpoint's own source, through every crash, delay and broken link.
THEOREM WhatIsConfirmedIsOnTheDevice == ASSUME AtMostTwo PROVE Spec => []ConfirmedIsOnDevice
<1>1. Inv => ConfirmedIsOnDevice
  <2> SUFFICES ASSUME Inv, file # None, file.gen = dev.gen
               PROVE  file.prefix <= dev.com /\ \A i \in 1 .. file.prefix : dev.img[i] = file.src
    BY DEF ConfirmedIsOnDevice
  <2>1. TypeOK /\ DeviceInv
    BY DEF Inv
  <2>2. file.prefix \in Nat /\ dev.com \in Nat /\ dev.vol \in Nat
    BY <2>1, DevType DEF TypeOK, Checkpoints
  <2>3. file.prefix <= dev.com /\ dev.com <= dev.vol /\ dev.vol = Len(dev.img)
    BY <2>1 DEF DeviceInv, Known
  <2>4. \A i \in 1 .. Len(dev.img) : dev.img[i] = file.src
    BY <2>1 DEF DeviceInv
  <2>5. 1 .. file.prefix \subseteq 1 .. Len(dev.img)
    BY <2>2, <2>3
  <2> QED BY <2>3, <2>4, <2>5
<1> QED BY <1>1, TransferInvariant, PTL

\* What the promise of DurableTransfer sees does not move.
AbstractStays == UNCHANGED <<file, outcome, closings, policy>> /\ dev'.reached = dev.reached /\ dev'.fin = dev.fin

\* A step the promise allows.
Implements == (Contract!Next \/ UNCHANGED Contract!dvars) /\ UNCHANGED policy

\* Then the step is none of the promise's.
LEMMA Stutters ==
  ASSUME AbstractStays
  PROVE  UNCHANGED Contract!dvars
<1>1. Record' = Record
  BY DEF Record, AbstractStays
<1> QED BY <1>1 DEF Contract!dvars, AbstractStays

\* The record the promise sees of a checkpoint, before and after a step.
LEMMA RecordFields ==
  ASSUME file # None, NEW b \in BOOLEAN, b <=> Closing(file)
  PROVE  Record = [prefix |-> file.prefix, horizon |-> file.admitted, closing |-> b]
<1>1. (file.phase \in {"finalizing", "verifying"}) = b
  BY DEF Closing
<1> QED BY <1>1 DEF Record

\* What such a record may be.
Records == [prefix : Nat, horizon : Nat, closing : BOOLEAN]

\* Its fields, and that they say all.
LEMMA RecordType ==
  ASSUME NEW x \in Nat, NEW y \in Nat, NEW b \in BOOLEAN, NEW r, r = [prefix |-> x, horizon |-> y, closing |-> b]
  PROVE  r \in Records /\ r.prefix = x /\ r.horizon = y /\ (r.closing <=> b)
BY DEF Records

\* Its fields say all of it.
LEMMA SameRecord ==
  ASSUME NEW r \in Records, NEW t \in Records, r.prefix = t.prefix, r.horizon = t.horizon, r.closing <=> t.closing
  PROVE  r = t
BY DEF Records

\* What the contract's assignments to the record make of it.
LEMMA RecordConfirms ==
  ASSUME NEW r \in Records, NEW k \in Nat, NEW c \in BOOLEAN,
         NEW t \in Records, t.prefix = k, t.horizon = r.horizon, t.closing <=> c
  PROVE  t = [r EXCEPT !.prefix = k, !.closing = c]
<1>e. PICK e : e = [r EXCEPT !.prefix = k, !.closing = c]
  OBVIOUS
<1>1. e \in Records /\ e.prefix = k /\ e.horizon = r.horizon /\ (e.closing <=> c)
  BY <1>e DEF Records
<1>2. e = t
  BY <1>1, SameRecord
<1> QED BY <1>2, <1>e

\* The horizon moves.
LEMMA RecordExtends ==
  ASSUME NEW x \in Nat, NEW y \in Nat, NEW b \in BOOLEAN, NEW r, r = [prefix |-> x, horizon |-> y, closing |-> b],
         NEW k \in Nat, NEW t, t = [prefix |-> x, horizon |-> k, closing |-> b]
  PROVE  r.prefix = x /\ r.horizon = y /\ (r.closing <=> b) /\ t = [r EXCEPT !.horizon = k]
<1>e. PICK e : e = [r EXCEPT !.horizon = k]
  OBVIOUS
<1>1. r \in Records /\ r.prefix = x /\ r.horizon = y /\ (r.closing <=> b)
  BY RecordType
<1>2. t \in Records /\ t.prefix = x /\ t.horizon = k /\ (t.closing <=> b)
  BY RecordType
<1>3. e \in Records /\ e.prefix = x /\ e.horizon = k /\ (e.closing <=> b)
  BY <1>1, <1>e DEF Records
<1>4. e = t
  BY <1>2, <1>3, SameRecord
<1> QED BY <1>1, <1>4, <1>e

\* The record enters finalization.
LEMMA RecordCloses ==
  ASSUME NEW x \in Nat, NEW y \in Nat, NEW b \in BOOLEAN, NEW r, r = [prefix |-> x, horizon |-> y, closing |-> b],
         NEW c \in BOOLEAN, NEW t, t = [prefix |-> x, horizon |-> y, closing |-> c]
  PROVE  r.prefix = x /\ r.horizon = y /\ (r.closing <=> b) /\ t = [r EXCEPT !.closing = c]
<1>e. PICK e : e = [r EXCEPT !.closing = c]
  OBVIOUS
<1>1. r \in Records /\ r.prefix = x /\ r.horizon = y /\ (r.closing <=> b)
  BY RecordType
<1>2. t \in Records /\ t.prefix = x /\ t.horizon = y /\ (t.closing <=> c)
  BY RecordType
<1>3. e \in Records /\ e.prefix = x /\ e.horizon = y /\ (e.closing <=> c)
  BY <1>1, <1>e DEF Records
<1>4. e = t
  BY <1>2, <1>3, SameRecord
<1> QED BY <1>1, <1>4, <1>e

\* The record after a step.
LEMMA RecordFieldsAfter ==
  ASSUME file' # None, NEW b \in BOOLEAN, b <=> Closing(file')
  PROVE  Record' = [prefix |-> file'.prefix, horizon |-> file'.admitted, closing |-> b]
<1>1. (file'.phase \in {"finalizing", "verifying"}) = b
  BY DEF Closing
<1> QED BY <1>1 DEF Record

\* #open() begins the transfer.
LEMMA OpenBegins ==
  ASSUME Inv, NEW p \in Procs, Open(p)
  PROVE  Contract!Begin /\ UNCHANGED policy
<1>1. UNCHANGED <<policy, dev, closings>> /\ outcome = "none" /\ outcome' = "open"
  BY DEF Open, env
<1>2. file = None /\ file' # None /\ file'.prefix = 0 /\ file'.admitted = 0 /\ file'.phase = "preparing"
  BY OpenKeeps DEF Inv
<1>3. Record = [prefix |-> 0, horizon |-> 0, closing |-> FALSE]
  BY <1>1, <1>2 DEF Record
<1>4. ~Closing(file')
  BY <1>2 DEF Closing
<1>5. Record' = [prefix |-> file'.prefix, horizon |-> file'.admitted, closing |-> FALSE]
  BY <1>2, <1>4, RecordFieldsAfter
<1>6. Record' = Record
  BY <1>2, <1>3, <1>5
<1> QED BY <1>1, <1>6 DEF Contract!Begin

\* The rename is what the operation promised: a report confirms, an admission extends,
\* a finalization closes, and a verification changes nothing the promise sees.
LEMMA RenameImplements ==
  ASSUME Inv, NEW p \in Procs, ServiceStore(p), Commit_Rename(p)
  PROVE  Implements
<1>0. UNCHANGED <<dev, policy, svc>> /\ file' = call[p].want
  BY DEF ServiceStore, Commit_Rename, env
<1>1. file # None /\ file' # None /\ file' \in Checkpoints
  <2>1. At(p, "commit", "rename")
    BY DEF Commit_Rename
  <2>2. Agrees(p, svc[p], call[p]) /\ Committing(svc[p], call[p]) /\ call[p] \in Calls /\ call[p].at = "rename" /\ call[p].op = "commit"
    BY <2>1, StoreTypes, AtCall
  <2> QED BY <1>0, <2>2, NoneAssumption DEF Agrees, Committing, Calls
<1>2. outcome' = outcome
  BY <1>1 DEF ServiceStore
<1>o. PICK op : op = svc[p].op
  OBVIOUS
<1>3. /\ Follows(op, file, file') /\ Known(file)' /\ outcome = "open" /\ file.rev + 1 = file'.rev
      /\ op \in {"report", "admit", "finalize", "verify"}
      /\ op \in {"report", "finalize"} /\ Closing(file) => Repeatable
  BY <1>o, <1>0, <1>2, StoreTypes, CommitRenameKeeps
<1>4. /\ file.rev \in Nat /\ file.prefix \in 0 .. Length /\ file.admitted \in 0 .. Length
      /\ file'.prefix \in 0 .. Length /\ file'.admitted \in 0 .. Length
  BY <1>1, StoreTypes DEF Checkpoints
<1>5. file' # file
  BY <1>3, <1>4
<1>6. closings' = IF file'.phase = "finalizing" THEN closings + 1 ELSE closings
  BY <1>1, <1>5 DEF ServiceStore
<1>b. PICK b \in BOOLEAN : b <=> Closing(file)
  BY DEF Closing
<1>r. PICK r : r = Record
  OBVIOUS
<1>7. r = [prefix |-> file.prefix, horizon |-> file.admitted, closing |-> b]
  BY <1>1, <1>b, <1>r, RecordFields
<1>8. CASE op = "report"
  <2>1. /\ file'.phase = "transferring" /\ file'.prefix >= file.prefix /\ file'.admitted = file.admitted
        /\ file'.prefix <= dev.reached
    BY <1>0, <1>3, <1>8 DEF Follows, Known
  <2>2. file'.prefix \in file.prefix .. dev.reached
    BY <1>4, <2>1, StoreTypes, DevType
  <2>3. ~Closing(file')
    BY <2>1 DEF Closing
  <2>4. Record' = [prefix |-> file'.prefix, horizon |-> file'.admitted, closing |-> FALSE]
    BY <1>1, <2>3, RecordFieldsAfter
  <2>5. Record' = [r EXCEPT !.prefix = file'.prefix, !.closing = FALSE] /\ r.prefix = file.prefix /\ (r.closing <=> b)
    <3>v. PICK x, y, k, t : x = file.prefix /\ y = file.admitted /\ k = file'.prefix /\ t = Record'
      OBVIOUS
    <3>c. PICK c \in BOOLEAN : c = FALSE
      OBVIOUS
    <3>2. x \in Nat /\ y \in Nat /\ k \in Nat /\ r = [prefix |-> x, horizon |-> y, closing |-> b]
      BY <1>4, <1>7, <3>v
    <3>3. t = [prefix |-> k, horizon |-> y, closing |-> c]
      BY <2>1, <2>4, <3>v, <3>c
    <3>4. r \in Records /\ r.prefix = x /\ r.horizon = y /\ (r.closing <=> b)
      BY <3>2, RecordType
    <3>5. t \in Records /\ t.prefix = k /\ t.horizon = y /\ (t.closing <=> c)
      BY <3>2, <3>3, RecordType
    <3>6. t = [r EXCEPT !.prefix = k, !.closing = c]
      BY <3>2, <3>4, <3>5, RecordConfirms
    <3> QED BY <2>1, <3>v, <3>c, <3>4, <3>6
  <2>6. closings' = closings
    BY <1>6, <2>1
  <2>7. r.closing => Contract!Repeatable
    BY <1>3, <1>8, <1>b, <2>5 DEF Repeatable, Contract!Repeatable
  <2>8. Contract!Confirm
    BY <1>0, <1>2, <1>3, <1>r, <2>2, <2>5, <2>6, <2>7 DEF Contract!Confirm
  <2> QED BY <1>0, <2>8 DEF Contract!Next, Implements
<1>9. CASE op = "admit"
  <2>1. /\ file.phase = "transferring" /\ file'.phase = "transferring" /\ file'.prefix = file.prefix
        /\ file'.admitted >= file.admitted
    BY <1>3, <1>9 DEF Follows
  <2>2. file'.admitted \in file.admitted .. Length
    BY <1>4, <2>1, TransferAssumption
  <2>3. ~Closing(file') /\ ~Closing(file)
    BY <2>1 DEF Closing
  <2>4. Record' = [prefix |-> file'.prefix, horizon |-> file'.admitted, closing |-> FALSE]
    BY <1>1, <2>3, RecordFieldsAfter
  <2>5. Record' = [r EXCEPT !.horizon = file'.admitted] /\ r.horizon = file.admitted /\ ~r.closing
    <3>1. b = FALSE
      BY <1>b, <2>3
    <3>v. PICK x, y, k, t : x = file.prefix /\ y = file.admitted /\ k = file'.admitted /\ t = Record'
      OBVIOUS
    <3>2. x \in Nat /\ y \in Nat /\ k \in Nat /\ r = [prefix |-> x, horizon |-> y, closing |-> b]
      BY <1>4, <1>7, <3>v
    <3>3. t = [prefix |-> x, horizon |-> k, closing |-> b]
      BY <2>1, <2>4, <3>1, <3>v
    <3>4. r.prefix = x /\ r.horizon = y /\ (r.closing <=> b) /\ t = [r EXCEPT !.horizon = k]
      BY <3>2, <3>3, RecordExtends
    <3> QED BY <2>1, <3>v, <3>4, <3>1
  <2>6. closings' = closings
    BY <1>6, <2>1
  <2>8. Contract!Extend
    BY <1>0, <1>2, <1>3, <1>r, <2>2, <2>5, <2>6 DEF Contract!Extend
  <2> QED BY <1>0, <2>8 DEF Contract!Next, Implements
<1>10. CASE op = "finalize"
  <2>1. /\ file'.phase = "finalizing" /\ file.prefix = Length /\ file'.prefix = Length
        /\ file'.admitted = file.admitted
    BY <1>3, <1>10 DEF Follows
  <2>3. Closing(file')
    BY <2>1 DEF Closing
  <2>4. Record' = [prefix |-> file'.prefix, horizon |-> file'.admitted, closing |-> TRUE]
    BY <1>1, <2>3, RecordFieldsAfter
  <2>5. Record' = [r EXCEPT !.closing = TRUE] /\ r.prefix = Length /\ (r.closing <=> b)
    <3>v. PICK x, y, k, t : x = file.prefix /\ y = file.admitted /\ k = 0 /\ t = Record'
      OBVIOUS
    <3>c. PICK c \in BOOLEAN : c = TRUE
      OBVIOUS
    <3>2. x \in Nat /\ y \in Nat /\ k \in Nat /\ r = [prefix |-> x, horizon |-> y, closing |-> b]
      BY <1>4, <1>7, <3>v
    <3>3. t = [prefix |-> x, horizon |-> y, closing |-> c]
      BY <2>1, <2>4, <3>v, <3>c
    <3>4. r.prefix = x /\ r.horizon = y /\ (r.closing <=> b) /\ t = [r EXCEPT !.closing = c]
      BY <3>2, <3>3, RecordCloses
    <3> QED BY <2>1, <3>v, <3>c, <3>4
  <2>6. closings' = closings + 1
    BY <1>6, <2>1
  <2>7. r.closing => Contract!Repeatable
    BY <1>3, <1>10, <1>b, <2>5 DEF Repeatable, Contract!Repeatable
  <2>8. Contract!Close
    BY <1>0, <1>2, <1>3, <1>r, <2>5, <2>6, <2>7 DEF Contract!Close
  <2> QED BY <1>0, <2>8 DEF Contract!Next, Implements
<1>11. CASE op = "verify"
  <2>1. /\ Closing(file) /\ file'.phase = "verifying" /\ file'.prefix = file.prefix
        /\ file'.admitted = file.admitted
    BY <1>3, <1>11 DEF Follows
  <2>3. Closing(file')
    BY <2>1 DEF Closing
  <2>4. Record' = [prefix |-> file'.prefix, horizon |-> file'.admitted, closing |-> TRUE]
    BY <1>1, <2>3, RecordFieldsAfter
  <2>5. Record' = Record
    <3>1. b = TRUE
      BY <1>b, <2>1
    <3> QED BY <1>7, <1>r, <2>1, <2>4, <3>1
  <2>6. closings' = closings
    BY <1>6, <2>1
  <2> QED BY <1>0, <1>2, <2>5, <2>6 DEF Contract!dvars, Implements
<1> QED BY <1>3, <1>8, <1>9, <1>10, <1>11

\* The file is removed by a verified transfer whose device finalized, or by retire().
LEMMA CompleteImplements ==
  ASSUME Inv, NEW p \in Procs, ServiceStore(p), Complete_File(p)
  PROVE  Implements
<1>0. UNCHANGED <<dev, policy, svc>> /\ file' = None
  BY DEF ServiceStore, Complete_File, env
<1>1. closings' = closings
  BY <1>0 DEF ServiceStore
<1>2. outcome' = IF file # None THEN (IF svc[p].op = "verify" THEN "verified" ELSE "retired") ELSE outcome
  BY <1>0 DEF ServiceStore
<1>3. CASE file = None
  <2>1. AbstractStays
    BY <1>0, <1>1, <1>2, <1>3 DEF AbstractStays
  <2> QED BY <1>0, <2>1, Stutters DEF AbstractStays, Implements
<1>4. CASE file # None
  <2>1. outcome = "open"
    BY <1>4, StoreTypes DEF DeviceInv
  <2>2. outcome' \in {outcome, "verified", "retired"} /\ outcome' # "none"
    BY <1>2, <1>4
  <2>3. svc[p].op = "verify" => dev.fin > 0 /\ file.phase = "verifying"
    BY <1>0, <2>2, StoreTypes, CompleteFileKeeps
  <2>4. Record' = Contract!Gone
    BY <1>0, <2>2 DEF Record, Contract!Gone
  <2>5. CASE svc[p].op = "verify"
    <3>1. Closing(file)
      BY <2>3, <2>5 DEF Closing
    <3>2. Record = [prefix |-> file.prefix, horizon |-> file.admitted, closing |-> TRUE]
      BY <1>4, <3>1, RecordFields
    <3>3. Record.closing
      BY <3>2
    <3>4. Contract!Verified
      BY <1>0, <1>1, <1>2, <1>4, <2>1, <2>3, <2>4, <2>5, <3>3 DEF Contract!Verified
    <3> QED BY <1>0, <3>4 DEF Contract!Next, Implements
  <2>6. CASE svc[p].op # "verify"
    <3>1. Contract!Retired
      BY <1>0, <1>1, <1>2, <1>4, <2>1, <2>4, <2>6 DEF Contract!Retired
    <3> QED BY <1>0, <3>1 DEF Contract!Next, Implements
  <2> QED BY <2>5, <2>6
<1> QED BY <1>3, <1>4

\* The device commits no further than the horizon and finalizes no more often than
\* the record was closed.
LEMMA DeviceImplements ==
  ASSUME Inv, DeviceReads \/ DeviceReports
  PROVE  Implements
<1>0. UNCHANGED <<file, outcome, closings, policy>>
  BY DEF DeviceReads, DeviceReports, store, ghosts
<1>1. Record' = Record
  BY <1>0 DEF Record
<1>2. dev.fin \in Nat /\ closings \in Nat /\ dev.reached \in Nat /\ Horizon \in Nat /\ FinalsOn(wire) \in Nat
  BY StoreTypes, DevType DEF TypeOK
<1>3. CASE DeviceReads
  <2>m. PICK m : m = Head(wire)
    OBVIOUS
  <2>1. /\ wire # <<>>
        /\ dev' = (IF m.kind = "final" THEN [dev EXCEPT !.fin = IF dev.com = Length THEN @ + 1 ELSE @]
                   ELSE IF m.lo <= dev.vol /\ m.hi > dev.vol
                   THEN [dev EXCEPT !.vol = m.hi, !.img = @ \o [i \in 1 .. m.hi - dev.vol |-> m.src]]
                   ELSE dev)
    BY <1>3, <2>m DEF DeviceReads
  <2>2. dev \in Devices /\ wire \in Seq(Carriers)
    BY StoreTypes, DevType
  <2>3. CASE m.kind = "final" /\ dev.com = Length
    <3>1. dev' = [dev EXCEPT !.fin = @ + 1]
      BY <2>1, <2>3
    <3>2. dev'.fin = dev.fin + 1 /\ dev'.reached = dev.reached
      BY <2>2, <3>1 DEF Devices
    <3>3. FinalsOn(wire) > 0
      <4>1. Tail(wire) \in Seq(Carriers) /\ FinalsOn(wire) = FinalsOn(Tail(wire)) + 1
        BY <2>m, <2>1, <2>2, <2>3, FinalsTail
      <4>2. FinalsOn(Tail(wire)) \in Nat
        BY <4>1, FinalsFinite
      <4> QED BY <4>1, <4>2
    <3>4. dev.fin < closings
      <4>1. PICK a \in {0, 1} : dev.fin + FinalsOn(wire) + a <= closings
        BY StoreTypes DEF FinalsInv
      <4> QED BY <1>2, <3>3, <4>1
    <3>5. Contract!DeviceFinalizes
      BY <1>0, <1>1, <3>2, <3>4 DEF Contract!DeviceFinalizes
    <3> QED BY <1>0, <3>5 DEF Contract!Next, Implements
  <2>4. CASE ~(m.kind = "final" /\ dev.com = Length)
    <3>1. dev'.fin = dev.fin /\ dev'.reached = dev.reached
      BY <2>1, <2>2, <2>4 DEF Devices
    <3>2. AbstractStays
      BY <1>0, <3>1 DEF AbstractStays
    <3> QED BY <1>0, <3>2, Stutters DEF AbstractStays, Implements
  <2> QED BY <2>3, <2>4
<1>4. CASE DeviceReports
  <2>1. dev'.fin = dev.fin /\ (dev'.reached = dev.reached \/ dev'.reached \in dev.reached .. Horizon)
    BY <1>4, StoreTypes, DeviceReportsKeeps
  <2>2. CASE dev'.reached = dev.reached
    <3>1. AbstractStays
      BY <1>0, <2>1, <2>2 DEF AbstractStays
    <3> QED BY <1>0, <3>1, Stutters DEF AbstractStays, Implements
  <2>3. CASE dev'.reached # dev.reached
    <3>1. Record.horizon = Horizon
      BY DEF Record, Horizon
    <3>2. dev'.reached \in dev.reached + 1 .. Record.horizon
      BY <1>2, <2>1, <2>3, <3>1
    <3>3. Contract!DeviceCommits
      BY <1>0, <1>1, <2>1, <3>2 DEF Contract!DeviceCommits
    <3> QED BY <1>0, <3>3 DEF Contract!Next, Implements
  <2> QED BY <2>2, <2>3
<1> QED BY <1>3, <1>4

\* No other step of a service moves what the promise sees.
LEMMA ServiceImplements ==
  ASSUME Inv, NEW p \in Procs, Service(p), ~Open(p)
  PROVE  AbstractStays
<1>1. CASE \E s \in Sources, r \in BOOLEAN : Prepare(p, s, r)
  BY <1>1 DEF Prepare, AbstractStays, Disk, env
<1>2. CASE \/ Prepared(p) \/ Opened(p) \/ Reported(p) \/ Admitted(p) \/ Finalizing(p) \/ Verifying(p)
           \/ Completed(p) \/ CallFailed(p) \/ Released(p) \/ ReleaseService(p)
  BY <1>2 DEF Prepared, Opened, Reported, Admitted, Finalizing, Verifying, Completed, CallFailed, Released,
              ReleaseService, AbstractStays, Disk, env, ghosts
<1>3. CASE Report(p) \/ Admit(p) \/ Finalize(p) \/ Verify(p)
  BY <1>3 DEF Report, Admit, Finalize, Verify, CommitOf, AbstractStays, Disk, env, ghosts, store
<1>4. CASE Retire(p) \/ Revoke(p) \/ Send(p) \/ SendFinal(p)
  BY <1>4 DEF Retire, Revoke, Send, SendFinal, AbstractStays, Disk, env, ghosts, store
<1> QED BY <1>1, <1>2, <1>3, <1>4 DEF Service

\* Nor does a crash, a connection, or a device that forgets.
LEMMA OthersImplement ==
  ASSUME Inv, NEW p \in Procs, Crash(p) \/ Connect(p) \/ Disconnect \/ DeviceForgets \/ UNCHANGED tvars
  PROVE  AbstractStays
<1>1. dev \in Devices
  BY StoreTypes, DevType
<1>2. CASE Crash(p) \/ Disconnect \/ UNCHANGED tvars
  BY <1>2 DEF Crash, Die, Disconnect, AbstractStays, env, ghosts, store, tvars
<1>3. CASE Connect(p)
  <2>1. UNCHANGED <<file, outcome, closings, policy>>
    BY <1>3 DEF Connect, store, ghosts
  <2>2. PICK v : dev' = [dev EXCEPT !.vol = v, !.img = SubSeq(@, 1, v)]
    BY <1>3 DEF Connect
  <2> QED BY <1>1, <2>1, <2>2 DEF AbstractStays, Devices
<1>4. CASE DeviceForgets
  BY <1>1, <1>4 DEF DeviceForgets, AbstractStays, Devices, ghosts
<1> QED BY <1>2, <1>3, <1>4

\* The store's steps.
LEMMA StoreImplements ==
  ASSUME Inv, NEW p \in Procs, ServiceStore(p)
  PROVE  Implements
<1>1. CASE ~Commit_Rename(p) /\ ~Complete_File(p)
  <2>1. file' = file
    BY <1>1 DEF ServiceStore, StoreStep, Claim_Read, Claim_Open, Claim_Write, Claim_Inspect, Claim_Unlink,
                Commit_Write, Release_Unlink, Complete_Lock
  <2>2. AbstractStays
    BY <2>1 DEF ServiceStore, AbstractStays, env
  <2> QED BY <2>2, Stutters DEF AbstractStays, Implements
<1> QED BY <1>1, RenameImplements, CompleteImplements

\* Every step of the service, of the store, of a process that dies, of the link and of the device is a step of the promise, or none of its.
LEMMA NextImplements ==
  ASSUME Inv, [Next]_tvars
  PROVE  [Contract!Next /\ UNCHANGED policy]_Contract!dvars
<1> SUFFICES Implements
  BY DEF Implements
<1>1. ASSUME NEW p \in Procs, Service(p) PROVE  Implements
  <2>1. CASE Open(p)
    BY <2>1, OpenBegins DEF Contract!Next, Implements
  <2>2. CASE ~Open(p)
    <3>1. AbstractStays
      BY <1>1, <2>2, ServiceImplements
    <3> QED BY <3>1, Stutters DEF AbstractStays, Implements
  <2> QED BY <2>1, <2>2
<1>2. ASSUME NEW p \in Procs, ServiceStore(p) PROVE  Implements
  BY <1>2, StoreImplements
<1>3. ASSUME NEW p \in Procs, Crash(p) \/ Connect(p) PROVE  Implements
  <2>1. AbstractStays
    BY <1>3, OthersImplement
  <2> QED BY <2>1, Stutters DEF AbstractStays, Implements
<1>4. CASE Disconnect \/ DeviceForgets \/ UNCHANGED tvars
  <2>1. AbstractStays
    <3>1. dev \in Devices
      BY StoreTypes, DevType
    <3> QED BY <1>4, <3>1 DEF Disconnect, DeviceForgets, AbstractStays, Devices, env, ghosts, store, tvars
  <2> QED BY <2>1, Stutters DEF AbstractStays, Implements
<1>5. CASE DeviceReads \/ DeviceReports
  BY <1>5, DeviceImplements
<1>6. CASE Next
  <2>1. CASE \E p \in Procs : Service(p) \/ ServiceStore(p) \/ Crash(p) \/ Connect(p)
    BY <1>1, <1>2, <1>3, <2>1
  <2>2. CASE Disconnect \/ DeviceReads \/ DeviceReports \/ DeviceForgets
    BY <1>4, <1>5, <2>2
  <2> QED BY <1>6, <2>1, <2>2 DEF Next
<1> QED BY <1>4, <1>6

\* The transfer implements its promise.
THEOREM TransferImplementsContract == ASSUME AtMostTwo PROVE Spec => ImplementsContract
<1>1. Init => Contract!Init
  BY DEF Init, StoreInit, NewDevice, Contract!Init, Contract!Fresh, Record
<1>2. Inv /\ [Next]_tvars => [Contract!Next /\ UNCHANGED policy]_Contract!dvars
  BY NextImplements
<1> QED BY <1>1, <1>2, TransferInvariant, PTL DEF Spec, ImplementsContract, Contract!Spec
=============================================================================
