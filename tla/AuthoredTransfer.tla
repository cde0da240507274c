-------------------------- MODULE AuthoredTransfer --------------------------
(***************************************************************************)
(* The resumable transfer service of an authored operation                 *)
(* (core/src/authored-transfer.ts, AuthoredTransfer), over the command     *)
(* line's checkpoint store, with a device, a connection that breaks and    *)
(* processes that die.                                                     *)
(*                                                                         *)
(* svc[p] is the service of the operation process p runs.  A step that     *)
(* awaits the store leaves svc[p].at = "waiting" with the operation's name *)
(* in svc[p].op; the step that follows is the code after the await.        *)
(* The device, its protocol and the driver's Lua are outside the source:   *)
(* the driver sends what was admitted and reports what the device said.    *)
(***************************************************************************)
EXTENDS NodeCheckpointStore, Sequences

CONSTANTS Length,       \* source length, in carriers
          Sources,      \* files a client may name as the source
          MaxAttempts,  \* bound: operations started
          MaxRevision   \* bound: commits of the checkpoint

ASSUME TransferAssumption ==
  /\ Length \in Nat \ {0} /\ MaxAttempts \in Nat
  /\ MaxRevision \in Nat

\* what a checkpoint may say; None is not one, nor a generation
Phases == {"preparing", "transferring", "finalizing", "verifying"}
Checkpoints == [rev : Nat, phase : Phases, gen : Nat \cup {None}, prefix : 0 .. Length,
                admitted : 0 .. Length, src : Sources]

ASSUME NoneAssumption == None \notin Nat /\ None \notin Checkpoints

VARIABLES svc,       \* svc[p]: the transfer service of process p
          policy,    \* the declaration's finalization policy
          conn,      \* the process that has the device's port, or None
          wire,      \* what that process wrote and the device has not read
          inbox,     \* the device's report the driver has not read, or None
          dev,       \* the device
          outcome,   \* "none", "open", "verified" or "retired"
          closings,  \* times the checkpoint durably entered finalization
          attempts   \* operations started

env == <<policy, conn, wire, inbox, dev>>
ghosts == <<outcome, closings, attempts>>
tvars == <<store, svc, env, ghosts>>

Repeatable == policy = "repeatable"

NoService == [at |-> "idle", op |-> "none", claim |-> None, resuming |-> FALSE,
              quiet |-> FALSE, submitted |-> 0, next |-> 0, src |-> None, revoked |-> FALSE]

\* the checkpoint open() creates: no generation is bound yet
FreshCheckpoint(s) ==
  [rev |-> 0, phase |-> "preparing", gen |-> None, prefix |-> 0, admitted |-> 0, src |-> s]

\* gen: its transfer; vol, com: received and committed bytes, img their content;
\* reached: the most it ever committed; fin: finalizations executed
NewDevice == [gen |-> 0, vol |-> 0, com |-> 0, img |-> <<>>, reached |-> 0, fin |-> 0]

Init ==
  /\ StoreInit(None)
  /\ svc = [p \in Procs |-> NoService]
  /\ policy \in {"repeatable", "not-repeatable"}
  /\ conn = None /\ wire = <<>> /\ inbox = None
  /\ dev = NewDevice
  /\ outcome = "none" /\ closings = 0 /\ attempts = 0

-----------------------------------------------------------------------------
Ready(p) == live[p] /\ svc[p].at = "ready"

\* context.live(): not cancelled, and the connection is the operation's
Usable(p) == Ready(p) /\ ~svc[p].revoked /\ conn = p

Await(p, op) == svc' = [svc EXCEPT ![p].at = "waiting", ![p].op = op]

Returned(p, op) == live[p] /\ svc[p].at = "waiting" /\ svc[p].op = op /\ call[p].at = "done"

\* the await is over: the service continues as s
Back(p, s) ==
  /\ svc' = [svc EXCEPT ![p] = IF s.at = "sending" THEN s
                                ELSE [s EXCEPT !.op = "none", !.quiet = FALSE, !.next = 0]]
  /\ call' = [call EXCEPT ![p] = Idle]

Disk == <<file, lock, temporary, live, faults>>

\* prepare(): a resumed operation claims its checkpoint first
Prepare(p, s, resume) ==
  /\ live[p] /\ svc[p] = NoService /\ call[p] = Idle /\ conn = p
  /\ attempts < MaxAttempts /\ attempts' = attempts + 1
  /\ resume = (outcome # "none")
  /\ IF resume
     THEN /\ Claim(p)
          /\ svc' = [svc EXCEPT ![p] = [NoService EXCEPT
                       !.at = "waiting", !.op = "prepare", !.resuming = TRUE, !.src = s]]
     ELSE /\ svc' = [svc EXCEPT ![p] = [NoService EXCEPT !.at = "ready", !.src = s]]
          /\ UNCHANGED call
  /\ UNCHANGED <<Disk, claims, env, outcome, closings>>

\* the claimed checkpoint is inspected; a refusal releases the claim
MayResumeAnySource(cp, s) == cp.phase \in {"finalizing", "verifying"} => Repeatable
MayResumeAnyPhase(cp, s) == cp.src = s
MayResume(cp, s) ==
  /\ cp.src = s
  /\ cp.phase \in {"finalizing", "verifying"} => Repeatable

Prepared(p) ==
  /\ Returned(p, "prepare")
  /\ LET cp == call[p].seen
         ok == ~svc[p].revoked /\ MayResume(cp, svc[p].src)
     IN Back(p, [svc[p] EXCEPT !.at = IF ok THEN "ready" ELSE "refused",
                               !.claim = cp, !.submitted = cp.prefix])
  /\ UNCHANGED <<Disk, claims, env, ghosts>>

\* #open(): create the checkpoint (link), then claim it
Open(p) ==
  /\ Usable(p) /\ svc[p].claim = None /\ ~svc[p].resuming /\ outcome = "none"
  /\ file' = FreshCheckpoint(svc[p].src)
  /\ outcome' = "open"
  /\ Claim(p) /\ Await(p, "open")
  /\ UNCHANGED <<lock, temporary, claims, live, faults, env, closings, attempts>>

Opened(p) ==
  /\ Returned(p, "open")
  /\ Back(p, [svc[p] EXCEPT !.at = "ready", !.claim = call[p].seen])
  /\ UNCHANGED <<Disk, claims, env, ghosts>>

\* #commit(): the next revision of the claim's checkpoint
CommitOf(p, op, changed) ==
  /\ changed.rev < MaxRevision
  /\ Commit(p, [changed EXCEPT !.rev = @ + 1])
  /\ UNCHANGED <<Disk, claims, ghosts>>

\* #report(): the report is consumed; a committed prefix that rolls back, that
\* passes the admitted horizon, or that another generation reports is refused
Acceptable(p, m) ==
  LET cp == svc[p].claim
  IN /\ svc[p].resuming \/ cp.phase \in {"preparing", "transferring"}
     /\ cp.prefix <= m.com /\ m.com <= m.vol /\ m.vol <= cp.admitted
     /\ IF cp.gen # None THEN cp.gen = m.gen ELSE ~svc[p].resuming

Report(p) ==
  /\ Usable(p) /\ svc[p].claim # None /\ inbox # None /\ inbox.kind = "report"
  /\ inbox' = None /\ svc[p].claim.rev < MaxRevision
  /\ IF Acceptable(p, inbox)
     THEN /\ CommitOf(p, "report", [svc[p].claim EXCEPT
               !.phase = "transferring", !.gen = inbox.gen, !.prefix = inbox.com])
          /\ svc' = [svc EXCEPT ![p].at = "waiting", ![p].op = "report",
                                ![p].quiet = (inbox.vol = inbox.com)]
     ELSE UNCHANGED <<store, svc, ghosts>>
  /\ UNCHANGED <<policy, conn, wire, dev>>

Reported(p) ==
  /\ Returned(p, "report")
  /\ LET s  == svc[p]
         cp == call[p].want
         on == s.resuming /\ s.quiet /\ ~s.revoked
     IN Back(p, [s EXCEPT !.at = "ready", !.claim = cp,
                   !.submitted = IF on THEN cp.prefix ELSE @, !.resuming = @ /\ ~on])
  /\ UNCHANGED <<Disk, claims, env, ghosts>>

\* #admit(): the horizon is durable before the carrier is written
Admit(p) ==
  /\ Usable(p) /\ svc[p].claim # None /\ ~svc[p].resuming
  /\ svc[p].claim.gen # None /\ svc[p].claim.phase = "transferring"
  /\ \E n \in svc[p].submitted + 1 .. Length :
       /\ CommitOf(p, "admit", [svc[p].claim EXCEPT !.admitted = IF n > @ THEN n ELSE @])
       /\ svc' = [svc EXCEPT ![p].at = "waiting", ![p].op = "admit", ![p].next = n]
  /\ UNCHANGED env

Admitted(p) ==
  /\ Returned(p, "admit")
  /\ Back(p, [svc[p] EXCEPT !.claim = call[p].want, !.at = IF svc[p].revoked THEN "ready" ELSE "sending"])
  /\ UNCHANGED <<Disk, claims, env, ghosts>>

\* the carrier write that follows #admit() in the operation's turn
Send(p) ==
  /\ live[p] /\ svc[p].at = "sending" /\ svc[p].op = "admit"
  /\ svc' = [svc EXCEPT ![p].at = "ready", ![p].op = "none",
                        ![p].submitted = svc[p].next, ![p].next = 0]
  /\ wire' = IF conn = p /\ ~svc[p].revoked
             THEN Append(wire, [kind |-> "data", lo |-> svc[p].submitted,
                                hi |-> svc[p].next, src |-> svc[p].src])
             ELSE wire
  /\ UNCHANGED <<store, policy, conn, inbox, dev, ghosts>>

\* #finalize(): once, unless the policy says repeatable
Finalize(p) ==
  /\ Usable(p) /\ svc[p].claim # None /\ ~svc[p].resuming
  /\ svc[p].claim.prefix = Length
  /\ svc[p].claim.phase = "transferring" \/ (svc[p].claim.phase = "finalizing" /\ Repeatable)
  /\ CommitOf(p, "finalize", [svc[p].claim EXCEPT !.phase = "finalizing"])
  /\ Await(p, "finalize")
  /\ UNCHANGED env

Finalizing(p) ==
  /\ Returned(p, "finalize")
  /\ Back(p, [svc[p] EXCEPT !.claim = call[p].want, !.at = IF svc[p].revoked THEN "ready" ELSE "sending"])
  /\ UNCHANGED <<Disk, claims, env, ghosts>>

\* the driver's finalization command
SendFinal(p) ==
  /\ live[p] /\ svc[p].at = "sending" /\ svc[p].op = "finalize"
  /\ svc' = [svc EXCEPT ![p].at = "ready", ![p].op = "none"]
  /\ wire' = IF conn = p /\ ~svc[p].revoked THEN Append(wire, [kind |-> "final"]) ELSE wire
  /\ UNCHANGED <<store, policy, conn, inbox, dev, ghosts>>

\* #verify(): the device's digest of the image is that of the source
Digest(s) == [i \in 1 .. Length |-> s]

Verify(p) ==
  /\ Usable(p) /\ svc[p].claim # None /\ inbox # None /\ inbox.kind = "digest"
  /\ inbox' = None /\ svc[p].claim.rev < MaxRevision
  /\ IF svc[p].claim.phase = "finalizing" /\ inbox.img = Digest(svc[p].src)
     THEN /\ CommitOf(p, "verify", [svc[p].claim EXCEPT !.phase = "verifying"])
          /\ Await(p, "verify")
     ELSE UNCHANGED <<store, svc, ghosts>>
  /\ UNCHANGED <<policy, conn, wire, dev>>

\* the store call in #verify() that follows its commit
Verifying(p) ==
  /\ Returned(p, "verify") /\ call[p].op = "commit"
  /\ IF svc[p].revoked
     THEN Back(p, [svc[p] EXCEPT !.at = "ready", !.claim = call[p].want]) /\ UNCHANGED claims
     ELSE /\ svc' = [svc EXCEPT ![p].claim = call[p].want]
          /\ call' = [call EXCEPT ![p] = [Idle EXCEPT !.op = "complete",
                        !.at = IF claims[p] THEN "file" ELSE "failed"]]
          /\ UNCHANGED claims
  /\ UNCHANGED <<Disk, env, ghosts>>

\* retire(): cleanup of an interrupted operation, on fresh device evidence
Retire(p) ==
  /\ Ready(p) /\ conn = p /\ svc[p].claim # None
  /\ inbox # None /\ inbox.gen = svc[p].claim.gen
  /\ inbox' = None
  /\ Complete(p) /\ Await(p, "retire")
  /\ UNCHANGED <<Disk, claims, policy, conn, wire, dev, ghosts>>

Completed(p) ==
  /\ Returned(p, "verify") \/ Returned(p, "retire")
  /\ call[p].op = "complete"
  /\ Back(p, [svc[p] EXCEPT !.at = "ready", !.claim = None, !.revoked = TRUE])
  /\ UNCHANGED <<Disk, claims, env, ghosts>>

\* a store call that fails: the driver sees the error, its claim is unchanged
CallFailed(p) ==
  /\ live[p] /\ svc[p].at = "waiting" /\ call[p].at = "failed"
  /\ Back(p, IF svc[p].op \in {"prepare", "release"} THEN NoService
             ELSE [svc[p] EXCEPT !.at = "ready"])
  /\ UNCHANGED <<Disk, claims, env, ghosts>>

\* release() at the end of the operation, after any pending store call
ReleaseService(p) ==
  /\ live[p] /\ svc[p].at \in {"ready", "refused"}
  /\ IF svc[p].claim = None
     THEN svc' = [svc EXCEPT ![p] = NoService] /\ UNCHANGED <<call, claims>>
     ELSE Release(p) /\ svc' = [svc EXCEPT ![p].at = "waiting", ![p].op = "release", ![p].claim = None]
  /\ UNCHANGED <<Disk, env, ghosts>>

Released(p) ==
  /\ Returned(p, "release")
  /\ Back(p, NoService)
  /\ UNCHANGED <<Disk, claims, env, ghosts>>

\* a cancel or a deadline revokes the operation at any of its awaits
Revoke(p) ==
  /\ live[p] /\ svc[p].at # "idle" /\ ~svc[p].revoked
  /\ svc' = [svc EXCEPT ![p].revoked = TRUE]
  /\ UNCHANGED <<store, env, ghosts>>

-----------------------------------------------------------------------------
(* The store's steps, and what the checkpoint's file then says.            *)
ServiceStore(p) ==
  /\ StoreStep(p)
  /\ closings' = IF file' # file /\ file' # None /\ file'.phase = "finalizing"
                 THEN closings + 1 ELSE closings
  /\ outcome' = IF file # None /\ file' = None
                THEN (IF svc[p].op = "verify" THEN "verified" ELSE "retired") ELSE outcome
  /\ UNCHANGED <<svc, env, attempts>>

\* bound: the last process lives
Crash(p) ==
  /\ \E q \in Procs \ {p} : live[q]
  /\ Die(p)
  /\ svc' = [svc EXCEPT ![p] = NoService]
  /\ UNCHANGED <<env, ghosts>>

-----------------------------------------------------------------------------
(* The connection and the device.                                          *)
Connect(p) ==
  /\ live[p] /\ svc[p] = NoService
  /\ conn # None => ~live[conn]
  /\ conn' = p /\ wire' = <<>> /\ inbox' = None
  /\ \E v \in {dev.com, dev.vol} :
       dev' = [dev EXCEPT !.vol = v, !.img = SubSeq(@, 1, v)]
  /\ UNCHANGED <<store, svc, policy, ghosts>>

\* the link breaks: what the device has not read is lost
Disconnect ==
  /\ conn # None /\ live[conn]
  /\ conn' = None /\ wire' = <<>> /\ inbox' = None
  /\ svc' = [svc EXCEPT ![conn].revoked = svc[conn].at # "idle"]
  /\ UNCHANGED <<store, policy, dev, ghosts>>

\* the device takes the next carrier when it continues what it has
DeviceReads ==
  /\ wire # <<>> /\ wire' = Tail(wire)
  /\ LET m == Head(wire)
     IN dev' = IF m.kind = "final" THEN [dev EXCEPT !.fin = IF dev.com = Length THEN @ + 1 ELSE @]
               ELSE IF m.lo <= dev.vol /\ m.hi > dev.vol
               THEN [dev EXCEPT !.vol = m.hi, !.img = @ \o [i \in 1 .. m.hi - dev.vol |-> m.src]]
               ELSE dev
  /\ UNCHANGED <<store, svc, policy, conn, inbox, ghosts>>

\* the device makes some of what it has durable and reports; the report is
\* read later, when the device may have moved on
DeviceReports ==
  /\ conn # None /\ inbox = None
  /\ \/ \E k \in dev.com .. dev.vol :
          /\ dev' = [dev EXCEPT !.com = k, !.reached = IF k > @ THEN k ELSE @]
          /\ inbox' = [kind |-> "report", gen |-> dev.gen, com |-> k, vol |-> dev.vol]
     \/ /\ dev.fin > 0
        /\ inbox' = [kind |-> "digest", gen |-> dev.gen, img |-> dev.img]
        /\ UNCHANGED dev
  /\ UNCHANGED <<store, svc, policy, conn, wire, ghosts>>

DeviceForgets ==
  /\ faults < MaxFaults /\ faults' = faults + 1
  /\ dev' = [dev EXCEPT !.gen = @ + 1, !.vol = 0, !.com = 0, !.img = <<>>]
  /\ UNCHANGED <<file, lock, temporary, claims, call, live, svc, policy, conn, wire, inbox, ghosts>>

-----------------------------------------------------------------------------
Service(p) ==
  \/ \E s \in Sources, r \in BOOLEAN : Prepare(p, s, r)
  \/ Prepared(p) \/ Open(p) \/ Opened(p)
  \/ Report(p) \/ Reported(p) \/ Admit(p) \/ Admitted(p) \/ Send(p)
  \/ Finalize(p) \/ Finalizing(p) \/ SendFinal(p) \/ Verify(p) \/ Verifying(p)
  \/ Retire(p) \/ Completed(p) \/ CallFailed(p)
  \/ ReleaseService(p) \/ Released(p) \/ Revoke(p)

Next ==
  \/ \E p \in Procs : Service(p) \/ ServiceStore(p) \/ Crash(p) \/ Connect(p)
  \/ Disconnect \/ DeviceReads \/ DeviceReports \/ DeviceForgets

Spec == Init /\ [][Next]_tvars

-----------------------------------------------------------------------------
(* The transfer implements its promise.                                    *)
Record ==
  IF file # None
  THEN [prefix |-> file.prefix, horizon |-> file.admitted,
        closing |-> file.phase \in {"finalizing", "verifying"}]
  ELSE IF outcome = "none"
  THEN [prefix |-> 0, horizon |-> 0, closing |-> FALSE]
  ELSE [prefix |-> 0, horizon |-> Length, closing |-> TRUE]

Contract == INSTANCE DurableTransfer WITH
  record <- Record,
  committed <- dev.reached,
  finals <- dev.fin

\* Through crashes, revoked operations, failed file-system calls, broken links
\* and delayed reports, the service does only what DurableTransfer promises.
ImplementsContract == Contract!Spec

\* What the checkpoint says is confirmed the device of that generation has
\* committed, and every byte of it came from the checkpoint's own source.
ConfirmedIsOnDevice ==
  file # None /\ file.gen = dev.gen =>
    /\ file.prefix <= dev.com
    /\ \A i \in 1 .. file.prefix : dev.img[i] = file.src

=============================================================================
