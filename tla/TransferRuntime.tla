--------------------------- MODULE TransferRuntime ---------------------------
(***************************************************************************)
(* The transfer library (transfer-runtime/src/transfer.ts and              *)
(* transfer-checkpoint.ts): the host-to-device executor with its window,   *)
(* its settlement and its cancellation, the executor that resumes a        *)
(* durable transfer from a checkpoint, and the device-to-host executor,    *)
(* over a device, a link that breaks, a source that changes while it is    *)
(* read, and a process that dies.                                          *)
(*                                                                         *)
(* run is the execution, run.at the await it is in.  A wait is bounded:    *)
(* it ends with an answer, with the caller's abort, or with its timeout,   *)
(* and what was asked of the device may still happen afterwards.           *)
(* Octets are known by their offset, their content by the version of the   *)
(* source they were read from.  Version 0 is the one the caller named.     *)
(***************************************************************************)
EXTENDS Integers, FiniteSets, Sequences

CONSTANTS Length,          \* octets of the effective range
          Chunk,           \* effectiveChunkBytes
          Window,          \* maximumInFlight
          MaxObservations, \* settlement.maximumObservations
          MaxResumes,      \* bound: executions after the first
          MaxFaults,       \* bound: device resets, power cuts, failed commits
          MaxChanges,      \* bound: changes of the source
          None

ASSUME RuntimeAssumption ==
  /\ {Length, Chunk, Window} \subseteq Nat \ {0}
  /\ {MaxObservations, MaxResumes, MaxFaults, MaxChanges} \subseteq Nat

\* where an execution may be: before its first chunk, in its loop, after it, or reading
ResumeStages == {"validate", "probe", "report", "recipe", "reconcile", "whole", "remaining"}
FirstStages == {"prepare", "preparing"}
LoopStages == {"admit", "reading", "admitting", "settle", "awaiting", "confirm"}
EndStages == {"after", "cancelling", "verifying", "finalizing", "complete", "completing", "verify", "remove"}
WriteStages == ResumeStages \cup FirstStages \cup {"hash", "prepared", "transferring"}
                 \cup LoopStages \cup EndStages
ReadStages == {"read", "read-settle", "write"}

\* what an execution knows, and what a checkpoint says; None is neither, nor a version
Ranges == {r \in [lo : 0 .. Length, hi : 0 .. Length] : r.lo < r.hi}
Runs == [at : WriteStages \cup ReadStages, resumed : BOOLEAN, whole : BOOLEAN, expect : Nat,
         reported : 0 .. Length, next : 0 .. Length, durable : 0 .. Length,
         fly : SUBSET Ranges, todo : SUBSET Ranges, cancelled : BOOLEAN, partial : BOOLEAN,
         mixed : BOOLEAN, destructive : BOOLEAN, observed : 0 .. MaxObservations]
Checkpoints == [phase : {"preparing", "prepared", "transferring", "verifying", "finalizing"},
                confirmed : SUBSET Ranges, gen : Nat]

ASSUME NoneAssumption == None \notin Nat /\ None \notin Runs /\ None \notin Checkpoints

VARIABLES decl,     \* the declaration: settlement kind, finalization policy, verification
          cp,       \* the checkpoint in the store, or None
          run,      \* the execution, or None
          outcome,  \* what the last execution answered
          aborted,  \* the caller's signal
          source,   \* the version the source has now
          link,     \* the connection, what was sent on it, what the device answered
          dev,      \* the device: its transfer generation, octets, durable prefix, finalization
          sink,     \* what a device-to-host execution wrote
          faults, resumes,
          cut       \* history: a finalization was started and not seen to finish

vars == <<decl, cp, run, outcome, aborted, source, link, dev, sink, faults, resumes, cut>>

Octets == 0 .. Length - 1
Span(r) == r.lo .. r.hi - 1
Extent(lo, hi) == [lo |-> lo, hi |-> hi]
Spans(R) == UNION {Span(r) : r \in R}

NewRun(at) ==
  [at |-> at, resumed |-> FALSE, whole |-> FALSE, expect |-> 0, reported |-> 0, next |-> 0,
   durable |-> 0, fly |-> {}, todo |-> {}, cancelled |-> FALSE, partial |-> FALSE,
   mixed |-> FALSE, destructive |-> FALSE, observed |-> 0]

Empty == [o \in Octets |-> None]

Connected == [usable |-> TRUE, wire |-> {}, reports |-> {}]

Init ==
  /\ decl \in [prefix : BOOLEAN, repeatable : BOOLEAN, verify : BOOLEAN]
  /\ cp = None /\ run = None /\ outcome = "none" /\ aborted = FALSE
  /\ source = 0 /\ link = Connected /\ sink = << >>
  /\ dev = [gen |-> 0, img |-> Empty, com |-> 0, fin |-> FALSE]
  /\ faults = 0 /\ resumes = 0 /\ cut = FALSE

At(s) == run # None /\ run.at = s

Goto(s) == run' = [run EXCEPT !.at = s] /\ UNCHANGED outcome

\* the end of an execution: its outcome, the claim released
End(o) == run' = None /\ outcome' = o

\* executeHostToDeviceTransferOutcome(): honest about what was started
Failed == End(IF run.destructive THEN "indeterminate" ELSE "before")

World == <<decl, source, resumes, sink>>

-----------------------------------------------------------------------------
(* The executor up to its first settlement.                                *)

\* the caller creates the checkpoint and executes
Start ==
  /\ outcome = "none" /\ run = None
  /\ run' = NewRun("hash")
  /\ cp' = [phase |-> "preparing", confirmed |-> {}, gen |-> dev.gen]
  /\ UNCHANGED <<World, outcome, aborted, link, dev, faults, cut>>

\* the source is hashed before any device work; only the first execution prepares
Prehash ==
  /\ At("hash")
  /\ IF source # run.expect THEN Failed ELSE Goto(IF run.resumed THEN "prepared" ELSE "prepare")
  /\ UNCHANGED <<World, cp, aborted, link, dev, faults, cut>>

Prepare ==
  /\ At("prepare")
  /\ IF aborted THEN Failed
     ELSE run' = [run EXCEPT !.at = "preparing", !.destructive = TRUE] /\ UNCHANGED outcome
  /\ UNCHANGED <<World, cp, aborted, link, dev, faults, cut>>

Erased == [dev EXCEPT !.img = Empty, !.com = 0]

Prepared ==
  /\ At("preparing")
  /\ \/ link.usable /\ Goto("prepared") /\ dev' = Erased
     \/ Failed /\ dev' \in {dev, Erased}
  /\ UNCHANGED <<World, cp, aborted, link, faults, cut>>

\* checkpoint.phase(): the phase is durable before the work it names
AfterPhase(p) ==
  CASE p = "prepared"     -> "transferring"
    [] p = "transferring" -> "admit"
    [] p = "verifying"    -> IF run.whole THEN "verify" ELSE "finalizing"
    [] p = "finalizing"   -> "complete"

CommitPhase ==
  /\ run # None /\ run.at \in {"prepared", "transferring", "verifying", "finalizing"}
  /\ \/ /\ cp' = [cp EXCEPT !.phase = run.at]
        /\ Goto(AfterPhase(run.at)) /\ UNCHANGED faults
     \/ /\ faults < MaxFaults /\ faults' = faults + 1
        /\ Failed /\ UNCHANGED cp
  /\ UNCHANGED <<World, aborted, link, dev, cut>>

\* mutant of WhenNoneAdmitted: the loop is left with ranges in flight
AfterAnySettlement(fly) == "after"

\* admitAvailable(): the next chunk while the window has room
WhenNoneAdmitted(fly) == IF fly = {} THEN "after" ELSE "settle"

Admit ==
  /\ At("admit")
  /\ LET more == Cardinality(run.fly) < Window /\ run.next < Length
     IN run' = [run EXCEPT !.cancelled = @ \/ (more /\ aborted),
                           !.at = IF more /\ ~aborted THEN "reading" ELSE WhenNoneAdmitted(run.fly)]
  /\ UNCHANGED <<World, cp, outcome, aborted, link, dev, faults, cut>>

NextChunk == Extent(run.next, IF run.next + Chunk < Length THEN run.next + Chunk ELSE Length)

\* the chunk was read; admitPending() hands it to the adapter unless aborted meanwhile
AdmitRead ==
  /\ At("reading")
  /\ LET read == [run EXCEPT !.fly = @ \cup {NextChunk}, !.mixed = @ \/ source # run.expect]
     IN IF aborted
        THEN /\ run' = [read EXCEPT !.at = "settle", !.cancelled = TRUE, !.next = NextChunk.hi]
             /\ UNCHANGED link
        ELSE /\ run' = [read EXCEPT !.at = "admitting", !.destructive = TRUE]
             /\ link' = IF link.usable
                        THEN [link EXCEPT !.wire = @ \cup {[range |-> NextChunk, v |-> source]}]
                        ELSE link
  /\ UNCHANGED <<World, cp, outcome, aborted, dev, faults, cut>>

Admitted ==
  /\ At("admitting")
  /\ LET sent == [run EXCEPT !.next = NextChunk.hi]
     IN \/ link.usable /\ run' = [sent EXCEPT !.at = "admit"] /\ UNCHANGED outcome
        \/ aborted /\ run' = [sent EXCEPT !.at = "settle", !.cancelled = TRUE] /\ UNCHANGED outcome
        \/ ~aborted /\ Failed
  /\ UNCHANGED <<World, cp, aborted, link, dev, faults, cut>>

-----------------------------------------------------------------------------
(* Settlement.                                                             *)

\* mutant of Settle: observations are not counted
SettleUncounted ==
  /\ At("settle")
  /\ run' = [run EXCEPT !.at = "awaiting"]
  /\ UNCHANGED <<World, cp, outcome, aborted, link, dev, faults, cut>>

Settle ==
  /\ At("settle")
  /\ IF run.observed = MaxObservations THEN Failed
     ELSE run' = [run EXCEPT !.at = "awaiting", !.observed = @ + 1] /\ UNCHANGED outcome
  /\ UNCHANGED <<World, cp, aborted, link, dev, faults, cut>>

\* mutant of SettleRanges: a range that may be partial is confirmed like the others
SettlePartial ==
  /\ At("awaiting") /\ ~decl.prefix /\ link.usable
  /\ \E S \in SUBSET link.reports \ {{}} :
       /\ run' = [run EXCEPT !.at = "confirm", !.fly = @ \ {s.range : s \in S}, !.todo = {s.range : s \in S},
                             !.partial = @ \/ \E s \in S : ~s.whole]
       /\ link' = [link EXCEPT !.reports = @ \ S]
  /\ UNCHANGED <<World, cp, outcome, aborted, dev, faults, cut>>

\* each settled range is confirmed, or may be partial and is not
SettleRanges ==
  /\ At("awaiting") /\ ~decl.prefix /\ link.usable
  /\ \E S \in SUBSET link.reports \ {{}} :
       LET whole == {s \in S : s.whole}
       IN /\ run' = [run EXCEPT !.at = "confirm", !.fly = @ \ {s.range : s \in S},
                                !.todo = {s.range : s \in whole}, !.partial = @ \/ whole # S]
          /\ link' = [link EXCEPT !.reports = @ \ S]
  /\ UNCHANGED <<World, cp, outcome, aborted, dev, faults, cut>>

\* a cumulative report is mapped through the admitted ranges, lowest first
SettlePrefix ==
  /\ At("awaiting") /\ decl.prefix /\ link.usable
  /\ \E p \in 0 .. dev.com :
       IF p < run.durable \/ p > run.next
       THEN Failed
       ELSE /\ run' = [run EXCEPT !.at = "confirm", !.durable = p, !.fly = {f \in @ : f.hi > p},
                                  !.todo = IF p > run.durable THEN {Extent(run.durable, p)} ELSE {}]
            /\ UNCHANGED outcome
  /\ UNCHANGED <<World, cp, aborted, link, dev, faults, cut>>

\* the wait ends without an observation: abort, timeout, or a broken link
SettleFails ==
  /\ At("awaiting")
  /\ IF run.cancelled \/ aborted THEN End("failed-mid-write")
     ELSE \E o \in {"indeterminate", "resume-required"} : (o = "resume-required" => decl.prefix) /\ End(o)
  /\ UNCHANGED <<World, cp, aborted, link, dev, faults, cut>>

\* checkpoint.confirmed(): a checkpoint's ranges are disjoint, or it is invalid
Accepts(r) == \A c \in cp.confirmed : Span(r) \cap Span(c) = {}

Confirm ==
  /\ At("confirm") /\ run.todo # {}
  /\ \E r \in run.todo :
       \/ /\ Accepts(r)
          /\ cp' = [cp EXCEPT !.confirmed = @ \cup {r}]
          /\ run' = [run EXCEPT !.todo = @ \ {r}]
          /\ UNCHANGED <<outcome, faults>>
       \/ ~Accepts(r) /\ Failed /\ UNCHANGED <<cp, faults>>
       \/ faults < MaxFaults /\ faults' = faults + 1 /\ Failed /\ UNCHANGED cp
  /\ UNCHANGED <<World, aborted, link, dev, cut>>

Observed ==
  /\ At("confirm") /\ run.todo = {}
  /\ LET stop == run.cancelled \/ aborted
     IN run' = [run EXCEPT !.cancelled = stop, !.at = IF stop THEN WhenNoneAdmitted(run.fly) ELSE "admit"]
  /\ UNCHANGED <<World, cp, outcome, aborted, link, dev, faults, cut>>

-----------------------------------------------------------------------------
(* After the last settlement.                                              *)

After ==
  /\ At("after")
  /\ IF run.cancelled
     THEN IF run.partial THEN End("failed-mid-write")
          ELSE IF ~link.usable THEN Failed ELSE Goto("cancelling")
     ELSE IF run.partial \/ run.mixed THEN Failed ELSE Goto("verifying")
  /\ UNCHANGED <<World, cp, aborted, link, dev, faults, cut>>

Dropped == [Erased EXCEPT !.gen = @ + 1]

\* the device's own cancellation; the first execution's caller retires the checkpoint
Cancelling ==
  /\ At("cancelling")
  /\ \/ link.usable /\ End("cancelled") /\ cp' = (IF run.resumed THEN cp ELSE None) /\ dev' = Dropped
     \/ Failed /\ UNCHANGED cp /\ dev' \in {dev, Dropped}
  /\ UNCHANGED <<World, aborted, link, faults, cut>>

\* the completion recipe: the finalizer.  bounded() refuses an aborted caller first;
\* checkpointBounded() starts the action and then refuses
Complete ==
  /\ At("complete")
  /\ IF aborted /\ ~run.resumed THEN Failed
     ELSE run' = [run EXCEPT !.at = "completing", !.destructive = TRUE] /\ UNCHANGED outcome
  /\ UNCHANGED <<World, cp, aborted, link, dev, faults, cut>>

Finalized == [dev EXCEPT !.fin = TRUE]

Completed ==
  /\ At("completing")
  /\ \/ /\ link.usable /\ dev' = Finalized
        /\ Goto(IF run.whole THEN "verifying" ELSE "verify")
        /\ UNCHANGED cut
     \/ Failed /\ cut' = TRUE /\ dev' \in {dev, Finalized}
  /\ UNCHANGED <<World, cp, aborted, link, faults>>

\* completeVerification() compares with what was admitted, completeResumeVerification()
\* with the source as it reads now
Verified ==
  LET computed == IF run.resumed THEN source ELSE run.expect
  IN decl.verify => \A o \in Octets : dev.img[o] = computed

\* Only a first execution that has a digest to ask for looks at its caller's signal: bounded()
\* refuses an aborted one, while the digest that checkpointBounded() races is there already.
Refused == aborted /\ decl.verify /\ ~run.resumed

Verify ==
  /\ At("verify")
  /\ IF Refused \/ ~Verified THEN Failed ELSE Goto("remove")
  /\ UNCHANGED <<World, cp, aborted, link, dev, faults, cut>>

\* store.complete()
RemoveCheckpoint ==
  /\ At("remove")
  /\ \/ cp' = None /\ End(IF run.resumed THEN "resumed-completed" ELSE "completed") /\ UNCHANGED faults
     \/ faults < MaxFaults /\ faults' = faults + 1 /\ Failed /\ UNCHANGED cp
  /\ UNCHANGED <<World, aborted, link, dev, cut>>

-----------------------------------------------------------------------------
(* Resume: validation, the device's own account of its progress, and the   *)
(* remaining range through the executor above.                             *)

\* confirmedTargetOffset(): the contiguous confirmed prefix
ConfirmedOffset ==
  CHOOSE p \in 0 .. Length : 0 .. p - 1 \subseteq Spans(cp.confirmed) /\ p \notin Spans(cp.confirmed)

\* the caller claims the checkpoint on a replacement connection
StartResume ==
  /\ run = None /\ cp # None /\ outcome # "none" /\ resumes < MaxResumes
  /\ resumes' = resumes + 1
  /\ run' = [NewRun("validate") EXCEPT !.resumed = TRUE]
  /\ link' = Connected /\ aborted' = FALSE
  /\ UNCHANGED <<decl, source, sink, cp, outcome, dev, faults, cut>>

\* mutant of MayResume: an interrupted finalization is taken for any other phase
MayResumeFinalizing ==
  /\ cp.phase # "preparing"
  /\ source = 0
  /\ decl.prefix \/ cp.gen = dev.gen

\* validateTransferResumeAtStage()
MayResume ==
  /\ cp.phase # "preparing"
  /\ cp.phase = "finalizing" => decl.repeatable
  /\ source = 0
  /\ decl.prefix \/ cp.gen = dev.gen

ValidateResume ==
  /\ At("validate")
  /\ IF MayResume THEN Goto("probe") ELSE End("refused")
  /\ UNCHANGED <<World, cp, aborted, link, dev, faults, cut>>

\* nothing volatile, nothing buffered out of order
Quiet == {o \in Octets : dev.img[o] # None} \subseteq 0 .. dev.com - 1

Plausible(p) == ConfirmedOffset <= p /\ p <= Length

\* a declaration with a volatile window probes for quiescence, and waits for it
Probe ==
  /\ At("probe")
  /\ \/ /\ link.usable
        /\ IF ~decl.prefix
           THEN IF Plausible(dev.com)
                THEN run' = [run EXCEPT !.at = "reconcile", !.reported = dev.com] /\ UNCHANGED outcome
                ELSE End("refused")
           ELSE IF cp.gen # dev.gen THEN End("refused")
                ELSE IF ~Quiet THEN Goto("report")
                ELSE IF Plausible(dev.com)
                     THEN run' = [run EXCEPT !.at = "recipe", !.reported = dev.com] /\ UNCHANGED outcome
                     ELSE End("refused")
     \/ End("refused")
  /\ UNCHANGED <<World, cp, aborted, link, dev, faults, cut>>

QuietReport ==
  /\ At("report")
  /\ \/ /\ link.usable /\ Quiet
        /\ IF cp.gen = dev.gen /\ Plausible(dev.com)
           THEN run' = [run EXCEPT !.at = "recipe", !.reported = dev.com] /\ UNCHANGED outcome
           ELSE End("refused")
     \/ End("refused")
  /\ UNCHANGED <<World, cp, aborted, link, dev, faults, cut>>

\* the resume recipe, and the generation it reports
ResumeRecipe ==
  /\ At("recipe")
  /\ \/ link.usable /\ (IF cp.gen = dev.gen THEN Goto("reconcile") ELSE End("refused"))
     \/ End("refused")
  /\ UNCHANGED <<World, cp, aborted, link, dev, faults, cut>>

\* reconcileConfirmedPrefix(): adjacent and overlapping ranges become one
Merged(S) ==
  {r \in [lo : 0 .. Length, hi : 0 .. Length] :
     r.lo < r.hi /\ Span(r) \subseteq S /\ r.lo - 1 \notin S /\ r.hi \notin S}

AfterReconcile == Goto(IF run.reported = Length THEN "whole" ELSE "remaining")

Reconcile ==
  /\ At("reconcile")
  /\ IF run.reported <= ConfirmedOffset THEN AfterReconcile /\ UNCHANGED <<cp, faults>>
     ELSE \/ /\ cp' = [cp EXCEPT !.confirmed = Merged(Spans(@) \cup 0 .. run.reported - 1)]
             /\ AfterReconcile /\ UNCHANGED faults
          \/ /\ faults < MaxFaults /\ faults' = faults + 1
             /\ End("refused") /\ UNCHANGED cp
  /\ UNCHANGED <<World, aborted, link, dev, cut>>

\* the device has everything: only the finalizer and the verification are left
ResumeWhole ==
  /\ At("whole")
  /\ run' = [run EXCEPT !.at = "finalizing", !.whole = TRUE, !.destructive = TRUE]
  /\ UNCHANGED <<World, cp, outcome, aborted, link, dev, faults, cut>>

\* the suffix is a transfer of its own, its digest taken from the source as it is now
ResumeRemaining ==
  /\ At("remaining")
  /\ run' = [run EXCEPT !.at = "hash", !.expect = source, !.next = run.reported, !.durable = run.reported]
  /\ UNCHANGED <<World, cp, outcome, aborted, link, dev, faults, cut>>

-----------------------------------------------------------------------------
(* executeDeviceToHostTransfer(): requests in a window, writes in order.   *)
(* fly holds the admitted ranges, todo the settled ones not yet written.   *)

StartRead ==
  /\ outcome = "none" /\ run = None /\ ~decl.prefix
  /\ run' = NewRun("read")
  /\ UNCHANGED <<World, cp, outcome, aborted, link, dev, faults, cut>>

ReadAdmit ==
  /\ At("read")
  /\ IF Cardinality(run.fly) < Window /\ run.next < Length
     THEN /\ \/ /\ link.usable /\ ~aborted
                /\ run' = [run EXCEPT !.fly = @ \cup {NextChunk}, !.next = NextChunk.hi]
                /\ link' = [link EXCEPT !.wire = @ \cup {[range |-> NextChunk, v |-> None]}]
                /\ UNCHANGED outcome
             \/ End("read-failed") /\ UNCHANGED link
     ELSE Goto("write") /\ UNCHANGED link
  /\ UNCHANGED <<World, cp, aborted, dev, faults, cut>>

\* bound as in the write direction: the abort and the timeout end the wait
ReadSettle ==
  /\ At("read-settle")
  /\ \/ /\ ~aborted /\ link.usable /\ run.observed < MaxObservations
        /\ \E S \in SUBSET link.reports \ {{}} :
             /\ run' = [run EXCEPT !.at = "read", !.fly = @ \ {s.range : s \in S},
                                   !.todo = @ \cup {s.range : s \in S}, !.observed = @ + 1]
             /\ link' = [link EXCEPT !.reports = @ \ S]
        /\ UNCHANGED outcome
     \/ End("read-failed") /\ UNCHANGED link
  /\ UNCHANGED <<World, cp, aborted, dev, faults, cut>>

\* mutant of NextWrites: settled ranges are written as they come
AnyWrite == run.todo

NextWrites == {r \in run.todo : r.lo = run.durable}

\* the ordered sink work after the window was refilled
ReadWrite ==
  /\ At("write")
  /\ IF NextWrites # {}
     THEN \E r \in NextWrites :
            /\ sink' = Append(sink, r)
            /\ run' = [run EXCEPT !.todo = @ \ {r}, !.durable = r.hi] /\ UNCHANGED outcome
     ELSE /\ IF run.fly # {} THEN Goto("read-settle")
             ELSE IF run.todo # {} \/ run.durable # Length \/ aborted THEN End("read-failed")
             ELSE End("read-completed") \/ End("read-failed")
          /\ UNCHANGED sink
  /\ UNCHANGED <<decl, source, resumes, cp, aborted, link, dev, faults, cut>>

-----------------------------------------------------------------------------
(* The caller, the source, the device, the link and the process.           *)

Abort ==
  /\ run # None /\ ~aborted /\ aborted' = TRUE
  /\ UNCHANGED <<World, cp, run, outcome, link, dev, faults, cut>>

SourceChanges ==
  /\ source < MaxChanges /\ run # None /\ source' = source + 1
  /\ UNCHANGED <<decl, resumes, sink, cp, run, outcome, aborted, link, dev, faults, cut>>

Landed(w, hi) == [o \in Octets |-> IF o \in Span(w.range) /\ o < hi THEN w.v ELSE dev.img[o]]

Contiguous(img) ==
  CHOOSE p \in 0 .. Length : (\A o \in 0 .. p - 1 : img[o] # None) /\ (p < Length => img[p] = None)

\* a write lands, in any order; without a volatile window it is durable and answered for
DeviceTakes ==
  \E w \in link.wire :
    /\ w.v # None /\ ~dev.fin
    /\ \E hi \in w.range.lo .. w.range.hi :
         /\ hi < w.range.hi => ~decl.prefix
         /\ LET img == Landed(w, hi)
            IN dev' = [dev EXCEPT !.img = img, !.com = IF decl.prefix THEN @ ELSE Contiguous(img)]
         /\ link' = [link EXCEPT !.wire = @ \ {w},
                       !.reports = IF decl.prefix THEN @
                                   ELSE @ \cup {[range |-> w.range, whole |-> hi = w.range.hi]}]
    /\ UNCHANGED <<World, cp, run, outcome, aborted, faults, cut>>

DeviceAnswersRead ==
  \E w \in link.wire :
    /\ w.v = None
    /\ link' = [link EXCEPT !.wire = @ \ {w}, !.reports = @ \cup {[range |-> w.range, whole |-> TRUE]}]
    /\ UNCHANGED <<World, cp, run, outcome, aborted, dev, faults, cut>>

\* octets of the contiguous prefix become durable
DeviceCommits ==
  /\ decl.prefix /\ dev.com < Contiguous(dev.img)
  /\ dev' = [dev EXCEPT !.com = @ + 1]
  /\ UNCHANGED <<World, cp, run, outcome, aborted, link, faults, cut>>

Broken == [usable |-> FALSE, wire |-> {}, reports |-> {}]

\* power is cut: what was not durable is lost; or the device forgets the transfer
DeviceResets ==
  /\ faults < MaxFaults /\ faults' = faults + 1 /\ ~dev.fin
  /\ link' = Broken
  /\ dev' \in {Dropped, [dev EXCEPT !.img = [o \in Octets |-> IF decl.prefix /\ o >= dev.com THEN None ELSE @[o]]]}
  /\ UNCHANGED <<World, cp, run, outcome, aborted, cut>>

LinkBreaks ==
  /\ run # None /\ link.usable
  /\ link' = [link EXCEPT !.usable = FALSE]
  /\ UNCHANGED <<World, cp, run, outcome, aborted, dev, faults, cut>>

\* the claim of a dead process is recovered by the next one
Crash ==
  /\ run # None /\ faults < MaxFaults /\ faults' = faults + 1
  /\ End("crashed")
  /\ IF At("completing") THEN cut' = TRUE /\ dev' \in {dev, Finalized} ELSE UNCHANGED <<cut, dev>>
  /\ UNCHANGED <<World, cp, aborted, link>>

Execution ==
  \/ Prehash \/ Prepare \/ Prepared \/ CommitPhase
  \/ Admit \/ AdmitRead \/ Admitted
  \/ Settle \/ SettleRanges \/ SettlePrefix \/ SettleFails \/ Confirm \/ Observed
  \/ After \/ Cancelling \/ Complete \/ Completed \/ Verify \/ RemoveCheckpoint
  \/ ValidateResume \/ Probe \/ QuietReport \/ ResumeRecipe \/ Reconcile
  \/ ResumeWhole \/ ResumeRemaining
  \/ ReadAdmit \/ ReadSettle \/ ReadWrite

Caller == Start \/ StartResume \/ StartRead \/ Abort

Environment ==
  \/ SourceChanges \/ DeviceTakes \/ DeviceAnswersRead \/ DeviceCommits \/ DeviceResets
  \/ LinkBreaks \/ Crash

Next == Execution \/ Caller \/ Environment

Spec == Init /\ [][Next]_vars

-----------------------------------------------------------------------------
(* Properties.                                                             *)

Durable(d) == {o \in Octets : d.img[o] # None /\ (decl.prefix => o < d.com)}

\* What an execution answers is true of the device.  "completed": every octet is durable and
\* they are of one source, the one the caller named when it was a first execution (a resumed
\* one promises so much only with a verification); "before": a first execution that failed
\* before destructive work left the device alone; "cancelled": nothing is under way any more.
OutcomeHonest ==
  [][outcome' # outcome =>
       /\ outcome' = "completed" => \A o \in Octets : o \in Durable(dev) /\ dev.img[o] = 0
       /\ outcome' = "resumed-completed" =>
            /\ Durable(dev) = Octets
            /\ decl.verify => \A o, p \in Octets : dev.img[o] = dev.img[p]
       /\ outcome' = "before" /\ ~run.resumed => dev.img = Empty /\ link.wire = {} /\ ~dev.fin
       /\ outcome' = "cancelled" => {w \in link.wire : w.range \in run.fly} = {} /\ run.fly = {}]_vars

\* What the checkpoint says is confirmed is durable on the device it was confirmed by:
\* a reset, a power cut, a crash between the device's answer and the commit, or a resume
\* from the device's own report, never make it promise octets that are not there.
CheckpointTruthful ==
  cp # None /\ cp.gen = dev.gen => Spans(cp.confirmed) \subseteq Durable(dev)

\* A finalizer that is not repeatable and was not seen to finish is never started again.
FinalizedOnce == cut /\ ~decl.repeatable => ~At("complete") /\ ~At("completing")

\* The sink of a device-to-host execution is written in order, each octet once, whatever the
\* order the device answers in, and completely when the execution says so.
SinkExact ==
  /\ \A i \in 1 .. Len(sink) : sink[i].lo = (IF i = 1 THEN 0 ELSE sink[i - 1].hi)
  /\ outcome = "read-completed" => sink # << >> /\ sink[Len(sink)].hi = Length

\* A bound on the steps an execution still takes: one part for the observations left, one for
\* the chunks and confirmations of the current round, one for the stages outside the loop.
Round == 4 * Length + 5

Stage ==
  [validate |-> 12, probe |-> 11, report |-> 10, recipe |-> 9, reconcile |-> 8, whole |-> 7, remaining |-> 7,
   hash |-> 6, prepare |-> 5, preparing |-> 4, prepared |-> 3, transferring |-> 2,
   after |-> 10, cancelling |-> 9, finalizing |-> 7, complete |-> 6, completing |-> 5, verify |-> 3, remove |-> 2]

InLoop(r) == r.at \in {"admit", "reading", "admitting", "settle", "awaiting", "confirm", "read", "write", "read-settle"}

WithinRound(r) ==
  LET unread == Length - r.next
  IN CASE r.at = "awaiting"  -> Round - 1
       [] r.at = "confirm"   -> 3 * unread + 3 + Cardinality(r.todo)
       [] r.at = "admit"     -> 3 * unread + 2
       [] r.at = "reading"   -> 3 * unread + 1
       [] r.at = "admitting" -> 3 * unread
       [] r.at = "read"      -> unread + Length + 3
       [] r.at = "write"     -> Cardinality(r.todo) + 2
       [] OTHER              -> 1

Before(r) == r.at \in {"validate", "probe", "report", "recipe", "reconcile", "whole", "remaining",
                      "hash", "prepare", "preparing", "prepared", "transferring"}

Rank(r) ==
  IF r = None THEN 0
  ELSE IF InLoop(r) THEN 12 + (MaxObservations - r.observed) * Round + WithinRound(r)
  ELSE IF Before(r) THEN 12 + (MaxObservations + 1) * Round + Stage[r.at]
  ELSE IF r.at = "verifying" THEN (IF r.whole THEN 4 ELSE 8)
  ELSE Stage[r.at]

\* Every execution ends: whatever the device answers, in whatever pieces, and whatever fails,
\* each step of an execution leaves fewer to come, and each wait among them has a timer.
EveryStepCounts == [][run # None /\ run' # run => Rank(run') < Rank(run)]_vars
=============================================================================
