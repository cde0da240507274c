----------------------- MODULE TransferRuntimeProofs -----------------------
(***************************************************************************)
(* Proofs about the transfer library.                                      *)
(*                                                                         *)
(* The inductive invariant says what the checkpoint says of the device     *)
(* (CheckpointInv), what each stage of an execution says of the execution  *)
(* (ShapeOf) and what it relies on of the device (HeldOf), what a report   *)
(* on a usable link says (LinkInv), when a finalization may still run      *)
(* (FinalInv), where the sink ends (SinkInv), and that ranges are chunks   *)
(* (CountInv).  HeldOf is conditioned on the link or on the generation:    *)
(* a device may lose octets at any moment, but never while the link stays  *)
(* usable and the generation stays its own.                                *)
(*                                                                         *)
(* The lemmas Goes, GoesCommitted, GoesLinked, ReadsOn and Ends are the    *)
(* frames of an execution's steps, Gains and Loses those of the device's;  *)
(* there is one lemma per action, ...Keeps.  The action properties follow: *)
(* what an execution answers, and that each of its steps lowers Rank, the  *)
(* lemmas ...Fewer.                                                        *)
(***************************************************************************)
EXTENDS TransferRuntime, FiniteSetTheorems, FunctionTheorems, SequenceTheorems, WellFoundedInduction, TLAPS

\* A set of naturals that is not empty has a least member.
LEMMA Least ==
  ASSUME NEW T \in SUBSET Nat, T # {}
  PROVE  \E x \in T : \A y \in T : x <= y
<1>1. IsWellFoundedOn(OpToRel(<, Nat), Nat)
  BY NatLessThanWellFounded
<1>2. PICK x \in T : \A y \in T : ~ (<<y, x>> \in OpToRel(<, Nat))
  BY <1>1, WFMin
<1>3. \A y \in T : ~ (y < x)
  <2>1. TAKE y \in T
  <2>2. <<y, x>> \in Nat \X Nat
    OBVIOUS
  <2>3. ~ (<<y, x>> \in OpToRel(<, Nat))
    BY <1>2
  <2>. QED BY <2>2, <2>3 DEF OpToRel
<1>. QED BY <1>3

\* Contiguous() is the length of the image's prefix without a gap.
LEMMA ContiguousIs ==
  ASSUME NEW img \in [Octets -> Nat \cup {None}]
  PROVE  /\ Contiguous(img) \in 0 .. Length
         /\ \A o \in 0 .. Contiguous(img) - 1 : img[o] # None
         /\ Contiguous(img) < Length => img[Contiguous(img)] = None
<1>. DEFINE T == {p \in 0 .. Length : p < Length => img[p] = None}
<1>1. Length \in Nat /\ Length > 0
  BY RuntimeAssumption
<1>2. T \in SUBSET Nat /\ T # {}
  BY <1>1
<1>3. PICK p \in T : \A q \in T : p <= q
  BY <1>2, Least
<1>4. p \in 0 .. Length /\ (\A o \in 0 .. p - 1 : img[o] # None) /\ (p < Length => img[p] = None)
  BY <1>1, <1>3
<1>. QED BY <1>4 DEF Contiguous

-----------------------------------------------------------------------------
\* What an execution may have answered.
Outcomes == {"none", "indeterminate", "before", "failed-mid-write", "resume-required", "cancelled",
             "completed", "resumed-completed", "refused", "read-failed", "read-completed", "crashed"}

\* What a declaration, a link and what is on it, and a device may be.
Declarations == [prefix : BOOLEAN, repeatable : BOOLEAN, verify : BOOLEAN]
Carriers == [range : Ranges, v : Nat \cup {None}]
Reports == [range : Ranges, whole : BOOLEAN]
Links == [usable : BOOLEAN, wire : SUBSET Carriers, reports : SUBSET Reports]
Devices == [gen : Nat, img : [Octets -> Nat \cup {None}], com : 0 .. Length, fin : BOOLEAN]

\* The type invariant.
RuntimeTypeOK ==
  /\ decl \in Declarations
  /\ cp \in Checkpoints \cup {None} /\ run \in Runs \cup {None}
  /\ outcome \in Outcomes /\ aborted \in BOOLEAN /\ source \in Nat
  /\ link \in Links /\ dev \in Devices
  /\ sink \in Seq(Ranges) /\ faults \in Nat /\ resumes \in Nat /\ cut \in BOOLEAN

\* d has octet o durably.
Has(d, o) == d.img[o] # None /\ (decl.prefix => o < d.com)
\* d has every octet durably.
HasAll(d) == \A o \in Octets : Has(d, o)

\* A device, and a link, no execution has touched.
Untouched == dev.img = Empty /\ link.wire = {} /\ link.reports = {} /\ ~dev.fin

\* A first execution that has prepared nothing yet.
Fresh(r) == ~r.resumed /\ r.at \in {"hash", "prepare", "preparing"}

\* An execution of the host-to-device executors, and of the device-to-host one.
Writing == run # None /\ run.at \in WriteStages
Reading == run # None /\ run.at \in ReadStages

\* What the device calls durable is there.
DeviceInv == \A o \in 0 .. dev.com - 1 : dev.img[o] # None

\* Before the first execution nothing happened.
IdleInv == outcome = "none" /\ run = None => Untouched /\ cp = None /\ sink = << >>

\* The checkpoint's generation is no later than the device's; while it is the device's, what
\* is confirmed is there.
CheckpointInv ==
  /\ cp # None => cp.gen <= dev.gen
  /\ cp # None /\ cp.gen = dev.gen => \A r \in cp.confirmed : \A o \in Span(r) : Has(dev, o)
  /\ Writing => cp # None

\* A range as NextChunk cuts it: it is told by where it begins.
Chunked(r) == r.hi = IF r.lo + Chunk < Length THEN r.lo + Chunk ELSE Length

\* What the place of execution r says of it.
ShapeOf(r) ==
  /\ Fresh(r) => cp.confirmed = {} /\ r.next = 0 /\ Untouched
  /\ r.at \in FirstStages => ~r.resumed
  /\ r.at \in ResumeStages => r.resumed /\ r.next = 0 /\ r.fly = {}
  /\ ~r.resumed => r.expect = 0 /\ ~r.whole
  /\ ~r.resumed /\ ~r.destructive => r.at \in {"hash", "prepare"}
  /\ r.at \in {"reading", "admitting"} => r.next < Length
  /\ r.at = "admitting" => \E f \in r.fly : f.lo = r.next /\ Chunked(f)
  /\ r.at \in {"after", "cancelling"} => r.fly = {}
  /\ r.at = "after" /\ ~r.cancelled => r.next = Length
  /\ r.at = "whole" => r.reported = Length
  /\ r.whole => r.at \in {"finalizing", "complete", "completing", "verifying", "verify", "remove"}
  /\ r.at \in {"verifying", "finalizing", "complete", "completing", "verify", "remove"} /\ ~r.resumed
       => ~r.mixed

\* What a report says is on the device, while the link it came over is usable.
LinkInv ==
  Writing =>
    /\ \A w \in link.wire : w.v # None
    /\ link.usable => \A s \in link.reports : s.whole => \A o \in Span(s.range) : dev.img[o] # None

\* What execution r knows, or will rely on, of the device.
HeldOf(r) ==
  /\ r.at = "confirm" /\ cp.gen = dev.gen => \A t \in r.todo : \A o \in Span(t) : Has(dev, o)
  /\ r.at \in {"recipe", "reconcile", "whole", "remaining"} /\ (link.usable \/ cp.gen = dev.gen)
       => r.reported <= dev.com
  /\ link.usable /\ ~r.partial =>
       \A o \in 0 .. r.next - 1 : Has(dev, o) \/ \E f \in r.fly : o \in Span(f)
  /\ r.at \in {"verifying", "finalizing", "complete", "completing"} /\ link.usable => HasAll(dev)
  /\ r.at \in {"verify", "remove"} \/ (r.at = "verifying" /\ r.whole) => dev.fin /\ HasAll(dev)
  /\ ~r.resumed /\ ~r.mixed =>
       (\A w \in link.wire : w.v = 0) /\ \A o \in Octets : dev.img[o] \in {None, 0}
  /\ r.at = "remove" /\ decl.verify => \A o, p \in Octets : dev.img[o] = dev.img[p]

\* An execution that writes has the shape of its stage, and what it relies on holds.
RunInv == Writing => ShapeOf(run) /\ HeldOf(run)

\* When a finalization may still run.
FinalInv ==
  /\ Writing /\ run.at \in {"complete", "completing"} => cp.phase = "finalizing"
  /\ cut => outcome # "none"
  /\ cut /\ ~decl.repeatable => /\ cp # None => cp.phase = "finalizing"
                                /\ run # None => run.at = "validate"

\* Where the sink ends.
SinkEnd == IF sink = << >> THEN 0 ELSE sink[Len(sink)].hi

\* The sink is in order, and the reading execution knows where it ends.
SinkInv ==
  /\ SinkExact
  /\ Reading => outcome = "none" /\ run.durable = SinkEnd /\ ~decl.prefix

\* The ranges in flight and settled are chunks; a cumulative report settles one at a time.
ChunksOf(r) ==
  /\ \A f \in r.fly : Chunked(f)
  /\ IF decl.prefix THEN \E t : r.todo \subseteq {t} ELSE \A t \in r.todo : Chunked(t)

\* Whatever is on the link, in flight or settled is a chunk: there are no more than octets.
CountInv ==
  /\ \A w \in link.wire : Chunked(w.range)
  /\ \A s \in link.reports : Chunked(s.range)
  /\ run # None => ChunksOf(run)

\* The inductive invariant.
Inv == /\ RuntimeTypeOK /\ DeviceInv /\ IdleInv /\ CheckpointInv /\ LinkInv /\ RunInv
       /\ FinalInv /\ SinkInv /\ CountInv

-----------------------------------------------------------------------------
\* The assumption on the constants, for the arithmetic below.
LEMMA Sizes == Length \in Nat /\ Length > 0 /\ Chunk \in Nat /\ Chunk > 0 /\ Window \in Nat /\ Window > 0
               /\ MaxObservations \in Nat /\ MaxFaults \in Nat
BY RuntimeAssumption

\* An execution that writes goes on, and nothing but itself is changed.
LEMMA Goes ==
  ASSUME Inv, Writing, decl' = decl, cp' = cp, outcome' = outcome, link' = link, dev' = dev,
         sink' = sink, cut' = cut, aborted' \in BOOLEAN, source' \in Nat, faults' \in Nat, resumes' \in Nat,
         run' \in Runs, run'.at \in WriteStages, ShapeOf(run'), HeldOf(run'), ChunksOf(run'),
         run'.at \in {"complete", "completing"} => cp.phase = "finalizing",
         cut => decl.repeatable
  PROVE  Inv'
<1>1. RuntimeTypeOK'
  BY DEF Inv, RuntimeTypeOK
<1>2. run # None /\ run' # None /\ run'.at \notin ReadStages
  BY NoneAssumption DEF Writing, WriteStages, ReadStages, ResumeStages, FirstStages, LoopStages, EndStages
<1>3. DeviceInv' /\ IdleInv'
  BY <1>2 DEF Inv, DeviceInv, IdleInv
<1>4. CheckpointInv' /\ LinkInv'
  <2>1. CheckpointInv /\ LinkInv
    BY DEF Inv
  <2>2. CheckpointInv'
    BY <1>2, <2>1 DEF CheckpointInv, Writing, Has
  <2>3. LinkInv'
    BY <1>2, <2>1 DEF LinkInv, Writing
  <2>. QED BY <2>2, <2>3
<1>5. RunInv'
  <2>1. ShapeOf(run)'
    BY DEF ShapeOf, Fresh, Untouched
  <2>2. HeldOf(run)'
    BY DEF HeldOf, Has, HasAll
  <2>. QED BY <2>1, <2>2 DEF RunInv
<1>6. FinalInv'
  BY <1>2 DEF Inv, FinalInv, Writing
<1>7. SinkInv' /\ CountInv'
  <2>1. SinkInv'
    BY <1>2 DEF Inv, SinkInv, SinkExact, SinkEnd, Reading
  <2>2. CountInv'
    BY <1>2 DEF Inv, CountInv, ChunksOf
  <2>. QED BY <2>1, <2>2
<1>. QED BY <1>1, <1>3, <1>4, <1>5, <1>6, <1>7 DEF Inv

\* An execution ends, and only its checkpoint may be removed.
LEMMA Ends ==
  ASSUME Inv, decl' = decl, cp' \in {cp, None}, link' = link, dev' = dev,
         sink' = sink, cut' = cut, aborted' \in BOOLEAN, source' \in Nat, faults' \in Nat, resumes' \in Nat,
         run' = None, outcome' \in Outcomes \ {"none", "read-completed"}
  PROVE  Inv'
<1>1. RuntimeTypeOK'
  BY DEF Inv, RuntimeTypeOK
<1>2. DeviceInv' /\ IdleInv'
  BY DEF Inv, DeviceInv, IdleInv
<1>3. CheckpointInv' /\ LinkInv'
  <2>1. CheckpointInv /\ LinkInv
    BY DEF Inv
  <2>2. CheckpointInv'
    BY <2>1 DEF CheckpointInv, Writing, Has
  <2>3. LinkInv'
    BY DEF LinkInv, Writing
  <2>. QED BY <2>2, <2>3
<1>4. RunInv'
  BY DEF RunInv, Writing
<1>5. FinalInv'
  BY DEF Inv, FinalInv, Writing
<1>6. SinkInv'
  BY DEF Inv, SinkInv, SinkExact, SinkEnd, Reading
<1>7. CountInv'
  BY DEF Inv, CountInv
<1>. QED BY <1>1, <1>2, <1>3, <1>4, <1>5, <1>6, <1>7 DEF Inv

-----------------------------------------------------------------------------
\* What the device and the link may do while nothing but them is changed: the device gains
\* octets that were on their way to it, or commits them, and answers.
LEMMA Gains ==
  ASSUME Inv, decl' = decl, cp' = cp, run' = run, outcome' = outcome, sink' = sink, cut' = cut,
         aborted' \in BOOLEAN, source' \in Nat, faults' \in Nat, resumes' \in Nat,
         dev' \in Devices, dev'.gen = dev.gen, dev'.fin = dev.fin, dev'.com >= dev.com,
         \A o \in Octets : dev.img[o] # None => dev'.img[o] # None,
         \A o \in Octets : dev'.img[o] = dev.img[o] \/ \E w \in link.wire : dev'.img[o] = w.v,
         dev.fin => dev'.img = dev.img, DeviceInv', Untouched => Untouched',
         link' \in Links, link'.usable => link.usable, link'.wire \subseteq link.wire,
         \A s \in link'.reports : Chunked(s.range),
         Writing /\ link'.usable => 
            \A s \in link'.reports : s.whole => \A o \in Span(s.range) : dev'.img[o] # None
  PROVE  Inv'
<1>1. RuntimeTypeOK'
  BY DEF Inv, RuntimeTypeOK
<1>2. IdleInv'
  BY DEF Inv, IdleInv
<1>3. \A o \in Octets : Has(dev, o) => Has(dev, o)'
  <2>1. dev.com \in Int /\ dev'.com \in Int /\ Octets \subseteq Int
    BY Sizes DEF Inv, RuntimeTypeOK, Devices, Octets
  <2>2. \A o \in Octets : decl.prefix /\ o < dev.com => o < dev'.com
    BY <2>1
  <2>3. \A o \in Octets : Has(dev, o) => dev'.img[o] # None
    BY DEF Has
  <2>. QED BY <2>2, <2>3 DEF Has
<1>4. \A r \in Ranges : Span(r) \subseteq Octets
  BY Sizes DEF Ranges, Span, Octets
<1>5. CheckpointInv'
  <2>1. CheckpointInv /\ (cp # None => cp \in Checkpoints)
    BY DEF Inv, RuntimeTypeOK
  <2>2. cp # None => cp.confirmed \subseteq Ranges
    BY <2>1 DEF Checkpoints
  <2>3. (cp # None /\ cp.gen = dev.gen => \A r \in cp.confirmed : \A o \in Span(r) : Has(dev, o))'
    <3>. SUFFICES ASSUME cp # None, cp.gen = dev.gen, NEW r \in cp.confirmed, NEW o \in Span(r)
                  PROVE  Has(dev, o)'
      OBVIOUS
    <3>1. Has(dev, o)
      BY <2>1 DEF CheckpointInv
    <3>2. o \in Octets
      BY <2>2, <1>4
    <3>. QED BY <3>1, <3>2, <1>3
  <2>4. (cp # None => cp.gen <= dev.gen)' /\ (Writing => cp # None)'
    BY <2>1 DEF CheckpointInv, Writing
  <2>. QED BY <2>3, <2>4 DEF CheckpointInv
<1>6. LinkInv'
  <2>1. LinkInv
    BY DEF Inv
  <2>2. Writing' <=> Writing
    BY DEF Writing
  <2>. QED BY <2>1, <2>2 DEF LinkInv
<1>7. RunInv'
  <2>. SUFFICES ASSUME Writing PROVE ShapeOf(run)' /\ HeldOf(run)'
    BY DEF RunInv, Writing
  <2>1. ShapeOf(run) /\ HeldOf(run) /\ run \in Runs /\ cp \in Checkpoints
    BY DEF Inv, RunInv, RuntimeTypeOK, Writing, CheckpointInv
  <2>2. ShapeOf(run)'
    <3>1. Fresh(run) => Untouched'
      BY <2>1 DEF ShapeOf
    <3>. QED BY <2>1, <3>1 DEF ShapeOf, Fresh
  <2>3. (run.at = "confirm" /\ cp.gen = dev.gen => \A t \in run.todo : \A o \in Span(t) : Has(dev, o))'
    <3>. SUFFICES ASSUME run.at = "confirm", cp.gen = dev.gen, NEW t \in run.todo, NEW o \in Span(t)
                  PROVE  Has(dev, o)'
      OBVIOUS
    <3>1. Has(dev, o)
      BY <2>1 DEF HeldOf
    <3>2. o \in Octets
      BY <2>1, <1>4 DEF Runs
    <3>. QED BY <3>1, <3>2, <1>3
  <2>4. (run.at \in {"recipe", "reconcile", "whole", "remaining"} /\ (link.usable \/ cp.gen = dev.gen)
           => run.reported <= dev.com)'
    <3>1. run.reported \in Int /\ dev.com \in Int /\ dev'.com \in Int
      BY <2>1, Sizes DEF Inv, RuntimeTypeOK, Devices, Runs
    <3>2. run.at \in {"recipe", "reconcile", "whole", "remaining"} /\ (link.usable \/ cp.gen = dev.gen)
            => run.reported <= dev.com
      BY <2>1 DEF HeldOf
    <3>. QED BY <3>1, <3>2
  <2>5. (link.usable /\ ~run.partial =>
           \A o \in 0 .. run.next - 1 : Has(dev, o) \/ \E f \in run.fly : o \in Span(f))'
    <3>. SUFFICES ASSUME link'.usable, ~run.partial, NEW o \in 0 .. run.next - 1
                  PROVE  Has(dev, o)' \/ \E f \in run.fly : o \in Span(f)
      OBVIOUS
    <3>1. Has(dev, o) \/ \E f \in run.fly : o \in Span(f)
      BY <2>1 DEF HeldOf
    <3>2. o \in Octets
      BY <2>1, Sizes DEF Runs, Octets
    <3>. QED BY <3>1, <3>2, <1>3
  <2>6. HasAll(dev) => HasAll(dev)'
    BY <1>3 DEF HasAll
  <2>7. (run.at \in {"verifying", "finalizing", "complete", "completing"} /\ link.usable => HasAll(dev))'
    BY <2>1, <2>6 DEF HeldOf
  <2>8. (run.at \in {"verify", "remove"} \/ (run.at = "verifying" /\ run.whole) => dev.fin /\ HasAll(dev))'
    BY <2>1, <2>6 DEF HeldOf
  <2>9. (~run.resumed /\ ~run.mixed =>
           (\A w \in link.wire : w.v = 0) /\ \A o \in Octets : dev.img[o] \in {None, 0})'
    <3>. SUFFICES ASSUME ~run.resumed, ~run.mixed
                  PROVE  (\A w \in link'.wire : w.v = 0) /\ \A o \in Octets : dev'.img[o] \in {None, 0}
      OBVIOUS
    <3>1. (\A w \in link.wire : w.v = 0) /\ \A o \in Octets : dev.img[o] \in {None, 0}
      BY <2>1 DEF HeldOf
    <3>. QED BY <3>1
  <2>10. (run.at = "remove" /\ decl.verify => \A o, p \in Octets : dev.img[o] = dev.img[p])'
    BY <2>1 DEF HeldOf
  <2>. QED BY <2>2, <2>3, <2>4, <2>5, <2>7, <2>8, <2>9, <2>10 DEF HeldOf
<1>8. FinalInv'
  BY DEF Inv, FinalInv, Writing
<1>9. SinkInv'
  BY DEF Inv, SinkInv, SinkExact, SinkEnd, Reading
<1>10. CountInv'
  <2>1. CountInv
    BY DEF Inv
  <2>2. (run # None => ChunksOf(run))'
    BY <2>1 DEF CountInv, ChunksOf
  <2>. QED BY <2>1, <2>2 DEF CountInv
<1>. QED BY <1>1, <1>2, <1>5, <1>6, <1>7, <1>8, <1>9, <1>10 DEF Inv

-----------------------------------------------------------------------------
\* The part of Inv about the link and the device, for the steps below.
LEMMA LinkFacts ==
  ASSUME Inv
  PROVE  /\ link \in Links /\ dev \in Devices /\ DeviceInv
         /\ \A s \in link.reports : Chunked(s.range)
         /\ \A w \in link.wire : Chunked(w.range)
         /\ Writing /\ link.usable =>
              \A s \in link.reports : s.whole => \A o \in Span(s.range) : dev.img[o] # None
         /\ Writing => \A w \in link.wire : w.v # None
         /\ aborted \in BOOLEAN /\ source \in Nat /\ faults \in Nat /\ resumes \in Nat
BY DEF Inv, RuntimeTypeOK, CountInv, LinkInv

\* A step that changes nothing the invariant speaks of.
LEMMA Quietly ==
  ASSUME Inv, decl' = decl, cp' = cp, run' = run, outcome' = outcome, sink' = sink, cut' = cut,
         link' = link, dev' = dev,
         aborted' \in BOOLEAN, source' \in Nat, faults' \in Nat, resumes' \in Nat
  PROVE  Inv'
<1>1. dev.com >= dev.com /\ Octets \subseteq Int
  BY LinkFacts, Sizes DEF Devices, Octets
<1>2. DeviceInv' /\ (Untouched => Untouched')
  BY LinkFacts DEF DeviceInv, Untouched
<1>. QED BY <1>1, <1>2, LinkFacts, Gains

\* The caller aborts.
LEMMA AbortKeeps == ASSUME Inv, Abort PROVE Inv'
BY LinkFacts, Quietly DEF Abort, World

\* The source changes.
LEMMA SourceChangesKeeps == ASSUME Inv, SourceChanges PROVE Inv'
BY LinkFacts, Quietly DEF SourceChanges

\* Nothing happens.
LEMMA StutterKeeps == ASSUME Inv, UNCHANGED vars PROVE Inv'
BY LinkFacts, Quietly DEF vars

\* The link breaks: what was on its way may still arrive, no answer counts any more.
LEMMA LinkBreaksKeeps == ASSUME Inv, LinkBreaks PROVE Inv'
<1>1. link' \in Links /\ link'.usable = FALSE /\ link'.wire = link.wire /\ link'.reports = link.reports
  BY LinkFacts DEF LinkBreaks, Links
<1>2. dev' = dev /\ decl' = decl /\ cp' = cp /\ run' = run /\ outcome' = outcome /\ sink' = sink /\ cut' = cut
      /\ source' = source /\ resumes' = resumes /\ faults' = faults /\ aborted' = aborted
  BY DEF LinkBreaks, World
<1>3. dev.com >= dev.com
  BY LinkFacts, Sizes DEF Devices
<1>4. DeviceInv' /\ (Untouched => Untouched')
  BY <1>1, <1>2, LinkFacts DEF DeviceInv, Untouched
<1>5. ~link'.usable
  BY <1>1
<1>. HIDE DEF Links, Devices
<1>. QED BY <1>1, <1>2, <1>3, <1>4, <1>5, LinkFacts, Gains

\* The device makes an octet of its contiguous prefix durable.
LEMMA DeviceCommitsKeeps == ASSUME Inv, DeviceCommits PROVE Inv'
<1>1. Contiguous(dev.img) \in 0 .. Length /\ (\A o \in 0 .. Contiguous(dev.img) - 1 : dev.img[o] # None)
  BY LinkFacts, ContiguousIs DEF Devices
<1>2. dev.com \in Nat /\ dev.com + 1 \in 0 .. Length
  BY <1>1, LinkFacts, Sizes DEF DeviceCommits, Devices
<1>3. dev' \in Devices /\ dev'.gen = dev.gen /\ dev'.fin = dev.fin /\ dev'.img = dev.img /\ dev'.com = dev.com + 1
  BY <1>2, LinkFacts DEF DeviceCommits, Devices
<1>4. link' = link /\ decl' = decl /\ cp' = cp /\ run' = run /\ outcome' = outcome /\ sink' = sink /\ cut' = cut
      /\ source' = source /\ resumes' = resumes /\ faults' = faults /\ aborted' = aborted
  BY DEF DeviceCommits, World
<1>5. dev'.com >= dev.com
  BY <1>2, <1>3
<1>6. DeviceInv'
  BY <1>1, <1>2, <1>3 DEF DeviceCommits, DeviceInv
<1>7. Untouched => Untouched'
  BY <1>3, <1>4 DEF Untouched
<1>. QED BY <1>3, <1>4, <1>5, <1>6, <1>7, LinkFacts, Gains

\* The device answers a read request.
LEMMA DeviceAnswersReadKeeps == ASSUME Inv, DeviceAnswersRead PROVE Inv'
<1>1. PICK w \in link.wire :
        /\ w.v = None
        /\ link' = [link EXCEPT !.wire = @ \ {w}, !.reports = @ \cup {[range |-> w.range, whole |-> TRUE]}]
        /\ UNCHANGED <<World, cp, run, outcome, aborted, dev, faults, cut>>
  BY DEF DeviceAnswersRead
<1>2. dev' = dev /\ decl' = decl /\ cp' = cp /\ run' = run /\ outcome' = outcome /\ sink' = sink /\ cut' = cut
      /\ source' = source /\ resumes' = resumes /\ faults' = faults /\ aborted' = aborted
  BY <1>1 DEF World
<1>3. w \in Carriers /\ [range |-> w.range, whole |-> TRUE] \in Reports
  BY LinkFacts DEF Links, Carriers, Reports
<1>4. /\ link' \in Links /\ link'.usable = link.usable /\ link'.wire = link.wire \ {w}
      /\ link'.reports = link.reports \cup {[range |-> w.range, whole |-> TRUE]}
  BY <1>1, <1>3, LinkFacts DEF Links
<1>5. ~Writing
  BY <1>1, LinkFacts
<1>6. \A s \in link'.reports : Chunked(s.range)
  BY <1>4, LinkFacts
<1>7. dev.com >= dev.com
  BY LinkFacts, Sizes DEF Devices
<1>8. DeviceInv' /\ (Untouched => Untouched')
  BY <1>2, <1>4, LinkFacts DEF DeviceInv, Untouched
<1>. QED BY <1>2, <1>4, <1>5, <1>6, <1>7, <1>8, LinkFacts, Gains

\* A write lands, whole or in part, and may be answered for.
LEMMA DeviceTakesKeeps == ASSUME Inv, DeviceTakes PROVE Inv'
<1>1. PICK w \in link.wire :
        /\ w.v # None /\ ~dev.fin
        /\ \E hi \in w.range.lo .. w.range.hi :
             /\ hi < w.range.hi => ~decl.prefix
             /\ LET img == Landed(w, hi)
                IN dev' = [dev EXCEPT !.img = img, !.com = IF decl.prefix THEN @ ELSE Contiguous(img)]
             /\ link' = [link EXCEPT !.wire = @ \ {w},
                           !.reports = IF decl.prefix THEN @
                                       ELSE @ \cup {[range |-> w.range, whole |-> hi = w.range.hi]}]
        /\ UNCHANGED <<World, cp, run, outcome, aborted, faults, cut>>
  BY DEF DeviceTakes
<1>2. PICK hi \in w.range.lo .. w.range.hi :
        /\ LET img == Landed(w, hi)
           IN dev' = [dev EXCEPT !.img = img, !.com = IF decl.prefix THEN @ ELSE Contiguous(img)]
        /\ link' = [link EXCEPT !.wire = @ \ {w},
                      !.reports = IF decl.prefix THEN @
                                  ELSE @ \cup {[range |-> w.range, whole |-> hi = w.range.hi]}]
  BY <1>1
<1>3. decl' = decl /\ cp' = cp /\ run' = run /\ outcome' = outcome /\ sink' = sink /\ cut' = cut
      /\ source' = source /\ resumes' = resumes /\ faults' = faults /\ aborted' = aborted
  BY <1>1 DEF World
<1>4. w.range \in Ranges /\ w.v \in Nat \cup {None} /\ w.range.lo \in Int /\ w.range.hi \in Int /\ hi \in Int
  BY LinkFacts, Sizes DEF Links, Carriers, Ranges
<1>5. PICK img : img = Landed(w, hi)
  OBVIOUS
<1>6. /\ img \in [Octets -> Nat \cup {None}]
      /\ \A o \in Octets : img[o] = dev.img[o] \/ img[o] = w.v
      /\ \A o \in Octets : dev.img[o] # None => img[o] # None
      /\ hi = w.range.hi => \A o \in Span(w.range) \cap Octets : img[o] # None
  <2>1. \A o \in Octets : dev.img[o] \in Nat \cup {None} 
    BY LinkFacts DEF Devices
  <2>2. \A o \in Octets : img[o] = IF o \in Span(w.range) /\ o < hi THEN w.v ELSE dev.img[o]
    BY <1>5 DEF Landed
  <2>3. img \in [Octets -> Nat \cup {None}]
    BY <1>4, <1>5, <2>1 DEF Landed
  <2>4. hi = w.range.hi => \A o \in Span(w.range) : o < hi
    BY <1>4 DEF Span
  <2>. QED BY <1>1, <2>2, <2>3, <2>4
<1>7. Contiguous(img) \in 0 .. Length /\ (\A o \in 0 .. Contiguous(img) - 1 : img[o] # None)
      /\ (Contiguous(img) < Length => img[Contiguous(img)] = None)
  BY <1>6, ContiguousIs
<1>8. PICK com : com = IF decl.prefix THEN dev.com ELSE Contiguous(img)
  OBVIOUS
<1>9. dev.com \in 0 .. Length /\ (\A o \in 0 .. dev.com - 1 : o \in Octets /\ img[o] # None)
  <2>1. dev.com \in 0 .. Length
    BY LinkFacts DEF Devices
  <2>2. \A o \in 0 .. dev.com - 1 : o \in Octets /\ dev.img[o] # None
    BY <2>1, LinkFacts, Sizes DEF DeviceInv, Octets
  <2>. QED BY <2>1, <2>2, <1>6
<1>10. com \in 0 .. Length /\ com >= dev.com /\ \A o \in 0 .. com - 1 : img[o] # None
  <2>1. CASE decl.prefix
    BY <2>1, <1>8, <1>9, Sizes
  <2>2. CASE ~decl.prefix
    <3>1. com = Contiguous(img)
      BY <2>2, <1>8
    <3>2. ~(com < dev.com)
      BY <3>1, <1>7, <1>9, Sizes
    <3>. QED BY <3>1, <3>2, <1>7, <1>9, Sizes
  <2>. QED BY <2>1, <2>2
<1>11. dev' = [dev EXCEPT !.img = img, !.com = com]
  BY <1>2, <1>5, <1>8
<1>12. dev' \in Devices /\ dev'.gen = dev.gen /\ dev'.fin = dev.fin /\ dev'.img = img /\ dev'.com = com
  BY <1>6, <1>10, <1>11, LinkFacts DEF Devices
<1>13. PICK whole \in BOOLEAN : whole = (hi = w.range.hi)
  OBVIOUS
<1>14. PICK report \in Reports : report = [range |-> w.range, whole |-> whole]
  BY <1>4 DEF Reports
<1>. DEFINE more == IF decl.prefix THEN {} ELSE {report}
<1>15. link' = [link EXCEPT !.wire = @ \ {w}, !.reports = @ \cup more]
  BY <1>2, <1>13, <1>14
<1>16. /\ more \subseteq Reports
       /\ \A s \in more : s.range = w.range /\ (s.whole => hi = w.range.hi)
  <2>1. report.range = w.range /\ report.whole = whole
    BY <1>14
  <2>. QED BY <2>1, <1>13, <1>14
<1>. HIDE DEF more
<1>17. /\ link' \in Links /\ link'.usable = link.usable /\ link'.wire = link.wire \ {w}
       /\ link'.reports = link.reports \cup more
  BY <1>15, <1>16, LinkFacts DEF Links
<1>18. \A s \in link'.reports : Chunked(s.range)
  BY <1>16, <1>17, LinkFacts
<1>19. \A s \in Reports : Span(s.range) \subseteq Octets
  BY Sizes DEF Reports, Ranges, Span, Octets
<1>20. ASSUME Writing, link.usable, NEW s \in link'.reports, s.whole, NEW o \in Span(s.range)
       PROVE  dev'.img[o] # None
  <2>1. o \in Octets /\ o \in Span(s.range)
    BY <1>17, <1>19, <1>20, LinkFacts DEF Links
  <2>2. CASE s \in link.reports
    BY <2>1, <2>2, <1>6, <1>12, <1>20, LinkFacts
  <2>3. CASE s \in more
    BY <2>1, <2>3, <1>6, <1>12, <1>16, <1>20
  <2>. QED BY <2>2, <2>3, <1>17
<1>21. DeviceInv'
  BY <1>10, <1>12 DEF DeviceInv
<1>22. ~Untouched
  BY DEF Untouched
<1>. QED BY <1>1, <1>3, <1>6, <1>10, <1>12, <1>17, <1>18, <1>20, <1>21, <1>22, LinkFacts, Gains

-----------------------------------------------------------------------------
\* What is confirmed, and what an execution holds in a settlement, are octets.
LEMMA SpansAreOctets ==
  ASSUME Inv
  PROVE  /\ \A r \in Ranges : Span(r) \subseteq Octets
         /\ cp # None => cp \in Checkpoints /\ cp.confirmed \subseteq Ranges /\ cp.gen \in Nat
         /\ run # None => /\ run \in Runs /\ run.fly \subseteq Ranges /\ run.todo \subseteq Ranges
                          /\ run.next \in 0 .. Length /\ run.reported \in 0 .. Length
                          /\ run.durable \in 0 .. Length
<1>1. \A r \in Ranges : Span(r) \subseteq Octets
  BY Sizes DEF Ranges, Span, Octets
<1>2. cp # None => cp \in Checkpoints /\ cp.confirmed \subseteq Ranges /\ cp.gen \in Nat
  BY DEF Inv, RuntimeTypeOK, Checkpoints
<1>3. run # None => /\ run \in Runs /\ run.fly \subseteq Ranges /\ run.todo \subseteq Ranges
                    /\ run.next \in 0 .. Length /\ run.reported \in 0 .. Length
                    /\ run.durable \in 0 .. Length
  BY DEF Inv, RuntimeTypeOK, Runs
<1>. QED BY <1>1, <1>2, <1>3

\* An erased image has no octet.
LEMMA EmptyIs == Empty \in [Octets -> Nat \cup {None}] /\ \A o \in Octets : Empty[o] = None
BY DEF Empty

\* The device lost octets, and with them its connection.
LEMMA Loses ==
  ASSUME Inv, decl' = decl, cp' = cp, run' = run, outcome' = outcome, sink' = sink, cut' = cut,
         aborted' \in BOOLEAN, source' \in Nat, faults' \in Nat, resumes' \in Nat,
         dev' \in Devices, dev'.gen >= dev.gen, ~dev.fin, ~dev'.fin,
         dev'.gen = dev.gen => dev'.com = dev.com /\ \A o \in Octets : Has(dev, o) => Has(dev, o)',
         \A o \in Octets : dev'.img[o] \in {None, dev.img[o]},
         DeviceInv', link' = Broken
  PROVE  Inv'
<1>1. link' \in Links /\ ~link'.usable /\ link'.wire = {} /\ link'.reports = {}
  BY DEF Broken, Links
<1>2. RuntimeTypeOK'
  BY <1>1 DEF Inv, RuntimeTypeOK
<1>3. Untouched => Untouched'
  <2>. SUFFICES ASSUME Untouched PROVE dev'.img = Empty
    BY <1>1 DEF Untouched
  <2>1. \A o \in Octets : dev'.img[o] = None
    BY EmptyIs DEF Untouched
  <2>. QED BY <2>1 DEF Devices, Empty
<1>4. IdleInv'
  BY <1>3 DEF Inv, IdleInv
<1>5. CheckpointInv'
  <2>1. CheckpointInv
    BY DEF Inv
  <2>2. (cp # None => cp.gen <= dev.gen)' /\ (Writing => cp # None)'
    BY <2>1, SpansAreOctets, LinkFacts DEF CheckpointInv, Writing, Devices
  <2>3. (cp # None /\ cp.gen = dev.gen => \A r \in cp.confirmed : \A o \in Span(r) : Has(dev, o))'
    <3>. SUFFICES ASSUME cp # None, cp.gen = dev'.gen, NEW r \in cp.confirmed, NEW o \in Span(r)
                  PROVE  Has(dev, o)'
      OBVIOUS
    <3>1. dev'.gen = dev.gen
      BY <2>1, SpansAreOctets, LinkFacts DEF CheckpointInv, Devices
    <3>2. Has(dev, o) /\ o \in Octets
      BY <2>1, <3>1, SpansAreOctets DEF CheckpointInv
    <3>. QED BY <3>1, <3>2
  <2>. QED BY <2>2, <2>3 DEF CheckpointInv
<1>6. LinkInv'
  BY <1>1 DEF LinkInv
<1>7. RunInv'
  <2>. SUFFICES ASSUME Writing PROVE ShapeOf(run)' /\ HeldOf(run)'
    BY DEF RunInv, Writing
  <2>1. ShapeOf(run) /\ HeldOf(run) /\ run \in Runs /\ cp \in Checkpoints /\ cp.gen <= dev.gen
    BY DEF Inv, RunInv, RuntimeTypeOK, Writing, CheckpointInv
  <2>2. ShapeOf(run)'
    BY <2>1, <1>3 DEF ShapeOf, Fresh
  <2>3. (run.at = "confirm" /\ cp.gen = dev.gen => \A t \in run.todo : \A o \in Span(t) : Has(dev, o))'
    <3>. SUFFICES ASSUME run.at = "confirm", cp.gen = dev'.gen, NEW t \in run.todo, NEW o \in Span(t)
                  PROVE  Has(dev, o)'
      OBVIOUS
    <3>1. dev'.gen = dev.gen
      BY <2>1, SpansAreOctets, LinkFacts DEF Devices, Checkpoints
    <3>2. Has(dev, o) /\ o \in Octets
      BY <2>1, <3>1, SpansAreOctets DEF HeldOf, Writing
    <3>. QED BY <3>1, <3>2
  <2>4. (run.at \in {"recipe", "reconcile", "whole", "remaining"} /\ (link.usable \/ cp.gen = dev.gen)
           => run.reported <= dev.com)'
    <3>. SUFFICES ASSUME run.at \in {"recipe", "reconcile", "whole", "remaining"}, cp.gen = dev'.gen
                  PROVE  run.reported <= dev'.com
      BY <1>1
    <3>1. dev'.gen = dev.gen
      BY <2>1, SpansAreOctets, LinkFacts DEF Devices, Checkpoints
    <3>. QED BY <2>1, <3>1 DEF HeldOf
  <2>5. ~(run.at \in {"verify", "remove"} \/ (run.at = "verifying" /\ run.whole))
    BY <2>1 DEF HeldOf
  <2>6. (~run.resumed /\ ~run.mixed =>
           (\A w \in link.wire : w.v = 0) /\ \A o \in Octets : dev.img[o] \in {None, 0})'
    <3>1. ~run.resumed /\ ~run.mixed => \A o \in Octets : dev.img[o] \in {None, 0}
      BY <2>1 DEF HeldOf
    <3>. QED BY <3>1, <1>1
  <2>. QED BY <2>2, <2>3, <2>4, <2>5, <2>6, <1>1 DEF HeldOf
<1>8. FinalInv'
  BY DEF Inv, FinalInv, Writing
<1>9. SinkInv'
  BY DEF Inv, SinkInv, SinkExact, SinkEnd, Reading
<1>10. CountInv'
  <2>1. CountInv
    BY DEF Inv
  <2>2. (run # None => ChunksOf(run))'
    BY <2>1 DEF CountInv, ChunksOf
  <2>. QED BY <1>1, <2>2 DEF CountInv
<1>. QED BY <1>2, <1>4, <1>5, <1>6, <1>7, <1>8, <1>9, <1>10 DEF Inv

\* A device that dropped its transfer.
LEMMA DroppedIs ==
  ASSUME dev \in Devices
  PROVE  /\ Erased \in Devices /\ Erased.gen = dev.gen /\ Erased.img = Empty /\ Erased.com = 0 
         /\ Erased.fin = dev.fin
         /\ Dropped \in Devices /\ Dropped.gen = dev.gen + 1 /\ Dropped.img = Empty /\ Dropped.com = 0
         /\ Dropped.fin = dev.fin
<1>1. /\ Erased \in Devices /\ Erased.gen = dev.gen /\ Erased.img = Empty /\ Erased.com = 0 
      /\ Erased.fin = dev.fin
  <2>1. PICK img \in [Octets -> Nat \cup {None}] : img = Empty
    BY EmptyIs
  <2>2. PICK com \in 0 .. Length : com = 0
    BY Sizes
  <2>3. Erased = [dev EXCEPT !.img = img, !.com = com]
    BY <2>1, <2>2 DEF Erased
  <2>4. /\ Erased \in Devices /\ Erased.gen = dev.gen /\ Erased.img = img /\ Erased.com = com
        /\ Erased.fin = dev.fin
    BY <2>3 DEF Devices
  <2>. QED BY <2>1, <2>2, <2>4
<1>2. PICK e \in Devices : e = Erased
  BY <1>1
<1>3. Dropped = [e EXCEPT !.gen = @ + 1] /\ e.gen \in Nat
  BY <1>2 DEF Dropped, Devices
<1>4. /\ Dropped \in Devices /\ Dropped.gen = e.gen + 1 /\ Dropped.img = e.img /\ Dropped.com = e.com
      /\ Dropped.fin = e.fin
  BY <1>3 DEF Devices
<1>. QED BY <1>1, <1>2, <1>4

\* A reset or a power cut loses no more than the invariant allows for.
LEMMA DeviceResetsKeeps == ASSUME Inv, DeviceResets PROVE Inv'
<1>1. /\ ~dev.fin /\ link' = Broken
      /\ decl' = decl /\ cp' = cp /\ run' = run /\ outcome' = outcome /\ sink' = sink /\ cut' = cut
      /\ source' = source /\ resumes' = resumes /\ faults' = faults + 1 /\ aborted' = aborted
  BY DEF DeviceResets, World
<1>2. dev \in Devices /\ dev.gen \in Nat /\ faults' \in Nat
  BY <1>1, LinkFacts DEF Devices
<1>3. CASE dev' = Dropped
  <2>1. dev' \in Devices /\ dev'.gen = dev.gen + 1 /\ dev'.img = Empty /\ dev'.com = 0 /\ ~dev'.fin
    BY <1>1, <1>2, <1>3, DroppedIs
  <2>2. DeviceInv'
    BY <2>1 DEF DeviceInv
  <2>3. \A o \in Octets : dev'.img[o] \in {None, dev.img[o]}
    BY <2>1, EmptyIs
  <2>4. dev'.gen >= dev.gen /\ dev'.gen # dev.gen
    BY <1>2, <2>1
  <2>. QED BY <1>1, <1>2, <2>1, <2>2, <2>3, <2>4, LinkFacts, Loses
<1>4. CASE dev' = [dev EXCEPT !.img = [o \in Octets |-> IF decl.prefix /\ o >= dev.com THEN None ELSE @[o]]]
  <2>1. PICK img : img = [o \in Octets |-> IF decl.prefix /\ o >= dev.com THEN None ELSE dev.img[o]]
    OBVIOUS
  <2>2. \A o \in Octets : dev.img[o] \in Nat \cup {None}
    BY <1>2 DEF Devices
  <2>3. \A o \in Octets : img[o] = IF decl.prefix /\ o >= dev.com THEN None ELSE dev.img[o]
    BY <2>1
  <2>4. img \in [Octets -> Nat \cup {None}]
    BY <2>1, <2>2
  <2>5. dev' = [dev EXCEPT !.img = img]
    BY <1>4, <2>1
  <2>6. dev' \in Devices /\ dev'.gen = dev.gen /\ dev'.img = img /\ dev'.com = dev.com /\ dev'.fin = dev.fin
    BY <1>2, <2>4, <2>5 DEF Devices
  <2>7. dev.com \in Int /\ Octets \subseteq Int /\ dev.com <= Length
    BY <1>2, Sizes DEF Devices, Octets
  <2>8. \A o \in Octets : Has(dev, o) => Has(dev, o)'
    <3>. SUFFICES ASSUME NEW o \in Octets, Has(dev, o) PROVE Has(dev, o)'
      OBVIOUS
    <3>1. dev.img[o] # None /\ (decl.prefix => ~(o >= dev.com))
      BY <2>7 DEF Has
    <3>2. img[o] # None
      BY <2>3, <3>1
    <3>. QED BY <1>1, <2>6, <3>2 DEF Has
  <2>9. DeviceInv'
    <3>. SUFFICES ASSUME NEW o \in 0 .. dev.com - 1 PROVE img[o] # None
      BY <2>6 DEF DeviceInv
    <3>1. o \in Octets /\ ~(o >= dev.com) /\ dev.img[o] # None
      BY <2>7, LinkFacts, Sizes DEF Octets, DeviceInv
    <3>. QED BY <3>1, <2>3
  <2>10. dev'.gen >= dev.gen
    BY <1>2, <2>6
  <2>. QED BY <1>1, <1>2, <2>3, <2>6, <2>8, <2>9, <2>10, LinkFacts, Loses
<1>. QED BY <1>3, <1>4 DEF DeviceResets

-----------------------------------------------------------------------------
\* An execution ends, whatever it did to the device last.
LEMMA EndsOver ==
  ASSUME Inv, decl' = decl, cp' \in {cp, None}, link' = link, sink' = sink,
         aborted' \in BOOLEAN, source' \in Nat, faults' \in Nat, resumes' \in Nat,
         run' = None, outcome' \in Outcomes \ {"none", "read-completed"},
         dev' \in Devices, DeviceInv', dev'.gen >= dev.gen,
         cp # None /\ cp.gen = dev'.gen => \A r \in cp.confirmed : \A o \in Span(r) : Has(dev, o)',
         cut' \in BOOLEAN, cut' /\ ~decl.repeatable => (cp # None => cp.phase = "finalizing")
  PROVE  Inv'
<1>1. RuntimeTypeOK'
  BY DEF Inv, RuntimeTypeOK
<1>2. IdleInv'
  BY DEF IdleInv
<1>3. CheckpointInv'
  <2>1. cp' # None => cp.gen <= dev'.gen
    BY SpansAreOctets, LinkFacts DEF Inv, CheckpointInv, Devices
  <2>2. (cp # None /\ cp.gen = dev.gen => \A r \in cp.confirmed : \A o \in Span(r) : Has(dev, o))'
    BY DEF Has
  <2>. QED BY <2>1, <2>2 DEF CheckpointInv, Writing
<1>4. LinkInv' /\ RunInv'
  BY DEF RunInv, Writing, LinkInv
<1>5. FinalInv'
  BY DEF FinalInv, Writing
<1>6. SinkInv'
  BY DEF Inv, SinkInv, SinkExact, SinkEnd, Reading
<1>7. CountInv'
  BY DEF Inv, CountInv
<1>. QED BY <1>1, <1>2, <1>3, <1>4, <1>5, <1>6, <1>7 DEF Inv

\* An execution at its beginning.
LEMMA NewRunIs ==
  ASSUME NEW at \in WriteStages \cup ReadStages
  PROVE  /\ NewRun(at) \in Runs /\ NewRun(at) # None
         /\ NewRun(at).at = at /\ ~NewRun(at).resumed /\ ~NewRun(at).whole /\ NewRun(at).expect = 0
         /\ NewRun(at).reported = 0 /\ NewRun(at).next = 0 /\ NewRun(at).durable = 0
         /\ NewRun(at).fly = {} /\ NewRun(at).todo = {} /\ ~NewRun(at).cancelled /\ ~NewRun(at).partial
         /\ ~NewRun(at).mixed /\ ~NewRun(at).destructive /\ NewRun(at).observed = 0
<1>1. 0 \in Nat /\ 0 \in 0 .. Length /\ 0 \in 0 .. MaxObservations /\ {} \in SUBSET Ranges
  BY Sizes
<1>2. PICK zero : zero = 0
  OBVIOUS
<1>3. PICK none : none = {}
  OBVIOUS
<1>4. PICK no \in BOOLEAN : no = FALSE
  OBVIOUS
<1>5. NewRun(at) =
        [at |-> at, resumed |-> no, whole |-> no, expect |-> zero, reported |-> zero, next |-> zero,
         durable |-> zero, fly |-> none, todo |-> none, cancelled |-> no, partial |-> no,
         mixed |-> no, destructive |-> no, observed |-> zero]
  BY <1>2, <1>3, <1>4 DEF NewRun
<1>6. zero \in Nat /\ zero \in 0 .. Length /\ zero \in 0 .. MaxObservations /\ none \in SUBSET Ranges
  BY <1>1, <1>2, <1>3
<1>7. /\ NewRun(at) \in Runs
      /\ NewRun(at).at = at /\ NewRun(at).resumed = no /\ NewRun(at).whole = no /\ NewRun(at).expect = zero
      /\ NewRun(at).reported = zero /\ NewRun(at).next = zero /\ NewRun(at).durable = zero
      /\ NewRun(at).fly = none /\ NewRun(at).todo = none /\ NewRun(at).cancelled = no
      /\ NewRun(at).partial = no /\ NewRun(at).mixed = no /\ NewRun(at).destructive = no
      /\ NewRun(at).observed = zero
  BY <1>5, <1>6 DEF Runs
<1>8. NewRun(at) # None
  BY <1>7, NoneAssumption
<1>. QED BY <1>2, <1>3, <1>4, <1>7, <1>8

\* A first execution starts, over a device and a link nothing has touched.
LEMMA StartKeeps == ASSUME Inv, Start PROVE Inv'
<1>1. /\ outcome = "none" /\ run = None
      /\ run' = NewRun("hash") /\ cp' = [phase |-> "preparing", confirmed |-> {}, gen |-> dev.gen]
      /\ decl' = decl /\ outcome' = outcome /\ sink' = sink /\ cut' = cut /\ link' = link /\ dev' = dev
      /\ source' = source /\ resumes' = resumes /\ faults' = faults /\ aborted' = aborted
  BY DEF Start, World
<1>2. "hash" \in WriteStages
  BY DEF WriteStages
<1>3. /\ run' \in Runs /\ run' # None /\ run'.at = "hash" /\ ~run'.resumed /\ ~run'.whole /\ run'.expect = 0
      /\ run'.reported = 0 /\ run'.next = 0 /\ run'.durable = 0 /\ run'.fly = {} /\ run'.todo = {}
      /\ ~run'.destructive
  BY <1>1, <1>2, NewRunIs
<1>4. dev.gen \in Nat
  BY LinkFacts DEF Devices
<1>5. PICK gen \in Nat : gen = dev.gen
  BY <1>4
<1>6. cp' \in Checkpoints /\ cp'.phase = "preparing" /\ cp'.confirmed = {} /\ cp'.gen = gen
  BY <1>1, <1>5 DEF Checkpoints
<1>7. cp' # None
  BY <1>6, NoneAssumption
<1>8. Untouched /\ ~cut
  BY <1>1 DEF Inv, IdleInv, FinalInv
<1>9. Untouched'
  BY <1>1, <1>8 DEF Untouched
<1>10. RuntimeTypeOK'
  BY <1>1, <1>3, <1>6 DEF Inv, RuntimeTypeOK
<1>11. DeviceInv' /\ IdleInv'
  BY <1>1, <1>3 DEF Inv, DeviceInv, IdleInv
<1>12. CheckpointInv'
  BY <1>1, <1>4, <1>5, <1>6, <1>7 DEF CheckpointInv
<1>13. LinkInv'
  BY <1>9 DEF LinkInv, Untouched
<1>14. ShapeOf(run)'
  BY <1>3, <1>6, <1>9 DEF ShapeOf, Fresh, ResumeStages, FirstStages
<1>15. HeldOf(run)'
  <2>1. \A o \in Octets : dev'.img[o] = None
    BY <1>9, EmptyIs DEF Untouched
  <2>2. ~(\E o \in 0 .. run'.next - 1 : TRUE)
    BY <1>3
  <2>. QED BY <1>3, <1>9, <2>1, <2>2 DEF HeldOf, Untouched
<1>16. RunInv'
  BY <1>14, <1>15 DEF RunInv
<1>17. FinalInv'
  BY <1>1, <1>3, <1>8 DEF FinalInv
<1>18. SinkInv'
  BY <1>1, <1>3 DEF Inv, SinkInv, SinkExact, SinkEnd, Reading, ReadStages
<1>19. CountInv'
  BY <1>1, <1>3 DEF Inv, CountInv, ChunksOf
<1>. QED BY <1>10, <1>11, <1>12, <1>13, <1>16, <1>17, <1>18, <1>19 DEF Inv

\* A resume starts, knowing nothing but its checkpoint.
LEMMA StartResumeKeeps == ASSUME Inv, StartResume PROVE Inv'
<1>1. /\ run = None /\ cp # None /\ outcome # "none"
      /\ run' = [NewRun("validate") EXCEPT !.resumed = TRUE] /\ cp' = cp
      /\ decl' = decl /\ outcome' = outcome /\ sink' = sink /\ cut' = cut /\ link' = Connected /\ dev' = dev
      /\ source' = source /\ resumes' = resumes + 1 /\ faults' = faults /\ aborted' \in BOOLEAN
  BY DEF StartResume
<1>2. "validate" \in WriteStages
  BY DEF WriteStages, ResumeStages
<1>3. PICK new \in Runs : new = NewRun("validate")
  BY <1>2, NewRunIs
<1>4. /\ new.at = "validate" /\ ~new.whole /\ new.expect = 0
      /\ new.reported = 0 /\ new.next = 0 /\ new.durable = 0 /\ new.fly = {} /\ new.todo = {}
  BY <1>2, <1>3, NewRunIs
<1>5. run' = [new EXCEPT !.resumed = TRUE]
  BY <1>1, <1>3
<1>6. /\ run' \in Runs /\ run'.at = new.at /\ run'.resumed = TRUE /\ run'.whole = new.whole
      /\ run'.reported = new.reported /\ run'.next = new.next /\ run'.durable = new.durable
      /\ run'.fly = new.fly /\ run'.todo = new.todo
  BY <1>5 DEF Runs
<1>7. run' # None
  BY <1>6, NoneAssumption
<1>8. link' \in Links /\ link'.wire = {} /\ link'.reports = {}
  BY <1>1 DEF Connected, Links
<1>9. RuntimeTypeOK'
  BY <1>1, <1>6, <1>8, LinkFacts DEF Inv, RuntimeTypeOK
<1>10. DeviceInv' /\ IdleInv'
  BY <1>1, <1>7 DEF Inv, DeviceInv, IdleInv
<1>11. CheckpointInv'
  BY <1>1 DEF Inv, CheckpointInv, Has
<1>12. LinkInv'
  BY <1>8 DEF LinkInv
<1>13. ShapeOf(run)'
  BY <1>4, <1>6 DEF ShapeOf, Fresh, ResumeStages, FirstStages
<1>14. HeldOf(run)'
  <2>1. ~(\E o \in 0 .. run'.next - 1 : TRUE)
    BY <1>4, <1>6
  <2>. QED BY <1>4, <1>6, <2>1 DEF HeldOf
<1>15. RunInv'
  BY <1>13, <1>14 DEF RunInv
<1>16. FinalInv'
  BY <1>1, <1>4, <1>6 DEF Inv, FinalInv
<1>17. SinkInv'
  BY <1>1, <1>4, <1>6 DEF Inv, SinkInv, SinkExact, SinkEnd, Reading, ReadStages
<1>18. CountInv'
  BY <1>4, <1>6, <1>8 DEF CountInv, ChunksOf
<1>. QED BY <1>9, <1>10, <1>11, <1>12, <1>15, <1>16, <1>17, <1>18 DEF Inv

\* A device-to-host execution starts.
LEMMA StartReadKeeps == ASSUME Inv, StartRead PROVE Inv'
<1>1. /\ run = None /\ outcome = "none" /\ run' = NewRun("read") /\ cp' = cp /\ ~decl.prefix
      /\ decl' = decl /\ outcome' = outcome /\ sink' = sink /\ cut' = cut /\ link' = link /\ dev' = dev
      /\ source' = source /\ resumes' = resumes /\ faults' = faults /\ aborted' = aborted
  BY DEF StartRead, World
<1>2. "read" \in ReadStages /\ "read" \notin WriteStages
  BY DEF WriteStages, ResumeStages, ReadStages, LoopStages, FirstStages, EndStages
<1>3. /\ run' \in Runs /\ run' # None /\ run'.at = "read" /\ run'.durable = 0
      /\ run'.fly = {} /\ run'.todo = {}
  BY <1>1, <1>2, NewRunIs
<1>4. RuntimeTypeOK'
  BY <1>1, <1>3 DEF Inv, RuntimeTypeOK
<1>5. DeviceInv' /\ IdleInv'
  BY <1>1, <1>3 DEF Inv, DeviceInv, IdleInv
<1>6. ~Writing'
  BY <1>2, <1>3 DEF Writing
<1>7. LinkInv' /\ RunInv'
  BY <1>6 DEF LinkInv, RunInv
<1>8. CheckpointInv'
  BY <1>1, <1>6 DEF Inv, CheckpointInv, Has
<1>9. sink = << >> /\ ~cut
  BY <1>1 DEF Inv, IdleInv, FinalInv
<1>10. FinalInv'
  BY <1>1, <1>6, <1>9 DEF FinalInv
<1>11. SinkInv'
  BY <1>1, <1>3, <1>9 DEF Inv, SinkInv, SinkExact, SinkEnd
<1>12. CountInv'
  BY <1>1, <1>3 DEF Inv, CountInv, ChunksOf
<1>. QED BY <1>4, <1>5, <1>7, <1>8, <1>10, <1>11, <1>12 DEF Inv

\* The device may have finalized when an execution ends in its finalization.
LEMMA FinalizedIs ==
  ASSUME dev \in Devices
  PROVE  /\ Finalized \in Devices /\ Finalized.gen = dev.gen /\ Finalized.img = dev.img
         /\ Finalized.com = dev.com /\ Finalized.fin
BY DEF Finalized, Devices

\* An execution ends in its finalization: only the checkpoint's phase remembers it.
LEMMA CompletionCut ==
  ASSUME Inv, Writing, run.at = "completing", decl' = decl, cp' = cp, link' = link, sink' = sink,
         aborted' \in BOOLEAN, source' \in Nat, faults' \in Nat, resumes' \in Nat,
         run' = None, outcome' \in Outcomes \ {"none", "read-completed"},
         cut' = TRUE, dev' \in {dev, Finalized}
  PROVE  Inv'
<1>1. dev' \in Devices /\ dev'.gen = dev.gen /\ dev'.img = dev.img /\ dev'.com = dev.com /\ dev.gen \in Nat
  BY LinkFacts, FinalizedIs DEF Devices
<1>2. DeviceInv' /\ dev'.gen >= dev.gen
  BY <1>1, LinkFacts DEF DeviceInv
<1>3. cp # None /\ cp.gen = dev'.gen => \A r \in cp.confirmed : \A o \in Span(r) : Has(dev, o)'
  BY <1>1 DEF Inv, CheckpointInv, Has
<1>4. cp.phase = "finalizing"
  BY DEF Inv, FinalInv
<1>. QED BY <1>1, <1>2, <1>3, <1>4, EndsOver

\* The process dies.
LEMMA CrashKeeps == ASSUME Inv, Crash PROVE Inv'
<1>1. /\ run # None /\ run' = None /\ outcome' = "crashed" /\ cp' = cp
      /\ decl' = decl /\ sink' = sink /\ link' = link
      /\ source' = source /\ resumes' = resumes /\ faults' = faults + 1 /\ aborted' = aborted
      /\ IF At("completing") THEN cut' = TRUE /\ dev' \in {dev, Finalized} ELSE UNCHANGED <<cut, dev>>
  BY DEF Crash, World, End
<1>2. outcome' \in Outcomes \ {"none", "read-completed"} /\ faults' \in Nat
  BY <1>1, LinkFacts DEF Outcomes
<1>3. CASE At("completing")
  <2>1. Writing /\ run.at = "completing"
    BY <1>3 DEF At, Writing, WriteStages, EndStages
  <2>. QED BY <1>1, <1>2, <1>3, <2>1, LinkFacts, CompletionCut
<1>4. CASE ~At("completing")
  BY <1>1, <1>2, <1>4, LinkFacts, Ends
<1>. QED BY <1>3, <1>4

-----------------------------------------------------------------------------
\* The part of Inv about an execution that writes.
LEMMA WritingFacts ==
  ASSUME Inv, Writing
  PROVE  /\ run \in Runs /\ ShapeOf(run) /\ HeldOf(run) /\ ChunksOf(run) /\ run # None
         /\ cp # None /\ cp \in Checkpoints
         /\ run.at \in {"complete", "completing"} => cp.phase = "finalizing"
         /\ run.at # "validate" => (cut => decl.repeatable)
         /\ run.at \in WriteStages
<1>1. run # None /\ run \in Runs /\ run.at \in WriteStages
  BY DEF Inv, RuntimeTypeOK, Writing
<1>2. ShapeOf(run) /\ HeldOf(run) /\ ChunksOf(run)
  BY <1>1 DEF Inv, RunInv, CountInv
<1>3. cp # None /\ cp \in Checkpoints
  BY DEF Inv, RuntimeTypeOK, CheckpointInv
<1>4. run.at \in {"complete", "completing"} => cp.phase = "finalizing"
  BY DEF Inv, FinalInv
<1>5. run.at # "validate" => (cut => decl.repeatable)
  BY <1>1 DEF Inv, FinalInv
<1>. QED BY <1>1, <1>2, <1>3, <1>4, <1>5

\* An execution at a stage of writing, and going on to another.
LEMMA AtIs ==
  ASSUME NEW s \in WriteStages, At(s)
  PROVE  Writing /\ run.at = s
BY DEF At, Writing

\* Goto() changes the stage and nothing else.
LEMMA GotoIs ==
  ASSUME NEW s \in WriteStages \cup ReadStages, run \in Runs, Goto(s)
  PROVE  /\ run' \in Runs /\ run'.at = s /\ outcome' = outcome
         /\ run'.resumed = run.resumed /\ run'.whole = run.whole /\ run'.expect = run.expect
         /\ run'.reported = run.reported /\ run'.next = run.next /\ run'.durable = run.durable
         /\ run'.fly = run.fly /\ run'.todo = run.todo /\ run'.cancelled = run.cancelled
         /\ run'.partial = run.partial /\ run'.mixed = run.mixed /\ run'.destructive = run.destructive
         /\ run'.observed = run.observed
BY DEF Goto, Runs

\* A failure ends the execution.
LEMMA FailedIs ==
  ASSUME Failed
  PROVE  run' = None /\ outcome' \in Outcomes \ {"none", "read-completed"}
BY DEF Failed, End, Outcomes

\* Where nothing is claimed of the device but what every stage claims, the claims stay.
LEMMA HeldStays ==
  ASSUME NEW r, NEW q, HeldOf(r), q.next = r.next, q.fly = r.fly, ~q.partial => ~r.partial,
         q.resumed = r.resumed, ~q.mixed => ~r.mixed,
         q.at \in {"validate", "probe", "report", "hash", "prepare", "preparing", "prepared", "transferring",
                   "admit", "reading", "admitting", "settle", "awaiting", "after", "cancelling"}
  PROVE  HeldOf(q)
BY DEF HeldOf

\* A step that goes to stage s, or fails, and changes nothing else.
LEMMA GoesTo ==
  ASSUME Inv, Writing, NEW s \in WriteStages, Goto(s),
         decl' = decl, cp' = cp, link' = link, dev' = dev,
         sink' = sink, cut' = cut, aborted' \in BOOLEAN, source' \in Nat, faults' \in Nat, resumes' \in Nat,
         ShapeOf(run'), HeldOf(run'),
         s \in {"complete", "completing"} => cp.phase = "finalizing",
         run.at = "validate" => (cut => decl.repeatable)
  PROVE  Inv'
<1>1. run \in Runs /\ ChunksOf(run) /\ (cut => decl.repeatable)
  BY WritingFacts
<1>2. run' \in Runs /\ run'.at = s /\ outcome' = outcome /\ run'.fly = run.fly /\ run'.todo = run.todo
  BY <1>1, GotoIs
<1>3. ChunksOf(run')
  BY <1>1, <1>2 DEF ChunksOf
<1>. QED BY <1>1, <1>2, <1>3, Goes

\* The source is hashed.
LEMMA PrehashKeeps == ASSUME Inv, Prehash PROVE Inv'
<1>1. At("hash") /\ decl' = decl /\ cp' = cp /\ link' = link /\ dev' = dev /\ sink' = sink /\ cut' = cut
      /\ aborted' = aborted /\ source' = source /\ faults' = faults /\ resumes' = resumes
      /\ (Failed \/ (run.resumed /\ Goto("prepared")) \/ (~run.resumed /\ Goto("prepare")))
  BY DEF Prehash, World
<1>2. {"hash", "prepare", "prepared"} \subseteq WriteStages
  BY DEF WriteStages, FirstStages
<1>3. Writing /\ run.at = "hash"
  BY <1>1, <1>2, AtIs
<1>4. run \in Runs /\ ShapeOf(run) /\ HeldOf(run)
  BY <1>3, WritingFacts
<1>5. CASE Failed
  BY <1>1, <1>5, FailedIs, LinkFacts, Ends
<1>6. CASE run.resumed /\ Goto("prepared")
  <2>0. /\ run'.at = "prepared" /\ run'.resumed = run.resumed /\ run'.whole = run.whole
        /\ run'.expect = run.expect /\ run'.next = run.next /\ run'.fly = run.fly
        /\ run'.partial = run.partial /\ run'.mixed = run.mixed /\ run'.destructive = run.destructive
    BY <1>2, <1>4, <1>6, GotoIs
  <2>1. ShapeOf(run')
    BY <1>3, <1>4, <1>6, <2>0 DEF ShapeOf, Fresh, ResumeStages, FirstStages
  <2>2. HeldOf(run')
    BY <1>4, <2>0, HeldStays
  <2>. QED BY <1>1, <1>2, <1>3, <1>6, <2>1, <2>2, LinkFacts, GoesTo
<1>7. CASE ~run.resumed /\ Goto("prepare")
  <2>0. /\ run'.at = "prepare" /\ run'.resumed = run.resumed /\ run'.whole = run.whole
        /\ run'.expect = run.expect /\ run'.next = run.next /\ run'.fly = run.fly
        /\ run'.partial = run.partial /\ run'.mixed = run.mixed /\ run'.destructive = run.destructive
    BY <1>2, <1>4, <1>7, GotoIs
  <2>1. ShapeOf(run')
    BY <1>3, <1>4, <1>7, <2>0 DEF ShapeOf, Fresh, ResumeStages, FirstStages
  <2>2. HeldOf(run')
    BY <1>4, <2>0, HeldStays
  <2>. QED BY <1>1, <1>2, <1>3, <1>7, <2>1, <2>2, LinkFacts, GoesTo
<1>. QED BY <1>1, <1>5, <1>6, <1>7

\* The preparation is refused or begun.
LEMMA PrepareKeeps == ASSUME Inv, Prepare PROVE Inv'
<1>1. At("prepare") /\ decl' = decl /\ cp' = cp /\ link' = link /\ dev' = dev /\ sink' = sink /\ cut' = cut
      /\ aborted' = aborted /\ source' = source /\ faults' = faults /\ resumes' = resumes
      /\ (Failed \/ (run' = [run EXCEPT !.at = "preparing", !.destructive = TRUE] /\ outcome' = outcome))
  BY DEF Prepare, World
<1>2. {"prepare", "preparing"} \subseteq WriteStages
  BY DEF WriteStages, FirstStages
<1>3. Writing /\ run.at = "prepare"
  BY <1>1, <1>2, AtIs
<1>4. run \in Runs /\ ShapeOf(run) /\ HeldOf(run) /\ ChunksOf(run) /\ (cut => decl.repeatable)
  BY <1>3, WritingFacts
<1>5. CASE Failed
  BY <1>1, <1>5, FailedIs, LinkFacts, Ends
<1>6. CASE run' = [run EXCEPT !.at = "preparing", !.destructive = TRUE] /\ outcome' = outcome
  <2>1. PICK yes \in BOOLEAN : yes = TRUE
    OBVIOUS
  <2>2. run' = [run EXCEPT !.at = "preparing", !.destructive = yes]
    BY <1>6, <2>1
  <2>3. /\ run' \in Runs /\ run'.at = "preparing"
        /\ run'.resumed = run.resumed /\ run'.whole = run.whole /\ run'.expect = run.expect
        /\ run'.reported = run.reported /\ run'.next = run.next
        /\ run'.fly = run.fly /\ run'.todo = run.todo /\ run'.cancelled = run.cancelled
        /\ run'.partial = run.partial /\ run'.mixed = run.mixed /\ run'.destructive = yes
    BY <2>2, <1>2, <1>4 DEF Runs
  <2>4. ShapeOf(run')
    BY <2>1, <2>3, <1>3, <1>4 DEF ShapeOf, Fresh, ResumeStages, FirstStages
  <2>5. HeldOf(run') /\ ChunksOf(run')
    BY <2>3, <1>3, <1>4, HeldStays DEF ChunksOf
  <2>. QED BY <1>1, <1>2, <1>3, <1>4, <1>6, <2>3, <2>4, <2>5, LinkFacts, Goes
<1>. QED BY <1>1, <1>5, <1>6

\* The preparation erased the device, or failed and may have.
LEMMA PreparedKeeps == ASSUME Inv, Prepared PROVE Inv'
<1>1. At("preparing") /\ decl' = decl /\ cp' = cp /\ link' = link /\ sink' = sink /\ cut' = cut
      /\ aborted' = aborted /\ source' = source /\ faults' = faults /\ resumes' = resumes
      /\ ((Goto("prepared") /\ dev' = Erased) \/ (Failed /\ dev' \in {dev, Erased}))
  BY DEF Prepared, World
<1>2. {"preparing", "prepared"} \subseteq WriteStages
  BY DEF WriteStages, FirstStages
<1>3. Writing /\ run.at = "preparing"
  BY <1>1, <1>2, AtIs
<1>4. run \in Runs /\ ShapeOf(run) /\ HeldOf(run) /\ ChunksOf(run) /\ (cut => decl.repeatable)
  BY <1>3, WritingFacts
<1>5. ~run.resumed /\ Fresh(run)
  BY <1>3, <1>4 DEF ShapeOf, Fresh, FirstStages
<1>6. Untouched /\ cp.confirmed = {} /\ run.next = 0 /\ run.expect = 0 /\ ~run.whole
  BY <1>4, <1>5 DEF ShapeOf
<1>7. dev \in Devices /\ dev.gen \in Nat
  BY LinkFacts DEF Devices
<1>8. dev' \in Devices /\ dev'.gen = dev.gen /\ dev'.img = Empty /\ ~dev'.fin
  BY <1>1, <1>6, <1>7, DroppedIs DEF Untouched
<1>9. DeviceInv'
  <2>1. dev' = dev \/ dev'.com = 0
    BY <1>1, <1>7, DroppedIs
  <2>. QED BY <2>1, LinkFacts DEF DeviceInv
<1>10. CASE Failed
  <2>1. cut' \in BOOLEAN /\ (cut' /\ ~decl.repeatable => (cp # None => cp.phase = "finalizing"))
    BY <1>1, <1>4 DEF Inv, RuntimeTypeOK
  <2>2. dev'.gen >= dev.gen
    BY <1>7, <1>8
  <2>. QED BY <1>1, <1>6, <1>8, <1>9, <1>10, <2>1, <2>2, FailedIs, LinkFacts, EndsOver
<1>11. CASE Goto("prepared")
  <2>1. /\ run' \in Runs /\ run'.at = "prepared" /\ outcome' = outcome /\ run'.next = run.next
        /\ run'.resumed = run.resumed /\ run'.expect = run.expect /\ run'.whole = run.whole
        /\ run'.destructive = run.destructive /\ run'.fly = run.fly /\ run'.todo = run.todo
        /\ run'.mixed = run.mixed
    BY <1>2, <1>4, <1>11, GotoIs
  <2>2. run' # None
    BY <2>1, NoneAssumption
  <2>3. RuntimeTypeOK'
    BY <1>1, <1>8, <2>1 DEF Inv, RuntimeTypeOK
  <2>4. IdleInv'
    BY <2>2 DEF IdleInv
  <2>5. CheckpointInv'
    BY <1>1, <1>3, <1>6, <1>8 DEF Inv, CheckpointInv
  <2>6. LinkInv'
    BY <1>1, <1>6 DEF Untouched, LinkInv
  <2>7. ShapeOf(run)'
    BY <1>1, <1>3, <1>4, <1>5, <1>6, <2>1 DEF ShapeOf, Fresh, ResumeStages, FirstStages
  <2>8. HeldOf(run)'
    <3>1. \A o \in Octets : dev'.img[o] = None
      BY <1>8, EmptyIs
    <3>2. ~(\E o \in 0 .. run'.next - 1 : TRUE)
      BY <1>6, <2>1
    <3>3. link'.wire = {}
      BY <1>1, <1>6 DEF Untouched
    <3>. QED BY <2>1, <3>1, <3>2, <3>3 DEF HeldOf
  <2>9. RunInv'
    BY <2>7, <2>8 DEF RunInv
  <2>10. FinalInv'
    BY <1>1, <1>3, <1>4, <2>1 DEF Inv, FinalInv
  <2>11. SinkInv'
    BY <1>1, <2>1 DEF Inv, SinkInv, SinkExact, SinkEnd, Reading, ReadStages
  <2>12. CountInv'
    BY <1>1, <1>4, <2>1 DEF Inv, CountInv, ChunksOf
  <2>. QED BY <1>9, <2>3, <2>4, <2>5, <2>6, <2>9, <2>10, <2>11, <2>12 DEF Inv
<1>. QED BY <1>1, <1>10, <1>11

-----------------------------------------------------------------------------
\* An execution that prepared, or resumes, goes on, and its checkpoint was committed.
LEMMA GoesCommitted ==
  ASSUME Inv, Writing, decl' = decl, outcome' = outcome, link' = link, dev' = dev,
         sink' = sink, cut' = cut, aborted' \in BOOLEAN, source' \in Nat, faults' \in Nat, resumes' \in Nat,
         cp' \in Checkpoints, cp'.gen = cp.gen,
         cp.gen = dev.gen => \A r \in cp'.confirmed : \A o \in Span(r) : Has(dev, o),
         run' \in Runs, run'.at \in WriteStages, ShapeOf(run'), HeldOf(run'), ChunksOf(run'), ~Fresh(run'),
         run'.at \in {"complete", "completing"} => cp'.phase = "finalizing",
         cut => decl.repeatable
  PROVE  Inv'
<1>1. RuntimeTypeOK'
  BY DEF Inv, RuntimeTypeOK
<1>2. run # None /\ run' # None /\ run'.at \notin ReadStages /\ cp' # None /\ cp # None
  <2>1. run # None /\ run' # None /\ cp' # None /\ cp # None
    BY NoneAssumption, WritingFacts
  <2>2. run'.at \notin ReadStages
    BY DEF WriteStages, ReadStages, ResumeStages, FirstStages, LoopStages, EndStages
  <2>. QED BY <2>1, <2>2
<1>3. DeviceInv' /\ IdleInv'
  BY <1>2 DEF Inv, DeviceInv, IdleInv
<1>4. CheckpointInv'
  BY <1>2 DEF Inv, CheckpointInv, Writing, Has
<1>5. LinkInv'
  BY <1>2 DEF Inv, LinkInv, Writing
<1>6. RunInv'
  <2>1. ShapeOf(run)'
    BY DEF ShapeOf, Fresh
  <2>2. HeldOf(run)'
    BY DEF HeldOf, Has, HasAll
  <2>. QED BY <2>1, <2>2 DEF RunInv
<1>7. FinalInv'
  BY <1>2 DEF Inv, FinalInv, Writing
<1>8. SinkInv'
  BY <1>2 DEF Inv, SinkInv, SinkExact, SinkEnd, Reading
<1>9. CountInv'
  BY <1>2 DEF Inv, CountInv, ChunksOf
<1>. QED BY <1>1, <1>3, <1>4, <1>5, <1>6, <1>7, <1>8, <1>9 DEF Inv

\* What a checkpoint confirms, by the device that confirmed it.
LEMMA ConfirmedHas ==
  ASSUME Inv, cp # None, cp.gen = dev.gen, NEW o \in Spans(cp.confirmed)
  PROVE  Has(dev, o)
BY DEF Inv, CheckpointInv, Spans

\* The phase is committed before the work it names.
LEMMA CommitPhaseKeeps == ASSUME Inv, CommitPhase PROVE Inv'
<1>1. /\ run # None /\ run.at \in {"prepared", "transferring", "verifying", "finalizing"}
      /\ decl' = decl /\ link' = link /\ dev' = dev /\ sink' = sink /\ cut' = cut
      /\ aborted' = aborted /\ source' = source /\ resumes' = resumes
  BY DEF CommitPhase, World
<1>2. Writing
  BY <1>1 DEF Writing, WriteStages, EndStages
<1>3. run \in Runs /\ ShapeOf(run) /\ HeldOf(run) /\ ChunksOf(run) /\ (cut => decl.repeatable)
      /\ cp # None /\ cp \in Checkpoints
  BY <1>1, <1>2, WritingFacts
<1>4. CASE faults < MaxFaults /\ faults' = faults + 1 /\ Failed /\ UNCHANGED cp
  <2>1. faults' \in Nat
    BY <1>4, LinkFacts
  <2>. QED BY <1>1, <1>4, <2>1, FailedIs, LinkFacts, Ends
<1>5. CASE cp' = [cp EXCEPT !.phase = run.at] /\ Goto(AfterPhase(run.at)) /\ UNCHANGED faults
  <2>1. cp' \in Checkpoints /\ cp'.gen = cp.gen /\ cp'.confirmed = cp.confirmed /\ cp'.phase = run.at
    BY <1>1, <1>3, <1>5 DEF Checkpoints
  <2>2. cp.gen = dev.gen => \A r \in cp'.confirmed : \A o \in Span(r) : Has(dev, o)
    BY <1>3, <2>1 DEF Inv, CheckpointInv
  <2>3. PICK s : s = AfterPhase(run.at)
    OBVIOUS
  <2>4. /\ s \in WriteStages
        /\ \/ run.at = "prepared" /\ s = "transferring"
           \/ run.at = "transferring" /\ s = "admit"
           \/ run.at = "verifying" /\ run.whole /\ s = "verify"
           \/ run.at = "verifying" /\ ~run.whole /\ s = "finalizing"
           \/ run.at = "finalizing" /\ s = "complete"
    <3>1. \/ run.at = "prepared" /\ s = "transferring"
          \/ run.at = "transferring" /\ s = "admit"
          \/ run.at = "verifying" /\ run.whole /\ s = "verify"
          \/ run.at = "verifying" /\ ~run.whole /\ s = "finalizing"
          \/ run.at = "finalizing" /\ s = "complete"
      BY <1>1, <2>3 DEF AfterPhase
    <3>2. {"transferring", "admit", "verify", "finalizing", "complete"} \subseteq WriteStages
      BY DEF WriteStages, LoopStages, EndStages
    <3>. QED BY <3>1, <3>2
  <2>5. /\ run' \in Runs /\ run'.at = s /\ outcome' = outcome
        /\ run'.resumed = run.resumed /\ run'.whole = run.whole /\ run'.expect = run.expect
        /\ run'.reported = run.reported /\ run'.next = run.next
        /\ run'.fly = run.fly /\ run'.todo = run.todo /\ run'.cancelled = run.cancelled
        /\ run'.partial = run.partial /\ run'.mixed = run.mixed /\ run'.destructive = run.destructive
    BY <1>3, <1>5, <2>3, <2>4, GotoIs
  <2>6. ShapeOf(run') /\ ~Fresh(run')
    BY <1>3, <2>4, <2>5 DEF ShapeOf, Fresh, ResumeStages, FirstStages
  <2>7. HeldOf(run')
    BY <1>3, <2>4, <2>5 DEF HeldOf
  <2>8. ChunksOf(run')
    BY <1>3, <2>5 DEF ChunksOf
  <2>9. run'.at \in {"complete", "completing"} => cp'.phase = "finalizing"
    BY <2>1, <2>4, <2>5
  <2>. QED BY <1>1, <1>2, <1>3, <1>5, <2>1, <2>2, <2>4, <2>5, <2>6, <2>7, <2>8, <2>9, LinkFacts, GoesCommitted
<1>. QED BY <1>4, <1>5 DEF CommitPhase

\* A resume that is refused.
LEMMA RefusedKeeps ==
  ASSUME Inv, End("refused"), decl' = decl, cp' = cp, link' = link, dev' = dev, sink' = sink, cut' = cut,
         aborted' \in BOOLEAN, source' \in Nat, faults' \in Nat, resumes' \in Nat
  PROVE  Inv'
<1>1. run' = None /\ outcome' \in Outcomes \ {"none", "read-completed"}
  BY DEF End, Outcomes
<1>. QED BY <1>1, Ends

\* A resume is admitted or refused by its checkpoint.
LEMMA ValidateResumeKeeps == ASSUME Inv, ValidateResume PROVE Inv'
<1>1. At("validate") /\ decl' = decl /\ cp' = cp /\ link' = link /\ dev' = dev /\ sink' = sink /\ cut' = cut
      /\ aborted' = aborted /\ source' = source /\ faults' = faults /\ resumes' = resumes
      /\ ((MayResume /\ Goto("probe")) \/ End("refused"))
  BY DEF ValidateResume, World
<1>2. {"validate", "probe"} \subseteq WriteStages
  BY DEF WriteStages, ResumeStages
<1>3. Writing /\ run.at = "validate"
  BY <1>1, <1>2, AtIs
<1>4. run \in Runs /\ ShapeOf(run) /\ HeldOf(run) /\ cp # None
  BY <1>3, WritingFacts
<1>5. CASE End("refused")
  BY <1>1, <1>5, RefusedKeeps, LinkFacts
<1>6. CASE MayResume /\ Goto("probe")
  <2>1. cut => decl.repeatable
    BY <1>4, <1>6 DEF Inv, FinalInv, MayResume
  <2>2. /\ run'.at = "probe" /\ run'.resumed = run.resumed /\ run'.whole = run.whole
        /\ run'.expect = run.expect /\ run'.next = run.next /\ run'.fly = run.fly
        /\ run'.partial = run.partial /\ run'.mixed = run.mixed /\ run'.destructive = run.destructive
    BY <1>2, <1>4, <1>6, GotoIs
  <2>3. ShapeOf(run')
    BY <1>3, <1>4, <2>2 DEF ShapeOf, Fresh, ResumeStages, FirstStages
  <2>4. HeldOf(run')
    BY <1>4, <2>2, HeldStays
  <2>. QED BY <1>1, <1>2, <1>3, <1>6, <2>1, <2>3, <2>4, LinkFacts, GoesTo
<1>. QED BY <1>1, <1>5, <1>6

\* The device's account is taken: it is behind the device.
LEMMA TakesReport ==
  ASSUME Inv, Writing, run.at \in {"probe", "report"}, NEW s \in {"reconcile", "recipe"},
         run' = [run EXCEPT !.at = s, !.reported = dev.com],
         decl' = decl, cp' = cp, outcome' = outcome, link' = link, dev' = dev,
         sink' = sink, cut' = cut, aborted' \in BOOLEAN, source' \in Nat, faults' \in Nat, resumes' \in Nat
  PROVE  Inv'
<1>1. run \in Runs /\ ShapeOf(run) /\ HeldOf(run) /\ ChunksOf(run) /\ (cut => decl.repeatable)
  BY WritingFacts
<1>2. dev.com \in 0 .. Length /\ dev.com <= dev.com
  BY LinkFacts, Sizes DEF Devices
<1>3. s \in WriteStages
  BY DEF WriteStages, ResumeStages
<1>4. /\ run' \in Runs /\ run'.at = s /\ run'.reported = dev.com
      /\ run'.resumed = run.resumed /\ run'.whole = run.whole /\ run'.expect = run.expect
      /\ run'.next = run.next
      /\ run'.fly = run.fly /\ run'.todo = run.todo /\ run'.cancelled = run.cancelled
      /\ run'.partial = run.partial /\ run'.mixed = run.mixed /\ run'.destructive = run.destructive
  BY <1>1, <1>2, <1>3 DEF Runs
<1>5. ShapeOf(run')
  BY <1>1, <1>4 DEF ShapeOf, Fresh, ResumeStages, FirstStages
<1>6. HeldOf(run')
  BY <1>1, <1>2, <1>4 DEF HeldOf
<1>7. ChunksOf(run')
  BY <1>1, <1>4 DEF ChunksOf
<1>8. run'.at \notin {"complete", "completing"}
  BY <1>4
<1>. QED BY <1>1, <1>3, <1>4, <1>5, <1>6, <1>7, <1>8, Goes

\* The probe's report is taken, waited for, or refused.
LEMMA ProbeKeeps == ASSUME Inv, Probe PROVE Inv'
<1>1. At("probe") /\ decl' = decl /\ cp' = cp /\ link' = link /\ dev' = dev /\ sink' = sink /\ cut' = cut
      /\ aborted' = aborted /\ source' = source /\ faults' = faults /\ resumes' = resumes
      /\ \/ \E s \in {"reconcile", "recipe"} :
               run' = [run EXCEPT !.at = s, !.reported = dev.com] /\ outcome' = outcome
         \/ Goto("report")
         \/ End("refused")
  BY DEF Probe, World
<1>2. {"probe", "report"} \subseteq WriteStages
  BY DEF WriteStages, ResumeStages
<1>3. Writing /\ run.at = "probe"
  BY <1>1, <1>2, AtIs
<1>4. run \in Runs /\ ShapeOf(run) /\ HeldOf(run)
  BY <1>3, WritingFacts
<1>5. CASE End("refused")
  BY <1>1, <1>5, RefusedKeeps, LinkFacts
<1>6. CASE \E s \in {"reconcile", "recipe"} :
             run' = [run EXCEPT !.at = s, !.reported = dev.com] /\ outcome' = outcome
  <2>1. PICK s \in {"reconcile", "recipe"} :
             run' = [run EXCEPT !.at = s, !.reported = dev.com] /\ outcome' = outcome
    BY <1>6
  <2>. QED BY <1>1, <1>3, <2>1, LinkFacts, TakesReport
<1>7. CASE Goto("report")
  <2>2. /\ run'.at = "report" /\ run'.resumed = run.resumed /\ run'.whole = run.whole
        /\ run'.expect = run.expect /\ run'.next = run.next /\ run'.fly = run.fly
        /\ run'.partial = run.partial /\ run'.mixed = run.mixed /\ run'.destructive = run.destructive
    BY <1>2, <1>4, <1>7, GotoIs
  <2>3. ShapeOf(run')
    BY <1>3, <1>4, <2>2 DEF ShapeOf, Fresh, ResumeStages, FirstStages
  <2>4. HeldOf(run')
    BY <1>4, <2>2, HeldStays
  <2>. QED BY <1>1, <1>2, <1>3, <1>7, <2>3, <2>4, LinkFacts, GoesTo
<1>. QED BY <1>1, <1>5, <1>6, <1>7

\* The quiescent report is taken or refused.
LEMMA QuietReportKeeps == ASSUME Inv, QuietReport PROVE Inv'
<1>1. At("report") /\ decl' = decl /\ cp' = cp /\ link' = link /\ dev' = dev /\ sink' = sink /\ cut' = cut
      /\ aborted' = aborted /\ source' = source /\ faults' = faults /\ resumes' = resumes
      /\ \/ run' = [run EXCEPT !.at = "recipe", !.reported = dev.com] /\ outcome' = outcome
         \/ End("refused")
  BY DEF QuietReport, World
<1>2. {"report"} \subseteq WriteStages
  BY DEF WriteStages, ResumeStages
<1>3. Writing /\ run.at = "report"
  BY <1>1, <1>2, AtIs
<1>4. CASE End("refused")
  BY <1>1, <1>4, RefusedKeeps, LinkFacts
<1>5. CASE run' = [run EXCEPT !.at = "recipe", !.reported = dev.com] /\ outcome' = outcome
  BY <1>1, <1>3, <1>5, LinkFacts, TakesReport
<1>. QED BY <1>1, <1>4, <1>5

\* The resume recipe runs.
LEMMA ResumeRecipeKeeps == ASSUME Inv, ResumeRecipe PROVE Inv'
<1>1. At("recipe") /\ decl' = decl /\ cp' = cp /\ link' = link /\ dev' = dev /\ sink' = sink /\ cut' = cut
      /\ aborted' = aborted /\ source' = source /\ faults' = faults /\ resumes' = resumes
      /\ (Goto("reconcile") \/ End("refused"))
  BY DEF ResumeRecipe, World
<1>2. {"recipe", "reconcile"} \subseteq WriteStages
  BY DEF WriteStages, ResumeStages
<1>3. Writing /\ run.at = "recipe"
  BY <1>1, <1>2, AtIs
<1>4. run \in Runs /\ ShapeOf(run) /\ HeldOf(run)
  BY <1>3, WritingFacts
<1>5. CASE End("refused")
  BY <1>1, <1>5, RefusedKeeps, LinkFacts
<1>6. CASE Goto("reconcile")
  <2>2. /\ run'.at = "reconcile" /\ run'.resumed = run.resumed /\ run'.whole = run.whole
        /\ run'.expect = run.expect /\ run'.next = run.next /\ run'.fly = run.fly
        /\ run'.partial = run.partial /\ run'.mixed = run.mixed /\ run'.destructive = run.destructive
        /\ run'.reported = run.reported
    BY <1>2, <1>4, <1>6, GotoIs
  <2>3. ShapeOf(run')
    BY <1>3, <1>4, <2>2 DEF ShapeOf, Fresh, ResumeStages, FirstStages
  <2>4. HeldOf(run')
    BY <1>3, <1>4, <2>2 DEF HeldOf
  <2>. QED BY <1>1, <1>2, <1>3, <1>6, <2>3, <2>4, LinkFacts, GoesTo
<1>. QED BY <1>1, <1>5, <1>6

\* The octets a resume's report covers are on the device.
LEMMA ReportedHas ==
  ASSUME Inv, NEW p \in 0 .. Length, p <= dev.com, NEW o \in 0 .. p - 1
  PROVE  Has(dev, o)
BY LinkFacts, Sizes DEF Devices, DeviceInv, Has

\* The reported prefix is committed to the checkpoint.
LEMMA ReconcileKeeps == ASSUME Inv, Reconcile PROVE Inv'
<1>1. At("reconcile") /\ decl' = decl /\ link' = link /\ dev' = dev /\ sink' = sink /\ cut' = cut
      /\ aborted' = aborted /\ source' = source /\ resumes' = resumes
  BY DEF Reconcile, World
<1>2. {"reconcile", "whole", "remaining"} \subseteq WriteStages
  BY DEF WriteStages, ResumeStages
<1>3. Writing /\ run.at = "reconcile"
  BY <1>1, <1>2, AtIs
<1>4. run \in Runs /\ ShapeOf(run) /\ HeldOf(run) /\ ChunksOf(run) /\ (cut => decl.repeatable)
      /\ cp # None /\ cp \in Checkpoints
  BY <1>3, WritingFacts
<1>5. CASE End("refused") /\ faults' = faults + 1 /\ UNCHANGED cp
  <2>1. faults' \in Nat
    BY <1>5, LinkFacts
  <2>. QED BY <1>1, <1>5, <2>1, RefusedKeeps, LinkFacts
<1>6. CASE AfterReconcile /\ faults' = faults
           /\ (cp' = cp \/ cp' = [cp EXCEPT !.confirmed = Merged(Spans(@) \cup 0 .. run.reported - 1)])
  <2>1. PICK s \in {"whole", "remaining"} : Goto(s) /\ (s = "whole" => run.reported = Length)
    BY <1>6 DEF AfterReconcile
  <2>2. /\ run'.at = s /\ run'.resumed = run.resumed /\ run'.whole = run.whole
        /\ run'.expect = run.expect /\ run'.next = run.next /\ run'.fly = run.fly
        /\ run'.partial = run.partial /\ run'.mixed = run.mixed /\ run'.destructive = run.destructive
        /\ run'.reported = run.reported /\ run' \in Runs /\ run'.todo = run.todo /\ outcome' = outcome
    BY <1>2, <1>4, <2>1, GotoIs
  <2>3. ShapeOf(run') /\ ~Fresh(run')
    BY <1>3, <1>4, <2>1, <2>2 DEF ShapeOf, Fresh, ResumeStages, FirstStages
  <2>4. HeldOf(run')
    BY <1>3, <1>4, <2>2 DEF HeldOf
  <2>5. ChunksOf(run')
    BY <1>4, <2>2 DEF ChunksOf
  <2>6. PICK S : S = Merged(Spans(cp.confirmed) \cup 0 .. run.reported - 1)
    OBVIOUS
  <2>7. S \subseteq Ranges /\ \A r \in S : Span(r) \subseteq Spans(cp.confirmed) \cup 0 .. run.reported - 1
    BY <2>6 DEF Merged, Ranges
  <2>8. cp' = cp \/ cp' = [cp EXCEPT !.confirmed = S]
    BY <1>6, <2>6
  <2>9. cp' \in Checkpoints /\ cp'.gen = cp.gen /\ cp'.confirmed \in {cp.confirmed, S}
    BY <1>4, <2>7, <2>8 DEF Checkpoints
  <2>10. cp.gen = dev.gen => \A r \in cp'.confirmed : \A o \in Span(r) : Has(dev, o)
    <3>. SUFFICES ASSUME cp.gen = dev.gen, NEW r \in cp'.confirmed, NEW o \in Span(r) PROVE Has(dev, o)
      OBVIOUS
    <3>1. o \in Spans(cp.confirmed) \/ o \in 0 .. run.reported - 1
      BY <2>7, <2>9 DEF Spans
    <3>2. run.reported \in 0 .. Length /\ run.reported <= dev.com
      BY <1>3, <1>4 DEF HeldOf, Runs
    <3>. QED BY <3>1, <3>2, <1>4, ConfirmedHas, ReportedHas
  <2>11. run'.at \notin {"complete", "completing"}
    BY <2>1, <2>2
  <2>. QED BY <1>1, <1>2, <1>3, <1>4, <1>6, <2>2, <2>3, <2>4, <2>5, <2>9, <2>10, <2>11, LinkFacts, GoesCommitted
<1>. QED BY <1>5, <1>6 DEF Reconcile

\* Only the finalization is left.
LEMMA ResumeWholeKeeps == ASSUME Inv, ResumeWhole PROVE Inv'
<1>1. At("whole") /\ decl' = decl /\ cp' = cp /\ link' = link /\ dev' = dev /\ sink' = sink /\ cut' = cut
      /\ aborted' = aborted /\ source' = source /\ faults' = faults /\ resumes' = resumes
      /\ outcome' = outcome
      /\ run' = [run EXCEPT !.at = "finalizing", !.whole = TRUE, !.destructive = TRUE]
  BY DEF ResumeWhole, World
<1>2. {"whole", "finalizing"} \subseteq WriteStages
  BY DEF WriteStages, ResumeStages, EndStages
<1>3. Writing /\ run.at = "whole"
  BY <1>1, <1>2, AtIs
<1>4. run \in Runs /\ ShapeOf(run) /\ HeldOf(run) /\ ChunksOf(run) /\ (cut => decl.repeatable)
  BY <1>3, WritingFacts
<1>5. PICK yes \in BOOLEAN : yes = TRUE
  OBVIOUS
<1>6. run' = [run EXCEPT !.at = "finalizing", !.whole = yes, !.destructive = yes]
  BY <1>1, <1>5
<1>7. /\ run' \in Runs /\ run'.at = "finalizing"
      /\ run'.resumed = run.resumed /\ run'.whole = yes /\ run'.expect = run.expect
      /\ run'.reported = run.reported /\ run'.next = run.next
      /\ run'.fly = run.fly /\ run'.todo = run.todo /\ run'.cancelled = run.cancelled
      /\ run'.partial = run.partial /\ run'.mixed = run.mixed /\ run'.destructive = yes
  BY <1>2, <1>4, <1>6 DEF Runs
<1>8. run.resumed /\ run.reported = Length
  BY <1>3, <1>4 DEF ShapeOf, ResumeStages
<1>9. ShapeOf(run')
  BY <1>4, <1>7, <1>8 DEF ShapeOf, Fresh, ResumeStages, FirstStages
<1>10. link.usable => HasAll(dev)
  <2>1. link.usable => Length <= dev.com
    BY <1>3, <1>4, <1>8 DEF HeldOf
  <2>. QED BY <2>1, ReportedHas, Sizes DEF HasAll, Octets
<1>11. HeldOf(run')
  BY <1>4, <1>7, <1>8, <1>10 DEF HeldOf
<1>12. ChunksOf(run')
  BY <1>4, <1>7 DEF ChunksOf
<1>13. run'.at \notin {"complete", "completing"}
  BY <1>7
<1>. QED BY <1>1, <1>2, <1>3, <1>4, <1>7, <1>9, <1>11, <1>12, <1>13, LinkFacts, Goes

\* The remaining range is a transfer of its own.
LEMMA ResumeRemainingKeeps == ASSUME Inv, ResumeRemaining PROVE Inv'
<1>1. At("remaining") /\ decl' = decl /\ cp' = cp /\ link' = link /\ dev' = dev /\ sink' = sink /\ cut' = cut
      /\ aborted' = aborted /\ source' = source /\ faults' = faults /\ resumes' = resumes
      /\ outcome' = outcome
      /\ run' = [run EXCEPT !.at = "hash", !.expect = source, !.next = run.reported, !.durable = run.reported]
  BY DEF ResumeRemaining, World
<1>2. {"remaining", "hash"} \subseteq WriteStages
  BY DEF WriteStages, ResumeStages
<1>3. Writing /\ run.at = "remaining"
  BY <1>1, <1>2, AtIs
<1>4. run \in Runs /\ ShapeOf(run) /\ HeldOf(run) /\ ChunksOf(run) /\ (cut => decl.repeatable)
  BY <1>3, WritingFacts
<1>5. /\ run' \in Runs /\ run'.at = "hash"
      /\ run'.resumed = run.resumed /\ run'.whole = run.whole
      /\ run'.reported = run.reported /\ run'.next = run.reported
      /\ run'.fly = run.fly /\ run'.todo = run.todo /\ run'.cancelled = run.cancelled
      /\ run'.partial = run.partial /\ run'.mixed = run.mixed /\ run'.destructive = run.destructive
      /\ run.reported \in 0 .. Length
  BY <1>1, <1>2, <1>4, LinkFacts DEF Runs
<1>6. run.resumed
  BY <1>3, <1>4 DEF ShapeOf, ResumeStages
<1>7. ShapeOf(run')
  BY <1>3, <1>4, <1>5, <1>6 DEF ShapeOf, Fresh, ResumeStages, FirstStages
<1>8. link.usable => \A o \in 0 .. run.reported - 1 : Has(dev, o)
  BY <1>3, <1>4, <1>5, ReportedHas DEF HeldOf
<1>9. HeldOf(run')
  BY <1>5, <1>6, <1>8 DEF HeldOf
<1>10. ChunksOf(run')
  BY <1>4, <1>5 DEF ChunksOf
<1>11. run'.at \notin {"complete", "completing"}
  BY <1>5
<1>. QED BY <1>1, <1>2, <1>3, <1>4, <1>5, <1>7, <1>9, <1>10, <1>11, LinkFacts, Goes

-----------------------------------------------------------------------------
\* An extent is a range when it is not empty.
LEMMA ExtentIs ==
  ASSUME NEW lo \in 0 .. Length, NEW hi \in 0 .. Length, lo < hi
  PROVE  Extent(lo, hi) \in Ranges /\ Extent(lo, hi).lo = lo /\ Extent(lo, hi).hi = hi
BY DEF Extent, Ranges

\* The next chunk begins where the last one ended, and is not empty.
LEMMA NextChunkIs ==
  ASSUME run \in Runs, run.next < Length
  PROVE  /\ NextChunk \in Ranges /\ NextChunk.lo = run.next /\ Chunked(NextChunk)
         /\ NextChunk.hi \in run.next + 1 .. Length
<1>1. run.next \in 0 .. Length
  BY DEF Runs
<1>2. PICK hi : hi = IF run.next + Chunk < Length THEN run.next + Chunk ELSE Length
  OBVIOUS
<1>3. hi \in run.next + 1 .. Length /\ hi \in 0 .. Length
  BY <1>1, <1>2, Sizes
<1>4. run.next < hi
  BY <1>1, <1>3, Sizes
<1>5. NextChunk \in Ranges /\ NextChunk.lo = run.next /\ NextChunk.hi = hi
  BY <1>1, <1>2, <1>3, <1>4, ExtentIs DEF NextChunk
<1>. QED BY <1>2, <1>3, <1>5 DEF Chunked

\* admitAvailable(): the next chunk, or the settlement, or the end of the loop.
LEMMA AdmitKeeps == ASSUME Inv, Admit PROVE Inv'
<1>. DEFINE more == Cardinality(run.fly) < Window /\ run.next < Length
<1>1. At("admit") /\ decl' = decl /\ cp' = cp /\ link' = link /\ dev' = dev /\ sink' = sink /\ cut' = cut
      /\ aborted' = aborted /\ source' = source /\ faults' = faults /\ resumes' = resumes
      /\ outcome' = outcome
      /\ run' = [run EXCEPT !.cancelled = @ \/ (more /\ aborted),
                            !.at = IF more /\ ~aborted THEN "reading" ELSE WhenNoneAdmitted(run.fly)]
  BY DEF Admit, World
<1>2. {"admit", "reading", "settle", "after"} \subseteq WriteStages
  BY DEF WriteStages, LoopStages, EndStages
<1>3. Writing /\ run.at = "admit"
  BY <1>1, <1>2, AtIs
<1>4. run \in Runs /\ ShapeOf(run) /\ HeldOf(run) /\ ChunksOf(run) /\ (cut => decl.repeatable)
  BY <1>3, WritingFacts
<1>5. PICK cancelled \in BOOLEAN : cancelled = (run.cancelled \/ (more /\ aborted))
  OBVIOUS
<1>6. PICK at : at = IF more /\ ~aborted THEN "reading" ELSE WhenNoneAdmitted(run.fly)
  OBVIOUS
<1>7. run' = [run EXCEPT !.cancelled = cancelled, !.at = at]
  BY <1>1, <1>5, <1>6
<1>8. /\ at \in {"reading", "settle", "after"}
      /\ at = "reading" => run.next < Length
      /\ at = "after" => run.fly = {}
      /\ at = "after" /\ ~cancelled => run.next = Length
  <2>1. run.fly = {} => Cardinality(run.fly) < Window
    BY FS_EmptySet, Sizes
  <2>2. run.next \in 0 .. Length
    BY <1>4 DEF Runs
  <2>3. ~(run.next < Length) => run.next = Length
    BY <2>2, Sizes
  <2>. QED BY <1>5, <1>6, <2>1, <2>3 DEF WhenNoneAdmitted
<1>. HIDE DEF more
<1>9. /\ run' \in Runs /\ run'.at = at
      /\ run'.resumed = run.resumed /\ run'.whole = run.whole /\ run'.expect = run.expect
      /\ run'.reported = run.reported /\ run'.next = run.next
      /\ run'.fly = run.fly /\ run'.todo = run.todo /\ run'.cancelled = cancelled
      /\ run'.partial = run.partial /\ run'.mixed = run.mixed /\ run'.destructive = run.destructive
  BY <1>2, <1>4, <1>7, <1>8 DEF Runs
<1>10. ShapeOf(run')
  BY <1>3, <1>4, <1>8, <1>9 DEF ShapeOf, Fresh, ResumeStages, FirstStages
<1>11. HeldOf(run')
  BY <1>4, <1>8, <1>9, HeldStays
<1>12. ChunksOf(run')
  BY <1>4, <1>9 DEF ChunksOf
<1>13. run'.at \notin {"complete", "completing"} /\ run'.at \in WriteStages
  BY <1>2, <1>8, <1>9
<1>. QED BY <1>1, <1>3, <1>4, <1>9, <1>10, <1>11, <1>12, <1>13, LinkFacts, Goes

\* An execution goes on, and the link was used.
LEMMA GoesLinked ==
  ASSUME Inv, Writing, decl' = decl, cp' = cp, outcome' = outcome, dev' = dev,
         sink' = sink, cut' = cut, aborted' \in BOOLEAN, source' \in Nat, faults' \in Nat, resumes' \in Nat,
         link' \in Links, link'.usable = link.usable, link'.reports \subseteq link.reports,
         \A w \in link'.wire : w.v # None /\ Chunked(w.range),
         run' \in Runs, run'.at \in WriteStages, ShapeOf(run'), ~Fresh(run'), HeldOf(run)', ChunksOf(run'),
         run'.at \in {"complete", "completing"} => cp.phase = "finalizing",
         cut => decl.repeatable
  PROVE  Inv'
<1>1. RuntimeTypeOK'
  BY DEF Inv, RuntimeTypeOK
<1>2. run # None /\ run' # None /\ run'.at \notin ReadStages
  BY NoneAssumption DEF Writing, WriteStages, ReadStages, ResumeStages, FirstStages, LoopStages, EndStages
<1>3. DeviceInv' /\ IdleInv'
  BY <1>2 DEF Inv, DeviceInv, IdleInv
<1>4. CheckpointInv'
  BY <1>2 DEF Inv, CheckpointInv, Writing, Has
<1>5. LinkInv'
  BY <1>2, LinkFacts DEF LinkInv
<1>6. RunInv'
  <2>1. ShapeOf(run)'
    BY DEF ShapeOf, Fresh
  <2>. QED BY <2>1 DEF RunInv
<1>7. FinalInv'
  BY <1>2 DEF Inv, FinalInv, Writing
<1>8. SinkInv'
  BY <1>2 DEF Inv, SinkInv, SinkExact, SinkEnd, Reading
<1>9. CountInv'
  BY <1>2, LinkFacts DEF CountInv, ChunksOf
<1>. QED BY <1>1, <1>3, <1>4, <1>5, <1>6, <1>7, <1>8, <1>9 DEF Inv

\* The chunk was read and is handed to the adapter, or the abort is seen.
LEMMA AdmitReadKeeps == ASSUME Inv, AdmitRead PROVE Inv'
<1>1. At("reading") /\ decl' = decl /\ cp' = cp /\ dev' = dev /\ sink' = sink /\ cut' = cut
      /\ aborted' = aborted /\ source' = source /\ faults' = faults /\ resumes' = resumes
      /\ outcome' = outcome
  BY DEF AdmitRead, World
<1>2. {"reading", "admitting", "settle"} \subseteq WriteStages
  BY DEF WriteStages, LoopStages, EndStages
<1>3. Writing /\ run.at = "reading"
  BY <1>1, <1>2, AtIs
<1>4. run \in Runs /\ ShapeOf(run) /\ HeldOf(run) /\ ChunksOf(run) /\ (cut => decl.repeatable)
  BY <1>3, WritingFacts
<1>5. run.next < Length /\ run.next \in 0 .. Length
  BY <1>3, <1>4 DEF ShapeOf, Runs
<1>6. PICK c \in Ranges : c = NextChunk
  BY <1>4, <1>5, NextChunkIs
<1>7. c.lo = run.next /\ c.hi \in run.next + 1 .. Length /\ c.hi \in 0 .. Length /\ Chunked(c)
  BY <1>4, <1>5, <1>6, NextChunkIs
<1>8. PICK mixed \in BOOLEAN : mixed = (run.mixed \/ source # run.expect)
  OBVIOUS
<1>9. PICK read : read = [run EXCEPT !.fly = @ \cup {c}, !.mixed = mixed]
  OBVIOUS
<1>10. PICK yes \in BOOLEAN : yes = TRUE
  OBVIOUS
<1>11. \/ /\ run' = [read EXCEPT !.at = "settle", !.cancelled = yes, !.next = c.hi]
          /\ link' = link
       \/ /\ run' = [read EXCEPT !.at = "admitting", !.destructive = yes]
          /\ link' = IF link.usable THEN [link EXCEPT !.wire = @ \cup {[range |-> c, v |-> source]}] ELSE link
  BY <1>6, <1>8, <1>9, <1>10 DEF AdmitRead
<1>12. /\ read \in Runs /\ read.fly = run.fly \cup {c} /\ read.mixed = mixed
       /\ read.resumed = run.resumed /\ read.whole = run.whole /\ read.expect = run.expect
       /\ read.reported = run.reported /\ read.next = run.next /\ read.todo = run.todo
       /\ read.partial = run.partial /\ read.destructive = run.destructive
  BY <1>4, <1>9 DEF Runs
<1>13. ChunksOf(read)
  BY <1>4, <1>7, <1>12 DEF ChunksOf
<1>14. \A f \in run.fly : Span(f) \subseteq Octets
  BY <1>3, SpansAreOctets DEF Writing
<1>15. CASE run' = [read EXCEPT !.at = "settle", !.cancelled = yes, !.next = c.hi] /\ link' = link
  <2>1. /\ run' \in Runs /\ run'.at = "settle" /\ run'.next = c.hi /\ run'.cancelled = yes
        /\ run'.fly = read.fly /\ run'.mixed = read.mixed
        /\ run'.resumed = read.resumed /\ run'.whole = read.whole /\ run'.expect = read.expect
        /\ run'.reported = read.reported /\ run'.todo = read.todo
        /\ run'.partial = read.partial /\ run'.destructive = read.destructive
    BY <1>2, <1>7, <1>12, <1>15 DEF Runs
  <2>2. ShapeOf(run')
    BY <1>3, <1>4, <1>12, <2>1 DEF ShapeOf, Fresh, ResumeStages, FirstStages
  <2>3. \A o \in 0 .. c.hi - 1 : o \in 0 .. run.next - 1 \/ o \in Span(c)
    BY <1>5, <1>7 DEF Span
  <2>4. HeldOf(run')
    <3>1. link.usable /\ ~run'.partial =>
            \A o \in 0 .. run'.next - 1 : Has(dev, o) \/ \E f \in run'.fly : o \in Span(f)
      BY <1>4, <1>12, <2>1, <2>3 DEF HeldOf
    <3>2. ~run'.resumed /\ ~run'.mixed =>
            (\A w \in link.wire : w.v = 0) /\ \A o \in Octets : dev.img[o] \in {None, 0}
      BY <1>4, <1>8, <1>12, <2>1 DEF HeldOf
    <3>. QED BY <2>1, <3>1, <3>2 DEF HeldOf
  <2>5. ChunksOf(run')
    BY <1>13, <2>1 DEF ChunksOf
  <2>6. run'.at \notin {"complete", "completing"}
    BY <2>1
  <2>. QED BY <1>1, <1>2, <1>3, <1>4, <1>15, <2>1, <2>2, <2>4, <2>5, <2>6, LinkFacts, Goes
<1>16. CASE /\ run' = [read EXCEPT !.at = "admitting", !.destructive = yes]
            /\ link' = IF link.usable THEN [link EXCEPT !.wire = @ \cup {[range |-> c, v |-> source]}] ELSE link
  <2>1. /\ run' \in Runs /\ run'.at = "admitting" /\ run'.destructive = yes
        /\ run'.fly = read.fly /\ run'.mixed = read.mixed /\ run'.next = read.next
        /\ run'.resumed = read.resumed /\ run'.whole = read.whole /\ run'.expect = read.expect
        /\ run'.reported = read.reported /\ run'.todo = read.todo
        /\ run'.partial = read.partial
    BY <1>2, <1>12, <1>16 DEF Runs
  <2>2. \E f \in run'.fly : f.lo = run'.next /\ Chunked(f)
    BY <1>7, <1>12, <2>1
  <2>3. ShapeOf(run') /\ ~Fresh(run')
    BY <1>3, <1>4, <1>5, <1>10, <1>12, <2>1, <2>2 DEF ShapeOf, Fresh, ResumeStages, FirstStages
  <2>4. source \in Nat /\ source # None /\ link \in Links
    BY LinkFacts, NoneAssumption
  <2>5. PICK w \in Carriers : w = [range |-> c, v |-> source]
    BY <2>4 DEF Carriers
  <2>6. w.range = c /\ w.v = source
    BY <2>5
  <2>7. PICK more \in SUBSET Carriers : more = IF link.usable THEN {w} ELSE {}
    OBVIOUS
  <2>8. link' = link \/ link' = [link EXCEPT !.wire = @ \cup more]
    BY <1>16, <2>5, <2>7
  <2>9. /\ link' \in Links /\ link'.usable = link.usable /\ link'.reports = link.reports
        /\ link'.wire \subseteq link.wire \cup {w}
    BY <2>4, <2>7, <2>8 DEF Links
  <2>10. \A x \in link'.wire : x.v # None /\ Chunked(x.range)
    BY <1>3, <1>7, <2>4, <2>6, <2>9, LinkFacts
  <2>11. HeldOf(run)'
    <3>1. (link.usable /\ ~run.partial =>
            \A o \in 0 .. run.next - 1 : Has(dev, o) \/ \E f \in run.fly : o \in Span(f))'
      BY <1>1, <1>4, <1>12, <2>1, <2>9 DEF HeldOf, Has
    <3>2. (~run.resumed /\ ~run.mixed =>
            (\A x \in link.wire : x.v = 0) /\ \A o \in Octets : dev.img[o] \in {None, 0})'
      <4>. SUFFICES ASSUME ~run'.resumed, ~run'.mixed
                    PROVE  (\A x \in link'.wire : x.v = 0) /\ \A o \in Octets : dev'.img[o] \in {None, 0}
        OBVIOUS
      <4>1. ~run.resumed /\ ~run.mixed /\ source = run.expect
        BY <1>8, <1>12, <2>1
      <4>2. run.expect = 0
        BY <1>4, <4>1 DEF ShapeOf
      <4>3. (\A x \in link.wire : x.v = 0) /\ \A o \in Octets : dev.img[o] \in {None, 0}
        BY <1>4, <4>1 DEF HeldOf
      <4>. QED BY <1>1, <2>6, <2>9, <4>1, <4>2, <4>3
    <3>. QED BY <2>1, <3>1, <3>2 DEF HeldOf
  <2>12. ChunksOf(run')
    BY <1>13, <2>1 DEF ChunksOf
  <2>13. run'.at \notin {"complete", "completing"} /\ run'.at \in WriteStages
    BY <1>2, <2>1
  <2>. QED BY <1>1, <1>3, <1>4, <2>1, <2>3, <2>9, <2>10, <2>11, <2>12, <2>13, LinkFacts, GoesLinked
<1>. QED BY <1>11, <1>15, <1>16

\* The adapter took the chunk, or the wait for it ended.
LEMMA AdmittedKeeps == ASSUME Inv, Admitted PROVE Inv'
<1>1. At("admitting") /\ decl' = decl /\ cp' = cp /\ link' = link /\ dev' = dev /\ sink' = sink /\ cut' = cut
      /\ aborted' = aborted /\ source' = source /\ faults' = faults /\ resumes' = resumes
  BY DEF Admitted, World
<1>2. {"admit", "admitting", "settle"} \subseteq WriteStages
  BY DEF WriteStages, LoopStages, EndStages
<1>3. Writing /\ run.at = "admitting"
  BY <1>1, <1>2, AtIs
<1>4. run \in Runs /\ ShapeOf(run) /\ HeldOf(run) /\ ChunksOf(run) /\ (cut => decl.repeatable)
  BY <1>3, WritingFacts
<1>5. run.next < Length /\ run.next \in 0 .. Length
  BY <1>3, <1>4 DEF ShapeOf, Runs
<1>6. PICK c \in Ranges : c = NextChunk
  BY <1>4, <1>5, NextChunkIs
<1>7. c.lo = run.next /\ c.hi \in run.next + 1 .. Length /\ c.hi \in 0 .. Length /\ Chunked(c)
  BY <1>4, <1>5, <1>6, NextChunkIs
<1>8. CASE Failed
  BY <1>1, <1>8, FailedIs, LinkFacts, Ends
<1>9. ASSUME NEW at \in {"admit", "settle"}, NEW cancelled \in BOOLEAN, outcome' = outcome,
             run' = [run EXCEPT !.next = c.hi, !.at = at, !.cancelled = cancelled]
      PROVE  Inv'
  <2>1. /\ run' \in Runs /\ run'.at = at /\ run'.next = c.hi /\ run'.cancelled = cancelled
        /\ run'.fly = run.fly /\ run'.mixed = run.mixed
        /\ run'.resumed = run.resumed /\ run'.whole = run.whole /\ run'.expect = run.expect
        /\ run'.reported = run.reported /\ run'.todo = run.todo
        /\ run'.partial = run.partial /\ run'.destructive = run.destructive
    BY <1>2, <1>4, <1>7, <1>9 DEF Runs
  <2>2. ShapeOf(run')
    BY <1>3, <1>4, <2>1 DEF ShapeOf, Fresh, ResumeStages, FirstStages
  <2>3. PICK f \in run.fly : f.lo = run.next /\ Chunked(f)
    BY <1>3, <1>4 DEF ShapeOf
  <2>4. f.hi = c.hi
    BY <1>7, <2>3 DEF Chunked
  <2>5. \A o \in 0 .. c.hi - 1 : o \in 0 .. run.next - 1 \/ o \in Span(f)
    BY <1>5, <1>7, <2>3, <2>4 DEF Span
  <2>6. HeldOf(run')
    <3>1. link.usable /\ ~run'.partial =>
            \A o \in 0 .. run'.next - 1 : Has(dev, o) \/ \E g \in run'.fly : o \in Span(g)
      BY <1>4, <2>1, <2>3, <2>5 DEF HeldOf
    <3>2. ~run'.resumed /\ ~run'.mixed =>
            (\A w \in link.wire : w.v = 0) /\ \A o \in Octets : dev.img[o] \in {None, 0}
      BY <1>4, <2>1 DEF HeldOf
    <3>. QED BY <2>1, <3>1, <3>2 DEF HeldOf
  <2>7. ChunksOf(run')
    BY <1>4, <2>1 DEF ChunksOf
  <2>8. run'.at \notin {"complete", "completing"} /\ run'.at \in WriteStages
    BY <1>2, <2>1
  <2>. QED BY <1>1, <1>3, <1>4, <1>9, <2>1, <2>2, <2>6, <2>7, <2>8, LinkFacts, Goes
<1>10. PICK sent : sent = [run EXCEPT !.next = c.hi]
  OBVIOUS
<1>11. sent \in Runs /\ sent.cancelled = run.cancelled /\ run.cancelled \in BOOLEAN
  BY <1>4, <1>7, <1>10 DEF Runs
<1>12. CASE run' = [sent EXCEPT !.at = "admit"] /\ outcome' = outcome
  <2>1. run' = [run EXCEPT !.next = c.hi, !.at = "admit", !.cancelled = run.cancelled]
    BY <1>4, <1>10, <1>12 DEF Runs
  <2>. QED BY <1>9, <1>11, <1>12, <2>1
<1>13. CASE run' = [sent EXCEPT !.at = "settle", !.cancelled = TRUE] /\ outcome' = outcome
  <2>1. run' = [run EXCEPT !.next = c.hi, !.at = "settle", !.cancelled = TRUE]
    BY <1>10, <1>13
  <2>. QED BY <1>9, <1>13, <2>1
<1>. QED BY <1>6, <1>8, <1>10, <1>12, <1>13 DEF Admitted

\* An observation is counted.
LEMMA SettleKeeps == ASSUME Inv, Settle PROVE Inv'
<1>1. At("settle") /\ decl' = decl /\ cp' = cp /\ link' = link /\ dev' = dev /\ sink' = sink /\ cut' = cut
      /\ aborted' = aborted /\ source' = source /\ faults' = faults /\ resumes' = resumes
      /\ \/ Failed
         \/ /\ run.observed # MaxObservations /\ outcome' = outcome
            /\ run' = [run EXCEPT !.at = "awaiting", !.observed = @ + 1]
  BY DEF Settle, World
<1>2. {"settle", "awaiting"} \subseteq WriteStages
  BY DEF WriteStages, LoopStages
<1>3. Writing /\ run.at = "settle"
  BY <1>1, <1>2, AtIs
<1>4. run \in Runs /\ ShapeOf(run) /\ HeldOf(run) /\ ChunksOf(run) /\ (cut => decl.repeatable)
  BY <1>3, WritingFacts
<1>5. CASE Failed
  BY <1>1, <1>5, FailedIs, LinkFacts, Ends
<1>6. CASE /\ run.observed # MaxObservations /\ outcome' = outcome
           /\ run' = [run EXCEPT !.at = "awaiting", !.observed = @ + 1]
  <2>1. run.observed \in 0 .. MaxObservations /\ run.observed + 1 \in 0 .. MaxObservations
    BY <1>4, <1>6, Sizes DEF Runs
  <2>2. /\ run' \in Runs /\ run'.at = "awaiting" /\ run'.next = run.next /\ run'.cancelled = run.cancelled
        /\ run'.fly = run.fly /\ run'.mixed = run.mixed
        /\ run'.resumed = run.resumed /\ run'.whole = run.whole /\ run'.expect = run.expect
        /\ run'.reported = run.reported /\ run'.todo = run.todo
        /\ run'.partial = run.partial /\ run'.destructive = run.destructive
    BY <1>2, <1>4, <1>6, <2>1 DEF Runs
  <2>3. ShapeOf(run')
    BY <1>3, <1>4, <2>2 DEF ShapeOf, Fresh, ResumeStages, FirstStages
  <2>4. HeldOf(run')
    BY <1>4, <2>2, HeldStays
  <2>5. ChunksOf(run')
    BY <1>4, <2>2 DEF ChunksOf
  <2>6. run'.at \notin {"complete", "completing"} /\ run'.at \in WriteStages
    BY <1>2, <2>2
  <2>. QED BY <1>1, <1>3, <1>4, <1>6, <2>2, <2>3, <2>4, <2>5, <2>6, LinkFacts, Goes
<1>. QED BY <1>1, <1>5, <1>6

-----------------------------------------------------------------------------
\* Reports of ranges are taken: what a whole one says is on the device.
LEMMA SettleRangesKeeps == ASSUME Inv, SettleRanges PROVE Inv'
<1>1. At("awaiting") /\ decl' = decl /\ cp' = cp /\ dev' = dev /\ sink' = sink /\ cut' = cut
      /\ aborted' = aborted /\ source' = source /\ faults' = faults /\ resumes' = resumes
      /\ outcome' = outcome /\ ~decl.prefix /\ link.usable
  BY DEF SettleRanges, World
<1>2. {"awaiting", "confirm"} \subseteq WriteStages
  BY DEF WriteStages, LoopStages
<1>3. Writing /\ run.at = "awaiting"
  BY <1>1, <1>2, AtIs
<1>4. run \in Runs /\ ShapeOf(run) /\ HeldOf(run) /\ ChunksOf(run) /\ (cut => decl.repeatable)
  BY <1>3, WritingFacts
<1>5. PICK S \in SUBSET link.reports :
        /\ run' = [run EXCEPT !.at = "confirm", !.fly = @ \ {s.range : s \in S},
                              !.todo = {s.range : s \in {s \in S : s.whole}},
                              !.partial = @ \/ {s \in S : s.whole} # S]
        /\ link' = [link EXCEPT !.reports = @ \ S]
  BY DEF SettleRanges
<1>6. link \in Links /\ S \subseteq Reports
  BY <1>5, LinkFacts DEF Links
<1>7. PICK gone : gone = {s.range : s \in S}
  OBVIOUS
<1>8. PICK kept : kept = {s.range : s \in {s \in S : s.whole}}
  OBVIOUS
<1>9. kept \in SUBSET Ranges
  BY <1>6, <1>8 DEF Reports
<1>10. PICK partial \in BOOLEAN : partial = (run.partial \/ {s \in S : s.whole} # S)
  OBVIOUS
<1>11. run' = [run EXCEPT !.at = "confirm", !.fly = @ \ gone, !.todo = kept, !.partial = partial]
  BY <1>5, <1>7, <1>8, <1>10
<1>12. /\ run' \in Runs /\ run'.at = "confirm" /\ run'.next = run.next /\ run'.cancelled = run.cancelled
       /\ run'.fly = run.fly \ gone /\ run'.mixed = run.mixed
       /\ run'.resumed = run.resumed /\ run'.whole = run.whole /\ run'.expect = run.expect
       /\ run'.reported = run.reported /\ run'.todo = kept
       /\ run'.partial = partial /\ run'.destructive = run.destructive
  BY <1>2, <1>4, <1>9, <1>11 DEF Runs
<1>13. /\ link' \in Links /\ link'.usable = link.usable /\ link'.wire = link.wire
       /\ link'.reports = link.reports \ S
  BY <1>5, <1>6 DEF Links
<1>14. ShapeOf(run') /\ ~Fresh(run')
  BY <1>3, <1>4, <1>12 DEF ShapeOf, Fresh, ResumeStages, FirstStages
<1>15. \A s \in S : s.whole => \A o \in Span(s.range) : Has(dev, o)
  BY <1>1, <1>3, <1>5, LinkFacts DEF Has
<1>16. \A t \in kept : \A o \in Span(t) : Has(dev, o)
  BY <1>8, <1>15
<1>17. link.usable /\ ~partial => \A o \in 0 .. run.next - 1 : Has(dev, o) \/ \E f \in run.fly \ gone : o \in Span(f)
  <2>. SUFFICES ASSUME ~partial, NEW o \in 0 .. run.next - 1, ~Has(dev, o)
                PROVE  \E f \in run.fly \ gone : o \in Span(f)
    OBVIOUS
  <2>1. ~run.partial /\ \A s \in S : s.whole
    BY <1>10
  <2>2. PICK f \in run.fly : o \in Span(f)
    BY <1>1, <1>4, <2>1 DEF HeldOf
  <2>3. f \notin gone
    BY <1>7, <1>15, <2>1, <2>2
  <2>. QED BY <2>2, <2>3
<1>18. HeldOf(run)'
  <2>1. (link.usable /\ ~run.partial =>
            \A o \in 0 .. run.next - 1 : Has(dev, o) \/ \E f \in run.fly : o \in Span(f))'
    BY <1>1, <1>12, <1>13, <1>17 DEF Has
  <2>2. (~run.resumed /\ ~run.mixed =>
            (\A x \in link.wire : x.v = 0) /\ \A o \in Octets : dev.img[o] \in {None, 0})'
    BY <1>1, <1>4, <1>12, <1>13 DEF HeldOf
  <2>3. (\A t \in run.todo : \A o \in Span(t) : Has(dev, o))'
    BY <1>1, <1>12, <1>16 DEF Has
  <2>. QED BY <1>12, <2>1, <2>2, <2>3 DEF HeldOf
<1>19. ChunksOf(run')
  <2>1. \A t \in kept : Chunked(t)
    BY <1>5, <1>8, LinkFacts
  <2>. QED BY <1>1, <1>4, <1>12, <2>1 DEF ChunksOf
<1>20. \A w \in link'.wire : w.v # None /\ Chunked(w.range)
  BY <1>3, <1>13, LinkFacts
<1>21. run'.at \notin {"complete", "completing"} /\ run'.at \in WriteStages
  BY <1>2, <1>12
<1>. QED BY <1>1, <1>3, <1>4, <1>12, <1>13, <1>14, <1>18, <1>19, <1>20, <1>21, LinkFacts, GoesLinked

\* A cumulative report is taken: what it says is durable.
LEMMA SettlePrefixKeeps == ASSUME Inv, SettlePrefix PROVE Inv'
<1>1. At("awaiting") /\ decl' = decl /\ cp' = cp /\ dev' = dev /\ sink' = sink /\ cut' = cut /\ link' = link
      /\ aborted' = aborted /\ source' = source /\ faults' = faults /\ resumes' = resumes
      /\ decl.prefix
  BY DEF SettlePrefix, World
<1>2. {"awaiting", "confirm"} \subseteq WriteStages
  BY DEF WriteStages, LoopStages
<1>3. Writing /\ run.at = "awaiting"
  BY <1>1, <1>2, AtIs
<1>4. run \in Runs /\ ShapeOf(run) /\ HeldOf(run) /\ ChunksOf(run) /\ (cut => decl.repeatable)
  BY <1>3, WritingFacts
<1>5. CASE Failed
  BY <1>1, <1>5, FailedIs, LinkFacts, Ends
<1>6. ASSUME NEW p \in 0 .. dev.com, ~(p < run.durable), ~(p > run.next), outcome' = outcome,
             run' = [run EXCEPT !.at = "confirm", !.durable = p, !.fly = {f \in @ : f.hi > p},
                                !.todo = IF p > run.durable THEN {Extent(run.durable, p)} ELSE {}]
      PROVE  Inv'
  <2>1. dev.com \in 0 .. Length /\ p \in 0 .. Length /\ p <= dev.com /\ run.durable \in 0 .. Length
    BY <1>4, <1>6, LinkFacts, Sizes DEF Devices, Runs
  <2>2. PICK todo : todo = IF p > run.durable THEN {Extent(run.durable, p)} ELSE {}
    OBVIOUS
  <2>3. todo \in SUBSET Ranges /\ \A t \in todo : t.lo = run.durable /\ t.hi = p
    BY <2>1, <2>2, ExtentIs
  <2>4. PICK fly : fly = {f \in run.fly : f.hi > p}
    OBVIOUS
  <2>5. fly \in SUBSET Ranges
    BY <1>4, <2>4 DEF Runs
  <2>6. run' = [run EXCEPT !.at = "confirm", !.durable = p, !.fly = fly, !.todo = todo]
    BY <1>6, <2>2, <2>4
  <2>7. /\ run' \in Runs /\ run'.at = "confirm" /\ run'.next = run.next /\ run'.cancelled = run.cancelled
        /\ run'.fly = fly /\ run'.mixed = run.mixed
        /\ run'.resumed = run.resumed /\ run'.whole = run.whole /\ run'.expect = run.expect
        /\ run'.reported = run.reported /\ run'.todo = todo
        /\ run'.partial = run.partial /\ run'.destructive = run.destructive
    BY <1>2, <1>4, <2>1, <2>3, <2>5, <2>6 DEF Runs
  <2>8. ShapeOf(run')
    BY <1>3, <1>4, <2>7 DEF ShapeOf, Fresh, ResumeStages, FirstStages
  <2>9. \A o \in 0 .. p - 1 : Has(dev, o)
    BY <2>1, ReportedHas
  <2>10. \A t \in todo : \A o \in Span(t) : Has(dev, o)
    <3>. SUFFICES ASSUME NEW t \in todo, NEW o \in Span(t) PROVE o \in 0 .. p - 1
      BY <2>9
    <3>. QED BY <2>1, <2>3 DEF Span
  <2>11. link.usable /\ ~run.partial =>
            \A o \in 0 .. run.next - 1 : Has(dev, o) \/ \E f \in fly : o \in Span(f)
    <3>. SUFFICES ASSUME link.usable, ~run.partial, NEW o \in 0 .. run.next - 1, ~Has(dev, o)
                  PROVE  \E f \in fly : o \in Span(f)
      OBVIOUS
    <3>1. PICK f \in run.fly : o \in Span(f)
      BY <1>4 DEF HeldOf
    <3>2. f \in Ranges
      BY <1>4, <3>1 DEF Runs
    <3>3. o \in 0 .. f.hi - 1 /\ f.hi \in 0 .. Length
      BY <3>1, <3>2, Sizes DEF Span, Ranges
    <3>4. f.hi > p
      BY <2>1, <2>9, <3>3
    <3>. QED BY <2>4, <3>1, <3>4
  <2>12. HeldOf(run')
    <3>1. ~run'.resumed /\ ~run'.mixed =>
            (\A w \in link.wire : w.v = 0) /\ \A o \in Octets : dev.img[o] \in {None, 0}
      BY <1>4, <2>7 DEF HeldOf
    <3>. QED BY <2>7, <2>10, <2>11, <3>1 DEF HeldOf
  <2>13. ChunksOf(run')
    <3>1. \E t : todo \subseteq {t}
      BY <2>2
    <3>. QED BY <1>1, <1>4, <2>4, <2>7, <3>1 DEF ChunksOf
  <2>14. run'.at \notin {"complete", "completing"} /\ run'.at \in WriteStages
    BY <1>2, <2>7
  <2>. QED BY <1>1, <1>3, <1>4, <1>6, <2>7, <2>8, <2>12, <2>13, <2>14, LinkFacts, Goes
<1>. QED BY <1>5, <1>6 DEF SettlePrefix

\* The wait for an observation ends without one.
LEMMA SettleFailsKeeps == ASSUME Inv, SettleFails PROVE Inv'
<1>1. run' = None /\ outcome' \in Outcomes \ {"none", "read-completed"}
  BY DEF SettleFails, End, Outcomes
<1>2. decl' = decl /\ cp' = cp /\ link' = link /\ dev' = dev /\ sink' = sink /\ cut' = cut
      /\ aborted' = aborted /\ source' = source /\ faults' = faults /\ resumes' = resumes
  BY DEF SettleFails, World
<1>. QED BY <1>1, <1>2, LinkFacts, Ends

\* A settled range is committed to the checkpoint.
LEMMA ConfirmKeeps == ASSUME Inv, Confirm PROVE Inv'
<1>1. At("confirm") /\ decl' = decl /\ link' = link /\ dev' = dev /\ sink' = sink /\ cut' = cut
      /\ aborted' = aborted /\ source' = source /\ resumes' = resumes
      /\ \/ Failed /\ faults' \in {faults, faults + 1} /\ cp' = cp
         \/ /\ outcome' = outcome /\ faults' = faults
            /\ \E r \in run.todo : /\ cp' = [cp EXCEPT !.confirmed = @ \cup {r}]
                                   /\ run' = [run EXCEPT !.todo = @ \ {r}]
  BY DEF Confirm, World
<1>2. {"confirm"} \subseteq WriteStages
  BY DEF WriteStages, LoopStages
<1>3. Writing /\ run.at = "confirm"
  BY <1>1, <1>2, AtIs
<1>4. run \in Runs /\ ShapeOf(run) /\ HeldOf(run) /\ ChunksOf(run) /\ (cut => decl.repeatable)
      /\ cp # None /\ cp \in Checkpoints
  BY <1>3, WritingFacts
<1>5. CASE Failed /\ faults' \in {faults, faults + 1} /\ cp' = cp
  <2>1. faults' \in Nat
    BY <1>5, LinkFacts
  <2>. QED BY <1>1, <1>5, <2>1, FailedIs, LinkFacts, Ends
<1>6. ASSUME NEW r \in run.todo, outcome' = outcome, faults' = faults,
             cp' = [cp EXCEPT !.confirmed = @ \cup {r}], run' = [run EXCEPT !.todo = @ \ {r}]
      PROVE  Inv'
  <2>1. r \in Ranges
    BY <1>4 DEF Runs
  <2>2. cp' \in Checkpoints /\ cp'.gen = cp.gen /\ cp'.confirmed = cp.confirmed \cup {r}
    BY <1>4, <1>6, <2>1 DEF Checkpoints
  <2>3. cp.gen = dev.gen => \A c \in cp'.confirmed : \A o \in Span(c) : Has(dev, o)
    <3>1. cp.gen = dev.gen => \A c \in cp.confirmed : \A o \in Span(c) : Has(dev, o)
      BY <1>4 DEF Inv, CheckpointInv
    <3>2. cp.gen = dev.gen => \A o \in Span(r) : Has(dev, o)
      BY <1>3, <1>4, <1>6 DEF HeldOf
    <3>. QED BY <2>2, <3>1, <3>2
  <2>4. /\ run' \in Runs /\ run'.at = run.at /\ run'.next = run.next /\ run'.cancelled = run.cancelled
        /\ run'.fly = run.fly /\ run'.mixed = run.mixed
        /\ run'.resumed = run.resumed /\ run'.whole = run.whole /\ run'.expect = run.expect
        /\ run'.reported = run.reported /\ run'.todo = run.todo \ {r}
        /\ run'.partial = run.partial /\ run'.destructive = run.destructive
    BY <1>4, <1>6 DEF Runs
  <2>5. ShapeOf(run') /\ ~Fresh(run')
    BY <1>3, <1>4, <2>4 DEF ShapeOf, Fresh, ResumeStages, FirstStages
  <2>6. HeldOf(run')
    BY <1>3, <1>4, <2>4 DEF HeldOf
  <2>7. ChunksOf(run')
    BY <1>4, <2>4 DEF ChunksOf
  <2>8. run'.at \notin {"complete", "completing"} /\ run'.at \in WriteStages
    BY <1>2, <1>3, <2>4
  <2>. QED BY <1>1, <1>3, <1>4, <1>6, <2>2, <2>3, <2>4, <2>5, <2>6, <2>7, <2>8, LinkFacts, GoesCommitted
<1>. QED BY <1>1, <1>5, <1>6

\* The loop goes on, or ends, after its confirmations.
LEMMA ObservedKeeps == ASSUME Inv, Observed PROVE Inv'
<1>1. At("confirm") /\ decl' = decl /\ cp' = cp /\ link' = link /\ dev' = dev /\ sink' = sink /\ cut' = cut
      /\ aborted' = aborted /\ source' = source /\ faults' = faults /\ resumes' = resumes
      /\ outcome' = outcome
  BY DEF Observed, World
<1>2. {"confirm", "admit", "settle", "after"} \subseteq WriteStages
  BY DEF WriteStages, LoopStages, EndStages
<1>3. Writing /\ run.at = "confirm"
  BY <1>1, <1>2, AtIs
<1>4. run \in Runs /\ ShapeOf(run) /\ HeldOf(run) /\ ChunksOf(run) /\ (cut => decl.repeatable)
  BY <1>3, WritingFacts
<1>5. PICK stop \in BOOLEAN : stop = (run.cancelled \/ aborted)
  OBVIOUS
<1>6. PICK at : at = IF stop THEN WhenNoneAdmitted(run.fly) ELSE "admit"
  OBVIOUS
<1>7. run' = [run EXCEPT !.cancelled = stop, !.at = at]
  BY <1>5, <1>6 DEF Observed
<1>8. at \in {"admit", "settle", "after"} /\ (at = "after" => stop /\ run.fly = {})
  BY <1>6 DEF WhenNoneAdmitted
<1>9. /\ run' \in Runs /\ run'.at = at
      /\ run'.resumed = run.resumed /\ run'.whole = run.whole /\ run'.expect = run.expect
      /\ run'.reported = run.reported /\ run'.next = run.next
      /\ run'.fly = run.fly /\ run'.todo = run.todo /\ run'.cancelled = stop
      /\ run'.partial = run.partial /\ run'.mixed = run.mixed /\ run'.destructive = run.destructive
  BY <1>2, <1>4, <1>7, <1>8 DEF Runs
<1>10. ShapeOf(run')
  BY <1>3, <1>4, <1>8, <1>9 DEF ShapeOf, Fresh, ResumeStages, FirstStages
<1>11. HeldOf(run')
  BY <1>4, <1>8, <1>9, HeldStays
<1>12. ChunksOf(run')
  BY <1>4, <1>9 DEF ChunksOf
<1>13. run'.at \notin {"complete", "completing"} /\ run'.at \in WriteStages
  BY <1>2, <1>8, <1>9
<1>. QED BY <1>1, <1>3, <1>4, <1>9, <1>10, <1>11, <1>12, <1>13, LinkFacts, Goes

-----------------------------------------------------------------------------
\* The loop is over: without a partial range every octet is on the device.
LEMMA AfterKeeps == ASSUME Inv, After PROVE Inv'
<1>1. /\ At("after") /\ decl' = decl /\ cp' = cp /\ link' = link /\ dev' = dev /\ sink' = sink /\ cut' = cut
      /\ aborted' = aborted /\ source' = source /\ faults' = faults /\ resumes' = resumes
      /\ \/ End("failed-mid-write")
         \/ Failed
         \/ Goto("cancelling")
         \/ ~run.cancelled /\ ~run.partial /\ ~run.mixed /\ Goto("verifying")
  BY DEF After, World
<1>2. {"after", "cancelling", "verifying"} \subseteq WriteStages
  BY DEF WriteStages, EndStages
<1>3. Writing /\ run.at = "after"
  BY <1>1, <1>2, AtIs
<1>4. run \in Runs /\ ShapeOf(run) /\ HeldOf(run)
  BY <1>3, WritingFacts
<1>5. CASE End("failed-mid-write")
  <2>1. run' = None /\ outcome' \in Outcomes \ {"none", "read-completed"}
    BY <1>5 DEF End, Outcomes
  <2>. QED BY <1>1, <2>1, LinkFacts, Ends
<1>6. CASE Failed
  BY <1>1, <1>6, FailedIs, LinkFacts, Ends
<1>7. CASE Goto("cancelling")
  <2>0. /\ run'.at = "cancelling" /\ run'.resumed = run.resumed /\ run'.whole = run.whole
        /\ run'.expect = run.expect /\ run'.next = run.next /\ run'.fly = run.fly
        /\ run'.partial = run.partial /\ run'.mixed = run.mixed /\ run'.destructive = run.destructive
    BY <1>2, <1>4, <1>7, GotoIs
  <2>1. ShapeOf(run')
    BY <1>3, <1>4, <2>0 DEF ShapeOf, Fresh, ResumeStages, FirstStages
  <2>2. HeldOf(run')
    BY <1>4, <2>0, HeldStays
  <2>. QED BY <1>1, <1>2, <1>3, <1>7, <2>1, <2>2, LinkFacts, GoesTo
<1>8. CASE ~run.cancelled /\ ~run.partial /\ ~run.mixed /\ Goto("verifying")
  <2>0. /\ run'.at = "verifying" /\ run'.resumed = run.resumed /\ run'.whole = run.whole
        /\ run'.expect = run.expect /\ run'.next = run.next /\ run'.fly = run.fly
        /\ run'.partial = run.partial /\ run'.mixed = run.mixed /\ run'.destructive = run.destructive
    BY <1>2, <1>4, <1>8, GotoIs
  <2>1. ShapeOf(run')
    BY <1>3, <1>4, <1>8, <2>0 DEF ShapeOf, Fresh, ResumeStages, FirstStages
  <2>2. run.fly = {} /\ run.next = Length
    BY <1>3, <1>4, <1>8 DEF ShapeOf
  <2>3. link.usable => HasAll(dev)
    BY <1>4, <1>8, <2>2 DEF HeldOf, HasAll, Octets
  <2>4. ~run.whole
    BY <1>4, <1>3 DEF ShapeOf
  <2>5. HeldOf(run')
    BY <1>4, <2>0, <2>3, <2>4 DEF HeldOf
  <2>. QED BY <1>1, <1>2, <1>3, <1>8, <2>1, <2>5, LinkFacts, GoesTo
<1>. QED BY <1>1, <1>5, <1>6, <1>7, <1>8

\* The device cancels, and what it kept belongs to no checkpoint any more.
LEMMA CancellingKeeps == ASSUME Inv, Cancelling PROVE Inv'
<1>1. /\ At("cancelling") /\ decl' = decl /\ cp' \in {cp, None} /\ link' = link /\ sink' = sink /\ cut' = cut
      /\ aborted' = aborted /\ source' = source /\ faults' = faults /\ resumes' = resumes
      /\ dev' \in {dev, Dropped}
      /\ (End("cancelled") \/ Failed)
  BY DEF Cancelling, World
<1>2. "cancelling" \in WriteStages
  BY DEF WriteStages, EndStages
<1>3. Writing /\ run.at = "cancelling"
  BY <1>1, <1>2, AtIs
<1>4. run' = None /\ outcome' \in Outcomes \ {"none", "read-completed"}
  BY <1>1, FailedIs DEF End, Outcomes
<1>5. CASE dev' = dev
  BY <1>1, <1>4, <1>5, LinkFacts, Ends
<1>6. CASE dev' = Dropped
  <2>1. dev \in Devices /\ dev.gen \in Nat
    BY LinkFacts DEF Devices
  <2>2. dev' \in Devices /\ dev'.gen = dev.gen + 1 /\ dev'.com = 0
    BY <1>6, <2>1, DroppedIs
  <2>3. DeviceInv' /\ dev'.gen >= dev.gen
    BY <2>1, <2>2 DEF DeviceInv
  <2>4. ~(cp # None /\ cp.gen = dev'.gen)
    BY <2>1, <2>2, SpansAreOctets DEF Inv, CheckpointInv
  <2>5. cut' \in BOOLEAN /\ (cut' => decl.repeatable)
    BY <1>1, <1>3, WritingFacts DEF Inv, RuntimeTypeOK
  <2>. QED BY <1>1, <1>4, <2>2, <2>3, <2>4, <2>5, LinkFacts, EndsOver
<1>. QED BY <1>1, <1>5, <1>6

\* The finalizer is refused or started.
LEMMA CompleteKeeps == ASSUME Inv, Complete PROVE Inv'
<1>1. At("complete") /\ decl' = decl /\ cp' = cp /\ link' = link /\ dev' = dev /\ sink' = sink /\ cut' = cut
      /\ aborted' = aborted /\ source' = source /\ faults' = faults /\ resumes' = resumes
      /\ (Failed \/ (run' = [run EXCEPT !.at = "completing", !.destructive = TRUE] /\ outcome' = outcome))
  BY DEF Complete, World
<1>2. {"complete", "completing"} \subseteq WriteStages
  BY DEF WriteStages, EndStages
<1>3. Writing /\ run.at = "complete"
  BY <1>1, <1>2, AtIs
<1>4. run \in Runs /\ ShapeOf(run) /\ HeldOf(run) /\ ChunksOf(run) /\ (cut => decl.repeatable)
      /\ cp.phase = "finalizing"
  BY <1>3, WritingFacts
<1>5. CASE Failed
  BY <1>1, <1>5, FailedIs, LinkFacts, Ends
<1>6. CASE run' = [run EXCEPT !.at = "completing", !.destructive = TRUE] /\ outcome' = outcome
  <2>1. PICK yes \in BOOLEAN : yes = TRUE
    OBVIOUS
  <2>2. run' = [run EXCEPT !.at = "completing", !.destructive = yes]
    BY <1>6, <2>1
  <2>3. /\ run' \in Runs /\ run'.at = "completing"
        /\ run'.resumed = run.resumed /\ run'.whole = run.whole /\ run'.expect = run.expect
        /\ run'.reported = run.reported /\ run'.next = run.next
        /\ run'.fly = run.fly /\ run'.todo = run.todo /\ run'.cancelled = run.cancelled
        /\ run'.partial = run.partial /\ run'.mixed = run.mixed /\ run'.destructive = yes
    BY <2>2, <1>2, <1>4 DEF Runs
  <2>4. ShapeOf(run')
    BY <2>1, <2>3, <1>3, <1>4 DEF ShapeOf, Fresh, ResumeStages, FirstStages
  <2>5. HeldOf(run') /\ ChunksOf(run')
    BY <2>3, <1>3, <1>4 DEF HeldOf, ChunksOf
  <2>. QED BY <1>1, <1>2, <1>3, <1>4, <1>6, <2>3, <2>4, <2>5, LinkFacts, Goes
<1>. QED BY <1>1, <1>5, <1>6

\* The finalizer finished, or ended and may have run.
LEMMA CompletedKeeps == ASSUME Inv, Completed PROVE Inv'
<1>1. /\ At("completing") /\ decl' = decl /\ cp' = cp /\ link' = link /\ sink' = sink
      /\ aborted' = aborted /\ source' = source /\ faults' = faults /\ resumes' = resumes
      /\ \/ /\ link.usable /\ dev' = Finalized /\ cut' = cut
            /\ Goto(IF run.whole THEN "verifying" ELSE "verify")
         \/ Failed /\ cut' = TRUE /\ dev' \in {dev, Finalized}
  BY DEF Completed, World
<1>2. {"completing", "verifying", "verify"} \subseteq WriteStages
  BY DEF WriteStages, EndStages
<1>3. Writing /\ run.at = "completing"
  BY <1>1, <1>2, AtIs
<1>4. run \in Runs /\ ShapeOf(run) /\ HeldOf(run) /\ ChunksOf(run) /\ (cut => decl.repeatable)
      /\ cp # None
  BY <1>3, WritingFacts
<1>5. CASE Failed /\ cut' = TRUE /\ dev' \in {dev, Finalized}
  BY <1>1, <1>3, <1>5, FailedIs, LinkFacts, CompletionCut
<1>6. CASE link.usable /\ dev' = Finalized /\ cut' = cut /\ Goto(IF run.whole THEN "verifying" ELSE "verify")
  <2>1. PICK s \in {"verifying", "verify"} : s = IF run.whole THEN "verifying" ELSE "verify"
    OBVIOUS
  <2>2. s \in WriteStages \cup ReadStages /\ Goto(s)
    BY <1>2, <1>6, <2>1
  <2>3. /\ run' \in Runs /\ run'.at = s /\ outcome' = outcome
        /\ run'.resumed = run.resumed /\ run'.whole = run.whole /\ run'.expect = run.expect
        /\ run'.next = run.next /\ run'.fly = run.fly /\ run'.todo = run.todo
        /\ run'.partial = run.partial /\ run'.mixed = run.mixed /\ run'.destructive = run.destructive
    BY <1>4, <2>2, GotoIs
  <2>4. run' # None
    BY <2>3, NoneAssumption
  <2>5. dev' \in Devices /\ dev'.gen = dev.gen /\ dev'.img = dev.img /\ dev'.com = dev.com /\ dev'.fin
    BY <1>6, LinkFacts, FinalizedIs
  <2>6. HasAll(dev)
    BY <1>3, <1>4, <1>6 DEF HeldOf
  <2>7. HasAll(dev)'
    BY <1>1, <2>5, <2>6 DEF HasAll, Has
  <2>8. RuntimeTypeOK'
    BY <1>1, <1>6, <2>3, <2>5 DEF Inv, RuntimeTypeOK
  <2>9. DeviceInv' /\ IdleInv'
    BY <2>4, <2>5, LinkFacts DEF DeviceInv, IdleInv
  <2>10. CheckpointInv'
    BY <1>1, <1>4, <2>5 DEF Inv, CheckpointInv, Has
  <2>11. LinkInv'
    BY <1>1, <1>3, <2>5 DEF Inv, LinkInv
  <2>12. ShapeOf(run)'
    BY <1>3, <1>4, <2>3 DEF ShapeOf, Fresh, ResumeStages, FirstStages
  <2>13. HeldOf(run)'
    <3>1. (link.usable /\ ~run.partial =>
             \A o \in 0 .. run.next - 1 : Has(dev, o) \/ \E f \in run.fly : o \in Span(f))'
      BY <1>1, <1>4, <2>3, <2>5 DEF HeldOf, Has
    <3>2. (~run.resumed /\ ~run.mixed =>
             (\A w \in link.wire : w.v = 0) /\ \A o \in Octets : dev.img[o] \in {None, 0})'
      BY <1>1, <1>4, <2>3, <2>5 DEF HeldOf
    <3>3. run'.at \in {"verifying", "verify"}
      BY <2>3
    <3>. QED BY <2>5, <2>7, <3>1, <3>2, <3>3 DEF HeldOf
  <2>14. RunInv'
    BY <2>12, <2>13 DEF RunInv
  <2>15. FinalInv'
    BY <1>1, <1>4, <1>6, <2>3 DEF Inv, FinalInv
  <2>16. SinkInv'
    BY <1>1, <2>3 DEF Inv, SinkInv, SinkExact, SinkEnd, Reading, ReadStages
  <2>17. CountInv'
    BY <1>1, <1>4, <2>3 DEF Inv, CountInv, ChunksOf
  <2>. QED BY <2>8, <2>9, <2>10, <2>11, <2>14, <2>15, <2>16, <2>17 DEF Inv
<1>. QED BY <1>1, <1>5, <1>6

\* The device's image is compared.
LEMMA VerifyKeeps == ASSUME Inv, Verify PROVE Inv'
<1>1. /\ At("verify") /\ decl' = decl /\ cp' = cp /\ link' = link /\ dev' = dev /\ sink' = sink /\ cut' = cut
      /\ aborted' = aborted /\ source' = source /\ faults' = faults /\ resumes' = resumes
      /\ (Failed \/ (Verified /\ Goto("remove")))
  BY DEF Verify, World
<1>2. {"verify", "remove"} \subseteq WriteStages
  BY DEF WriteStages, EndStages
<1>3. Writing /\ run.at = "verify"
  BY <1>1, <1>2, AtIs
<1>4. run \in Runs /\ ShapeOf(run) /\ HeldOf(run)
  BY <1>3, WritingFacts
<1>5. CASE Failed
  BY <1>1, <1>5, FailedIs, LinkFacts, Ends
<1>6. CASE Verified /\ Goto("remove")
  <2>0. /\ run'.at = "remove" /\ run'.resumed = run.resumed /\ run'.whole = run.whole
        /\ run'.expect = run.expect /\ run'.next = run.next /\ run'.fly = run.fly
        /\ run'.partial = run.partial /\ run'.mixed = run.mixed /\ run'.destructive = run.destructive
    BY <1>2, <1>4, <1>6, GotoIs
  <2>1. ShapeOf(run')
    BY <1>3, <1>4, <2>0 DEF ShapeOf, Fresh, ResumeStages, FirstStages
  <2>2. decl.verify => \A o, p \in Octets : dev.img[o] = dev.img[p]
    BY <1>6 DEF Verified
  <2>3. dev.fin /\ HasAll(dev)
    BY <1>3, <1>4 DEF HeldOf
  <2>4. HeldOf(run')
    BY <1>4, <2>0, <2>2, <2>3 DEF HeldOf
  <2>. QED BY <1>1, <1>2, <1>3, <1>6, <2>1, <2>4, LinkFacts, GoesTo
<1>. QED BY <1>1, <1>5, <1>6

\* The checkpoint is removed, or that failed.
LEMMA RemoveCheckpointKeeps == ASSUME Inv, RemoveCheckpoint PROVE Inv'
<1>1. /\ decl' = decl /\ cp' \in {cp, None} /\ link' = link /\ dev' = dev /\ sink' = sink /\ cut' = cut
      /\ aborted' = aborted /\ source' = source /\ faults' \in {faults, faults + 1} /\ resumes' = resumes
      /\ (Failed \/ \E o \in {"completed", "resumed-completed"} : End(o))
  BY DEF RemoveCheckpoint, World
<1>2. run' = None /\ outcome' \in Outcomes \ {"none", "read-completed"}
  BY <1>1, FailedIs DEF End, Outcomes
<1>3. faults' \in Nat
  BY <1>1, LinkFacts
<1>. QED BY <1>1, <1>2, <1>3, LinkFacts, Ends

-----------------------------------------------------------------------------
\* The part of Inv about an execution that reads.
LEMMA ReadingFacts ==
  ASSUME Inv, Reading
  PROVE  /\ run \in Runs /\ run # None /\ run.at \notin WriteStages /\ ~Writing
         /\ ChunksOf(run) /\ ~decl.prefix /\ outcome = "none" /\ run.durable = SinkEnd
         /\ SinkExact /\ ~cut /\ sink \in Seq(Ranges)
<1>1. run # None /\ run \in Runs /\ run.at \notin WriteStages
  BY DEF Inv, RuntimeTypeOK, Reading, ReadStages, WriteStages, ResumeStages, FirstStages, LoopStages, EndStages
<1>2. ~Writing /\ ChunksOf(run) /\ sink \in Seq(Ranges)
  BY <1>1 DEF Writing, Inv, CountInv, RuntimeTypeOK
<1>3. outcome = "none" /\ run.durable = SinkEnd /\ ~decl.prefix /\ SinkExact
  BY DEF Inv, SinkInv
<1>4. ~cut
  BY <1>3 DEF Inv, FinalInv
<1>. QED BY <1>1, <1>2, <1>3, <1>4

\* An execution at a stage of reading.
LEMMA AtReads ==
  ASSUME NEW s \in ReadStages, At(s)
  PROVE  Reading /\ run.at = s
BY DEF At, Reading

\* An execution that reads goes on: the device and the checkpoint are not its.
LEMMA ReadsOn ==
  ASSUME Inv, Reading, decl' = decl, cp' = cp, outcome' = outcome, dev' = dev, cut' = cut,
         aborted' \in BOOLEAN, source' \in Nat, faults' \in Nat, resumes' \in Nat,
         link' \in Links, \A w \in link'.wire : Chunked(w.range), \A s \in link'.reports : Chunked(s.range),
         run' \in Runs, run'.at \in ReadStages, ChunksOf(run'),
         sink' \in Seq(Ranges), SinkExact', run'.durable = SinkEnd'
  PROVE  Inv'
<1>1. RuntimeTypeOK'
  BY DEF Inv, RuntimeTypeOK
<1>2. run' # None /\ run'.at \notin WriteStages
  BY NoneAssumption DEF WriteStages, ReadStages, ResumeStages, FirstStages, LoopStages, EndStages
<1>3. ~Writing'
  BY <1>2 DEF Writing
<1>4. DeviceInv' /\ IdleInv'
  BY <1>2, LinkFacts DEF DeviceInv, IdleInv
<1>5. CheckpointInv'
  BY <1>3 DEF Inv, CheckpointInv, Has
<1>6. LinkInv' /\ RunInv'
  BY <1>3 DEF LinkInv, RunInv
<1>7. FinalInv'
  BY <1>3, ReadingFacts DEF FinalInv
<1>8. SinkInv'
  BY ReadingFacts DEF SinkInv
<1>9. CountInv'
  BY DEF CountInv, ChunksOf
<1>. QED BY <1>1, <1>4, <1>5, <1>6, <1>7, <1>8, <1>9 DEF Inv

\* An execution that reads ends.
LEMMA ReadEnds ==
  ASSUME Inv, Reading, NEW o \in {"read-failed", "read-completed"}, End(o),
         o = "read-completed" => run.durable = Length,
         decl' = decl, cp' = cp, link' = link, dev' = dev, sink' = sink, cut' = cut,
         aborted' \in BOOLEAN, source' \in Nat, faults' \in Nat, resumes' \in Nat
  PROVE  Inv'
<1>1. run' = None /\ outcome' = o
  BY DEF End
<1>2. CASE o = "read-failed"
  BY <1>1, <1>2, Ends DEF Outcomes
<1>3. CASE o = "read-completed"
  <2>1. RuntimeTypeOK'
    BY <1>1, <1>3 DEF Inv, RuntimeTypeOK, Outcomes
  <2>2. DeviceInv' /\ IdleInv'
    BY <1>1, <1>3, LinkFacts DEF DeviceInv, IdleInv
  <2>3. CheckpointInv'
    BY <1>1 DEF Inv, CheckpointInv, Writing, Has
  <2>4. LinkInv' /\ RunInv' /\ CountInv'
    BY <1>1 DEF Inv, LinkInv, RunInv, Writing, CountInv
  <2>5. FinalInv'
    BY <1>1, ReadingFacts DEF FinalInv, Writing
  <2>6. run.durable = Length /\ run.durable = SinkEnd /\ Length > 0 /\ SinkExact
    BY <1>3, ReadingFacts, Sizes
  <2>7. sink # << >> /\ sink[Len(sink)].hi = Length
    BY <2>6 DEF SinkEnd
  <2>8. SinkInv'
    BY <1>1, <2>6, <2>7 DEF SinkInv, SinkExact, Reading
  <2>. QED BY <2>1, <2>2, <2>3, <2>4, <2>5, <2>8 DEF Inv
<1>. QED BY <1>2, <1>3

\* A range is requested, or the window is full.
LEMMA ReadAdmitKeeps == ASSUME Inv, ReadAdmit PROVE Inv'
<1>1. /\ At("read") /\ decl' = decl /\ cp' = cp /\ dev' = dev /\ sink' = sink /\ cut' = cut
      /\ aborted' = aborted /\ source' = source /\ faults' = faults /\ resumes' = resumes
      /\ \/ /\ run.next < Length /\ outcome' = outcome
            /\ run' = [run EXCEPT !.fly = @ \cup {NextChunk}, !.next = NextChunk.hi]
            /\ link' = [link EXCEPT !.wire = @ \cup {[range |-> NextChunk, v |-> None]}]
         \/ End("read-failed") /\ link' = link
         \/ Goto("write") /\ link' = link
  BY DEF ReadAdmit, World
<1>2. {"read", "write"} \subseteq ReadStages
  BY DEF ReadStages
<1>3. Reading /\ run.at = "read"
  BY <1>1, <1>2, AtReads
<1>4. run \in Runs /\ ChunksOf(run) /\ run.durable = SinkEnd /\ SinkExact /\ sink \in Seq(Ranges) /\ ~decl.prefix
  BY <1>3, ReadingFacts
<1>6. CASE End("read-failed") /\ link' = link
  BY <1>1, <1>3, <1>6, LinkFacts, ReadEnds
<1>7. CASE Goto("write") /\ link' = link
  <2>1. /\ run' \in Runs /\ run'.at = "write" /\ run'.durable = run.durable /\ outcome' = outcome
        /\ run'.fly = run.fly /\ run'.todo = run.todo
    BY <1>2, <1>4, <1>7, GotoIs
  <2>2. ChunksOf(run') /\ SinkExact' /\ run.durable = SinkEnd'
    BY <1>1, <1>3, <1>4, <2>1, ReadingFacts DEF ChunksOf, SinkEnd, SinkExact
  <2>. QED BY <1>1, <1>2, <1>3, <1>4, <1>7, <2>1, <2>2, LinkFacts, ReadsOn
<1>8. CASE /\ run.next < Length /\ outcome' = outcome
           /\ run' = [run EXCEPT !.fly = @ \cup {NextChunk}, !.next = NextChunk.hi]
           /\ link' = [link EXCEPT !.wire = @ \cup {[range |-> NextChunk, v |-> None]}]
  <2>1. /\ NextChunk \in Ranges /\ Chunked(NextChunk) /\ NextChunk.hi \in 0 .. Length
    <3>1. NextChunk \in Ranges /\ Chunked(NextChunk)
      BY <1>4, <1>8, NextChunkIs
    <3>. QED BY <3>1 DEF Ranges
  <2>2. PICK chunk \in Ranges : chunk = NextChunk
    BY <2>1
  <2>3. PICK carrier \in Carriers : carrier = [range |-> chunk, v |-> None]
    BY DEF Carriers
  <2>4. carrier.range = chunk
    BY <2>3
  <2>5. link' \in Links /\ link'.wire = link.wire \cup {carrier} /\ link'.reports = link.reports
    BY <1>8, <2>2, <2>3, LinkFacts DEF Links
  <2>6. /\ run' \in Runs /\ run'.at = "read" /\ run'.durable = run.durable
        /\ run'.fly = run.fly \cup {chunk} /\ run'.todo = run.todo
    BY <1>3, <1>4, <1>8, <2>1, <2>2 DEF Runs
  <2>7. ChunksOf(run')
    BY <1>1, <1>4, <2>1, <2>2, <2>6 DEF ChunksOf
  <2>8. \A w \in link'.wire : Chunked(w.range)
    BY <2>1, <2>2, <2>4, <2>5, LinkFacts
  <2>9. SinkExact' /\ run.durable = SinkEnd'
    BY <1>1, <1>3, <1>4, <1>8, ReadingFacts DEF SinkEnd, SinkExact
  <2>. QED BY <1>1, <1>2, <1>3, <1>4, <1>8, <2>5, <2>6, <2>7, <2>8, <2>9, LinkFacts, ReadsOn
<1>. QED BY <1>1, <1>6, <1>7, <1>8

\* Answers are taken in any order.
LEMMA ReadSettleKeeps == ASSUME Inv, ReadSettle PROVE Inv'
<1>1. /\ At("read-settle") /\ decl' = decl /\ cp' = cp /\ dev' = dev /\ sink' = sink /\ cut' = cut
      /\ aborted' = aborted /\ source' = source /\ faults' = faults /\ resumes' = resumes
      /\ \/ /\ run.observed < MaxObservations /\ outcome' = outcome
            /\ \E S \in SUBSET link.reports :
                 /\ run' = [run EXCEPT !.at = "read", !.fly = @ \ {s.range : s \in S},
                                       !.todo = @ \cup {s.range : s \in S}, !.observed = @ + 1]
                 /\ link' = [link EXCEPT !.reports = @ \ S]
         \/ End("read-failed") /\ link' = link
  BY DEF ReadSettle, World
<1>2. {"read", "read-settle"} \subseteq ReadStages
  BY DEF ReadStages
<1>3. Reading /\ run.at = "read-settle"
  BY <1>1, <1>2, AtReads
<1>4. run \in Runs /\ ChunksOf(run) /\ run.durable = SinkEnd /\ SinkExact /\ sink \in Seq(Ranges) /\ ~decl.prefix
  BY <1>3, ReadingFacts
<1>5. CASE End("read-failed") /\ link' = link
  BY <1>1, <1>3, <1>5, LinkFacts, ReadEnds
<1>6. ASSUME run.observed < MaxObservations, outcome' = outcome, NEW S \in SUBSET link.reports,
             run' = [run EXCEPT !.at = "read", !.fly = @ \ {s.range : s \in S},
                                !.todo = @ \cup {s.range : s \in S}, !.observed = @ + 1],
             link' = [link EXCEPT !.reports = @ \ S]
      PROVE  Inv'
  <2>1. PICK R : R = {s.range : s \in S}
    OBVIOUS
  <2>2. R \subseteq Ranges /\ \A r \in R : Chunked(r)
    BY <1>6, <2>1, LinkFacts DEF Links, Reports
  <2>3. run' = [run EXCEPT !.at = "read", !.fly = @ \ R, !.todo = @ \cup R, !.observed = @ + 1]
    BY <1>6, <2>1
  <2>4. run.observed + 1 \in 0 .. MaxObservations
    BY <1>4, <1>6, Sizes DEF Runs
  <2>5. /\ run' \in Runs /\ run'.at = "read" /\ run'.durable = run.durable
        /\ run'.fly = run.fly \ R /\ run'.todo = run.todo \cup R
    BY <1>4, <2>2, <2>3, <2>4 DEF Runs, ReadStages
  <2>6. link' \in Links /\ link'.wire = link.wire /\ link'.reports = link.reports \ S
    BY <1>6, LinkFacts DEF Links
  <2>7. ChunksOf(run')
    BY <1>1, <1>4, <2>2, <2>5 DEF ChunksOf
  <2>8. SinkExact' /\ run.durable = SinkEnd'
    BY <1>1, <1>3, <1>4, <1>6, ReadingFacts DEF SinkEnd, SinkExact
  <2>. QED BY <1>1, <1>2, <1>3, <1>4, <1>6, <2>5, <2>6, <2>7, <2>8, LinkFacts, ReadsOn
<1>. QED BY <1>1, <1>5, <1>6

\* The next range in order is written, or the execution goes on or ends.
LEMMA ReadWriteKeeps == ASSUME Inv, ReadWrite PROVE Inv'
<1>1. /\ At("write") /\ decl' = decl /\ cp' = cp /\ link' = link /\ dev' = dev /\ cut' = cut
      /\ aborted' = aborted /\ source' = source /\ faults' = faults /\ resumes' = resumes
      /\ \/ \E r \in NextWrites :
              /\ sink' = Append(sink, r) /\ outcome' = outcome
              /\ run' = [run EXCEPT !.todo = @ \ {r}, !.durable = r.hi]
         \/ sink' = sink /\ Goto("read-settle")
         \/ sink' = sink /\ End("read-failed")
         \/ sink' = sink /\ run.durable = Length /\ End("read-completed")
  BY DEF ReadWrite, World
<1>2. {"write", "read-settle"} \subseteq ReadStages
  BY DEF ReadStages
<1>3. Reading /\ run.at = "write"
  BY <1>1, <1>2, AtReads
<1>4. /\ run \in Runs /\ ChunksOf(run) /\ run.durable = SinkEnd /\ SinkExact /\ sink \in Seq(Ranges) /\ ~decl.prefix
      /\ outcome = "none"
  BY <1>3, ReadingFacts
<1>5. CASE sink' = sink /\ End("read-failed")
  BY <1>1, <1>3, <1>5, LinkFacts, ReadEnds
<1>6. CASE sink' = sink /\ run.durable = Length /\ End("read-completed")
  BY <1>1, <1>3, <1>6, LinkFacts, ReadEnds
<1>7. CASE sink' = sink /\ Goto("read-settle")
  <2>1. /\ run' \in Runs /\ run'.at = "read-settle" /\ run'.durable = run.durable /\ outcome' = outcome
        /\ run'.fly = run.fly /\ run'.todo = run.todo
    BY <1>2, <1>4, <1>7, GotoIs
  <2>2. ChunksOf(run') /\ SinkExact' /\ run.durable = SinkEnd'
    BY <1>1, <1>4, <1>7, <2>1 DEF ChunksOf, SinkEnd, SinkExact
  <2>. QED BY <1>1, <1>2, <1>3, <1>4, <1>7, <2>1, <2>2, LinkFacts, ReadsOn
<1>8. ASSUME NEW r \in NextWrites, sink' = Append(sink, r), outcome' = outcome,
             run' = [run EXCEPT !.todo = @ \ {r}, !.durable = r.hi]
      PROVE  Inv'
  <2>1. r \in run.todo /\ r \in Ranges /\ r.lo = run.durable /\ r.hi \in 0 .. Length
    BY <1>4, <1>8 DEF NextWrites, Runs, Ranges
  <2>2. /\ run' \in Runs /\ run'.at = "write" /\ run'.durable = r.hi
        /\ run'.fly = run.fly /\ run'.todo = run.todo \ {r}
    BY <1>3, <1>4, <1>8, <2>1 DEF Runs
  <2>3. ChunksOf(run')
    BY <1>1, <1>4, <2>2 DEF ChunksOf
  <2>4. /\ sink' \in Seq(Ranges) /\ Len(sink') = Len(sink) + 1 /\ sink'[Len(sink) + 1] = r
        /\ \A i \in 1 .. Len(sink) : sink'[i] = sink[i]
        /\ Len(sink) \in Nat
    BY <1>4, <1>8, <2>1
  <2>5. sink' # << >> /\ SinkEnd' = r.hi
    BY <2>4 DEF SinkEnd
  <2>6. SinkExact'
    <3>1. \A i \in 1 .. Len(sink) : sink[i].lo = (IF i = 1 THEN 0 ELSE sink[i - 1].hi)
      BY <1>4 DEF SinkExact
    <3>2. ASSUME NEW i \in 1 .. Len(sink')
          PROVE  sink'[i].lo = (IF i = 1 THEN 0 ELSE sink'[i - 1].hi)
      <4>1. CASE i \in 1 .. Len(sink)
        <5>1. sink'[i] = sink[i]
          BY <2>4, <4>1
        <5>2. i # 1 => i - 1 \in 1 .. Len(sink)
          BY <4>1, <2>4
        <5>3. i # 1 => sink'[i - 1] = sink[i - 1]
          BY <2>4, <5>2
        <5>. QED BY <3>1, <4>1, <5>1, <5>3
      <4>2. CASE i = Len(sink) + 1
        <5>1. sink'[i] = r
          BY <2>4, <4>2
        <5>2. CASE sink = << >>
          BY <1>4, <2>1, <4>2, <5>1, <5>2 DEF SinkEnd
        <5>3. CASE sink # << >>
          <6>1. Len(sink) >= 1 /\ Len(sink) \in 1 .. Len(sink)
            BY <1>4, <2>4, <5>3
          <6>2. i # 1 /\ i - 1 = Len(sink)
            BY <2>4, <4>2, <6>1
          <6>3. sink'[i - 1] = sink[Len(sink)]
            BY <2>4, <6>1, <6>2
          <6>. QED BY <1>4, <2>1, <5>1, <5>3, <6>2, <6>3 DEF SinkEnd
        <5>. QED BY <5>2, <5>3
      <4>. QED BY <2>4, <4>1, <4>2
    <3>. QED BY <1>4, <1>8, <3>2 DEF SinkExact
  <2>. QED BY <1>1, <1>2, <1>3, <1>4, <1>8, <2>2, <2>3, <2>4, <2>5, <2>6, LinkFacts, ReadsOn
<1>. QED BY <1>1, <1>5, <1>6, <1>7, <1>8

-----------------------------------------------------------------------------
\* The initial state.
LEMMA InitInv == Init => Inv
<1>. SUFFICES ASSUME Init PROVE Inv
  OBVIOUS
<1>1. /\ cp = None /\ run = None /\ outcome = "none" /\ aborted \in BOOLEAN /\ source = 0 /\ sink = << >>
      /\ decl \in Declarations /\ link = Connected /\ faults = 0 /\ resumes = 0 /\ cut \in BOOLEAN /\ ~cut
  BY DEF Init, Declarations
<1>2. link \in Links /\ link.wire = {} /\ link.reports = {}
  BY <1>1 DEF Connected, Links
<1>3. /\ dev \in Devices /\ dev.img = Empty /\ ~dev.fin /\ dev.com = 0 /\ dev.gen = 0
  <2>1. PICK img \in [Octets -> Nat \cup {None}] : img = Empty
    BY EmptyIs
  <2>2. PICK zero \in Nat : zero = 0
    OBVIOUS
  <2>3. PICK no \in BOOLEAN : no = FALSE
    OBVIOUS
  <2>4. dev = [gen |-> zero, img |-> img, com |-> zero, fin |-> no]
    BY <2>1, <2>2, <2>3 DEF Init
  <2>5. zero \in 0 .. Length
    BY <2>2, Sizes
  <2>. QED BY <2>1, <2>2, <2>3, <2>4, <2>5 DEF Devices
<1>4. RuntimeTypeOK
  BY <1>1, <1>2, <1>3 DEF RuntimeTypeOK, Outcomes
<1>5. DeviceInv /\ IdleInv
  <2>1. ~(\E o \in 0 .. dev.com - 1 : TRUE)
    BY <1>3
  <2>. QED BY <1>1, <1>2, <1>3, <2>1 DEF DeviceInv, IdleInv, Untouched
<1>6. CheckpointInv /\ LinkInv /\ RunInv /\ FinalInv
  BY <1>1 DEF CheckpointInv, LinkInv, RunInv, FinalInv, Writing
<1>7. SinkInv
  BY <1>1 DEF SinkInv, SinkExact, Reading
<1>8. CountInv
  BY <1>1, <1>2 DEF CountInv
<1>. QED BY <1>4, <1>5, <1>6, <1>7, <1>8 DEF Inv

\* Every step of an execution.
LEMMA ExecutionKeeps == ASSUME Inv, Execution PROVE Inv'
BY PrehashKeeps, PrepareKeeps, PreparedKeeps, CommitPhaseKeeps, AdmitKeeps, AdmitReadKeeps, AdmittedKeeps,
   SettleKeeps, SettleRangesKeeps, SettlePrefixKeeps, SettleFailsKeeps, ConfirmKeeps, ObservedKeeps,
   AfterKeeps, CancellingKeeps, CompleteKeeps, CompletedKeeps, VerifyKeeps, RemoveCheckpointKeeps,
   ValidateResumeKeeps, ProbeKeeps, QuietReportKeeps, ResumeRecipeKeeps, ReconcileKeeps,
   ResumeWholeKeeps, ResumeRemainingKeeps, ReadAdmitKeeps, ReadSettleKeeps, ReadWriteKeeps
   DEF Execution

\* Every step of the caller.
LEMMA CallerKeeps == ASSUME Inv, Caller PROVE Inv'
BY StartKeeps, StartResumeKeeps, StartReadKeeps, AbortKeeps DEF Caller

\* Every step of the world around it.
LEMMA EnvironmentKeeps == ASSUME Inv, Environment PROVE Inv'
BY SourceChangesKeeps, DeviceTakesKeeps, DeviceAnswersReadKeeps, DeviceCommitsKeeps, DeviceResetsKeeps,
   LinkBreaksKeeps, CrashKeeps DEF Environment

\* In every behaviour of the transfer library, for every range, chunk, window and bound, the
\* inductive invariant holds.
THEOREM RuntimeInvariant == Spec => []Inv
<1>1. Inv /\ [Next]_vars => Inv'
  BY ExecutionKeeps, CallerKeeps, EnvironmentKeeps, StutterKeeps DEF Next
<1>. QED BY InitInv, <1>1, PTL DEF Spec

\* Every variable keeps its type.
THEOREM RuntimeTypeCorrect == Spec => []RuntimeTypeOK
<1>1. Inv => RuntimeTypeOK
  BY DEF Inv
<1>. QED BY <1>1, RuntimeInvariant, PTL

\* What the checkpoint confirms is durable on the device it was confirmed by, whatever was
\* lost, repeated, torn or reported meanwhile.
THEOREM CheckpointIsTruthful == Spec => []CheckpointTruthful
<1>1. Inv => CheckpointTruthful
  <2>. SUFFICES ASSUME Inv, cp # None, cp.gen = dev.gen, NEW o \in Spans(cp.confirmed)
                PROVE  o \in Durable(dev)
    BY DEF CheckpointTruthful
  <2>1. Has(dev, o)
    BY ConfirmedHas
  <2>2. o \in Octets
    BY SpansAreOctets DEF Spans
  <2>. QED BY <2>1, <2>2 DEF Durable, Has
<1>. QED BY <1>1, RuntimeInvariant, PTL

\* A finalizer that is not repeatable and was not seen to finish is never started again.
THEOREM FinalizesOnce == Spec => []FinalizedOnce
<1>1. Inv => FinalizedOnce
  BY DEF Inv, FinalInv, FinalizedOnce, At
<1>. QED BY <1>1, RuntimeInvariant, PTL

\* The sink of a device-to-host execution is written in order, each octet once, and
\* completely when the execution says so.
THEOREM SinkIsExact == Spec => []SinkExact
<1>1. Inv => SinkExact
  BY DEF Inv, SinkInv
<1>. QED BY <1>1, RuntimeInvariant, PTL

-----------------------------------------------------------------------------
\* The step OutcomeHonest speaks of.
HonestStep ==
  outcome' # outcome =>
    /\ outcome' = "completed" => \A o \in Octets : o \in Durable(dev) /\ dev.img[o] = 0
    /\ outcome' = "resumed-completed" =>
         /\ Durable(dev) = Octets
         /\ decl.verify => \A o, p \in Octets : dev.img[o] = dev.img[p]
    /\ outcome' = "before" /\ ~run.resumed => dev.img = Empty /\ link.wire = {} /\ ~dev.fin
    /\ outcome' = "cancelled" => {w \in link.wire : w.range \in run.fly} = {} /\ run.fly = {}

\* The answers that promise nothing of the device.
Others == {"indeterminate", "failed-mid-write", "resume-required", "refused", "crashed",
           "read-failed", "read-completed"}

\* They are honest.
LEMMA OthersAreHonest == ASSUME outcome' \in Others PROVE HonestStep
BY DEF Others, HonestStep

\* A failure says "before" only of a device it left alone.
LEMMA FailedIsHonest == ASSUME Inv, Writing, Failed PROVE HonestStep
<1>1. ShapeOf(run)
  BY WritingFacts
<1>2. outcome' = "indeterminate" \/ (outcome' = "before" /\ ~run.destructive)
  BY DEF Failed, End
<1>3. CASE outcome' = "indeterminate"
  BY <1>3, OthersAreHonest DEF Others
<1>4. CASE outcome' = "before" /\ ~run.destructive
  <2>1. ~run.resumed => Fresh(run)
    BY <1>1, <1>4 DEF ShapeOf, Fresh
  <2>2. ~run.resumed => Untouched
    BY <1>1, <2>1 DEF ShapeOf
  <2>. QED BY <1>4, <2>2 DEF HonestStep, Untouched
<1>. QED BY <1>2, <1>3, <1>4

\* Every octet is durable.
LEMMA HasAllIs == ASSUME HasAll(dev) PROVE Durable(dev) = Octets
BY DEF HasAll, Has, Durable

\* An execution that completed has every octet durable, of one source when it may say so.
LEMMA RemovedIsHonest == ASSUME Inv, RemoveCheckpoint PROVE HonestStep
<1>1. At("remove") /\ (Failed \/ (run.resumed /\ outcome' = "resumed-completed")
                              \/ (~run.resumed /\ outcome' = "completed"))
  BY DEF RemoveCheckpoint, End
<1>2. "remove" \in WriteStages
  BY DEF WriteStages, EndStages
<1>3. Writing /\ run.at = "remove"
  BY <1>1, <1>2, AtIs
<1>4. ShapeOf(run) /\ HeldOf(run)
  BY <1>3, WritingFacts
<1>5. HasAll(dev) /\ (decl.verify => \A o, p \in Octets : dev.img[o] = dev.img[p])
  BY <1>3, <1>4 DEF HeldOf
<1>6. CASE Failed
  BY <1>3, <1>6, FailedIsHonest
<1>7. CASE run.resumed /\ outcome' = "resumed-completed"
  BY <1>5, <1>7, HasAllIs DEF HonestStep
<1>8. CASE ~run.resumed /\ outcome' = "completed"
  <2>1. ~run.mixed
    BY <1>3, <1>4, <1>8 DEF ShapeOf
  <2>2. \A o \in Octets : dev.img[o] \in {None, 0}
    BY <1>4, <1>8, <2>1 DEF HeldOf
  <2>3. \A o \in Octets : dev.img[o] # None
    BY <1>5 DEF HasAll, Has
  <2>4. \A o \in Octets : o \in Durable(dev) /\ dev.img[o] = 0
    BY <1>5, <2>2, <2>3, HasAllIs
  <2>. QED BY <1>8, <2>4 DEF HonestStep
<1>. QED BY <1>1, <1>6, <1>7, <1>8

\* A cancelled execution has nothing in flight.
LEMMA CancelledIsHonest == ASSUME Inv, Cancelling PROVE HonestStep
<1>1. At("cancelling") /\ (Failed \/ outcome' = "cancelled")
  BY DEF Cancelling, End
<1>2. "cancelling" \in WriteStages
  BY DEF WriteStages, EndStages
<1>3. Writing /\ run.at = "cancelling"
  BY <1>1, <1>2, AtIs
<1>4. run.fly = {}
  BY <1>3, WritingFacts DEF ShapeOf
<1>. QED BY <1>1, <1>3, <1>4, FailedIsHonest DEF HonestStep

\* A step answers nothing, or fails, or ends without a promise, or is one of the two above.
Answers == outcome' = outcome \/ (Writing /\ Failed) \/ outcome' \in Others

\* What the stages before the loop answer.
LEMMA FirstAnswers ==
  ASSUME Prehash \/ Prepare \/ Prepared \/ CommitPhase \/ Admit \/ AdmitRead \/ Admitted
  PROVE  Answers
<1>1. CASE Prehash
  BY <1>1 DEF Prehash, Answers, Goto, At, Writing, WriteStages
<1>2. CASE Prepare
  BY <1>2 DEF Prepare, Answers, At, Writing, WriteStages, FirstStages
<1>3. CASE Prepared
  BY <1>3 DEF Prepared, Answers, Goto, At, Writing, WriteStages, FirstStages
<1>4. CASE CommitPhase
  BY <1>4 DEF CommitPhase, Answers, Goto, At, Writing, WriteStages, EndStages
<1>5. CASE Admit \/ AdmitRead
  BY <1>5 DEF Admit, AdmitRead, Answers
<1>6. CASE Admitted
  BY <1>6 DEF Admitted, Answers, At, Writing, WriteStages, LoopStages
<1>. QED BY <1>1, <1>2, <1>3, <1>4, <1>5, <1>6

\* What the loop answers.
LEMMA LoopAnswers ==
  ASSUME Settle \/ SettleRanges \/ SettlePrefix \/ SettleFails \/ Confirm \/ Observed
  PROVE  Answers
<1>1. CASE Settle
  BY <1>1 DEF Settle, Answers, At, Writing, WriteStages, LoopStages
<1>2. CASE SettleRanges \/ Observed
  BY <1>2 DEF SettleRanges, Observed, Answers
<1>3. CASE SettlePrefix
  BY <1>3 DEF SettlePrefix, Answers, At, Writing, WriteStages, LoopStages
<1>4. CASE SettleFails
  BY <1>4 DEF SettleFails, Answers, End, Others
<1>5. CASE Confirm
  BY <1>5 DEF Confirm, Answers, At, Writing, WriteStages, LoopStages
<1>. QED BY <1>1, <1>2, <1>3, <1>4, <1>5

\* What the stages after it answer.
LEMMA EndAnswers ==
  ASSUME After \/ Complete \/ Completed \/ Verify
  PROVE  Answers
<1>1. CASE After
  BY <1>1 DEF After, Answers, Goto, End, Others, At, Writing, WriteStages, EndStages
<1>2. CASE Complete
  BY <1>2 DEF Complete, Answers, At, Writing, WriteStages, EndStages
<1>3. CASE Completed
  BY <1>3 DEF Completed, Answers, Goto, At, Writing, WriteStages, EndStages
<1>4. CASE Verify
  BY <1>4 DEF Verify, Answers, Goto, At, Writing, WriteStages, EndStages
<1>. QED BY <1>1, <1>2, <1>3, <1>4

\* What a resume answers.
LEMMA ResumeAnswers ==
  ASSUME ValidateResume \/ Probe \/ QuietReport \/ ResumeRecipe \/ Reconcile \/ ResumeWhole \/ ResumeRemaining
  PROVE  Answers
<1>1. CASE ValidateResume \/ Probe \/ QuietReport \/ ResumeRecipe
  BY <1>1 DEF ValidateResume, Probe, QuietReport, ResumeRecipe, Answers, Goto, End, Others
<1>2. CASE Reconcile
  BY <1>2 DEF Reconcile, AfterReconcile, Answers, Goto, End, Others
<1>3. CASE ResumeWhole \/ ResumeRemaining
  BY <1>3 DEF ResumeWhole, ResumeRemaining, Answers
<1>. QED BY <1>1, <1>2, <1>3

\* What a device-to-host execution answers.
LEMMA ReadAnswers ==
  ASSUME ReadAdmit \/ ReadSettle \/ ReadWrite
  PROVE  Answers
BY DEF ReadAdmit, ReadSettle, ReadWrite, Answers, Goto, End, Others

\* The world answers nothing but a crash.
LEMMA WorldAnswers == ASSUME Caller \/ Environment PROVE Answers
BY DEF Caller, Environment, Start, StartResume, StartRead, Abort, SourceChanges, DeviceTakes, DeviceAnswersRead,
       DeviceCommits, DeviceResets, LinkBreaks, Crash, End, Others, Answers

\* What an execution answers is true of the device, in every behaviour.
THEOREM OutcomeIsHonest == Spec => OutcomeHonest
<1>1. Inv /\ [Next]_vars => [HonestStep]_vars
  <2>. SUFFICES ASSUME Inv, Next PROVE HonestStep
    OBVIOUS
  <2>1. CASE RemoveCheckpoint
    BY <2>1, RemovedIsHonest
  <2>2. CASE Cancelling
    BY <2>2, CancelledIsHonest
  <2>3. CASE Answers
    <3>1. outcome' = outcome => HonestStep
      BY DEF HonestStep
    <3>. QED BY <2>3, <3>1, FailedIsHonest, OthersAreHonest DEF Answers
  <2>4. RemoveCheckpoint \/ Cancelling \/ Answers
    BY FirstAnswers, LoopAnswers, EndAnswers, ResumeAnswers, ReadAnswers, WorldAnswers DEF Next, Execution
  <2>. QED BY <2>1, <2>2, <2>3, <2>4
<1>. QED BY <1>1, RuntimeInvariant, PTL DEF Spec, OutcomeHonest, HonestStep

-----------------------------------------------------------------------------
\* A chunk is told by where it begins, so there are no more settled ranges than octets.
LEMMA TodoBounded ==
  ASSUME NEW r \in Runs, ChunksOf(r)
  PROVE  IsFiniteSet(r.todo) /\ Cardinality(r.todo) \in 0 .. Length
<1>1. CASE decl.prefix
  <2>1. PICK t : r.todo \subseteq {t}
    BY <1>1 DEF ChunksOf
  <2>2. IsFiniteSet({t}) /\ Cardinality({t}) = 1
    BY FS_Singleton
  <2>3. IsFiniteSet(r.todo) /\ Cardinality(r.todo) <= 1
    BY <2>1, <2>2, FS_Subset
  <2>4. Cardinality(r.todo) \in Nat
    BY <2>3, FS_CardinalityType
  <2>. QED BY <2>3, <2>4, Sizes
<1>2. CASE ~decl.prefix
  <2>1. r.todo \subseteq Ranges /\ \A t \in r.todo : Chunked(t)
    BY <1>2 DEF ChunksOf, Runs
  <2>2. \A t \in r.todo : t \in [lo : 0 .. Length, hi : 0 .. Length] /\ t.lo < t.hi
    BY <2>1 DEF Ranges
  <2>3. \A t \in r.todo : t.lo \in 0 .. Length - 1
    BY <2>2, Sizes
  <2>4. \A s, t \in r.todo : s.lo = t.lo => s = t
    <3>. SUFFICES ASSUME NEW s \in r.todo, NEW t \in r.todo, s.lo = t.lo PROVE s = t
      OBVIOUS
    <3>1. s.hi = t.hi
      BY <2>1 DEF Chunked
    <3>. QED BY <3>1, <2>2
  <2>. DEFINE begin == [t \in r.todo |-> t.lo]
  <2>5. begin \in Injection(r.todo, 0 .. Length - 1)
    BY <2>3, <2>4 DEF Injection, IsInjective
  <2>6. IsFiniteSet(0 .. Length - 1) /\ Cardinality(0 .. Length - 1) = Length
    <3>1. 0 \in Int /\ Length - 1 \in Int /\ ~(0 > Length - 1) /\ Length - 1 - 0 + 1 = Length
      BY Sizes
    <3>. QED BY <3>1, FS_Interval
  <2>7. IsFiniteSet(r.todo) /\ Cardinality(r.todo) <= Length
    BY <2>5, <2>6, FS_Injection
  <2>8. Cardinality(r.todo) \in Nat
    BY <2>7, FS_CardinalityType
  <2>. QED BY <2>7, <2>8, Sizes
<1>. QED BY <1>1, <1>2

\* What is left of the observations, in steps.
Left(r) == (MaxObservations - r.observed) * Round

\* They are naturals, and at most the bound of the settlement.
LEMMA LeftIs ==
  ASSUME NEW r \in Runs
  PROVE  /\ Left(r) \in Nat /\ Round \in Nat /\ Round = 4 * Length + 5 /\ MaxObservations * Round \in Nat
         /\ Left(r) <= MaxObservations * Round
         /\ (MaxObservations + 1) * Round = MaxObservations * Round + Round
<1>1. r.observed \in 0 .. MaxObservations
  BY DEF Runs
<1>2. Round \in Nat /\ Round = 4 * Length + 5
  BY Sizes DEF Round
<1>3. PICK R \in Nat : R = Round
  BY <1>2
<1>4. PICK k \in Nat : k = r.observed /\ k <= MaxObservations
  BY <1>1
<1>5. PICK m \in Nat : m = MaxObservations - k
  BY <1>4, Sizes
<1>6. m * R \in Nat /\ k * R \in Nat /\ MaxObservations = m + k
  BY <1>4, <1>5, Sizes
<1>7. (m + k) * R = m * R + k * R
  OBVIOUS
<1>8. (MaxObservations + 1) * R = MaxObservations * R + R
  BY Sizes
<1>. QED BY <1>2, <1>3, <1>4, <1>5, <1>6, <1>7, <1>8 DEF Left

\* One observation more is one round less.
LEMMA LeftLess ==
  ASSUME NEW r \in Runs, NEW q \in Runs, q.observed = r.observed + 1
  PROVE  Left(r) = Left(q) + Round
<1>1. r.observed \in 0 .. MaxObservations /\ q.observed \in 0 .. MaxObservations
  BY DEF Runs
<1>2. PICK R \in Nat : R = Round
  BY LeftIs
<1>3. PICK m \in Nat : m = MaxObservations - q.observed
  BY <1>1, Sizes
<1>4. MaxObservations - r.observed = m + 1
  BY <1>1, <1>3, Sizes
<1>5. (m + 1) * R = m * R + R
  OBVIOUS
<1>. QED BY <1>2, <1>3, <1>4, <1>5 DEF Left

\* The rank of an execution in its loop.
LEMMA LoopRank ==
  ASSUME NEW r \in Runs, InLoop(r)
  PROVE  Rank(r) = 12 + Left(r) + WithinRound(r)
BY NoneAssumption DEF Rank, Left

\* The stages outside the loop.
LEMMA StageRank ==
  ASSUME NEW r \in Runs
  PROVE  /\ r.at = "validate" => Rank(r) = 12 + (MaxObservations + 1) * Round + 12
         /\ r.at = "probe" => Rank(r) = 12 + (MaxObservations + 1) * Round + 11
         /\ r.at = "report" => Rank(r) = 12 + (MaxObservations + 1) * Round + 10
         /\ r.at = "recipe" => Rank(r) = 12 + (MaxObservations + 1) * Round + 9
         /\ r.at = "reconcile" => Rank(r) = 12 + (MaxObservations + 1) * Round + 8
         /\ r.at \in {"whole", "remaining"} => Rank(r) = 12 + (MaxObservations + 1) * Round + 7
         /\ r.at = "hash" => Rank(r) = 12 + (MaxObservations + 1) * Round + 6
         /\ r.at = "prepare" => Rank(r) = 12 + (MaxObservations + 1) * Round + 5
         /\ r.at = "preparing" => Rank(r) = 12 + (MaxObservations + 1) * Round + 4
         /\ r.at = "prepared" => Rank(r) = 12 + (MaxObservations + 1) * Round + 3
         /\ r.at = "transferring" => Rank(r) = 12 + (MaxObservations + 1) * Round + 2
         /\ r.at = "after" => Rank(r) = 10
         /\ r.at = "cancelling" => Rank(r) = 9
         /\ r.at = "verifying" => Rank(r) = IF r.whole THEN 4 ELSE 8
         /\ r.at = "finalizing" => Rank(r) = 7
         /\ r.at = "complete" => Rank(r) = 6
         /\ r.at = "completing" => Rank(r) = 5
         /\ r.at = "verify" => Rank(r) = 3
         /\ r.at = "remove" => Rank(r) = 2
BY NoneAssumption DEF Rank, InLoop, Before, Stage

-----------------------------------------------------------------------------
\* The stages of the loop, and their bounds.
LEMMA WithinIs ==
  ASSUME NEW r \in Runs, ChunksOf(r)
  PROVE  /\ r.at = "awaiting" => WithinRound(r) = Round - 1
         /\ r.at = "confirm" => WithinRound(r) = 3 * (Length - r.next) + 3 + Cardinality(r.todo)
         /\ r.at = "admit" => WithinRound(r) = 3 * (Length - r.next) + 2
         /\ r.at = "reading" => WithinRound(r) = 3 * (Length - r.next) + 1
         /\ r.at = "admitting" => WithinRound(r) = 3 * (Length - r.next)
         /\ r.at = "read" => WithinRound(r) = (Length - r.next) + Length + 3
         /\ r.at = "write" => WithinRound(r) = Cardinality(r.todo) + 2
         /\ r.at \in {"settle", "read-settle"} => WithinRound(r) = 1
BY DEF WithinRound

\* A round is longer than anything done within it.
LEMMA LoopBounds ==
  ASSUME NEW r \in Runs, ChunksOf(r), InLoop(r)
  PROVE  WithinRound(r) \in 0 .. Round - 1 /\ Rank(r) \in 12 .. 11 + (MaxObservations + 1) * Round
<1>1. r.next \in 0 .. Length /\ Cardinality(r.todo) \in 0 .. Length
  BY TodoBounded DEF Runs
<1>2. PICK unread \in 0 .. Length : unread = Length - r.next
  BY <1>1, Sizes
<1>3. WithinRound(r) \in 0 .. Round - 1
  BY <1>1, <1>2, LeftIs, WithinIs, Sizes DEF InLoop
<1>. QED BY <1>3, LoopRank, LeftIs

\* An execution has a step left.
LEMMA Positive == ASSUME NEW r \in Runs, ChunksOf(r) PROVE Rank(r) \in Nat /\ Rank(r) > 0
<1>1. (MaxObservations + 1) * Round \in Nat
  BY LeftIs, Sizes
<1>2. CASE InLoop(r)
  BY <1>1, <1>2, LoopBounds
<1>3. CASE ~InLoop(r)
  <2>1. r.at \in ResumeStages \cup FirstStages \cup {"hash", "prepared", "transferring"} \cup EndStages
    BY <1>3 DEF Runs, InLoop, WriteStages, LoopStages, ReadStages
  <2>. QED BY <1>1, <2>1, StageRank DEF ResumeStages, FirstStages, EndStages
<1>. QED BY <1>2, <1>3

\* A step leaves fewer.
Fewer == Rank(run') < Rank(run)

\* What is known of the execution before and after a step.
LEMMA StepFacts ==
  ASSUME Inv, Inv', run # None, decl' = decl
  PROVE  /\ run \in Runs /\ ChunksOf(run)
         /\ run' # None => run' \in Runs /\ ChunksOf(run')
<1>1. run \in Runs /\ ChunksOf(run)
  BY DEF Inv, RuntimeTypeOK, CountInv
<1>2. run' # None => run' \in Runs /\ ChunksOf(run')
  BY DEF Inv, RuntimeTypeOK, CountInv, ChunksOf
<1>. QED BY <1>1, <1>2

\* The end of an execution leaves none.
LEMMA EndsFewer == ASSUME Inv, Inv', run # None, decl' = decl, run' = None PROVE Fewer
<1>1. Rank(run') = 0
  BY DEF Rank
<1>. QED BY <1>1, StepFacts, Positive DEF Fewer

\* From a stage outside the loop to the next.
LEMMA StagesFewer ==
  ASSUME run \in Runs, run' \in Runs, ChunksOf(run), ChunksOf(run'),
         \/ run.at = "validate" /\ run'.at = "probe"
         \/ run.at = "probe" /\ run'.at \in {"report", "recipe", "reconcile"}
         \/ run.at = "report" /\ run'.at = "recipe"
         \/ run.at = "recipe" /\ run'.at = "reconcile"
         \/ run.at = "reconcile" /\ run'.at \in {"whole", "remaining"}
         \/ run.at = "whole" /\ run'.at = "finalizing"
         \/ run.at = "remaining" /\ run'.at = "hash"
         \/ run.at = "hash" /\ run'.at \in {"prepare", "prepared"}
         \/ run.at = "prepare" /\ run'.at = "preparing"
         \/ run.at = "preparing" /\ run'.at = "prepared"
         \/ run.at = "prepared" /\ run'.at = "transferring"
         \/ run.at = "transferring" /\ run'.at = "admit"
         \/ run.at = "after" /\ run'.at \in {"cancelling", "verifying"}
         \/ run.at = "verifying" /\ run.whole /\ run'.at = "verify"
         \/ run.at = "verifying" /\ ~run.whole /\ run'.at = "finalizing"
         \/ run.at = "finalizing" /\ run'.at = "complete"
         \/ run.at = "complete" /\ run'.at = "completing"
         \/ run.at = "completing" /\ run'.at = "verifying" /\ run'.whole
         \/ run.at = "completing" /\ run'.at = "verify"
         \/ run.at = "verify" /\ run'.at = "remove"
  PROVE  Fewer
<1>1. PICK B \in Nat : B = (MaxObservations + 1) * Round
  BY LeftIs, Sizes
<1>2. CASE run.at = "transferring" /\ run'.at = "admit"
  <2>1. InLoop(run')
    BY <1>2 DEF InLoop
  <2>. QED BY <1>1, <1>2, <2>1, LoopBounds, StageRank DEF Fewer
<1>3. CASE run.at \in {"whole", "remaining"}
  BY <1>1, <1>3, StageRank DEF Fewer
<1>4. CASE run.at \in {"validate", "probe", "report", "recipe", "reconcile", "hash", "prepare", "preparing", "prepared"}
  BY <1>1, <1>4, StageRank DEF Fewer
<1>5. CASE run.at \in {"after", "verifying", "finalizing", "complete", "completing", "verify"}
  BY <1>1, <1>5, StageRank DEF Fewer
<1>. QED BY <1>2, <1>3, <1>4, <1>5

\* The stages before the loop.
LEMMA FirstFewer ==
  ASSUME Inv, Inv', run # None, Prehash \/ Prepare \/ Prepared \/ CommitPhase
  PROVE  Fewer
<1>1. decl' = decl
  BY DEF Prehash, Prepare, Prepared, CommitPhase, World
<1>2. run \in Runs /\ ChunksOf(run) /\ (run' # None => run' \in Runs /\ ChunksOf(run'))
  BY <1>1, StepFacts
<1>3. CASE run' = None
  BY <1>1, <1>3, EndsFewer
<1>4. ASSUME run' # None PROVE Fewer
  <2>1. ~Failed
    BY <1>4 DEF Failed, End
  <2>2. run' \in Runs /\ ChunksOf(run')
    BY <1>2, <1>4
  <2>3. CASE Prehash
    BY <1>2, <2>1, <2>2, <2>3, StagesFewer DEF Prehash, At, Goto, Runs
  <2>4. CASE Prepare
    BY <1>2, <2>1, <2>2, <2>4, StagesFewer DEF Prepare, At, Runs
  <2>5. CASE Prepared
    BY <1>2, <2>1, <2>2, <2>5, StagesFewer DEF Prepared, At, Goto, Runs
  <2>6. CASE CommitPhase
    BY <1>2, <2>1, <2>2, <2>6, StagesFewer DEF CommitPhase, AfterPhase, At, Goto, Runs
  <2>. QED BY <2>3, <2>4, <2>5, <2>6
<1>. QED BY <1>3, <1>4

\* The stages of a resume.
LEMMA ResumeFewer ==
  ASSUME Inv, Inv', run # None,
         ValidateResume \/ Probe \/ QuietReport \/ ResumeRecipe \/ Reconcile \/ ResumeWhole \/ ResumeRemaining
  PROVE  Fewer
<1>1. decl' = decl
  BY DEF ValidateResume, Probe, QuietReport, ResumeRecipe, Reconcile, ResumeWhole, ResumeRemaining, World
<1>2. run \in Runs /\ ChunksOf(run) /\ (run' # None => run' \in Runs /\ ChunksOf(run'))
  BY <1>1, StepFacts
<1>3. CASE run' = None
  BY <1>1, <1>3, EndsFewer
<1>4. ASSUME run' # None PROVE Fewer
  <2>1. ~End("refused")
    BY <1>4 DEF End
  <2>2. run' \in Runs /\ ChunksOf(run')
    BY <1>2, <1>4
  <2>3. CASE ValidateResume
    BY <1>2, <2>1, <2>2, <2>3, StagesFewer DEF ValidateResume, At, Goto, Runs
  <2>4. CASE Probe
    BY <1>2, <2>1, <2>2, <2>4, StagesFewer DEF Probe, At, Goto, Runs
  <2>5. CASE QuietReport
    BY <1>2, <2>1, <2>2, <2>5, StagesFewer DEF QuietReport, At, Goto, Runs
  <2>6. CASE ResumeRecipe
    BY <1>2, <2>1, <2>2, <2>6, StagesFewer DEF ResumeRecipe, At, Goto, Runs
  <2>7. CASE Reconcile
    BY <1>2, <2>1, <2>2, <2>7, StagesFewer DEF Reconcile, AfterReconcile, At, Goto, Runs
  <2>8. CASE ResumeWhole
    BY <1>2, <2>1, <2>2, <2>8, StagesFewer DEF ResumeWhole, At, Goto, Runs
  <2>9. CASE ResumeRemaining
    BY <1>2, <2>1, <2>2, <2>9, StagesFewer DEF ResumeRemaining, At, Goto, Runs
  <2>. QED BY <2>3, <2>4, <2>5, <2>6, <2>7, <2>8, <2>9
<1>. QED BY <1>3, <1>4

\* The stages after the loop.
LEMMA EndFewer ==
  ASSUME Inv, Inv', run # None, After \/ Cancelling \/ Complete \/ Completed \/ Verify \/ RemoveCheckpoint
  PROVE  Fewer
<1>1. decl' = decl
  BY DEF After, Cancelling, Complete, Completed, Verify, RemoveCheckpoint, World
<1>2. run \in Runs /\ ChunksOf(run) /\ (run' # None => run' \in Runs /\ ChunksOf(run'))
  BY <1>1, StepFacts
<1>3. CASE run' = None
  BY <1>1, <1>3, EndsFewer
<1>4. ASSUME run' # None PROVE Fewer
  <2>1. ~Failed /\ \A o : ~End(o)
    BY <1>4 DEF Failed, End
  <2>2. run' \in Runs /\ ChunksOf(run')
    BY <1>2, <1>4
  <2>3. CASE After
    BY <1>2, <2>1, <2>2, <2>3, StagesFewer DEF After, At, Goto, Runs
  <2>4. CASE Cancelling \/ RemoveCheckpoint
    BY <2>1, <2>4 DEF Cancelling, RemoveCheckpoint
  <2>5. CASE Complete
    BY <1>2, <2>1, <2>2, <2>5, StagesFewer DEF Complete, At, Goto, Runs
  <2>6. CASE Completed
    BY <1>2, <2>1, <2>2, <2>6, StagesFewer DEF Completed, At, Goto, Runs
  <2>7. CASE Verify
    BY <1>2, <2>1, <2>2, <2>7, StagesFewer DEF Verify, At, Goto, Runs
  <2>. QED BY <2>3, <2>4, <2>5, <2>6, <2>7
<1>. QED BY <1>3, <1>4

-----------------------------------------------------------------------------
\* The numbers a step of the loop is compared by.
LEMMA LoopStepFacts ==
  ASSUME NEW r \in Runs, ChunksOf(r), InLoop(r)
  PROVE  /\ Rank(r) = 12 + Left(r) + WithinRound(r) /\ Left(r) \in Nat
         /\ WithinRound(r) \in 0 .. Round - 1 /\ Round \in Nat
         /\ Length - r.next \in 0 .. Length /\ Cardinality(r.todo) \in 0 .. Length
<1>1. r.next \in 0 .. Length
  BY DEF Runs
<1>. QED BY <1>1, LoopRank, LoopBounds, LeftIs, TodoBounded, Sizes

\* In the same round.
LEMMA RoundFewer ==
  ASSUME run \in Runs, run' \in Runs, ChunksOf(run), ChunksOf(run'), InLoop(run), InLoop(run'),
         run'.observed = run.observed, WithinRound(run') < WithinRound(run)
  PROVE  Fewer
<1>1. Left(run') = Left(run)
  BY DEF Left
<1>. QED BY <1>1, LoopStepFacts DEF Fewer

\* To the next round.
LEMMA ObservesFewer ==
  ASSUME run \in Runs, run' \in Runs, ChunksOf(run), ChunksOf(run'), InLoop(run), InLoop(run'),
         run'.observed = run.observed + 1, WithinRound(run) > 0
  PROVE  Fewer
BY LoopStepFacts, LeftLess DEF Fewer

\* Out of the loop.
LEMMA LeavesFewer ==
  ASSUME run \in Runs, run' \in Runs, ChunksOf(run), InLoop(run), run'.at = "after"
  PROVE  Fewer
<1>1. (MaxObservations + 1) * Round \in Nat
  BY LeftIs, Sizes
<1>. QED BY <1>1, LoopBounds, StageRank DEF Fewer

\* From an admission to the read, the settlement or the end of the loop.
LEMMA AdmitFewer == ASSUME Inv, Inv', run # None, Admit PROVE Fewer
<1>1. decl' = decl /\ run.at = "admit"
  BY DEF Admit, At, World
<1>. SUFFICES ASSUME run' # None PROVE Fewer
  BY <1>1, EndsFewer
<1>2. run \in Runs /\ ChunksOf(run) /\ run' \in Runs /\ ChunksOf(run') /\ InLoop(run)
  BY <1>1, StepFacts DEF InLoop
<1>3. ~Failed /\ \A o : ~End(o)
  BY DEF Failed, End
<1>4. PICK s \in {"reading", "after", "settle"} :
        run' = [run EXCEPT !.cancelled = @ \/ ((Cardinality(run.fly) < Window /\ run.next < Length) /\ aborted),
                           !.at = s]
  BY DEF Admit, WhenNoneAdmitted
<1>5. run'.at = s /\ run'.next = run.next /\ run'.observed = run.observed
  BY <1>2, <1>4 DEF Runs
<1>6. CASE s = "after"
  BY <1>2, <1>5, <1>6, LeavesFewer
<1>7. CASE s \in {"reading", "settle"}
  <2>1. InLoop(run')
    BY <1>5, <1>7 DEF InLoop
  <2>2. WithinRound(run') < WithinRound(run)
    BY <1>1, <1>2, <1>5, <1>7, <2>1, WithinIs, LoopStepFacts
  <2>. QED BY <1>2, <1>5, <2>1, <2>2, RoundFewer
<1>. QED BY <1>6, <1>7

\* From the read to its admission.
LEMMA AdmitReadFewer == ASSUME Inv, Inv', run # None, AdmitRead PROVE Fewer
<1>1. decl' = decl /\ run.at = "reading"
  BY DEF AdmitRead, At, World
<1>. SUFFICES ASSUME run' # None PROVE Fewer
  BY <1>1, EndsFewer
<1>2. run \in Runs /\ ChunksOf(run) /\ run' \in Runs /\ ChunksOf(run') /\ InLoop(run)
  BY <1>1, StepFacts DEF InLoop
<1>3. ~Failed /\ \A o : ~End(o)
  BY DEF Failed, End
<1>4. run.next < Length
  BY <1>1, WritingFacts DEF ShapeOf, Writing, WriteStages, LoopStages
<1>5. \/ run'.at = "settle"
      \/ run'.at = "admitting" /\ run'.next = run.next
  BY <1>2 DEF AdmitRead, Runs
<1>6. run'.observed = run.observed
  BY <1>2 DEF AdmitRead, Runs
<1>7. InLoop(run')
  BY <1>5 DEF InLoop
<1>8. WithinRound(run') < WithinRound(run)
  <2>0. run.next \in 0 .. Length
    BY <1>2 DEF Runs
  <2>1. Length - run.next \in 1 .. Length
    BY <1>4, <2>0, Sizes
  <2>2. WithinRound(run) = 3 * (Length - run.next) + 1
    BY <1>1, <1>2, WithinIs
  <2>3. WithinRound(run') = 1 \/ WithinRound(run') = 3 * (Length - run.next)
    BY <1>2, <1>5, WithinIs
  <2>. QED BY <2>1, <2>2, <2>3, Sizes
<1>. QED BY <1>2, <1>6, <1>7, <1>8, RoundFewer

\* A chunk less to read pays for its admission.
LEMMA AdmittedFewer == ASSUME Inv, Inv', run # None, Admitted PROVE Fewer
<1>1. decl' = decl /\ run.at = "admitting"
  BY DEF Admitted, At, World
<1>. SUFFICES ASSUME run' # None PROVE Fewer
  BY <1>1, EndsFewer
<1>2. run \in Runs /\ ChunksOf(run) /\ run' \in Runs /\ ChunksOf(run') /\ InLoop(run)
  BY <1>1, StepFacts DEF InLoop
<1>3. ~Failed /\ \A o : ~End(o)
  BY DEF Failed, End
<1>4. run.next < Length
  BY <1>1, WritingFacts DEF ShapeOf, Writing, WriteStages, LoopStages
<1>5. NextChunk.hi \in run.next + 1 .. Length
  BY <1>2, <1>4, NextChunkIs
<1>6. PICK next \in run.next + 1 .. Length : next = NextChunk.hi
  BY <1>5
<1>7. \/ run' = [[run EXCEPT !.next = next] EXCEPT !.at = "admit"]
      \/ run' = [[run EXCEPT !.next = next] EXCEPT !.at = "settle", !.cancelled = TRUE]
  BY <1>3, <1>6 DEF Admitted
<1>8. run'.next = next /\ run'.at \in {"admit", "settle"} /\ run'.observed = run.observed
  BY <1>2, <1>7 DEF Runs
<1>9. InLoop(run')
  BY <1>8 DEF InLoop
<1>10. WithinRound(run') < WithinRound(run)
  <2>1. run.next \in 0 .. Length
    BY <1>2 DEF Runs
  <2>2. WithinRound(run) = 3 * (Length - run.next)
    BY <1>1, <1>2, WithinIs
  <2>3. WithinRound(run') = 1 \/ WithinRound(run') = 3 * (Length - next) + 2
    BY <1>2, <1>8, WithinIs
  <2>. QED BY <1>4, <2>1, <2>2, <2>3, Sizes
<1>. QED BY <1>2, <1>8, <1>9, <1>10, RoundFewer

\* An observation is one round less.
LEMMA SettleFewer == ASSUME Inv, Inv', run # None, Settle PROVE Fewer
<1>1. decl' = decl /\ run.at = "settle"
  BY DEF Settle, At, World
<1>. SUFFICES ASSUME run' # None PROVE Fewer
  BY <1>1, EndsFewer
<1>2. run \in Runs /\ ChunksOf(run) /\ run' \in Runs /\ ChunksOf(run') /\ InLoop(run)
  BY <1>1, StepFacts DEF InLoop
<1>3. ~Failed /\ \A o : ~End(o)
  BY DEF Failed, End
<1>4. run' = [run EXCEPT !.at = "awaiting", !.observed = @ + 1]
  BY <1>3 DEF Settle
<1>5. run'.at = "awaiting" /\ run'.observed = run.observed + 1
  BY <1>2, <1>4 DEF Runs
<1>6. InLoop(run')
  BY <1>5 DEF InLoop
<1>7. WithinRound(run) = 1
  BY <1>1, <1>2, WithinIs
<1>. QED BY <1>2, <1>5, <1>6, <1>7, ObservesFewer

\* The ranges of an observation fit in its round.
LEMMA SettleRangesFewer == ASSUME Inv, Inv', run # None, SettleRanges PROVE Fewer
<1>1. decl' = decl /\ run.at = "awaiting"
  BY DEF SettleRanges, At, World
<1>. SUFFICES ASSUME run' # None PROVE Fewer
  BY <1>1, EndsFewer
<1>2. run \in Runs /\ ChunksOf(run) /\ run' \in Runs /\ ChunksOf(run') /\ InLoop(run)
  BY <1>1, StepFacts DEF InLoop
<1>3. ~Failed /\ \A o : ~End(o)
  BY DEF Failed, End
<1>4. run'.at = "confirm" /\ run'.observed = run.observed
  BY <1>2 DEF SettleRanges, Runs
<1>5. InLoop(run')
  BY <1>4 DEF InLoop
<1>6. WithinRound(run') < WithinRound(run)
  <2>1. WithinRound(run) = Round - 1 /\ Round = 4 * Length + 5
    BY <1>1, <1>2, WithinIs, LeftIs
  <2>2. WithinRound(run') = 3 * (Length - run'.next) + 3 + Cardinality(run'.todo)
    BY <1>2, <1>4, WithinIs
  <2>3. Length - run'.next \in 0 .. Length /\ Cardinality(run'.todo) \in 0 .. Length
    BY <1>2, <1>5, LoopStepFacts
  <2>. QED BY <2>1, <2>2, <2>3, Sizes
<1>. QED BY <1>2, <1>4, <1>5, <1>6, RoundFewer

\* So does a cumulative report.
LEMMA SettlePrefixFewer == ASSUME Inv, Inv', run # None, SettlePrefix PROVE Fewer
<1>1. decl' = decl /\ run.at = "awaiting"
  BY DEF SettlePrefix, At, World
<1>. SUFFICES ASSUME run' # None PROVE Fewer
  BY <1>1, EndsFewer
<1>2. run \in Runs /\ ChunksOf(run) /\ run' \in Runs /\ ChunksOf(run') /\ InLoop(run)
  BY <1>1, StepFacts DEF InLoop
<1>3. ~Failed /\ \A o : ~End(o)
  BY DEF Failed, End
<1>4. run'.at = "confirm" /\ run'.observed = run.observed
  BY <1>2, <1>3 DEF SettlePrefix, Runs
<1>5. InLoop(run')
  BY <1>4 DEF InLoop
<1>6. WithinRound(run') < WithinRound(run)
  <2>1. WithinRound(run) = Round - 1 /\ Round = 4 * Length + 5
    BY <1>1, <1>2, WithinIs, LeftIs
  <2>2. WithinRound(run') = 3 * (Length - run'.next) + 3 + Cardinality(run'.todo)
    BY <1>2, <1>4, WithinIs
  <2>3. Length - run'.next \in 0 .. Length /\ Cardinality(run'.todo) \in 0 .. Length
    BY <1>2, <1>5, LoopStepFacts
  <2>. QED BY <2>1, <2>2, <2>3, Sizes
<1>. QED BY <1>2, <1>4, <1>5, <1>6, RoundFewer

\* A wait that fails ends the execution.
LEMMA SettleFailsFewer == ASSUME Inv, Inv', run # None, SettleFails PROVE Fewer
BY EndsFewer DEF SettleFails, End, World

\* A confirmation less.
LEMMA ConfirmFewer == ASSUME Inv, Inv', run # None, Confirm PROVE Fewer
<1>1. decl' = decl /\ run.at = "confirm"
  BY DEF Confirm, At, World
<1>. SUFFICES ASSUME run' # None PROVE Fewer
  BY <1>1, EndsFewer
<1>2. run \in Runs /\ ChunksOf(run) /\ run' \in Runs /\ ChunksOf(run') /\ InLoop(run)
  BY <1>1, StepFacts DEF InLoop
<1>3. ~Failed /\ \A o : ~End(o)
  BY DEF Failed, End
<1>4. PICK r \in run.todo : run' = [run EXCEPT !.todo = @ \ {r}]
  BY <1>3 DEF Confirm
<1>5. run'.at = "confirm" /\ run'.next = run.next /\ run'.observed = run.observed /\ run'.todo = run.todo \ {r}
  BY <1>1, <1>2, <1>4 DEF Runs
<1>6. InLoop(run')
  BY <1>5 DEF InLoop
<1>7. Cardinality(run'.todo) < Cardinality(run.todo)
  <2>1. IsFiniteSet(run.todo) /\ Cardinality(run.todo) \in Nat
    BY <1>2, TodoBounded, Sizes
  <2>2. Cardinality(run'.todo) = Cardinality(run.todo) - 1
    BY <1>4, <1>5, <2>1, FS_RemoveElement
  <2>. QED BY <2>1, <2>2
<1>8. WithinRound(run') < WithinRound(run)
  <2>1. WithinRound(run) = 3 * (Length - run.next) + 3 + Cardinality(run.todo)
    BY <1>1, <1>2, WithinIs
  <2>2. WithinRound(run') = 3 * (Length - run.next) + 3 + Cardinality(run'.todo)
    BY <1>2, <1>5, WithinIs
  <2>3. /\ Length - run.next \in 0 .. Length /\ Cardinality(run.todo) \in 0 .. Length
        /\ Cardinality(run'.todo) \in 0 .. Length
    BY <1>2, <1>6, LoopStepFacts
  <2>. QED BY <1>7, <2>1, <2>2, <2>3, Sizes
<1>. QED BY <1>2, <1>5, <1>6, <1>8, RoundFewer

\* The confirmations are over.
LEMMA ObservedFewer == ASSUME Inv, Inv', run # None, Observed PROVE Fewer
<1>1. decl' = decl /\ run.at = "confirm"
  BY DEF Observed, At, World
<1>. SUFFICES ASSUME run' # None PROVE Fewer
  BY <1>1, EndsFewer
<1>2. run \in Runs /\ ChunksOf(run) /\ run' \in Runs /\ ChunksOf(run') /\ InLoop(run)
  BY <1>1, StepFacts DEF InLoop
<1>3. ~Failed /\ \A o : ~End(o)
  BY DEF Failed, End
<1>4. PICK s \in {"admit", "after", "settle"} :
        run' = [run EXCEPT !.cancelled = run.cancelled \/ aborted, !.at = s]
  BY DEF Observed, WhenNoneAdmitted
<1>5. run'.at = s /\ run'.next = run.next /\ run'.observed = run.observed
  BY <1>2, <1>4 DEF Runs
<1>6. CASE s = "after"
  BY <1>2, <1>5, <1>6, LeavesFewer
<1>7. CASE s \in {"admit", "settle"}
  <2>1. InLoop(run')
    BY <1>5, <1>7 DEF InLoop
  <2>2. WithinRound(run) = 3 * (Length - run.next) + 3 + Cardinality(run.todo)
    BY <1>1, <1>2, WithinIs
  <2>3. WithinRound(run') = 1 \/ WithinRound(run') = 3 * (Length - run.next) + 2
    BY <1>2, <1>5, <1>7, WithinIs
  <2>4. Length - run.next \in 0 .. Length /\ Cardinality(run.todo) \in 0 .. Length
    BY <1>2, LoopStepFacts
  <2>5. WithinRound(run') < WithinRound(run)
    BY <2>2, <2>3, <2>4, Sizes
  <2>. QED BY <1>2, <1>5, <2>1, <2>5, RoundFewer
<1>. QED BY <1>6, <1>7

\* A request less, or the writes begin.
LEMMA ReadAdmitFewer == ASSUME Inv, Inv', run # None, ReadAdmit PROVE Fewer
<1>1. decl' = decl /\ run.at = "read"
  BY DEF ReadAdmit, At, World
<1>. SUFFICES ASSUME run' # None PROVE Fewer
  BY <1>1, EndsFewer
<1>2. run \in Runs /\ ChunksOf(run) /\ run' \in Runs /\ ChunksOf(run') /\ InLoop(run)
  BY <1>1, StepFacts DEF InLoop
<1>3. ~Failed /\ \A o : ~End(o)
  BY DEF Failed, End
<1>4. CASE Goto("write")
  <2>1. run'.at = "write" /\ run'.next = run.next /\ run'.observed = run.observed
    BY <1>2, <1>4 DEF Goto, Runs
  <2>2. InLoop(run')
    BY <2>1 DEF InLoop
  <2>3. WithinRound(run) = (Length - run.next) + Length + 3 /\ WithinRound(run') = Cardinality(run'.todo) + 2
    BY <1>1, <1>2, <2>1, WithinIs
  <2>4. Length - run.next \in 0 .. Length /\ Cardinality(run'.todo) \in 0 .. Length
    BY <1>2, <2>2, LoopStepFacts
  <2>5. WithinRound(run') < WithinRound(run)
    BY <2>3, <2>4, Sizes
  <2>. QED BY <1>2, <2>1, <2>2, <2>5, RoundFewer
<1>5. CASE run.next < Length /\ run' = [run EXCEPT !.fly = @ \cup {NextChunk}, !.next = NextChunk.hi]
  <2>1. PICK next \in run.next + 1 .. Length : next = NextChunk.hi
    BY <1>2, <1>5, NextChunkIs
  <2>2. run'.at = "read" /\ run'.next = next /\ run'.observed = run.observed
    BY <1>1, <1>2, <1>5, <2>1 DEF Runs
  <2>3. InLoop(run')
    BY <2>2 DEF InLoop
  <2>4. WithinRound(run) = (Length - run.next) + Length + 3 /\ WithinRound(run') = (Length - next) + Length + 3
    BY <1>1, <1>2, <2>2, WithinIs
  <2>5. run.next \in 0 .. Length
    BY <1>2 DEF Runs
  <2>6. WithinRound(run') < WithinRound(run)
    BY <2>4, <2>5, Sizes
  <2>. QED BY <1>2, <2>2, <2>3, <2>6, RoundFewer
<1>. QED BY <1>3, <1>4, <1>5 DEF ReadAdmit

\* An observation is one round less here as well.
LEMMA ReadSettleFewer == ASSUME Inv, Inv', run # None, ReadSettle PROVE Fewer
<1>1. decl' = decl /\ run.at = "read-settle"
  BY DEF ReadSettle, At, World
<1>. SUFFICES ASSUME run' # None PROVE Fewer
  BY <1>1, EndsFewer
<1>2. run \in Runs /\ ChunksOf(run) /\ run' \in Runs /\ ChunksOf(run') /\ InLoop(run)
  BY <1>1, StepFacts DEF InLoop
<1>3. ~Failed /\ \A o : ~End(o)
  BY DEF Failed, End
<1>4. run'.at = "read" /\ run'.observed = run.observed + 1
  BY <1>2, <1>3 DEF ReadSettle, Runs
<1>5. InLoop(run')
  BY <1>4 DEF InLoop
<1>6. WithinRound(run) = 1
  BY <1>1, <1>2, WithinIs
<1>. QED BY <1>2, <1>4, <1>5, <1>6, ObservesFewer

\* A write less, or the writes are over.
LEMMA ReadWriteFewer == ASSUME Inv, Inv', run # None, ReadWrite PROVE Fewer
<1>1. decl' = decl /\ run.at = "write"
  BY DEF ReadWrite, At
<1>. SUFFICES ASSUME run' # None PROVE Fewer
  BY <1>1, EndsFewer
<1>2. run \in Runs /\ ChunksOf(run) /\ run' \in Runs /\ ChunksOf(run') /\ InLoop(run)
  BY <1>1, StepFacts DEF InLoop
<1>3. ~Failed /\ \A o : ~End(o)
  BY DEF Failed, End
<1>4. CASE Goto("read-settle")
  <2>1. run'.at = "read-settle" /\ run'.observed = run.observed
    BY <1>2, <1>4 DEF Goto, Runs
  <2>2. InLoop(run')
    BY <2>1 DEF InLoop
  <2>3. WithinRound(run) = Cardinality(run.todo) + 2 /\ WithinRound(run') = 1
    BY <1>1, <1>2, <2>1, WithinIs
  <2>4. WithinRound(run') < WithinRound(run)
    BY <1>2, <2>3, LoopStepFacts, Sizes
  <2>. QED BY <1>2, <2>1, <2>2, <2>4, RoundFewer
<1>5. ASSUME NEW r \in run.todo, run' = [run EXCEPT !.todo = @ \ {r}, !.durable = r.hi]
      PROVE  Fewer
  <2>1. run'.at = "write" /\ run'.observed = run.observed /\ run'.todo = run.todo \ {r}
    BY <1>1, <1>2, <1>5 DEF Runs
  <2>2. InLoop(run')
    BY <2>1 DEF InLoop
  <2>3. IsFiniteSet(run.todo) /\ Cardinality(run.todo) \in Nat
    BY <1>2, TodoBounded, Sizes
  <2>4. Cardinality(run'.todo) = Cardinality(run.todo) - 1
    BY <1>5, <2>1, <2>3, FS_RemoveElement
  <2>5. WithinRound(run) = Cardinality(run.todo) + 2 /\ WithinRound(run') = Cardinality(run'.todo) + 2
    BY <1>1, <1>2, <2>1, WithinIs
  <2>6. WithinRound(run') < WithinRound(run)
    BY <2>3, <2>4, <2>5
  <2>. QED BY <1>2, <2>1, <2>2, <2>6, RoundFewer
<1>. QED BY <1>3, <1>4, <1>5 DEF ReadWrite, NextWrites

\* Whoever else takes a step leaves the execution alone, or ends it.
LEMMA OthersFewer ==
  ASSUME Inv, Inv', run # None, run' # run, Caller \/ Environment
  PROVE  Fewer
<1>1. Crash
  BY DEF Caller, Environment, Start, StartResume, StartRead, Abort, SourceChanges, DeviceTakes,
         DeviceAnswersRead, DeviceCommits, DeviceResets, LinkBreaks
<1>. QED BY <1>1, EndsFewer DEF Crash, End, World

\* Each step of an execution leaves fewer to come: every execution ends, whatever the device
\* answers, in whatever pieces, and whatever fails.
THEOREM EveryStepIsCounted == Spec => EveryStepCounts
<1>1. Inv /\ Inv' /\ [Next]_vars => [run # None /\ run' # run => Rank(run') < Rank(run)]_vars
  <2>. SUFFICES ASSUME Inv, Inv', Next, run # None, run' # run PROVE Fewer
    BY DEF Fewer
  <2>. QED BY FirstFewer, AdmitFewer, AdmitReadFewer, AdmittedFewer, SettleFewer, SettleRangesFewer,
              SettlePrefixFewer, SettleFailsFewer, ConfirmFewer, ObservedFewer, EndFewer, ResumeFewer,
              ReadAdmitFewer, ReadSettleFewer, ReadWriteFewer, OthersFewer DEF Next, Execution
<1>. QED BY <1>1, RuntimeInvariant, PTL DEF Spec, EveryStepCounts
=============================================================================
