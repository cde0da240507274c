---------------------------- MODULE CaptureWriter ----------------------------
(***************************************************************************)
(* The recording of a session: CaptureWriter and the                       *)
(* DestinationCaptureRecorder around it, packages/core/src/capture.ts.     *)
(*                                                                         *)
(* record() never waits: a record is queued, or dropped into the pending   *)
(* gap, and a drain writes the queue to the file while the session goes    *)
(* on.  What must be recorded after an effect has happened is reserved     *)
(* before it.  An observation is its stamp, the number of the observation; *)
(* a record is a line of size 1 or, above the threshold, a payload that    *)
(* goes to a part of its own and leaves a line that refers to it.          *)
(*                                                                         *)
(* The session records in the order of its stamps, and into a reservation  *)
(* only while the capture is its current one; it releases it otherwise.    *)
(***************************************************************************)
EXTENDS Naturals, Sequences, SequencesExt

CONSTANTS
    MaxBuffered,    \* maximumBufferedBytes
    PartSize,       \* the size of a payload above sidecarThresholdBytes
    HoldSize,       \* the size that a reservation asks for
    Throws,         \* whether onRecordingLoss may throw: a subset of BOOLEAN
    MaxSeen,        \* bound: observations
    MaxHolds        \* bound: reservations held at once

CaptureAssumption ==
    /\ MaxBuffered \in Nat \ {0} /\ PartSize \in Nat \ {0} /\ HoldSize \in Nat \ {0}
    /\ Throws \subseteq BOOLEAN /\ FALSE \in Throws
    /\ MaxSeen \in Nat /\ MaxHolds \in Nat

VARIABLES
    seen,       \* the stamp of the last observation
    queue,      \* #queue: the records accepted and not yet taken
    queued,     \* #queuedBytes
    holds,      \* the reservations that are held; #reservedBytes is holds * HoldSize
    gap,        \* #pendingGap: the stamp of the first drop and the number of drops
    failed,     \* #storageError is set
    told,       \* #lossNotified
    drain,      \* the drain: where it is, the records it writes
    counted,    \* #recordCount and #gapCount
    file,       \* what the sink holds after the header
    torn,       \* a failed write left part of a line in it
    closer,     \* close() or abort(): which, where it is, whether its answer is "complete"
    dest        \* the destination: open, committed or aborted

vars == <<seen, queue, queued, holds, gap, failed, told, drain, counted, file, torn, closer, dest>>

Line(s) == [kind |-> "line", seq |-> s, n |-> 1]
Part(s) == [kind |-> "part", seq |-> s, n |-> 1]
Gap(s, n) == [kind |-> "gap", seq |-> s, n |-> n]
Footer(complete, c) == [kind |-> "footer", complete |-> complete, records |-> c.records, gaps |-> c.gaps]

NoGap == Gap(0, 0)
Idle == [at |-> "idle", items |-> <<>>]

Size(r) == IF r.kind = "part" THEN PartSize ELSE 1
Reserved(h) == h * HoldSize
Free == MaxBuffered - queued - Reserved(holds)

Init ==
    /\ seen = 0 /\ queue = <<>> /\ queued = 0 /\ holds = 0 /\ gap = NoGap
    /\ failed = FALSE /\ told = FALSE
    /\ drain = Idle /\ counted = [records |-> 0, gaps |-> 0]
    /\ file = <<>> /\ torn = FALSE
    /\ closer = [by |-> "nobody", at |-> "open", complete |-> FALSE] /\ dest = "open"

-----------------------------------------------------------------------------
(* The drain.                                                              *)

\* How many of the queue's records one write takes: a payload alone, or adjacent lines as
\* far as a copy of them fits beside the originals.
Batch(q, free) ==
    CHOOSE k \in DOMAIN q :
        /\ k = 1 \/ (k <= free /\ \A i \in 1..k : q[i].kind = "line")
        /\ \A j \in DOMAIN q : j > k => j > free \/ \E i \in 1..j : q[i].kind # "line"

\* The copy, while it is written.
Scratch(items) == IF Len(items) > 1 THEN Len(items) ELSE 0

\* The loop of #drain, at its top: the queue first, then the pending gap.
Loop(q, b, g, h) ==
    \/ /\ q # <<>>
       /\ LET items == SubSeq(q, 1, Batch(q, MaxBuffered - b - Reserved(h)))
          IN /\ drain' = [at |-> IF q[1].kind = "part" THEN "part" ELSE "lines", items |-> items]
             /\ queue' = SubSeq(q, Len(items) + 1, Len(q))
             /\ queued' = b + Scratch(items)
       /\ gap' = g
    \/ /\ q = <<>> /\ g.n > 0
       /\ drain' = [at |-> "lines", items |-> <<g>>]
       /\ gap' = NoGap /\ queue' = q /\ queued' = b
    \/ /\ q = <<>> /\ g.n = 0
       /\ drain' = [at |-> "ending", items |-> <<>>]
       /\ gap' = g /\ queue' = q /\ queued' = b

\* #startDrain, with this queue, gap and error: the first write begins at once.
Start(q, b, g, h, error) ==
    \/ drain = Idle /\ ~error /\ Loop(q, b, g, h)
    \/ (drain # Idle \/ error) /\ queue' = q /\ queued' = b /\ gap' = g /\ UNCHANGED drain

\* #notifyLoss, once; it tells whether the observer threw.
Notified(threw) == told' = TRUE /\ threw \in (IF told THEN {FALSE} ELSE Throws)

\* The error is kept, and everything that waits is given up.
GiveUp == /\ failed' = TRUE /\ Notified(FALSE)
          /\ queue' = <<>> /\ queued' = 0 /\ gap' = NoGap

\* A failed write leaves nothing of it, some whole records, or a torn one.
Torn(items) ==
    \E k \in 0..Len(items) :
        /\ file' = file \o SubSeq(items, 1, k)
        /\ torn' \in {torn, torn \/ k < Len(items)}

Tally(items) ==
    counted' = [records |-> counted.records + Len(items),
                gaps |-> counted.gaps + IF items[1].kind = "gap" THEN 1 ELSE 0]

\* The octets that a settled write gives back; a gap was never buffered.
Owed(items) ==
    IF items[1].kind = "gap" THEN 0
    ELSE IF items[1].kind = "part" THEN PartSize ELSE Len(items) + Scratch(items)

\* #writeDirect settles in the drain: counted unless an error came meanwhile.
Drain_Written ==
    /\ drain.at = "lines"
    /\ file' = file \o drain.items
    /\ \/ ~failed /\ Tally(drain.items) /\ Loop(queue, queued - Owed(drain.items), gap, holds)
       \/ /\ failed /\ drain' = [at |-> "ending", items |-> <<>>]
          /\ queued' = IF drain.items[1].kind = "part" THEN 0 ELSE queued
          /\ UNCHANGED <<counted, queue, gap>>
    /\ UNCHANGED <<seen, holds, failed, told, torn, closer, dest>>

Drain_Failed ==
    /\ drain.at \in {"lines", "part"}
    /\ \/ drain.at = "lines" /\ Torn(drain.items)
       \/ drain.at = "part" /\ UNCHANGED <<file, torn>>      \* openPart, a write or its close failed
    /\ GiveUp
    /\ drain' = [at |-> "ending", items |-> <<>>]
    /\ UNCHANGED <<seen, holds, counted, closer, dest>>

\* The part is written and closed: now its line, unless an error came meanwhile.
Drain_PartWritten ==
    /\ drain.at = "part"
    /\ \/ ~failed /\ drain' = [drain EXCEPT !.at = "lines"] /\ UNCHANGED queued
       \/ failed /\ drain' = [at |-> "ending", items |-> <<>>] /\ queued' = 0
    /\ UNCHANGED <<seen, queue, holds, gap, failed, told, counted, file, torn, closer, dest>>

\* The finally of #startDrain: what was queued after the last look begins anew.
Drain_Ended ==
    /\ drain.at = "ending"
    /\ \/ /\ (queue # <<>> \/ gap.n > 0) /\ ~failed
          /\ Loop(queue, queued, gap, holds)
       \/ /\ (queue = <<>> /\ gap.n = 0) \/ failed
          /\ drain' = Idle /\ UNCHANGED <<queue, queued, gap>>
    /\ UNCHANGED <<seen, holds, failed, told, counted, file, torn, closer, dest>>

-----------------------------------------------------------------------------
(* Recording.                                                              *)

\* #noteDropAt: the drop joins the pending gap before the loss is told.
NoteDrop(s, h) ==
    \E threw \in BOOLEAN :
        /\ Notified(threw)
        /\ failed' = (failed \/ threw)
        /\ Start(queue, queued, IF gap.n = 0 THEN Gap(s, 1) ELSE [gap EXCEPT !.n = @ + 1], h, failed \/ threw)

Accept(r, h) == /\ Start(Append(queue, r), queued + Size(r), gap, h, FALSE)
                /\ UNCHANGED <<failed, told>>

\* The reservations are not looked at.
RecordUnreserved(r, h) ==
    \/ failed /\ UNCHANGED <<queue, queued, gap, failed, told, drain>>
    \/ ~failed /\ (gap.n > 0 \/ queued + Size(r) > MaxBuffered) /\ NoteDrop(r.seq, h)
    \/ ~failed /\ gap.n = 0 /\ queued + Size(r) <= MaxBuffered /\ Accept(r, h)

\* The pending gap is not looked at.
RecordAfterGap(r, h) ==
    \/ failed /\ UNCHANGED <<queue, queued, gap, failed, told, drain>>
    \/ ~failed /\ queued + Reserved(h) + Size(r) > MaxBuffered /\ NoteDrop(r.seq, h)
    \/ ~failed /\ queued + Reserved(h) + Size(r) <= MaxBuffered /\ Accept(r, h)

\* recordStamped and recordBytesStamped, while h reservations are held.
Record(r, h) ==
    \/ failed /\ UNCHANGED <<queue, queued, gap, failed, told, drain>>
    \/ ~failed /\ (gap.n > 0 \/ queued + Reserved(h) + Size(r) > MaxBuffered) /\ NoteDrop(r.seq, h)
    \/ ~failed /\ gap.n = 0 /\ queued + Reserved(h) + Size(r) <= MaxBuffered /\ Accept(r, h)

Observe ==
    /\ closer.by = "nobody" /\ seen < MaxSeen
    /\ seen' = seen + 1
    /\ \E r \in {Line(seen + 1), Part(seen + 1)} : Record(r, holds)
    /\ UNCHANGED <<holds, counted, file, torn, closer, dest>>

\* reserveObservation: refused unless a complete record will fit.
Reserve ==
    /\ closer.by = "nobody" /\ holds < MaxHolds
    /\ ~failed /\ gap.n = 0 /\ HoldSize <= Free
    /\ holds' = holds + 1
    /\ UNCHANGED <<seen, queue, queued, gap, failed, told, drain, counted, file, torn, closer, dest>>

\* Its record(): a line that fits what was reserved.
Settle ==
    /\ closer.by = "nobody" /\ holds > 0 /\ seen < MaxSeen
    /\ seen' = seen + 1 /\ holds' = holds - 1
    /\ Record(Line(seen + 1), holds - 1)
    /\ UNCHANGED <<counted, file, torn, closer, dest>>

\* Its record(), of a line larger than that: dropped, and refused to the caller.
Settle_Exceeded ==
    /\ closer.by = "nobody" /\ holds > 0 /\ seen < MaxSeen
    /\ seen' = seen + 1 /\ holds' = holds - 1
    /\ NoteDrop(seen + 1, holds - 1)
    /\ UNCHANGED <<counted, file, torn, closer, dest>>

\* Its release(), at any time.
Release ==
    /\ holds > 0
    /\ holds' = holds - 1
    /\ UNCHANGED <<seen, queue, queued, gap, failed, told, drain, counted, file, torn, closer, dest>>

-----------------------------------------------------------------------------
(* The end.                                                                *)

At(stage) == closer' = [closer EXCEPT !.at = stage]

\* close(): an observation that is still reserved is a tail that will be missing.
Close ==
    /\ closer.by = "nobody" /\ closer' = [closer EXCEPT !.by = "close", !.at = "flush"]
    /\ \/ holds > 0 /\ seen' = seen + 1 /\ NoteDrop(seen + 1, holds)
       \/ holds = 0 /\ UNCHANGED <<seen, queue, queued, gap, failed, told, drain>>
    /\ UNCHANGED <<holds, counted, file, torn, dest>>

Abort ==
    /\ closer.by = "nobody" /\ closer' = [closer EXCEPT !.by = "abort", !.at = "flush"]
    /\ UNCHANGED <<seen, queue, queued, holds, gap, failed, told, drain, counted, file, torn, dest>>

\* flush() that waits for an empty queue.
FlushedWhenEmpty ==
    /\ closer.at = "flush" /\ drain = Idle /\ queue = <<>> /\ gap.n = 0
    /\ \/ closer.by = "close"
          /\ closer' = [closer EXCEPT !.at = "footer", !.complete = ~failed /\ counted.gaps = 0]
       \/ closer.by = "abort" /\ At("sink")
    /\ UNCHANGED <<seen, queue, queued, holds, gap, failed, told, drain, counted, file, torn, dest>>

\* flush() returns when no drain runs; close() then writes its footer, in any case.
Flushed ==
    /\ closer.at = "flush" /\ drain = Idle
    /\ \/ closer.by = "close"
          /\ closer' = [closer EXCEPT !.at = "footer", !.complete = ~failed /\ counted.gaps = 0]
       \/ closer.by = "abort" /\ At("sink")
    /\ UNCHANGED <<seen, queue, queued, holds, gap, failed, told, drain, counted, file, torn, dest>>

Footer_Written ==
    /\ closer.at = "footer" /\ At("sink")
    /\ file' = Append(file, Footer(closer.complete, counted))
    /\ UNCHANGED <<seen, queue, queued, holds, gap, failed, told, drain, counted, torn, dest>>

Footer_Failed ==
    /\ closer.at = "footer" /\ At("sink")
    /\ Torn(<<Footer(closer.complete, counted)>>)
    /\ GiveUp
    /\ UNCHANGED <<seen, holds, drain, counted, dest>>

\* #closeSink; the recorder then commits what was written without an error, and aborts the
\* rest.
Sink_Closed ==
    /\ closer.at = "sink"
    /\ \E error \in BOOLEAN :
        /\ failed' = (failed \/ error)
        /\ told' = (told \/ error)
        /\ closer' = [closer EXCEPT !.at = IF closer.by = "close" /\ ~failed' THEN "commit" ELSE "abort",
                                    !.complete = @ /\ ~failed']
    /\ UNCHANGED <<seen, queue, queued, holds, gap, drain, counted, file, torn, dest>>

Destination_Answers ==
    /\ \/ closer.at = "commit" /\ dest' = "committed" /\ At("answered")
       \/ /\ closer.at = "commit" /\ UNCHANGED dest
          /\ closer' = [closer EXCEPT !.at = "answered", !.complete = FALSE]
       \/ closer.at = "abort" /\ dest' = "aborted" /\ At("answered")
       \/ closer.at = "abort" /\ UNCHANGED dest /\ At("rejected")
    /\ UNCHANGED <<seen, queue, queued, holds, gap, failed, told, drain, counted, file, torn>>

-----------------------------------------------------------------------------
(* Loading a file, wherever its writing stopped: loadCapture.  A file is   *)
(* its lines after the header; `tail' says that its last line is cut off.  *)

\* A record is taken while the stamps increase; what a record's fields must be, and the
\* attributions of octets, are left out.
TakesRecord(f, i) == i > 1 => f[i - 1].seq < f[i].seq

\* A footer is the last line, its counts are those of the records, and it does not
\* certify gaps.
TakesFooter(f, i) ==
    LET records == SubSeq(f, 1, i - 1)
    IN /\ i = Len(f)
       /\ f[i].records = Len(records)
       /\ f[i].gaps = Len(SelectSeq(records, LAMBDA r : r.kind = "gap"))
       /\ f[i].complete => f[i].gaps = 0

Loaded(f, tail) ==
    IF \E i \in DOMAIN f : IF f[i].kind = "footer" THEN ~TakesFooter(f, i) ELSE ~TakesRecord(f, i)
    THEN "refused"
    ELSE IF f # <<>> /\ f[Len(f)].kind = "footer" /\ f[Len(f)].complete /\ ~tail
    THEN "complete" ELSE "incomplete"

Footed == file # <<>> /\ file[Len(file)].kind = "footer"

\* The file as it is.  A line cut off by a failed write is ended by the footer that is
\* attempted all the same, and is then no record.
LoadedNow == IF torn /\ Footed THEN "refused" ELSE Loaded(file, torn)

-----------------------------------------------------------------------------
\* What the storage and the microtasks bring about by themselves.
Progress ==
    \/ Drain_Written \/ Drain_Failed \/ Drain_PartWritten \/ Drain_Ended
    \/ Flushed \/ Footer_Written \/ Footer_Failed \/ Sink_Closed \/ Destination_Answers

Next ==
    \/ Observe \/ Reserve \/ Settle \/ Settle_Exceeded \/ Release \/ Close \/ Abort
    \/ Progress

Spec == Init /\ [][Next]_vars /\ WF_vars(Progress)

-----------------------------------------------------------------------------
\* The type of the state.
TypeOK ==
    /\ seen \in Nat /\ queued \in Nat /\ holds \in 0..MaxHolds
    /\ failed \in BOOLEAN /\ told \in BOOLEAN /\ torn \in BOOLEAN
    /\ \A i \in DOMAIN queue : queue[i].kind \in {"line", "part"}
    /\ drain.at \in {"idle", "lines", "part", "ending"}
    /\ closer.by \in {"nobody", "close", "abort"}
    /\ closer.at \in {"open", "flush", "footer", "sink", "commit", "abort", "answered", "rejected"}
    /\ dest \in {"open", "committed", "aborted"}

Recorded(f) == SelectSeq(f, LAMBDA r : r.kind # "footer")

\* Each record begins where the one before it ends: a line stands for one observation, a
\* gap for the observations it counts, and none is missing in between.
Tiles(f) == \A i \in DOMAIN f : f[i].seq = IF i = 1 THEN 1 ELSE f[i - 1].seq + f[i - 1].n

\* A file never hides a loss: at every moment, also one at which the host dies, the records
\* in the file tile the observations from the first one on, every drop inside a gap at its
\* place; and until storage fails, what the file does not hold yet is being written, queued
\* or in the pending gap, in that order, up to the last observation.
LossIsPlaced ==
    LET waiting == drain.items \o queue \o (IF gap.n > 0 THEN <<gap>> ELSE <<>>)
        all == Recorded(file) \o waiting
    IN /\ Tiles(Recorded(file))
       /\ ~failed => /\ Tiles(all)
                     /\ seen = IF all = <<>> THEN 0 ELSE all[Len(all)].seq + all[Len(all)].n - 1

\* A recording that is committed is one the loader takes, and it says "complete" exactly
\* when it holds every observation: a drop, a reservation that was never settled, a payload
\* that could not be stored or a failed write in between makes it incomplete or aborted.
CommittedIsHonest ==
    dest = "committed" =>
        /\ ~torn /\ file # <<>> /\ file[Len(file)].kind = "footer" /\ Loaded(file, torn) # "refused"
        /\ closer.complete = file[Len(file)].complete
        /\ closer.complete <=> /\ Len(file) = seen + 1
                               /\ \A i \in 1..seen : file[i].kind \in {"line", "part"} /\ file[i].seq = i

\* Wherever the writing stops, also by the end of the host, the loader takes what is there
\* and calls it complete only if it holds every observation; it refuses at most a footer
\* written after storage had failed, when lines may be cut off or not counted.
EveryFileLoads ==
    /\ (failed /\ Footed) \/ LoadedNow # "refused"
    /\ LoadedNow = "complete" =>
         \A s \in 1..seen : \E i \in DOMAIN file : file[i].kind \in {"line", "part"} /\ file[i].seq = s

\* A reservation is worth its name: what the writer holds, copies included, and what is
\* reserved never exceed its limit, so that a line recorded after an effect finds its room
\* however much was recorded meanwhile; and, until storage fails, the octets of every
\* record are accounted for exactly from its acceptance to the end of its write.  (A drift
\* either way ends a recording that has room, or lets the buffer grow for ever.)
SpaceExact ==
    /\ queued + Reserved(holds) <= MaxBuffered
    /\ ~failed => queued = FoldLeft(LAMBDA sum, r : sum + Size(r), 0, queue)
                            + (IF drain.items = <<>> THEN 0 ELSE Owed(drain.items))

\* close() and abort() answer, whatever storage does, as long as it answers.
CaptureEnds == []<>(closer.at \in {"open", "answered", "rejected"})
=============================================================================
