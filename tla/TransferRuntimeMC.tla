-------------------------- MODULE TransferRuntimeMC --------------------------
(***************************************************************************)
(* A range of three octets in two chunks, both in the window at once: a    *)
(* short last chunk, reports that fall inside a chunk, answers out of      *)
(* order.  One resume, two faults and one change of the source are enough  *)
(* for a crash in each stage and a device reset before the resume.         *)
(***************************************************************************)
EXTENDS TransferRuntime, SequencesExt

\* reconcileConfirmedPrefix() as it is written: a fold over the ranges sorted by offset
MergeOne(done, r) ==
  IF done = << >> \/ Last(done).hi < r.lo THEN Append(done, r)
  ELSE [done EXCEPT ![Len(done)].hi = IF @ > r.hi THEN @ ELSE r.hi]

MergeSorted(R) ==
  LET before(r, s) == r.lo < s.lo \/ (r.lo = s.lo /\ r.hi <= s.hi)
  IN FoldLeft(MergeOne, << >>, SetToSortSeq(R, before))

AllRanges == {r \in [lo : 0 .. 4, hi : 0 .. 4] : r.lo < r.hi}

\* The fold yields the maximal intervals of the octets covered, whatever overlaps it is given:
\* checked for every set of at most three ranges over four octets.
ASSUME \A R \in UNION {{{r, s, t} : r, s, t \in AllRanges}} :
         LET merged == MergeSorted(R)
             covered == Spans(R)
         IN ToSet(merged) = {r \in AllRanges : Span(r) \subseteq covered
                                              /\ r.lo - 1 \notin covered /\ r.hi \notin covered}
=============================================================================
