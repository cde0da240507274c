------------------------ MODULE NodeCheckpointStore ------------------------
(***************************************************************************)
(* The command line's durable checkpoint store                             *)
(* (apps/cli/src/transfer-checkpoints.ts): one file per checkpoint, one    *)
(* lock file per claim, shared by the processes of one machine.            *)
(*                                                                         *)
(* Every awaited file-system call is a step: another process may act, and  *)
(* this one may die, between any two of them.  A call is made by setting   *)
(* call[p], its steps advance call[p].at, and it has settled when "at" is  *)
(* "done" or "failed".  One checkpoint id is modelled.                     *)
(***************************************************************************)
EXTENDS Integers

CONSTANTS Procs,      \* processes; a process that dies does not come back
          None,
          MaxFaults   \* bound: file-system calls that fail (and devices that forget)

ASSUME StoreAssumption == MaxFaults \in Nat
ASSUME NoOwnerAssumption ==
  /\ None \notin Procs
  /\ \A p \in Procs, w \in BOOLEAN : None # [pid |-> p, written |-> w]

VARIABLES file,       \* the checkpoint's file: a record with a revision, or None
          lock,       \* the lock file: its process, and whether its owner is written
          temporary,  \* temporary[p]: p's claim has left a temporary file behind
          claims,     \* claims[p]: p's store holds the claim (the #claims map)
          call,       \* call[p]: the store call p is awaiting
          live,       \* live[p]: process p runs
          faults      \* file-system failures so far

store == <<file, lock, temporary, claims, call, live, faults>>

Idle == [op |-> "none", at |-> "idle", seen |-> None, want |-> None]

Settled(p) == call[p].at \in {"done", "failed"}

Begin(p, op, at, want) ==
  call' = [call EXCEPT ![p] = [op |-> op, at |-> at, seen |-> None, want |-> want]]

Goto(p, at) == call' = [call EXCEPT ![p].at = at]

At(p, op, at) == live[p] /\ call[p].op = op /\ call[p].at = at

StoreInit(initial) ==
  /\ file = initial
  /\ lock = None
  /\ temporary = [p \in Procs |-> FALSE]
  /\ claims = [p \in Procs |-> FALSE]
  /\ call = [p \in Procs |-> Idle]
  /\ live = [p \in Procs |-> TRUE]
  /\ faults = 0

-----------------------------------------------------------------------------
(* claim(): the checkpoint is read before the lock file is opened.         *)

Claim(p) == live[p] /\ call[p] = Idle /\ Begin(p, "claim", "read", None)

Claim_Read(p) ==
  /\ At(p, "claim", "read")
  /\ call' = [call EXCEPT ![p].seen = file, ![p].at = IF file = None THEN "failed" ELSE "open"]
  /\ UNCHANGED <<file, lock, temporary, claims, live, faults>>

\* open(lockPath, "wx"), first or second attempt
Claim_Open(p) ==
  /\ At(p, "claim", "open") \/ At(p, "claim", "reopen")
  /\ IF lock = None
     THEN lock' = [pid |-> p, written |-> FALSE] /\ Goto(p, "write")
     ELSE UNCHANGED lock /\ Goto(p, IF call[p].at = "open" THEN "inspect" ELSE "failed")
  /\ UNCHANGED <<file, temporary, claims, live, faults>>

\* the owner is written; a failed write leaves the lock file as it is
Claim_Write(p) ==
  /\ At(p, "claim", "write")
  /\ \/ /\ lock' = IF lock # None /\ lock.pid = p THEN [lock EXCEPT !.written = TRUE] ELSE lock
        /\ claims' = [claims EXCEPT ![p] = TRUE]
        /\ temporary' = [temporary EXCEPT ![p] = FALSE]
        /\ Goto(p, "done")
        /\ UNCHANGED faults
     \/ /\ faults < MaxFaults
        /\ faults' = faults + 1
        /\ Goto(p, "failed")
        /\ UNCHANGED <<lock, claims, temporary>>
  /\ UNCHANGED <<file, live>>

\* removeDeadOwnerLock(): only a lock whose written owner is dead is stale
DeadOwnerUnprobed(l) == l # None /\ l.written
DeadOwner(l) == l # None /\ l.written /\ ~live[l.pid]

Claim_Inspect(p) ==
  /\ At(p, "claim", "inspect")
  /\ Goto(p, IF DeadOwner(lock) THEN "unlink" ELSE "failed")
  /\ UNCHANGED <<file, lock, temporary, claims, live, faults>>

Claim_Unlink(p) ==
  /\ At(p, "claim", "unlink")
  /\ lock' = None
  /\ Goto(p, IF lock = None THEN "failed" ELSE "reopen")
  /\ UNCHANGED <<file, temporary, claims, live, faults>>

-----------------------------------------------------------------------------
(* commit(): check the claim and the revision, write a temporary file,     *)
(* rename it over the checkpoint, sync the directory.                      *)

Commit(p, want) == live[p] /\ call[p] = Idle /\ Begin(p, "commit", "write", want)

\* the claim's revision is the one before the revision it wants to write
Current(p) == claims[p] /\ file # None /\ file.rev + 1 = call[p].want.rev

\* the temporary file is opened "wx": one left by a failed write blocks the next
Commit_Write(p) ==
  /\ At(p, "commit", "write")
  /\ IF ~Current(p) THEN Goto(p, "failed") /\ UNCHANGED <<temporary, faults>>
     ELSE /\ temporary' = [temporary EXCEPT ![p] = TRUE]
          /\ \/ Goto(p, IF temporary[p] THEN "failed" ELSE "rename") /\ UNCHANGED faults
             \/ faults < MaxFaults /\ faults' = faults + 1 /\ Goto(p, "failed")
  /\ UNCHANGED <<file, lock, claims, live>>

\* the rename, and fsyncDirectory(): when that fails the caller is told so of a
\* commit that was made
Commit_Rename(p) ==
  /\ At(p, "commit", "rename")
  /\ file' = call[p].want
  /\ temporary' = [temporary EXCEPT ![p] = FALSE]
  /\ \/ Goto(p, "done") /\ UNCHANGED faults
     \/ faults < MaxFaults /\ faults' = faults + 1 /\ Goto(p, "failed")
  /\ UNCHANGED <<lock, claims, live>>

-----------------------------------------------------------------------------
(* release() and complete()                                                *)

Release(p) ==
  /\ live[p] /\ call[p] = Idle
  /\ Begin(p, "release", IF claims[p] THEN "unlink" ELSE "failed", None)
  /\ claims' = [claims EXCEPT ![p] = FALSE]

Release_Unlink(p) ==
  /\ At(p, "release", "unlink")
  /\ lock' = None
  /\ Goto(p, "done")
  /\ UNCHANGED <<file, temporary, claims, live, faults>>

Complete(p) ==
  /\ live[p] /\ call[p] = Idle
  /\ Begin(p, "complete", IF claims[p] THEN "file" ELSE "failed", None)

Complete_File(p) ==
  /\ At(p, "complete", "file")
  /\ file' = None
  /\ Goto(p, IF file = None THEN "failed" ELSE "lock")
  /\ UNCHANGED <<lock, temporary, claims, live, faults>>

Complete_Lock(p) ==
  /\ At(p, "complete", "lock")
  /\ lock' = None
  /\ claims' = IF lock = None THEN claims ELSE [claims EXCEPT ![p] = FALSE]
  /\ Goto(p, IF lock = None THEN "failed" ELSE "done")
  /\ UNCHANGED <<file, temporary, live, faults>>

StoreStep(p) ==
  \/ Claim_Read(p) \/ Claim_Open(p) \/ Claim_Write(p) \/ Claim_Inspect(p) \/ Claim_Unlink(p)
  \/ Commit_Write(p) \/ Commit_Rename(p)
  \/ Release_Unlink(p)
  \/ Complete_File(p) \/ Complete_Lock(p)

\* the process dies: what it holds in memory is gone, its files stay
Die(p) ==
  /\ live[p]
  /\ live' = [live EXCEPT ![p] = FALSE]
  /\ claims' = [claims EXCEPT ![p] = FALSE]
  /\ call' = [call EXCEPT ![p] = Idle]
  /\ temporary' = [temporary EXCEPT ![p] = FALSE]  \* no later claim uses its name
  /\ UNCHANGED <<file, lock, faults>>

-----------------------------------------------------------------------------
(* The store on its own: processes that claim one checkpoint and release   *)
(* it.                                                                     *)

Return(p) ==
  /\ Settled(p)
  /\ call' = [call EXCEPT ![p] = Idle]
  /\ UNCHANGED <<file, lock, temporary, claims, live, faults>>

Contend(p) ==
  \/ Claim(p) /\ ~claims[p] /\ UNCHANGED <<file, lock, temporary, claims, live, faults>>
  \/ Release(p) /\ claims[p] /\ UNCHANGED <<file, lock, temporary, live, faults>>
  \/ Return(p)

ContendNext == \E p \in Procs : StoreStep(p) \/ Contend(p) \/ Die(p)

ContendSpec == StoreInit([rev |-> 0]) /\ [][ContendNext]_store

\* A claim is exclusive: no two live processes hold it (the store's own
\* description, "exclusive process claims"; the lock file's "wx" open).
ClaimExclusive ==
  \A p, q \in Procs : claims[p] /\ claims[q] => p = q
=============================================================================
