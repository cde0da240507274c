-------------------------- MODULE DurableTransfer --------------------------
(***************************************************************************)
(* What a resumable transfer promises, whatever crashes: an abstract       *)
(* specification of core/src/authored-transfer.ts and its checkpoint.      *)
(*                                                                         *)
(* The durable record never claims more than the device committed, the     *)
(* device is never ahead of the horizon the record admits, a finalization  *)
(* is sent only after the record says so, and one that is not repeatable   *)
(* is never sent twice.                                                    *)
(***************************************************************************)
EXTENDS Integers

CONSTANT Length      \* length of the source

VARIABLES record,    \* what the checkpoint says: prefix, horizon, closing
          outcome,   \* "none", "open", "verified" or "retired"
          committed, \* the most the device has durably committed
          closings,  \* times the record entered finalization
          finals,    \* finalizations the device executed
          policy     \* the declaration's finalization policy, which never changes

dvars == <<record, outcome, committed, closings, finals, policy>>

Repeatable == policy = "repeatable"

Fresh == [prefix |-> 0, horizon |-> 0, closing |-> FALSE]

\* a checkpoint that was removed admits anything: nothing follows it
Gone == [prefix |-> 0, horizon |-> Length, closing |-> TRUE]

Init ==
  /\ record = Fresh
  /\ outcome = "none"
  /\ committed = 0
  /\ closings = 0
  /\ finals = 0
  /\ policy \in {"repeatable", "not-repeatable"}

Begin ==
  /\ outcome = "none" /\ outcome' = "open"
  /\ UNCHANGED <<record, committed, closings, finals>>

\* the horizon moves before any byte under it is sent
Extend ==
  /\ outcome = "open" /\ ~record.closing
  /\ \E h \in record.horizon .. Length : record' = [record EXCEPT !.horizon = h]
  /\ UNCHANGED <<outcome, committed, closings, finals>>

\* the record follows the device's report, which may lag behind the device
Confirm ==
  /\ outcome = "open" /\ (record.closing => Repeatable)
  /\ \E k \in record.prefix .. committed :
       record' = [record EXCEPT !.prefix = k, !.closing = FALSE]
  /\ UNCHANGED <<outcome, committed, closings, finals>>

Close ==
  /\ outcome = "open" /\ record.prefix = Length
  /\ record.closing => Repeatable
  /\ record' = [record EXCEPT !.closing = TRUE]
  /\ closings' = closings + 1
  /\ UNCHANGED <<outcome, committed, finals>>

Verified ==
  /\ outcome = "open" /\ record.closing /\ finals > 0
  /\ outcome' = "verified" /\ record' = Gone
  /\ UNCHANGED <<committed, closings, finals>>

Retired ==
  /\ outcome = "open" /\ outcome' = "retired" /\ record' = Gone
  /\ UNCHANGED <<committed, closings, finals>>

DeviceCommits ==
  /\ committed' \in committed + 1 .. record.horizon
  /\ UNCHANGED <<record, outcome, closings, finals>>

DeviceFinalizes ==
  /\ finals < closings
  /\ finals' = finals + 1
  /\ UNCHANGED <<record, outcome, committed, closings>>

Next ==
  \/ Begin \/ Extend \/ Confirm \/ Close \/ Verified \/ Retired
  \/ DeviceCommits \/ DeviceFinalizes

Spec == Init /\ [][Next /\ UNCHANGED policy]_dvars
=============================================================================
