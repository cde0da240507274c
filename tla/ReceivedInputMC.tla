---------------------------- MODULE ReceivedInputMC ----------------------------
(* An input from the transport to the turns of the session's activations, in   *)
(* three instances of which a behaviour is one.  The queue of a channel: a     *)
(* limit of three octets, chunks of one and two, so that a chunk fits, fills   *)
(* the queue or overflows it.  The custody of what the session took from it:   *)
(* two inputs of three octets together, pieces of one, two activations of the  *)
(* handler, with or without an entry before them.  And the turns: the reader   *)
(* of the channel and two others, which are alike, make three requests between *)
(* them, of which one timer, one message and one chunk of two octets.          *)
EXTENDS BoundedIngress, TLC

CONSTANTS MaxInputs, MaxHeard, Quantum, Concurrency
CONSTANTS Activations, Reader, Others, Boxes, Standing, MaxRequests, MaxChunks, MaxSize,
          MaxMessages, MaxTimers

VARIABLES kind, link, handed, inputs, acts, ranges, cursor, stream, certified
VARIABLES activations, jobs, micro, posted, waits, receiver, input, pump, heard, boxes, timers,
          routed, outbound, relays, relay, ledger, closed, receipts, chunks, requests

custodyState == <<link, handed, inputs, acts, ranges, cursor, stream, certified>>
schedulerState ==
    <<activations, jobs, micro, posted, waits, receiver, input, pump, heard, boxes, timers,
      routed, outbound, relays, relay, ledger, closed, receipts, chunks, requests>>

Custody == INSTANCE InputCustody WITH MaxOctets <- MaxHeard
Turns == INSTANCE AuthoredScheduler WITH Acts <- Activations, acts <- activations, queue <- jobs

ASSUME InputAssumption == Custody!CustodyAssumption /\ Turns!SchedulerAssumption

MCSizes == {1, 2}
MCKinds == {"closed-by-host", "receive-overflow", "fault"}
Symmetry == Permutations(Others)

\* The components a behaviour is not about have no state.
NoCustody == link = 0 /\ handed = 0 /\ inputs = 0 /\ acts = 0 /\ ranges = 0
             /\ cursor = 0 /\ stream = 0 /\ certified = 0
NoTurns == /\ activations = 0 /\ jobs = 0 /\ micro = 0 /\ posted = 0 /\ waits = 0 /\ receiver = 0
           /\ input = 0 /\ pump = 0 /\ heard = 0 /\ boxes = 0 /\ timers = 0 /\ routed = 0
           /\ outbound = 0 /\ relays = 0 /\ relay = 0 /\ ledger = 0 /\ closed = 0
           /\ receipts = 0 /\ chunks = 0 /\ requests = 0

PathInit ==
    /\ Init
    /\ \/ kind = "queue" /\ NoCustody /\ NoTurns
       \/ kind = "custody" /\ Custody!CustodyInit /\ NoTurns
       \/ kind = "turns" /\ Turns!SchedulerInit /\ NoCustody

PathNext ==
    /\ UNCHANGED kind
    /\ \/ kind = "queue" /\ Next /\ UNCHANGED <<custodyState, schedulerState>>
       \/ kind = "custody" /\ Custody!CustodyNext /\ UNCHANGED <<vars, schedulerState>>
       \/ kind = "turns" /\ Turns!SchedulerNext /\ UNCHANGED <<vars, custodyState>>

PathSpec == PathInit /\ [][PathNext]_<<kind, custodyState, schedulerState, vars>>

\* The index of retired inputs is exact while it is attested, and the work that
\* ends an input's custody was reserved with it (InputCustody).
RetirementExact == kind = "custody" => Custody!RetirementHonest /\ Custody!AccountsBalance

\* Nothing that could go on is forgotten (AuthoredScheduler).
NoLostWakeup == kind = "turns" => Turns!NoLostWakeup

\* A mailbox has one consumer, a message and a receipt one holder, and the ledger of
\* live effects is what is outstanding (AuthoredScheduler).
TurnsAccounted == kind = "turns" => Turns!SoleConsumer /\ Turns!LedgerExact

\* A turn does not overtake the one an earlier event made ready (AuthoredScheduler).
TurnsByReadiness == kind = "turns" => Turns!TurnsByReadiness
=============================================================================
