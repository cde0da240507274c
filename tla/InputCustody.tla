----------------------------- MODULE InputCustody -----------------------------
(***************************************************************************)
(* What becomes of an input that a connection heard, and when a handler    *)
(* may be told that it is retired: InputRetirementIndex, InputCustodyRanges*)
(* and the service over it (input-retirement.ts,                           *)
(* authored-input-retirement.ts), the account of each input                *)
(* (input-work.ts), and the session's calls of them.                       *)
(*                                                                         *)
(* One connection of one channel, one handler that takes Quantum octets at *)
(* a time, and perhaps an entry that hears inputs first and hands off to   *)
(* the handler.  Inputs are numbered as they are observed; the AVL tree is *)
(* the set of those it holds.  Work is counted where it was reserved: what *)
(* ordinary work costs, and that it may run out (which ends the            *)
(* connection), is in Disconnect.  A group's publication frames and        *)
(* watches, which the session does not use, are left out.                  *)
(***************************************************************************)
EXTENDS Naturals, Sequences, FiniteSetsExt

CONSTANTS
    MaxInputs,      \* bound: inputs observed
    MaxOctets,      \* bound: octets observed, of all inputs
    Quantum,        \* octets a handler is started with, at most
    Concurrency     \* maximumConcurrent activations of the handler

CustodyAssumption ==
    /\ MaxInputs \in Nat /\ MaxOctets \in Nat \ {0} /\ Quantum \in Nat \ {0}
    /\ Concurrency \in Nat

VARIABLES
    link,       \* "up", "ended" by the transport (the cut is revoked), or "down"
    handed,     \* whether the handler owns the channel
    inputs,     \* each input: its account, its node in the index, its delivery
    acts,       \* the activations
    ranges,     \* InputWorkRanges of the owner: <<input, octets>>, in order
    cursor,     \* the owner's consumed-input cursor
    stream,     \* history of the generation: the input of each octet handed over, in order
    certified   \* history of the cut: the inputs a sample called retired

custodyVars == <<link, handed, inputs, acts, ranges, cursor, stream, certified>>

Inputs == 1..MaxInputs
Handlers == 1..Concurrency
Entry == 0
Acts == Handlers \cup {Entry}

\* place: who has the octets (rest of them) that no activation was given.
Unseen == [place |-> "unseen", rest |-> 0, size |-> 0, inherited |-> FALSE,
           remaining |-> 0, native |-> FALSE, deferred |-> FALSE, interps |-> 0,
           used |-> 0, closing |-> FALSE, closed |-> FALSE,
           indexed |-> FALSE, left |-> 0, deps |-> 0, visits |-> 0,
           queued |-> FALSE, active |-> 0, releasing |-> FALSE, released |-> FALSE]

\* deps, interps: what it holds of each input; touched: what it was given to look at.
Idle == [state |-> "idle", piece |-> 0, size |-> 0, touched |-> {},
         deps |-> [i \in Inputs |-> 0], interps |-> [i \in Inputs |-> 0]]

CustodyInit ==
    /\ link = "up" /\ handed \in BOOLEAN
    /\ inputs = [i \in Inputs |-> Unseen]
    /\ acts = [a \in Acts |-> IF a = Entry /\ ~handed THEN [Idle EXCEPT !.state = "running"] ELSE Idle]
    /\ ranges = <<>> /\ cursor = [delivered |-> 0, consumed |-> 0]
    /\ stream = <<>> /\ certified = {}

Seen == {i \in Inputs : inputs[i].place # "unseen"}

-----------------------------------------------------------------------------
(* The account of an input, r.                                             *)

\* One slot per octet for its consumption, its descriptor, the consumer's interpretation
\* and, for an entry's input, the delivery's.
ReserveOfOwn(r) == 3 * r.size + (IF r.inherited THEN 5 ELSE 4)

\* One slot per octet for its consumption, its descriptor, the consumer's interpretation
\* and, for an entry's input, the delivery's; and the fixed ones.
Reserve(r) == IF r.inherited THEN 4 * r.size + 5 ELSE 3 * r.size + 4

\* Terminal visits of the index: consumption, consumer and dispatch for each octet; the
\* native read, the entry and a deferral; the fixed rest is for the tree.
Visits(r) == 3 * r.size + 3

\* #finishClose
Finished(r) ==
    IF r.closing /\ ~r.closed /\ ~r.native /\ ~r.deferred /\ r.interps = 0 /\ ~r.indexed
    THEN [r EXCEPT !.closed = TRUE, !.used = @ + 1] ELSE r

\* #retire: nothing raw is left, and nobody interprets it.
Retired(r) == IF r.indexed /\ r.left = 0 /\ r.deps = 0 THEN Finished([r EXCEPT !.indexed = FALSE]) ELSE r

Retained(r, n) == IF r.indexed THEN [r EXCEPT !.deps = @ + n] ELSE r

Unretained(r, n) ==
    IF r.indexed /\ n > 0 THEN Retired([r EXCEPT !.deps = @ - n, !.visits = @ + n]) ELSE r

Interpreted(r, n) == [r EXCEPT !.interps = @ + n]

Uninterpreted(r, n) == Finished([r EXCEPT !.interps = @ - n, !.used = @ + n])

\* close()
Closing(r) == Finished([r EXCEPT !.closing = TRUE])

\* #retireDelivery begins when nothing of the delivery is owed any more.
Delivered(r) ==
    IF r.queued /\ r.rest = 0 /\ r.active = 0 /\ r.remaining = 0
    THEN [r EXCEPT !.releasing = TRUE] ELSE r

\* consumed(), when the last octet is: the entry's account closes, a delivery retires.
Emptied(r) ==
    IF r.remaining > 0 THEN r ELSE Delivered(IF r.inherited THEN Closing(r) ELSE r)

\* consume(), in so many visits.
Consumed(r, n, visits) ==
    LET taken == [r EXCEPT !.remaining = @ - n, !.used = @ + visits]
    IN IF n = 0 THEN r
       ELSE Emptied(IF r.indexed THEN Retired([taken EXCEPT !.left = @ - n, !.visits = @ + visits]) ELSE taken)

NativeEnded(r) ==
    IF r.native THEN Finished(Unretained([r EXCEPT !.native = FALSE, !.used = @ + 1], 1)) ELSE r

\* The deferral's custody ends after its storage: deferred().release.
Materialized(r) ==
    IF r.deferred THEN Finished(Unretained([r EXCEPT !.deferred = FALSE, !.used = @ + 1], 1)) ELSE r

\* InputRetirementIndex.close(): dependencies are dropped, the accounts given back.
Unindexed(r) == Finished([r EXCEPT !.indexed = FALSE, !.left = 0, !.deps = 0])

-----------------------------------------------------------------------------
(* The transport, and the session's pump.                                  *)

\* sink.observed(): account, native hold, index, and the entry's interpretation.
Observe(i, n) ==
    /\ link = "up" /\ i \notin Seen /\ \A j \in 1..(i - 1) : j \in Seen
    /\ n + SumFunction([j \in Inputs |-> inputs[j].size]) <= MaxOctets
    /\ inputs' = [inputs EXCEPT ![i] =
          [Unseen EXCEPT !.place = "native", !.rest = n, !.size = n, !.inherited = ~handed,
             !.remaining = n, !.native = TRUE, !.indexed = TRUE, !.left = n,
             !.deps = IF handed THEN 1 ELSE 2, !.interps = IF handed THEN 0 ELSE 1]]
    /\ acts' = IF handed THEN acts
               ELSE [acts EXCEPT ![Entry].deps[i] = 1, ![Entry].interps[i] = 1, ![Entry].touched = @ \cup {i}]
    /\ UNCHANGED <<link, handed, ranges, cursor, stream, certified>>

FirstHeard(i) == inputs[i].place = "native" /\ \A j \in 1..(i - 1) : inputs[j].place # "native"

\* #readInput while the entry owns the channel: the octets wait for it, deferred when it
\* is not reading.
Buffer(i) ==
    /\ link # "down" /\ ~handed /\ FirstHeard(i)
    /\ \E later \in BOOLEAN :
          inputs' = [inputs EXCEPT ![i] =
             NativeEnded(IF later THEN [Retained(@, 1) EXCEPT !.place = "buffer", !.deferred = TRUE]
                         ELSE [@ EXCEPT !.place = "buffer"])]
    /\ UNCHANGED <<link, handed, acts, ranges, cursor, stream, certified>>

\* #readInput, #queueHandler: a delivery of its own.
Queue(i) ==
    /\ link # "down" /\ handed /\ FirstHeard(i)
    /\ inputs' = [inputs EXCEPT ![i] = NativeEnded([@ EXCEPT !.place = "queue", !.queued = TRUE])]
    /\ UNCHANGED <<link, handed, acts, ranges, cursor, stream, certified>>

\* The transport, or a pump that finds its lease gone, lets go of an input.
Discard(i) ==
    /\ link = "down" /\ inputs[i].place = "native"
    /\ inputs' = [inputs EXCEPT ![i] =
          Closing([NativeEnded(@) EXCEPT !.place = "out", !.rest = 0, !.remaining = 0])]
    /\ UNCHANGED <<link, handed, acts, ranges, cursor, stream, certified>>

\* The channel ends: the sink is revoked and the index closed.  What was heard is still
\* delivered.
Ended ==
    /\ link = "up" /\ link' = "ended"
    /\ inputs' = [i \in Inputs |-> Unindexed(inputs[i])]
    /\ acts' = [a \in Acts |-> [acts[a] EXCEPT !.deps = Idle.deps]]
    /\ certified' = {}
    /\ UNCHANGED <<handed, ranges, cursor, stream>>

-----------------------------------------------------------------------------
(* The entry.                                                              *)

Given(i, n) ==
    /\ ranges' = Append(ranges, <<i, n>>)
    /\ cursor' = [cursor EXCEPT !.delivered = @ + n]
    /\ stream' = stream \o [k \in 1..n |-> i]

\* A read takes from the first range of the buffer, after all that was deferred.
EntryReads(n) ==
    /\ acts[Entry].state = "running" /\ ~handed /\ link # "down"
    /\ \E i \in Inputs :
          /\ inputs[i].place = "buffer" /\ \A j \in 1..(i - 1) : inputs[j].place # "buffer"
          /\ n \in 1..inputs[i].rest
          /\ LET ready == [j \in Inputs |-> Materialized(inputs[j])]
             IN inputs' = [ready EXCEPT ![i].rest = @ - n, ![i].place = IF inputs[i].rest = n THEN "out" ELSE @]
          /\ Given(i, n)
    /\ UNCHANGED <<link, handed, acts, certified>>

\* The handoff: what the entry read but did not consume moves with its ranges, and the
\* rest of the buffer becomes deliveries.
HandsOff ==
    /\ acts[Entry].state = "running" /\ ~handed /\ link # "down"
    /\ handed' = TRUE
    /\ inputs' = [i \in Inputs |->
          LET r == Materialized(inputs[i])
          IN IF r.place = "buffer" THEN [r EXCEPT !.place = "queue", !.queued = TRUE] ELSE r]
    /\ UNCHANGED <<link, acts, ranges, cursor, stream, certified>>

-----------------------------------------------------------------------------
(* The handler's activations.                                              *)

\* #scheduleHandlers, #startHandler: the next piece of the first delivery.
StartHandler(a, i) ==
    /\ a \in Handlers /\ acts[a].state = "idle" /\ \A b \in 1..(a - 1) : acts[b].state # "idle"
    /\ handed /\ link # "down"
    /\ inputs[i].place = "queue" /\ \A j \in 1..(i - 1) : inputs[j].place # "queue"
    /\ LET r == inputs[i]
           n == IF r.rest < Quantum THEN r.rest ELSE Quantum
           held == IF r.inherited THEN 1 ELSE 0
       IN /\ inputs' = [inputs EXCEPT ![i] =
                [Retained(Interpreted(r, held), 1) EXCEPT
                    !.rest = r.rest - n, !.active = @ + 1, !.place = IF r.rest = n THEN "out" ELSE @]]
          /\ acts' = [acts EXCEPT ![a] = [Idle EXCEPT !.state = "starting", !.piece = i, !.size = n,
                         !.touched = {i}, !.interps[i] = held, !.deps[i] = IF r.indexed THEN 1 ELSE 0]]
    /\ UNCHANGED <<link, handed, ranges, cursor, stream, certified>>

\* #run: the first turn was given the piece, and may consume it from now on.  The turns
\* come in the order of the starts.
Begin(a) ==
    /\ acts[a].state = "starting" /\ link # "down"
    /\ \A b \in Handlers : acts[b].state = "starting" => acts[b].piece >= acts[a].piece
    /\ acts' = [acts EXCEPT ![a].state = "running"]
    /\ Given(acts[a].piece, acts[a].size)
    /\ UNCHANGED <<link, handed, inputs, certified>>

Owner(a) == acts[a].state = "running" /\ (a = Entry <=> ~handed)

\* The nodes of the ranges that a consumption of n octets visits, and what is left.
Sum(s) == MapThenSumSet(LAMBDA i : s[i][2], DOMAIN s)
Whole(n) == Max({k \in 0..Len(ranges) : Sum(SubSeq(ranges, 1, k)) <= n})
Prefix(n) ==
    LET k == Whole(n) rest == n - Sum(SubSeq(ranges, 1, k))
    IN SubSeq(ranges, 1, k) \o (IF rest = 0 THEN <<>> ELSE << <<ranges[k + 1][1], rest>> >>)
Suffix(n) ==
    LET k == Whole(n) rest == n - Sum(SubSeq(ranges, 1, k))
    IN IF rest = 0 THEN SubSeq(ranges, k + 1, Len(ranges))
       ELSE << <<ranges[k + 1][1], ranges[k + 1][2] - rest>> >> \o SubSeq(ranges, k + 2, Len(ranges))

Of(s, i) == SelectSeq(s, LAMBDA node : node[1] = i)

\* The consumption does not hold on to what it takes.
ConsumeUnheld(a, n) ==
    /\ Owner(a) /\ link # "down" /\ n \in 1..(cursor.delivered - cursor.consumed)
    /\ cursor' = [cursor EXCEPT !.consumed = @ + n]
    /\ ranges' = Suffix(n)
    /\ inputs' = [i \in Inputs |->
          LET part == Of(Prefix(n), i)
          IN Consumed([inputs[i] EXCEPT !.used = @ + Len(Of(SubSeq(ranges, 1, Whole(n)), i))], Sum(part), Len(part))]
    /\ acts' = [acts EXCEPT ![a].touched = @ \cup {i \in Inputs : Of(Prefix(n), i) # <<>>}]
    /\ UNCHANGED <<link, handed, stream, certified>>

\* #consumeInput: for every range it visits, the activation becomes its interpreter
\* before the octets are given up.
Consume(a, n) ==
    /\ Owner(a) /\ link # "down" /\ n \in 1..(cursor.delivered - cursor.consumed)
    /\ cursor' = [cursor EXCEPT !.consumed = @ + n]
    /\ ranges' = Suffix(n)
    /\ LET part == [i \in Inputs |-> Of(Prefix(n), i)]
           held == [i \in Inputs |-> Len(part[i])]
       IN /\ inputs' = [i \in Inputs |->
                LET mine == Retained(Interpreted(inputs[i], held[i]), held[i])
                    dropped == Len(Of(SubSeq(ranges, 1, Whole(n)), i))
                IN Consumed([mine EXCEPT !.used = @ + dropped], Sum(part[i]), held[i])]
          /\ acts' = [acts EXCEPT
                ![a].interps = [i \in Inputs |-> @[i] + held[i]],
                ![a].deps = [i \in Inputs |-> @[i] + IF inputs[i].indexed THEN held[i] ELSE 0],
                ![a].touched = @ \cup {i \in Inputs : held[i] > 0}]
    /\ UNCHANGED <<link, handed, stream, certified>>

\* The author returns: #endCustody within the turn.
Return(a) ==
    /\ acts[a].state = "running" /\ link # "down" /\ (a = Entry => handed)
    /\ inputs' = [i \in Inputs |-> Unretained(inputs[i], acts[a].deps[i])]
    /\ acts' = [acts EXCEPT ![a].state = "returned", ![a].deps = Idle.deps, ![a].touched = {}]
    /\ UNCHANGED <<link, handed, ranges, cursor, stream, certified>>

\* #run's end: interpretations are released, and its delivery may retire.
Retire(a) ==
    /\ acts[a].state \in {"returned", "revoked"}
    /\ inputs' = [i \in Inputs |->
          LET r == Unretained(inputs[i], acts[a].deps[i])
              freed == IF acts[a].interps[i] > 0 THEN Uninterpreted(r, acts[a].interps[i]) ELSE r
          IN IF acts[a].piece = i THEN Delivered([freed EXCEPT !.active = @ - 1]) ELSE freed]
    /\ acts' = [acts EXCEPT ![a] = Idle]
    /\ UNCHANGED <<link, handed, ranges, cursor, stream, certified>>

\* #retireDelivery, when the VM of its root is retired.
Release(i) ==
    /\ inputs[i].releasing /\ ~inputs[i].released
    /\ inputs' = [inputs EXCEPT ![i] = Closing([@ EXCEPT !.released = TRUE])]
    /\ UNCHANGED <<link, handed, acts, ranges, cursor, stream, certified>>

\* sample(): an interval that has ended, at the moment of a turn.
Sample(a, from, before) ==
    /\ acts[a].state = "running" /\ link = "up"
    /\ from < before /\ before <= Cardinality(Seen) + 1
    /\ ~\E i \in from..(before - 1) : inputs[i].indexed
    /\ certified' = certified \cup (from..(before - 1))
    /\ UNCHANGED <<link, handed, inputs, acts, ranges, cursor, stream>>

\* #disconnectOnce, #closeConnection: the index is closed, the ranges and what is
\* pending are given up, the deliveries revoked and the activations cancelled.
Disconnect ==
    /\ link # "down" /\ link' = "down"
    /\ inputs' = [i \in Inputs |->
          LET part == Of(ranges, i)
              undeferred == [Unindexed(inputs[i]) EXCEPT !.deferred = FALSE, !.used = @ + IF inputs[i].deferred THEN 1 ELSE 0]
              emptied == Consumed([undeferred EXCEPT !.used = @ + Len(part)], Sum(part), Len(part))
              revoked == [emptied EXCEPT !.remaining = 0, !.rest = 0, !.place = IF @ \in {"buffer", "queue"} THEN "out" ELSE @]
              pending == IF i \in Seen /\ (~emptied.queued \/ emptied.inherited) THEN Closing(revoked) ELSE revoked
          IN Delivered(pending)]
    /\ ranges' = <<>> /\ cursor' = [delivered |-> 0, consumed |-> 0]
    /\ acts' = [a \in Acts |-> IF acts[a].state = "idle" THEN Idle
                              ELSE [acts[a] EXCEPT !.state = "revoked", !.deps = Idle.deps, !.touched = {}]]
    /\ stream' = <<>> /\ certified' = {}
    /\ UNCHANGED handed

CustodyNext ==
    \/ \E i \in Inputs : \/ \E n \in 1..MaxOctets : Observe(i, n)
                         \/ Buffer(i) \/ Queue(i) \/ Discard(i) \/ Release(i)
    \/ \E n \in 1..MaxOctets : EntryReads(n)
    \/ HandsOff
    \/ \E a \in Acts : \/ \E i \in Inputs : StartHandler(a, i)
                       \/ \E n \in 1..Len(stream) : Consume(a, n)
                       \/ Begin(a) \/ Return(a) \/ Retire(a)
                       \/ \E from \in Inputs, before \in 2..(MaxInputs + 1) : Sample(a, from, before)
    \/ Ended
    \/ Disconnect

-----------------------------------------------------------------------------
(* What is true of an input, whatever the accounts say.                    *)

TakenOf(i) == Cardinality({k \in 1..Len(stream) : k <= cursor.consumed /\ stream[k] = i})

\* It waits in the transport or with the session, or its octets are not all consumed, or
\* an activation that saw it has not yet answered.
Unsettled(i) ==
    \/ inputs[i].place = "unseen" \/ inputs[i].native \/ inputs[i].deferred
    \/ TakenOf(i) < inputs[i].size
    \/ \E a \in Acts : acts[a].state \in {"starting", "running"} /\ i \in acts[a].touched

(* While the cut is attested the index holds exactly the inputs that are   *)
(* not settled: a sample neither certifies an input whose octets, or whose *)
(* interpreter, is still under way, nor withholds one for ever; and what   *)
(* was certified includes no input that came later.                        *)
RetirementHonest ==
    /\ link = "up" => \A i \in Seen : inputs[i].indexed <=> Unsettled(i)
    /\ link = "up" => \A i \in certified : ~Unsettled(i)

Concerned(i) ==
    \/ inputs[i].native \/ inputs[i].place # "out" \/ inputs[i].remaining > 0
    \/ inputs[i].queued /\ ~inputs[i].released
    \/ \E a \in Acts : acts[a].state # "idle" /\ (acts[a].piece = i \/ acts[a].interps[i] > 0)

(* The work that ends an input's custody was reserved when it was observed *)
(* and suffices on every way, the ways of revocation included; an account  *)
(* closes once nothing concerns it, and not before; raw octets are given   *)
(* up exactly as they are consumed.                                        *)
AccountsBalance ==
    \A i \in Seen :
        LET r == inputs[i]
        IN /\ r.used <= Reserve(r) /\ r.visits <= Visits(r)
           /\ r.closing => r.remaining = 0
           /\ link # "down" => r.remaining = r.size - TakenOf(i)
           /\ link # "down" /\ r.indexed => r.left = r.remaining
           /\ r.closed => r.interps = 0 /\ ~r.native /\ ~r.deferred
           /\ ~Concerned(i) => r.closed
=============================================================================
