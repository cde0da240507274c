---------------------------- MODULE EventDelivery ----------------------------
(***************************************************************************)
(* SessionEventDelivery of packages/core/src/events.ts: the queues through *)
(* which a session, and again its client, hands events to subscribers.     *)
(*                                                                         *)
(* An event is its sequence number and the keys it coalesces under: none   *)
(* for a lossless event, one for the progress of an operation, one per     *)
(* cell for a change of state cells.  A subscriber is a Subscriber object: *)
(* once ended it is never used again.  Its #drain runs between two awaits  *)
(* of its listener, which may return, throw, or never settle.              *)
(***************************************************************************)
EXTENDS Naturals, Sequences, SequencesExt, FiniteSets

CONSTANTS
    Subscribers,    \* the subscriptions that may be made
    Keys,           \* the coalescing keys
    Shapes,         \* the sets of keys that events have
    ReplayRequests, \* the values of options.replayLast
    Depth,          \* maximumLosslessQueueDepth
    ReplayMax,      \* maximumReplayCount
    Prompt,         \* the subscribers whose listener always settles
    MaxEvents       \* bound: events published

DeliveryAssumption ==
    /\ Shapes \subseteq SUBSET Keys /\ Prompt \subseteq Subscribers
    /\ ReplayRequests \subseteq Nat
    /\ Depth \in Nat /\ ReplayMax \in Nat /\ MaxEvents \in Nat

VARIABLES
    sequence,   \* the last sequence number given
    replay,     \* #replay
    sub         \* each Subscriber, see SubscriberType

vars == <<sequence, replay, sub>>

Event == [seq : Nat, keys : SUBSET Keys]

SubscriberType ==
    [state     : {"none", "live", "ended"},     \* ended: terminated, out of #subscribers
     queue     : Seq(Event),
     lossless  : Nat,                           \* pendingLossless
     coalesced : [Keys -> Nat],                 \* the number of the pending event, 0 for none
     drain     : {"idle", "scheduled", "listening"},    \* delivering is drain # "idle"
     report    : {"none", "due", "told"},       \* onSubscriberTerminated
     offered   : Seq(Event),                    \* history, of a live one: the events #enqueue
     got       : Seq(Event)]                    \* was called with, and those the listener was

NoKeys == [k \in Keys |-> 0]

Init ==
    /\ sequence = 0 /\ replay = <<>>
    /\ sub = [s \in Subscribers |-> [state |-> "none", queue |-> <<>>, lossless |-> 0,
                                     coalesced |-> NoKeys, drain |-> "idle", report |-> "none",
                                     offered |-> <<>>, got |-> <<>>]]

-----------------------------------------------------------------------------
(* One subscriber.                                                           *)

Discard(r) ==
    [r EXCEPT !.state = "ended", !.queue = <<>>, !.lossless = 0, !.coalesced = NoKeys,
              !.offered = <<>>, !.got = <<>>]

\* #terminate: discarded at once, reported in a microtask.
Terminate(r) == [Discard(r) EXCEPT !.report = "due"]

Schedule(r) == [r EXCEPT !.drain = IF @ = "idle" THEN "scheduled" ELSE @]

\* The keys that event e gives up when an event with these keys arrives.
Superseded(r, e, keys) == {k \in e.keys \cap keys : r.coalesced[k] = e.seq}

\* A replacement that drops the whole older event.
StripWhole(r, keys) == SelectSeq(r.queue, LAMBDA e : Superseded(r, e, keys) = {})

\* #removeKey, for every key of the arriving event: an older event loses the keys,
\* and leaves the queue with its last one.
Strip(r, keys) ==
    LET kept == SelectSeq(r.queue, LAMBDA e : e.keys = {} \/ Superseded(r, e, keys) # e.keys)
    IN [i \in DOMAIN kept |-> [kept[i] EXCEPT !.keys = @ \ Superseded(r, kept[i], keys)]]

Slots(r, e) == [k \in Keys |-> IF k \in e.keys THEN e.seq ELSE r.coalesced[k]]

\* #enqueue
Enqueue(r, e) ==
    IF r.state # "live" THEN r
    ELSE IF e.keys = {} THEN
        IF r.lossless >= Depth THEN Terminate(r)
        ELSE Schedule([r EXCEPT !.offered = Append(@, e), !.lossless = @ + 1, !.queue = Append(@, e)])
    ELSE Schedule([r EXCEPT !.offered = Append(@, e), !.queue = Append(Strip(r, e.keys), e),
                            !.coalesced = Slots(r, e)])

-----------------------------------------------------------------------------
(* The operations.                                                           *)

\* #replay.slice(-n): the last n events, and for n = 0 all of them, for -0 is 0.
Slice(n) ==
    IF n = 0 \/ n >= Len(replay) THEN replay ELSE SubSeq(replay, Len(replay) - n + 1, Len(replay))

Subscribe(s, n) ==
    /\ sub[s].state = "none"
    /\ n <= ReplayMax
    /\ sub' = [sub EXCEPT ![s] = FoldLeft(Enqueue, [@ EXCEPT !.state = "live"], Slice(n))]
    /\ UNCHANGED <<sequence, replay>>

Unsubscribe(s) ==
    /\ sub[s].state = "live"
    /\ sub' = [sub EXCEPT ![s] = Discard(@)]
    /\ UNCHANGED <<sequence, replay>>

Clear ==
    /\ sub' = [s \in Subscribers |-> IF sub[s].state = "live" THEN Discard(sub[s]) ELSE sub[s]]
    /\ UNCHANGED <<sequence, replay>>

\* terminate(), by the owner of the delivery.
Evict(s) ==
    /\ sub[s].state = "live"
    /\ sub' = [sub EXCEPT ![s] = Terminate(@)]
    /\ UNCHANGED <<sequence, replay>>

\* #remember
Remember(e) ==
    IF ReplayMax = 0 THEN replay
    ELSE IF Len(replay) = ReplayMax THEN Append(Tail(replay), e)
    ELSE Append(replay, e)

\* What receivers are offered an event.
Offer(e, receivers) ==
    /\ sub' = [s \in Subscribers |-> IF s \in receivers THEN Enqueue(sub[s], e) ELSE sub[s]]
    /\ sequence' = sequence + 1

Publish(keys) ==
    /\ sequence < MaxEvents
    /\ LET e == [seq |-> sequence + 1, keys |-> keys]
       IN Offer(e, Subscribers) /\ replay' = Remember(e)

PublishTo(s, keys) ==
    /\ sequence < MaxEvents
    /\ Offer([seq |-> sequence + 1, keys |-> keys], {s})
    /\ UNCHANGED replay

-----------------------------------------------------------------------------
(* The #drain of a subscriber.                                               *)

\* An account that keeps the slots of the event taken.
SettleKeepingSlots(r, e) == [r EXCEPT !.lossless = IF e.keys = {} THEN @ - 1 ELSE @]

\* The event taken leaves the accounts.
Settle(r, e) ==
    [r EXCEPT !.lossless = IF e.keys = {} THEN @ - 1 ELSE @,
              !.coalesced = [k \in Keys |-> IF k \in e.keys /\ @[k] = e.seq THEN 0 ELSE @[k]]]

\* What #drain does between two awaits: the listener is called with the next event.
Take(r) ==
    [Settle(r, Head(r.queue)) EXCEPT !.queue = Tail(@), !.drain = "listening",
                                     !.got = Append(@, Head(r.queue))]

\* One event at a time for all subscribers together.
Drain_TakeOneAtATime(s) ==
    /\ \A t \in Subscribers : sub[t].drain # "listening"
    /\ sub[s].drain = "scheduled" /\ sub[s].state = "live" /\ sub[s].queue # <<>>
    /\ sub' = [sub EXCEPT ![s] = Take(@)]
    /\ UNCHANGED <<sequence, replay>>

Drain_Take(s) ==
    /\ sub[s].drain = "scheduled" /\ sub[s].state = "live" /\ sub[s].queue # <<>>
    /\ sub' = [sub EXCEPT ![s] = Take(@)]
    /\ UNCHANGED <<sequence, replay>>

\* The listener settles; that it threw is reported and changes nothing.
Drain_Settled(s) ==
    /\ sub[s].drain = "listening"
    /\ sub' = [sub EXCEPT ![s].drain = "scheduled"]
    /\ UNCHANGED <<sequence, replay>>

\* Nothing is left, or the subscriber has ended.
Drain_End(s) ==
    /\ sub[s].drain = "scheduled"
    /\ sub[s].queue = <<>> \/ sub[s].state # "live"
    /\ sub' = [sub EXCEPT ![s].drain = "idle"]
    /\ UNCHANGED <<sequence, replay>>

Report(s) ==
    /\ sub[s].report = "due"
    /\ sub' = [sub EXCEPT ![s].report = "told"]
    /\ UNCHANGED <<sequence, replay>>

Next ==
    \/ \E s \in Subscribers :
          \/ \E n \in ReplayRequests : Subscribe(s, n)
          \/ Unsubscribe(s) \/ Evict(s) \/ Report(s)
          \/ \E keys \in Shapes : PublishTo(s, keys)
          \/ Drain_Take(s) \/ Drain_Settled(s) \/ Drain_End(s)
    \/ \E keys \in Shapes : Publish(keys)
    \/ Clear

\* Microtasks run; the listeners of Prompt settle, the others perhaps never.
Fairness ==
    /\ \A s \in Subscribers : WF_vars(Drain_Take(s) \/ Drain_End(s)) /\ WF_vars(Report(s))
    /\ \A s \in Prompt : WF_vars(Drain_Settled(s))

Spec == Init /\ [][Next]_vars /\ Fairness

-----------------------------------------------------------------------------
\* The type of the state.
TypeOK ==
    /\ sequence \in Nat /\ replay \in Seq(Event) /\ Len(replay) <= ReplayMax
    /\ sub \in [Subscribers -> SubscriberType]

\* Both accounts of #enqueue are exact: pendingLossless counts the lossless events of
\* the queue, and the coalesced slot of a key is the one queued event that carries it,
\* so that a queue never exceeds its depth and one event per key.  A drift in either
\* would evict a subscriber that keeps up, or strip the wrong event.
AccountsExact ==
    \A s \in Subscribers :
        LET q == sub[s].queue
        IN  /\ sub[s].lossless = Cardinality({i \in DOMAIN q : q[i].keys = {}})
            /\ sub[s].lossless <= Depth
            /\ \A k \in Keys : {q[i].seq : i \in {j \in DOMAIN q : k \in q[j].keys}} =
                               {sub[s].coalesced[k]} \ {0}

Numbers(q) == {q[i].seq : i \in DOMAIN q}

\* A subscriber that lives misses no lossless event that it was offered, and for no key
\* the latest: each was handed over or waits, in the order of their numbers, whether they
\* were replayed, live, addressed or coalesced.  Coalescing a change of several cells keeps
\* the cells that were not superseded, and a replacement overtakes nothing published
\* between.
NothingLost ==
    \A s \in Subscribers :
        LET offered == sub[s].offered
            seen == sub[s].got \o sub[s].queue
        IN  /\ \A i, j \in DOMAIN seen : i < j => seen[i].seq < seen[j].seq
            /\ sub[s].state = "live" =>
                 \A i \in DOMAIN offered :
                    LET e == offered[i]
                    IN  /\ e.keys = {} => e.seq \in Numbers(seen)
                        /\ \A k \in e.keys :
                              \/ \E j \in DOMAIN offered : j > i /\ k \in offered[j].keys
                              \/ \E j \in DOMAIN seen : seen[j].seq = e.seq /\ k \in seen[j].keys

\* A subscriber whose listener settles empties its queue again and again, whatever the
\* listeners of its peers do, one that never settles included.
PeersIndependent ==
    \A s \in Prompt : []<>(sub[s].queue = <<>>)

\* A subscriber is offered at its start no more events than options.replayLast asks for,
\* none by default ("options.replayLast ?? 0").
ReplayAsRequested ==
    [][\A s \in Subscribers, n \in ReplayRequests : Subscribe(s, n) => Len(sub'[s].offered) <= n]_vars
=============================================================================
