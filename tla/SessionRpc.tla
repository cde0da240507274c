------------------------------ MODULE SessionRpc ------------------------------
(***************************************************************************)
(* The RPC boundary between a DeviceSessionRpcClient and its session, of   *)
(* packages/core/src/rpc.ts, over either adapter: "direct" queues a call   *)
(* in the microtasks of one thread, "postMessage" sends it over a port to  *)
(* serveSessionRpc.  A call is plain, or makes or ends a subscription; the *)
(* client keeps its listeners, the adapter's SessionRpcEnvelope the limits *)
(* on pending calls and subscriptions, the session the subscriptions.      *)
(* Both the calls and their answers travel in order; the answers to plain  *)
(* calls are given in any order, or never.                                 *)
(***************************************************************************)
EXTENDS Naturals, Sequences, SequencesExt, FiniteSets

CONSTANTS
    Adapters,       \* the adapters a client may be given
    Subs,           \* the subscriptions the client may make
    MaxPending,     \* maximumPendingRpcCalls
    MaxSubs,        \* maximumSubscriptionsPerClient
    MaxCalls        \* bound: calls made

RpcAssumption ==
    /\ Adapters \subseteq {"direct", "postMessage"}
    /\ MaxPending \in Nat /\ MaxSubs \in Nat /\ MaxCalls \in Nat

VARIABLES
    adapter,    \* the adapter
    dead,       \* its #closed: the client closed it, or the worker was lost
    calls,      \* every call made, see CallType
    pending,    \* #pending: the numbers of the calls it holds
    active,     \* #activeSubscriptions of its envelope
    reserved,   \* #subscriptionReservations
    up,         \* the requests on their way to the session
    serving,    \* the plain calls that the session works on
    down,       \* the answers on their way back
    listening,  \* #eventDelivery: the subscriptions that have a listener
    disposed,   \* those whose owner disposed them
    due,        \* those terminated, whose onSubscriberTerminated is to run
    served      \* #subscriptions of the session

vars == <<adapter, dead, calls, pending, active, reserved, up, serving, down,
          listening, disposed, due, served>>
wire == <<up, serving, down>>
client == <<listening, disposed, due>>

CallType == [kind    : {"plain", "subscribe", "unsubscribe"},
             sub     : Subs \cup {"none"},
             outcome : {"none", "ok", "failed"},    \* of the promise
             large   : BOOLEAN]                     \* the answer exceeds maximumMessageBytes

Call(kind, s) == [kind |-> kind, sub |-> s, outcome |-> "none", large |-> FALSE]

Numbers == DOMAIN calls
Of(kind, ns) == {n \in ns : calls[n].kind = kind}

Init ==
    /\ adapter \in Adapters /\ dead = FALSE
    /\ calls = <<>> /\ pending = {} /\ active = {} /\ reserved = {}
    /\ up = <<>> /\ serving = {} /\ down = <<>>
    /\ listening = {} /\ disposed = {} /\ due = {} /\ served = {}

-----------------------------------------------------------------------------
(* Making a call: #call of the client, request() of the adapter.             *)

Room == Len(calls) + Cardinality(due) < MaxCalls

\* A limit that counts the subscriptions made, and not those asked for.
MayCallByActive(kind) ==
    /\ Cardinality(pending) < MaxPending
    /\ kind = "subscribe" => Cardinality(active) < MaxSubs

\* beforeRequest
MayCall(kind) ==
    /\ Cardinality(pending) < MaxPending
    /\ kind = "subscribe" => Cardinality(active) + Cardinality(reserved) < MaxSubs

\* The call is pending and on its way.
Accepted(c) ==
    /\ MayCall(c.kind)
    /\ calls' = Append(calls, c)
    /\ pending' = pending \cup {Len(calls) + 1}
    /\ reserved' = IF c.kind = "subscribe" THEN reserved \cup {c.sub} ELSE reserved
    /\ up' = Append(up, Len(calls) + 1)

\* The limits, the size of the request or postMessage itself refuse it.
Refused(c) ==
    /\ MayCall(c.kind) => c.kind = "plain"
    /\ calls' = Append(calls, [c EXCEPT !.outcome = "failed"])
    /\ UNCHANGED <<pending, reserved, up>>

PlainCall ==
    /\ ~dead /\ Room
    /\ Accepted(Call("plain", "none")) \/ Refused(Call("plain", "none"))
    /\ UNCHANGED <<adapter, dead, active, serving, down, client, served>>

\* subscribe(): the listener is there before the answer, and leaves if the call fails.
Subscribe(s) ==
    /\ ~dead /\ Room
    /\ \A n \in Numbers : calls[n].sub # s
    /\ \/ Accepted(Call("subscribe", s)) /\ listening' = listening \cup {s}
       \/ Refused(Call("subscribe", s)) /\ UNCHANGED listening
    /\ UNCHANGED <<adapter, dead, active, serving, down, disposed, due, served>>

\* #requestUnsubscribe: nobody hears of a refusal.
RequestUnsubscribe(s) ==
    IF dead THEN UNCHANGED <<calls, pending, reserved, up>>
    ELSE Accepted(Call("unsubscribe", s)) \/ Refused(Call("unsubscribe", s))

\* A disposal that leaves a subscription alone which is still being made.
DisposeOnlyActive(s) ==
    /\ ~dead /\ Room
    /\ s \notin disposed
    /\ \E n \in Numbers : calls[n].sub = s
    /\ disposed' = disposed \cup {s}
    /\ listening' = listening \ {s}
    /\ IF s \in active THEN RequestUnsubscribe(s) ELSE UNCHANGED <<calls, pending, reserved, up>>
    /\ UNCHANGED <<adapter, dead, active, serving, down, due, served>>

Dispose(s) ==
    /\ ~dead /\ Room
    /\ s \notin disposed
    /\ \E n \in Numbers : calls[n].sub = s
    /\ disposed' = disposed \cup {s}
    /\ listening' = listening \ {s}
    /\ RequestUnsubscribe(s)
    /\ UNCHANGED <<adapter, dead, active, serving, down, due, served>>

\* An event of the session overflows the subscriber's queue or the size of a message.
Evict(s) ==
    /\ ~dead /\ Room
    /\ s \in listening \cap served
    /\ listening' = listening \ {s}
    /\ due' = due \cup {s}
    /\ UNCHANGED <<adapter, dead, calls, pending, active, reserved, wire, disposed, served>>

Report(s) ==
    /\ s \in due
    /\ due' = due \ {s}
    /\ RequestUnsubscribe(s)
    /\ UNCHANGED <<adapter, dead, active, serving, down, listening, disposed, served>>

-----------------------------------------------------------------------------
(* The session.                                                              *)

Reply(n, ok) == Append(down, [call |-> n, ok |-> ok])

\* The next request reaches the session; "direct" drops one no longer pending.
Serve ==
    /\ up # <<>>
    /\ up' = Tail(up)
    /\ LET n == Head(up)
           c == calls[n]
       IN \/ /\ adapter = "direct" /\ n \notin pending
             /\ UNCHANGED <<serving, down, served>>
          \/ /\ adapter = "postMessage" \/ n \in pending
             /\ \/ /\ c.kind = "plain"
                   /\ serving' = serving \cup {n}
                   /\ UNCHANGED <<down, served>>
                \/ /\ c.kind = "subscribe"
                   /\ served' = served \cup {c.sub} /\ down' = Reply(n, TRUE)
                   /\ UNCHANGED serving
                \/ /\ c.kind = "unsubscribe"
                   /\ served' = served \ {c.sub} /\ down' = Reply(n, TRUE)
                   /\ UNCHANGED serving
                \/ /\ c.kind # "plain"      \* the client is not attached
                   /\ down' = Reply(n, FALSE)
                   /\ UNCHANGED <<serving, served>>
    /\ UNCHANGED <<adapter, dead, calls, pending, active, reserved, client>>

\* The session ends a subscriber whose queue, on its side, is full, and tells nobody.
SessionEvicts(s) ==
    /\ s \in served
    /\ served' = served \ {s}
    /\ UNCHANGED <<adapter, dead, calls, pending, active, reserved, wire, client>>

\* A plain call is answered, with an error perhaps, or with more than a message holds.
Answer(n) ==
    /\ n \in serving
    /\ serving' = serving \ {n}
    /\ \E ok, large \in BOOLEAN :
          /\ down' = Reply(n, ok)
          /\ calls' = [calls EXCEPT ![n].large = large]
    /\ UNCHANGED <<adapter, dead, pending, active, reserved, up, client, served>>

-----------------------------------------------------------------------------
(* The answer.                                                               *)

\* settle() of the envelope
Settle(c, ok) ==
    /\ active' = IF ~ok THEN active
                 ELSE CASE c.kind = "subscribe" -> active \cup {c.sub}
                        [] c.kind = "unsubscribe" -> active \ {c.sub}
                        [] OTHER -> active
    /\ reserved' = IF c.kind = "subscribe" THEN reserved \ {c.sub} ELSE reserved

\* settle() throws for an answer too large.  #receive of "postMessage" then rejects the
\* call; the catch of the direct #dispatch finds the call no longer pending, and returns.
Outcome(n, ok) ==
    IF calls[n].large THEN IF adapter = "direct" THEN "none" ELSE "failed"
    ELSE IF ok THEN "ok" ELSE "failed"

Receive ==
    /\ down # <<>>
    /\ down' = Tail(down)
    /\ LET n == Head(down).call
           ok == Head(down).ok
           c == calls[n]
       IN \/ /\ n \notin pending
             /\ UNCHANGED <<calls, pending, active, reserved, listening>>
          \/ /\ n \in pending
             /\ pending' = pending \ {n}
             /\ calls' = [calls EXCEPT ![n].outcome = Outcome(n, ok)]
             /\ Settle(c, ok)
             /\ listening' = IF c.kind = "subscribe" /\ ~ok THEN listening \ {c.sub} ELSE listening
    /\ UNCHANGED <<adapter, dead, up, serving, disposed, due, served>>

\* A #terminate that leaves the calls alone which the session already works on.
RejectedQueued == {n \in pending : n \notin serving}

\* #terminate rejects every call pending.
Rejected == pending

\* close() by the client, or workerLost() by its owner: what is on its way may be lost.
Terminate ==
    /\ ~dead
    /\ dead' = TRUE
    /\ calls' = [n \in Numbers |-> IF n \in Rejected THEN [calls[n] EXCEPT !.outcome = "failed"]
                                   ELSE calls[n]]
    /\ pending' = {}
    /\ \/ UNCHANGED wire
       \/ up' = <<>> /\ serving' = {} /\ down' = <<>>
    /\ \/ UNCHANGED listening
       \/ listening' = {}           \* the client itself closed
    /\ UNCHANGED <<adapter, active, reserved, disposed, due, served>>

Next ==
    \/ PlainCall
    \/ \E s \in Subs : Subscribe(s) \/ Dispose(s) \/ Evict(s) \/ Report(s) \/ SessionEvicts(s)
    \/ Serve \/ \E n \in 1..MaxCalls : Answer(n)
    \/ Receive \/ Terminate

\* Messages and microtasks are delivered; the session answers what it works on.
Fairness ==
    /\ WF_vars(Serve) /\ WF_vars(Receive)
    /\ \A s \in Subs : WF_vars(Report(s))
    /\ \A n \in 1..MaxCalls : WF_vars(Answer(n))

Spec == Init /\ [][Next]_vars /\ Fairness

-----------------------------------------------------------------------------
\* The type of the state; a subscription that ended has no listener.
TypeOK ==
    /\ adapter \in Adapters /\ dead \in BOOLEAN
    /\ calls \in Seq(CallType) /\ Len(calls) <= MaxCalls
    /\ pending \subseteq Numbers /\ serving \subseteq Numbers
    /\ active \subseteq Subs /\ reserved \subseteq Subs /\ served \subseteq Subs
    /\ up \in Seq(Numbers) /\ down \in Seq([call : Numbers, ok : BOOLEAN])
    /\ listening \subseteq Subs /\ disposed \subseteq Subs /\ due \subseteq Subs
    /\ listening \cap (disposed \cup due) = {}

\* The envelope's limit on subscriptions counts what it must: those asked for are the
\* subscribe calls pending, together with those made they never exceed the limit, a
\* subscription the session still serves is counted once no call about it is pending, and
\* an unsubscribe that was answered gives its slot back.
SubscriptionsCounted ==
    /\ ~dead =>
          /\ reserved = {calls[n].sub : n \in Of("subscribe", pending)}
          /\ Cardinality(active \cup reserved) <= MaxSubs
          /\ served \subseteq active \cup {calls[n].sub : n \in pending}
    /\ \A n \in Of("unsubscribe", Numbers) :
          calls[n].outcome = "ok" => calls[n].sub \notin active \cup reserved

\* A call that the adapter holds is in exactly one place: on its way to the session, with
\* it, or its answer on the way back.  A call it no longer holds was settled, but for the
\* answer too large of the direct adapter; a dead adapter holds none.
CallsAccounted ==
    /\ \A n \in pending :
          /\ calls[n].outcome = "none"
          /\ Cardinality({i \in DOMAIN up : up[i] = n}) + Cardinality({n} \cap serving)
             + Cardinality({i \in DOMAIN down : down[i].call = n}) = 1
    /\ \A n \in Numbers \ pending :
          calls[n].outcome # "none" \/ (adapter = "direct" /\ calls[n].large)
    /\ dead => pending = {}

Ended(s) == s \in disposed \cup due

\* A subscription that its owner disposed, or that overflowed, is soon no longer served,
\* even one disposed while it was being made; but an unsubscribe that was refused, by a
\* limit or the session, is never repeated.
EndedSubscriptionsStop ==
    \A s \in Subs :
        Ended(s) ~> \/ s \notin served
                    \/ dead
                    \/ \E n \in Of("unsubscribe", Numbers) :
                          calls[n].sub = s /\ calls[n].outcome = "failed"

\* A call settles once the session has answered it, whatever the size of the answer:
\* "without a canonical function the two adapters would enforce different RPC limits over
\* the same value", and an oversized call is refused.
EveryCallSettles ==
    \A n \in 1..MaxCalls : n \in Numbers ~> (n \in Numbers /\ calls[n].outcome # "none")
=============================================================================
