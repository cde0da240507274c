--------------------------- MODULE BoundedIngress ---------------------------
(***************************************************************************)
(* The authoritative receive queue of one channel: the class               *)
(* BoundedIngress of packages/core/src/ingress.ts.                         *)
(*                                                                         *)
(* A transport pushes the chunks it receives; one consumer at a time reads *)
(* them with an async iterator; whoever owns the channel closes it, or     *)
(* closes it and throws away what is still queued.  The octets themselves  *)
(* are abstracted to the offset at which the stream of ACCEPTED octets had *)
(* arrived when the chunk was accepted: that tells apart every loss,       *)
(* duplication and reordering of chunks.                                   *)
(*                                                                         *)
(* Every method is synchronous JavaScript, so one action is one method     *)
(* call with everything it calls.  `next' is the only one that may leave   *)
(* something behind: a pending read, settled by a later call.              *)
(*                                                                         *)
(* The custody sink (InputCustodySink, installed by the session) is        *)
(* external.  A binding of a sink is a number; a chunk carries the binding *)
(* whose ticket it holds, 0 for none.  The sink may refuse an observation  *)
(* by throwing, which the code treats as a fault of the channel.           *)
(***************************************************************************)
EXTENDS Naturals, Sequences

CONSTANTS
    HardLimit,      \* options.hardLimitBytes
    Sizes,          \* the chunk sizes a transport may deliver
    Kinds,          \* the kinds of termination an owner may close with
    MaxOctets,      \* bound: octets pushed, accepted and rejected alike
    MaxConsumers,   \* bound: consumers created over the channel's life
    MaxBindings     \* bound: custody bindings tried over the channel's life

\* The constructor refuses a limit that is not a positive safe integer, and an
\* empty push returns before it touches any state.
ASSUME IngressAssumption ==
    /\ HardLimit \in Nat \ {0}
    /\ Sizes \subseteq Nat \ {0}
    /\ "none" \notin Kinds
    /\ {"closed-by-host", "receive-overflow", "fault"} \subseteq Kinds
    /\ MaxOctets \in Nat /\ MaxConsumers \in Nat /\ MaxBindings \in Nat

VARIABLES
    queue,          \* the chain from #head to #tail
    pending,        \* the consumer whose read waits, 0 for none
    termination,    \* "none" or the kind of the first termination
    consumer,       \* the consumer that may read, 0 for none
    custody,        \* the binding of the installed sink, 0 for none
    retained, highWater, accepted, delivered, rejected,   \* the metrics
    consumers,      \* consumers created so far: names the next one
    bindings,       \* bindings tried so far: names the next one
    revoked,        \* bindings whose sink was told it is revoked
    dropped,        \* octets discarded unread
    outcome         \* what the last settled read resolved to

vars == <<queue, pending, termination, consumer, custody, retained, highWater,
          accepted, delivered, rejected, consumers, bindings, revoked, dropped,
          outcome>>

metrics  == <<highWater, accepted, rejected>>
identity == <<consumer, consumers, bindings>>

Chunk(at, size, ticket) == [at |-> at, size |-> size, ticket |-> ticket]

ChunkType == [at : Nat, size : Nat \ {0}, ticket : Nat]

NoRead    == [kind |-> "none", at |-> 0, size |-> 0]
DoneRead  == [kind |-> "done", at |-> 0, size |-> 0]
ErrorRead == [kind |-> "error", at |-> 0, size |-> 0]
ChunkRead(c) == [kind |-> "chunk", at |-> c.at, size |-> c.size]

\* #terminalResult: a close by the host ends the iteration, every other
\* termination rejects the read.
TerminalRead(t) == IF t = "closed-by-host" THEN DoneRead ELSE ErrorRead

-----------------------------------------------------------------------------
Init ==
    /\ queue = <<>> /\ pending = 0 /\ termination = "none"
    /\ consumer = 0 /\ custody = 0
    /\ retained = 0 /\ highWater = 0 /\ accepted = 0 /\ delivered = 0
    /\ rejected = 0 /\ consumers = 0 /\ bindings = 0 /\ revoked = {}
    /\ dropped = 0 /\ outcome = NoRead

(***************************************************************************)
(* #dequeue: hand out the oldest chunk of q, of which ret octets are        *)
(* retained, to the read that is being settled.                            *)
(***************************************************************************)
Dequeue(q, ret) ==
    /\ queue' = Tail(q)
    /\ retained' = ret - Head(q).size
    /\ delivered' = delivered + Head(q).size
    /\ outcome' = ChunkRead(Head(q))

\* A settlement that forgets to look at the termination: the read that waits
\* when the channel ends is never resolved.
SettlePendingDataOnly(q, ret, t) ==
    IF pending # 0 /\ q # <<>>
    THEN Dequeue(q, ret) /\ pending' = 0
    ELSE queue' = q /\ retained' = ret /\ UNCHANGED <<delivered, pending, outcome>>

(***************************************************************************)
(* #settlePending, when the queue has become q with ret octets retained    *)
(* and the termination t: the waiting read gets the oldest chunk, or the   *)
(* termination, or goes on waiting.                                        *)
(***************************************************************************)
SettlePending(q, ret, t) ==
    IF pending # 0 /\ q # <<>>
    THEN Dequeue(q, ret) /\ pending' = 0
    ELSE /\ queue' = q /\ retained' = ret /\ UNCHANGED delivered
         /\ IF pending # 0 /\ t # "none"
            THEN pending' = 0 /\ outcome' = TerminalRead(t)
            ELSE UNCHANGED <<pending, outcome>>

(***************************************************************************)
(* #terminate: the sink is detached and told before the waiting read is    *)
(* settled, also when the sink or the owner's callback throws.             *)
(***************************************************************************)
Terminate(q, ret, t) ==
    /\ termination' = t
    /\ custody' = 0
    /\ revoked' = IF custody = 0 THEN revoked ELSE revoked \cup {custody}
    /\ SettlePending(q, ret, t)

-----------------------------------------------------------------------------
(* push(bytes), by its four outcomes.                                      *)

PushBound(n) == accepted + rejected + n <= MaxOctets

\* After the termination nothing is accepted.
PushTerminated(n) ==
    /\ PushBound(n)
    /\ termination # "none"
    /\ rejected' = rejected + n
    /\ UNCHANGED <<queue, pending, termination, custody, retained, highWater,
                   accepted, delivered, revoked, dropped, outcome, identity>>

\* An overflow that drops the chunk and goes on, what the class's comment rules out.
PushOverflowContinues(n) ==
    /\ PushBound(n)
    /\ termination = "none"
    /\ n > HardLimit - retained
    /\ accepted' = accepted + n
    /\ UNCHANGED <<queue, pending, termination, custody, retained, highWater,
                   delivered, rejected, revoked, dropped, outcome, identity>>

\* A chunk that does not fit is rejected whole and ends the channel.
PushOverflow(n) ==
    /\ PushBound(n)
    /\ termination = "none"
    /\ n > HardLimit - retained
    /\ rejected' = rejected + n
    /\ Terminate(queue, retained, "receive-overflow")
    /\ UNCHANGED <<highWater, accepted, dropped, identity>>

\* The sink refuses the obligation: the channel ends before the chunk is accepted.
PushRefused(n) ==
    /\ PushBound(n)
    /\ termination = "none"
    /\ n <= HardLimit - retained
    /\ custody # 0
    /\ Terminate(queue, retained, "fault")
    /\ UNCHANGED <<metrics, dropped, identity>>

PushAccept(n) ==
    /\ PushBound(n)
    /\ termination = "none"
    /\ n <= HardLimit - retained
    /\ accepted' = accepted + n
    /\ highWater' = IF retained + n > highWater THEN retained + n ELSE highWater
    /\ SettlePending(Append(queue, Chunk(accepted, n, custody)), retained + n, termination)
    /\ UNCHANGED <<termination, custody, rejected, revoked, dropped, identity>>

Push ==
    \E n \in Sizes : PushTerminated(n) \/ PushOverflow(n) \/ PushRefused(n) \/ PushAccept(n)

-----------------------------------------------------------------------------
(* The consumer: incoming(), its iterator's next() and return().            *)

\* incoming() and the one iterator of its result.  A released place is free again.
Incoming ==
    /\ consumers < MaxConsumers
    /\ consumer = 0
    /\ consumers' = consumers + 1
    /\ consumer' = consumers + 1
    /\ UNCHANGED <<queue, pending, termination, custody, retained, metrics,
                   delivered, bindings, revoked, dropped, outcome>>

\* next() by the current consumer.  A read by a released one, and one beside a
\* read that waits, throws and changes nothing.
Next_Chunk ==
    /\ consumer # 0
    /\ queue # <<>>
    /\ Dequeue(queue, retained)
    /\ UNCHANGED <<pending, termination, custody, metrics, revoked, dropped, identity>>

Next_Terminal ==
    /\ consumer # 0
    /\ queue = <<>> /\ termination # "none"
    /\ outcome' = TerminalRead(termination)
    /\ UNCHANGED <<queue, pending, termination, custody, retained, metrics,
                   delivered, revoked, dropped, identity>>

Next_Wait ==
    /\ consumer # 0
    /\ queue = <<>> /\ termination = "none" /\ pending = 0
    /\ pending' = consumer
    /\ UNCHANGED <<queue, termination, custody, retained, metrics, delivered,
                   revoked, dropped, outcome, identity>>

\* return(): #releaseConsumer resolves the read that waits.
Release ==
    /\ consumer # 0
    /\ consumer' = 0
    /\ IF pending = consumer THEN pending' = 0 /\ outcome' = DoneRead
                             ELSE UNCHANGED <<pending, outcome>>
    /\ UNCHANGED <<queue, termination, custody, retained, metrics, delivered,
                   consumers, bindings, revoked, dropped>>

-----------------------------------------------------------------------------
(* The owner: close, discardAndClose and discardAndTerminate.               *)

Close ==
    /\ termination = "none"
    /\ \E t \in Kinds : Terminate(queue, retained, t)
    /\ UNCHANGED <<metrics, dropped, identity>>

\* A discard that leaves the channel open for more.
DiscardOnly ==
    /\ dropped' = dropped + retained
    /\ SettlePending(<<>>, 0, termination)
    /\ UNCHANGED <<termination, custody, revoked, metrics, identity>>

\* #discard, then #terminate or, when the channel had ended, #settlePending.
Discard ==
    /\ dropped' = dropped + retained
    /\ \/ /\ termination = "none"
          /\ \E t \in Kinds : Terminate(<<>>, 0, t)
       \/ /\ termination # "none"
          /\ SettlePending(<<>>, 0, termination)
          /\ UNCHANGED <<termination, custody, revoked>>
    /\ UNCHANGED <<metrics, identity>>

-----------------------------------------------------------------------------
(* The session: bindInputCustody and the dispose() of its result.           *)

CanBind == consumer = 0 /\ delivered = 0 /\ custody = 0 /\ termination = "none"

\* A bind that forgets the census of what is already queued.
BindNoCensus ==
    /\ bindings < MaxBindings
    /\ CanBind
    /\ bindings' = bindings + 1
    /\ custody' = bindings + 1
    /\ UNCHANGED <<queue, pending, termination, consumer, retained, metrics,
                   delivered, consumers, revoked, dropped, outcome>>

\* The census gives every queued chunk a ticket of the new sink before a later
\* push can meet it.
Bind ==
    /\ bindings < MaxBindings
    /\ CanBind
    /\ bindings' = bindings + 1
    /\ custody' = bindings + 1
    /\ queue' = [i \in DOMAIN queue |-> [queue[i] EXCEPT !.ticket = bindings + 1]]
    /\ UNCHANGED <<pending, termination, consumer, retained, metrics, delivered,
                   consumers, revoked, dropped, outcome>>

\* The sink throws at the k-th queued chunk, or (k past the last) at its
\* attestation: it is revoked and not installed, the tickets it gave stay.
BindFails ==
    /\ bindings < MaxBindings
    /\ CanBind
    /\ bindings' = bindings + 1
    /\ revoked' = revoked \cup {bindings + 1}
    /\ \E k \in 1 .. Len(queue) + 1 :
          queue' = [i \in DOMAIN queue |->
                       IF i < k THEN [queue[i] EXCEPT !.ticket = bindings + 1] ELSE queue[i]]
    /\ UNCHANGED <<pending, termination, consumer, custody, retained, metrics,
                   delivered, consumers, dropped, outcome>>

Dispose ==
    /\ custody # 0
    /\ custody' = 0
    /\ revoked' = revoked \cup {custody}
    /\ UNCHANGED <<queue, pending, termination, retained, metrics, delivered,
                   dropped, outcome, identity>>

-----------------------------------------------------------------------------
Next ==
    \/ Push \/ Incoming \/ Next_Chunk \/ Next_Terminal \/ Next_Wait \/ Release
    \/ Close \/ Discard \/ Bind \/ BindFails \/ Dispose

Spec == Init /\ [][Next]_vars

-----------------------------------------------------------------------------
\* The type of the state.
TypeOK ==
    /\ queue \in Seq(ChunkType)
    /\ pending \in Nat /\ consumer \in Nat /\ custody \in Nat
    /\ termination \in Kinds \cup {"none"}
    /\ retained \in Nat /\ highWater \in Nat /\ accepted \in Nat
    /\ delivered \in Nat /\ rejected \in Nat /\ dropped \in Nat
    /\ consumers \in Nat /\ bindings \in Nat
    /\ revoked \subseteq Nat
    /\ outcome \in [kind : {"none", "chunk", "done", "error"}, at : Nat, size : Nat]

\* The metrics balance, and only a channel that is over has lost an octet.
OctetsBalance ==
    /\ accepted = delivered + retained + dropped
    /\ (dropped > 0 \/ rejected > 0) => termination # "none"
    /\ retained <= highWater /\ highWater <= HardLimit

\* The queue holds exactly the octets the metrics call retained, in the order
\* they were accepted and without a gap.
QueueTilesRetained ==
    /\ queue = <<>> => retained = 0
    /\ queue # <<>> => /\ queue[1].at = delivered /\ dropped = 0
                       /\ queue[Len(queue)].at + queue[Len(queue)].size = accepted
    /\ \A i \in 1 .. Len(queue) - 1 : queue[i].at + queue[i].size = queue[i + 1].at

\* Every accepted octet is delivered, still queued in its place, or was discarded
\* by a channel that is over: "It either retains every accepted octet or
\* terminates; there is no drop-and-continue state" (the comment of the class).
NoSilentLoss == OctetsBalance /\ QueueTilesRetained

\* A read waits only when there is nothing to give it: no chunk is queued, the
\* channel is not over, and the one who waits is the current consumer.
WaiterNeverStranded ==
    pending # 0 => queue = <<>> /\ termination = "none" /\ pending = consumer

\* A chunk that is handed out begins where the previous one ended, across reads,
\* waits, consumers that leave and consumers that follow them.
DeliveredInOrder ==
    [][delivered' # delivered =>
          /\ outcome' = [kind |-> "chunk", at |-> delivered, size |-> delivered' - delivered]
      ]_vars

\* While a sink is installed, the channel is open, the sink has not been revoked
\* and every queued chunk holds a ticket of it, whether it came before or after
\* the sink.
CustodyComplete ==
    custody # 0 => /\ termination = "none"
                   /\ custody \notin revoked
                   /\ \A i \in DOMAIN queue : queue[i].ticket = custody
=============================================================================
