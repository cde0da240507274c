--------------------------- MODULE AuthoredScheduler ---------------------------
(***************************************************************************)
(* How the turns of a retained session's activations are ordered, and what *)
(* an activation waits for between two of them: the ReadyQueue             *)
(* (ready-queue.ts) and, of retained-session.ts, the waits, timers,        *)
(* deadlines, mailboxes, routed helper channels, reads, writes and relayed *)
(* writes, each with the entry of the effect ledger it holds.              *)
(*                                                                         *)
(* A generation of a session whose activations were all admitted: Reader   *)
(* owns the channel's input, and each other activation may have its writes *)
(* authorized by the channel's owner.  Every event takes a stamp of the    *)
(* session's clock; a turn is queued with the stamp of the event that made *)
(* it ready.                                                               *)
(*                                                                         *)
(* JavaScript runs a task and then the promise reactions it left, in order,*)
(* before the next task.  `micro' is that queue of reactions, and every    *)
(* task needs it empty.  The tasks of the two message ports come in either *)
(* order.  An octet is known by the stamp of the chunk it came in, and a   *)
(* chunk has MaxSize of them.  The limits on queued turns and on effects   *)
(* are never reached; an exhausted work account is a turn that fails.      *)
(* Taps, helpers that call helpers, unscheduled sessions whose helpers own *)
(* the channel, and the deferral of raw input are left out.                *)
(***************************************************************************)
EXTENDS Naturals, SequencesExt, FiniteSetsExt

CONSTANTS
    Acts,           \* the activations
    Reader,         \* the one that owns the channel's input
    Boxes,          \* the declared mailboxes
    Standing,       \* whether the channel is read without demand (not half-duplex)
    MaxRequests,    \* bound: requests of all activations, before the ones that end them
    MaxChunks,      \* bound: chunks heard
    MaxSize,        \* octets of a chunk, and of a read, at most
    MaxMessages,    \* messages queued in all mailboxes (64 in the code)
    MaxTimers       \* outstanding timers and deadlines

SchedulerAssumption ==
    /\ Reader \in Acts /\ Standing \in BOOLEAN
    /\ {MaxRequests, MaxChunks, MaxSize, MaxMessages, MaxTimers} \subseteq Nat /\ MaxSize > 0
    /\ IsFiniteSet(Acts) /\ IsFiniteSet(Boxes)
    /\ "nobody" \notin Acts \cup Boxes /\ {"receive", "timer"} \cap Boxes = {}

VARIABLES
    acts,       \* each activation
    queue,      \* the ReadyQueue: its state, the job it runs, the jobs it holds
    micro,      \* the promise reactions to run before the next task
    posted,     \* #readyScheduled
    waits,      \* #waiting
    receiver,   \* #receiver: the stamp of its registration, its maximum
    input,      \* #buffer with #inputRanges: the stamp of each octet
    pump,       \* whether a native read is pending
    heard,      \* chunks the adapter has stamped and the session has not seen
    boxes,      \* #messages of each mailbox, with a count of those ever sent
    timers,     \* #timers and #deadlines
    routed,     \* #routed
    outbound,   \* #outbound: whose platform call is unresolved, and its kind
    relays,     \* #relayQueue
    relay,      \* the relay that runs
    ledger,     \* the live effects
    closed,     \* the session is disconnected
    receipts,   \* history: receipts of consumed input given out
    chunks,     \* history: chunks heard
    requests    \* history: requests made

schedulerVars ==
    <<acts, queue, micro, posted, waits, receiver, input, pump, heard, boxes,
      timers, routed, outbound, relays, relay, ledger, closed, receipts, chunks, requests>>

Nobody == "nobody"
NoJob == [act |-> Nobody, part |-> "none", seq |-> 0]
NoWait == [on |-> FALSE, timers |-> {}, octets |-> 0, fill |-> FALSE, boxes |-> {}, registered |-> 0]
NoReceiver == [registered |-> 0, octets |-> 0]
NoRoute == [box |-> Nobody, owner |-> "act", reading |-> 0, back |-> FALSE]
NoCall == [act |-> Nobody, kind |-> "none"]

\* unclaimed: octets it was given and has not consumed; receipt: of a range it consumed.
NewAct == [stage |-> "queued", seq |-> 0, unclaimed |-> 0, receipt |-> 0]

\* The activations were admitted, the reader first, and their first turns are queued.
SchedulerInit ==
    /\ acts = [a \in Acts |-> NewAct]
    /\ \E order \in [Acts -> 1..Cardinality(Acts)] :
          /\ order[Reader] = 1 /\ \A a, b \in Acts : order[a] = order[b] => a = b
          /\ queue = [state |-> "posted", job |-> NoJob,
                      jobs |-> {[act |-> a, part |-> "turn", seq |-> order[a]] : a \in Acts}]
    /\ micro = <<>> /\ posted = FALSE
    /\ waits = [a \in Acts |-> NoWait] /\ receiver = NoReceiver /\ input = <<>>
    /\ pump = Standing /\ heard = <<>>
    /\ boxes = [b \in Boxes |-> [sent |-> 0, queue |-> <<>>]]
    /\ timers = {} /\ routed = [a \in Acts |-> NoRoute]
    /\ outbound = NoCall /\ relays = <<>> /\ relay = NoCall
    /\ ledger = {} /\ closed = FALSE /\ receipts = 0 /\ chunks = 0 /\ requests = 0

Live(a) == acts[a].stage # "ended"

\* The next stamp: only their order matters, so it follows those still in use.
Stamp == 1 + Max({0, queue.job.seq, receiver.registered} \cup ToSet(input)
                 \cup {j.seq : j \in queue.jobs} \cup ToSet(heard)
                 \cup (UNION {{t.id, t.ready} : t \in timers})
                 \cup (UNION {{acts[a].seq, waits[a].registered, routed[a].reading} : a \in Acts})
                 \cup (UNION {{boxes[b].queue[i].seq : i \in DOMAIN boxes[b].queue} : b \in Boxes}))

Larger(m, n) == IF m < n THEN n ELSE m
Smaller(m, n) == IF m < n THEN m ELSE n

-----------------------------------------------------------------------------
(* The ready queue, promise reactions and the ledger.                      *)

\* enqueue and #schedule: a job more, and a drain posted when none is.
Queued(q, job) ==
    [q EXCEPT !.jobs = @ \cup {job}, !.state = IF @ = "idle" THEN "posted" ELSE @]

\* The end of #drain: another is posted while there are jobs.
Freed(q) == [q EXCEPT !.job = NoJob, !.state = IF q.jobs = {} THEN "idle" ELSE "posted"]

\* The promise of a's effect is settled: two reactions lead to its next turn,
\* that of #nativeAsync and then that of #run.
Settled(a, ok) == [what |-> "native", act |-> a, ok |-> ok]
Consider == [what |-> "consider", act |-> Nobody, ok |-> TRUE]
Select == [what |-> "select", act |-> Nobody, ok |-> TRUE]

Effect(kind, a, id) == [kind |-> kind, act |-> a, id |-> id]

\* A ledger that forgets the platform's calls with the activation that made them.
LedgerWithoutAny(a) == {e \in ledger : e.act # a}

\* What stays in the ledger when a ends: the calls the platform or a relay still holds.
LedgerWithout(a) ==
    {e \in ledger : e.act # a \/ (outbound.act = a /\ e.kind \in {"write", "control"})
                              \/ (relay.act = a /\ e.kind = "write-via")}

\* A consideration that is posted before the wait is registered.
ScheduleWaitEarly == posted' = (posted \/ \E a \in Acts : waits[a].on)

\* #scheduleWait: a consideration is posted when there is a wait.
ScheduleWait == posted' = (posted \/ \E a \in Acts : waits'[a].on)

\* #finish and #revokeActivation: what a still waited for is withdrawn.
End(a) ==
    /\ acts' = [acts EXCEPT ![a] = [@ EXCEPT !.stage = "ended", !.seq = 0, !.receipt = 0, !.unclaimed = 0]]
    /\ timers' = {t \in timers : t.act # a}
    /\ waits' = [waits EXCEPT ![a] = NoWait]
    /\ receiver' = IF a = Reader THEN NoReceiver ELSE receiver
    /\ routed' = [routed EXCEPT ![a] = NoRoute]
    /\ relays' = RemoveFirst(relays, a)
    /\ ledger' = LedgerWithout(a)
    /\ IF routed[a].box # Nobody THEN ScheduleWait ELSE UNCHANGED posted

endUntouched == <<input, pump, heard, boxes, outbound, relay, closed, receipts, chunks, requests>>

-----------------------------------------------------------------------------
(* Waits: the earliest of all events that some wait is for is matched,     *)
(* until no wait has one.                                                  *)

HeadRange == Cardinality({i \in DOMAIN input : input[i] = input[1]})

Event(a, kind, id, seq) == [act |-> a, kind |-> kind, id |-> id, seq |-> seq]

\* BoundedFill.ready: the range that completes the fill says when it was ready.
InputEvents(a) ==
    LET w == waits[a] IN
    IF w.octets = 0 \/ input = <<>> THEN {}
    ELSE IF ~w.fill THEN {Event(a, "receive", 0, input[1])}
    ELSE IF Len(input) < w.octets THEN {}
    ELSE {Event(a, "receive", 0, Larger(w.registered, input[w.octets]))}

TimerEvents(a) ==
    {Event(a, "timer", t.id, t.ready) : t \in {t \in timers : t.id \in waits[a].timers /\ t.ready # 0}}

MessageEvents(a) ==
    {Event(a, b, 0, boxes[b].queue[1].seq) : b \in {b \in waits[a].boxes : boxes[b].queue # <<>>}}

Ready == UNION {InputEvents(a) \cup TimerEvents(a) \cup MessageEvents(a) : a \in {a \in Acts : waits[a].on}}

\* Of two waits for the same message, the one that was registered first.
Winner ==
    CHOOSE e \in Ready : \A f \in Ready :
        e.seq < f.seq \/ (e.seq = f.seq /\ waits[e.act].registered <= waits[f.act].registered)

Considering == micro # <<>> /\ Head(micro).what = "consider"

Match ==
    /\ Considering /\ Ready # {}
    /\ LET e == Winner
           a == e.act
           w == waits[a]
           n == IF e.kind # "receive" THEN 0
                ELSE IF w.fill THEN w.octets ELSE Smaller(w.octets, HeadRange)
       IN
       /\ waits' = [waits EXCEPT ![a] = NoWait]
       /\ input' = SubSeq(input, n + 1, Len(input))
       /\ timers' = IF e.kind = "timer" THEN {t \in timers : t.id # e.id} ELSE timers
       /\ boxes' = IF e.kind \in Boxes THEN [boxes EXCEPT ![e.kind].queue = Tail(@)] ELSE boxes
       /\ ledger' = ledger \ ({Effect("wait", a, 0)}
                              \cup (IF e.kind = "timer" THEN {Effect("timer", a, e.id)} ELSE {}))
       /\ acts' = [acts EXCEPT ![a] =
                     [acts[a] EXCEPT !.stage = "resuming", !.seq = Larger(w.registered, e.seq),
                                     !.unclaimed = @ + n,
                                     !.receipt = IF e.kind \in Boxes THEN boxes[e.kind].queue[1].receipt ELSE @]]
       /\ micro' = Append(micro, Settled(a, TRUE))
    /\ UNCHANGED <<queue, posted, receiver, pump, heard, routed, outbound, relays, relay,
                   closed, receipts, chunks, requests>>

\* No event is left: a read is made when a wait is for input, and a drain goes on.
Considered ==
    /\ Considering /\ Ready = {}
    /\ pump' = (pump \/ \E a \in Acts : waits[a].octets > 0)
    /\ micro' = Tail(micro) \o (IF queue.state = "matching" THEN <<Select>> ELSE <<>>)
    /\ UNCHANGED <<acts, queue, posted, waits, receiver, input, heard, boxes, timers, routed,
                   outbound, relays, relay, ledger, closed, receipts, chunks, requests>>

\* The task of the session's own port.
ReadyTask ==
    /\ ~closed /\ micro = <<>> /\ posted
    /\ posted' = FALSE /\ micro' = <<Consider>>
    /\ UNCHANGED <<acts, queue, waits, receiver, input, pump, heard, boxes, timers, routed,
                   outbound, relays, relay, ledger, closed, receipts, chunks, requests>>

\* The task of the queue's port: #drain up to its await.
DrainTask ==
    /\ ~closed /\ micro = <<>> /\ queue.state = "posted"
    /\ queue' = [queue EXCEPT !.state = "matching"] /\ micro' = <<Consider>>
    /\ UNCHANGED <<acts, posted, waits, receiver, input, pump, heard, boxes, timers, routed,
                   outbound, relays, relay, ledger, closed, receipts, chunks, requests>>

FirstReaction ==
    /\ micro # <<>> /\ Head(micro).what = "native"
    /\ micro' = Append(Tail(micro), [Head(micro) EXCEPT !.what = "run"])
    /\ UNCHANGED <<acts, queue, posted, waits, receiver, input, pump, heard, boxes, timers, routed,
                   outbound, relays, relay, ledger, closed, receipts, chunks, requests>>

Reacts(a, ok) == micro # <<>> /\ Head(micro) = [what |-> "run", act |-> a, ok |-> ok]

\* #run goes on to #turn: the turn is queued at the stamp that made it ready.
Resume(a) ==
    /\ Reacts(a, TRUE) /\ micro' = Tail(micro)
    /\ LET seq == IF acts[a].seq # 0 THEN acts[a].seq ELSE Stamp IN
       IF Live(a)
       THEN /\ queue' = Queued(queue, [act |-> a, part |-> "turn", seq |-> seq])
            /\ acts' = [acts EXCEPT ![a] = [@ EXCEPT !.stage = "queued", !.seq = 0]]
       ELSE UNCHANGED <<queue, acts>>
    /\ UNCHANGED <<posted, waits, receiver, input, pump, heard, boxes, timers, routed,
                   outbound, relays, relay, ledger, closed, receipts, chunks, requests>>

\* The effect was refused: the activation fails.
Fail(a) ==
    /\ Reacts(a, FALSE) /\ micro' = Tail(micro)
    /\ IF Live(a) THEN End(a)
       ELSE UNCHANGED <<acts, timers, waits, receiver, routed, relays, ledger, posted>>
    /\ UNCHANGED queue /\ UNCHANGED endUntouched
-----------------------------------------------------------------------------
(* The queue of relayed writes: one at a time, each authorized by a turn   *)
(* of the channel's owner.                                                 *)

\* #drainRelay: the first of those that wait is run, if any, and its turn is queued.
NextRelay(waiting, q) ==
    IF waiting = <<>>
    THEN relays' = <<>> /\ relay' = NoCall /\ queue' = q
    ELSE /\ relays' = Tail(waiting)
         /\ relay' = [act |-> Head(waiting), kind |-> "authorizing"]
         /\ queue' = Queued(q, [act |-> Head(waiting), part |-> "authorize", seq |-> Stamp])

\* A write that is submitted refuses every relay that waits.
RefuseRelays == [i \in DOMAIN relays |-> Settled(relays[i], FALSE)]
Unrelayed == ledger \ {Effect("write-via", relays[i], 0) : i \in DOMAIN relays}

-----------------------------------------------------------------------------
(* A turn: selected, run by the author, and what it asks for.              *)

\* The job of the lowest stamp; one whose activation has ended is refused as it starts.
SelectJob ==
    /\ micro # <<>> /\ Head(micro) = Select /\ micro' = Tail(micro)
    /\ LET job == CHOOSE j \in queue.jobs : \A k \in queue.jobs : j.seq <= k.seq
           rest == [queue EXCEPT !.jobs = @ \ {job}, !.job = job, !.state = "running"]
       IN CASE Live(job.act) ->
                 /\ queue' = rest
                 /\ acts' = IF job.part = "turn" THEN [acts EXCEPT ![job.act].stage = "running"] ELSE acts
                 /\ UNCHANGED <<ledger, relays, relay>>
            [] ~Live(job.act) /\ job.part = "turn" ->
                 queue' = Freed(rest) /\ UNCHANGED <<acts, ledger, relays, relay>>
            [] OTHER ->
                 /\ NextRelay(relays, Freed(rest))
                 /\ ledger' = ledger \ {Effect("write-via", job.act, 0)}
                 /\ UNCHANGED acts
    /\ UNCHANGED <<posted, waits, receiver, input, pump, heard, boxes, timers, routed, outbound,
                   closed, receipts, chunks, requests>>

Running(a, part) ==
    /\ ~closed /\ micro = <<>> /\ queue.state = "running"
    /\ queue.job.act = a /\ queue.job.part = part

\* The author's turn ends with a request.
Requests(a) ==
    /\ Running(a, "turn") /\ Live(a)
    /\ requests < MaxRequests /\ requests' = requests + 1

\* The request waits for something: the queue is free for other turns.
Suspend(a) ==
    /\ acts' = [acts EXCEPT ![a].stage = "suspended"]
    /\ queue' = Freed(queue)

\* The request was performed at once: the next turn is queued.
Continue(a, act) ==
    /\ acts' = [acts EXCEPT ![a] = [act EXCEPT !.stage = "queued"]]
    /\ queue' = Queued(Freed(queue), [act |-> a, part |-> "turn", seq |-> Stamp])

\* The activation was ended while its author ran: the answer is dropped.
Abandoned(a) ==
    /\ Running(a, "turn") /\ ~Live(a)
    /\ queue' = Freed(queue)
    /\ UNCHANGED <<acts, micro, posted, waits, receiver, input, pump, heard, boxes, timers, routed,
                   outbound, relays, relay, ledger, closed, receipts, chunks, requests>>

\* A result, an error, or a request that is refused.
TurnEndsActivation(a) ==
    /\ Running(a, "turn") /\ Live(a)
    /\ queue' = Freed(queue) /\ End(a)
    /\ UNCHANGED micro /\ UNCHANGED endUntouched

Reschedule(a) ==
    /\ Requests(a) /\ Continue(a, acts[a])
    /\ UNCHANGED <<micro, posted, waits, receiver, input, pump, heard, boxes, timers, routed,
                   outbound, relays, relay, ledger, closed, receipts, chunks>>

\* A wait that may take from a box that is routed.
MayConsumeAny(a, b) == TRUE

\* #mailboxConsumer: a box that is routed has one consumer.
MayConsume(a, b) == \A c \in Acts :
    routed[c].box = b => c = a /\ routed[c].owner = "act" /\ routed[c].reading = 0

\* wait-any, wait-fill and message-wait, of timers of its own.
WaitAny(a) ==
    /\ Requests(a)
    /\ \E ts \in SUBSET {t.id : t \in {t \in timers : t.act = a /\ t.kind = "timer"}},
          bs \in SUBSET Boxes, n \in {0, MaxSize}, fill \in BOOLEAN :
          /\ n > 0 \/ ts # {} \/ bs # {}
          /\ n > 0 => a = Reader /\ bs = {} /\ receiver = NoReceiver
          /\ fill => n > 0
          /\ \A b \in bs : MayConsume(a, b)
          /\ waits' = [waits EXCEPT ![a] = [on |-> TRUE, timers |-> ts, octets |-> n, fill |-> fill,
                                            boxes |-> bs, registered |-> Stamp]]
    /\ ledger' = ledger \cup {Effect("wait", a, 0)}
    /\ Suspend(a) /\ ScheduleWait
    /\ UNCHANGED <<micro, receiver, input, pump, heard, boxes, timers, routed, outbound, relays, relay,
                   closed, receipts, chunks>>

\* #armTimer and #armDeadline.
Arm(a, kind) ==
    /\ Requests(a) /\ Cardinality(timers) < MaxTimers
    /\ timers' = timers \cup {[id |-> Stamp, act |-> a, kind |-> kind, ready |-> 0]}
    /\ ledger' = ledger \cup {Effect(kind, a, Stamp)}
    /\ Continue(a, acts[a])
    /\ UNCHANGED <<micro, posted, waits, receiver, input, pump, heard, boxes, routed,
                   outbound, relays, relay, closed, receipts, chunks>>

\* #cancelTimer and #disarmDeadline.
Disarm(a, t) ==
    /\ Requests(a) /\ t.act = a
    /\ timers' = timers \ {t} /\ ledger' = ledger \ {Effect(t.kind, a, t.id)}
    /\ Continue(a, acts[a])
    /\ UNCHANGED <<micro, posted, waits, receiver, input, pump, heard, boxes, routed,
                   outbound, relays, relay, closed, receipts, chunks>>

\* #consumeInput: a receipt of the range replaces the one it held.
Consume(a) ==
    /\ Requests(a)
    /\ \E n \in 1..acts[a].unclaimed :
          Continue(a, [acts[a] EXCEPT !.unclaimed = @ - n, !.receipt = receipts + 1])
    /\ receipts' = receipts + 1
    /\ UNCHANGED <<micro, posted, waits, receiver, input, pump, heard, boxes, timers, routed,
                   outbound, relays, relay, ledger, closed, chunks>>

\* What a routed channel's read takes of the head of its mailbox.
BoxRead(q, n) ==
    IF q[1].left <= n THEN Tail(q) ELSE [q EXCEPT ![1].left = @ - n]

RoutedTo(b) == {c \in Acts : routed[c].box = b}

\* #sendMessage, with #consumeRouted for a channel that reads the mailbox: the
\* receipt moves with the message.
Send(a, b) ==
    /\ Requests(a)
    /\ MapThenSumSet(LAMBDA c : Len(boxes[c].queue), Boxes) < MaxMessages
    /\ LET sent == Append(boxes[b].queue, [n |-> boxes[b].sent + 1, seq |-> Stamp, left |-> MaxSize,
                                           receipt |-> acts[a].receipt])
           reading == {c \in RoutedTo(b) : routed[c].reading # 0}
       IN
       /\ boxes' = [boxes EXCEPT ![b] =
                      [sent |-> @.sent + 1, queue |-> IF reading = {} THEN sent ELSE BoxRead(sent, MaxSize)]]
       /\ routed' = [c \in Acts |-> IF c \in reading THEN [routed[c] EXCEPT !.reading = 0] ELSE routed[c]]
       /\ ledger' = ledger \ {Effect("read", c, 0) : c \in reading}
       /\ micro' = SetToSeq({Settled(c, TRUE) : c \in {c \in reading : routed[c].owner = "act"}})
       /\ acts' = [c \in Acts |->
                     CASE c = a -> [acts[c] EXCEPT !.stage = "queued", !.receipt = 0]
                       [] c \in reading /\ routed[c].owner = "act" ->
                            [acts[c] EXCEPT !.stage = "resuming",
                                            !.seq = Larger(routed[c].reading, sent[1].seq)]
                       [] OTHER -> acts[c]]
    /\ queue' = Queued(Freed(queue), [act |-> a, part |-> "turn", seq |-> Stamp + 1])
    /\ UNCHANGED waits /\ ScheduleWait
    /\ UNCHANGED <<receiver, input, pump, heard, timers, outbound, relays, relay, closed, receipts, chunks>>

-----------------------------------------------------------------------------
(* Reads: of the channel's input by its owner, and of a mailbox by the     *)
(* activation or the helper it is routed to.                               *)

\* #consume: what the reader is given of the first range.
Consumed(octets, registered) ==
    LET n == Smaller(octets, HeadRange) IN
    [n |-> n, rest |-> SubSeq(input, n + 1, Len(input)), seq |-> Larger(registered, input[1])]

\* #read of the channel, which asks the platform for more when there is nothing.
Read(a) ==
    /\ Requests(a) /\ a = Reader /\ routed[a].box = Nobody /\ receiver = NoReceiver
    /\ queue' = Freed(queue)
    /\ \E n \in 1..MaxSize :
       IF input # <<>>
       THEN LET c == Consumed(n, Stamp) IN
            /\ acts' = [acts EXCEPT ![a] = [acts[a] EXCEPT !.stage = "resuming", !.seq = c.seq,
                                                           !.unclaimed = @ + c.n]]
            /\ input' = c.rest /\ micro' = <<Settled(a, TRUE)>>
            /\ UNCHANGED <<receiver, pump, ledger>>
       ELSE /\ acts' = [acts EXCEPT ![a].stage = "suspended"]
            /\ receiver' = [registered |-> Stamp, octets |-> n] /\ pump' = TRUE
            /\ ledger' = ledger \cup {Effect("read", a, 0)}
            /\ UNCHANGED <<input, micro>>
    /\ UNCHANGED <<posted, waits, heard, boxes, timers, routed, outbound, relays, relay,
                   closed, receipts, chunks>>

\* The adapter stamps what it hears, whether or not the session reads.
Hear ==
    /\ ~closed /\ micro = <<>> /\ chunks < MaxChunks
    /\ heard' = Append(heard, Stamp)
    /\ chunks' = chunks + 1
    /\ UNCHANGED <<acts, queue, micro, posted, waits, receiver, input, pump, boxes, timers, routed,
                   outbound, relays, relay, ledger, closed, receipts, requests>>

\* #readInput: the native read settles with the stamp the adapter gave.
ReadSettles ==
    /\ ~closed /\ micro = <<>> /\ pump /\ heard # <<>>
    /\ heard' = Tail(heard) /\ pump' = Standing
    /\ LET whole == input \o [i \in 1..MaxSize |-> Head(heard)]
           n == Smaller(receiver.octets, Cardinality({i \in DOMAIN whole : whole[i] = whole[1]}))
       IN IF receiver # NoReceiver
          THEN /\ input' = SubSeq(whole, n + 1, Len(whole)) /\ receiver' = NoReceiver
               /\ acts' = [acts EXCEPT ![Reader] =
                             [acts[Reader] EXCEPT !.stage = "resuming", !.unclaimed = @ + n,
                                                  !.seq = Larger(receiver.registered, whole[1])]]
               /\ ledger' = ledger \ {Effect("read", Reader, 0)}
               /\ micro' = <<Settled(Reader, TRUE)>>
          ELSE input' = whole /\ UNCHANGED <<receiver, acts, ledger, micro>>
    /\ UNCHANGED waits /\ ScheduleWait
    /\ UNCHANGED <<queue, boxes, timers, routed, outbound, relays, relay, closed, receipts, chunks, requests>>

\* A read of a routed mailbox, by the helper or by the activation when it has it back.
BoxReadBegins(a, octets) ==
    LET b == routed[a].box
        q == boxes[b].queue
        mine == routed[a].owner = "act"
    IN
    /\ b # Nobody /\ routed[a].reading = 0
    /\ IF q # <<>>
       THEN /\ boxes' = [boxes EXCEPT ![b].queue = BoxRead(q, octets)]
            /\ acts' = IF mine THEN [acts EXCEPT ![a] = [@ EXCEPT !.stage = "resuming",
                                                                  !.seq = Larger(Stamp, q[1].seq)]]
                       ELSE acts
            /\ micro' = IF mine THEN <<Settled(a, TRUE)>> ELSE <<>>
            /\ UNCHANGED <<routed, ledger>>
       ELSE /\ routed' = [routed EXCEPT ![a].reading = Stamp]
            /\ ledger' = ledger \cup {Effect("read", a, 0)}
            /\ acts' = IF mine THEN [acts EXCEPT ![a].stage = "suspended"] ELSE acts
            /\ UNCHANGED <<boxes, micro>>
    /\ UNCHANGED <<posted, waits, receiver, input, pump, heard, timers, outbound, relays, relay,
                   closed, receipts, chunks>>

ReadBox(a) ==
    /\ Requests(a) /\ routed[a].owner = "act" /\ queue' = Freed(queue)
    /\ \E n \in 1..MaxSize : BoxReadBegins(a, n)

-----------------------------------------------------------------------------
(* Helpers: native code that is handed the activation's routed channel.    *)

\* #helper: the mailbox is routed to the activation, if nobody else consumes it.
CallHelper(a, b) ==
    /\ Requests(a) /\ routed[a].box \in {Nobody, b} /\ routed[a].reading = 0
    /\ RoutedTo(b) \subseteq {a}
    /\ routed[a].box = Nobody => \A c \in Acts : b \notin waits[c].boxes
    /\ routed' = [routed EXCEPT ![a] = [box |-> b, owner |-> "act", reading |-> 0, back |-> FALSE]]
    /\ acts' = [acts EXCEPT ![a].stage = "helping"] /\ queue' = Freed(queue)
    /\ UNCHANGED <<micro, posted, waits, receiver, input, pump, heard, boxes, timers,
                   outbound, relays, relay, ledger, closed, receipts, chunks>>

Helping(a) == ~closed /\ micro = <<>> /\ acts[a].stage = "helping"

HelperReads(a) ==
    /\ Helping(a) /\ routed[a].owner = "child" /\ ~routed[a].back
    /\ \E n \in 1..MaxSize : BoxReadBegins(a, n)
    /\ UNCHANGED <<queue, requests>>

\* accept and offerBack.
HelperAccepts(a) ==
    /\ Helping(a)
    /\ \/ /\ routed[a].owner = "act"
          /\ routed' = [routed EXCEPT ![a].owner = "child"]
       \/ /\ routed[a].owner = "child" /\ ~routed[a].back /\ routed[a].reading = 0
          /\ routed' = [routed EXCEPT ![a].back = TRUE]
    /\ UNCHANGED <<acts, queue, micro, posted, waits, receiver, input, pump, heard, boxes, timers,
                   outbound, relays, relay, ledger, closed, receipts, chunks, requests>>

\* A helper that handed its channel back completes the request, any other fails it.
HelperReturns(a) ==
    /\ Helping(a)
    /\ acts' = [acts EXCEPT ![a].stage = "resuming"]
    /\ micro' = <<Settled(a, routed[a].back)>>
    /\ routed' = [routed EXCEPT ![a] = [routed[a] EXCEPT !.back = FALSE,
                                                         !.owner = IF routed[a].back THEN "act" ELSE @]]
    /\ UNCHANGED <<queue, posted, waits, receiver, input, pump, heard, boxes, timers,
                   outbound, relays, relay, ledger, closed, receipts, chunks, requests>>
-----------------------------------------------------------------------------
(* Writes: one platform call at a time, of the channel's owner, of a       *)
(* control transfer or of a relay.                                         *)

Write(a, kind) ==
    /\ Requests(a) /\ outbound = NoCall
    /\ kind = "write" => a = Reader
    /\ outbound' = [act |-> a, kind |-> kind]
    /\ IF kind = "write"
       THEN micro' = RefuseRelays /\ relays' = <<>> /\ ledger' = Unrelayed \cup {Effect(kind, a, 0)}
       ELSE ledger' = ledger \cup {Effect(kind, a, 0)} /\ UNCHANGED <<micro, relays>>
    /\ Suspend(a)
    /\ UNCHANGED <<posted, waits, receiver, input, pump, heard, boxes, timers, routed, relay,
                   closed, receipts, chunks>>

\* #writeVia: the write joins the relays, and runs when none does.
WriteVia(a) ==
    /\ Requests(a) /\ a # Reader /\ outbound = NoCall
    /\ acts' = [acts EXCEPT ![a].stage = "suspended"]
    /\ ledger' = ledger \cup {Effect("write-via", a, 0)}
    /\ IF relay = NoCall THEN NextRelay(<<a>>, Freed(queue))
       ELSE relays' = Append(relays, a) /\ queue' = Freed(queue) /\ UNCHANGED <<relay>>
    /\ UNCHANGED <<micro, posted, waits, receiver, input, pump, heard, boxes, timers, routed, outbound,
                   closed, receipts, chunks>>

\* The owner's decision on a relay: the write is submitted in the same job, unless
\* the call of another came in between.
Authorize(a) ==
    /\ Running(a, "authorize") /\ Live(a) /\ outbound = NoCall
    /\ outbound' = [act |-> a, kind |-> "relay"] /\ relay' = [relay EXCEPT !.kind = "submitted"]
    /\ micro' = RefuseRelays /\ relays' = <<>>
    /\ ledger' = Unrelayed \cup {Effect("write", a, 0)}
    /\ queue' = Freed(queue)
    /\ UNCHANGED <<acts, posted, waits, receiver, input, pump, heard, boxes, timers, routed,
                   closed, receipts, chunks, requests>>

\* It declined, failed, or its operation was ended meanwhile.
Decline(a) ==
    /\ Running(a, "authorize")
    /\ NextRelay(relays, Freed(queue))
    /\ ledger' = ledger \ {Effect("write-via", a, 0)}
    /\ micro' = IF Live(a) THEN <<Settled(a, FALSE)>> ELSE <<>>
    /\ UNCHANGED <<acts, posted, waits, receiver, input, pump, heard, boxes, timers, routed, outbound,
                   closed, receipts, chunks, requests>>

\* The platform's answer, whoever is left to hear it.
CallSettles ==
    /\ micro = <<>> /\ outbound # NoCall
    /\ LET a == outbound.act
           relayed == outbound.kind = "relay"
       IN \E ok \in BOOLEAN :
          /\ ledger' = ledger \ (IF relayed THEN {Effect("write", a, 0), Effect("write-via", a, 0)}
                                 ELSE {Effect(outbound.kind, a, 0)})
          /\ IF Live(a)
             THEN /\ acts' = [acts EXCEPT ![a] = [@ EXCEPT !.stage = "resuming", !.seq = Stamp]]
                  /\ micro' = <<Settled(a, ok)>>
             ELSE UNCHANGED <<acts, micro>>
          /\ IF relayed THEN relay' = NoCall ELSE UNCHANGED relay
    /\ outbound' = NoCall
    /\ UNCHANGED <<queue, posted, waits, receiver, input, pump, heard, boxes, timers, routed, relays,
                   closed, receipts, chunks, requests>>

-----------------------------------------------------------------------------
(* Timers, cancellation and the end of the session.                        *)

TimerFires(t) ==
    /\ ~closed /\ micro = <<>> /\ t.kind = "timer" /\ t.ready = 0
    /\ timers' = (timers \ {t}) \cup {[t EXCEPT !.ready = Stamp]}
    /\ UNCHANGED waits /\ ScheduleWait
    /\ UNCHANGED <<acts, queue, micro, receiver, input, pump, heard, boxes, routed,
                   outbound, relays, relay, ledger, closed, receipts, chunks, requests>>

\* A deadline that expired, or a cancellation: ordinary authority ends at once.
Cancel(a) ==
    /\ ~closed /\ micro = <<>> /\ Live(a) /\ End(a)
    /\ UNCHANGED <<queue, micro>> /\ UNCHANGED endUntouched

\* #disconnectOnce: the queue and every activation end, a platform call does not.
Disconnect ==
    /\ ~closed /\ micro = <<>>
    /\ closed' = TRUE /\ posted' = FALSE
    /\ acts' = [a \in Acts |-> [acts[a] EXCEPT !.stage = "ended", !.seq = 0, !.receipt = 0, !.unclaimed = 0]]
    /\ queue' = [state |-> "idle", job |-> NoJob, jobs |-> {}]
    /\ waits' = [a \in Acts |-> NoWait] /\ receiver' = NoReceiver /\ timers' = {}
    /\ routed' = [a \in Acts |-> NoRoute] /\ relays' = <<>>
    /\ relay' = IF relay.kind = "submitted" THEN relay ELSE NoCall
    /\ ledger' = {e \in ledger : e.act = outbound.act
                     /\ e.kind \in (IF outbound.kind = "relay" THEN {"write", "write-via"} ELSE {outbound.kind})}
    /\ pump' = FALSE /\ heard' = <<>> /\ boxes' = [b \in Boxes |-> [boxes[b] EXCEPT !.queue = <<>>]]
    /\ input' = <<>>
    /\ UNCHANGED <<micro, outbound, receipts, chunks, requests>>

SchedulerNext ==
    \/ Match \/ Considered \/ ReadyTask \/ DrainTask \/ FirstReaction \/ SelectJob
    \/ Hear \/ ReadSettles \/ CallSettles \/ Disconnect
    \/ \E t \in timers : TimerFires(t)
    \/ \E a \in Acts :
          \/ Resume(a) \/ Fail(a) \/ Abandoned(a) \/ TurnEndsActivation(a) \/ Cancel(a)
          \/ Reschedule(a) \/ WaitAny(a) \/ Consume(a) \/ Read(a) \/ ReadBox(a)
          \/ HelperReads(a) \/ HelperAccepts(a) \/ HelperReturns(a)
          \/ WriteVia(a) \/ Authorize(a) \/ Decline(a)
          \/ \E kind \in {"timer", "deadline"} : Arm(a, kind)
          \/ \E kind \in {"write", "control"} : Write(a, kind)
          \/ \E t \in timers : Disarm(a, t)
          \/ \E b \in Boxes : Send(a, b) \/ CallHelper(a, b)

-----------------------------------------------------------------------------
(* Properties, of the states between two tasks.                            *)

BetweenTasks == micro = <<>> /\ ~closed
Pending == posted \/ queue.state \in {"posted", "matching"}

\* Nothing that could go on is forgotten: when a wait's event is there, or a job is
\* queued, a task that will see it is posted; a read waits only while there is nothing
\* to read, and while the platform is asked for more; and what an activation waits for
\* exists (#scheduleWait, #schedule, #pump, #consume, #consumeRouted).
NoLostWakeup ==
    BetweenTasks =>
        /\ Ready # {} => Pending
        /\ queue.jobs # {} => queue.state # "idle"
        /\ receiver # NoReceiver => input = <<>> /\ pump
        /\ (\E a \in Acts : waits[a].octets > 0) => pump \/ Pending
        /\ \A a \in Acts : routed[a].reading # 0 => boxes[routed[a].box].queue = <<>>
        /\ \A a \in Acts : acts[a].stage = "suspended" =>
              \/ waits[a].on \/ (a = Reader /\ receiver # NoReceiver) \/ routed[a].reading # 0
              \/ outbound.act = a \/ relay.act = a \/ Contains(relays, a)

\* Where the receipt r is: with an activation, or with a message.
Holders(r) ==
    {<<a, 0>> : a \in {a \in Acts : acts[a].receipt = r}}
    \cup (UNION {{<<b, i>> : i \in {i \in DOMAIN boxes[b].queue : boxes[b].queue[i].receipt = r}} : b \in Boxes})

\* A mailbox has one consumer: an activation it is routed to, or those that wait for
\* it; its messages are taken once, in the order they were sent; and the receipt of a
\* consumed range is in one place, with an activation or with a message.
SoleConsumer ==
    /\ \A a, b \in Acts : routed[a].box = routed[b].box /\ routed[a].box # Nobody => a = b
    /\ \A a, b \in Acts : a # b => routed[a].box \notin waits[b].boxes
    /\ \A b \in Boxes : LET q == boxes[b].queue IN
          ~closed => \A i \in DOMAIN q : q[i].n = boxes[b].sent - Len(q) + i
    /\ \A r \in 1..receipts : \A x, y \in Holders(r) : x = y

\* The ledger of live effects is what is outstanding, no more: also after a
\* cancellation, and after the end of the session.  A relay that waits, waits for an
\* author's turn, never for the platform's answer (#settleEffect, #drainRelay, #write).
LedgerExact ==
    micro = <<>> =>
        /\ ledger = {Effect(t.kind, t.act, t.id) : t \in timers}
              \cup {Effect("wait", a, 0) : a \in {a \in Acts : waits[a].on}}
              \cup {Effect("read", a, 0) : a \in {a \in Acts : routed[a].reading # 0
                                                     \/ (a = Reader /\ receiver # NoReceiver)}}
              \cup {Effect(outbound.kind, outbound.act, 0) : x \in {outbound.kind} \cap {"write", "control"}}
              \cup {Effect("write", outbound.act, 0) : x \in {outbound.kind} \cap {"relay"}}
              \cup {Effect("write-via", relay.act, 0) : x \in {relay.kind} \ {"none"}}
              \cup {Effect("write-via", a, 0) : a \in ToSet(relays)}
        /\ relays # <<>> => \E j \in queue.jobs \cup {queue.job} :
                               j.part = "authorize" /\ j.act = relay.act

\* A turn does not start while an activation that an earlier event made ready is on its
\* way to its own ("Settle those before choosing a turn", ready-queue.ts).
TurnsByReadiness ==
    queue.state = "running" =>
        \A i \in DOMAIN micro :
            micro[i].ok /\ micro[i].act \in Acts /\ acts[micro[i].act].stage = "resuming" /\ acts[micro[i].act].seq # 0
                => acts[micro[i].act].seq > queue.job.seq
=============================================================================
