---------------------------- MODULE ResourceBroker ----------------------------
(***************************************************************************)
(* The broker of the host's resources, as a worker sees it through         *)
(* handle(): ResourceBrokerHost, packages/core/src/resources.ts, with one  *)
(* resource, a source or a sink (two of them share nothing but limits).    *)
(* What a stream is debited is not counted: nothing looks at it.           *)
(*                                                                         *)
(* A call is in flight from its acceptance to the microtask that settles   *)
(* it; a cancel may reach it in between, also when the native call has     *)
(* answered.  A refused request changes nothing and is no step.  An octet  *)
(* of the source is its position.  Identities of calls are unique, and a   *)
(* grant has the number of the call that made it, 0 for none.              *)
(* endOperation, endSession, shutdown and closeResource, which nothing in  *)
(* the repository calls, are left out.                                     *)
(***************************************************************************)
EXTENDS Naturals, FiniteSets

CONSTANTS
    Operations,     \* those that may be granted a resource
    Owner,          \* the one whose scope an operation's resource has
    Nobody,         \* no operation
    Length,         \* octets of the source
    Chunk,          \* maximumResourceChunkBytes
    Extent,         \* maximumBytes of every grant
    MaxGrants       \* bound: grants made

BrokerAssumption ==
    /\ Owner \in Operations /\ Nobody \notin Operations
    /\ Length \in Nat /\ Chunk \in Nat \ {0} /\ Extent \in Nat \ {0} /\ MaxGrants \in Nat

VARIABLES
    scope,      \* "operation" or "session"; of both resources
    source,     \* open, the native position, #bufferedRead and the read grant
    sink,       \* open, written, what it accepted, the write grant
    flight,     \* the call in flight on each of them
    buffered,   \* #currentReadBufferBytes
    known,      \* the numbers of the grants each operation was given
    grants,     \* the number of grants made
    reader      \* what a reader may expect: the next octet, whether that is known

brokerVars == <<scope, source, sink, flight, buffered, known, grants, reader>>

NoChunk == [from |-> 0, size |-> 0, taken |-> 0, eof |-> FALSE, there |-> FALSE]
NoRead == [id |-> 0, op |-> Nobody, streaming |-> FALSE, debit |-> 0, rewound |-> FALSE, offset |-> 0]
NoWrite == [id |-> 0, op |-> Nobody, submitted |-> 0, failed |-> FALSE]
NoCall == [kind |-> "none", by |-> Nobody, max |-> 0, stage |-> "none", cancelled |-> FALSE, chunk |-> NoChunk]

BrokerInit ==
    /\ scope \in {"operation", "session"}
    /\ \E r \in {"source", "sink"} :
          /\ source = [open |-> r = "source", at |-> 0, staged |-> NoChunk, grant |-> NoRead]
          /\ sink = [open |-> r = "sink", written |-> FALSE, accepted |-> 0, grant |-> NoWrite]
    /\ flight = [source |-> NoCall, sink |-> NoCall]
    /\ buffered = 0 /\ known = [o \in Operations |-> {0}] /\ grants = 0
    /\ reader = [next |-> 0, sure |-> TRUE]

Least(a, b) == IF a < b THEN a ELSE b

\* The delegation is not looked at by those who name none.
PassesUnnamed(resource, id) == id \in {0, resource.grant.id}

\* A request must name the grant of the resource, when there is one and only then.
Passes(resource, id) == id = resource.grant.id

\* #callByResource: one call at a time on each.
Idle(r) == flight[r].kind = "none"

Accept(r, call) == flight' = [flight EXCEPT ![r] = call]
Call(kind, by, max, stage) == [NoCall EXCEPT !.kind = kind, !.by = by, !.max = max, !.stage = stage]

May(o, resource) == /\ scope = "operation" => o = Owner
                    /\ resource.open /\ grants < MaxGrants

-----------------------------------------------------------------------------
(* The source.                                                             *)

GrantRead(o, streaming) ==
    /\ Idle("source") /\ May(o, source) /\ source.grant = NoRead
    /\ grants' = grants + 1
    /\ known' = [known EXCEPT ![o] = @ \cup {grants + 1}]
    /\ source' = [source EXCEPT !.grant = [NoRead EXCEPT !.id = grants + 1, !.op = o, !.streaming = streaming]]
    /\ Accept("source", Call("grant", o, 0, "settling"))
    /\ UNCHANGED <<scope, sink, buffered, reader>>

\* An operation's resource is closed with its grant.
ReleaseRead(o) ==
    /\ Idle("source") /\ source.open /\ source.grant.id # 0 /\ source.grant.id \in known[o]
    /\ source' = [source EXCEPT !.grant = NoRead]
    /\ Accept("source", Call("release", o, 0, IF scope = "operation" THEN "closing" ELSE "settling"))
    /\ UNCHANGED <<scope, sink, buffered, known, grants, reader>>

\* A granted read stays within its extent, and only after its rewind; a stream may probe
\* one octet beyond.
WithinGrant(max) ==
    LET g == source.grant
    IN g = NoRead \/ (g.rewound /\ max <= IF g.streaming THEN Extent + 1 - g.offset ELSE Extent - g.debit)

\* #takeBufferedRead: the rest of a staged chunk, or as much of it as was asked for; one
\* that does not say what it took.
TakeAgain(max) ==
    LET s == source.staged
        n == Least(s.size - s.taken, max)
        whole == n = s.size - s.taken
    IN /\ source' = [source EXCEPT !.staged = IF whole THEN NoChunk ELSE s]
       /\ buffered' = IF whole THEN buffered - s.size ELSE buffered
       /\ Accept("source", [Call("read", Nobody, max, "settling") EXCEPT
                               !.chunk = [from |-> s.from + s.taken, size |-> n, taken |-> 0,
                                          eof |-> whole /\ s.eof, there |-> TRUE]])

\* #takeBufferedRead: the rest of a staged chunk, or as much of it as was asked for.
Take(max) ==
    LET s == source.staged
        n == Least(s.size - s.taken, max)
        whole == n = s.size - s.taken
    IN /\ source' = [source EXCEPT !.staged = IF whole THEN NoChunk ELSE [s EXCEPT !.taken = @ + n]]
       /\ buffered' = IF whole THEN buffered - s.size ELSE buffered
       /\ Accept("source", [Call("read", Nobody, max, "settling") EXCEPT
                               !.chunk = [from |-> s.from + s.taken, size |-> n, taken |-> 0,
                                          eof |-> whole /\ s.eof, there |-> TRUE]])

Read(o, id, max) ==
    /\ Idle("source") /\ source.open /\ Passes(source, id) /\ WithinGrant(max)
    /\ \/ source.staged.there /\ Take(max)
       \/ /\ ~source.staged.there
          /\ source' = [source EXCEPT !.grant.debit = IF source.grant = NoRead \/ source.grant.streaming THEN 0 ELSE @ + max]
          /\ buffered' = buffered + max
          /\ Accept("source", Call("read", o, max, "native"))
    /\ UNCHANGED <<scope, sink, known, grants, reader>>

\* The source answers: octets, as many as it likes, or the end.
Read_Answered ==
    /\ flight.source.kind = "read" /\ flight.source.stage = "native"
    /\ LET c == flight.source
           g == source.grant
       IN \E n \in 0..Least(c.max, Length - source.at), eof \in BOOLEAN :
            /\ n = 0 => source.at = Length
            /\ eof => source.at + n = Length
            /\ source' = [source EXCEPT
                   !.at = @ + n,
                   !.grant = IF g = NoRead THEN g
                             ELSE IF g.streaming THEN [g EXCEPT !.offset = @ + n]
                             ELSE [g EXCEPT !.debit = @ - (c.max - n)]]
            /\ Accept("source", [c EXCEPT !.stage = "settling",
                   !.chunk = [from |-> source.at, size |-> n, taken |-> 0, eof |-> eof, there |-> TRUE]])
            /\ buffered' = buffered - c.max
    /\ UNCHANGED <<scope, sink, known, grants, reader>>

\* #stageRead: the chunk of a cancelled read waits for the next read.
Stage(chunk) ==
    /\ source' = [source EXCEPT !.staged = chunk]
    /\ buffered' = buffered + chunk.size
    /\ UNCHANGED reader

\* The octets that it took are gone when a rest of their chunk is still staged.
Unstaged ==
    /\ reader' = [next |-> 0, sure |-> FALSE]
    /\ UNCHANGED <<source, buffered>>

Delivered(chunk) ==
    /\ reader' = [reader EXCEPT !.next = IF reader.sure THEN @ + chunk.size ELSE @]
    /\ UNCHANGED <<source, buffered>>

\* handle() resumes: a cancelled read keeps its chunk, a granted one returns it.
Read_Settled ==
    /\ flight.source.kind = "read" /\ flight.source.stage = "settling"
    /\ LET c == flight.source
       IN \/ c.cancelled /\ source.grant = NoRead /\ ~source.staged.there /\ Stage(c.chunk)
          \/ c.cancelled /\ source.grant = NoRead /\ source.staged.there /\ Unstaged
          \/ (~c.cancelled \/ source.grant # NoRead) /\ Delivered(c.chunk)
    /\ Accept("source", NoCall)
    /\ UNCHANGED <<scope, sink, known, grants>>

Read_Failed ==
    /\ flight.source.kind = "read" /\ flight.source.stage = "native"
    /\ buffered' = buffered - flight.source.max
    /\ reader' = [next |-> 0, sure |-> FALSE]
    /\ Accept("source", NoCall)
    /\ UNCHANGED <<scope, source, sink, known, grants>>

\* #discardBufferedRead
Discard == buffered' = buffered - source.staged.size

\* A bounded grant has exactly one rewind; a stream goes anywhere in its extent.
Seek(o, id, to) ==
    /\ Idle("source") /\ source.open /\ Passes(source, id)
    /\ LET g == source.grant
       IN \/ g = NoRead
          \/ g # NoRead /\ g.streaming /\ to <= Extent
          \/ g # NoRead /\ ~g.streaming /\ to = 0 /\ ~g.rewound
    /\ Discard
    /\ source' = [source EXCEPT !.staged = NoChunk]
    /\ Accept("source", Call("seek", o, to, "native"))
    /\ UNCHANGED <<scope, sink, known, grants, reader>>

Seek_Answered ==
    /\ flight.source.kind = "seek" /\ flight.source.stage = "native"
    /\ LET to == flight.source.max
           g == source.grant
       IN \/ /\ to <= Length
             /\ source' = [source EXCEPT !.at = to,
                    !.grant = IF g = NoRead THEN g
                              ELSE [g EXCEPT !.rewound = TRUE, !.offset = IF g.streaming THEN to ELSE @]]
             /\ reader' = [next |-> to, sure |-> TRUE]
          \/ reader' = [next |-> 0, sure |-> FALSE] /\ UNCHANGED source      \* it failed
    /\ Accept("source", NoCall)
    /\ UNCHANGED <<scope, sink, buffered, known, grants>>

-----------------------------------------------------------------------------
(* The sink.                                                               *)

\* Streamed output wants a fresh destination, and once.
GrantWrite(o) ==
    /\ Idle("sink") /\ May(o, sink) /\ ~sink.written /\ sink.grant = NoWrite
    /\ grants' = grants + 1
    /\ known' = [known EXCEPT ![o] = @ \cup {grants + 1}]
    /\ sink' = [sink EXCEPT !.grant = [NoWrite EXCEPT !.id = grants + 1, !.op = o]]
    /\ Accept("sink", Call("grant", o, 0, "settling"))
    /\ UNCHANGED <<scope, source, buffered, reader>>

\* What is submitted is never refunded.
Write(o, id, size) ==
    /\ Idle("sink") /\ sink.open /\ Passes(sink, id)
    /\ sink.grant # NoWrite => ~sink.grant.failed /\ size <= Extent - sink.grant.submitted
    /\ sink' = [sink EXCEPT !.written = TRUE,
                            !.grant.submitted = IF sink.grant = NoWrite THEN 0 ELSE @ + size]
    /\ Accept("sink", Call("write", o, size, "native"))
    /\ UNCHANGED <<scope, source, buffered, known, grants, reader>>

\* Some of it was accepted, perhaps: nobody knows, and the grant is spent.
Write_Failed(accepted) ==
    sink' = [sink EXCEPT !.accepted = IF sink.grant = NoWrite THEN @ ELSE @ + accepted,
                         !.grant.failed = sink.grant # NoWrite]

\* (Only what is written under a grant is counted.)
Write_Answered ==
    /\ flight.sink.kind = "write"
    /\ \/ sink' = [sink EXCEPT !.accepted = IF sink.grant = NoWrite THEN @ ELSE @ + flight.sink.max]
       \/ \E accepted \in 0..(flight.sink.max - 1) : Write_Failed(accepted)
    /\ Accept("sink", NoCall)
    /\ UNCHANGED <<scope, source, buffered, known, grants, reader>>

-----------------------------------------------------------------------------
(* Both.                                                                   *)

Settled(r) ==
    /\ flight[r].kind \in {"grant", "release"} /\ flight[r].stage = "settling"
    /\ Accept(r, NoCall)
    /\ UNCHANGED <<scope, source, sink, buffered, known, grants, reader>>

CloseSource(o, id) ==
    /\ Idle("source") /\ source.open /\ Passes(source, id)
    /\ Accept("source", Call("close", o, 0, "closing"))
    /\ UNCHANGED <<scope, source, sink, buffered, known, grants, reader>>

\* A write grant is not looked at.
CloseSink(o) ==
    /\ Idle("sink") /\ sink.open
    /\ Accept("sink", Call("close", o, 0, "closing"))
    /\ UNCHANGED <<scope, source, sink, buffered, known, grants, reader>>

\* #closeEntry, when the native close has settled; a failed one leaves the resource open.
Close_Answered(r) ==
    /\ flight[r].stage = "closing"
    /\ \/ UNCHANGED <<source, sink, buffered>>
       \/ r = "source" /\ Discard /\ UNCHANGED sink
          /\ source' = [source EXCEPT !.open = FALSE, !.staged = NoChunk]
       \/ r = "sink" /\ sink' = [sink EXCEPT !.open = FALSE] /\ UNCHANGED <<source, buffered>>
    /\ Accept(r, NoCall)
    /\ UNCHANGED <<scope, known, grants, reader>>

\* #cancel: anyone may, at any time before the call settles.
Cancel(r) ==
    /\ ~Idle(r) /\ ~flight[r].cancelled
    /\ flight' = [flight EXCEPT ![r].cancelled = TRUE]
    /\ UNCHANGED <<scope, source, sink, buffered, known, grants, reader>>

BrokerNext ==
    \/ \E o \in Operations :
          \/ \E streaming \in BOOLEAN : GrantRead(o, streaming)
          \/ ReleaseRead(o) \/ GrantWrite(o)
          \/ \E id \in known[o] :
                \/ \E n \in 1..Chunk : Read(o, id, n) \/ Write(o, id, n)
                \/ \E to \in 0..Length : Seek(o, id, to)
                \/ CloseSource(o, id)
          \/ CloseSink(o)
    \/ Read_Answered \/ Read_Settled \/ Read_Failed \/ Seek_Answered \/ Write_Answered
    \/ \E r \in {"source", "sink"} : Settled(r) \/ Close_Answered(r) \/ Cancel(r)

BrokerSpec == BrokerInit /\ [][BrokerNext]_brokerVars

-----------------------------------------------------------------------------
\* Reading is exact under cancellation: the next octet a reader gets is the one after the
\* last it got, or where it sought to, whether it comes from the source, from a chunk that
\* a cancelled read left behind, whole or in parts, or is on its way; and the end is told
\* only at the end.  (Not so when the cancelled read had itself taken a part of a staged
\* chunk: what it took is gone.)  The octets counted as buffered are those that are.
ReadsExact ==
    LET c == flight.source
        reading == c.kind = "read" /\ c.stage = "settling"
        next == IF reading THEN c.chunk.from
                ELSE IF source.staged.there THEN source.staged.from + source.staged.taken ELSE source.at
    IN /\ source.open /\ reader.sure /\ c.kind # "seek" => next = reader.next
       /\ reading /\ c.chunk.eof => c.chunk.from + c.chunk.size = Length
       /\ buffered = source.staged.size + (IF c.kind = "read" /\ c.stage = "native" THEN c.max ELSE 0)

\* A delegation is exclusive and bounded: while an operation holds a grant no call of
\* anybody else moves, reads, writes or closes the source, an earlier call that settles
\* late included, and none is served from a chunk staged before it; what a bounded grant
\* read is debited, within its extent; and what a sink accepted under a grant, refused,
\* failed and partial writes included, stays within what was submitted, which stays within
\* the extent and ends with the first failure.
DelegationConfined ==
    /\ source.grant.id # 0 =>
          /\ flight.source.kind \in {"read", "seek", "close"} => flight.source.by = source.grant.op
          /\ source.grant.rewound => ~source.staged.there
          /\ ~source.grant.streaming => /\ source.grant.debit <= Extent
                                        /\ source.grant.rewound => source.at <= source.grant.debit
          /\ source.grant.streaming /\ source.grant.rewound => source.grant.offset = source.at
    /\ /\ sink.accepted + (IF flight.sink.kind = "write" /\ sink.grant # NoWrite THEN flight.sink.max ELSE 0)
            <= sink.grant.submitted
       /\ sink.grant.submitted <= Extent
       /\ sink.grant # NoWrite /\ ~sink.grant.failed /\ Idle("sink") => sink.accepted = sink.grant.submitted
=============================================================================
