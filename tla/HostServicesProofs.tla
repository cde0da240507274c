------------------------- MODULE HostServicesProofs -------------------------
(***************************************************************************)
(* Proofs about the services a session uses: the broker of resources, for  *)
(* any operations, source, chunk and extent; and its scheduled work, which *)
(* takes its proofs from PollServiceProofs.                                *)
(***************************************************************************)
EXTENDS HostServicesMC, TLAPS

-----------------------------------------------------------------------------
(* The resource broker.                                                    *)

\* The values the broker's records range over.
Parties == Operations \cup {Nobody}
Chunks == [from : Nat, size : Nat, taken : Nat, eof : BOOLEAN, there : BOOLEAN]
ReadGrants == [id : Nat, op : Parties, streaming : BOOLEAN, debit : Nat, rewound : BOOLEAN, offset : Nat]
Sources == [open : BOOLEAN, at : 0..Length, staged : Chunks, grant : ReadGrants]
Readers == [next : Nat, sure : BOOLEAN]
WriteGrants == [id : Nat, op : Parties, submitted : Nat, failed : BOOLEAN]
Sinks == [open : BOOLEAN, written : BOOLEAN, accepted : Nat, grant : WriteGrants]
BrokerCalls == [kind : {"none", "grant", "release", "read", "seek", "write", "close"}, by : Parties,
                max : Nat, stage : {"none", "native", "settling", "closing"}, cancelled : BOOLEAN, chunk : Chunks]

\* The values of the broker's variables.
BrokerTypeOK ==
    /\ scope \in {"operation", "session"}
    /\ source \in Sources /\ sink \in Sinks
    /\ flight \in [source : BrokerCalls, sink : BrokerCalls]
    /\ buffered \in Int /\ grants \in Nat
    /\ known \in [Operations -> SUBSET (0..grants)]
    /\ reader \in Readers

\* The number of a grant is known to one operation only.
GrantsAreOnes ==
    \A o, p \in Operations : \A i \in known[o] \cap known[p] : i = 0 \/ o = p

\* A call on the source, at each of its stages.
CallInv(c, s) ==
    /\ c.kind = "none" => c = Br!NoCall
    /\ c.stage = "native" => c.kind \in {"read", "seek"}
    /\ c.stage = "closing" => c.kind \in {"close", "release"}
    /\ c.kind = "read" /\ c.stage # "settling" => c.stage = "native" /\ ~s.staged.there
    /\ c.kind = "read" /\ c.stage = "settling" =>
          /\ c.chunk.there /\ c.chunk.taken = 0
          /\ c.chunk.eof => c.chunk.from + c.chunk.size = Length
          /\ c.chunk.from + c.chunk.size = IF s.staged.there THEN s.staged.from + s.staged.taken ELSE s.at
    /\ c.kind = "seek" => ~s.staged.there

\* The chunk that waits for the next read ends where the source stands.
StagedInv(s) ==
    /\ ~s.staged.there => s.staged = Br!NoChunk
    /\ s.staged.there => /\ s.staged.taken <= s.staged.size
                         /\ s.staged.from + s.staged.size = s.at
                         /\ s.staged.eof => s.at = Length

\* What a read grant was debited, and the call under it.
ReadGrantInv(g, s, c) ==
    /\ g.id = 0 => g = Br!NoRead
    /\ g.id # 0 =>
          /\ g.op \in Operations /\ g.id \in known[g.op]
          /\ c.kind \in {"read", "seek", "close"} => c.by = g.op
          /\ c.kind = "read" => g.rewound
          /\ g.rewound => ~s.staged.there
          /\ ~g.streaming => /\ g.debit <= Extent
                             /\ c.kind = "seek" => c.max = 0
                             /\ g.rewound => s.at + (IF c.kind = "read" /\ c.stage = "native" THEN c.max ELSE 0) <= g.debit
          /\ g.streaming /\ g.rewound => g.offset = s.at

\* What was accepted under a write grant, and the write under way.
SinkInv(s, c) ==
    /\ s.grant.id = 0 => s.grant = Br!NoWrite /\ s.accepted = 0
    /\ s.grant.id # 0 => s.grant.submitted <= Extent
    /\ s.grant.failed => c.kind # "write" /\ s.accepted <= s.grant.submitted
    /\ s.grant.id # 0 /\ ~s.grant.failed =>
          s.accepted + (IF c.kind = "write" THEN c.max ELSE 0) = s.grant.submitted
    /\ c.kind = "write" => c.stage = "native"

\* Br!ReadsExact, of a call, the source, the count of buffered octets and the reader.
Exact(c, s, b, r) ==
    LET settling == c.kind = "read" /\ c.stage = "settling"
        next == IF settling THEN c.chunk.from
                ELSE IF s.staged.there THEN s.staged.from + s.staged.taken ELSE s.at
    IN /\ s.open /\ r.sure /\ c.kind # "seek" => next = r.next
       /\ settling /\ c.chunk.eof => c.chunk.from + c.chunk.size = Length
       /\ b = s.staged.size + (IF c.kind = "read" /\ c.stage = "native" THEN c.max ELSE 0)

\* The inductive invariant of the broker.
BrokerInv ==
    /\ BrokerTypeOK /\ GrantsAreOnes
    /\ CallInv(flight.source, source) /\ StagedInv(source)
    /\ ReadGrantInv(source.grant, source, flight.source)
    /\ SinkInv(sink, flight.sink)
    /\ Exact(flight.source, source, buffered, reader)

\* What the assumptions say of the broker's constants.
LEMMA BrokerSizes ==
    /\ Length \in Nat /\ Chunk \in Nat /\ Chunk > 0 /\ Extent \in Nat /\ Extent > 0
    /\ Owner \in Operations /\ Nobody \notin Operations
BY ServicesAssumption DEF Br!BrokerAssumption

\* The records that stand for nothing are well typed and say nothing.
LEMMA NothingIs ==
    /\ Br!NoChunk \in Chunks /\ Br!NoChunk.from = 0 /\ Br!NoChunk.size = 0 /\ Br!NoChunk.taken = 0
    /\ ~Br!NoChunk.there
    /\ Br!NoRead \in ReadGrants /\ Br!NoRead.id = 0 /\ ~Br!NoRead.rewound
    /\ Br!NoWrite \in WriteGrants /\ Br!NoWrite.id = 0 /\ Br!NoWrite.submitted = 0 /\ ~Br!NoWrite.failed
    /\ Br!NoCall \in BrokerCalls /\ Br!NoCall.kind = "none" /\ Br!NoCall.stage = "none"
    /\ Br!NoCall.max = 0 /\ Br!NoCall.by = Nobody /\ ~Br!NoCall.cancelled
<1>1. Br!NoChunk \in Chunks
  BY DEF Br!NoChunk, Chunks
<1>. QED
  BY <1>1 DEF Br!NoChunk, Br!NoRead, Br!NoWrite, Br!NoCall, ReadGrants, WriteGrants, BrokerCalls, Parties

\* A call as it is accepted, well typed.
LEMMA CallIs ==
    ASSUME NEW k \in {"none", "grant", "release", "read", "seek", "write", "close"}, NEW o \in Parties,
           NEW m \in Nat, NEW st \in {"none", "native", "settling", "closing"}
    PROVE  \E c \in BrokerCalls : /\ c = Br!Call(k, o, m, st)
                                  /\ c.kind = k /\ c.by = o /\ c.max = m /\ c.stage = st /\ ~c.cancelled
<1>. PICK c : c = Br!Call(k, o, m, st)
  OBVIOUS
<1>1. PICK n : n = Br!NoChunk
  OBVIOUS
<1>2. n \in Chunks
  BY <1>1, NothingIs
<1>3. c = [kind |-> k, by |-> o, max |-> m, stage |-> st, cancelled |-> FALSE, chunk |-> n]
  BY <1>1 DEF Br!Call, Br!NoCall
<1>4. c \in BrokerCalls
  BY <1>2, <1>3 DEF BrokerCalls
<1>5. /\ c.kind = k /\ c.by = o /\ c.max = m /\ c.stage = st /\ ~c.cancelled
  BY <1>3
<1>. QED BY <1>4, <1>5

\* Acceptance replaces one of the two calls in flight.
LEMMA AcceptedIs ==
    ASSUME flight \in [source : BrokerCalls, sink : BrokerCalls], NEW c \in BrokerCalls,
           NEW r \in {"source", "sink"}, Br!Accept(r, c)
    PROVE  /\ flight' \in [source : BrokerCalls, sink : BrokerCalls]
           /\ flight'.source = IF r = "source" THEN c ELSE flight.source
           /\ flight'.sink = IF r = "source" THEN flight.sink ELSE c
BY DEF Br!Accept

\* A step on the source.
LEMMA SourceGoes ==
    ASSUME BrokerInv, UNCHANGED <<scope, sink, known, grants>>,
           NEW c \in BrokerCalls, Br!Accept("source", c),
           NEW s \in Sources, source' = s, buffered' \in Int, NEW r \in Readers, reader' = r,
           CallInv(c, s), StagedInv(s), ReadGrantInv(s.grant, s, c), Exact(c, s, buffered', r)
    PROVE  BrokerInv'
<1>1. /\ flight' \in [source : BrokerCalls, sink : BrokerCalls]
      /\ flight'.source = c /\ flight'.sink = flight.sink
  BY AcceptedIs DEF BrokerInv, BrokerTypeOK
<1>2. BrokerTypeOK' /\ GrantsAreOnes'
  BY <1>1 DEF BrokerInv, BrokerTypeOK, GrantsAreOnes
<1>3. CallInv(flight.source, source)' /\ StagedInv(source)' /\ SinkInv(sink, flight.sink)'
  BY <1>1 DEF BrokerInv, CallInv, StagedInv, SinkInv
<1>4. ReadGrantInv(source.grant, source, flight.source)' /\ Exact(flight.source, source, buffered, reader)'
  BY <1>1 DEF ReadGrantInv, Exact
<1>. QED BY <1>2, <1>3, <1>4 DEF BrokerInv

\* A step on the sink.
LEMMA SinkGoes ==
    ASSUME BrokerInv, UNCHANGED <<scope, source, buffered, known, grants, reader>>,
           NEW c \in BrokerCalls, Br!Accept("sink", c), NEW s \in Sinks, sink' = s, SinkInv(s, c)
    PROVE  BrokerInv'
<1>1. /\ flight' \in [source : BrokerCalls, sink : BrokerCalls]
      /\ flight'.source = flight.source /\ flight'.sink = c
  BY AcceptedIs DEF BrokerInv, BrokerTypeOK
<1>2. BrokerTypeOK' /\ GrantsAreOnes'
  BY <1>1 DEF BrokerInv, BrokerTypeOK, GrantsAreOnes
<1>3. CallInv(flight.source, source)' /\ StagedInv(source)' /\ SinkInv(sink, flight.sink)'
  BY <1>1 DEF BrokerInv, CallInv, StagedInv, SinkInv
<1>4. ReadGrantInv(source.grant, source, flight.source)' /\ Exact(flight.source, source, buffered, reader)'
  BY <1>1 DEF BrokerInv, ReadGrantInv, Exact
<1>. QED BY <1>2, <1>3, <1>4 DEF BrokerInv

\* A step that makes a grant, whose number is new.
LEMMA GrantIsNew ==
    ASSUME BrokerInv, NEW o \in Operations, grants' = grants + 1,
           known' = [known EXCEPT ![o] = @ \cup {grants + 1}]
    PROVE  /\ grants' \in Nat /\ known' \in [Operations -> SUBSET (0..grants')] /\ GrantsAreOnes'
           /\ \A p \in Operations : known[p] \subseteq known'[p]
           /\ grants + 1 \in known'[o]
<1>1. grants \in Nat /\ known \in [Operations -> SUBSET (0..grants)]
  BY DEF BrokerInv, BrokerTypeOK
<1>2. \A p \in Operations : known'[p] = IF p = o THEN known[p] \cup {grants + 1} ELSE known[p]
  BY <1>1
<1>3. \A p \in Operations : grants + 1 \notin known[p]
  BY <1>1
<1>4. GrantsAreOnes'
  BY <1>2, <1>3 DEF BrokerInv, GrantsAreOnes
<1>5. 0..grants \subseteq 0..(grants + 1) /\ grants + 1 \in 0..(grants + 1)
  BY <1>1
<1>6. known' \in [Operations -> SUBSET (0..grants')]
  BY <1>1, <1>5
<1>. QED BY <1>1, <1>2, <1>4, <1>6

\* What the facts about the source amount to, for the call in hand.
LEMMA SourceFacts ==
    ASSUME BrokerInv
    PROVE  \E s \in Sources, c \in BrokerCalls, r \in Readers :
              /\ source = s /\ flight.source = c /\ reader = r /\ buffered \in Int
              /\ CallInv(c, s) /\ StagedInv(s) /\ ReadGrantInv(s.grant, s, c) /\ Exact(c, s, buffered, r)
BY DEF BrokerInv, BrokerTypeOK

\* The types of a source's fields.
LEMMA SourceIs ==
    ASSUME NEW s \in Sources
    PROVE  /\ s.open \in BOOLEAN /\ s.at \in Nat /\ s.at <= Length /\ s.staged \in Chunks /\ s.grant \in ReadGrants
           /\ s.staged.from \in Nat /\ s.staged.size \in Nat /\ s.staged.taken \in Nat
           /\ s.staged.eof \in BOOLEAN /\ s.staged.there \in BOOLEAN
           /\ s.grant.id \in Nat /\ s.grant.debit \in Nat /\ s.grant.offset \in Nat
           /\ s.grant.streaming \in BOOLEAN /\ s.grant.rewound \in BOOLEAN
BY BrokerSizes DEF Sources, Chunks, ReadGrants

\* The types of a call's fields.
LEMMA CallTypes ==
    ASSUME NEW c \in BrokerCalls
    PROVE  /\ c.max \in Nat /\ c.by \in Parties /\ c.cancelled \in BOOLEAN /\ c.chunk \in Chunks
           /\ c.chunk.from \in Nat /\ c.chunk.size \in Nat /\ c.chunk.taken \in Nat
           /\ c.chunk.eof \in BOOLEAN /\ c.chunk.there \in BOOLEAN
BY DEF BrokerCalls, Chunks

\* A read grant: its number is new, and nobody else's call is in flight.
LEMMA GrantReadKeeps ==
    ASSUME BrokerInv, NEW o \in Operations, NEW streaming \in BOOLEAN, Br!GrantRead(o, streaming)
    PROVE  BrokerInv'
<1>1. PICK s \in Sources, c \in BrokerCalls, r \in Readers :
              /\ source = s /\ flight.source = c /\ reader = r /\ buffered \in Int
              /\ CallInv(c, s) /\ StagedInv(s) /\ ReadGrantInv(s.grant, s, c) /\ Exact(c, s, buffered, r)
  BY SourceFacts
<1>2. /\ c.kind = "none" /\ s.grant = Br!NoRead /\ grants' = grants + 1
      /\ known' = [known EXCEPT ![o] = @ \cup {grants + 1}]
      /\ source' = [s EXCEPT !.grant = [Br!NoRead EXCEPT !.id = grants + 1, !.op = o, !.streaming = streaming]]
      /\ Br!Accept("source", Br!Call("grant", o, 0, "settling"))
      /\ UNCHANGED <<scope, sink, buffered, reader>>
  BY <1>1 DEF Br!GrantRead, Br!Idle
<1>3. /\ grants' \in Nat /\ known' \in [Operations -> SUBSET (0..grants')] /\ GrantsAreOnes'
      /\ grants + 1 \in known'[o] /\ grants \in Nat
  BY <1>2, GrantIsNew DEF BrokerInv, BrokerTypeOK
<1>4. PICK g : g = [Br!NoRead EXCEPT !.id = grants + 1, !.op = o, !.streaming = streaming]
  OBVIOUS
<1>5. /\ g \in ReadGrants /\ g.id = grants + 1 /\ g.op = o /\ g.streaming = streaming
      /\ g.debit = 0 /\ ~g.rewound
  <2>1. g = [id |-> grants + 1, op |-> o, streaming |-> streaming, debit |-> 0, rewound |-> FALSE, offset |-> 0]
    BY <1>4 DEF Br!NoRead
  <2>. QED BY <2>1, <1>3 DEF ReadGrants, Parties
<1>6. PICK t : t = [s EXCEPT !.grant = g]
  OBVIOUS
<1>7. /\ t \in Sources /\ source' = t /\ t.grant = g /\ t.open = s.open /\ t.at = s.at /\ t.staged = s.staged
  BY <1>2, <1>4, <1>5, <1>6 DEF Sources
<1>8. PICK d \in BrokerCalls : /\ d = Br!Call("grant", o, 0, "settling")
                               /\ d.kind = "grant" /\ d.by = o /\ d.stage = "settling"
  BY CallIs DEF Parties
<1>9. /\ flight' \in [source : BrokerCalls, sink : BrokerCalls]
      /\ flight'.source = d /\ flight'.sink = flight.sink
  BY <1>2, <1>8, AcceptedIs DEF BrokerInv, BrokerTypeOK
<1>10. CallInv(d, t) /\ StagedInv(t) /\ Exact(d, t, buffered, r)
  BY <1>1, <1>2, <1>7, <1>8 DEF CallInv, StagedInv, Exact
<1>11. ReadGrantInv(source.grant, source, flight.source)'
  BY <1>3, <1>5, <1>7, <1>8, <1>9, BrokerSizes DEF ReadGrantInv
<1>12. BrokerTypeOK'
  BY <1>2, <1>3, <1>7, <1>9 DEF BrokerInv, BrokerTypeOK
<1>13. CallInv(flight.source, source)' /\ StagedInv(source)' /\ Exact(flight.source, source, buffered, reader)'
  BY <1>1, <1>2, <1>7, <1>9, <1>10 DEF CallInv, StagedInv, Exact
<1>14. SinkInv(sink, flight.sink)'
  BY <1>2, <1>9 DEF BrokerInv, SinkInv
<1>. QED BY <1>3, <1>11, <1>12, <1>13, <1>14 DEF BrokerInv

\* A release ends the grant; nothing else changes until its call settles.
LEMMA ReleaseReadKeeps ==
    ASSUME BrokerInv, NEW o \in Operations, Br!ReleaseRead(o) PROVE BrokerInv'
<1>1. PICK s \in Sources, c \in BrokerCalls, r \in Readers :
              /\ source = s /\ flight.source = c /\ reader = r /\ buffered \in Int
              /\ CallInv(c, s) /\ StagedInv(s) /\ ReadGrantInv(s.grant, s, c) /\ Exact(c, s, buffered, r)
  BY SourceFacts
<1>2. /\ c.kind = "none" /\ source' = [s EXCEPT !.grant = Br!NoRead]
      /\ Br!Accept("source", Br!Call("release", o, 0, IF scope = "operation" THEN "closing" ELSE "settling"))
      /\ UNCHANGED <<scope, sink, buffered, known, grants, reader>>
  BY <1>1 DEF Br!ReleaseRead, Br!Idle
<1>3. PICK st \in {"closing", "settling"} : st = IF scope = "operation" THEN "closing" ELSE "settling"
  OBVIOUS
<1>4. PICK d \in BrokerCalls : d = Br!Call("release", o, 0, st) /\ d.kind = "release" /\ d.by = o /\ d.stage = st
  BY <1>3, CallIs DEF Parties
<1>5. PICK t : t = [s EXCEPT !.grant = Br!NoRead]
  OBVIOUS
<1>6. t \in Sources /\ t.grant = Br!NoRead /\ t.open = s.open /\ t.at = s.at /\ t.staged = s.staged
  BY <1>5, NothingIs DEF Sources
<1>7. CallInv(d, t) /\ StagedInv(t) /\ Exact(d, t, buffered, r)
  BY <1>1, <1>2, <1>3, <1>4, <1>6 DEF CallInv, StagedInv, Exact
<1>8. ReadGrantInv(t.grant, t, d)
  BY <1>6, NothingIs DEF ReadGrantInv
<1>. QED BY <1>1, <1>2, <1>3, <1>4, <1>5, <1>6, <1>7, <1>8, SourceGoes

\* A read served from a staged chunk, which only an ungranted reader has.
LEMMA TakeKeeps ==
    ASSUME BrokerInv, NEW o \in Operations, NEW id, NEW max \in 1..Chunk,
           Br!Read(o, id, max), source.staged.there, Br!Take(max)
    PROVE  BrokerInv'
<1>1. PICK s \in Sources, c \in BrokerCalls, r \in Readers :
              /\ source = s /\ flight.source = c /\ reader = r /\ buffered \in Int
              /\ CallInv(c, s) /\ StagedInv(s) /\ ReadGrantInv(s.grant, s, c) /\ Exact(c, s, buffered, r)
  BY SourceFacts
<1>2. PICK a : a = s.staged
  OBVIOUS
<1>3. /\ a.from \in Nat /\ a.size \in Nat /\ a.taken \in Nat /\ a.eof \in BOOLEAN /\ a.there
      /\ a.taken <= a.size /\ a \in Chunks /\ s.at = a.from + a.size /\ (a.eof => s.at = Length)
      /\ s.at \in Nat /\ max \in Nat
  BY <1>1, <1>2, SourceIs DEF StagedInv
<1>4. PICK n : n = Br!Least(a.size - a.taken, max)
  OBVIOUS
<1>5. n \in Nat /\ n <= a.size - a.taken
  BY <1>3, <1>4 DEF Br!Least
<1>6. PICK whole \in BOOLEAN : whole <=> n = a.size - a.taken
  OBVIOUS
<1>7. PICK left : left = IF whole THEN Br!NoChunk ELSE [a EXCEPT !.taken = @ + n]
  OBVIOUS
<1>8. /\ left \in Chunks
      /\ whole => left = Br!NoChunk
      /\ ~whole => /\ left.from = a.from /\ left.size = a.size /\ left.taken = a.taken + n
                   /\ left.eof = a.eof /\ left.there
  BY <1>3, <1>5, <1>7, NothingIs DEF Chunks
<1>9. PICK k : k = [from |-> a.from + a.taken, size |-> n, taken |-> 0, eof |-> whole /\ a.eof, there |-> TRUE]
  OBVIOUS
<1>10. /\ k \in Chunks /\ k.from = a.from + a.taken /\ k.size = n /\ k.taken = 0 /\ k.there
       /\ k.eof => whole /\ a.eof
  BY <1>3, <1>5, <1>9 DEF Chunks
<1>11. PICK d0 \in BrokerCalls : /\ d0 = Br!Call("read", Nobody, max, "settling")
                                 /\ d0.kind = "read" /\ d0.by = Nobody /\ d0.max = max /\ d0.stage = "settling"
  <2>1. Nobody \in Parties /\ max \in Nat
    BY <1>3 DEF Parties
  <2>. QED BY <2>1, CallIs
<1>12. PICK d : d = [d0 EXCEPT !.chunk = k]
  OBVIOUS
<1>13. d \in BrokerCalls /\ d.kind = "read" /\ d.stage = "settling" /\ d.chunk = k /\ d.by = Nobody
  BY <1>10, <1>11, <1>12 DEF BrokerCalls
<1>14. PICK t : t = [s EXCEPT !.staged = left]
  OBVIOUS
<1>15. t \in Sources /\ t.grant = s.grant /\ t.open = s.open /\ t.at = s.at /\ t.staged = left
  BY <1>8, <1>14 DEF Sources
<1>16. /\ c.kind = "none" /\ source' = t /\ Br!Accept("source", d)
       /\ buffered' = IF whole THEN buffered - a.size ELSE buffered
       /\ UNCHANGED <<scope, sink, known, grants, reader>>
  BY <1>1, <1>2, <1>4, <1>6, <1>7, <1>9, <1>11, <1>12, <1>14 DEF Br!Read, Br!Take, Br!Idle
<1>17. s.grant.id = 0
  BY <1>1, <1>2, <1>3, NothingIs DEF Br!Read, Br!WithinGrant, ReadGrantInv
<1>18. CallInv(d, t) /\ StagedInv(t)
  <2>1. /\ k.eof => a.from + a.taken + n = Length
        /\ k.from + k.size = IF left.there THEN left.from + left.taken ELSE s.at
    BY <1>3, <1>5, <1>6, <1>8, <1>10, NothingIs
  <2>2. CallInv(d, t)
    BY <2>1, <1>3, <1>10, <1>13, <1>15 DEF CallInv
  <2>3. StagedInv(t)
    BY <1>3, <1>5, <1>6, <1>8, <1>15, NothingIs DEF StagedInv
  <2>. QED BY <2>2, <2>3
<1>19. ReadGrantInv(t.grant, t, d)
  BY <1>1, <1>15, <1>17 DEF ReadGrantInv
<1>20. Exact(d, t, buffered', r) /\ buffered' \in Int
  <2>1. /\ s.open /\ r.sure => a.from + a.taken = r.next
        /\ buffered = a.size /\ buffered \in Int
    BY <1>1, <1>2, <1>3, <1>16 DEF Exact
  <2>2. k.eof => k.from + k.size = Length
    BY <1>3, <1>5, <1>6, <1>10
  <2>3. buffered' = left.size /\ buffered' \in Int
    BY <2>1, <1>3, <1>8, <1>16, NothingIs
  <2>. QED BY <2>1, <2>2, <2>3, <1>8, <1>10, <1>13, <1>15, NothingIs DEF Exact, Chunks
<1>. QED BY <1>1, <1>13, <1>15, <1>16, <1>18, <1>19, <1>20, SourceGoes

\* A read that asks the source: it is debited, within the extent, before it is made.
LEMMA NativeReadKeeps ==
    ASSUME BrokerInv, NEW o \in Operations, NEW id \in known[o], NEW max \in 1..Chunk,
           Br!Read(o, id, max), ~source.staged.there
    PROVE  BrokerInv'
<1>1. PICK s \in Sources, c \in BrokerCalls, r \in Readers :
              /\ source = s /\ flight.source = c /\ reader = r /\ buffered \in Int
              /\ CallInv(c, s) /\ StagedInv(s) /\ ReadGrantInv(s.grant, s, c) /\ Exact(c, s, buffered, r)
  BY SourceFacts
<1>2. PICK g : g = s.grant
  OBVIOUS
<1>3. /\ g \in ReadGrants /\ g.id \in Nat /\ g.debit \in Nat /\ g.offset \in Nat
      /\ g.streaming \in BOOLEAN /\ g.rewound \in BOOLEAN /\ s.at \in Nat /\ max \in Nat /\ buffered \in Int
  BY <1>1, <1>2, SourceIs
<1>4. PICK debit : debit = IF g = Br!NoRead \/ g.streaming THEN 0 ELSE g.debit + max
  OBVIOUS
<1>5. PICK h : h = [g EXCEPT !.debit = debit]
  OBVIOUS
<1>6. /\ debit \in Nat /\ h \in ReadGrants /\ h.id = g.id /\ h.op = g.op /\ h.debit = debit
      /\ h.offset = g.offset /\ h.streaming = g.streaming /\ h.rewound = g.rewound
  BY <1>3, <1>4, <1>5 DEF ReadGrants
<1>7. PICK t : t = [s EXCEPT !.grant = h]
  OBVIOUS
<1>8. t \in Sources /\ t.grant = h /\ t.open = s.open /\ t.at = s.at /\ t.staged = s.staged
  BY <1>6, <1>7 DEF Sources
<1>9. o \in Parties /\ max \in Nat
  BY <1>3 DEF Parties
<1>10. PICK d \in BrokerCalls : /\ d = Br!Call("read", o, max, "native")
                                /\ d.kind = "read" /\ d.by = o /\ d.max = max /\ d.stage = "native"
  BY <1>9, CallIs
<1>11. /\ c.kind = "none" /\ source' = t /\ Br!Accept("source", d) /\ buffered' = buffered + max
       /\ UNCHANGED <<scope, sink, known, grants, reader>> /\ ~s.staged.there
  BY <1>1, <1>2, <1>4, <1>5, <1>7, <1>10 DEF Br!Read, Br!Idle
<1>12. /\ g.id # 0 => /\ g.rewound /\ id = g.id
                      /\ max <= IF g.streaming THEN Extent + 1 - g.offset ELSE Extent - g.debit
       /\ g.id = 0 => g = Br!NoRead
  BY <1>1, <1>2, NothingIs DEF Br!Read, Br!Passes, Br!WithinGrant, ReadGrantInv
<1>13. CallInv(d, t) /\ StagedInv(t)
  BY <1>1, <1>8, <1>10, <1>11 DEF CallInv, StagedInv
<1>14. CASE g.id = 0
  <2>1. h = Br!NoRead
    <3>1. g = [id |-> 0, op |-> Nobody, streaming |-> FALSE, debit |-> 0, rewound |-> FALSE, offset |-> 0]
      BY <1>12, <1>14 DEF Br!NoRead
    <3>2. debit = 0
      BY <1>4, <1>12, <1>14
    <3>3. h = [id |-> 0, op |-> Nobody, streaming |-> FALSE, debit |-> 0, rewound |-> FALSE, offset |-> 0]
      BY <1>5, <3>1, <3>2
    <3>. QED BY <3>3 DEF Br!NoRead
  <2>2. ReadGrantInv(t.grant, t, d)
    BY <2>1, <1>8, NothingIs DEF ReadGrantInv
  <2>. QED BY <2>2, <1>1, <1>3, <1>8, <1>10, <1>11, <1>13, SourceGoes DEF Exact, StagedInv, Br!NoChunk
<1>15. CASE g.id # 0
  <2>1. o = g.op /\ g.op \in Operations /\ g.id \in known[g.op]
    BY <1>1, <1>2, <1>12, <1>15 DEF ReadGrantInv, BrokerInv, GrantsAreOnes
  <2>2. /\ g.rewound /\ ~s.staged.there
        /\ ~g.streaming => g.debit <= Extent /\ s.at <= g.debit
        /\ g.streaming => g.offset = s.at
    <3>1. /\ g.rewound => ~s.staged.there
          /\ ~g.streaming => g.debit <= Extent
          /\ ~g.streaming /\ g.rewound => s.at + (IF c.kind = "read" /\ c.stage = "native" THEN c.max ELSE 0) <= g.debit
          /\ g.streaming /\ g.rewound => g.offset = s.at
      BY <1>1, <1>2, <1>15 DEF ReadGrantInv
    <3>. QED BY <3>1, <1>3, <1>11, <1>12, <1>15
  <2>3. ~g.streaming => debit = g.debit + max /\ debit <= Extent
    BY <1>3, <1>4, <1>12, <1>15, BrokerSizes, NothingIs
  <2>4. ReadGrantInv(t.grant, t, d)
    <3>1. /\ h.op \in Operations /\ h.id \in known[h.op] /\ d.by = h.op /\ h.rewound /\ ~t.staged.there
          /\ ~h.streaming => h.debit <= Extent /\ t.at + d.max <= h.debit
          /\ h.streaming => h.offset = t.at
      BY <2>1, <2>2, <2>3, <1>3, <1>6, <1>8, <1>10
    <3>. QED BY <3>1, <1>6, <1>8, <1>10, <1>15 DEF ReadGrantInv
  <2>. QED BY <2>4, <1>1, <1>3, <1>8, <1>10, <1>11, <1>13, SourceGoes DEF Exact, StagedInv, Br!NoChunk
<1>. QED BY <1>3, <1>14, <1>15

\* The source's answer is where the last one ended, and what was not read is given back.
LEMMA ReadAnsweredKeeps == ASSUME BrokerInv, Br!Read_Answered PROVE BrokerInv'
<1>1. PICK s \in Sources, c \in BrokerCalls, r \in Readers :
              /\ source = s /\ flight.source = c /\ reader = r /\ buffered \in Int
              /\ CallInv(c, s) /\ StagedInv(s) /\ ReadGrantInv(s.grant, s, c) /\ Exact(c, s, buffered, r)
  BY SourceFacts
<1>2. PICK g : g = s.grant
  OBVIOUS
<1>3. /\ g \in ReadGrants /\ g.id \in Nat /\ g.debit \in Nat /\ g.offset \in Nat
      /\ g.streaming \in BOOLEAN /\ g.rewound \in BOOLEAN /\ s.at \in Nat /\ s.at <= Length
      /\ c.max \in Nat /\ buffered \in Int /\ Length \in Nat
  BY <1>1, <1>2, SourceIs, CallTypes, BrokerSizes
<1>4. c.kind = "read" /\ c.stage = "native" /\ ~s.staged.there /\ s.staged = Br!NoChunk
  BY <1>1 DEF Br!Read_Answered, CallInv, StagedInv
<1>5. PICK n \in 0..Br!Least(c.max, Length - s.at), eof \in BOOLEAN :
        /\ eof => s.at + n = Length
        /\ source' = [s EXCEPT
               !.at = @ + n,
               !.grant = IF g = Br!NoRead THEN g
                         ELSE IF g.streaming THEN [g EXCEPT !.offset = @ + n]
                         ELSE [g EXCEPT !.debit = @ - (c.max - n)]]
        /\ Br!Accept("source", [c EXCEPT !.stage = "settling",
               !.chunk = [from |-> s.at, size |-> n, taken |-> 0, eof |-> eof, there |-> TRUE]])
        /\ buffered' = buffered - c.max
  BY <1>1, <1>2 DEF Br!Read_Answered
<1>6. n \in Nat /\ n <= c.max /\ s.at + n <= Length /\ s.at + n \in 0..Length
  BY <1>3, <1>5 DEF Br!Least
<1>7. PICK h : h = IF g = Br!NoRead THEN g
                   ELSE IF g.streaming THEN [g EXCEPT !.offset = @ + n]
                   ELSE [g EXCEPT !.debit = @ - (c.max - n)]
  OBVIOUS
<1>8. PICK t : t = [s EXCEPT !.at = @ + n, !.grant = h]
  OBVIOUS
<1>9. PICK k : k = [from |-> s.at, size |-> n, taken |-> 0, eof |-> eof, there |-> TRUE]
  OBVIOUS
<1>10. k \in Chunks /\ k.from = s.at /\ k.size = n /\ k.taken = 0 /\ k.there /\ (k.eof => eof)
  BY <1>3, <1>6, <1>9 DEF Chunks
<1>11. PICK d : d = [c EXCEPT !.stage = "settling", !.chunk = k]
  OBVIOUS
<1>12. /\ d \in BrokerCalls /\ d.kind = "read" /\ d.stage = "settling" /\ d.chunk = k /\ d.by = c.by /\ d.max = c.max
  BY <1>4, <1>10, <1>11 DEF BrokerCalls
<1>13. /\ g.id = 0 => g = Br!NoRead
       /\ g.id # 0 => /\ g.op \in Operations /\ g.id \in known[g.op] /\ c.by = g.op /\ g.rewound
                      /\ ~g.streaming => g.debit <= Extent /\ s.at + c.max <= g.debit
                      /\ g.streaming => g.offset = s.at
  BY <1>1, <1>2, <1>4 DEF ReadGrantInv
<1>14. /\ h \in ReadGrants /\ h.id = g.id /\ h.op = g.op /\ h.streaming = g.streaming /\ h.rewound = g.rewound
       /\ g.id = 0 => h = Br!NoRead
       /\ g.id # 0 /\ g.streaming => h.offset = g.offset + n
       /\ g.id # 0 /\ ~g.streaming => h.debit = g.debit - (c.max - n)
  <2>1. CASE g = Br!NoRead
    BY <2>1, <1>3, <1>7, NothingIs
  <2>2. CASE g # Br!NoRead /\ g.streaming
    <3>1. h = [g EXCEPT !.offset = g.offset + n] /\ g.offset + n \in Nat
      BY <2>2, <1>3, <1>6, <1>7
    <3>2. g.id # 0
      BY <2>2, <1>13
    <3>. QED BY <3>1, <3>2, <2>2, <1>3 DEF ReadGrants
  <2>3. CASE g # Br!NoRead /\ ~g.streaming
    <3>1. g.debit - (c.max - n) \in Nat
      BY <2>3, <1>3, <1>6, <1>13
    <3>. QED BY <3>1, <2>3, <1>3, <1>6, <1>7, <1>13 DEF ReadGrants
  <2>. QED BY <2>1, <2>2, <2>3, <1>3
<1>15. t \in Sources /\ t.grant = h /\ t.open = s.open /\ t.at = s.at + n /\ t.staged = s.staged
  BY <1>6, <1>8, <1>14 DEF Sources
<1>16. source' = t /\ Br!Accept("source", d) /\ UNCHANGED <<scope, sink, known, grants, reader>>
  BY <1>5, <1>7, <1>8, <1>9, <1>11 DEF Br!Read_Answered
<1>17. CallInv(d, t) /\ StagedInv(t)
  BY <1>3, <1>4, <1>5, <1>6, <1>10, <1>12, <1>15, NothingIs DEF CallInv, StagedInv
<1>18. ReadGrantInv(t.grant, t, d)
  <2>1. CASE g.id = 0
    BY <2>1, <1>14, <1>15, NothingIs DEF ReadGrantInv
  <2>2. CASE g.id # 0
    <3>1. /\ h.op \in Operations /\ h.id \in known[h.op] /\ d.by = h.op /\ h.rewound /\ ~t.staged.there
          /\ ~h.streaming => h.debit <= Extent /\ t.at <= h.debit
          /\ h.streaming => h.offset = t.at
      <4>1. h.op \in Operations /\ h.id \in known[h.op] /\ d.by = h.op /\ h.rewound /\ ~t.staged.there
        BY <2>2, <1>4, <1>12, <1>13, <1>14, <1>15
      <4>2. h.streaming \in BOOLEAN /\ h.debit \in Nat /\ h.offset \in Nat
        BY <1>14 DEF ReadGrants
      <4>3. CASE g.streaming
        BY <4>1, <4>2, <4>3, <2>2, <1>13, <1>14, <1>15
      <4>4. CASE ~g.streaming
        <5>1. h.debit = g.debit - (c.max - n) /\ t.at = s.at + n /\ g.debit <= Extent /\ s.at + c.max <= g.debit
          BY <4>4, <2>2, <1>13, <1>14, <1>15
        <5>2. h.debit <= Extent /\ t.at <= h.debit
          BY <5>1, <1>3, <1>6, BrokerSizes
        <5>3. ~h.streaming
          BY <4>2, <4>4, <1>14
        <5>. QED BY <4>1, <5>2, <5>3
      <4>. QED BY <4>3, <4>4, <1>3
    <3>2. h.id # 0 /\ d.kind = "read" /\ d.stage = "settling" /\ t.at \in Nat
      BY <2>2, <1>3, <1>6, <1>12, <1>14, <1>15
    <3>. QED BY <3>1, <3>2, <1>15 DEF ReadGrantInv
  <2>. QED BY <2>1, <2>2, <1>3
<1>19. Exact(d, t, buffered', r) /\ buffered' \in Int
  <2>1. /\ s.open /\ r.sure => s.at = r.next
        /\ buffered = 0 + c.max /\ buffered' = 0
    BY <1>1, <1>3, <1>4, <1>5, NothingIs DEF Exact
  <2>2. k.eof => k.from + k.size = Length
    BY <1>5, <1>10
  <2>. QED BY <2>1, <2>2, <1>4, <1>10, <1>12, <1>15, NothingIs DEF Exact
<1>. QED BY <1>1, <1>12, <1>15, <1>16, <1>17, <1>18, <1>19, SourceGoes

\* A read settles: staged, delivered, or lost to a reader that knows.
LEMMA ReadSettledKeeps == ASSUME BrokerInv, Br!Read_Settled PROVE BrokerInv'
<1>1. PICK s \in Sources, c \in BrokerCalls, r \in Readers :
              /\ source = s /\ flight.source = c /\ reader = r /\ buffered \in Int
              /\ CallInv(c, s) /\ StagedInv(s) /\ ReadGrantInv(s.grant, s, c) /\ Exact(c, s, buffered, r)
  BY SourceFacts
<1>2. PICK k : k = c.chunk
  OBVIOUS
<1>3. /\ k \in Chunks /\ k.from \in Nat /\ k.size \in Nat /\ k.taken = 0 /\ k.there /\ k.eof \in BOOLEAN
      /\ k.eof => k.from + k.size = Length
      /\ k.from + k.size = IF s.staged.there THEN s.staged.from + s.staged.taken ELSE s.at
      /\ c.kind = "read" /\ c.stage = "settling"
  BY <1>1, <1>2, CallTypes DEF Br!Read_Settled, CallInv
<1>4. Br!Accept("source", Br!NoCall) /\ UNCHANGED <<scope, sink, known, grants>>
  BY DEF Br!Read_Settled
<1>5. /\ s.open /\ r.sure => k.from = r.next
      /\ buffered = s.staged.size
  BY <1>1, <1>2, <1>3, SourceIs DEF Exact
<1>6. r.next \in Nat /\ r.sure \in BOOLEAN
  BY DEF Readers
<1>7. CASE source.grant = Br!NoRead /\ ~source.staged.there /\ Br!Stage(k)
  <2>1. PICK t : t = [s EXCEPT !.staged = k]
    OBVIOUS
  <2>2. t \in Sources /\ t.grant = Br!NoRead /\ t.open = s.open /\ t.at = s.at /\ t.staged = k
    BY <2>1, <1>1, <1>3, <1>7 DEF Sources
  <2>3. source' = t /\ buffered' = buffered + k.size /\ reader' = r
    BY <2>1, <1>1, <1>7 DEF Br!Stage
  <2>4. CallInv(Br!NoCall, t) /\ StagedInv(t) /\ ReadGrantInv(t.grant, t, Br!NoCall)
    BY <2>2, <1>1, <1>3, <1>7, NothingIs DEF CallInv, StagedInv, ReadGrantInv
  <2>5. buffered' = k.size /\ buffered' \in Int
    BY <2>3, <1>1, <1>3, <1>5, <1>7, NothingIs DEF StagedInv
  <2>6. Exact(Br!NoCall, t, buffered', r)
    BY <2>2, <2>5, <1>3, <1>5, NothingIs DEF Exact
  <2>. QED BY <2>2, <2>3, <2>4, <2>5, <2>6, <1>4, NothingIs, SourceGoes
<1>8. CASE Br!Unstaged
  <2>1. PICK q : q = [next |-> 0, sure |-> FALSE]
    OBVIOUS
  <2>2. q \in Readers /\ ~q.sure /\ reader' = q /\ source' = s /\ buffered' = buffered
    BY <2>1, <1>1, <1>8 DEF Br!Unstaged, Readers
  <2>3. CallInv(Br!NoCall, s) /\ ReadGrantInv(s.grant, s, Br!NoCall)
    BY <1>1, <1>3, NothingIs, SourceIs DEF CallInv, ReadGrantInv
  <2>4. Exact(Br!NoCall, s, buffered', q) /\ buffered' \in Int
    BY <2>2, <1>1, <1>5, NothingIs, SourceIs DEF Exact
  <2>. QED BY <2>2, <2>3, <2>4, <1>1, <1>4, NothingIs, SourceGoes
<1>9. CASE Br!Delivered(k)
  <2>1. PICK n : n = IF r.sure THEN r.next + k.size ELSE r.next
    OBVIOUS
  <2>2. PICK q : q = [r EXCEPT !.next = n]
    OBVIOUS
  <2>3. n \in Nat /\ q \in Readers /\ q.sure = r.sure /\ q.next = n
    BY <2>1, <2>2, <1>3, <1>6 DEF Readers
  <2>4. reader' = q /\ source' = s /\ buffered' = buffered
    BY <2>1, <2>2, <1>1, <1>9 DEF Br!Delivered
  <2>5. CallInv(Br!NoCall, s) /\ ReadGrantInv(s.grant, s, Br!NoCall)
    BY <1>1, <1>3, NothingIs, SourceIs DEF CallInv, ReadGrantInv
  <2>6. Exact(Br!NoCall, s, buffered', q) /\ buffered' \in Int
    BY <2>1, <2>3, <2>4, <1>1, <1>3, <1>5, NothingIs, SourceIs DEF Exact
  <2>. QED BY <2>3, <2>4, <2>5, <2>6, <1>1, <1>4, NothingIs, SourceGoes
<1>. QED BY <1>1, <1>2, <1>7, <1>8, <1>9 DEF Br!Read_Settled

\* A failed read frees its buffer and leaves the reader unsure.
LEMMA ReadFailedKeeps == ASSUME BrokerInv, Br!Read_Failed PROVE BrokerInv'
<1>1. PICK s \in Sources, c \in BrokerCalls, r \in Readers :
              /\ source = s /\ flight.source = c /\ reader = r /\ buffered \in Int
              /\ CallInv(c, s) /\ StagedInv(s) /\ ReadGrantInv(s.grant, s, c) /\ Exact(c, s, buffered, r)
  BY SourceFacts
<1>2. PICK q : q = [next |-> 0, sure |-> FALSE]
  OBVIOUS
<1>3. /\ q \in Readers /\ ~q.sure /\ reader' = q /\ source' = s /\ buffered' = buffered - c.max
      /\ Br!Accept("source", Br!NoCall) /\ UNCHANGED <<scope, sink, known, grants>>
      /\ c.kind = "read" /\ c.stage = "native"
  BY <1>1, <1>2 DEF Br!Read_Failed, Readers
<1>4. CallInv(Br!NoCall, s)
  BY NothingIs DEF CallInv
<1>5. ReadGrantInv(s.grant, s, Br!NoCall)
  BY <1>1, <1>3, NothingIs, SourceIs, CallTypes DEF ReadGrantInv
<1>6. Exact(Br!NoCall, s, buffered', q) /\ buffered' \in Int
  BY <1>1, <1>3, NothingIs, SourceIs, CallTypes DEF Exact
<1>. QED BY <1>1, <1>3, <1>4, <1>5, <1>6, NothingIs, SourceGoes

\* A seek discards what is staged.
LEMMA SeekKeeps ==
    ASSUME BrokerInv, NEW o \in Operations, NEW id \in known[o], NEW to \in 0..Length, Br!Seek(o, id, to)
    PROVE  BrokerInv'
<1>1. PICK s \in Sources, c \in BrokerCalls, r \in Readers :
              /\ source = s /\ flight.source = c /\ reader = r /\ buffered \in Int
              /\ CallInv(c, s) /\ StagedInv(s) /\ ReadGrantInv(s.grant, s, c) /\ Exact(c, s, buffered, r)
  BY SourceFacts
<1>2. o \in Parties /\ to \in Nat
  BY BrokerSizes DEF Parties
<1>3. PICK d \in BrokerCalls : /\ d = Br!Call("seek", o, to, "native")
                               /\ d.kind = "seek" /\ d.by = o /\ d.max = to /\ d.stage = "native"
  BY <1>2, CallIs
<1>4. PICK t : t = [s EXCEPT !.staged = Br!NoChunk]
  OBVIOUS
<1>5. t \in Sources /\ t.grant = s.grant /\ t.open = s.open /\ t.at = s.at /\ t.staged = Br!NoChunk
  BY <1>4, NothingIs DEF Sources
<1>6. /\ c.kind = "none" /\ source' = t /\ Br!Accept("source", d) /\ buffered' = buffered - s.staged.size
      /\ UNCHANGED <<scope, sink, known, grants, reader>>
      /\ s.grant = Br!NoRead \/ s.grant.streaming \/ (~s.grant.streaming /\ to = 0)
      /\ id = s.grant.id
  BY <1>1, <1>3, <1>4 DEF Br!Seek, Br!Idle, Br!Discard, Br!Passes
<1>7. CallInv(d, t) /\ StagedInv(t)
  BY <1>3, <1>5, NothingIs DEF CallInv, StagedInv
<1>8. s.grant.id # 0 => o = s.grant.op
  BY <1>1, <1>6 DEF ReadGrantInv, BrokerInv, GrantsAreOnes
<1>9. ReadGrantInv(t.grant, t, d)
  <2>1. CASE s.grant.id = 0
    BY <2>1, <1>1, <1>5 DEF ReadGrantInv
  <2>2. CASE s.grant.id # 0
    <3>1. /\ s.grant.op \in Operations /\ s.grant.id \in known[s.grant.op]
          /\ ~s.grant.streaming => s.grant.debit <= Extent /\ (s.grant.rewound => s.at <= s.grant.debit)
          /\ s.grant.streaming /\ s.grant.rewound => s.grant.offset = s.at
      BY <2>2, <1>1, <1>6, SourceIs DEF ReadGrantInv
    <3>2. s.grant.streaming \/ to = 0
      BY <2>2, <1>6, NothingIs
    <3>3. s.at \in Nat /\ ~t.staged.there
      BY <1>5, SourceIs, NothingIs
    <3>. QED BY <3>1, <3>2, <3>3, <2>2, <1>3, <1>5, <1>8 DEF ReadGrantInv
  <2>. QED BY <2>1, <2>2
<1>10. Exact(d, t, buffered', r) /\ buffered' \in Int
  <2>1. buffered = s.staged.size /\ buffered \in Int
    BY <1>1, <1>6, SourceIs DEF Exact
  <2>2. buffered' = 0
    BY <2>1, <1>6
  <2>. QED BY <2>2, <1>3, <1>5, NothingIs DEF Exact
<1>. QED BY <1>1, <1>5, <1>6, <1>7, <1>9, <1>10, SourceGoes

\* A seek that succeeds says where the reader is.
LEMMA SeekAnsweredKeeps == ASSUME BrokerInv, Br!Seek_Answered PROVE BrokerInv'
<1>1. PICK s \in Sources, c \in BrokerCalls, r \in Readers :
              /\ source = s /\ flight.source = c /\ reader = r /\ buffered \in Int
              /\ CallInv(c, s) /\ StagedInv(s) /\ ReadGrantInv(s.grant, s, c) /\ Exact(c, s, buffered, r)
  BY SourceFacts
<1>2. PICK g : g = s.grant
  OBVIOUS
<1>3. PICK to : to = c.max
  OBVIOUS
<1>4. /\ g \in ReadGrants /\ g.id \in Nat /\ g.debit \in Nat /\ g.streaming \in BOOLEAN /\ s.at \in Nat
      /\ to \in Nat /\ buffered \in Int
  BY <1>1, <1>2, <1>3, SourceIs, CallTypes
<1>5. /\ c.kind = "seek" /\ c.stage = "native" /\ ~s.staged.there /\ s.staged = Br!NoChunk
      /\ Br!Accept("source", Br!NoCall) /\ UNCHANGED <<scope, sink, buffered, known, grants>>
  BY <1>1 DEF Br!Seek_Answered, CallInv, StagedInv
<1>6. buffered = 0
  BY <1>1, <1>5, NothingIs DEF Exact
<1>7. CASE to <= Length /\ reader' = [next |-> to, sure |-> TRUE]
           /\ source' = [s EXCEPT !.at = to,
                 !.grant = IF g = Br!NoRead THEN g
                           ELSE [g EXCEPT !.rewound = TRUE, !.offset = IF g.streaming THEN to ELSE @]]
  <2>1. PICK offset : offset = IF g.streaming THEN to ELSE g.offset
    OBVIOUS
  <2>2. PICK h : h = IF g = Br!NoRead THEN g ELSE [g EXCEPT !.rewound = TRUE, !.offset = offset]
    OBVIOUS
  <2>3. /\ h \in ReadGrants /\ h.id = g.id /\ h.op = g.op /\ h.debit = g.debit /\ h.streaming = g.streaming
        /\ g = Br!NoRead => h = Br!NoRead
        /\ g # Br!NoRead /\ g.streaming => h.offset = to
    BY <2>1, <2>2, <1>4 DEF ReadGrants
  <2>4. PICK t : t = [s EXCEPT !.at = to, !.grant = h]
    OBVIOUS
  <2>5. t \in Sources /\ t.grant = h /\ t.open = s.open /\ t.at = to /\ t.staged = s.staged
    <3>1. to \in 0..Length
      BY <1>4, <1>7, BrokerSizes
    <3>. QED BY <3>1, <2>3, <2>4 DEF Sources
  <2>6. source' = t
    BY <2>1, <2>2, <2>4, <1>7
  <2>7. PICK q \in Readers : reader' = q /\ q.next = to
    <3>1. PICK q : q = [next |-> to, sure |-> TRUE]
      OBVIOUS
    <3>2. q \in Readers /\ q.next = to /\ reader' = q
      BY <3>1, <1>4, <1>7 DEF Readers
    <3>. QED BY <3>2
  <2>8. CallInv(Br!NoCall, t) /\ StagedInv(t)
    BY <2>5, <1>5, NothingIs DEF CallInv, StagedInv
  <2>9. Exact(Br!NoCall, t, buffered', q) /\ buffered' \in Int
    BY <2>5, <2>7, <1>5, <1>6, NothingIs DEF Exact
  <2>10. ReadGrantInv(t.grant, t, Br!NoCall)
    <3>1. CASE g.id = 0
      BY <3>1, <2>3, <2>5, <1>1, <1>2, NothingIs DEF ReadGrantInv
    <3>2. CASE g.id # 0
      <4>1. /\ g.op \in Operations /\ g.id \in known[g.op]
            /\ ~g.streaming => g.debit <= Extent /\ to = 0
        BY <3>2, <1>1, <1>2, <1>3, <1>5 DEF ReadGrantInv
      <4>2. g # Br!NoRead
        BY <3>2, NothingIs
      <4>3. h.streaming \in BOOLEAN /\ h.rewound \in BOOLEAN /\ h.debit \in Nat
        BY <2>3 DEF ReadGrants
      <4>4. /\ h.op \in Operations /\ h.id \in known[h.op] /\ ~t.staged.there
            /\ ~h.streaming => h.debit <= Extent /\ t.at = 0
            /\ h.streaming => h.offset = t.at
        <5>1. h.op \in Operations /\ h.id \in known[h.op] /\ ~t.staged.there
          BY <4>1, <2>3, <2>5, <1>5
        <5>2. CASE g.streaming
          BY <5>1, <5>2, <4>2, <4>3, <2>3, <2>5
        <5>3. CASE ~g.streaming
          BY <5>1, <5>3, <4>1, <4>3, <2>3, <2>5
        <5>. QED BY <5>2, <5>3, <1>4
      <4>. QED BY <3>2, <4>3, <4>4, <2>3, <2>5, NothingIs DEF ReadGrantInv
    <3>. QED BY <3>1, <3>2
  <2>. QED BY <2>5, <2>6, <2>7, <2>8, <2>9, <2>10, <1>5, NothingIs, SourceGoes
<1>8. CASE reader' = [next |-> 0, sure |-> FALSE] /\ source' = s
  <2>1. PICK q \in Readers : reader' = q /\ ~q.sure
    <3>1. PICK q : q = [next |-> 0, sure |-> FALSE]
      OBVIOUS
    <3>2. q \in Readers /\ ~q.sure /\ reader' = q
      BY <3>1, <1>8 DEF Readers
    <3>. QED BY <3>2
  <2>2. CallInv(Br!NoCall, s)
    BY NothingIs DEF CallInv
  <2>3. ReadGrantInv(s.grant, s, Br!NoCall)
    BY <1>1, <1>5, NothingIs, SourceIs DEF ReadGrantInv
  <2>4. Exact(Br!NoCall, s, buffered', q) /\ buffered' \in Int
    BY <2>1, <1>5, <1>6, NothingIs DEF Exact
  <2>. QED BY <2>1, <2>2, <2>3, <2>4, <1>1, <1>5, <1>8, NothingIs, SourceGoes
<1>. QED BY <1>1, <1>2, <1>3, <1>7, <1>8 DEF Br!Seek_Answered

\* A close names the grant, as every other call does.
LEMMA CloseSourceKeeps ==
    ASSUME BrokerInv, NEW o \in Operations, NEW id \in known[o], Br!CloseSource(o, id) PROVE BrokerInv'
<1>1. PICK s \in Sources, c \in BrokerCalls, r \in Readers :
              /\ source = s /\ flight.source = c /\ reader = r /\ buffered \in Int
              /\ CallInv(c, s) /\ StagedInv(s) /\ ReadGrantInv(s.grant, s, c) /\ Exact(c, s, buffered, r)
  BY SourceFacts
<1>2. PICK d \in BrokerCalls : d = Br!Call("close", o, 0, "closing") /\ d.kind = "close" /\ d.by = o /\ d.stage = "closing"
  BY CallIs DEF Parties
<1>3. /\ c.kind = "none" /\ Br!Accept("source", d) /\ id = s.grant.id
      /\ UNCHANGED <<scope, source, sink, buffered, known, grants, reader>>
  BY <1>1, <1>2 DEF Br!CloseSource, Br!Idle, Br!Passes
<1>4. s.grant.id # 0 => o = s.grant.op
  BY <1>1, <1>3 DEF ReadGrantInv, BrokerInv, GrantsAreOnes
<1>5. CallInv(d, s) /\ Exact(d, s, buffered, r)
  BY <1>1, <1>2, <1>3 DEF CallInv, Exact
<1>6. ReadGrantInv(s.grant, s, d)
  BY <1>1, <1>2, <1>3, <1>4 DEF ReadGrantInv
<1>. QED BY <1>1, <1>3, <1>5, <1>6, SourceGoes

\* A write grant: nothing was accepted before it.
LEMMA GrantWriteKeeps ==
    ASSUME BrokerInv, NEW o \in Operations, Br!GrantWrite(o) PROVE BrokerInv'
<1>1. /\ grants' = grants + 1 /\ known' = [known EXCEPT ![o] = @ \cup {grants + 1}] /\ sink.grant = Br!NoWrite
      /\ sink' = [sink EXCEPT !.grant = [Br!NoWrite EXCEPT !.id = grants + 1, !.op = o]]
      /\ Br!Accept("sink", Br!Call("grant", o, 0, "settling"))
      /\ UNCHANGED <<scope, source, buffered, reader>> /\ sink \in Sinks
  BY DEF Br!GrantWrite, BrokerInv, BrokerTypeOK
<1>2. /\ grants' \in Nat /\ known' \in [Operations -> SUBSET (0..grants')] /\ GrantsAreOnes'
      /\ \A p \in Operations : known[p] \subseteq known'[p]
      /\ grants \in Nat
  BY <1>1, GrantIsNew DEF BrokerInv, BrokerTypeOK
<1>3. PICK g : g = [Br!NoWrite EXCEPT !.id = grants + 1, !.op = o]
  OBVIOUS
<1>4. g \in WriteGrants /\ g.id = grants + 1 /\ g.submitted = 0 /\ ~g.failed
  <2>1. g = [id |-> grants + 1, op |-> o, submitted |-> 0, failed |-> FALSE]
    BY <1>3 DEF Br!NoWrite
  <2>. QED BY <2>1, <1>2 DEF WriteGrants, Parties
<1>5. PICK t : t = [sink EXCEPT !.grant = g]
  OBVIOUS
<1>6. t \in Sinks /\ sink' = t /\ t.grant = g /\ t.accepted = sink.accepted
  BY <1>1, <1>3, <1>4, <1>5 DEF Sinks
<1>7. PICK d \in BrokerCalls : d = Br!Call("grant", o, 0, "settling") /\ d.kind = "grant"
  BY CallIs DEF Parties
<1>8. /\ flight' \in [source : BrokerCalls, sink : BrokerCalls]
      /\ flight'.source = flight.source /\ flight'.sink = d
  BY <1>1, <1>7, AcceptedIs DEF BrokerInv, BrokerTypeOK
<1>9. BrokerTypeOK'
  BY <1>1, <1>2, <1>6, <1>8 DEF BrokerInv, BrokerTypeOK
<1>10. CallInv(flight.source, source)' /\ StagedInv(source)' /\ Exact(flight.source, source, buffered, reader)'
  BY <1>1, <1>8 DEF BrokerInv, CallInv, StagedInv, Exact
<1>11. ReadGrantInv(source.grant, source, flight.source)'
  BY <1>1, <1>2, <1>8 DEF BrokerInv, ReadGrantInv
<1>12. SinkInv(sink, flight.sink)'
  <2>1. sink.accepted = 0
    BY <1>1, NothingIs DEF BrokerInv, SinkInv
  <2>. QED BY <2>1, <1>2, <1>4, <1>6, <1>7, <1>8, BrokerSizes DEF SinkInv
<1>. QED BY <1>2, <1>9, <1>10, <1>11, <1>12 DEF BrokerInv

\* The facts about the sink.
LEMMA SinkFacts ==
    ASSUME BrokerInv
    PROVE  \E s \in Sinks, c \in BrokerCalls :
              /\ sink = s /\ flight.sink = c /\ SinkInv(s, c)
              /\ s.accepted \in Nat /\ s.grant \in WriteGrants /\ s.grant.id \in Nat
              /\ s.grant.submitted \in Nat /\ s.grant.failed \in BOOLEAN /\ c.max \in Nat
<1>1. /\ sink \in Sinks /\ flight.sink \in BrokerCalls /\ SinkInv(sink, flight.sink)
  BY DEF BrokerInv, BrokerTypeOK
<1>2. /\ sink.accepted \in Nat /\ sink.grant \in WriteGrants /\ sink.grant.id \in Nat
      /\ sink.grant.submitted \in Nat /\ sink.grant.failed \in BOOLEAN
  BY <1>1 DEF Sinks, WriteGrants
<1>. QED BY <1>1, <1>2, CallTypes

\* A write is counted as submitted before it is made.
LEMMA WriteKeeps ==
    ASSUME BrokerInv, NEW o \in Operations, NEW id, NEW size \in 1..Chunk, Br!Write(o, id, size)
    PROVE  BrokerInv'
<1>1. PICK s \in Sinks, c \in BrokerCalls :
              /\ sink = s /\ flight.sink = c /\ SinkInv(s, c)
              /\ s.accepted \in Nat /\ s.grant \in WriteGrants /\ s.grant.id \in Nat
              /\ s.grant.submitted \in Nat /\ s.grant.failed \in BOOLEAN /\ c.max \in Nat
  BY SinkFacts
<1>2. PICK g : g = s.grant
  OBVIOUS
<1>3. o \in Parties /\ size \in Nat /\ size > 0
  BY BrokerSizes DEF Parties
<1>4. PICK n : n = IF g = Br!NoWrite THEN 0 ELSE g.submitted + size
  OBVIOUS
<1>5. PICK h : h = [g EXCEPT !.submitted = n]
  OBVIOUS
<1>6. /\ n \in Nat /\ h \in WriteGrants /\ h.id = g.id /\ h.submitted = n
      /\ h.failed = g.failed /\ h.op = g.op
  BY <1>1, <1>2, <1>3, <1>4, <1>5 DEF WriteGrants
<1>7. PICK t : t = [s EXCEPT !.written = TRUE, !.grant = h]
  OBVIOUS
<1>8. t \in Sinks /\ t.grant = h /\ t.accepted = s.accepted
  BY <1>6, <1>7 DEF Sinks
<1>9. PICK d \in BrokerCalls : /\ d = Br!Call("write", o, size, "native")
                               /\ d.kind = "write" /\ d.max = size /\ d.stage = "native"
  BY <1>3, CallIs
<1>10. /\ c.kind = "none" /\ Br!Accept("sink", d) /\ UNCHANGED <<scope, source, buffered, known, grants, reader>>
       /\ g # Br!NoWrite => ~g.failed /\ size <= Extent - g.submitted
  BY <1>1, <1>2, <1>9 DEF Br!Write, Br!Idle
<1>11. sink' = t
  BY <1>1, <1>2, <1>4, <1>5, <1>7 DEF Br!Write
<1>12. SinkInv(t, d)
  <2>1. CASE g.id = 0
    <3>1. g = Br!NoWrite /\ s.accepted = 0
      BY <2>1, <1>1, <1>2 DEF SinkInv
    <3>2. n = 0 /\ g = [id |-> 0, op |-> Nobody, submitted |-> 0, failed |-> FALSE]
      BY <3>1, <1>4 DEF Br!NoWrite
    <3>3. h = Br!NoWrite
      <4>1. h = [id |-> 0, op |-> Nobody, submitted |-> 0, failed |-> FALSE]
        BY <3>2, <1>5
      <4>. QED BY <4>1 DEF Br!NoWrite
    <3>. QED BY <3>1, <3>3, <1>8, <1>9, NothingIs DEF SinkInv
  <2>2. CASE g.id # 0
    <3>1. g # Br!NoWrite
      BY <2>2, NothingIs
    <3>2. /\ ~g.failed /\ n = g.submitted + size /\ n <= Extent
      BY <3>1, <1>1, <1>2, <1>3, <1>4, <1>10, BrokerSizes
    <3>3. s.accepted = g.submitted
      BY <2>2, <3>2, <1>1, <1>2, <1>10 DEF SinkInv
    <3>4. ~h.failed
      BY <3>2, <1>6
    <3>. QED BY <2>2, <3>2, <3>3, <3>4, <1>6, <1>8, <1>9 DEF SinkInv
  <2>. QED BY <2>1, <2>2
<1>. QED BY <1>8, <1>10, <1>11, <1>12, SinkGoes

\* A write's answer: accepted, or in part and the grant is spent.
LEMMA WriteAnsweredKeeps == ASSUME BrokerInv, Br!Write_Answered PROVE BrokerInv'
<1>1. PICK s \in Sinks, c \in BrokerCalls :
              /\ sink = s /\ flight.sink = c /\ SinkInv(s, c)
              /\ s.accepted \in Nat /\ s.grant \in WriteGrants /\ s.grant.id \in Nat
              /\ s.grant.submitted \in Nat /\ s.grant.failed \in BOOLEAN /\ c.max \in Nat
  BY SinkFacts
<1>2. PICK g : g = s.grant
  OBVIOUS
<1>3. /\ c.kind = "write" /\ Br!Accept("sink", Br!NoCall) /\ UNCHANGED <<scope, source, buffered, known, grants, reader>>
  BY <1>1 DEF Br!Write_Answered
<1>4. /\ g.id = 0 => g = Br!NoWrite /\ s.accepted = 0
      /\ g.id # 0 => ~g.failed /\ s.accepted + c.max = g.submitted /\ g.submitted <= Extent /\ g # Br!NoWrite
      /\ ~g.failed
  BY <1>1, <1>2, <1>3, NothingIs DEF SinkInv
<1>5. CASE sink' = [s EXCEPT !.accepted = IF g = Br!NoWrite THEN @ ELSE @ + c.max]
  <2>1. PICK n : n = IF g = Br!NoWrite THEN s.accepted ELSE s.accepted + c.max
    OBVIOUS
  <2>2. PICK t : t = [s EXCEPT !.accepted = n]
    OBVIOUS
  <2>3. n \in Nat /\ t \in Sinks /\ t.grant = g /\ t.accepted = n /\ sink' = t
    BY <2>1, <2>2, <1>1, <1>2, <1>5 DEF Sinks
  <2>4. SinkInv(t, Br!NoCall)
    <3>1. CASE g.id = 0
      BY <3>1, <2>1, <2>3, <1>4, NothingIs DEF SinkInv
    <3>2. CASE g.id # 0
      BY <3>2, <2>1, <2>3, <1>1, <1>2, <1>4, NothingIs DEF SinkInv
    <3>. QED BY <3>1, <3>2
  <2>. QED BY <2>3, <2>4, <1>3, NothingIs, SinkGoes
<1>6. ASSUME NEW accepted \in 0..(c.max - 1),
             sink' = [s EXCEPT !.accepted = IF g = Br!NoWrite THEN @ ELSE @ + accepted,
                               !.grant.failed = g # Br!NoWrite]
      PROVE  BrokerInv'
  <2>1. PICK n : n = IF g = Br!NoWrite THEN s.accepted ELSE s.accepted + accepted
    OBVIOUS
  <2>2. PICK f \in BOOLEAN : f <=> g # Br!NoWrite
    OBVIOUS
  <2>3. PICK h : h = [g EXCEPT !.failed = f]
    OBVIOUS
  <2>4. PICK t : t = [s EXCEPT !.accepted = n, !.grant = h]
    OBVIOUS
  <2>5. /\ n \in Nat /\ accepted \in Nat /\ accepted <= c.max
    BY <2>1, <1>1, <1>6
  <2>6. /\ h \in WriteGrants /\ h.id = g.id /\ h.submitted = g.submitted /\ h.failed = f
    BY <2>3, <1>1, <1>2 DEF WriteGrants
  <2>7. t \in Sinks /\ t.grant = h /\ t.accepted = n
    BY <2>4, <2>5, <2>6 DEF Sinks
  <2>8. sink' = t
    <3>1. (g # Br!NoWrite) = f
      BY <2>2
    <3>. QED BY <3>1, <2>1, <2>3, <2>4, <1>2, <1>6
  <2>9. SinkInv(t, Br!NoCall)
    <3>1. CASE g.id = 0
      <4>1. g = Br!NoWrite /\ n = 0 /\ ~f
        BY <3>1, <2>1, <2>2, <1>4
      <4>2. g = [id |-> 0, op |-> Nobody, submitted |-> 0, failed |-> FALSE]
        BY <4>1 DEF Br!NoWrite
      <4>3. h = Br!NoWrite
        <5>1. h = [id |-> 0, op |-> Nobody, submitted |-> 0, failed |-> f]
          BY <4>2, <2>3
        <5>2. f = FALSE
          BY <4>1, <2>2
        <5>. QED BY <5>1, <5>2 DEF Br!NoWrite
      <4>. QED BY <4>1, <4>3, <2>7, NothingIs DEF SinkInv
    <3>2. CASE g.id # 0
      <4>1. f /\ n = s.accepted + accepted /\ n <= g.submitted /\ g.submitted <= Extent
        BY <3>2, <2>1, <2>2, <2>5, <1>1, <1>2, <1>4
      <4>2. h.failed
        BY <4>1, <2>6
      <4>. QED BY <3>2, <4>1, <4>2, <2>6, <2>7, NothingIs DEF SinkInv
    <3>. QED BY <3>1, <3>2
  <2>. QED BY <2>7, <2>8, <2>9, <1>3, NothingIs, SinkGoes
<1>. QED BY <1>1, <1>2, <1>5, <1>6 DEF Br!Write_Answered, Br!Write_Failed

\* The sink's close looks at no grant and changes no account.
LEMMA CloseSinkKeeps ==
    ASSUME BrokerInv, NEW o \in Operations, Br!CloseSink(o) PROVE BrokerInv'
<1>1. PICK d \in BrokerCalls : d = Br!Call("close", o, 0, "closing") /\ d.kind = "close"
  BY CallIs DEF Parties
<1>2. flight.sink.kind = "none" /\ Br!Accept("sink", d) /\ UNCHANGED <<scope, source, sink, buffered, known, grants, reader>>
  BY <1>1 DEF Br!CloseSink, Br!Idle
<1>3. SinkInv(sink, d) /\ sink \in Sinks
  BY <1>1, <1>2 DEF BrokerInv, BrokerTypeOK, SinkInv
<1>. QED BY <1>2, <1>3, SinkGoes

\* A grant or a release that settles changes nothing but the call.
LEMMA SettledKeeps ==
    ASSUME BrokerInv, NEW r \in {"source", "sink"}, Br!Settled(r) PROVE BrokerInv'
<1>1. CASE r = "source"
  <2>1. PICK s \in Sources, c \in BrokerCalls, q \in Readers :
              /\ source = s /\ flight.source = c /\ reader = q /\ buffered \in Int
              /\ CallInv(c, s) /\ StagedInv(s) /\ ReadGrantInv(s.grant, s, c) /\ Exact(c, s, buffered, q)
    BY SourceFacts
  <2>2. /\ c.kind \in {"grant", "release"} /\ Br!Accept("source", Br!NoCall)
        /\ UNCHANGED <<scope, source, sink, buffered, known, grants, reader>>
    BY <1>1, <2>1 DEF Br!Settled
  <2>3. CallInv(Br!NoCall, s) /\ Exact(Br!NoCall, s, buffered, q)
    BY <2>1, <2>2, NothingIs DEF CallInv, Exact
  <2>4. ReadGrantInv(s.grant, s, Br!NoCall)
    BY <2>1, <2>2, NothingIs DEF ReadGrantInv
  <2>. QED BY <2>1, <2>2, <2>3, <2>4, NothingIs, SourceGoes
<1>2. CASE r = "sink"
  <2>1. /\ flight.sink.kind \in {"grant", "release"} /\ Br!Accept("sink", Br!NoCall)
        /\ UNCHANGED <<scope, source, sink, buffered, known, grants, reader>>
    BY <1>2 DEF Br!Settled
  <2>2. SinkInv(sink, Br!NoCall) /\ sink \in Sinks
    BY <2>1, NothingIs DEF BrokerInv, BrokerTypeOK, SinkInv
  <2>. QED BY <2>1, <2>2, NothingIs, SinkGoes
<1>. QED BY <1>1, <1>2

\* A close that succeeds discards what is staged.
LEMMA CloseAnsweredKeeps ==
    ASSUME BrokerInv, NEW r \in {"source", "sink"}, Br!Close_Answered(r) PROVE BrokerInv'
<1>1. CASE r = "source"
  <2>1. PICK s \in Sources, c \in BrokerCalls, q \in Readers :
              /\ source = s /\ flight.source = c /\ reader = q /\ buffered \in Int
              /\ CallInv(c, s) /\ StagedInv(s) /\ ReadGrantInv(s.grant, s, c) /\ Exact(c, s, buffered, q)
    BY SourceFacts
  <2>2. /\ c.kind \in {"close", "release"} /\ c.stage = "closing" /\ Br!Accept("source", Br!NoCall)
        /\ UNCHANGED <<scope, sink, known, grants, reader>>
    BY <1>1, <2>1 DEF Br!Close_Answered, CallInv
  <2>3. CallInv(Br!NoCall, s) /\ Exact(Br!NoCall, s, buffered, q)
    BY <2>1, <2>2, NothingIs DEF CallInv, Exact
  <2>4. ReadGrantInv(s.grant, s, Br!NoCall)
    BY <2>1, <2>2, NothingIs DEF ReadGrantInv
  <2>5. CASE UNCHANGED <<source, buffered>>
    BY <2>5, <2>1, <2>2, <2>3, <2>4, NothingIs, SourceGoes
  <2>6. CASE Br!Discard /\ source' = [source EXCEPT !.open = FALSE, !.staged = Br!NoChunk]
    <3>1. PICK t : t = [s EXCEPT !.open = FALSE, !.staged = Br!NoChunk]
      OBVIOUS
    <3>2. t \in Sources /\ t.grant = s.grant /\ ~t.open /\ t.at = s.at /\ t.staged = Br!NoChunk /\ source' = t
      BY <3>1, <2>1, <2>6, NothingIs DEF Sources
    <3>3. buffered' = 0
      BY <2>1, <2>2, <2>6, SourceIs DEF Br!Discard, Exact
    <3>4. CallInv(Br!NoCall, t) /\ StagedInv(t) /\ Exact(Br!NoCall, t, buffered', q)
      BY <3>2, <3>3, NothingIs DEF CallInv, StagedInv, Exact
    <3>5. ReadGrantInv(t.grant, t, Br!NoCall)
      BY <3>2, <2>4, NothingIs DEF ReadGrantInv
    <3>. QED BY <3>2, <3>3, <3>4, <3>5, <2>1, <2>2, NothingIs, SourceGoes
  <2>. QED BY <1>1, <2>5, <2>6 DEF Br!Close_Answered
<1>2. CASE r = "sink"
  <2>1. PICK s \in Sinks, c \in BrokerCalls :
              /\ sink = s /\ flight.sink = c /\ SinkInv(s, c)
              /\ s.accepted \in Nat /\ s.grant \in WriteGrants /\ s.grant.id \in Nat
              /\ s.grant.submitted \in Nat /\ s.grant.failed \in BOOLEAN /\ c.max \in Nat
    BY SinkFacts
  <2>2. /\ c.stage = "closing" /\ Br!Accept("sink", Br!NoCall)
        /\ UNCHANGED <<scope, source, buffered, known, grants, reader>>
        /\ sink' = s \/ sink' = [s EXCEPT !.open = FALSE]
    BY <1>2, <2>1 DEF Br!Close_Answered
  <2>3. c.kind # "write"
    BY <2>1, <2>2 DEF SinkInv
  <2>4. SinkInv(s, Br!NoCall)
    BY <2>1, <2>3, NothingIs DEF SinkInv
  <2>5. CASE sink' = s
    BY <2>2, <2>4, <2>5, NothingIs, SinkGoes
  <2>6. CASE sink' = [s EXCEPT !.open = FALSE]
    <3>1. PICK t : t = [s EXCEPT !.open = FALSE]
      OBVIOUS
    <3>2. t \in Sinks /\ t.grant = s.grant /\ t.accepted = s.accepted
      BY <3>1 DEF Sinks
    <3>3. SinkInv(t, Br!NoCall)
      BY <3>2, <2>4 DEF SinkInv
    <3>. QED BY <3>1, <3>2, <3>3, <2>2, <2>6, NothingIs, SinkGoes
  <2>. QED BY <2>2, <2>5, <2>6
<1>. QED BY <1>1, <1>2

\* A cancel marks the call and nothing else.
LEMMA CancelKeeps ==
    ASSUME BrokerInv, NEW r \in {"source", "sink"}, Br!Cancel(r) PROVE BrokerInv'
<1>1. CASE r = "source"
  <2>1. PICK s \in Sources, c \in BrokerCalls, q \in Readers :
              /\ source = s /\ flight.source = c /\ reader = q /\ buffered \in Int
              /\ CallInv(c, s) /\ StagedInv(s) /\ ReadGrantInv(s.grant, s, c) /\ Exact(c, s, buffered, q)
    BY SourceFacts
  <2>2. PICK d : d = [c EXCEPT !.cancelled = TRUE]
    OBVIOUS
  <2>3. /\ d \in BrokerCalls /\ d.kind = c.kind /\ d.by = c.by /\ d.max = c.max /\ d.stage = c.stage
        /\ d.chunk = c.chunk
    BY <2>2 DEF BrokerCalls
  <2>4. /\ c.kind # "none" /\ Br!Accept("source", d)
        /\ UNCHANGED <<scope, source, sink, buffered, known, grants, reader>>
    <3>1. flight' = [flight EXCEPT !["source"] = [flight["source"] EXCEPT !.cancelled = TRUE]]
      BY <1>1 DEF Br!Cancel
    <3>. QED BY <3>1, <1>1, <2>1, <2>2 DEF Br!Cancel, Br!Accept, Br!Idle
  <2>5. CallInv(d, s) /\ Exact(d, s, buffered, q)
    BY <2>1, <2>3, <2>4 DEF CallInv, Exact
  <2>6. ReadGrantInv(s.grant, s, d)
    BY <2>1, <2>3 DEF ReadGrantInv
  <2>. QED BY <2>1, <2>3, <2>4, <2>5, <2>6, SourceGoes
<1>2. CASE r = "sink"
  <2>1. PICK s \in Sinks, c \in BrokerCalls : sink = s /\ flight.sink = c /\ SinkInv(s, c)
    BY SinkFacts
  <2>2. PICK d : d = [c EXCEPT !.cancelled = TRUE]
    OBVIOUS
  <2>3. d \in BrokerCalls /\ d.kind = c.kind /\ d.max = c.max /\ d.stage = c.stage
    BY <2>2 DEF BrokerCalls
  <2>4. /\ Br!Accept("sink", d)
        /\ UNCHANGED <<scope, source, sink, buffered, known, grants, reader>>
    <3>1. flight' = [flight EXCEPT !["sink"] = [flight["sink"] EXCEPT !.cancelled = TRUE]]
      BY <1>2 DEF Br!Cancel
    <3>. QED BY <3>1, <1>2, <2>1, <2>2 DEF Br!Cancel, Br!Accept
  <2>5. SinkInv(s, d)
    BY <2>1, <2>3 DEF SinkInv
  <2>. QED BY <2>1, <2>3, <2>4, <2>5, SinkGoes
<1>. QED BY <1>1, <1>2

\* Every step of the broker keeps its invariant.
LEMMA BrokerStep == ASSUME BrokerInv, Br!BrokerNext PROVE BrokerInv'
<1>1. ASSUME NEW o \in Operations, NEW streaming \in BOOLEAN, Br!GrantRead(o, streaming) PROVE BrokerInv'
  BY <1>1, GrantReadKeeps
<1>2. ASSUME NEW o \in Operations, Br!ReleaseRead(o) \/ Br!GrantWrite(o) \/ Br!CloseSink(o) PROVE BrokerInv'
  BY <1>2, ReleaseReadKeeps, GrantWriteKeeps, CloseSinkKeeps
<1>3. ASSUME NEW o \in Operations, NEW id \in known[o], NEW n \in 1..Chunk, Br!Read(o, id, n) PROVE BrokerInv'
  <2>1. CASE source.staged.there /\ Br!Take(n)
    BY <2>1, <1>3, TakeKeeps
  <2>2. CASE ~source.staged.there
    BY <2>2, <1>3, NativeReadKeeps
  <2>. QED BY <2>1, <2>2, <1>3 DEF Br!Read
<1>4. ASSUME NEW o \in Operations, NEW id \in known[o], NEW n \in 1..Chunk, Br!Write(o, id, n) PROVE BrokerInv'
  BY <1>4, WriteKeeps
<1>5. ASSUME NEW o \in Operations, NEW id \in known[o], NEW to \in 0..Length, Br!Seek(o, id, to) PROVE BrokerInv'
  BY <1>5, SeekKeeps
<1>6. ASSUME NEW o \in Operations, NEW id \in known[o], Br!CloseSource(o, id) PROVE BrokerInv'
  BY <1>6, CloseSourceKeeps
<1>7. CASE \/ Br!Read_Answered \/ Br!Read_Settled \/ Br!Read_Failed \/ Br!Seek_Answered \/ Br!Write_Answered
  BY <1>7, ReadAnsweredKeeps, ReadSettledKeeps, ReadFailedKeeps, SeekAnsweredKeeps, WriteAnsweredKeeps
<1>8. ASSUME NEW r \in {"source", "sink"}, Br!Settled(r) \/ Br!Close_Answered(r) \/ Br!Cancel(r) PROVE BrokerInv'
  BY <1>8, SettledKeeps, CloseAnsweredKeeps, CancelKeeps
<1>. QED BY <1>1, <1>2, <1>3, <1>4, <1>5, <1>6, <1>7, <1>8 DEF Br!BrokerNext

\* The broker's invariant holds at the start.
LEMMA BrokerStarts == ASSUME Br!BrokerInit PROVE BrokerInv
<1>1. PICK k \in {"source", "sink"} :
        /\ source = [open |-> k = "source", at |-> 0, staged |-> Br!NoChunk, grant |-> Br!NoRead]
        /\ sink = [open |-> k = "sink", written |-> FALSE, accepted |-> 0, grant |-> Br!NoWrite]
  BY DEF Br!BrokerInit
<1>2. PICK a \in BOOLEAN, b \in BOOLEAN : (a <=> k = "source") /\ (b <=> k = "sink")
  OBVIOUS
<1>3. (k = "source") = a /\ (k = "sink") = b
  BY <1>2
<1>4. /\ source = [open |-> a, at |-> 0, staged |-> Br!NoChunk, grant |-> Br!NoRead]
      /\ sink = [open |-> b, written |-> FALSE, accepted |-> 0, grant |-> Br!NoWrite]
  BY <1>1, <1>3
<1>5. source \in Sources /\ source.at = 0 /\ source.staged = Br!NoChunk /\ source.grant = Br!NoRead
  BY <1>4, BrokerSizes, NothingIs DEF Sources
<1>6. sink \in Sinks /\ sink.accepted = 0 /\ sink.grant = Br!NoWrite
  BY <1>4, NothingIs DEF Sinks
<1>7. /\ flight \in [source : BrokerCalls, sink : BrokerCalls]
      /\ flight.source = Br!NoCall /\ flight.sink = Br!NoCall
  BY NothingIs DEF Br!BrokerInit
<1>8. /\ scope \in {"operation", "session"} /\ buffered = 0 /\ grants = 0
      /\ known = [o \in Operations |-> {0}] /\ reader = [next |-> 0, sure |-> TRUE]
  BY DEF Br!BrokerInit
<1>9. reader \in Readers /\ reader.next = 0
  BY <1>8 DEF Readers
<1>10. BrokerTypeOK /\ GrantsAreOnes
  BY <1>5, <1>6, <1>7, <1>8, <1>9 DEF BrokerTypeOK, GrantsAreOnes
<1>11. CallInv(flight.source, source) /\ StagedInv(source) /\ SinkInv(sink, flight.sink)
  BY <1>5, <1>6, <1>7, NothingIs DEF CallInv, StagedInv, SinkInv
<1>12. ReadGrantInv(source.grant, source, flight.source) /\ Exact(flight.source, source, buffered, reader)
  BY <1>5, <1>7, <1>8, <1>9, NothingIs DEF ReadGrantInv, Exact
<1>. QED BY <1>10, <1>11, <1>12 DEF BrokerInv

\* The broker's invariant holds.
THEOREM BrokerInvariant == Spec => []BrokerInv
<1>1. Init => BrokerInv
  BY BrokerStarts DEF Init
<1>2. BrokerInv /\ [Next]_vars => BrokerInv'
  <2>. SUFFICES ASSUME BrokerInv, [Next]_vars PROVE BrokerInv'
    OBVIOUS
  <2>1. CASE Br!BrokerNext
    BY <2>1, BrokerStep
  <2>2. CASE UNCHANGED broker
    BY <2>2 DEF broker, BrokerInv, BrokerTypeOK, GrantsAreOnes, CallInv, StagedInv, ReadGrantInv, SinkInv, Exact
  <2>. QED BY <2>1, <2>2 DEF Next, vars
<1>. QED BY <1>1, <1>2, PTL DEF Spec

\* A grant confines, and reads are exact: reads survive cancellation without a lost or
\* repeated octet, and nobody but the holder of a grant uses the source.
THEOREM BrokerIsExact == Spec => []BrokerExact
<1>1. BrokerInv => BrokerExact
  <2>. SUFFICES ASSUME BrokerInv PROVE BrokerExact
    OBVIOUS
  <2>1. Br!ReadsExact
    BY DEF BrokerInv, Exact, Br!ReadsExact
  <2>2. PICK s \in Sources, c \in BrokerCalls, r \in Readers :
              /\ source = s /\ flight.source = c /\ reader = r /\ buffered \in Int
              /\ CallInv(c, s) /\ StagedInv(s) /\ ReadGrantInv(s.grant, s, c) /\ Exact(c, s, buffered, r)
    BY SourceFacts
  <2>3. source.grant.id # 0 =>
          /\ flight.source.kind \in {"read", "seek", "close"} => flight.source.by = source.grant.op
          /\ source.grant.rewound => ~source.staged.there
          /\ ~source.grant.streaming => /\ source.grant.debit <= Extent
                                        /\ source.grant.rewound => source.at <= source.grant.debit
          /\ source.grant.streaming /\ source.grant.rewound => source.grant.offset = source.at
    BY <2>2, SourceIs, CallTypes DEF ReadGrantInv
  <2>4. PICK t \in Sinks, d \in BrokerCalls :
              /\ sink = t /\ flight.sink = d /\ SinkInv(t, d)
              /\ t.accepted \in Nat /\ t.grant \in WriteGrants /\ t.grant.id \in Nat
              /\ t.grant.submitted \in Nat /\ t.grant.failed \in BOOLEAN /\ d.max \in Nat
    BY SinkFacts
  <2>5. /\ t.accepted + (IF d.kind = "write" /\ t.grant # Br!NoWrite THEN d.max ELSE 0) <= t.grant.submitted
        /\ t.grant.submitted <= Extent
        /\ t.grant # Br!NoWrite /\ ~t.grant.failed /\ d.kind = "none" => t.accepted = t.grant.submitted
    <3>1. CASE t.grant.id = 0
      BY <3>1, <2>4, NothingIs, BrokerSizes DEF SinkInv
    <3>2. CASE t.grant.id # 0
      BY <3>2, <2>4, NothingIs, BrokerSizes DEF SinkInv
    <3>. QED BY <3>1, <3>2
  <2>. QED BY <2>1, <2>3, <2>4, <2>5 DEF BrokerExact, Br!DelegationConfined, Br!Idle
<1>. QED BY <1>1, BrokerInvariant, PTL
-----------------------------------------------------------------------------
(* The scheduled work.                                                     *)

\* What PollServiceProofs must be told of the two instances.
LEMMA PollsGiven ==
  /\ One!PollAssumption /\ One!NamesAssumption
  /\ Two!PollAssumption /\ Two!NamesAssumption
<1>1. One!PollAssumption /\ Two!PollAssumption
  BY ServicesAssumption
<1>2. One!NamesAssumption /\ Two!NamesAssumption
  BY DEF One!NamesAssumption, Two!NamesAssumption, One!NoOne, Two!NoOne
<1> QED BY <1>1, <1>2

\* The inductive invariant of the instance that runs.
PollsInv == IF kind = "polls" THEN Two!PollInv ELSE One!PollInv

\* One or the other takes a step, or neither.
LEMMA PollsStep ==
  ASSUME [Next]_vars
  PROVE  /\ kind' = kind
         /\ kind = "polls" => Two!PollNext \/ UNCHANGED polls
         /\ kind # "polls" => One!PollNext \/ UNCHANGED polls
BY DEF Next, vars

THEOREM PollsInvariant == Spec => []PollsInv
<1>1. Init => PollsInv
  <2> SUFFICES ASSUME Init PROVE PollsInv
    OBVIOUS
  <2>1. CASE kind = "polls"
    BY <2>1, PollsGiven, Two!PollStarts DEF Init, PollsInv
  <2>2. CASE kind # "polls"
    BY <2>2, PollsGiven, One!PollStarts DEF Init, PollsInv
  <2> QED BY <2>1, <2>2
<1>2. PollsInv /\ [Next]_vars => PollsInv'
  <2> SUFFICES ASSUME PollsInv, [Next]_vars PROVE PollsInv'
    OBVIOUS
  <2>1. CASE kind = "polls"
    <3>1. Two!PollInv
      BY <2>1 DEF PollsInv
    <3>2. UNCHANGED polls => UNCHANGED Two!pollVars
      BY DEF polls, Two!pollVars
    <3>3. Two!PollInv'
      BY <2>1, <3>1, <3>2, PollsStep, PollsGiven, Two!PollStep, Two!PollStutters
    <3> QED BY <2>1, <3>3, PollsStep DEF PollsInv
  <2>2. CASE kind # "polls"
    <3>1. One!PollInv
      BY <2>2 DEF PollsInv
    <3>2. UNCHANGED polls => UNCHANGED One!pollVars
      BY DEF polls, One!pollVars
    <3>3. One!PollInv'
      BY <2>2, <3>1, <3>2, PollsStep, PollsGiven, One!PollStep, One!PollStutters
    <3> QED BY <2>2, <3>3, PollsStep DEF PollsInv
  <2> QED BY <2>1, <2>2
<1> QED BY <1>1, <1>2, PTL DEF Spec

\* No poll and no idle release is forgotten or scheduled twice, except what is forsaken with
\* a release whose last obstruction was an operation of an older connection; and the bucket
\* that the plans share grants what one refilled at every period would.
THEOREM PollsNotForgotten == Spec => []NothingForgotten
<1>1. PollsInv => NothingForgotten
  <2> SUFFICES ASSUME PollsInv PROVE NothingForgotten
    OBVIOUS
  <2>1. CASE kind = "polls"
    BY <2>1, PollsGiven, Two!NothingIsForgotten, Two!BucketIsExact DEF PollsInv, NothingForgotten
  <2>2. CASE kind # "polls"
    BY <2>2, PollsGiven, One!NothingIsForgotten, One!BucketIsExact DEF PollsInv, NothingForgotten
  <2> QED BY <2>1, <2>2
<1> QED BY <1>1, PollsInvariant, PTL

\* A poll starts on the connection it was scheduled for, at its distance from the last one
\* and from the foreground.
THEOREM PollsAreApart == Spec => PollsKeepDistance
<1>1. PollsInv /\ [Next]_vars => [IF kind = "polls" THEN Two!KeepsDistance ELSE One!KeepsDistance]_polls
  <2> SUFFICES ASSUME PollsInv, [Next]_vars, ~UNCHANGED polls
               PROVE  IF kind = "polls" THEN Two!KeepsDistance ELSE One!KeepsDistance
    OBVIOUS
  <2>1. CASE kind = "polls"
    <3>1. Two!PollInv /\ Two!PollNext
      BY <2>1, PollsStep DEF PollsInv
    <3>2. Two!Given
      BY <3>1, PollsGiven DEF Two!Given, Two!PollInv
    <3>3. Two!KeepsDistance
      BY <3>1, <3>2, Two!StartKeepsDistance
    <3> QED BY <2>1, <3>3
  <2>2. CASE kind # "polls"
    <3>1. One!PollInv /\ One!PollNext
      BY <2>2, PollsStep DEF PollsInv
    <3>2. One!Given
      BY <3>1, PollsGiven DEF One!Given, One!PollInv
    <3>3. One!KeepsDistance
      BY <3>1, <3>2, One!StartKeepsDistance
    <3> QED BY <2>2, <3>3
  <2> QED BY <2>1, <2>2
<1> QED BY <1>1, PollsInvariant, PTL DEF Spec, PollsKeepDistance
=============================================================================
