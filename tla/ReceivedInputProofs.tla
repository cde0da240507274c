------------------------ MODULE ReceivedInputProofs ------------------------
(***************************************************************************)
(* Proofs about ReceivedInputMC: what the receive queue promises, for every*)
(* limit, every set of chunk sizes and every bound, and what the turns of a*)
(* session's activations keep, for any activations, mailboxes and limits.  *)
(*                                                                         *)
(* The queue: its chunks tile the offsets that were accepted and not yet   *)
(* delivered.                                                              *)
(*                                                                         *)
(* The turns: an activation is at one place (Place), and of each thing it  *)
(* may wait for there is one owner: a wait, a read, a call, a relay, a     *)
(* reaction or a turn.  From that, an event that could move it on has a    *)
(* task to come (WakeInv), a mailbox has one consumer (MailInv), a receipt *)
(* one holder (ReceiptInv), and the ledger holds an effect exactly when it *)
(* is owed (LedgerInv).  Each step has a lemma that it keeps all of them.  *)
(***************************************************************************)
EXTENDS ReceivedInputMC, FiniteSetTheorems, SequenceTheorems, WellFoundedInduction, TLAPS

-----------------------------------------------------------------------------
(* The receive queue.                                                      *)

\* The chunks of q tile the offsets from del to acc.  The first conjunct follows
\* from the others by induction over the queue; carried along, it needs none.
Tiles(q, del, acc, drop) ==
    /\ \A i \in 1 .. Len(q) : q[i].at + q[i].size <= acc
    /\ q # <<>> => /\ q[1].at = del /\ drop = 0
                   /\ q[Len(q)].at + q[Len(q)].size = acc
    /\ \A i \in 1 .. Len(q) - 1 : q[i].at + q[i].size = q[i + 1].at

\* The bindings are numbered as they are tried: a new one was never revoked.
BindingsNumbered ==
    /\ custody <= bindings
    /\ revoked \subseteq 1 .. bindings

\* The inductive invariant.
IInv ==
    /\ TypeOK
    /\ OctetsBalance
    /\ queue = <<>> => retained = 0
    /\ Tiles(queue, delivered, accepted, dropped)
    /\ WaiterNeverStranded
    /\ CustodyComplete
    /\ BindingsNumbered

-----------------------------------------------------------------------------
\* Taking the oldest chunk leaves a queue that tiles what comes after it, and the
\* chunk lies within what was accepted.
LEMMA TilesTail ==
    ASSUME NEW q \in Seq(ChunkType), q # <<>>,
           NEW d \in Nat, NEW a \in Nat, NEW x \in Nat, Tiles(q, d, a, x)
    PROVE  /\ Tail(q) \in Seq(ChunkType)
           /\ Head(q) = q[1] /\ q[1] \in ChunkType
           /\ q[1].at = d /\ x = 0
           /\ Tiles(Tail(q), d + q[1].size, a, x)
           /\ d + q[1].size <= a
           /\ Tail(q) = <<>> => d + q[1].size = a
  <1> DEFINE t == Tail(q)
  <1>1. /\ t \in Seq(ChunkType)
        /\ Len(t) = Len(q) - 1
        /\ \A i \in 1 .. Len(t) : t[i] = q[i + 1]
    BY HeadTailProperties DEF t
  <1> HIDE DEF t
  <1>2. Len(q) \in Nat \ {0}
    BY EmptySeq
  <1>3. Head(q) = q[1] /\ q[1] \in ChunkType
    BY <1>2, ElementOfSeq
  <1>4. q[1].size \in Nat \ {0} /\ q[1].at = d /\ x = 0
    BY <1>3 DEF Tiles, ChunkType
  <1>5. d + q[1].size <= a
    BY <1>2, <1>4 DEF Tiles
  <1>6. t = <<>> => d + q[1].size = a
    <2>1. Len(<<>>) = 0
      OBVIOUS
    <2>2. t = <<>> => Len(t) = 0
      BY <2>1, Zenon
    <2>3. Len(t) = 0 => Len(q) = 1
      BY <1>1, <1>2
    <2> QED
      BY <1>4, <2>2, <2>3 DEF Tiles
  <1>7. t # <<>> => Len(q) > 1
    BY <1>1, <1>2, EmptySeq
  <1>8. Tiles(t, d + q[1].size, a, x)
    <2>1. \A i \in 1 .. Len(t) : t[i].at + t[i].size <= a
      BY <1>1, <1>2 DEF Tiles
    <2>2. \A i \in 1 .. Len(t) - 1 : t[i].at + t[i].size = t[i + 1].at
      BY <1>1, <1>2 DEF Tiles
    <2>3. ASSUME t # <<>>
          PROVE  /\ t[1].at = d + q[1].size
                 /\ t[Len(t)].at + t[Len(t)].size = a
      <3>1. Len(q) - 1 \in 1 .. Len(t) /\ 1 \in 1 .. Len(t) /\ 1 \in 1 .. Len(q) - 1
        BY <1>1, <1>2, <1>7, <2>3
      <3>2. t[1] = q[2] /\ t[Len(t)] = q[Len(q)]
        BY <1>1, <1>2, <3>1
      <3> QED
        BY <1>2, <1>4, <3>1, <3>2 DEF Tiles
    <2> QED
      BY <1>4, <2>1, <2>2, <2>3 DEF Tiles
  <1> QED
    BY <1>1, <1>3, <1>4, <1>5, <1>6, <1>8 DEF t

\* Every ticket of the tail is a ticket of the queue.
LEMMA TailTickets ==
    ASSUME NEW q \in Seq(ChunkType), q # <<>>, NEW k, \A i \in DOMAIN q : q[i].ticket = k
    PROVE  \A i \in DOMAIN Tail(q) : Tail(q)[i].ticket = k
  <1>1. /\ Tail(q) \in Seq(ChunkType)
        /\ Len(Tail(q)) = Len(q) - 1
        /\ \A i \in 1 .. Len(Tail(q)) : Tail(q)[i] = q[i + 1]
    BY HeadTailProperties
  <1>2. DOMAIN Tail(q) = 1 .. Len(Tail(q)) /\ DOMAIN q = 1 .. Len(q) /\ Len(q) \in Nat
    BY <1>1, LenProperties
  <1> QED
    BY <1>1, <1>2

\* Every ticket of the queue and of the new chunk is one of the longer queue.
LEMMA AppendTickets ==
    ASSUME NEW q \in Seq(ChunkType), NEW k, \A i \in DOMAIN q : q[i].ticket = k,
           NEW c \in ChunkType, c.ticket = k
    PROVE  \A i \in DOMAIN Append(q, c) : Append(q, c)[i].ticket = k
  <1> DEFINE r == Append(q, c)
  <1>1. /\ r \in Seq(ChunkType) /\ Len(r) = Len(q) + 1
        /\ \A i \in 1 .. Len(q) : r[i] = q[i]
        /\ r[Len(q) + 1] = c
    BY AppendProperties
  <1> HIDE DEF r
  <1>2. DOMAIN r = 1 .. Len(r) /\ DOMAIN q = 1 .. Len(q) /\ Len(q) \in Nat
    BY <1>1, LenProperties
  <1>3. \A i \in DOMAIN r : r[i].ticket = k
    BY <1>1, <1>2
  <1> QED
    BY <1>3 DEF r

\* A census changes tickets only: the chunks stay where they are.
LEMMA TilesRetagged ==
    ASSUME NEW q \in Seq(ChunkType), NEW d, NEW a, NEW x, Tiles(q, d, a, x),
           NEW r, r = [i \in DOMAIN q |-> r[i]],
           \A i \in DOMAIN q : r[i] \in ChunkType /\ r[i].at = q[i].at /\ r[i].size = q[i].size
    PROVE  /\ r \in Seq(ChunkType)
           /\ r = <<>> => q = <<>>
           /\ Tiles(r, d, a, x)
  <1>1. DOMAIN q = 1 .. Len(q) /\ Len(q) \in Nat
    BY LenProperties
  <1>2. r \in Seq(ChunkType)
    BY <1>1, IsASeq
  <1>3. Len(r) = Len(q)
    BY <1>1, <1>2, LenProperties
  <1>4. r = <<>> <=> q = <<>>
    BY <1>2, <1>3, EmptySeq
  <1>5. \A i \in 1 .. Len(q) : r[i].at = q[i].at /\ r[i].size = q[i].size
    BY <1>1
  <1>6. q # <<>> => 1 \in 1 .. Len(q) /\ Len(q) \in 1 .. Len(q)
    BY <1>1, EmptySeq
  <1> QED
    BY <1>1, <1>2, <1>3, <1>4, <1>5, <1>6 DEF Tiles

\* A chunk accepted after a octets extends the tiling to its own end.
LEMMA TilesAppend ==
    ASSUME NEW q \in Seq(ChunkType), NEW d \in Nat, NEW a \in Nat, Tiles(q, d, a, 0),
           q = <<>> => a = d,
           NEW n \in Nat \ {0}, NEW k \in Nat
    PROVE  /\ Append(q, Chunk(a, n, k)) \in Seq(ChunkType)
           /\ Append(q, Chunk(a, n, k)) # <<>>
           /\ Tiles(Append(q, Chunk(a, n, k)), d, a + n, 0)
  <1> DEFINE c == Chunk(a, n, k)
             r == Append(q, c)
  <1>1. c \in ChunkType /\ c.at = a /\ c.size = n
    BY DEF Chunk, ChunkType
  <1>2. /\ r \in Seq(ChunkType) /\ r # <<>> /\ Len(r) = Len(q) + 1
        /\ \A i \in 1 .. Len(q) : r[i] = q[i]
        /\ r[Len(q) + 1] = c
    BY <1>1, AppendProperties
  <1>3. Len(q) \in Nat /\ (q # <<>> => Len(q) # 0)
    BY EmptySeq
  <1>4. \A i \in 1 .. Len(q) : q[i] \in ChunkType
    BY ElementOfSeq
  <1> HIDE DEF c, r
  <1>5. \A i \in 1 .. Len(r) : r[i].at + r[i].size <= a + n
    <2> SUFFICES ASSUME NEW i \in 1 .. Len(q) + 1 PROVE r[i].at + r[i].size <= a + n
      BY <1>2
    <2>1. CASE i = Len(q) + 1
      BY <1>1, <1>2, <2>1
    <2>2. CASE i \in 1 .. Len(q)
      <3>1. r[i] = q[i] /\ q[i].at \in Nat /\ q[i].size \in Nat
        BY <1>2, <1>4, <2>2 DEF ChunkType
      <3>2. q[i].at + q[i].size <= a
        BY <2>2 DEF Tiles
      <3> QED
        BY <3>1, <3>2
    <2> QED
      BY <1>3, <2>1, <2>2
  <1>6. r[1].at = d /\ r[Len(r)].at + r[Len(r)].size = a + n
    <2>1. r[Len(r)] = c
      BY <1>2
    <2>2. CASE q = <<>>
      <3>1. Len(q) = 0
        BY <2>2
      <3>2. r[1] = c /\ a = d
        BY <1>2, <2>2, <3>1
      <3> QED
        BY <1>1, <2>1, <3>2
    <2>3. CASE q # <<>>
      <3>1. r[1] = q[1]
        BY <1>2, <1>3, <2>3
      <3>2. q[1].at = d
        BY <2>3 DEF Tiles
      <3> QED
        BY <1>1, <2>1, <3>1, <3>2
    <2> QED
      BY <2>2, <2>3
  <1>7. \A i \in 1 .. Len(r) - 1 : r[i].at + r[i].size = r[i + 1].at
    <2> SUFFICES ASSUME NEW i \in 1 .. Len(q) PROVE r[i].at + r[i].size = r[i + 1].at
      BY <1>2, <1>3
    <2>1. CASE i < Len(q)
      BY <1>2, <1>3, <2>1 DEF Tiles
    <2>2. CASE i = Len(q)
      BY <1>1, <1>2, <1>3, <2>2 DEF Tiles
    <2> QED
      BY <1>3, <2>1, <2>2
  <1>8. Tiles(r, d, a + n, 0)
    BY <1>2, <1>5, <1>6, <1>7 DEF Tiles
  <1> QED
    BY <1>2, <1>8 DEF c, r
-----------------------------------------------------------------------------
\* What the invariant says where a step reads the queue.
LEMMA QueueFacts ==
    ASSUME IInv
    PROVE  /\ queue \in Seq(ChunkType)
           /\ Tiles(queue, delivered, accepted, dropped)
           /\ queue = <<>> => accepted = delivered + dropped
           /\ termination = "none" => dropped = 0 /\ accepted = delivered + retained
  BY DEF IInv, TypeOK, OctetsBalance

LEMMA InitInv == Init => IInv
  <1> SUFFICES ASSUME Init PROVE IInv
    OBVIOUS
  <1>1. TypeOK
    BY EmptySeq DEF Init, TypeOK, NoRead
  <1>2. Tiles(queue, delivered, accepted, dropped)
    BY EmptySeq DEF Init, Tiles
  <1> QED
    BY <1>1, <1>2, IngressAssumption
    DEF Init, IInv, OctetsBalance, WaiterNeverStranded, CustodyComplete, BindingsNumbered

\* A read that asks and finds a chunk.
LEMMA NextChunkInv == IInv /\ Next_Chunk => IInv'
  <1> SUFFICES ASSUME IInv, Next_Chunk PROVE IInv'
    OBVIOUS
  <1> DEFINE n == queue[1].size
  <1>1. /\ Tail(queue) \in Seq(ChunkType)
        /\ Head(queue) = queue[1] /\ queue[1] \in ChunkType
        /\ queue[1].at = delivered /\ dropped = 0
        /\ Tiles(Tail(queue), delivered + n, accepted, dropped)
        /\ delivered + n <= accepted
        /\ Tail(queue) = <<>> => delivered + n = accepted
    BY TilesTail, QueueFacts DEF IInv, TypeOK, Next_Chunk
  <1>2. n \in Nat \ {0}
    BY <1>1 DEF ChunkType
  <1>3. /\ queue' = Tail(queue) /\ retained' = retained - n /\ delivered' = delivered + n
        /\ outcome' = [kind |-> "chunk", at |-> delivered, size |-> n]
        /\ queue # <<>>
        /\ UNCHANGED <<pending, termination, custody, revoked, dropped, highWater, accepted,
                       rejected, consumer, consumers, bindings>>
    BY <1>1 DEF Next_Chunk, Dequeue, ChunkRead, metrics, identity
  <1> HIDE DEF n
  <1>4. TypeOK' /\ OctetsBalance' /\ (queue' = <<>> => retained' = 0)
    BY <1>1, <1>2, <1>3, IngressAssumption DEF IInv, TypeOK, OctetsBalance
  <1>5. WaiterNeverStranded'
    BY <1>3 DEF IInv, WaiterNeverStranded
  <1>6. CustodyComplete'
    BY <1>1, <1>3, TailTickets DEF IInv, CustodyComplete, TypeOK
  <1> QED
    BY <1>1, <1>3, <1>4, <1>5, <1>6 DEF IInv, BindingsNumbered

\* A step that ends the channel, whoever ends it, with the queue as it is.
LEMMA TerminateInv ==
    ASSUME IInv, termination = "none", NEW t \in Kinds,
           Terminate(queue, retained, t), rejected' \in Nat,
           UNCHANGED <<highWater, accepted, dropped, identity>>
    PROVE  IInv'
  <1>1. t # "none"
    BY IngressAssumption
  <1>2. /\ queue' = queue /\ retained' = retained /\ delivered' = delivered
        /\ pending' = 0 /\ custody' = 0 /\ termination' = t
        /\ outcome' \in {outcome, DoneRead, ErrorRead}
        /\ revoked' \subseteq revoked \cup ({custody} \ {0})
    BY <1>1 DEF Terminate, SettlePending, IInv, WaiterNeverStranded, TerminalRead, TypeOK
  <1>3. TypeOK'
    BY <1>2 DEF IInv, TypeOK, identity, DoneRead, ErrorRead
  <1>4. BindingsNumbered'
    BY <1>2 DEF IInv, BindingsNumbered, identity, TypeOK
  <1> QED
    BY <1>1, <1>2, <1>3, <1>4
    DEF IInv, OctetsBalance, WaiterNeverStranded, CustodyComplete, identity

\* A chunk that fits: it joins the queue, or goes straight to the read that waits.
LEMMA PushAcceptInv == \A n \in Sizes : IInv /\ PushAccept(n) => IInv'
  <1> SUFFICES ASSUME NEW n \in Sizes, IInv, PushAccept(n) PROVE IInv'
    OBVIOUS
  <1> DEFINE c == Chunk(accepted, n, custody)
             r == Append(queue, c)
  <1>1. n \in Nat \ {0} /\ n <= HardLimit - retained /\ termination = "none"
    BY IngressAssumption DEF PushAccept
  <1>2. /\ queue \in Seq(ChunkType) /\ accepted \in Nat /\ delivered \in Nat /\ custody \in Nat
        /\ dropped = 0 /\ (queue = <<>> => accepted = delivered)
        /\ Tiles(queue, delivered, accepted, 0)
    BY <1>1 DEF IInv, TypeOK, OctetsBalance
  <1>3. r \in Seq(ChunkType) /\ r # <<>> /\ Tiles(r, delivered, accepted + n, 0)
    BY <1>1, <1>2, TilesAppend
  <1>4. c \in ChunkType /\ c.ticket = custody /\ c.size = n /\ c.at = accepted
    BY <1>1, <1>2 DEF Chunk, ChunkType
  <1>5. custody # 0 => \A i \in DOMAIN r : r[i].ticket = custody
    BY <1>2, <1>4, AppendTickets DEF IInv, CustodyComplete
  <1>6. queue = <<>> => r[1] = c
    BY <1>4
  <1>7. /\ accepted' = accepted + n
        /\ highWater' \in Nat /\ highWater' >= retained + n
        /\ highWater' >= highWater /\ highWater' <= HardLimit
        /\ SettlePending(r, retained + n, termination)
        /\ UNCHANGED <<termination, custody, rejected, revoked, dropped, consumer, consumers,
                       bindings>>
    BY <1>1, IngressAssumption DEF PushAccept, IInv, TypeOK, OctetsBalance, identity
  <1> HIDE DEF c, r
  <1>8. CASE pending = 0
    <2>1. queue' = r /\ retained' = retained + n /\ UNCHANGED <<delivered, pending, outcome>>
      BY <1>7, <1>8 DEF SettlePending
    <2>2. TypeOK' /\ OctetsBalance'
      BY <1>1, <1>2, <1>3, <1>7, <2>1 DEF IInv, TypeOK, OctetsBalance
    <2> QED
      BY <1>2, <1>3, <1>5, <1>7, <1>8, <2>1, <2>2
      DEF IInv, WaiterNeverStranded, CustodyComplete, BindingsNumbered
  <1>9. CASE pending # 0
    <2>1. queue = <<>> /\ retained = 0 /\ accepted = delivered /\ r[1] = c
      BY <1>2, <1>6, <1>9 DEF IInv, WaiterNeverStranded
    <2>2. /\ Tail(r) \in Seq(ChunkType) /\ Head(r) = c
          /\ Tiles(Tail(r), delivered + n, accepted + n, 0)
      BY <1>1, <1>2, <1>3, <1>4, <2>1, TilesTail
    <2>3. custody # 0 => \A i \in DOMAIN Tail(r) : Tail(r)[i].ticket = custody
      BY <1>3, <1>5, TailTickets
    <2>4. /\ queue' = Tail(r) /\ retained' = 0 /\ delivered' = delivered + n /\ pending' = 0
          /\ outcome' = [kind |-> "chunk", at |-> accepted, size |-> n]
      BY <1>1, <1>3, <1>4, <1>7, <1>9, <2>1, <2>2 DEF SettlePending, Dequeue, ChunkRead
    <2>5. TypeOK' /\ OctetsBalance'
      BY <1>1, <1>2, <1>7, <2>1, <2>2, <2>4 DEF IInv, TypeOK, OctetsBalance
    <2> QED
      BY <1>2, <1>7, <2>2, <2>3, <2>4, <2>5
      DEF IInv, WaiterNeverStranded, CustodyComplete, BindingsNumbered
  <1> QED
    BY <1>8, <1>9

\* What is discarded is gone from the queue, and the channel is over.
LEMMA DiscardInv == IInv /\ Discard => IInv'
  <1> SUFFICES ASSUME IInv, Discard PROVE IInv'
    OBVIOUS
  <1>1. /\ queue' = <<>> /\ retained' = 0 /\ delivered' = delivered
        /\ dropped' = dropped + retained
        /\ termination' \in Kinds /\ pending' = 0 /\ custody' = 0
        /\ outcome' \in {outcome, DoneRead, ErrorRead}
        /\ revoked' \subseteq revoked \cup ({custody} \ {0})
        /\ UNCHANGED <<highWater, accepted, rejected, consumer, consumers, bindings>>
    BY IngressAssumption DEF Discard, Terminate, SettlePending, TerminalRead, IInv, TypeOK,
       WaiterNeverStranded, CustodyComplete, metrics, identity
  <1>2. TypeOK' /\ OctetsBalance'
    BY <1>1, EmptySeq, IngressAssumption DEF IInv, TypeOK, OctetsBalance, DoneRead, ErrorRead
  <1>3. Tiles(queue', delivered', accepted', dropped')
    BY <1>1, EmptySeq DEF Tiles
  <1>4. BindingsNumbered'
    BY <1>1 DEF IInv, BindingsNumbered, TypeOK
  <1> QED
    BY <1>1, <1>2, <1>3, <1>4 DEF IInv, WaiterNeverStranded, CustodyComplete

\* A binding that is installed and one that fails change the tickets only.
LEMMA BindInv == IInv /\ (Bind \/ BindFails) => IInv'
  <1> SUFFICES ASSUME IInv, Bind \/ BindFails PROVE IInv'
    OBVIOUS
  <1>1. queue \in Seq(ChunkType) /\ bindings + 1 \in Nat /\ bindings \in Nat
    BY DEF IInv, TypeOK
  <1>2. \A i \in DOMAIN queue : queue[i] \in ChunkType
    BY <1>1, ElementOfSeq, LenProperties
  <1>3. /\ queue' = [i \in DOMAIN queue |-> queue'[i]]
        /\ \A i \in DOMAIN queue : queue'[i] \in {queue[i], [queue[i] EXCEPT !.ticket = bindings + 1]}
    BY DEF Bind, BindFails
  <1>4. \A i \in DOMAIN queue : /\ queue'[i] \in ChunkType
                               /\ queue'[i].at = queue[i].at /\ queue'[i].size = queue[i].size
    BY <1>1, <1>2, <1>3 DEF ChunkType
  <1>5. /\ queue' \in Seq(ChunkType)
        /\ queue' = <<>> => queue = <<>>
        /\ Tiles(queue', delivered, accepted, dropped)
    BY <1>1, <1>3, <1>4, TilesRetagged, QueueFacts
  <1>6. /\ bindings' = bindings + 1 /\ CanBind
        /\ UNCHANGED <<pending, termination, consumer, retained, highWater, accepted, rejected,
                       delivered, consumers, dropped, outcome>>
    BY DEF Bind, BindFails, metrics
  <1>7. TypeOK' /\ OctetsBalance' /\ WaiterNeverStranded'
    BY <1>1, <1>5, <1>6 DEF Bind, BindFails, CanBind, IInv, TypeOK, OctetsBalance, WaiterNeverStranded
  <1>8. CASE Bind
    <2>1. custody' = bindings + 1 /\ revoked' = revoked
      BY <1>8 DEF Bind
    <2>2. \A i \in DOMAIN queue' : queue'[i].ticket = custody'
      <3>1. queue' = [i \in DOMAIN queue |-> [queue[i] EXCEPT !.ticket = bindings + 1]]
        BY <1>8 DEF Bind
      <3> QED
        BY <1>2, <2>1, <3>1 DEF ChunkType
    <2>3. CustodyComplete' /\ BindingsNumbered'
      BY <1>1, <1>6, <2>1, <2>2 DEF IInv, CustodyComplete, BindingsNumbered, CanBind
    <2> QED
      BY <1>5, <1>6, <1>7, <2>3 DEF IInv
  <1>9. CASE BindFails
    <2>1. custody' = 0 /\ revoked' = revoked \cup {bindings + 1}
      BY <1>9 DEF BindFails, CanBind
    <2>2. CustodyComplete' /\ BindingsNumbered'
      BY <1>1, <1>6, <2>1 DEF IInv, CustodyComplete, BindingsNumbered
    <2> QED
      BY <1>5, <1>6, <1>7, <2>2 DEF IInv
  <1> QED
    BY <1>8, <1>9

\* The steps that leave the queue alone.
LEMMA OtherInv ==
    /\ \A n \in Sizes : IInv /\ PushTerminated(n) => IInv'
    /\ IInv /\ (Incoming \/ Next_Terminal \/ Next_Wait \/ Release \/ Dispose) => IInv'
  <1> USE DEF IInv, TypeOK, OctetsBalance, WaiterNeverStranded, CustodyComplete,
              BindingsNumbered, metrics, identity
  <1>1. ASSUME NEW n \in Sizes, IInv, PushTerminated(n) PROVE IInv'
    BY <1>1, IngressAssumption DEF PushTerminated
  <1>2. ASSUME IInv, Incoming PROVE IInv'
    BY <1>2 DEF Incoming
  <1>3. ASSUME IInv, Next_Terminal PROVE IInv'
    BY <1>3 DEF Next_Terminal, TerminalRead, DoneRead, ErrorRead
  <1>4. ASSUME IInv, Next_Wait PROVE IInv'
    BY <1>4 DEF Next_Wait
  <1>5. ASSUME IInv, Release PROVE IInv'
    BY <1>5 DEF Release, DoneRead
  <1>6. ASSUME IInv, Dispose PROVE IInv'
    BY <1>6 DEF Dispose
  <1> QED
    BY <1>1, <1>2, <1>3, <1>4, <1>5, <1>6

\* Every step keeps the invariant.
LEMMA NextInv == IInv /\ [Next]_vars => IInv'
  <1> SUFFICES ASSUME IInv, [Next]_vars PROVE IInv'
    OBVIOUS
  <1>1. CASE \E n \in Sizes : PushOverflow(n)
    <2>1. PICK n \in Sizes : PushOverflow(n)
      BY <1>1
    <2>2. rejected' \in Nat
      BY <2>1, IngressAssumption DEF PushOverflow, IInv, TypeOK
    <2> QED
      BY <2>1, <2>2, TerminateInv, IngressAssumption DEF PushOverflow
  <1>2. CASE \E n \in Sizes : PushRefused(n)
    <2>1. PICK n \in Sizes : PushRefused(n)
      BY <1>2
    <2>2. rejected' \in Nat
      BY <2>1 DEF PushRefused, IInv, TypeOK, metrics
    <2> QED
      BY <2>1, <2>2, TerminateInv, IngressAssumption DEF PushRefused, metrics
  <1>3. CASE Close
    <2>1. PICK t \in Kinds : Terminate(queue, retained, t)
      BY <1>3 DEF Close
    <2>2. rejected' \in Nat
      BY <1>3 DEF Close, IInv, TypeOK, metrics
    <2> QED
      BY <1>3, <2>1, <2>2, TerminateInv DEF Close, metrics
  <1>4. CASE \E n \in Sizes : PushAccept(n) \/ PushTerminated(n)
    BY <1>4, PushAcceptInv, OtherInv
  <1>5. CASE Next_Chunk
    BY <1>5, NextChunkInv
  <1>6. CASE Discard
    BY <1>6, DiscardInv
  <1>7. CASE Bind \/ BindFails
    BY <1>7, BindInv
  <1>8. CASE Incoming \/ Next_Terminal \/ Next_Wait \/ Release \/ Dispose
    BY <1>8, OtherInv
  <1>9. CASE UNCHANGED vars
    BY <1>9 DEF vars, IInv, TypeOK, OctetsBalance, Tiles, WaiterNeverStranded, CustodyComplete,
                BindingsNumbered
  <1> QED
    BY <1>1, <1>2, <1>3, <1>4, <1>5, <1>6, <1>7, <1>8, <1>9 DEF Next, Push

\* The inductive invariant holds of every behaviour.
THEOREM IngressInvariant == Spec => []IInv
  BY InitInv, NextInv, PTL DEF Spec

\* The state always has its type.
THEOREM IngressTypeOK == Spec => []TypeOK
  BY IngressInvariant, PTL DEF IInv

\* No accepted octet is ever lost while the channel is open, whatever the limit,
\* the chunks and the order of pushes, reads, releases, closes and bindings.
THEOREM IngressNoSilentLoss == Spec => []NoSilentLoss
  <1>1. IInv => NoSilentLoss
    BY DEF IInv, NoSilentLoss, QueueTilesRetained, Tiles
  <1> QED
    BY <1>1, IngressInvariant, PTL

\* A read never sleeps over a queued chunk or over the end of the channel.
THEOREM IngressWaiter == Spec => []WaiterNeverStranded
  BY IngressInvariant, PTL DEF IInv

\* An installed custody sink has a ticket in every queued chunk.
THEOREM IngressCustody == Spec => []CustodyComplete
  BY IngressInvariant, PTL DEF IInv

-----------------------------------------------------------------------------
\* What a step hands out, if anything.
HandedInOrder ==
    delivered' # delivered =>
        outcome' = [kind |-> "chunk", at |-> delivered, size |-> delivered' - delivered]

\* Only a read that finds a chunk and a push that meets a waiting read hand out
\* octets, and both hand out the oldest that were accepted.
LEMMA InOrderStep == IInv /\ [Next]_vars => HandedInOrder
  <1> SUFFICES ASSUME IInv, [Next]_vars, delivered' # delivered
               PROVE  outcome' = [kind |-> "chunk", at |-> delivered,
                                  size |-> delivered' - delivered]
    BY DEF HandedInOrder
  <1>1. delivered \in Nat /\ queue \in Seq(ChunkType)
    BY DEF IInv, TypeOK
  <1>2. CASE Next_Chunk
    <2>1. queue # <<>> /\ Head(queue) \in ChunkType /\ Head(queue).at = delivered
      BY <1>1, <1>2, TilesTail, QueueFacts DEF Next_Chunk, IInv, TypeOK
    <2>2. Head(queue).size \in Nat
      BY <2>1 DEF ChunkType
    <2> QED
      BY <1>1, <1>2, <2>1, <2>2 DEF Next_Chunk, Dequeue, ChunkRead
  <1>3. ASSUME NEW n \in Sizes, PushAccept(n)
        PROVE  outcome' = [kind |-> "chunk", at |-> delivered, size |-> delivered' - delivered]
    <2> DEFINE c == Chunk(accepted, n, custody)
    <2>1. /\ SettlePending(Append(queue, c), retained + n, termination)
          /\ termination = "none" /\ n \in Nat
      BY <1>3, IngressAssumption DEF PushAccept
    <2>2. pending # 0
      BY <2>1 DEF SettlePending
    <2>3. queue = <<>> /\ accepted = delivered
      BY <2>1, <2>2 DEF IInv, WaiterNeverStranded, OctetsBalance, TypeOK
    <2>4. Append(queue, c) # <<>> /\ Head(Append(queue, c)) = c
      BY <2>3
    <2>5. c.at = delivered /\ c.size = n
      BY <2>3 DEF Chunk
    <2> HIDE DEF c
    <2> QED
      BY <1>1, <2>1, <2>2, <2>4, <2>5 DEF SettlePending, Dequeue, ChunkRead
  <1>4. CASE UNCHANGED delivered
    BY <1>4
  <1>5. CASE \E n \in Sizes : PushTerminated(n) \/ PushOverflow(n) \/ PushRefused(n)
    BY <1>5 DEF PushTerminated, PushOverflow, PushRefused, Terminate, SettlePending, IInv,
                WaiterNeverStranded
  <1>6. CASE Close \/ Discard
    BY <1>6 DEF Close, Discard, Terminate, SettlePending, IInv, WaiterNeverStranded
  <1>7. CASE Incoming \/ Next_Terminal \/ Next_Wait \/ Release \/ Bind \/ BindFails \/ Dispose
    BY <1>7 DEF Incoming, Next_Terminal, Next_Wait, Release, Bind, BindFails, Dispose
  <1> QED
    BY <1>2, <1>3, <1>4, <1>5, <1>6, <1>7 DEF Next, Push, vars

\* Chunks reach the consumers in the order they were accepted, without a gap and
\* without a repetition.
THEOREM IngressDeliveredInOrder == Spec => DeliveredInOrder
  <1>1. IInv /\ [Next]_vars =>
          [delivered' # delivered =>
             /\ outcome' = [kind |-> "chunk", at |-> delivered, size |-> delivered' - delivered]
          ]_vars
    BY InOrderStep DEF HandedInOrder
  <1> QED
    BY <1>1, IngressInvariant, PTL DEF Spec, DeliveredInOrder

\* A behaviour of the instances is one of the queue, so the queue's promises hold there.
THEOREM PathsAreIngress == PathSpec => Spec
<1>1. PathInit => Init
  BY DEF PathInit
<1>2. [PathNext]_<<kind, custodyState, schedulerState, vars>> => [Next]_vars
  BY DEF PathNext, vars
<1> QED BY <1>1, <1>2, PTL DEF PathSpec, Spec

-----------------------------------------------------------------------------
(* Of numbers and sequences.                                               *)

\* A finite set of numbers has a greatest and a least.
LEMMA FiniteExtremes ==
    ASSUME NEW S, IsFiniteSet(S), S \subseteq Nat, S # {}
    PROVE  /\ \E x \in S : \A y \in S : x >= y
           /\ \E x \in S : \A y \in S : x <= y
<1> DEFINE T == {U \in SUBSET S : U # {} /\ ~ (/\ \E x \in U : \A y \in U : x >= y
                                               /\ \E x \in U : \A y \in U : x <= y)}
<1>1. SUFFICES ASSUME T # {} PROVE FALSE
  <2>1. S \in SUBSET S
    OBVIOUS
  <2> QED BY <2>1
<1>2. IsWellFoundedOn(StrictSubsetOrdering(S), SUBSET S)
  BY FS_StrictSubsetOrderingWellFounded, FS_FiniteSubsetsOfFinite
<1>3. T \subseteq SUBSET S
  OBVIOUS
<1>4. PICK U \in T : \A V \in T : <<V, U>> \notin StrictSubsetOrdering(S)
  <2> HIDE DEF T
  <2> QED BY <1>1, <1>2, <1>3, WFMin
<1>5. U \subseteq S /\ U # {} /\ \A x \in U : x \in Nat
  BY <1>4
<1>6. PICK x \in U : TRUE
  BY <1>5
<1>7. U \ {x} # {}
  <2> SUFFICES ASSUME U = {x} PROVE FALSE
    BY <1>6
  <2>1. x \in Nat
    BY <1>5, <1>6
  <2>2. x >= x /\ x <= x
    BY <2>1
  <2> QED BY <1>4, <2>2
<1>8. U \ {x} \notin T
  BY <1>4, <1>5, <1>6 DEF StrictSubsetOrdering
<1>9. PICK m \in U \ {x}, n \in U \ {x} : \A y \in U \ {x} : m >= y /\ n <= y
  BY <1>5, <1>7, <1>8
<1>10. /\ \E z \in U : \A y \in U : z >= y
       /\ \E z \in U : \A y \in U : z <= y
  <2>1. x \in Nat /\ m \in Nat /\ n \in Nat /\ \A y \in U : y \in Nat /\ (y = x \/ (m >= y /\ n <= y))
    BY <1>5, <1>6, <1>9
  <2>2. \E z \in U : \A y \in U : z >= y
    <3>1. CASE x >= m
      BY <1>6, <2>1, <3>1
    <3>2. CASE m >= x
      BY <1>9, <2>1, <3>2
    <3> QED BY <2>1, <3>1, <3>2
  <2>3. \E z \in U : \A y \in U : z <= y
    <3>1. CASE x <= n
      BY <1>6, <2>1, <3>1
    <3>2. CASE n <= x
      BY <1>9, <2>1, <3>2
    <3> QED BY <2>1, <3>1, <3>2
  <2> QED BY <2>2, <2>3
<1> QED BY <1>4, <1>10

\* Any set of numbers has a least.
LEMMA Least ==
    ASSUME NEW S, S \subseteq Nat, S # {}
    PROVE  \E x \in S : \A y \in S : x <= y
<1>1. PICK n \in S : TRUE
  OBVIOUS
<1>2. PICK U : U = {x \in S : x <= n}
  OBVIOUS
<1>3. IsFiniteSet(U) /\ U # {} /\ U \subseteq Nat
  <2>1. n \in Nat /\ U \in SUBSET Nat /\ \A x \in U : x <= n
    BY <1>1, <1>2
  <2>2. IsFiniteSet(U)
    BY <2>1, FS_BoundedSetOfNaturals
  <2> QED BY <1>1, <1>2, <2>1, <2>2
<1>4. PICK x \in U : \A y \in U : x <= y
  BY <1>3, FiniteExtremes
<1>5. \A y \in S : x <= y
  <2> TAKE y \in S
  <2>1. x \in Nat /\ y \in Nat /\ n \in Nat /\ x <= n
    BY <1>1, <1>2, <1>3, <1>4
  <2>2. CASE y <= n
    BY <1>2, <1>4, <2>2
  <2> QED BY <2>1, <2>2
<1> QED BY <1>2, <1>4, <1>5

\* The values of a function on a finite set.
LEMMA FiniteValues ==
    ASSUME NEW f, IsFiniteSet(DOMAIN f)
    PROVE  IsFiniteSet({f[x] : x \in DOMAIN f})
<1>1. PICK T : T = {f[x] : x \in DOMAIN f}
  OBVIOUS
<1>2. PICK g : g = [x \in DOMAIN f |-> f[x]]
  OBVIOUS
<1>3. g \in Surjection(DOMAIN f, T)
  BY <1>1, <1>2 DEF Surjection
<1> QED BY <1>1, <1>3, FS_Surjection

\* A few elements.
LEMMA Triples == \A x, y, z : IsFiniteSet({x, y, z})
<1> TAKE x, y, z
<1>1. IsFiniteSet({x})
  BY FS_Singleton
<1>2. IsFiniteSet({x} \cup {y})
  BY <1>1, FS_AddElement
<1>3. IsFiniteSet(({x} \cup {y}) \cup {z})
  BY <1>2, FS_AddElement
<1>4. ({x} \cup {y}) \cup {z} = {x, y, z}
  OBVIOUS
<1> QED BY <1>3, <1>4

\* The elements of a sequence.
LEMMA FiniteElements ==
    ASSUME NEW S, NEW q \in Seq(S)
    PROVE  IsFiniteSet({q[i] : i \in DOMAIN q}) /\ {q[i] : i \in DOMAIN q} \subseteq S
<1>1. DOMAIN q = 1..Len(q) /\ Len(q) \in Nat
  BY LenProperties
<1>2. IsFiniteSet(DOMAIN q)
  BY <1>1, FS_Interval
<1> QED BY <1>1, <1>2, FiniteValues, ElementOfSeq

\* What is left of a sequence without its head.
LEMMA TailFacts ==
    ASSUME NEW S, NEW q \in Seq(S), q # <<>>
    PROVE  /\ Tail(q) \in Seq(S) /\ Len(q) \in Nat
           /\ DOMAIN q = 1..Len(q) /\ DOMAIN Tail(q) = 1..Len(q) - 1
           /\ 1 \in DOMAIN q /\ Head(q) = q[1] /\ q[1] \in S
           /\ \A i \in DOMAIN Tail(q) : Tail(q)[i] = q[i + 1] /\ i + 1 \in DOMAIN q
           /\ \A i \in DOMAIN q : i # 1 => i - 1 \in DOMAIN Tail(q) /\ Tail(q)[i - 1] = q[i]
<1>1. /\ Tail(q) \in Seq(S) /\ Len(Tail(q)) = Len(q) - 1
      /\ \A i \in 1 .. Len(Tail(q)) : Tail(q)[i] = q[i + 1]
  BY HeadTailProperties
<1>2. Len(q) \in Nat /\ DOMAIN q = 1..Len(q) /\ Len(q) # 0
  BY LenProperties, EmptySeq
<1>3. DOMAIN Tail(q) = 1..Len(q) - 1
  BY <1>1, LenProperties
<1>4. Head(q) = q[1] /\ q[1] \in S
  BY <1>2, ElementOfSeq
<1> QED BY <1>1, <1>2, <1>3, <1>4

\* A sequence with an element appended.
LEMMA AppendFacts ==
    ASSUME NEW S, NEW q \in Seq(S), NEW e \in S
    PROVE  /\ Append(q, e) \in Seq(S) /\ Len(q) \in Nat
           /\ DOMAIN q = 1..Len(q) /\ DOMAIN Append(q, e) = 1..Len(q) + 1
           /\ \A i \in DOMAIN q : Append(q, e)[i] = q[i] /\ i \in DOMAIN Append(q, e)
           /\ Append(q, e)[Len(q) + 1] = e
           /\ \A i \in DOMAIN Append(q, e) : i \in DOMAIN q \/ i = Len(q) + 1
<1>1. Append(q, e) \in Seq(S) /\ Len(Append(q, e)) = Len(q) + 1
  BY AppendProperties
<1>2. Len(q) \in Nat /\ DOMAIN q = 1..Len(q)
  BY LenProperties
<1>3. DOMAIN Append(q, e) = 1..Len(q) + 1
  BY <1>1, LenProperties
<1> QED BY <1>1, <1>2, <1>3, AppendProperties

Distinct(q) == \A i, j \in DOMAIN q : q[i] = q[j] => i = j
In(q) == {q[i] : i \in DOMAIN q}

\* What is left when an element is removed.
LEMMA RemoveFirstFacts ==
    ASSUME NEW S, NEW q \in Seq(S), Distinct(q), NEW e
    PROVE  LET r == Turns!RemoveFirst(q, e)
           IN  r \in Seq(S) /\ Distinct(r) /\ In(r) = In(q) \ {e} /\ Len(r) <= Len(q)
<1> DEFINE r == Turns!RemoveFirst(q, e)
<1>1. Len(q) \in Nat /\ DOMAIN q = 1..Len(q) /\ \A i \in 1..Len(q) : q[i] \in S
  BY LenProperties, ElementOfSeq
<1>2. CASE \A i \in 1..Len(q) : q[i] # e
  <2>1. r = q
    BY <1>2 DEF Turns!RemoveFirst
  <2> QED BY <1>1, <1>2, <2>1 DEF In
<1>3. CASE \E i \in 1..Len(q) : q[i] = e
  <2>1. PICK k \in 1..Len(q) : q[k] = e
    BY <1>3
  <2>2. {i \in 1..Len(q) : q[i] = e} = {k}
    BY <1>1, <2>1 DEF Distinct
  <2>3. Turns!Min({k}) = k
    BY <2>1 DEF Turns!Min
  <2>4. Turns!SelectInSeq(q, LAMBDA v : v = e) = k
    BY <2>2, <2>3 DEF Turns!SelectInSeq
  <2>5. r = SubSeq(q, 1, k - 1) \o SubSeq(q, k + 1, Len(q))
    BY <1>3, <2>4 DEF Turns!RemoveFirst, Turns!RemoveAt
  <2>6. PICK n : n = Len(q)
    OBVIOUS
  <2>7. /\ SubSeq(q, 1, k - 1) \in Seq(S) /\ Len(SubSeq(q, 1, k - 1)) = k - 1
        /\ \A i \in 1 .. k - 1 : SubSeq(q, 1, k - 1)[i] = q[i]
    BY <1>1, SubSeqProperties
  <2>8. /\ SubSeq(q, k + 1, n) \in Seq(S) /\ Len(SubSeq(q, k + 1, n)) = n - k
        /\ \A i \in 1 .. n - k : SubSeq(q, k + 1, n)[i] = q[k + i]
    <3>1. /\ SubSeq(q, k + 1, n) \in Seq(S)
          /\ Len(SubSeq(q, k + 1, n)) = IF k + 1 <= n THEN n - (k + 1) + 1 ELSE 0
          /\ \A i \in 1 .. n - (k + 1) + 1 : SubSeq(q, k + 1, n)[i] = q[k + 1 + i - 1]
      BY <1>1, <2>6, SubSeqProperties
    <3>2. k \in 1 .. n /\ n \in Nat
      BY <1>1, <2>6
    <3>3. \A i \in 1 .. n - k : k + 1 + i - 1 = k + i /\ i \in 1 .. n - (k + 1) + 1
      BY <3>2
    <3> QED BY <3>1, <3>2, <3>3
  <2>9. /\ r \in Seq(S) /\ Len(r) = n - 1
        /\ \A i \in 1 .. n - 1 : r[i] = IF i < k THEN q[i] ELSE q[i + 1]
    <3>1. PICK a, b : a = SubSeq(q, 1, k - 1) /\ b = SubSeq(q, k + 1, n)
      OBVIOUS
    <3>2. a \in Seq(S) /\ b \in Seq(S) /\ Len(a) = k - 1 /\ Len(b) = n - k /\ r = a \o b
      BY <2>5, <2>6, <2>7, <2>8, <3>1
    <3>3. /\ a \o b \in Seq(S) /\ Len(a \o b) = Len(a) + Len(b)
          /\ \A i \in 1 .. Len(a) + Len(b) : (a \o b)[i] = IF i <= Len(a) THEN a[i] ELSE b[i - Len(a)]
      BY <3>2, ConcatProperties
    <3>4. k \in 1 .. n /\ n \in Nat
      BY <1>1, <2>6
    <3>5. Len(r) = n - 1 /\ r \in Seq(S)
      BY <3>2, <3>3, <3>4
    <3>6. ASSUME NEW i \in 1 .. n - 1
          PROVE  r[i] = IF i < k THEN q[i] ELSE q[i + 1]
      <4>1. r[i] = IF i <= k - 1 THEN a[i] ELSE b[i - (k - 1)]
        BY <3>2, <3>3, <3>4
      <4>2. CASE i < k
        <5>1. i \in 1 .. k - 1 /\ i <= k - 1
          BY <3>4, <4>2
        <5> QED BY <2>7, <3>1, <4>1, <4>2, <5>1
      <4>3. CASE ~(i < k)
        <5>1. i - (k - 1) \in 1 .. n - k /\ k + (i - (k - 1)) = i + 1 /\ ~(i <= k - 1)
          BY <3>4, <4>3
        <5>2. b[i - (k - 1)] = q[k + (i - (k - 1))]
          BY <2>8, <3>1, <5>1
        <5> QED BY <4>1, <4>3, <5>1, <5>2
      <4> QED BY <4>2, <4>3
    <3> QED BY <3>5, <3>6
  <2>10. DOMAIN r = 1 .. n - 1 /\ n \in Nat /\ k \in 1 .. n /\ DOMAIN q = 1 .. n
    BY <1>1, <2>6, <2>9, LenProperties
  <2> HIDE DEF r
  <2>11. Distinct(r)
    <3>1. PICK m : m = [i \in 1 .. n - 1 |-> IF i < k THEN i ELSE i + 1]
      OBVIOUS
    <3>2. \A i \in 1 .. n - 1 : m[i] \in 1 .. n /\ r[i] = q[m[i]]
      BY <2>9, <2>10, <3>1
    <3>3. \A i, j \in 1 .. n - 1 : m[i] = m[j] => i = j
      BY <2>10, <3>1
    <3>4. \A i, j \in 1 .. n : q[i] = q[j] => i = j
      BY <2>10 DEF Distinct
    <3> QED BY <2>10, <3>2, <3>3, <3>4 DEF Distinct
  <2>12. In(r) = In(q) \ {e}
    <3>1. ASSUME NEW i \in 1 .. n - 1
          PROVE  r[i] \in In(q) \ {e}
      <4>1. PICK j \in 1 .. n : r[i] = q[j] /\ j # k
        <5>1. CASE i < k
          BY <2>9, <2>10, <5>1
        <5>2. CASE ~(i < k)
          <6>1. i + 1 \in 1 .. n /\ i + 1 # k /\ r[i] = q[i + 1]
            BY <2>9, <2>10, <5>2
          <6> QED BY <6>1
        <5> QED BY <5>1, <5>2
      <4>2. q[j] # e
        BY <2>1, <2>10, <4>1 DEF Distinct
      <4> QED BY <2>10, <4>1, <4>2 DEF In
    <3>2. ASSUME NEW j \in 1 .. n, q[j] # e
          PROVE  \E i \in 1 .. n - 1 : r[i] = q[j]
      <4>1. CASE j < k
        <5>1. j \in 1 .. n - 1 /\ r[j] = q[j]
          BY <2>9, <2>10, <4>1
        <5> QED BY <5>1
      <4>2. CASE ~(j < k)
        <5>1. j # k
          BY <2>1, <3>2
        <5>2. j - 1 \in 1 .. n - 1 /\ ~(j - 1 < k) /\ (j - 1) + 1 = j
          BY <2>10, <4>2, <5>1
        <5>3. r[j - 1] = q[j]
          BY <2>9, <5>2
        <5> QED BY <5>2, <5>3
      <4> QED BY <4>1, <4>2
    <3>3. In(r) \subseteq In(q) \ {e}
      BY <2>10, <3>1 DEF In
    <3>4. In(q) \ {e} \subseteq In(r)
      BY <2>10, <3>2 DEF In
    <3> QED BY <3>3, <3>4
  <2> QED BY <2>6, <2>9, <2>10, <2>11, <2>12 DEF r
<1> QED BY <1>2, <1>3

-----------------------------------------------------------------------------
(* The turns: types.                                                       *)

Stages == {"queued", "running", "suspended", "resuming", "helping", "ended"}
Activity == [stage : Stages, seq : Nat, unclaimed : Nat, receipt : Nat]
Requested == [act : Activations, part : {"turn", "authorize"}, seq : Nat]
Drain == [state : {"idle", "posted", "matching", "running"}, job : Requested \cup {Turns!NoJob}, jobs : SUBSET Requested]
Reaction == [what : {"native", "run", "consider", "select"}, act : Activations \cup {"nobody"}, ok : BOOLEAN]
Waiting == [on : BOOLEAN, timers : SUBSET Nat, octets : Nat, fill : BOOLEAN, boxes : SUBSET Boxes, registered : Nat]
Message == [n : Nat, seq : Nat, left : Nat, receipt : Nat]
Mailbox == [sent : Nat, queue : Seq(Message)]
Timer == [id : Nat, act : Activations, kind : {"timer", "deadline"}, ready : Nat]
Route == [box : Boxes \cup {"nobody"}, owner : {"act", "child"}, reading : Nat, back : BOOLEAN]
Call == [act : Activations \cup {"nobody"}, kind : {"none", "write", "control", "relay"}]
Relay == [act : Activations \cup {"nobody"}, kind : {"none", "authorizing", "submitted"}]

ActsType == activations \in [Activations -> Activity]
JobsType == jobs \in Drain /\ IsFiniteSet(jobs.jobs)
MicroType == micro \in Seq(Reaction)
WaitsType == waits \in [Activations -> Waiting]
InputType == /\ receiver \in [registered : Nat, octets : Nat] /\ input \in Seq(Nat) /\ heard \in Seq(Nat)
             /\ pump \in BOOLEAN /\ posted \in BOOLEAN /\ closed \in BOOLEAN /\ receipts \in Nat
BoxesType == boxes \in [Boxes -> Mailbox]
TimersType == timers \subseteq Timer /\ IsFiniteSet(timers)
RoutedType == routed \in [Activations -> Route]
CallsType == outbound \in Call /\ relays \in Seq(Activations) /\ relay \in Relay

TurnTypes == /\ ActsType /\ JobsType /\ MicroType /\ WaitsType /\ InputType /\ BoxesType
             /\ TimersType /\ RoutedType /\ CallsType

\* FiniteSets and Sequences as AuthoredScheduler knows them.
LEMMA TurnsLibrary ==
    /\ \A S : Turns!IsFiniteSet(S) <=> IsFiniteSet(S)
    /\ \A S : Turns!Cardinality(S) = Cardinality(S)
<1>1. ASSUME NEW S PROVE Turns!IsFiniteSet(S) <=> IsFiniteSet(S)
  BY DEF Turns!IsFiniteSet, IsFiniteSet
<1>2. ASSUME NEW S PROVE Turns!Cardinality(S) = Cardinality(S)
  BY DEF Turns!Cardinality, Cardinality
<1> QED BY <1>1, <1>2

\* What the constants are.
LEMMA TurnsConstants ==
    /\ Reader \in Activations /\ IsFiniteSet(Activations) /\ IsFiniteSet(Boxes)
    /\ "nobody" \notin Activations /\ "nobody" \notin Boxes /\ "receive" \notin Boxes /\ "timer" \notin Boxes
    /\ MaxSize \in Nat /\ MaxSize > 0 /\ Standing \in BOOLEAN
BY InputAssumption, TurnsLibrary DEF Turns!SchedulerAssumption

\* The next stamp is later than every timer.
LEMMA StampFacts ==
    ASSUME TurnTypes
    PROVE  /\ Turns!Stamp \in Nat /\ Turns!Stamp > 0
           /\ \A t \in timers : t.id < Turns!Stamp
<1>1. PICK A : A = {0, jobs.job.seq, receiver.registered}
  OBVIOUS
<1>2. PICK B : B = {input[i] : i \in DOMAIN input}
  OBVIOUS
<1>3. PICK C : C = {j.seq : j \in jobs.jobs}
  OBVIOUS
<1>4. PICK D : D = {heard[i] : i \in DOMAIN heard}
  OBVIOUS
<1>5. PICK E : E = UNION {{t.id, t.ready} : t \in timers}
  OBVIOUS
<1>6. PICK F : F = UNION {{activations[a].seq, waits[a].registered, routed[a].reading} : a \in Activations}
  OBVIOUS
<1>7. PICK G : G = UNION {{boxes[b].queue[i].seq : i \in DOMAIN boxes[b].queue} : b \in Boxes}
  OBVIOUS
<1>11. IsFiniteSet(A) /\ A \subseteq Nat
  <2>2. jobs.job.seq \in Nat /\ receiver.registered \in Nat /\ 0 \in Nat
    BY DEF TurnTypes, JobsType, Drain, Requested, InputType, Turns!NoJob
  <2> QED BY <1>1, <2>2, Triples
<1>12. IsFiniteSet(B) /\ B \subseteq Nat
  <2>1. input \in Seq(Nat)
    BY DEF TurnTypes, InputType
  <2> QED BY <1>2, <2>1, FiniteElements
<1>13. IsFiniteSet(C) /\ C \subseteq Nat
  <2>1. PICK f : f = [j \in jobs.jobs |-> j.seq]
    OBVIOUS
  <2>2. DOMAIN f = jobs.jobs /\ C = {f[j] : j \in DOMAIN f}
    BY <1>3, <2>1
  <2>3. IsFiniteSet(DOMAIN f)
    BY <2>2 DEF TurnTypes, JobsType
  <2>4. C \subseteq Nat
    BY <1>3 DEF TurnTypes, JobsType, Drain, Requested
  <2> QED BY <2>2, <2>3, <2>4, FiniteValues
<1>14. IsFiniteSet(D) /\ D \subseteq Nat
  <2>1. heard \in Seq(Nat)
    BY DEF TurnTypes, InputType
  <2> QED BY <1>4, <2>1, FiniteElements
<1>15. IsFiniteSet(E) /\ E \subseteq Nat
  <2>1. PICK f : f = [t \in timers |-> {t.id, t.ready}]
    OBVIOUS
  <2>2. DOMAIN f = timers /\ {{t.id, t.ready} : t \in timers} = {f[t] : t \in DOMAIN f}
    BY <2>1
  <2>3. IsFiniteSet({f[t] : t \in DOMAIN f})
    BY <2>2, FiniteValues DEF TurnTypes, TimersType
  <2>4. \A x \in {f[t] : t \in DOMAIN f} : IsFiniteSet(x)
    <3>1. ASSUME NEW t \in DOMAIN f PROVE IsFiniteSet(f[t])
      <4>1. PICK x, y : x = t.id /\ y = t.ready
        OBVIOUS
      <4>2. f[t] = {x, y, y}
        BY <2>1, <4>1
      <4> QED BY <4>2, Triples
    <3> QED BY <3>1
  <2>5. E \subseteq Nat
    BY <1>5 DEF TurnTypes, TimersType, Timer
  <2> QED BY <1>5, <2>2, <2>3, <2>4, <2>5, FS_UNION
<1>16. IsFiniteSet(F) /\ F \subseteq Nat
  <2>1. PICK f : f = [a \in Activations |-> {activations[a].seq, waits[a].registered, routed[a].reading}]
    OBVIOUS
  <2>2. /\ DOMAIN f = Activations
        /\ {{activations[a].seq, waits[a].registered, routed[a].reading} : a \in Activations} = {f[a] : a \in DOMAIN f}
    BY <2>1
  <2>3. IsFiniteSet({f[a] : a \in DOMAIN f})
    BY <2>2, FiniteValues, TurnsConstants
  <2>4. \A x \in {f[a] : a \in DOMAIN f} : IsFiniteSet(x)
    <3>1. ASSUME NEW a \in DOMAIN f PROVE IsFiniteSet(f[a])
      <4>1. PICK x, y, z : x = activations[a].seq /\ y = waits[a].registered /\ z = routed[a].reading
        OBVIOUS
      <4>2. f[a] = {x, y, z}
        BY <2>1, <4>1
      <4> QED BY <4>2, Triples
    <3> QED BY <3>1
  <2>5. F \subseteq Nat
    BY <1>6 DEF TurnTypes, ActsType, Activity, WaitsType, Waiting, RoutedType, Route
  <2> QED BY <1>6, <2>2, <2>3, <2>4, <2>5, FS_UNION
<1>17. IsFiniteSet(G) /\ G \subseteq Nat
  <2>1. PICK f : f = [b \in Boxes |-> {boxes[b].queue[i].seq : i \in DOMAIN boxes[b].queue}]
    OBVIOUS
  <2>2. /\ DOMAIN f = Boxes
        /\ {{boxes[b].queue[i].seq : i \in DOMAIN boxes[b].queue} : b \in Boxes} = {f[b] : b \in DOMAIN f}
    BY <2>1
  <2>3. IsFiniteSet({f[b] : b \in DOMAIN f})
    BY <2>2, FiniteValues, TurnsConstants
  <2>4. ASSUME NEW b \in Boxes PROVE IsFiniteSet(f[b]) /\ f[b] \subseteq Nat
    <3>1. PICK q : q = boxes[b].queue
      OBVIOUS
    <3>2. q \in Seq(Message)
      BY <3>1 DEF TurnTypes, BoxesType, Mailbox
    <3>3. PICK g : g = [i \in DOMAIN q |-> q[i].seq]
      OBVIOUS
    <3>4. f[b] = {g[i] : i \in DOMAIN g} /\ DOMAIN g = DOMAIN q
      BY <2>1, <3>1, <3>3
    <3>5. DOMAIN q = 1..Len(q) /\ Len(q) \in Nat /\ \A i \in DOMAIN q : q[i] \in Message
      BY <3>2, LenProperties, ElementOfSeq
    <3>6. IsFiniteSet(DOMAIN g)
      <4>1. IsFiniteSet(1..Len(q))
        BY <3>5, FS_Interval
      <4> QED BY <3>4, <3>5, <4>1
    <3>7. \A i \in DOMAIN g : g[i] \in Nat
      BY <3>3, <3>5 DEF Message
    <3> QED BY <3>4, <3>6, <3>7, FiniteValues
  <2> QED BY <1>7, <2>2, <2>3, <2>4, FS_UNION
<1>20. PICK S : S = A \cup B \cup C \cup D \cup E \cup F \cup G
  OBVIOUS
<1>21. IsFiniteSet(S) /\ S \subseteq Nat /\ 0 \in S
  BY <1>1, <1>11, <1>12, <1>13, <1>14, <1>15, <1>16, <1>17, <1>20, FS_Union
<1>22. Turns!Stamp = 1 + Turns!Max(S)
  BY <1>1, <1>2, <1>3, <1>4, <1>5, <1>6, <1>7, <1>20 DEF Turns!Stamp, Turns!ToSet
<1>23. Turns!Max(S) \in S /\ \A x \in S : Turns!Max(S) >= x
  <2>1. \E x \in S : \A y \in S : x >= y
    BY <1>21, FiniteExtremes
  <2> QED BY <2>1 DEF Turns!Max
<1>24. \A t \in timers : t.id \in S
  BY <1>5, <1>20
<1>25. PICK m : m = Turns!Max(S)
  OBVIOUS
<1>26. m \in Nat /\ (\A x \in S : m >= x) /\ Turns!Stamp = 1 + m
  BY <1>21, <1>22, <1>23, <1>25
<1>27. \A t \in timers : t.id \in Nat /\ m >= t.id
  BY <1>21, <1>24, <1>26
<1> QED BY <1>26, <1>27

(* What the invariant is made of: of a queue of reactions m, of a queue of *)
(* turns q, and of an activation a.                                        *)

IsTask(r) == r.what \in {"consider", "select"}
HasTask(m, w) == \E i \in DOMAIN m : m[i].what = w
OneTask(m) == \A i, j \in DOMAIN m : IsTask(m[i]) /\ IsTask(m[j]) => i = j
DueIn(m, a, ok) == \E i \in DOMAIN m : ~IsTask(m[i]) /\ m[i].act = a /\ m[i].ok = ok
OneIn(m, a) == \A i, j \in DOMAIN m :
    ~IsTask(m[i]) /\ ~IsTask(m[j]) /\ m[i].act = a /\ m[j].act = a => i = j

IsTurnOf(j, a) == j.part = "turn" /\ j.act = a
Authorizes(j) == j.part = "authorize"
TurnIn(q, a) == \E j \in q.jobs : IsTurnOf(j, a)
OneTurnIn(q, a) == \A j, k \in q.jobs : IsTurnOf(j, a) /\ IsTurnOf(k, a) => j = k
RunsIn(q, a) == IsTurnOf(q.job, a)

Stage(a) == activations[a].stage
Alive(a) == Stage(a) # "ended"
OnWait(a) == waits[a].on
Receiving(a) == a = Reader /\ receiver # Turns!NoReceiver
Reading(a) == routed[a].reading # 0
ByChild(a) == routed[a].owner = "child"
Boxless(a) == routed[a].box = "nobody"
HandsBack(a) == routed[a].back
Calling(a) == outbound.act = a
RelayOf(a) == relay.act = a
Relayed(a) == a \in In(relays)
Calls(a) == Alive(a) /\ (Calling(a) \/ RelayOf(a))

\* The queue of turns.
QueueInv ==
    /\ jobs.state = "running" <=> jobs.job # Turns!NoJob
    /\ jobs.state \in {"posted", "matching"} => jobs.jobs # {}
    /\ jobs.state = "idle" => jobs.jobs = {}
    /\ OneTask(micro)
    /\ HasTask(micro, "select") => jobs.state = "matching"

\* The relay that runs, its one turn, and the platform's call.
RelayInv ==
    /\ \A j \in jobs.jobs : Authorizes(j) => RelayOf(j.act) /\ relay.kind = "authorizing"
    /\ Authorizes(jobs.job) => RelayOf(jobs.job.act) /\ relay.kind = "authorizing"
    /\ \A j, k \in jobs.jobs : Authorizes(j) /\ Authorizes(k) => j = k
    /\ Authorizes(jobs.job) => \A j \in jobs.jobs : ~Authorizes(j)
    /\ relay.kind = "authorizing" => Authorizes(jobs.job) \/ \E j \in jobs.jobs : Authorizes(j)
    /\ relay.kind = "submitted" <=> outbound.kind = "relay"
    /\ relay.kind = "submitted" => relay.act = outbound.act
    /\ relay.kind = "none" <=> relay.act = "nobody"
    /\ outbound.kind = "none" <=> outbound.act = "nobody"
    /\ relays # <<>> => relay.kind = "authorizing"
    /\ Distinct(relays)

\* An activation is at one place: it has a turn, it runs, it waits for one thing, it is
\* to be resumed, it is helped, or it has ended.
Place(a) ==
    /\ OnWait(a) \/ Calls(a) \/ Relayed(a) \/ Receiving(a) => Stage(a) = "suspended"
    /\ Reading(a) /\ ~ByChild(a) => Stage(a) = "suspended"
    /\ ByChild(a) => Stage(a) = "helping" \/ (Stage(a) = "resuming" /\ ~DueIn(micro, a, TRUE))
    /\ OnWait(a) => ~Receiving(a) /\ ~Reading(a) /\ ~Calls(a) /\ ~Relayed(a)
    /\ Receiving(a) \/ Reading(a) => ~Calls(a) /\ ~Relayed(a)
    /\ Relayed(a) => ~Calls(a)
    /\ Alive(a) => ~(Calling(a) /\ RelayOf(a) /\ outbound.kind # "relay")
    /\ Stage(a) = "suspended" =>
          \/ OnWait(a) \/ Receiving(a) \/ Reading(a) \/ Calls(a) \/ Relayed(a)
          \/ DueIn(micro, a, FALSE)
    /\ Alive(a) /\ TurnIn(jobs, a) => Stage(a) = "queued"
    /\ Alive(a) => OneTurnIn(jobs, a)
    /\ Alive(a) /\ RunsIn(jobs, a) => Stage(a) = "running"
    /\ Alive(a) /\ DueIn(micro, a, TRUE) => Stage(a) = "resuming"
    /\ Alive(a) /\ DueIn(micro, a, FALSE) =>
          \/ Stage(a) = "resuming"
          \/ /\ Stage(a) = "suspended" /\ ~OnWait(a) /\ ~Receiving(a) /\ ~Reading(a)
             /\ ~Calls(a) /\ ~Relayed(a)
    /\ Alive(a) => OneIn(micro, a)
    /\ HandsBack(a) => ~Reading(a) /\ ByChild(a)
    /\ Boxless(a) => ~Reading(a) /\ ~ByChild(a) /\ Stage(a) # "helping"
    /\ Receiving(a) => Boxless(a)
PlaceInv == \A a \in Activations : Place(a)

InputDue(a) == /\ waits[a].octets # 0 /\ input # <<>>
               /\ waits[a].fill => Len(input) >= waits[a].octets
TimerDue(a) == \E t \in timers : t.id \in waits[a].timers /\ t.ready # 0
MailDue(a) == \E b \in waits[a].boxes : boxes[b].queue # <<>>
Stirred(a) == OnWait(a) /\ (InputDue(a) \/ TimerDue(a) \/ MailDue(a))
Alert == posted \/ jobs.state = "posted" \/ HasTask(micro, "consider")

\* What would wake an activation is seen by a task to come.
WakeInv ==
    /\ (\E a \in Activations : Stirred(a)) => Alert
    /\ \A a \in Activations : waits[a].octets # 0 => OnWait(a) /\ a = Reader
    /\ (\E a \in Activations : waits[a].octets # 0) => pump \/ Alert
    /\ receiver # Turns!NoReceiver => input = <<>> /\ pump
    /\ \A a \in Activations : Reading(a) => boxes[routed[a].box].queue = <<>>

\* A mailbox has one consumer, its messages in the order they were sent.
InOrder(b) ==
    ~closed => \A i \in DOMAIN boxes[b].queue :
                  boxes[b].queue[i].n = boxes[b].sent - Len(boxes[b].queue) + i
MailInv ==
    /\ \A a, c \in Activations : routed[a].box = routed[c].box /\ ~Boxless(a) => a = c
    /\ \A a, c \in Activations : a # c => routed[a].box \notin waits[c].boxes
    /\ \A b \in Boxes : InOrder(b)

\* A receipt is in one place.
ReceiptInv ==
    /\ \A a \in Activations : activations[a].receipt <= receipts
    /\ \A b \in Boxes : \A i \in DOMAIN boxes[b].queue : boxes[b].queue[i].receipt <= receipts
    /\ \A a, c \in Activations :
          activations[a].receipt = activations[c].receipt /\ activations[a].receipt # 0 => a = c
    /\ \A b, d \in Boxes : \A i \in DOMAIN boxes[b].queue, j \in DOMAIN boxes[d].queue :
          boxes[b].queue[i].receipt = boxes[d].queue[j].receipt /\ boxes[b].queue[i].receipt # 0
          => b = d /\ i = j
    /\ \A a \in Activations, b \in Boxes : \A i \in DOMAIN boxes[b].queue :
          activations[a].receipt = boxes[b].queue[i].receipt => activations[a].receipt = 0

\* The ledger is what is outstanding.
TimedKinds == {"timer", "deadline"}
EffectKinds == {"timer", "deadline", "wait", "read", "write", "control", "write-via"}
Held(k, a, d) == [kind |-> k, act |-> a, id |-> d] \in ledger
TimerAt(k, a, d) == \E t \in timers : t.kind = k /\ t.act = a /\ t.id = d
Owed(k, a, d) ==
    \/ k \in TimedKinds /\ TimerAt(k, a, d)
    \/ d = 0 /\ k = "wait" /\ OnWait(a)
    \/ d = 0 /\ k = "read" /\ (Receiving(a) \/ Reading(a))
    \/ d = 0 /\ k = "write" /\ Calling(a) /\ outbound.kind \in {"write", "relay"}
    \/ d = 0 /\ k = "control" /\ Calling(a) /\ outbound.kind = "control"
    \/ d = 0 /\ k = "write-via" /\ (RelayOf(a) \/ Relayed(a))
TimersInv ==
    /\ \A t, u \in timers : t.id = u.id => t = u
    /\ \A t \in timers : t.id # 0
    /\ \A a \in Activations : \A d \in waits[a].timers : TimerAt("timer", a, d)
    /\ \A a \in Activations : ~OnWait(a) => waits[a].timers = {}
LedgerInv ==
    /\ ledger \subseteq [kind : EffectKinds, act : Activations, id : Nat]
    /\ \A k \in EffectKinds, a \in Activations, d \in Nat : Held(k, a, d) <=> Owed(k, a, d)

TurnsInv ==
    /\ TurnTypes /\ QueueInv /\ RelayInv /\ PlaceInv /\ WakeInv /\ MailInv /\ ReceiptInv
    /\ TimersInv /\ LedgerInv
-----------------------------------------------------------------------------
(* Of reactions.                                                           *)

\* No reactions.
LEMMA NoReactions ==
    ASSUME NEW m, m = <<>>
    PROVE  /\ m \in Seq(Reaction) /\ OneTask(m) /\ \A w : ~HasTask(m, w)
           /\ \A b : OneIn(m, b) /\ \A ok : ~DueIn(m, b, ok)
<1>1. DOMAIN m = {}
  OBVIOUS
<1>2. m \in Seq(Reaction)
  OBVIOUS
<1> QED BY <1>1, <1>2 DEF OneTask, HasTask, OneIn, DueIn

\* One that is settled.
LEMMA SettledIs ==
    ASSUME NEW a \in Activations, NEW ok \in BOOLEAN
    PROVE  /\ Turns!Settled(a, ok) \in Reaction /\ ~IsTask(Turns!Settled(a, ok))
           /\ Turns!Settled(a, ok).act = a /\ Turns!Settled(a, ok).ok = ok
           /\ Turns!Settled(a, ok).what = "native"
BY DEF Turns!Settled, Reaction, IsTask

LEMMA OneReaction ==
    ASSUME NEW a \in Activations, NEW ok \in BOOLEAN, NEW m, m = <<Turns!Settled(a, ok)>>
    PROVE  /\ m \in Seq(Reaction) /\ OneTask(m) /\ \A w \in {"consider", "select"} : ~HasTask(m, w)
           /\ \A b : OneIn(m, b) /\ \A o : DueIn(m, b, o) <=> b = a /\ o = ok
<1>1. DOMAIN m = {1} /\ m[1] = Turns!Settled(a, ok)
  OBVIOUS
<1>2. m \in Seq(Reaction)
  BY SettledIs
<1> QED BY <1>1, <1>2, SettledIs DEF OneTask, HasTask, OneIn, DueIn, IsTask

\* One task.
LEMMA OneTaskAlone ==
    ASSUME NEW r \in Reaction, IsTask(r), NEW m, m = <<r>>
    PROVE  /\ m \in Seq(Reaction) /\ OneTask(m) /\ \A w : HasTask(m, w) <=> w = r.what
           /\ \A b : OneIn(m, b) /\ \A ok : ~DueIn(m, b, ok)
<1>1. DOMAIN m = {1} /\ m[1] = r
  OBVIOUS
<1> QED BY <1>1 DEF OneTask, HasTask, OneIn, DueIn, IsTask

\* One that is settled after others.
LEMMA OneReactionMore ==
    ASSUME NEW m \in Seq(Reaction), OneTask(m), NEW r \in Reaction, ~IsTask(r)
    PROVE  /\ Append(m, r) \in Seq(Reaction) /\ OneTask(Append(m, r))
           /\ \A w \in {"consider", "select"} : HasTask(Append(m, r), w) <=> HasTask(m, w)
           /\ \A b, o : DueIn(Append(m, r), b, o) <=> DueIn(m, b, o) \/ (b = r.act /\ o = r.ok)
           /\ \A b : OneIn(m, b) /\ (b = r.act => \A o \in BOOLEAN : ~DueIn(m, b, o))
                     => OneIn(Append(m, r), b)
<1>1. PICK n, M : n = Len(m) /\ M = Append(m, r)
  OBVIOUS
<1>2. /\ M \in Seq(Reaction) /\ DOMAIN m = 1..n /\ DOMAIN M = 1..n+1 /\ M[n+1] = r /\ n \in Nat
      /\ \A i \in 1..n : M[i] = m[i]
  BY <1>1, AppendFacts
<1>3. \A i \in 1..n : m[i] \in Reaction
  BY <1>2, ElementOfSeq
<1>4. \A i \in 1..n+1 : i \in 1..n \/ i = n + 1
  BY <1>2
<1>5. \A i \in 1..n : i \in 1..n+1 /\ i # n + 1
  BY <1>2
<1>6. n + 1 \in 1..n+1
  BY <1>2
<1>7. OneTask(M)
  BY <1>2, <1>4, <1>5, <1>6 DEF OneTask
<1>8. \A w \in {"consider", "select"} : HasTask(M, w) <=> HasTask(m, w)
  BY <1>2, <1>4, <1>5, <1>6 DEF HasTask, IsTask
<1>9. \A b, o : DueIn(M, b, o) <=> DueIn(m, b, o) \/ (b = r.act /\ o = r.ok)
  BY <1>2, <1>4, <1>5, <1>6 DEF DueIn
<1>10. ASSUME NEW b, OneIn(m, b), b = r.act => \A o \in BOOLEAN : ~DueIn(m, b, o)
       PROVE  OneIn(M, b)
  <2>1. \A i \in 1..n : ~IsTask(m[i]) /\ m[i].act = b => b # r.act
    BY <1>2, <1>3, <1>10 DEF DueIn, Reaction
  <2> QED BY <1>2, <1>4, <1>5, <1>6, <1>10, <2>1 DEF OneIn
<1> QED BY <1>1, <1>2, <1>7, <1>8, <1>9, <1>10

\* A task after others.
LEMMA OneTaskMore ==
    ASSUME NEW m \in Seq(Reaction), NEW r \in Reaction, IsTask(r),
           \A w \in {"consider", "select"} : ~HasTask(m, w)
    PROVE  /\ Append(m, r) \in Seq(Reaction) /\ OneTask(Append(m, r))
           /\ \A w \in {"consider", "select"} : HasTask(Append(m, r), w) <=> w = r.what
           /\ \A b, o : DueIn(Append(m, r), b, o) <=> DueIn(m, b, o)
           /\ \A b : OneIn(m, b) => OneIn(Append(m, r), b)
<1>1. PICK n, M : n = Len(m) /\ M = Append(m, r)
  OBVIOUS
<1>2. /\ M \in Seq(Reaction) /\ DOMAIN m = 1..n /\ DOMAIN M = 1..n+1 /\ M[n+1] = r /\ n \in Nat
      /\ \A i \in 1..n : M[i] = m[i]
  BY <1>1, AppendFacts
<1>3. \A i \in 1..n : ~IsTask(m[i]) /\ m[i].what \notin {"consider", "select"}
  BY <1>2 DEF HasTask, IsTask
<1>4. /\ \A i \in 1..n+1 : i \in 1..n \/ i = n + 1
      /\ \A i \in 1..n : i \in 1..n+1 /\ i # n + 1
      /\ n + 1 \in 1..n+1
  BY <1>2
<1>7. OneTask(M)
  BY <1>2, <1>3, <1>4 DEF OneTask
<1>8. \A w \in {"consider", "select"} : HasTask(M, w) <=> w = r.what
  BY <1>2, <1>3, <1>4 DEF HasTask
<1>9. \A b, o : DueIn(M, b, o) <=> DueIn(m, b, o)
  BY <1>2, <1>4 DEF DueIn
<1>10. \A b : OneIn(m, b) => OneIn(M, b)
  BY <1>2, <1>4 DEF OneIn
<1> QED BY <1>1, <1>2, <1>7, <1>8, <1>9, <1>10

\* What is left when the task at the head is done.
LEMMA TaskDone ==
    ASSUME NEW m \in Seq(Reaction), OneTask(m), m # <<>>, IsTask(Head(m))
    PROVE  /\ Tail(m) \in Seq(Reaction) /\ OneTask(Tail(m))
           /\ \A w \in {"consider", "select"} : ~HasTask(Tail(m), w)
           /\ \A w : HasTask(m, w) /\ w \in {"consider", "select"} => w = Head(m).what
           /\ HasTask(m, Head(m).what)
           /\ \A b, o : DueIn(Tail(m), b, o) <=> DueIn(m, b, o)
           /\ \A b : OneIn(m, b) => OneIn(Tail(m), b)
<1>1. PICK n, M : n = Len(m) /\ M = Tail(m)
  OBVIOUS
<1>2. /\ M \in Seq(Reaction) /\ n \in Nat /\ DOMAIN m = 1..n /\ DOMAIN M = 1..n-1
      /\ 1 \in 1..n /\ Head(m) = m[1]
      /\ \A i \in 1..n-1 : M[i] = m[i+1] /\ i + 1 \in 1..n
      /\ \A i \in 1..n : i # 1 => i - 1 \in 1..n-1 /\ M[i-1] = m[i]
  BY <1>1, TailFacts
<1>3. PICK s : s = [i \in 1..n-1 |-> i + 1]
  OBVIOUS
<1>d. DOMAIN m = 1..n /\ DOMAIN M = 1..n-1 /\ 1 \in 1..n /\ Head(m) = m[1]
  BY <1>2
<1>s. \A i \in 1..n-1 : M[i] = m[s[i]] /\ s[i] \in 1..n /\ s[i] # 1
  BY <1>2, <1>3
<1>u. \A i, j \in 1..n-1 : s[i] = s[j] => i = j
  BY <1>2, <1>3
<1>r. \A j \in 1..n : j # 1 => \E i \in 1..n-1 : M[i] = m[j]
  BY <1>2
<1>4. \A i \in 1..n : IsTask(m[i]) => i = 1
  BY <1>d DEF OneTask
<1>5. \A i \in 1..n-1 : ~IsTask(M[i])
  BY <1>s, <1>4
<1>6. \A w \in {"consider", "select"} : ~HasTask(M, w)
  BY <1>5, <1>d DEF HasTask, IsTask
<1>7. OneTask(M)
  BY <1>5, <1>d DEF OneTask
<1>8. \A b, o : DueIn(M, b, o) <=> DueIn(m, b, o)
  BY <1>d, <1>s, <1>r DEF DueIn
<1>9. \A b : OneIn(m, b) => OneIn(M, b)
  BY <1>d, <1>s, <1>u DEF OneIn
<1>10. \A w : HasTask(m, w) /\ w \in {"consider", "select"} => w = Head(m).what
  BY <1>d, <1>4 DEF HasTask, IsTask
<1>11. HasTask(m, Head(m).what)
  BY <1>d DEF HasTask
<1> QED BY <1>1, <1>2, <1>6, <1>7, <1>8, <1>9, <1>10, <1>11

\* What is left when the reaction at the head is done.
LEMMA ReactionDone ==
    ASSUME NEW m \in Seq(Reaction), OneTask(m), m # <<>>, ~IsTask(Head(m))
    PROVE  /\ Tail(m) \in Seq(Reaction) /\ OneTask(Tail(m))
           /\ \A w \in {"consider", "select"} : HasTask(Tail(m), w) <=> HasTask(m, w)
           /\ DueIn(m, Head(m).act, Head(m).ok)
           /\ \A b, o : b # Head(m).act \/ o # Head(m).ok => (DueIn(Tail(m), b, o) <=> DueIn(m, b, o))
           /\ OneIn(m, Head(m).act) => \A o : ~DueIn(Tail(m), Head(m).act, o)
           /\ \A b : OneIn(m, b) => OneIn(Tail(m), b)
<1>1. PICK n, M : n = Len(m) /\ M = Tail(m)
  OBVIOUS
<1>2. /\ M \in Seq(Reaction) /\ n \in Nat /\ DOMAIN m = 1..n /\ DOMAIN M = 1..n-1
      /\ 1 \in 1..n /\ Head(m) = m[1]
      /\ \A i \in 1..n-1 : M[i] = m[i+1] /\ i + 1 \in 1..n
      /\ \A i \in 1..n : i # 1 => i - 1 \in 1..n-1 /\ M[i-1] = m[i]
  BY <1>1, TailFacts
<1>3. PICK s : s = [i \in 1..n-1 |-> i + 1]
  OBVIOUS
<1>d. DOMAIN m = 1..n /\ DOMAIN M = 1..n-1 /\ 1 \in 1..n /\ Head(m) = m[1]
  BY <1>2
<1>s. \A i \in 1..n-1 : M[i] = m[s[i]] /\ s[i] \in 1..n /\ s[i] # 1
  BY <1>2, <1>3
<1>u. \A i, j \in 1..n-1 : s[i] = s[j] => i = j
  BY <1>2, <1>3
<1>r. \A j \in 1..n : j # 1 => \E i \in 1..n-1 : M[i] = m[j]
  BY <1>2
<1>4. \A w \in {"consider", "select"} : HasTask(M, w) <=> HasTask(m, w)
  BY <1>d, <1>s, <1>r DEF HasTask, IsTask
<1>5. OneTask(M)
  BY <1>d, <1>s, <1>u DEF OneTask
<1>6. \A b, o : b # Head(m).act \/ o # Head(m).ok => (DueIn(M, b, o) <=> DueIn(m, b, o))
  BY <1>d, <1>s, <1>r DEF DueIn
<1>7. \A b : OneIn(m, b) => OneIn(M, b)
  BY <1>d, <1>s, <1>u DEF OneIn
<1>8. OneIn(m, Head(m).act) => \A o : ~DueIn(M, Head(m).act, o)
  BY <1>d, <1>s DEF OneIn, DueIn
<1>9. DueIn(m, Head(m).act, Head(m).ok)
  BY <1>d DEF DueIn
<1> QED BY <1>1, <1>2, <1>4, <1>5, <1>6, <1>7, <1>8, <1>9

\* The reactions of relays that are refused.
LEMMA RelaysRefused ==
    ASSUME NEW q \in Seq(Activations), Distinct(q),
           NEW m, m = [i \in DOMAIN q |-> Turns!Settled(q[i], FALSE)]
    PROVE  /\ m \in Seq(Reaction) /\ OneTask(m) /\ \A w \in {"consider", "select"} : ~HasTask(m, w)
           /\ \A b : OneIn(m, b) /\ \A o : DueIn(m, b, o) <=> b \in In(q) /\ o = FALSE
<1>1. DOMAIN q = 1..Len(q) /\ Len(q) \in Nat /\ \A i \in DOMAIN q : q[i] \in Activations
  BY LenProperties, ElementOfSeq
<1>2. DOMAIN m = DOMAIN q /\ \A i \in DOMAIN q :
        m[i] \in Reaction /\ ~IsTask(m[i]) /\ m[i].act = q[i] /\ m[i].ok = FALSE /\ m[i].what = "native"
  <2> SUFFICES ASSUME NEW i \in DOMAIN q
               PROVE m[i] \in Reaction /\ ~IsTask(m[i]) /\ m[i].act = q[i] /\ m[i].ok = FALSE /\ m[i].what = "native"
    OBVIOUS
  <2>1. q[i] \in Activations /\ FALSE \in BOOLEAN /\ m[i] = Turns!Settled(q[i], FALSE)
    BY <1>1
  <2> QED BY <2>1, SettledIs
<1>3. m \in Seq(Reaction)
  <2>1. m \in [1..Len(q) -> Reaction]
    BY <1>1, <1>2
  <2> QED BY <1>1, <2>1, SeqDef
<1>4. OneTask(m) /\ \A w \in {"consider", "select"} : ~HasTask(m, w)
  BY <1>2 DEF OneTask, HasTask
<1>5. \A b : OneIn(m, b)
  <2>1. DOMAIN m = DOMAIN q /\ \A i \in DOMAIN q : m[i].act = q[i]
    BY <1>2
  <2>2. \A i, j \in DOMAIN q : q[i] = q[j] => i = j
    BY DEF Distinct
  <2> TAKE b
  <2>3. ASSUME NEW i \in DOMAIN m, NEW j \in DOMAIN m, m[i].act = b, m[j].act = b PROVE i = j
    <3>1. i \in DOMAIN q /\ j \in DOMAIN q
      BY <2>1
    <3>2. q[i] = b /\ q[j] = b
      BY <2>1, <3>1, <2>3
    <3> QED BY <2>2, <3>1, <3>2
  <2> QED BY <2>3 DEF OneIn
<1>6. \A b, o : DueIn(m, b, o) <=> b \in In(q) /\ o = FALSE
  BY <1>2 DEF DueIn, In
<1> QED BY <1>3, <1>4, <1>5, <1>6

\* A sequence of at most one element.
LEMMA AtMostOne ==
    ASSUME NEW S, NEW x, S \subseteq {x}
    PROVE  /\ S = {} => Turns!SetToSeq(S) = <<>>
           /\ S # {} => S = {x} /\ Turns!SetToSeq(S) = <<x>>
<1>1. CASE S = {}
  <2>1. Turns!Cardinality(S) = 0
    BY <1>1, TurnsLibrary, FS_EmptySet
  <2>2. \E f \in [1..0 -> S] : Turns!IsInjective(f)
    <3>1. PICK f : f = [i \in 1..0 |-> {}]
      OBVIOUS
    <3>2. f \in [1..0 -> S] /\ Turns!IsInjective(f)
      BY <3>1 DEF Turns!IsInjective
    <3> QED BY <3>2
  <2>3. Turns!SetToSeq(S) \in [1..0 -> S]
    BY <2>1, <2>2 DEF Turns!SetToSeq
  <2>4. Turns!SetToSeq(S) = <<>>
    BY <2>3
  <2> QED BY <1>1, <2>4
<1>2. CASE S # {}
  <2>1. S = {x}
    BY <1>2
  <2>2. Turns!Cardinality(S) = 1
    BY <2>1, TurnsLibrary, FS_Singleton
  <2>3. \E f \in [1..1 -> S] : Turns!IsInjective(f)
    <3>1. PICK f : f = [i \in 1..1 |-> x]
      OBVIOUS
    <3>2. f \in [1..1 -> S] /\ Turns!IsInjective(f)
      BY <2>1, <3>1 DEF Turns!IsInjective
    <3> QED BY <3>2
  <2>4. Turns!SetToSeq(S) \in [1..1 -> S]
    BY <2>2, <2>3 DEF Turns!SetToSeq
  <2>5. Turns!SetToSeq(S) = <<x>>
    BY <2>1, <2>4
  <2> QED BY <1>2, <2>1, <2>5
<1> QED BY <1>1, <1>2

-----------------------------------------------------------------------------
(* Of the queue of turns.                                                  *)

LEMMA FreedIs ==
    ASSUME NEW q \in Drain
    PROVE  /\ Turns!Freed(q) \in Drain
           /\ Turns!Freed(q).jobs = q.jobs /\ Turns!Freed(q).job = Turns!NoJob
           /\ Turns!Freed(q).state = IF q.jobs = {} THEN "idle" ELSE "posted"
BY Zenon DEF Turns!Freed, Drain

LEMMA QueuedIs ==
    ASSUME NEW q \in Drain, NEW j \in Requested
    PROVE  /\ Turns!Queued(q, j) \in Drain
           /\ Turns!Queued(q, j).jobs = q.jobs \cup {j} /\ Turns!Queued(q, j).job = q.job
           /\ Turns!Queued(q, j).state = IF q.state = "idle" THEN "posted" ELSE q.state
BY DEF Turns!Queued, Drain

LEMMA NoJobIs ==
    /\ Turns!NoJob \notin Requested /\ Turns!NoJob.part = "none" /\ Turns!NoJob.act = "nobody"
    /\ Turns!NoJob.seq = 0 /\ \A b : ~IsTurnOf(Turns!NoJob, b) /\ ~Authorizes(Turns!NoJob)
<1>1. Turns!NoJob.part = "none" /\ Turns!NoJob.act = "nobody" /\ Turns!NoJob.seq = 0
  BY DEF Turns!NoJob, Turns!Nobody
<1>2. \A j \in Requested : j.part # "none"
  BY DEF Requested
<1> QED BY <1>1, <1>2 DEF IsTurnOf, Authorizes

\* An appended queue, as a concatenation.
LEMMA AppendIs ==
    ASSUME NEW S, NEW m \in Seq(S), NEW e \in S
    PROVE  m \o <<e>> = Append(m, e) /\ m \o <<>> = m
OBVIOUS

\* What is left of a sequence behind its first n.
LEMMA RestFacts ==
    ASSUME NEW S, NEW q \in Seq(S), NEW n \in Nat
    PROVE  LET r == SubSeq(q, n + 1, Len(q))
           IN  r \in Seq(S) /\ (q = <<>> => r = <<>>) /\ (n = 0 => r = q) /\ Len(r) <= Len(q)
<1>1. PICK l : l = Len(q)
  OBVIOUS
<1>2. l \in Nat /\ DOMAIN q = 1..l /\ \A i \in 1..l : q[i] \in S
  BY <1>1, LenProperties, ElementOfSeq
<1>3. CASE n + 1 <= l
  <2>1. \A i \in n + 1..l : q[i] \in S
    BY <1>2
  <2>2. SubSeq(q, n+1, l) \in Seq(S) /\ Len(SubSeq(q, n+1, l)) = l - n
    BY <1>2, <1>3, SubSeqProperties
  <2>3. q # <<>>
    BY <1>1, <1>2, <1>3
  <2>4. n = 0 => SubSeq(q, n+1, l) = q
    BY <1>1, <1>2, SubSeqFull
  <2> QED BY <1>1, <1>2, <2>2, <2>3, <2>4
<1>4. CASE ~(n + 1 <= l)
  <2>1. SubSeq(q, n+1, l) = <<>>
    BY <1>2, <1>4, SubSeqEmpty
  <2>2. n = 0 => q = <<>>
    BY <1>1, <1>2, <1>4, EmptySeq
  <2> QED BY <1>1, <1>2, <2>1, <2>2
<1> QED BY <1>3, <1>4

-----------------------------------------------------------------------------
(* Of the events that waits are for.                                       *)

\* What an event of a wait is.
EventOf(e, a) ==
    /\ e.act = a /\ e.seq \in Nat
    /\ \/ e.kind = "receive" /\ InputDue(a)
       \/ /\ e.kind = "timer"
          /\ \E t \in timers : t.id = e.id /\ t.id \in waits[a].timers /\ t.ready # 0
       \/ e.kind \in waits[a].boxes /\ e.kind \in Boxes /\ boxes[e.kind].queue # <<>>

LEMMA EventsAre ==
    ASSUME TurnTypes, NEW a \in Activations,
           NEW e \in Turns!InputEvents(a) \cup Turns!TimerEvents(a) \cup Turns!MessageEvents(a)
    PROVE  EventOf(e, a)
<1>1. PICK w : w = waits[a]
  OBVIOUS
<1>2. w \in Waiting /\ input \in Seq(Nat) /\ waits[a] = w
  BY <1>1 DEF TurnTypes, WaitsType, InputType
<1>3. w.octets \in Nat /\ w.registered \in Nat /\ w.fill \in BOOLEAN /\ w.boxes \in SUBSET Boxes
  BY <1>2 DEF Waiting
<1>4. CASE e \in Turns!InputEvents(a)
  <2>1. w.octets # 0 /\ input # <<>>
    BY <1>2, <1>4 DEF Turns!InputEvents
  <2>2. CASE ~w.fill
    <3>1. e = [act |-> a, kind |-> "receive", id |-> 0, seq |-> input[1]]
      BY <1>2, <1>4, <2>1, <2>2 DEF Turns!InputEvents, Turns!Event
    <3>2. e.act = a /\ e.kind = "receive" /\ e.seq = input[1]
      BY <3>1
    <3>3. input[1] \in Nat
      BY <1>2, <2>1, TailFacts
    <3> QED BY <1>2, <2>1, <2>2, <3>2, <3>3 DEF EventOf, InputDue
  <2>3. CASE w.fill
    <3>1. ~(Len(input) < w.octets)
      BY <1>2, <1>4, <2>1, <2>3 DEF Turns!InputEvents, Turns!Event
    <3>2. e = [act |-> a, kind |-> "receive", id |-> 0, seq |-> Turns!Larger(w.registered, input[w.octets])]
      BY <1>2, <1>4, <2>1, <2>3, <3>1 DEF Turns!InputEvents, Turns!Event
    <3>3. Len(input) \in Nat
      BY <1>2, LenProperties
    <3>4. w.octets \in 1..Len(input) /\ Len(input) >= w.octets
      BY <1>3, <2>1, <3>1, <3>3
    <3>5. input[w.octets] \in Nat
      BY <1>2, <3>4, ElementOfSeq
    <3>6. Turns!Larger(w.registered, input[w.octets]) \in Nat
      BY <1>3, <3>5 DEF Turns!Larger
    <3>7. e.act = a /\ e.kind = "receive" /\ e.seq \in Nat
      BY <3>2, <3>6
    <3> QED BY <1>2, <2>1, <2>3, <3>4, <3>7 DEF EventOf, InputDue
  <2> QED BY <1>3, <2>2, <2>3
<1>5. CASE e \in Turns!TimerEvents(a)
  <2>1. PICK t \in timers : t.id \in waits[a].timers /\ t.ready # 0 /\ e = Turns!Event(a, "timer", t.id, t.ready)
    BY <1>5 DEF Turns!TimerEvents
  <2>2. t.ready \in Nat
    BY DEF TurnTypes, TimersType, Timer
  <2>3. e.act = a /\ e.kind = "timer" /\ e.id = t.id /\ e.seq \in Nat
    BY <2>1, <2>2 DEF Turns!Event
  <2> QED BY <2>1, <2>3 DEF EventOf
<1>6. CASE e \in Turns!MessageEvents(a)
  <2>1. PICK b \in w.boxes : boxes[b].queue # <<>> /\ e = Turns!Event(a, b, 0, boxes[b].queue[1].seq)
    BY <1>2, <1>6 DEF Turns!MessageEvents
  <2>2. b \in Boxes
    BY <1>3
  <2>3. boxes[b].queue \in Seq(Message)
    BY <2>2 DEF TurnTypes, BoxesType, Mailbox
  <2>4. boxes[b].queue[1] \in Message
    BY <2>1, <2>3, TailFacts
  <2>5. boxes[b].queue[1].seq \in Nat
    BY <2>4 DEF Message
  <2>6. e.act = a /\ e.kind = b /\ e.seq \in Nat
    BY <2>1, <2>5 DEF Turns!Event
  <2> QED BY <1>2, <2>1, <2>2, <2>6 DEF EventOf
<1> QED BY <1>4, <1>5, <1>6

\* There is an event when an activation is stirred.
LEMMA ReadyIs ==
    ASSUME TurnTypes
    PROVE  /\ Turns!Ready = {} => \A a \in Activations : ~Stirred(a)
           /\ \A e \in Turns!Ready : e.act \in Activations /\ OnWait(e.act) /\ EventOf(e, e.act)
           /\ Turns!Ready # {} => \E a \in Activations : Stirred(a)
<1>1. ASSUME NEW e \in Turns!Ready
      PROVE  e.act \in Activations /\ OnWait(e.act) /\ EventOf(e, e.act)
  <2>1. PICK a \in Activations : /\ waits[a].on
                                 /\ e \in Turns!InputEvents(a) \cup Turns!TimerEvents(a) \cup Turns!MessageEvents(a)
    BY <1>1 DEF Turns!Ready
  <2>2. EventOf(e, a)
    BY <2>1, EventsAre
  <2>3. e.act = a
    BY <2>2 DEF EventOf
  <2> QED BY <2>1, <2>2, <2>3 DEF OnWait
<1>2. ASSUME NEW e \in Turns!Ready
      PROVE  Stirred(e.act)
  <2>1. OnWait(e.act) /\ EventOf(e, e.act)
    BY <1>1
  <2> QED BY <2>1 DEF EventOf, Stirred, TimerDue, MailDue
<1>3. ASSUME NEW a \in Activations, Stirred(a)
      PROVE  Turns!Ready # {}
  <2>1. OnWait(a)
    BY <1>3 DEF Stirred
  <2>2. \E e : e \in Turns!InputEvents(a) \cup Turns!TimerEvents(a) \cup Turns!MessageEvents(a)
    <3>1. CASE InputDue(a)
      <4>1. waits[a].octets # 0 /\ input # <<>>
        BY <3>1 DEF InputDue
      <4>2. waits[a].fill => ~(Len(input) < waits[a].octets)
        <5>1. Len(input) \in Nat /\ waits[a].octets \in Nat
          <6>1. input \in Seq(Nat) /\ waits[a] \in Waiting
            BY DEF TurnTypes, InputType, WaitsType
          <6> QED BY <6>1, LenProperties DEF Waiting
        <5> QED BY <3>1, <5>1 DEF InputDue
      <4>3. \E e : e \in Turns!InputEvents(a)
        BY <4>1, <4>2 DEF Turns!InputEvents
      <4> QED BY <4>3
    <3>2. CASE TimerDue(a)
      <4>1. PICK t \in timers : t.id \in waits[a].timers /\ t.ready # 0
        BY <3>2 DEF TimerDue
      <4>2. Turns!Event(a, "timer", t.id, t.ready) \in Turns!TimerEvents(a)
        BY <4>1 DEF Turns!TimerEvents
      <4> QED BY <4>2
    <3>3. CASE MailDue(a)
      <4>1. PICK b \in waits[a].boxes : boxes[b].queue # <<>>
        BY <3>3 DEF MailDue
      <4>2. Turns!Event(a, b, 0, boxes[b].queue[1].seq) \in Turns!MessageEvents(a)
        BY <4>1 DEF Turns!MessageEvents
      <4> QED BY <4>2
    <3> QED BY <1>3, <3>1, <3>2, <3>3 DEF Stirred
  <2> QED BY <2>1, <2>2 DEF OnWait, Turns!Ready
<1> QED BY <1>1, <1>2, <1>3

\* The earliest of them is one of them.
LEMMA WinnerIs ==
    ASSUME TurnTypes, Turns!Ready # {}
    PROVE  /\ Turns!Winner \in Turns!Ready /\ Turns!Winner.act \in Activations
           /\ OnWait(Turns!Winner.act) /\ EventOf(Turns!Winner, Turns!Winner.act)
<1>1. \A e \in Turns!Ready : /\ e.act \in Activations /\ e.seq \in Nat
                             /\ OnWait(e.act) /\ EventOf(e, e.act)
  BY ReadyIs DEF EventOf
<1>2. PICK R : R = Turns!Ready
  OBVIOUS
<1>3. \E e \in R : \A f \in R :
        e.seq < f.seq \/ (e.seq = f.seq /\ waits[e.act].registered <= waits[f.act].registered)
  <2>1. PICK S : S = {e.seq : e \in R}
    OBVIOUS
  <2>2. S \subseteq Nat /\ S # {}
    BY <1>1, <1>2, <2>1
  <2>3. PICK s \in S : \A x \in S : s <= x
    BY <2>2, Least
  <2>4. PICK D : D = {waits[e.act].registered : e \in {e \in R : e.seq = s}}
    OBVIOUS
  <2>5. D # {}
    BY <2>1, <2>4
  <2>6. \A e \in R : waits[e.act].registered \in Nat
    BY <1>1, <1>2 DEF TurnTypes, WaitsType, Waiting
  <2>7. D \subseteq Nat
    BY <2>4, <2>6
  <2>8. PICK d \in D : \A x \in D : d <= x
    BY <2>5, <2>7, Least
  <2>9. PICK e \in R : e.seq = s /\ waits[e.act].registered = d
    BY <2>4
  <2>10. ASSUME NEW f \in R
         PROVE  e.seq < f.seq \/ (e.seq = f.seq /\ waits[e.act].registered <= waits[f.act].registered)
    <3>1. f.seq \in Nat /\ s \in Nat /\ s <= f.seq
      BY <1>1, <1>2, <2>1, <2>2, <2>3
    <3>2. CASE f.seq = s
      <4>1. waits[f.act].registered \in D
        BY <2>4, <3>2
      <4> QED BY <2>8, <2>9, <3>2, <4>1
    <3> QED BY <2>9, <3>1, <3>2
  <2> QED BY <2>10
<1>4. Turns!Winner \in Turns!Ready
  BY <1>2, <1>3 DEF Turns!Winner
<1> QED BY <1>1, <1>4

\* The job that is selected is one of those queued.
SelectedJob == CHOOSE j \in jobs.jobs : \A k \in jobs.jobs : j.seq <= k.seq
LEMMA SelectedIs ==
    ASSUME JobsType, jobs.jobs # {}
    PROVE  SelectedJob \in jobs.jobs /\ SelectedJob \in Requested
<1>1. jobs.jobs \subseteq Requested
  BY DEF JobsType, Drain
<1>2. PICK S : S = {j.seq : j \in jobs.jobs}
  OBVIOUS
<1>3. S \subseteq Nat /\ S # {}
  BY <1>1, <1>2 DEF Requested
<1>4. PICK s \in S : \A x \in S : s <= x
  BY <1>3, Least
<1>5. \E j \in jobs.jobs : \A k \in jobs.jobs : j.seq <= k.seq
  BY <1>2, <1>4
<1>6. SelectedJob \in jobs.jobs
  BY <1>5 DEF SelectedJob
<1> QED BY <1>1, <1>6

-----------------------------------------------------------------------------
(* What a step that leaves a part alone keeps.                             *)

SameStage(b) == Stage(b)' = Stage(b)
SameWait(b) == (OnWait(b)' <=> OnWait(b)) /\ (Receiving(b)' <=> Receiving(b))
SameRoute(b) ==
    /\ Reading(b)' <=> Reading(b)
    /\ ByChild(b)' <=> ByChild(b)
    /\ Boxless(b)' <=> Boxless(b)
    /\ HandsBack(b)' <=> HandsBack(b)
SameCalls(b) ==
    /\ Calling(b)' <=> Calling(b)
    /\ RelayOf(b)' <=> RelayOf(b)
    /\ Relayed(b)' <=> Relayed(b)
SameDue(b) ==
    /\ \A o \in BOOLEAN : DueIn(micro, b, o)' <=> DueIn(micro, b, o)
    /\ OneIn(micro, b) => OneIn(micro, b)'
SameTurns(b) ==
    /\ TurnIn(jobs, b)' <=> TurnIn(jobs, b)
    /\ OneTurnIn(jobs, b)' <=> OneTurnIn(jobs, b)
    /\ RunsIn(jobs, b)' <=> RunsIn(jobs, b)

LEMMA StageSame == UNCHANGED activations => \A b : SameStage(b)
BY DEF SameStage, Stage
LEMMA WaitSame == UNCHANGED <<waits, receiver>> => \A b : SameWait(b)
BY DEF SameWait, OnWait, Receiving
LEMMA RouteSame == UNCHANGED routed => \A b : SameRoute(b)
BY DEF SameRoute, Reading, ByChild, Boxless, HandsBack
LEMMA CallsSame == UNCHANGED <<outbound, relay, relays>> => \A b : SameCalls(b)
BY DEF SameCalls, Calling, RelayOf, Relayed
LEMMA DueSame == UNCHANGED micro => \A b : SameDue(b)
BY DEF SameDue
LEMMA TurnsSame == UNCHANGED jobs => \A b : SameTurns(b)
BY DEF SameTurns

\* An activation that nothing happens to keeps its place.
LEMMA PlaceKept ==
    ASSUME NEW b, Place(b), SameStage(b), SameWait(b), SameRoute(b), SameCalls(b), SameDue(b),
           SameTurns(b), outbound'.kind = outbound.kind
    PROVE  Place(b)'
BY DEF Place, SameStage, SameWait, SameRoute, SameCalls, SameDue, SameTurns, Alive, Calls

\* Nor does one that has ended, whatever reactions and turns it left behind.
LEMMA PlaceLeft ==
    ASSUME NEW b, Place(b), ~Alive(b), SameStage(b), SameWait(b), SameRoute(b), SameCalls(b)
    PROVE  Place(b)'
BY DEF Place, SameStage, SameWait, SameRoute, SameCalls, Alive, Calls

\* One that has ended is nowhere.
LEMMA PlaceEnded ==
    ASSUME NEW b, Stage(b)' = "ended", ~OnWait(b)', ~Receiving(b)', ~Reading(b)', ~ByChild(b)',
           ~HandsBack(b)', ~Relayed(b)'
    PROVE  Place(b)'
BY DEF Place, Alive, Calls

LEMMA QueueKept == QueueInv /\ UNCHANGED <<jobs, micro>> => QueueInv'
BY DEF QueueInv

LEMMA RelayKept ==
    ASSUME RelayInv, UNCHANGED <<relay, relays, outbound>>,
           \A j : Authorizes(j) => (j \in jobs'.jobs <=> j \in jobs.jobs),
           Authorizes(jobs.job) \/ Authorizes(jobs'.job) => jobs'.job = jobs.job
    PROVE  RelayInv'
BY DEF RelayInv, RelayOf

LEMMA StirredSame ==
    UNCHANGED <<waits, input, timers, boxes>> => \A b : Stirred(b)' <=> Stirred(b)
BY DEF Stirred, InputDue, TimerDue, MailDue, OnWait

LEMMA WakeKept ==
    ASSUME WakeInv, UNCHANGED <<waits, input, timers, boxes, receiver, routed>>, pump => pump',
           Alert => Alert'
    PROVE  WakeInv'
<1>1. (\E a \in Activations : Stirred(a)') => Alert'
  BY StirredSame DEF WakeInv
<1>2. \A a \in Activations : (OnWait(a)' <=> OnWait(a)) /\ (Reading(a)' <=> Reading(a))
  BY DEF OnWait, Reading
<1> QED BY <1>1, <1>2 DEF WakeInv

\* A consideration is posted for those that wait.
LEMMA WakeScheduled ==
    ASSUME Turns!ScheduleWait,
           \A a \in Activations : waits'[a].octets # 0 => OnWait(a)' /\ a = Reader,
           receiver' # Turns!NoReceiver => input' = <<>> /\ pump',
           \A a \in Activations : Reading(a)' => boxes'[routed'[a].box].queue = <<>>
    PROVE  WakeInv'
<1>1. (\E a \in Activations : OnWait(a)') => posted'
  BY DEF Turns!ScheduleWait, OnWait
<1>2. (\E a \in Activations : Stirred(a)') => Alert'
  BY <1>1 DEF Stirred, Alert
<1>3. (\E a \in Activations : waits'[a].octets # 0) => Alert'
  BY <1>1 DEF Alert
<1> QED BY <1>2, <1>3 DEF WakeInv

LEMMA MailKept ==
    ASSUME MailInv, UNCHANGED boxes, closed => closed',
           \A a \in Activations : routed'[a].box = routed[a].box \/ routed'[a].box = "nobody",
           \A a \in Activations : waits'[a].boxes \subseteq waits[a].boxes,
           \A a \in Activations : "nobody" \notin waits'[a].boxes
    PROVE  MailInv'
<1>1. \A b \in Boxes : InOrder(b)'
  BY DEF MailInv, InOrder
<1>2. ASSUME NEW a \in Activations, NEW c \in Activations, routed'[a].box = routed'[c].box, ~Boxless(a)'
      PROVE  a = c
  BY <1>2 DEF MailInv, Boxless
<1>3. ASSUME NEW a \in Activations, NEW c \in Activations, a # c
      PROVE  routed'[a].box \notin waits'[c].boxes
  BY <1>3 DEF MailInv
<1> QED BY <1>1, <1>2, <1>3 DEF MailInv

LEMMA ReceiptKept ==
    ASSUME ReceiptInv, UNCHANGED <<boxes, receipts>>, receipts \in Nat,
           \A a \in Activations : activations'[a].receipt \in {0, activations[a].receipt}
    PROVE  ReceiptInv'
<1>1. \A a \in Activations : activations'[a].receipt <= receipts'
  BY DEF ReceiptInv
<1>2. \A a, c \in Activations :
          activations'[a].receipt = activations'[c].receipt /\ activations'[a].receipt # 0 => a = c
  BY DEF ReceiptInv
<1>3. \A a \in Activations, b \in Boxes : \A i \in DOMAIN boxes'[b].queue :
          activations'[a].receipt = boxes'[b].queue[i].receipt => activations'[a].receipt = 0
  BY DEF ReceiptInv
<1>4. /\ \A b \in Boxes : \A i \in DOMAIN boxes'[b].queue : boxes'[b].queue[i].receipt <= receipts'
      /\ \A b, d \in Boxes : \A i \in DOMAIN boxes'[b].queue, j \in DOMAIN boxes'[d].queue :
            boxes'[b].queue[i].receipt = boxes'[d].queue[j].receipt /\ boxes'[b].queue[i].receipt # 0
            => b = d /\ i = j
  BY DEF ReceiptInv
<1> QED BY <1>1, <1>2, <1>3, <1>4 DEF ReceiptInv

LEMMA TimersKept ==
    ASSUME TimersInv, UNCHANGED timers,
           \A a \in Activations : waits'[a] = waits[a] \/ waits'[a].timers = {}
    PROVE  TimersInv'
BY DEF TimersInv, TimerAt, OnWait

LEMMA LedgerKept ==
    ASSUME LedgerInv, UNCHANGED <<ledger, timers>>, outbound'.kind = outbound.kind,
           \A b \in Activations : SameWait(b) /\ SameCalls(b) /\ (Reading(b)' <=> Reading(b))
    PROVE  LedgerInv'
<1>1. ASSUME NEW k \in EffectKinds, NEW a \in Activations, NEW d \in Nat
      PROVE  Held(k, a, d)' <=> Owed(k, a, d)'
  <2>1. Held(k, a, d)' <=> Held(k, a, d)
    BY DEF Held
  <2>2. TimerAt(k, a, d)' <=> TimerAt(k, a, d)
    BY DEF TimerAt
  <2>3. Owed(k, a, d)' <=> Owed(k, a, d)
    BY <2>2 DEF Owed, SameWait, SameCalls
  <2> QED BY <2>1, <2>3 DEF LedgerInv
<1> QED BY <1>1 DEF LedgerInv

-----------------------------------------------------------------------------
(* Tasks and reactions keep the invariant.                                 *)

\* What nothing but reactions, postings and the queue's state are changed by.
LEMMA OnlyReactions ==
    ASSUME TurnsInv, UNCHANGED <<activations, waits, receiver, input, boxes, timers, routed,
               outbound, relays, relay, ledger, closed, receipts>>,
           jobs' \in Drain, jobs'.jobs = jobs.jobs, jobs'.job = jobs.job,
           micro' \in Seq(Reaction), posted' \in BOOLEAN, pump' \in BOOLEAN, heard' \in Seq(Nat),
           \A b \in Activations : SameDue(b) \/ ~Alive(b), QueueInv', WakeInv'
    PROVE  TurnsInv'
<1>1. TurnTypes'
  BY DEF TurnsInv, TurnTypes, ActsType, JobsType, MicroType, WaitsType, InputType, BoxesType,
         TimersType, RoutedType, CallsType
<1>2. RelayInv'
  <2>1. /\ \A j : Authorizes(j) => (j \in jobs'.jobs <=> j \in jobs.jobs)
        /\ Authorizes(jobs.job) \/ Authorizes(jobs'.job) => jobs'.job = jobs.job
    OBVIOUS
  <2>2. RelayInv /\ UNCHANGED <<relay, relays, outbound>>
    BY DEF TurnsInv
  <2> QED BY <2>1, <2>2, RelayKept
<1>3. PlaceInv'
  <2> SUFFICES ASSUME NEW b \in Activations PROVE Place(b)'
    BY DEF PlaceInv
  <2>1. SameTurns(b)
    BY DEF SameTurns, TurnIn, OneTurnIn, RunsIn
  <2>2. SameStage(b) /\ SameWait(b) /\ SameRoute(b) /\ SameCalls(b)
    BY StageSame, WaitSame, RouteSame, CallsSame
  <2>3. Place(b) /\ outbound'.kind = outbound.kind
    BY DEF TurnsInv, PlaceInv
  <2> QED BY <2>1, <2>2, <2>3, PlaceKept, PlaceLeft
<1>4. MailInv'
  <2>1. \A a \in Activations : "nobody" \notin waits[a].boxes
    BY TurnsConstants DEF TurnsInv, TurnTypes, WaitsType, Waiting
  <2> QED BY <2>1, MailKept DEF TurnsInv
<1>5. ReceiptInv'
  BY ReceiptKept DEF TurnsInv, TurnTypes, InputType
<1>6. TimersInv'
  BY TimersKept DEF TurnsInv
<1>7. LedgerInv'
  <2>1. \A b \in Activations : SameWait(b) /\ SameCalls(b) /\ (Reading(b)' <=> Reading(b))
    BY WaitSame, CallsSame, RouteSame DEF SameRoute
  <2> QED BY <2>1, LedgerKept DEF TurnsInv
<1> QED BY <1>1, <1>2, <1>3, <1>4, <1>5, <1>6, <1>7 DEF TurnsInv

\* A task that starts with a consideration.
LEMMA ConsiderIs ==
    ASSUME micro = <<>>, micro' = <<Turns!Consider>>
    PROVE  /\ micro' \in Seq(Reaction) /\ OneTask(micro)' /\ HasTask(micro, "consider")'
           /\ ~HasTask(micro, "select")' /\ \A b \in Activations : SameDue(b)
<1>1. /\ Turns!Consider \in Reaction /\ IsTask(Turns!Consider) /\ Turns!Consider.what = "consider"
  BY DEF Turns!Consider, Turns!Nobody, Reaction, IsTask
<1>2. /\ micro' \in Seq(Reaction) /\ OneTask(micro') /\ \A w : HasTask(micro', w) <=> w = "consider"
      /\ \A b : OneIn(micro', b) /\ \A ok : ~DueIn(micro', b, ok)
  BY <1>1, OneTaskAlone
<1>3. \A b : \A ok : ~DueIn(micro, b, ok)
  BY NoReactions
<1>4. \A b : OneIn(micro, b)' /\ \A ok : ~DueIn(micro, b, ok)'
  BY <1>2 DEF OneIn, DueIn
<1>5. OneTask(micro)' /\ HasTask(micro, "consider")' /\ ~HasTask(micro, "select")'
  BY <1>2 DEF OneTask, HasTask
<1> QED BY <1>2, <1>3, <1>4, <1>5 DEF SameDue

LEMMA ReadyTaskKeeps ==
    ASSUME TurnsInv, Turns!ReadyTask
    PROVE  TurnsInv'
<1>1. /\ micro = <<>> /\ posted' = FALSE /\ micro' = <<Turns!Consider>>
      /\ UNCHANGED <<activations, jobs, waits, receiver, input, pump, heard, boxes, timers, routed,
                     outbound, relays, relay, ledger, closed, receipts>>
  BY DEF Turns!ReadyTask
<1>2. /\ micro' \in Seq(Reaction) /\ OneTask(micro)' /\ HasTask(micro, "consider")'
      /\ ~HasTask(micro, "select")' /\ \A b \in Activations : SameDue(b)
  BY <1>1, ConsiderIs
<1>3. QueueInv'
  BY <1>1, <1>2 DEF TurnsInv, QueueInv
<1>4. WakeInv'
  BY <1>1, <1>2, WakeKept DEF TurnsInv, Alert
<1>5. jobs' \in Drain /\ pump' \in BOOLEAN /\ jobs' = jobs /\ posted' \in BOOLEAN /\ heard' \in Seq(Nat)
  BY <1>1 DEF TurnsInv, TurnTypes, JobsType, InputType
<1> QED BY <1>1, <1>2, <1>3, <1>4, <1>5, OnlyReactions

LEMMA DrainTaskKeeps ==
    ASSUME TurnsInv, Turns!DrainTask
    PROVE  TurnsInv'
<1>1. /\ micro = <<>> /\ jobs.state = "posted" /\ jobs' = [jobs EXCEPT !.state = "matching"]
      /\ micro' = <<Turns!Consider>>
      /\ UNCHANGED <<activations, posted, waits, receiver, input, pump, heard, boxes, timers, routed,
                     outbound, relays, relay, ledger, closed, receipts>>
  BY DEF Turns!DrainTask
<1>2. /\ micro' \in Seq(Reaction) /\ OneTask(micro)' /\ HasTask(micro, "consider")'
      /\ ~HasTask(micro, "select")' /\ \A b \in Activations : SameDue(b)
  BY <1>1, ConsiderIs
<1>3. jobs' \in Drain /\ jobs'.jobs = jobs.jobs /\ jobs'.job = jobs.job /\ jobs'.state = "matching"
  BY <1>1 DEF TurnsInv, TurnTypes, JobsType, Drain
<1>4. QueueInv'
  BY <1>1, <1>2, <1>3 DEF TurnsInv, QueueInv
<1>5. WakeInv'
  BY <1>1, <1>2, WakeKept DEF TurnsInv, Alert
<1>6. pump' \in BOOLEAN /\ posted' \in BOOLEAN /\ heard' \in Seq(Nat)
  BY <1>1 DEF TurnsInv, TurnTypes, InputType
<1> QED BY <1>1, <1>2, <1>3, <1>4, <1>5, <1>6, OnlyReactions

LEMMA FirstReactionKeeps ==
    ASSUME TurnsInv, Turns!FirstReaction
    PROVE  TurnsInv'
<1>1. /\ micro # <<>> /\ Head(micro).what = "native"
      /\ micro' = Append(Tail(micro), [Head(micro) EXCEPT !.what = "run"])
      /\ UNCHANGED <<activations, jobs, posted, waits, receiver, input, pump, heard, boxes, timers,
                     routed, outbound, relays, relay, ledger, closed, receipts>>
  BY DEF Turns!FirstReaction
<1>2. PICK m, r, h : m = Tail(micro) /\ r = [Head(micro) EXCEPT !.what = "run"] /\ h = Head(micro)
  OBVIOUS
<1>3. micro \in Seq(Reaction) /\ OneTask(micro)
  BY DEF TurnsInv, TurnTypes, MicroType, QueueInv
<1>4. h \in Reaction /\ h.what = "native"
  BY <1>1, <1>2, <1>3, TailFacts
<1>5. r \in Reaction /\ ~IsTask(r) /\ ~IsTask(h) /\ r.act = h.act /\ r.ok = h.ok
  BY <1>2, <1>4 DEF Reaction, IsTask
<1>6. /\ m \in Seq(Reaction) /\ OneTask(m)
      /\ \A w \in {"consider", "select"} : HasTask(m, w) <=> HasTask(micro, w)
      /\ DueIn(micro, h.act, h.ok)
      /\ \A b, o : b # h.act \/ o # h.ok => (DueIn(m, b, o) <=> DueIn(micro, b, o))
      /\ OneIn(micro, h.act) => \A o : ~DueIn(m, h.act, o)
      /\ \A b : OneIn(micro, b) => OneIn(m, b)
  BY <1>1, <1>2, <1>3, <1>5, ReactionDone
<1>7. PICK n : n = Append(m, r)
  OBVIOUS
<1>8. /\ n \in Seq(Reaction) /\ OneTask(n)
      /\ \A w \in {"consider", "select"} : HasTask(n, w) <=> HasTask(m, w)
      /\ \A b, o : DueIn(n, b, o) <=> DueIn(m, b, o) \/ (b = r.act /\ o = r.ok)
      /\ \A b : OneIn(m, b) /\ (b = r.act => \A o \in BOOLEAN : ~DueIn(m, b, o)) => OneIn(n, b)
  BY <1>5, <1>6, <1>7, OneReactionMore
<1>9. micro' = n
  BY <1>1, <1>2, <1>7
<1>10. \A b \in Activations : SameDue(b)
  <2> SUFFICES ASSUME NEW b \in Activations PROVE SameDue(b)
    OBVIOUS
  <2>1. \A o : DueIn(n, b, o) <=> DueIn(micro, b, o)
    BY <1>5, <1>6, <1>8
  <2>2. OneIn(micro, b) => OneIn(n, b)
    BY <1>5, <1>6, <1>8
  <2> QED BY <1>9, <2>1, <2>2 DEF SameDue
<1>11. OneTask(micro)' /\ \A w \in {"consider", "select"} : HasTask(micro, w)' <=> HasTask(micro, w)
  BY <1>6, <1>8, <1>9
<1>12. QueueInv'
  BY <1>1, <1>11 DEF TurnsInv, QueueInv
<1>13. WakeInv'
  BY <1>1, <1>11, WakeKept DEF TurnsInv, Alert
<1>14. jobs' \in Drain /\ pump' \in BOOLEAN /\ jobs' = jobs /\ posted' \in BOOLEAN /\ micro' \in Seq(Reaction) /\ heard' \in Seq(Nat)
  BY <1>1, <1>8, <1>9 DEF TurnsInv, TurnTypes, JobsType, InputType
<1> QED BY <1>1, <1>10, <1>12, <1>13, <1>14, OnlyReactions

LEMMA ConsideredKeeps ==
    ASSUME TurnsInv, Turns!Considered
    PROVE  TurnsInv'
<1>1. /\ micro # <<>> /\ Head(micro).what = "consider" /\ Turns!Ready = {}
      /\ pump' = (pump \/ \E a \in Activations : waits[a].octets > 0)
      /\ micro' = Tail(micro) \o (IF jobs.state = "matching" THEN <<Turns!Select>> ELSE <<>>)
      /\ UNCHANGED <<activations, jobs, posted, waits, receiver, input, heard, boxes, timers, routed,
                     outbound, relays, relay, ledger, closed, receipts>>
  BY DEF Turns!Considered, Turns!Considering
<1>2. PICK m, r : m = Tail(micro) /\ r = Turns!Select
  OBVIOUS
<1>3. micro \in Seq(Reaction) /\ OneTask(micro) /\ TurnTypes
  BY DEF TurnsInv, TurnTypes, MicroType, QueueInv
<1>4. /\ m \in Seq(Reaction) /\ OneTask(m)
      /\ \A w \in {"consider", "select"} : ~HasTask(m, w)
      /\ \A b, o : DueIn(m, b, o) <=> DueIn(micro, b, o)
      /\ \A b : OneIn(micro, b) => OneIn(m, b)
  <2>1. IsTask(Head(micro))
    BY <1>1 DEF IsTask
  <2> QED BY <1>1, <1>2, <1>3, <2>1, TaskDone
<1>5. r \in Reaction /\ IsTask(r) /\ r.what = "select"
  BY <1>2 DEF Turns!Select, Turns!Nobody, Reaction, IsTask
<1>6. PICK n : n = IF jobs.state = "matching" THEN Append(m, r) ELSE m
  OBVIOUS
<1>7. /\ n \in Seq(Reaction) /\ OneTask(n) /\ ~HasTask(n, "consider")
      /\ HasTask(n, "select") => jobs.state = "matching"
      /\ \A b, o : DueIn(n, b, o) <=> DueIn(micro, b, o)
      /\ \A b : OneIn(micro, b) => OneIn(n, b)
  <2>1. CASE jobs.state = "matching"
    <3>1. n = Append(m, r)
      BY <1>6, <2>1
    <3>2. /\ n \in Seq(Reaction) /\ OneTask(n)
          /\ \A w \in {"consider", "select"} : HasTask(n, w) <=> w = "select"
          /\ \A b, o : DueIn(n, b, o) <=> DueIn(m, b, o)
          /\ \A b : OneIn(m, b) => OneIn(n, b)
      BY <1>4, <1>5, <3>1, OneTaskMore
    <3> QED BY <1>4, <2>1, <3>2
  <2>2. CASE jobs.state # "matching"
    BY <1>4, <1>6, <2>2
  <2> QED BY <2>1, <2>2
<1>8. micro' = n
  <2>1. m \o <<r>> = Append(m, r) /\ m \o <<>> = m
    BY <1>4, <1>5, AppendIs
  <2> QED BY <1>1, <1>2, <1>6, <2>1
<1>9. \A b \in Activations : SameDue(b)
  BY <1>7, <1>8 DEF SameDue
<1>10. OneTask(micro)' /\ (HasTask(micro, "select")' => jobs.state = "matching")
  BY <1>7, <1>8
<1>11. QueueInv'
  BY <1>1, <1>10 DEF TurnsInv, QueueInv
<1>12. \A a \in Activations : ~Stirred(a)
  BY <1>1, <1>3, ReadyIs
<1>13. WakeInv'
  <2>1. \A a \in Activations : ~Stirred(a)'
    BY <1>1, <1>12, StirredSame
  <2>2. \A a \in Activations : waits[a].octets # 0 => waits[a].octets > 0
    BY <1>3 DEF TurnTypes, WaitsType, Waiting
  <2>3. (\E a \in Activations : waits'[a].octets # 0) => pump'
    <3>1. waits' = waits /\ pump' = (pump \/ \E a \in Activations : waits[a].octets > 0)
      BY <1>1
    <3>2. (\E a \in Activations : waits'[a].octets # 0) => \E a \in Activations : waits[a].octets > 0
      BY <2>2, <3>1
    <3> QED BY <3>1, <3>2
  <2>4. pump => pump'
    BY <1>1
  <2>5. \A a \in Activations : (OnWait(a)' <=> OnWait(a)) /\ (Reading(a)' <=> Reading(a))
    BY <1>1 DEF OnWait, Reading
  <2>6. UNCHANGED <<waits, receiver, input, boxes, routed>> /\ WakeInv
    BY <1>1 DEF TurnsInv
  <2> QED BY <2>1, <2>3, <2>4, <2>5, <2>6 DEF WakeInv
<1>14. jobs' \in Drain /\ pump' \in BOOLEAN /\ jobs' = jobs /\ posted' \in BOOLEAN /\ heard' \in Seq(Nat)
  <2>1. pump \in BOOLEAN
    BY <1>3 DEF TurnTypes, InputType
  <2> QED BY <1>1, <1>3, <2>1 DEF TurnTypes, JobsType, InputType
<1>15. micro' \in Seq(Reaction)
  BY <1>7, <1>8
<1> QED BY <1>1, <1>9, <1>11, <1>13, <1>14, <1>15, OnlyReactions

LEMMA HearKeeps ==
    ASSUME TurnsInv, Turns!Hear
    PROVE  TurnsInv'
<1>1. /\ heard' = Append(heard, Turns!Stamp)
      /\ UNCHANGED <<activations, jobs, micro, posted, waits, receiver, input, pump, boxes, timers, routed,
                     outbound, relays, relay, ledger, closed, receipts>>
  BY DEF Turns!Hear
<1>2. heard' \in Seq(Nat)
  <2>1. heard \in Seq(Nat) /\ Turns!Stamp \in Nat
    BY StampFacts DEF TurnsInv, TurnTypes, InputType
  <2> QED BY <1>1, <2>1, AppendFacts
<1>3. QueueInv' /\ WakeInv'
  BY <1>1, QueueKept, WakeKept DEF TurnsInv, Alert
<1>4. \A b \in Activations : SameDue(b)
  BY <1>1, DueSame
<1>5. jobs' \in Drain /\ jobs' = jobs /\ micro' \in Seq(Reaction) /\ posted' \in BOOLEAN /\ pump' \in BOOLEAN
  BY <1>1 DEF TurnsInv, TurnTypes, JobsType, MicroType, InputType
<1> QED BY <1>1, <1>2, <1>3, <1>4, <1>5, OnlyReactions

-----------------------------------------------------------------------------
(* Of the ledger.                                                          *)

LEMMA EffectAdded ==
    ASSUME NEW k0, NEW a0, NEW d0, ledger' = ledger \cup {Turns!Effect(k0, a0, d0)}
    PROVE  \A k, a, d : Held(k, a, d)' <=> Held(k, a, d) \/ (k = k0 /\ a = a0 /\ d = d0)
BY DEF Held, Turns!Effect

LEMMA EffectGone ==
    ASSUME NEW k0, NEW a0, NEW d0, ledger' = ledger \ {Turns!Effect(k0, a0, d0)}
    PROVE  \A k, a, d : Held(k, a, d)' <=> Held(k, a, d) /\ ~(k = k0 /\ a = a0 /\ d = d0)
BY DEF Held, Turns!Effect

LEMMA EffectType ==
    ASSUME NEW k \in EffectKinds, NEW a \in Activations, NEW d \in Nat
    PROVE  Turns!Effect(k, a, d) \in [kind : EffectKinds, act : Activations, id : Nat]
BY DEF Turns!Effect

-----------------------------------------------------------------------------
(* Of turns.                                                               *)

LEMMA FreedTurns ==
    ASSUME NEW q \in Drain, NEW f, f = Turns!Freed(q)
    PROVE  /\ f \in Drain /\ f.jobs = q.jobs /\ f.job = Turns!NoJob
           /\ f.state = IF q.jobs = {} THEN "idle" ELSE "posted"
           /\ \A b : /\ TurnIn(f, b) <=> TurnIn(q, b)
                     /\ OneTurnIn(f, b) <=> OneTurnIn(q, b)
                     /\ ~RunsIn(f, b)
           /\ ~Authorizes(f.job)
BY FreedIs, NoJobIs DEF TurnIn, OneTurnIn, RunsIn

LEMMA QueuedTurn ==
    ASSUME NEW q \in Drain, NEW a \in Activations, NEW s \in Nat, NEW f,
           f = Turns!Queued(q, [act |-> a, part |-> "turn", seq |-> s]), IsFiniteSet(q.jobs)
    PROVE  /\ f \in Drain /\ IsFiniteSet(f.jobs) /\ f.jobs # {} /\ f.job = q.job
           /\ f.state = IF q.state = "idle" THEN "posted" ELSE q.state
           /\ \A b : /\ TurnIn(f, b) <=> TurnIn(q, b) \/ b = a
                     /\ OneTurnIn(q, b) /\ (b = a => ~TurnIn(q, b)) => OneTurnIn(f, b)
                     /\ RunsIn(f, b) <=> RunsIn(q, b)
           /\ \A j : Authorizes(j) => (j \in f.jobs <=> j \in q.jobs)
<1>1. PICK j : j = [act |-> a, part |-> "turn", seq |-> s]
  OBVIOUS
<1>2. j \in Requested /\ ~Authorizes(j) /\ \A b : IsTurnOf(j, b) <=> b = a
  BY <1>1 DEF Requested, Authorizes, IsTurnOf
<1>3. /\ f \in Drain /\ f.jobs = q.jobs \cup {j} /\ f.job = q.job
      /\ f.state = IF q.state = "idle" THEN "posted" ELSE q.state
  BY <1>1, <1>2, QueuedIs
<1>4. IsFiniteSet(f.jobs)
  BY <1>3, FS_AddElement
<1>5. \A b : TurnIn(f, b) <=> TurnIn(q, b) \/ b = a
  BY <1>2, <1>3 DEF TurnIn
<1>6. \A b : OneTurnIn(q, b) /\ (b = a => ~TurnIn(q, b)) => OneTurnIn(f, b)
  BY <1>2, <1>3 DEF TurnIn, OneTurnIn
<1>7. \A b : RunsIn(f, b) <=> RunsIn(q, b)
  BY <1>3 DEF RunsIn
<1>8. \A i : Authorizes(i) => (i \in f.jobs <=> i \in q.jobs)
  BY <1>2, <1>3
<1> QED BY <1>3, <1>4, <1>5, <1>6, <1>7, <1>8

\* An activation whose turn runs is nowhere else.
LEMMA RunningIs ==
    ASSUME TurnsInv, NEW a \in Activations, Turns!Running(a, "turn")
    PROVE  /\ ~closed /\ micro = <<>> /\ jobs.state = "running" /\ RunsIn(jobs, a)
           /\ ~Authorizes(jobs.job) /\ \A b : b # a => ~RunsIn(jobs, b)
           /\ Turns!Live(a) => /\ Alive(a) /\ Stage(a) = "running" /\ ~OnWait(a) /\ ~Receiving(a)
                               /\ ~(Reading(a) /\ ~ByChild(a)) /\ ~ByChild(a) /\ ~Reading(a)
                               /\ ~HandsBack(a) /\ ~Calling(a) /\ ~RelayOf(a) /\ ~Relayed(a)
                               /\ ~TurnIn(jobs, a) /\ OneTurnIn(jobs, a)
<1>1. ~closed /\ micro = <<>> /\ jobs.state = "running" /\ jobs.job.act = a /\ jobs.job.part = "turn"
  BY DEF Turns!Running
<1>2. RunsIn(jobs, a) /\ ~Authorizes(jobs.job) /\ \A b : b # a => ~RunsIn(jobs, b)
  BY <1>1 DEF RunsIn, IsTurnOf, Authorizes
<1>3. ASSUME Turns!Live(a)
      PROVE  Alive(a) /\ Place(a)
  BY <1>3 DEF Turns!Live, Alive, Stage, TurnsInv, PlaceInv
<1>4. ASSUME Alive(a), Place(a)
      PROVE  /\ Stage(a) = "running" /\ ~OnWait(a) /\ ~Receiving(a) /\ ~ByChild(a) /\ ~Reading(a)
             /\ ~HandsBack(a) /\ ~Calling(a) /\ ~RelayOf(a) /\ ~Relayed(a)
             /\ ~TurnIn(jobs, a) /\ OneTurnIn(jobs, a)
  BY <1>2, <1>4 DEF Place, Calls
<1> QED BY <1>1, <1>2, <1>3, <1>4

\* What a request that is performed at once comes to for the queue.
LEMMA ContinuedQueue ==
    ASSUME TurnsInv, NEW a \in Activations, NEW s \in Nat, Turns!Running(a, "turn"), Turns!Live(a),
           jobs' = Turns!Queued(Turns!Freed(jobs), [act |-> a, part |-> "turn", seq |-> s])
    PROVE  /\ JobsType' /\ jobs'.state = "posted" /\ jobs'.jobs # {} /\ jobs'.job = Turns!NoJob
           /\ \A j : Authorizes(j) => (j \in jobs'.jobs <=> j \in jobs.jobs)
           /\ \A b : b # a => SameTurns(b)
           /\ TurnIn(jobs, a)' /\ OneTurnIn(jobs, a)' /\ ~RunsIn(jobs, a)'
<1>1. jobs \in Drain /\ IsFiniteSet(jobs.jobs)
  BY DEF TurnsInv, TurnTypes, JobsType
<1>2. PICK f : f = Turns!Freed(jobs)
  OBVIOUS
<1>3. /\ f \in Drain /\ f.jobs = jobs.jobs /\ f.job = Turns!NoJob
      /\ f.state = IF jobs.jobs = {} THEN "idle" ELSE "posted"
      /\ \A b : /\ TurnIn(f, b) <=> TurnIn(jobs, b)
                /\ OneTurnIn(f, b) <=> OneTurnIn(jobs, b)
                /\ ~RunsIn(f, b)
  BY <1>1, <1>2, FreedTurns
<1>4. PICK g : g = jobs'
  OBVIOUS
<1>5. /\ g \in Drain /\ IsFiniteSet(g.jobs) /\ g.jobs # {} /\ g.job = f.job
      /\ g.state = IF f.state = "idle" THEN "posted" ELSE f.state
      /\ \A b : /\ TurnIn(g, b) <=> TurnIn(f, b) \/ b = a
                /\ OneTurnIn(f, b) /\ (b = a => ~TurnIn(f, b)) => OneTurnIn(g, b)
                /\ RunsIn(g, b) <=> RunsIn(f, b)
      /\ \A j : Authorizes(j) => (j \in g.jobs <=> j \in f.jobs)
  <2>1. g = Turns!Queued(f, [act |-> a, part |-> "turn", seq |-> s])
    BY <1>2, <1>4
  <2>2. IsFiniteSet(f.jobs)
    BY <1>1, <1>3
  <2> QED BY <1>3, <2>1, <2>2, QueuedTurn
<1>6. g.state = "posted" /\ g.job = Turns!NoJob /\ \A j : Authorizes(j) => (j \in g.jobs <=> j \in jobs.jobs)
  BY <1>3, <1>5
<1>7. ~TurnIn(jobs, a) /\ OneTurnIn(jobs, a) /\ \A b : b # a => ~RunsIn(jobs, b)
  BY RunningIs
<1>8. ASSUME NEW b, b # a PROVE SameTurns(b)
  <2>1. /\ TurnIn(g, b) <=> TurnIn(jobs, b)
        /\ OneTurnIn(g, b) <=> OneTurnIn(jobs, b)
        /\ RunsIn(g, b) <=> RunsIn(jobs, b)
    <3>1. OneTurnIn(jobs, b) => OneTurnIn(g, b)
      BY <1>3, <1>5, <1>8
    <3>2. OneTurnIn(g, b) => OneTurnIn(jobs, b)
      <4>1. g.jobs = jobs.jobs \cup {[act |-> a, part |-> "turn", seq |-> s]}
        <5>1. [act |-> a, part |-> "turn", seq |-> s] \in Requested
          BY DEF Requested
        <5> QED BY <1>2, <1>3, <1>4, <5>1, QueuedIs
      <4> QED BY <4>1 DEF OneTurnIn
    <3> QED BY <1>3, <1>5, <1>7, <1>8, <3>1, <3>2
  <2> QED BY <1>4, <2>1 DEF SameTurns
<1>9. TurnIn(g, a) /\ OneTurnIn(g, a) /\ ~RunsIn(g, a)
  BY <1>3, <1>5, <1>7
<1> QED BY <1>4, <1>5, <1>6, <1>8, <1>9 DEF JobsType

\* What a request that suspends its activation comes to for the queue.
LEMMA FreedQueue ==
    ASSUME TurnsInv, jobs.state = "running", jobs' = Turns!Freed(jobs)
    PROVE  /\ JobsType' /\ jobs'.state \in {"idle", "posted"} /\ jobs'.job = Turns!NoJob
           /\ jobs'.jobs = jobs.jobs /\ (jobs'.state = "posted" <=> jobs.jobs # {})
           /\ \A b : ~RunsIn(jobs, b) => SameTurns(b)
           /\ \A b : /\ TurnIn(jobs, b)' <=> TurnIn(jobs, b)
                     /\ OneTurnIn(jobs, b)' <=> OneTurnIn(jobs, b)
                     /\ ~RunsIn(jobs, b)'
<1>1. jobs \in Drain /\ IsFiniteSet(jobs.jobs)
  BY DEF TurnsInv, TurnTypes, JobsType
<1>2. PICK f : f = jobs'
  OBVIOUS
<1>3. /\ f \in Drain /\ f.jobs = jobs.jobs /\ f.job = Turns!NoJob
      /\ f.state = IF jobs.jobs = {} THEN "idle" ELSE "posted"
      /\ \A b : /\ TurnIn(f, b) <=> TurnIn(jobs, b)
                /\ OneTurnIn(f, b) <=> OneTurnIn(jobs, b)
                /\ ~RunsIn(f, b)
  BY <1>1, <1>2, FreedTurns
<1>4. f.state \in {"idle", "posted"} /\ (f.state = "posted" <=> jobs.jobs # {})
  BY <1>3
<1>5. \A b : /\ TurnIn(jobs, b)' <=> TurnIn(jobs, b)
             /\ OneTurnIn(jobs, b)' <=> OneTurnIn(jobs, b)
             /\ ~RunsIn(jobs, b)'
  BY <1>2, <1>3
<1> QED BY <1>1, <1>2, <1>3, <1>4, <1>5 DEF JobsType, SameTurns

-----------------------------------------------------------------------------
(* So do the requests that are performed at once.                          *)

\* A wait's boxes are mailboxes.
LEMMA NobodyWaited == TurnTypes => \A a \in Activations : "nobody" \notin waits[a].boxes
BY TurnsConstants DEF TurnTypes, WaitsType, Waiting

\* A request that is performed at once, whatever else it does.
LEMMA ContinuedKeeps ==
    ASSUME TurnsInv, NEW a \in Activations, NEW s \in Nat, Turns!Running(a, "turn"), Turns!Live(a),
           jobs' = Turns!Queued(Turns!Freed(jobs), [act |-> a, part |-> "turn", seq |-> s]),
           UNCHANGED <<micro, waits, receiver, routed, outbound, relays, relay, closed>>,
           Stage(a)' = "queued", \A b \in Activations : b # a => SameStage(b)
    PROVE  QueueInv' /\ RelayInv' /\ PlaceInv' /\ JobsType' /\ Alert'
<1>1. /\ JobsType' /\ jobs'.state = "posted" /\ jobs'.jobs # {} /\ jobs'.job = Turns!NoJob
      /\ \A j : Authorizes(j) => (j \in jobs'.jobs <=> j \in jobs.jobs)
      /\ \A b : b # a => SameTurns(b)
      /\ TurnIn(jobs, a)' /\ OneTurnIn(jobs, a)' /\ ~RunsIn(jobs, a)'
  BY ContinuedQueue
<1>2. /\ micro = <<>> /\ RunsIn(jobs, a) /\ ~Authorizes(jobs.job)
      /\ ~OnWait(a) /\ ~Receiving(a) /\ ~ByChild(a) /\ ~Reading(a)
      /\ ~HandsBack(a) /\ ~Calling(a) /\ ~RelayOf(a) /\ ~Relayed(a)
  BY RunningIs
<1>3. QueueInv'
  <2>1. OneTask(micro') /\ ~HasTask(micro', "select")
    BY <1>2, NoReactions
  <2>2. OneTask(micro)' /\ ~HasTask(micro, "select")'
    BY <2>1
  <2> QED BY <1>1, <2>2 DEF QueueInv
<1>4. RelayInv'
  <2>1. ~Authorizes(jobs'.job)
    BY <1>1, NoJobIs
  <2>2. RelayInv /\ UNCHANGED <<relay, relays, outbound>>
    BY DEF TurnsInv
  <2> QED BY <1>1, <1>2, <2>1, <2>2, RelayKept
<1>5. ASSUME NEW b \in Activations PROVE Place(b)'
  <2>1. SameWait(b) /\ SameRoute(b) /\ SameCalls(b) /\ SameDue(b) /\ outbound'.kind = outbound.kind
    BY WaitSame, RouteSame, CallsSame, DueSame
  <2>2. Place(b)
    BY DEF TurnsInv, PlaceInv
  <2>3. CASE b # a
    <3>1. SameStage(b) /\ SameTurns(b)
      BY <1>1, <2>3
    <3> QED BY <2>1, <2>2, <3>1, PlaceKept
  <2>4. CASE b = a
    <3>1. /\ ~OnWait(a)' /\ ~Receiving(a)' /\ ~ByChild(a)' /\ ~Reading(a)'
          /\ ~HandsBack(a)' /\ ~Calling(a)' /\ ~RelayOf(a)' /\ ~Relayed(a)'
      BY <1>2, <2>1, <2>4 DEF SameWait, SameRoute, SameCalls
    <3>2. OneIn(micro', a) /\ \A o : ~DueIn(micro', a, o)
      BY <1>2, NoReactions
    <3>3. OneIn(micro, a)' /\ ~DueIn(micro, a, TRUE)' /\ ~DueIn(micro, a, FALSE)'
      BY <3>2
    <3> QED BY <1>1, <2>4, <3>1, <3>3 DEF Place, Calls, Alive
  <2> QED BY <2>3, <2>4
<1> QED BY <1>1, <1>3, <1>4, <1>5 DEF PlaceInv, Alert

\* The activation that goes on, with what it is given.
LEMMA ContinueIs ==
    ASSUME TurnsInv, NEW a \in Activations, NEW x \in Activity, Turns!Continue(a, x)
    PROVE  /\ ActsType' /\ Stage(a)' = "queued" /\ activations'[a].receipt = x.receipt
           /\ \A b \in Activations : b # a => activations'[b] = activations[b] /\ SameStage(b)
           /\ jobs' = Turns!Queued(Turns!Freed(jobs), [act |-> a, part |-> "turn", seq |-> Turns!Stamp])
<1>1. PICK y : y = [x EXCEPT !.stage = "queued"]
  OBVIOUS
<1>2. y \in Activity /\ y.stage = "queued" /\ y.receipt = x.receipt
  BY <1>1 DEF Activity, Stages
<1>3. activations \in [Activations -> Activity]
  BY DEF TurnsInv, TurnTypes, ActsType
<1>4. activations' = [activations EXCEPT ![a] = y]
  BY <1>1 DEF Turns!Continue
<1>5. /\ activations' \in [Activations -> Activity] /\ activations'[a] = y
      /\ \A b \in Activations : b # a => activations'[b] = activations[b]
  BY <1>2, <1>3, <1>4
<1> QED BY <1>2, <1>5 DEF ActsType, Stage, SameStage, Turns!Continue

LEMMA RescheduleKeeps ==
    ASSUME TurnsInv, NEW a \in Activations, Turns!Reschedule(a)
    PROVE  TurnsInv'
<1>1. /\ Turns!Running(a, "turn") /\ Turns!Live(a) /\ Turns!Continue(a, activations[a])
      /\ UNCHANGED <<micro, posted, waits, receiver, input, pump, heard, boxes, timers, routed,
                     outbound, relays, relay, ledger, closed, receipts>>
  BY DEF Turns!Reschedule, Turns!Requests
<1>2. activations[a] \in Activity /\ TurnTypes /\ Turns!Stamp \in Nat
  BY StampFacts DEF TurnsInv, TurnTypes, ActsType
<1>3. /\ ActsType' /\ Stage(a)' = "queued" /\ activations'[a].receipt = activations[a].receipt
      /\ \A b \in Activations : b # a => activations'[b] = activations[b] /\ SameStage(b)
      /\ jobs' = Turns!Queued(Turns!Freed(jobs), [act |-> a, part |-> "turn", seq |-> Turns!Stamp])
  BY <1>1, <1>2, ContinueIs
<1>4. QueueInv' /\ RelayInv' /\ PlaceInv' /\ JobsType' /\ Alert'
  BY <1>1, <1>2, <1>3, ContinuedKeeps
<1>5. TurnTypes'
  BY <1>1, <1>2, <1>3, <1>4 DEF TurnTypes, MicroType, WaitsType, InputType, BoxesType,
         TimersType, RoutedType, CallsType
<1>6. WakeInv'
  BY <1>1, <1>4, WakeKept DEF TurnsInv
<1>7. MailInv'
  BY <1>1, <1>2, NobodyWaited, MailKept DEF TurnsInv
<1>8. ReceiptInv'
  <2>1. \A b \in Activations : activations'[b].receipt \in {0, activations[b].receipt}
    BY <1>3
  <2> QED BY <1>1, <1>2, <2>1, ReceiptKept DEF TurnsInv, TurnTypes, InputType
<1>9. TimersInv'
  BY <1>1, TimersKept DEF TurnsInv
<1>10. LedgerInv'
  <2>1. \A b \in Activations : SameWait(b) /\ SameCalls(b) /\ (Reading(b)' <=> Reading(b))
    BY <1>1, WaitSame, CallsSame, RouteSame DEF SameRoute
  <2> QED BY <1>1, <2>1, LedgerKept DEF TurnsInv
<1> QED BY <1>4, <1>5, <1>6, <1>7, <1>8, <1>9, <1>10 DEF TurnsInv

LEMMA ConsumeKeeps ==
    ASSUME TurnsInv, NEW a \in Activations, Turns!Consume(a)
    PROVE  TurnsInv'
<1>1. PICK n \in 1..activations[a].unclaimed :
        Turns!Continue(a, [activations[a] EXCEPT !.unclaimed = @ - n, !.receipt = receipts + 1])
  BY Zenon DEF Turns!Consume
<1>2. /\ Turns!Running(a, "turn") /\ Turns!Live(a) /\ receipts' = receipts + 1
      /\ UNCHANGED <<micro, posted, waits, receiver, input, pump, heard, boxes, timers, routed,
                     outbound, relays, relay, ledger, closed>>
  BY DEF Turns!Consume, Turns!Requests
<1>3. activations[a] \in Activity /\ TurnTypes /\ Turns!Stamp \in Nat /\ receipts \in Nat
  BY StampFacts DEF TurnsInv, TurnTypes, ActsType, InputType
<1>4. PICK x : x = [activations[a] EXCEPT !.unclaimed = @ - n, !.receipt = receipts + 1]
  OBVIOUS
<1>5. x \in Activity /\ x.receipt = receipts + 1
  <2>1. activations[a].unclaimed - n \in Nat
    BY <1>3 DEF Activity
  <2>2. PICK r, u, v : r = activations[a] /\ u = activations[a].unclaimed - n /\ v = receipts + 1
    OBVIOUS
  <2>3. r \in Activity /\ u \in Nat /\ v \in Nat
    BY <1>3, <2>1, <2>2
  <2>4. x = [r EXCEPT !.unclaimed = u, !.receipt = v]
    BY <1>4, <2>2
  <2>5. x \in Activity /\ x.receipt = v
    BY <2>3, <2>4 DEF Activity
  <2> QED BY <2>2, <2>5
<1>6. Turns!Continue(a, x)
  BY <1>1, <1>4
<1>7. /\ ActsType' /\ Stage(a)' = "queued" /\ activations'[a].receipt = receipts + 1
      /\ \A b \in Activations : b # a => activations'[b] = activations[b] /\ SameStage(b)
      /\ jobs' = Turns!Queued(Turns!Freed(jobs), [act |-> a, part |-> "turn", seq |-> Turns!Stamp])
  BY <1>5, <1>6, ContinueIs
<1>8. QueueInv' /\ RelayInv' /\ PlaceInv' /\ JobsType' /\ Alert'
  BY <1>2, <1>3, <1>7, ContinuedKeeps
<1>9. TurnTypes'
  BY <1>2, <1>3, <1>7, <1>8 DEF TurnTypes, MicroType, WaitsType, InputType, BoxesType,
         TimersType, RoutedType, CallsType
<1>10. WakeInv'
  BY <1>2, <1>8, WakeKept DEF TurnsInv
<1>11. MailInv'
  BY <1>2, <1>3, NobodyWaited, MailKept DEF TurnsInv
<1>12. ReceiptInv'
  <2>1. /\ \A b \in Activations : activations[b].receipt \in Nat /\ activations[b].receipt <= receipts
        /\ \A d \in Boxes : \A i \in DOMAIN boxes[d].queue :
              boxes[d].queue[i].receipt \in Nat /\ boxes[d].queue[i].receipt <= receipts
    <3>1. \A b \in Activations : activations[b].receipt \in Nat
      BY <1>3 DEF TurnTypes, ActsType, Activity
    <3>2. ASSUME NEW d \in Boxes, NEW i \in DOMAIN boxes[d].queue PROVE boxes[d].queue[i].receipt \in Nat
      <4>1. boxes[d].queue \in Seq(Message)
        BY <1>3 DEF TurnTypes, BoxesType, Mailbox
      <4>2. boxes[d].queue[i] \in Message
        BY <3>2, <4>1, LenProperties, ElementOfSeq
      <4> QED BY <4>2 DEF Message
    <3> QED BY <3>1, <3>2 DEF TurnsInv, ReceiptInv
  <2>2. \A b \in Activations : activations'[b].receipt = IF b = a THEN receipts + 1 ELSE activations[b].receipt
    BY <1>7
  <2>3. \A b \in Activations : activations'[b].receipt <= receipts'
    BY <1>2, <1>3, <2>1, <2>2
  <2>4. \A d \in Boxes : \A i \in DOMAIN boxes'[d].queue : boxes'[d].queue[i].receipt <= receipts'
    BY <1>2, <1>3, <2>1
  <2>5. \A b, c \in Activations :
          activations'[b].receipt = activations'[c].receipt /\ activations'[b].receipt # 0 => b = c
    <3> SUFFICES ASSUME NEW b \in Activations, NEW c \in Activations,
                        activations'[b].receipt = activations'[c].receipt, activations'[b].receipt # 0
                 PROVE  b = c
      OBVIOUS
    <3>1. activations[b].receipt # receipts + 1 /\ activations[c].receipt # receipts + 1
      BY <1>3, <2>1
    <3>2. CASE b = a \/ c = a
      BY <2>2, <3>1, <3>2
    <3>3. CASE b # a /\ c # a
      BY <2>2, <3>3 DEF TurnsInv, ReceiptInv
    <3> QED BY <3>2, <3>3
  <2>6. \A b \in Activations, d \in Boxes : \A i \in DOMAIN boxes'[d].queue :
          activations'[b].receipt = boxes'[d].queue[i].receipt => activations'[b].receipt = 0
    <3> SUFFICES ASSUME NEW b \in Activations, NEW d \in Boxes, NEW i \in DOMAIN boxes[d].queue,
                        activations'[b].receipt = boxes[d].queue[i].receipt
                 PROVE  activations'[b].receipt = 0
      BY <1>2
    <3>1. boxes[d].queue[i].receipt # receipts + 1
      BY <1>3, <2>1
    <3>2. b # a
      BY <2>2, <3>1
    <3> QED BY <2>2, <3>2 DEF TurnsInv, ReceiptInv
  <2>7. \A b, d \in Boxes : \A i \in DOMAIN boxes'[b].queue, j \in DOMAIN boxes'[d].queue :
            boxes'[b].queue[i].receipt = boxes'[d].queue[j].receipt /\ boxes'[b].queue[i].receipt # 0
            => b = d /\ i = j
    BY <1>2 DEF TurnsInv, ReceiptInv
  <2> QED BY <2>3, <2>4, <2>5, <2>6, <2>7 DEF ReceiptInv
<1>13. TimersInv'
  BY <1>2, TimersKept DEF TurnsInv
<1>14. LedgerInv'
  <2>1. \A b \in Activations : SameWait(b) /\ SameCalls(b) /\ (Reading(b)' <=> Reading(b))
    BY <1>2, WaitSame, CallsSame, RouteSame DEF SameRoute
  <2> QED BY <1>2, <2>1, LedgerKept DEF TurnsInv
<1> QED BY <1>8, <1>9, <1>10, <1>11, <1>12, <1>13, <1>14 DEF TurnsInv

\* A request that is performed at once and is about timers only.
LEMMA TimersChanged ==
    ASSUME TurnsInv, NEW a \in Activations, Turns!Running(a, "turn"), Turns!Live(a),
           Turns!Continue(a, activations[a]),
           UNCHANGED <<micro, posted, waits, receiver, input, pump, heard, boxes, routed,
                       outbound, relays, relay, closed, receipts>>,
           TimersType', TimersInv', LedgerInv',
           \A b \in Activations : TimerDue(b)' => TimerDue(b)
    PROVE  TurnsInv'
<1>1. activations[a] \in Activity /\ TurnTypes /\ Turns!Stamp \in Nat
  BY StampFacts DEF TurnsInv, TurnTypes, ActsType
<1>2. /\ ActsType' /\ Stage(a)' = "queued" /\ activations'[a].receipt = activations[a].receipt
      /\ \A b \in Activations : b # a => activations'[b] = activations[b] /\ SameStage(b)
      /\ jobs' = Turns!Queued(Turns!Freed(jobs), [act |-> a, part |-> "turn", seq |-> Turns!Stamp])
  BY <1>1, ContinueIs
<1>3. QueueInv' /\ RelayInv' /\ PlaceInv' /\ JobsType' /\ Alert'
  BY <1>1, <1>2, ContinuedKeeps
<1>4. TurnTypes'
  BY <1>1, <1>2, <1>3 DEF TurnTypes, MicroType, WaitsType, InputType, BoxesType, RoutedType, CallsType
<1>5. WakeInv'
  <2>1. \A b \in Activations : (OnWait(b)' <=> OnWait(b)) /\ (Reading(b)' <=> Reading(b))
    BY DEF OnWait, Reading
  <2> QED BY <1>3, <2>1 DEF WakeInv, TurnsInv
<1>6. MailInv'
  BY <1>1, NobodyWaited, MailKept DEF TurnsInv
<1>7. ReceiptInv'
  <2>1. \A b \in Activations : activations'[b].receipt \in {0, activations[b].receipt}
    BY <1>2
  <2> QED BY <1>1, <2>1, ReceiptKept DEF TurnsInv, TurnTypes, InputType
<1> QED BY <1>3, <1>4, <1>5, <1>6, <1>7 DEF TurnsInv

LEMMA ArmKeeps ==
    ASSUME TurnsInv, NEW a \in Activations, NEW k0 \in TimedKinds, Turns!Arm(a, k0)
    PROVE  TurnsInv'
<1>1. PICK d0 : d0 = Turns!Stamp
  OBVIOUS
<1>2. PICK t0 : t0 = [id |-> d0, act |-> a, kind |-> k0, ready |-> 0]
  OBVIOUS
<1>3. /\ Turns!Running(a, "turn") /\ Turns!Live(a) /\ Turns!Continue(a, activations[a])
      /\ timers' = timers \cup {t0} /\ ledger' = ledger \cup {Turns!Effect(k0, a, d0)}
      /\ UNCHANGED <<micro, posted, waits, receiver, input, pump, heard, boxes, routed,
                     outbound, relays, relay, closed, receipts>>
  BY <1>1, <1>2 DEF Turns!Arm, Turns!Requests
<1>4. TurnTypes /\ TimersInv /\ LedgerInv
  BY DEF TurnsInv
<1>5. d0 \in Nat /\ d0 > 0 /\ \A t \in timers : t.id < d0 /\ t.id \in Nat
  BY <1>1, <1>4, StampFacts DEF TurnTypes, TimersType, Timer
<1>6. t0 \in Timer /\ t0.id = d0 /\ t0.act = a /\ t0.kind = k0 /\ t0.ready = 0
  BY <1>2, <1>5 DEF Timer, TimedKinds
<1>7. TimersType'
  BY <1>3, <1>4, <1>6, FS_AddElement DEF TurnTypes, TimersType
<1>8. \A t \in timers : t.id # d0
  BY <1>5
<1>9. \A k, b, d : TimerAt(k, b, d)' <=> TimerAt(k, b, d) \/ (k = k0 /\ b = a /\ d = d0)
  BY <1>3, <1>6 DEF TimerAt
<1>10. TimersInv'
  <2>1. \A t, u \in timers' : t.id = u.id => t = u
    BY <1>3, <1>4, <1>6, <1>8 DEF TimersInv
  <2>2. \A t \in timers' : t.id # 0
    <3>1. d0 # 0
      BY <1>5
    <3> QED BY <1>3, <1>4, <1>6, <3>1 DEF TimersInv
  <2>3. \A b \in Activations : \A d \in waits'[b].timers : TimerAt("timer", b, d)'
    BY <1>3, <1>4, <1>9 DEF TimersInv
  <2>4. \A b \in Activations : ~OnWait(b)' => waits'[b].timers = {}
    BY <1>3, <1>4 DEF TimersInv, OnWait
  <2> QED BY <2>1, <2>2, <2>3, <2>4 DEF TimersInv
<1>11. LedgerInv'
  <2>1. \A k, b, d : Held(k, b, d)' <=> Held(k, b, d) \/ (k = k0 /\ b = a /\ d = d0)
    BY <1>3, EffectAdded
  <2>2. \A b \in Activations : SameWait(b) /\ SameCalls(b) /\ (Reading(b)' <=> Reading(b))
    BY <1>3, WaitSame, CallsSame, RouteSame DEF SameRoute
  <2>3. ASSUME NEW k \in EffectKinds, NEW b \in Activations, NEW d \in Nat
        PROVE  Held(k, b, d)' <=> Owed(k, b, d)'
    <3>1. Owed(k, b, d)' <=> Owed(k, b, d) \/ (k = k0 /\ b = a /\ d = d0)
      <4>1. outbound' = outbound /\ (TimerAt(k, b, d)' <=> TimerAt(k, b, d) \/ (k = k0 /\ b = a /\ d = d0))
        BY <1>3, <1>9
      <4> QED BY <2>2, <4>1 DEF Owed, SameWait, SameCalls
    <3> QED BY <1>4, <2>1, <3>1 DEF LedgerInv
  <2>4. ledger' \subseteq [kind : EffectKinds, act : Activations, id : Nat]
    <3>1. k0 \in EffectKinds
      BY DEF TimedKinds, EffectKinds
    <3> QED BY <1>3, <1>4, <1>5, <3>1, EffectType DEF LedgerInv
  <2> QED BY <2>3, <2>4 DEF LedgerInv
<1>12. \A b \in Activations : TimerDue(b)' => TimerDue(b)
  BY <1>3, <1>6 DEF TimerDue
<1> QED BY <1>3, <1>7, <1>10, <1>11, <1>12, TimersChanged

LEMMA DisarmKeeps ==
    ASSUME TurnsInv, NEW a \in Activations, NEW t0 \in timers, Turns!Disarm(a, t0)
    PROVE  TurnsInv'
<1>1. PICK k0, d0 : k0 = t0.kind /\ d0 = t0.id
  OBVIOUS
<1>3. /\ Turns!Running(a, "turn") /\ Turns!Live(a) /\ Turns!Continue(a, activations[a])
      /\ t0.act = a /\ timers' = timers \ {t0} /\ ledger' = ledger \ {Turns!Effect(k0, a, d0)}
      /\ UNCHANGED <<micro, posted, waits, receiver, input, pump, heard, boxes, routed,
                     outbound, relays, relay, closed, receipts>>
  BY <1>1 DEF Turns!Disarm, Turns!Requests
<1>4. TurnTypes /\ TimersInv /\ LedgerInv
  BY DEF TurnsInv
<1>5. k0 \in TimedKinds /\ d0 # 0
  BY <1>1, <1>4 DEF TimersInv, TurnTypes, TimersType, Timer, TimedKinds
<1>7. TimersType'
  BY <1>3, <1>4, FS_RemoveElement DEF TurnTypes, TimersType
<1>8. \A t \in timers : t.id = d0 => t = t0
  BY <1>1, <1>4 DEF TimersInv
<1>9. \A k, b, d : TimerAt(k, b, d)' <=> TimerAt(k, b, d) /\ ~(k = k0 /\ b = a /\ d = d0)
  <2> SUFFICES ASSUME NEW k, NEW b, NEW d
               PROVE  TimerAt(k, b, d)' <=> TimerAt(k, b, d) /\ ~(k = k0 /\ b = a /\ d = d0)
    OBVIOUS
  <2>1. ASSUME TimerAt(k, b, d)' PROVE TimerAt(k, b, d) /\ ~(k = k0 /\ b = a /\ d = d0)
    BY <1>3, <1>8, <2>1 DEF TimerAt
  <2>2. ASSUME TimerAt(k, b, d), ~(k = k0 /\ b = a /\ d = d0) PROVE TimerAt(k, b, d)'
    BY <1>1, <1>3, <2>2 DEF TimerAt
  <2> QED BY <2>1, <2>2
<1>10. TimersInv'
  <2>1. \A t, u \in timers' : t.id = u.id => t = u
    BY <1>3, <1>4 DEF TimersInv
  <2>2. \A t \in timers' : t.id # 0
    BY <1>3, <1>4 DEF TimersInv
  <2>3. ASSUME NEW b \in Activations, NEW d \in waits'[b].timers PROVE TimerAt("timer", b, d)'
    <3>1. ~OnWait(a) /\ waits[a].timers = {}
      BY <1>3, <1>4, RunningIs DEF TimersInv
    <3>2. b # a /\ TimerAt("timer", b, d)
      BY <1>3, <1>4, <2>3, <3>1 DEF TimersInv
    <3> QED BY <1>9, <3>2
  <2>4. \A b \in Activations : ~OnWait(b)' => waits'[b].timers = {}
    BY <1>3, <1>4 DEF TimersInv, OnWait
  <2> QED BY <2>1, <2>2, <2>3, <2>4 DEF TimersInv
<1>11. LedgerInv'
  <2>1. \A k, b, d : Held(k, b, d)' <=> Held(k, b, d) /\ ~(k = k0 /\ b = a /\ d = d0)
    BY <1>3, EffectGone
  <2>2. \A b \in Activations : SameWait(b) /\ SameCalls(b) /\ (Reading(b)' <=> Reading(b))
    BY <1>3, WaitSame, CallsSame, RouteSame DEF SameRoute
  <2>3. ASSUME NEW k \in EffectKinds, NEW b \in Activations, NEW d \in Nat
        PROVE  Held(k, b, d)' <=> Owed(k, b, d)'
    <3>1. Owed(k, b, d)' <=> Owed(k, b, d) /\ ~(k = k0 /\ b = a /\ d = d0)
      <4>1. outbound' = outbound /\ (TimerAt(k, b, d)' <=> TimerAt(k, b, d) /\ ~(k = k0 /\ b = a /\ d = d0))
        BY <1>3, <1>9
      <4> QED BY <1>5, <2>2, <4>1 DEF Owed, SameWait, SameCalls, TimedKinds
    <3> QED BY <1>4, <2>1, <3>1 DEF LedgerInv
  <2>4. ledger' \subseteq [kind : EffectKinds, act : Activations, id : Nat]
    BY <1>3, <1>4 DEF LedgerInv
  <2> QED BY <2>3, <2>4 DEF LedgerInv
<1>12. \A b \in Activations : TimerDue(b)' => TimerDue(b)
  BY <1>3 DEF TimerDue
<1> QED BY <1>3, <1>7, <1>10, <1>11, <1>12, TimersChanged

LEMMA TimerFiresKeeps ==
    ASSUME TurnsInv, NEW t0 \in timers, Turns!TimerFires(t0)
    PROVE  TurnsInv'
<1>1. PICK u0 : u0 = [t0 EXCEPT !.ready = Turns!Stamp]
  OBVIOUS
<1>2. /\ t0.kind = "timer" /\ t0.ready = 0 /\ timers' = (timers \ {t0}) \cup {u0}
      /\ Turns!ScheduleWait
      /\ UNCHANGED <<activations, jobs, micro, waits, receiver, input, pump, heard, boxes, routed,
                     outbound, relays, relay, ledger, closed, receipts>>
  BY <1>1 DEF Turns!TimerFires
<1>3. TurnTypes /\ TimersInv /\ LedgerInv /\ WakeInv
  BY DEF TurnsInv
<1>4. t0 \in Timer /\ Turns!Stamp \in Nat
  BY <1>3, StampFacts DEF TurnTypes, TimersType
<1>5. u0 \in Timer /\ u0.id = t0.id /\ u0.act = t0.act /\ u0.kind = t0.kind
  BY <1>1, <1>4 DEF Timer
<1>6. TimersType'
  <2>1. IsFiniteSet(timers \ {t0})
    BY <1>3, FS_RemoveElement DEF TurnTypes, TimersType
  <2> QED BY <1>2, <1>3, <1>5, <2>1, FS_AddElement DEF TurnTypes, TimersType
<1>7. \A k, b, d : TimerAt(k, b, d)' <=> TimerAt(k, b, d)
  BY <1>2, <1>5 DEF TimerAt
<1>8. TurnTypes'
  <2>1. posted' \in BOOLEAN
    BY <1>2, <1>3 DEF Turns!ScheduleWait, TurnTypes, InputType
  <2> QED BY <1>2, <1>3, <1>6, <2>1 DEF TurnTypes, ActsType, JobsType, MicroType, WaitsType, InputType, BoxesType,
         RoutedType, CallsType
<1>9. QueueInv' /\ RelayInv'
  <2>1. QueueInv /\ RelayInv
    BY DEF TurnsInv
  <2>2. QueueInv'
    BY <1>2, <2>1, QueueKept
  <2>3. /\ \A j : Authorizes(j) => (j \in jobs'.jobs <=> j \in jobs.jobs)
        /\ Authorizes(jobs.job) \/ Authorizes(jobs'.job) => jobs'.job = jobs.job
    BY <1>2
  <2>4. RelayInv'
    BY <1>2, <2>1, <2>3, RelayKept
  <2> QED BY <2>2, <2>4
<1>10. PlaceInv'
  <2> SUFFICES ASSUME NEW b \in Activations PROVE Place(b)'
    BY DEF PlaceInv
  <2>1. SameStage(b) /\ SameWait(b) /\ SameRoute(b) /\ SameCalls(b) /\ SameDue(b) /\ SameTurns(b)
    BY <1>2, StageSame, WaitSame, RouteSame, CallsSame, DueSame, TurnsSame
  <2>2. Place(b) /\ outbound'.kind = outbound.kind
    BY <1>2 DEF TurnsInv, PlaceInv
  <2> QED BY <2>1, <2>2, PlaceKept
<1>11. WakeInv'
  <2>1. \A a \in Activations : waits'[a].octets # 0 => OnWait(a)' /\ a = Reader
    BY <1>2, <1>3 DEF WakeInv, OnWait
  <2>2. receiver' # Turns!NoReceiver => input' = <<>> /\ pump'
    BY <1>2, <1>3 DEF WakeInv
  <2>3. \A a \in Activations : Reading(a)' => boxes'[routed'[a].box].queue = <<>>
    BY <1>2, <1>3 DEF WakeInv, Reading
  <2> QED BY <1>2, <2>1, <2>2, <2>3, WakeScheduled
<1>12. MailInv'
  BY <1>2, <1>3, NobodyWaited, MailKept DEF TurnsInv
<1>13. ReceiptInv'
  BY <1>2, <1>3, ReceiptKept DEF TurnsInv, TurnTypes, InputType
<1>14. TimersInv'
  <2>1. \A t, u \in timers' : t.id = u.id => t = u
    BY <1>2, <1>3, <1>5 DEF TimersInv
  <2>2. \A t \in timers' : t.id # 0
    BY <1>2, <1>3, <1>5 DEF TimersInv
  <2>3. \A b \in Activations : \A d \in waits'[b].timers : TimerAt("timer", b, d)'
    BY <1>2, <1>3, <1>7 DEF TimersInv
  <2>4. \A b \in Activations : ~OnWait(b)' => waits'[b].timers = {}
    BY <1>2, <1>3 DEF TimersInv, OnWait
  <2> QED BY <2>1, <2>2, <2>3, <2>4 DEF TimersInv
<1>15. LedgerInv'
  <2>1. \A k, b, d : Held(k, b, d)' <=> Held(k, b, d)
    BY <1>2 DEF Held
  <2>2. \A b \in Activations : SameWait(b) /\ SameCalls(b) /\ (Reading(b)' <=> Reading(b))
    BY <1>2, WaitSame, CallsSame, RouteSame DEF SameRoute
  <2>3. ASSUME NEW k \in EffectKinds, NEW b \in Activations, NEW d \in Nat
        PROVE  Held(k, b, d)' <=> Owed(k, b, d)'
    <3>1. Owed(k, b, d)' <=> Owed(k, b, d)
      <4>1. outbound' = outbound /\ (TimerAt(k, b, d)' <=> TimerAt(k, b, d))
        BY <1>2, <1>7
      <4> QED BY <2>2, <4>1 DEF Owed, SameWait, SameCalls
    <3> QED BY <1>3, <2>1, <3>1 DEF LedgerInv
  <2>4. ledger' \subseteq [kind : EffectKinds, act : Activations, id : Nat]
    BY <1>2, <1>3 DEF LedgerInv
  <2> QED BY <2>3, <2>4 DEF LedgerInv
<1> QED BY <1>8, <1>9, <1>10, <1>11, <1>12, <1>13, <1>14, <1>15 DEF TurnsInv

LEMMA AbandonedKeeps ==
    ASSUME TurnsInv, NEW a \in Activations, Turns!Abandoned(a)
    PROVE  TurnsInv'
<1>1. /\ Turns!Running(a, "turn") /\ ~Turns!Live(a) /\ jobs' = Turns!Freed(jobs)
      /\ UNCHANGED <<activations, micro, posted, waits, receiver, input, pump, heard, boxes, timers,
                     routed, outbound, relays, relay, ledger, closed, receipts>>
  BY DEF Turns!Abandoned
<1>2. ~Alive(a) /\ TurnTypes
  BY <1>1 DEF Turns!Live, Alive, Stage, TurnsInv
<1>3. /\ micro = <<>> /\ jobs.state = "running" /\ RunsIn(jobs, a)
      /\ ~Authorizes(jobs.job) /\ \A b : b # a => ~RunsIn(jobs, b)
  BY <1>1, RunningIs
<1>4. /\ JobsType' /\ jobs'.state \in {"idle", "posted"} /\ jobs'.job = Turns!NoJob
      /\ jobs'.jobs = jobs.jobs /\ (jobs'.state = "posted" <=> jobs.jobs # {})
      /\ \A b : ~RunsIn(jobs, b) => SameTurns(b)
      /\ \A b : /\ TurnIn(jobs, b)' <=> TurnIn(jobs, b)
                /\ OneTurnIn(jobs, b)' <=> OneTurnIn(jobs, b)
                /\ ~RunsIn(jobs, b)'
  BY <1>1, <1>3, FreedQueue
<1>5. TurnTypes'
  BY <1>1, <1>2, <1>4 DEF TurnTypes, ActsType, MicroType, WaitsType, InputType, BoxesType, TimersType,
         RoutedType, CallsType
<1>6. QueueInv'
  <2>1. OneTask(micro') /\ ~HasTask(micro', "select")
    BY <1>1, <1>3, NoReactions
  <2>2. OneTask(micro)' /\ ~HasTask(micro, "select")'
    BY <2>1
  <2> QED BY <1>4, <2>2 DEF QueueInv
<1>7. RelayInv'
  <2>1. ~Authorizes(jobs'.job)
    BY <1>4, NoJobIs
  <2>2. \A j : Authorizes(j) => (j \in jobs'.jobs <=> j \in jobs.jobs)
    BY <1>4
  <2> QED BY <1>1, <1>3, <2>1, <2>2, RelayKept DEF TurnsInv
<1>8. ASSUME NEW b \in Activations PROVE Place(b)'
  <2>1. /\ SameStage(b) /\ SameWait(b) /\ SameRoute(b) /\ SameCalls(b) /\ SameDue(b)
        /\ outbound'.kind = outbound.kind
    BY <1>1, StageSame, WaitSame, RouteSame, CallsSame, DueSame
  <2>2. Place(b)
    BY DEF TurnsInv, PlaceInv
  <2>3. CASE b # a
    BY <1>3, <1>4, <2>1, <2>2, <2>3, PlaceKept
  <2>4. CASE b = a
    BY <1>2, <2>1, <2>2, <2>4, PlaceLeft
  <2> QED BY <2>3, <2>4
<1>9. WakeInv'
  BY <1>1, <1>3, WakeKept DEF TurnsInv, Alert
<1>10. MailInv'
  BY <1>1, <1>2, NobodyWaited, MailKept DEF TurnsInv
<1>11. ReceiptInv'
  BY <1>1, <1>2, ReceiptKept DEF TurnsInv, TurnTypes, InputType
<1>12. TimersInv'
  BY <1>1, TimersKept DEF TurnsInv
<1>13. LedgerInv'
  <2>1. \A b \in Activations : SameWait(b) /\ SameCalls(b) /\ (Reading(b)' <=> Reading(b))
    BY <1>1, WaitSame, CallsSame, RouteSame DEF SameRoute
  <2> QED BY <1>1, <2>1, LedgerKept DEF TurnsInv
<1> QED BY <1>5, <1>6, <1>7, <1>8, <1>9, <1>10, <1>11, <1>12, <1>13 DEF TurnsInv, PlaceInv

-----------------------------------------------------------------------------
(* The end of an activation does.                                          *)

\* What the end of an activation leaves.
LEMMA EndIs ==
    ASSUME TurnsInv, NEW a \in Activations, Turns!End(a)
    PROVE  /\ ActsType' /\ TimersType' /\ WaitsType' /\ RoutedType' /\ relays' \in Seq(Activations)
           /\ receiver' \in [registered : Nat, octets : Nat] /\ posted' \in BOOLEAN
           /\ Stage(a)' = "ended" /\ waits'[a] = Turns!NoWait /\ routed'[a] = Turns!NoRoute
           /\ ~Receiving(a)' /\ Distinct(relays') /\ In(relays') = In(relays) \ {a}
           /\ \A b \in Activations : b # a =>
                 /\ activations'[b] = activations[b] /\ waits'[b] = waits[b] /\ routed'[b] = routed[b]
                 /\ Receiving(b)' <=> Receiving(b)
           /\ activations'[a].receipt = 0 /\ (receiver' = receiver \/ receiver' = Turns!NoReceiver)
           /\ (relays = <<>> => relays' = <<>>) /\ (posted => posted')
           /\ timers' = {t \in timers : t.act # a} /\ ledger' = Turns!LedgerWithout(a)
<1>1. TurnTypes /\ RelayInv
  BY DEF TurnsInv
<1>2. PICK x : x = [activations[a] EXCEPT !.stage = "ended", !.seq = 0, !.receipt = 0, !.unclaimed = 0]
  OBVIOUS
<1>3. activations[a] \in Activity
  BY <1>1 DEF TurnTypes, ActsType
<1>4. x \in Activity /\ x.stage = "ended" /\ x.receipt = 0
  BY <1>2, <1>3 DEF Activity, Stages
<1>5. activations' = [activations EXCEPT ![a] = x]
  BY <1>2 DEF Turns!End
<1>6. ActsType' /\ activations'[a] = x /\ \A b \in Activations : b # a => activations'[b] = activations[b]
  BY <1>1, <1>4, <1>5 DEF TurnTypes, ActsType
<1>7. /\ WaitsType' /\ waits'[a] = Turns!NoWait
      /\ \A b \in Activations : b # a => waits'[b] = waits[b]
  <2>1. Turns!NoWait \in Waiting
    BY DEF Turns!NoWait, Waiting
  <2>2. waits' = [waits EXCEPT ![a] = Turns!NoWait]
    BY DEF Turns!End
  <2> QED BY <1>1, <2>1, <2>2 DEF TurnTypes, WaitsType
<1>8. /\ RoutedType' /\ routed'[a] = Turns!NoRoute
      /\ \A b \in Activations : b # a => routed'[b] = routed[b]
  <2>1. Turns!NoRoute \in Route
    BY DEF Turns!NoRoute, Turns!Nobody, Route
  <2>2. routed' = [routed EXCEPT ![a] = Turns!NoRoute]
    BY DEF Turns!End
  <2> QED BY <1>1, <2>1, <2>2 DEF TurnTypes, RoutedType
<1>9. /\ receiver' \in [registered : Nat, octets : Nat] /\ ~Receiving(a)'
      /\ \A b \in Activations : b # a => (Receiving(b)' <=> Receiving(b))
      /\ receiver' = receiver \/ receiver' = Turns!NoReceiver
  <2>1. Turns!NoReceiver \in [registered : Nat, octets : Nat]
    BY DEF Turns!NoReceiver
  <2>2. receiver' = IF a = Reader THEN Turns!NoReceiver ELSE receiver
    BY DEF Turns!End
  <2> QED BY <1>1, <2>1, <2>2 DEF TurnTypes, InputType, Receiving
<1>10. /\ relays' \in Seq(Activations) /\ Distinct(relays') /\ In(relays') = In(relays) \ {a}
       /\ (relays = <<>> => relays' = <<>>)
  <2>1. relays' = Turns!RemoveFirst(relays, a)
    BY DEF Turns!End
  <2>2. relays \in Seq(Activations) /\ Distinct(relays)
    BY <1>1 DEF TurnTypes, CallsType, RelayInv
  <2>3. PICK r : r = Turns!RemoveFirst(relays, a)
    OBVIOUS
  <2>4. r \in Seq(Activations) /\ Distinct(r) /\ In(r) = In(relays) \ {a} /\ Len(r) <= Len(relays)
    BY <2>2, <2>3, RemoveFirstFacts
  <2>5. relays = <<>> => r = <<>>
    <3>1. Len(r) \in Nat /\ (Len(r) = 0 => r = <<>>)
      BY <2>4, LenProperties, EmptySeq
    <3> QED BY <2>4, <3>1
  <2> QED BY <2>1, <2>3, <2>4, <2>5
<1>11. TimersType' /\ timers' = {t \in timers : t.act # a} /\ ledger' = Turns!LedgerWithout(a)
  <2>1. timers' = {t \in timers : t.act # a} /\ ledger' = Turns!LedgerWithout(a)
    BY DEF Turns!End
  <2>2. timers' \subseteq timers
    BY <2>1
  <2> QED BY <1>1, <2>1, <2>2, FS_Subset DEF TurnTypes, TimersType
<1>12. posted' \in BOOLEAN /\ (posted => posted')
  <2>1. posted \in BOOLEAN
    BY <1>1 DEF TurnTypes, InputType
  <2>2. posted' = posted \/ posted' = (posted \/ \E b \in Activations : waits'[b].on)
    BY DEF Turns!End, Turns!ScheduleWait
  <2> QED BY <2>1, <2>2
<1> QED BY <1>4, <1>6, <1>7, <1>8, <1>9, <1>10, <1>11, <1>12 DEF Stage

\* The end of an activation, with what else happens to the queues.
LEMMA EndKeeps ==
    ASSUME TurnsInv, NEW a \in Activations, Turns!End(a),
           UNCHANGED <<input, pump, heard, boxes, outbound, relay, closed, receipts>>,
           JobsType', MicroType', QueueInv',
           \A j : Authorizes(j) => (j \in jobs'.jobs <=> j \in jobs.jobs),
           Authorizes(jobs.job) \/ Authorizes(jobs'.job) => jobs'.job = jobs.job,
           \A b \in Activations : b # a => SameDue(b) /\ SameTurns(b),
           jobs.state = "posted" \/ HasTask(micro, "consider")
              => jobs'.state = "posted" \/ HasTask(micro, "consider")'
    PROVE  TurnsInv'
<1>1. /\ ActsType' /\ TimersType' /\ WaitsType' /\ RoutedType' /\ relays' \in Seq(Activations)
      /\ receiver' \in [registered : Nat, octets : Nat] /\ posted' \in BOOLEAN
      /\ Stage(a)' = "ended" /\ waits'[a] = Turns!NoWait /\ routed'[a] = Turns!NoRoute
      /\ ~Receiving(a)' /\ Distinct(relays') /\ In(relays') = In(relays) \ {a}
      /\ \A b \in Activations : b # a =>
            /\ activations'[b] = activations[b] /\ waits'[b] = waits[b] /\ routed'[b] = routed[b]
            /\ Receiving(b)' <=> Receiving(b)
      /\ activations'[a].receipt = 0 /\ (receiver' = receiver \/ receiver' = Turns!NoReceiver)
      /\ (relays = <<>> => relays' = <<>>) /\ (posted => posted')
      /\ timers' = {t \in timers : t.act # a} /\ ledger' = Turns!LedgerWithout(a)
  BY EndIs
<1>2. TurnTypes /\ QueueInv /\ RelayInv /\ PlaceInv /\ WakeInv /\ MailInv /\ ReceiptInv /\ TimersInv /\ LedgerInv
  BY DEF TurnsInv
<1>3. TurnTypes'
  BY <1>1, <1>2 DEF TurnTypes, InputType, BoxesType, CallsType
<1>4. /\ Turns!NoWait.on = FALSE /\ Turns!NoWait.timers = {} /\ Turns!NoWait.boxes = {} /\ Turns!NoWait.octets = 0
      /\ Turns!NoRoute.box = "nobody" /\ Turns!NoRoute.owner = "act" /\ Turns!NoRoute.reading = 0
      /\ Turns!NoRoute.back = FALSE
  BY DEF Turns!NoWait, Turns!NoRoute, Turns!Nobody
<1>5. ~OnWait(a)' /\ ~Reading(a)' /\ ~ByChild(a)' /\ ~HandsBack(a)' /\ Boxless(a)' /\ ~Relayed(a)'
  BY <1>1, <1>4 DEF OnWait, Reading, ByChild, HandsBack, Boxless, Relayed
<1>6. \A b \in Activations : b # a => SameStage(b) /\ SameWait(b) /\ SameRoute(b) /\ SameCalls(b)
  BY <1>1 DEF SameStage, SameWait, SameRoute, SameCalls, Stage, OnWait, Receiving, Reading, ByChild,
              Boxless, HandsBack, Calling, RelayOf, Relayed
<1>7. RelayInv'
  <2>1. RelayInv /\ relay' = relay /\ outbound' = outbound
    BY <1>2
  <2>2. relays' # <<>> => relays # <<>>
    BY <1>1
  <2>3. \A j \in jobs'.jobs : Authorizes(j) => RelayOf(j.act)' /\ relay'.kind = "authorizing"
    BY <2>1 DEF RelayInv, RelayOf
  <2>4. Authorizes(jobs'.job) => RelayOf(jobs.job.act)' /\ jobs'.job = jobs.job /\ relay'.kind = "authorizing"
    BY <2>1 DEF RelayInv, RelayOf
  <2>5. \A j, k \in jobs'.jobs : Authorizes(j) /\ Authorizes(k) => j = k
    BY <2>1 DEF RelayInv
  <2>6. Authorizes(jobs'.job) => \A j \in jobs'.jobs : ~Authorizes(j)
    BY <2>1 DEF RelayInv
  <2>7. relay'.kind = "authorizing" => Authorizes(jobs'.job) \/ \E j \in jobs'.jobs : Authorizes(j)
    BY <2>1 DEF RelayInv
  <2> QED BY <1>1, <2>1, <2>2, <2>3, <2>4, <2>5, <2>6, <2>7 DEF RelayInv, RelayOf
<1>8. PlaceInv'
  <2> SUFFICES ASSUME NEW b \in Activations PROVE Place(b)'
    BY DEF PlaceInv
  <2>1. CASE b = a
    BY <1>1, <1>5, <2>1, PlaceEnded
  <2>2. CASE b # a
    BY <1>2, <1>6, <2>2, PlaceKept DEF PlaceInv
  <2> QED BY <2>1, <2>2
<1>9. WakeInv'
  <2>1. Alert => Alert'
    BY <1>1 DEF Alert
  <2>2. ASSUME NEW b \in Activations, Stirred(b)' PROVE Stirred(b)
    <3>1. b # a
      BY <1>5, <2>2 DEF Stirred
    <3>2. waits'[b] = waits[b] /\ timers' \subseteq timers /\ input' = input /\ boxes' = boxes
      BY <1>1, <3>1
    <3>3. /\ OnWait(b)' => OnWait(b)
          /\ InputDue(b)' => InputDue(b)
          /\ TimerDue(b)' => TimerDue(b)
          /\ MailDue(b)' => MailDue(b)
      BY <3>2 DEF OnWait, InputDue, TimerDue, MailDue
    <3> QED BY <2>2, <3>3 DEF Stirred
  <2>3. \A b \in Activations : waits'[b].octets # 0 => waits[b].octets # 0 /\ b # a
    BY <1>1, <1>4
  <2>4. \A b \in Activations : waits'[b].octets # 0 => OnWait(b)' /\ b = Reader
    BY <1>2, <1>6, <2>3 DEF WakeInv, SameWait
  <2>5. \A b \in Activations : Reading(b)' => b # a
    BY <1>5
  <2>6. \A b \in Activations : Reading(b)' => boxes'[routed'[b].box].queue = <<>>
    BY <1>1, <1>2, <1>6, <2>5 DEF WakeInv, SameRoute
  <2>7. receiver' # Turns!NoReceiver => input' = <<>> /\ pump'
    BY <1>1, <1>2 DEF WakeInv
  <2> QED BY <1>2, <2>1, <2>2, <2>3, <2>4, <2>6, <2>7 DEF WakeInv
<1>10. MailInv'
  <2>1. \A b \in Activations : routed'[b].box = routed[b].box \/ routed'[b].box = "nobody"
    BY <1>1, <1>4
  <2>2. \A b \in Activations : waits'[b].boxes \subseteq waits[b].boxes
    BY <1>1, <1>4
  <2>3. \A b \in Activations : "nobody" \notin waits'[b].boxes
    BY <1>2, <2>2, NobodyWaited
  <2> QED BY <1>2, <2>1, <2>2, <2>3, MailKept
<1>11. ReceiptInv'
  <2>1. \A b \in Activations : activations'[b].receipt \in {0, activations[b].receipt}
    BY <1>1
  <2> QED BY <1>2, <2>1, ReceiptKept DEF TurnTypes, InputType
<1>12. \A k, b, d : TimerAt(k, b, d)' <=> TimerAt(k, b, d) /\ b # a
  BY <1>1 DEF TimerAt
<1>13. TimersInv'
  <2>1. \A t, u \in timers' : t.id = u.id => t = u
    BY <1>1, <1>2 DEF TimersInv
  <2>2. \A t \in timers' : t.id # 0
    BY <1>1, <1>2 DEF TimersInv
  <2>3. \A b \in Activations : \A d \in waits'[b].timers : TimerAt("timer", b, d)'
    BY <1>1, <1>2, <1>4, <1>12 DEF TimersInv
  <2>4. \A b \in Activations : ~OnWait(b)' => waits'[b].timers = {}
    BY <1>1, <1>2, <1>4 DEF TimersInv, OnWait
  <2> QED BY <2>1, <2>2, <2>3, <2>4 DEF TimersInv
<1>14. LedgerInv'
  <2>1. ASSUME NEW k \in EffectKinds, NEW b \in Activations, NEW d \in Nat
        PROVE  Held(k, b, d)' <=> /\ Held(k, b, d)
                                  /\ \/ b # a
                                     \/ Calling(a) /\ k \in {"write", "control"}
                                     \/ RelayOf(a) /\ k = "write-via"
    BY <1>1 DEF Held, Turns!LedgerWithout, Calling, RelayOf
  <2>2. ASSUME NEW k \in EffectKinds, NEW b \in Activations, NEW d \in Nat
        PROVE  Held(k, b, d)' <=> Owed(k, b, d)'
    <3>1. Held(k, b, d) <=> Owed(k, b, d)
      BY <1>2 DEF LedgerInv
    <3>2. outbound' = outbound /\ relay' = relay
      OBVIOUS
    <3>3. TimerAt(k, b, d)' <=> TimerAt(k, b, d) /\ b # a
      BY <1>12
    <3>4. CASE b # a
      BY <1>6, <2>1, <3>1, <3>2, <3>3, <3>4 DEF Owed, SameWait, SameRoute, SameCalls
    <3>5. CASE b = a
      <4>1. (Calling(a)' <=> Calling(a)) /\ (RelayOf(a)' <=> RelayOf(a))
        BY <3>2 DEF Calling, RelayOf
      <4> QED BY <1>1, <1>5, <2>1, <3>1, <3>2, <3>3, <3>5, <4>1 DEF Owed, TimedKinds
    <3> QED BY <3>4, <3>5
  <2>3. ledger' \subseteq [kind : EffectKinds, act : Activations, id : Nat]
    BY <1>1, <1>2 DEF LedgerInv, Turns!LedgerWithout
  <2> QED BY <2>2, <2>3 DEF LedgerInv
<1> QED BY <1>3, <1>7, <1>8, <1>9, <1>10, <1>11, <1>13, <1>14 DEF TurnsInv

LEMMA CancelKeeps ==
    ASSUME TurnsInv, NEW a \in Activations, Turns!Cancel(a)
    PROVE  TurnsInv'
<1>1. /\ Turns!End(a) /\ UNCHANGED <<jobs, micro>>
      /\ UNCHANGED <<input, pump, heard, boxes, outbound, relay, closed, receipts>>
  BY DEF Turns!Cancel, Turns!endUntouched
<1>2. JobsType' /\ MicroType' /\ QueueInv'
  BY <1>1, QueueKept DEF TurnsInv, TurnTypes, JobsType, MicroType
<1>3. \A b \in Activations : SameDue(b) /\ SameTurns(b)
  BY <1>1, DueSame, TurnsSame
<1> QED BY <1>1, <1>2, <1>3, EndKeeps

LEMMA TurnEndsActivationKeeps ==
    ASSUME TurnsInv, NEW a \in Activations, Turns!TurnEndsActivation(a)
    PROVE  TurnsInv'
<1>1. /\ Turns!Running(a, "turn") /\ Turns!End(a) /\ jobs' = Turns!Freed(jobs) /\ UNCHANGED micro
      /\ UNCHANGED <<input, pump, heard, boxes, outbound, relay, closed, receipts>>
  BY DEF Turns!TurnEndsActivation, Turns!endUntouched
<1>2. /\ micro = <<>> /\ jobs.state = "running"
      /\ ~Authorizes(jobs.job) /\ \A b : b # a => ~RunsIn(jobs, b)
  BY <1>1, RunningIs
<1>3. /\ JobsType' /\ jobs'.state \in {"idle", "posted"} /\ jobs'.job = Turns!NoJob
      /\ jobs'.jobs = jobs.jobs /\ (jobs'.state = "posted" <=> jobs.jobs # {})
      /\ \A b : ~RunsIn(jobs, b) => SameTurns(b)
  BY <1>1, <1>2, FreedQueue
<1>4. OneTask(micro)' /\ ~HasTask(micro, "select")' /\ ~HasTask(micro, "consider")
  BY <1>1, <1>2, NoReactions
<1>5. QueueInv'
  BY <1>3, <1>4 DEF QueueInv
<1>6. MicroType' /\ ~Authorizes(jobs'.job)
  BY <1>1, <1>3, NoJobIs DEF TurnsInv, TurnTypes, MicroType
<1>7. \A b \in Activations : b # a => SameDue(b) /\ SameTurns(b)
  BY <1>1, <1>2, <1>3, DueSame
<1>8. /\ \A j : Authorizes(j) => (j \in jobs'.jobs <=> j \in jobs.jobs)
      /\ Authorizes(jobs.job) \/ Authorizes(jobs'.job) => jobs'.job = jobs.job
      /\ ~(jobs.state = "posted" \/ HasTask(micro, "consider"))
  BY <1>2, <1>3, <1>4, <1>6
<1> QED BY <1>1, <1>3, <1>5, <1>6, <1>7, <1>8, EndKeeps

\* The reaction that leads an activation on.
LEMMA ReactsIs ==
    ASSUME TurnsInv, NEW a \in Activations, NEW ok \in BOOLEAN, Turns!Reacts(a, ok), micro' = Tail(micro)
    PROVE  /\ MicroType' /\ OneTask(micro)' /\ DueIn(micro, a, ok)
           /\ \A w \in {"consider", "select"} : HasTask(micro, w)' <=> HasTask(micro, w)
           /\ \A b : b # a => SameDue(b)
           /\ Alive(a) => OneIn(micro, a)' /\ \A o : ~DueIn(micro, a, o)'
<1>1. micro \in Seq(Reaction) /\ OneTask(micro) /\ PlaceInv
  BY DEF TurnsInv, TurnTypes, MicroType, QueueInv
<1>2. PICK h : h = Head(micro)
  OBVIOUS
<1>3. micro # <<>> /\ h = [what |-> "run", act |-> a, ok |-> ok]
  BY <1>2 DEF Turns!Reacts
<1>4. ~IsTask(h) /\ h.act = a /\ h.ok = ok
  BY <1>3 DEF IsTask
<1>5. PICK m : m = Tail(micro)
  OBVIOUS
<1>6. /\ m \in Seq(Reaction) /\ OneTask(m)
      /\ \A w \in {"consider", "select"} : HasTask(m, w) <=> HasTask(micro, w)
      /\ DueIn(micro, a, ok)
      /\ \A b, o : b # a \/ o # ok => (DueIn(m, b, o) <=> DueIn(micro, b, o))
      /\ OneIn(micro, a) => \A o : ~DueIn(m, a, o)
      /\ \A b : OneIn(micro, b) => OneIn(m, b)
  BY <1>1, <1>2, <1>3, <1>4, <1>5, ReactionDone
<1>7. micro' = m
  BY <1>5
<1>8. Alive(a) => OneIn(micro, a)
  BY <1>1 DEF PlaceInv, Place
<1>9. \A b : b # a => SameDue(b)
  BY <1>6, <1>7 DEF SameDue
<1>10. Alive(a) => OneIn(micro, a)' /\ \A o : ~DueIn(micro, a, o)'
  BY <1>6, <1>7, <1>8
<1>11. /\ OneTask(micro)' /\ MicroType'
       /\ \A w \in {"consider", "select"} : HasTask(micro, w)' <=> HasTask(micro, w)
  BY <1>6, <1>7 DEF MicroType
<1> QED BY <1>6, <1>9, <1>10, <1>11

\* A reaction of an activation that has ended.
LEMMA ReactionDropped ==
    ASSUME TurnsInv, NEW a \in Activations, NEW ok \in BOOLEAN, Turns!Reacts(a, ok), micro' = Tail(micro),
           ~Alive(a),
           UNCHANGED <<activations, jobs, posted, waits, receiver, input, pump, heard, boxes, timers,
                       routed, outbound, relays, relay, ledger, closed, receipts>>
    PROVE  TurnsInv'
<1>1. /\ MicroType' /\ OneTask(micro)'
      /\ \A w \in {"consider", "select"} : HasTask(micro, w)' <=> HasTask(micro, w)
      /\ \A b : b # a => SameDue(b)
  BY ReactsIs
<1>2. QueueInv'
  BY <1>1 DEF TurnsInv, QueueInv
<1>3. WakeInv'
  BY <1>1, WakeKept DEF TurnsInv, Alert
<1>4. /\ jobs' \in Drain /\ jobs' = jobs /\ micro' \in Seq(Reaction) /\ posted' \in BOOLEAN
      /\ pump' \in BOOLEAN /\ heard' \in Seq(Nat)
  BY <1>1 DEF TurnsInv, TurnTypes, JobsType, MicroType, InputType
<1>5. \A b \in Activations : SameDue(b) \/ ~Alive(b)
  BY <1>1
<1> QED BY <1>2, <1>3, <1>4, <1>5, OnlyReactions

LEMMA FailKeeps ==
    ASSUME TurnsInv, NEW a \in Activations, Turns!Fail(a)
    PROVE  TurnsInv'
<1>1. /\ Turns!Reacts(a, FALSE) /\ micro' = Tail(micro) /\ UNCHANGED jobs
      /\ UNCHANGED <<input, pump, heard, boxes, outbound, relay, closed, receipts>>
  BY DEF Turns!Fail, Turns!endUntouched
<1>2. /\ MicroType' /\ OneTask(micro)'
      /\ \A w \in {"consider", "select"} : HasTask(micro, w)' <=> HasTask(micro, w)
      /\ \A b : b # a => SameDue(b)
  BY <1>1, ReactsIs
<1>3. CASE Turns!Live(a)
  <2>1. Turns!End(a)
    BY <1>3 DEF Turns!Fail
  <2>2. QueueInv' /\ JobsType'
    BY <1>1, <1>2 DEF TurnsInv, QueueInv, TurnTypes, JobsType
  <2>3. \A b \in Activations : b # a => SameDue(b) /\ SameTurns(b)
    BY <1>1, <1>2, TurnsSame
  <2>4. /\ \A j : Authorizes(j) => (j \in jobs'.jobs <=> j \in jobs.jobs)
        /\ Authorizes(jobs.job) \/ Authorizes(jobs'.job) => jobs'.job = jobs.job
        /\ jobs.state = "posted" \/ HasTask(micro, "consider")
              => jobs'.state = "posted" \/ HasTask(micro, "consider")'
    BY <1>1, <1>2
  <2> QED BY <1>1, <1>2, <2>1, <2>2, <2>3, <2>4, EndKeeps
<1>4. CASE ~Turns!Live(a)
  <2>1. UNCHANGED <<activations, timers, waits, receiver, routed, relays, ledger, posted>>
    BY <1>4 DEF Turns!Fail
  <2>2. ~Alive(a)
    BY <1>4 DEF Turns!Live, Alive, Stage
  <2> QED BY <1>1, <2>1, <2>2, ReactionDropped
<1> QED BY <1>3, <1>4

LEMMA ResumeKeeps ==
    ASSUME TurnsInv, NEW a \in Activations, Turns!Resume(a)
    PROVE  TurnsInv'
<1>1. /\ Turns!Reacts(a, TRUE) /\ micro' = Tail(micro)
      /\ UNCHANGED <<posted, waits, receiver, input, pump, heard, boxes, timers, routed,
                     outbound, relays, relay, ledger, closed, receipts>>
  BY DEF Turns!Resume
<1>2. /\ MicroType' /\ OneTask(micro)' /\ DueIn(micro, a, TRUE)
      /\ \A w \in {"consider", "select"} : HasTask(micro, w)' <=> HasTask(micro, w)
      /\ \A b : b # a => SameDue(b)
      /\ Alive(a) => OneIn(micro, a)' /\ \A o : ~DueIn(micro, a, o)'
  BY <1>1, ReactsIs
<1>3. CASE ~Turns!Live(a)
  <2>1. UNCHANGED <<jobs, activations>>
    BY <1>3 DEF Turns!Resume
  <2>2. ~Alive(a)
    BY <1>3 DEF Turns!Live, Alive, Stage
  <2> QED BY <1>1, <2>1, <2>2, ReactionDropped
<1>4. CASE Turns!Live(a)
  <2>1. Alive(a) /\ TurnTypes /\ Place(a)
    BY <1>4 DEF Turns!Live, Alive, Stage, TurnsInv, PlaceInv
  <2>2. PICK s : s = IF activations[a].seq # 0 THEN activations[a].seq ELSE Turns!Stamp
    OBVIOUS
  <2>3. PICK x : x = [activations[a] EXCEPT !.stage = "queued", !.seq = 0]
    OBVIOUS
  <2>4. activations[a] \in Activity /\ s \in Nat
    BY <2>1, <2>2, StampFacts DEF TurnTypes, ActsType, Activity
  <2>5. x \in Activity /\ x.stage = "queued" /\ x.receipt = activations[a].receipt
    BY <2>3, <2>4 DEF Activity, Stages
  <2>6. /\ jobs' = Turns!Queued(jobs, [act |-> a, part |-> "turn", seq |-> s])
        /\ activations' = [activations EXCEPT ![a] = x]
    BY <1>4, <2>2, <2>3 DEF Turns!Resume
  <2>7. /\ ActsType' /\ activations'[a] = x
        /\ \A b \in Activations : b # a => activations'[b] = activations[b]
    BY <2>1, <2>5, <2>6 DEF TurnTypes, ActsType
  <2>8. PICK g : g = jobs'
    OBVIOUS
  <2>9. /\ g \in Drain /\ IsFiniteSet(g.jobs) /\ g.jobs # {} /\ g.job = jobs.job
        /\ g.state = IF jobs.state = "idle" THEN "posted" ELSE jobs.state
        /\ \A b : /\ TurnIn(g, b) <=> TurnIn(jobs, b) \/ b = a
                  /\ OneTurnIn(jobs, b) /\ (b = a => ~TurnIn(jobs, b)) => OneTurnIn(g, b)
                  /\ RunsIn(g, b) <=> RunsIn(jobs, b)
        /\ \A j : Authorizes(j) => (j \in g.jobs <=> j \in jobs.jobs)
    BY <2>1, <2>4, <2>6, <2>8, QueuedTurn DEF TurnTypes, JobsType
  <2>10. /\ Stage(a) = "resuming" /\ ~OnWait(a) /\ ~Receiving(a) /\ ~ByChild(a) /\ ~Reading(a)
         /\ ~HandsBack(a) /\ ~Calling(a) /\ ~RelayOf(a) /\ ~Relayed(a)
         /\ ~TurnIn(jobs, a) /\ OneTurnIn(jobs, a) /\ ~RunsIn(jobs, a)
    BY <1>2, <2>1 DEF Place, Calls
  <2>11. JobsType' /\ jobs' = g
    BY <2>8, <2>9 DEF JobsType
  <2>12. TurnTypes'
    BY <1>1, <1>2, <2>1, <2>7, <2>11 DEF TurnTypes, WaitsType, InputType, BoxesType, TimersType,
           RoutedType, CallsType
  <2>13. QueueInv'
    BY <1>2, <2>9, <2>11 DEF TurnsInv, QueueInv
  <2>14. RelayInv'
    <3>1. /\ \A j : Authorizes(j) => (j \in jobs'.jobs <=> j \in jobs.jobs)
          /\ Authorizes(jobs.job) \/ Authorizes(jobs'.job) => jobs'.job = jobs.job
      BY <2>9, <2>11
    <3> QED BY <1>1, <3>1, RelayKept DEF TurnsInv
  <2>15. PlaceInv'
    <3> SUFFICES ASSUME NEW b \in Activations PROVE Place(b)'
      BY DEF PlaceInv
    <3>1. SameWait(b) /\ SameRoute(b) /\ SameCalls(b) /\ outbound'.kind = outbound.kind
      BY <1>1, WaitSame, RouteSame, CallsSame
    <3>2. CASE b # a
      <4>1. SameStage(b) /\ SameDue(b)
        BY <1>2, <2>7, <3>2 DEF SameStage, Stage
      <4>2. Place(b)
        BY DEF TurnsInv, PlaceInv
      <4>3. OneTurnIn(g, b) => OneTurnIn(jobs, b)
        <5>1. [act |-> a, part |-> "turn", seq |-> s] \in Requested
          BY <2>4 DEF Requested
        <5>2. g.jobs = jobs.jobs \cup {[act |-> a, part |-> "turn", seq |-> s]}
          BY <2>1, <2>6, <2>8, <5>1, QueuedIs DEF TurnTypes, JobsType
        <5> QED BY <5>2 DEF OneTurnIn
      <4>4. SameTurns(b)
        BY <2>9, <2>11, <3>2, <4>3 DEF SameTurns
      <4> QED BY <3>1, <4>1, <4>2, <4>4, PlaceKept
    <3>3. CASE b = a
      <4>1. /\ ~OnWait(a)' /\ ~Receiving(a)' /\ ~ByChild(a)' /\ ~Reading(a)'
            /\ ~HandsBack(a)' /\ ~Calling(a)' /\ ~RelayOf(a)' /\ ~Relayed(a)'
        BY <2>10, <3>1, <3>3 DEF SameWait, SameRoute, SameCalls
      <4>2. Stage(a)' = "queued"
        BY <2>5, <2>7 DEF Stage
      <4>3. OneTurnIn(jobs, a)' /\ ~RunsIn(jobs, a)'
        BY <2>9, <2>10, <2>11
      <4>4. OneIn(micro, a)' /\ ~DueIn(micro, a, TRUE)' /\ ~DueIn(micro, a, FALSE)'
        BY <1>2, <2>1
      <4> QED BY <3>3, <4>1, <4>2, <4>3, <4>4 DEF Place, Calls, Alive
    <3> QED BY <3>2, <3>3
  <2>16. WakeInv'
    <3>1. jobs.state = "posted" => jobs'.state = "posted"
      BY <2>9, <2>11
    <3> QED BY <1>1, <1>2, <3>1, WakeKept DEF TurnsInv, Alert
  <2>17. MailInv'
    BY <1>1, <2>1, NobodyWaited, MailKept DEF TurnsInv
  <2>18. ReceiptInv'
    <3>1. \A b \in Activations : activations'[b].receipt \in {0, activations[b].receipt}
      BY <2>5, <2>7
    <3> QED BY <1>1, <2>1, <3>1, ReceiptKept DEF TurnsInv, TurnTypes, InputType
  <2>19. TimersInv'
    BY <1>1, TimersKept DEF TurnsInv
  <2>20. LedgerInv'
    <3>1. \A b \in Activations : SameWait(b) /\ SameCalls(b) /\ (Reading(b)' <=> Reading(b))
      BY <1>1, WaitSame, CallsSame, RouteSame DEF SameRoute
    <3> QED BY <1>1, <3>1, LedgerKept DEF TurnsInv
  <2> QED BY <2>12, <2>13, <2>14, <2>15, <2>16, <2>17, <2>18, <2>19, <2>20 DEF TurnsInv
<1> QED BY <1>3, <1>4

-----------------------------------------------------------------------------
(* Waits, reads and helpers do.                                            *)

\* An activation that changes.
LEMMA ActChanged ==
    ASSUME ActsType, NEW a \in Activations, NEW x \in Activity, activations' = [activations EXCEPT ![a] = x]
    PROVE  /\ ActsType' /\ activations'[a] = x /\ Stage(a)' = x.stage
           /\ \A b \in Activations : b # a => activations'[b] = activations[b] /\ SameStage(b)
BY DEF ActsType, Stage, SameStage

LEMMA StageChanged ==
    ASSUME ActsType, NEW a \in Activations, NEW s \in Stages,
           activations' = [activations EXCEPT ![a].stage = s]
    PROVE  /\ ActsType' /\ Stage(a)' = s
           /\ \A b \in Activations : activations'[b].receipt = activations[b].receipt
           /\ \A b \in Activations : b # a => activations'[b] = activations[b] /\ SameStage(b)
<1>1. PICK x : x = [activations[a] EXCEPT !.stage = s]
  OBVIOUS
<1>2. x \in Activity /\ x.stage = s /\ x.receipt = activations[a].receipt
  BY <1>1 DEF ActsType, Activity
<1>3. activations' = [activations EXCEPT ![a] = x]
  BY <1>1
<1>4. /\ ActsType' /\ activations'[a] = x /\ Stage(a)' = x.stage
      /\ \A b \in Activations : b # a => activations'[b] = activations[b] /\ SameStage(b)
  BY <1>2, <1>3, ActChanged
<1> QED BY <1>2, <1>4

LEMMA WakeLess ==
    ASSUME WakeInv, \A b \in Activations : Stirred(b)' => Stirred(b),
           \A b \in Activations : waits'[b].octets # 0 => waits[b].octets # 0 /\ OnWait(b)',
           pump => pump', Alert => Alert',
           receiver' # Turns!NoReceiver => input' = <<>> /\ pump',
           \A b \in Activations : Reading(b)' => boxes'[routed'[b].box].queue = <<>>
    PROVE  WakeInv'
BY DEF WakeInv

\* A request that leaves the queue to others: what it comes to for the queue.
LEMMA LeftQueue ==
    ASSUME TurnsInv, NEW a \in Activations, Turns!Running(a, "turn"), Turns!Live(a),
           jobs' = Turns!Freed(jobs), OneTask(micro)', ~HasTask(micro, "select")'
    PROVE  /\ JobsType' /\ QueueInv' /\ ~Authorizes(jobs'.job) /\ jobs'.jobs = jobs.jobs
           /\ \A b : b # a => SameTurns(b)
           /\ ~TurnIn(jobs, a)' /\ OneTurnIn(jobs, a)' /\ ~RunsIn(jobs, a)'
           /\ jobs' \in Drain /\ jobs'.job = Turns!NoJob
           /\ UNCHANGED <<relay, relays, outbound>> => RelayInv'
           /\ Alert => posted
<1>1. /\ micro = <<>> /\ jobs.state = "running" /\ ~Authorizes(jobs.job)
      /\ \A b : b # a => ~RunsIn(jobs, b)
      /\ ~TurnIn(jobs, a) /\ OneTurnIn(jobs, a)
  BY RunningIs
<1>2. /\ JobsType' /\ jobs'.state \in {"idle", "posted"} /\ jobs'.job = Turns!NoJob
      /\ jobs'.jobs = jobs.jobs /\ (jobs'.state = "posted" <=> jobs.jobs # {})
      /\ \A b : ~RunsIn(jobs, b) => SameTurns(b)
      /\ \A b : /\ TurnIn(jobs, b)' <=> TurnIn(jobs, b)
                /\ OneTurnIn(jobs, b)' <=> OneTurnIn(jobs, b)
                /\ ~RunsIn(jobs, b)'
  BY <1>1, FreedQueue
<1>3. QueueInv'
  BY <1>2 DEF QueueInv
<1>4. ~Authorizes(jobs'.job)
  BY <1>2, NoJobIs
<1>5. UNCHANGED <<relay, relays, outbound>> => RelayInv'
  <2>1. \A j : Authorizes(j) => (j \in jobs'.jobs <=> j \in jobs.jobs)
    BY <1>2
  <2> QED BY <1>1, <1>4, <2>1, RelayKept DEF TurnsInv
<1>6. Alert => posted
  BY <1>1, NoReactions DEF Alert
<1> QED BY <1>1, <1>2, <1>3, <1>4, <1>5, <1>6 DEF JobsType

LEMMA WaitAnyKeeps ==
    ASSUME TurnsInv, NEW a \in Activations, Turns!WaitAny(a)
    PROVE  TurnsInv'
<1>1. PICK ts \in SUBSET {t.id : t \in {t \in timers : t.act = a /\ t.kind = "timer"}},
           bs \in SUBSET Boxes, n \in {0, MaxSize}, fill \in BOOLEAN :
             /\ n > 0 => a = Reader /\ bs = {} /\ receiver = Turns!NoReceiver
             /\ \A b \in bs : Turns!MayConsume(a, b)
             /\ waits' = [waits EXCEPT ![a] = [on |-> TRUE, timers |-> ts, octets |-> n, fill |-> fill,
                                               boxes |-> bs, registered |-> Turns!Stamp]]
  BY Zenon DEF Turns!WaitAny
<1>2. /\ Turns!Running(a, "turn") /\ Turns!Live(a) /\ ledger' = ledger \cup {Turns!Effect("wait", a, 0)}
      /\ activations' = [activations EXCEPT ![a].stage = "suspended"] /\ jobs' = Turns!Freed(jobs)
      /\ Turns!ScheduleWait
      /\ UNCHANGED <<micro, receiver, input, pump, heard, boxes, timers, routed, outbound, relays, relay,
                     closed, receipts>>
  BY DEF Turns!WaitAny, Turns!Requests, Turns!Suspend
<1>3. TurnTypes /\ PlaceInv /\ WakeInv /\ MailInv /\ TimersInv /\ LedgerInv /\ ReceiptInv
  BY DEF TurnsInv
<1>4. /\ micro = <<>>
      /\ ~OnWait(a) /\ ~Receiving(a) /\ ~ByChild(a) /\ ~Reading(a) /\ RunsIn(jobs, a)
      /\ ~HandsBack(a) /\ ~Calling(a) /\ ~RelayOf(a) /\ ~Relayed(a)
  BY <1>2, RunningIs
<1>5. OneTask(micro)' /\ ~HasTask(micro, "select")' /\ OneIn(micro, a)' /\ \A o : ~DueIn(micro, a, o)'
  BY <1>2, <1>4, NoReactions
<1>6. /\ JobsType' /\ QueueInv' /\ RelayInv'
      /\ \A b : b # a => SameTurns(b)
      /\ ~TurnIn(jobs, a)' /\ OneTurnIn(jobs, a)' /\ ~RunsIn(jobs, a)'
  BY <1>2, <1>5, LeftQueue
<1>7. /\ ActsType' /\ Stage(a)' = "suspended"
      /\ \A b \in Activations : activations'[b].receipt = activations[b].receipt
      /\ \A b \in Activations : b # a => activations'[b] = activations[b] /\ SameStage(b)
  BY <1>2, <1>3, StageChanged DEF Stages, TurnTypes
<1>8. PICK w : w = [on |-> TRUE, timers |-> ts, octets |-> n, fill |-> fill,
                    boxes |-> bs, registered |-> Turns!Stamp]
  OBVIOUS
<1>9. /\ w \in Waiting /\ w.on /\ w.timers = ts /\ w.octets = n /\ w.boxes = bs
  <2>1. ts \subseteq Nat
    BY <1>3 DEF TurnTypes, TimersType, Timer
  <2>2. n \in Nat
    BY TurnsConstants
  <2>3. Turns!Stamp \in Nat
    BY <1>3, StampFacts
  <2> QED BY <1>8, <2>1, <2>2, <2>3 DEF Waiting
<1>10. WaitsType' /\ waits'[a] = w /\ \A b \in Activations : b # a => waits'[b] = waits[b]
  BY <1>1, <1>3, <1>8, <1>9 DEF TurnTypes, WaitsType
<1>11. OnWait(a)' /\ \A b \in Activations : b # a => (OnWait(b)' <=> OnWait(b))
  BY <1>9, <1>10 DEF OnWait
<1>12. \A b \in Activations : (Receiving(b)' <=> Receiving(b)) /\ SameRoute(b) /\ SameCalls(b) /\ SameDue(b)
  BY <1>2, RouteSame, CallsSame, DueSame DEF Receiving
<1>13. TurnTypes'
  <2>1. posted' \in BOOLEAN
    BY <1>2, <1>3 DEF Turns!ScheduleWait, TurnTypes, InputType
  <2> QED BY <1>2, <1>3, <1>6, <1>7, <1>10, <2>1 DEF TurnTypes, MicroType, InputType, BoxesType,
         TimersType, RoutedType, CallsType
<1>14. PlaceInv'
  <2> SUFFICES ASSUME NEW b \in Activations PROVE Place(b)'
    BY DEF PlaceInv
  <2>1. CASE b # a
    <3>1. SameWait(b)
      BY <1>11, <1>12, <2>1 DEF SameWait
    <3>2. outbound'.kind = outbound.kind
      BY <1>2
    <3> QED BY <1>3, <1>6, <1>7, <1>12, <2>1, <3>1, <3>2, PlaceKept DEF PlaceInv
  <2>2. CASE b = a
    <3>1. /\ ~Receiving(a)' /\ ~ByChild(a)' /\ ~Reading(a)'
          /\ ~HandsBack(a)' /\ ~Calling(a)' /\ ~RelayOf(a)' /\ ~Relayed(a)'
      BY <1>4, <1>12 DEF SameRoute, SameCalls
    <3>2. ~DueIn(micro, a, TRUE)' /\ ~DueIn(micro, a, FALSE)'
      BY <1>5
    <3> QED BY <1>5, <1>6, <1>7, <1>11, <2>2, <3>1, <3>2 DEF Place, Calls, Alive
  <2> QED BY <2>1, <2>2
<1>15. WakeInv'
  <2>1. ASSUME NEW b \in Activations, waits'[b].octets # 0 PROVE OnWait(b)' /\ b = Reader
    <3>1. CASE b = a
      <4>1. n > 0
        BY <1>9, <1>10, <2>1, <3>1, TurnsConstants
      <4> QED BY <1>1, <1>11, <3>1, <4>1
    <3>2. CASE b # a
      BY <1>3, <1>10, <1>11, <2>1, <3>2 DEF WakeInv
    <3> QED BY <3>1, <3>2
  <2>2. receiver' # Turns!NoReceiver => input' = <<>> /\ pump'
    BY <1>2, <1>3 DEF WakeInv
  <2>3. \A b \in Activations : Reading(b)' => boxes'[routed'[b].box].queue = <<>>
    BY <1>2, <1>3 DEF WakeInv, Reading
  <2> QED BY <1>2, <2>1, <2>2, <2>3, WakeScheduled
<1>16. MailInv'
  <2>1. \A b \in Activations : b # a => routed[b].box \notin bs
    BY <1>1 DEF Turns!MayConsume
  <2>2. ASSUME NEW b \in Activations, NEW c \in Activations, b # c PROVE routed'[b].box \notin waits'[c].boxes
    BY <1>2, <1>3, <1>9, <1>10, <2>1, <2>2 DEF MailInv
  <2>3. \A b \in Boxes : InOrder(b)'
    BY <1>2, <1>3 DEF MailInv, InOrder
  <2>4. \A b, c \in Activations : routed'[b].box = routed'[c].box /\ ~Boxless(b)' => b = c
    BY <1>2, <1>3 DEF MailInv, Boxless
  <2> QED BY <2>2, <2>3, <2>4 DEF MailInv
<1>17. ReceiptInv'
  <2>1. \A b \in Activations : activations'[b].receipt \in {0, activations[b].receipt}
    BY <1>7
  <2> QED BY <1>2, <1>3, <2>1, ReceiptKept DEF TurnTypes, InputType
<1>18. TimersInv'
  <2>1. \A k, b, d : TimerAt(k, b, d)' <=> TimerAt(k, b, d)
    BY <1>2 DEF TimerAt
  <2>2. \A d \in ts : TimerAt("timer", a, d)
    BY DEF TimerAt
  <2>3. \A b \in Activations : \A d \in waits'[b].timers : TimerAt("timer", b, d)'
    BY <1>3, <1>9, <1>10, <2>1, <2>2 DEF TimersInv
  <2>4. \A b \in Activations : ~OnWait(b)' => waits'[b].timers = {}
    BY <1>3, <1>10, <1>11 DEF TimersInv
  <2>5. (\A t, u \in timers' : t.id = u.id => t = u) /\ (\A t \in timers' : t.id # 0)
    BY <1>2, <1>3 DEF TimersInv
  <2> QED BY <2>3, <2>4, <2>5 DEF TimersInv
<1>19. LedgerInv'
  <2>1. \A k, b, d : Held(k, b, d)' <=> Held(k, b, d) \/ (k = "wait" /\ b = a /\ d = 0)
    BY <1>2, EffectAdded
  <2>2. ASSUME NEW k \in EffectKinds, NEW b \in Activations, NEW d \in Nat
        PROVE  Held(k, b, d)' <=> Owed(k, b, d)'
    <3>1. TimerAt(k, b, d)' <=> TimerAt(k, b, d)
      BY <1>2 DEF TimerAt
    <3>2. outbound' = outbound /\ (Held(k, b, d) <=> Owed(k, b, d))
      BY <1>2, <1>3 DEF LedgerInv
    <3>3. (Receiving(b)' <=> Receiving(b)) /\ (Reading(b)' <=> Reading(b)) /\ SameCalls(b)
      BY <1>12 DEF SameRoute
    <3>4. CASE b # a
      <4>1. OnWait(b)' <=> OnWait(b)
        BY <1>11, <3>4
      <4> QED BY <2>1, <3>1, <3>2, <3>3, <3>4, <4>1 DEF Owed, SameCalls
    <3>5. CASE b = a
      BY <1>4, <1>11, <2>1, <3>1, <3>2, <3>3, <3>5 DEF Owed, SameCalls, TimedKinds
    <3> QED BY <3>4, <3>5
  <2>3. ledger' \subseteq [kind : EffectKinds, act : Activations, id : Nat]
    <3>1. Turns!Effect("wait", a, 0) \in [kind : EffectKinds, act : Activations, id : Nat]
      BY EffectType DEF EffectKinds
    <3> QED BY <1>2, <1>3, <3>1 DEF LedgerInv
  <2> QED BY <2>2, <2>3 DEF LedgerInv
<1> QED BY <1>6, <1>13, <1>14, <1>15, <1>16, <1>17, <1>18, <1>19 DEF TurnsInv

\* The numbers that come of the input.
LEMMA HeadRangeIs ==
    ASSUME NEW q \in Seq(Nat)
    PROVE  Turns!Cardinality({i \in DOMAIN q : q[i] = q[1]}) \in Nat
<1>1. DOMAIN q = 1..Len(q) /\ Len(q) \in Nat
  BY LenProperties
<1>2. IsFiniteSet(DOMAIN q)
  BY <1>1, FS_Interval
<1>3. IsFiniteSet({i \in DOMAIN q : q[i] = q[1]})
  BY <1>2, FS_Subset
<1> QED BY <1>3, FS_CardinalityType, TurnsLibrary

LEMMA CallHelperKeeps ==
    ASSUME TurnsInv, NEW a \in Activations, NEW b0 \in Boxes, Turns!CallHelper(a, b0)
    PROVE  TurnsInv'
<1>1. PICK r : r = [box |-> b0, owner |-> "act", reading |-> 0, back |-> FALSE]
  OBVIOUS
<1>2. /\ Turns!Running(a, "turn") /\ Turns!Live(a)
      /\ routed[a].box \in {"nobody", b0} /\ Turns!RoutedTo(b0) \subseteq {a}
      /\ routed[a].box = "nobody" => \A c \in Activations : b0 \notin waits[c].boxes
      /\ routed' = [routed EXCEPT ![a] = r]
      /\ activations' = [activations EXCEPT ![a].stage = "helping"] /\ jobs' = Turns!Freed(jobs)
      /\ UNCHANGED <<micro, posted, waits, receiver, input, pump, heard, boxes, timers,
                     outbound, relays, relay, ledger, closed, receipts>>
  BY <1>1 DEF Turns!CallHelper, Turns!Requests, Turns!Nobody
<1>3. TurnTypes /\ PlaceInv /\ WakeInv /\ MailInv /\ TimersInv /\ LedgerInv /\ ReceiptInv
  BY DEF TurnsInv
<1>4. /\ micro = <<>>
      /\ ~OnWait(a) /\ ~Receiving(a) /\ ~ByChild(a) /\ ~Reading(a) /\ RunsIn(jobs, a)
      /\ ~HandsBack(a) /\ ~Calling(a) /\ ~RelayOf(a) /\ ~Relayed(a)
  BY <1>2, RunningIs
<1>5. OneTask(micro)' /\ ~HasTask(micro, "select")' /\ OneIn(micro, a)' /\ \A o : ~DueIn(micro, a, o)'
  BY <1>2, <1>4, NoReactions
<1>6. /\ JobsType' /\ QueueInv' /\ RelayInv'
      /\ \A b : b # a => SameTurns(b)
      /\ ~TurnIn(jobs, a)' /\ OneTurnIn(jobs, a)' /\ ~RunsIn(jobs, a)' /\ (Alert => posted)
  BY <1>2, <1>5, LeftQueue
<1>7. /\ ActsType' /\ Stage(a)' = "helping"
      /\ \A b \in Activations : activations'[b].receipt = activations[b].receipt
      /\ \A b \in Activations : b # a => activations'[b] = activations[b] /\ SameStage(b)
  BY <1>2, <1>3, StageChanged DEF Stages, TurnTypes
<1>8. r \in Route /\ r.box = b0 /\ r.owner = "act" /\ r.reading = 0 /\ r.back = FALSE
  BY <1>1 DEF Route
<1>9. RoutedType' /\ routed'[a] = r /\ \A b \in Activations : b # a => routed'[b] = routed[b]
  BY <1>2, <1>3, <1>8 DEF TurnTypes, RoutedType
<1>10. /\ \A b \in Activations : b # a => SameRoute(b)
       /\ ~Reading(a)' /\ ~ByChild(a)' /\ ~HandsBack(a)' /\ ~Boxless(a)'
  BY <1>8, <1>9, TurnsConstants DEF SameRoute, Reading, ByChild, HandsBack, Boxless
<1>11. \A b \in Activations : SameWait(b) /\ SameCalls(b) /\ SameDue(b)
  BY <1>2, WaitSame, CallsSame, DueSame
<1>12. TurnTypes'
  BY <1>2, <1>3, <1>6, <1>7, <1>9 DEF TurnTypes, MicroType, InputType, BoxesType, WaitsType, TimersType, CallsType
<1>13. PlaceInv'
  <2> SUFFICES ASSUME NEW b \in Activations PROVE Place(b)'
    BY DEF PlaceInv
  <2>1. CASE b # a
    <3>1. outbound'.kind = outbound.kind
      BY <1>2
    <3> QED BY <1>3, <1>6, <1>7, <1>10, <1>11, <2>1, <3>1, PlaceKept DEF PlaceInv
  <2>2. CASE b = a
    <3>1. /\ ~Receiving(a)' /\ ~OnWait(a)' /\ ~Calling(a)' /\ ~RelayOf(a)' /\ ~Relayed(a)'
      BY <1>4, <1>11 DEF SameWait, SameCalls
    <3>2. ~DueIn(micro, a, TRUE)' /\ ~DueIn(micro, a, FALSE)'
      BY <1>5
    <3> QED BY <1>5, <1>6, <1>7, <1>10, <2>2, <3>1, <3>2 DEF Place, Calls, Alive
  <2> QED BY <2>1, <2>2
<1>14. WakeInv'
  <2>1. \A b \in Activations : Stirred(b)' => Stirred(b)
    BY <1>2, StirredSame
  <2>2. \A b \in Activations : waits'[b].octets # 0 => waits[b].octets # 0 /\ OnWait(b)'
    BY <1>2, <1>3, <1>11 DEF WakeInv, SameWait
  <2>3. Alert => Alert'
    BY <1>2, <1>6 DEF Alert
  <2>4. receiver' # Turns!NoReceiver => input' = <<>> /\ pump'
    BY <1>2, <1>3 DEF WakeInv
  <2>5. \A b \in Activations : Reading(b)' => boxes'[routed'[b].box].queue = <<>>
    BY <1>2, <1>3, <1>9, <1>10 DEF WakeInv, SameRoute
  <2> QED BY <1>2, <1>3, <2>1, <2>2, <2>3, <2>4, <2>5, WakeLess
<1>15. MailInv'
  <2>1. \A c \in Activations : routed[c].box = b0 => c = a
    BY <1>2 DEF Turns!RoutedTo
  <2>2. ASSUME NEW b \in Activations, NEW c \in Activations, routed'[b].box = routed'[c].box, ~Boxless(b)'
        PROVE  b = c
    <3>1. CASE b # a /\ c # a
      BY <1>3, <1>9, <2>2, <3>1 DEF MailInv, Boxless
    <3>2. CASE b = a \/ c = a
      BY <1>8, <1>9, <2>1, <2>2, <3>2
    <3> QED BY <3>1, <3>2
  <2>3. ASSUME NEW b \in Activations, NEW c \in Activations, b # c PROVE routed'[b].box \notin waits'[c].boxes
    <3>1. CASE b # a
      BY <1>2, <1>3, <1>9, <2>3, <3>1 DEF MailInv
    <3>2. CASE b = a
      BY <1>2, <1>3, <1>8, <1>9, <2>3, <3>2 DEF MailInv
    <3> QED BY <3>1, <3>2
  <2>4. \A b \in Boxes : InOrder(b)'
    BY <1>2, <1>3 DEF MailInv, InOrder
  <2> QED BY <2>2, <2>3, <2>4 DEF MailInv
<1>16. ReceiptInv'
  <2>1. \A b \in Activations : activations'[b].receipt \in {0, activations[b].receipt}
    BY <1>7
  <2> QED BY <1>2, <1>3, <2>1, ReceiptKept DEF TurnTypes, InputType
<1>17. TimersInv'
  BY <1>2, <1>3, TimersKept
<1>18. LedgerInv'
  <2>1. \A b \in Activations : SameWait(b) /\ SameCalls(b) /\ (Reading(b)' <=> Reading(b))
    BY <1>4, <1>10, <1>11 DEF SameRoute
  <2> QED BY <1>2, <1>3, <2>1, LedgerKept
<1> QED BY <1>6, <1>12, <1>13, <1>14, <1>15, <1>16, <1>17, <1>18 DEF TurnsInv

LEMMA ReadKeeps ==
    ASSUME TurnsInv, NEW a \in Activations, Turns!Read(a)
    PROVE  TurnsInv'
<1>1. PICK n \in 1..MaxSize :
       IF input # <<>>
       THEN LET c == Turns!Consumed(n, Turns!Stamp) IN
            /\ activations' = [activations EXCEPT ![a] = [activations[a] EXCEPT !.stage = "resuming", !.seq = c.seq, !.unclaimed = @ + c.n]]
            /\ input' = c.rest /\ micro' = <<Turns!Settled(a, TRUE)>>
            /\ UNCHANGED <<receiver, pump, ledger>>
       ELSE /\ activations' = [activations EXCEPT ![a].stage = "suspended"]
            /\ receiver' = [registered |-> Turns!Stamp, octets |-> n] /\ pump' = TRUE
            /\ ledger' = ledger \cup {Turns!Effect("read", a, 0)}
            /\ UNCHANGED <<input, micro>>
  BY Zenon DEF Turns!Read
<1>2. /\ Turns!Running(a, "turn") /\ Turns!Live(a) /\ a = Reader /\ routed[a].box = "nobody"
      /\ receiver = Turns!NoReceiver /\ jobs' = Turns!Freed(jobs)
      /\ UNCHANGED <<posted, waits, heard, boxes, timers, routed, outbound, relays, relay,
                     closed, receipts>>
  BY DEF Turns!Read, Turns!Requests, Turns!Nobody
<1>3. TurnTypes /\ PlaceInv /\ WakeInv /\ MailInv /\ TimersInv /\ LedgerInv /\ ReceiptInv
  BY DEF TurnsInv
<1>4. /\ micro = <<>>
      /\ ~OnWait(a) /\ ~Receiving(a) /\ ~ByChild(a) /\ ~Reading(a) /\ RunsIn(jobs, a)
      /\ ~HandsBack(a) /\ ~Calling(a) /\ ~RelayOf(a) /\ ~Relayed(a)
  BY <1>2, RunningIs
<1>5. \A b \in Activations : SameRoute(b) /\ SameCalls(b) /\ (OnWait(b)' <=> OnWait(b))
  BY <1>2, RouteSame, CallsSame DEF OnWait
<1>6. \A b \in Activations : waits[b].octets = 0
  BY <1>2, <1>3, <1>4 DEF WakeInv
<1>7. Turns!Stamp \in Nat /\ Turns!Stamp > 0 /\ input \in Seq(Nat)
  BY <1>3, StampFacts DEF TurnTypes, InputType
<1>8. /\ outbound'.kind = outbound.kind /\ MailInv'
  BY <1>2, <1>3, NobodyWaited, MailKept
<1>9. TimersInv'
  BY <1>2, <1>3, TimersKept
<1>10. \A b \in Activations : Stirred(b)' => Stirred(b)
  <2> SUFFICES ASSUME NEW b \in Activations, Stirred(b)' PROVE Stirred(b)
    OBVIOUS
  <2>1. ~InputDue(b)'
    BY <1>2, <1>6 DEF InputDue
  <2>2. TimerDue(b)' => TimerDue(b)
    BY <1>2 DEF TimerDue
  <2>3. MailDue(b)' => MailDue(b)
    BY <1>2 DEF MailDue
  <2> QED BY <1>5, <2>1, <2>2, <2>3 DEF Stirred
<1>11. CASE input # <<>>
  <2>1. PICK m, v, u : /\ m = Turns!Smaller(n, Turns!HeadRange)
                       /\ v = Turns!Larger(Turns!Stamp, input[1])
                       /\ u = activations[a].unclaimed + m
    OBVIOUS
  <2>2. /\ activations' = [activations EXCEPT ![a] = [activations[a] EXCEPT !.stage = "resuming", !.seq = v, !.unclaimed = @ + m]]
        /\ input' = SubSeq(input, m + 1, Len(input)) /\ micro' = <<Turns!Settled(a, TRUE)>>
        /\ UNCHANGED <<receiver, pump, ledger>>
    BY <1>1, <1>11, <2>1 DEF Turns!Consumed
  <2>3. m \in Nat /\ v \in Nat
    <3>1. Turns!HeadRange \in Nat /\ n \in Nat
      BY <1>7, HeadRangeIs, TurnsConstants DEF Turns!HeadRange
    <3>2. input[1] \in Nat
      BY <1>7, <1>11, TailFacts
    <3> QED BY <1>7, <2>1, <3>1, <3>2 DEF Turns!Smaller, Turns!Larger
  <2>4. PICK x : x = [activations[a] EXCEPT !.stage = "resuming", !.seq = v, !.unclaimed = u]
    OBVIOUS
  <2>5. activations[a] \in Activity /\ u \in Nat
    BY <1>3, <2>1, <2>3 DEF TurnTypes, ActsType, Activity
  <2>6. x \in Activity /\ x.stage = "resuming" /\ x.receipt = activations[a].receipt
    BY <2>3, <2>4, <2>5 DEF Activity, Stages
  <2>7. activations' = [activations EXCEPT ![a] = x]
    <3>1. PICK y : y = [activations[a] EXCEPT !.stage = "resuming", !.seq = v, !.unclaimed = @ + m]
      OBVIOUS
    <3>2. y = x
      BY <2>1, <2>4, <2>5, <3>1 DEF Activity
    <3>3. activations' = [activations EXCEPT ![a] = y]
      BY <2>2, <3>1
    <3> QED BY <3>2, <3>3
  <2>8. /\ ActsType' /\ activations'[a] = x /\ Stage(a)' = "resuming"
        /\ \A b \in Activations : b # a => activations'[b] = activations[b] /\ SameStage(b)
    BY <1>3, <2>6, <2>7, ActChanged DEF TurnTypes
  <2>9. PICK mm : mm = micro'
    OBVIOUS
  <2>10. /\ mm \in Seq(Reaction) /\ OneTask(mm) /\ ~HasTask(mm, "select")
         /\ \A b : OneIn(mm, b) /\ \A o : DueIn(mm, b, o) <=> b = a /\ o = TRUE
    BY <2>2, <2>9, OneReaction
  <2>11. \A b : \A o : ~DueIn(micro, b, o)
    BY <1>4, NoReactions
  <2>12. /\ MicroType' /\ OneTask(micro)' /\ ~HasTask(micro, "select")'
         /\ \A b : b # a => SameDue(b)
         /\ OneIn(micro, a)' /\ DueIn(micro, a, TRUE)' /\ ~DueIn(micro, a, FALSE)'
    BY <2>9, <2>10, <2>11 DEF SameDue, MicroType
  <2>13. /\ JobsType' /\ QueueInv' /\ RelayInv'
         /\ \A b : b # a => SameTurns(b)
         /\ ~TurnIn(jobs, a)' /\ OneTurnIn(jobs, a)' /\ ~RunsIn(jobs, a)' /\ (Alert => posted)
    BY <1>2, <2>12, LeftQueue
  <2>14. input' \in Seq(Nat)
    BY <1>7, <2>2, <2>3, RestFacts
  <2>15. TurnTypes'
    BY <1>2, <1>3, <2>2, <2>8, <2>12, <2>13, <2>14 DEF TurnTypes, InputType, BoxesType, WaitsType, TimersType,
         RoutedType, CallsType
  <2>16. \A b \in Activations : SameWait(b)
    BY <1>5, <2>2 DEF SameWait, Receiving
  <2>17. PlaceInv'
    <3> SUFFICES ASSUME NEW b \in Activations PROVE Place(b)'
      BY DEF PlaceInv
    <3>1. CASE b # a
      BY <1>3, <1>5, <1>8, <2>8, <2>12, <2>13, <2>16, <3>1, PlaceKept DEF PlaceInv
    <3>2. CASE b = a
      <4>1. /\ ~Receiving(a)' /\ ~OnWait(a)' /\ ~ByChild(a)' /\ ~Reading(a)'
            /\ ~HandsBack(a)' /\ ~Calling(a)' /\ ~RelayOf(a)' /\ ~Relayed(a)'
        BY <1>4, <1>5, <2>16 DEF SameWait, SameRoute, SameCalls
      <4> QED BY <2>8, <2>12, <2>13, <3>2, <4>1 DEF Place, Calls, Alive
    <3> QED BY <3>1, <3>2
  <2>18. WakeInv'
    <3>1. Alert => Alert'
      BY <1>2, <2>13 DEF Alert
    <3>2. \A b \in Activations : waits'[b].octets = 0
      BY <1>2, <1>6
    <3>3. receiver' = Turns!NoReceiver
      BY <1>2, <2>2
    <3>4. \A b \in Activations : Reading(b)' => boxes'[routed'[b].box].queue = <<>>
      BY <1>2, <1>3 DEF WakeInv, Reading
    <3> QED BY <1>3, <1>10, <2>2, <3>1, <3>2, <3>3, <3>4, WakeLess
  <2>19. ReceiptInv'
    <3>1. \A b \in Activations : activations'[b].receipt \in {0, activations[b].receipt}
      BY <2>6, <2>8
    <3> QED BY <1>2, <1>3, <3>1, ReceiptKept DEF TurnTypes, InputType
  <2>20. LedgerInv'
    <3>1. \A b \in Activations : SameWait(b) /\ SameCalls(b) /\ (Reading(b)' <=> Reading(b))
      BY <1>5, <2>16 DEF SameRoute
    <3> QED BY <1>2, <1>3, <2>2, <3>1, LedgerKept
  <2> QED BY <1>8, <1>9, <2>13, <2>15, <2>17, <2>18, <2>19, <2>20 DEF TurnsInv
<1>12. CASE input = <<>>
  <2>1. PICK r : r = [registered |-> Turns!Stamp, octets |-> n]
    OBVIOUS
  <2>2. /\ activations' = [activations EXCEPT ![a].stage = "suspended"]
        /\ receiver' = r /\ pump' = TRUE
        /\ ledger' = ledger \cup {Turns!Effect("read", a, 0)}
        /\ UNCHANGED <<input, micro>>
    BY <1>1, <1>12, <2>1
  <2>3. r \in [registered : Nat, octets : Nat] /\ r # Turns!NoReceiver
    <3>1. n \in Nat /\ n # 0
      BY TurnsConstants
    <3> QED BY <1>7, <2>1, <3>1 DEF Turns!NoReceiver
  <2>4. /\ ActsType' /\ Stage(a)' = "suspended"
        /\ \A b \in Activations : activations'[b].receipt = activations[b].receipt
        /\ \A b \in Activations : b # a => activations'[b] = activations[b] /\ SameStage(b)
    BY <1>3, <2>2, StageChanged DEF Stages, TurnTypes
  <2>5. OneTask(micro)' /\ ~HasTask(micro, "select")' /\ OneIn(micro, a)' /\ \A o : ~DueIn(micro, a, o)'
    BY <1>4, <2>2, NoReactions
  <2>6. /\ JobsType' /\ QueueInv' /\ RelayInv'
        /\ \A b : b # a => SameTurns(b)
        /\ ~TurnIn(jobs, a)' /\ OneTurnIn(jobs, a)' /\ ~RunsIn(jobs, a)' /\ (Alert => posted)
    BY <1>2, <2>5, LeftQueue
  <2>7. /\ Receiving(a)' /\ \A b \in Activations : b # a => SameWait(b)
        /\ \A b \in Activations : SameDue(b)
    BY <1>2, <1>5, <2>2, <2>3, DueSame DEF SameWait, Receiving
  <2>8. TurnTypes'
    BY <1>2, <1>3, <2>2, <2>3, <2>4, <2>6 DEF TurnTypes, MicroType, InputType, BoxesType, WaitsType, TimersType,
         RoutedType, CallsType
  <2>9. PlaceInv'
    <3> SUFFICES ASSUME NEW b \in Activations PROVE Place(b)'
      BY DEF PlaceInv
    <3>1. CASE b # a
      BY <1>3, <1>5, <1>8, <2>4, <2>6, <2>7, <3>1, PlaceKept DEF PlaceInv
    <3>2. CASE b = a
      <4>1. /\ ~OnWait(a)' /\ ~ByChild(a)' /\ ~Reading(a)' /\ Boxless(a)'
            /\ ~HandsBack(a)' /\ ~Calling(a)' /\ ~RelayOf(a)' /\ ~Relayed(a)'
        BY <1>2, <1>4, <1>5 DEF SameRoute, SameCalls, Boxless
      <4>2. ~DueIn(micro, a, TRUE)' /\ ~DueIn(micro, a, FALSE)' /\ OneIn(micro, a)'
        BY <2>5
      <4> QED BY <2>4, <2>6, <2>7, <3>2, <4>1, <4>2 DEF Place, Calls, Alive
    <3> QED BY <3>1, <3>2
  <2>10. WakeInv'
    <3>1. Alert => Alert'
      BY <1>2, <2>6 DEF Alert
    <3>2. \A b \in Activations : waits'[b].octets = 0
      BY <1>2, <1>6
    <3>3. input' = <<>> /\ pump'
      BY <1>12, <2>2
    <3>4. \A b \in Activations : Reading(b)' => boxes'[routed'[b].box].queue = <<>>
      BY <1>2, <1>3 DEF WakeInv, Reading
    <3> QED BY <1>3, <1>10, <2>2, <3>1, <3>2, <3>3, <3>4, WakeLess
  <2>11. ReceiptInv'
    <3>1. \A b \in Activations : activations'[b].receipt \in {0, activations[b].receipt}
      BY <2>4
    <3> QED BY <1>2, <1>3, <3>1, ReceiptKept DEF TurnTypes, InputType
  <2>12. LedgerInv'
    <3>1. \A k, b, d : Held(k, b, d)' <=> Held(k, b, d) \/ (k = "read" /\ b = a /\ d = 0)
      BY <2>2, EffectAdded
    <3>2. ASSUME NEW k \in EffectKinds, NEW b \in Activations, NEW d \in Nat
          PROVE  Held(k, b, d)' <=> Owed(k, b, d)'
      <4>1. TimerAt(k, b, d)' <=> TimerAt(k, b, d)
        BY <1>2 DEF TimerAt
      <4>2. outbound' = outbound /\ (Held(k, b, d) <=> Owed(k, b, d))
        BY <1>2, <1>3 DEF LedgerInv
      <4>3. (OnWait(b)' <=> OnWait(b)) /\ (Reading(b)' <=> Reading(b)) /\ SameCalls(b)
        BY <1>5 DEF SameRoute
      <4>4. CASE b # a
        <5>1. Receiving(b)' <=> Receiving(b)
          BY <2>7, <4>4 DEF SameWait
        <5> QED BY <3>1, <4>1, <4>2, <4>3, <4>4, <5>1 DEF Owed, SameCalls
      <4>5. CASE b = a
        BY <1>4, <2>7, <3>1, <4>1, <4>2, <4>3, <4>5 DEF Owed, SameCalls, TimedKinds
      <4> QED BY <4>4, <4>5
    <3>3. ledger' \subseteq [kind : EffectKinds, act : Activations, id : Nat]
      <4>1. Turns!Effect("read", a, 0) \in [kind : EffectKinds, act : Activations, id : Nat]
        BY EffectType DEF EffectKinds
      <4> QED BY <1>3, <2>2, <4>1 DEF LedgerInv
    <3> QED BY <3>2, <3>3 DEF LedgerInv
  <2> QED BY <1>8, <1>9, <2>6, <2>8, <2>9, <2>10, <2>11, <2>12 DEF TurnsInv
<1> QED BY <1>11, <1>12

\* A helper that runs: what its activation does not do meanwhile.
LEMMA HelpingIs ==
    ASSUME TurnsInv, NEW a \in Activations, Turns!Helping(a)
    PROVE  /\ ~closed /\ micro = <<>> /\ Stage(a) = "helping" /\ Alive(a) /\ ~Boxless(a)
           /\ ~OnWait(a) /\ ~Receiving(a) /\ ~Calling(a) /\ ~RelayOf(a) /\ ~Relayed(a)
           /\ (~ByChild(a) => ~Reading(a)) /\ ~TurnIn(jobs, a) /\ OneTurnIn(jobs, a) /\ ~RunsIn(jobs, a)
<1>1. ~closed /\ micro = <<>> /\ Stage(a) = "helping" /\ Alive(a)
  BY DEF Turns!Helping, Stage, Alive
<1>2. Place(a)
  BY DEF TurnsInv, PlaceInv
<1> QED BY <1>1, <1>2 DEF Place, Calls

\* A step that only changes who holds an activation's routed channel.
LEMMA RouteChanged ==
    ASSUME TurnsInv, NEW a \in Activations, NEW r \in Route,
           routed' = [routed EXCEPT ![a] = r], r.box = routed[a].box, r.reading = routed[a].reading,
           Place(a)', ActsType', MicroType', OneTask(micro)', ~HasTask(micro, "select")',
           \A b \in Activations : activations'[b].receipt = activations[b].receipt,
           \A b \in Activations : b # a => SameStage(b) /\ SameDue(b),
           micro = <<>>,
           UNCHANGED <<jobs, posted, waits, receiver, input, pump, heard, boxes, timers,
                       outbound, relays, relay, ledger, closed, receipts>>
    PROVE  TurnsInv'
<1>1. TurnTypes /\ PlaceInv /\ WakeInv /\ MailInv /\ TimersInv /\ LedgerInv /\ ReceiptInv /\ RelayInv /\ QueueInv
  BY DEF TurnsInv
<1>2. RoutedType' /\ routed'[a] = r /\ \A b \in Activations : b # a => routed'[b] = routed[b]
  BY <1>1 DEF TurnTypes, RoutedType
<1>3. /\ \A b \in Activations : b # a => SameRoute(b)
      /\ \A b \in Activations : routed'[b].box = routed[b].box /\ routed'[b].reading = routed[b].reading
      /\ \A b \in Activations : Reading(b)' <=> Reading(b)
  BY <1>2 DEF SameRoute, Reading, ByChild, HandsBack, Boxless
<1>4. \A b \in Activations : SameWait(b) /\ SameCalls(b) /\ SameTurns(b)
  BY WaitSame, CallsSame, TurnsSame
<1>5. TurnTypes'
  BY <1>1, <1>2 DEF TurnTypes, JobsType, InputType, BoxesType, WaitsType, TimersType, CallsType
<1>6. PlaceInv'
  <2> SUFFICES ASSUME NEW b \in Activations PROVE Place(b)'
    BY DEF PlaceInv
  <2>1. CASE b # a
    <3>1. outbound'.kind = outbound.kind
      OBVIOUS
    <3> QED BY <1>1, <1>3, <1>4, <2>1, <3>1, PlaceKept DEF PlaceInv
  <2>2. CASE b = a
    BY <2>2
  <2> QED BY <2>1, <2>2
<1>7. WakeInv'
  <2>1. \A b \in Activations : Stirred(b)' => Stirred(b)
    BY StirredSame
  <2>2. \A b \in Activations : waits'[b].octets # 0 => waits[b].octets # 0 /\ OnWait(b)'
    BY <1>1, <1>4 DEF WakeInv, SameWait
  <2>3. Alert => Alert'
    <3>1. ~HasTask(micro, "consider")
      BY NoReactions
    <3> QED BY <3>1 DEF Alert
  <2>4. receiver' # Turns!NoReceiver => input' = <<>> /\ pump'
    BY <1>1 DEF WakeInv
  <2>5. \A b \in Activations : Reading(b)' => boxes'[routed'[b].box].queue = <<>>
    BY <1>1, <1>3 DEF WakeInv
  <2> QED BY <1>1, <2>1, <2>2, <2>3, <2>4, <2>5, WakeLess
<1>8. MailInv'
  BY <1>1, <1>3, NobodyWaited, MailKept
<1>9. ReceiptInv'
  BY <1>1, ReceiptKept DEF TurnTypes, InputType
<1>10. TimersInv'
  BY <1>1, TimersKept
<1>11. LedgerInv'
  BY <1>1, <1>3, <1>4, LedgerKept
<1>12. RelayInv'
  BY <1>1, RelayKept
<1>13. QueueInv'
  BY <1>1 DEF QueueInv
<1> QED BY <1>5, <1>6, <1>7, <1>8, <1>9, <1>10, <1>11, <1>12, <1>13 DEF TurnsInv

LEMMA HelperAcceptsKeeps ==
    ASSUME TurnsInv, NEW a \in Activations, Turns!HelperAccepts(a)
    PROVE  TurnsInv'
<1>1. /\ Turns!Helping(a)
      /\ UNCHANGED <<activations, jobs, micro, posted, waits, receiver, input, pump, heard, boxes, timers,
                     outbound, relays, relay, ledger, closed, receipts>>
  BY DEF Turns!HelperAccepts
<1>2. TurnTypes /\ Place(a) /\ routed[a] \in Route
  BY DEF TurnsInv, TurnTypes, RoutedType, PlaceInv
<1>3. PICK r : /\ routed' = [routed EXCEPT ![a] = r] /\ r \in Route /\ r.box = routed[a].box
               /\ r.reading = routed[a].reading /\ r.owner = "child"
               /\ (r.back => r.reading = 0)
  <2>1. CASE routed[a].owner = "act" /\ routed' = [routed EXCEPT ![a].owner = "child"]
    <3>1. PICK r : r = [routed[a] EXCEPT !.owner = "child"]
      OBVIOUS
    <3>2. routed' = [routed EXCEPT ![a] = r]
      BY <2>1, <3>1
    <3>3. ~HandsBack(a)
      BY <1>2, <2>1 DEF Place, ByChild
    <3>4. /\ r \in Route /\ r.box = routed[a].box /\ r.reading = routed[a].reading /\ r.owner = "child"
          /\ ~r.back
      BY <1>2, <3>1, <3>3 DEF Route, HandsBack
    <3> QED BY <3>2, <3>4
  <2>2. CASE /\ routed[a].owner = "child" /\ routed[a].reading = 0
             /\ routed' = [routed EXCEPT ![a].back = TRUE]
    <3>1. PICK r : r = [routed[a] EXCEPT !.back = TRUE]
      OBVIOUS
    <3>2. routed' = [routed EXCEPT ![a] = r]
      BY <2>2, <3>1
    <3>3. r \in Route /\ r.box = routed[a].box /\ r.reading = routed[a].reading /\ r.owner = "child"
      BY <1>2, <2>2, <3>1 DEF Route
    <3> QED BY <2>2, <3>2, <3>3
  <2> QED BY <2>1, <2>2 DEF Turns!HelperAccepts
<1>4. /\ micro = <<>> /\ Stage(a) = "helping" /\ ~OnWait(a) /\ ~Receiving(a) /\ ~Calling(a) /\ ~RelayOf(a)
      /\ ~Relayed(a) /\ ~TurnIn(jobs, a) /\ OneTurnIn(jobs, a) /\ ~RunsIn(jobs, a) /\ ~Boxless(a)
  BY <1>1, HelpingIs
<1>5. MicroType' /\ OneTask(micro)' /\ ~HasTask(micro, "select")' /\ OneIn(micro, a)' /\ \A o : ~DueIn(micro, a, o)'
  BY <1>1, <1>4, NoReactions DEF MicroType
<1>6. SameStage(a) /\ SameWait(a) /\ SameCalls(a) /\ SameTurns(a) /\ \A b \in Activations : SameStage(b) /\ SameDue(b)
  BY <1>1, StageSame, WaitSame, CallsSame, TurnsSame, DueSame
<1>7. /\ Stage(a)' = "helping" /\ ~OnWait(a)' /\ ~Receiving(a)' /\ ~Calling(a)' /\ ~RelayOf(a)' /\ ~Relayed(a)'
      /\ ~TurnIn(jobs, a)' /\ OneTurnIn(jobs, a)' /\ ~RunsIn(jobs, a)'
  BY <1>4, <1>6 DEF SameStage, SameWait, SameCalls, SameTurns
<1>8. routed'[a] = r
  BY <1>2, <1>3 DEF TurnTypes, RoutedType
<1>9. ByChild(a)' /\ ~Boxless(a)' /\ (HandsBack(a)' => ~Reading(a)')
  BY <1>3, <1>4, <1>8 DEF ByChild, Boxless, HandsBack, Reading
<1>10. ~DueIn(micro, a, TRUE)' /\ ~DueIn(micro, a, FALSE)'
  BY <1>5
<1>11. Place(a)'
  BY <1>5, <1>7, <1>9, <1>10 DEF Place, Calls, Alive
<1>12. ActsType'
  BY <1>1, <1>2 DEF TurnTypes, ActsType
<1> QED BY <1>1, <1>3, <1>4, <1>5, <1>6, <1>11, <1>12, RouteChanged

LEMMA HelperReturnsKeeps ==
    ASSUME TurnsInv, NEW a \in Activations, Turns!HelperReturns(a)
    PROVE  TurnsInv'
<1>1. PICK ok, r : ok = routed[a].back
             /\ r = [routed[a] EXCEPT !.back = FALSE, !.owner = IF routed[a].back THEN "act" ELSE @]
  OBVIOUS
<1>2. /\ Turns!Helping(a)
      /\ activations' = [activations EXCEPT ![a].stage = "resuming"]
      /\ micro' = <<Turns!Settled(a, ok)>> /\ routed' = [routed EXCEPT ![a] = r]
      /\ UNCHANGED <<jobs, posted, waits, receiver, input, pump, heard, boxes, timers,
                     outbound, relays, relay, ledger, closed, receipts>>
  BY <1>1 DEF Turns!HelperReturns
<1>3. TurnTypes /\ Place(a) /\ routed[a] \in Route
  BY DEF TurnsInv, TurnTypes, RoutedType, PlaceInv
<1>4. ok \in BOOLEAN
  BY <1>1, <1>3 DEF Route
<1>5. /\ r \in Route /\ r.box = routed[a].box /\ r.reading = routed[a].reading
      /\ ~r.back /\ (ok => r.owner = "act") /\ (~ok => r.owner = routed[a].owner)
  BY <1>1, <1>3 DEF Route
<1>6. /\ micro = <<>> /\ Stage(a) = "helping" /\ ~OnWait(a) /\ ~Receiving(a) /\ ~Calling(a) /\ ~RelayOf(a)
      /\ ~Relayed(a) /\ ~TurnIn(jobs, a) /\ OneTurnIn(jobs, a) /\ ~RunsIn(jobs, a) /\ ~Boxless(a)
      /\ (~ByChild(a) => ~Reading(a))
  BY <1>2, HelpingIs
<1>7. PICK mm : mm = micro'
  OBVIOUS
<1>8. /\ mm \in Seq(Reaction) /\ OneTask(mm) /\ ~HasTask(mm, "select")
      /\ \A b : OneIn(mm, b) /\ \A o : DueIn(mm, b, o) <=> b = a /\ o = ok
  <2>1. mm = <<Turns!Settled(a, ok)>>
    BY <1>2, <1>7
  <2>2. mm \in Seq(Reaction) /\ OneTask(mm) /\ ~HasTask(mm, "select")
    BY <1>4, <2>1, OneReaction
  <2>3. \A b : OneIn(mm, b) /\ \A o : DueIn(mm, b, o) <=> b = a /\ o = ok
    <3>1. CASE ok = TRUE
      BY <2>1, <3>1, OneReaction
    <3>2. CASE ok = FALSE
      BY <2>1, <3>2, OneReaction
    <3> QED BY <1>4, <3>1, <3>2
  <2> QED BY <2>2, <2>3
<1>9. \A b : \A o : ~DueIn(micro, b, o)
  BY <1>6, NoReactions
<1>10. /\ MicroType' /\ OneTask(micro)' /\ ~HasTask(micro, "select")'
       /\ \A b : b # a => SameDue(b)
       /\ OneIn(micro, a)' /\ \A o : DueIn(micro, a, o)' <=> o = ok
  BY <1>7, <1>8, <1>9 DEF SameDue, MicroType
<1>11. /\ ActsType' /\ Stage(a)' = "resuming"
       /\ \A b \in Activations : activations'[b].receipt = activations[b].receipt
       /\ \A b \in Activations : b # a => activations'[b] = activations[b] /\ SameStage(b)
  BY <1>2, <1>3, StageChanged DEF Stages, TurnTypes
<1>12. SameWait(a) /\ SameCalls(a) /\ SameTurns(a)
  BY <1>2, WaitSame, CallsSame, TurnsSame
<1>13. /\ ~OnWait(a)' /\ ~Receiving(a)' /\ ~Calling(a)' /\ ~RelayOf(a)' /\ ~Relayed(a)'
       /\ ~TurnIn(jobs, a)' /\ OneTurnIn(jobs, a)' /\ ~RunsIn(jobs, a)'
  BY <1>6, <1>12 DEF SameWait, SameCalls, SameTurns
<1>14. routed'[a] = r
  BY <1>2, <1>3 DEF TurnTypes, RoutedType
<1>15. /\ ~HandsBack(a)' /\ ~Boxless(a)' /\ (ByChild(a)' => ~ok)
       /\ (Reading(a)' => ByChild(a)')
  <2>1. ok => ~Reading(a)
    BY <1>1, <1>3 DEF Place, HandsBack
  <2> QED BY <1>5, <1>6, <1>14, <2>1 DEF ByChild, Boxless, HandsBack, Reading
<1>16. /\ DueIn(micro, a, TRUE)' <=> ok
       /\ DueIn(micro, a, FALSE)' <=> ~ok
  <2>1. CASE ok = TRUE
    BY <1>10, <2>1
  <2>2. CASE ok = FALSE
    BY <1>10, <2>2
  <2> QED BY <1>4, <2>1, <2>2
<1>17. Place(a)'
  BY <1>10, <1>11, <1>13, <1>15, <1>16 DEF Place, Calls, Alive
<1> QED BY <1>2, <1>5, <1>6, <1>10, <1>11, <1>17, RouteChanged

-----------------------------------------------------------------------------
(* Of mailboxes.                                                           *)

\* A queue of messages that lost k of them at its head, or less than one.
BehindBy(r, q, k) ==
    /\ Len(r) = Len(q) - k
    /\ \A i \in DOMAIN r : i + k \in DOMAIN q /\ r[i].n = q[i + k].n /\ r[i].receipt = q[i + k].receipt
Behind(r, q) == \E k \in {0, 1} : BehindBy(r, q, k)

LEMMA BehindSelf ==
    ASSUME NEW q \in Seq(Message)
    PROVE  Behind(q, q)
<1>1. DOMAIN q = 1..Len(q) /\ Len(q) \in Nat
  BY LenProperties
<1>2. \A i \in DOMAIN q : i + 0 = i
  BY <1>1
<1>3. BehindBy(q, q, 0)
  BY <1>1, <1>2 DEF BehindBy
<1> QED BY <1>3 DEF Behind

LEMMA BehindTail ==
    ASSUME NEW q \in Seq(Message), q # <<>>
    PROVE  BehindBy(Tail(q), q, 1)
<1>1. Tail(q) \in Seq(Message) /\ Len(Tail(q)) = Len(q) - 1
  BY HeadTailProperties
<1>2. \A i \in DOMAIN Tail(q) : i + 1 \in DOMAIN q /\ Tail(q)[i] = q[i + 1]
  BY TailFacts
<1> QED BY <1>1, <1>2 DEF BehindBy

LEMMA BoxReadIs ==
    ASSUME NEW q \in Seq(Message), q # <<>>, NEW n \in Nat, NEW r, r = Turns!BoxRead(q, n)
    PROVE  r \in Seq(Message) /\ Behind(r, q)
<1>1. /\ Tail(q) \in Seq(Message) /\ DOMAIN q = 1..Len(q) /\ Len(q) \in Nat /\ 1 \in DOMAIN q
      /\ q[1] \in Message
  BY TailFacts
<1>2. CASE q[1].left <= n
  BY <1>1, <1>2, BehindTail DEF Turns!BoxRead, Behind
<1>3. CASE ~(q[1].left <= n)
  <2>1. PICK l : l = q[1].left - n
    OBVIOUS
  <2>2. PICK x : x = [q[1] EXCEPT !.left = l]
    OBVIOUS
  <2>3. r = [q EXCEPT ![1] = x]
    BY <1>3, <2>1, <2>2 DEF Turns!BoxRead
  <2>4. l \in Nat
    BY <1>1, <1>3, <2>1 DEF Message
  <2>5. x \in Message /\ x.n = q[1].n /\ x.receipt = q[1].receipt
    BY <1>1, <2>2, <2>4 DEF Message
  <2>6. /\ r \in Seq(Message) /\ Len(r) = Len(q) /\ DOMAIN r = DOMAIN q
        /\ \A i \in DOMAIN r : r[i] = IF i = 1 THEN x ELSE q[i]
    <3>1. r \in [1..Len(q) -> Message]
      <4>1. q \in [1..Len(q) -> Message]
        BY <1>1
      <4> QED BY <2>3, <2>5, <4>1
    <3>2. r \in Seq(Message)
      BY <1>1, <3>1, SeqDef
    <3>3. DOMAIN r = 1..Len(q)
      BY <3>1
    <3>4. Len(r) = Len(q)
      BY <1>1, <3>2, <3>3, LenProperties
    <3> QED BY <1>1, <2>3, <3>2, <3>3, <3>4
  <2>7. \A i \in DOMAIN r : i + 0 = i /\ r[i].n = q[i].n /\ r[i].receipt = q[i].receipt
    <3>1. \A i \in DOMAIN r : i + 0 = i
      BY <1>1, <2>6
    <3> QED BY <2>5, <2>6, <3>1
  <2>8. BehindBy(r, q, 0)
    BY <1>1, <2>6, <2>7 DEF BehindBy
  <2> QED BY <2>6, <2>8 DEF Behind
<1> QED BY <1>2, <1>3

LEMMA MailBehind ==
    ASSUME MailInv, BoxesType, BoxesType', closed => closed',
           \A b \in Boxes : boxes'[b].sent = boxes[b].sent /\ Behind(boxes'[b].queue, boxes[b].queue),
           \A a \in Activations : routed'[a].box = routed[a].box \/ routed'[a].box = "nobody",
           \A a \in Activations : waits'[a].boxes \subseteq waits[a].boxes,
           \A a \in Activations : "nobody" \notin waits'[a].boxes
    PROVE  MailInv'
<1>1. ASSUME NEW b \in Boxes, ~closed' PROVE InOrder(b)'
  <2>1. PICK q, r, s : q = boxes[b].queue /\ r = boxes'[b].queue /\ s = boxes[b].sent
    OBVIOUS
  <2>2. q \in Seq(Message) /\ r \in Seq(Message) /\ s \in Nat
    BY <2>1 DEF BoxesType, Mailbox
  <2>3. PICK k \in {0, 1} : BehindBy(r, q, k)
    BY <2>1 DEF Behind
  <2>4. Len(q) \in Nat /\ Len(r) \in Nat /\ Len(r) = Len(q) - k /\ DOMAIN q = 1..Len(q) /\ DOMAIN r = 1..Len(r)
    BY <2>2, <2>3, LenProperties DEF BehindBy
  <2>5. \A i \in DOMAIN q : q[i].n = s - Len(q) + i
    BY <1>1, <2>1 DEF MailInv, InOrder
  <2>6. ASSUME NEW i \in DOMAIN r PROVE r[i].n = s - Len(r) + i
    <3>1. i + k \in DOMAIN q /\ r[i].n = q[i + k].n
      BY <2>3 DEF BehindBy
    <3>2. r[i].n = s - Len(q) + (i + k)
      BY <2>5, <3>1
    <3> QED BY <2>2, <2>4, <3>2
  <2>7. boxes'[b].sent = s
    BY <2>1
  <2> QED BY <2>1, <2>6, <2>7 DEF InOrder
<1>2. \A b \in Boxes : InOrder(b)'
  <2>1. CASE closed'
    BY <2>1 DEF InOrder
  <2> QED BY <1>1, <2>1
<1>3. ASSUME NEW a \in Activations, NEW c \in Activations, routed'[a].box = routed'[c].box, ~Boxless(a)'
      PROVE  a = c
  BY <1>3 DEF MailInv, Boxless
<1>4. ASSUME NEW a \in Activations, NEW c \in Activations, a # c
      PROVE  routed'[a].box \notin waits'[c].boxes
  BY <1>4 DEF MailInv
<1> QED BY <1>2, <1>3, <1>4 DEF MailInv

\* Where a message that is left came from.
LEMMA MessagesBehind ==
    ASSUME ReceiptInv, BoxesType, BoxesType', UNCHANGED receipts,
           \A b \in Boxes : Behind(boxes'[b].queue, boxes[b].queue)
    PROVE  /\ \A b \in Boxes : \A i \in DOMAIN boxes'[b].queue :
                \E j \in DOMAIN boxes[b].queue : boxes'[b].queue[i].receipt = boxes[b].queue[j].receipt
           /\ \A b \in Boxes : \A i \in DOMAIN boxes'[b].queue : boxes'[b].queue[i].receipt <= receipts'
           /\ \A b, d \in Boxes : \A i \in DOMAIN boxes'[b].queue, j \in DOMAIN boxes'[d].queue :
                boxes'[b].queue[i].receipt = boxes'[d].queue[j].receipt /\ boxes'[b].queue[i].receipt # 0
                => b = d /\ i = j
<1>1. ASSUME NEW b \in Boxes, NEW i \in DOMAIN boxes'[b].queue
      PROVE  \E j \in DOMAIN boxes[b].queue : boxes'[b].queue[i].receipt = boxes[b].queue[j].receipt
  <2>1. PICK k \in {0, 1} : BehindBy(boxes'[b].queue, boxes[b].queue, k)
    BY DEF Behind
  <2> QED BY <2>1 DEF BehindBy
<1>2. ASSUME NEW b \in Boxes, NEW i \in DOMAIN boxes'[b].queue PROVE boxes'[b].queue[i].receipt <= receipts'
  BY <1>1 DEF ReceiptInv
<1>3. ASSUME NEW b \in Boxes, NEW d \in Boxes, NEW i \in DOMAIN boxes'[b].queue, NEW j \in DOMAIN boxes'[d].queue,
             boxes'[b].queue[i].receipt = boxes'[d].queue[j].receipt, boxes'[b].queue[i].receipt # 0
      PROVE  b = d /\ i = j
  <2>1. b = d
    BY <1>1, <1>3 DEF ReceiptInv
  <2>2. PICK q, r : q = boxes[b].queue /\ r = boxes'[b].queue
    OBVIOUS
  <2>3. PICK k \in {0, 1} : BehindBy(r, q, k)
    BY <2>2 DEF Behind
  <2>4. r \in Seq(Message) /\ i \in DOMAIN r /\ j \in DOMAIN r /\ r[i].receipt = r[j].receipt /\ r[i].receipt # 0
    BY <1>3, <2>1, <2>2 DEF BoxesType, Mailbox
  <2>5. i \in Nat /\ j \in Nat
    BY <2>4, LenProperties
  <2>6. PICK u, v : u = i + k /\ v = j + k
    OBVIOUS
  <2>7. u \in DOMAIN q /\ v \in DOMAIN q /\ r[i].receipt = q[u].receipt /\ r[j].receipt = q[v].receipt
    BY <2>3, <2>4, <2>6 DEF BehindBy
  <2>8. q[u].receipt = q[v].receipt /\ q[u].receipt # 0
    BY <2>4, <2>7
  <2>9. u = v
    BY <2>2, <2>7, <2>8 DEF ReceiptInv
  <2>10. i = j
    BY <2>5, <2>6, <2>9
  <2> QED BY <2>1, <2>10
<1> QED BY <1>1, <1>2, <1>3

LEMMA ReceiptBehind ==
    ASSUME ReceiptInv, BoxesType, BoxesType', UNCHANGED receipts, receipts \in Nat,
           \A b \in Boxes : Behind(boxes'[b].queue, boxes[b].queue),
           \A a \in Activations : activations'[a].receipt \in {0, activations[a].receipt}
    PROVE  ReceiptInv'
<1>1. \A a \in Activations : activations'[a].receipt <= receipts'
  BY DEF ReceiptInv
<1>2. \A a, c \in Activations :
          activations'[a].receipt = activations'[c].receipt /\ activations'[a].receipt # 0 => a = c
  BY DEF ReceiptInv
<1>3. ASSUME NEW a \in Activations, NEW b \in Boxes, NEW i \in DOMAIN boxes'[b].queue,
             activations'[a].receipt = boxes'[b].queue[i].receipt
      PROVE  activations'[a].receipt = 0
  <2>1. PICK j \in DOMAIN boxes[b].queue : boxes'[b].queue[i].receipt = boxes[b].queue[j].receipt
    BY MessagesBehind
  <2> QED BY <1>3, <2>1 DEF ReceiptInv
<1> QED BY <1>1, <1>2, <1>3, MessagesBehind DEF ReceiptInv

\* What a read of a routed mailbox does not touch.
LEMMA BoxReadTouches ==
    ASSUME NEW a \in Activations, NEW n, Turns!BoxReadBegins(a, n)
    PROVE  /\ UNCHANGED <<posted, waits, receiver, input, pump, heard, timers, outbound, relays, relay,
                          closed, receipts>>
           /\ routed[a].box # "nobody" /\ routed[a].reading = 0
BY DEF Turns!BoxReadBegins, Turns!Nobody

\* The queue of turns when the reader was helped, or asked for the read in a turn.
LEMMA ReaderQueue ==
    ASSUME TurnsInv, NEW a \in Activations, OneTask(micro)', ~HasTask(micro, "select")',
           UNCHANGED <<relay, relays, outbound, posted>>,
           \/ Turns!Helping(a) /\ UNCHANGED jobs
           \/ Turns!Running(a, "turn") /\ Turns!Live(a) /\ jobs' = Turns!Freed(jobs)
    PROVE  /\ JobsType' /\ QueueInv' /\ RelayInv' /\ (Alert => Alert')
           /\ \A b : b # a => SameTurns(b)
           /\ ~TurnIn(jobs, a)' /\ OneTurnIn(jobs, a)' /\ ~RunsIn(jobs, a)'
<1>1. CASE Turns!Helping(a) /\ UNCHANGED jobs
  <2>1. micro = <<>> /\ ~TurnIn(jobs, a) /\ OneTurnIn(jobs, a) /\ ~RunsIn(jobs, a)
    BY <1>1, HelpingIs
  <2>2. \A b : SameTurns(b)
    BY <1>1, TurnsSame
  <2>3. ~TurnIn(jobs, a)' /\ OneTurnIn(jobs, a)' /\ ~RunsIn(jobs, a)'
    BY <2>1, <2>2 DEF SameTurns
  <2>4. ~HasTask(micro, "consider")
    BY <2>1, NoReactions
  <2>5. Alert => Alert'
    BY <1>1, <2>4 DEF Alert
  <2>6. JobsType' /\ QueueInv'
    BY <1>1 DEF TurnsInv, TurnTypes, JobsType, QueueInv
  <2>7. RelayInv'
    BY <1>1, RelayKept DEF TurnsInv
  <2> QED BY <2>2, <2>3, <2>5, <2>6, <2>7
<1>2. CASE Turns!Running(a, "turn") /\ Turns!Live(a) /\ jobs' = Turns!Freed(jobs)
  <2>1. /\ JobsType' /\ QueueInv' /\ RelayInv'
        /\ \A b : b # a => SameTurns(b)
        /\ ~TurnIn(jobs, a)' /\ OneTurnIn(jobs, a)' /\ ~RunsIn(jobs, a)' /\ (Alert => posted)
    BY <1>2, LeftQueue
  <2>2. Alert => Alert'
    BY <2>1 DEF Alert
  <2> QED BY <2>1, <2>2
<1> QED BY <1>1, <1>2

\* A read of a routed mailbox that has a message.
LEMMA BoxReadTakes ==
    ASSUME TurnsInv, NEW a \in Activations, NEW n \in Nat, Turns!BoxReadBegins(a, n),
           boxes[routed[a].box].queue # <<>>, ~HandsBack(a),
           \/ Turns!Helping(a) /\ ByChild(a) /\ UNCHANGED jobs
           \/ /\ Turns!Running(a, "turn") /\ Turns!Live(a) /\ ~ByChild(a)
              /\ jobs' = Turns!Freed(jobs)
    PROVE  TurnsInv'
<1>1. PICK b0, q, mine : b0 = routed[a].box /\ q = boxes[b0].queue /\ mine = (routed[a].owner = "act")
  OBVIOUS
<1>2. /\ boxes' = [boxes EXCEPT ![b0].queue = Turns!BoxRead(q, n)]
      /\ activations' = IF mine THEN [activations EXCEPT ![a] = [@ EXCEPT !.stage = "resuming",
                                                      !.seq = Turns!Larger(Turns!Stamp, q[1].seq)]]
                        ELSE activations
      /\ micro' = IF mine THEN <<Turns!Settled(a, TRUE)>> ELSE <<>>
      /\ UNCHANGED <<routed, ledger>>
  BY <1>1 DEF Turns!BoxReadBegins
<1>3. /\ UNCHANGED <<posted, waits, receiver, input, pump, heard, timers, outbound, relays, relay,
                     closed, receipts>>
      /\ b0 # "nobody" /\ routed[a].reading = 0
  BY <1>1, BoxReadTouches
<1>4. TurnTypes /\ PlaceInv /\ WakeInv /\ MailInv /\ TimersInv /\ LedgerInv /\ ReceiptInv
  BY DEF TurnsInv
<1>5. /\ routed[a] \in Route /\ b0 \in Boxes /\ (mine <=> ~ByChild(a)) /\ mine \in BOOLEAN
      /\ q \in Seq(Message) /\ q # <<>> /\ ~Reading(a)
  <2>1. routed[a] \in Route
    BY <1>4 DEF TurnTypes, RoutedType
  <2>2. b0 \in Boxes /\ (mine <=> ~ByChild(a)) /\ mine \in BOOLEAN /\ ~Reading(a)
    BY <1>1, <1>3, <2>1 DEF Route, ByChild, Reading
  <2> QED BY <1>1, <1>4, <2>1, <2>2 DEF TurnTypes, BoxesType, Mailbox
<1>6. PICK r : r = Turns!BoxRead(q, n)
  OBVIOUS
<1>7. r \in Seq(Message) /\ Behind(r, q)
  BY <1>5, <1>6, BoxReadIs
<1>8. /\ BoxesType' /\ boxes'[b0].queue = r /\ \A b \in Boxes : boxes'[b].sent = boxes[b].sent
      /\ \A b \in Boxes : b # b0 => boxes'[b] = boxes[b]
  BY <1>2, <1>4, <1>5, <1>6, <1>7 DEF TurnTypes, BoxesType, Mailbox
<1>9. \A b \in Boxes : boxes[b].queue \in Seq(Message)
  BY <1>4 DEF TurnTypes, BoxesType, Mailbox
<1>10. \A b \in Boxes : Behind(boxes'[b].queue, boxes[b].queue)
  <2>1. \A b \in Boxes : b # b0 => Behind(boxes'[b].queue, boxes[b].queue)
    BY <1>8, <1>9, BehindSelf
  <2> QED BY <1>1, <1>7, <1>8, <2>1
<1>11. Alive(a) /\ micro = <<>> /\ ~OnWait(a) /\ ~Receiving(a) /\ ~Calling(a) /\ ~RelayOf(a) /\ ~Relayed(a)
  BY HelpingIs, RunningIs
<1>12. \A b : \A o : ~DueIn(micro, b, o)
  BY <1>11, NoReactions
<1>13. /\ MicroType' /\ OneTask(micro)' /\ ~HasTask(micro, "select")' /\ OneIn(micro, a)'
       /\ \A b : b # a => SameDue(b)
       /\ (DueIn(micro, a, TRUE)' <=> mine) /\ ~DueIn(micro, a, FALSE)'
  <2>1. PICK mm : mm = micro'
    OBVIOUS
  <2>2. CASE mine
    <3>1. /\ mm \in Seq(Reaction) /\ OneTask(mm) /\ ~HasTask(mm, "select")
          /\ \A b : OneIn(mm, b) /\ \A o : DueIn(mm, b, o) <=> b = a /\ o = TRUE
      BY <1>2, <2>1, <2>2, OneReaction
    <3> QED BY <1>12, <2>1, <2>2, <3>1 DEF SameDue, MicroType
  <2>3. CASE ~mine
    <3>1. /\ mm \in Seq(Reaction) /\ OneTask(mm) /\ ~HasTask(mm, "select")
          /\ \A b : OneIn(mm, b) /\ \A o : ~DueIn(mm, b, o)
      BY <1>2, <2>1, <2>3, NoReactions
    <3> QED BY <1>12, <2>1, <2>3, <3>1 DEF SameDue, MicroType
  <2> QED BY <2>2, <2>3
<1>14. /\ ActsType' /\ Stage(a)' = (IF mine THEN "resuming" ELSE "helping")
       /\ \A b \in Activations : activations'[b].receipt = activations[b].receipt
       /\ \A b \in Activations : b # a => activations'[b] = activations[b] /\ SameStage(b)
  <2>1. CASE mine
    <3>1. PICK x, v : v = Turns!Larger(Turns!Stamp, q[1].seq) /\ x = [activations[a] EXCEPT !.stage = "resuming", !.seq = v]
      BY Zenon
    <3>2. activations' = [activations EXCEPT ![a] = x]
      BY <1>2, <2>1, <3>1
    <3>3. v \in Nat
      <4>1. Turns!Stamp \in Nat
        BY <1>4, StampFacts
      <4>2. q[1] \in Message
        BY <1>5, TailFacts
      <4> QED BY <3>1, <4>1, <4>2 DEF Turns!Larger, Message
    <3>4. x \in Activity /\ x.stage = "resuming" /\ x.receipt = activations[a].receipt
      BY <1>4, <3>1, <3>3 DEF TurnTypes, ActsType, Activity, Stages
    <3> QED BY <1>4, <2>1, <3>2, <3>4, ActChanged DEF TurnTypes
  <2>2. CASE ~mine
    <3>1. Stage(a) = "helping"
      BY <1>5, <2>2, HelpingIs
    <3> QED BY <1>2, <1>4, <2>2, <3>1 DEF TurnTypes, ActsType, SameStage, Stage
  <2> QED BY <2>1, <2>2
<1>15. /\ JobsType' /\ QueueInv' /\ RelayInv' /\ (Alert => Alert')
       /\ \A b : b # a => SameTurns(b)
       /\ ~TurnIn(jobs, a)' /\ OneTurnIn(jobs, a)' /\ ~RunsIn(jobs, a)'
  BY <1>3, <1>13, ReaderQueue
<1>16. \A b \in Activations : SameWait(b) /\ SameCalls(b) /\ SameRoute(b)
  BY <1>2, <1>3, WaitSame, CallsSame, RouteSame
<1>17. TurnTypes'
  BY <1>2, <1>3, <1>4, <1>8, <1>13, <1>14, <1>15 DEF TurnTypes, InputType, WaitsType, TimersType, RoutedType, CallsType
<1>18. PlaceInv'
  <2> SUFFICES ASSUME NEW b \in Activations PROVE Place(b)'
    BY DEF PlaceInv
  <2>1. CASE b # a
    <3>1. outbound'.kind = outbound.kind
      BY <1>3
    <3> QED BY <1>4, <1>13, <1>14, <1>15, <1>16, <2>1, <3>1, PlaceKept DEF PlaceInv
  <2>2. CASE b = a
    <3>1. /\ ~OnWait(a)' /\ ~Receiving(a)' /\ ~Calling(a)' /\ ~RelayOf(a)' /\ ~Relayed(a)'
          /\ ~Reading(a)' /\ ~HandsBack(a)' /\ (mine <=> ~ByChild(a)') /\ ~Boxless(a)'
      BY <1>1, <1>2, <1>3, <1>5, <1>11, <1>16 DEF SameWait, SameCalls, SameRoute, Boxless
    <3> QED BY <1>5, <1>13, <1>14, <1>15, <2>2, <3>1 DEF Place, Calls, Alive
  <2> QED BY <2>1, <2>2
<1>19. \A b \in Boxes : boxes'[b].queue # <<>> => boxes[b].queue # <<>>
  BY <1>1, <1>5, <1>8
<1>20. WakeInv'
  <2>1. ASSUME NEW b \in Activations, Stirred(b)' PROVE Stirred(b)
    <3>1. (InputDue(b)' <=> InputDue(b)) /\ (TimerDue(b)' <=> TimerDue(b))
      BY <1>3 DEF InputDue, TimerDue
    <3>2. MailDue(b)' => MailDue(b)
      <4>1. waits[b].boxes \subseteq Boxes /\ waits' = waits
        BY <1>3, <1>4 DEF TurnTypes, WaitsType, Waiting
      <4> QED BY <1>19, <4>1 DEF MailDue
    <3> QED BY <1>16, <2>1, <3>1, <3>2 DEF Stirred, SameWait
  <2>2. \A b \in Activations : waits'[b].octets # 0 => waits[b].octets # 0 /\ OnWait(b)'
    BY <1>3, <1>4, <1>16 DEF WakeInv, SameWait
  <2>3. receiver' # Turns!NoReceiver => input' = <<>> /\ pump'
    BY <1>3, <1>4 DEF WakeInv
  <2>4. ASSUME NEW b \in Activations, Reading(b)' PROVE boxes'[routed'[b].box].queue = <<>>
    <3>1. Reading(b) /\ boxes[routed[b].box].queue = <<>> /\ routed' = routed
      BY <1>2, <1>4, <1>16, <2>4 DEF WakeInv, SameRoute
    <3>2. ~Boxless(b)
      BY <1>4, <3>1 DEF PlaceInv, Place
    <3>3. routed[b].box \in Boxes
      BY <1>4, <3>2 DEF TurnTypes, RoutedType, Route, Boxless
    <3> QED BY <1>19, <3>1, <3>3
  <2> QED BY <1>3, <1>4, <1>15, <2>1, <2>2, <2>3, <2>4, WakeLess
<1>21. MailInv'
  <2>1. BoxesType /\ (closed => closed') /\ routed' = routed /\ waits' = waits
    BY <1>2, <1>3, <1>4 DEF TurnTypes
  <2>2. \A b \in Activations : "nobody" \notin waits'[b].boxes
    BY <1>4, <2>1, NobodyWaited
  <2> QED BY <1>4, <1>8, <1>10, <2>1, <2>2, MailBehind
<1>22. ReceiptInv'
  <2>1. \A b \in Activations : activations'[b].receipt \in {0, activations[b].receipt}
    BY <1>14
  <2>2. BoxesType /\ receipts' = receipts /\ receipts \in Nat
    BY <1>3, <1>4 DEF TurnTypes, InputType
  <2> QED BY <1>4, <1>8, <1>10, <2>1, <2>2, ReceiptBehind
<1>23. TimersInv'
  BY <1>3, <1>4, TimersKept
<1>24. LedgerInv'
  <2>1. outbound'.kind = outbound.kind
    BY <1>3
  <2>2. \A b \in Activations : SameWait(b) /\ SameCalls(b) /\ (Reading(b)' <=> Reading(b))
    BY <1>16 DEF SameRoute
  <2> QED BY <1>2, <1>3, <1>4, <2>1, <2>2, LedgerKept
<1> QED BY <1>15, <1>17, <1>18, <1>20, <1>21, <1>22, <1>23, <1>24 DEF TurnsInv

\* A read of a routed mailbox that has none.
LEMMA BoxReadWaits ==
    ASSUME TurnsInv, NEW a \in Activations, NEW n, Turns!BoxReadBegins(a, n),
           boxes[routed[a].box].queue = <<>>, ~HandsBack(a),
           \/ Turns!Helping(a) /\ ByChild(a) /\ UNCHANGED jobs
           \/ /\ Turns!Running(a, "turn") /\ Turns!Live(a) /\ ~ByChild(a)
              /\ jobs' = Turns!Freed(jobs)
    PROVE  TurnsInv'
<1>1. PICK mine, s : mine = (routed[a].owner = "act") /\ s = Turns!Stamp
  OBVIOUS
<1>2. /\ routed' = [routed EXCEPT ![a].reading = s]
      /\ ledger' = ledger \cup {Turns!Effect("read", a, 0)}
      /\ activations' = IF mine THEN [activations EXCEPT ![a].stage = "suspended"] ELSE activations
      /\ UNCHANGED <<boxes, micro>>
  BY <1>1 DEF Turns!BoxReadBegins
<1>3. /\ UNCHANGED <<posted, waits, receiver, input, pump, heard, timers, outbound, relays, relay,
                     closed, receipts>>
      /\ routed[a].box # "nobody" /\ routed[a].reading = 0
  BY BoxReadTouches
<1>4. TurnTypes /\ PlaceInv /\ WakeInv /\ MailInv /\ TimersInv /\ LedgerInv /\ ReceiptInv
  BY DEF TurnsInv
<1>5. /\ routed[a] \in Route /\ (mine <=> ~ByChild(a)) /\ mine \in BOOLEAN /\ ~Reading(a)
      /\ s \in Nat /\ s # 0
  <2>1. routed[a] \in Route
    BY <1>4 DEF TurnTypes, RoutedType
  <2>2. (mine <=> ~ByChild(a)) /\ mine \in BOOLEAN /\ ~Reading(a)
    BY <1>1, <1>3, <2>1 DEF Route, ByChild, Reading
  <2>3. s \in Nat /\ s # 0
    <3>1. s \in Nat /\ s > 0
      BY <1>1, <1>4, StampFacts
    <3> QED BY <3>1
  <2> QED BY <2>1, <2>2, <2>3
<1>6. PICK r : r = [routed[a] EXCEPT !.reading = s]
  OBVIOUS
<1>7. r \in Route /\ r.box = routed[a].box /\ r.owner = routed[a].owner /\ r.back = routed[a].back /\ r.reading = s
  BY <1>5, <1>6 DEF Route
<1>8. routed' = [routed EXCEPT ![a] = r]
  BY <1>2, <1>6
<1>9. RoutedType' /\ routed'[a] = r /\ \A b \in Activations : b # a => routed'[b] = routed[b]
  BY <1>4, <1>7, <1>8 DEF TurnTypes, RoutedType
<1>10. /\ \A b \in Activations : b # a => SameRoute(b)
       /\ Reading(a)' /\ (ByChild(a)' <=> ByChild(a)) /\ ~HandsBack(a)' /\ ~Boxless(a)'
       /\ \A b \in Activations : routed'[b].box = routed[b].box
  BY <1>3, <1>5, <1>7, <1>9 DEF SameRoute, Reading, ByChild, HandsBack, Boxless
<1>11. Alive(a) /\ micro = <<>> /\ ~OnWait(a) /\ ~Receiving(a) /\ ~Calling(a) /\ ~RelayOf(a) /\ ~Relayed(a)
  BY HelpingIs, RunningIs
<1>12. MicroType' /\ OneTask(micro)' /\ ~HasTask(micro, "select")' /\ OneIn(micro, a)' /\ \A o : ~DueIn(micro, a, o)'
  BY <1>2, <1>11, NoReactions DEF MicroType
<1>13. /\ ActsType' /\ Stage(a)' = (IF mine THEN "suspended" ELSE "helping")
       /\ \A b \in Activations : activations'[b].receipt = activations[b].receipt
       /\ \A b \in Activations : b # a => SameStage(b)
  <2>1. CASE mine
    BY <1>2, <1>4, <2>1, StageChanged DEF Stages, TurnTypes
  <2>2. CASE ~mine
    <3>1. Stage(a) = "helping"
      BY <1>5, <2>2, HelpingIs
    <3> QED BY <1>2, <1>4, <2>2, <3>1 DEF TurnTypes, ActsType, SameStage, Stage
  <2> QED BY <2>1, <2>2
<1>14. /\ JobsType' /\ QueueInv' /\ RelayInv' /\ (Alert => Alert')
       /\ \A b : b # a => SameTurns(b)
       /\ ~TurnIn(jobs, a)' /\ OneTurnIn(jobs, a)' /\ ~RunsIn(jobs, a)'
  BY <1>3, <1>12, ReaderQueue
<1>15. \A b \in Activations : SameWait(b) /\ SameCalls(b) /\ SameDue(b)
  BY <1>2, <1>3, WaitSame, CallsSame, DueSame
<1>16. TurnTypes'
  BY <1>2, <1>3, <1>4, <1>9, <1>12, <1>13, <1>14 DEF TurnTypes, InputType, BoxesType, WaitsType, TimersType, CallsType
<1>17. PlaceInv'
  <2> SUFFICES ASSUME NEW b \in Activations PROVE Place(b)'
    BY DEF PlaceInv
  <2>1. CASE b # a
    <3>1. outbound'.kind = outbound.kind
      BY <1>3
    <3> QED BY <1>4, <1>10, <1>13, <1>14, <1>15, <2>1, <3>1, PlaceKept DEF PlaceInv
  <2>2. CASE b = a
    <3>1. ~OnWait(a)' /\ ~Receiving(a)' /\ ~Calling(a)' /\ ~RelayOf(a)' /\ ~Relayed(a)'
      BY <1>11, <1>15 DEF SameWait, SameCalls
    <3>2. ~DueIn(micro, a, TRUE)' /\ ~DueIn(micro, a, FALSE)'
      BY <1>12
    <3> QED BY <1>5, <1>10, <1>12, <1>13, <1>14, <2>2, <3>1, <3>2 DEF Place, Calls, Alive
  <2> QED BY <2>1, <2>2
<1>18. WakeInv'
  <2>1. \A b \in Activations : Stirred(b)' => Stirred(b)
    BY <1>2, <1>3, StirredSame
  <2>2. \A b \in Activations : waits'[b].octets # 0 => waits[b].octets # 0 /\ OnWait(b)'
    BY <1>3, <1>4, <1>15 DEF WakeInv, SameWait
  <2>3. receiver' # Turns!NoReceiver => input' = <<>> /\ pump'
    BY <1>3, <1>4 DEF WakeInv
  <2>4. \A b \in Activations : Reading(b)' => boxes'[routed'[b].box].queue = <<>>
    BY <1>2, <1>4, <1>10 DEF WakeInv, SameRoute
  <2> QED BY <1>3, <1>4, <1>14, <2>1, <2>2, <2>3, <2>4, WakeLess
<1>19. MailInv'
  BY <1>2, <1>3, <1>4, <1>10, NobodyWaited, MailKept
<1>20. ReceiptInv'
  BY <1>2, <1>3, <1>4, <1>13, ReceiptKept DEF TurnTypes, InputType
<1>21. TimersInv'
  BY <1>3, <1>4, TimersKept
<1>22. LedgerInv'
  <2>1. \A k, b, d : Held(k, b, d)' <=> Held(k, b, d) \/ (k = "read" /\ b = a /\ d = 0)
    BY <1>2, EffectAdded
  <2>2. ASSUME NEW k \in EffectKinds, NEW b \in Activations, NEW d \in Nat
        PROVE  Held(k, b, d)' <=> Owed(k, b, d)'
    <3>1. TimerAt(k, b, d)' <=> TimerAt(k, b, d)
      BY <1>3 DEF TimerAt
    <3>2. outbound' = outbound /\ (Held(k, b, d) <=> Owed(k, b, d))
      BY <1>3, <1>4 DEF LedgerInv
    <3>3. SameWait(b) /\ SameCalls(b)
      BY <1>15
    <3>4. CASE b # a
      <4>1. Reading(b)' <=> Reading(b)
        BY <1>10, <3>4 DEF SameRoute
      <4> QED BY <2>1, <3>1, <3>2, <3>3, <3>4, <4>1 DEF Owed, SameCalls, SameWait
    <3>5. CASE b = a
      BY <1>5, <1>10, <1>11, <2>1, <3>1, <3>2, <3>3, <3>5 DEF Owed, SameCalls, SameWait, TimedKinds
    <3> QED BY <3>4, <3>5
  <2>3. ledger' \subseteq [kind : EffectKinds, act : Activations, id : Nat]
    <3>1. Turns!Effect("read", a, 0) \in [kind : EffectKinds, act : Activations, id : Nat]
      BY EffectType DEF EffectKinds
    <3> QED BY <1>2, <1>4, <3>1 DEF LedgerInv
  <2> QED BY <2>2, <2>3 DEF LedgerInv
<1> QED BY <1>14, <1>16, <1>17, <1>18, <1>19, <1>20, <1>21, <1>22 DEF TurnsInv

LEMMA ReadBoxKeeps ==
    ASSUME TurnsInv, NEW a \in Activations, Turns!ReadBox(a)
    PROVE  TurnsInv'
<1>1. PICK n \in 1..MaxSize : Turns!BoxReadBegins(a, n)
  BY DEF Turns!ReadBox
<1>2. Turns!Running(a, "turn") /\ Turns!Live(a) /\ jobs' = Turns!Freed(jobs)
  BY DEF Turns!ReadBox, Turns!Requests
<1>3. ~ByChild(a) /\ ~HandsBack(a)
  BY <1>2, RunningIs
<1>4. n \in Nat
  BY TurnsConstants
<1> QED BY <1>1, <1>2, <1>3, <1>4, BoxReadTakes, BoxReadWaits

LEMMA HelperReadsKeeps ==
    ASSUME TurnsInv, NEW a \in Activations, Turns!HelperReads(a)
    PROVE  TurnsInv'
<1>1. PICK n \in 1..MaxSize : Turns!BoxReadBegins(a, n)
  BY DEF Turns!HelperReads
<1>2. Turns!Helping(a) /\ ByChild(a) /\ ~HandsBack(a) /\ UNCHANGED jobs
  BY DEF Turns!HelperReads, ByChild, HandsBack
<1>3. n \in Nat
  BY TurnsConstants
<1> QED BY <1>1, <1>2, <1>3, BoxReadTakes, BoxReadWaits

\* The activations whose routed channel is reading the mailbox b.
ReadersOf(b) == {c \in Turns!RoutedTo(b) : routed[c].reading # 0}

\* A message that is sent, of the mailbox b and of the activation a that sends it.
SentBy(a, b) == [n |-> boxes[b].sent + 1, seq |-> Turns!Stamp, left |-> MaxSize, receipt |-> activations[a].receipt]

LEMMA SentIs ==
    ASSUME TurnTypes, NEW a \in Activations, NEW b \in Boxes
    PROVE  /\ SentBy(a, b) \in Message /\ SentBy(a, b).n = boxes[b].sent + 1
           /\ SentBy(a, b).left = MaxSize /\ SentBy(a, b).receipt = activations[a].receipt
<1>1. Turns!Stamp \in Nat
  BY StampFacts
<1>2. boxes[b].sent + 1 \in Nat /\ activations[a].receipt \in Nat
  BY DEF TurnTypes, BoxesType, Mailbox, ActsType, Activity
<1> QED BY <1>1, <1>2, TurnsConstants DEF SentBy, Message

\* A mailbox has at most one reader, and then no messages.
LEMMA OneReader ==
    ASSUME TurnsInv, NEW b \in Boxes, NEW c \in ReadersOf(b)
    PROVE  /\ c \in Activations /\ routed[c].box = b /\ Reading(c) /\ ~Boxless(c)
           /\ ReadersOf(b) = {c} /\ boxes[b].queue = <<>>
           /\ \A d \in Activations : d # c => routed[d].box # b
<1>1. c \in Activations /\ routed[c].box = b /\ Reading(c)
  BY DEF ReadersOf, Turns!RoutedTo, Reading
<1>2. ~Boxless(c) /\ boxes[b].queue = <<>>
  BY <1>1 DEF TurnsInv, PlaceInv, Place, WakeInv
<1>3. \A d \in Activations : d # c => routed[d].box # b
  BY <1>1, <1>2 DEF TurnsInv, MailInv
<1> QED BY <1>1, <1>2, <1>3 DEF ReadersOf, Turns!RoutedTo

\* What a message that is sent comes to.
LEMMA SendIs ==
    ASSUME TurnsInv, NEW a \in Activations, NEW b \in Boxes, Turns!Send(a, b)
    PROVE  LET sent == Append(boxes[b].queue, SentBy(a, b)) IN
           /\ Turns!Running(a, "turn") /\ Turns!Live(a)
           /\ boxes' = [boxes EXCEPT ![b] =
                          [sent |-> @.sent + 1, queue |-> IF ReadersOf(b) = {} THEN sent
                                                          ELSE Turns!BoxRead(sent, MaxSize)]]
           /\ routed' = [c \in Activations |-> IF c \in ReadersOf(b) THEN [routed[c] EXCEPT !.reading = 0] ELSE routed[c]]
           /\ ledger' = ledger \ {Turns!Effect("read", c, 0) : c \in ReadersOf(b)}
           /\ micro' = Turns!SetToSeq({Turns!Settled(c, TRUE) : c \in {c \in ReadersOf(b) : routed[c].owner = "act"}})
           /\ activations' = [c \in Activations |->
                     CASE c = a -> [activations[c] EXCEPT !.stage = "queued", !.receipt = 0]
                       [] c \in ReadersOf(b) /\ routed[c].owner = "act" ->
                            [activations[c] EXCEPT !.stage = "resuming",
                                            !.seq = Turns!Larger(routed[c].reading, sent[1].seq)]
                       [] OTHER -> activations[c]]
           /\ jobs' = Turns!Queued(Turns!Freed(jobs), [act |-> a, part |-> "turn", seq |-> Turns!Stamp + 1])
           /\ UNCHANGED waits /\ Turns!ScheduleWait
           /\ UNCHANGED <<receiver, input, pump, heard, timers, outbound, relays, relay, closed, receipts>>
<1>1. Turns!Running(a, "turn") /\ Turns!Live(a)
  BY Zenon DEF Turns!Send, Turns!Requests
<1>2. /\ jobs' = Turns!Queued(Turns!Freed(jobs), [act |-> a, part |-> "turn", seq |-> Turns!Stamp + 1])
      /\ UNCHANGED waits /\ Turns!ScheduleWait
      /\ UNCHANGED <<receiver, input, pump, heard, timers, outbound, relays, relay, closed, receipts>>
  BY Zenon DEF Turns!Send
<1>3. /\ boxes' = [boxes EXCEPT ![b] =
                     [sent |-> @.sent + 1, queue |-> IF ReadersOf(b) = {} THEN Append(boxes[b].queue, SentBy(a, b))
                                                     ELSE Turns!BoxRead(Append(boxes[b].queue, SentBy(a, b)), MaxSize)]]
      /\ routed' = [c \in Activations |-> IF c \in ReadersOf(b) THEN [routed[c] EXCEPT !.reading = 0] ELSE routed[c]]
      /\ ledger' = ledger \ {Turns!Effect("read", c, 0) : c \in ReadersOf(b)}
  BY Zenon DEF Turns!Send, ReadersOf, SentBy
<1>4. micro' = Turns!SetToSeq({Turns!Settled(c, TRUE) : c \in {c \in ReadersOf(b) : routed[c].owner = "act"}})
  BY Zenon DEF Turns!Send, ReadersOf
<1>5. activations' = [c \in Activations |->
                     CASE c = a -> [activations[c] EXCEPT !.stage = "queued", !.receipt = 0]
                       [] c \in ReadersOf(b) /\ routed[c].owner = "act" ->
                            [activations[c] EXCEPT !.stage = "resuming",
                                            !.seq = Turns!Larger(routed[c].reading, Append(boxes[b].queue, SentBy(a, b))[1].seq)]
                       [] OTHER -> activations[c]]
  BY Zenon DEF Turns!Send, ReadersOf, SentBy
<1> QED BY Zenon, <1>1, <1>2, <1>3, <1>4, <1>5

\* The sender goes on, without the receipt.
LEMMA SenderIs ==
    ASSUME TurnsInv, NEW a \in Activations, NEW b \in Boxes, Turns!Send(a, b)
    PROVE  /\ activations'[a] \in Activity /\ Stage(a)' = "queued" /\ activations'[a].receipt = 0
           /\ activations' = [c \in Activations |-> activations'[c]]
           /\ \A c \in Activations \ {a} : c \notin ReadersOf(b) \/ ByChild(c) => activations'[c] = activations[c]
           /\ a \notin ReadersOf(b)
           /\ ~closed /\ micro = <<>> /\ ~OnWait(a) /\ ~Receiving(a) /\ ~ByChild(a) /\ ~Reading(a)
           /\ ~HandsBack(a) /\ ~Calling(a) /\ ~RelayOf(a) /\ ~Relayed(a)
           /\ JobsType' /\ jobs'.state = "posted" /\ jobs'.jobs # {} /\ jobs'.job = Turns!NoJob
           /\ RelayInv' /\ \A c : c # a => SameTurns(c)
           /\ TurnIn(jobs, a)' /\ OneTurnIn(jobs, a)' /\ ~RunsIn(jobs, a)'
           /\ posted' \in BOOLEAN
<1>1. Turns!Running(a, "turn") /\ Turns!Live(a)
  BY Zenon, SendIs
<1>2. /\ ~closed /\ micro = <<>> /\ ~OnWait(a) /\ ~Receiving(a) /\ ~ByChild(a) /\ ~Reading(a)
      /\ ~HandsBack(a) /\ ~Calling(a) /\ ~RelayOf(a) /\ ~Relayed(a) /\ ~Authorizes(jobs.job)
  BY <1>1, RunningIs
<1>3. a \notin ReadersOf(b)
  BY <1>2 DEF ReadersOf, Reading
<1>4. PICK x : x = [activations[a] EXCEPT !.stage = "queued", !.receipt = 0]
  OBVIOUS
<1>5. activations'[a] = x /\ activations' = [c \in Activations |-> activations'[c]]
  <2>1. activations' = [c \in Activations |->
                     CASE c = a -> [activations[c] EXCEPT !.stage = "queued", !.receipt = 0]
                       [] c \in ReadersOf(b) /\ routed[c].owner = "act" ->
                            [activations[c] EXCEPT !.stage = "resuming",
                                            !.seq = Turns!Larger(routed[c].reading, Append(boxes[b].queue, SentBy(a, b))[1].seq)]
                       [] OTHER -> activations[c]]
    BY Zenon, SendIs
  <2> QED BY Zenon, <1>3, <1>4, <2>1
<1>6. x \in Activity /\ x.stage = "queued" /\ x.receipt = 0
  BY <1>4 DEF TurnsInv, TurnTypes, ActsType, Activity, Stages
<1>7. \A c \in Activations \ {a} : c \notin ReadersOf(b) \/ ByChild(c) => activations'[c] = activations[c]
  <2>1. \A c : ByChild(c) => routed[c].owner # "act"
    BY DEF ByChild
  <2>2. activations' = [c \in Activations |->
                     CASE c = a -> [activations[c] EXCEPT !.stage = "queued", !.receipt = 0]
                       [] c \in ReadersOf(b) /\ routed[c].owner = "act" ->
                            [activations[c] EXCEPT !.stage = "resuming",
                                            !.seq = Turns!Larger(routed[c].reading, Append(boxes[b].queue, SentBy(a, b))[1].seq)]
                       [] OTHER -> activations[c]]
    BY SendIs
  <2>3. ASSUME NEW c \in Activations, c # a, ~(c \in ReadersOf(b) /\ routed[c].owner = "act")
        PROVE  activations'[c] = activations[c]
    BY Zenon, <2>2, <2>3
  <2> QED BY <2>1, <2>3
<1>8. PICK s : s = Turns!Stamp + 1
  OBVIOUS
<1>9. s \in Nat
  <2>1. Turns!Stamp \in Nat
    BY StampFacts DEF TurnsInv
  <2> QED BY <1>8, <2>1
<1>10. jobs' = Turns!Queued(Turns!Freed(jobs), [act |-> a, part |-> "turn", seq |-> s])
  BY Zenon, <1>8, SendIs
<1>11. /\ JobsType' /\ jobs'.state = "posted" /\ jobs'.jobs # {} /\ jobs'.job = Turns!NoJob
       /\ \A j : Authorizes(j) => (j \in jobs'.jobs <=> j \in jobs.jobs)
       /\ \A c : c # a => SameTurns(c)
       /\ TurnIn(jobs, a)' /\ OneTurnIn(jobs, a)' /\ ~RunsIn(jobs, a)'
  BY <1>1, <1>9, <1>10, ContinuedQueue
<1>12. RelayInv'
  <2>1. UNCHANGED <<relay, relays, outbound>> /\ RelayInv
    BY Zenon, SendIs DEF TurnsInv
  <2>2. ~Authorizes(jobs'.job)
    BY <1>11, NoJobIs
  <2> QED BY <1>2, <1>11, <2>1, <2>2, RelayKept
<1>13. posted' \in BOOLEAN
  BY Zenon, SendIs DEF TurnsInv, TurnTypes, InputType, Turns!ScheduleWait
<1> QED BY <1>2, <1>3, <1>5, <1>6, <1>7, <1>11, <1>12, <1>13 DEF Stage

\* A message that nobody reads yet.
LEMMA SendAlone ==
    ASSUME TurnsInv, NEW a \in Activations, NEW b0 \in Boxes, Turns!Send(a, b0), ReadersOf(b0) = {}
    PROVE  TurnsInv'
<1>1. PICK q, m, u : q = boxes[b0].queue /\ m = SentBy(a, b0) /\ u = boxes[b0].sent
  OBVIOUS
<1>2. TurnTypes /\ PlaceInv /\ WakeInv /\ MailInv /\ TimersInv /\ LedgerInv /\ ReceiptInv
  BY DEF TurnsInv
<1>3. /\ Turns!Running(a, "turn") /\ Turns!Live(a)
      /\ UNCHANGED waits /\ Turns!ScheduleWait
      /\ UNCHANGED <<receiver, input, pump, heard, timers, outbound, relays, relay, closed, receipts>>
  BY Zenon, SendIs
<1>4. /\ activations'[a] \in Activity /\ Stage(a)' = "queued" /\ activations'[a].receipt = 0
      /\ activations' = [c \in Activations |-> activations'[c]]
      /\ \A c \in Activations \ {a} : activations'[c] = activations[c]
      /\ ~closed /\ micro = <<>> /\ posted' \in BOOLEAN
  BY SenderIs
<1>5. micro' = <<>> /\ ledger' = ledger /\ routed' = routed
  <2>1. micro' = <<>>
    <3>1. {Turns!Settled(c, TRUE) : c \in {c \in ReadersOf(b0) : routed[c].owner = "act"}} = {}
      OBVIOUS
    <3>2. micro' = Turns!SetToSeq({Turns!Settled(c, TRUE) : c \in {c \in ReadersOf(b0) : routed[c].owner = "act"}})
      BY Zenon, SendIs
    <3>3. micro' = Turns!SetToSeq({})
      BY <3>1, <3>2
    <3>4. PICK S : S = {}
      OBVIOUS
    <3>5. Turns!SetToSeq(S) = <<>>
      BY <3>4, AtMostOne
    <3> QED BY <3>3, <3>4, <3>5
  <2>2. ledger' = ledger
    <3>1. ledger' = ledger \ {Turns!Effect("read", c, 0) : c \in ReadersOf(b0)}
      BY Zenon, SendIs
    <3> QED BY <3>1
  <2>3. routed' = routed
    <3>1. routed' = [c \in Activations |-> IF c \in ReadersOf(b0) THEN [routed[c] EXCEPT !.reading = 0] ELSE routed[c]]
      BY Zenon, SendIs
    <3> QED BY <1>2, <3>1 DEF TurnTypes, RoutedType
  <2> QED BY <2>1, <2>2, <2>3
<1>6. PICK r : r = Append(q, m)
  OBVIOUS
<1>7. PICK x : x = [sent |-> u + 1, queue |-> r]
  BY Zenon
<1>8. boxes' = [boxes EXCEPT ![b0] = x]
  BY Zenon, <1>1, <1>6, <1>7, SendIs
<1>9. m \in Message /\ m.n = u + 1 /\ m.receipt = activations[a].receipt
  BY <1>1, <1>2, SentIs
<1>10. q \in Seq(Message) /\ u \in Nat
  BY <1>1, <1>2 DEF TurnTypes, BoxesType, Mailbox
<1>11. /\ r \in Seq(Message) /\ Len(q) \in Nat
       /\ DOMAIN q = 1..Len(q) /\ DOMAIN r = 1..Len(q) + 1 /\ Len(r) = Len(q) + 1
       /\ \A i \in DOMAIN q : r[i] = q[i] /\ i \in DOMAIN r
       /\ r[Len(q) + 1] = m
       /\ \A i \in DOMAIN r : i \in DOMAIN q \/ i = Len(q) + 1
  BY <1>6, <1>9, <1>10, AppendFacts, AppendProperties
<1>12. x \in Mailbox /\ x.sent = u + 1 /\ x.queue = r
  BY <1>7, <1>10, <1>11 DEF Mailbox
<1>13. BoxesType' /\ boxes'[b0] = x /\ \A b \in Boxes : b # b0 => boxes'[b] = boxes[b]
  BY <1>2, <1>8, <1>12 DEF TurnTypes, BoxesType
<1>14. PICK s : s = Turns!Stamp + 1
  OBVIOUS
<1>15. s \in Nat /\ jobs' = Turns!Queued(Turns!Freed(jobs), [act |-> a, part |-> "turn", seq |-> s])
  <2>1. Turns!Stamp \in Nat
    BY <1>2, StampFacts
  <2>2. jobs' = Turns!Queued(Turns!Freed(jobs), [act |-> a, part |-> "turn", seq |-> s])
    BY Zenon, <1>14, SendIs
  <2> QED BY <1>14, <2>1, <2>2
<1>16. ActsType' /\ \A c \in Activations : c # a => SameStage(c)
  <2>1. \A c \in Activations : activations'[c] \in Activity
    BY <1>2, <1>4 DEF TurnTypes, ActsType
  <2>2. ActsType'
    BY <1>4, <2>1 DEF ActsType
  <2> QED BY <1>4, <2>2 DEF SameStage, Stage
<1>17. QueueInv' /\ RelayInv' /\ PlaceInv' /\ JobsType' /\ Alert'
  <2>1. UNCHANGED <<micro, waits, receiver, routed, outbound, relays, relay, closed>>
    BY <1>3, <1>4, <1>5
  <2> QED BY <1>3, <1>4, <1>15, <1>16, <2>1, ContinuedKeeps
<1>18. TurnTypes'
  <2>1. UNCHANGED <<receiver, input, pump, heard, waits, timers, routed, outbound, relays, relay, closed, receipts, micro>>
    BY <1>3, <1>4, <1>5
  <2> QED BY <1>2, <1>4, <1>13, <1>16, <1>17, <2>1 DEF TurnTypes, MicroType, InputType, WaitsType, TimersType,
        RoutedType, CallsType
<1>19. WakeInv'
  <2>1. \A c \in Activations : waits'[c].octets # 0 => OnWait(c)' /\ c = Reader
    BY <1>2, <1>3 DEF WakeInv, OnWait
  <2>2. receiver' # Turns!NoReceiver => input' = <<>> /\ pump'
    BY <1>2, <1>3 DEF WakeInv
  <2>3. ASSUME NEW c \in Activations, Reading(c)' PROVE boxes'[routed'[c].box].queue = <<>>
    <3>1. Reading(c) /\ boxes[routed[c].box].queue = <<>> /\ ~Boxless(c)
      BY <1>2, <1>5, <2>3 DEF WakeInv, PlaceInv, Place, Reading
    <3>2. routed[c].box \in Boxes
      BY <1>2, <3>1 DEF TurnTypes, RoutedType, Route, Boxless
    <3>3. routed[c].box # b0
      BY <3>1 DEF ReadersOf, Turns!RoutedTo, Reading
    <3> QED BY <1>5, <1>13, <3>1, <3>2, <3>3
  <2> QED BY <1>3, <2>1, <2>2, <2>3, WakeScheduled
<1>20. MailInv'
  <2>1. ASSUME NEW b \in Boxes PROVE InOrder(b)'
    <3>1. CASE b # b0
      BY <1>2, <1>3, <1>13, <3>1 DEF MailInv, InOrder
    <3>2. CASE b = b0
      <4>1. \A i \in DOMAIN q : q[i].n = u - Len(q) + i
        BY <1>1, <1>2, <1>4 DEF MailInv, InOrder
      <4>2. ASSUME NEW i \in DOMAIN r PROVE r[i].n = (u + 1) - Len(r) + i
        <5>1. CASE i \in DOMAIN q
          <6>1. r[i].n = u - Len(q) + i
            BY <1>11, <4>1, <5>1
          <6> QED BY <1>10, <1>11, <5>1, <6>1
        <5>2. CASE i = Len(q) + 1
          <6>1. r[i].n = u + 1
            BY <1>9, <1>11, <5>2
          <6> QED BY <1>10, <1>11, <5>2, <6>1
        <5> QED BY <1>11, <5>1, <5>2
      <4>3. boxes'[b].queue = r /\ boxes'[b].sent = u + 1
        BY <1>12, <1>13, <3>2
      <4>4. PICK w : w = u + 1
        OBVIOUS
      <4>5. \A i \in DOMAIN r : r[i].n = w - Len(r) + i
        BY <4>2, <4>4
      <4>6. boxes'[b].queue = r /\ boxes'[b].sent = w
        BY <4>3, <4>4
      <4> QED BY <4>5, <4>6 DEF InOrder
    <3> QED BY <3>1, <3>2
  <2>2. \A c, d \in Activations : routed'[c].box = routed'[d].box /\ ~Boxless(c)' => c = d
    BY <1>2, <1>5 DEF MailInv, Boxless
  <2>3. \A c, d \in Activations : c # d => routed'[c].box \notin waits'[d].boxes
    BY <1>2, <1>3, <1>5 DEF MailInv
  <2> QED BY <2>1, <2>2, <2>3 DEF MailInv
<1>21. ReceiptInv'
  <2>1. \A c \in Activations : activations'[c].receipt = IF c = a THEN 0 ELSE activations[c].receipt
    BY <1>4
  <2>2. PICK k : k = Len(q) + 1
    OBVIOUS
  <2>3. \A b \in Boxes : \A i \in DOMAIN boxes'[b].queue :
          \/ i \in DOMAIN boxes[b].queue /\ boxes'[b].queue[i] = boxes[b].queue[i]
          \/ b = b0 /\ i = k /\ boxes'[b].queue[i].receipt = activations[a].receipt
    BY <1>1, <1>9, <1>11, <1>12, <1>13, <2>2
  <2>4. receipts' = receipts /\ receipts \in Nat
    BY <1>2, <1>3 DEF TurnTypes, InputType
  <2>5. \A c \in Activations : activations'[c].receipt <= receipts'
    BY <1>2, <2>1, <2>4 DEF ReceiptInv
  <2>6. \A b \in Boxes : \A i \in DOMAIN boxes'[b].queue : boxes'[b].queue[i].receipt <= receipts'
    BY <1>2, <2>3, <2>4 DEF ReceiptInv
  <2>7. \A c, d \in Activations :
          activations'[c].receipt = activations'[d].receipt /\ activations'[c].receipt # 0 => c = d
    BY <1>2, <2>1 DEF ReceiptInv
  <2>8. ASSUME NEW b \in Boxes, NEW d \in Boxes, NEW i \in DOMAIN boxes'[b].queue, NEW j \in DOMAIN boxes'[d].queue,
               boxes'[b].queue[i].receipt = boxes'[d].queue[j].receipt, boxes'[b].queue[i].receipt # 0
        PROVE  b = d /\ i = j
    BY <1>2, <2>3, <2>8 DEF ReceiptInv
  <2>9. ASSUME NEW c \in Activations, NEW b \in Boxes, NEW i \in DOMAIN boxes'[b].queue,
               activations'[c].receipt = boxes'[b].queue[i].receipt
        PROVE  activations'[c].receipt = 0
    BY <1>2, <2>1, <2>3, <2>9 DEF ReceiptInv
  <2> QED BY <2>5, <2>6, <2>7, <2>8, <2>9 DEF ReceiptInv
<1>22. TimersInv'
  BY <1>2, <1>3, TimersKept
<1>23. LedgerInv'
  <2>1. outbound'.kind = outbound.kind /\ UNCHANGED <<ledger, timers>>
    BY <1>3, <1>5
  <2>2. \A c \in Activations : SameWait(c) /\ SameCalls(c) /\ (Reading(c)' <=> Reading(c))
    BY <1>3, <1>5, WaitSame, CallsSame DEF Reading
  <2> QED BY <1>2, <2>1, <2>2, LedgerKept
<1> QED BY <1>17, <1>18, <1>19, <1>20, <1>21, <1>22, <1>23 DEF TurnsInv

\* A message that a routed channel was waiting for: it is read as it is sent.
LEMMA SendRead ==
    ASSUME TurnsInv, NEW a \in Activations, NEW b0 \in Boxes, Turns!Send(a, b0), NEW c0 \in ReadersOf(b0)
    PROVE  TurnsInv'
<1>1. PICK q, m, u, mine : /\ q = boxes[b0].queue /\ m = SentBy(a, b0) /\ u = boxes[b0].sent
                           /\ mine = (routed[c0].owner = "act")
  OBVIOUS
<1>2. TurnTypes /\ PlaceInv /\ WakeInv /\ MailInv /\ TimersInv /\ LedgerInv /\ ReceiptInv
  BY DEF TurnsInv
<1>3. /\ Turns!Running(a, "turn") /\ Turns!Live(a)
      /\ UNCHANGED waits /\ Turns!ScheduleWait
      /\ UNCHANGED <<receiver, input, pump, heard, timers, outbound, relays, relay, closed, receipts>>
  BY Zenon, SendIs
<1>4. /\ activations'[a] \in Activity /\ Stage(a)' = "queued" /\ activations'[a].receipt = 0
      /\ activations' = [c \in Activations |-> activations'[c]]
      /\ \A c \in Activations \ {a} : c \notin ReadersOf(b0) \/ ByChild(c) => activations'[c] = activations[c]
      /\ a \notin ReadersOf(b0) /\ ~closed /\ micro = <<>> /\ posted' \in BOOLEAN
  BY SenderIs
<1>5. /\ c0 \in Activations /\ routed[c0].box = b0 /\ Reading(c0) /\ ~Boxless(c0)
      /\ ReadersOf(b0) = {c0} /\ q = <<>> /\ c0 # a
      /\ \A d \in Activations : d # c0 => routed[d].box # b0
  BY <1>1, <1>4, OneReader
<1>6. /\ routed[c0] \in Route /\ (mine <=> ~ByChild(c0)) /\ mine \in BOOLEAN
      /\ Place(c0) /\ activations[c0] \in Activity
  <2>1. routed[c0] \in Route
    BY <1>2, <1>5 DEF TurnTypes, RoutedType
  <2>2. (mine <=> ~ByChild(c0)) /\ mine \in BOOLEAN
    BY <1>1, <2>1 DEF Route, ByChild
  <2> QED BY <1>2, <1>5, <2>1, <2>2 DEF TurnTypes, ActsType, PlaceInv
<1>7. m \in Message /\ m.left = MaxSize /\ u \in Nat
  BY <1>1, <1>2, SentIs DEF TurnTypes, BoxesType, Mailbox
<1>8. Turns!BoxRead(Append(q, m), MaxSize) = <<>>
  <2>1. Append(q, m) = <<m>>
    BY <1>5
  <2>2. <<m>>[1] = m /\ Tail(<<m>>) = <<>>
    OBVIOUS
  <2>3. m.left <= MaxSize
    BY <1>7, TurnsConstants
  <2> QED BY <2>1, <2>2, <2>3 DEF Turns!BoxRead
<1>9. PICK x : x = [sent |-> u + 1, queue |-> <<>>]
  OBVIOUS
<1>10. boxes' = [boxes EXCEPT ![b0] = x]
  <2>1. boxes' = [boxes EXCEPT ![b0] =
                          [sent |-> @.sent + 1, queue |-> IF ReadersOf(b0) = {} THEN Append(q, m)
                                                          ELSE Turns!BoxRead(Append(q, m), MaxSize)]]
    BY Zenon, <1>1, SendIs
  <2>2. ReadersOf(b0) # {}
    OBVIOUS
  <2> QED BY <1>1, <1>8, <1>9, <2>1, <2>2
<1>11. x \in Mailbox /\ x.queue = <<>>
  <2>1. <<>> \in Seq(Message) /\ u + 1 \in Nat
    BY <1>7
  <2> QED BY <1>9, <2>1 DEF Mailbox
<1>12. BoxesType' /\ boxes'[b0] = x /\ \A b \in Boxes : b # b0 => boxes'[b] = boxes[b]
  BY <1>2, <1>10, <1>11 DEF TurnTypes, BoxesType
<1>13. \A b \in Boxes : boxes'[b].queue = boxes[b].queue
  BY <1>1, <1>5, <1>11, <1>12
<1>14. PICK r : r = [routed[c0] EXCEPT !.reading = 0]
  OBVIOUS
<1>15. r \in Route /\ r.box = b0 /\ r.owner = routed[c0].owner /\ r.back = routed[c0].back /\ r.reading = 0
  BY <1>5, <1>6, <1>14 DEF Route
<1>16. RoutedType' /\ routed'[c0] = r /\ \A c \in Activations : c # c0 => routed'[c] = routed[c]
  <2>1. routed' = [c \in Activations |-> IF c \in ReadersOf(b0) THEN [routed[c] EXCEPT !.reading = 0] ELSE routed[c]]
    BY Zenon, SendIs
  <2>2. routed'[c0] = r /\ \A c \in Activations : c # c0 => routed'[c] = routed[c]
    BY <1>5, <1>14, <2>1
  <2>3. \A c \in Activations : routed'[c] \in Route
    BY <1>2, <1>15, <2>2 DEF TurnTypes, RoutedType
  <2> QED BY <2>1, <2>2, <2>3 DEF RoutedType
<1>17. /\ \A c \in Activations : c # c0 => SameRoute(c)
       /\ ~Reading(c0)' /\ (ByChild(c0)' <=> ByChild(c0)) /\ ~HandsBack(c0)' /\ ~Boxless(c0)'
       /\ \A c \in Activations : routed'[c].box = routed[c].box
  <2>1. ~HandsBack(c0)
    BY <1>5, <1>6 DEF Place
  <2> QED BY <1>5, <1>15, <1>16, <2>1 DEF SameRoute, Reading, ByChild, HandsBack, Boxless
<1>18. \A k, c, d : Held(k, c, d)' <=> Held(k, c, d) /\ ~(k = "read" /\ c = c0 /\ d = 0)
  <2>1. {Turns!Effect("read", c, 0) : c \in ReadersOf(b0)} = {Turns!Effect("read", c0, 0)}
    BY <1>5
  <2>2. ledger' = ledger \ {Turns!Effect("read", c0, 0)}
    BY Zenon, <2>1, SendIs
  <2> QED BY <2>2, EffectGone
<1>19. ledger' \subseteq ledger
  BY Zenon, SendIs
<1>20. \A b : \A o : ~DueIn(micro, b, o)
  BY <1>4, NoReactions
<1>21. /\ MicroType' /\ OneTask(micro)' /\ ~HasTask(micro, "select")' /\ \A c : OneIn(micro, c)'
       /\ \A c : c # c0 => \A o : ~DueIn(micro, c, o)'
       /\ (DueIn(micro, c0, TRUE)' <=> mine) /\ ~DueIn(micro, c0, FALSE)'
  <2>1. PICK mm : mm = micro'
    OBVIOUS
  <2>2. PICK S : S = {Turns!Settled(c, TRUE) : c \in {c \in ReadersOf(b0) : routed[c].owner = "act"}}
    OBVIOUS
  <2>3. mm = Turns!SetToSeq(S)
    BY Zenon, <2>1, <2>2, SendIs
  <2>4. S = IF mine THEN {Turns!Settled(c0, TRUE)} ELSE {}
    BY <1>1, <1>5, <2>2
  <2>5. CASE mine
    <3>1. mm = <<Turns!Settled(c0, TRUE)>>
      BY <2>3, <2>4, <2>5, AtMostOne
    <3>2. /\ mm \in Seq(Reaction) /\ OneTask(mm) /\ ~HasTask(mm, "select")
          /\ \A b : OneIn(mm, b) /\ \A o : DueIn(mm, b, o) <=> b = c0 /\ o = TRUE
      BY <1>5, <3>1, OneReaction
    <3> QED BY <2>1, <2>5, <3>2 DEF MicroType
  <2>6. CASE ~mine
    <3>1. mm = <<>>
      BY <2>3, <2>4, <2>6, AtMostOne
    <3>2. /\ mm \in Seq(Reaction) /\ OneTask(mm) /\ ~HasTask(mm, "select")
          /\ \A b : OneIn(mm, b) /\ \A o : ~DueIn(mm, b, o)
      BY <3>1, NoReactions
    <3> QED BY <2>1, <2>6, <3>2 DEF MicroType
  <2> QED BY <2>5, <2>6
<1>22. \A c : c # c0 => SameDue(c)
  BY <1>20, <1>21 DEF SameDue
<1>23. /\ activations'[c0] \in Activity /\ activations'[c0].receipt = activations[c0].receipt
       /\ mine => Stage(c0)' = "resuming"
       /\ ~mine => Stage(c0)' = Stage(c0)
  <2>1. CASE mine
    <3>1. PICK sent, v, y : /\ sent = Append(boxes[b0].queue, SentBy(a, b0))
                            /\ v = Turns!Larger(routed[c0].reading, sent[1].seq)
                            /\ y = [activations[c0] EXCEPT !.stage = "resuming", !.seq = v]
      BY Zenon
    <3>2. activations' = [c \in Activations |->
                     CASE c = a -> [activations[c] EXCEPT !.stage = "queued", !.receipt = 0]
                       [] c \in ReadersOf(b0) /\ routed[c].owner = "act" ->
                            [activations[c] EXCEPT !.stage = "resuming",
                                            !.seq = Turns!Larger(routed[c].reading, Append(boxes[b0].queue, SentBy(a, b0))[1].seq)]
                       [] OTHER -> activations[c]]
      BY Zenon, SendIs
    <3>3. activations'[c0] = y
      BY Zenon, <1>1, <1>5, <2>1, <3>1, <3>2
    <3>4. v \in Nat
      <4>1. sent = <<m>>
        <5>1. sent = Append(q, m)
          BY <1>1, <3>1
        <5>2. Append(q, m) = <<m>>
          BY <1>5
        <5> QED BY <5>1, <5>2
      <4>2. sent[1].seq \in Nat
        BY <1>7, <4>1 DEF Message
      <4>3. routed[c0].reading \in Nat
        BY <1>6 DEF Route
      <4> QED BY <3>1, <4>2, <4>3 DEF Turns!Larger
    <3>5. y \in Activity /\ y.stage = "resuming" /\ y.receipt = activations[c0].receipt
      BY <1>6, <3>1, <3>4 DEF Activity, Stages
    <3> QED BY <2>1, <3>3, <3>5 DEF Stage
  <2>2. CASE ~mine
    BY <1>4, <1>5, <1>6, <2>2 DEF Stage
  <2> QED BY <2>1, <2>2
<1>24. /\ ActsType' /\ \A c \in Activations : c # a /\ c # c0 => SameStage(c)
       /\ \A c \in Activations : activations'[c].receipt \in {0, activations[c].receipt}
  <2>1. \A c \in Activations : c # a /\ c # c0 => activations'[c] = activations[c]
    BY <1>4, <1>5
  <2>2. \A c \in Activations : activations'[c] \in Activity
    BY <1>2, <1>4, <1>23, <2>1 DEF TurnTypes, ActsType
  <2>3. ActsType'
    BY <1>4, <2>2 DEF ActsType
  <2> QED BY <1>4, <1>23, <2>1, <2>3 DEF SameStage, Stage
<1>25. /\ JobsType' /\ jobs'.state = "posted" /\ jobs'.jobs # {} /\ jobs'.job = Turns!NoJob
       /\ RelayInv' /\ \A c : c # a => SameTurns(c)
       /\ TurnIn(jobs, a)' /\ OneTurnIn(jobs, a)' /\ ~RunsIn(jobs, a)'
       /\ ~OnWait(a) /\ ~Receiving(a) /\ ~ByChild(a) /\ ~Reading(a)
       /\ ~HandsBack(a) /\ ~Calling(a) /\ ~RelayOf(a) /\ ~Relayed(a)
  BY SenderIs
<1>26. QueueInv'
  BY <1>21, <1>25 DEF QueueInv
<1>27. \A c \in Activations : SameWait(c) /\ SameCalls(c)
  BY <1>3, WaitSame, CallsSame
<1>28. TurnTypes'
  BY <1>2, <1>3, <1>4, <1>12, <1>16, <1>21, <1>24, <1>25 DEF TurnTypes, InputType, WaitsType, TimersType, CallsType
<1>29. PlaceInv'
  <2> SUFFICES ASSUME NEW c \in Activations PROVE Place(c)'
    BY DEF PlaceInv
  <2>1. CASE c # a /\ c # c0
    <3>1. outbound'.kind = outbound.kind
      BY <1>3
    <3> QED BY <1>2, <1>17, <1>22, <1>24, <1>25, <1>27, <2>1, <3>1, PlaceKept DEF PlaceInv
  <2>2. CASE c = a
    <3>1. ~OnWait(a)' /\ ~Receiving(a)' /\ ~Calling(a)' /\ ~RelayOf(a)' /\ ~Relayed(a)'
      BY <1>25, <1>27 DEF SameWait, SameCalls
    <3>2. ~DueIn(micro, a, TRUE)' /\ ~DueIn(micro, a, FALSE)' /\ OneIn(micro, a)'
      BY <1>5, <1>21
    <3>3. ~Reading(a)' /\ ~ByChild(a)' /\ ~HandsBack(a)'
      BY <1>5, <1>17, <1>25 DEF SameRoute
    <3> QED BY <1>4, <1>25, <2>2, <3>1, <3>2, <3>3 DEF Place, Calls, Alive
  <2>3. CASE c = c0
    <3>1. /\ Alive(c0) /\ ~OnWait(c0) /\ ~Receiving(c0) /\ ~Calls(c0) /\ ~Relayed(c0)
          /\ (mine => Stage(c0) = "suspended")
          /\ (~mine => Stage(c0) \in {"helping", "resuming"})
          /\ ~TurnIn(jobs, c0) /\ OneTurnIn(jobs, c0) /\ ~RunsIn(jobs, c0)
      BY <1>5, <1>6 DEF Place, Alive
    <3>2. ~Calling(c0) /\ ~RelayOf(c0)
      BY <3>1 DEF Calls
    <3>3. /\ ~OnWait(c0)' /\ ~Receiving(c0)' /\ ~Calling(c0)' /\ ~RelayOf(c0)' /\ ~Relayed(c0)'
          /\ ~TurnIn(jobs, c0)' /\ OneTurnIn(jobs, c0)' /\ ~RunsIn(jobs, c0)'
      BY <1>5, <1>25, <1>27, <3>1, <3>2 DEF SameWait, SameCalls, SameTurns
    <3>4. /\ mine => Stage(c0)' = "resuming"
          /\ ~mine => Stage(c0)' \in {"helping", "resuming"}
      BY <1>23, <3>1
    <3>5. OneIn(micro, c0)'
      BY <1>21
    <3> QED BY <1>6, <1>17, <1>21, <2>3, <3>3, <3>4, <3>5 DEF Place, Calls, Alive
  <2> QED BY <2>1, <2>2, <2>3
<1>30. WakeInv'
  <2>1. \A c \in Activations : waits'[c].octets # 0 => OnWait(c)' /\ c = Reader
    BY <1>2, <1>3 DEF WakeInv, OnWait
  <2>2. receiver' # Turns!NoReceiver => input' = <<>> /\ pump'
    BY <1>2, <1>3 DEF WakeInv
  <2>3. ASSUME NEW c \in Activations, Reading(c)' PROVE boxes'[routed'[c].box].queue = <<>>
    <3>1. c # c0 /\ Reading(c)
      BY <1>17, <2>3 DEF SameRoute
    <3>2. boxes[routed[c].box].queue = <<>> /\ ~Boxless(c)
      BY <1>2, <3>1 DEF WakeInv, PlaceInv, Place
    <3>3. routed[c].box \in Boxes
      BY <1>2, <3>2 DEF TurnTypes, RoutedType, Route, Boxless
    <3> QED BY <1>13, <1>17, <3>2, <3>3
  <2> QED BY <1>3, <2>1, <2>2, <2>3, WakeScheduled
<1>31. MailInv'
  <2>1. \A b \in Boxes : InOrder(b)'
    <3>1. ASSUME NEW b \in Boxes PROVE InOrder(b)'
      <4>1. CASE b # b0
        BY <1>2, <1>3, <1>12, <4>1 DEF MailInv, InOrder
      <4>2. CASE b = b0
        <5>1. boxes'[b].queue = <<>>
          BY <1>11, <1>12, <4>2
        <5>2. \A i \in DOMAIN boxes'[b].queue : FALSE
          BY <5>1
        <5> QED BY <5>2 DEF InOrder
      <4> QED BY <4>1, <4>2
    <3> QED BY <3>1
  <2>2. \A c, d \in Activations : routed'[c].box = routed'[d].box /\ ~Boxless(c)' => c = d
    BY <1>2, <1>17 DEF MailInv, Boxless
  <2>3. \A c, d \in Activations : c # d => routed'[c].box \notin waits'[d].boxes
    BY <1>2, <1>3, <1>17 DEF MailInv
  <2> QED BY <2>1, <2>2, <2>3 DEF MailInv
<1>32. ReceiptInv'
  <2>1. BoxesType /\ receipts' = receipts /\ receipts \in Nat
    BY <1>2, <1>3 DEF TurnTypes, InputType
  <2>2. \A b \in Boxes : Behind(boxes'[b].queue, boxes[b].queue)
    <3>1. \A b \in Boxes : boxes[b].queue \in Seq(Message)
      BY <2>1 DEF BoxesType, Mailbox
    <3> QED BY <1>13, <3>1, BehindSelf
  <2> QED BY <1>2, <1>12, <1>24, <2>1, <2>2, ReceiptBehind
<1>33. TimersInv'
  BY <1>2, <1>3, TimersKept
<1>34. LedgerInv'
  <2>1. ASSUME NEW k \in EffectKinds, NEW c \in Activations, NEW d \in Nat
        PROVE  Held(k, c, d)' <=> Owed(k, c, d)'
    <3>1. TimerAt(k, c, d)' <=> TimerAt(k, c, d)
      BY <1>3 DEF TimerAt
    <3>2. outbound' = outbound /\ (Held(k, c, d) <=> Owed(k, c, d))
      BY <1>2, <1>3 DEF LedgerInv
    <3>3. SameWait(c) /\ SameCalls(c)
      BY <1>27
    <3>4. CASE c # c0
      <4>1. Reading(c)' <=> Reading(c)
        BY <1>17, <3>4 DEF SameRoute
      <4> QED BY <1>18, <3>1, <3>2, <3>3, <3>4, <4>1 DEF Owed, SameCalls, SameWait
    <3>5. CASE c = c0
      <4>1. ~Receiving(c0)
        BY <1>5, <1>6 DEF Place
      <4> QED BY <1>17, <1>18, <3>1, <3>2, <3>3, <3>5, <4>1 DEF Owed, SameCalls, SameWait, TimedKinds
    <3> QED BY <3>4, <3>5
  <2>2. ledger' \subseteq [kind : EffectKinds, act : Activations, id : Nat]
    BY <1>2, <1>19 DEF LedgerInv
  <2> QED BY <2>1, <2>2 DEF LedgerInv
<1> QED BY <1>25, <1>26, <1>28, <1>29, <1>30, <1>31, <1>32, <1>33, <1>34 DEF TurnsInv

LEMMA SendKeeps ==
    ASSUME TurnsInv, NEW a \in Activations, NEW b \in Boxes, Turns!Send(a, b)
    PROVE  TurnsInv'
<1>1. CASE ReadersOf(b) = {}
  BY <1>1, SendAlone
<1>2. CASE ReadersOf(b) # {}
  <2>1. PICK c \in ReadersOf(b) : TRUE
    BY <1>2
  <2> QED BY <2>1, SendRead
<1> QED BY <1>1, <1>2

-----------------------------------------------------------------------------
(* Matches do.                                                             *)

\* A wait that is matched: its activation, and what it is given.
LEMMA MatchIs ==
    ASSUME TurnsInv, Turns!Match, NEW e, e = Turns!Winner, NEW a, a = e.act
    PROVE  /\ a \in Activations /\ OnWait(a) /\ EventOf(e, a)
           /\ micro # <<>> /\ Head(micro).what = "consider"
           /\ waits' = [waits EXCEPT ![a] = Turns!NoWait]
           /\ input' \in Seq(Nat) /\ (input = <<>> => input' = <<>>)
           /\ timers' = IF e.kind = "timer" THEN {t \in timers : t.id # e.id} ELSE timers
           /\ boxes' = IF e.kind \in Boxes THEN [boxes EXCEPT ![e.kind].queue = Tail(@)] ELSE boxes
           /\ ledger' = ledger \ ({Turns!Effect("wait", a, 0)}
                              \cup (IF e.kind = "timer" THEN {Turns!Effect("timer", a, e.id)} ELSE {}))
           /\ ActsType' /\ Stage(a)' = "resuming"
           /\ activations'[a].receipt = (IF e.kind \in Boxes THEN boxes[e.kind].queue[1].receipt
                                         ELSE activations[a].receipt)
           /\ \A b \in Activations : b # a => activations'[b] = activations[b] /\ SameStage(b)
           /\ micro' = Append(micro, Turns!Settled(a, TRUE))
           /\ UNCHANGED <<jobs, posted, receiver, pump, heard, routed, outbound, relays, relay,
                          closed, receipts>>
<1>1. TurnTypes
  BY DEF TurnsInv
<1>2. Turns!Ready # {} /\ micro # <<>> /\ Head(micro).what = "consider"
  BY DEF Turns!Match, Turns!Considering
<1>3. a \in Activations /\ OnWait(a) /\ EventOf(e, a)
  BY <1>1, <1>2, WinnerIs
<1>4. PICK n : n = IF e.kind # "receive" THEN 0
                   ELSE IF waits[a].fill THEN waits[a].octets ELSE Turns!Smaller(waits[a].octets, Turns!HeadRange)
  OBVIOUS
<1>5. PICK v, u, rc : /\ v = Turns!Larger(waits[a].registered, e.seq) /\ u = activations[a].unclaimed + n
                      /\ rc = IF e.kind \in Boxes THEN boxes[e.kind].queue[1].receipt ELSE activations[a].receipt
  OBVIOUS
<1>6. /\ waits' = [waits EXCEPT ![a] = Turns!NoWait]
      /\ input' = SubSeq(input, n + 1, Len(input))
      /\ timers' = IF e.kind = "timer" THEN {t \in timers : t.id # e.id} ELSE timers
      /\ boxes' = IF e.kind \in Boxes THEN [boxes EXCEPT ![e.kind].queue = Tail(@)] ELSE boxes
      /\ ledger' = ledger \ ({Turns!Effect("wait", a, 0)}
                              \cup (IF e.kind = "timer" THEN {Turns!Effect("timer", a, e.id)} ELSE {}))
      /\ micro' = Append(micro, Turns!Settled(a, TRUE))
  BY <1>4 DEF Turns!Match
<1>7. UNCHANGED <<jobs, posted, receiver, pump, heard, routed, outbound, relays, relay, closed, receipts>>
  BY DEF Turns!Match
<1>8. PICK y : y = [activations[a] EXCEPT !.stage = "resuming", !.seq = Turns!Larger(waits[a].registered, e.seq),
                                     !.unclaimed = @ + n,
                                     !.receipt = IF e.kind \in Boxes THEN boxes[e.kind].queue[1].receipt ELSE @]
  OBVIOUS
<1>9. activations' = [activations EXCEPT ![a] = y]
  BY <1>4, <1>8 DEF Turns!Match
<1>10. PICK w : w = waits[a]
  OBVIOUS
<1>11. w \in Waiting /\ activations[a] \in Activity
  BY <1>1, <1>3, <1>10 DEF TurnTypes, WaitsType, ActsType
<1>12. n \in Nat
  <2>1. w.octets \in Nat
    BY <1>11 DEF Waiting
  <2>2. Turns!HeadRange \in Nat
    BY <1>1, HeadRangeIs DEF TurnTypes, InputType, Turns!HeadRange
  <2> QED BY <1>4, <1>10, <2>1, <2>2 DEF Turns!Smaller
<1>13. v \in Nat /\ u \in Nat /\ rc \in Nat
  <2>1. v \in Nat
    BY <1>3, <1>5, <1>10, <1>11 DEF Waiting, EventOf, Turns!Larger
  <2>2. u \in Nat
    BY <1>5, <1>11, <1>12 DEF Activity
  <2>3. rc \in Nat
    <3>1. CASE e.kind \in Boxes
      <4>1. boxes[e.kind].queue \in Seq(Message)
        BY <1>1, <3>1 DEF TurnTypes, BoxesType, Mailbox
      <4>2. boxes[e.kind].queue # <<>>
        BY <1>3, <3>1, TurnsConstants DEF EventOf
      <4>3. boxes[e.kind].queue[1] \in Message
        BY <4>1, <4>2, TailFacts
      <4> QED BY <1>5, <3>1, <4>3 DEF Message
    <3>2. CASE e.kind \notin Boxes
      BY <1>5, <1>11, <3>2 DEF Activity
    <3> QED BY <3>1, <3>2
  <2> QED BY <2>1, <2>2, <2>3
<1>14. PICK x : x = [activations[a] EXCEPT !.stage = "resuming", !.seq = v, !.unclaimed = u, !.receipt = rc]
  OBVIOUS
<1>15. y = x
  BY <1>5, <1>8, <1>11, <1>14 DEF Activity
<1>16. x \in Activity /\ x.stage = "resuming" /\ x.receipt = rc
  BY <1>11, <1>13, <1>14 DEF Activity, Stages
<1>17. /\ ActsType' /\ activations'[a] = x /\ Stage(a)' = x.stage
       /\ \A b \in Activations : b # a => activations'[b] = activations[b] /\ SameStage(b)
  BY <1>1, <1>3, <1>9, <1>15, <1>16, ActChanged DEF TurnTypes
<1>18. input' \in Seq(Nat) /\ (input = <<>> => input' = <<>>)
  <2>1. input \in Seq(Nat)
    BY <1>1 DEF TurnTypes, InputType
  <2> QED BY <1>6, <1>12, <2>1, RestFacts
<1> QED BY <1>2, <1>3, <1>5, <1>6, <1>7, <1>16, <1>17, <1>18

\* The message that is matched is taken, with its receipt.
LEMMA MatchMail ==
    ASSUME TurnsInv, Turns!Match, NEW e, e = Turns!Winner, NEW a, a = e.act
    PROVE  /\ BoxesType' /\ MailInv' /\ ReceiptInv'
           /\ \A b \in Boxes : boxes[b].queue = <<>> => boxes'[b].queue = <<>>
<1>1. TurnTypes /\ MailInv /\ ReceiptInv
  BY DEF TurnsInv
<1>2. /\ a \in Activations /\ EventOf(e, a)
      /\ waits' = [waits EXCEPT ![a] = Turns!NoWait]
      /\ boxes' = IF e.kind \in Boxes THEN [boxes EXCEPT ![e.kind].queue = Tail(@)] ELSE boxes
      /\ activations'[a].receipt = (IF e.kind \in Boxes THEN boxes[e.kind].queue[1].receipt
                                    ELSE activations[a].receipt)
      /\ \A b \in Activations : b # a => activations'[b] = activations[b]
      /\ routed' = routed /\ closed' = closed /\ receipts' = receipts
  BY Zenon, MatchIs
<1>3. \A b \in Activations : waits'[b].boxes \subseteq waits[b].boxes /\ "nobody" \notin waits'[b].boxes
  <2>1. \A b \in Activations : waits'[b] = IF b = a THEN Turns!NoWait ELSE waits[b]
    BY <1>1, <1>2 DEF TurnTypes, WaitsType
  <2>2. Turns!NoWait.boxes = {}
    BY DEF Turns!NoWait
  <2> QED BY <1>1, <2>1, <2>2, NobodyWaited
<1>4. \A b \in Boxes : boxes[b].queue \in Seq(Message) /\ Behind(boxes[b].queue, boxes[b].queue)
  <2>1. \A b \in Boxes : boxes[b].queue \in Seq(Message)
    BY <1>1 DEF TurnTypes, BoxesType, Mailbox
  <2> QED BY <2>1, BehindSelf
<1>5. CASE e.kind \notin Boxes
  <2>1. boxes' = boxes /\ BoxesType'
    BY <1>1, <1>2, <1>5 DEF TurnTypes, BoxesType
  <2>2. MailInv'
    BY <1>1, <1>2, <1>3, <2>1, MailKept
  <2>3. ReceiptInv'
    <3>1. \A b \in Activations : activations'[b].receipt \in {0, activations[b].receipt}
      BY <1>2, <1>5
    <3> QED BY <1>1, <1>2, <2>1, <3>1, ReceiptKept DEF TurnTypes, InputType
  <2> QED BY <2>1, <2>2, <2>3
<1>6. CASE e.kind \in Boxes
  <2>1. PICK b0, q, t : b0 = e.kind /\ q = boxes[b0].queue /\ t = Tail(q)
    OBVIOUS
  <2>2. b0 \in Boxes /\ q \in Seq(Message) /\ q # <<>>
    BY <1>2, <1>4, <1>6, <2>1, TurnsConstants DEF EventOf
  <2>3. t \in Seq(Message) /\ BehindBy(t, q, 1) /\ 1 \in DOMAIN q
    BY <2>1, <2>2, TailFacts, BehindTail
  <2>4. boxes' = [boxes EXCEPT ![b0].queue = t]
    BY <1>2, <1>6, <2>1
  <2>5. /\ BoxesType' /\ boxes'[b0].queue = t /\ \A b \in Boxes : boxes'[b].sent = boxes[b].sent
        /\ \A b \in Boxes : b # b0 => boxes'[b] = boxes[b]
    BY <1>1, <2>2, <2>3, <2>4 DEF TurnTypes, BoxesType, Mailbox
  <2>6. \A b \in Boxes : Behind(boxes'[b].queue, boxes[b].queue)
    <3>1. \A b \in Boxes : b # b0 => Behind(boxes'[b].queue, boxes[b].queue)
      BY <1>4, <2>5
    <3>2. Behind(t, q)
      BY <2>3 DEF Behind
    <3> QED BY <2>1, <2>5, <3>1, <3>2
  <2>7. MailInv'
    <3>1. BoxesType /\ (closed => closed')
      BY <1>1, <1>2 DEF TurnTypes
    <3> QED BY <1>1, <1>2, <1>3, <2>5, <2>6, <3>1, MailBehind
  <2>8. ReceiptInv'
    <3>1. BoxesType /\ receipts \in Nat
      BY <1>1 DEF TurnTypes, InputType
    <3>2. /\ \A b \in Boxes : \A i \in DOMAIN boxes'[b].queue :
                \E j \in DOMAIN boxes[b].queue : boxes'[b].queue[i].receipt = boxes[b].queue[j].receipt
          /\ \A b \in Boxes : \A i \in DOMAIN boxes'[b].queue : boxes'[b].queue[i].receipt <= receipts'
          /\ \A b, d \in Boxes : \A i \in DOMAIN boxes'[b].queue, j \in DOMAIN boxes'[d].queue :
                boxes'[b].queue[i].receipt = boxes'[d].queue[j].receipt /\ boxes'[b].queue[i].receipt # 0
                => b = d /\ i = j
      BY <1>1, <1>2, <2>5, <2>6, <3>1, MessagesBehind
    <3>3. PICK rc : rc = q[1].receipt
      OBVIOUS
    <3>4. \A b \in Activations : activations'[b].receipt = IF b = a THEN rc ELSE activations[b].receipt
      BY <1>2, <1>6, <2>1, <3>3
    <3>5. rc <= receipts /\ \A b \in Activations : activations[b].receipt = rc => activations[b].receipt = 0
      BY <1>1, <2>1, <2>2, <2>3, <3>3 DEF ReceiptInv
    <3>6. \A b \in Activations : activations'[b].receipt <= receipts'
      BY <1>1, <1>2, <3>4, <3>5 DEF ReceiptInv
    <3>7. \A b, c \in Activations :
             activations'[b].receipt = activations'[c].receipt /\ activations'[b].receipt # 0 => b = c
      BY <1>1, <3>4, <3>5 DEF ReceiptInv
    <3>8. ASSUME NEW b \in Boxes, NEW i \in DOMAIN boxes'[b].queue, boxes'[b].queue[i].receipt = rc
          PROVE  rc = 0
      <4>1. SUFFICES ASSUME rc # 0 PROVE FALSE
        OBVIOUS
      <4>2. PICK j \in DOMAIN boxes[b].queue : boxes'[b].queue[i].receipt = boxes[b].queue[j].receipt
        BY <3>2
      <4>3. b = b0
        <5>1. /\ boxes[b].queue[j].receipt = boxes[b0].queue[1].receipt
              /\ boxes[b].queue[j].receipt # 0 /\ 1 \in DOMAIN boxes[b0].queue
          BY <2>1, <2>3, <3>3, <3>8, <4>1, <4>2
        <5> QED BY <1>1, <2>2, <4>2, <5>1 DEF ReceiptInv
      <4>4. i \in DOMAIN t /\ t[i].receipt = rc
        BY <2>5, <3>8, <4>3
      <4>5. i + 1 \in DOMAIN q /\ t[i].receipt = q[i + 1].receipt
        BY <2>3, <4>4 DEF BehindBy
      <4>6. PICK k : k = i + 1
        OBVIOUS
      <4>7. k \in DOMAIN q /\ q[k].receipt = q[1].receipt /\ q[k].receipt # 0
        BY <3>3, <4>1, <4>4, <4>5, <4>6
      <4>8. k = 1
        BY <1>1, <2>1, <2>2, <2>3, <4>7 DEF ReceiptInv
      <4>9. i \in Nat /\ i # 0
        BY <2>3, <4>4, LenProperties
      <4> QED BY <4>6, <4>8, <4>9
    <3>9. ASSUME NEW c \in Activations, NEW b \in Boxes, NEW i \in DOMAIN boxes'[b].queue,
                 activations'[c].receipt = boxes'[b].queue[i].receipt
          PROVE  activations'[c].receipt = 0
      <4>1. CASE c = a
        BY <3>4, <3>8, <3>9, <4>1
      <4>2. CASE c # a
        BY <1>1, <3>2, <3>4, <3>9, <4>2 DEF ReceiptInv
      <4> QED BY <4>1, <4>2
    <3> QED BY <3>2, <3>6, <3>7, <3>9 DEF ReceiptInv
  <2>9. \A b \in Boxes : boxes[b].queue = <<>> => boxes'[b].queue = <<>>
    BY <2>1, <2>2, <2>5
  <2> QED BY <2>5, <2>7, <2>8, <2>9
<1> QED BY <1>5, <1>6

\* The timer that is matched is gone, with its effect and that of the wait.
LEMMA MatchTimers ==
    ASSUME TurnsInv, Turns!Match, NEW e, e = Turns!Winner, NEW a, a = e.act
    PROVE  TimersType' /\ TimersInv' /\ LedgerInv'
<1>1. TurnTypes /\ TimersInv /\ LedgerInv /\ PlaceInv
  BY DEF TurnsInv
<1>2. /\ a \in Activations /\ OnWait(a) /\ EventOf(e, a)
      /\ waits' = [waits EXCEPT ![a] = Turns!NoWait]
      /\ timers' = IF e.kind = "timer" THEN {t \in timers : t.id # e.id} ELSE timers
      /\ ledger' = ledger \ ({Turns!Effect("wait", a, 0)}
                              \cup (IF e.kind = "timer" THEN {Turns!Effect("timer", a, e.id)} ELSE {}))
      /\ UNCHANGED <<receiver, routed, outbound, relays, relay>>
  BY MatchIs
<1>3. TimersType'
  <2>1. timers' \subseteq timers
    BY <1>2
  <2> QED BY <1>1, <2>1, FS_Subset DEF TurnTypes, TimersType
<1>4. e.kind = "timer" => \A t \in timers : t.id = e.id => t.kind = "timer" /\ t.act = a
  <2> SUFFICES ASSUME e.kind = "timer", NEW t \in timers, t.id = e.id PROVE t.kind = "timer" /\ t.act = a
    OBVIOUS
  <2>1. e.id \in waits[a].timers
    BY <1>2, TurnsConstants DEF EventOf
  <2>2. PICK u \in timers : u.kind = "timer" /\ u.act = a /\ u.id = e.id
    BY <1>1, <1>2, <2>1 DEF TimersInv, TimerAt
  <2>3. t = u
    BY <1>1, <2>2 DEF TimersInv
  <2> QED BY <2>2, <2>3
<1>5. \A k, b, d : TimerAt(k, b, d)' <=> TimerAt(k, b, d) /\ ~(e.kind = "timer" /\ d = e.id)
  BY <1>2 DEF TimerAt
<1>6. \A b \in Activations : waits'[b] = IF b = a THEN Turns!NoWait ELSE waits[b]
  BY <1>1, <1>2 DEF TurnTypes, WaitsType
<1>7. Turns!NoWait.timers = {} /\ Turns!NoWait.on = FALSE
  BY DEF Turns!NoWait
<1>8. TimersInv'
  <2>1. \A t, u \in timers' : t.id = u.id => t = u
    BY <1>1, <1>2 DEF TimersInv
  <2>2. \A t \in timers' : t.id # 0
    BY <1>1, <1>2 DEF TimersInv
  <2>3. ASSUME NEW b \in Activations, NEW d \in waits'[b].timers PROVE TimerAt("timer", b, d)'
    <3>1. b # a /\ d \in waits[b].timers
      BY <1>6, <1>7, <2>3
    <3>2. PICK t \in timers : t.kind = "timer" /\ t.act = b /\ t.id = d
      BY <1>1, <3>1 DEF TimersInv, TimerAt
    <3>3. ~(e.kind = "timer" /\ d = e.id)
      BY <1>4, <3>1, <3>2
    <3>4. TimerAt("timer", b, d)
      BY <3>2 DEF TimerAt
    <3> QED BY <1>5, <3>3, <3>4
  <2>4. \A b \in Activations : ~OnWait(b)' => waits'[b].timers = {}
    BY <1>1, <1>6, <1>7 DEF TimersInv, OnWait
  <2> QED BY <2>1, <2>2, <2>3, <2>4 DEF TimersInv
<1>9. LedgerInv'
  <2>1. \A k, b, d : Held(k, b, d)' <=> /\ Held(k, b, d)
                                        /\ ~(k = "wait" /\ b = a /\ d = 0)
                                        /\ ~(e.kind = "timer" /\ k = "timer" /\ b = a /\ d = e.id)
    BY <1>2 DEF Held, Turns!Effect
  <2>2. ASSUME NEW k \in EffectKinds, NEW b \in Activations, NEW d \in Nat
        PROVE  Held(k, b, d)' <=> Owed(k, b, d)'
    <3>1. Held(k, b, d) <=> Owed(k, b, d)
      BY <1>1 DEF LedgerInv
    <3>2. TimerAt(k, b, d)' <=> TimerAt(k, b, d) /\ ~(e.kind = "timer" /\ k = "timer" /\ b = a /\ d = e.id)
      <4>1. TimerAt(k, b, d) /\ e.kind = "timer" /\ d = e.id => k = "timer" /\ b = a
        BY <1>4 DEF TimerAt
      <4> QED BY <1>5, <4>1
    <3>3. OnWait(b)' <=> OnWait(b) /\ b # a
      BY <1>6, <1>7 DEF OnWait
    <3>4. /\ Receiving(b)' <=> Receiving(b)
          /\ Reading(b)' <=> Reading(b)
          /\ SameCalls(b) /\ outbound' = outbound
      BY <1>2, CallsSame DEF Receiving, Reading
    <3>5. k \in {"wait", "read", "write", "control", "write-via"} => k \notin TimedKinds
      BY DEF TimedKinds
    <3> QED BY <2>1, <3>1, <3>2, <3>3, <3>4, <3>5 DEF Owed, SameCalls
  <2>3. ledger' \subseteq [kind : EffectKinds, act : Activations, id : Nat]
    BY <1>1, <1>2 DEF LedgerInv
  <2> QED BY <2>2, <2>3 DEF LedgerInv
<1> QED BY <1>3, <1>8, <1>9

LEMMA MatchKeeps ==
    ASSUME TurnsInv, Turns!Match
    PROVE  TurnsInv'
<1>1. PICK e, a : e = Turns!Winner /\ a = e.act
  OBVIOUS
<1>2. TurnTypes /\ PlaceInv /\ WakeInv /\ MailInv /\ TimersInv /\ LedgerInv /\ ReceiptInv
  BY DEF TurnsInv
<1>3. /\ a \in Activations /\ OnWait(a) /\ EventOf(e, a)
      /\ micro # <<>> /\ Head(micro).what = "consider"
      /\ waits' = [waits EXCEPT ![a] = Turns!NoWait]
      /\ input' \in Seq(Nat) /\ (input = <<>> => input' = <<>>)
      /\ ActsType' /\ Stage(a)' = "resuming"
      /\ \A b \in Activations : b # a => activations'[b] = activations[b] /\ SameStage(b)
      /\ micro' = Append(micro, Turns!Settled(a, TRUE))
      /\ UNCHANGED <<jobs, posted, receiver, pump, heard, routed, outbound, relays, relay, closed, receipts>>
  BY <1>1, MatchIs
<1>4. /\ BoxesType' /\ MailInv' /\ ReceiptInv'
      /\ \A b \in Boxes : boxes[b].queue = <<>> => boxes'[b].queue = <<>>
  BY <1>1, MatchMail
<1>5. TimersType' /\ TimersInv' /\ LedgerInv'
  BY <1>1, MatchTimers
<1>6. /\ Turns!NoWait \in Waiting /\ ~Turns!NoWait.on /\ Turns!NoWait.octets = 0
  BY DEF Turns!NoWait, Waiting
<1>7. WaitsType' /\ \A b \in Activations : waits'[b] = IF b = a THEN Turns!NoWait ELSE waits[b]
  BY <1>2, <1>3, <1>6 DEF TurnTypes, WaitsType
<1>8. PICK m, r, n : m = micro /\ r = Turns!Settled(a, TRUE) /\ n = Append(m, r)
  OBVIOUS
<1>9. m \in Seq(Reaction) /\ OneTask(m) /\ m # <<>> /\ IsTask(Head(m)) /\ Head(m).what = "consider"
  BY <1>3, <1>8 DEF TurnsInv, TurnTypes, MicroType, QueueInv, IsTask
<1>10. r \in Reaction /\ ~IsTask(r) /\ r.act = a /\ r.ok = TRUE
  BY <1>3, <1>8, SettledIs
<1>11. /\ n \in Seq(Reaction) /\ OneTask(n)
       /\ \A w \in {"consider", "select"} : HasTask(n, w) <=> HasTask(m, w)
       /\ \A b, o : DueIn(n, b, o) <=> DueIn(m, b, o) \/ (b = a /\ o = TRUE)
       /\ \A b : OneIn(m, b) /\ (b = a => \A o \in BOOLEAN : ~DueIn(m, b, o)) => OneIn(n, b)
  <2>1. /\ n \in Seq(Reaction) /\ OneTask(n)
        /\ \A w \in {"consider", "select"} : HasTask(n, w) <=> HasTask(m, w)
        /\ \A b, o : DueIn(n, b, o) <=> DueIn(m, b, o) \/ (b = r.act /\ o = r.ok)
        /\ \A b : OneIn(m, b) /\ (b = r.act => \A o \in BOOLEAN : ~DueIn(m, b, o)) => OneIn(n, b)
    <3>1. /\ Append(m, r) \in Seq(Reaction) /\ OneTask(Append(m, r))
          /\ \A w \in {"consider", "select"} : HasTask(Append(m, r), w) <=> HasTask(m, w)
          /\ \A b, o : DueIn(Append(m, r), b, o) <=> DueIn(m, b, o) \/ (b = r.act /\ o = r.ok)
          /\ \A b : OneIn(m, b) /\ (b = r.act => \A o \in BOOLEAN : ~DueIn(m, b, o))
                     => OneIn(Append(m, r), b)
      BY <1>9, <1>10, OneReactionMore
    <3> QED BY <1>8, <3>1
  <2> QED BY <1>10, <2>1
<1>12. HasTask(m, "consider")
  BY <1>9, TaskDone
<1>13. micro' = n
  BY <1>3, <1>8
<1>14. Place(a) /\ Stage(a) = "suspended" /\ Alive(a)
  BY <1>2, <1>3 DEF PlaceInv, Place, Alive
<1>15. /\ ~Receiving(a) /\ ~Reading(a) /\ ~Calls(a) /\ ~Relayed(a) /\ ~ByChild(a) /\ ~HandsBack(a)
       /\ ~DueIn(m, a, TRUE) /\ ~DueIn(m, a, FALSE) /\ OneIn(m, a)
       /\ ~TurnIn(jobs, a) /\ OneTurnIn(jobs, a) /\ ~RunsIn(jobs, a)
  BY <1>3, <1>8, <1>14 DEF Place
<1>16. ~Calling(a) /\ ~RelayOf(a)
  BY <1>14, <1>15 DEF Calls
<1>17. /\ MicroType' /\ OneTask(micro)' /\ HasTask(micro, "consider")'
       /\ (HasTask(micro, "select")' => HasTask(micro, "select"))
       /\ \A b : b # a => SameDue(b)
       /\ DueIn(micro, a, TRUE)' /\ ~DueIn(micro, a, FALSE)' /\ OneIn(micro, a)'
  <2>1. \A o \in BOOLEAN : ~DueIn(m, a, o)
    BY <1>15
  <2>2. OneIn(n, a) /\ DueIn(n, a, TRUE) /\ ~DueIn(n, a, FALSE)
    BY <1>11, <1>15, <2>1
  <2>3. \A b : b # a => SameDue(b)
    BY <1>8, <1>11, <1>13 DEF SameDue
  <2> QED BY <1>8, <1>11, <1>12, <1>13, <2>2, <2>3 DEF MicroType
<1>18. TurnTypes'
  BY <1>2, <1>3, <1>4, <1>5, <1>7, <1>17 DEF TurnTypes, JobsType, InputType, RoutedType, CallsType
<1>19. QueueInv'
  <2>1. QueueInv
    BY DEF TurnsInv
  <2> QED BY <1>3, <1>17, <2>1 DEF QueueInv
<1>20. RelayInv'
  <2>1. RelayInv
    BY DEF TurnsInv
  <2> QED BY <1>3, <2>1, RelayKept
<1>21. \A b \in Activations : SameRoute(b) /\ SameCalls(b) /\ SameTurns(b) /\ (Receiving(b)' <=> Receiving(b))
  BY <1>3, RouteSame, CallsSame, TurnsSame DEF Receiving
<1>22. ~OnWait(a)' /\ \A b \in Activations : b # a => SameWait(b)
  BY <1>3, <1>6, <1>7, <1>21 DEF SameWait, OnWait
<1>23. PlaceInv'
  <2> SUFFICES ASSUME NEW b \in Activations PROVE Place(b)'
    BY DEF PlaceInv
  <2>1. CASE b # a
    <3>1. outbound'.kind = outbound.kind
      BY <1>3
    <3> QED BY <1>2, <1>3, <1>17, <1>21, <1>22, <2>1, <3>1, PlaceKept DEF PlaceInv
  <2>2. CASE b = a
    <3>1. /\ ~Receiving(a)' /\ ~Reading(a)' /\ ~Calling(a)' /\ ~RelayOf(a)' /\ ~Relayed(a)' /\ ~ByChild(a)'
          /\ ~HandsBack(a)' /\ ~TurnIn(jobs, a)' /\ OneTurnIn(jobs, a)' /\ ~RunsIn(jobs, a)'
      BY <1>3, <1>15, <1>16, <1>21 DEF SameRoute, SameCalls, SameTurns
    <3> QED BY <1>3, <1>17, <1>22, <2>2, <3>1 DEF Place, Calls, Alive
  <2> QED BY <2>1, <2>2
<1>24. WakeInv'
  <2>1. Alert'
    BY <1>17 DEF Alert
  <2>2. \A b \in Activations : waits'[b].octets # 0 => OnWait(b)' /\ b = Reader
    BY <1>2, <1>6, <1>7 DEF WakeInv, OnWait
  <2>3. receiver' # Turns!NoReceiver => input' = <<>> /\ pump'
    BY <1>2, <1>3 DEF WakeInv
  <2>4. ASSUME NEW b \in Activations, Reading(b)' PROVE boxes'[routed'[b].box].queue = <<>>
    <3>1. Reading(b) /\ routed' = routed
      BY <1>3, <2>4 DEF Reading
    <3>2. boxes[routed[b].box].queue = <<>> /\ ~Boxless(b)
      BY <1>2, <3>1 DEF WakeInv, PlaceInv, Place
    <3>3. routed[b].box \in Boxes
      BY <1>2, <3>2 DEF TurnTypes, RoutedType, Route, Boxless
    <3> QED BY <1>4, <3>1, <3>2, <3>3
  <2> QED BY <2>1, <2>2, <2>3, <2>4 DEF WakeInv
<1> QED BY <1>4, <1>5, <1>18, <1>19, <1>20, <1>23, <1>24 DEF TurnsInv

-----------------------------------------------------------------------------
(* Of relays and of the platform's call.                                   *)

\* An activation that has no call, whoever else has one now.
LEMMA PlaceCalm ==
    ASSUME NEW b, Place(b), SameStage(b), SameWait(b), SameRoute(b), SameCalls(b), SameDue(b),
           SameTurns(b), ~Calling(b)
    PROVE  Place(b)'
BY DEF Place, SameStage, SameWait, SameRoute, SameCalls, SameDue, SameTurns, Alive, Calls

\* An activation whose relay waited, and may now run.
LEMMA PlaceRelay ==
    ASSUME NEW b, Place(b), SameStage(b), SameWait(b), SameRoute(b), Calling(b)' <=> Calling(b), SameDue(b),
           SameTurns(b), outbound'.kind = outbound.kind, ~RelayOf(b),
           RelayOf(b)' \/ Relayed(b)' <=> Relayed(b), ~(RelayOf(b)' /\ Relayed(b)')
    PROVE  Place(b)'
<1>1. CASE ~Relayed(b)
  <2>1. SameCalls(b)
    BY <1>1 DEF SameCalls
  <2> QED BY <2>1, PlaceKept
<1>2. CASE Relayed(b)
  <2>1. Stage(b) = "suspended" /\ Alive(b) /\ ~Calling(b) /\ ~OnWait(b) /\ ~Receiving(b) /\ ~Reading(b) /\ ~ByChild(b)
    BY <1>2 DEF Place, Alive, Calls
  <2>2. Stage(b)' = "suspended" /\ Alive(b)' /\ ~Calling(b)' /\ ~OnWait(b)' /\ ~Receiving(b)' /\ ~Reading(b)' /\ ~ByChild(b)'
    BY <2>1 DEF SameStage, SameWait, SameRoute, Alive
  <2>3. /\ ~TurnIn(jobs, b)' /\ OneTurnIn(jobs, b)' /\ ~RunsIn(jobs, b)'
        /\ ~DueIn(micro, b, TRUE)' /\ ~DueIn(micro, b, FALSE)' /\ OneIn(micro, b)'
    BY <1>2, <2>1 DEF Place, SameTurns, SameDue
  <2>4. ~HandsBack(b)'
    BY <2>1 DEF Place, SameRoute
  <2> QED BY <1>2, <2>2, <2>3, <2>4 DEF Place, Calls
<1> QED BY <1>1, <1>2

\* A job of the channel's owner that decides on a relay.
LEMMA QueuedAuthorize ==
    ASSUME NEW q \in Drain, NEW a \in Activations, NEW s \in Nat, NEW j,
           j = [act |-> a, part |-> "authorize", seq |-> s], NEW f,
           f = Turns!Queued(q, j), IsFiniteSet(q.jobs)
    PROVE  /\ f \in Drain /\ IsFiniteSet(f.jobs) /\ f.jobs = q.jobs \cup {j} /\ f.job = q.job
           /\ f.state = (IF q.state = "idle" THEN "posted" ELSE q.state)
           /\ j.act = a /\ Authorizes(j)
           /\ \A b : /\ TurnIn(f, b) <=> TurnIn(q, b)
                     /\ OneTurnIn(f, b) <=> OneTurnIn(q, b)
                     /\ RunsIn(f, b) <=> RunsIn(q, b)
<1>1. j \in Requested /\ j.act = a /\ Authorizes(j) /\ \A b : ~IsTurnOf(j, b)
  BY DEF Requested, Authorizes, IsTurnOf
<1>2. /\ f \in Drain /\ f.jobs = q.jobs \cup {j} /\ f.job = q.job
      /\ f.state = IF q.state = "idle" THEN "posted" ELSE q.state
  BY <1>1, QueuedIs
<1>3. IsFiniteSet(f.jobs)
  BY <1>2, FS_AddElement
<1>4. \A b : /\ TurnIn(f, b) <=> TurnIn(q, b)
             /\ OneTurnIn(f, b) <=> OneTurnIn(q, b)
             /\ RunsIn(f, b) <=> RunsIn(q, b)
  BY <1>1, <1>2 DEF TurnIn, OneTurnIn, RunsIn
<1> QED BY <1>1, <1>2, <1>3, <1>4

\* The next relay is run, when there is one.
LEMMA NextRelayIs ==
    ASSUME TurnTypes, NEW w \in Seq(Activations), Distinct(w), NEW q \in Drain, IsFiniteSet(q.jobs),
           \A j \in q.jobs : ~Authorizes(j), ~Authorizes(q.job), Turns!NextRelay(w, q)
    PROVE  /\ relays' \in Seq(Activations) /\ Distinct(relays)' /\ relay' \in Relay
           /\ JobsType' /\ jobs'.job = q.job
           /\ q.state # "idle" => jobs'.state = q.state
           /\ q.state = "idle" => jobs'.state = IF jobs'.jobs = q.jobs THEN "idle" ELSE "posted"
           /\ q.jobs \subseteq jobs'.jobs
           /\ \A b : /\ TurnIn(jobs, b)' <=> TurnIn(q, b)
                     /\ OneTurnIn(jobs, b)' <=> OneTurnIn(q, b)
                     /\ RunsIn(jobs, b)' <=> RunsIn(q, b)
           /\ \A b \in Activations : /\ RelayOf(b)' \/ Relayed(b)' <=> b \in In(w)
                                     /\ ~(RelayOf(b)' /\ Relayed(b)')
           /\ relay'.kind # "submitted" /\ (relay'.kind = "none" <=> relay'.act = "nobody")
           /\ relays' # <<>> => relay'.kind = "authorizing"
           /\ \A j \in jobs'.jobs : Authorizes(j) => RelayOf(j.act)' /\ relay'.kind = "authorizing"
           /\ \A j, k \in jobs'.jobs : Authorizes(j) /\ Authorizes(k) => j = k
           /\ relay'.kind = "authorizing" => \E j \in jobs'.jobs : Authorizes(j)
<1>1. CASE w = <<>>
  <2>1. relays' = <<>> /\ relay' = Turns!NoCall /\ jobs' = q
    BY <1>1 DEF Turns!NextRelay
  <2>2. /\ relays' \in Seq(Activations) /\ Distinct(relays)' /\ In(relays)' = {} /\ In(w) = {}
    BY <1>1, <2>1 DEF Distinct, In
  <2>3. relay' \in Relay /\ relay'.kind = "none" /\ relay'.act = "nobody"
    BY <2>1 DEF Turns!NoCall, Turns!Nobody, Relay
  <2>4. \A b \in Activations : ~RelayOf(b)' /\ ~Relayed(b)'
    BY <2>2, <2>3, TurnsConstants DEF RelayOf, Relayed
  <2>5. JobsType'
    BY <2>1 DEF JobsType
  <2>6. \A b : /\ TurnIn(jobs, b)' <=> TurnIn(q, b)
               /\ OneTurnIn(jobs, b)' <=> OneTurnIn(q, b)
               /\ RunsIn(jobs, b)' <=> RunsIn(q, b)
    BY <2>1
  <2> QED BY <2>1, <2>2, <2>3, <2>4, <2>5, <2>6
<1>2. CASE w # <<>>
  <2>1. PICK h, t, s : h = w[1] /\ t = Tail(w) /\ s = Turns!Stamp
    OBVIOUS
  <2>2. /\ t \in Seq(Activations) /\ Len(w) \in Nat
        /\ DOMAIN w = 1..Len(w) /\ DOMAIN t = 1..Len(w) - 1
        /\ 1 \in DOMAIN w /\ Head(w) = h /\ h \in Activations
        /\ \A i \in DOMAIN t : t[i] = w[i + 1] /\ i + 1 \in DOMAIN w
        /\ \A i \in DOMAIN w : i # 1 => i - 1 \in DOMAIN t /\ t[i - 1] = w[i]
    BY <1>2, <2>1, TailFacts
  <2>3. s \in Nat
    BY <2>1, StampFacts
  <2>4. PICK j : j = [act |-> h, part |-> "authorize", seq |-> s]
    OBVIOUS
  <2>5. relays' = t /\ relay' = [act |-> h, kind |-> "authorizing"] /\ jobs' = Turns!Queued(q, j)
    BY <1>2, <2>1, <2>2, <2>4 DEF Turns!NextRelay
  <2>6. PICK f : f = jobs'
    OBVIOUS
  <2>7. f = Turns!Queued(q, j)
    BY <2>5, <2>6
  <2>8. /\ f \in Drain /\ IsFiniteSet(f.jobs) /\ f.jobs = q.jobs \cup {j} /\ f.job = q.job
        /\ f.state = (IF q.state = "idle" THEN "posted" ELSE q.state)
        /\ j.act = h /\ Authorizes(j)
        /\ \A b : /\ TurnIn(f, b) <=> TurnIn(q, b)
                  /\ OneTurnIn(f, b) <=> OneTurnIn(q, b)
                  /\ RunsIn(f, b) <=> RunsIn(q, b)
    BY <2>2, <2>3, <2>4, <2>7, QueuedAuthorize
  <2>9. PICK n : n = [i \in 1..Len(w) |-> i + 1]
    OBVIOUS
  <2>10. \A i \in DOMAIN t : n[i] \in DOMAIN w /\ t[i] = w[n[i]] /\ n[i] # 1 /\ n[i] = i + 1 /\ i \in Nat
    BY <2>2, <2>9
  <2>11. Distinct(t)
    <3>1. ASSUME NEW i \in DOMAIN t, NEW k \in DOMAIN t, t[i] = t[k] PROVE i = k
      <4>1. n[i] = n[k]
        BY <2>10, <3>1 DEF Distinct
      <4> QED BY <2>10, <4>1
    <3> QED BY <3>1 DEF Distinct
  <2>12. \A b : (b = h \/ b \in In(t) <=> b \in In(w)) /\ ~(b = h /\ b \in In(t))
    <3>1. In(t) \subseteq In(w) /\ h \in In(w)
      BY <2>1, <2>2, <2>10 DEF In
    <3>2. h \notin In(t)
      BY <2>1, <2>2, <2>10 DEF In, Distinct
    <3>3. ASSUME NEW i \in DOMAIN w, i # 1 PROVE w[i] \in In(t)
      BY <2>2, <3>3 DEF In
    <3>4. \A b \in In(w) : b = h \/ b \in In(t)
      BY <2>1, <3>3 DEF In
    <3> QED BY <3>1, <3>2, <3>4
  <2>13. /\ relays' \in Seq(Activations) /\ Distinct(relays)' /\ In(relays)' = In(t)
    BY <2>2, <2>5, <2>11 DEF In, Distinct
  <2>14. relay' \in Relay /\ relay'.act = h /\ relay'.kind = "authorizing" /\ relay'.act # "nobody"
    BY <2>2, <2>5, TurnsConstants DEF Relay
  <2>15. \A b \in Activations : (RelayOf(b)' <=> b = h) /\ (Relayed(b)' <=> b \in In(t))
    BY <2>13, <2>14 DEF RelayOf, Relayed
  <2>16. JobsType'
    BY <2>6, <2>8 DEF JobsType
  <2>17. \A b : /\ TurnIn(jobs, b)' <=> TurnIn(q, b)
                /\ OneTurnIn(jobs, b)' <=> OneTurnIn(q, b)
                /\ RunsIn(jobs, b)' <=> RunsIn(q, b)
    BY <2>6, <2>8
  <2>18. /\ jobs'.job = q.job /\ q.jobs \subseteq jobs'.jobs
         /\ q.state # "idle" => jobs'.state = q.state
         /\ q.state = "idle" => jobs'.state = IF jobs'.jobs = q.jobs THEN "idle" ELSE "posted"
    BY <2>6, <2>8
  <2>19. /\ \A k \in jobs'.jobs : Authorizes(k) => k = j
         /\ RelayOf(j.act)' /\ j \in jobs'.jobs
    BY <2>2, <2>6, <2>8, <2>15
  <2>20. /\ \A k \in jobs'.jobs : Authorizes(k) => RelayOf(k.act)' /\ relay'.kind = "authorizing"
         /\ \A i, k \in jobs'.jobs : Authorizes(i) /\ Authorizes(k) => i = k
         /\ relay'.kind = "authorizing" => \E k \in jobs'.jobs : Authorizes(k)
    BY <2>8, <2>14, <2>19
  <2> QED BY <2>12, <2>13, <2>14, <2>15, <2>16, <2>17, <2>18, <2>20
<1> QED BY <1>1, <1>2

CallKinds == {"write", "control", "write-via"}

\* What the ledger has of the calls.
LEMMA CallsHeld ==
    ASSUME LedgerInv, NEW b \in Activations
    PROVE  /\ Held("write", b, 0) <=> Calling(b) /\ outbound.kind \in {"write", "relay"}
           /\ Held("control", b, 0) <=> Calling(b) /\ outbound.kind = "control"
           /\ Held("write-via", b, 0) <=> RelayOf(b) \/ Relayed(b)
<1>1. \A k \in CallKinds : k \in EffectKinds /\ (Held(k, b, 0) <=> Owed(k, b, 0))
  BY DEF LedgerInv, CallKinds, EffectKinds
<1>2. Owed("write", b, 0) <=> Calling(b) /\ outbound.kind \in {"write", "relay"}
  BY DEF Owed, TimedKinds
<1>3. Owed("control", b, 0) <=> Calling(b) /\ outbound.kind = "control"
  BY DEF Owed, TimedKinds
<1>4. Owed("write-via", b, 0) <=> RelayOf(b) \/ Relayed(b)
  BY DEF Owed, TimedKinds
<1> QED BY <1>1, <1>2, <1>3, <1>4 DEF CallKinds

\* When only calls change, so does the ledger.
LEMMA LedgerCalls ==
    ASSUME LedgerInv, UNCHANGED <<waits, receiver, timers, routed>>,
           ledger' \subseteq [kind : EffectKinds, act : Activations, id : Nat],
           \A k, b, d : k \notin CallKinds \/ d # 0 => (Held(k, b, d)' <=> Held(k, b, d)),
           \A b \in Activations :
              /\ Held("write", b, 0)' <=> Calling(b)' /\ outbound'.kind \in {"write", "relay"}
              /\ Held("control", b, 0)' <=> Calling(b)' /\ outbound'.kind = "control"
              /\ Held("write-via", b, 0)' <=> RelayOf(b)' \/ Relayed(b)'
    PROVE  LedgerInv'
<1>1. ASSUME NEW k \in EffectKinds, NEW b \in Activations, NEW d \in Nat
      PROVE  Held(k, b, d)' <=> Owed(k, b, d)'
  <2>1. TimerAt(k, b, d)' <=> TimerAt(k, b, d)
    BY DEF TimerAt
  <2>2. (OnWait(b)' <=> OnWait(b)) /\ (Receiving(b)' <=> Receiving(b)) /\ (Reading(b)' <=> Reading(b))
    BY DEF OnWait, Receiving, Reading
  <2>3. Held(k, b, d) <=> Owed(k, b, d)
    BY DEF LedgerInv
  <2>4. CASE k \notin CallKinds
    BY <2>1, <2>2, <2>3, <2>4 DEF Owed, CallKinds
  <2>5. CASE k \in CallKinds /\ d # 0
    BY <2>1, <2>3, <2>5 DEF Owed, CallKinds, TimedKinds
  <2>6. CASE k = "write" /\ d = 0
    BY <2>6 DEF Owed, TimedKinds
  <2>7. CASE k = "control" /\ d = 0
    BY <2>7 DEF Owed, TimedKinds
  <2>8. CASE k = "write-via" /\ d = 0
    BY <2>8 DEF Owed, TimedKinds
  <2> QED BY <2>4, <2>5, <2>6, <2>7, <2>8 DEF CallKinds
<1> QED BY <1>1 DEF LedgerInv

\* What steps of calls and of the queue leave alone.
LEMMA CallsChange ==
    ASSUME TurnsInv,
           UNCHANGED <<posted, waits, receiver, input, pump, heard, boxes, timers, routed, closed, receipts>>,
           ActsType', \A b \in Activations : activations'[b].receipt \in {0, activations[b].receipt},
           JobsType', MicroType', CallsType', QueueInv', RelayInv', PlaceInv', LedgerInv', Alert => Alert'
    PROVE  TurnsInv'
<1>1. TurnTypes /\ WakeInv /\ MailInv /\ TimersInv /\ ReceiptInv
  BY DEF TurnsInv
<1>2. TurnTypes'
  BY <1>1 DEF TurnTypes, WaitsType, InputType, BoxesType, TimersType, RoutedType
<1>3. WakeInv'
  BY <1>1, WakeKept
<1>4. MailInv'
  BY <1>1, NobodyWaited, MailKept
<1>5. ReceiptInv'
  BY <1>1, ReceiptKept DEF TurnTypes, InputType
<1>6. TimersInv'
  BY <1>1, TimersKept
<1> QED BY <1>2, <1>3, <1>4, <1>5, <1>6 DEF TurnsInv

\* A relay that ends before its call: the next is run.
LEMMA RelayEnds ==
    ASSUME TurnsInv, NEW a \in Activations, relay.kind = "authorizing", RelayOf(a),
           NEW q \in Drain, IsFiniteSet(q.jobs), q.job = Turns!NoJob,
           q.state = IF q.jobs = {} THEN "idle" ELSE "posted",
           \A j \in q.jobs : ~Authorizes(j),
           Turns!NextRelay(relays, q), ledger' = ledger \ {Turns!Effect("write-via", a, 0)},
           UNCHANGED <<activations, posted, waits, receiver, input, pump, heard, boxes, timers,
                       routed, outbound, closed, receipts>>,
           MicroType', OneTask(micro)', ~HasTask(micro, "select")',
           \A b \in Activations : b # a => SameDue(b),
           Alive(a) => OneIn(micro, a)' /\ ~DueIn(micro, a, TRUE)' /\ DueIn(micro, a, FALSE)',
           \A b \in Activations : /\ TurnIn(q, b) <=> TurnIn(jobs, b)
                                  /\ OneTurnIn(q, b) <=> OneTurnIn(jobs, b)
                                  /\ ~RunsIn(q, b),
           \A b \in Activations : Alive(b) => ~RunsIn(jobs, b),
           Alert => posted
    PROVE  TurnsInv'
<1>1. TurnTypes /\ RelayInv /\ PlaceInv /\ LedgerInv
  BY DEF TurnsInv
<1>2. relays \in Seq(Activations) /\ Distinct(relays) /\ outbound.kind # "relay" /\ outbound \in Call
  BY <1>1 DEF TurnTypes, CallsType, RelayInv
<1>3. ~Authorizes(q.job)
  BY NoJobIs
<1>4. /\ relays' \in Seq(Activations) /\ Distinct(relays)' /\ relay' \in Relay
      /\ JobsType' /\ jobs'.job = q.job
      /\ q.state # "idle" => jobs'.state = q.state
      /\ q.state = "idle" => jobs'.state = IF jobs'.jobs = q.jobs THEN "idle" ELSE "posted"
      /\ q.jobs \subseteq jobs'.jobs
      /\ \A b : /\ TurnIn(jobs, b)' <=> TurnIn(q, b)
                /\ OneTurnIn(jobs, b)' <=> OneTurnIn(q, b)
                /\ RunsIn(jobs, b)' <=> RunsIn(q, b)
      /\ \A b \in Activations : /\ RelayOf(b)' \/ Relayed(b)' <=> b \in In(relays)
                                /\ ~(RelayOf(b)' /\ Relayed(b)')
      /\ relay'.kind # "submitted" /\ (relay'.kind = "none" <=> relay'.act = "nobody")
      /\ relays' # <<>> => relay'.kind = "authorizing"
      /\ \A j \in jobs'.jobs : Authorizes(j) => RelayOf(j.act)' /\ relay'.kind = "authorizing"
      /\ \A j, k \in jobs'.jobs : Authorizes(j) /\ Authorizes(k) => j = k
      /\ relay'.kind = "authorizing" => \E j \in jobs'.jobs : Authorizes(j)
  BY <1>1, <1>2, <1>3, NextRelayIs
<1>5. \A b \in Activations : Relayed(b) <=> RelayOf(b)' \/ Relayed(b)'
  BY <1>4 DEF Relayed
<1>6. /\ relay.act = a /\ \A b \in Activations : b # a => ~RelayOf(b)
  BY DEF RelayOf
<1>7. Place(a)
  BY <1>1 DEF PlaceInv
<1>8. ~Relayed(a)
  BY <1>7 DEF Place, Calls, Alive
<1>9. ~RelayOf(a)' /\ ~Relayed(a)'
  BY <1>5, <1>8
<1>10. QueueInv'
  <2>1. jobs'.job = Turns!NoJob /\ jobs'.state \in {"idle", "posted"}
    BY <1>4
  <2>2. jobs'.state = "posted" => jobs'.jobs # {}
    BY <1>4
  <2>3. jobs'.state = "idle" => jobs'.jobs = {}
    BY <1>4
  <2> QED BY <2>1, <2>2, <2>3 DEF QueueInv
<1>11. RelayInv'
  <2>1. outbound'.kind # "relay" /\ (outbound'.kind = "none" <=> outbound'.act = "nobody")
    BY <1>1, <1>2 DEF RelayInv
  <2>2. ~Authorizes(jobs'.job)
    BY <1>3, <1>4
  <2> QED BY <1>4, <2>1, <2>2 DEF RelayInv
<1>12. CallsType'
  BY <1>2, <1>4 DEF CallsType
<1>13. \A b \in Activations : SameStage(b) /\ SameWait(b) /\ SameRoute(b) /\ (Calling(b)' <=> Calling(b))
  BY StageSame, WaitSame, RouteSame DEF Calling
<1>14. PlaceInv'
  <2> SUFFICES ASSUME NEW b \in Activations PROVE Place(b)'
    BY DEF PlaceInv
  <2>1. CASE b # a
    <3>1. Place(b) /\ outbound'.kind = outbound.kind /\ ~RelayOf(b)
      BY <1>1, <1>6, <2>1 DEF PlaceInv
    <3>2. CASE Alive(b)
      <4>1. SameTurns(b)
        BY <1>4, <3>2 DEF SameTurns
      <4> QED BY <1>4, <1>5, <1>13, <2>1, <3>1, <4>1, PlaceRelay
    <3>3. CASE ~Alive(b)
      <4>1. ~Relayed(b) /\ ~OnWait(b) /\ ~Receiving(b) /\ ~Reading(b) /\ ~ByChild(b) /\ ~HandsBack(b) /\ Stage(b) = "ended"
        BY <3>1, <3>3 DEF Place, Alive
      <4>2. /\ ~Relayed(b)' /\ ~OnWait(b)' /\ ~Receiving(b)' /\ ~Reading(b)' /\ ~ByChild(b)' /\ ~HandsBack(b)'
            /\ Stage(b)' = "ended"
        BY <1>5, <1>13, <4>1 DEF SameStage, SameWait, SameRoute
      <4> QED BY <4>2, PlaceEnded
    <3> QED BY <3>2, <3>3
  <2>2. CASE b = a /\ Alive(a)
    <3>1. Stage(a) = "suspended" /\ ~OnWait(a) /\ ~Receiving(a) /\ ~Reading(a) /\ ~ByChild(a) /\ ~Calling(a)
      <4>1. Calls(a)
        BY <2>2 DEF Calls
      <4> QED BY <1>2, <1>7, <2>2, <4>1 DEF Place
    <3>2. ~HandsBack(a) /\ ~TurnIn(jobs, a) /\ OneTurnIn(jobs, a) /\ ~RunsIn(jobs, a)
      BY <1>7, <2>2, <3>1 DEF Place
    <3>3. /\ Stage(a)' = "suspended" /\ ~OnWait(a)' /\ ~Receiving(a)' /\ ~Reading(a)' /\ ~ByChild(a)'
          /\ ~Calling(a)' /\ ~HandsBack(a)' /\ ~TurnIn(jobs, a)' /\ OneTurnIn(jobs, a)' /\ ~RunsIn(jobs, a)'
      BY <1>4, <1>13, <3>1, <3>2 DEF SameStage, SameWait, SameRoute
    <3> QED BY <1>9, <2>2, <3>3 DEF Place, Calls, Alive
  <2>3. CASE b = a /\ ~Alive(a)
    <3>1. ~OnWait(a) /\ ~Receiving(a) /\ ~Reading(a) /\ ~ByChild(a) /\ ~HandsBack(a) /\ Stage(a) = "ended"
      BY <1>7, <2>3 DEF Place, Alive
    <3>2. ~OnWait(a)' /\ ~Receiving(a)' /\ ~Reading(a)' /\ ~ByChild(a)' /\ ~HandsBack(a)' /\ Stage(a)' = "ended"
      BY <1>13, <3>1 DEF SameStage, SameWait, SameRoute
    <3> QED BY <1>9, <2>3, <3>2, PlaceEnded
  <2> QED BY <2>1, <2>2, <2>3
<1>15. LedgerInv'
  <2>1. \A k, b, d : Held(k, b, d)' <=> Held(k, b, d) /\ ~(k = "write-via" /\ b = a /\ d = 0)
    BY EffectGone
  <2>2. \A k, b, d : k \notin CallKinds \/ d # 0 => (Held(k, b, d)' <=> Held(k, b, d))
    BY <2>1 DEF CallKinds
  <2>3. ASSUME NEW b \in Activations
        PROVE  /\ Held("write", b, 0)' <=> Calling(b)' /\ outbound'.kind \in {"write", "relay"}
               /\ Held("control", b, 0)' <=> Calling(b)' /\ outbound'.kind = "control"
               /\ Held("write-via", b, 0)' <=> RelayOf(b)' \/ Relayed(b)'
    <3>1. /\ Held("write", b, 0) <=> Calling(b) /\ outbound.kind \in {"write", "relay"}
          /\ Held("control", b, 0) <=> Calling(b) /\ outbound.kind = "control"
          /\ Held("write-via", b, 0) <=> RelayOf(b) \/ Relayed(b)
      BY <1>1, CallsHeld
    <3>2. /\ Held("write", b, 0)' <=> Held("write", b, 0)
          /\ Held("control", b, 0)' <=> Held("control", b, 0)
          /\ Held("write-via", b, 0)' <=> Held("write-via", b, 0) /\ b # a
      BY <2>1
    <3>3. (RelayOf(b) \/ Relayed(b)) /\ b # a <=> Relayed(b)
      BY <1>6, <1>8
    <3> QED BY <1>5, <1>13, <3>1, <3>2, <3>3
  <2>4. ledger' \subseteq [kind : EffectKinds, act : Activations, id : Nat]
    BY <1>1 DEF LedgerInv
  <2> QED BY <1>1, <2>2, <2>3, <2>4, LedgerCalls
<1>16. ActsType' /\ \A b \in Activations : activations'[b].receipt \in {0, activations[b].receipt}
  BY <1>1 DEF TurnTypes, ActsType
<1>17. Alert => Alert'
  BY DEF Alert
<1> QED BY <1>4, <1>10, <1>11, <1>12, <1>14, <1>15, <1>16, <1>17, CallsChange

-----------------------------------------------------------------------------
(* The selection of a turn does, and so do relays.                         *)

\* What a selection of the job j, with the queue f that is left, comes to.
Selects(j, f) ==
    /\ j \in jobs.jobs /\ j \in Requested /\ jobs.job = Turns!NoJob /\ j # Turns!NoJob
    /\ f \in Drain /\ IsFiniteSet(f.jobs) /\ f.jobs = jobs.jobs \ {j} /\ f.job = j /\ f.state = "running"
    /\ MicroType' /\ OneTask(micro)' /\ ~HasTask(micro, "select")' /\ \A b : SameDue(b)
    /\ Alert => posted
    /\ UNCHANGED <<posted, waits, receiver, input, pump, heard, boxes, timers, routed, outbound,
                   closed, receipts>>
    /\ Turns!Live(j.act) =>
         /\ jobs' = f
         /\ activations' = IF j.part = "turn" THEN [activations EXCEPT ![j.act].stage = "running"]
                           ELSE activations
         /\ UNCHANGED <<ledger, relays, relay>>
    /\ ~Turns!Live(j.act) /\ j.part = "turn" =>
         jobs' = Turns!Freed(f) /\ UNCHANGED <<activations, ledger, relays, relay>>
    /\ ~Turns!Live(j.act) /\ j.part # "turn" =>
         /\ Turns!NextRelay(relays, Turns!Freed(f))
         /\ ledger' = ledger \ {Turns!Effect("write-via", j.act, 0)}
         /\ UNCHANGED activations

\* The selection of a turn, and what follows of the queue.
LEMMA SelectIs ==
    ASSUME TurnsInv, Turns!SelectJob, NEW j, j = SelectedJob, NEW f,
           f = [jobs EXCEPT !.jobs = @ \ {j}, !.job = j, !.state = "running"]
    PROVE  Selects(j, f)
<1>1. PICK h, m, n : h = Head(micro) /\ m = Tail(micro) /\ n = micro
  OBVIOUS
<1>2. n # <<>> /\ h = Turns!Select /\ micro' = m
  BY <1>1 DEF Turns!SelectJob
<1>3. n \in Seq(Reaction) /\ OneTask(n)
  BY <1>1 DEF TurnsInv, TurnTypes, MicroType, QueueInv
<1>4. IsTask(h) /\ h.what = "select"
  BY <1>2 DEF IsTask, Turns!Select
<1>5. /\ m \in Seq(Reaction) /\ OneTask(m)
      /\ \A w \in {"consider", "select"} : ~HasTask(m, w)
      /\ \A w : HasTask(n, w) /\ w \in {"consider", "select"} => w = h.what
      /\ HasTask(n, h.what)
      /\ \A b, o : DueIn(m, b, o) <=> DueIn(n, b, o)
      /\ \A b : OneIn(n, b) => OneIn(m, b)
  BY <1>1, <1>2, <1>3, <1>4, TaskDone
<1>6. QueueInv /\ JobsType
  BY DEF TurnsInv, TurnTypes
<1>7. HasTask(micro, "select") /\ ~HasTask(micro, "consider")
  BY <1>1, <1>4, <1>5
<1>8. jobs.state = "matching" /\ jobs.jobs # {} /\ jobs.job = Turns!NoJob
  BY <1>6, <1>7 DEF QueueInv
<1>9. j \in jobs.jobs /\ j \in Requested
  BY <1>6, <1>8, SelectedIs
<1>10. j # Turns!NoJob
  BY <1>9, NoJobIs
<1>11. /\ f \in Drain /\ f.jobs = jobs.jobs \ {j} /\ f.job = j /\ f.state = "running"
  BY <1>6, <1>9 DEF JobsType, Drain
<1>12. IsFiniteSet(f.jobs)
  BY <1>6, <1>11, FS_Subset DEF JobsType
<1>13. MicroType' /\ OneTask(micro)' /\ ~HasTask(micro, "select")'
  BY <1>2, <1>5 DEF MicroType
<1>14. \A b : SameDue(b)
  BY <1>1, <1>2, <1>5 DEF SameDue
<1>15. Alert => posted
  BY <1>7, <1>8 DEF Alert
<1>16. UNCHANGED <<posted, waits, receiver, input, pump, heard, boxes, timers, routed, outbound,
                   closed, receipts>>
  BY DEF Turns!SelectJob
<1>17. CASE Turns!Live(j.act)
  BY <1>8, <1>9, <1>10, <1>11, <1>12, <1>13, <1>14, <1>15, <1>16, <1>17 DEF Turns!SelectJob, SelectedJob, Selects
<1>18. CASE ~Turns!Live(j.act) /\ j.part = "turn"
  BY <1>8, <1>9, <1>10, <1>11, <1>12, <1>13, <1>14, <1>15, <1>16, <1>18 DEF Turns!SelectJob, SelectedJob, Selects
<1>19. CASE ~Turns!Live(j.act) /\ j.part # "turn"
  BY <1>8, <1>9, <1>10, <1>11, <1>12, <1>13, <1>14, <1>15, <1>16, <1>19 DEF Turns!SelectJob, SelectedJob, Selects
<1> QED BY <1>17, <1>18, <1>19

\* The turns of others, when one is selected.
LEMMA SelectedTurns ==
    ASSUME JobsType, NEW j \in jobs.jobs, j \in Requested, jobs.job = Turns!NoJob, NEW f \in Drain,
           f.jobs = jobs.jobs \ {j}, f.job = j
    PROVE  /\ \A b : b # j.act \/ j.part # "turn" =>
                 /\ TurnIn(f, b) <=> TurnIn(jobs, b)
                 /\ OneTurnIn(f, b) <=> OneTurnIn(jobs, b)
                 /\ RunsIn(f, b) <=> RunsIn(jobs, b)
                 /\ ~RunsIn(f, b)
           /\ j.part = "turn" /\ OneTurnIn(jobs, j.act) =>
                 TurnIn(jobs, j.act) /\ ~TurnIn(f, j.act) /\ OneTurnIn(f, j.act) /\ RunsIn(f, j.act)
           /\ \A b : ~RunsIn(jobs, b)
<1>1. \A b : IsTurnOf(j, b) <=> b = j.act /\ j.part = "turn"
  BY DEF IsTurnOf
<1>2. \A b : ~RunsIn(jobs, b)
  BY NoJobIs DEF RunsIn
<1>3. \A b : RunsIn(f, b) <=> b = j.act /\ j.part = "turn"
  BY <1>1 DEF RunsIn
<1>4. ASSUME NEW b, b # j.act \/ j.part # "turn"
      PROVE  (TurnIn(f, b) <=> TurnIn(jobs, b)) /\ (OneTurnIn(f, b) <=> OneTurnIn(jobs, b))
  BY <1>1, <1>4 DEF TurnIn, OneTurnIn
<1>5. ASSUME j.part = "turn", OneTurnIn(jobs, j.act)
      PROVE  TurnIn(jobs, j.act) /\ ~TurnIn(f, j.act) /\ OneTurnIn(f, j.act)
  BY <1>1, <1>5 DEF TurnIn, OneTurnIn
<1> QED BY <1>2, <1>3, <1>4, <1>5

LEMMA SelectJobKeeps ==
    ASSUME TurnsInv, Turns!SelectJob
    PROVE  TurnsInv'
<1>1. PICK j, f : j = SelectedJob /\ f = [jobs EXCEPT !.jobs = @ \ {j}, !.job = j, !.state = "running"]
  BY Zenon
<1>2. /\ j \in jobs.jobs /\ j \in Requested /\ jobs.job = Turns!NoJob /\ j # Turns!NoJob
      /\ f \in Drain /\ IsFiniteSet(f.jobs) /\ f.jobs = jobs.jobs \ {j} /\ f.job = j /\ f.state = "running"
      /\ MicroType' /\ OneTask(micro)' /\ ~HasTask(micro, "select")' /\ \A b : SameDue(b)
      /\ Alert => posted
      /\ UNCHANGED <<posted, waits, receiver, input, pump, heard, boxes, timers, routed, outbound,
                     closed, receipts>>
      /\ Turns!Live(j.act) =>
           /\ jobs' = f
           /\ activations' = IF j.part = "turn" THEN [activations EXCEPT ![j.act].stage = "running"]
                             ELSE activations
           /\ UNCHANGED <<ledger, relays, relay>>
      /\ ~Turns!Live(j.act) /\ j.part = "turn" =>
           jobs' = Turns!Freed(f) /\ UNCHANGED <<activations, ledger, relays, relay>>
      /\ ~Turns!Live(j.act) /\ j.part # "turn" =>
           /\ Turns!NextRelay(relays, Turns!Freed(f))
           /\ ledger' = ledger \ {Turns!Effect("write-via", j.act, 0)}
           /\ UNCHANGED activations
  <2>1. Selects(j, f)
    BY Zenon, <1>1, SelectIs
  <2> QED BY <2>1 DEF Selects
<1>3. TurnTypes /\ QueueInv /\ RelayInv /\ PlaceInv /\ LedgerInv /\ JobsType /\ ActsType
  BY DEF TurnsInv, TurnTypes
<1>4. j.act \in Activations /\ j.part \in {"turn", "authorize"} /\ (Authorizes(j) <=> j.part # "turn")
  BY <1>2 DEF Requested, Authorizes
<1>5. /\ \A b : b # j.act \/ j.part # "turn" =>
            /\ TurnIn(f, b) <=> TurnIn(jobs, b)
            /\ OneTurnIn(f, b) <=> OneTurnIn(jobs, b)
            /\ RunsIn(f, b) <=> RunsIn(jobs, b)
            /\ ~RunsIn(f, b)
      /\ j.part = "turn" /\ OneTurnIn(jobs, j.act) =>
            TurnIn(jobs, j.act) /\ ~TurnIn(f, j.act) /\ OneTurnIn(f, j.act) /\ RunsIn(f, j.act)
      /\ \A b : ~RunsIn(jobs, b)
  BY <1>2, <1>3, SelectedTurns
<1>6. \A b \in Activations : SameWait(b) /\ SameRoute(b) /\ (Calling(b)' <=> Calling(b))
  BY <1>2, WaitSame, RouteSame DEF Calling
<1>7. Place(j.act) /\ ~Authorizes(jobs.job)
  BY <1>2, <1>3, <1>4, NoJobIs DEF PlaceInv
<1>8. CASE Turns!Live(j.act)
  <2>1. /\ jobs' = f
        /\ activations' = IF j.part = "turn" THEN [activations EXCEPT ![j.act].stage = "running"]
                          ELSE activations
        /\ UNCHANGED <<ledger, relays, relay>>
    BY <1>2, <1>8
  <2>2. Alive(j.act)
    BY <1>8 DEF Turns!Live, Alive, Stage
  <2>3. JobsType' /\ QueueInv'
    <3>1. JobsType'
      BY <1>2, <2>1 DEF JobsType
    <3>2. jobs'.state = "running" /\ jobs'.job # Turns!NoJob
      BY <1>2, <2>1
    <3> QED BY <1>2, <3>1, <3>2 DEF QueueInv
  <2>4. UNCHANGED <<outbound, relay, relays>> /\ outbound'.kind = outbound.kind
    BY <1>2, <2>1
  <2>5. \A b \in Activations : SameCalls(b)
    BY <2>4, CallsSame
  <2>6. RelayInv'
    <3>1. CASE j.part = "turn"
      <4>1. \A i : Authorizes(i) => (i \in jobs'.jobs <=> i \in jobs.jobs)
        BY <1>2, <1>4, <2>1, <3>1
      <4>2. ~Authorizes(jobs'.job)
        BY <1>2, <1>4, <2>1, <3>1
      <4> QED BY <1>3, <1>7, <2>4, <4>1, <4>2, RelayKept
    <3>2. CASE j.part # "turn"
      <4>1. Authorizes(j) /\ RelayOf(j.act) /\ relay.kind = "authorizing"
        BY <1>2, <1>3, <1>4, <3>2 DEF RelayInv
      <4>2. \A i \in f.jobs : ~Authorizes(i)
        BY <1>2, <1>3, <4>1 DEF RelayInv
      <4>3. jobs'.jobs = f.jobs /\ jobs'.job = j
        BY <1>2, <2>1
      <4>4. RelayOf(jobs.job.act)' /\ relay'.kind = "authorizing"
        BY <2>4, <4>1, <4>3 DEF RelayOf
      <4>5. PICK jj : jj = jobs'
        OBVIOUS
      <4>6. jj.jobs = f.jobs /\ jj.job = j /\ RelayOf(jj.job.act)' /\ relay'.kind = "authorizing"
        BY <2>4, <4>1, <4>3, <4>5 DEF RelayOf
      <4>7. /\ relay'.kind = "submitted" <=> outbound'.kind = "relay"
            /\ relay'.kind = "submitted" => relay'.act = outbound'.act
            /\ relay'.kind = "none" <=> relay'.act = "nobody"
            /\ outbound'.kind = "none" <=> outbound'.act = "nobody"
            /\ relays' # <<>> => relay'.kind = "authorizing"
            /\ Distinct(relays)'
        BY <1>3, <2>4 DEF RelayInv
      <4> QED BY <4>1, <4>2, <4>5, <4>6, <4>7 DEF RelayInv
    <3> QED BY <3>1, <3>2
  <2>8. CallsType'
    BY <1>3, <2>4 DEF TurnTypes, CallsType
  <2>9. LedgerInv'
    <3>1. \A b \in Activations : SameWait(b) /\ SameCalls(b) /\ (Reading(b)' <=> Reading(b))
      BY <1>6, <2>5 DEF SameRoute
    <3> QED BY <1>2, <1>3, <2>1, <2>4, <3>1, LedgerKept
  <2>10. Alert => Alert'
    BY <1>2 DEF Alert
  <2>11. CASE j.part = "turn"
    <3>1. /\ ActsType' /\ Stage(j.act)' = "running"
          /\ \A b \in Activations : activations'[b].receipt = activations[b].receipt
          /\ \A b \in Activations : b # j.act => activations'[b] = activations[b] /\ SameStage(b)
      <4>1. activations' = [activations EXCEPT ![j.act].stage = "running"]
        BY <2>1, <2>11
      <4> QED BY <1>3, <1>4, <4>1, StageChanged DEF Stages
    <3>2. \A b \in Activations : activations'[b].receipt \in {0, activations[b].receipt}
      BY <3>1
    <3>3. PlaceInv'
      <4> SUFFICES ASSUME NEW b \in Activations PROVE Place(b)'
        BY DEF PlaceInv
      <4>1. CASE b # j.act
        <5>1. SameTurns(b)
          BY <1>5, <2>1, <4>1 DEF SameTurns
        <5> QED BY <1>2, <1>3, <1>6, <2>4, <2>5, <3>1, <4>1, <5>1, PlaceKept DEF PlaceInv
      <4>2. CASE b = j.act
        <5>1. OneTurnIn(jobs, b)
          BY <1>7, <2>2, <4>2 DEF Place
        <5>2. TurnIn(jobs, b) /\ ~TurnIn(f, b) /\ OneTurnIn(f, b) /\ RunsIn(f, b)
          BY <1>5, <2>11, <4>2, <5>1
        <5>3. Stage(b) = "queued"
          BY <1>7, <2>2, <4>2, <5>2 DEF Place
        <5>4. /\ ~OnWait(b) /\ ~Receiving(b) /\ ~Reading(b) /\ ~ByChild(b) /\ ~Calling(b) /\ ~RelayOf(b)
              /\ ~Relayed(b) /\ ~HandsBack(b) /\ ~DueIn(micro, b, TRUE) /\ ~DueIn(micro, b, FALSE) /\ OneIn(micro, b)
          BY <1>7, <2>2, <4>2, <5>3 DEF Place, Calls
        <5>5. /\ ~OnWait(b)' /\ ~Receiving(b)' /\ ~Reading(b)' /\ ~ByChild(b)' /\ ~Calling(b)' /\ ~RelayOf(b)'
              /\ ~Relayed(b)' /\ ~HandsBack(b)' /\ ~DueIn(micro, b, TRUE)' /\ ~DueIn(micro, b, FALSE)'
              /\ OneIn(micro, b)'
          BY <1>2, <1>6, <2>5, <5>4 DEF SameWait, SameRoute, SameCalls, SameDue
        <5>6. ~TurnIn(jobs, b)' /\ OneTurnIn(jobs, b)' /\ RunsIn(jobs, b)' /\ Stage(b)' = "running"
          BY <2>1, <3>1, <4>2, <5>2
        <5> QED BY <5>5, <5>6 DEF Place, Calls, Alive
      <4> QED BY <4>1, <4>2
    <3> QED BY <1>2, <2>3, <2>6, <2>8, <2>9, <2>10, <3>1, <3>2, <3>3, CallsChange
  <2>12. CASE j.part # "turn"
    <3>1. UNCHANGED activations
      BY <2>1, <2>12
    <3>2. ActsType' /\ \A b \in Activations : activations'[b].receipt \in {0, activations[b].receipt}
      BY <1>3, <3>1 DEF ActsType
    <3>3. PlaceInv'
      <4> SUFFICES ASSUME NEW b \in Activations PROVE Place(b)'
        BY DEF PlaceInv
      <4>1. SameTurns(b) /\ SameStage(b)
        BY <1>5, <2>1, <2>12, <3>1, StageSame DEF SameTurns
      <4> QED BY <1>2, <1>3, <1>6, <2>4, <2>5, <4>1, PlaceKept DEF PlaceInv
    <3> QED BY <1>2, <2>3, <2>6, <2>8, <2>9, <2>10, <3>2, <3>3, CallsChange
  <2> QED BY <2>11, <2>12
<1>9. PICK g : g = Turns!Freed(f)
  OBVIOUS
<1>10. /\ g \in Drain /\ g.jobs = f.jobs /\ g.job = Turns!NoJob
       /\ g.state = IF f.jobs = {} THEN "idle" ELSE "posted"
       /\ \A b : /\ TurnIn(g, b) <=> TurnIn(f, b)
                 /\ OneTurnIn(g, b) <=> OneTurnIn(f, b)
                 /\ ~RunsIn(g, b)
       /\ ~Authorizes(g.job)
  BY <1>2, <1>9, FreedTurns
<1>11. CASE ~Turns!Live(j.act) /\ j.part = "turn"
  <2>1. jobs' = g /\ UNCHANGED <<activations, ledger, relays, relay>>
    BY <1>2, <1>9, <1>11
  <2>2. ~Alive(j.act)
    BY <1>11 DEF Turns!Live, Alive, Stage
  <2>3. JobsType' /\ QueueInv'
    <3>1. JobsType'
      BY <1>2, <1>10, <2>1 DEF JobsType
    <3>2. jobs'.job = Turns!NoJob /\ jobs'.state = IF jobs'.jobs = {} THEN "idle" ELSE "posted"
      BY <1>10, <2>1
    <3> QED BY <1>2, <3>1, <3>2 DEF QueueInv
  <2>4. UNCHANGED <<outbound, relay, relays>> /\ outbound'.kind = outbound.kind
    BY <1>2, <2>1
  <2>5. \A b \in Activations : SameCalls(b) /\ SameStage(b)
    BY <2>1, <2>4, CallsSame, StageSame
  <2>6. RelayInv'
    <3>1. \A i : Authorizes(i) => (i \in jobs'.jobs <=> i \in jobs.jobs)
      BY <1>2, <1>4, <1>10, <1>11, <2>1
    <3>2. ~Authorizes(jobs'.job)
      BY <1>10, <2>1
    <3> QED BY <1>3, <1>7, <2>4, <3>1, <3>2, RelayKept
  <2>7. CallsType' /\ ActsType' /\ \A b \in Activations : activations'[b].receipt \in {0, activations[b].receipt}
    BY <1>3, <2>1, <2>4 DEF TurnTypes, CallsType, ActsType
  <2>8. LedgerInv'
    <3>1. \A b \in Activations : SameWait(b) /\ SameCalls(b) /\ (Reading(b)' <=> Reading(b))
      BY <1>6, <2>5 DEF SameRoute
    <3> QED BY <1>2, <1>3, <2>1, <2>4, <3>1, LedgerKept
  <2>9. Alert => Alert'
    BY <1>2 DEF Alert
  <2>10. PlaceInv'
    <3> SUFFICES ASSUME NEW b \in Activations PROVE Place(b)'
      BY DEF PlaceInv
    <3>1. CASE b # j.act
      <4>1. SameTurns(b)
        BY <1>5, <1>10, <2>1, <3>1 DEF SameTurns
      <4> QED BY <1>2, <1>3, <1>6, <2>4, <2>5, <3>1, <4>1, PlaceKept DEF PlaceInv
    <3>2. CASE b = j.act
      BY <1>3, <1>6, <2>2, <2>5, <3>2, PlaceLeft DEF PlaceInv
    <3> QED BY <3>1, <3>2
  <2> QED BY <1>2, <2>3, <2>6, <2>7, <2>8, <2>9, <2>10, CallsChange
<1>12. CASE ~Turns!Live(j.act) /\ j.part # "turn"
  <2>1. /\ Turns!NextRelay(relays, g) /\ ledger' = ledger \ {Turns!Effect("write-via", j.act, 0)}
        /\ UNCHANGED activations
    BY <1>2, <1>9, <1>12
  <2>2. ~Alive(j.act)
    BY <1>12 DEF Turns!Live, Alive, Stage
  <2>3. Authorizes(j) /\ RelayOf(j.act) /\ relay.kind = "authorizing"
    BY <1>2, <1>3, <1>4, <1>12 DEF RelayInv
  <2>4. \A i \in g.jobs : ~Authorizes(i)
    BY <1>2, <1>3, <1>10, <2>3 DEF RelayInv
  <2>5. IsFiniteSet(g.jobs) /\ g.state = IF g.jobs = {} THEN "idle" ELSE "posted"
    BY <1>2, <1>10
  <2>6. \A b \in Activations : /\ TurnIn(g, b) <=> TurnIn(jobs, b)
                               /\ OneTurnIn(g, b) <=> OneTurnIn(jobs, b)
                               /\ ~RunsIn(g, b)
    BY <1>5, <1>10, <1>12
  <2> QED BY <1>2, <1>4, <1>5, <1>10, <2>1, <2>2, <2>3, <2>4, <2>5, <2>6, RelayEnds
<1> QED BY <1>8, <1>11, <1>12

LEMMA DeclineKeeps ==
    ASSUME TurnsInv, NEW a \in Activations, Turns!Decline(a)
    PROVE  TurnsInv'
<1>1. PICK g : g = Turns!Freed(jobs)
  OBVIOUS
<1>2. /\ micro = <<>> /\ jobs.state = "running" /\ jobs.job.act = a /\ jobs.job.part = "authorize"
      /\ Turns!NextRelay(relays, g) /\ ledger' = ledger \ {Turns!Effect("write-via", a, 0)}
      /\ micro' = IF Turns!Live(a) THEN <<Turns!Settled(a, FALSE)>> ELSE <<>>
      /\ UNCHANGED <<activations, posted, waits, receiver, input, pump, heard, boxes, timers, routed, outbound,
                     closed, receipts>>
  BY <1>1 DEF Turns!Decline, Turns!Running
<1>3. JobsType /\ RelayInv
  BY DEF TurnsInv, TurnTypes
<1>4. /\ g \in Drain /\ g.jobs = jobs.jobs /\ g.job = Turns!NoJob
      /\ g.state = IF jobs.jobs = {} THEN "idle" ELSE "posted"
      /\ \A b : /\ TurnIn(g, b) <=> TurnIn(jobs, b)
                /\ OneTurnIn(g, b) <=> OneTurnIn(jobs, b)
                /\ ~RunsIn(g, b)
  BY <1>1, <1>3, FreedTurns DEF JobsType
<1>5. Authorizes(jobs.job) /\ \A b : ~RunsIn(jobs, b)
  BY <1>2 DEF Authorizes, RunsIn, IsTurnOf
<1>6. RelayOf(a) /\ relay.kind = "authorizing" /\ \A j \in g.jobs : ~Authorizes(j)
  BY <1>2, <1>3, <1>4, <1>5 DEF RelayInv
<1>7. IsFiniteSet(g.jobs) /\ g.state = IF g.jobs = {} THEN "idle" ELSE "posted"
  BY <1>3, <1>4 DEF JobsType
<1>8. Alert => posted
  BY <1>2, NoReactions DEF Alert
<1>9. PICK mm : mm = micro'
  OBVIOUS
<1>10. Alive(a) <=> Turns!Live(a)
  BY DEF Turns!Live, Alive, Stage
<1>11. \A b : OneIn(micro, b) /\ \A o : ~DueIn(micro, b, o)
  BY <1>2, NoReactions
<1>12. /\ MicroType' /\ OneTask(micro)' /\ ~HasTask(micro, "select")'
       /\ \A b \in Activations : b # a => SameDue(b)
       /\ Alive(a) => OneIn(micro, a)' /\ ~DueIn(micro, a, TRUE)' /\ DueIn(micro, a, FALSE)'
  <2>1. CASE Turns!Live(a)
    <3>1. /\ mm \in Seq(Reaction) /\ OneTask(mm) /\ ~HasTask(mm, "select")
          /\ \A b : OneIn(mm, b) /\ \A o : DueIn(mm, b, o) <=> b = a /\ o = FALSE
      BY <1>2, <1>9, <2>1, OneReaction
    <3> QED BY <1>9, <1>11, <3>1 DEF SameDue, MicroType
  <2>2. CASE ~Turns!Live(a)
    <3>1. mm \in Seq(Reaction) /\ OneTask(mm) /\ ~HasTask(mm, "select")
          /\ \A b : OneIn(mm, b) /\ \A o : ~DueIn(mm, b, o)
      BY <1>2, <1>9, <2>2, NoReactions
    <3> QED BY <1>9, <1>10, <1>11, <2>2, <3>1 DEF SameDue, MicroType
  <2> QED BY <2>1, <2>2
<1> QED BY <1>2, <1>4, <1>5, <1>6, <1>7, <1>8, <1>12, RelayEnds

\* What is read joins what was.
LEMMA WholeIs ==
    ASSUME InputType, heard # <<>>, NEW c, c = Head(heard), NEW w,
           w = input \o [i \in 1..MaxSize |-> c]
    PROVE  /\ Tail(heard) \in Seq(Nat) /\ w \in Seq(Nat) /\ w # <<>> /\ w[1] \in Nat
<1>1. heard \in Seq(Nat) /\ input \in Seq(Nat)
  BY DEF InputType
<1>2. c \in Nat /\ Tail(heard) \in Seq(Nat)
  BY <1>1, TailFacts
<1>3. PICK m : m = [i \in 1..MaxSize |-> c]
  OBVIOUS
<1>4. m \in [1..MaxSize -> Nat] /\ MaxSize \in Nat /\ MaxSize > 0
  BY <1>2, <1>3, TurnsConstants
<1>5. m \in Seq(Nat) /\ Len(m) = MaxSize
  BY <1>4, SeqDef
<1>6. w = input \o m
  BY <1>3
<1>7. w \in Seq(Nat) /\ Len(w) = Len(input) + Len(m)
  BY <1>1, <1>5, <1>6, ConcatProperties
<1>8. Len(input) \in Nat
  BY <1>1, LenProperties
<1>9. w # <<>>
  <2>1. Len(w) # 0
    BY <1>4, <1>5, <1>7, <1>8
  <2> QED BY <1>7, <2>1, EmptySeq
<1>10. w[1] \in Nat
  BY <1>7, <1>9, TailFacts
<1> QED BY <1>2, <1>7, <1>9, <1>10

LEMMA ReadSettlesKeeps ==
    ASSUME TurnsInv, Turns!ReadSettles
    PROVE  TurnsInv'
<1>1. PICK c, w, n : /\ c = Head(heard) /\ w = input \o [i \in 1..MaxSize |-> c]
                     /\ n = Turns!Smaller(receiver.octets, Turns!Cardinality({i \in DOMAIN w : w[i] = w[1]}))
  OBVIOUS
<1>2. /\ micro = <<>> /\ heard # <<>> /\ heard' = Tail(heard) /\ pump' = Standing
      /\ IF receiver # Turns!NoReceiver
         THEN /\ input' = SubSeq(w, n + 1, Len(w)) /\ receiver' = Turns!NoReceiver
              /\ activations' = [activations EXCEPT ![Reader] =
                            [activations[Reader] EXCEPT !.stage = "resuming", !.unclaimed = @ + n,
                                                 !.seq = Turns!Larger(receiver.registered, w[1])]]
              /\ ledger' = ledger \ {Turns!Effect("read", Reader, 0)}
              /\ micro' = <<Turns!Settled(Reader, TRUE)>>
         ELSE input' = w /\ UNCHANGED <<receiver, activations, ledger, micro>>
      /\ UNCHANGED waits /\ Turns!ScheduleWait
      /\ UNCHANGED <<jobs, boxes, timers, routed, outbound, relays, relay, closed, receipts>>
  BY <1>1 DEF Turns!ReadSettles
<1>3. TurnTypes /\ PlaceInv /\ WakeInv /\ MailInv /\ TimersInv /\ LedgerInv /\ ReceiptInv /\ RelayInv /\ QueueInv
  BY DEF TurnsInv
<1>4. /\ Tail(heard) \in Seq(Nat) /\ w \in Seq(Nat) /\ w # <<>> /\ w[1] \in Nat
  BY <1>1, <1>2, <1>3, WholeIs DEF TurnTypes
<1>5. receiver \in [registered : Nat, octets : Nat] /\ receiver.octets \in Nat /\ receiver.registered \in Nat
  BY <1>3 DEF TurnTypes, InputType
<1>6. n \in Nat
  <2>1. Turns!Cardinality({i \in DOMAIN w : w[i] = w[1]}) \in Nat
    BY <1>4, HeadRangeIs
  <2> QED BY <1>1, <1>5, <2>1 DEF Turns!Smaller
<1>7. posted' \in BOOLEAN /\ pump' \in BOOLEAN /\ heard' \in Seq(Nat)
  BY <1>2, <1>3, <1>4, TurnsConstants DEF Turns!ScheduleWait, TurnTypes, InputType
<1>8. /\ outbound'.kind = outbound.kind /\ MailInv'
  BY <1>2, <1>3, NobodyWaited, MailKept
<1>9. TimersInv'
  BY <1>2, <1>3, TimersKept
<1>10. \A b \in Activations : SameRoute(b) /\ SameCalls(b) /\ SameTurns(b) /\ (OnWait(b)' <=> OnWait(b))
  BY <1>2, RouteSame, CallsSame, TurnsSame DEF OnWait
<1>11. RelayInv'
  BY <1>2, <1>3, RelayKept
<1>12. receiver' = Turns!NoReceiver
  BY <1>2
<1>13. WakeInv'
  <2>1. \A a \in Activations : waits'[a].octets # 0 => OnWait(a)' /\ a = Reader
    BY <1>2, <1>3, <1>10 DEF WakeInv
  <2>2. \A a \in Activations : Reading(a)' => boxes'[routed'[a].box].queue = <<>>
    BY <1>2, <1>3 DEF WakeInv, Reading
  <2> QED BY <1>2, <1>12, <2>1, <2>2, WakeScheduled
<1>14. JobsType' /\ WaitsType' /\ BoxesType' /\ TimersType' /\ RoutedType' /\ CallsType'
  BY <1>2, <1>3 DEF TurnTypes, JobsType, WaitsType, BoxesType, TimersType, RoutedType, CallsType
<1>15. receipts' \in Nat /\ closed' \in BOOLEAN /\ receiver' \in [registered : Nat, octets : Nat]
  BY <1>2, <1>3, <1>12 DEF TurnTypes, InputType, Turns!NoReceiver
<1>16. CASE receiver = Turns!NoReceiver
  <2>1. input' = w /\ UNCHANGED <<receiver, activations, ledger, micro>>
    BY <1>2, <1>16
  <2>2. InputType' /\ ActsType' /\ MicroType'
    BY <1>3, <1>4, <1>7, <1>15, <2>1 DEF TurnTypes, InputType, ActsType, MicroType
  <2>3. TurnTypes'
    BY <1>14, <2>2 DEF TurnTypes
  <2>4. QueueInv'
    BY <1>2, <1>3, <2>1, QueueKept
  <2>5. \A b \in Activations : SameWait(b) /\ SameStage(b) /\ SameDue(b)
    BY <1>2, <2>1, WaitSame, StageSame, DueSame
  <2>6. PlaceInv'
    BY <1>3, <1>8, <1>10, <2>5, PlaceKept DEF PlaceInv
  <2>7. ReceiptInv'
    BY <1>2, <1>3, <2>1, ReceiptKept DEF TurnTypes, InputType
  <2>8. LedgerInv'
    <3>1. \A b \in Activations : SameWait(b) /\ SameCalls(b) /\ (Reading(b)' <=> Reading(b))
      BY <1>10, <2>5 DEF SameRoute
    <3> QED BY <1>2, <1>3, <2>1, <3>1, LedgerKept
  <2> QED BY <1>8, <1>9, <1>11, <1>13, <2>3, <2>4, <2>6, <2>7, <2>8 DEF TurnsInv
<1>17. CASE receiver # Turns!NoReceiver
  <2>1. PICK a, v, u, x : /\ a = Reader /\ v = Turns!Larger(receiver.registered, w[1])
                          /\ u = activations[a].unclaimed + n
                          /\ x = [activations[a] EXCEPT !.stage = "resuming", !.unclaimed = u, !.seq = v]
    BY Zenon
  <2>2. /\ input' = SubSeq(w, n + 1, Len(w))
        /\ activations' = [activations EXCEPT ![a] =
                      [activations[a] EXCEPT !.stage = "resuming", !.unclaimed = @ + n, !.seq = v]]
        /\ ledger' = ledger \ {Turns!Effect("read", a, 0)}
        /\ micro' = <<Turns!Settled(a, TRUE)>>
    BY <1>2, <1>17, <2>1
  <2>3. a \in Activations /\ v \in Nat /\ u \in Nat /\ activations[a] \in Activity
    <3>1. a \in Activations /\ v \in Nat
      BY <1>4, <1>5, <2>1, TurnsConstants DEF Turns!Larger
    <3>2. activations[a] \in Activity
      BY <1>3, <3>1 DEF TurnTypes, ActsType
    <3> QED BY <1>6, <2>1, <3>1, <3>2 DEF Activity
  <2>4. x \in Activity /\ x.stage = "resuming" /\ x.receipt = activations[a].receipt
    BY <2>1, <2>3 DEF Activity, Stages
  <2>5. activations' = [activations EXCEPT ![a] = x]
    <3>1. PICK y : y = [activations[a] EXCEPT !.stage = "resuming", !.unclaimed = @ + n, !.seq = v]
      OBVIOUS
    <3>2. y = x
      BY <2>1, <2>3, <3>1 DEF Activity
    <3>3. activations' = [activations EXCEPT ![a] = y]
      BY <2>2, <3>1
    <3> QED BY <3>2, <3>3
  <2>6. /\ ActsType' /\ activations'[a] = x /\ Stage(a)' = "resuming"
        /\ \A b \in Activations : b # a => activations'[b] = activations[b] /\ SameStage(b)
    BY <1>3, <2>3, <2>4, <2>5, ActChanged DEF TurnTypes
  <2>7. PICK mm : mm = micro'
    OBVIOUS
  <2>8. /\ mm \in Seq(Reaction) /\ OneTask(mm) /\ ~HasTask(mm, "select")
        /\ \A b : OneIn(mm, b) /\ \A o : DueIn(mm, b, o) <=> b = a /\ o = TRUE
    BY <2>2, <2>3, <2>7, OneReaction
  <2>9. \A b : \A o : ~DueIn(micro, b, o)
    BY <1>2, NoReactions
  <2>10. /\ MicroType' /\ OneTask(micro)' /\ ~HasTask(micro, "select")'
         /\ \A b : b # a => SameDue(b)
         /\ OneIn(micro, a)' /\ DueIn(micro, a, TRUE)' /\ ~DueIn(micro, a, FALSE)'
    BY <2>7, <2>8, <2>9 DEF SameDue, MicroType
  <2>11. QueueInv'
    BY <1>2, <1>3, <2>10 DEF QueueInv
  <2>12. input' \in Seq(Nat)
    BY <1>4, <1>6, <2>2, RestFacts
  <2>13. TurnTypes'
    BY <1>7, <1>14, <1>15, <2>6, <2>10, <2>12 DEF TurnTypes, InputType
  <2>14. Receiving(a) /\ ~Receiving(a)' /\ \A b \in Activations : b # a => SameWait(b)
    BY <1>10, <1>12, <1>17, <2>1 DEF Receiving, SameWait
  <2>15. Place(a) /\ Stage(a) = "suspended" /\ Alive(a) /\ Boxless(a)
    BY <1>3, <2>3, <2>14 DEF PlaceInv, Place, Alive
  <2>16. /\ ~OnWait(a) /\ ~Reading(a) /\ ~ByChild(a) /\ ~HandsBack(a) /\ ~Calling(a) /\ ~RelayOf(a) /\ ~Relayed(a)
         /\ ~TurnIn(jobs, a) /\ OneTurnIn(jobs, a) /\ ~RunsIn(jobs, a)
    BY <2>14, <2>15 DEF Place, Calls
  <2>17. /\ ~OnWait(a)' /\ ~Reading(a)' /\ ~ByChild(a)' /\ ~HandsBack(a)' /\ ~Calling(a)' /\ ~RelayOf(a)'
         /\ ~Relayed(a)' /\ ~TurnIn(jobs, a)' /\ OneTurnIn(jobs, a)' /\ ~RunsIn(jobs, a)'
    BY <1>10, <2>3, <2>16 DEF SameRoute, SameCalls, SameTurns
  <2>18. PlaceInv'
    <3> SUFFICES ASSUME NEW b \in Activations PROVE Place(b)'
      BY DEF PlaceInv
    <3>1. CASE b # a
      BY <1>3, <1>8, <1>10, <2>6, <2>10, <2>14, <3>1, PlaceKept DEF PlaceInv
    <3>2. CASE b = a
      BY <2>6, <2>10, <2>14, <2>17, <3>2 DEF Place, Calls, Alive
    <3> QED BY <3>1, <3>2
  <2>19. ReceiptInv'
    <3>1. \A b \in Activations : activations'[b].receipt \in {0, activations[b].receipt}
      BY <2>4, <2>6
    <3> QED BY <1>2, <1>3, <3>1, ReceiptKept DEF TurnTypes, InputType
  <2>20. LedgerInv'
    <3>1. \A k, b, d : Held(k, b, d)' <=> Held(k, b, d) /\ ~(k = "read" /\ b = a /\ d = 0)
      BY <2>2, EffectGone
    <3>2. ASSUME NEW k \in EffectKinds, NEW b \in Activations, NEW d \in Nat
          PROVE  Held(k, b, d)' <=> Owed(k, b, d)'
      <4>1. TimerAt(k, b, d)' <=> TimerAt(k, b, d)
        BY <1>2 DEF TimerAt
      <4>2. outbound' = outbound /\ (Held(k, b, d) <=> Owed(k, b, d))
        BY <1>2, <1>3 DEF LedgerInv
      <4>3. (OnWait(b)' <=> OnWait(b)) /\ (Reading(b)' <=> Reading(b)) /\ SameCalls(b)
        BY <1>10 DEF SameRoute
      <4>4. CASE b # a
        <5>1. Receiving(b)' <=> Receiving(b)
          BY <2>14, <4>4 DEF SameWait
        <5> QED BY <3>1, <4>1, <4>2, <4>3, <4>4, <5>1 DEF Owed, SameCalls
      <4>5. CASE b = a
        BY <2>14, <2>16, <2>17, <3>1, <4>1, <4>2, <4>3, <4>5 DEF Owed, SameCalls, TimedKinds
      <4> QED BY <4>4, <4>5
    <3>3. ledger' \subseteq [kind : EffectKinds, act : Activations, id : Nat]
      BY <1>3, <2>2 DEF LedgerInv
    <3> QED BY <3>2, <3>3 DEF LedgerInv
  <2> QED BY <1>8, <1>9, <1>11, <1>13, <2>11, <2>13, <2>18, <2>19, <2>20 DEF TurnsInv
<1> QED BY <1>16, <1>17

\* No call and no relay.
LEMMA NoCallIs ==
    /\ Turns!NoCall.act = "nobody" /\ Turns!NoCall.kind = "none"
    /\ Turns!NoCall \in Call /\ Turns!NoCall \in Relay
    /\ \A c \in Call : c.kind = "none" /\ c.act = "nobody" => c = Turns!NoCall
    /\ \A c \in Relay : c.kind = "none" /\ c.act = "nobody" => c = Turns!NoCall
BY DEF Turns!NoCall, Turns!Nobody, Call, Relay

\* A relay joins those that wait.
LEMMA JoinedIs ==
    ASSUME NEW q \in Seq(Activations), Distinct(q), NEW a \in Activations, a \notin In(q),
           NEW p, p = Append(q, a)
    PROVE  p \in Seq(Activations) /\ Distinct(p) /\ In(p) = In(q) \cup {a}
<1>1. /\ Append(q, a) \in Seq(Activations) /\ Len(q) \in Nat
      /\ DOMAIN q = 1..Len(q) /\ DOMAIN Append(q, a) = 1..Len(q) + 1
      /\ \A i \in DOMAIN q : Append(q, a)[i] = q[i] /\ i \in DOMAIN Append(q, a)
      /\ Append(q, a)[Len(q) + 1] = a
      /\ \A i \in DOMAIN Append(q, a) : i \in DOMAIN q \/ i = Len(q) + 1
  BY AppendFacts
<1>2. PICK l : l = Len(q) + 1
  OBVIOUS
<1>3. /\ p \in Seq(Activations) /\ p[l] = a /\ l \in DOMAIN p
      /\ \A i \in DOMAIN q : p[i] = q[i] /\ i \in DOMAIN p
      /\ \A i \in DOMAIN p : i \in DOMAIN q \/ i = l
  BY <1>1, <1>2
<1>4. \A i \in DOMAIN q : q[i] # a
  BY DEF In
<1>5. Distinct(p)
  BY <1>3, <1>4 DEF Distinct
<1>6. In(p) = In(q) \cup {a}
  BY <1>3 DEF In
<1> QED BY <1>3, <1>5, <1>6

LEMMA AloneIs ==
    ASSUME NEW a \in Activations, NEW p, p = <<a>>
    PROVE  p \in Seq(Activations) /\ Distinct(p) /\ In(p) = {a}
<1>1. DOMAIN p = {1} /\ p[1] = a
  OBVIOUS
<1>2. p \in Seq(Activations)
  OBVIOUS
<1> QED BY <1>1, <1>2 DEF Distinct, In

\* Where a write that is relayed waits: its relay runs, or it waits for that.
LEMMA WriteViaRelays ==
    ASSUME TurnsInv, NEW a \in Activations, Turns!WriteVia(a)
    PROVE  /\ JobsType' /\ QueueInv' /\ RelayInv' /\ CallsType'
           /\ \A b : b # a => SameTurns(b)
           /\ ~TurnIn(jobs, a)' /\ OneTurnIn(jobs, a)' /\ ~RunsIn(jobs, a)' /\ (Alert => posted)
           /\ \A b \in Activations : b # a => SameCalls(b)
           /\ RelayOf(a)' \/ Relayed(a)'
           /\ ~(RelayOf(a)' /\ Relayed(a)')
<1>1. /\ Turns!Running(a, "turn") /\ Turns!Live(a) /\ outbound = Turns!NoCall
      /\ UNCHANGED <<micro, outbound>>
  BY DEF Turns!WriteVia, Turns!Requests
<1>2. TurnTypes /\ RelayInv /\ JobsType /\ relays \in Seq(Activations) /\ relay \in Relay /\ outbound \in Call /\ Distinct(relays)
  BY DEF TurnsInv, TurnTypes, CallsType, RelayInv
<1>3. /\ micro = <<>> /\ jobs.state = "running" /\ ~Authorizes(jobs.job) /\ ~RelayOf(a) /\ ~Relayed(a)
      /\ RunsIn(jobs, a) /\ ~TurnIn(jobs, a) /\ OneTurnIn(jobs, a) /\ \A b : b # a => ~RunsIn(jobs, b)
  BY <1>1, RunningIs
<1>4. OneTask(micro)' /\ ~HasTask(micro, "select")' /\ ~HasTask(micro, "consider")
  BY <1>1, <1>3, NoReactions
<1>5. /\ outbound.kind = "none" /\ outbound.act = "nobody" /\ outbound'.kind = "none" /\ outbound'.act = "nobody"
      /\ relay.kind # "submitted"
  BY <1>1, <1>2, NoCallIs DEF RelayInv
<1>6. \A b \in Activations : ~Calling(b) /\ ~Calling(b)'
  BY <1>5, TurnsConstants DEF Calling
<1>7. Alert => posted
  BY <1>3, <1>4 DEF Alert
<1>8. CASE relay = Turns!NoCall
  <2>1. PICK g, p : g = Turns!Freed(jobs) /\ p = <<a>>
    OBVIOUS
  <2>2. Turns!NextRelay(p, g)
    BY <1>8, <2>1 DEF Turns!WriteVia
  <2>3. p \in Seq(Activations) /\ Distinct(p) /\ In(p) = {a}
    BY <2>1, AloneIs
  <2>4. /\ g \in Drain /\ g.jobs = jobs.jobs /\ g.job = Turns!NoJob
        /\ g.state = IF jobs.jobs = {} THEN "idle" ELSE "posted"
        /\ \A b : /\ TurnIn(g, b) <=> TurnIn(jobs, b)
                  /\ OneTurnIn(g, b) <=> OneTurnIn(jobs, b)
                  /\ ~RunsIn(g, b)
        /\ ~Authorizes(g.job)
    BY <1>2, <2>1, FreedTurns DEF JobsType
  <2>5. relay.kind = "none" /\ relay.act = "nobody" /\ relays = <<>>
    BY <1>2, <1>8, NoCallIs DEF RelayInv
  <2>6. IsFiniteSet(g.jobs) /\ \A j \in g.jobs : ~Authorizes(j)
    BY <1>2, <2>4, <2>5 DEF JobsType, RelayInv
  <2>7. /\ relays' \in Seq(Activations) /\ Distinct(relays)' /\ relay' \in Relay
        /\ JobsType' /\ jobs'.job = g.job
        /\ g.state # "idle" => jobs'.state = g.state
        /\ g.state = "idle" => jobs'.state = IF jobs'.jobs = g.jobs THEN "idle" ELSE "posted"
        /\ g.jobs \subseteq jobs'.jobs
        /\ \A b : /\ TurnIn(jobs, b)' <=> TurnIn(g, b)
                  /\ OneTurnIn(jobs, b)' <=> OneTurnIn(g, b)
                  /\ RunsIn(jobs, b)' <=> RunsIn(g, b)
        /\ \A b \in Activations : /\ RelayOf(b)' \/ Relayed(b)' <=> b \in In(p)
                                  /\ ~(RelayOf(b)' /\ Relayed(b)')
        /\ relay'.kind # "submitted" /\ (relay'.kind = "none" <=> relay'.act = "nobody")
        /\ relays' # <<>> => relay'.kind = "authorizing"
        /\ \A j \in jobs'.jobs : Authorizes(j) => RelayOf(j.act)' /\ relay'.kind = "authorizing"
        /\ \A j, k \in jobs'.jobs : Authorizes(j) /\ Authorizes(k) => j = k
        /\ relay'.kind = "authorizing" => \E j \in jobs'.jobs : Authorizes(j)
    BY <1>2, <2>2, <2>3, <2>4, <2>6, NextRelayIs
  <2>8. QueueInv'
    <3>1. jobs'.job = Turns!NoJob /\ jobs'.state \in {"idle", "posted"}
      BY <2>4, <2>7
    <3>2. jobs'.state = "posted" => jobs'.jobs # {}
      BY <2>4, <2>7
    <3>3. jobs'.state = "idle" => jobs'.jobs = {}
      BY <2>4, <2>7
    <3> QED BY <1>4, <3>1, <3>2, <3>3 DEF QueueInv
  <2>9. RelayInv'
    <3>1. ~Authorizes(jobs'.job)
      BY <2>4, <2>7
    <3> QED BY <1>5, <2>7, <3>1 DEF RelayInv
  <2>10. CallsType'
    BY <1>1, <1>2, <2>7 DEF CallsType
  <2>11. \A b : b # a => SameTurns(b)
    BY <1>3, <2>4, <2>7 DEF SameTurns
  <2>12. ~TurnIn(jobs, a)' /\ OneTurnIn(jobs, a)' /\ ~RunsIn(jobs, a)'
    BY <1>3, <2>4, <2>7
  <2>13. ASSUME NEW b \in Activations, b # a PROVE SameCalls(b)
    <3>1. ~RelayOf(b) /\ ~Relayed(b)
      BY <2>5, TurnsConstants DEF RelayOf, Relayed, In
    <3>2. ~RelayOf(b)' /\ ~Relayed(b)'
      BY <2>3, <2>7, <2>13
    <3> QED BY <1>6, <3>1, <3>2 DEF SameCalls
  <2>14. (RelayOf(a)' \/ Relayed(a)') /\ ~(RelayOf(a)' /\ Relayed(a)')
    BY <2>3, <2>7
  <2> QED BY <1>7, <2>7, <2>8, <2>9, <2>10, <2>11, <2>12, <2>13, <2>14
<1>9. CASE relay # Turns!NoCall
  <2>1. relays' = Append(relays, a) /\ jobs' = Turns!Freed(jobs) /\ UNCHANGED <<relay>>
    BY <1>9 DEF Turns!WriteVia
  <2>2. relay.kind = "authorizing"
    <3>1. relay.kind # "none"
      BY <1>2, <1>9, NoCallIs DEF RelayInv
    <3> QED BY <1>2, <1>5, <3>1 DEF Relay
  <2>3. PICK p, q : p = relays' /\ q = relays
    OBVIOUS
  <2>4. p \in Seq(Activations) /\ Distinct(p) /\ In(p) = In(q) \cup {a}
    BY <1>2, <1>3, <2>1, <2>3, JoinedIs DEF Relayed
  <2>5. /\ JobsType' /\ QueueInv' /\ ~Authorizes(jobs'.job) /\ jobs'.jobs = jobs.jobs
        /\ \A b : b # a => SameTurns(b)
        /\ ~TurnIn(jobs, a)' /\ OneTurnIn(jobs, a)' /\ ~RunsIn(jobs, a)'
    BY <1>1, <1>4, <2>1, LeftQueue
  <2>6. relay' = relay /\ outbound' = outbound /\ Distinct(relays)'
    BY <1>1, <2>1, <2>3, <2>4
  <2>7. \A b : RelayOf(b)' <=> RelayOf(b)
    BY <2>6 DEF RelayOf
  <2>8. RelayInv'
    <3>1. PICK jj : jj = jobs'
      OBVIOUS
    <3>2. jj.jobs = jobs.jobs /\ ~Authorizes(jj.job)
      BY <2>5, <3>1
    <3>3. /\ \A j \in jj.jobs : Authorizes(j) => RelayOf(j.act)' /\ relay'.kind = "authorizing"
          /\ \A j, k \in jj.jobs : Authorizes(j) /\ Authorizes(k) => j = k
          /\ relay'.kind = "authorizing" => Authorizes(jj.job) \/ \E j \in jj.jobs : Authorizes(j)
      BY <1>2, <1>3, <2>6, <2>7, <3>2 DEF RelayInv
    <3>4. /\ relay'.kind = "submitted" <=> outbound'.kind = "relay"
          /\ relay'.kind = "submitted" => relay'.act = outbound'.act
          /\ relay'.kind = "none" <=> relay'.act = "nobody"
          /\ outbound'.kind = "none" <=> outbound'.act = "nobody"
          /\ relay'.kind = "authorizing"
      BY <1>2, <2>2, <2>6 DEF RelayInv
    <3> QED BY <2>6, <3>1, <3>2, <3>3, <3>4 DEF RelayInv
  <2>9. CallsType'
    BY <1>2, <2>3, <2>4, <2>6 DEF CallsType
  <2>10. \A b \in Activations : Relayed(b)' <=> Relayed(b) \/ b = a
    BY <2>3, <2>4 DEF Relayed
  <2>11. \A b \in Activations : b # a => SameCalls(b)
    BY <1>6, <2>7, <2>10 DEF SameCalls
  <2>12. Relayed(a)' /\ ~RelayOf(a)'
    BY <1>3, <2>7, <2>10
  <2> QED BY <1>7, <2>5, <2>8, <2>9, <2>11, <2>12
<1> QED BY <1>8, <1>9

LEMMA WriteViaKeeps ==
    ASSUME TurnsInv, NEW a \in Activations, Turns!WriteVia(a)
    PROVE  TurnsInv'
<1>1. /\ Turns!Running(a, "turn") /\ Turns!Live(a) /\ outbound = Turns!NoCall
      /\ activations' = [activations EXCEPT ![a].stage = "suspended"]
      /\ ledger' = ledger \cup {Turns!Effect("write-via", a, 0)}
      /\ UNCHANGED <<micro, posted, waits, receiver, input, pump, heard, boxes, timers, routed, outbound,
                     closed, receipts>>
  BY DEF Turns!WriteVia, Turns!Requests
<1>2. TurnTypes /\ PlaceInv /\ LedgerInv
  BY DEF TurnsInv
<1>3. /\ JobsType' /\ QueueInv' /\ RelayInv' /\ CallsType'
      /\ \A b : b # a => SameTurns(b)
      /\ ~TurnIn(jobs, a)' /\ OneTurnIn(jobs, a)' /\ ~RunsIn(jobs, a)' /\ (Alert => posted)
      /\ \A b \in Activations : b # a => SameCalls(b)
      /\ RelayOf(a)' \/ Relayed(a)'
      /\ ~(RelayOf(a)' /\ Relayed(a)')
  BY WriteViaRelays
<1>4. /\ micro = <<>>
      /\ ~OnWait(a) /\ ~Receiving(a) /\ ~ByChild(a) /\ ~Reading(a) /\ RunsIn(jobs, a)
      /\ ~HandsBack(a) /\ ~Calling(a) /\ ~RelayOf(a) /\ ~Relayed(a)
  BY <1>1, RunningIs
<1>5. \A b : OneIn(micro, b)' /\ \A o : ~DueIn(micro, b, o)'
  BY <1>1, <1>4, NoReactions
<1>6. /\ ActsType' /\ Stage(a)' = "suspended"
      /\ \A b \in Activations : activations'[b].receipt = activations[b].receipt
      /\ \A b \in Activations : b # a => activations'[b] = activations[b] /\ SameStage(b)
  BY <1>1, <1>2, StageChanged DEF Stages, TurnTypes
<1>7. \A b \in Activations : SameWait(b) /\ SameRoute(b) /\ SameDue(b) /\ (Calling(b)' <=> Calling(b))
  BY <1>1, WaitSame, RouteSame, DueSame DEF Calling
<1>8. MicroType' /\ outbound' = outbound
  BY <1>1, <1>2 DEF TurnTypes, MicroType
<1>9. PlaceInv'
  <2> SUFFICES ASSUME NEW b \in Activations PROVE Place(b)'
    BY DEF PlaceInv
  <2>1. CASE b # a
    BY <1>2, <1>3, <1>6, <1>7, <1>8, <2>1, PlaceKept DEF PlaceInv
  <2>2. CASE b = a
    <3>1. /\ ~Receiving(a)' /\ ~OnWait(a)' /\ ~Calling(a)' /\ ~ByChild(a)' /\ ~Reading(a)' /\ ~HandsBack(a)'
      BY <1>4, <1>7 DEF SameWait, SameRoute
    <3> QED BY <1>3, <1>5, <1>6, <2>2, <3>1 DEF Place, Calls, Alive
  <2> QED BY <2>1, <2>2
<1>10. LedgerInv'
  <2>1. \A k, b, d : Held(k, b, d)' <=> Held(k, b, d) \/ (k = "write-via" /\ b = a /\ d = 0)
    BY <1>1, EffectAdded
  <2>2. \A k, b, d : k \notin CallKinds \/ d # 0 => (Held(k, b, d)' <=> Held(k, b, d))
    BY <2>1 DEF CallKinds
  <2>3. ASSUME NEW b \in Activations
        PROVE  /\ Held("write", b, 0)' <=> Calling(b)' /\ outbound'.kind \in {"write", "relay"}
               /\ Held("control", b, 0)' <=> Calling(b)' /\ outbound'.kind = "control"
               /\ Held("write-via", b, 0)' <=> RelayOf(b)' \/ Relayed(b)'
    <3>1. /\ Held("write", b, 0) <=> Calling(b) /\ outbound.kind \in {"write", "relay"}
          /\ Held("control", b, 0) <=> Calling(b) /\ outbound.kind = "control"
          /\ Held("write-via", b, 0) <=> RelayOf(b) \/ Relayed(b)
      BY <1>2, CallsHeld
    <3>2. RelayOf(b)' \/ Relayed(b)' <=> RelayOf(b) \/ Relayed(b) \/ b = a
      BY <1>3 DEF SameCalls
    <3> QED BY <1>7, <1>8, <2>1, <3>1, <3>2
  <2>4. ledger' \subseteq [kind : EffectKinds, act : Activations, id : Nat]
    <3>1. Turns!Effect("write-via", a, 0) \in [kind : EffectKinds, act : Activations, id : Nat]
      BY EffectType DEF EffectKinds
    <3> QED BY <1>1, <1>2, <3>1 DEF LedgerInv
  <2> QED BY <1>1, <1>2, <2>2, <2>3, <2>4, LedgerCalls
<1>11. Alert => Alert'
  BY <1>1, <1>3 DEF Alert
<1>12. \A b \in Activations : activations'[b].receipt \in {0, activations[b].receipt}
  BY <1>6
<1> QED BY <1>1, <1>3, <1>6, <1>8, <1>9, <1>10, <1>11, <1>12, CallsChange

\* A write that is submitted refuses the relays that wait.
LEMMA RefusedRelays ==
    ASSUME TurnsInv, micro' = Turns!RefuseRelays, relays' = <<>>
    PROVE  /\ MicroType' /\ OneTask(micro)' /\ ~HasTask(micro, "select")'
           /\ \A b : OneIn(micro, b)' /\ \A o : DueIn(micro, b, o)' <=> Relayed(b) /\ o = FALSE
           /\ relays' \in Seq(Activations) /\ Distinct(relays)' /\ \A b : ~Relayed(b)'
<1>1. relays \in Seq(Activations) /\ Distinct(relays)
  BY DEF TurnsInv, TurnTypes, CallsType, RelayInv
<1>2. PICK mm : mm = micro'
  OBVIOUS
<1>3. mm = [i \in DOMAIN relays |-> Turns!Settled(relays[i], FALSE)]
  BY <1>2 DEF Turns!RefuseRelays
<1>4. /\ mm \in Seq(Reaction) /\ OneTask(mm) /\ \A w \in {"consider", "select"} : ~HasTask(mm, w)
      /\ \A b : OneIn(mm, b) /\ \A o : DueIn(mm, b, o) <=> b \in In(relays) /\ o = FALSE
  BY <1>1, <1>3, RelaysRefused
<1>5. /\ MicroType' /\ OneTask(micro)' /\ ~HasTask(micro, "select")'
  BY <1>2, <1>4 DEF MicroType
<1>6. \A b : OneIn(micro, b)' /\ \A o : DueIn(micro, b, o)' <=> Relayed(b) /\ o = FALSE
  BY <1>2, <1>4 DEF Relayed
<1>7. relays' \in Seq(Activations) /\ Distinct(relays)' /\ \A b : ~Relayed(b)'
  BY DEF Distinct, Relayed, In
<1> QED BY <1>5, <1>6, <1>7

\* The ledger forgets them.
LEMMA UnrelayedIs ==
    ASSUME NEW e
    PROVE  \A k, b, d : [kind |-> k, act |-> b, id |-> d] \in Turns!Unrelayed \cup {e}
               <=> \/ Held(k, b, d) /\ ~(k = "write-via" /\ Relayed(b) /\ d = 0)
                   \/ e = [kind |-> k, act |-> b, id |-> d]
<1> TAKE k, b, d
<1>1. PICK x : x = [kind |-> k, act |-> b, id |-> d]
  OBVIOUS
<1>2. x \in {Turns!Effect("write-via", relays[i], 0) : i \in DOMAIN relays}
         <=> k = "write-via" /\ Relayed(b) /\ d = 0
  BY <1>1 DEF Turns!Effect, Relayed, In
<1>3. x \in Turns!Unrelayed <=> x \in ledger /\ ~(k = "write-via" /\ Relayed(b) /\ d = 0)
  BY <1>2 DEF Turns!Unrelayed
<1> QED BY <1>1, <1>3 DEF Held

\* An activation whose relay is refused.
LEMMA PlaceRefused ==
    ASSUME NEW b, Place(b), Relayed(b), SameStage(b), SameWait(b), SameRoute(b), SameTurns(b),
           ~Calling(b)', ~RelayOf(b)', ~Relayed(b)', OneIn(micro, b)',
           ~DueIn(micro, b, TRUE)', DueIn(micro, b, FALSE)'
    PROVE  Place(b)'
<1>1. Stage(b) = "suspended" /\ Alive(b) /\ ~OnWait(b) /\ ~Receiving(b) /\ ~Reading(b) /\ ~ByChild(b)
  BY DEF Place, Alive
<1>2. ~HandsBack(b) /\ ~TurnIn(jobs, b) /\ OneTurnIn(jobs, b) /\ ~RunsIn(jobs, b)
  BY <1>1 DEF Place
<1>3. /\ Stage(b)' = "suspended" /\ ~OnWait(b)' /\ ~Receiving(b)' /\ ~Reading(b)' /\ ~ByChild(b)'
      /\ ~HandsBack(b)' /\ ~TurnIn(jobs, b)' /\ OneTurnIn(jobs, b)' /\ ~RunsIn(jobs, b)'
  BY <1>1, <1>2 DEF SameStage, SameWait, SameRoute, SameTurns
<1> QED BY <1>3 DEF Place, Calls, Alive

\* A call is made, of a write that was not relayed or of a control transfer.
LEMMA WriteKeeps ==
    ASSUME TurnsInv, NEW a \in Activations, NEW k0 \in {"write", "control"}, Turns!Write(a, k0)
    PROVE  TurnsInv'
<1>1. /\ Turns!Running(a, "turn") /\ Turns!Live(a) /\ outbound = Turns!NoCall
      /\ outbound' = [act |-> a, kind |-> k0]
      /\ IF k0 = "write"
         THEN micro' = Turns!RefuseRelays /\ relays' = <<>> /\ ledger' = Turns!Unrelayed \cup {Turns!Effect(k0, a, 0)}
         ELSE ledger' = ledger \cup {Turns!Effect(k0, a, 0)} /\ UNCHANGED <<micro, relays>>
      /\ activations' = [activations EXCEPT ![a].stage = "suspended"] /\ jobs' = Turns!Freed(jobs)
      /\ UNCHANGED <<posted, waits, receiver, input, pump, heard, boxes, timers, routed, relay, closed, receipts>>
  BY DEF Turns!Write, Turns!Requests, Turns!Suspend
<1>2. TurnTypes /\ PlaceInv /\ LedgerInv /\ RelayInv
  BY DEF TurnsInv
<1>3. /\ micro = <<>>
      /\ ~OnWait(a) /\ ~Receiving(a) /\ ~ByChild(a) /\ ~Reading(a) /\ RunsIn(jobs, a)
      /\ ~HandsBack(a) /\ ~Calling(a) /\ ~RelayOf(a) /\ ~Relayed(a) /\ ~Authorizes(jobs.job)
  BY <1>1, RunningIs
<1>4. /\ outbound.kind = "none" /\ outbound.act = "nobody" /\ relay.kind # "submitted"
      /\ outbound'.kind = k0 /\ outbound'.act = a /\ outbound' \in Call /\ a # "nobody"
  BY <1>1, <1>2, NoCallIs, TurnsConstants DEF RelayInv, Call
<1>5. \A b \in Activations : ~Calling(b) /\ (Calling(b)' <=> b = a) /\ (RelayOf(b)' <=> RelayOf(b))
  BY <1>1, <1>4, TurnsConstants DEF Calling, RelayOf
<1>6. /\ MicroType' /\ OneTask(micro)' /\ ~HasTask(micro, "select")'
      /\ \A b : OneIn(micro, b)' /\ \A o : DueIn(micro, b, o)' <=> k0 = "write" /\ Relayed(b) /\ o = FALSE
      /\ relays' \in Seq(Activations) /\ Distinct(relays)' /\ \A b : Relayed(b)' <=> k0 # "write" /\ Relayed(b)
      /\ relays' # <<>> => relays # <<>>
  <2>1. CASE k0 = "write"
    BY <1>1, <2>1, RefusedRelays
  <2>2. CASE k0 # "write"
    <3>1. micro' = <<>> /\ relays' = relays
      BY <1>1, <1>3, <2>2
    <3>2. MicroType' /\ OneTask(micro)' /\ ~HasTask(micro, "select")' /\ \A b : OneIn(micro, b)' /\ \A o : ~DueIn(micro, b, o)'
      BY <3>1, NoReactions DEF MicroType
    <3>3. relays' \in Seq(Activations) /\ Distinct(relays)' /\ \A b : Relayed(b)' <=> Relayed(b)
      BY <1>2, <3>1 DEF TurnTypes, CallsType, RelayInv, Relayed
    <3> QED BY <2>2, <3>1, <3>2, <3>3
  <2> QED BY <2>1, <2>2
<1>7. /\ JobsType' /\ QueueInv' /\ ~Authorizes(jobs'.job) /\ jobs'.jobs = jobs.jobs
      /\ \A b : b # a => SameTurns(b)
      /\ ~TurnIn(jobs, a)' /\ OneTurnIn(jobs, a)' /\ ~RunsIn(jobs, a)' /\ (Alert => posted)
  BY <1>1, <1>6, LeftQueue
<1>8. /\ ActsType' /\ Stage(a)' = "suspended"
      /\ \A b \in Activations : activations'[b].receipt = activations[b].receipt
      /\ \A b \in Activations : b # a => activations'[b] = activations[b] /\ SameStage(b)
  BY <1>1, <1>2, StageChanged DEF Stages, TurnTypes
<1>9. \A b \in Activations : SameWait(b) /\ SameRoute(b)
  BY <1>1, WaitSame, RouteSame
<1>10. RelayInv'
  <2>1. PICK jj : jj = jobs'
    OBVIOUS
  <2>2. jj.jobs = jobs.jobs /\ ~Authorizes(jj.job) /\ relay' = relay
    BY <1>1, <1>7, <2>1
  <2>3. /\ \A j \in jj.jobs : Authorizes(j) => RelayOf(j.act)' /\ relay'.kind = "authorizing"
        /\ \A j, k \in jj.jobs : Authorizes(j) /\ Authorizes(k) => j = k
        /\ relay'.kind = "authorizing" => Authorizes(jj.job) \/ \E j \in jj.jobs : Authorizes(j)
    BY <1>2, <1>3, <2>2 DEF RelayInv, RelayOf
  <2>4. /\ relay'.kind = "submitted" <=> outbound'.kind = "relay"
        /\ relay'.kind = "submitted" => relay'.act = outbound'.act
        /\ relay'.kind = "none" <=> relay'.act = "nobody"
        /\ outbound'.kind = "none" <=> outbound'.act = "nobody"
        /\ relays' # <<>> => relay'.kind = "authorizing"
    BY <1>2, <1>4, <1>6, <2>2 DEF RelayInv
  <2> QED BY <1>6, <2>1, <2>2, <2>3, <2>4 DEF RelayInv
<1>11. CallsType'
  BY <1>1, <1>2, <1>4, <1>6 DEF TurnTypes, CallsType
<1>12. PlaceInv'
  <2> SUFFICES ASSUME NEW b \in Activations PROVE Place(b)'
    BY DEF PlaceInv
  <2>0. Place(b)
    BY <1>2 DEF PlaceInv
  <2>1. CASE b # a /\ k0 = "write" /\ Relayed(b)
    <3>1. ~RelayOf(b)
      BY <2>0, <2>1 DEF Place, Calls, Alive
    <3>2. /\ OneIn(micro, b)' /\ ~DueIn(micro, b, TRUE)' /\ DueIn(micro, b, FALSE)'
          /\ ~Calling(b)' /\ ~RelayOf(b)' /\ ~Relayed(b)'
      BY <1>5, <1>6, <2>1, <3>1
    <3> QED BY <1>7, <1>8, <1>9, <2>0, <2>1, <3>2, PlaceRefused
  <2>2. CASE b # a /\ ~(k0 = "write" /\ Relayed(b))
    <3>1. SameCalls(b) /\ ~Calling(b)
      BY <1>5, <1>6, <2>2 DEF SameCalls
    <3>2. \A o : ~DueIn(micro, b, o) /\ ~DueIn(micro, b, o)'
      BY <1>3, <1>6, <2>2, NoReactions
    <3>3. SameDue(b)
      BY <1>6, <3>2 DEF SameDue
    <3> QED BY <1>7, <1>8, <1>9, <2>0, <2>2, <3>1, <3>3, PlaceCalm
  <2>3. CASE b = a
    <3>1. /\ ~Receiving(a)' /\ ~OnWait(a)' /\ ~ByChild(a)' /\ ~Reading(a)' /\ ~HandsBack(a)'
          /\ Calling(a)' /\ ~RelayOf(a)' /\ ~Relayed(a)'
      BY <1>3, <1>5, <1>6, <1>9 DEF SameWait, SameRoute
    <3>2. OneIn(micro, a)' /\ ~DueIn(micro, a, TRUE)' /\ ~DueIn(micro, a, FALSE)'
      BY <1>3, <1>6
    <3> QED BY <1>7, <1>8, <2>3, <3>1, <3>2 DEF Place, Calls, Alive
  <2> QED BY <2>1, <2>2, <2>3
<1>13. LedgerInv'
  <2>1. \A k, b, d : Held(k, b, d)' <=>
            \/ Held(k, b, d) /\ ~(k0 = "write" /\ k = "write-via" /\ Relayed(b) /\ d = 0)
            \/ (k = k0 /\ b = a /\ d = 0)
    <3>1. CASE k0 = "write"
      <4>1. PICK e : e = Turns!Effect(k0, a, 0)
        OBVIOUS
      <4>2. ledger' = Turns!Unrelayed \cup {e}
        BY <1>1, <3>1, <4>1
      <4>3. \A k, b, d : [kind |-> k, act |-> b, id |-> d] \in Turns!Unrelayed \cup {e}
               <=> \/ Held(k, b, d) /\ ~(k = "write-via" /\ Relayed(b) /\ d = 0)
                   \/ e = [kind |-> k, act |-> b, id |-> d]
        BY Zenon, UnrelayedIs
      <4>4. \A k, b, d : e = [kind |-> k, act |-> b, id |-> d] <=> k = k0 /\ b = a /\ d = 0
        BY <4>1 DEF Turns!Effect
      <4>5. \A k, b, d : Held(k, b, d)' <=> [kind |-> k, act |-> b, id |-> d] \in Turns!Unrelayed \cup {e}
        BY <4>2 DEF Held
      <4> TAKE k, b, d
      <4>6. Held(k, b, d)' <=> \/ Held(k, b, d) /\ ~(k = "write-via" /\ Relayed(b) /\ d = 0)
                               \/ e = [kind |-> k, act |-> b, id |-> d]
        BY <4>3, <4>5
      <4>7. e = [kind |-> k, act |-> b, id |-> d] <=> k = k0 /\ b = a /\ d = 0
        BY <4>4
      <4> QED BY <3>1, <4>6, <4>7
    <3>2. CASE k0 # "write"
      <4>1. \A k, b, d : Held(k, b, d)' <=> Held(k, b, d) \/ (k = k0 /\ b = a /\ d = 0)
        BY <1>1, <3>2, EffectAdded
      <4> QED BY <3>2, <4>1
    <3> QED BY <3>1, <3>2
  <2>2. \A k, b, d : k \notin CallKinds \/ d # 0 => (Held(k, b, d)' <=> Held(k, b, d))
    BY <2>1 DEF CallKinds
  <2>3. ASSUME NEW b \in Activations
        PROVE  /\ Held("write", b, 0)' <=> Calling(b)' /\ outbound'.kind \in {"write", "relay"}
               /\ Held("control", b, 0)' <=> Calling(b)' /\ outbound'.kind = "control"
               /\ Held("write-via", b, 0)' <=> RelayOf(b)' \/ Relayed(b)'
    <3>1. /\ ~Held("write", b, 0) /\ ~Held("control", b, 0)
          /\ Held("write-via", b, 0) <=> RelayOf(b) \/ Relayed(b)
      BY <1>2, <1>5, CallsHeld
    <3>2. /\ Held("write", b, 0)' <=> b = a /\ k0 = "write"
          /\ Held("control", b, 0)' <=> b = a /\ k0 = "control"
          /\ Held("write-via", b, 0)' <=> Held("write-via", b, 0) /\ ~(k0 = "write" /\ Relayed(b))
      BY <2>1, <3>1
    <3>3. Relayed(b) => ~RelayOf(b)
      BY <1>2 DEF PlaceInv, Place, Calls, Alive
    <3> QED BY <1>4, <1>5, <1>6, <3>1, <3>2, <3>3
  <2>4. ledger' \subseteq [kind : EffectKinds, act : Activations, id : Nat]
    <3>1. Turns!Effect(k0, a, 0) \in [kind : EffectKinds, act : Activations, id : Nat]
      BY EffectType DEF EffectKinds
    <3> QED BY <1>1, <1>2, <3>1 DEF LedgerInv, Turns!Unrelayed
  <2> QED BY <1>1, <1>2, <2>2, <2>3, <2>4, LedgerCalls
<1>14. Alert => Alert'
  BY <1>1, <1>7 DEF Alert
<1>15. \A b \in Activations : activations'[b].receipt \in {0, activations[b].receipt}
  BY <1>8
<1> QED BY <1>1, <1>6, <1>7, <1>8, <1>10, <1>11, <1>12, <1>13, <1>14, <1>15, CallsChange

\* A relay that is authorized: its call is made.
LEMMA AuthorizeKeeps ==
    ASSUME TurnsInv, NEW a \in Activations, Turns!Authorize(a)
    PROVE  TurnsInv'
<1>1. /\ micro = <<>> /\ jobs.state = "running" /\ jobs.job.act = a /\ jobs.job.part = "authorize"
      /\ Turns!Live(a) /\ outbound = Turns!NoCall
      /\ outbound' = [act |-> a, kind |-> "relay"] /\ relay' = [relay EXCEPT !.kind = "submitted"]
      /\ micro' = Turns!RefuseRelays /\ relays' = <<>>
      /\ ledger' = Turns!Unrelayed \cup {Turns!Effect("write", a, 0)}
      /\ jobs' = Turns!Freed(jobs)
      /\ UNCHANGED <<activations, posted, waits, receiver, input, pump, heard, boxes, timers, routed,
                     closed, receipts>>
  BY DEF Turns!Authorize, Turns!Running
<1>2. TurnTypes /\ PlaceInv /\ LedgerInv /\ RelayInv
  BY DEF TurnsInv
<1>3. Authorizes(jobs.job) /\ \A b : ~RunsIn(jobs, b)
  BY <1>1 DEF Authorizes, RunsIn, IsTurnOf
<1>4. relay.kind = "authorizing" /\ relay.act = a /\ RelayOf(a) /\ \A j \in jobs.jobs : ~Authorizes(j)
  BY <1>1, <1>2, <1>3 DEF RelayInv, RelayOf
<1>5. /\ outbound.kind = "none" /\ outbound.act = "nobody" /\ a # "nobody"
      /\ outbound'.kind = "relay" /\ outbound'.act = a /\ outbound' \in Call
      /\ relay'.kind = "submitted" /\ relay'.act = a /\ relay' \in Relay
  BY <1>1, <1>2, <1>4, NoCallIs, TurnsConstants DEF TurnTypes, CallsType, Call, Relay
<1>6. \A b \in Activations : ~Calling(b) /\ (Calling(b)' <=> b = a) /\ (RelayOf(b)' <=> b = a) /\ (RelayOf(b) <=> b = a)
  BY <1>4, <1>5, TurnsConstants DEF Calling, RelayOf
<1>7. /\ MicroType' /\ OneTask(micro)' /\ ~HasTask(micro, "select")'
      /\ \A b : OneIn(micro, b)' /\ \A o : DueIn(micro, b, o)' <=> Relayed(b) /\ o = FALSE
      /\ relays' \in Seq(Activations) /\ Distinct(relays)' /\ \A b : ~Relayed(b)'
  BY <1>1, RefusedRelays
<1>8. /\ JobsType' /\ jobs'.state \in {"idle", "posted"} /\ jobs'.job = Turns!NoJob
      /\ jobs'.jobs = jobs.jobs /\ (jobs'.state = "posted" <=> jobs.jobs # {})
      /\ \A b : SameTurns(b)
  BY <1>1, <1>3, FreedQueue
<1>9. QueueInv'
  BY <1>7, <1>8 DEF QueueInv
<1>10. RelayInv'
  <2>1. PICK jj : jj = jobs'
    OBVIOUS
  <2>2. (\A j \in jj.jobs : ~Authorizes(j)) /\ ~Authorizes(jj.job)
    BY <1>4, <1>8, <2>1, NoJobIs
  <2> QED BY <1>1, <1>5, <1>7, <2>1, <2>2 DEF RelayInv
<1>11. CallsType'
  BY <1>5, <1>7 DEF CallsType
<1>12. \A b \in Activations : SameStage(b) /\ SameWait(b) /\ SameRoute(b)
  BY <1>1, StageSame, WaitSame, RouteSame
<1>13. PlaceInv'
  <2> SUFFICES ASSUME NEW b \in Activations PROVE Place(b)'
    BY DEF PlaceInv
  <2>0. Place(b)
    BY <1>2 DEF PlaceInv
  <2>1. CASE b # a /\ Relayed(b)
    <3>2. /\ OneIn(micro, b)' /\ ~DueIn(micro, b, TRUE)' /\ DueIn(micro, b, FALSE)'
          /\ ~Calling(b)' /\ ~RelayOf(b)' /\ ~Relayed(b)'
      BY <1>6, <1>7, <2>1
    <3> QED BY <1>8, <1>12, <2>0, <2>1, <3>2, PlaceRefused
  <2>2. CASE b # a /\ ~Relayed(b)
    <3>1. SameCalls(b) /\ ~Calling(b)
      BY <1>6, <1>7, <2>2 DEF SameCalls
    <3>2. \A o : ~DueIn(micro, b, o) /\ ~DueIn(micro, b, o)'
      BY <1>1, <1>7, <2>2, NoReactions
    <3>3. SameDue(b)
      BY <1>7, <3>2 DEF SameDue
    <3> QED BY <1>8, <1>12, <2>0, <3>1, <3>3, PlaceCalm
  <2>3. CASE b = a
    <3>1. Alive(a) /\ Calls(a) /\ Stage(a) = "suspended"
      BY <1>1, <1>4, <2>0, <2>3 DEF Turns!Live, Alive, Stage, Calls, Place
    <3>2. /\ ~Receiving(a) /\ ~OnWait(a) /\ ~ByChild(a) /\ ~Reading(a) /\ ~HandsBack(a) /\ ~Relayed(a)
          /\ ~TurnIn(jobs, a) /\ OneTurnIn(jobs, a) /\ ~RunsIn(jobs, a)
      BY <2>0, <2>3, <3>1 DEF Place
    <3>3. /\ ~Receiving(a)' /\ ~OnWait(a)' /\ ~ByChild(a)' /\ ~Reading(a)' /\ ~HandsBack(a)'
          /\ ~TurnIn(jobs, a)' /\ OneTurnIn(jobs, a)' /\ ~RunsIn(jobs, a)' /\ Stage(a)' = "suspended"
      BY <1>8, <1>12, <3>1, <3>2 DEF SameWait, SameRoute, SameTurns, SameStage
    <3>4. /\ OneIn(micro, a)' /\ ~DueIn(micro, a, TRUE)' /\ ~DueIn(micro, a, FALSE)'
          /\ Calling(a)' /\ ~Relayed(a)' /\ RelayOf(a)' /\ outbound'.kind = "relay"
      BY <1>5, <1>6, <1>7, <3>2
    <3> QED BY <2>3, <3>3, <3>4 DEF Place, Calls, Alive
  <2> QED BY <2>1, <2>2, <2>3
<1>14. LedgerInv'
  <2>1. PICK e : e = Turns!Effect("write", a, 0)
    OBVIOUS
  <2>2. ledger' = Turns!Unrelayed \cup {e}
    BY <1>1, <2>1
  <2>3. \A k, b, d : [kind |-> k, act |-> b, id |-> d] \in Turns!Unrelayed \cup {e}
           <=> \/ Held(k, b, d) /\ ~(k = "write-via" /\ Relayed(b) /\ d = 0)
               \/ e = [kind |-> k, act |-> b, id |-> d]
    BY Zenon, UnrelayedIs
  <2>4. \A k, b, d : e = [kind |-> k, act |-> b, id |-> d] <=> k = "write" /\ b = a /\ d = 0
    BY <2>1 DEF Turns!Effect
  <2>5. \A k, b, d : Held(k, b, d)' <=> [kind |-> k, act |-> b, id |-> d] \in Turns!Unrelayed \cup {e}
    BY <2>2 DEF Held
  <2>6. ASSUME NEW k, NEW b, NEW d
        PROVE  Held(k, b, d)' <=> \/ Held(k, b, d) /\ ~(k = "write-via" /\ Relayed(b) /\ d = 0)
                                  \/ (k = "write" /\ b = a /\ d = 0)
    <3>1. Held(k, b, d)' <=> \/ Held(k, b, d) /\ ~(k = "write-via" /\ Relayed(b) /\ d = 0)
                             \/ e = [kind |-> k, act |-> b, id |-> d]
      BY <2>3, <2>5
    <3>2. e = [kind |-> k, act |-> b, id |-> d] <=> k = "write" /\ b = a /\ d = 0
      BY <2>4
    <3> QED BY <3>1, <3>2
  <2>7. \A k, b, d : k \notin CallKinds \/ d # 0 => (Held(k, b, d)' <=> Held(k, b, d))
    BY <2>6 DEF CallKinds
  <2>8. ASSUME NEW b \in Activations
        PROVE  /\ Held("write", b, 0)' <=> Calling(b)' /\ outbound'.kind \in {"write", "relay"}
               /\ Held("control", b, 0)' <=> Calling(b)' /\ outbound'.kind = "control"
               /\ Held("write-via", b, 0)' <=> RelayOf(b)' \/ Relayed(b)'
    <3>1. /\ ~Held("write", b, 0) /\ ~Held("control", b, 0)
          /\ Held("write-via", b, 0) <=> RelayOf(b) \/ Relayed(b)
      BY <1>2, <1>6, CallsHeld
    <3>2. /\ Held("write", b, 0)' <=> b = a
          /\ Held("control", b, 0)' <=> FALSE
          /\ Held("write-via", b, 0)' <=> Held("write-via", b, 0) /\ ~Relayed(b)
      BY <2>6, <3>1
    <3>3. Relayed(b) => ~RelayOf(b)
      BY <1>2 DEF PlaceInv, Place, Calls, Alive
    <3> QED BY <1>5, <1>6, <1>7, <3>1, <3>2, <3>3
  <2>9. ledger' \subseteq [kind : EffectKinds, act : Activations, id : Nat]
    <3>1. Turns!Effect("write", a, 0) \in [kind : EffectKinds, act : Activations, id : Nat]
      BY EffectType DEF EffectKinds
    <3> QED BY <1>1, <1>2, <3>1 DEF LedgerInv, Turns!Unrelayed
  <2> QED BY <1>1, <1>2, <2>7, <2>8, <2>9, LedgerCalls
<1>15. Alert => Alert'
  BY <1>1, NoReactions DEF Alert
<1>16. ActsType' /\ \A b \in Activations : activations'[b].receipt \in {0, activations[b].receipt}
  BY <1>1, <1>2 DEF TurnTypes, ActsType
<1> QED BY <1>1, <1>7, <1>8, <1>9, <1>10, <1>11, <1>13, <1>14, <1>15, <1>16, CallsChange

\* The platform's answer.
LEMMA CallSettlesKeeps ==
    ASSUME TurnsInv, Turns!CallSettles
    PROVE  TurnsInv'
<1>1. PICK a, ok :
          /\ a = outbound.act /\ ok \in BOOLEAN
          /\ ledger' = ledger \ (IF outbound.kind = "relay" THEN {Turns!Effect("write", a, 0), Turns!Effect("write-via", a, 0)}
                                 ELSE {Turns!Effect(outbound.kind, a, 0)})
          /\ IF Turns!Live(a)
             THEN /\ activations' = [activations EXCEPT ![a] = [@ EXCEPT !.stage = "resuming", !.seq = Turns!Stamp]]
                  /\ micro' = <<Turns!Settled(a, ok)>>
             ELSE UNCHANGED <<activations, micro>>
  BY Zenon DEF Turns!CallSettles
<1>18. outbound.kind = "relay" => relay' = Turns!NoCall
  BY DEF Turns!CallSettles
<1>19. outbound.kind # "relay" => relay' = relay
  BY DEF Turns!CallSettles
<1>20. ~Turns!Live(a) => activations' = activations /\ micro' = micro
  BY <1>1 DEF Turns!CallSettles
<1>2. /\ micro = <<>> /\ outbound # Turns!NoCall /\ outbound' = Turns!NoCall
      /\ UNCHANGED <<jobs, posted, waits, receiver, input, pump, heard, boxes, timers, routed, relays,
                     closed, receipts>>
  BY DEF Turns!CallSettles
<1>3. TurnTypes /\ PlaceInv /\ LedgerInv /\ RelayInv /\ QueueInv
  BY DEF TurnsInv
<1>4. /\ outbound \in Call /\ outbound.kind # "none" /\ outbound.act # "nobody" /\ a \in Activations
      /\ outbound'.kind = "none" /\ outbound'.act = "nobody" /\ outbound' \in Call
      /\ outbound.kind \in {"write", "control", "relay"}
  <2>1. outbound \in Call /\ outbound.kind # "none" /\ outbound.act # "nobody"
    BY <1>2, <1>3, NoCallIs DEF TurnTypes, CallsType, RelayInv
  <2> QED BY <1>1, <1>2, <2>1, NoCallIs DEF Call
<1>5. /\ \A b \in Activations : ~Calling(b)' /\ (Calling(b) <=> b = a)
      /\ outbound.kind = "relay" => relay.kind = "submitted" /\ relay.act = a /\ relays = <<>>
      /\ outbound.kind # "relay" => relay.kind # "submitted"
  BY <1>1, <1>3, <1>4, TurnsConstants DEF Calling, RelayInv
<1>6. \A b \in Activations : Relayed(b)' <=> Relayed(b)
  BY <1>2 DEF Relayed
<1>7. \A b \in Activations : RelayOf(b)' <=> RelayOf(b) /\ outbound.kind # "relay"
  <2>1. CASE outbound.kind = "relay"
    BY <1>18, <1>5, <2>1, NoCallIs, TurnsConstants DEF RelayOf
  <2>2. CASE outbound.kind # "relay"
    BY <1>19, <2>2 DEF RelayOf
  <2> QED BY <2>1, <2>2
<1>8. CallsType'
  BY <1>18, <1>19, <1>2, <1>3, <1>4, NoCallIs DEF TurnTypes, CallsType
<1>9. RelayInv'
  <2>1. CASE outbound.kind = "relay"
    <3>1. relay'.kind = "none" /\ relay'.act = "nobody" /\ relays' = <<>> /\ Distinct(relays)'
      BY <1>18, <1>2, <1>3, <1>5, <2>1, NoCallIs DEF RelayInv
    <3>2. (\A j \in jobs'.jobs : ~Authorizes(j)) /\ ~Authorizes(jobs'.job)
      BY <1>2, <1>3, <1>5, <2>1 DEF RelayInv
    <3> QED BY <1>4, <3>1, <3>2 DEF RelayInv
  <2>2. CASE outbound.kind # "relay"
    <3>1. relay' = relay /\ relays' = relays /\ jobs' = jobs
      BY <1>2, <1>19, <2>2
    <3> QED BY <1>3, <1>4, <1>5, <2>2, <3>1 DEF RelayInv, RelayOf
  <2> QED BY <2>1, <2>2
<1>10. \A b \in Activations : SameWait(b) /\ SameRoute(b) /\ SameTurns(b)
  BY <1>2, WaitSame, RouteSame, TurnsSame
<1>11. Alive(a) <=> Turns!Live(a)
  BY DEF Turns!Live, Alive, Stage
<1>12. \A b \in Activations : b # a => SameCalls(b) /\ ~Calling(b)
  <2> SUFFICES ASSUME NEW b \in Activations, b # a PROVE SameCalls(b) /\ ~Calling(b)
    OBVIOUS
  <2>1. RelayOf(b) => outbound.kind # "relay"
    BY <1>5 DEF RelayOf
  <2> QED BY <1>5, <1>6, <1>7, <2>1 DEF SameCalls
<1>13. JobsType'
  BY <1>2, <1>3 DEF TurnTypes, JobsType
<1>14. LedgerInv'
  <2>1. \A k, b, d : Held(k, b, d)' <=> Held(k, b, d) /\
            ~(b = a /\ d = 0 /\ (IF outbound.kind = "relay" THEN k \in {"write", "write-via"} ELSE k = outbound.kind))
    <3>1. CASE outbound.kind = "relay"
      <4>1. ledger' = ledger \ {Turns!Effect("write", a, 0), Turns!Effect("write-via", a, 0)}
        BY <1>1, <3>1
      <4> QED BY <3>1, <4>1 DEF Held, Turns!Effect
    <3>2. CASE outbound.kind # "relay"
      <4>1. ledger' = ledger \ {Turns!Effect(outbound.kind, a, 0)}
        BY <1>1, <3>2
      <4>2. \A k, b, d : Held(k, b, d)' <=> Held(k, b, d) /\ ~(k = outbound.kind /\ b = a /\ d = 0)
        BY <4>1, EffectGone
      <4> QED BY <3>2, <4>2
    <3> QED BY <3>1, <3>2
  <2>2. \A k, b, d : k \notin CallKinds \/ d # 0 => (Held(k, b, d)' <=> Held(k, b, d))
    <3>1. outbound.kind # "relay" => outbound.kind \in CallKinds
      BY <1>1, <1>4 DEF CallKinds
    <3> QED BY <2>1, <3>1 DEF CallKinds
  <2>3. ASSUME NEW b \in Activations
        PROVE  /\ Held("write", b, 0)' <=> Calling(b)' /\ outbound'.kind \in {"write", "relay"}
               /\ Held("control", b, 0)' <=> Calling(b)' /\ outbound'.kind = "control"
               /\ Held("write-via", b, 0)' <=> RelayOf(b)' \/ Relayed(b)'
    <3>1. /\ Held("write", b, 0) <=> Calling(b) /\ outbound.kind \in {"write", "relay"}
          /\ Held("control", b, 0) <=> Calling(b) /\ outbound.kind = "control"
          /\ Held("write-via", b, 0) <=> RelayOf(b) \/ Relayed(b)
      BY <1>3, CallsHeld
    <3>2. ~Held("write", b, 0)' /\ ~Held("control", b, 0)' /\ ~Calling(b)'
      BY <1>1, <1>4, <1>5, <2>1, <3>1
    <3>3. Held("write-via", b, 0)' <=> Held("write-via", b, 0) /\ ~(b = a /\ outbound.kind = "relay")
      BY <1>1, <1>4, <2>1
    <3>4. (RelayOf(b) \/ Relayed(b)) /\ ~(b = a /\ outbound.kind = "relay") <=> (RelayOf(b) /\ outbound.kind # "relay") \/ Relayed(b)
      <4>1. outbound.kind = "relay" => ~Relayed(b) /\ (RelayOf(b) => b = a)
        BY <1>5 DEF Relayed, In, RelayOf
      <4> QED BY <4>1
    <3> QED BY <1>6, <1>7, <3>1, <3>2, <3>3, <3>4
  <2>4. ledger' \subseteq [kind : EffectKinds, act : Activations, id : Nat]
    BY <1>1, <1>3 DEF LedgerInv
  <2> QED BY <1>2, <1>3, <2>2, <2>3, <2>4, LedgerCalls
<1>15. Place(a) /\ Calling(a)
  BY <1>3, <1>4, <1>5 DEF PlaceInv
<1>16. CASE Turns!Live(a)
  <2>1. PICK s, x : s = Turns!Stamp /\ x = [activations[a] EXCEPT !.stage = "resuming", !.seq = s]
    BY Zenon
  <2>2. activations[a] \in Activity /\ s \in Nat
    BY <1>3, <1>4, <2>1, StampFacts DEF TurnTypes, ActsType
  <2>3. x \in Activity /\ x.stage = "resuming" /\ x.receipt = activations[a].receipt
    BY <2>1, <2>2 DEF Activity, Stages
  <2>4. activations' = [activations EXCEPT ![a] = x] /\ micro' = <<Turns!Settled(a, ok)>>
    BY <1>1, <1>16, <2>1
  <2>5. /\ ActsType' /\ activations'[a] = x /\ Stage(a)' = "resuming"
        /\ \A b \in Activations : b # a => activations'[b] = activations[b] /\ SameStage(b)
    BY <1>3, <1>4, <2>3, <2>4, ActChanged DEF TurnTypes
  <2>6. PICK mm : mm = micro'
    OBVIOUS
  <2>7. /\ mm \in Seq(Reaction) /\ OneTask(mm) /\ ~HasTask(mm, "select")
        /\ \A b : OneIn(mm, b) /\ \A o : DueIn(mm, b, o) <=> b = a /\ o = ok
    <3>1. CASE ok = TRUE
      BY <1>4, <2>4, <2>6, <3>1, OneReaction
    <3>2. CASE ok = FALSE
      BY <1>4, <2>4, <2>6, <3>2, OneReaction
    <3> QED BY <1>1, <3>1, <3>2
  <2>8. \A b : OneIn(micro, b) /\ \A o : ~DueIn(micro, b, o)
    BY <1>2, NoReactions
  <2>9. /\ MicroType' /\ OneTask(micro)' /\ ~HasTask(micro, "select")' /\ OneIn(micro, a)'
        /\ \A b : b # a => SameDue(b)
    BY <2>6, <2>7, <2>8 DEF SameDue, MicroType
  <2>10. QueueInv'
    BY <1>2, <1>3, <2>9 DEF QueueInv
  <2>11. Stage(a) = "suspended" /\ ~Relayed(a) /\ (RelayOf(a) => outbound.kind = "relay")
    <3>1. Alive(a) /\ Calls(a)
      BY <1>11, <1>15, <1>16 DEF Calls
    <3> QED BY <1>1, <1>15, <3>1 DEF Place
  <2>12. /\ ~Receiving(a) /\ ~OnWait(a) /\ ~ByChild(a) /\ ~Reading(a) /\ ~HandsBack(a)
         /\ ~TurnIn(jobs, a) /\ OneTurnIn(jobs, a) /\ ~RunsIn(jobs, a)
    <3>1. Alive(a) /\ Calls(a)
      BY <1>11, <1>15, <1>16 DEF Calls
    <3> QED BY <1>15, <2>11, <3>1 DEF Place
  <2>13. /\ ~Receiving(a)' /\ ~OnWait(a)' /\ ~ByChild(a)' /\ ~Reading(a)' /\ ~HandsBack(a)'
         /\ ~TurnIn(jobs, a)' /\ OneTurnIn(jobs, a)' /\ ~RunsIn(jobs, a)'
         /\ ~Calling(a)' /\ ~RelayOf(a)' /\ ~Relayed(a)'
    BY <1>4, <1>5, <1>6, <1>7, <1>10, <2>11, <2>12 DEF SameWait, SameRoute, SameTurns
  <2>14. PlaceInv'
    <3> SUFFICES ASSUME NEW b \in Activations PROVE Place(b)'
      BY DEF PlaceInv
    <3>1. CASE b # a
      BY <1>3, <1>10, <1>12, <2>5, <2>9, <3>1, PlaceCalm DEF PlaceInv
    <3>2. CASE b = a
      BY <2>5, <2>9, <2>13, <3>2 DEF Place, Calls, Alive
    <3> QED BY <3>1, <3>2
  <2>15. Alert => Alert'
    BY <1>2, NoReactions DEF Alert
  <2>16. \A b \in Activations : activations'[b].receipt \in {0, activations[b].receipt}
    BY <2>3, <2>5
  <2> QED BY <1>2, <1>8, <1>9, <1>13, <1>14, <2>5, <2>9, <2>10, <2>14, <2>15, <2>16, CallsChange
<1>17. CASE ~Turns!Live(a)
  <2>1. UNCHANGED <<activations, micro>>
    BY <1>17, <1>20
  <2>2. ActsType' /\ MicroType' /\ \A b \in Activations : activations'[b].receipt \in {0, activations[b].receipt}
    BY <1>3, <2>1 DEF TurnTypes, ActsType, MicroType
  <2>3. QueueInv' /\ (Alert => Alert')
    BY <1>2, <1>3, <2>1, QueueKept DEF Alert
  <2>4. \A b \in Activations : SameStage(b) /\ SameDue(b)
    BY <2>1, StageSame, DueSame
  <2>5. /\ ~Receiving(a) /\ ~OnWait(a) /\ ~ByChild(a) /\ ~Reading(a) /\ ~HandsBack(a) /\ ~Relayed(a)
        /\ Stage(a) = "ended"
    BY <1>11, <1>15, <1>17 DEF Place, Alive
  <2>6. PlaceInv'
    <3> SUFFICES ASSUME NEW b \in Activations PROVE Place(b)'
      BY DEF PlaceInv
    <3>1. CASE b # a
      BY <1>3, <1>10, <1>12, <2>4, <3>1, PlaceCalm DEF PlaceInv
    <3>2. CASE b = a
      <4>1. /\ ~Receiving(a)' /\ ~OnWait(a)' /\ ~ByChild(a)' /\ ~Reading(a)' /\ ~HandsBack(a)' /\ ~Relayed(a)'
            /\ Stage(a)' = "ended"
        BY <1>4, <1>6, <1>10, <2>4, <2>5 DEF SameStage, SameWait, SameRoute
      <4> QED BY <3>2, <4>1, PlaceEnded
    <3> QED BY <3>1, <3>2
  <2> QED BY <1>2, <1>8, <1>9, <1>13, <1>14, <2>2, <2>3, <2>6, CallsChange
<1> QED BY <1>16, <1>17

-----------------------------------------------------------------------------
(* The end of the session does.                                            *)

\* What there is without a wait, a read or a route.
LEMMA NothingIs ==
    /\ Turns!NoWait \in Waiting /\ Turns!NoWait.on = FALSE /\ Turns!NoWait.timers = {}
    /\ Turns!NoWait.octets = 0 /\ Turns!NoWait.boxes = {}
    /\ Turns!NoReceiver \in [registered : Nat, octets : Nat]
    /\ Turns!NoRoute \in Route /\ Turns!NoRoute.box = "nobody" /\ Turns!NoRoute.owner = "act"
    /\ Turns!NoRoute.reading = 0 /\ Turns!NoRoute.back = FALSE
BY DEF Turns!NoWait, Turns!NoReceiver, Turns!NoRoute, Turns!Nobody, Waiting, Route

\* The session is disconnected: only a platform call is left.
LEMMA DisconnectKeeps ==
    ASSUME TurnsInv, Turns!Disconnect
    PROVE  TurnsInv'
<1>1. /\ micro = <<>> /\ closed' = TRUE /\ posted' = FALSE
      /\ jobs' = [state |-> "idle", job |-> Turns!NoJob, jobs |-> {}]
      /\ receiver' = Turns!NoReceiver /\ timers' = {} /\ relays' = <<>>
      /\ pump' = FALSE /\ heard' = <<>> /\ input' = <<>>
      /\ UNCHANGED <<micro, outbound, receipts>>
  BY Zenon DEF Turns!Disconnect
<1>2. /\ relay' = IF relay.kind = "submitted" THEN relay ELSE Turns!NoCall
      /\ ledger' = {e \in ledger : e.act = outbound.act
                     /\ e.kind \in (IF outbound.kind = "relay" THEN {"write", "write-via"} ELSE {outbound.kind})}
  BY Zenon DEF Turns!Disconnect
<1>3. TurnTypes /\ RelayInv /\ LedgerInv /\ ReceiptInv
  BY DEF TurnsInv
<1>4. /\ ActsType' /\ \A a \in Activations : Stage(a)' = "ended" /\ activations'[a].receipt = 0
  <2>1. activations' = [a \in Activations |->
             [activations[a] EXCEPT !.stage = "ended", !.seq = 0, !.receipt = 0, !.unclaimed = 0]]
    BY Zenon DEF Turns!Disconnect
  <2>2. ASSUME NEW a \in Activations
        PROVE  activations'[a] \in Activity /\ activations'[a].stage = "ended" /\ activations'[a].receipt = 0
    <3>1. activations[a] \in Activity
      BY <1>3 DEF TurnTypes, ActsType
    <3>2. activations'[a] = [activations[a] EXCEPT !.stage = "ended", !.seq = 0, !.receipt = 0, !.unclaimed = 0]
      BY Zenon, <2>1
    <3>3. PICK x, y : x = activations[a] /\ y = activations'[a]
      OBVIOUS
    <3>4. x \in Activity /\ y = [x EXCEPT !.stage = "ended", !.seq = 0, !.receipt = 0, !.unclaimed = 0]
      BY <3>1, <3>2, <3>3
    <3>5. y \in Activity /\ y.stage = "ended" /\ y.receipt = 0
      BY <3>4 DEF Activity, Stages
    <3> QED BY <3>3, <3>5
  <2> QED BY Zenon, <2>1, <2>2 DEF ActsType, Stage
<1>5. /\ WaitsType'
      /\ \A a \in Activations : ~OnWait(a)' /\ waits'[a].timers = {} /\ waits'[a].octets = 0 /\ waits'[a].boxes = {}
  <2>1. waits' = [a \in Activations |-> Turns!NoWait]
    BY Zenon DEF Turns!Disconnect
  <2> QED BY <2>1, NothingIs DEF WaitsType, OnWait
<1>6. /\ RoutedType'
      /\ \A a \in Activations : Boxless(a)' /\ ~Reading(a)' /\ ~ByChild(a)' /\ ~HandsBack(a)'
      /\ \A a \in Activations : routed'[a].box = "nobody"
  <2>1. routed' = [a \in Activations |-> Turns!NoRoute]
    BY Zenon DEF Turns!Disconnect
  <2> QED BY <2>1, NothingIs DEF RoutedType, Boxless, Reading, ByChild, HandsBack
<1>7. BoxesType' /\ \A b \in Boxes : boxes'[b].queue = <<>>
  <2>1. boxes' = [b \in Boxes |-> [boxes[b] EXCEPT !.queue = <<>>]]
    BY Zenon DEF Turns!Disconnect
  <2>2. ASSUME NEW b \in Boxes PROVE boxes'[b] \in Mailbox /\ boxes'[b].queue = <<>>
    <3>1. boxes[b] \in Mailbox
      BY <1>3 DEF TurnTypes, BoxesType
    <3>2. boxes'[b] = [boxes[b] EXCEPT !.queue = <<>>]
      BY <2>1
    <3>3. <<>> \in Seq(Message)
      OBVIOUS
    <3> QED BY <3>1, <3>2, <3>3 DEF Mailbox
  <2> QED BY <2>1, <2>2 DEF BoxesType
<1>8. /\ \A a \in Activations : ~Receiving(a)' /\ ~Relayed(a)'
      /\ \A a : Calling(a)' <=> Calling(a)
  BY <1>1 DEF Receiving, Relayed, In, Calling
<1>9. /\ CallsType'
      /\ relay'.kind = "submitted" <=> outbound.kind = "relay"
      /\ relay'.kind = "submitted" => relay'.act = outbound.act
      /\ relay'.kind # "submitted" => relay'.kind = "none" /\ relay'.act = "nobody"
      /\ relay'.kind = "none" => relay'.act = "nobody"
      /\ relay'.kind # "none" => relay'.act # "nobody"
  <2>1. CASE relay.kind = "submitted"
    BY <1>1, <1>2, <1>3, <2>1 DEF RelayInv, TurnTypes, CallsType
  <2>2. CASE relay.kind # "submitted"
    BY <1>1, <1>2, <1>3, <2>2, NoCallIs DEF RelayInv, TurnTypes, CallsType
  <2> QED BY <2>1, <2>2
<1>10. JobsType' /\ QueueInv'
  <2>1. PICK q : q = jobs'
    OBVIOUS
  <2>2. q.state = "idle" /\ q.job = Turns!NoJob /\ q.jobs = {} /\ q \in Drain
    BY <1>1, <2>1 DEF Drain
  <2>3. IsFiniteSet({})
    BY FS_EmptySet
  <2>4. OneTask(micro)' /\ ~HasTask(micro, "select")'
    BY <1>1, NoReactions
  <2> QED BY <2>1, <2>2, <2>3, <2>4 DEF JobsType, QueueInv
<1>11. TurnTypes'
  <2>1. MicroType' /\ TimersType'
    BY <1>1, <1>3, FS_EmptySet DEF TurnTypes, MicroType, TimersType
  <2>2. InputType'
    <3>1. <<>> \in Seq(Nat)
      OBVIOUS
    <3> QED BY <1>1, <1>3, <3>1, NothingIs DEF TurnTypes, InputType
  <2> QED BY <1>4, <1>5, <1>6, <1>7, <1>9, <1>10, <2>1, <2>2 DEF TurnTypes
<1>12. RelayInv'
  <2>1. PICK q : q = jobs'
    OBVIOUS
  <2>2. q.job = Turns!NoJob /\ q.jobs = {}
    BY <1>1, <2>1
  <2>3. ~Authorizes(q.job) /\ relay'.kind # "authorizing"
    BY <1>9, <2>2, NoJobIs
  <2>4. Distinct(relays)'
    BY <1>1 DEF Distinct
  <2>5. outbound.kind = "none" <=> outbound.act = "nobody"
    BY <1>3 DEF RelayInv
  <2> QED BY <1>1, <1>9, <2>1, <2>2, <2>3, <2>4, <2>5 DEF RelayInv
<1>13. PlaceInv'
  BY <1>4, <1>5, <1>6, <1>8, PlaceEnded DEF PlaceInv
<1>14. WakeInv'
  BY <1>1, <1>5, <1>6, TurnsConstants DEF WakeInv, Stirred
<1>15. MailInv'
  BY <1>1, <1>5, <1>6 DEF MailInv, InOrder
<1>16. ReceiptInv'
  BY <1>1, <1>3, <1>4, <1>7 DEF ReceiptInv, TurnTypes, InputType
<1>17. TimersInv'
  BY <1>1, <1>5 DEF TimersInv
<1>18. LedgerInv'
  <2>1. \A k, b, d : Held(k, b, d)' <=> /\ Held(k, b, d) /\ Calling(b)
                                        /\ IF outbound.kind = "relay" THEN k \in {"write", "write-via"}
                                           ELSE k = outbound.kind
    BY <1>2 DEF Held, Calling
  <2>2. ASSUME NEW k \in EffectKinds, NEW b \in Activations, NEW d \in Nat
        PROVE  Held(k, b, d)' <=> Owed(k, b, d)'
    <3>1. Held(k, b, d) <=> Owed(k, b, d)
      BY <1>3 DEF LedgerInv
    <3>2. ~TimerAt(k, b, d)'
      BY <1>1 DEF TimerAt
    <3>3. /\ RelayOf(b)' <=> RelayOf(b) /\ relay.kind = "submitted"
          /\ relay.kind = "submitted" <=> outbound.kind = "relay"
          /\ relay.kind = "submitted" => (RelayOf(b) <=> Calling(b)) /\ ~Relayed(b)
      BY <1>2, <1>3, NoCallIs, TurnsConstants DEF RelayOf, Calling, Relayed, In, RelayInv
    <3>4. outbound.kind \in {"none", "write", "control", "relay"} /\ outbound' = outbound
      BY <1>1, <1>3 DEF TurnTypes, CallsType, Call
    <3>5. Owed(k, b, d)' <=>
             \/ d = 0 /\ k = "write" /\ Calling(b) /\ outbound.kind \in {"write", "relay"}
             \/ d = 0 /\ k = "control" /\ Calling(b) /\ outbound.kind = "control"
             \/ d = 0 /\ k = "write-via" /\ RelayOf(b)'
      BY <1>5, <1>6, <1>8, <3>2, <3>4 DEF Owed
    <3>6. CASE k = "write"
      BY <2>1, <3>1, <3>4, <3>5, <3>6 DEF Owed, TimedKinds
    <3>7. CASE k = "control"
      BY <2>1, <3>1, <3>4, <3>5, <3>7 DEF Owed, TimedKinds
    <3>8. CASE k = "write-via"
      BY <2>1, <3>1, <3>3, <3>4, <3>5, <3>8 DEF Owed, TimedKinds
    <3>9. CASE k \notin CallKinds
      BY <2>1, <3>4, <3>5, <3>9 DEF CallKinds, EffectKinds
    <3> QED BY <3>6, <3>7, <3>8, <3>9 DEF CallKinds
  <2>3. ledger' \subseteq [kind : EffectKinds, act : Activations, id : Nat]
    BY <1>2, <1>3 DEF LedgerInv
  <2> QED BY <2>2, <2>3 DEF LedgerInv
<1> QED BY <1>10, <1>11, <1>12, <1>13, <1>14, <1>15, <1>16, <1>17, <1>18 DEF TurnsInv

-----------------------------------------------------------------------------
(* In every state.                                                         *)

\* Every activation has its first turn to run.
LEMMA TurnsStart ==
    ASSUME Turns!SchedulerInit
    PROVE  TurnsInv
<1>1. /\ micro = <<>> /\ posted = FALSE /\ receiver = Turns!NoReceiver /\ input = <<>>
      /\ pump = Standing /\ heard = <<>> /\ timers = {} /\ outbound = Turns!NoCall
      /\ relays = <<>> /\ relay = Turns!NoCall /\ ledger = {} /\ closed = FALSE /\ receipts = 0
      /\ activations = [a \in Activations |-> Turns!NewAct]
      /\ waits = [a \in Activations |-> Turns!NoWait]
      /\ routed = [a \in Activations |-> Turns!NoRoute]
      /\ boxes = [b \in Boxes |-> [sent |-> 0, queue |-> <<>>]]
  BY DEF Turns!SchedulerInit
<1>2. PICK order \in [Activations -> 1..Turns!Cardinality(Activations)] :
         jobs = [state |-> "posted", job |-> Turns!NoJob,
                 jobs |-> {[act |-> a, part |-> "turn", seq |-> order[a]] : a \in Activations}]
  BY DEF Turns!SchedulerInit
<1>3. PICK J : J = {[act |-> a, part |-> "turn", seq |-> order[a]] : a \in Activations}
  OBVIOUS
<1>4. jobs = [state |-> "posted", job |-> Turns!NoJob, jobs |-> J]
  BY <1>2, <1>3
<1>5. /\ jobs.state = "posted" /\ jobs.job = Turns!NoJob /\ jobs.jobs = J
  BY <1>4
<1>6. J \subseteq Requested /\ J # {} /\ IsFiniteSet(J)
  <2>1. Turns!Cardinality(Activations) \in Nat
    BY TurnsConstants, TurnsLibrary, FS_CardinalityType
  <2>2. \A a \in Activations : order[a] \in Nat
    BY <1>2, <2>1
  <2>3. J \subseteq Requested /\ J # {}
    <3>1. J \subseteq Requested
      BY <1>3, <2>2 DEF Requested
    <3>2. [act |-> Reader, part |-> "turn", seq |-> order[Reader]] \in J
      BY <1>3, TurnsConstants
    <3> QED BY <3>1, <3>2
  <2>4. PICK f : f = [a \in Activations |-> [act |-> a, part |-> "turn", seq |-> order[a]]]
    OBVIOUS
  <2>5. f \in Surjection(Activations, J)
    BY <1>3, <2>4 DEF Surjection
  <2> QED BY <2>3, <2>5, TurnsConstants, FS_Surjection
<1>7. \A j \in J : ~Authorizes(j) /\ \A k \in J : j.act = k.act => j = k
  BY <1>3 DEF Authorizes
<1>8. /\ Turns!NewAct \in Activity /\ Turns!NewAct.stage = "queued" /\ Turns!NewAct.receipt = 0
  BY DEF Turns!NewAct, Activity, Stages
<1>9. \A a \in Activations : Stage(a) = "queued" /\ activations[a].receipt = 0
  BY <1>1, <1>8 DEF Stage
<1>10. \A a \in Activations : ~OnWait(a) /\ waits[a].timers = {} /\ waits[a].octets = 0 /\ waits[a].boxes = {}
  BY <1>1, NothingIs DEF OnWait
<1>11. \A a \in Activations : /\ routed[a].box = "nobody" /\ Boxless(a) /\ ~Reading(a) /\ ~ByChild(a)
                              /\ ~HandsBack(a)
  BY <1>1, NothingIs DEF Boxless, Reading, ByChild, HandsBack
<1>12. \A b \in Boxes : boxes[b].queue = <<>> /\ boxes[b].sent = 0
  BY <1>1
<1>13. \A a \in Activations : ~Receiving(a) /\ ~Relayed(a) /\ ~Calling(a) /\ ~RelayOf(a)
  BY <1>1, NoCallIs, TurnsConstants DEF Receiving, Relayed, In, Calling, RelayOf
<1>14. /\ OneTask(micro) /\ \A w : ~HasTask(micro, w)
       /\ \A b : OneIn(micro, b) /\ \A ok : ~DueIn(micro, b, ok)
  BY <1>1, NoReactions
<1>15. TurnTypes
  <2>1. ActsType /\ WaitsType /\ RoutedType
    BY <1>1, <1>8, NothingIs DEF ActsType, WaitsType, RoutedType
  <2>2. JobsType
    BY <1>4, <1>5, <1>6 DEF JobsType, Drain
  <2>3. MicroType /\ TimersType /\ CallsType
    <3>1. <<>> \in Seq(Reaction) /\ <<>> \in Seq(Activations)
      OBVIOUS
    <3> QED BY <1>1, <3>1, NoCallIs, FS_EmptySet DEF MicroType, TimersType, CallsType
  <2>4. InputType
    <3>1. <<>> \in Seq(Nat)
      OBVIOUS
    <3> QED BY <1>1, <3>1, NothingIs, TurnsConstants DEF InputType
  <2>5. BoxesType
    <3>1. [sent |-> 0, queue |-> <<>>] \in Mailbox
      <4>1. <<>> \in Seq(Message)
        OBVIOUS
      <4> QED BY <4>1 DEF Mailbox
    <3> QED BY <1>1, <3>1 DEF BoxesType
  <2> QED BY <2>1, <2>2, <2>3, <2>4, <2>5 DEF TurnTypes
<1>16. QueueInv
  BY <1>5, <1>6, <1>14 DEF QueueInv
<1>17. RelayInv
  <2>1. Distinct(relays)
    BY <1>1 DEF Distinct
  <2> QED BY <1>1, <1>5, <1>7, <2>1, NoCallIs, NoJobIs DEF RelayInv
<1>18. PlaceInv
  <2> SUFFICES ASSUME NEW a \in Activations PROVE Place(a)
    BY DEF PlaceInv
  <2>1. OneTurnIn(jobs, a) /\ ~RunsIn(jobs, a)
    BY <1>5, <1>7, NoJobIs DEF OneTurnIn, RunsIn, IsTurnOf
  <2> QED BY <1>9, <1>10, <1>11, <1>13, <1>14, <2>1 DEF Place, Calls, Alive
<1>19. WakeInv
  BY <1>1, <1>10, <1>11 DEF WakeInv, Stirred
<1>20. MailInv
  BY <1>10, <1>11, <1>12 DEF MailInv, InOrder
<1>21. ReceiptInv
  BY <1>1, <1>9, <1>12 DEF ReceiptInv
<1>22. TimersInv
  BY <1>1, <1>10 DEF TimersInv
<1>23. LedgerInv
  <2>1. ASSUME NEW k \in EffectKinds, NEW a \in Activations, NEW d \in Nat
        PROVE  ~Held(k, a, d) /\ ~Owed(k, a, d)
    BY <1>1, <1>10, <1>11, <1>13 DEF Held, Owed, TimerAt
  <2> QED BY <1>1, <2>1 DEF LedgerInv
<1> QED BY <1>15, <1>16, <1>17, <1>18, <1>19, <1>20, <1>21, <1>22, <1>23 DEF TurnsInv

\* Every task and every reaction keeps the turns in order.
LEMMA TurnsKeep ==
    ASSUME TurnsInv, Turns!SchedulerNext
    PROVE  TurnsInv'
<1>1. CASE Turns!Match
  BY <1>1, MatchKeeps
<1>2. CASE Turns!Considered
  BY <1>2, ConsideredKeeps
<1>3. CASE Turns!ReadyTask
  BY <1>3, ReadyTaskKeeps
<1>4. CASE Turns!DrainTask
  BY <1>4, DrainTaskKeeps
<1>5. CASE Turns!FirstReaction
  BY <1>5, FirstReactionKeeps
<1>6. CASE Turns!SelectJob
  BY <1>6, SelectJobKeeps
<1>7. CASE Turns!Hear
  BY <1>7, HearKeeps
<1>8. CASE Turns!ReadSettles
  BY <1>8, ReadSettlesKeeps
<1>9. CASE Turns!CallSettles
  BY <1>9, CallSettlesKeeps
<1>10. CASE Turns!Disconnect
  BY <1>10, DisconnectKeeps
<1>11. CASE \E t \in timers : Turns!TimerFires(t)
  BY <1>11, TimerFiresKeeps
<1>12. ASSUME NEW a \in Activations,
              \/ Turns!Resume(a) \/ Turns!Fail(a) \/ Turns!Abandoned(a) \/ Turns!TurnEndsActivation(a)
              \/ Turns!Cancel(a) \/ Turns!Reschedule(a)
       PROVE  TurnsInv'
  BY <1>12, ResumeKeeps, FailKeeps, AbandonedKeeps, TurnEndsActivationKeeps, CancelKeeps, RescheduleKeeps
<1>13. ASSUME NEW a \in Activations,
              \/ Turns!WaitAny(a) \/ Turns!Consume(a) \/ Turns!Read(a) \/ Turns!ReadBox(a)
              \/ Turns!HelperReads(a) \/ Turns!HelperAccepts(a) \/ Turns!HelperReturns(a)
       PROVE  TurnsInv'
  BY <1>13, WaitAnyKeeps, ConsumeKeeps, ReadKeeps, ReadBoxKeeps, HelperReadsKeeps, HelperAcceptsKeeps,
     HelperReturnsKeeps
<1>14. ASSUME NEW a \in Activations, Turns!WriteVia(a) \/ Turns!Authorize(a) \/ Turns!Decline(a)
       PROVE  TurnsInv'
  BY <1>14, WriteViaKeeps, AuthorizeKeeps, DeclineKeeps
<1>15. ASSUME NEW a \in Activations, NEW k \in {"timer", "deadline"}, Turns!Arm(a, k)
       PROVE  TurnsInv'
  BY <1>15, ArmKeeps DEF TimedKinds
<1>16. ASSUME NEW a \in Activations, NEW k \in {"write", "control"}, Turns!Write(a, k)
       PROVE  TurnsInv'
  BY <1>16, WriteKeeps
<1>17. ASSUME NEW a \in Activations, NEW t \in timers, Turns!Disarm(a, t)
       PROVE  TurnsInv'
  BY <1>17, DisarmKeeps
<1>18. ASSUME NEW a \in Activations, NEW b \in Boxes, Turns!Send(a, b) \/ Turns!CallHelper(a, b)
       PROVE  TurnsInv'
  BY <1>18, SendKeeps, CallHelperKeeps
<1> QED BY <1>1, <1>2, <1>3, <1>4, <1>5, <1>6, <1>7, <1>8, <1>9, <1>10, <1>11, <1>12, <1>13, <1>14,
           <1>15, <1>16, <1>17, <1>18 DEF Turns!SchedulerNext

\* The relays that wait, as AuthoredScheduler knows them.
LEMMA RelayedIs ==
    ASSUME TurnTypes
    PROVE  Turns!ToSet(relays) = In(relays) /\ \A a : Turns!Contains(relays, a) <=> Relayed(a)
<1>1. DOMAIN relays = 1..Len(relays)
  BY LenProperties DEF TurnTypes, CallsType
<1> QED BY <1>1 DEF Turns!ToSet, Turns!Contains, In, Relayed

\* Between two tasks, what could go on is seen by one to come.
LEMMA TurnsWake == TurnsInv => Turns!NoLostWakeup
<1> SUFFICES ASSUME TurnsInv, micro = <<>>, ~closed
             PROVE  /\ Turns!Ready # {} => Turns!Pending
                    /\ jobs.jobs # {} => jobs.state # "idle"
                    /\ receiver # Turns!NoReceiver => input = <<>> /\ pump
                    /\ (\E a \in Activations : waits[a].octets > 0) => pump \/ Turns!Pending
                    /\ \A a \in Activations : routed[a].reading # 0 => boxes[routed[a].box].queue = <<>>
                    /\ \A a \in Activations : activations[a].stage = "suspended" =>
                          \/ waits[a].on \/ (a = Reader /\ receiver # Turns!NoReceiver)
                          \/ routed[a].reading # 0 \/ outbound.act = a \/ relay.act = a
                          \/ Turns!Contains(relays, a)
  BY DEF Turns!NoLostWakeup, Turns!BetweenTasks
<1>1. TurnTypes /\ QueueInv /\ PlaceInv /\ WakeInv
  BY DEF TurnsInv
<1>2. (\A w : ~HasTask(micro, w)) /\ \A b : \A ok : ~DueIn(micro, b, ok)
  BY NoReactions
<1>3. Alert => Turns!Pending
  BY <1>2 DEF Alert, Turns!Pending
<1>4. Turns!Ready # {} => Turns!Pending
  <2>1. Turns!Ready # {} => \E a \in Activations : Stirred(a)
    BY <1>1, ReadyIs
  <2> QED BY <1>1, <1>3, <2>1 DEF WakeInv
<1>5. jobs.jobs # {} => jobs.state # "idle"
  BY <1>1 DEF QueueInv
<1>6. receiver # Turns!NoReceiver => input = <<>> /\ pump
  BY <1>1 DEF WakeInv
<1>7. (\E a \in Activations : waits[a].octets > 0) => pump \/ Turns!Pending
  <2>1. ASSUME NEW a \in Activations, waits[a].octets > 0 PROVE waits[a].octets # 0
    <3>1. waits[a].octets \in Nat
      BY <1>1 DEF TurnTypes, WaitsType, Waiting
    <3> QED BY <2>1, <3>1
  <2> QED BY <1>1, <1>3, <2>1 DEF WakeInv
<1>8. \A a \in Activations : routed[a].reading # 0 => boxes[routed[a].box].queue = <<>>
  BY <1>1 DEF WakeInv, Reading
<1>9. ASSUME NEW a \in Activations, activations[a].stage = "suspended"
      PROVE  \/ waits[a].on \/ (a = Reader /\ receiver # Turns!NoReceiver)
             \/ routed[a].reading # 0 \/ outbound.act = a \/ relay.act = a
             \/ Turns!Contains(relays, a)
  <2>1. OnWait(a) \/ Receiving(a) \/ Reading(a) \/ Calls(a) \/ Relayed(a)
    BY <1>1, <1>2, <1>9 DEF PlaceInv, Place, Stage
  <2> QED BY <1>1, <2>1, RelayedIs DEF OnWait, Receiving, Reading, Calls, Calling, RelayOf
<1> QED BY <1>4, <1>5, <1>6, <1>7, <1>8, <1>9

\* A receipt is held once.
LEMMA TurnsSole == TurnsInv => Turns!SoleConsumer
<1> SUFFICES ASSUME TurnsInv PROVE Turns!SoleConsumer
  OBVIOUS
<1>1. TurnTypes /\ MailInv /\ ReceiptInv
  BY DEF TurnsInv
<1>2. /\ \A a, b \in Activations : routed[a].box = routed[b].box /\ routed[a].box # "nobody" => a = b
      /\ \A a, b \in Activations : a # b => routed[a].box \notin waits[b].boxes
  BY <1>1 DEF MailInv, Boxless
<1>3. \A b \in Boxes : ~closed => \A i \in DOMAIN boxes[b].queue :
         boxes[b].queue[i].n = boxes[b].sent - Len(boxes[b].queue) + i
  BY <1>1 DEF MailInv, InOrder
<1>4. ASSUME NEW r \in 1..receipts, NEW x \in Turns!Holders(r), NEW y \in Turns!Holders(r)
      PROVE  x = y
  <2>1. r # 0 /\ r \in Nat
    BY <1>1 DEF TurnTypes, InputType
  <2>2. \A z \in Turns!Holders(r) :
           \/ \E a \in Activations : z = <<a, 0>> /\ activations[a].receipt = r
           \/ \E b \in Boxes : \E i \in DOMAIN boxes[b].queue : z = <<b, i>> /\ boxes[b].queue[i].receipt = r
    BY DEF Turns!Holders
  <2>3. CASE \E a \in Activations : x = <<a, 0>> /\ activations[a].receipt = r
    <3>1. PICK a \in Activations : x = <<a, 0>> /\ activations[a].receipt = r
      BY <2>3
    <3>2. CASE \E c \in Activations : y = <<c, 0>> /\ activations[c].receipt = r
      <4>1. PICK c \in Activations : y = <<c, 0>> /\ activations[c].receipt = r
        BY <3>2
      <4>2. a = c
        BY <1>1, <2>1, <3>1, <4>1 DEF ReceiptInv
      <4> QED BY <3>1, <4>1, <4>2
    <3>3. CASE \E b \in Boxes : \E i \in DOMAIN boxes[b].queue : y = <<b, i>> /\ boxes[b].queue[i].receipt = r
      BY <1>1, <2>1, <3>1, <3>3 DEF ReceiptInv
    <3> QED BY <2>2, <3>2, <3>3
  <2>4. CASE \E b \in Boxes : \E i \in DOMAIN boxes[b].queue : x = <<b, i>> /\ boxes[b].queue[i].receipt = r
    <3>1. PICK b \in Boxes : \E i \in DOMAIN boxes[b].queue : x = <<b, i>> /\ boxes[b].queue[i].receipt = r
      BY <2>4
    <3>2. PICK i \in DOMAIN boxes[b].queue : x = <<b, i>> /\ boxes[b].queue[i].receipt = r
      BY <3>1
    <3>3. CASE \E c \in Activations : y = <<c, 0>> /\ activations[c].receipt = r
      BY <1>1, <2>1, <3>2, <3>3 DEF ReceiptInv
    <3>4. CASE \E d \in Boxes : \E j \in DOMAIN boxes[d].queue : y = <<d, j>> /\ boxes[d].queue[j].receipt = r
      <4>1. PICK d \in Boxes : \E j \in DOMAIN boxes[d].queue : y = <<d, j>> /\ boxes[d].queue[j].receipt = r
        BY <3>4
      <4>2. PICK j \in DOMAIN boxes[d].queue : y = <<d, j>> /\ boxes[d].queue[j].receipt = r
        BY <4>1
      <4>3. b = d /\ i = j
        BY <1>1, <2>1, <3>2, <4>2 DEF ReceiptInv
      <4> QED BY <3>2, <4>2, <4>3
    <3> QED BY <2>2, <3>3, <3>4
  <2> QED BY <2>2, <2>3, <2>4
<1> QED BY <1>2, <1>3, <1>4 DEF Turns!SoleConsumer, Turns!Nobody

\* The effects that are outstanding.
Outstanding ==
    {Turns!Effect(t.kind, t.act, t.id) : t \in timers}
    \cup {Turns!Effect("wait", a, 0) : a \in {a \in Activations : waits[a].on}}
    \cup {Turns!Effect("read", a, 0) : a \in {a \in Activations : routed[a].reading # 0
                                           \/ (a = Reader /\ receiver # Turns!NoReceiver)}}
    \cup {Turns!Effect(outbound.kind, outbound.act, 0) : x \in {outbound.kind} \cap {"write", "control"}}
    \cup {Turns!Effect("write", outbound.act, 0) : x \in {outbound.kind} \cap {"relay"}}
    \cup {Turns!Effect("write-via", relay.act, 0) : x \in {relay.kind} \ {"none"}}
    \cup {Turns!Effect("write-via", a, 0) : a \in Turns!ToSet(relays)}

LEMMA OutstandingIs ==
    ASSUME TurnsInv
    PROVE  ledger = Outstanding
<1>1. TurnTypes /\ RelayInv /\ LedgerInv
  BY DEF TurnsInv
<1>2. /\ outbound.kind \in {"none", "write", "control", "relay"} /\ outbound.act \in Activations \cup {"nobody"}
      /\ relay.act \in Activations \cup {"nobody"} /\ In(relays) \subseteq Activations
      /\ relay.kind \in {"none", "authorizing", "submitted"}
  <2>1. In(relays) \subseteq Activations
    BY <1>1, ElementOfSeq, LenProperties DEF TurnTypes, CallsType, In
  <2> QED BY <1>1, <2>1 DEF TurnTypes, CallsType, Call, Relay
<1>3. \A k, a, d : Turns!Effect(k, a, d) = [kind |-> k, act |-> a, id |-> d]
  BY DEF Turns!Effect
<1>4. ASSUME NEW e \in ledger PROVE e \in Outstanding
  <2>1. PICK k \in EffectKinds, a \in Activations, d \in Nat : e = Turns!Effect(k, a, d)
    BY <1>1, <1>3 DEF LedgerInv
  <2>2. Owed(k, a, d)
    BY <1>1, <1>3, <1>4, <2>1 DEF LedgerInv, Held
  <2>3. CASE k \in TimedKinds /\ TimerAt(k, a, d)
    BY <2>1, <2>3 DEF TimerAt, Outstanding
  <2>4. CASE d = 0 /\ k = "wait" /\ OnWait(a)
    BY <2>1, <2>4 DEF OnWait, Outstanding
  <2>5. CASE d = 0 /\ k = "read" /\ (Receiving(a) \/ Reading(a))
    BY <2>1, <2>5 DEF Receiving, Reading, Outstanding
  <2>6. CASE d = 0 /\ k = "write" /\ Calling(a) /\ outbound.kind \in {"write", "relay"}
    BY <2>1, <2>6 DEF Calling, Outstanding
  <2>7. CASE d = 0 /\ k = "control" /\ Calling(a) /\ outbound.kind = "control"
    BY <2>1, <2>7 DEF Calling, Outstanding
  <2>8. CASE d = 0 /\ k = "write-via" /\ RelayOf(a)
    <3>1. relay.kind # "none"
      BY <1>1, <2>8, TurnsConstants DEF RelayInv, RelayOf
    <3> QED BY <2>1, <2>8, <3>1 DEF RelayOf, Outstanding
  <2>9. CASE d = 0 /\ k = "write-via" /\ Relayed(a)
    BY <1>1, <2>1, <2>9, RelayedIs DEF Relayed, Outstanding
  <2> QED BY <2>2, <2>3, <2>4, <2>5, <2>6, <2>7, <2>8, <2>9 DEF Owed
<1>5. ASSUME NEW k \in EffectKinds, NEW a \in Activations, NEW d \in Nat, Owed(k, a, d)
      PROVE  Turns!Effect(k, a, d) \in ledger
  BY <1>1, <1>3, <1>5 DEF LedgerInv, Held
<1>6. ASSUME NEW e \in Outstanding PROVE e \in ledger
  <2>1. CASE \E t \in timers : e = Turns!Effect(t.kind, t.act, t.id)
    <3>1. PICK t \in timers : e = Turns!Effect(t.kind, t.act, t.id)
      BY <2>1
    <3>2. t.kind \in TimedKinds /\ t.act \in Activations /\ t.id \in Nat
      BY <1>1 DEF TurnTypes, TimersType, Timer, TimedKinds
    <3>3. Owed(t.kind, t.act, t.id) /\ t.kind \in EffectKinds
      BY <3>2 DEF Owed, TimerAt, TimedKinds, EffectKinds
    <3> QED BY <1>5, <3>1, <3>2, <3>3
  <2>2. CASE \E a \in Activations : waits[a].on /\ e = Turns!Effect("wait", a, 0)
    BY <1>5, <2>2 DEF Owed, OnWait, EffectKinds
  <2>3. CASE \E a \in Activations : /\ routed[a].reading # 0 \/ (a = Reader /\ receiver # Turns!NoReceiver)
                                    /\ e = Turns!Effect("read", a, 0)
    BY <1>5, <2>3 DEF Owed, Reading, Receiving, EffectKinds
  <2>4. CASE outbound.kind \in {"write", "control"} /\ e = Turns!Effect(outbound.kind, outbound.act, 0)
    <3>1. outbound.act \in Activations /\ Calling(outbound.act)
      BY <1>1, <1>2, <2>4 DEF RelayInv, Calling
    <3>2. Owed(outbound.kind, outbound.act, 0)
      BY <2>4, <3>1 DEF Owed
    <3> QED BY <1>5, <2>4, <3>1, <3>2 DEF EffectKinds
  <2>5. CASE outbound.kind = "relay" /\ e = Turns!Effect("write", outbound.act, 0)
    <3>1. outbound.act \in Activations /\ Calling(outbound.act)
      BY <1>1, <1>2, <2>5 DEF RelayInv, Calling
    <3>2. Owed("write", outbound.act, 0)
      BY <2>5, <3>1 DEF Owed
    <3> QED BY <1>5, <2>5, <3>1, <3>2 DEF EffectKinds
  <2>6. CASE relay.kind # "none" /\ e = Turns!Effect("write-via", relay.act, 0)
    <3>1. relay.act \in Activations /\ RelayOf(relay.act)
      BY <1>1, <1>2, <2>6 DEF RelayInv, RelayOf
    <3>2. Owed("write-via", relay.act, 0)
      BY <3>1 DEF Owed
    <3> QED BY <1>5, <2>6, <3>1, <3>2 DEF EffectKinds
  <2>7. CASE \E a \in In(relays) : e = Turns!Effect("write-via", a, 0)
    <3>1. PICK a \in Activations : Relayed(a) /\ e = Turns!Effect("write-via", a, 0)
      BY <1>2, <2>7 DEF Relayed
    <3>2. Owed("write-via", a, 0)
      BY <3>1 DEF Owed
    <3> QED BY <1>5, <3>1, <3>2 DEF EffectKinds
  <2> QED BY <1>1, <2>1, <2>2, <2>3, <2>4, <2>5, <2>6, <2>7, RelayedIs DEF Outstanding
<1> QED BY <1>4, <1>6

\* The ledger has what is outstanding, and a relay waits for an author's turn.
LEMMA TurnsLedger == TurnsInv => Turns!LedgerExact
<1> SUFFICES ASSUME TurnsInv PROVE Turns!LedgerExact
  OBVIOUS
<1>1. ledger = Outstanding
  BY OutstandingIs
<1>2. relays # <<>> => \E j \in jobs.jobs \cup {jobs.job} : j.part = "authorize" /\ j.act = relay.act
  BY DEF TurnsInv, RelayInv, Authorizes, RelayOf
<1> QED BY <1>1, <1>2 DEF Turns!LedgerExact, Outstanding

\* The invariant, of the behaviours that are about the turns.
TurnsHeld == kind = "turns" => TurnsInv

LEMMA TurnsStay ==
    ASSUME TurnsInv, UNCHANGED schedulerState
    PROVE  TurnsInv'
<1>1. UNCHANGED <<activations, jobs, micro, posted, waits, receiver, input, pump, heard, boxes, timers,
                  routed, outbound, relays, relay, ledger, closed, receipts>>
  BY DEF schedulerState
<1>2. TurnTypes' /\ QueueInv'
  BY <1>1 DEF TurnsInv, TurnTypes, ActsType, JobsType, MicroType, WaitsType, InputType, BoxesType,
     TimersType, RoutedType, CallsType, QueueInv
<1>5. RelayInv'
  BY <1>1 DEF TurnsInv, RelayInv, RelayOf
<1>6. PlaceInv'
  <2> SUFFICES ASSUME NEW b \in Activations PROVE Place(b)'
    BY DEF PlaceInv
  <2>1. SameStage(b) /\ SameWait(b) /\ SameRoute(b) /\ SameTurns(b) /\ SameDue(b)
    BY <1>1, StageSame, WaitSame, RouteSame, TurnsSame, DueSame
  <2>2. SameCalls(b) /\ outbound' = outbound
    BY <1>1, CallsSame
  <2> QED BY <2>1, <2>2, PlaceKept DEF TurnsInv, PlaceInv
<1>3. WakeInv' /\ MailInv' /\ ReceiptInv' /\ TimersInv'
  BY <1>1 DEF TurnsInv, WakeInv, MailInv, ReceiptInv, TimersInv, Stirred, InputDue, TimerDue, MailDue,
     Alert, OnWait, Reading, Boxless, InOrder, TimerAt
<1>4. LedgerInv'
  BY <1>1 DEF TurnsInv, LedgerInv, Held, Owed, TimerAt, OnWait, Receiving, Reading, Calling, RelayOf,
     Relayed
<1> QED BY <1>2, <1>3, <1>4, <1>5, <1>6 DEF TurnsInv

\* The invariant of the turns, for any activations, mailboxes and limits: where an
\* activation is says what can move it on (#run, #nativeAsync, #scheduleWait, #drain).
THEOREM TurnsInvariant == PathSpec => []TurnsHeld
<1>1. PathInit => TurnsHeld
  BY TurnsStart DEF PathInit, TurnsHeld
<1>2. TurnsHeld /\ [PathNext]_<<kind, custodyState, schedulerState, vars>> => TurnsHeld'
  <2> SUFFICES ASSUME TurnsHeld, [PathNext]_<<kind, custodyState, schedulerState, vars>>, kind' = "turns"
               PROVE  TurnsInv'
    BY DEF TurnsHeld
  <2>1. kind = "turns" /\ TurnsInv
    BY DEF TurnsHeld, PathNext
  <2>2. CASE Turns!SchedulerNext
    BY <2>1, <2>2, TurnsKeep
  <2>3. CASE UNCHANGED schedulerState
    BY <2>1, <2>3, TurnsStay
  <2> QED BY <2>1, <2>2, <2>3 DEF PathNext
<1> QED BY <1>1, <1>2, PTL DEF PathSpec

\* No wake-up is lost, whatever the order of the tasks: an event that a wait is for, a
\* queued turn or a read has a task to come that sees it (#scheduleWait, #schedule, #pump).
THEOREM WakeupsKept == PathSpec => []NoLostWakeup
<1>1. TurnsHeld => NoLostWakeup
  BY TurnsWake DEF TurnsHeld, NoLostWakeup
<1> QED BY <1>1, TurnsInvariant, PTL

\* A mailbox has one consumer, its messages pass in order, a receipt has one holder, and
\* the ledger of live effects is what is outstanding (#mailboxConsumer, #settleEffect).
THEOREM TurnsAreAccounted == PathSpec => []TurnsAccounted
<1>1. TurnsHeld => TurnsAccounted
  BY TurnsSole, TurnsLedger DEF TurnsHeld, TurnsAccounted
<1> QED BY <1>1, TurnsInvariant, PTL
=============================================================================
