--------------------------- MODULE CaptureDelivery ---------------------------
(***************************************************************************)
(* Where a recording goes: the requests of the session's side for the      *)
(* parts of a capture (RemoteCaptureDestination and its two adapters), the *)
(* host's CaptureDestinationRegistry that handles them, both in            *)
(* packages/core/src/capture-rpc.ts, and the directory they end in, the    *)
(* NodeCaptureDestination of apps/cli/src/capture-destination.ts.          *)
(*                                                                         *)
(* A posted request and its answer carry no id.  Each call is made once;   *)
(* the file system and the resource broker may fail at every step.         *)
(***************************************************************************)
EXTENDS Naturals, FiniteSets, Sequences

CONSTANTS Calls, MaxParts, NoRequest

\* wire: the adapter; registered: the registry knows the destination for this
\* session; parts: its #partsOpened; state: the destination's; sinks: the parts
\* it will close; handles: the files that are open, stuck: of these, those that
\* would not close; shutting: the files whose close is awaited, by an end of the
\* capture or by the recorder of an opened part; asked, at, result: of a call,
\* what it is, how far its handler came and what that answers; answer: what the
\* caller got; inbox, outbox: what is posted; pending: the one call the posting
\* adapter waits for; closed, disposed: the ends of the wire; raced: an open()
\* went on while commit() or abort() closed the parts.
VARIABLES wire, registered, parts, state, sinks, handles, stuck, shutting, asked, at, result, answer,
          inbox, outbox, pending, closed, disposed, raced

deliveryVars == <<wire, registered, parts, state, sinks, handles, stuck, shutting, asked, at, result, answer,
                  inbox, outbox, pending, closed, disposed, raced>>
callVars == <<asked, at, result, answer>>
wireVars == <<wire, inbox, outbox, pending, closed, disposed>>
diskVars == <<state, sinks, handles, stuck, shutting, raced>>

DeliveryInit ==
    /\ wire \in {"direct", "posted"} /\ registered \in BOOLEAN
    /\ parts = 0 /\ state = "open" /\ sinks = {} /\ handles = {} /\ stuck = {}
    /\ shutting = [c \in Calls |-> {}]
    /\ asked = [c \in Calls |-> "nothing"] /\ at = [c \in Calls |-> "unmade"]
    /\ result = [c \in Calls |-> "none"] /\ answer = [c \in Calls |-> "none"]
    /\ inbox = <<>> /\ outbox = <<>> /\ pending = NoRequest
    /\ closed = FALSE /\ disposed = FALSE /\ raced = FALSE

-----------------------------------------------------------------------------
(* The session's side.                                                     *)

Refuse(c) == answer' = [answer EXCEPT ![c] = "rejected"]
             /\ at' = [at EXCEPT ![c] = "refused"] /\ UNCHANGED <<inbox, pending, result>>

\* One call at a time is posted.
MayPostMore == ~closed
MayPost == ~closed /\ pending = NoRequest

Request(c) ==
    /\ at[c] = "unmade"
    /\ \E what \in {"open", "commit", "abort"} : asked' = [asked EXCEPT ![c] = what]
    /\ \/ closed /\ Refuse(c)
       \/ ~closed /\ wire = "direct" /\ at' = [at EXCEPT ![c] = "arrived"] /\ UNCHANGED <<inbox, pending, result, answer>>
       \/ /\ wire = "posted" /\ MayPost
          /\ pending' = c /\ inbox' = Append(inbox, c)
          /\ at' = [at EXCEPT ![c] = "posted"] /\ UNCHANGED <<result, answer>>
       \/ wire = "posted" /\ ~closed /\ ~MayPost /\ Refuse(c)
       \/ wire = "posted" /\ MayPost /\ Refuse(c)                    \* postMessage throws
    /\ UNCHANGED <<wire, outbox, closed, disposed, registered, parts, diskVars>>

\* An answer is for the call that is pending, whichever that is.
Answered ==
    /\ outbox # <<>> /\ ~closed
    /\ outbox' = Tail(outbox) /\ pending' = NoRequest
    /\ answer' = IF pending = NoRequest THEN answer ELSE [answer EXCEPT ![pending] = Head(outbox)]
    /\ UNCHANGED <<wire, inbox, closed, disposed, registered, parts, diskVars, asked, at, result>>

CloseAdapter ==
    /\ ~closed /\ closed' = TRUE /\ outbox' = <<>> /\ pending' = NoRequest
    /\ answer' = IF pending = NoRequest THEN answer ELSE [answer EXCEPT ![pending] = "rejected"]
    /\ UNCHANGED <<wire, inbox, disposed, registered, parts, diskVars, asked, at, result>>

-----------------------------------------------------------------------------
(* The registry.                                                           *)

\* serveCaptureDestinationRpc takes a message.
Serve ==
    /\ inbox # <<>> /\ ~disposed
    /\ inbox' = Tail(inbox) /\ at' = [at EXCEPT ![Head(inbox)] = "arrived"]
    /\ UNCHANGED <<wire, outbox, pending, closed, disposed, registered, parts, diskVars, asked, result, answer>>

Dispose == /\ wire = "posted" /\ ~disposed /\ disposed' = TRUE
           /\ UNCHANGED <<wire, inbox, outbox, pending, closed, registered, parts, diskVars, callVars>>

Unregister == /\ registered /\ registered' = FALSE
              /\ UNCHANGED <<wireVars, parts, diskVars, callVars>>

\* The handler answers r: straight to the caller, or posted back.
Ends(c, r) ==
    /\ at' = [at EXCEPT ![c] = "handled"] /\ result' = [result EXCEPT ![c] = r]
    /\ answer' = IF wire = "direct" THEN [answer EXCEPT ![c] = r] ELSE answer
    /\ outbox' = IF wire = "posted" /\ ~disposed /\ ~closed THEN Append(outbox, r) ELSE outbox
    /\ UNCHANGED <<wire, inbox, pending, closed, disposed, registered, asked>>

Moves(c, stage) == at' = [at EXCEPT ![c] = stage]
                   /\ UNCHANGED <<result, answer, asked, wireVars, registered>>

\* A slot is reserved before storage is asked.
ReservesNone(c) == UNCHANGED parts
Reserves(c) == parts' = parts + 1

Closing == {"closing", "closing-in-vain"}

HandleOpen(c) ==
    /\ at[c] = "arrived" /\ asked[c] = "open"
    /\ \/ ~registered /\ Ends(c, "unknown") /\ UNCHANGED <<parts, diskVars>>
       \/ registered /\ parts >= MaxParts /\ Ends(c, "limit") /\ UNCHANGED <<parts, diskVars>>
       \/ registered /\ parts < MaxParts /\ state # "open" /\ Ends(c, "failed") /\ UNCHANGED <<parts, diskVars>>
       \/ /\ registered /\ parts < MaxParts /\ state = "open"
          /\ Reserves(c) /\ Moves(c, "creating") /\ UNCHANGED <<state, sinks, handles, stuck, shutting>>
          /\ raced' = (raced \/ \E d \in Calls : at[d] \in Closing)

\* The files whose sink was not asked to close yet: a sink latches that at once, and answers
\* a second close() without waiting for the first.
Unasked == handles \ (stuck \cup UNION {shutting[c] : c \in Calls})

\* commit() and abort(): #closeParts asks every sink there is.
HandleEnd(c) ==
    /\ at[c] = "arrived" /\ asked[c] \in {"commit", "abort"} /\ UNCHANGED parts
    /\ \/ ~registered /\ Ends(c, "unknown") /\ UNCHANGED diskVars
       \/ registered /\ state # "open" /\ Ends(c, "ok") /\ UNCHANGED diskVars
       \/ /\ registered /\ state = "open"
          /\ raced' = (raced \/ \E d \in Calls : at[d] \in {"creating", "registering", "undoing"})
          /\ shutting' = [shutting EXCEPT ![c] = sinks \cap Unasked]
          /\ Moves(c, "closing") /\ UNCHANGED <<state, sinks, handles, stuck>>

-----------------------------------------------------------------------------
(* The directory.                                                          *)

\* A failed open() gives its slot back.
Fails(c) == Ends(c, "failed") /\ parts' = parts - 1

\* lstat and the exclusive open().
Create(c) ==
    /\ at[c] = "creating"
    /\ \/ /\ Moves(c, "registering") /\ sinks' = sinks \cup {c} /\ handles' = handles \cup {c}
          /\ UNCHANGED parts
       \/ Fails(c) /\ UNCHANGED <<sinks, handles>>
    /\ UNCHANGED <<state, stuck, shutting, raced>>

\* registerSink; if it fails the part is closed and removed.
Register(c) ==
    /\ at[c] = "registering" /\ UNCHANGED <<state, stuck, shutting, raced>>
    /\ \/ Ends(c, "opened") /\ UNCHANGED <<parts, sinks, handles>>
       \/ /\ Moves(c, "undoing") /\ sinks' = sinks \ {c} /\ UNCHANGED <<parts, handles>>

Undo(c) == /\ at[c] = "undoing" /\ Fails(c)
           /\ handles' \in {handles, handles \ ({c} \cap Unasked)}
           /\ UNCHANGED <<state, sinks, stuck, shutting, raced>>

\* A handle.close() settles; one that fails, fails the end that awaits it.
HandleClosed(c, h) ==
    /\ h \in shutting[c] /\ shutting' = [shutting EXCEPT ![c] = @ \ {h}]
    /\ \/ handles' = handles \ {h} /\ UNCHANGED <<stuck, at>>
       \/ /\ stuck' = stuck \cup {h} /\ UNCHANGED handles
          /\ at' = [at EXCEPT ![c] = IF @ = "closing" THEN "closing-in-vain" ELSE @]
    /\ UNCHANGED <<wireVars, asked, result, answer, registered, parts, state, sinks, raced>>

\* The end of #closeParts: every close has settled, all sinks are forgotten, and
\* only then is the destination committed or aborted.
PartsClosed(c) ==
    /\ shutting[c] = {}
    /\ sinks' = {} /\ UNCHANGED <<parts, handles, stuck, shutting, raced>>
    /\ \/ /\ at[c] = "closing" /\ Ends(c, "ok")
          /\ state' = IF asked[c] = "commit" THEN "committed" ELSE "aborted"
       \/ at[c] = "closing-in-vain" /\ Ends(c, "failed") /\ UNCHANGED state

\* The recorder closes a part through the broker.
PartDone(c) ==
    /\ result[c] = "opened" /\ c \in Unasked
    /\ shutting' = [shutting EXCEPT ![c] = {c}]
    /\ UNCHANGED <<wireVars, callVars, registered, parts, state, sinks, handles, stuck, raced>>

DeliveryNext ==
    \/ Answered \/ CloseAdapter \/ Serve \/ Dispose \/ Unregister
    \/ \E c \in Calls : \/ Request(c) \/ HandleOpen(c) \/ HandleEnd(c)
                        \/ Create(c) \/ Register(c) \/ Undo(c) \/ PartsClosed(c) \/ PartDone(c)
                        \/ \E h \in Calls : HandleClosed(c, h)

-----------------------------------------------------------------------------
\* A caller gets the answer to its own call, although answers carry no id, or
\* learns that the wire is closed; and it is not left waiting by a wire that
\* is closed on its own side.
AnswersMatch ==
    /\ \A c \in Calls : answer[c] \in {"none", "rejected", result[c]}
    /\ closed => pending = NoRequest

\* The limit of parts counts exactly the parts that are open, being opened or
\* were opened before: concurrent calls do not exceed it, and one that failed
\* leaves no mark.
PartsExact ==
    /\ parts = Cardinality({c \in Calls : at[c] \in {"creating", "registering", "undoing"} \/ result[c] = "opened"})
    /\ parts <= MaxParts

\* What was committed is closed: of its parts only one is still open whose own
\* close failed, and told its caller so, or is under way for another caller, who
\* asked for it first.  Excepted is an open() that raced the commit(), which the
\* recorder does not make.
CommittedIsClosed == state = "committed" /\ ~raced => Unasked \subseteq {c \in Calls : result[c] = "failed"}
=============================================================================
