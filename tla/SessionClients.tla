---------------------------- MODULE SessionClients ----------------------------
(***************************************************************************)
(* The leases and subscriptions of a session's clients, and, in the web    *)
(* worker, what is kept of them for a session that does not exist yet.     *)
(*                                                                         *)
(* The worker host (apps/web/src/session-worker-host.ts) accepts clients,  *)
(* subscriptions and one capture before a connect request makes the        *)
(* session, replays them into it and then forwards every request.  Each    *)
(* connect request builds a session of its own, so two that overlap make   *)
(* two.  The session is RetainedSession.handle (core/src/retained-         *)
(* session.ts), as far as it is about clients.                             *)
(*                                                                         *)
(* A request is handled in the step it arrives in; a refused one changes   *)
(* nothing and is no step.  `accepted', `missed' and `past' only record    *)
(* what was answered.                                                      *)
(***************************************************************************)
EXTENDS Naturals, FiniteSets

CONSTANTS
    Clients, Subs, Builds,
    MaxClients,   \* maximumClientsPerSession
    MaxCaptures   \* bound: capture requests before there is a session

ClientsAssumption == 0 \notin Builds /\ MaxClients \in Nat /\ MaxCaptures \in Nat

VARIABLES
    hosted,   \* the host's clients, subscriptions and pending capture (its number, 0 for none)
    build,    \* of each connect: its stage, and the capture it read
    server,   \* the session installed, 0 for none
    sess,     \* of each session: clients, subscriptions, capture, link
    accepted, \* the clients and subscriptions that were told "ok" and not withdrawn
    missed,   \* those that changed while a replay was under way; "all" when sessions overlap
    past      \* captures asked for, answered, and asked for when the session was being made

vars == <<hosted, build, server, sess, accepted, missed, past>>

Blank == [clients |-> {}, subs |-> {}, capture |-> FALSE, link |-> "idle"]

ClientsInit ==
    /\ hosted = [clients |-> {}, subs |-> {}, capture |-> 0]
    /\ build = [b \in Builds |-> [stage |-> "idle", capture |-> 0]]
    /\ server = 0
    /\ sess = [b \in Builds |-> Blank]
    /\ accepted = [clients |-> {}, subs |-> {}]
    /\ missed = {}
    /\ past = [asked |-> 0, settled |-> {}, late |-> {}]

At(b, stage) == build[b].stage = stage
UnderWay(b) == build[b].stage \in {"resolving", "creating", "capturing"}
Replayed(x) == missed' = missed \cup (IF \E b \in Builds : At(b, "capturing") THEN {x} ELSE {})

-----------------------------------------------------------------------------
(* The host before a session.  Every request but an attach needs a client. *)
Waiting == server = 0
Attended == hosted.clients # {}
HostUnchanged == UNCHANGED <<build, server, sess>>

HostAttach(c) ==
    /\ Waiting /\ (c \in hosted.clients \/ Cardinality(hosted.clients) < MaxClients)
    /\ hosted' = [hosted EXCEPT !.clients = @ \cup {c}]
    /\ accepted' = [accepted EXCEPT !.clients = @ \cup {c}]
    /\ Replayed(c) /\ HostUnchanged /\ UNCHANGED past

HostDetach(c) ==
    /\ Waiting /\ Attended
    /\ hosted' = [hosted EXCEPT !.clients = @ \ {c}]
    /\ accepted' = [accepted EXCEPT !.clients = @ \ {c}]
    /\ Replayed(c) /\ HostUnchanged /\ UNCHANGED past

HostSubscribe(s) ==
    /\ Waiting /\ Attended
    /\ hosted' = [hosted EXCEPT !.subs = @ \cup {s}]
    /\ accepted' = [accepted EXCEPT !.subs = @ \cup {s}]
    /\ Replayed(s) /\ HostUnchanged /\ UNCHANGED past

HostUnsubscribe(s) ==
    /\ Waiting /\ Attended
    /\ hosted' = [hosted EXCEPT !.subs = @ \ {s}]
    /\ accepted' = [accepted EXCEPT !.subs = @ \ {s}]
    /\ Replayed(s) /\ HostUnchanged /\ UNCHANGED past

HostStartCapture ==
    /\ Waiting /\ Attended /\ hosted.capture = 0 /\ past.asked < MaxCaptures
    /\ hosted' = [hosted EXCEPT !.capture = past.asked + 1]
    /\ past' = [past EXCEPT !.asked = @ + 1,
                            !.late = IF \E b \in Builds : build[b].stage \in {"creating", "capturing"}
                                     THEN @ \cup {past.asked + 1} ELSE @]
    /\ HostUnchanged /\ UNCHANGED <<accepted, missed>>

(* #createDeferredServer up to its first await. *)
HostConnect(b) ==
    /\ Waiting /\ Attended /\ At(b, "idle")
    /\ build' = [build EXCEPT ![b].stage = "resolving"]
    /\ missed' = IF \E d \in Builds : UnderWay(d) THEN missed \cup {"all"} ELSE missed
    /\ UNCHANGED <<hosted, server, sess, accepted, past>>

-----------------------------------------------------------------------------
(* The candidates have answered: the selection is refused, or the pending  *)
(* capture is read and the session's creation begins.                      *)
Resolved(b) ==
    /\ At(b, "resolving")
    /\ \/ build' = [build EXCEPT ![b].stage = "refused"]
       \/ build' = [build EXCEPT ![b] = [stage |-> "creating", capture |-> hosted.capture]]
    /\ UNCHANGED <<hosted, server, sess, accepted, missed, past>>

RefusedSilently(b) ==
    /\ build' = [build EXCEPT ![b].stage = "refused"]
    /\ hosted' = [hosted EXCEPT !.capture = 0] /\ UNCHANGED past

(* The catch: the capture that was read, if it is still the pending one,   *)
(* is answered with the failure.                                           *)
Refused(b) ==
    LET k == build[b].capture
    IN /\ build' = [build EXCEPT ![b].stage = "refused"]
       /\ IF k # 0 /\ hosted.capture = k
          THEN hosted' = [hosted EXCEPT !.capture = 0] /\ past' = [past EXCEPT !.settled = @ \cup {k}]
          ELSE UNCHANGED <<hosted, past>>

(* The session is installed, and the connect request forwarded to it. *)
Install(b, session) ==
    /\ build' = [build EXCEPT ![b].stage = "installed"]
    /\ server' = b
    /\ sess' = [sess EXCEPT ![b] = [session EXCEPT !.link = IF session.clients = {} THEN "idle" ELSE "connecting"]]

ReplayClients(h) == [Blank EXCEPT !.clients = h.clients]
Replay(h) == [Blank EXCEPT !.clients = h.clients, !.subs = h.subs]

(* The session exists.  What the host accepted is replayed, clients first, *)
(* without a task in between; a session without clients refuses the rest.  *)
Created(b) ==
    /\ At(b, "creating")
    /\ LET session == Replay(hosted) IN
       IF hosted.clients = {} /\ hosted.subs # {} THEN Refused(b) /\ UNCHANGED <<server, sess>>
       ELSE IF build[b].capture = 0 THEN Install(b, session) /\ UNCHANGED <<hosted, past>>
       ELSE /\ build' = [build EXCEPT ![b].stage = "capturing"]
            /\ sess' = [sess EXCEPT ![b] = session]
            /\ UNCHANGED <<hosted, server, past>>
    /\ UNCHANGED <<accepted, missed>>

CreationFails(b) ==
    /\ At(b, "creating") /\ Refused(b)
    /\ UNCHANGED <<server, sess, accepted, missed>>

(* The replayed capture is answered, and whatever is pending now is        *)
(* forgotten; if it failed, so does the connect request.                   *)
Captured(b, ok) ==
    /\ At(b, "capturing") /\ (ok => sess[b].clients # {})
    /\ hosted' = [hosted EXCEPT !.capture = 0]
    /\ past' = [past EXCEPT !.settled = @ \cup {build[b].capture}]
    /\ IF ok THEN Install(b, [sess[b] EXCEPT !.capture = TRUE])
       ELSE build' = [build EXCEPT ![b].stage = "refused"] /\ UNCHANGED <<server, sess>>
    /\ UNCHANGED <<accepted, missed>>

-----------------------------------------------------------------------------
(* The installed session, and any that was installed over, goes on.        *)
S == sess[server]
Serving == server # 0
Known == Serving /\ S.clients # {}
SessionUnchanged == UNCHANGED <<hosted, build, server, missed>>

(* connect: the connection is open, or the session is closed. *)
Connected(b, ok) ==
    /\ sess[b].link = "connecting"
    /\ sess' = [sess EXCEPT ![b].link = IF ok THEN "connected" ELSE "closed"]
    /\ SessionUnchanged /\ UNCHANGED <<accepted, past>>

Connect ==
    /\ Known /\ S.link = "idle"
    /\ sess' = [sess EXCEPT ![server].link = "connecting"]
    /\ SessionUnchanged /\ UNCHANGED <<accepted, past>>

Attach(c) ==
    /\ Serving /\ Cardinality(S.clients) < MaxClients
    /\ sess' = [sess EXCEPT ![server].clients = @ \cup {c}]
    /\ accepted' = [accepted EXCEPT !.clients = @ \cup {c}]
    /\ SessionUnchanged /\ UNCHANGED past

(* The last client to leave closes the session. *)
Detach(c) ==
    /\ Known
    /\ sess' = [sess EXCEPT ![server].clients = @ \ {c},
                            ![server].link = IF S.clients \ {c} = {} THEN "closed" ELSE @]
    /\ accepted' = [accepted EXCEPT !.clients = @ \ {c}]
    /\ SessionUnchanged /\ UNCHANGED past

Disconnect ==
    /\ Known /\ S.link # "closed"
    /\ sess' = [sess EXCEPT ![server].link = "closed"]
    /\ SessionUnchanged /\ UNCHANGED <<accepted, past>>

Subscribe(s) ==
    /\ Known
    /\ sess' = [sess EXCEPT ![server].subs = @ \cup {s}]
    /\ accepted' = [accepted EXCEPT !.subs = @ \cup {s}]
    /\ SessionUnchanged /\ UNCHANGED past

Unsubscribe(s) ==
    /\ Known
    /\ sess' = [sess EXCEPT ![server].subs = @ \ {s}]
    /\ accepted' = [accepted EXCEPT !.subs = @ \ {s}]
    /\ SessionUnchanged /\ UNCHANGED past

ClientsNext ==
    \/ \E c \in Clients : HostAttach(c) \/ HostDetach(c) \/ Attach(c) \/ Detach(c)
    \/ \E s \in Subs : HostSubscribe(s) \/ HostUnsubscribe(s) \/ Subscribe(s) \/ Unsubscribe(s)
    \/ HostStartCapture \/ Connect \/ Disconnect
    \/ \E b \in Builds : HostConnect(b) \/ Resolved(b) \/ Created(b) \/ CreationFails(b)
    \/ \E b \in Builds, ok \in BOOLEAN : Captured(b, ok) \/ Connected(b, ok)

-----------------------------------------------------------------------------
(* The installed session has exactly the clients and subscriptions that    *)
(* were accepted and not withdrawn, whoever accepted them; those that      *)
(* changed while a capture was being replayed are excepted, and every one  *)
(* when two connect requests overlapped.                                   *)
SessionKnowsClients ==
    server # 0 /\ "all" \notin missed =>
        /\ \A c \in Clients \ missed : c \in S.clients <=> c \in accepted.clients
        /\ \A s \in Subs \ missed : s \in S.subs <=> s \in accepted.subs

(* A capture that was asked for before there was a session is answered:    *)
(* while it is not, it is the one the next session takes over.  Excepted   *)
(* is one that came when the session was already being created.            *)
CaptureTakenOver ==
    "all" \notin missed =>
        \A k \in 1 .. past.asked \ past.settled : hosted.capture = k /\ (server = 0 \/ k \in past.late)
=============================================================================
