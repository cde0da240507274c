----------------------------- MODULE UsbOpening -----------------------------
(***************************************************************************)
(* open() of the two USB transports, step by step: NodeUsbTransport.open   *)
(* over libusb and BrowserUsbTransport.open over WebUSB, with the policy   *)
(* both hold the device to, packages/core/src/usb-profile.ts.              *)
(*                                                                         *)
(* The device is external: every native call may fail; what it reports of  *)
(* itself is read when the code reads it, and may have changed when it is  *)
(* read again.  A profile has one input and one output endpoint; of an     *)
(* endpoint's descriptor only the packet size is kept, 0 when the endpoint *)
(* is missing or of another direction or transfer type.                    *)
(***************************************************************************)
EXTENDS Naturals

CONSTANTS Hosts,    \* the transports: a subset of {"node", "web"}
          Sizes     \* packet sizes

Speeds == {"full", "high"}
Ends == {"in", "out"}

\* host: the transport; profile: what is declared; speed: the speed the
\* platform reported, or "unreported"; at: where open() is; native: what it
\* holds of the device, and which undoing failed; seen: what it last read.
VARIABLES host, profile, speed, at, native, seen

usbVars == <<host, profile, speed, at, native, seen>>

\* A packet-size record: a size for at least one speed.
Records == UNION {[known -> Sizes] : known \in (SUBSET Speeds) \ {{}}}

Descriptors == [Ends -> Sizes \cup {0}]

OpeningInit ==
    /\ host \in Hosts
    /\ profile \in [ends : [Ends -> Records], preserve : BOOLEAN]
    /\ speed \in IF host = "node" THEN Speeds \cup {"unreported"} ELSE {"unreported"}
    /\ at = "idle"
    /\ native = [open |-> FALSE, claimed |-> FALSE, stuck |-> {}]
    /\ seen = [config |-> "none", alternate |-> "unread", ends |-> [e \in Ends |-> 0]]

-----------------------------------------------------------------------------
(* validateUsbProfilePolicy: the endpoints one after the other, each       *)
(* narrowing the speeds at which everything so far matches.                *)

\* validateEndpoint: a speed that is reported must be declared, one that is
\* not is guessed from the size.
EndpointAccepted(e, live) ==
    /\ live[e] # 0
    /\ IF speed = "unreported" THEN \E s \in DOMAIN profile.ends[e] : profile.ends[e][s] = live[e]
       ELSE speed \in DOMAIN profile.ends[e] /\ profile.ends[e][speed] = live[e]

Matching(e, live) ==
    IF speed # "unreported" THEN {speed}
    ELSE {s \in DOMAIN profile.ends[e] : profile.ends[e][s] = live[e]}

AcceptedEach(live) == \A e \in Ends : EndpointAccepted(e, live)

Accepted(live) == /\ \A e \in Ends : EndpointAccepted(e, live)
                  /\ Matching("in", live) \cap Matching("out", live) # {}

-----------------------------------------------------------------------------
Goes(stage) == at' = stage /\ UNCHANGED <<host, profile, speed>>

\* The catch: what was claimed is released, what was opened is closed, and
\* the failure of neither is told.
Undo(claimed, open) == IF claimed THEN "releasing" ELSE IF open THEN "closing" ELSE "failed"

GivesUp == Goes(Undo(native.claimed, native.open)) /\ UNCHANGED native

\* The web transport compares the product name before it opens the device;
\* Node's the speed with the identity.
Begin ==
    /\ at = "idle" /\ UNCHANGED <<native, seen>>
    /\ Goes("opening") \/ Goes("failed")

Opened ==
    /\ at = "opening" /\ UNCHANGED seen
    /\ \/ native' = [native EXCEPT !.open = TRUE] /\ Goes(IF host = "node" THEN "naming" ELSE "selecting")
       \/ Goes("failed") /\ UNCHANGED native

\* Node's reads the missing string descriptors, and compares the name now.
Named ==
    /\ at = "naming" /\ UNCHANGED seen
    /\ (Goes("selecting") /\ UNCHANGED native) \/ GivesUp

ConfigurationStands(c) == c # "none" /\ (~profile.preserve => c = "declared")

\* The configuration that is active; another one is selected if one is declared.
Select ==
    /\ at = "selecting"
    /\ \E c \in {"none", "other", "declared"} :
         /\ seen' = [seen EXCEPT !.config = c]
         /\ \/ ConfigurationStands(c) /\ Goes("validating") /\ UNCHANGED native
            \/ ~ConfigurationStands(c) /\ ~profile.preserve /\ Goes("configuring") /\ UNCHANGED native
            \/ ~ConfigurationStands(c) /\ profile.preserve /\ GivesUp

Configured ==
    /\ at = "configuring"
    /\ \/ \E c \in {"none", "other", "declared"} :
            /\ seen' = [seen EXCEPT !.config = c]
            /\ (ConfigurationStands(c) /\ Goes("validating") /\ UNCHANGED native)
               \/ (~ConfigurationStands(c) /\ GivesUp)
       \/ GivesUp /\ UNCHANGED seen

\* The descriptors of the declared alternate, before anything is claimed.
Validate ==
    /\ at = "validating"
    /\ \E live \in Descriptors :
         /\ seen' = [seen EXCEPT !.ends = live]
         /\ (Accepted(live) /\ Goes("claiming") /\ UNCHANGED native) \/ (~Accepted(live) /\ GivesUp)

\* The claim.  Node's looks first for a kernel driver and never detaches one.
ClaimAnswers ==
    /\ at = "claiming" /\ UNCHANGED seen
    /\ \/ native' = [native EXCEPT !.claimed = TRUE] /\ Goes("observing")
       \/ GivesUp

\* GET_INTERFACE, with exactly one octet.
Observe ==
    /\ at = "observing"
    /\ \/ \E a \in {"declared", "other"} :
            /\ seen' = [seen EXCEPT !.alternate = a]
            /\ Goes(IF a = "declared" THEN "hydrating" ELSE "setting") /\ UNCHANGED native
       \/ GivesUp /\ UNCHANGED seen

AlternateSet ==
    /\ at = "setting" /\ UNCHANGED seen
    /\ (Goes("observing-again") /\ UNCHANGED native) \/ GivesUp

ObserveAgain ==
    /\ at = "observing-again"
    /\ \/ \E a \in {"declared", "other"} :
            /\ seen' = [seen EXCEPT !.alternate = a]
            /\ (a = "declared" /\ Goes("hydrating") /\ UNCHANGED native) \/ (a = "other" /\ GivesUp)
       \/ GivesUp /\ UNCHANGED seen

\* The descriptors once more.  Node's compares each endpoint with what was
\* validated; the web transport compares the host's view of the alternate
\* with the one observed, and validates again.
Unchanged(live) ==
    IF host = "node" THEN \A e \in Ends : live[e] = seen.ends[e] ELSE Accepted(live)

Hydrate ==
    /\ at = "hydrating"
    /\ \/ \E live \in Descriptors :
            /\ seen' = [seen EXCEPT !.ends = live]
            /\ (Unchanged(live) /\ Goes("connected") /\ UNCHANGED native) \/ (~Unchanged(live) /\ GivesUp)
       \/ host = "web" /\ GivesUp /\ UNCHANGED seen

Released ==
    /\ at = "releasing" /\ UNCHANGED seen /\ Goes("closing")
    /\ \/ native' = [native EXCEPT !.claimed = FALSE]
       \/ native' = [native EXCEPT !.stuck = @ \cup {"claimed"}]

Closed ==
    /\ at = "closing" /\ UNCHANGED seen /\ Goes("failed")
    /\ \/ native' = [native EXCEPT !.open = FALSE]
       \/ native' = [native EXCEPT !.stuck = @ \cup {"open"}]

OpeningNext ==
    \/ Begin \/ Opened \/ Named \/ Select \/ Configured \/ Validate \/ ClaimAnswers
    \/ Observe \/ AlternateSet \/ ObserveAgain \/ Hydrate \/ Released \/ Closed

-----------------------------------------------------------------------------
\* A device that is opened is the one declared: its configuration and
\* alternate setting are the declared ones as the device itself reports
\* them, the interface is claimed, and there is one speed, the reported one
\* if one is, at which every endpoint has its declared size.  (Endpoint by
\* endpoint is not enough: each may match at a speed of its own.)
OpenedAsDeclared ==
    at = "connected" =>
        /\ native.open /\ native.claimed /\ seen.alternate = "declared"
        /\ profile.preserve \/ seen.config = "declared"
        /\ \E s \in IF speed = "unreported" THEN Speeds ELSE {speed} :
             \A e \in Ends : s \in DOMAIN profile.ends[e] /\ profile.ends[e][s] = seen.ends[e]

\* Nothing of a device that is refused is touched or kept: no interface is
\* claimed before its descriptors were accepted under a standing
\* configuration, and a failed open() leaves claimed or open only what the
\* platform would not release or close.
NothingLeftBehind ==
    /\ at \in {"observing", "setting", "observing-again", "hydrating"} =>
         native.claimed /\ ConfigurationStands(seen.config) /\ Accepted(seen.ends)
    /\ native.claimed /\ at # "failed" => native.open
    /\ at = "failed" => /\ native.claimed => "claimed" \in native.stuck
                        /\ native.open => "open" \in native.stuck
=============================================================================
