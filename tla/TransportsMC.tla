---------------------------- MODULE TransportsMC ----------------------------
(***************************************************************************)
(* The four transports side by side: a behaviour is one of them, chosen at *)
(* the start, and each is held to the same promises; or it is the opening  *)
(* of one USB device, or the leases of one connection's channels.          *)
(***************************************************************************)
EXTENDS DeviceLink

CONSTANTS Arbitration, Concurrency, Nobody, Sizes, Channels, Groups

ASSUME NobodyAssumption == Nobody \notin Groups /\ Nobody \notin Conns

ASSUME BoundsAssumption == Arbitration \in Nat /\ Concurrency \in Nat

\* overlap: some open() began while another connection of the path was not
\* yet done with (the host did not await its close()).
VARIABLES kind, recovery, lock, overlap,
          host, profile, speed, at, native, seen,
          lease, group, ended

link == <<conn, recovery, lock, overlap>>
opening == <<host, profile, speed, at, native, seen>>
leases == <<lease, group, ended>>
vars == <<kind, link, opening, leases>>

NS == INSTANCE NodeSerial
BS == INSTANCE BrowserSerial
NU == INSTANCE NodeUsb
BU == INSTANCE BrowserUsb
Usb == INSTANCE UsbOpening WITH Hosts <- {"node", "web"}
Lease == INSTANCE ChannelLeases WITH Free <- Nobody

\* A component that a behaviour is not about is not used.
NoLink == NU!UsbInit /\ recovery = 0 /\ lock = Nobody
NoOpening == host = 0 /\ profile = 0 /\ speed = 0 /\ at = 0 /\ native = 0 /\ seen = 0
NoLeases == lease = 0 /\ group = 0 /\ ended = 0

Starts == \/ kind = "node-serial" /\ NS!SerialInit /\ lock = Nobody
          \/ kind = "browser-serial" /\ BS!BrowserInit /\ recovery = 0
          \/ kind = "node-usb" /\ NU!UsbInit /\ recovery = 0 /\ lock = Nobody
          \/ kind = "browser-usb" /\ BU!UsbInit /\ recovery = 0 /\ lock = Nobody

Init == /\ overlap = FALSE
        /\ \/ Starts /\ NoOpening /\ NoLeases
           \/ kind = "opening" /\ Usb!OpeningInit /\ NoLink /\ NoLeases
           \/ kind = "leases" /\ Lease!LeasesInit /\ NoLink /\ NoOpening

NodeSerialStep == kind = "node-serial" /\ NS!SerialNext /\ UNCHANGED <<kind, lock>>
BrowserSerialStep == kind = "browser-serial" /\ BS!BrowserNext /\ UNCHANGED <<kind, recovery>>
NodeUsbStep == kind = "node-usb" /\ NU!UsbNext /\ UNCHANGED <<kind, recovery, lock>>
BrowserUsbStep == kind = "browser-usb" /\ BU!UsbNext /\ UNCHANGED <<kind, recovery, lock>>

DoneWith(r) == r.place \in {"idle", "failed"} \/ r.closer = "answered"

Opens(c) == conn[c].place = "idle" /\ conn'[c].place # "idle"

OutOfTurn == \E c \in Conns : Opens(c) /\ \E d \in Conns \ {c} : ~DoneWith(conn[d])

Observed == overlap' = (overlap \/ (kind = "node-serial" /\ OutOfTurn))

LinkStep == /\ NodeSerialStep \/ BrowserSerialStep \/ NodeUsbStep \/ BrowserUsbStep
            /\ Observed /\ UNCHANGED <<opening, leases>>
OpeningStep == kind = "opening" /\ Usb!OpeningNext /\ UNCHANGED <<kind, link, leases>>
LeasesStep == kind = "leases" /\ Lease!LeasesNext /\ UNCHANGED <<kind, link, opening>>

Next == LinkStep \/ OpeningStep \/ LeasesStep

(* Timers run and the platform answers what it was asked, the transfers    *)
(* that a close() waits for among them.  Nothing else is promised: the     *)
(* host need not close, a device need not send, and which of several       *)
(* answers comes first is open.                                            *)
Answers == /\ \/ kind = "node-serial" /\ UNCHANGED <<kind, lock>>
                 /\ (NS!Tick \/ \E c \in Conns : NS!Progress(c))
              \/ kind = "browser-serial" /\ UNCHANGED <<kind, recovery>>
                 /\ (BS!Tick \/ \E c \in Conns : BS!Progress(c))
              \/ kind = "node-usb" /\ UNCHANGED <<kind, recovery, lock>>
                 /\ \E c \in Conns : NU!Progress(c)
              \/ kind = "browser-usb" /\ UNCHANGED <<kind, recovery, lock>>
                 /\ \E c \in Conns : BU!Progress(c)
           /\ Observed /\ UNCHANGED <<opening, leases>>

Spec == Init /\ [][Next]_vars /\ WF_vars(Answers)

-----------------------------------------------------------------------------
Contract == INSTANCE ByteConnection WITH
    Endings  <- {"closed-by-host", "closed-by-device", "device-lost", "receive-overflow", "fault"},
    live     <- [c \in Conns |-> conn[c].place = "live"],
    held     <- [c \in Conns |-> conn[c].fd # "none"],
    withheld <- [c \in Conns |-> conn[c].refused \/ conn[c].fd = "dying"],
    ended    <- [c \in Conns |-> conn[c].ended],
    asked    <- [c \in Conns |-> conn[c].closer # "none"],
    answered <- [c \in Conns |-> conn[c].closer = "answered"],
    receipt  <- [c \in Conns |-> conn[c].receipt],
    taken    <- [c \in Conns |-> conn[c].flight = "taken"],
    reading  <- [c \in Conns |-> conn[c].reading],
    heard    <- [c \in Conns |-> conn[c].heard]

(* Every transport implements the promises of a DeviceConnection, whatever *)
(* the order of the host's calls and the platform's events: one ending for *)
(* ever and a clean close only if the host asked for it, a write settled   *)
(* once and accepted only if it was, nothing heard after the end, and a    *)
(* close() that answers with the handle gone.                              *)
ImplementsConnection == Contract!Spec

(* The silence a device is owed after an ending (postTerminationSilence):  *)
(* close(), and an open() that abandons what it opened, answer only when   *)
(* it has passed; a handle that an imposed ending kept is released only    *)
(* then; and Node's transport starts no native open of the path before.    *)
SilenceKept ==
    [][\A c \in Conns :
         LET before == conn[c] after == conn'[c]
             imposed == before.ended \in {"receive-overflow", "fault"} /\ ~before.hostClosing
         IN kind \in {"node-serial", "browser-serial"} /\ ~overlap =>
              /\ before.closer # "answered" /\ after.closer = "answered" => after.owed = 0
              /\ before.place = "resting" /\ after.place = "failed" => after.owed = 0
              /\ before.fd = "open" /\ after.fd = "closing" /\ imposed => before.owed = 0
              /\ kind = "node-serial" /\ before.place # "opening" /\ after.place = "opening"
                   => \A d \in Conns : conn'[d].owed = 0]_vars

(* close() always answers, also when it races an ending, a write that does *)
(* not settle, or another connection, as long as the platform answers.     *)
(* (A close() is made once and answers for ever: it is enough that there   *)
(* is always a later moment when none is unanswered.)                      *)
CloseAnswers == []<>(\A c \in Conns : conn[c].closer \in {"none", "answered"})

(* A USB device is opened only as it was declared, and one that is refused *)
(* is left untouched (UsbOpening); a session has the channels of all its   *)
(* roles or none (ChannelLeases).                                          *)
DevicesAccounted ==
    /\ kind = "opening" => Usb!OpenedAsDeclared /\ Usb!NothingLeftBehind
    /\ kind = "leases" => Lease!AllOrNone
=============================================================================
