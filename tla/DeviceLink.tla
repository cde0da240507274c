----------------------------- MODULE DeviceLink -----------------------------
(***************************************************************************)
(* What the four transports share: one record per open() of one physical   *)
(* device (the connection object, its one channel and its native handle),  *)
(* the channel's half-duplex read, the receipt a caller takes, and time.   *)
(* Time is relative: a timer is the ticks left to run, Off when not set,   *)
(* and a tick passes only when no timer is due.                            *)
(***************************************************************************)
EXTENDS Integers

CONSTANTS Conns,        \* the open() calls of one host on one device
          NoEnding,
          Abnormal,     \* postTerminationSilence of an abnormal ending, in ticks
          HostSilence,  \* and of a close by the host
          MaxHeard      \* chunks the ingress can retain

ASSUME SilenceAssumption == Abnormal \in Nat /\ HostSilence \in Nat /\ MaxHeard \in Nat

VARIABLE conn           \* [Conns -> the record below and the adapter's own fields]

Off == -1

Endings == {"closed-by-host", "closed-by-device", "device-lost", "receive-overflow", "fault"}

ASSUME EndingAssumption == NoEnding \notin Endings

\* place: where open() is; fd: the native handle ("dying": the library is
\* closing it by itself); closer: where close() is; flight: the octets of the
\* last write at the platform; owed: the silence the device is still owed.
Fresh == [place |-> "idle", fd |-> "none", ended |-> NoEnding, closer |-> "none",
          hostClosing |-> FALSE, wake |-> Off, receipt |-> "none", flight |-> "none",
          reading |-> FALSE, heard |-> 0, refused |-> FALSE, owed |-> 0]

\* The same with the adapter's own fields.
With(own) == [f \in DOMAIN Fresh \cup DOMAIN own |-> IF f \in DOMAIN own THEN own[f] ELSE Fresh[f]]

Larger(a, b) == IF a > b THEN a ELSE b

SilenceOf(ending) == IF ending = "closed-by-host" THEN HostSilence ELSE Abnormal

Usable(r) == r.place = "live" /\ r.ended = NoEnding

(* #finish, the part of all adapters: the first termination wins, the      *)
(* channel's input is discarded and its read let go.                       *)
Finished(r, ending) ==
    IF ~Usable(r) THEN r
    ELSE [r EXCEPT !.ended = ending, !.heard = 0, !.reading = FALSE,
                   !.owed = Larger(@, SilenceOf(ending))]

Unheld(c) == \A d \in Conns \ {c} : conn[d].fd = "none"

Set(c, r) == conn' = [conn EXCEPT ![c] = r]

(* beginAuthoritativeRead and endAuthoritativeRead of the serial channels: *)
(* a read is refused while a write is outstanding, or another read.        *)
BeginRead(c) == /\ Usable(conn[c]) /\ conn[c].receipt # "pending" /\ ~conn[c].reading
                /\ Set(c, [conn[c] EXCEPT !.reading = TRUE])

EndRead(c) == /\ conn[c].reading
              /\ \/ /\ conn[c].heard > 0
                    /\ Set(c, [conn[c] EXCEPT !.reading = FALSE, !.heard = @ - 1])
                 \/ Set(c, [conn[c] EXCEPT !.reading = FALSE])   \* the lease is released

(* The caller of write() takes its receipt and may write again once the    *)
(* platform is done with the octets.                                       *)
Collect(c) == /\ conn[c].receipt \notin {"none", "pending"} /\ conn[c].flight = "none"
              /\ Set(c, [conn[c] EXCEPT !.receipt = "none"])

(* External: the platform takes the whole of a write before it says so.    *)
PlatformTakes(c) == /\ conn[c].flight = "sent"
                    /\ Set(c, [conn[c] EXCEPT !.flight = "taken"])

Less(timer) == IF timer > 0 THEN timer - 1 ELSE timer
=============================================================================
