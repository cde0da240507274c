--------------------------- MODULE BrowserSerial ----------------------------
(***************************************************************************)
(* packages/transport-browser-serial: BrowserSerialTransport.open under a  *)
(* Web Lock, and BrowserSerialConnection over a Web Serial port.           *)
(*                                                                         *)
(* The port and the lock manager are external: port.open() fails when the  *)
(* port is open, port.close() may fail (a writer may still hold the        *)
(* stream), a lost device errors the streams, which may also be gone       *)
(* (null) by the time the host looks.                                      *)
(***************************************************************************)
EXTENDS DeviceLink

CONSTANT Nobody

VARIABLE lock           \* the context lock of the device's name: its holder

\* pump: the read loop runs; release: where #releasePort is; wake: the timer
\* of #recoveryPromise, started at the end and waited for by many.
BrowserInit == /\ conn = [c \in Conns |-> With([pump |-> FALSE, release |-> "none"])]
               /\ lock = Nobody

Due == \E c \in Conns : /\ conn[c].wake = 0
                        /\ \/ conn[c].release = "waiting"
                           \/ conn[c].closer = "resting" \/ conn[c].place = "resting"

Unlocked(c) == IF lock = c THEN Nobody ELSE lock

(* #finish starts the recovery; it settles no write.                       *)
Finish(r, ending) == IF ~Usable(r) THEN r
                     ELSE [Finished(r, ending) EXCEPT !.wake = SilenceOf(ending)]

(* #ensurePortReleased: made once, at once or after the recovery.          *)
Release(r) == IF r.release = "none" THEN [r EXCEPT !.release = "cancelling"] ELSE r

\* An imposed ending that does not wait for the silence.
ReleaseAtOnce(r) == Release(r)

ReleaseAfterRecovery(r) == IF r.release = "none" THEN [r EXCEPT !.release = "waiting"] ELSE r

-----------------------------------------------------------------------------
(* open(): an open port is refused, then the lock, then the native open    *)
(* and the drain; what fails after the lock gives it back.                 *)
Open(c) == /\ conn[c].place = "idle"
           /\ Set(c, [conn[c] EXCEPT !.place = IF Unheld(c) THEN "locking" ELSE "failed"])
           /\ UNCHANGED lock

Locked(c) == /\ conn[c].place = "locking"
             /\ IF lock = Nobody
                THEN lock' = c /\ Set(c, [conn[c] EXCEPT !.place = "opening"])
                ELSE Set(c, [conn[c] EXCEPT !.place = "failed"]) /\ UNCHANGED lock

NativeOpened(c) == /\ conn[c].place = "opening"
                   /\ \/ /\ Unheld(c)
                         /\ Set(c, [conn[c] EXCEPT !.place = "draining", !.fd = "open"])
                         /\ UNCHANGED lock
                      \/ /\ Set(c, [conn[c] EXCEPT !.place = "failed"])
                         /\ lock' = Unlocked(c)

Drained(c) == /\ conn[c].place = "draining"
              /\ Set(c, [conn[c] EXCEPT !.place = "live", !.pump = TRUE])
              /\ UNCHANGED lock

DrainFails(c) == /\ conn[c].place = "draining"
                 /\ Set(c, [conn[c] EXCEPT !.place = "abandoning", !.fd = "closing"])
                 /\ UNCHANGED lock

Abandoned(c) == /\ conn[c].place = "abandoning"
                /\ \E fd \in {"none", "open"} :
                     Set(c, [conn[c] EXCEPT !.fd = fd, !.refused = (fd = "open"),
                                            !.owed = Abnormal, !.place = "resting",
                                            !.wake = Abnormal])
                /\ lock' = Unlocked(c)

Rested(c) == /\ conn[c].place = "resting" /\ conn[c].wake = 0
             /\ Set(c, [conn[c] EXCEPT !.place = "failed"])
             /\ UNCHANGED lock

-----------------------------------------------------------------------------
(* The disconnect event ends the connection and releases nothing; neither  *)
(* does the end of the stream; an error of a stream releases at once.      *)
DisconnectEvent(c) ==
    /\ Usable(conn[c])
    /\ \E gone \in BOOLEAN :
         Set(c, Finish([conn[c] EXCEPT !.fd = IF gone /\ @ = "open" THEN "none" ELSE @],
                       "device-lost"))
    /\ UNCHANGED lock

StreamEnds(c) == /\ conn[c].pump
                 /\ LET r == [conn[c] EXCEPT !.pump = FALSE]
                    IN Set(c, IF r.hostClosing THEN r ELSE Finish(r, "closed-by-device"))
                 /\ UNCHANGED lock

Failed(r) == IF r.hostClosing \/ ~Usable(r) THEN r ELSE Release(Finish(r, "device-lost"))

StreamFails(c) == /\ conn[c].pump
                  /\ Set(c, Failed([conn[c] EXCEPT !.pump = FALSE]))
                  /\ UNCHANGED lock

Write(c) == /\ Usable(conn[c]) /\ conn[c].receipt = "none" /\ conn[c].flight = "none"
            /\ ~conn[c].reading /\ conn[c].fd # "none"
            /\ Set(c, [conn[c] EXCEPT !.receipt = "pending", !.flight = "sent"])
            /\ UNCHANGED lock

WriteSettles(c) ==
    /\ conn[c].flight # "none"
    /\ \/ /\ conn[c].flight = "taken"
          /\ Set(c, [conn[c] EXCEPT !.flight = "none", !.receipt = "accepted-by-platform"])
       \/ Set(c, Failed([conn[c] EXCEPT !.flight = "none", !.receipt = "may-be-partial"]))
    /\ UNCHANGED lock

(* invalidate, terminateFromChannel: the handle and the lock are kept      *)
(* until the recovery has elapsed.                                         *)
Invalidate(c, ending) == /\ Usable(conn[c])
                         /\ Set(c, ReleaseAfterRecovery(Finish(conn[c], ending)))
                         /\ UNCHANGED lock

Receive(c) == /\ conn[c].pump /\ conn[c].fd # "none" /\ Usable(conn[c])
              /\ \/ /\ conn[c].heard < MaxHeard
                    /\ Set(c, [conn[c] EXCEPT !.heard = @ + 1])
                    /\ UNCHANGED lock
                 \/ conn[c].heard = MaxHeard /\ Invalidate(c, "receive-overflow")

-----------------------------------------------------------------------------
(* #releasePort: the reader is cancelled and the pump has ended, then the  *)
(* port is closed if it is open, and the lock goes in any case.            *)
RecoveryElapsed(c) == /\ conn[c].release = "waiting" /\ conn[c].wake = 0
                      /\ Set(c, [conn[c] EXCEPT !.release = "cancelling"])
                      /\ UNCHANGED lock

Cancelled(c) ==
    /\ conn[c].release = "cancelling"
    /\ IF conn[c].fd = "none"
       THEN /\ Set(c, [conn[c] EXCEPT !.pump = FALSE, !.release = "done"])
            /\ lock' = Unlocked(c)
       ELSE /\ Set(c, [conn[c] EXCEPT !.pump = FALSE, !.release = "closing", !.fd = "closing"])
            /\ UNCHANGED lock

PortClosed(c) ==
    /\ conn[c].release = "closing"
    /\ \E done \in BOOLEAN :
         Set(c, [conn[c] EXCEPT !.release = IF done THEN "done" ELSE "failed",
                                !.refused = ~done, !.fd = IF done THEN "none" ELSE "open"])
    /\ lock' = Unlocked(c)

(* close(): the release, the ending if the host made it, the recovery.     *)
Close(c) == /\ conn[c].place = "live" /\ conn[c].closer = "none"
            /\ Set(c, Release([conn[c] EXCEPT !.closer = "releasing",
                                              !.hostClosing = Usable(conn[c])]))
            /\ UNCHANGED lock

CloseReleased(c) ==
    /\ conn[c].closer = "releasing" /\ conn[c].release \in {"done", "failed"}
    /\ LET ending == IF conn[c].release = "done" THEN "closed-by-host" ELSE "fault"
       IN Set(c, [Finish(conn[c], ending) EXCEPT !.closer = "resting"])
    /\ UNCHANGED lock

CloseRested(c) == /\ conn[c].closer = "resting" /\ conn[c].wake = 0
                  /\ Set(c, [conn[c] EXCEPT !.closer = "answered"])
                  /\ UNCHANGED lock

Tick == /\ ~Due
        /\ conn' = [c \in Conns |-> [conn[c] EXCEPT !.wake = Less(@), !.owed = Less(@)]]
        /\ UNCHANGED lock

Channel(c) == (BeginRead(c) \/ EndRead(c) \/ Collect(c) \/ PlatformTakes(c)) /\ UNCHANGED lock

Progress(c) == \/ Locked(c) \/ NativeOpened(c) \/ Abandoned(c) \/ Rested(c)
               \/ RecoveryElapsed(c) \/ Cancelled(c) \/ PortClosed(c)
               \/ CloseReleased(c) \/ CloseRested(c)

BrowserNext == \/ Tick
               \/ \E c \in Conns :
                    \/ Open(c) \/ Drained(c) \/ DrainFails(c)
                    \/ DisconnectEvent(c) \/ StreamEnds(c) \/ StreamFails(c)
                    \/ Channel(c) \/ Write(c) \/ WriteSettles(c) \/ Receive(c)
                    \/ Invalidate(c, "fault") \/ Close(c) \/ Progress(c)
=============================================================================
