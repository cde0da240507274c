----------------------------- MODULE NodeSerial -----------------------------
(***************************************************************************)
(* packages/transport-node-serial: NodeSerialTransport.open, its recovery  *)
(* map, and NodeSerialConnection over a node-serialport stream.            *)
(*                                                                         *)
(* The stream is external.  It calls back once per native open, write and  *)
(* close; it reports the loss of a device as an error that says so, as an  *)
(* error of a rejected write with the stream already closing, as any other *)
(* error, or as a close that nobody asked for.  Timers that are due run    *)
(* before native callbacks, as the event loop of Node orders them.         *)
(***************************************************************************)
EXTENDS DeviceLink

CONSTANT Arbitration    \* SERIAL_DISCONNECT_ARBITRATION_MS, in ticks

VARIABLE recovery       \* #recoveryNotBeforeUs of the path, as ticks to go

\* early: an error or a close was seen by the opening listeners;
\* arbitration: the timer of #awaitDisconnectClose.
SerialInit == /\ conn = [c \in Conns |-> With([early |-> FALSE, arbitration |-> Off])]
              /\ recovery = 0

Due == \E c \in Conns : conn[c].wake = 0 \/ conn[c].arbitration = 0

(* #noteRecovery and #waitForRecovery: the later deadline stands; a wait   *)
(* goes by the deadline it read, and whoever is through with one drops the *)
(* entry of the path.                                                      *)
Noted(r, ending) == IF Usable(r) THEN Larger(recovery, SilenceOf(ending)) ELSE recovery

Waiting(r, remaining, field, asleep, through) ==
    IF remaining > 0 THEN [r EXCEPT ![field] = asleep, !.wake = remaining]
    ELSE [r EXCEPT ![field] = through, !.wake = Off]

(* #finish: an outstanding write is settled as possibly partial.           *)
Finish(r, ending) ==
    IF ~Usable(r) THEN r
    ELSE [Finished(r, ending) EXCEPT
             !.arbitration = Off,
             !.receipt = IF @ = "pending" THEN "may-be-partial" ELSE @]

End(c, ending) == /\ Set(c, Finish(conn[c], ending))
                  /\ recovery' = Noted(conn[c], ending)

-----------------------------------------------------------------------------
(* open(): a path that is being opened is refused; then the recovery, the  *)
(* native open, exclusion, the line settings and the drain, any of which   *)
(* may fail; what was opened and is not used is closed and rests.          *)
Open(c) == /\ conn[c].place = "idle"
           /\ \A d \in Conns : conn[d].place \in {"idle", "failed", "live"}
           /\ Set(c, Waiting(conn[c], recovery, "place", "recovering", "opening"))
           /\ UNCHANGED recovery

Recovered(c) == /\ conn[c].place = "recovering" /\ conn[c].wake = 0
                /\ Set(c, [conn[c] EXCEPT !.place = "opening", !.wake = Off])
                /\ recovery' = 0

NativeOpened(c) == /\ conn[c].place = "opening" /\ ~Due
                   /\ \/ Unheld(c) /\ Set(c, [conn[c] EXCEPT !.place = "draining", !.fd = "open"])
                      \/ Set(c, [conn[c] EXCEPT !.place = "failed"])
                   /\ UNCHANGED recovery

OpeningEvent(c) == /\ conn[c].place = "draining" /\ ~Due /\ ~conn[c].early
                   /\ \E fd \in {conn[c].fd, "none"} :
                        Set(c, [conn[c] EXCEPT !.early = TRUE, !.fd = fd])
                   /\ UNCHANGED recovery

Drained(c) == /\ conn[c].place = "draining" /\ ~conn[c].early
              /\ Set(c, [conn[c] EXCEPT !.place = "live"])
              /\ UNCHANGED recovery

Abandon(c) == /\ conn[c].place = "draining"
              /\ Set(c, [conn[c] EXCEPT !.place = "abandoning",
                                        !.fd = IF @ = "open" THEN "closing" ELSE @])
              /\ UNCHANGED recovery

Abandoned(c) ==
    /\ conn[c].place = "abandoning" /\ ~Due
    /\ recovery' = Larger(recovery, Abnormal)
    /\ \E fd \in IF conn[c].fd = "closing" THEN {"none", "open"} ELSE {"none"} :
         Set(c, Waiting([conn[c] EXCEPT !.fd = fd, !.refused = (fd = "open"),
                                        !.owed = Abnormal],
                        recovery', "place", "resting", "failed"))

Rested(c) == /\ conn[c].place = "resting" /\ conn[c].wake = 0
             /\ Set(c, [conn[c] EXCEPT !.place = "failed", !.wake = Off])
             /\ recovery' = 0

-----------------------------------------------------------------------------
(* The platform's events.  The error listener stays for the life of the    *)
(* port; the others are removed at the end.                                *)
LossError(c) ==           \* an error whose cause is "disconnected"
    /\ conn[c].place = "live" /\ conn[c].fd = "open" /\ ~Due
    /\ LET r == [conn[c] EXCEPT !.fd = "dying"]
       IN  /\ Set(c, IF r.hostClosing THEN r ELSE Finish(r, "device-lost"))
           /\ recovery' = IF r.hostClosing THEN recovery ELSE Noted(r, "device-lost")

RejectionError(c) ==      \* a bare error, the stream already closing
    /\ conn[c].place = "live" /\ conn[c].fd = "open" /\ ~Due
    /\ LET arbitrated == Usable(conn[c]) /\ ~conn[c].hostClosing /\ conn[c].arbitration = Off
       IN  Set(c, [conn[c] EXCEPT !.fd = "dying",
                                  !.arbitration = IF arbitrated THEN Arbitration ELSE @])
    /\ UNCHANGED recovery

PlainError(c) ==          \* any other error, the port still open
    /\ conn[c].fd = "open" /\ Usable(conn[c]) /\ ~conn[c].hostClosing /\ ~Due
    /\ End(c, "fault")

Arbitrated(c) == /\ conn[c].arbitration = 0
                 /\ End(c, "fault")

NativeClosed(c) ==        \* a close that the host did not ask for
    /\ conn[c].place = "live" /\ conn[c].fd \in {"open", "dying"} /\ ~Due
    /\ LET r == [conn[c] EXCEPT !.fd = "none"]
           ending == IF r.hostClosing THEN "closed-by-host" ELSE "device-lost"
       IN Set(c, Finish(r, ending)) /\ recovery' = Noted(r, ending)

-----------------------------------------------------------------------------
(* The channel.  A callback after the write was settled changes nothing.   *)
Write(c) == /\ Usable(conn[c]) /\ conn[c].receipt = "none" /\ conn[c].flight = "none"
            /\ ~conn[c].reading
            /\ Set(c, [conn[c] EXCEPT !.receipt = "pending", !.flight = "sent"])
            /\ UNCHANGED recovery

\* A write's callback that forgets to ask whether the write was settled.
SettledAnyway(r, outcome) == [r EXCEPT !.receipt = outcome, !.flight = "none"]

Settled(r, outcome) == [r EXCEPT !.receipt = IF @ = "pending" THEN outcome ELSE @,
                                 !.flight = "none"]

WriteCallback(c) == /\ conn[c].flight # "none" /\ ~Due
                    /\ \/ /\ conn[c].flight = "taken"
                          /\ Set(c, Settled(conn[c], "accepted-by-platform"))
                       \/ Set(c, Settled(conn[c], "may-be-partial"))
                    /\ UNCHANGED recovery

(* #close of a connection that has ended: the handle is kept through the   *)
(* recovery and then released, whatever that brings.                       *)
ReleaseLate(r) == IF r.fd = "open" THEN [r EXCEPT !.closer = "releasingLate", !.fd = "closing", !.wake = Off]
                  ELSE [r EXCEPT !.closer = "answered", !.wake = Off]

Keep(r, remaining) == IF remaining > 0 THEN [r EXCEPT !.closer = "keeping", !.wake = remaining]
                      ELSE ReleaseLate(r)

(* invalidate, and terminateFromChannel when the ingress overflows.        *)
Invalidate(c, ending) ==
    /\ Usable(conn[c])
    /\ recovery' = Noted(conn[c], ending)
    /\ LET r == Finish(conn[c], ending)
       IN Set(c, IF r.closer = "none" THEN Keep(r, recovery') ELSE r)

Receive(c) == /\ conn[c].fd \in {"open", "closing"} /\ Usable(conn[c]) /\ ~Due
              /\ \/ /\ conn[c].heard < MaxHeard
                    /\ Set(c, [conn[c] EXCEPT !.heard = @ + 1])
                    /\ UNCHANGED recovery
                 \/ /\ conn[c].heard = MaxHeard
                    /\ Invalidate(c, "receive-overflow")

-----------------------------------------------------------------------------
(* close(), whose promise is made once.  A port that is not open any more  *)
(* has nothing to release; a close that fails is a fault.                  *)
Close(c) ==
    /\ conn[c].place = "live" /\ conn[c].closer = "none"
    /\ \/ /\ ~Usable(conn[c])
          /\ Set(c, Keep(conn[c], recovery))
          /\ UNCHANGED recovery
       \/ /\ Usable(conn[c]) /\ conn[c].fd = "open"
          /\ Set(c, [conn[c] EXCEPT !.hostClosing = TRUE, !.closer = "releasing", !.fd = "closing"])
          /\ UNCHANGED recovery
       \/ /\ Usable(conn[c]) /\ conn[c].fd # "open"
          /\ recovery' = Noted(conn[c], "closed-by-host")
          /\ Set(c, Waiting(Finish([conn[c] EXCEPT !.hostClosing = TRUE], "closed-by-host"),
                            recovery', "closer", "resting", "answered"))

Released(c) ==
    /\ conn[c].closer = "releasing" /\ ~Due
    /\ \E done \in BOOLEAN :
         LET r == [conn[c] EXCEPT !.fd = IF done THEN "none" ELSE "open", !.refused = ~done]
             ending == IF done THEN "closed-by-host" ELSE "fault"
         IN /\ recovery' = Noted(r, ending)
            /\ Set(c, Waiting(Finish(r, ending), recovery', "closer", "resting", "answered"))

Kept(c) == /\ conn[c].closer = "keeping" /\ conn[c].wake = 0
           /\ Set(c, ReleaseLate(conn[c]))
           /\ recovery' = 0

ReleasedLate(c) == /\ conn[c].closer = "releasingLate" /\ ~Due
                   /\ \E done \in BOOLEAN :
                        Set(c, [conn[c] EXCEPT !.closer = "answered", !.refused = ~done,
                                               !.fd = IF done THEN "none" ELSE "open"])
                   /\ UNCHANGED recovery

CloseRested(c) == /\ conn[c].closer = "resting" /\ conn[c].wake = 0
                  /\ Set(c, [conn[c] EXCEPT !.closer = "answered", !.wake = Off])
                  /\ recovery' = 0

Tick == /\ ~Due
        /\ conn' = [c \in Conns |-> [conn[c] EXCEPT !.wake = Less(@), !.owed = Less(@),
                                                    !.arbitration = Less(@)]]
        /\ recovery' = Less(recovery)

Channel(c) == (BeginRead(c) \/ EndRead(c) \/ Collect(c) \/ PlatformTakes(c)) /\ UNCHANGED recovery

\* What answers a host that waits: native completions and timers.
Progress(c) == \/ Recovered(c) \/ NativeOpened(c) \/ Abandoned(c) \/ Rested(c) \/ Arbitrated(c)
               \/ Released(c) \/ Kept(c) \/ ReleasedLate(c) \/ CloseRested(c)

SerialNext == \/ Tick
              \/ \E c \in Conns :
                   \/ Open(c) \/ OpeningEvent(c) \/ Drained(c) \/ Abandon(c)
                   \/ LossError(c) \/ RejectionError(c) \/ PlainError(c) \/ NativeClosed(c)
                   \/ Channel(c) \/ Write(c) \/ WriteCallback(c) \/ Receive(c)
                   \/ Invalidate(c, "fault") \/ Close(c) \/ Progress(c)
=============================================================================
