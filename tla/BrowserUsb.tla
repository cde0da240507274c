----------------------------- MODULE BrowserUsb -----------------------------
(***************************************************************************)
(* packages/transport-browser-usb: BrowserUsbTransport.open and            *)
(* BrowserUsbConnection with one duplex bulk channel, over WebUSB.         *)
(*                                                                         *)
(* The device is external: WebUSB cannot cancel a transfer, releasing the  *)
(* interface makes every outstanding one settle; releasing and closing may *)
(* fail.                                                                   *)
(***************************************************************************)
EXTENDS DeviceLink

CONSTANT Concurrency    \* WEB_USB_BULK_INPUT_CONCURRENCY

\* input: how many IN transfers are submitted.
UsbInit == conn = [c \in Conns |-> With([input |-> 0])]

AcceptingIo(r) == Usable(r) /\ r.closer = "none"

(* close() releases the interface first; whoever ends a connection calls   *)
(* it.  startInput fills the window while io is accepted.                  *)
Closed(r) == IF r.closer # "none" THEN r
             ELSE [r EXCEPT !.closer = "releasing"]

EndedAndClosed(r, ending) == IF Usable(r) THEN Closed(Finished(r, ending)) ELSE r

StartInput(r) == IF AcceptingIo(r) THEN [r EXCEPT !.input = Concurrency] ELSE r

-----------------------------------------------------------------------------
Open(c) == /\ conn[c].place = "idle"
           /\ Set(c, [conn[c] EXCEPT !.place = "opening"])

NativeOpened(c) == /\ conn[c].place = "opening"
                   /\ \/ Unheld(c) /\ Set(c, [conn[c] EXCEPT !.place = "claimed", !.fd = "open"])
                      \/ Set(c, [conn[c] EXCEPT !.place = "failed"])

Ready(c) == /\ conn[c].place = "claimed"
            /\ Set(c, StartInput([conn[c] EXCEPT !.place = "live"]))

OpenFails(c) == /\ conn[c].place = "claimed"
                /\ \E fd \in {"none", "open"} :
                     Set(c, [conn[c] EXCEPT !.place = "failed", !.fd = fd, !.refused = (fd = "open")])

(* A settled IN transfer: ignored once io is not accepted; a bad status or *)
(* a rejection is a platform error; the window is refilled before the      *)
(* octets are queued.                                                      *)
InputSettles(c) ==
    /\ conn[c].input > 0
    /\ LET r == [conn[c] EXCEPT !.input = @ - 1]
       IN IF ~AcceptingIo(r) THEN Set(c, r)
          ELSE \/ Set(c, EndedAndClosed(r, "fault"))
               \/ Set(c, StartInput(r))
               \/ Set(c, IF r.heard = MaxHeard THEN EndedAndClosed(StartInput(r), "receive-overflow")
                         ELSE [StartInput(r) EXCEPT !.heard = @ + 1])

DisconnectEvent(c) == /\ AcceptingIo(conn[c])
                      /\ Set(c, EndedAndClosed(conn[c], "device-lost"))

Read(c) == /\ conn[c].heard > 0
           /\ Set(c, [conn[c] EXCEPT !.heard = @ - 1])

Write(c) == /\ AcceptingIo(conn[c]) /\ conn[c].receipt = "none" /\ conn[c].flight = "none"
            /\ Set(c, [conn[c] EXCEPT !.receipt = "pending", !.flight = "sent"])

WriteRefused(c) == /\ AcceptingIo(conn[c]) /\ conn[c].receipt = "none"
                   /\ Set(c, [conn[c] EXCEPT !.receipt = "rejected"])

OutputSettles(c) ==
    /\ conn[c].flight # "none"
    /\ \/ /\ conn[c].flight = "taken"
          /\ Set(c, [conn[c] EXCEPT !.flight = "none", !.receipt = "accepted-by-platform"])
       \/ Set(c, [conn[c] EXCEPT !.flight = "none", !.receipt = "may-be-partial"])

-----------------------------------------------------------------------------
(* close(): the release, then every pending transfer settles, then the     *)
(* device is closed, and the ending of the host's close.                   *)
Close(c) == /\ conn[c].place = "live" /\ conn[c].closer = "none"
            /\ Set(c, Closed(conn[c]))

Invalidate(c, ending) == /\ Usable(conn[c])
                         /\ Set(c, EndedAndClosed(conn[c], ending))

Released(c) == /\ conn[c].closer = "releasing"
               /\ \E failed \in BOOLEAN :
                    Set(c, [conn[c] EXCEPT !.closer = IF failed THEN "settlingFailed" ELSE "settling"])

DeviceClosed(c) ==
    /\ conn[c].closer \in {"settling", "settlingFailed"}
    /\ conn[c].input = 0 /\ conn[c].flight = "none"
    /\ \E closed \in BOOLEAN :
         LET r == [conn[c] EXCEPT !.fd = IF closed THEN "none" ELSE "open", !.refused = ~closed]
             ending == IF closed /\ r.closer = "settling" THEN "closed-by-host" ELSE "fault"
         IN Set(c, [Finished(r, ending) EXCEPT !.closer = "answered"])

(* What answers a close(): the pending transfers, and the platform.        *)
Progress(c) == \/ NativeOpened(c) \/ Released(c) \/ DeviceClosed(c)
               \/ conn[c].closer # "none" /\ (InputSettles(c) \/ OutputSettles(c))

UsbNext == \E c \in Conns :
    \/ Open(c) \/ Ready(c) \/ OpenFails(c) \/ InputSettles(c) \/ DisconnectEvent(c)
    \/ Read(c) \/ Collect(c) \/ PlatformTakes(c) \/ Write(c) \/ WriteRefused(c)
    \/ Close(c) \/ Invalidate(c, "fault") \/ OutputSettles(c) \/ Progress(c)
=============================================================================
