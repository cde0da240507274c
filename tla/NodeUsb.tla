------------------------------ MODULE NodeUsb -------------------------------
(***************************************************************************)
(* packages/transport-node-usb: NodeUsbTransport.open and                  *)
(* NodeUsbConnection with one duplex channel, over libusb.                 *)
(*                                                                         *)
(* The device is external: a submitted transfer calls back once, a         *)
(* cancelled one with an error; releasing the interface and closing the    *)
(* device may each fail, and the device does not close under a transfer.   *)
(***************************************************************************)
EXTENDS DeviceLink

\* input: the IN transfer is submitted; awaited: what close() cancelled and
\* waits for.
UsbInit == conn = [c \in Conns |-> With([input |-> FALSE, awaited |-> {}])]

Closing(r) == r.closer # "none"

(* #finish settles no write, the cancelled transfer will; close() cancels  *)
(* every transfer submitted by now.                                        *)
InFlight(r) == (IF r.input THEN {"in"} ELSE {}) \cup (IF r.flight # "none" THEN {"out"} ELSE {})

Closed(r) == IF Closing(r) THEN r
             ELSE [r EXCEPT !.closer = "cancelling", !.awaited = InFlight(r)]

EndedAndClosed(r, ending) == IF Usable(r) THEN Closed(Finished(r, ending)) ELSE r

-----------------------------------------------------------------------------
(* open(): the native open, the descriptors, the claim and the alternate   *)
(* setting, each undone if a later one fails; then the input is started.   *)
Open(c) == /\ conn[c].place = "idle"
           /\ Set(c, [conn[c] EXCEPT !.place = "opening"])

NativeOpened(c) == /\ conn[c].place = "opening"
                   /\ \/ Unheld(c) /\ Set(c, [conn[c] EXCEPT !.place = "claimed", !.fd = "open"])
                      \/ Set(c, [conn[c] EXCEPT !.place = "failed"])

Ready(c) == /\ conn[c].place = "claimed"
            /\ Set(c, [conn[c] EXCEPT !.place = "live", !.input = TRUE])

OpenFails(c) == /\ conn[c].place = "claimed"
                /\ \E fd \in {"none", "open"} :
                     Set(c, [conn[c] EXCEPT !.place = "failed", !.fd = fd, !.refused = (fd = "open")])

-----------------------------------------------------------------------------
(* The IN transfer's callback.  Once closing, or ended, it does not submit *)
(* another.                                                                *)

\* A callback that forgets the transfer close() waits for.
ArrivedUnheard(r) == [r EXCEPT !.input = FALSE]

Arrived(r) == [r EXCEPT !.input = FALSE, !.awaited = @ \ {"in"}]

InputArrives(c) ==
    /\ conn[c].input
    /\ LET r == Arrived(conn[c])
       IN Set(c, IF ~Usable(r) \/ Closing(r) THEN r
                 ELSE IF r.heard = MaxHeard THEN EndedAndClosed(r, "receive-overflow")
                 ELSE [r EXCEPT !.heard = @ + 1, !.input = TRUE])

InputEmpty(c) == /\ conn[c].input
                 /\ LET r == Arrived(conn[c])
                    IN Set(c, [r EXCEPT !.input = Usable(r) /\ ~Closing(r)])

InputFails(c) == /\ conn[c].input
                 /\ \E ending \in {"device-lost", "fault"} :
                      LET r == Arrived(conn[c])
                      IN Set(c, IF Closing(r) THEN r ELSE EndedAndClosed(r, ending))

Read(c) == /\ conn[c].heard > 0
           /\ Set(c, [conn[c] EXCEPT !.heard = @ - 1])

(* write() asks whether the connection is usable, not whether it is        *)
(* closing; a caller that aborted before the submission is refused.        *)
Write(c) == /\ Usable(conn[c]) /\ conn[c].receipt = "none" /\ conn[c].flight = "none"
            /\ Set(c, [conn[c] EXCEPT !.receipt = "pending", !.flight = "sent"])

WriteRefused(c) == /\ Usable(conn[c]) /\ conn[c].receipt = "none"
                   /\ Set(c, [conn[c] EXCEPT !.receipt = "rejected"])

\* A short or failed transfer taken for a whole one.
ReceiptUnchecked(flight) == {"accepted-by-platform", "may-be-partial"}

\* The callback's outcome: all of it, or an error or a short count.
Receipt(flight) == IF flight = "taken" THEN {"accepted-by-platform", "may-be-partial"}
                   ELSE {"may-be-partial"}

OutputSettles(c) == /\ conn[c].flight # "none"
                    /\ \E outcome \in Receipt(conn[c].flight) :
                         Set(c, [conn[c] EXCEPT !.flight = "none", !.receipt = outcome,
                                                !.awaited = @ \ {"out"}])

-----------------------------------------------------------------------------
(* close() and the ends that call it: the cancelled transfers settle, the  *)
(* interface is released, the device closed; only then is a close by the   *)
(* host known to be clean.                                                 *)
Close(c) == /\ conn[c].place = "live" /\ ~Closing(conn[c])
            /\ Set(c, Closed(conn[c]))

Invalidate(c, ending) == /\ Usable(conn[c])
                         /\ Set(c, EndedAndClosed(conn[c], ending))

TransfersSettled(c) == /\ conn[c].closer = "cancelling" /\ conn[c].awaited = {}
                       /\ Set(c, [conn[c] EXCEPT !.closer = "releasing"])

DeviceClosed(c) ==
    /\ conn[c].closer = "releasing"
    /\ \E released, closed \in BOOLEAN :
         /\ closed => InFlight(conn[c]) = {}
         /\ LET r == [conn[c] EXCEPT !.fd = IF closed THEN "none" ELSE "open", !.refused = ~closed]
                ending == IF released /\ closed THEN "closed-by-host" ELSE "fault"
            IN Set(c, [Finished(r, ending) EXCEPT !.closer = "answered"])

(* What answers a close(): the transfers it cancelled, and the platform.   *)
Settles(c) == \/ "in" \in conn[c].awaited /\ (InputArrives(c) \/ InputFails(c))
              \/ "out" \in conn[c].awaited /\ OutputSettles(c)

Progress(c) == NativeOpened(c) \/ Settles(c) \/ TransfersSettled(c) \/ DeviceClosed(c)

UsbNext == \E c \in Conns :
    \/ Open(c) \/ Ready(c) \/ OpenFails(c) \/ InputArrives(c) \/ InputEmpty(c) \/ InputFails(c)
    \/ Read(c) \/ Collect(c) \/ PlatformTakes(c) \/ Write(c) \/ WriteRefused(c)
    \/ Close(c) \/ Invalidate(c, "fault") \/ OutputSettles(c) \/ Progress(c)
=============================================================================
