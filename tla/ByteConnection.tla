--------------------------- MODULE ByteConnection ---------------------------
(***************************************************************************)
(* What packages/contracts/src/transport.ts promises of a DeviceConnection *)
(* and its channel, whatever the platform: the abstract specification that *)
(* NodeSerial, BrowserSerial, NodeUsb and BrowserUsb are shown to          *)
(* implement.  A step concerns one connection and may move several facets  *)
(* of it at once, since an adapter's handlers end the connection, settle   *)
(* its write and drop its input together.                                  *)
(***************************************************************************)
EXTENDS Naturals

CONSTANTS Conns,     \* the connections of one device, one per successful open
          Endings,   \* TransportTermination's kinds
          NoEnding

VARIABLES live,      \* the connection object was handed to the host
          held,      \* its native handle is the host's to release
          withheld,  \* the platform refused to release it, or is closing it by itself
          ended,     \* its termination, or NoEnding
          asked,     \* close() was called
          answered,  \* close() has resolved
          receipt,   \* of the last write: "none", "pending" or its outcome
          taken,     \* the platform took all of that write
          reading,   \* a half-duplex read is outstanding
          heard      \* chunks queued for the reader

vars == <<live, held, withheld, ended, asked, answered, receipt, taken, reading, heard>>

Receipts == {"none", "pending", "accepted-by-platform", "may-be-partial", "rejected"}

Init == /\ live = [c \in Conns |-> FALSE] /\ held = live /\ withheld = live
        /\ asked = live /\ answered = live /\ taken = live /\ reading = live
        /\ ended = [c \in Conns |-> NoEnding]
        /\ receipt = [c \in Conns |-> "none"]
        /\ heard = [c \in Conns |-> 0]

(* One ending, for ever; an ordinary clean close only when the host asked. *)
Ending(c) == \/ ended'[c] = ended[c]
             \/ /\ live[c] /\ ended[c] = NoEnding /\ ended'[c] \in Endings
                /\ ended'[c] = "closed-by-host" => asked[c] \/ asked'[c]

(* One holder of the device; a live connection keeps its handle until it   *)
(* ended or was asked to close.                                            *)
Holding(c) == \/ held'[c] = held[c]
              \/ held'[c] /\ ~live[c] /\ \A d \in Conns \ {c} : ~held[d]
              \/ ~held'[c] /\ (live[c] => asked[c] \/ ended'[c] # NoEnding)

(* A write starts on a usable connection and never while a half-duplex     *)
(* read is out; it settles once, and as accepted only if it was.           *)
Writing(c) ==
    \/ receipt'[c] = receipt[c]
    \/ /\ receipt'[c] \in {"pending", "rejected"} /\ receipt[c] = "none"
       /\ live[c] /\ ended[c] = NoEnding /\ ~reading[c]
    \/ receipt[c] = "pending" /\ receipt'[c] = "may-be-partial"
    \/ receipt[c] = "pending" /\ receipt'[c] = "accepted-by-platform" /\ taken[c]
    \/ receipt[c] \notin {"none", "pending"} /\ receipt'[c] = "none"

(* Nothing is heard of, or kept for the reader of, an ended connection.    *)
Hearing(c) == /\ heard'[c] > heard[c] => ended'[c] = NoEnding
              /\ ended'[c] # NoEnding => heard'[c] = 0 /\ ~reading'[c]
              /\ reading'[c] /\ ~reading[c] => receipt[c] # "pending" /\ live[c]

(* close() answers last: an ending is known and the handle is released, or *)
(* the platform withholds it.                                              *)
Answering(c) == \/ answered'[c] = answered[c]
                \/ /\ asked[c] \/ asked'[c]
                   /\ ended'[c] # NoEnding
                   /\ held'[c] => withheld'[c]

Step(c) == /\ Ending(c) /\ Holding(c) /\ Writing(c) /\ Hearing(c) /\ Answering(c)
           /\ (live[c] => live'[c]) /\ (asked[c] => asked'[c] /\ live[c])
           /\ (answered[c] => answered'[c])

Others(c) == \A d \in Conns \ {c} :
    /\ <<live[d], held[d], withheld[d], ended[d], asked[d]>>'
         = <<live[d], held[d], withheld[d], ended[d], asked[d]>>
    /\ <<answered[d], receipt[d], taken[d], reading[d], heard[d]>>'
         = <<answered[d], receipt[d], taken[d], reading[d], heard[d]>>

Next == \E c \in Conns : Step(c) /\ Others(c)

Spec == Init /\ [][Next]_vars
=============================================================================
