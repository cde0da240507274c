--------------------------- MODULE MCEventDelivery ---------------------------
(* Two subscribers, one of which may never return from its listener, and three *)
(* events, lossless, of one key or of two.                                     *)
EXTENDS EventDelivery

MCSubscribers == {"prompt", "stalled"}
MCPrompt == {"prompt"}
MCKeys == {"a", "b"}
MCShapes == {{}, {"a"}, {"a", "b"}}
MCReplayRequests == {0, 1}
=============================================================================
