----------------------------- MODULE MCSessionRpc -----------------------------
(* Two subscriptions of which one may be held, two calls pending, four made.  *)
EXTENDS SessionRpc

MCAdapters == {"direct", "postMessage"}
MCSubs == {"s1", "s2"}
=============================================================================
