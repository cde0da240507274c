--------------------------- MODULE ClientBoundaryMC ---------------------------
(* What lies between the session and its clients.  A behaviour is one of:      *)
(*  - the delivery of events, with two subscribers of which one may never      *)
(*    return from its listener, three events, lossless, of one key or of two;  *)
(*  - the calls of a client, over either adapter, with two subscriptions of    *)
(*    which one may be held, and three calls of which two may be pending;      *)
(*  - the leases of two clients where one may be attached, with a subscription *)
(*    and a capture, before and after two connect requests made the session;   *)
(*  - the results of five operations, one of them a poll's, two at a time.     *)
EXTENDS Naturals

CONSTANTS Subscribers, Prompt, Keys, Shapes, ReplayRequests, Depth, ReplayMax, MaxEvents,
          Adapters, Subs, MaxPending, MaxSubs, MaxCalls,
          Clients, LeasedSubs, Builds, MaxClients, MaxCaptures,
          Ops, Polls, MaxKnown, MaxActive, MaxResults

VARIABLES kind, sequence, replay, sub,
          adapter, dead, calls, pending, active, reserved, up, serving, down,
          listening, disposed, due, served,
          hosted, build, server, sess, accepted, missed, past,
          running, retained, awaiting, known, ended, acknowledged, early

Ev == INSTANCE EventDelivery
Rp == INSTANCE SessionRpc
Cl == INSTANCE SessionClients WITH Subs <- LeasedSubs
Re == INSTANCE OperationResults WITH active <- running, waiters <- awaiting

delivery == <<sequence, replay, sub>>
rpc == <<adapter, dead, calls, pending, active, reserved, up, serving, down, listening, disposed, due, served>>
leases == <<hosted, build, server, sess, accepted, missed, past>>
results == <<running, retained, awaiting, known, ended, acknowledged, early>>
boundaryVars == <<kind, delivery, rpc, leases, results>>

ASSUME BoundaryAssumption ==
    Ev!DeliveryAssumption /\ Rp!RpcAssumption /\ Cl!ClientsAssumption /\ Re!ResultsAssumption

BoundaryInit ==
    /\ kind \in {"delivery", "calls", "leases", "results"}
    /\ Ev!Init /\ Rp!Init /\ Cl!ClientsInit /\ Re!ResultsInit
    /\ kind # "calls" => adapter = "direct"

BoundaryNext ==
    /\ UNCHANGED kind
    /\ \/ kind = "delivery" /\ Ev!Next /\ UNCHANGED <<rpc, leases, results>>
       \/ kind = "calls" /\ Rp!Next /\ UNCHANGED <<delivery, leases, results>>
       \/ kind = "leases" /\ Cl!ClientsNext /\ UNCHANGED <<delivery, rpc, results>>
       \/ kind = "results" /\ Re!ResultsNext /\ UNCHANGED <<delivery, rpc, leases>>

\* The component that does not run has no step enabled.
BoundarySpec == BoundaryInit /\ [][BoundaryNext]_boundaryVars /\ Ev!Fairness /\ Rp!Fairness

-----------------------------------------------------------------------------
\* No event due to a live subscriber is lost or out of order, and the bounds that end
\* a subscriber are reckoned exactly (EventDelivery).
DeliveryExact == Ev!NothingLost /\ Ev!AccountsExact

\* A stalled listener does not hold up the others (EventDelivery).
PeersIndependent == Ev!PeersIndependent

\* Every call is in one place until it is settled, and the limit on subscriptions
\* counts exactly, burst and disposal included (SessionRpc).
CallsAccounted == Rp!CallsAccounted /\ Rp!SubscriptionsCounted

\* A subscription that ended is soon not served any more (SessionRpc).
EndedSubscriptionsStop == Rp!EndedSubscriptionsStop

\* The session has the clients, the subscriptions and the capture that were accepted
\* for it before it existed (SessionClients), and a result is kept for the client that
\* has not acknowledged it (OperationResults).
LeasesAndResultsKept == Cl!SessionKnowsClients /\ Cl!CaptureTakenOver /\ Re!ResultsKept
=============================================================================
