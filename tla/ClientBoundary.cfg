SPECIFICATION BoundarySpec
CONSTANTS
    Subscribers = {"prompt", "stalled"}
    Prompt = {"prompt"}
    Keys = {"a", "b"}
    Shapes = {{}, {"a"}, {"a", "b"}}
    ReplayRequests = {0, 1}
    Adapters = {"direct", "postMessage"}
    Subs = {"s1", "s2"}
    Clients = {"c1", "c2"}
    LeasedSubs = {"s1"}
    Builds = {1, 2}
    Ops = {"o1", "o2", "o3", "o4", "o5"}
    Polls = {"o4"}
    Depth = 1
    ReplayMax = 2
    MaxEvents = 3
    MaxPending = 2
    MaxSubs = 1
    MaxCalls = 3
    MaxClients = 1
    MaxCaptures = 2
    MaxKnown = 2
    MaxActive = 2
    MaxResults = 2
INVARIANTS
    DeliveryExact
    CallsAccounted
    LeasesAndResultsKept
PROPERTIES
    PeersIndependent
    EndedSubscriptionsStop
CHECK_DEADLOCK FALSE
