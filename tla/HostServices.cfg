SPECIFICATION Spec
CONSTANTS
    MaxBuffered = 4
    PartSize = 2
    HoldSize = 2
    MaxSeen = 4
    MaxHolds = 1
    Interval = 1
    Backoff = 2
    ReleaseAfter = 2
    Refill = 2
    Operations = {o1, o2}
    Owner = o1
    Nobody = Nobody
    Length = 4
    Chunk = 2
    Extent = 3
    MaxGrants = 3
    Calls = {c1, c2, c3}
    MaxParts = 1
    NoRequest = NoRequest
INVARIANTS
    RecordingHonest
    NothingForgotten
    BrokerExact
PROPERTIES
    CaptureEnds
    PollsKeepDistance
CHECK_DEADLOCK FALSE
