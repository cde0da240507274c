SPECIFICATION PathSpec
CONSTANTS
    HardLimit = 3
    Sizes <- MCSizes
    Kinds <- MCKinds
    MaxOctets = 6
    MaxConsumers = 2
    MaxBindings = 2
    MaxInputs = 2
    MaxHeard = 3
    Quantum = 1
    Concurrency = 2
    Activations = {r, o1, o2}
    Reader = r
    Others = {o1, o2}
    Boxes = {"box"}
    Standing = FALSE
    MaxRequests = 3
    MaxChunks = 1
    MaxSize = 2
    MaxMessages = 1
    MaxTimers = 1
SYMMETRY Symmetry
INVARIANTS
    NoSilentLoss
    WaiterNeverStranded
    CustodyComplete
    RetirementExact
    NoLostWakeup
    TurnsAccounted
PROPERTIES
    DeliveredInOrder
CHECK_DEADLOCK FALSE
