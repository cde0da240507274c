SPECIFICATION PathSpec
CONSTANTS
    HardLimit = 3
    Sizes <- MCSizes
    Kinds <- MCKinds
    MaxOctets = 1
    MaxConsumers = 2
    MaxBindings = 2
    MaxInputs = 1
    MaxHeard = 1
    Quantum = 1
    Concurrency = 2
    Activations = {r, o1, o2}
    Reader = r
    Others = {o1, o2}
    Boxes = {"box"}
    Standing = FALSE
    MaxRequests = 3
    MaxChunks = 1
    MaxSize = 2
    MaxMessages = 1
    MaxTimers = 1
SYMMETRY Symmetry
INVARIANT TurnsByReadiness
CHECK_DEADLOCK FALSE
