SPECIFICATION Spec
CONSTANTS
    Adapters <- MCAdapters
    Subs <- MCSubs
    MaxPending = 2
    MaxSubs = 1
    MaxCalls = 4
PROPERTIES
    EveryCallSettles
CHECK_DEADLOCK FALSE
