SPECIFICATION ProgressSpec
CONSTANTS
    Locks <- MCLocks
    Operations <- MCOperations
    Handlers <- MCHandlers
    LocksOf <- MCLocksOf
    WithCleanup <- MCWithCleanup
    Suspends <- MCSuspends
    Ops = {"restore"}
    Connections = {c1, c2}
    RetainedLimit = 1
    TaskLimit = 3
    TimerLimit = 1
    NoConnection = NoConnection
INVARIANTS
    LocksFollowActivation
    NoStrandedWaiter
PROPERTIES
    NoOvertaking
    WaiterServed
    ClosedSessionReleases
    CleanupEnds
CHECK_DEADLOCK FALSE
