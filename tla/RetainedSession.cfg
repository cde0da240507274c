SPECIFICATION Spec
CONSTANTS
    Ops <- MCOps
    WithCleanup <- MCRestore
    Lifecycle <- MCRestore
    Connections = {c1, c2}
    RetainedLimit = 2
    TaskLimit = 3
    TimerLimit = 1
    NoConnection = NoConnection
SYMMETRY MCSymmetry
INVARIANTS
    OwnerExact
    AccountsExact
    OneResult
    ConnectionsAccounted
PROPERTIES
    WriteAuthority
CHECK_DEADLOCK FALSE
