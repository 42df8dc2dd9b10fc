SPECIFICATION FairSpec
CONSTANTS
    Roots = {r1, r2}
    NoRoot = NoRoot
    LateStart = TRUE
    MaxMoves = 2
    MaxReadFaults = 1
    MaxFaults = 2
INVARIANTS CleanupInv LeavesNothing
PROPERTIES ImplementsProtocol DeletionCompletes
CHECK_DEADLOCK FALSE
