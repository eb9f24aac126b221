SPECIFICATION Spec
CONSTANTS
    p1 = p1
    p2 = p2
    rA = rA
    rB = rB
    rC = rC
    None = None
    Empty = Empty
    Process <- MCProcess
    Revision <- MCRevision
    InTree = FALSE
    MaxStops = 2
    MaxRepins = 3
CHECK_DEADLOCK FALSE
INVARIANT ReturnedProbeIsPinned
