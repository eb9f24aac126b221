SPECIFICATION FairSpec
CONSTANTS
    p1 = p1
    p2 = p2
    rA = rA
    rB = rB
    rC = rC
    None = None
    Empty = Empty
    Process <- MCProcess
    Revision <- MCRevision
    InTree = TRUE
    MaxStops = 2
    MaxRepins = 3
CHECK_DEADLOCK FALSE
INVARIANT ReturnedProbeIsPinned
PROPERTIES NothingIsTakenBack ProvisioningRecovers
