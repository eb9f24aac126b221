SPECIFICATION Spec
CONSTANTS
    Off = Off
    fE = fE
    fT = fT
    fI = fI
    tOuter = tOuter
    tInner = tInner
    oFirst = oFirst
    oSecond = oSecond
    cUsed = cUsed
    cOther = cOther
    Function = {fE, fT, fI}
    RecordType = {tOuter, tInner}
    Obligation = {oFirst, oSecond}
    Capability = {cUsed, cOther}
    CopyKind = {"static", "window", "offset"}
    Inputs <- MCInputs
    Losses <- MCLosses
    U64MAX = 5
    UNROLL_LIMIT = 2
    REBUILD_LIMIT = 3
    ExactBounds = {0, 3, 4}
    ViewBounds = {3}
    SsaFunctions <- MCSsaFunctions
    BlockOf <- MCBlockOf
    InputsOf <- MCInputsOf
    RunnableCopy <- MCRunnableCopy
    Values <- MCValues
    Received <- MCReceived
    MaxU32 = 31
    MaxExpanded = 28
    MaxDepth = 4
INVARIANTS
    EmissionIsSound
    LoweringIsSound
    GraphIsSound
    CodecIsFaithful
PROPERTY
    EmissionsEnd
CHECK_DEADLOCK FALSE
