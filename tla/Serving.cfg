SPECIFICATION Spec
CONSTANTS
    None = None
    mSession = mSession
    mPlain = mPlain
    mUnknown = mUnknown
    Module <- MCModule
    Elaborated <- MCElaborated
    Admitted <- MCAdmitted
    Emittable <- MCEmittable
    MaxLines = 4
    Path <- MCPath
    AbsolutePath <- MCAbsolutePath
    FileOf <- MCFileOf
    File <- MCFile
    Suffix <- MCSuffix
    Invocations <- MCInvocations
    MaxCalls = 2
    MaxEffects = 2
    MaxInvocations = 3
    Requests <- MCRequests
    Inventories <- MCInventories
    MaxRoots = 3
    MaxCases = 2
    MaxSeeds = 3
    MaxModules = 2
    MaxBytes = 4
INVARIANTS
    ProbeServesAnyOrder
    RequestsAreExact
PROPERTIES
    RunnerKeepsToItsGrant
    EveryLineIsAnswered
CHECK_DEADLOCK FALSE
