SPECIFICATION Spec
CONSTANTS
    Off = Off
    nA = nA
    nB = nB
    nC = nC
    nLong = nLong
    Name <- MCName
    LongName = {nLong}
    SourceCount = 3
    UseLimit = 4
    ImportLimit = 3
    FactLimit = 2
    MaxUses = 4
    Capacity = 5
    Batches = 2
    BatchSize = 2
    LinkLimit = 4
    SourceCounts = {2, 4, 5}
    Projects <- MCProjects
    LocatedSourceCount = 2
    MaxLength = 3
    Texts <- MCTexts
    Strides = {1, 2}
    Shapes <- MCShapes
    FirstScalar = 3
    LastScalar = 14
    PlaneSize = 8
    Radix = 16
    SearchSteps = 2
    TableLimit = 3
    Properties <- MCProperties
SYMMETRY ShortNames
INVARIANTS
    ImportsAreSound
    ImportClosureIsExact
    DiagnosticsAreLocated
    TablesClassify
CHECK_DEADLOCK FALSE
