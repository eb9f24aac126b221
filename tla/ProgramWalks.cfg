SPECIFICATION Spec
CONSTANTS
    f = f
    g = g
    h = h
    t = t
    u = u
    tA = tA
    tB = tB
    nA = nA
    nB = nB
    idA = idA
    idB = idB
    u8 = u8
    None = None
    Refused = Refused
    Function = {f, g, h}
    NameOf <- MCNameOf
    NamespaceOf <- MCNamespaceOf
    AnyNamespace = "*"
    Programs <- MCPrograms
    Selections <- MCSelections
    Type = {t, u}
    Text = {1, 2}
    Builds <- MCBuilds
    NamedType <- MCNamedType
    Ref <- MCRef
    Builtin <- MCBuiltin
    Wrapper = {"plain", "array"}
    InterfaceText = {"f", "x", "y"}
    InterfacePrograms <- MCInterfacePrograms
INVARIANTS
    ProjectionIsExact
    ProjectionIsStable
    ReuseIsExact
    VerifiedIsComplete
    AdmittedMeansTheSame
PROPERTY
    WalksEnd
CHECK_DEADLOCK FALSE
