SPECIFICATION Spec
CONSTANTS
    None = None
    Absent = Absent
    Nothing = Nothing
    p1 = p1
    p2 = p2
    main = main
    import = import
    cA = cA
    cB = cB
    tA = tA
    tB = tB
    Provider <- MCProvider
    File <- MCFile
    Source = main
    Content <- MCContent
    Checkout <- MCCheckout
    Reverts = FALSE
    MaxEvents = 2
    MaxEmits = 2
    Requested <- MCRequested
    MaxRuns = 2
    rSource = rSource
    rLibrary = rLibrary
    tOne = tOne
    tTwo = tTwo
    tOther = tOther
    Elsewhere = Elsewhere
    Root <- MCRoot
    RootPath <- MCRootPath
    Slot <- MCSlot
    Directory <- MCDirectory
    Orders <- MCOrders
    Module <- MCModule
    Version = {"v1"}
    Text <- MCText
    Compatible <- MCCompatible
    Trees <- MCTrees
    Mounts <- MCMounts
INVARIANTS
    ProductsAreSound
    ResultIsGenuine
    ResolutionIsSound
PROPERTY
    ProvidersEnd
CHECK_DEADLOCK FALSE
