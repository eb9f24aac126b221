--------------------------- MODULE MCNativePasses ---------------------------
(***************************************************************************)
(* Passes of the native compiler over a whole project, and the generator   *)
(* of its character tables: the resolution of imports, the closure of a    *)
(* target's imports, the locations of diagnostics and the classifier.      *)
(* Each is a function of what it is given: a behaviour is one of the four, *)
(* and the variables of the others are Off throughout.                     *)
(***************************************************************************)
EXTENDS ImportResolution, ImportClosure, DiagnosticLocations, UnicodeClassifier

CONSTANTS
    Off,
    nA, nB, nC, nLong,   \* module names
    SourceCounts,        \* sizes of the projects whose closure is taken
    MaxLength            \* bound: bytes of a text

VARIABLE native   \* which pass the behaviour is

ResolutionOff ==
    /\ declared = Off /\ checked = Off /\ duplicates = Off /\ current = Off /\ uses = Off /\ facts = Off /\ facts_count = Off
    /\ imports = Off /\ diagnostics = Off /\ valid = Off /\ count = Off /\ result = Off

ClosureOff ==
    /\ project = Off /\ target = Off /\ phase = Off /\ at = Off /\ reachable = Off
    /\ changed = Off /\ adjacency = Off /\ pending = Off /\ expanding = Off /\ turn = Off

LocationOff == text = Off /\ stride = Off /\ shape = Off /\ cursor = Off /\ walk = Off /\ last = Off

ClassifierOff ==
    /\ included = Off /\ classifier_phase = Off /\ scalar = Off /\ start = Off /\ ranges = Off
    /\ plane = Off /\ entry = Off /\ tables = Off /\ value = Off /\ low = Off /\ high = Off /\ found = Off /\ step = Off

Init ==
    \/ native = "resolution" /\ ResolutionInit /\ ClosureOff /\ LocationOff /\ ClassifierOff
    \/ native = "closure" /\ ClosureInit /\ ResolutionOff /\ LocationOff /\ ClassifierOff
    \/ native = "locations" /\ LocationInit /\ ResolutionOff /\ ClosureOff /\ ClassifierOff
    \/ native = "classifier" /\ ClassifierInit /\ ResolutionOff /\ ClosureOff /\ LocationOff

Next ==
    /\ UNCHANGED native
    /\ \/ native = "resolution" /\ ResolutionNext /\ UNCHANGED << closureVars, locationVars, classifierVars >>
       \/ native = "closure" /\ ClosureNext /\ UNCHANGED << resolutionVars, locationVars, classifierVars >>
       \/ native = "locations" /\ LocationNext /\ UNCHANGED << resolutionVars, closureVars, classifierVars >>
       \/ native = "classifier" /\ ClassifierNext /\ UNCHANGED << resolutionVars, closureVars, locationVars >>

Spec == Init /\ [][Next]_<< native, resolutionVars, closureVars, locationVars, classifierVars >>

----------------------------------------------------------------------------
(***************************************************************************)
(* The cache of facts never shows: a use leads where looking at every      *)
(* module would, each miss is reported each time, and no fact is kept      *)
(* where the lookup does not see it.  A project is invalid exactly when it *)
(* says why, limits included, and a valid one leaves no import to the      *)
(* order of its sources.                                                   *)
(***************************************************************************)
ImportsAreSound ==
    native = "resolution" =>
        /\ ResolutionTypeOK
        /\ LookupsAgree
        /\ EveryMissIsReported
        /\ FactsAreExamined
        /\ InvalidHasReason
        /\ ValidIsUnambiguous

(***************************************************************************)
(* Early exits, scans and a stack of fixed size all end with exactly the   *)
(* modules the target can reach.                                           *)
(***************************************************************************)
ImportClosureIsExact == native = "closure" => ClosureTypeOK /\ ClosureIsExact /\ WorkFits

(***************************************************************************)
(* The cursor carried from one diagnostic to the next gives each the line  *)
(* and column a count from the start of its source gives.                  *)
(***************************************************************************)
DiagnosticsAreLocated ==
    native = "locations" => LocationTypeOK /\ LocationsAreExact /\ CursorIsTrue

(***************************************************************************)
(* The packed tables and the search with its fixed number of steps answer  *)
(* as the predicate they were generated from.                              *)
(***************************************************************************)
TablesClassify ==
    native = "classifier" => ClassifierTypeOK /\ TablesAreSorted /\ ClassifiesExactly

----------------------------------------------------------------------------
(* Three modules and four names, one of them too long for the cache: a     *)
(* cache of two facts fills, starts over and is hit by a name found and by *)
(* one that is not; a module and the project meet their limits.            *)
MCName == {nA, nB, nC, nLong}
ShortNames == Permutations({nA, nB, nC})

----------------------------------------------------------------------------
(* Link lists as resolve_imports leaves them: grouped by importing module  *)
(* in ascending order, no module importing itself, repeated links          *)
(* included, up to the Batches * BatchSize links a project may have.       *)
MaxLinks == Batches * BatchSize
Others(n) == {l \in (0 .. n - 1) \X (0 .. n - 1) : l[1] # l[2]}
Grouped(s) == \A i \in 1 .. Len(s) - 1 : s[i][1] <= s[i + 1][1]
Lists(n) == UNION {{s \in [1 .. m -> Others(n)] : Grouped(s)} : m \in 0 .. MaxLinks}
MCProjects == UNION {[source_count : {n}, imports : Lists(n)] : n \in SourceCounts}

----------------------------------------------------------------------------
(* Any text of up to three bytes beside one of two, in pages of one or two *)
(* bytes, so that spans begin, end and cross at page boundaries.           *)
MCTexts == {<< t, << "newline", "other" >> >> : t \in BoundedSeq(Byte, MaxLength)}
MCShapes == {<< "good", x >> : x \in {"good", "slice", "pages"}}

----------------------------------------------------------------------------
(* Every set of scalars in two planes of eight: runs cross from one plane  *)
(* to the other, three entries need both steps of the search, and four do  *)
(* not fit a table.                                                        *)
MCProperties == SUBSET (FirstScalar .. LastScalar)
=============================================================================
