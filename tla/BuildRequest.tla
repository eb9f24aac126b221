---------------------------- MODULE BuildRequest ----------------------------
(***************************************************************************)
(* What compile_application does with a request before and after the       *)
(* frontend runs: the ordered validation of its fields, the cache key it   *)
(* is looked up under, and the resolution of its test selection against    *)
(* the Test inventory of the verified program, which may add callable      *)
(* roots and replaces the entry.                                           *)
(*                                                                         *)
(* Roots, case identities and seeds are numbers, ordered as the strings    *)
(* they stand for; 0 is a malformed row.  A seed has the number of the     *)
(* function it specializes, a module that of its bytes.  source holds      *)
(* which of root_source_id and root_source are strings.  The inventory     *)
(* comes from Language and is not trusted.                                 *)
(***************************************************************************)
EXTENDS RequestVersions, FiniteSets, SequencesExt

CONSTANTS
    Requests,           \* the requests a client may send
    Inventories,        \* the sequences of tests the frontend may report
    MaxRoots, MaxCases, MaxSeeds, MaxModules, MaxBytes    \* the code's MAX_ constants

\* A field of a request: absent, of another type, or with its rows.  An entry is one row.
Field == {f \in [kind : {"absent", "other", "all", "rows"}, rows : Seq(Nat)] : f.kind # "rows" => f.rows = << >>}
SourceTest == [identity : Nat, root : Nat, declaration : Nat, generic : BOOLEAN, sound : BOOLEAN]

ASSUME RequestAssumption ==
    /\ Requests \subseteq [version : Nat, selection : Field, roots : Field, entry : Field, seeds : Field, modules : Field,
                          target : BOOLEAN, source : SUBSET {"id", "text"}, rootBytes : Nat, other : STRING]
    /\ \A r \in Requests : r.entry.kind = "rows" => Len(r.entry.rows) = 1
    /\ Inventories \subseteq [sound : BOOLEAN, tests : Seq(SourceTest)]
    /\ MaxRoots \in Nat \ {0}
    /\ {MaxCases, MaxSeeds, MaxModules, MaxBytes} \subseteq Nat

VARIABLES request, inventory, pc, answer

requestVars == << request, inventory, pc, answer >>

Present(field) == field.kind # "absent"
IsArray(field) == field.kind = "rows"
Repeats(rows) == \E i, j \in DOMAIN rows : i < j /\ rows[i] = rows[j]

\* The elements of a set in the order of a relation: the i-th has i - 1 before it.
InOrder(set, before) ==
    [i \in 1 .. Cardinality(set) |-> CHOOSE x \in set : Cardinality({y \in set : << y, x >> \in before}) = i - 1]
Ascending(set) == InOrder(set, {p \in set \X set : p[1] < p[2]})

----------------------------------------------------------------------------
(* Validation.  Every check stands for one early return. *)

Check(fails, status, code) == [fails |-> fails, status |-> status, code |-> code]

\* parse_source_test_selection.
SelectionParses(selection) ==
    \/ selection.kind = "all"
    \/ /\ IsArray(selection)
       /\ Len(selection.rows) \in 1 .. MaxCases
       /\ 0 \notin ToSet(selection.rows) /\ ~Repeats(selection.rows)

RootChecks(r) ==
    LET roots == r.roots
        select == SelectsTestCases(r.version)
    IN  IF MultipleCallables(r.version)
        THEN << Check(Present(r.entry), "unknown", "MCA104"),
                Check(Present(roots) /\ ~IsArray(roots), "unknown", "MCA104"),
                Check(~Present(roots) /\ ~select, "unknown", "MCA104"),
                Check(Len(roots.rows) > MaxRoots \/ (roots.rows = << >> /\ ~select), "unsupported", "MCA111"),
                \* The rows are read one after the other until one is refused.
                Check(\E i \in DOMAIN roots.rows :
                         roots.rows[i] = 0 /\ ~Repeats(SubSeq(roots.rows, 1, i - 1)), "unknown", "MCA104"),
                Check(Repeats(roots.rows), "unknown", "MCA112") >>
        ELSE << Check(~IsArray(r.entry), "unknown", "MCA104") >>

\* parse_generic_seeds.
SeedsParse(rows) == 0 \notin ToSet(rows)

TotalBytes(first, rows) == FoldSeq(+, first, rows)

\* The modules are counted, read and added up with the root source.
ModuleChecks(r) ==
    << Check(~IsArray(r.modules), "unknown", "MCA105"),
       Check(Len(r.modules.rows) > MaxModules, "unsupported", "MCA106"),
       Check(0 \in ToSet(r.modules.rows), "unknown", "MCA107"),
       Check(TotalBytes(r.rootBytes, r.modules.rows) > MaxBytes, "unsupported", "MCA108") >>

Checks(r) ==
    << Check(r.version \notin Versions, "unknown", "MCA100"),
       Check(SelectsTestCases(r.version) /\ ~SelectionParses(r.selection), "unknown", "MCA113"),
       Check(~r.target, "unavailable", "MCA101"),
       Check(Present(r.seeds) /\ ~IsArray(r.seeds), "unknown", "MCA109"),
       Check(Len(r.seeds.rows) > MaxSeeds, "unsupported", "MCA110"),
       Check(~SeedsParse(r.seeds.rows), "unknown", "MCA109"),
       Check("id" \notin r.source, "unknown", "MCA102"),
       Check("text" \notin r.source, "unknown", "MCA103") >>
    \o RootChecks(r)
    \o ModuleChecks(r)

NoneFails(checks) == \A i \in DOMAIN checks : ~checks[i].fails
FirstFailing(checks) ==
    checks[CHOOSE i \in DOMAIN checks : checks[i].fails /\ \A j \in 1 .. i - 1 : ~checks[j].fails]
AdmittedRequest(r) == NoneFails(Checks(r))

----------------------------------------------------------------------------
(* What an admitted request asks for. *)

\* The roots of a BTreeSet, or the one entry of request /1.
CallableRoots(r) ==
    IF MultipleCallables(r.version) THEN Ascending(ToSet(r.roots.rows)) ELSE r.entry.rows

NoSelection == [kind |-> "none", rows |-> << >>]

\* SourceTestSelection::value, with sorted identities.
Selection(r) ==
    IF ~SelectsTestCases(r.version) THEN NoSelection
    ELSE [kind |-> r.selection.kind, rows |-> Ascending(ToSet(r.selection.rows))]

SeedFunctions(r) == ToSet(r.seeds.rows)
SeedKeys(r) == Ascending(ToSet(r.seeds.rows))

\* Seeded fault: the key leaves the test selection out.
KeyWithoutSelection(r) ==
    [contract |-> ContractOf(r.version), sources |-> << r.rootBytes, r.modules.rows >>, seeds |-> SeedKeys(r),
     roots |-> CallableRoots(r), entry |-> r.entry, other |-> r.other]

\* application_cache_key, as the tuple that is hashed.
CacheKey(r) ==
    [contract |-> ContractOf(r.version), sources |-> << r.rootBytes, r.modules.rows >>, seeds |-> SeedKeys(r),
     roots |-> CallableRoots(r), selection |-> Selection(r), entry |-> r.entry, other |-> r.other]

----------------------------------------------------------------------------
(* resolve_source_test_selection and what follows it. *)

Cases(inv, identity) == {i \in DOMAIN inv.tests : inv.tests[i].identity = identity}

Resolves(selection, inv) ==
    \/ selection.kind = "all"
    \/ \A i \in DOMAIN selection.rows : Cardinality(Cases(inv, selection.rows[i])) = 1

\* The tests found for the identities, in their order.
Matches(selection, inv) ==
    [i \in DOMAIN selection.rows |-> inv.tests[CHOOSE j \in Cases(inv, selection.rows[i]) : TRUE]]

\* A stable sort by declaration.
Before(tests) ==
    {p \in (DOMAIN tests) \X (DOMAIN tests) :
        \/ tests[p[1]].declaration < tests[p[2]].declaration
        \/ tests[p[1]].declaration = tests[p[2]].declaration /\ p[1] < p[2]}
ByDeclaration(tests) == [i \in DOMAIN tests |-> tests[InOrder(DOMAIN tests, Before(tests))[i]]]

\* The selected tests, sorted unless all are taken.
SelectedCases(selection, inv) ==
    IF selection.kind = "all" THEN inv.tests ELSE ByDeclaration(Matches(selection, inv))

\* The first test whose row is refused decides the answer.
CaseCheck(r, test) ==
    IF ~test.sound THEN Check(TRUE, "rejected", "MCA115")
    ELSE Check(test.generic /\ test.root \notin SeedFunctions(r), "unsupported", "MCA114")
CaseChecks(r, cases) == [i \in DOMAIN cases |-> CaseCheck(r, cases[i])]

TestRoots(cases) == {cases[i].root : i \in DOMAIN cases}

CombinedRoots(r, cases) == ToSet(CallableRoots(r)) \union TestRoots(cases)

SelectionChecks(r, inv) ==
    LET selection == Selection(r)
        early == << Check(~inv.sound, "rejected", "MCA115"),
                    Check(selection.kind = "all" /\ Len(inv.tests) > MaxCases, "unsupported", "MCA114"),
                    Check(~Resolves(selection, inv), "rejected", "MCA115") >>
        roots == CombinedRoots(r, SelectedCases(selection, inv))
    IN  IF ~NoneFails(early) THEN early
        ELSE CaseChecks(r, SelectedCases(selection, inv))
             \o << Check(roots = {}, "unsupported", "MCA114"),
                   Check(Cardinality(roots) > MaxRoots, "unsupported", "MCA114") >>

----------------------------------------------------------------------------

Pending == [status |-> "none", schema |-> 0, code |-> "none", roots |-> << >>, cases |-> << >>]
Refused(check) == [Pending EXCEPT !.status = check.status, !.schema = ContractOf(request.version), !.code = check.code]

\* The checks of compile_application up to the cache lookups.
Validate ==
    /\ pc = "validate"
    /\ IF AdmittedRequest(request)
       THEN pc' = "frontend" /\ answer' = [Pending EXCEPT !.roots = CallableRoots(request)]
       ELSE pc' = "answered" /\ answer' = Refused(FirstFailing(Checks(request)))
    /\ UNCHANGED << request, inventory >>

\* The program is verified and the selection resolved on its inventory.
Select ==
    /\ pc = "frontend"
    /\ SelectsTestCases(request.version)
    /\ LET checks == SelectionChecks(request, inventory)
           cases == SelectedCases(Selection(request), inventory)
       IN  IF NoneFails(checks)
           THEN /\ pc' = "build"
                /\ answer' = [answer EXCEPT !.roots = Ascending(CombinedRoots(request, cases)), !.cases = cases]
           ELSE pc' = "answered" /\ answer' = Refused(FirstFailing(checks))
    /\ UNCHANGED << request, inventory >>

SelectNothing ==
    /\ pc = "frontend"
    /\ ~SelectsTestCases(request.version)
    /\ pc' = "build"
    /\ UNCHANGED << request, inventory, answer >>

Build ==
    /\ pc = "build"
    /\ pc' = "answered"
    /\ answer' = [answer EXCEPT !.status = "built", !.schema = ContractOf(request.version)]
    /\ UNCHANGED << request, inventory >>

RequestInit ==
    /\ request \in Requests /\ inventory \in Inventories
    /\ pc = "validate" /\ answer = Pending

RequestNext == Validate \/ Select \/ SelectNothing \/ Build
RequestSpec == RequestInit /\ [][RequestNext]_requestVars

----------------------------------------------------------------------------
(* Properties. *)

\* The type invariant, with the bounds of the request contract.
RequestTypeOK ==
    /\ request \in Requests /\ inventory \in Inventories
    /\ pc \in {"validate", "frontend", "build", "answered"}
    /\ answer.status \in {"none", "built", "unknown", "unsupported", "unavailable", "rejected"}
    /\ answer.schema \in 0 .. 16
    /\ Len(answer.roots) <= MaxRoots /\ Len(answer.cases) <= MaxCases

AskedRoots == ToSet(IF MultipleCallables(request.version) THEN request.roots.rows ELSE request.entry.rows)
AskedTests ==
    {t \in ToSet(inventory.tests) :
        /\ SelectsTestCases(request.version)
        /\ request.selection.kind = "all" \/ t.identity \in ToSet(request.selection.rows)}

\* A build that is answered was made for exactly what was asked: the explicit
\* roots together with the function of every selected test, each identity
\* resolved to one test, no generic test without its seed, and never an empty
\* list whose first element would be the entry.
BuiltAsAsked ==
    answer.status = "built" =>
        /\ ToSet(answer.roots) = AskedRoots \union {t.root : t \in AskedTests}
        /\ answer.roots # << >>
        /\ ToSet(answer.cases) = AskedTests
        /\ \A t \in AskedTests : t.sound /\ (t.generic => t.root \in ToSet(request.seeds.rows))
        /\ request.selection.kind = "rows" /\ SelectsTestCases(request.version) =>
               Len(answer.cases) = Len(request.selection.rows)

Flip(field, yes) == IF yes THEN [field EXCEPT !.rows = Reverse(@)] ELSE field
Reordered(r, a, b, c) == [r EXCEPT !.roots = Flip(@, a), !.selection = Flip(@, b), !.seeds = Flip(@, c)]

\* "Specialization identities are normalized, sorted": the order in which a
\* client lists roots, identities and seeds changes neither the key nor the
\* roots and cases that are built.
OrderDoesNotMatter ==
    pc = "build" =>
        \A a, b, c \in BOOLEAN :
            LET r == Reordered(request, a, b, c)
            IN  /\ AdmittedRequest(r)
                /\ CacheKey(r) = CacheKey(request)
                /\ SelectsTestCases(r.version) =>
                      SelectedCases(Selection(r), [inventory EXCEPT !.tests = IF r.selection.kind = "all" THEN @ ELSE Reverse(@)])
                          = answer.cases

\* What a request asks for, whatever the order.
Question(r) ==
    [contract |-> ContractOf(r.version), sources |-> << r.rootBytes, r.modules.rows >>,
     roots |-> ToSet(IF MultipleCallables(r.version) THEN r.roots.rows ELSE r.entry.rows),
     tests |-> IF SelectsTestCases(r.version) THEN [all |-> r.selection.kind = "all", of |-> ToSet(r.selection.rows)]
               ELSE [all |-> FALSE, of |-> {}],
     seeds |-> ToSet(r.seeds.rows), other |-> r.other]

Asked == {<< CacheKey(r), Question(r) >> : r \in {q \in Requests : AdmittedRequest(q)}}

\* Two requests that share a cache key ask for the same build, so that the one
\* may be answered with the entry of the other.
KeyIsExact ==
    pc = "frontend" =>
        \A q \in Asked : q[1] = CacheKey(request) => q[2] = Question(request)
=============================================================================
