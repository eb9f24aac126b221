-------------------------- MODULE ImportResolution --------------------------
(***************************************************************************)
(* duplicate_modules and resolve_imports of the native compiler's project  *)
(* pass and the verdict compile_project_target gives: names declared twice *)
(* are reported; then each use of each module, in source order, is looked  *)
(* up among the names the other modules declare, through a small cache of  *)
(* earlier lookups, within a limit per module and a limit per project;     *)
(* what fails is a diagnostic.                                             *)
(*                                                                         *)
(* The sources are the input: their declared names are fixed at the start, *)
(* their uses are chosen as they are read.                                 *)
(***************************************************************************)
EXTENDS Naturals, Sequences, FiniteSets, SequencesExt

CONSTANTS
    Name, LongName,     \* module names, and those over 64 bytes
    SourceCount,
    UseLimit,           \* uses of one module, 1024
    ImportLimit,        \* links of the project, 4096
    FactLimit,          \* facts kept and examined, 64
    MaxUses             \* bound of the model: uses in the whole project

Source == 1 .. SourceCount

ASSUME ResolutionAssumption ==
    /\ LongName \subseteq Name
    /\ SourceCount \in Nat \ {0}
    /\ UseLimit \in Nat \ {0} /\ ImportLimit \in Nat /\ FactLimit \in Nat \ {0} /\ MaxUses \in Nat

VARIABLES
    declared,           \* the name each source declares
    checked, duplicates,    \* sources looked at for an earlier one of the same name; those found
    current,            \* the source whose uses are resolved, or SourceCount + 1
    uses,               \* the uses read so far, per source
    facts, facts_count, \* the current source's cache, newest first
    imports,            \* links [source, use, target]
    diagnostics, valid, count,
    result              \* << >>, or the verdict and the project's diagnostics

resolutionVars ==
    << declared, checked, duplicates, current, uses, facts, facts_count, imports, diagnostics, valid, count, result >>

----------------------------------------------------------------------------
\* find_import_target: the first other module of that name, or 0.
FindImportTarget(s, n) ==
    LET same == {t \in Source : t # s /\ declared[t] = n}
    IN IF same = {} THEN 0 ELSE CHOOSE t \in same : \A u \in same : t <= u

Cacheable(n) == n \notin LongName

\* Seeded fault: a cached answer for a name is taken for any name as long.
KeyEqualByLength(n, fact) == Cacheable(n) /\ Cacheable(fact.name)

\* module_resolution_cache_key_equal.
KeyEqual(n, fact) == Cacheable(n) /\ fact.name = n

\* module_resolution_cache_lookup: the newest of the facts it examines.
Cached(n) ==
    LET hits == {i \in DOMAIN facts : i <= FactLimit /\ KeyEqual(n, facts[i])}
    IN IF hits = {} THEN << >> ELSE << facts[CHOOSE i \in hits : \A j \in hits : i <= j] >>

\* module_resolution_cache_add: a full cache starts over.
CacheAdd(n, t) ==
    IF facts_count >= FactLimit THEN << [name |-> n, target |-> t] >>
    ELSE << [name |-> n, target |-> t] >> \o facts

Diagnostic(k, s, u) == [kind |-> k, source |-> s, use |-> u]

----------------------------------------------------------------------------
ResolutionInit ==
    /\ declared \in [Source -> Name]
    /\ checked = 0 /\ duplicates = << >>
    /\ current = 1
    /\ uses = [s \in Source |-> << >>]
    /\ facts = << >> /\ facts_count = 0
    /\ imports = << >> /\ diagnostics = << >> /\ valid = TRUE /\ count = 0
    /\ result = << >>

\* find_duplicate_module: an earlier module of the same name.
Duplicate == {s \in Source : \E t \in Source : t < s /\ declared[t] = declared[s]}

\* duplicate_module_cons; the list ends up in source order.
CheckDuplicate ==
    /\ checked < SourceCount
    /\ duplicates' = IF checked + 1 \in Duplicate
                     THEN Append(duplicates, Diagnostic("DuplicateModule", checked + 1, 0)) ELSE duplicates
    /\ checked' = checked + 1
    /\ UNCHANGED << declared, current, uses, facts, facts_count, imports, diagnostics, valid, count, result >>

----------------------------------------------------------------------------
Reading == checked = SourceCount /\ current <= SourceCount /\ result = << >>

\* resolve_one_use and resolve_one_use_result.
ResolveUse(n) ==
    /\ Reading /\ Len(uses[current]) < UseLimit /\ count < ImportLimit
    /\ LET hit == Cached(n)
           target == IF hit = << >> THEN FindImportTarget(current, n) ELSE hit[1].target
           use == Len(uses[current]) + 1
       IN /\ uses' = [uses EXCEPT ![current] = Append(@, n)]
          /\ facts' = IF hit = << >> /\ Cacheable(n) THEN CacheAdd(n, target) ELSE facts
          /\ facts_count' = IF hit = << >> /\ Cacheable(n)
                            THEN IF facts_count >= FactLimit THEN 1 ELSE facts_count + 1
                            ELSE facts_count
          /\ imports' = IF target = 0 THEN imports
                        ELSE Append(imports, [source |-> current, use |-> use, target |-> target])
          /\ diagnostics' = IF target = 0 THEN Append(diagnostics, Diagnostic("MissingImport", current, use))
                            ELSE diagnostics
          /\ valid' = (valid /\ target # 0)
          /\ count' = IF target = 0 THEN count ELSE count + 1
    /\ UNCHANGED << declared, checked, duplicates, current, result >>

\* The next module's list starts with an empty cache.
NextModule(to) ==
    /\ current' = to
    /\ facts' = << >> /\ facts_count' = 0
    /\ UNCHANGED << declared, checked, duplicates, uses, imports, count, result >>

EndUses ==
    /\ Reading
    /\ NextModule(current + 1)
    /\ UNCHANGED << diagnostics, valid >>

\* finish_use_resolution with uses left: at the first one not resolved.
Limit(to) ==
    /\ valid' = FALSE
    /\ diagnostics' = Append(diagnostics, Diagnostic("ImportLimitExceeded", current, Len(uses[current]) + 1))
    /\ NextModule(to)

\* A module's own limit: the modules after it are still resolved.
ModuleLimit ==
    /\ Reading /\ Len(uses[current]) = UseLimit
    /\ Limit(current + 1)

\* The project's limit: no further use is looked at.
ProjectLimit ==
    /\ Reading /\ Len(uses[current]) < UseLimit /\ count >= ImportLimit
    /\ Limit(SourceCount + 1)

----------------------------------------------------------------------------
\* append_diagnostics pushes the first list, head first, onto the second.
AppendDiagnostics(first, second) == Reverse(first) \o second

\* order_diagnostics: sources out of order, or not covering the pages.
OrderDiagnostics(ordered) == IF ordered THEN << >> ELSE << Diagnostic("SourceOrder", 1, 0) >>

\* append_stage_diagnostic and append_target_missing prepend; a missing target
\* lies beyond the sources.
StageDiagnostics(stage, s, missing) ==
    (IF missing THEN << Diagnostic("TargetModuleMissing", SourceCount + 1, 0) >> ELSE << >>)
    \o (IF stage = "none" THEN << >> ELSE << Diagnostic(stage, s, 0) >>)

\* compile_project_target, once the uses are resolved.  The first stage that fails
\* is named: parsing, or the proof or flow of a module that is lowered, which a
\* missing target is not.
Conclude ==
    /\ checked = SourceCount /\ current = SourceCount + 1 /\ result = << >>
    /\ \E ordered, missing \in BOOLEAN, stage \in {"none", "ParseFailed", "LoweringFailed"}, s \in Source :
          /\ missing => stage # "LoweringFailed"
          /\ LET basic == AppendDiagnostics(OrderDiagnostics(ordered), duplicates)
                 all == StageDiagnostics(stage, s, missing) \o AppendDiagnostics(basic, diagnostics)
             IN result' = << [valid |-> ordered /\ stage = "none" /\ ~missing /\ valid /\ all = << >>,
                              diagnostics |-> all] >>
    /\ UNCHANGED << declared, checked, duplicates, current, uses, facts, facts_count, imports, diagnostics, valid, count >>

UsesLeft == FoldFunction(LAMBDA s, n : n - Len(s), MaxUses, uses) > 0

ResolutionNext ==
    \/ CheckDuplicate
    \/ \E n \in Name : UsesLeft /\ ResolveUse(n)
    \/ EndUses \/ ModuleLimit \/ ProjectLimit
    \/ Conclude

ResolutionSpec == ResolutionInit /\ [][ResolutionNext]_resolutionVars

----------------------------------------------------------------------------
\* Links and diagnostics name sources and uses of the project.
ResolutionTypeOK ==
    /\ declared \in [Source -> Name] /\ uses \in [Source -> Seq(Name)]
    /\ checked \in 0 .. SourceCount /\ current \in 1 .. SourceCount + 1
    /\ valid \in BOOLEAN /\ count = Len(imports)
    /\ \A i \in DOMAIN imports : imports[i].source \in Source /\ imports[i].target \in Source
    /\ \A i \in DOMAIN diagnostics : diagnostics[i].source \in Source
    /\ \A i \in DOMAIN duplicates : duplicates[i].source \in Source

Providers(s, n) == {t \in Source \ {s} : declared[t] = n}

\* A cache hit, a restarted cache and an uncacheable name all lead where looking
\* at every module would: each use with a provider has one link, to the first
\* module other than its own that declares the name, and links keep source order.
LookupsAgree ==
    /\ \A s \in Source : \A u \in DOMAIN uses[s] :
          LET links == {i \in DOMAIN imports : imports[i].source = s /\ imports[i].use = u}
              ps == Providers(s, uses[s][u])
          IN /\ Cardinality(links) = (IF ps = {} THEN 0 ELSE 1)
             /\ \A i \in links : imports[i].target \in ps /\ \A t \in ps : imports[i].target <= t
    /\ \A i, j \in DOMAIN imports : i < j =>
          \/ imports[i].source < imports[j].source
          \/ imports[i].source = imports[j].source /\ imports[i].use < imports[j].use

\* "missing results still produce a fresh diagnostic for each current use": every
\* use without a provider is reported once, however often the name was asked for.
EveryMissIsReported ==
    \A s \in Source : \A u \in DOMAIN uses[s] :
        Cardinality({i \in DOMAIN diagnostics : diagnostics[i] = Diagnostic("MissingImport", s, u)})
            = IF Providers(s, uses[s][u]) = {} THEN 1 ELSE 0

\* "The list is capped at the 64 facts the lookup examines": the count kept beside
\* the list is its length, no fact lies beyond the lookup's reach and none shadows
\* another.
FactsAreExamined ==
    /\ facts_count = Len(facts) /\ facts_count <= FactLimit
    /\ \A i, j \in DOMAIN facts : facts[i].name = facts[j].name => i = j

\* "a project result is never invalid without a reason": compile_project_target
\* says invalid exactly when it gives a diagnostic, limits included.
InvalidHasReason ==
    result # << >> => (result[1].valid <=> result[1].diagnostics = << >>)

\* In a project found valid each use has one possible provider, so that taking the
\* first match never decides which module is meant.
ValidIsUnambiguous ==
    result # << >> /\ result[1].valid =>
        \A s \in Source : \A u \in DOMAIN uses[s] : Cardinality(Providers(s, uses[s][u])) = 1
=============================================================================
