-------------------------- MODULE ClosureIdentity --------------------------
(***************************************************************************)
(* application_executable_closure_identity of application.rs, and the      *)
(* reuse it licenses: a build whose identity equals the one an artifact    *)
(* was stored under takes that artifact without emitting again.  The       *)
(* source is edited between builds.                                        *)
(*                                                                         *)
(* A build is a request: the call graph, the text of each body (what is    *)
(* neither a call nor a type), the types it mentions, the type arguments   *)
(* of a specialization, each type's fields and text, and which identities  *)
(* the frontend has a fingerprint for.  A fingerprint identifies a         *)
(* declaration's own content, not the content of what it refers to; that   *)
(* is why the walk exists.                                                 *)
(***************************************************************************)
EXTENDS ProgramGraph

CONSTANTS Type, Text, Builds,
    Refused        \* what a failed emission returns

BuildType ==
    [program : ProgramType, text : [Function -> Text], mentions : [Function -> SUBSET Type],
     arguments : [Function -> SUBSET Type], fields : [Type -> SUBSET Type],
     typeText : [Type -> Text], nominal : SUBSET Type,
     assumptions : Text, roots : SUBSET Function, seeds : SUBSET Function,
     facts : SUBSET (Function \union Type), ambiguous : BOOLEAN]

(***************************************************************************)
(* A specialization's name is made from its template and arguments, so no  *)
(* edit changes the record of a function that stays.                       *)
(***************************************************************************)
ASSUME BuildsAssumption ==
    /\ Builds \subseteq BuildType
    /\ \A b, c \in Builds : \A x \in b.program.declared \intersect c.program.declared :
          GenericsOf(b.program, x) = GenericsOf(c.program, x)

VARIABLES build, identity_phase, pending_functions, function_facts, nominal_types, type_facts,
          stored,   \* the pair last stored, in a set: an identity and its artifact
          served    \* at most one artifact handed out for the current build

identityVars == <<build, identity_phase, pending_functions, function_facts, nominal_types, type_facts, stored, served>>
identityWalk == <<pending_functions, function_facts, nominal_types, type_facts>>

p == build.program

\* The semantic fingerprint of a function, and of a nominal type.
Fingerprint(b, x) ==
    <<b.text[x], b.program.calls[x], b.program.iterates[x], b.mentions[x],
      x \in b.program.generic, x \in b.program.body>>
TypeFingerprint(b, t) == <<b.typeText[t], b.fields[t]>>

----------------------------------------------------------------------------
(***************************************************************************)
(* What the emitter makes of a build (VmEmission): the closure of the      *)
(* selected functions with the types it mentions and its records.          *)
(***************************************************************************)
SelectedRoots(b) ==
    (b.roots \ b.seeds)
    \union ((UNION {SpecializationsOf(b.program, g) : g \in b.seeds}) \intersect b.program.declared)

EmittedFunctions(b) ==
    {x \in Function : \A C \in SUBSET Function :
        SelectedRoots(b) \subseteq C /\ (\A y \in C : Callees(b.program, y) \subseteq C) => x \in C}

EmittedTypes(b) ==
    {t \in Type : \A C \in SUBSET Type :
        /\ \A x \in EmittedFunctions(b) : b.mentions[x] \subseteq C
        /\ \A u \in C : b.fields[u] \subseteq C
        => t \in C}

Emission(b) ==
    IF \E x \in EmittedFunctions(b) : x \notin b.program.body \/ x \in b.program.generic
    THEN Refused
    ELSE [functions |-> {<<x, Fingerprint(b, x)>> : x \in EmittedFunctions(b)},
          types |-> {<<t, TypeFingerprint(b, t)>> : t \in EmittedTypes(b)},
          specs |-> {r \in b.program.specs : r[2] \in EmittedFunctions(b)},
          assumptions |-> b.assumptions]

----------------------------------------------------------------------------
IdentityInit ==
    /\ build \in Builds
    /\ identity_phase = "start"
    /\ pending_functions = {} /\ function_facts = {} /\ nominal_types = {} /\ type_facts = {}
    /\ stored = {} /\ served = {}

\* The next request carries an edited source, or other roots and seeds.
EditSources ==
    /\ identity_phase = "served"
    /\ build' \in Builds
    /\ identity_phase' = "start" /\ served' = {}
    /\ pending_functions' = {} /\ function_facts' = {} /\ nominal_types' = {} /\ type_facts' = {}
    /\ UNCHANGED stored

Start ==
    /\ identity_phase = "start"
    /\ build.roots # {} /\ ~build.ambiguous
    /\ pending_functions' = build.roots \union build.seeds
    /\ identity_phase' = "functions"
    /\ UNCHANGED <<build, function_facts, nominal_types, type_facts, stored, served>>

\* while let Some(identity) = pending.pop_first().
VisitFunction(x) ==
    /\ identity_phase = "functions" /\ x \in pending_functions \ function_facts
    /\ x \in p.declared \intersect p.body \intersect build.facts
    /\ function_facts' = function_facts \union {x}
    /\ nominal_types' = nominal_types \union build.mentions[x]
    /\ pending_functions' = (pending_functions \ {x}) \union Callees(p, x) \union SpecializationsOf(p, x)
    /\ UNCHANGED <<build, identity_phase, type_facts, stored, served>>

SkipFunction(x) ==
    /\ identity_phase = "functions" /\ x \in pending_functions \intersect function_facts
    /\ pending_functions' = pending_functions \ {x}
    /\ UNCHANGED <<build, identity_phase, function_facts, nominal_types, type_facts, stored, served>>

FunctionsDone ==
    /\ identity_phase = "functions" /\ pending_functions = {}
    /\ nominal_types' = nominal_types \union
         UNION {build.arguments[r[2]] : r \in {q \in p.specs : q[1] \in function_facts}}
    /\ identity_phase' = "types"
    /\ UNCHANGED <<build, pending_functions, function_facts, type_facts, stored, served>>

VisitType(t) ==
    /\ identity_phase = "types" /\ t \in nominal_types
    /\ t \in type_facts \/ t \in build.facts \intersect build.nominal
    /\ type_facts' = type_facts \union {t}
    /\ nominal_types' = (nominal_types \ {t}) \union (IF t \in type_facts THEN {} ELSE build.fields[t])
    /\ UNCHANGED <<build, identity_phase, pending_functions, function_facts, stored, served>>

(***************************************************************************)
(* None: no roots, two functions of one identity, something undeclared,    *)
(* without a body or without a fingerprint.                                *)
(***************************************************************************)
NotIdentifiable ==
    \/ identity_phase = "start" /\ (build.roots = {} \/ build.ambiguous)
    \/ identity_phase = "functions" /\ ~(pending_functions \ function_facts \subseteq p.declared \intersect p.body \intersect build.facts)
    \/ identity_phase = "types" /\ ~(nominal_types \ type_facts \subseteq build.facts \intersect build.nominal)

\* A failed emission is reported and stores nothing.
EmitUnidentified ==
    /\ NotIdentifiable
    /\ served' = {Emission(build)}
    /\ identity_phase' = "served"
    /\ UNCHANGED <<build, identityWalk, stored>>

\* Seeded fault: the seeds count as roots and are not listed on their own.
IdentityOfMergedSeeds(b, F, T) ==
    [roots |-> b.roots \union b.seeds,
     functions |-> {<<x, Fingerprint(b, x)>> : x \in F},
     types |-> {<<t, TypeFingerprint(b, t)>> : t \in T},
     specs |-> {r \in b.program.specs : r[1] \in F},
     assumptions |-> b.assumptions]

\* The identity of a build whose walk visited the functions F and the types T.
IdentityOf(b, F, T) ==
    [roots |-> b.roots \union b.seeds, seeds |-> b.seeds,
     functions |-> {<<x, Fingerprint(b, x)>> : x \in F},
     types |-> {<<t, TypeFingerprint(b, t)>> : t \in T},
     specs |-> {r \in b.program.specs : r[1] \in F},
     assumptions |-> b.assumptions]

Identity == IdentityOf(build, function_facts, type_facts)

Identified == identity_phase = "types" /\ nominal_types = {}

Reuse ==
    /\ Identified
    /\ \E s \in stored : s[1] = Identity /\ served' = {s[2]}
    /\ identity_phase' = "served"
    /\ UNCHANGED <<build, identityWalk, stored>>

EmitAndStore ==
    /\ Identified
    /\ \A s \in stored : s[1] # Identity
    /\ served' = {Emission(build)}
    /\ stored' = IF Emission(build) = Refused THEN stored ELSE {<<Identity, Emission(build)>>}
    /\ identity_phase' = "served"
    /\ UNCHANGED <<build, identityWalk>>

IdentityNext ==
    \/ EditSources \/ Start \/ FunctionsDone \/ EmitUnidentified \/ Reuse \/ EmitAndStore
    \/ \E x \in Function : VisitFunction(x) \/ SkipFunction(x)
    \/ \E t \in Type : VisitType(t)

IdentitySpec == IdentityInit /\ [][IdentityNext]_identityVars

----------------------------------------------------------------------------
(***************************************************************************)
(* The walk stays within the declared functions and types.                 *)
(***************************************************************************)
IdentityTypeOK ==
    /\ build \in Builds
    /\ identity_phase \in {"start", "functions", "types", "served"}
    /\ pending_functions \subseteq Function /\ function_facts \subseteq Function
    /\ nominal_types \subseteq Type /\ type_facts \subseteq Type

(***************************************************************************)
(* A build is answered with the artifact that emitting it would produce,   *)
(* whether it was emitted now or reused by the identity alone: nothing     *)
(* the emitted closure depends on is missing from the identity.            *)
(***************************************************************************)
ReuseIsExact == identity_phase = "served" => served = {Emission(build)}

(***************************************************************************)
(* Whatever is emitted was walked: the identity's closure contains the     *)
(* emitter's, functions and types alike.                                   *)
(***************************************************************************)
IdentityCoversEmission ==
    Identified /\ Emission(build) # Refused =>
        /\ EmittedFunctions(build) \subseteq function_facts
        /\ EmittedTypes(build) \subseteq type_facts
=============================================================================
