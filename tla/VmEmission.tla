----------------------------- MODULE VmEmission -----------------------------
(***************************************************************************)
(* Emission of one VM artifact, vm_emit.rs: the exports are selected, the  *)
(* Program is narrowed to the bodies they reach (application_lowering_     *)
(* program), the Language compiler turns it into SSA, the SSA is narrowed  *)
(* once more by a walk of its own (application_ssa_closure) together with  *)
(* its record types, obligations and trace, and what is left is sealed     *)
(* with its callables, generic entrypoints and capability bindings.        *)
(*                                                                         *)
(* mode is the entry point: "whole" program, chosen "roots", or            *)
(* "application" (roots plus seeded generics).  Worklists are sets: every  *)
(* walk skips what it has visited, so any order of popping is covered.     *)
(* Sequence copies are lowered in between; SequenceCopy has the passes.    *)
(***************************************************************************)
EXTENDS ProgramGraph

CONSTANTS RecordType, Obligation, Capability, CopyKind,
    Inputs,        \* pairs of a request and what the bodies refer to
    Losses         \* <<functions left without SSA, functions left without blocks>>

Mode == {"whole", "roots", "application"}

RequestType ==
    [mode : Mode, program : ProgramType, mismatched : SUBSET Function,
     roots : SUBSET Function, seeds : SUBSET Function, spelled : SUBSET (Function \X Function)]

InstructionType ==
    [kind : {"host", "call", "other"}, uses : SUBSET Capability, required : SUBSET Capability]

AttachmentType ==
    [proofs : BOOLEAN, facts : BOOLEAN, boundary : BOOLEAN,
     types : [Function -> SUBSET RecordType], fields : [RecordType -> SUBSET RecordType], recordTypes : SUBSET RecordType,
     obligations : [Function -> SUBSET Obligation], known : SUBSET Obligation,
     dependencies : [Obligation -> SUBSET Obligation], assumptions : [Obligation -> SUBSET Obligation],
     trace : [Function -> SUBSET Function],
     copies : [Function -> SUBSET CopyKind], code : [Function -> SUBSET InstructionType]]

SsaType ==
    [functions : SUBSET Function, blocks : SUBSET Function, recordTypes : SUBSET RecordType,
     obligations : SUBSET Obligation, trace : [Function -> SUBSET Function],
     specs : SUBSET (Function \X Function)]

ArtifactType ==
    [ssa : SsaType, callables : SUBSET Function, entrypoints : SUBSET (Function \X Function),
     unsupported : SUBSET (Function \union (Function \X Function)),
     capabilities : SUBSET Capability, bindings : SUBSET (Function \X {"source-alias", "canonical-identity"} \X Capability),
     lowering_refs : SUBSET ({"application-ssa-closure"} \union CopyKind)]

ASSUME InputsAssumption ==
    /\ Inputs \subseteq RequestType \X AttachmentType
    /\ Losses \subseteq (SUBSET Function) \X (SUBSET Function)

VARIABLES
    request, att,  \* the input, fixed
    selected,      \* selected_exports
    emission_phase,  \* the step the emission is at, or "sealed", "refused"
    why,           \* the error it was refused with
    lowered,       \* lowering_program
    unvisited, reachable, ssa,
    unselected,    \* unselected_unresolved
    artifact       \* a set of at most one sealed artifact

emissionVars == <<request, att, selected, emission_phase, why, lowered, unvisited, reachable, ssa, unselected, artifact>>
input == <<request, att>>
emissionWalk == <<unvisited, reachable>>

prog == request.program
scoped == request.mode # "whole"

NoSsa == [functions |-> {}, blocks |-> {}, recordTypes |-> {}, obligations |-> {},
          trace |-> [x \in Function |-> {}], specs |-> {}]

EmissionInit ==
    /\ \E i \in Inputs : request = i[1] /\ att = i[2]
    /\ selected = {} /\ emission_phase = "select" /\ why = "none" /\ lowered = request.program
    /\ unvisited = {} /\ reachable = {} /\ ssa = NoSsa
    /\ unselected = {} /\ artifact = {}

FailEmission(reason) ==
    /\ emission_phase' = "refused" /\ why' = reason
    /\ UNCHANGED <<input, selected, lowered, emissionWalk, ssa, unselected, artifact>>

\* application_selected_exports: a seeded generic stands for its declared instances.
SelectedExports(r) ==
    IF r.mode = "application"
    THEN (r.roots \ r.seeds)
         \union ((UNION {SpecializationsOf(r.program, g) : g \in r.seeds}) \intersect r.program.declared)
    ELSE r.roots

RefuseNoRoots ==
    /\ emission_phase = "select"
    /\ request.mode = "application" /\ request.roots = {}
    /\ FailEmission("roots")

SelectExports ==
    /\ emission_phase = "select"
    /\ request.mode = "application" => request.roots # {}
    /\ IF scoped
       THEN /\ selected' = SelectedExports(request)
            /\ emission_phase' = "validate"
       ELSE /\ selected' = prog.declared
            /\ emission_phase' = "compile"
    /\ UNCHANGED <<input, why, lowered, emissionWalk, ssa, unselected, artifact>>

(***************************************************************************)
(* application_lowering_program.                                           *)
(***************************************************************************)
RefuseProgram ==
    /\ emission_phase = "validate"
    /\ selected = {} \/ ~ValidProgram(prog)
    /\ FailEmission("program")

StartLowering ==
    /\ emission_phase = "validate"
    /\ selected # {} /\ ValidProgram(prog)
    /\ unvisited' = selected /\ reachable' = {}
    /\ emission_phase' = "lower"
    /\ UNCHANGED <<input, selected, why, lowered, ssa, unselected, artifact>>

Executable(x) == x \in prog.declared \intersect prog.body /\ x \notin prog.generic \union request.mismatched

\* Seeded fault: callees of bounded iterations are not followed.
LowerCallsOnly(x) ==
    /\ emission_phase = "lower" /\ x \in unvisited
    /\ Executable(x) \/ x \in reachable
    /\ reachable' = reachable \union {x}
    /\ unvisited' = (unvisited \ {x}) \union (IF x \in reachable THEN {} ELSE prog.calls[x])
    /\ UNCHANGED <<input, selected, emission_phase, why, lowered, ssa, unselected, artifact>>

Lower(x) ==
    /\ emission_phase = "lower" /\ x \in unvisited
    /\ Executable(x) \/ x \in reachable
    /\ reachable' = reachable \union {x}
    /\ unvisited' = (unvisited \ {x}) \union (IF x \in reachable THEN {} ELSE Callees(prog, x))
    /\ UNCHANGED <<input, selected, emission_phase, why, lowered, ssa, unselected, artifact>>

RefuseLowering(x) ==
    /\ emission_phase = "lower" /\ x \in unvisited \ reachable
    /\ ~Executable(x)
    /\ FailEmission("source")

LoweringDone ==
    /\ emission_phase = "lower" /\ unvisited = {}
    /\ lowered' = [prog EXCEPT !.body = @ \intersect reachable]
    /\ emission_phase' = "compile"
    /\ UNCHANGED <<input, selected, why, emissionWalk, ssa, unselected, artifact>>

(***************************************************************************)
(* The Language compiler, or the result of an earlier call for the same    *)
(* lowered Program: one SSA function per declaration that is no template,  *)
(* with blocks where there is a body, as far as the compiler delivers.     *)
(***************************************************************************)
CompiledSsa(p, lost) ==
    [functions |-> (p.declared \ p.generic) \ lost[1],
     blocks |-> (p.body \ p.generic) \ (lost[1] \union lost[2]),
     recordTypes |-> att.recordTypes, obligations |-> att.known, trace |-> att.trace, specs |-> p.specs]

CompileFails == emission_phase = "compile" /\ FailEmission("compile")

Entry(s, x) == x \in s.functions

\* generic_entrypoint_rows: records with a spelling whose two ends are declared.
GenericRows == {r \in prog.specs \intersect request.spelled : r[1] \in prog.declared /\ r[2] \in prog.declared}

RowSelected(r) == request.mode # "application" \/ r[1] \in request.seeds

Compile ==
    /\ emission_phase = "compile"
    /\ \E lost \in Losses : ssa' = CompiledSsa(lowered, lost)
    /\ unselected' =
         (IF scoped THEN {x \in prog.declared \ selected : ~Entry(ssa', x)} ELSE {})
         \union {r \in GenericRows : ~RowSelected(r) /\ ~Entry(ssa', r[2])}
    /\ emission_phase' = IF scoped THEN "project" ELSE "emit"
    /\ UNCHANGED <<input, selected, why, lowered, emissionWalk, artifact>>

(***************************************************************************)
(* application_ssa_closure.                                                *)
(***************************************************************************)
SsaCallees(x) == Callees(lowered, x)

RefuseProofs == emission_phase = "project" /\ att.proofs /\ FailEmission("proofs")

StartClosure ==
    /\ emission_phase = "project" /\ ~att.proofs
    /\ unvisited' = selected /\ reachable' = {}
    /\ emission_phase' = "walk"
    /\ UNCHANGED <<input, selected, why, lowered, ssa, unselected, artifact>>

Walk(x) ==
    /\ emission_phase = "walk" /\ x \in unvisited
    /\ x \in ssa.functions /\ (x \in ssa.blocks \/ x \in reachable)
    /\ reachable' = reachable \union {x}
    /\ unvisited' = (unvisited \ {x}) \union (IF x \in reachable THEN {} ELSE SsaCallees(x))
    /\ UNCHANGED <<input, selected, emission_phase, why, lowered, ssa, unselected, artifact>>

RefuseTarget(x) ==
    /\ emission_phase = "walk" /\ x \in unvisited \ reachable
    /\ x \notin ssa.functions \intersect ssa.blocks
    /\ FailEmission("target")

\* Functions, and the record types the retained ones name.
ClosureDone ==
    /\ emission_phase = "walk" /\ unvisited = {}
    /\ ssa' = [ssa EXCEPT !.functions = @ \intersect reachable, !.blocks = @ \intersect reachable]
    /\ unvisited' = UNION {att.types[x] : x \in reachable} /\ reachable' = {}
    /\ emission_phase' = "types"
    /\ UNCHANGED <<input, selected, why, lowered, unselected, artifact>>

\* retain_application_ssa_record_type_closure.
WalkType(t) ==
    /\ emission_phase = "types" /\ t \in unvisited
    /\ t \in ssa.recordTypes
    /\ reachable' = reachable \union {t}
    /\ unvisited' = (unvisited \ {t}) \union (IF t \in reachable THEN {} ELSE att.fields[t])
    /\ UNCHANGED <<input, selected, emission_phase, why, lowered, ssa, unselected, artifact>>

RefuseType(t) ==
    /\ emission_phase = "types" /\ t \in unvisited
    /\ t \notin ssa.recordTypes
    /\ FailEmission("type")

TypesDone ==
    /\ emission_phase = "types" /\ unvisited = {}
    /\ ssa' = [ssa EXCEPT !.recordTypes = @ \intersect reachable]
    /\ reachable' = UNION {att.obligations[x] : x \in ssa.functions}
    /\ unvisited' = reachable'
    /\ emission_phase' = "obligations"
    /\ UNCHANGED <<input, selected, why, lowered, unselected, artifact>>

WalkObligation(o) ==
    /\ emission_phase = "obligations" /\ o \in unvisited
    /\ LET found == IF o \in ssa.obligations
                    THEN ((att.dependencies[o] \union att.assumptions[o]) \intersect ssa.obligations) \ reachable
                    ELSE {}
       IN /\ reachable' = reachable \union found
          /\ unvisited' = (unvisited \ {o}) \union found
    /\ UNCHANGED <<input, selected, emission_phase, why, lowered, ssa, unselected, artifact>>

(***************************************************************************)
(* A trace row belongs to a semantic identity and lists SSA identities; a  *)
(* row left without any, of a function that is gone, is dropped.           *)
(***************************************************************************)
RetainedTrace == [x \in Function |-> ssa.trace[x] \intersect ssa.functions]

(***************************************************************************)
(* validate_lowering_boundary_with_verified_facts: what the cut could      *)
(* disturb, and what the compiler's SSA brings along.                      *)
(***************************************************************************)
ValidSsa(s) ==
    /\ att.boundary
    /\ \A x \in s.blocks : SsaCallees(x) \subseteq s.functions
    /\ \A x \in s.functions : att.types[x] \subseteq s.recordTypes
    /\ \A t \in s.recordTypes : att.fields[t] \subseteq s.recordTypes

Projection ==
    [ssa EXCEPT !.obligations = @ \intersect reachable, !.trace = RetainedTrace,
                !.specs = {r \in @ : r[2] \in ssa.functions}]

Project ==
    /\ emission_phase = "obligations" /\ unvisited = {}
    /\ ValidSsa(Projection)
    /\ ssa' = Projection
    /\ emission_phase' = "emit"
    /\ UNCHANGED <<input, selected, why, lowered, emissionWalk, unselected, artifact>>

RefuseProjectedSsa ==
    /\ emission_phase = "obligations" /\ unvisited = {}
    /\ ~ValidSsa(Projection)
    /\ FailEmission("projection")

(***************************************************************************)
(* capability_dispatch_bindings and the capability_set of the artifact.    *)
(***************************************************************************)
Code(s) == {c \in s.blocks \X InstructionType : c[2] \in att.code[c[1]]}

HostCallsAreBound(s) == \A c \in Code(s) : c[2].kind = "host" => Cardinality(c[2].uses) = 1

Bindings(s) ==
    UNION {IF c[2].kind = "host" THEN {<<c[1], "source-alias", k>> : k \in c[2].uses}
           ELSE {<<c[1], "canonical-identity", k>> : k \in IF c[2].kind = "call" THEN c[2].required ELSE c[2].uses}
           : c \in Code(s)}

Capabilities(s) ==
    UNION {c[2].uses \union (IF c[2].kind = "call" THEN c[2].required ELSE {}) : c \in Code(s)}

RefuseHostCall == emission_phase = "emit" /\ ~HostCallsAreBound(ssa) /\ FailEmission("host_call")

\* An application needs the complete SSA facts of the compilation.
RefuseFacts ==
    /\ emission_phase = "emit" /\ HostCallsAreBound(ssa)
    /\ request.mode = "application" /\ ~att.facts
    /\ FailEmission("facts")

Emit ==
    /\ emission_phase = "emit" /\ HostCallsAreBound(ssa)
    /\ request.mode = "application" => att.facts
    /\ LET exports == selected \intersect prog.declared
           rows == {r \in GenericRows : RowSelected(r)}
       IN artifact' = {[ssa |-> ssa,
                        callables |-> {x \in exports : Entry(ssa, x)},
                        entrypoints |-> {r \in rows : Entry(ssa, r[2])},
                        unsupported |-> {x \in exports : ~Entry(ssa, x)} \union {r \in rows : ~Entry(ssa, r[2])},
                        capabilities |-> Capabilities(ssa),
                        bindings |-> Bindings(ssa),
                        lowering_refs |-> (IF scoped THEN {"application-ssa-closure"} ELSE {})
                                          \union UNION {att.copies[x] : x \in ssa.functions}]}
    /\ emission_phase' = "sealed"
    /\ UNCHANGED <<input, selected, why, lowered, emissionWalk, ssa, unselected>>

EmissionNext ==
    \/ RefuseNoRoots \/ SelectExports \/ RefuseProgram \/ StartLowering \/ LoweringDone
    \/ \E x \in Function : Lower(x) \/ RefuseLowering(x) \/ Walk(x) \/ RefuseTarget(x)
    \/ CompileFails \/ Compile \/ RefuseProofs \/ StartClosure \/ ClosureDone
    \/ \E t \in RecordType : WalkType(t) \/ RefuseType(t)
    \/ TypesDone \/ Project \/ RefuseProjectedSsa \/ RefuseHostCall \/ RefuseFacts \/ Emit
    \/ \E o \in Obligation : WalkObligation(o)

\* Emission is one call that runs to its end.
EmissionFairness == WF_emissionVars(EmissionNext)
EmissionSpec == EmissionInit /\ [][EmissionNext]_emissionVars
EmissionFairSpec == EmissionSpec /\ EmissionFairness

----------------------------------------------------------------------------
(***************************************************************************)
(* The shape of the emission's state.                                      *)
(***************************************************************************)
EmissionTypeOK ==
    /\ <<request, att>> \in Inputs
    /\ selected \subseteq Function
    /\ emission_phase \in {"select", "validate", "lower", "compile", "project", "walk", "types", "obligations",
                  "emit", "sealed", "refused"}
    /\ lowered \in ProgramType
    /\ unvisited \subseteq Function \union RecordType \union Obligation
    /\ reachable \subseteq Function \union RecordType \union Obligation
    /\ ssa \in SsaType
    /\ unselected \subseteq Function \union (Function \X Function)
    /\ artifact \subseteq ArtifactType

\* What the request asks for, a seeded generic by its instances.
Requested ==
    {x \in prog.declared :
        \/ x \in request.roots /\ (request.mode = "application" => x \notin request.seeds)
        \/ request.mode = "application" /\ \E r \in prog.specs : r[1] \in request.seeds /\ r[2] = x}

(***************************************************************************)
(* The sealed code is exactly what the requested functions can reach in    *)
(* the source Program, each with a body: the two walks, over the Program   *)
(* and over the SSA of the cut Program, agree with it and each other.      *)
(***************************************************************************)
SealedIsRequestedClosure ==
    \A a \in artifact : scoped =>
        /\ a.ssa.functions = Reached(prog, Requested)
        /\ a.ssa.blocks = a.ssa.functions

(***************************************************************************)
(* Once the source walk has accepted the request, only the compiler can    *)
(* make the emission fail to find a call target or to pass validation.     *)
(***************************************************************************)
AcceptedRequestsFailInCompiler ==
    /\ why = "target" => \E x \in Reached(prog, selected) : x \in lowered.body /\ x \notin ssa.blocks
    /\ why = "projection" => ~att.boundary

(***************************************************************************)
(* An application artifact serves everything it was asked for: each        *)
(* requested function is callable and each spelled instance of a seeded    *)
(* generic has its entrypoint, so nothing is listed as unsupported.        *)
(***************************************************************************)
ApplicationIsComplete ==
    \A a \in artifact : request.mode = "application" =>
        /\ a.callables = Requested
        /\ {r \in request.spelled \intersect prog.specs : r[1] \in request.seeds /\ r[2] \in prog.declared}
              \subseteq a.entrypoints
        /\ a.unsupported = {}

(***************************************************************************)
(* The evidence travels with the code: obligations and what they rest on,  *)
(* and the trace of every kept function, without a reference to one that   *)
(* was dropped.                                                            *)
(***************************************************************************)
EvidenceTravels ==
    \A a \in artifact : scoped =>
        /\ \A x \in a.ssa.functions : att.obligations[x] \intersect att.known \subseteq a.ssa.obligations
        /\ \A o \in a.ssa.obligations :
              (att.dependencies[o] \union att.assumptions[o]) \intersect att.known \subseteq a.ssa.obligations
        /\ \A x \in Function : a.ssa.trace[x] = att.trace[x] \intersect a.ssa.functions

(***************************************************************************)
(* A host can grant what the artifact demands: every binding is of a       *)
(* declared capability, and a declared capability no binding covers is     *)
(* one a call uses without requiring it.                                   *)
(***************************************************************************)
CapabilitiesAreBound ==
    \A a \in artifact :
        LET bound == {b[3] : b \in a.bindings}
        IN  /\ bound \subseteq a.capabilities
            /\ \A k \in a.capabilities \ bound :
                  \E c \in Code(a.ssa) : c[2].kind = "call" /\ k \in c[2].uses \ c[2].required

(***************************************************************************)
(* A sealed artifact is what was asked for: the requested closure and      *)
(* nothing else, an entrypoint for everything requested, the evidence of   *)
(* all of its code, and bindings for every capability it demands.  Once    *)
(* the walk over the source has let a request pass, only the compiler can  *)
(* make it fail.                                                           *)
(***************************************************************************)
EmissionIsSound ==
    /\ emission_phase = "sealed" =>
          /\ EmissionTypeOK
          /\ SealedIsRequestedClosure
          /\ ApplicationIsComplete
          /\ EvidenceTravels
          /\ CapabilitiesAreBound
    /\ emission_phase = "refused" => AcceptedRequestsFailInCompiler

(***************************************************************************)
(* Emission ends for every request, cyclic calls, types and obligations    *)
(* included.                                                               *)
(***************************************************************************)
EmissionEnds == <>(emission_phase \in {"sealed", "refused"})
=============================================================================
