------------------------- MODULE BackendProjection -------------------------
(***************************************************************************)
(* backend_program_projection of stage0-probe/src/main.rs: a Program is    *)
(* narrowed to the functions its selected roots can execute.  The walk     *)
(* keeps three sets: body_closure (functions whose body stays), included   *)
(* (functions that stay declared) and metadata_only (generic declarations  *)
(* kept for the record of their specializations).                          *)
(*                                                                         *)
(* The cache stores the projected Program, and a later probe projects what *)
(* it loads once more, so the module runs the projection twice.            *)
(*                                                                         *)
(* pending is a Vec in the source; an identity popped twice is skipped, so *)
(* a set popped in any order covers every order the source could take.     *)
(***************************************************************************)
EXTENDS ProgramGraph

CONSTANTS
    Programs,      \* Programs the frontend may hand over
    Selections,    \* the configured sets of selectors
    NameOf,        \* the leaf name of a function
    NamespaceOf,   \* its identity namespace
    AnyNamespace   \* the namespace of a selector that gives only a name

ASSUME ProgramsAssumption == Programs \subseteq ProgramType

VARIABLES
    program,       \* the Program being narrowed
    selection,     \* the selectors, records of namespace and name
    roots,         \* selected_roots
    phase,         \* "select", "walk", "retain", "done", "refused"
    pending, body_closure, included, metadata_only,
    first          \* the Program the first projection returned, in a set

projectionVars == <<program, selection, roots, phase, pending, body_closure, included, metadata_only, first>>
walk == <<pending, body_closure, included, metadata_only>>

Candidates(p, s) ==
    {f \in p.declared : NameOf[f] = s.name /\ s.namespace \in {AnyNamespace, NamespaceOf[f]}}

\* select_backend_root_functions: a selector must name exactly one function.
Resolves(p, s) == \E f \in p.declared : Candidates(p, s) = {f}

Selected(p, selectors) == UNION {Candidates(p, s) : s \in selectors}

\* Identities the walk starts from: a generic root stands for its specializations.
ExecutableRoots(p, rs) ==
    (rs \ p.generic) \union UNION {SpecializationsOf(p, g) : g \in rs \intersect p.generic}

ProjectionInit ==
    /\ program \in Programs
    /\ selection \in Selections
    /\ roots = {}
    /\ phase = "select"
    /\ pending = {} /\ body_closure = {} /\ included = {} /\ metadata_only = {}
    /\ first = {}

Refuse == phase' = "refused" /\ UNCHANGED <<program, selection, roots, walk, first>>

(***************************************************************************)
(* Refused: a selector without exactly one candidate, or a generic root    *)
(* without a specialization.                                               *)
(***************************************************************************)
RootsUsable ==
    /\ \A s \in selection : Resolves(program, s)
    /\ \A g \in Selected(program, selection) \intersect program.generic :
          SpecializationsOf(program, g) # {}

RefuseRoots == phase = "select" /\ ~RootsUsable /\ Refuse

SelectRoots ==
    /\ phase = "select"
    /\ RootsUsable
    /\ roots' = Selected(program, selection)
    /\ metadata_only' = roots' \intersect program.generic
    /\ included' = roots' \intersect program.generic
    /\ pending' = ExecutableRoots(program, roots')
    /\ body_closure' = {}
    /\ phase' = "walk"
    /\ UNCHANGED <<program, selection, first>>

(***************************************************************************)
(* while let Some(identity) = pending.pop().                               *)
(***************************************************************************)
Skip(f) ==
    /\ phase = "walk"
    /\ f \in pending /\ f \in body_closure
    /\ pending' = pending \ {f}
    /\ UNCHANGED <<program, selection, roots, phase, body_closure, included, metadata_only, first>>

RefuseMissing(f) ==
    /\ phase = "walk"
    /\ f \in pending \ body_closure
    /\ f \notin program.declared
    /\ Refuse

\* Seeded fault: callees of bounded iterations are not followed.
VisitCallsOnly(f) ==
    /\ phase = "walk"
    /\ f \in pending \ body_closure
    /\ f \in program.declared
    /\ body_closure' = body_closure \union {f}
    /\ included' = included \union {f} \union GenericsOf(program, f)
    /\ metadata_only' = (metadata_only \ {f}) \union GenericsOf(program, f)
    /\ pending' = (pending \ {f}) \union (IF f \in program.body THEN program.calls[f] ELSE {})
    /\ UNCHANGED <<program, selection, roots, phase, first>>

\* Seeded fault: a function already in the closure is walked again.
VisitAgain(f) ==
    /\ phase = "walk"
    /\ f \in pending
    /\ f \in program.declared
    /\ body_closure' = body_closure \union {f}
    /\ included' = included \union {f} \union GenericsOf(program, f)
    /\ metadata_only' = (metadata_only \ {f}) \union GenericsOf(program, f)
    /\ pending' = (pending \ {f}) \union Callees(program, f)
    /\ UNCHANGED <<program, selection, roots, phase, first>>

Visit(f) ==
    /\ phase = "walk"
    /\ f \in pending \ body_closure
    /\ f \in program.declared
    /\ body_closure' = body_closure \union {f}
    /\ included' = included \union {f} \union GenericsOf(program, f)
    /\ metadata_only' = (metadata_only \ {f}) \union GenericsOf(program, f)
    /\ pending' = (pending \ {f}) \union Callees(program, f)
    /\ UNCHANGED <<program, selection, roots, phase, first>>

WalkDone ==
    /\ phase = "walk" /\ pending = {}
    /\ phase' = "retain"
    /\ UNCHANGED <<program, selection, roots, walk, first>>

\* Seeded fault: every metadata-only declaration loses its body, called or not.
ProjectedMetadataStripped ==
    [program EXCEPT
        !.declared = @ \intersect included,
        !.body = (@ \intersect included) \ metadata_only,
        !.generic = @ \intersect included,
        !.specs = {r \in @ : r[1] \in included /\ r[2] \in included}]

(***************************************************************************)
(* projected.functions.retain_mut and generic_specializations.retain.      *)
(***************************************************************************)
Projected ==
    [program EXCEPT
        !.declared = @ \intersect included,
        !.body = (@ \intersect included) \ (metadata_only \ body_closure),
        !.generic = @ \intersect included,
        !.specs = {r \in @ : r[1] \in included /\ r[2] \in included}]

Retain ==
    /\ phase = "retain"
    /\ ValidProgram(Projected)
    /\ program' = Projected
    /\ phase' = "done"
    /\ UNCHANGED <<selection, roots, walk, first>>

RefuseProjection ==
    /\ phase = "retain"
    /\ ~ValidProgram(Projected)
    /\ Refuse

(***************************************************************************)
(* A cache hit: the stored projection goes through the same function.      *)
(***************************************************************************)
ProjectAgain ==
    /\ phase = "done" /\ first = {}
    /\ first' = {program}
    /\ phase' = "select"
    /\ UNCHANGED <<program, selection, roots, walk>>

ProjectionNext ==
    \/ RefuseRoots \/ SelectRoots
    \/ \E f \in Function : Skip(f) \/ RefuseMissing(f) \/ Visit(f)
    \/ WalkDone \/ Retain \/ RefuseProjection
    \/ ProjectAgain

(***************************************************************************)
(* The walk is one thread that runs to its end; a second projection is up  *)
(* to another probe.                                                       *)
(***************************************************************************)
ProjectionFairness == WF_projectionVars(RefuseRoots \/ SelectRoots \/ WalkDone \/ Retain \/ RefuseProjection
                    \/ \E f \in Function : Skip(f) \/ RefuseMissing(f) \/ Visit(f))

ProjectionSpec == ProjectionInit /\ [][ProjectionNext]_projectionVars
ProjectionFairSpec == ProjectionSpec /\ ProjectionFairness

----------------------------------------------------------------------------
(***************************************************************************)
(* The shape of the walk's state.                                          *)
(***************************************************************************)
ProjectionTypeOK ==
    /\ program \in ProgramType
    /\ roots \subseteq Function
    /\ phase \in {"select", "walk", "retain", "done", "refused"}
    /\ pending \subseteq Function /\ body_closure \subseteq Function
    /\ included \subseteq Function /\ metadata_only \subseteq Function
    /\ first \subseteq ProgramType

(***************************************************************************)
(* The projected Program runs on its own: every callee of a kept body is   *)
(* declared and, where the source Program had a body for it, has that      *)
(* body; every executable root is declared.                                *)
(***************************************************************************)
ProjectionIsClosed ==
    phase \in {"retain", "done"} =>
        /\ ExecutableRoots(program, roots) \subseteq body_closure
        /\ roots \subseteq included
        /\ \A f \in body_closure : Callees(program, f) \subseteq body_closure
        /\ body_closure \subseteq included
        /\ phase = "done" => program.declared = included

(***************************************************************************)
(* Nothing more is kept than a backend could execute from the roots: the   *)
(* body closure lies in every set that contains the roots and is closed    *)
(* under calls.                                                            *)
(***************************************************************************)
ProjectionIsLeast ==
    phase \in {"walk", "retain"} =>
        \A S \in SUBSET Function :
            /\ ExecutableRoots(program, roots) \subseteq S
            /\ \A f \in S : Callees(program, f) \subseteq S
            => body_closure \subseteq S

(***************************************************************************)
(* Both: the projection is the least closed part of the Program.           *)
(***************************************************************************)
ProjectionIsExact == ProjectionIsClosed /\ ProjectionIsLeast

(***************************************************************************)
(* A valid Program narrowed to roots it declares stays valid: validation   *)
(* after the projection never refuses it.                                  *)
(***************************************************************************)
ValidStaysValid ==
    phase = "retain" /\ ValidProgram(program) => ValidProgram(Projected)

(***************************************************************************)
(* Projecting a cached projection returns it unchanged, so a probe started *)
(* from the cache runs the Program the first probe compiled.               *)
(***************************************************************************)
ProjectionIsStable ==
    /\ phase = "done" => first \subseteq {program}
    /\ first # {} => phase # "refused"

(***************************************************************************)
(* The walk ends, whatever cycles the calls form.                          *)
(***************************************************************************)
WalkTerminates == (phase = "select") ~> (phase \in {"done", "refused"})
=============================================================================
