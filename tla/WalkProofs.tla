------------------------------- MODULE WalkProofs ----------------------------
(***************************************************************************)
(* The walks over a Program, for every Program, build and selection: the   *)
(* projection for a backend, the identity of an executable closure, the    *)
(* interface of a callable, those of an emission, and the node table of an *)
(* artifact with its freezing and its validation.                          *)
(***************************************************************************)
EXTENDS BackendProjection, ClosureIdentity, CallableInterface, VmEmission,
        ArtifactGraph, FiniteSetTheorems, WellFoundedInduction, TLAPS

----------------------------------------------------------------------------
(***************************************************************************)
(* The projection is closed, least and valid for every Program and every   *)
(* selection.  What makes it so is the invariant of the worklist: done and *)
(* pending together contain the roots and everything the done functions    *)
(* call, and lie in every closed set.                                      *)
(***************************************************************************)

\* A set a backend could execute from the roots.
Executes(S) ==
    /\ ExecutableRoots(program, roots) \subseteq S
    /\ \A f \in S : Callees(program, f) \subseteq S

\* Everything still needed is done or pending.
Covered ==
    /\ ExecutableRoots(program, roots) \subseteq body_closure \union pending
    /\ \A f \in body_closure : Callees(program, f) \subseteq body_closure \union pending

\* Nothing is done or pending without need.
Needed == \A S \in SUBSET Function : Executes(S) => body_closure \union pending \subseteq S

\* What the two sets of declarations hold.
Declarations ==
    /\ roots \subseteq program.declared
    /\ roots \intersect program.generic \subseteq included
    /\ body_closure \subseteq program.declared
    /\ body_closure \subseteq included
    /\ \A f \in body_closure : GenericsOf(program, f) \subseteq included
    /\ included \subseteq body_closure \union metadata_only
    /\ \A g \in included : \/ g \in body_closure
                           \/ g \in roots
                           \/ \E f \in body_closure : g \in GenericsOf(program, f)

ProjectionWalkInv ==
    /\ phase \in {"walk", "retain"} => Covered /\ Needed /\ Declarations
    /\ phase = "retain" => pending = {}

ProjectionDoneInv ==
    phase = "done" =>
        /\ ExecutableRoots(program, roots) \subseteq body_closure
        /\ roots \subseteq included
        /\ \A f \in body_closure : Callees(program, f) \subseteq body_closure
        /\ body_closure \subseteq included
        /\ program.declared = included

ProjectionInv == ProjectionTypeOK /\ ProjectionWalkInv /\ ProjectionDoneInv

----------------------------------------------------------------------------
LEMMA CalleesType ==
    ASSUME NEW w \in ProgramType, NEW f \in Function
    PROVE  Callees(w, f) \subseteq Function
BY DEF Callees, ProgramType, Edges

LEMMA SpecializationsType ==
    ASSUME NEW w \in ProgramType, NEW g
    PROVE  SpecializationsOf(w, g) \subseteq Function /\ GenericsOf(w, g) \subseteq Function
<1>1. w.specs \subseteq Function \X Function
  BY DEF ProgramType
<1> QED
  BY <1>1 DEF SpecializationsOf, GenericsOf

LEMMA SelectedDeclared ==
    ASSUME NEW w, NEW selectors
    PROVE  Selected(w, selectors) \subseteq w.declared
BY DEF Selected, Candidates

LEMMA ExecutableRootsType ==
    ASSUME NEW w \in ProgramType, NEW rs \in SUBSET Function
    PROVE  ExecutableRoots(w, rs) \subseteq Function
BY SpecializationsType DEF ExecutableRoots

\* The fields of a projection.
LEMMA ProjectedFields ==
    ASSUME program \in ProgramType
    PROVE  /\ Projected \in ProgramType
           /\ Projected.declared = program.declared \intersect included
           /\ Projected.body = (program.body \intersect included) \ (metadata_only \ body_closure)
           /\ Projected.generic = program.generic \intersect included
           /\ Projected.calls = program.calls
           /\ Projected.iterates = program.iterates
           /\ Projected.specs = {r \in program.specs : r[1] \in included /\ r[2] \in included}
BY DEF Projected, ProgramType

----------------------------------------------------------------------------
LEMMA ProjectionTypeInit == ProjectionInit => ProjectionTypeOK
BY ProgramsAssumption DEF ProjectionInit, ProjectionTypeOK

LEMMA ProjectionTypeNext == ProjectionTypeOK /\ [ProjectionNext]_projectionVars => ProjectionTypeOK'
<1> SUFFICES ASSUME ProjectionTypeOK, [ProjectionNext]_projectionVars PROVE ProjectionTypeOK'
  OBVIOUS
<1> USE DEF ProjectionTypeOK
<1>1. CASE RefuseRoots
  BY <1>1 DEF RefuseRoots, Refuse, walk
<1>2. CASE SelectRoots
  <2>1. program.declared \subseteq Function
    BY DEF ProgramType
  <2>2. roots' \subseteq Function
    BY <1>2, <2>1, SelectedDeclared DEF SelectRoots
  <2>3. ExecutableRoots(program, roots') \subseteq Function
    BY <2>2, ExecutableRootsType
  <2> QED
    BY <1>2, <2>2, <2>3 DEF SelectRoots
<1>3. ASSUME NEW f \in Function, Skip(f) PROVE ProjectionTypeOK'
  BY <1>3 DEF Skip
<1>4. ASSUME NEW f \in Function, RefuseMissing(f) PROVE ProjectionTypeOK'
  BY <1>4 DEF RefuseMissing, Refuse, walk
<1>5. ASSUME NEW f \in Function, Visit(f) PROVE ProjectionTypeOK'
  BY <1>5, CalleesType, SpecializationsType DEF Visit
<1>6. CASE WalkDone
  BY <1>6 DEF WalkDone, walk
<1>7. CASE Retain
  BY <1>7, ProjectedFields DEF Retain, walk
<1>8. CASE RefuseProjection
  BY <1>8 DEF RefuseProjection, Refuse, walk
<1>9. CASE ProjectAgain
  BY <1>9 DEF ProjectAgain, walk
<1>10. CASE UNCHANGED projectionVars
  BY <1>10 DEF projectionVars
<1> QED
  BY <1>1, <1>2, <1>3, <1>4, <1>5, <1>6, <1>7, <1>8, <1>9, <1>10 DEF ProjectionNext

----------------------------------------------------------------------------
LEMMA SelectStarts == ProjectionTypeOK /\ SelectRoots => ProjectionWalkInv' /\ ProjectionDoneInv'
<1> SUFFICES ASSUME ProjectionTypeOK, SelectRoots PROVE ProjectionWalkInv' /\ ProjectionDoneInv'
  OBVIOUS
<1>1. /\ phase' = "walk" /\ program' = program
      /\ body_closure' = {} /\ pending' = ExecutableRoots(program, roots')
      /\ metadata_only' = roots' \intersect program.generic
      /\ included' = roots' \intersect program.generic
      /\ roots' = Selected(program, selection)
  BY DEF SelectRoots
<1>2. Covered'
  BY <1>1 DEF Covered
<1>3. Needed'
  BY <1>1 DEF Needed, Executes
<1>4. Declarations'
  BY <1>1, SelectedDeclared DEF Declarations
<1> QED
  BY <1>1, <1>2, <1>3, <1>4 DEF ProjectionWalkInv, ProjectionDoneInv

LEMMA SkipKeeps == ASSUME NEW f \in Function, ProjectionTypeOK, ProjectionWalkInv, Skip(f) PROVE ProjectionWalkInv' /\ ProjectionDoneInv'
<1>1. /\ phase = "walk" /\ f \in body_closure /\ pending' = pending \ {f}
      /\ UNCHANGED <<program, roots, phase, body_closure, included, metadata_only>>
  BY DEF Skip
<1>2. Covered'
  BY <1>1 DEF ProjectionWalkInv, Covered
<1>3. Needed'
  BY <1>1 DEF ProjectionWalkInv, Needed, Executes
<1>4. Declarations'
  BY <1>1 DEF ProjectionWalkInv, Declarations
<1> QED
  BY <1>1, <1>2, <1>3, <1>4 DEF ProjectionWalkInv, ProjectionDoneInv

LEMMA VisitKeeps == ASSUME NEW f \in Function, ProjectionTypeOK, ProjectionWalkInv, Visit(f) PROVE ProjectionWalkInv' /\ ProjectionDoneInv'
<1>1. /\ phase = "walk" /\ f \in pending /\ f \in program.declared
      /\ body_closure' = body_closure \union {f}
      /\ included' = included \union {f} \union GenericsOf(program, f)
      /\ metadata_only' = (metadata_only \ {f}) \union GenericsOf(program, f)
      /\ pending' = (pending \ {f}) \union Callees(program, f)
      /\ UNCHANGED <<program, roots, phase>>
  BY DEF Visit
<1>2. Covered'
  BY <1>1 DEF ProjectionWalkInv, Covered
<1>3. Needed'
  BY <1>1 DEF ProjectionWalkInv, Needed, Executes
<1>4. Declarations'
  <2>1. Declarations
    BY <1>1 DEF ProjectionWalkInv
  <2>2. /\ roots' \subseteq program'.declared
        /\ (roots \intersect program.generic \subseteq included)'
        /\ body_closure' \subseteq program'.declared
        /\ body_closure' \subseteq included'
    BY <1>1, <2>1 DEF Declarations
  <2>3. \A x \in body_closure' : GenericsOf(program', x) \subseteq included'
    BY <1>1, <2>1 DEF Declarations
  <2>4. included' \subseteq body_closure' \union metadata_only'
    BY <1>1, <2>1 DEF Declarations
  <2>5. ASSUME NEW g \in included'
        PROVE  \/ g \in body_closure'
               \/ g \in roots'
               \/ \E x \in body_closure' : g \in GenericsOf(program', x)
    <3>1. CASE g \in included
      BY <3>1, <1>1, <2>1 DEF Declarations
    <3>2. CASE g = f
      BY <3>2, <1>1
    <3>3. CASE g \in GenericsOf(program, f)
      BY <3>3, <1>1
    <3> QED
      BY <3>1, <3>2, <3>3, <1>1
  <2> QED
    BY <2>2, <2>3, <2>4, <2>5 DEF Declarations
<1> QED
  BY <1>1, <1>2, <1>3, <1>4 DEF ProjectionWalkInv, ProjectionDoneInv

\* What validation of the projection adds: everything included is declared.
LEMMA IncludedDeclared ==
    ASSUME ProjectionTypeOK, Declarations, ValidProgram(Projected)
    PROVE  Projected.declared = included
<1>1. Projected.declared = program.declared \intersect included
  BY ProjectedFields DEF ProjectionTypeOK
<1> SUFFICES ASSUME NEW g \in included PROVE g \in program.declared
  BY <1>1
<1>2. CASE g \in body_closure
  BY <1>2 DEF Declarations
<1>3. CASE g \in roots
  BY <1>3 DEF Declarations
<1>4. CASE \E f \in body_closure : g \in GenericsOf(program, f)
  <2>1. PICK f \in body_closure : g \in GenericsOf(program, f)
    BY <1>4
  <2>2. PICK r \in program.specs : r[1] = g /\ r[2] = f
    BY <2>1 DEF GenericsOf
  <2>3. f \in included
    BY DEF Declarations
  <2>4. r \in Projected.specs
    BY <2>2, <2>3, ProjectedFields DEF ProjectionTypeOK
  <2>5. r \in Projected.declared \X Projected.declared
    BY <2>4 DEF ValidProgram
  <2> QED
    BY <2>5, <2>2, <1>1
<1> QED
  BY <1>2, <1>3, <1>4 DEF Declarations

LEMMA RetainEnds == ProjectionTypeOK /\ ProjectionWalkInv /\ Retain => ProjectionWalkInv' /\ ProjectionDoneInv'
<1> SUFFICES ASSUME ProjectionTypeOK, ProjectionWalkInv, Retain PROVE ProjectionWalkInv' /\ ProjectionDoneInv'
  OBVIOUS
<1>1. /\ phase = "retain" /\ phase' = "done" /\ program' = Projected
      /\ ValidProgram(Projected)
      /\ UNCHANGED <<roots, pending, body_closure, included, metadata_only>>
  BY DEF Retain, walk
<1>2. Covered /\ Declarations /\ pending = {}
  BY <1>1 DEF ProjectionWalkInv
<1>3. program \in ProgramType
  BY DEF ProjectionTypeOK
<1>4. program'.declared = included'
  BY <1>1, <1>2, IncludedDeclared
<1>5. \A g : SpecializationsOf(Projected, g) \subseteq SpecializationsOf(program, g)
  BY <1>3, ProjectedFields DEF SpecializationsOf
<1>6. \A f : Callees(Projected, f) \subseteq Callees(program, f)
  BY <1>3, ProjectedFields DEF Callees
<1>7. roots \subseteq included
  <2>1. roots \ program.generic \subseteq body_closure
    BY <1>2 DEF Covered, ExecutableRoots
  <2> QED
    BY <2>1, <1>2 DEF Declarations
<1>8. ExecutableRoots(Projected, roots) \subseteq ExecutableRoots(program, roots)
  <2>1. roots \ Projected.generic = roots \ program.generic
    BY <1>3, <1>7, ProjectedFields
  <2>2. roots \intersect Projected.generic = roots \intersect program.generic
    BY <1>3, <1>7, ProjectedFields
  <2> QED
    BY <2>1, <2>2, <1>5 DEF ExecutableRoots
<1>9. ExecutableRoots(program', roots') \subseteq body_closure'
  BY <1>1, <1>2, <1>8 DEF Covered
<1>10. \A f \in body_closure' : Callees(program', f) \subseteq body_closure'
  BY <1>1, <1>2, <1>6 DEF Covered
<1> QED
  BY <1>1, <1>2, <1>4, <1>7, <1>9, <1>10 DEF ProjectionWalkInv, ProjectionDoneInv, Declarations

LEMMA ProjectionStepInv == ProjectionInv /\ [ProjectionNext]_projectionVars => ProjectionInv'
<1> SUFFICES ASSUME ProjectionInv, [ProjectionNext]_projectionVars PROVE ProjectionWalkInv' /\ ProjectionDoneInv'
  BY ProjectionTypeNext DEF ProjectionInv
<1> USE DEF ProjectionInv
<1>1. CASE phase' = "refused"
  BY <1>1 DEF ProjectionWalkInv, ProjectionDoneInv
<1>2. CASE SelectRoots
  BY <1>2, SelectStarts
<1>3. ASSUME NEW f \in Function, Skip(f) PROVE ProjectionWalkInv' /\ ProjectionDoneInv'
  BY <1>3, SkipKeeps
<1>4. ASSUME NEW f \in Function, Visit(f) PROVE ProjectionWalkInv' /\ ProjectionDoneInv'
  BY <1>4, VisitKeeps
<1>5. CASE WalkDone
  BY <1>5 DEF WalkDone, walk, ProjectionWalkInv, ProjectionDoneInv, Covered, Needed, Executes, Declarations
<1>6. CASE Retain
  BY <1>6, RetainEnds
<1>7. CASE ProjectAgain
  BY <1>7 DEF ProjectAgain, ProjectionWalkInv, ProjectionDoneInv
<1>8. CASE UNCHANGED projectionVars
  BY <1>8 DEF projectionVars, ProjectionWalkInv, ProjectionDoneInv, Covered, Needed, Executes, Declarations
<1>9. ASSUME NEW f \in Function, RefuseMissing(f) PROVE phase' = "refused"
  BY <1>9 DEF RefuseMissing, Refuse
<1>10. RefuseRoots \/ RefuseProjection => phase' = "refused"
  BY DEF RefuseRoots, RefuseProjection, Refuse
<1> QED
  BY <1>1, <1>2, <1>3, <1>4, <1>5, <1>6, <1>7, <1>8, <1>9, <1>10 DEF ProjectionNext

LEMMA ProjectionInvariance == ProjectionSpec => []ProjectionInv
<1>1. ProjectionInit => ProjectionInv
  BY ProjectionTypeInit DEF ProjectionInit, ProjectionInv, ProjectionWalkInv, ProjectionDoneInv
<1> QED
  BY <1>1, ProjectionStepInv, PTL DEF ProjectionSpec

----------------------------------------------------------------------------
(***************************************************************************)
(* Type correctness of backend_program_projection's state.                 *)
(***************************************************************************)
THEOREM ProjectionTypeCorrect == ProjectionSpec => []ProjectionTypeOK
<1>1. ProjectionInv => ProjectionTypeOK
  BY DEF ProjectionInv
<1> QED
  BY <1>1, ProjectionInvariance, PTL

(***************************************************************************)
(* For every Program and selection, the functions whose bodies             *)
(* backend_program_projection keeps contain the executable roots and all   *)
(* their callees, and what is declared afterwards is what it included.     *)
(***************************************************************************)
THEOREM ProjectionClosed == ProjectionSpec => []ProjectionIsClosed
<1>1. ProjectionInv => ProjectionIsClosed
  <2> SUFFICES ASSUME ProjectionInv, phase \in {"retain", "done"}
               PROVE  /\ ExecutableRoots(program, roots) \subseteq body_closure
                      /\ roots \subseteq included
                      /\ \A f \in body_closure : Callees(program, f) \subseteq body_closure
                      /\ body_closure \subseteq included
                      /\ phase = "done" => program.declared = included
    BY DEF ProjectionIsClosed
  <2>1. CASE phase = "retain"
    <3>1. Covered /\ Declarations /\ pending = {}
      BY <2>1 DEF ProjectionInv, ProjectionWalkInv
    <3>2. roots \ program.generic \subseteq body_closure
      BY <3>1 DEF Covered, ExecutableRoots
    <3> QED
      BY <2>1, <3>1, <3>2 DEF Covered, Declarations
  <2>2. CASE phase = "done"
    BY <2>2 DEF ProjectionInv, ProjectionDoneInv
  <2> QED
    BY <2>1, <2>2
<1> QED
  BY <1>1, ProjectionInvariance, PTL

(***************************************************************************)
(* backend_program_projection keeps no body a backend could not execute    *)
(* from the selected roots.                                                *)
(***************************************************************************)
THEOREM ProjectionLeast == ProjectionSpec => []ProjectionIsLeast
<1>1. ProjectionInv => ProjectionIsLeast
  BY DEF ProjectionInv, ProjectionWalkInv, Needed, Executes, ProjectionIsLeast
<1> QED
  BY <1>1, ProjectionInvariance, PTL

(***************************************************************************)
(* backend_program_projection keeps exactly the least closed part of the   *)
(* Program that its selected roots need, for every call graph.             *)
(***************************************************************************)
THEOREM ProjectionExact == ProjectionSpec => []ProjectionIsExact
<1>1. ProjectionIsClosed /\ ProjectionIsLeast => ProjectionIsExact
  BY DEF ProjectionIsExact
<1> QED
  BY <1>1, ProjectionClosed, ProjectionLeast, PTL

(***************************************************************************)
(* The projection of a valid Program passes the validation that            *)
(* backend_program_projection ends with.                                   *)
(***************************************************************************)
THEOREM ProjectionStaysValid == ProjectionSpec => []ValidStaysValid
<1>1. ProjectionInv => ValidStaysValid
  <2> SUFFICES ASSUME ProjectionInv, phase = "retain", ValidProgram(program) PROVE ValidProgram(Projected)
    BY DEF ValidStaysValid
  <2>1. Covered /\ Declarations /\ pending = {} /\ program \in ProgramType
    BY DEF ProjectionInv, ProjectionWalkInv, ProjectionTypeOK
  <2>2. Projected.body \subseteq Projected.declared
    BY <2>1, ProjectedFields DEF ValidProgram
  <2>3. Projected.generic \subseteq Projected.declared
    BY <2>1, ProjectedFields DEF ValidProgram
  <2>4. Projected.body \subseteq body_closure
    BY <2>1, ProjectedFields DEF Declarations
  <2>5. ASSUME NEW f \in Projected.body
        PROVE  Projected.calls[f] \union Projected.iterates[f] \subseteq Projected.declared
    <3>1. f \in program.body /\ f \in body_closure
      BY <2>1, <2>4, ProjectedFields
    <3>2. program.calls[f] \union program.iterates[f] \subseteq body_closure
      BY <2>1, <3>1 DEF Covered, Callees
    <3> QED
      BY <2>1, <3>2, ProjectedFields DEF Declarations
  <2>6. Projected.specs \subseteq Projected.declared \X Projected.declared
    <3> SUFFICES ASSUME NEW r \in Projected.specs
                 PROVE  r \in Projected.declared \X Projected.declared
      OBVIOUS
    <3>1. r \in program.specs /\ r[1] \in included /\ r[2] \in included
      BY <2>1, ProjectedFields
    <3>2. r \in program.declared \X program.declared
      BY <3>1 DEF ValidProgram
    <3> QED
      BY <2>1, <3>1, <3>2, ProjectedFields
  <2> QED
    BY <2>2, <2>3, <2>5, <2>6 DEF ValidProgram
<1> QED
  BY <1>1, ProjectionInvariance, PTL

----------------------------------------------------------------------------
(***************************************************************************)
(* A projection is a fixed point of the projection.  The second walk, over *)
(* the projected Program, must find the roots, the callees and the         *)
(* templates the first one found: Settled says of a Program alone that a   *)
(* projection keeps all of it, for the body closure B.                     *)
(***************************************************************************)

Usable(w) ==
    /\ \A s \in selection : Resolves(w, s)
    /\ \A g \in Selected(w, selection) \intersect w.generic : SpecializationsOf(w, g) # {}

\* What stays declared when the bodies of B stay.
Kept(w, B) ==
    (Selected(w, selection) \intersect w.generic) \union B \union UNION {GenericsOf(w, x) : x \in B}

Settled(w, B) ==
    /\ ValidProgram(w) /\ Usable(w)
    /\ ExecutableRoots(w, Selected(w, selection)) \subseteq B
    /\ \A x \in B : Callees(w, x) \subseteq B
    /\ \A S \in SUBSET Function :
          /\ ExecutableRoots(w, Selected(w, selection)) \subseteq S
          /\ \A x \in S : Callees(w, x) \subseteq S
          => B \subseteq S
    /\ w.body \subseteq B
    /\ w.declared = Kept(w, B)

\* During a walk: the roots are those selected, and what is included is known exactly.
SelectionInv ==
    phase \in {"walk", "retain"} =>
        /\ Usable(program) /\ roots = Selected(program, selection)
        /\ included = Kept(program, body_closure) /\ metadata_only \subseteq included

\* A projected Program is settled, and a second projection neither changes nor refuses it.
SecondInv ==
    /\ phase = "done" \/ first # {} => \E B \in SUBSET Function : Settled(program, B)
    /\ first # {} => first = {program} /\ phase # "refused"

StableInv == ProjectionInv /\ SelectionInv /\ SecondInv

\* The selected roots of a projection are those of the Program, with the same
\* specializations; it calls the same inside the body closure.
LEMMA SameRoots ==
    ASSUME ProjectionInv, SelectionInv, phase = "retain"
    PROVE  /\ roots \subseteq included
           /\ \A s \in selection : Candidates(Projected, s) = Candidates(program, s)
           /\ Selected(Projected, selection) = roots
           /\ roots \intersect Projected.generic = roots \intersect program.generic
           /\ \A g \in roots \intersect program.generic : SpecializationsOf(Projected, g) = SpecializationsOf(program, g)
           /\ ExecutableRoots(Projected, roots) = ExecutableRoots(program, roots)
           /\ \A x \in body_closure : Callees(Projected, x) = Callees(program, x)
           /\ \A x \in body_closure : GenericsOf(Projected, x) = GenericsOf(program, x)
<1>1. /\ Covered /\ Declarations /\ pending = {} /\ program \in ProgramType
      /\ roots = Selected(program, selection)
  BY DEF ProjectionInv, ProjectionWalkInv, ProjectionTypeOK, SelectionInv
<1>2. /\ Projected.declared = program.declared \intersect included
      /\ Projected.body = (program.body \intersect included) \ (metadata_only \ body_closure)
      /\ Projected.generic = program.generic \intersect included
      /\ Projected.calls = program.calls /\ Projected.iterates = program.iterates
      /\ Projected.specs = {r \in program.specs : r[1] \in included /\ r[2] \in included}
  BY <1>1, ProjectedFields
<1>3. roots \subseteq included
  <2>1. roots \ program.generic \subseteq body_closure
    BY <1>1 DEF Covered, ExecutableRoots
  <2> QED
    BY <1>1, <2>1 DEF Declarations
<1>4. ASSUME NEW s \in selection PROVE Candidates(Projected, s) = Candidates(program, s)
  <2>1. Candidates(program, s) \subseteq roots
    BY <1>1 DEF Selected
  <2>2. Candidates(Projected, s) = Candidates(program, s) \intersect included
    BY <1>2 DEF Candidates
  <2> QED
    BY <1>3, <2>1, <2>2
<1>5. Selected(Projected, selection) = roots
  BY <1>1, <1>4 DEF Selected
<1>6. roots \intersect Projected.generic = roots \intersect program.generic /\ roots \ Projected.generic = roots \ program.generic
  BY <1>2, <1>3
<1>7. ASSUME NEW g \in roots \intersect program.generic
      PROVE  SpecializationsOf(Projected, g) = SpecializationsOf(program, g)
  <2>1. SpecializationsOf(program, g) \subseteq included
    BY <1>1 DEF Covered, Declarations, ExecutableRoots
  <2>2. {r \in Projected.specs : r[1] = g} = {r \in program.specs : r[1] = g}
    <3>1. \A r \in program.specs : r[1] = g => r[2] \in SpecializationsOf(program, g)
      BY DEF SpecializationsOf
    <3> QED
      BY <1>2, <1>3, <2>1, <3>1
  <2> QED
    BY <2>2 DEF SpecializationsOf
<1>8. ExecutableRoots(Projected, roots) = ExecutableRoots(program, roots)
  BY <1>6, <1>7 DEF ExecutableRoots
<1>9. ASSUME NEW x \in body_closure PROVE Callees(Projected, x) = Callees(program, x)
  BY <1>1, <1>2 DEF Callees, Declarations
<1>10. ASSUME NEW x \in body_closure PROVE GenericsOf(Projected, x) = GenericsOf(program, x)
  <2>1. GenericsOf(program, x) \subseteq included /\ x \in included
    BY <1>1 DEF Declarations
  <2>2. {r \in Projected.specs : r[2] = x} = {r \in program.specs : r[2] = x}
    <3>1. \A r \in program.specs : r[2] = x => r[1] \in GenericsOf(program, x)
      BY DEF GenericsOf
    <3> QED
      BY <1>2, <2>1, <3>1
  <2> QED
    BY <2>2 DEF GenericsOf
<1> QED
  BY <1>3, <1>4, <1>5, <1>6, <1>7, <1>8, <1>9, <1>10

\* What a valid projection returns is settled.
LEMMA ProjectionSettles ==
    ASSUME ProjectionInv, SelectionInv, phase = "retain", ValidProgram(Projected)
    PROVE  Settled(Projected, body_closure)
<1>1. /\ Covered /\ Needed /\ Declarations /\ pending = {} /\ program \in ProgramType
      /\ body_closure \subseteq Function
  BY DEF ProjectionInv, ProjectionWalkInv, ProjectionTypeOK
<1>2. /\ Usable(program) /\ roots = Selected(program, selection)
      /\ included = Kept(program, body_closure)
  BY DEF SelectionInv
<1>3. Projected.declared = included
  BY <1>1, IncludedDeclared DEF ProjectionInv
<1>4. Usable(Projected)
  <2>1. ASSUME NEW s \in selection PROVE Resolves(Projected, s)
    <3>1. PICK x \in program.declared : Candidates(program, s) = {x}
      BY <1>2, <2>1 DEF Usable, Resolves
    <3>2. Candidates(Projected, s) = {x}
      BY <2>1, <3>1, SameRoots
    <3>3. x \in Projected.declared
      BY <3>2 DEF Candidates
    <3> QED
      BY <3>2, <3>3 DEF Resolves
  <2>2. ASSUME NEW g \in Selected(Projected, selection) \intersect Projected.generic PROVE SpecializationsOf(Projected, g) # {}
    <3>1. g \in roots \intersect program.generic
      BY <2>2, SameRoots
    <3>2. SpecializationsOf(program, g) # {}
      BY <1>2, <3>1 DEF Usable
    <3> QED
      BY <3>1, <3>2, SameRoots
  <2> QED
    BY <2>1, <2>2 DEF Usable
<1>5. /\ ExecutableRoots(Projected, Selected(Projected, selection)) = ExecutableRoots(program, roots)
      /\ ExecutableRoots(program, roots) \subseteq body_closure
  BY <1>1, SameRoots DEF Covered
<1>6. \A x \in body_closure : Callees(Projected, x) = Callees(program, x) /\ Callees(program, x) \subseteq body_closure
  BY <1>1, SameRoots DEF Covered
<1>7. ASSUME NEW S \in SUBSET Function, ExecutableRoots(program, roots) \subseteq S,
             \A x \in S : Callees(Projected, x) \subseteq S
      PROVE  body_closure \subseteq S
  <2>1. Executes(S \intersect body_closure)
    BY <1>5, <1>6, <1>7 DEF Executes
  <2> QED
    BY <1>1, <2>1 DEF Needed
<1>8. Projected.body \subseteq body_closure
  <2>1. Projected.body = (program.body \intersect included) \ (metadata_only \ body_closure)
    BY <1>1, ProjectedFields
  <2> QED
    BY <1>1, <2>1 DEF Declarations
<1>9. Kept(Projected, body_closure) = Kept(program, body_closure)
  <2>1. {GenericsOf(Projected, x) : x \in body_closure} = {GenericsOf(program, x) : x \in body_closure}
    BY SameRoots
  <2>2. Selected(Projected, selection) \intersect Projected.generic = Selected(program, selection) \intersect program.generic
    BY <1>2, SameRoots
  <2> QED
    BY <2>1, <2>2 DEF Kept
<1> QED
  BY <1>2, <1>3, <1>4, <1>5, <1>6, <1>7, <1>8, <1>9 DEF Settled

\* The projection of a settled Program is that Program.
LEMMA SettledStays ==
    ASSUME ProjectionInv, SelectionInv, phase = "retain", NEW B \in SUBSET Function, Settled(program, B)
    PROVE  Projected = program
<1>1. /\ Covered /\ Needed /\ pending = {} /\ program \in ProgramType
      /\ body_closure \subseteq Function
  BY DEF ProjectionInv, ProjectionWalkInv, ProjectionTypeOK
<1>2. roots = Selected(program, selection) /\ included = Kept(program, body_closure)
  BY DEF SelectionInv
<1>3. body_closure = B
  <2>1. Executes(B)
    BY <1>2 DEF Settled, Executes
  <2>2. body_closure \subseteq B
    BY <1>1, <2>1 DEF Needed
  <2>3. B \subseteq body_closure
    BY <1>1, <1>2 DEF Covered, Settled
  <2> QED
    BY <2>2, <2>3
<1>4. program.declared = included /\ ValidProgram(program) /\ program.body \subseteq body_closure
  BY <1>2, <1>3 DEF Settled
<1>5. /\ Projected.declared = program.declared
      /\ Projected.body = program.body
      /\ Projected.generic = program.generic
      /\ Projected.specs = program.specs
      /\ Projected.calls = program.calls /\ Projected.iterates = program.iterates
  <2>1. \A r \in program.specs : r[1] \in included /\ r[2] \in included
    BY <1>4 DEF ValidProgram
  <2>2. program.body \subseteq included /\ program.generic \subseteq included
    BY <1>4 DEF ValidProgram
  <2> QED
    BY <1>1, <1>4, <2>1, <2>2, ProjectedFields
<1>6. Projected \in ProgramType
  BY <1>1, ProjectedFields
<1> QED
  BY <1>1, <1>5, <1>6 DEF ProgramType

LEMMA SelectionNext == ProjectionInv /\ SelectionInv /\ [ProjectionNext]_projectionVars => SelectionInv'
<1> SUFFICES ASSUME ProjectionInv, SelectionInv, [ProjectionNext]_projectionVars, phase' \in {"walk", "retain"}
             PROVE  /\ Usable(program)' /\ roots' = Selected(program, selection)'
                    /\ included' = Kept(program, body_closure)' /\ metadata_only' \subseteq included'
  BY DEF SelectionInv
<1>1. CASE SelectRoots
  <2>1. /\ program' = program /\ selection' = selection /\ RootsUsable /\ roots' = Selected(program, selection)
        /\ metadata_only' = roots' \intersect program.generic /\ included' = roots' \intersect program.generic
        /\ body_closure' = {}
    BY <1>1 DEF SelectRoots
  <2>2. Usable(program)'
    BY <2>1 DEF Usable, RootsUsable
  <2> QED
    BY <2>1, <2>2 DEF Kept
<1>2. ASSUME NEW x \in Function, Visit(x) PROVE SelectionInv'
  <2>1. /\ phase = "walk" /\ body_closure' = body_closure \union {x}
        /\ included' = included \union {x} \union GenericsOf(program, x)
        /\ metadata_only' = (metadata_only \ {x}) \union GenericsOf(program, x)
        /\ UNCHANGED <<program, selection, roots, phase>>
    BY <1>2 DEF Visit
  <2>2. Usable(program)' /\ roots' = Selected(program, selection)'
    BY <2>1 DEF SelectionInv, Usable
  <2>3. included = Kept(program, body_closure) /\ metadata_only \subseteq included
    BY <2>1 DEF SelectionInv
  <2>4. included' = Kept(program, body_closure)'
    <3>1. UNION {GenericsOf(program, y) : y \in body_closure \union {x}}
            = (UNION {GenericsOf(program, y) : y \in body_closure}) \union GenericsOf(program, x)
      OBVIOUS
    <3> QED
      BY <2>1, <2>3, <3>1 DEF Kept
  <2>5. metadata_only' \subseteq included'
    BY <2>1, <2>3
  <2> QED
    BY <2>2, <2>4, <2>5 DEF SelectionInv
<1>3. CASE phase \in {"walk", "retain"} /\ UNCHANGED <<program, selection, roots, body_closure, included, metadata_only>>
  BY <1>3 DEF SelectionInv, Usable, Kept
<1>4. ASSUME NEW x \in Function, Skip(x)
      PROVE  phase \in {"walk", "retain"} /\ UNCHANGED <<program, selection, roots, body_closure, included, metadata_only>>
  BY <1>4 DEF Skip
<1>5. WalkDone => phase \in {"walk", "retain"} /\ UNCHANGED <<program, selection, roots, body_closure, included, metadata_only>>
  BY DEF WalkDone, walk
<1>6. UNCHANGED projectionVars
        => phase \in {"walk", "retain"} /\ UNCHANGED <<program, selection, roots, body_closure, included, metadata_only>>
  BY DEF projectionVars
<1>7. ~RefuseRoots /\ ~Retain /\ ~RefuseProjection /\ ~ProjectAgain
  BY DEF RefuseRoots, Retain, RefuseProjection, ProjectAgain, Refuse
<1>8. ASSUME NEW x \in Function PROVE ~RefuseMissing(x)
  BY DEF RefuseMissing, Refuse
<1> QED
  BY <1>1, <1>2, <1>3, <1>4, <1>5, <1>6, <1>7, <1>8 DEF ProjectionNext, SelectionInv

LEMMA SecondNext == StableInv /\ [ProjectionNext]_projectionVars => SecondInv'
<1> SUFFICES ASSUME StableInv, [ProjectionNext]_projectionVars PROVE SecondInv'
  OBVIOUS
<1> USE DEF StableInv
<1>s. selection' = selection
  BY DEF ProjectionNext, RefuseRoots, SelectRoots, Skip, RefuseMissing, Visit, WalkDone, Retain, RefuseProjection,
     ProjectAgain, Refuse, projectionVars
<1>t. ASSUME NEW w, NEW B, Settled(w, B), program' = w PROVE Settled(program, B)'
  BY <1>s, <1>t DEF Settled, Usable, Kept
<1>1. CASE Retain
  <2>1. phase = "retain" /\ phase' = "done" /\ program' = Projected /\ ValidProgram(Projected) /\ first' = first
    BY <1>1 DEF Retain
  <2>2. Settled(program, body_closure)' /\ body_closure' = body_closure /\ body_closure \in SUBSET Function
    <3>1. Settled(Projected, body_closure) /\ body_closure' = body_closure
      BY <1>1, <2>1, ProjectionSettles DEF Retain, walk
    <3> QED
      BY <2>1, <3>1, <1>s DEF Settled, Usable, Kept, ProjectionInv, ProjectionTypeOK
  <2>3. first # {} => program' = program
    <3> SUFFICES ASSUME first # {} PROVE program' = program
      OBVIOUS
    <3>1. PICK B \in SUBSET Function : Settled(program, B)
      BY DEF SecondInv
    <3> QED
      BY <2>1, <3>1, SettledStays
  <2>4. \E B \in SUBSET Function : Settled(program, B)'
    BY <2>2
  <2> QED
    BY <2>1, <2>3, <2>4 DEF SecondInv
<1>2. CASE ProjectAgain
  <2>1. phase = "done" /\ phase' = "select" /\ first' = {program} /\ program' = program
    BY <1>2 DEF ProjectAgain
  <2>2. PICK B \in SUBSET Function : Settled(program, B)
    BY <2>1 DEF SecondInv
  <2>3. Settled(program, B)'
    BY <1>t, <2>1, <2>2
  <2> QED
    BY <2>1, <2>3 DEF SecondInv
<1>3. CASE program' = program /\ first' = first /\ (phase' = "done" => phase = "done")
           /\ (first # {} => phase' # "refused")
  <2>1. ASSUME phase = "done" \/ first # {} PROVE \E B \in SUBSET Function : Settled(program, B)'
    <3>1. PICK B \in SUBSET Function : Settled(program, B)
      BY <2>1 DEF SecondInv
    <3>2. Settled(program, B)'
      BY <1>t, <1>3, <3>1
    <3> QED
      BY <3>2
  <2> QED
    BY <1>3, <2>1 DEF SecondInv
<1>4. SelectRoots \/ WalkDone \/ UNCHANGED projectionVars
        => program' = program /\ first' = first /\ (phase' = "done" => phase = "done") /\ (first # {} => phase' # "refused")
  BY DEF SelectRoots, WalkDone, projectionVars, SecondInv
<1>5. ASSUME NEW x \in Function, Skip(x) \/ Visit(x)
      PROVE  program' = program /\ first' = first /\ phase' = "walk"
  BY <1>5 DEF Skip, Visit
<1>6. RefuseRoots => program' = program /\ first' = first /\ phase' = "refused" /\ first = {}
  <2> SUFFICES ASSUME RefuseRoots PROVE first = {}
    BY DEF RefuseRoots, Refuse
  <2>1. ~Usable(program)
    BY DEF RefuseRoots, RootsUsable, Usable
  <2> QED
    BY <2>1 DEF SecondInv, Settled
<1>7. ASSUME NEW x \in Function, RefuseMissing(x)
      PROVE  program' = program /\ first' = first /\ phase' = "refused" /\ first = {}
  <2> SUFFICES ASSUME first # {} PROVE FALSE
    BY <1>7 DEF RefuseMissing, Refuse
  <2>1. PICK B \in SUBSET Function : Settled(program, B)
    BY DEF SecondInv
  <2>2. phase = "walk" /\ x \in pending /\ x \notin program.declared
    BY <1>7 DEF RefuseMissing
  <2>3. Needed /\ roots = Selected(program, selection)
    BY <2>2 DEF ProjectionInv, ProjectionWalkInv, SelectionInv
  <2>4. Executes(B)
    BY <2>1, <2>3 DEF Settled, Executes
  <2>5. x \in B
    BY <2>2, <2>3, <2>4 DEF Needed
  <2>6. B \subseteq program.declared
    BY <2>1 DEF Settled, Kept
  <2> QED
    BY <2>2, <2>5, <2>6
<1>8. RefuseProjection => program' = program /\ first' = first /\ phase' = "refused" /\ first = {}
  <2> SUFFICES ASSUME RefuseProjection PROVE first = {}
    BY DEF RefuseProjection, Refuse
  <2> SUFFICES ASSUME first # {} PROVE FALSE
    OBVIOUS
  <2>1. PICK B \in SUBSET Function : Settled(program, B)
    BY DEF SecondInv
  <2>2. phase = "retain" /\ ~ValidProgram(Projected)
    BY DEF RefuseProjection
  <2>3. Projected = program
    BY <2>1, <2>2, SettledStays
  <2> QED
    BY <2>1, <2>2, <2>3 DEF Settled
<1> QED
  BY <1>1, <1>2, <1>3, <1>4, <1>5, <1>6, <1>7, <1>8 DEF ProjectionNext

(***************************************************************************)
(* backend_program_projection of a cached projection returns it unchanged  *)
(* and never refuses it, for every Program and every selection.            *)
(***************************************************************************)
THEOREM ProjectionStable == ProjectionSpec => []ProjectionIsStable
<1>1. ProjectionInit => StableInv
  BY ProjectionTypeInit
  DEF ProjectionInit, StableInv, ProjectionInv, ProjectionWalkInv, ProjectionDoneInv, SelectionInv, SecondInv
<1>2. StableInv /\ [ProjectionNext]_projectionVars => StableInv'
  BY ProjectionStepInv, SelectionNext, SecondNext DEF StableInv
<1>3. StableInv => ProjectionIsStable
  BY DEF StableInv, SecondInv, ProjectionIsStable
<1> QED
  BY <1>1, <1>2, <1>3, PTL DEF ProjectionSpec

----------------------------------------------------------------------------
(***************************************************************************)
(* The executable closure identity is exact, for any functions, types and  *)
(* edits.  The two halves of the argument: a finished walk has visited     *)
(* everything the emitter reaches (WalkComplete), and two builds whose     *)
(* finished walks have one identity emit the same (SameIdentitySameCode).  *)
(***************************************************************************)

\* What a finished walk has established about its build.
WalkComplete(b, F, T) ==
    /\ F \subseteq Function /\ F \subseteq b.program.declared /\ F \subseteq b.program.body
    /\ T \subseteq Type
    /\ b.roots \subseteq F /\ b.seeds \subseteq F
    /\ \A x \in F : b.program.calls[x] \subseteq F /\ b.program.iterates[x] \subseteq F
    /\ \A r \in b.program.specs : r[1] \in F => r[2] \in F
    /\ \A x \in F : b.mentions[x] \subseteq T
    /\ \A t \in T : b.fields[t] \subseteq T

\* The same for a walk under way.
IdentityWalkInv ==
    /\ identity_phase = "start" => pending_functions = {} /\ function_facts = {} /\ nominal_types = {} /\ type_facts = {}
    /\ function_facts \subseteq p.declared /\ function_facts \subseteq p.body
    /\ identity_phase \in {"functions", "types"} =>
          build.roots \subseteq function_facts \union pending_functions /\ build.seeds \subseteq function_facts \union pending_functions
    /\ \A x \in function_facts :
          /\ p.calls[x] \subseteq function_facts \union pending_functions
          /\ p.iterates[x] \subseteq function_facts \union pending_functions
          /\ build.mentions[x] \subseteq nominal_types \union type_facts
    /\ \A r \in p.specs : r[1] \in function_facts => r[2] \in function_facts \union pending_functions
    /\ identity_phase = "types" => pending_functions = {}
    /\ \A t \in type_facts : build.fields[t] \subseteq nominal_types \union type_facts

\* What is stored was emitted for a build whose walk was complete.
StoreInv ==
    \A s \in stored : \E b \in Builds : \E F \in SUBSET Function : \E T \in SUBSET Type :
        /\ WalkComplete(b, F, T)
        /\ s = <<IdentityOf(b, F, T), Emission(b)>>

IdentityInv == IdentityTypeOK /\ IdentityWalkInv /\ StoreInv /\ ReuseIsExact

----------------------------------------------------------------------------
\* What a build's fields are.
LEMMA BuildFields ==
    ASSUME NEW b \in Builds
    PROVE  /\ b \in BuildType
           /\ b.program \in ProgramType
           /\ b.program.declared \subseteq Function
           /\ b.program.calls \in [Function -> SUBSET Function]
           /\ b.program.iterates \in [Function -> SUBSET Function]
           /\ b.program.specs \subseteq Function \X Function
           /\ b.mentions \in [Function -> SUBSET Type]
           /\ b.arguments \in [Function -> SUBSET Type]
           /\ b.fields \in [Type -> SUBSET Type]
           /\ b.roots \subseteq Function /\ b.seeds \subseteq Function
    BY BuildsAssumption DEF BuildType, ProgramType, Edges

\* The emitter reaches nothing outside a complete walk.
LEMMA EmissionWalked ==
    ASSUME NEW b \in Builds, NEW F, NEW T, WalkComplete(b, F, T)
    PROVE  EmittedFunctions(b) \subseteq F /\ EmittedTypes(b) \subseteq T
    <1>1. SelectedRoots(b) \subseteq F
        BY BuildFields DEF SelectedRoots, WalkComplete, SpecializationsOf
    <1>2. \A x \in F : Callees(b.program, x) \subseteq F
        BY DEF WalkComplete, Callees
    <1>3. EmittedFunctions(b) \subseteq F
        BY <1>1, <1>2 DEF EmittedFunctions, WalkComplete
    <1>4. \A x \in EmittedFunctions(b) : b.mentions[x] \subseteq T
        BY <1>3 DEF WalkComplete
    <1>5. EmittedTypes(b) \subseteq T
        BY <1>4 DEF EmittedTypes, WalkComplete
    <1> QED BY <1>3, <1>5

\* Equal identities: the same walk over declarations with the same content.
LEMMA SameWalk ==
    ASSUME NEW b \in Builds, NEW c \in Builds, NEW F, NEW T, NEW G, NEW U,
           IdentityOf(b, F, T) = IdentityOf(c, G, U)
    PROVE  /\ F = G /\ T = U
           /\ b.roots \union b.seeds = c.roots \union c.seeds /\ b.seeds = c.seeds
           /\ b.assumptions = c.assumptions
           /\ {r \in b.program.specs : r[1] \in F} = {r \in c.program.specs : r[1] \in F}
           /\ \A x \in F : Fingerprint(b, x) = Fingerprint(c, x)
           /\ \A t \in T : TypeFingerprint(b, t) = TypeFingerprint(c, t)
    <1> DEFINE i == IdentityOf(b, F, T)
               j == IdentityOf(c, G, U)
    <1>1. i.functions = j.functions /\ i.types = j.types
        OBVIOUS
    <1>2. F = G /\ \A x \in F : Fingerprint(b, x) = Fingerprint(c, x)
        <2>1. {<<x, Fingerprint(b, x)>> : x \in F} = {<<x, Fingerprint(c, x)>> : x \in G}
            BY <1>1 DEF IdentityOf
        <2>2. ASSUME NEW x \in F
              PROVE  x \in G /\ Fingerprint(b, x) = Fingerprint(c, x)
            <3>1. <<x, Fingerprint(b, x)>> \in {<<y, Fingerprint(c, y)>> : y \in G}
                BY <2>1
            <3>2. PICK y \in G : <<x, Fingerprint(b, x)>> = <<y, Fingerprint(c, y)>>
                BY <3>1
            <3> QED BY <3>2
        <2>3. ASSUME NEW x \in G
              PROVE  x \in F
            <3>1. <<x, Fingerprint(c, x)>> \in {<<y, Fingerprint(b, y)>> : y \in F}
                BY <2>1
            <3>2. PICK y \in F : <<x, Fingerprint(c, x)>> = <<y, Fingerprint(b, y)>>
                BY <3>1
            <3> QED BY <3>2
        <2> QED BY <2>2, <2>3
    <1>3. T = U /\ \A t \in T : TypeFingerprint(b, t) = TypeFingerprint(c, t)
        <2>1. {<<t, TypeFingerprint(b, t)>> : t \in T} = {<<t, TypeFingerprint(c, t)>> : t \in U}
            BY <1>1 DEF IdentityOf
        <2>2. ASSUME NEW t \in T
              PROVE  t \in U /\ TypeFingerprint(b, t) = TypeFingerprint(c, t)
            <3>1. <<t, TypeFingerprint(b, t)>> \in {<<y, TypeFingerprint(c, y)>> : y \in U}
                BY <2>1
            <3>2. PICK y \in U : <<t, TypeFingerprint(b, t)>> = <<y, TypeFingerprint(c, y)>>
                BY <3>1
            <3> QED BY <3>2
        <2>3. ASSUME NEW t \in U
              PROVE  t \in T
            <3>1. <<t, TypeFingerprint(c, t)>> \in {<<y, TypeFingerprint(b, y)>> : y \in T}
                BY <2>1
            <3>2. PICK y \in T : <<t, TypeFingerprint(c, t)>> = <<y, TypeFingerprint(b, y)>>
                BY <3>1
            <3> QED BY <3>2
        <2> QED BY <2>2, <2>3
    <1>4. i.roots = j.roots /\ i.seeds = j.seeds /\ i.assumptions = j.assumptions /\ i.specs = j.specs
        OBVIOUS
    <1>5. /\ b.roots \union b.seeds = c.roots \union c.seeds /\ b.seeds = c.seeds
          /\ b.assumptions = c.assumptions
          /\ {r \in b.program.specs : r[1] \in F} = {r \in c.program.specs : r[1] \in G}
        BY <1>4 DEF IdentityOf
    <1> QED BY <1>2, <1>3, <1>5

\* What equal fingerprints give.
LEMMA SameContent ==
    ASSUME NEW b \in Builds, NEW c \in Builds, NEW x, Fingerprint(b, x) = Fingerprint(c, x)
    PROVE  /\ b.program.calls[x] = c.program.calls[x]
           /\ b.program.iterates[x] = c.program.iterates[x]
           /\ b.mentions[x] = c.mentions[x]
           /\ x \in b.program.generic <=> x \in c.program.generic
    BY DEF Fingerprint

LEMMA SameTypeContent ==
    ASSUME NEW b \in Builds, NEW c \in Builds, NEW t, TypeFingerprint(b, t) = TypeFingerprint(c, t)
    PROVE  b.fields[t] = c.fields[t]
    BY DEF TypeFingerprint

(***************************************************************************)
(* One inclusion of the next lemma: two builds that select the same        *)
(* functions and agree on a set closed for the first.                      *)
(***************************************************************************)
LEMMA EmittedWithin ==
    ASSUME NEW b \in Builds, NEW c \in Builds, NEW F \in SUBSET Function,
           SelectedRoots(b) = SelectedRoots(c), SelectedRoots(b) \subseteq F,
           \A x \in F : Callees(b.program, x) \subseteq F /\ Callees(b.program, x) = Callees(c.program, x)
    PROVE  EmittedFunctions(b) \subseteq EmittedFunctions(c)
    <1> SUFFICES ASSUME NEW x \in EmittedFunctions(b), NEW C \in SUBSET Function,
                        SelectedRoots(c) \subseteq C, \A y \in C : Callees(c.program, y) \subseteq C
                 PROVE  x \in C
        BY DEF EmittedFunctions
    <1>1. C \intersect F \in SUBSET Function
        OBVIOUS
    <1>2. SelectedRoots(b) \subseteq C \intersect F
        OBVIOUS
    <1>3. \A y \in C \intersect F : Callees(b.program, y) \subseteq C \intersect F
        OBVIOUS
    <1>4. x \in C \intersect F
        BY <1>1, <1>2, <1>3 DEF EmittedFunctions
    <1> QED BY <1>4

LEMMA EmittedTypesWithin ==
    ASSUME NEW b \in Builds, NEW c \in Builds, NEW T \in SUBSET Type,
           EmittedFunctions(b) = EmittedFunctions(c),
           \A x \in EmittedFunctions(b) : b.mentions[x] \subseteq T /\ b.mentions[x] = c.mentions[x],
           \A t \in T : b.fields[t] \subseteq T /\ b.fields[t] = c.fields[t]
    PROVE  EmittedTypes(b) \subseteq EmittedTypes(c)
    <1> SUFFICES ASSUME NEW t \in EmittedTypes(b), NEW C \in SUBSET Type,
                        \A x \in EmittedFunctions(c) : c.mentions[x] \subseteq C,
                        \A u \in C : c.fields[u] \subseteq C
                 PROVE  t \in C
        BY DEF EmittedTypes
    <1>1. C \intersect T \in SUBSET Type
        OBVIOUS
    <1>2. \A x \in EmittedFunctions(b) : b.mentions[x] \subseteq C \intersect T
        OBVIOUS
    <1>3. \A u \in C \intersect T : b.fields[u] \subseteq C \intersect T
        OBVIOUS
    <1>4. t \in C \intersect T
        BY <1>1, <1>2, <1>3 DEF EmittedTypes
    <1> QED BY <1>4

(***************************************************************************)
(* The heart of the matter.                                                *)
(***************************************************************************)
LEMMA SameIdentitySameCode ==
    ASSUME NEW b \in Builds, NEW c \in Builds,
           NEW F, NEW T, NEW G, NEW U,
           WalkComplete(b, F, T), WalkComplete(c, G, U),
           IdentityOf(b, F, T) = IdentityOf(c, G, U)
    PROVE  Emission(b) = Emission(c)
    <1>1. /\ F = G /\ T = U
          /\ b.roots \union b.seeds = c.roots \union c.seeds /\ b.seeds = c.seeds
          /\ b.assumptions = c.assumptions
          /\ {r \in b.program.specs : r[1] \in F} = {r \in c.program.specs : r[1] \in F}
          /\ \A x \in F : Fingerprint(b, x) = Fingerprint(c, x)
          /\ \A t \in T : TypeFingerprint(b, t) = TypeFingerprint(c, t)
        BY SameWalk
    <1>2. WalkComplete(c, F, T)
        BY <1>1
    <1>3. /\ F \in SUBSET Function /\ T \in SUBSET Type
          /\ F \subseteq b.program.body /\ F \subseteq c.program.body
          /\ F \subseteq b.program.declared /\ F \subseteq c.program.declared
        BY <1>2 DEF WalkComplete
    <1>4. SelectedRoots(b) = SelectedRoots(c)
        <2>1. b.roots \ b.seeds = c.roots \ c.seeds
            BY <1>1
        <2>2. \A g \in b.seeds : SpecializationsOf(b.program, g) = SpecializationsOf(c.program, g)
            <3> SUFFICES ASSUME NEW g \in b.seeds, NEW r
                         PROVE  r \in b.program.specs /\ r[1] = g <=> r \in c.program.specs /\ r[1] = g
                BY DEF SpecializationsOf
            <3>1. g \in F
                BY DEF WalkComplete
            <3> QED BY <1>1, <3>1
        <2>3. \A g \in b.seeds : SpecializationsOf(b.program, g) \subseteq F
            BY DEF WalkComplete, SpecializationsOf
        <2>4. (UNION {SpecializationsOf(b.program, g) : g \in b.seeds})
                = (UNION {SpecializationsOf(c.program, g) : g \in c.seeds})
            BY <1>1, <2>2
        <2>5. (UNION {SpecializationsOf(b.program, g) : g \in b.seeds}) \subseteq F
            BY <2>3
        <2>6. /\ (UNION {SpecializationsOf(b.program, g) : g \in b.seeds}) \intersect b.program.declared
                    = (UNION {SpecializationsOf(b.program, g) : g \in b.seeds})
              /\ (UNION {SpecializationsOf(c.program, g) : g \in c.seeds}) \intersect c.program.declared
                    = (UNION {SpecializationsOf(c.program, g) : g \in c.seeds})
            BY <1>3, <2>4, <2>5
        <2> QED BY <2>1, <2>4, <2>6 DEF SelectedRoots
    <1>5. SelectedRoots(b) \subseteq F
        BY BuildFields DEF SelectedRoots, WalkComplete, SpecializationsOf
    <1>6. \A x \in F : /\ Callees(b.program, x) \subseteq F
                       /\ Callees(c.program, x) \subseteq F
                       /\ Callees(b.program, x) = Callees(c.program, x)
        <2> TAKE x \in F
        <2>1. b.program.calls[x] = c.program.calls[x] /\ b.program.iterates[x] = c.program.iterates[x]
            BY <1>1, SameContent
        <2> QED BY <1>2, <1>3, <2>1 DEF Callees, WalkComplete
    <1>7. EmittedFunctions(b) = EmittedFunctions(c)
        <2>1. EmittedFunctions(b) \subseteq EmittedFunctions(c)
            BY <1>3, <1>4, <1>5, <1>6, EmittedWithin, ZenonT(60)
        <2>2. EmittedFunctions(c) \subseteq EmittedFunctions(b)
            BY <1>3, <1>4, <1>5, <1>6, EmittedWithin
        <2> QED BY <2>1, <2>2
    <1>8. EmittedFunctions(b) \subseteq F /\ EmittedTypes(b) \subseteq T
        BY EmissionWalked
    <1>9. \A x \in EmittedFunctions(b) : b.mentions[x] \subseteq T /\ c.mentions[x] \subseteq T /\ b.mentions[x] = c.mentions[x]
        <2> TAKE x \in EmittedFunctions(b)
        <2>1. x \in F
            BY <1>8
        <2>2. b.mentions[x] = c.mentions[x]
            BY <1>1, <2>1, SameContent
        <2>3. b.mentions[x] \subseteq T
            BY <2>1 DEF WalkComplete
        <2> QED BY <2>2, <2>3
    <1>10. \A t \in T : b.fields[t] \subseteq T /\ c.fields[t] \subseteq T /\ b.fields[t] = c.fields[t]
        <2> TAKE t \in T
        <2>1. b.fields[t] = c.fields[t]
            BY <1>1, SameTypeContent
        <2>2. b.fields[t] \subseteq T
            BY DEF WalkComplete
        <2> QED BY <2>1, <2>2
    <1>11. EmittedTypes(b) = EmittedTypes(c)
        <2>1. EmittedTypes(b) \subseteq EmittedTypes(c)
            BY <1>3, <1>7, <1>9, <1>10, EmittedTypesWithin
        <2>2. EmittedTypes(c) \subseteq EmittedTypes(b)
            <3>1. \A x \in EmittedFunctions(c) : c.mentions[x] \subseteq T /\ c.mentions[x] = b.mentions[x]
                BY <1>7, <1>9
            <3> QED BY <1>3, <1>7, <1>10, <3>1, EmittedTypesWithin
        <2> QED BY <2>1, <2>2
    <1>12. {<<x, Fingerprint(b, x)>> : x \in EmittedFunctions(b)} = {<<x, Fingerprint(c, x)>> : x \in EmittedFunctions(c)}
        <2>1. \A x \in EmittedFunctions(b) : Fingerprint(b, x) = Fingerprint(c, x)
            BY <1>1, <1>8
        <2> QED BY <1>7, <2>1
    <1>13. {<<t, TypeFingerprint(b, t)>> : t \in EmittedTypes(b)} = {<<t, TypeFingerprint(c, t)>> : t \in EmittedTypes(c)}
        <2>1. \A t \in EmittedTypes(b) : TypeFingerprint(b, t) = TypeFingerprint(c, t)
            BY <1>1, <1>8
        <2> QED BY <1>11, <2>1
    <1>14. {r \in b.program.specs : r[2] \in EmittedFunctions(b)} = {r \in c.program.specs : r[2] \in EmittedFunctions(c)}
        <2>1. \A x \in EmittedFunctions(b) : GenericsOf(b.program, x) = GenericsOf(c.program, x)
            BY <1>3, <1>8, BuildsAssumption
        <2>2. ASSUME NEW r \in b.program.specs, r[2] \in EmittedFunctions(b)
              PROVE  r \in c.program.specs
            <3>1. r[1] \in GenericsOf(b.program, r[2])
                BY DEF GenericsOf
            <3>2. r[1] \in GenericsOf(c.program, r[2])
                BY <2>1, <2>2, <3>1
            <3>3. PICK q \in c.program.specs : q[2] = r[2] /\ q[1] = r[1]
                BY <3>2 DEF GenericsOf
            <3>4. q \in Function \X Function /\ r \in Function \X Function
                BY BuildFields
            <3>5. q = r
                BY <3>3, <3>4
            <3> QED BY <3>5
        <2>3. ASSUME NEW r \in c.program.specs, r[2] \in EmittedFunctions(b)
              PROVE  r \in b.program.specs
            <3>1. r[1] \in GenericsOf(c.program, r[2])
                BY DEF GenericsOf
            <3>2. r[1] \in GenericsOf(b.program, r[2])
                BY <2>1, <2>3, <3>1
            <3>3. PICK q \in b.program.specs : q[2] = r[2] /\ q[1] = r[1]
                BY <3>2 DEF GenericsOf
            <3>4. q \in Function \X Function /\ r \in Function \X Function
                BY BuildFields
            <3>5. q = r
                BY <3>3, <3>4
            <3> QED BY <3>5
        <2> QED BY <1>7, <2>2, <2>3
    <1>15. (\E x \in EmittedFunctions(b) : x \notin b.program.body \/ x \in b.program.generic)
             <=> (\E x \in EmittedFunctions(c) : x \notin c.program.body \/ x \in c.program.generic)
        <2>1. \A x \in EmittedFunctions(b) : x \in b.program.body /\ x \in c.program.body
            BY <1>3, <1>8
        <2>2. \A x \in EmittedFunctions(b) : x \in b.program.generic <=> x \in c.program.generic
            BY <1>1, <1>8, SameContent
        <2> QED BY <1>7, <2>1, <2>2
    <1> QED BY <1>1, <1>12, <1>13, <1>14, <1>15 DEF Emission

----------------------------------------------------------------------------
LEMMA IdentityInitInv == IdentityInit => IdentityInv
    <1> SUFFICES ASSUME IdentityInit PROVE IdentityInv
        OBVIOUS
    <1> QED BY BuildFields DEF IdentityInit, IdentityInv, IdentityTypeOK, IdentityWalkInv, StoreInv, ReuseIsExact, p

\* A finished walk is complete.
LEMMA IdentityFinished ==
    ASSUME IdentityInv, Identified
    PROVE  WalkComplete(build, function_facts, type_facts)
    BY BuildFields DEF IdentityInv, IdentityTypeOK, IdentityWalkInv, Identified, WalkComplete, p

LEMMA IdentityStepInv == IdentityInv /\ [IdentityNext]_identityVars => IdentityInv'
    <1> SUFFICES ASSUME IdentityInv, [IdentityNext]_identityVars PROVE IdentityInv'
        OBVIOUS
    <1>0. /\ build \in Builds
          /\ p.calls \in [Function -> SUBSET Function] /\ p.iterates \in [Function -> SUBSET Function]
          /\ p.specs \subseteq Function \X Function
          /\ build.mentions \in [Function -> SUBSET Type] /\ build.arguments \in [Function -> SUBSET Type]
          /\ build.fields \in [Type -> SUBSET Type]
          /\ build.roots \subseteq Function /\ build.seeds \subseteq Function
        BY BuildFields DEF IdentityInv, IdentityTypeOK, p
    <1>1. CASE EditSources
        <2>1. build' \in Builds
            BY <1>1 DEF EditSources
        <2> QED BY <1>1, <2>1 DEF EditSources, IdentityInv, IdentityTypeOK, IdentityWalkInv, StoreInv, ReuseIsExact, p
    <1>2. CASE Start
        BY <1>0, <1>2 DEF Start, IdentityInv, IdentityTypeOK, IdentityWalkInv, StoreInv, ReuseIsExact, p
    <1>3. CASE FunctionsDone
        <2>1. UNION {build.arguments[r[2]] : r \in {q \in p.specs : q[1] \in function_facts}} \subseteq Type
            BY <1>0
        <2> QED BY <1>3, <2>1 DEF FunctionsDone, IdentityInv, IdentityTypeOK, IdentityWalkInv, StoreInv, ReuseIsExact, p
    <1>4. CASE EmitUnidentified
        <2>1. identity_phase # "served" /\ identity_phase \in {"start", "functions", "types"}
            BY <1>4 DEF EmitUnidentified, NotIdentifiable
        <2>2. Emission(build)' = Emission(build)
            BY <1>4 DEF EmitUnidentified, Emission, EmittedFunctions, EmittedTypes, SelectedRoots, Callees, SpecializationsOf,
                        Fingerprint, TypeFingerprint
        <2> QED BY <1>4, <2>1, <2>2 DEF EmitUnidentified, identityWalk, IdentityInv, IdentityTypeOK, IdentityWalkInv, StoreInv, ReuseIsExact, p
    <1>5. CASE Reuse
        <2>1. WalkComplete(build, function_facts, type_facts)
            BY <1>5, IdentityFinished DEF Reuse
        <2>2. PICK s \in stored : s[1] = Identity /\ served' = {s[2]}
            BY <1>5 DEF Reuse
        <2>3. PICK b \in Builds, F \in SUBSET Function, T \in SUBSET Type :
                  WalkComplete(b, F, T) /\ s = <<IdentityOf(b, F, T), Emission(b)>>
            BY <2>2 DEF IdentityInv, StoreInv
        <2>4. IdentityOf(b, F, T) = IdentityOf(build, function_facts, type_facts)
            BY <2>2, <2>3 DEF Identity
        <2>5. Emission(b) = Emission(build)
            BY <1>0, <2>1, <2>3, <2>4, SameIdentitySameCode
        <2>6. served' = {Emission(build)}
            BY <2>2, <2>3, <2>5
        <2> QED BY <1>5, <2>6 DEF Reuse, identityWalk, IdentityInv, IdentityTypeOK, IdentityWalkInv, StoreInv, ReuseIsExact, p
    <1>6. CASE EmitAndStore
        <2>1. WalkComplete(build, function_facts, type_facts)
            BY <1>6, IdentityFinished DEF EmitAndStore
        <2>2. StoreInv'
            <3> SUFFICES ASSUME NEW s \in stored'
                         PROVE  \E b \in Builds : \E F \in SUBSET Function : \E T \in SUBSET Type :
                                    WalkComplete(b, F, T) /\ s = <<IdentityOf(b, F, T), Emission(b)>>
                BY DEF StoreInv
            <3>1. CASE s \in stored
                BY <3>1 DEF IdentityInv, StoreInv
            <3>2. CASE s = <<Identity, Emission(build)>>
                BY <2>1, <3>2 DEF Identity, IdentityInv, IdentityTypeOK
            <3> QED BY <1>6, <3>1, <3>2 DEF EmitAndStore
        <2> QED BY <1>6, <2>2 DEF EmitAndStore, identityWalk, IdentityInv, IdentityTypeOK, IdentityWalkInv, ReuseIsExact, p
    <1>7. CASE \E x \in Function : VisitFunction(x)
        <2> PICK x \in Function : VisitFunction(x)
            BY <1>7
        <2>1. /\ x \in p.declared /\ x \in p.body
              /\ function_facts' = function_facts \union {x}
              /\ nominal_types' = nominal_types \union build.mentions[x]
              /\ pending_functions' = (pending_functions \ {x}) \union (p.calls[x] \union p.iterates[x]) \union SpecializationsOf(p, x)
              /\ identity_phase = "functions" /\ identity_phase' = identity_phase /\ build' = build /\ type_facts' = type_facts
              /\ stored' = stored /\ served' = served
            BY DEF VisitFunction, Callees
        <2>2. SpecializationsOf(p, x) \subseteq Function
            BY <1>0 DEF SpecializationsOf
        <2>3. IdentityTypeOK'
            BY <1>0, <2>1, <2>2 DEF IdentityInv, IdentityTypeOK
        <2>4. \A r \in p.specs : r[1] = x => r[2] \in SpecializationsOf(p, x)
            BY DEF SpecializationsOf
        <2>5. IdentityWalkInv'
            BY <1>0, <2>1, <2>4 DEF IdentityInv, IdentityTypeOK, IdentityWalkInv, p
        <2> QED BY <2>1, <2>3, <2>5 DEF IdentityInv, StoreInv, ReuseIsExact
    <1>8. CASE \E x \in Function : SkipFunction(x)
        BY <1>0, <1>8 DEF SkipFunction, IdentityInv, IdentityTypeOK, IdentityWalkInv, StoreInv, ReuseIsExact, p
    <1>9. CASE \E t \in Type : VisitType(t)
        <2> PICK t \in Type : VisitType(t)
            BY <1>9
        <2>1. IdentityTypeOK'
            BY <1>0 DEF VisitType, IdentityInv, IdentityTypeOK
        <2>2. IdentityWalkInv'
            BY <1>0 DEF VisitType, IdentityInv, IdentityTypeOK, IdentityWalkInv, p
        <2> QED BY <2>1, <2>2 DEF VisitType, IdentityInv, StoreInv, ReuseIsExact
    <1>10. CASE UNCHANGED identityVars
        <2>1. Emission(build)' = Emission(build)
            BY <1>10 DEF identityVars, Emission, EmittedFunctions, EmittedTypes, SelectedRoots, Callees, SpecializationsOf,
                         Fingerprint, TypeFingerprint
        <2> QED BY <1>10, <2>1 DEF identityVars, IdentityInv, IdentityTypeOK, IdentityWalkInv, StoreInv, ReuseIsExact, p
    <1> QED BY <1>1, <1>2, <1>3, <1>4, <1>5, <1>6, <1>7, <1>8, <1>9, <1>10 DEF IdentityNext

LEMMA IdentityInvariance == IdentitySpec => []IdentityInv
    BY IdentityInitInv, IdentityStepInv, PTL DEF IdentitySpec

(***************************************************************************)
(* The walk's sets stay within the functions and types of the build, for   *)
(* any functions and types.                                                *)
(***************************************************************************)
THEOREM IdentityTypeCorrect == IdentitySpec => []IdentityTypeOK
    <1>1. IdentityInv => IdentityTypeOK
        BY DEF IdentityInv
    <1> QED BY IdentityInvariance, <1>1, PTL

(***************************************************************************)
(* Reuse by the executable closure identity serves what the edited source  *)
(* would emit, for any functions, types, edits and requests.               *)
(***************************************************************************)
THEOREM ReuseExact == IdentitySpec => []ReuseIsExact
    <1>1. IdentityInv => ReuseIsExact
        BY DEF IdentityInv
    <1> QED BY IdentityInvariance, <1>1, PTL

(***************************************************************************)
(* A finished walk has visited every function and type the emitter puts    *)
(* into the artifact.                                                      *)
(***************************************************************************)
THEOREM WalkCoversEmission == IdentitySpec => []IdentityCoversEmission
    <1>1. IdentityInv => IdentityCoversEmission
        <2> SUFFICES ASSUME IdentityInv, Identified PROVE EmittedFunctions(build) \subseteq function_facts /\ EmittedTypes(build) \subseteq type_facts
            BY DEF IdentityCoversEmission
        <2>1. build \in Builds
            BY DEF IdentityInv, IdentityTypeOK
        <2> QED BY <2>1, IdentityFinished, EmissionWalked
    <1> QED BY IdentityInvariance, <1>1, PTL

----------------------------------------------------------------------------
(***************************************************************************)
(* A finished interface is a function of the program: the walk has visited *)
(* exactly the references below the signature.  From that follows that a   *)
(* verified interface is complete, that nothing unrelated enters it, and   *)
(* that two builds with equal interfaces mean the same to a caller.        *)
(***************************************************************************)

\* A set of references closed under the fields of the types they stand for.
Closed(w, C) ==
    /\ References(Signature(w)) \subseteq C
    /\ \A q \in C : \A t \in Matching(w, q) : References(w.fields[t]) \subseteq C

\* What the walk is to collect.
Bad(w) == {r \in Reachable(w) : Ambiguous(w, r) \/ Dangling(w, r)}
Lists(w) == {t \in w.types : \E r \in Reachable(w) : t \in Matching(w, r)}
Description(w) ==
    [inputs |-> w.inputs, outputs |-> w.outputs, text |-> w.text,
     verified |-> Bad(w) = {}, unresolved |-> Bad(w),
     types |-> {Definition(w, t) : t \in Lists(w)}]

\* Everything below the signature is visited or needed, and nothing else is.
InterfaceWalkInv ==
    /\ stage = "walk" =>
        /\ References(Signature(source)) \subseteq visited_types \union needed_types
        /\ \A q \in visited_types : \A t \in Matching(source, q) :
              References(source.fields[t]) \subseteq visited_types \union needed_types
        /\ \A C \in SUBSET Ref : Closed(source, C) => visited_types \union needed_types \subseteq C
        /\ listed = {t \in source.types : \E r \in visited_types : t \in Matching(source, r)}
        /\ unresolved_types = {r \in visited_types : Ambiguous(source, r) \/ Dangling(source, r)}
    /\ stage = "start" => visited_types = {} /\ listed = {} /\ unresolved_types = {} /\ interface = None
    /\ stage = "walk" => interface = None

\* Finished interfaces, the current and the cached one.
InterfaceInv ==
    /\ interface # None => interface = Description(source) /\ listed = Lists(source)
    /\ stage \in {"done", "compared"} => listed \subseteq Lists(source)
    /\ cached # None /\ cached.interface # None => cached.interface = Description(cached.program)
    /\ stage = "compared" => cached # None /\ (admitted => Matches)

CallableInv == InterfaceTypeOK /\ InterfaceWalkInv /\ InterfaceInv

----------------------------------------------------------------------------
LEMMA ReferencesType ==
    ASSUME NEW S \in SUBSET Written
    PROVE  References(S) \subseteq Ref
BY DEF References, Written

LEMMA FieldsType ==
    ASSUME NEW w \in InterfaceProgramType, NEW r, NEW t \in Matching(w, r)
    PROVE  t \in w.types /\ t \in NamedType /\ References(w.fields[t]) \subseteq Ref
<1>1. t \in w.types /\ t \in NamedType
  BY DEF Matching, InterfaceProgramType
<1>2. w.fields[t] \in SUBSET Written
  BY <1>1 DEF InterfaceProgramType
<1> QED
  BY <1>1, <1>2, ReferencesType

LEMMA SignatureType ==
    ASSUME NEW w \in InterfaceProgramType
    PROVE  References(Signature(w)) \subseteq Ref
<1>1. Signature(w) \in SUBSET Written
  BY DEF Signature, InterfaceProgramType
<1> QED
  BY <1>1, ReferencesType

LEMMA ReachableType == ASSUME NEW w PROVE Reachable(w) \subseteq Ref
BY DEF Reachable

\* Reachable(w) lies in every closed set.
LEMMA ReachableLeast ==
    ASSUME NEW w, NEW C \in SUBSET Ref, Closed(w, C)
    PROVE  Reachable(w) \subseteq C
BY DEF Reachable, Closed

\* Reachable(w) is closed itself.
LEMMA ReachableClosed ==
    ASSUME NEW w \in InterfaceProgramType
    PROVE  Closed(w, Reachable(w))
<1>1. References(Signature(w)) \subseteq Reachable(w)
  BY SignatureType DEF Reachable
<1>2. ASSUME NEW q \in Reachable(w), NEW t \in Matching(w, q), NEW r \in References(w.fields[t])
      PROVE  r \in Reachable(w)
  <2>1. r \in Ref
    BY FieldsType
  <2>2. ASSUME NEW C \in SUBSET Ref, Closed(w, C) PROVE r \in C
    <3>1. q \in C
      BY <2>2, ReachableLeast
    <3> QED
      BY <2>2, <3>1 DEF Closed
  <2> QED
    BY <2>1, <2>2 DEF Reachable, Closed
<1> QED
  BY <1>1, <1>2 DEF Closed

\* A closed set that lies in every closed set is Reachable(w).
LEMMA ReachableUnique ==
    ASSUME NEW w \in InterfaceProgramType, NEW V \in SUBSET Ref, Closed(w, V),
           \A C \in SUBSET Ref : Closed(w, C) => V \subseteq C
    PROVE  V = Reachable(w)
<1>1. Reachable(w) \subseteq V
  BY ReachableLeast
<1>2. V \subseteq Reachable(w)
  BY ReachableClosed, ReachableType
<1> QED
  BY <1>1, <1>2

----------------------------------------------------------------------------
LEMMA InterfaceTypeInit == InterfaceInit => InterfaceTypeOK
BY DEF InterfaceInit, InterfaceTypeOK

LEMMA InterfaceTypeNext == InterfaceTypeOK /\ [InterfaceNext]_interfaceVars => InterfaceTypeOK'
<1> SUFFICES ASSUME InterfaceTypeOK, [InterfaceNext]_interfaceVars PROVE InterfaceTypeOK'
  OBVIOUS
<1> USE DEF InterfaceTypeOK
<1>0. source \in InterfaceProgramType
  BY InterfaceAssumption
<1>1. CASE Missing
  BY <1>1 DEF Missing, interfaceWalk
<1>2. CASE Begin
  BY <1>0, <1>2, SignatureType DEF Begin
<1>3. ASSUME NEW r \in Ref, SkipReference(r) PROVE InterfaceTypeOK'
  BY <1>3 DEF SkipReference
<1>4. ASSUME NEW r \in Ref, VisitReference(r) PROVE InterfaceTypeOK'
  <2>1. UNION {References(source.fields[t]) : t \in Matching(source, r)} \subseteq Ref
    BY <1>0, FieldsType
  <2>2. Matching(source, r) \subseteq source.types
    BY DEF Matching
  <2> QED
    BY <1>4, <2>1, <2>2 DEF VisitReference
<1>5. CASE Describe
  BY <1>5 DEF Describe, interfaceWalk
<1>6. CASE Compare
  <2>1. Matches \in BOOLEAN
    BY Zenon DEF Matches
  <2> QED
    BY <1>6, <2>1 DEF Compare, interfaceWalk
<1>7. CASE EditTypes
  BY <1>7 DEF EditTypes
<1>8. CASE UNCHANGED interfaceVars
  BY <1>8 DEF interfaceVars
<1> QED
  BY <1>1, <1>2, <1>3, <1>4, <1>5, <1>6, <1>7, <1>8 DEF InterfaceNext, InterfaceWalk

----------------------------------------------------------------------------
LEMMA CallableInitInv == InterfaceInit => CallableInv
<1> SUFFICES ASSUME InterfaceInit PROVE CallableInv
  OBVIOUS
<1>1. InterfaceTypeOK
  BY InterfaceTypeInit
<1>2. InterfaceWalkInv /\ InterfaceInv
  BY DEF InterfaceInit, InterfaceWalkInv, InterfaceInv
<1> QED
  BY <1>1, <1>2 DEF CallableInv

\* A reference leaves needed_types for visited_types.
LEMMA VisitKeepsWalk ==
    ASSUME CallableInv, NEW r \in Ref, VisitReference(r)
    PROVE  InterfaceWalkInv'
<1> DEFINE F == UNION {References(source.fields[t]) : t \in Matching(source, r)}
<1>0. /\ stage = "walk" /\ stage' = "walk" /\ source' = source
      /\ r \in needed_types
      /\ visited_types' = visited_types \union {r}
      /\ needed_types' = (needed_types \ {r}) \union F
      /\ interface' = interface
  BY DEF VisitReference
<1>1. visited_types' \union needed_types' = visited_types \union needed_types \union F
  BY <1>0
<1>2. References(Signature(source)) \subseteq visited_types' \union needed_types'
  BY <1>0, <1>1 DEF CallableInv, InterfaceWalkInv
<1>3. ASSUME NEW q \in visited_types', NEW t \in Matching(source, q)
      PROVE  References(source.fields[t]) \subseteq visited_types' \union needed_types'
  <2>1. CASE q = r
    BY <1>1, <2>1
  <2>2. CASE q # r
    <3>1. q \in visited_types
      BY <1>0, <2>2
    <3> QED
      BY <1>0, <1>1, <3>1 DEF CallableInv, InterfaceWalkInv
  <2> QED
    BY <2>1, <2>2
<1>4. ASSUME NEW C \in SUBSET Ref, Closed(source, C)
      PROVE  visited_types' \union needed_types' \subseteq C
  <2>1. visited_types \union needed_types \subseteq C
    BY <1>0, <1>4 DEF CallableInv, InterfaceWalkInv
  <2>2. F \subseteq C
    BY <1>0, <1>4, <2>1 DEF Closed
  <2> QED
    BY <1>1, <2>1, <2>2
<1>5. listed' = {t \in source.types : \E q \in visited_types' : t \in Matching(source, q)}
  <2>1. listed = {t \in source.types : \E q \in visited_types : t \in Matching(source, q)}
    BY <1>0 DEF CallableInv, InterfaceWalkInv
  <2>2. listed' = listed \union Matching(source, r)
    BY DEF VisitReference
  <2>3. Matching(source, r) \subseteq source.types
    BY DEF Matching
  <2> QED
    BY <1>0, <2>1, <2>2, <2>3
<1>6. unresolved_types' = {q \in visited_types' : Ambiguous(source, q) \/ Dangling(source, q)}
  <2>1. unresolved_types = {q \in visited_types : Ambiguous(source, q) \/ Dangling(source, q)}
    BY <1>0 DEF CallableInv, InterfaceWalkInv
  <2>2. unresolved_types' = unresolved_types \union (IF Ambiguous(source, r) \/ Dangling(source, r) THEN {r} ELSE {})
    BY DEF VisitReference
  <2> QED
    BY <1>0, <2>1, <2>2
<1>7. interface' = None
  BY <1>0 DEF CallableInv, InterfaceWalkInv
<1>8. /\ References(Signature(source')) \subseteq visited_types' \union needed_types'
      /\ \A q \in visited_types' : \A t \in Matching(source', q) :
            References(source'.fields[t]) \subseteq visited_types' \union needed_types'
      /\ \A C \in SUBSET Ref : Closed(source', C) => visited_types' \union needed_types' \subseteq C
  BY <1>0, <1>2, <1>3, <1>4
<1>9. /\ listed' = {t \in source'.types : \E q \in visited_types' : t \in Matching(source', q)}
      /\ unresolved_types' = {q \in visited_types' : Ambiguous(source', q) \/ Dangling(source', q)}
  BY <1>0, <1>5, <1>6
<1> QED
  BY <1>0, <1>7, <1>8, <1>9 DEF InterfaceWalkInv

LEMMA InterfaceWalkNext == CallableInv /\ [InterfaceNext]_interfaceVars => InterfaceWalkInv'
<1> SUFFICES ASSUME CallableInv, [InterfaceNext]_interfaceVars PROVE InterfaceWalkInv'
  OBVIOUS
<1>1. CASE Missing
  BY <1>1 DEF Missing, InterfaceWalkInv
<1>2. CASE Begin
  <2>1. /\ source' = source /\ stage = "start" /\ stage' = "walk"
        /\ needed_types' = References(Signature(source))
        /\ visited_types' = visited_types /\ listed' = listed
        /\ unresolved_types' = unresolved_types /\ interface' = interface
    BY <1>2 DEF Begin
  <2>2. visited_types' = {} /\ listed' = {} /\ unresolved_types' = {} /\ interface' = None
    BY <2>1 DEF CallableInv, InterfaceWalkInv
  <2>3. \A C \in SUBSET Ref : Closed(source', C) => visited_types' \union needed_types' \subseteq C
    BY <2>1, <2>2 DEF Closed
  <2>4. References(Signature(source')) \subseteq visited_types' \union needed_types'
    BY <2>1
  <2> QED
    BY <2>1, <2>2, <2>3, <2>4 DEF InterfaceWalkInv
<1>3. ASSUME NEW r \in Ref, SkipReference(r) PROVE InterfaceWalkInv'
  <2>1. /\ stage = "walk" /\ stage' = "walk" /\ source' = source
        /\ visited_types' = visited_types /\ listed' = listed
        /\ unresolved_types' = unresolved_types /\ interface' = interface
    BY <1>3 DEF SkipReference
  <2>2. visited_types' \union needed_types' = visited_types \union needed_types
    BY <1>3 DEF SkipReference
  <2> QED
    BY <2>1, <2>2 DEF CallableInv, InterfaceWalkInv
<1>4. ASSUME NEW r \in Ref, VisitReference(r) PROVE InterfaceWalkInv'
  BY <1>4, VisitKeepsWalk
<1>5. CASE Describe
  BY <1>5 DEF Describe, InterfaceWalkInv
<1>6. CASE Compare
  BY <1>6 DEF Compare, InterfaceWalkInv
<1>7. CASE EditTypes
  BY <1>7 DEF EditTypes, InterfaceWalkInv
<1>8. CASE UNCHANGED interfaceVars
  BY <1>8 DEF interfaceVars, CallableInv, InterfaceWalkInv
<1> QED
  BY <1>1, <1>2, <1>3, <1>4, <1>5, <1>6, <1>7, <1>8 DEF InterfaceNext, InterfaceWalk

\* When nothing is needed any more, the walk has collected the description.
LEMMA DescribeExact ==
    ASSUME CallableInv, Describe
    PROVE  interface' = Description(source) /\ listed = Lists(source)
<1>0. stage = "walk" /\ needed_types = {} /\ source \in InterfaceProgramType /\ visited_types \subseteq Ref
  BY InterfaceAssumption DEF Describe, CallableInv, InterfaceTypeOK
<1>1. Closed(source, visited_types)
  BY <1>0 DEF CallableInv, InterfaceWalkInv, Closed
<1>2. \A C \in SUBSET Ref : Closed(source, C) => visited_types \subseteq C
  BY <1>0 DEF CallableInv, InterfaceWalkInv
<1>3. visited_types = Reachable(source)
  BY <1>0, <1>1, <1>2, ReachableUnique
<1>4. listed = Lists(source)
  BY <1>0, <1>3 DEF CallableInv, InterfaceWalkInv, Lists
<1>5. unresolved_types = Bad(source)
  BY <1>0, <1>3 DEF CallableInv, InterfaceWalkInv, Bad
<1> QED
  BY <1>4, <1>5 DEF Describe, Description

LEMMA DescriptionNext == CallableInv /\ [InterfaceNext]_interfaceVars => InterfaceInv'
<1> SUFFICES ASSUME CallableInv, [InterfaceNext]_interfaceVars PROVE InterfaceInv'
  OBVIOUS
<1>1. CASE Missing
  <2>1. interface' = None /\ listed' = {} /\ cached' = cached /\ stage' = "done"
    BY <1>1 DEF Missing, interfaceWalk, CallableInv, InterfaceWalkInv
  <2> QED
    BY <2>1 DEF CallableInv, InterfaceInv
<1>2. CASE Begin
  <2>1. interface' = None /\ cached' = cached /\ stage' = "walk"
    BY <1>2 DEF Begin, CallableInv, InterfaceWalkInv
  <2> QED
    BY <2>1 DEF CallableInv, InterfaceInv
<1>3. ASSUME NEW r \in Ref, SkipReference(r) \/ VisitReference(r) PROVE InterfaceInv'
  <2>1. interface' = None /\ cached' = cached /\ stage' = "walk"
    BY <1>3 DEF SkipReference, VisitReference, CallableInv, InterfaceWalkInv
  <2> QED
    BY <2>1 DEF CallableInv, InterfaceInv
<1>5. CASE Describe
  <2>1. source' = source /\ listed' = listed /\ cached' = cached /\ stage' = "done"
    BY <1>5 DEF Describe, interfaceWalk
  <2> QED
    BY <1>5, <2>1, DescribeExact DEF CallableInv, InterfaceInv
<1>6. CASE Compare
  <2>1. /\ source' = source /\ listed' = listed /\ cached' = cached /\ interface' = interface
        /\ stage = "done" /\ stage' = "compared" /\ cached # None
    BY <1>6 DEF Compare, interfaceWalk
  <2>2. admitted' => Matches
    BY <1>6 DEF Compare
  <2>3. Matches' <=> Matches
    BY <2>1 DEF Matches
  <2> QED
    BY <2>1, <2>2, <2>3 DEF CallableInv, InterfaceInv
<1>7. CASE EditTypes
  <2>1. /\ interface' = None /\ stage' = "start"
        /\ cached' = [interface |-> interface, program |-> source]
    BY <1>7 DEF EditTypes
  <2>2. cached'.interface = interface /\ cached'.program = source
    BY <2>1
  <2> QED
    BY <2>1, <2>2 DEF CallableInv, InterfaceInv
<1>8. CASE UNCHANGED interfaceVars
  BY <1>8 DEF interfaceVars, CallableInv, InterfaceInv, Matches
<1> QED
  BY <1>1, <1>2, <1>3, <1>5, <1>6, <1>7, <1>8 DEF InterfaceNext, InterfaceWalk

\* The inductive invariant of the walk and of the comparison that follows it.
THEOREM CallableInvariance == InterfaceSpec => []CallableInv
<1>1. CallableInv /\ [InterfaceNext]_interfaceVars => CallableInv'
  BY InterfaceTypeNext, InterfaceWalkNext, DescriptionNext DEF CallableInv
<1> QED
  BY <1>1, CallableInitInv, PTL DEF InterfaceSpec

----------------------------------------------------------------------------
\* Two programs whose descriptions agree have the same references below their
\* signatures.
LEMMA SameBelow ==
    ASSUME NEW w \in InterfaceProgramType, NEW q \in InterfaceProgramType,
           w.inputs = q.inputs, w.outputs = q.outputs,
           {Definition(w, t) : t \in Lists(w)} = {Definition(q, t) : t \in Lists(q)}
    PROVE  Reachable(w) \subseteq Reachable(q)
<1> DEFINE C == Reachable(w) \intersect Reachable(q)
<1>1. Closed(w, Reachable(w)) /\ Closed(q, Reachable(q))
  BY ReachableClosed
<1>2. References(Signature(w)) \subseteq C
  BY <1>1 DEF Closed, Signature
<1>3. ASSUME NEW r \in C, NEW t \in Matching(w, r)
      PROVE  References(w.fields[t]) \subseteq C
  <2>1. t \in Lists(w)
    BY DEF Lists, Matching
  <2>2. PICK u \in Lists(q) : Definition(w, t) = Definition(q, u)
    BY <2>1
  <2>3. /\ t = u /\ w.name[t] = q.name[u]
        /\ w.identity[t] = q.identity[u] /\ w.fields[t] = q.fields[u]
    BY <2>2 DEF Definition
  <2>4. t \in Matching(q, r)
    BY <2>3 DEF Matching, Lists
  <2>5. References(q.fields[t]) \subseteq Reachable(q)
    BY <1>1, <2>4 DEF Closed
  <2>6. References(w.fields[t]) \subseteq Reachable(w)
    BY <1>1 DEF Closed
  <2> QED
    BY <2>3, <2>5, <2>6
<1>4. C \in SUBSET Ref
  BY ReachableType
<1>5. Closed(w, C)
  BY <1>2, <1>3 DEF Closed
<1> QED
  BY <1>4, <1>5, ReachableLeast

\* ... and what they stand for is the same.
LEMMA SameMeaning ==
    ASSUME NEW w \in InterfaceProgramType, NEW q \in InterfaceProgramType, NEW r \in Reachable(w),
           {Definition(w, t) : t \in Lists(w)} = {Definition(q, t) : t \in Lists(q)}
    PROVE  {Definition(w, t) : t \in Matching(w, r)} \subseteq {Definition(q, t) : t \in Matching(q, r)}
<1> SUFFICES ASSUME NEW t \in Matching(w, r)
             PROVE  Definition(w, t) \in {Definition(q, u) : u \in Matching(q, r)}
  OBVIOUS
<1>1. t \in Lists(w)
  BY DEF Lists, Matching
<1>2. PICK u \in Lists(q) : Definition(w, t) = Definition(q, u)
  BY <1>1
<1>3. w.name[t] = q.name[u] /\ w.identity[t] = q.identity[u]
  BY <1>2 DEF Definition
<1>4. u \in Matching(q, r)
  BY <1>3 DEF Matching, Lists
<1> QED
  BY <1>2, <1>4

LEMMA CompleteFromInv == CallableInv => VerifiedIsComplete
<1> SUFFICES ASSUME CallableInv, interface # None, interface.verified, NEW r \in Reachable(source)
             PROVE  /\ ~Ambiguous(source, r)
                    /\ Matching(source, r) \subseteq listed
                    /\ Matching(source, r) # {} \/ r \in Builtin
  BY DEF VerifiedIsComplete
<1>1. interface = Description(source) /\ listed = Lists(source)
  BY DEF CallableInv, InterfaceInv
<1>2. Bad(source) = {}
  BY <1>1 DEF Description
<1>3. ~Ambiguous(source, r) /\ ~Dangling(source, r)
  BY <1>2 DEF Bad
<1>4. Matching(source, r) \subseteq Lists(source)
  BY DEF Lists, Matching
<1> QED
  BY <1>1, <1>3, <1>4 DEF Dangling

LEMMA UnrelatedFromInv == CallableInv => NothingUnrelated
BY DEF CallableInv, InterfaceInv, NothingUnrelated, Lists

LEMMA SameFromInv == CallableInv => AdmittedMeansTheSame
<1> SUFFICES ASSUME CallableInv, stage = "compared", admitted PROVE
        /\ source.inputs = cached.program.inputs /\ source.outputs = cached.program.outputs
        /\ Reachable(source) = Reachable(cached.program)
        /\ \A r \in Reachable(source) :
              /\ ~Ambiguous(source, r)
              /\ {Definition(source, t) : t \in Matching(source, r)}
                   = {Definition(cached.program, t) : t \in Matching(cached.program, r)}
  BY DEF AdmittedMeansTheSame
<1> DEFINE q == cached.program
<1>1. cached # None /\ interface # None /\ interface = cached.interface /\ interface.verified
  BY DEF CallableInv, InterfaceInv, Matches
<1>2. source \in InterfaceProgramType /\ q \in InterfaceProgramType
  BY <1>1, InterfaceAssumption DEF CallableInv, InterfaceTypeOK
<1>3. Description(source) = Description(q)
  BY <1>1 DEF CallableInv, InterfaceInv
<1>4. /\ source.inputs = q.inputs /\ source.outputs = q.outputs
      /\ {Definition(source, t) : t \in Lists(source)} = {Definition(q, t) : t \in Lists(q)}
  <2> DEFINE i == Description(source)
  <2> DEFINE j == Description(q)
  <2>1. i.inputs = source.inputs /\ i.outputs = source.outputs /\ i.types = {Definition(source, t) : t \in Lists(source)}
    BY DEF Description
  <2>2. j.inputs = q.inputs /\ j.outputs = q.outputs /\ j.types = {Definition(q, t) : t \in Lists(q)}
    BY DEF Description
  <2> QED
    BY <1>3, <2>1, <2>2
<1>5. Reachable(source) = Reachable(q)
  <2> HIDE DEF q
  <2>1. Reachable(source) \subseteq Reachable(q)
    BY <1>2, <1>4, SameBelow
  <2>2. Reachable(q) \subseteq Reachable(source)
    BY <1>2, <1>4, SameBelow
  <2> QED
    BY <2>1, <2>2
<1>6. ASSUME NEW r \in Reachable(source)
      PROVE  {Definition(source, t) : t \in Matching(source, r)} = {Definition(q, t) : t \in Matching(q, r)}
  <2>1. r \in Reachable(q)
    BY <1>5
  <2>2. {Definition(source, t) : t \in Matching(source, r)} \subseteq {Definition(q, t) : t \in Matching(q, r)}
    BY <1>2, <1>4, SameMeaning
  <2>3. {Definition(q, t) : t \in Matching(q, r)} \subseteq {Definition(source, t) : t \in Matching(source, r)}
    BY <1>2, <1>4, <2>1, SameMeaning
  <2> QED
    BY <2>2, <2>3
<1>7. ASSUME NEW r \in Reachable(source) PROVE ~Ambiguous(source, r)
  BY <1>1, CompleteFromInv DEF VerifiedIsComplete
<1> QED
  BY <1>4, <1>5, <1>6, <1>7

----------------------------------------------------------------------------
\* The walk of callable_interface stays within references and declared types,
\* for every program.
THEOREM InterfaceTypeCorrect == InterfaceSpec => []InterfaceTypeOK
<1>1. CallableInv => InterfaceTypeOK
  BY DEF CallableInv
<1> QED
  BY <1>1, CallableInvariance, PTL

\* A verified interface describes all that lies below the callable's signature.
THEOREM VerifiedComplete == InterfaceSpec => []VerifiedIsComplete
BY CallableInvariance, CompleteFromInv, PTL

\* Types that do not lie below the signature never enter an interface.
THEOREM NoUnrelated == InterfaceSpec => []NothingUnrelated
BY CallableInvariance, UnrelatedFromInv, PTL

\* cached_callable_interfaces_match lets an artifact pass only when the callable
\* means the same to its caller as in the build that stored it.
THEOREM AdmissionSound == InterfaceSpec => []AdmittedMeansTheSame
BY CallableInvariance, SameFromInv, PTL

----------------------------------------------------------------------------
(***************************************************************************)
(* An emission walks twice: over the source, where it may refuse, and over *)
(* the SSA of what it kept.  The invariant follows the result of the first *)
(* walk, the least closed set Target, through compilation and second walk: *)
(* a body outside Target is gone before the second walk starts, so the two *)
(* agree on Target, or a function of Target has been lost in between.      *)
(***************************************************************************)

\* What the selection reaches in the source.
Target == Reached(prog, selected)

\* The worklist holds what the walk under way is about.
EmissionShape ==
    /\ EmissionTypeOK
    /\ emission_phase \in {"lower", "walk"} => unvisited \union reachable \subseteq Function
    /\ emission_phase = "types" => unvisited \union reachable \subseteq RecordType
    /\ emission_phase = "obligations" => unvisited \union reachable \subseteq Obligation

\* What was selected stays selected, and only a scoped request is projected.
SelectionMade ==
    /\ emission_phase \notin {"select", "refused"} =>
          selected = IF scoped THEN SelectedExports(request) ELSE prog.declared
    /\ emission_phase \in {"validate", "lower", "project", "walk", "types", "obligations"} => scoped

\* The walk over the source: what it has seen can be executed and is needed.
SourceWalk ==
    /\ ValidProgram(prog)
    /\ selected \subseteq reachable \union unvisited
    /\ \A x \in reachable : Executable(x) /\ Callees(prog, x) \subseteq reachable \union unvisited
    /\ reachable \union unvisited \subseteq Target

\* What it has settled: all that is reached has a body, and no other body is kept.
Accepted ==
    /\ ValidProgram(prog)
    /\ \A x \in Target : Executable(x)
    /\ lowered = [prog EXCEPT !.body = @ \intersect Target]

\* What the compiler may have left out.
Delivered ==
    /\ ssa.blocks \subseteq ssa.functions
    /\ ssa.obligations = att.known /\ ssa.trace = att.trace

\* The walk over the SSA.
SsaWalk ==
    /\ selected \subseteq reachable \union unvisited
    /\ \A x \in reachable : SsaCallees(x) \subseteq reachable \union unvisited
    /\ reachable \subseteq ssa.blocks
    /\ reachable \union unvisited \subseteq Target

\* The cut.
CutToTarget == ssa.functions = Target /\ ssa.blocks = Target

\* The walk over the record types, and what it leaves.
TypeWalk ==
    /\ \A x \in Target : att.types[x] \subseteq reachable \union unvisited
    /\ \A t \in reachable : t \in ssa.recordTypes /\ att.fields[t] \subseteq reachable \union unvisited

TypesKept ==
    /\ \A x \in Target : att.types[x] \subseteq ssa.recordTypes
    /\ \A t \in ssa.recordTypes : att.fields[t] \subseteq ssa.recordTypes

\* The walk over the obligations, and what it leaves.
RestsOn(o) == (att.dependencies[o] \union att.assumptions[o]) \intersect att.known

ObligationWalk ==
    /\ \A x \in Target : att.obligations[x] \subseteq reachable
    /\ \A o \in reachable : o \in unvisited \/ o \notin att.known \/ RestsOn(o) \subseteq reachable

EvidenceKept ==
    /\ \A x \in Target : att.obligations[x] \intersect att.known \subseteq ssa.obligations
    /\ \A o \in ssa.obligations : RestsOn(o) \subseteq ssa.obligations
    /\ \A x \in Function : ssa.trace[x] = att.trace[x] \intersect ssa.functions

EmissionParts ==
    /\ emission_phase # "sealed" => artifact = {}
    /\ emission_phase = "lower" => SourceWalk
    /\ scoped /\ emission_phase \in {"compile", "project", "walk", "types", "obligations", "emit"} => Accepted
    /\ emission_phase \in {"project", "walk", "types", "obligations"} => Delivered
    /\ emission_phase = "walk" => SsaWalk
    /\ scoped /\ emission_phase \in {"types", "obligations", "emit"} => CutToTarget
    /\ emission_phase = "types" => TypeWalk
    /\ emission_phase = "obligations" => TypesKept /\ ObligationWalk
    /\ scoped /\ emission_phase = "emit" => EvidenceKept

EmissionInv == EmissionShape /\ SelectionMade /\ EmissionParts /\ EmissionIsSound

\* What the shape says of the input.
LEMMA EmissionInput ==
  ASSUME EmissionTypeOK
  PROVE  /\ prog \in ProgramType
         /\ request.mode \in Mode /\ request.mismatched \subseteq Function
         /\ request.roots \subseteq Function /\ request.seeds \subseteq Function
         /\ request.spelled \subseteq Function \X Function
         /\ att.types \in [Function -> SUBSET RecordType] /\ att.fields \in [RecordType -> SUBSET RecordType]
         /\ att.recordTypes \subseteq RecordType
         /\ att.obligations \in [Function -> SUBSET Obligation] /\ att.known \subseteq Obligation
         /\ att.dependencies \in [Obligation -> SUBSET Obligation]
         /\ att.assumptions \in [Obligation -> SUBSET Obligation]
         /\ att.trace \in [Function -> SUBSET Function]
         /\ att.copies \in [Function -> SUBSET CopyKind] /\ att.code \in [Function -> SUBSET InstructionType]
<1>1. request \in RequestType /\ att \in AttachmentType
  BY InputsAssumption DEF EmissionTypeOK
<1>2. QED
  BY <1>1 DEF RequestType, AttachmentType, prog

\* The parts of a Program.
LEMMA EmissionProgram ==
  ASSUME NEW w \in ProgramType
  PROVE  /\ w.declared \subseteq Function /\ w.body \subseteq Function /\ w.generic \subseteq Function
         /\ w.calls \in [Function -> SUBSET Function] /\ w.iterates \in [Function -> SUBSET Function]
         /\ w.specs \subseteq Function \X Function
         /\ \A x : Callees(w, x) \subseteq Function
BY DEF ProgramType, Edges, Callees

\* A Program whose bodies were cut is a Program, and calls what it did from those left.
LEMMA CutProgram ==
  ASSUME NEW w \in ProgramType, NEW S
  PROVE  /\ [w EXCEPT !.body = @ \intersect S] \in ProgramType
         /\ \A x \in S : Callees([w EXCEPT !.body = @ \intersect S], x) = Callees(w, x)
         /\ [w EXCEPT !.body = @ \intersect S].body = w.body \intersect S
BY DEF ProgramType, Callees

\* The least closed set contains the roots, is closed, and lies in every such set.
LEMMA ReachedFacts ==
  ASSUME NEW w \in ProgramType, NEW R \in SUBSET Function
  PROVE  /\ Reached(w, R) \subseteq Function
         /\ R \subseteq Reached(w, R)
         /\ \A x \in Reached(w, R) : Callees(w, x) \subseteq Reached(w, R)
         /\ \A S \in SUBSET Function : R \subseteq S /\ ClosedUnderCalls(w, S) => Reached(w, R) \subseteq S
<1>1. \A x \in Function : Callees(w, x) \subseteq Function
  BY EmissionProgram
<1>2. ASSUME NEW x \in Reached(w, R), NEW y \in Callees(w, x)
      PROVE  y \in Reached(w, R)
  BY <1>1, <1>2 DEF Reached, ClosedUnderCalls
<1>3. QED
  BY <1>2 DEF Reached

\* The exports selected are functions.
LEMMA SelectedFunctions ==
  ASSUME EmissionTypeOK
  PROVE  SelectedExports(request) \subseteq Function /\ prog.declared \subseteq Function
BY EmissionInput, EmissionProgram DEF SelectedExports, SpecializationsOf, prog

\* What the compiler delivers is SSA.
LEMMA CompiledShape ==
  ASSUME EmissionTypeOK, NEW lost \in Losses
  PROVE  CompiledSsa(lowered, lost) \in SsaType
<1>1. lowered \in ProgramType
  BY DEF EmissionTypeOK
<1>2. QED
  BY <1>1, EmissionInput, EmissionProgram DEF CompiledSsa, SsaType

\* The emission starts within the invariant.
LEMMA EmissionInitially ==
  EmissionInit => EmissionInv
<1> SUFFICES ASSUME EmissionInit
             PROVE  EmissionInv
  OBVIOUS
<1>1. <<request, att>> \in Inputs
  <2>1. PICK i \in Inputs : request = i[1] /\ att = i[2]
    BY DEF EmissionInit
  <2>2. i \in RequestType \X AttachmentType
    BY <2>1, InputsAssumption
  <2>3. QED
    BY <2>1, <2>2
<1>2. lowered \in ProgramType
  BY <1>1, InputsAssumption DEF EmissionInit, RequestType
<1>3. NoSsa \in SsaType
  BY DEF NoSsa, SsaType
<1>4. EmissionShape
  BY <1>1, <1>2, <1>3 DEF EmissionInit, EmissionShape, EmissionTypeOK
<1>5. SelectionMade /\ EmissionParts /\ EmissionIsSound
  BY DEF EmissionInit, SelectionMade, EmissionParts, EmissionIsSound
<1>6. QED
  BY <1>4, <1>5 DEF EmissionInv

\* A step that gives up has nothing to keep but why.
LEMMA EmissionFails ==
  ASSUME EmissionInv, NEW reason, FailEmission(reason), emission_phase # "sealed",
         AcceptedRequestsFailInCompiler'
  PROVE  EmissionInv'
<1>1. EmissionShape'
  BY DEF EmissionInv, EmissionShape, EmissionTypeOK, FailEmission, input, emissionWalk
<1>2. SelectionMade' /\ EmissionParts' /\ EmissionIsSound'
  BY DEF EmissionInv, FailEmission, SelectionMade, EmissionParts, EmissionIsSound,
         input, emissionWalk
<1>3. QED
  BY <1>1, <1>2 DEF EmissionInv

\* Most reasons are not about the walks.
LEMMA EmissionFailsEarly ==
  ASSUME EmissionInv, NEW reason, FailEmission(reason), emission_phase # "sealed",
         reason \notin {"target", "projection"}
  PROVE  EmissionInv'
BY EmissionFails DEF FailEmission, AcceptedRequestsFailInCompiler

LEMMA SelectNext ==
  ASSUME EmissionInv, SelectExports
  PROVE  EmissionInv'
<1> USE DEF input, emissionWalk
<1>1. EmissionTypeOK /\ emission_phase = "select"
  BY DEF EmissionInv, EmissionShape, SelectExports
<1>2. /\ request' = request /\ att' = att
      /\ emission_phase' = IF scoped THEN "validate" ELSE "compile"
      /\ selected' = IF scoped THEN SelectedExports(request) ELSE prog.declared
  BY DEF SelectExports
<1>3. selected' \subseteq Function
  BY <1>1, <1>2, SelectedFunctions
<1>4. EmissionShape'
  BY <1>1, <1>2, <1>3 DEF SelectExports, EmissionShape, EmissionTypeOK
<1>5. SelectionMade'
  BY <1>2 DEF SelectionMade, scoped, prog, SelectedExports
<1>6. EmissionParts' /\ EmissionIsSound'
  BY <1>1, <1>2 DEF EmissionInv, SelectExports, EmissionParts, EmissionIsSound, scoped
<1>7. QED
  BY <1>4, <1>5, <1>6 DEF EmissionInv

LEMMA StartLoweringNext ==
  ASSUME EmissionInv, StartLowering
  PROVE  EmissionInv'
<1> USE DEF input, emissionWalk
<1>1. EmissionTypeOK /\ emission_phase = "validate" /\ emission_phase' = "lower"
  BY DEF EmissionInv, EmissionShape, StartLowering
<1>2. request' = request /\ selected' = selected /\ unvisited' = selected /\ reachable' = {} /\ ValidProgram(prog)
  BY DEF StartLowering
<1>3. EmissionShape'
  BY <1>1, <1>2 DEF StartLowering, EmissionShape, EmissionTypeOK
<1>4. SelectionMade'
  BY <1>1, <1>2 DEF EmissionInv, SelectionMade, scoped, prog, SelectedExports
<1>5. selected \subseteq Target
  BY <1>1, EmissionInput, ReachedFacts DEF Target, EmissionTypeOK
<1>6. SourceWalk'
  BY <1>2, <1>5 DEF SourceWalk, Target, prog
<1>7. EmissionParts' /\ EmissionIsSound'
  BY <1>1, <1>6 DEF EmissionInv, StartLowering, EmissionParts, EmissionIsSound
<1>8. QED
  BY <1>3, <1>4, <1>7 DEF EmissionInv

LEMMA LowerNext ==
  ASSUME EmissionInv, NEW x \in Function, Lower(x)
  PROVE  EmissionInv'
<1> USE DEF input, emissionWalk
<1>1. /\ EmissionTypeOK /\ emission_phase = "lower" /\ emission_phase' = "lower" /\ SourceWalk
      /\ unvisited \union reachable \subseteq Function
  BY DEF EmissionInv, EmissionShape, EmissionParts, Lower
<1>2. /\ request' = request /\ selected' = selected /\ x \in unvisited
      /\ Executable(x) \/ x \in reachable
      /\ reachable' = reachable \union {x}
      /\ unvisited' = (unvisited \ {x}) \union (IF x \in reachable THEN {} ELSE Callees(prog, x))
  BY DEF Lower
<1>3. Callees(prog, x) \subseteq Function
  BY <1>1, EmissionInput, EmissionProgram
<1>4. EmissionShape'
  BY <1>1, <1>2, <1>3 DEF Lower, EmissionShape, EmissionTypeOK
<1>5. SelectionMade'
  BY <1>1, <1>2 DEF EmissionInv, SelectionMade, scoped, prog, SelectedExports
<1>6. SourceWalk'
  <2>1. x \in Target /\ Callees(prog, x) \subseteq Target
    BY <1>1, <1>2, EmissionInput, ReachedFacts DEF Target, EmissionTypeOK, SourceWalk
  <2>2. Target' = Target /\ prog' = prog /\ \A y : Executable(y)' = Executable(y)
    BY <1>2 DEF Target, prog, Executable
  <2>3. (ValidProgram(prog))'
    BY <1>1, <2>2 DEF SourceWalk
  <2>4. ASSUME NEW y \in reachable'
        PROVE  Executable(y) /\ Callees(prog, y) \subseteq reachable' \union unvisited'
    <3>1. CASE y \in reachable
      BY <3>1, <1>1, <1>2 DEF SourceWalk
    <3>2. CASE y = x /\ x \notin reachable
      BY <3>2, <1>2
    <3>3. QED
      BY <3>1, <3>2, <2>4, <1>2
  <2>5. selected \subseteq reachable' \union unvisited' /\ reachable' \union unvisited' \subseteq Target
    BY <1>1, <1>2, <2>1 DEF SourceWalk
  <2>6. QED
    BY <2>2, <2>3, <2>4, <2>5, <1>2 DEF SourceWalk
<1>7. EmissionParts' /\ EmissionIsSound'
  BY <1>1, <1>6 DEF EmissionInv, Lower, EmissionParts, EmissionIsSound
<1>8. QED
  BY <1>4, <1>5, <1>7 DEF EmissionInv

LEMMA LoweringDoneNext ==
  ASSUME EmissionInv, LoweringDone
  PROVE  EmissionInv'
<1> USE DEF input, emissionWalk
<1>1. /\ EmissionTypeOK /\ emission_phase = "lower" /\ emission_phase' = "compile" /\ SourceWalk
      /\ unvisited = {} /\ reachable \subseteq Function /\ prog \in ProgramType /\ selected \in SUBSET Function
  BY EmissionInput DEF EmissionInv, EmissionShape, EmissionParts, LoweringDone, EmissionTypeOK
<1>2. request' = request /\ selected' = selected /\ lowered' = [prog EXCEPT !.body = @ \intersect reachable]
  BY DEF LoweringDone
<1>3. EmissionShape'
  <2>1. lowered' \in ProgramType
    BY <1>1, <1>2, CutProgram
  <2>2. QED
    BY <1>1, <2>1 DEF EmissionInv, LoweringDone, EmissionShape, EmissionTypeOK
<1>4. SelectionMade'
  BY <1>1, <1>2 DEF EmissionInv, SelectionMade, scoped, prog, SelectedExports
<1>5. reachable = Target
  <2>1. selected \subseteq reachable /\ ClosedUnderCalls(prog, reachable) /\ reachable \subseteq Target
    BY <1>1 DEF SourceWalk, ClosedUnderCalls
  <2>2. Target \subseteq reachable
    BY <1>1, <2>1, ReachedFacts DEF Target
  <2>3. QED
    BY <2>1, <2>2
<1>6. Accepted'
  <2>1. Target' = Target /\ prog' = prog /\ \A y : Executable(y)' = Executable(y)
    BY <1>2 DEF Target, prog, Executable
  <2>2. ValidProgram(prog) /\ \A y \in Target : Executable(y)
    BY <1>1, <1>5 DEF SourceWalk
  <2>3. QED
    BY <1>2, <1>5, <2>1, <2>2 DEF Accepted
<1>7. EmissionParts' /\ EmissionIsSound'
  BY <1>1, <1>6 DEF EmissionInv, LoweringDone, EmissionParts, EmissionIsSound
<1>8. QED
  BY <1>3, <1>4, <1>7 DEF EmissionInv

LEMMA CompileNext ==
  ASSUME EmissionInv, Compile
  PROVE  EmissionInv'
<1> USE DEF input, emissionWalk
<1>1. EmissionTypeOK /\ emission_phase = "compile" /\ emission_phase' = (IF scoped THEN "project" ELSE "emit")
  BY DEF EmissionInv, EmissionShape, Compile
<1>2. PICK lost \in Losses : ssa' = CompiledSsa(lowered, lost)
  BY DEF Compile
<1>3. request' = request /\ att' = att /\ selected' = selected /\ lowered' = lowered /\ artifact' = artifact
  BY DEF Compile
<1>4. EmissionShape'
  <2>1. ssa' \in SsaType
    BY <1>1, <1>2, CompiledShape
  <2>2. unselected' \subseteq prog.declared \union GenericRows
    BY DEF Compile
  <2>3. unselected' \subseteq Function \union (Function \X Function)
    BY <1>1, <2>2, EmissionInput, EmissionProgram DEF GenericRows
  <2>4. QED
    BY <1>1, <2>1, <2>3 DEF Compile, EmissionInv, EmissionShape, EmissionTypeOK
<1>5. SelectionMade'
  BY <1>1, <1>3 DEF EmissionInv, SelectionMade, scoped, prog, SelectedExports
<1>6. scoped => Accepted'
  <2>1. Target' = Target /\ prog' = prog /\ \A y : Executable(y)' = Executable(y)
    BY <1>3 DEF Target, prog, Executable
  <2>2. QED
    BY <1>1, <1>3, <2>1 DEF EmissionInv, EmissionParts, Accepted
<1>7. scoped => Delivered'
  <2> HAVE scoped
  <2>a. prog \in ProgramType /\ Accepted
    BY <1>1, EmissionInput DEF EmissionInv, EmissionParts
  <2>1. lowered.body \subseteq prog.body /\ prog.body \subseteq prog.declared
    BY <2>a, CutProgram DEF Accepted, ValidProgram
  <2>2. lowered.declared = prog.declared /\ lowered.generic = prog.generic
    BY <2>a DEF Accepted, ProgramType
  <2>3. QED
    BY <1>2, <1>3, <2>1, <2>2 DEF CompiledSsa, Delivered
<1>8. EmissionParts' /\ EmissionIsSound'
  <2>1. artifact' = {} /\ scoped' = scoped
    BY <1>1, <1>3 DEF EmissionInv, EmissionParts, scoped
  <2>2. scoped => EmissionParts'
    BY <1>1, <1>6, <1>7, <2>1 DEF EmissionParts
  <2>3. ~scoped => EmissionParts'
    BY <1>1, <2>1 DEF EmissionParts
  <2>4. QED
    BY <1>1, <2>2, <2>3 DEF EmissionIsSound
<1>9. QED
  BY <1>4, <1>5, <1>8 DEF EmissionInv

\* What the walks over the SSA leave alone.
LEMMA TargetStays ==
  ASSUME request' = request, selected' = selected, lowered' = lowered
  PROVE  /\ Target' = Target /\ prog' = prog /\ scoped' = scoped
         /\ Accepted' = Accepted
         /\ \A x : SsaCallees(x)' = SsaCallees(x)
<1>1. Target' = Target /\ prog' = prog /\ scoped' = scoped /\ \A y : Executable(y)' = Executable(y)
  BY DEF Target, prog, scoped, Executable
<1>2. QED
  BY <1>1 DEF Accepted, SsaCallees

LEMMA SelectionStays ==
  ASSUME SelectionMade, request' = request, selected' = selected,
         emission_phase \notin {"select", "refused"},
         emission_phase' \in {"validate", "lower", "project", "walk", "types", "obligations"} => scoped
  PROVE  SelectionMade'
BY DEF SelectionMade, scoped, prog, SelectedExports

\* The SSA of a reached function calls what its source does.
LEMMA TargetCalls ==
  ASSUME EmissionTypeOK, Accepted
  PROVE  /\ Target \subseteq Function /\ selected \subseteq Target
         /\ \A x \in Target : SsaCallees(x) = Callees(prog, x) /\ SsaCallees(x) \subseteq Target
         /\ Target \subseteq lowered.body
<1>1. prog \in ProgramType /\ selected \in SUBSET Function
  BY EmissionInput DEF EmissionTypeOK
<1>2. /\ Target \subseteq Function /\ selected \subseteq Target
      /\ \A x \in Target : Callees(prog, x) \subseteq Target
  BY <1>1, ReachedFacts DEF Target
<1>3. /\ \A x \in Target : Callees(lowered, x) = Callees(prog, x)
      /\ lowered.body = prog.body \intersect Target
  BY <1>1, CutProgram DEF Accepted
<1>4. QED
  BY <1>2, <1>3 DEF SsaCallees, Accepted, Executable

LEMMA StartClosureNext ==
  ASSUME EmissionInv, StartClosure
  PROVE  EmissionInv'
<1> USE DEF input, emissionWalk
<1>1. /\ EmissionTypeOK /\ emission_phase = "project" /\ emission_phase' = "walk" /\ scoped /\ Accepted /\ Delivered
      /\ SelectionMade /\ artifact = {}
  BY DEF EmissionInv, EmissionShape, EmissionParts, StartClosure, SelectionMade
<1>2. /\ request' = request /\ att' = att /\ selected' = selected /\ lowered' = lowered /\ ssa' = ssa
      /\ unvisited' = selected /\ reachable' = {} /\ artifact' = artifact
  BY DEF StartClosure
<1>3. EmissionShape'
  BY <1>1, <1>2 DEF StartClosure, EmissionShape, EmissionTypeOK
<1>4. SelectionMade'
  BY <1>1, <1>2, SelectionStays
<1>5. SsaWalk'
  BY <1>1, <1>2, TargetStays, TargetCalls DEF SsaWalk
<1>6. Accepted' /\ Delivered'
  BY <1>1, <1>2, TargetStays DEF Delivered
<1>7. EmissionParts' /\ EmissionIsSound'
  BY <1>1, <1>2, <1>5, <1>6 DEF EmissionParts, EmissionIsSound
<1>8. QED
  BY <1>3, <1>4, <1>7 DEF EmissionInv

LEMMA WalkNext ==
  ASSUME EmissionInv, NEW x \in Function, Walk(x)
  PROVE  EmissionInv'
<1> USE DEF input, emissionWalk
<1>1. /\ EmissionTypeOK /\ emission_phase = "walk" /\ emission_phase' = "walk" /\ scoped /\ Accepted /\ Delivered
      /\ SelectionMade /\ artifact = {} /\ SsaWalk /\ unvisited \union reachable \subseteq Function
  BY DEF EmissionInv, EmissionShape, EmissionParts, Walk, SelectionMade
<1>2. /\ request' = request /\ att' = att /\ selected' = selected /\ lowered' = lowered /\ ssa' = ssa
      /\ artifact' = artifact /\ x \in unvisited
      /\ x \in ssa.blocks \/ x \in reachable
      /\ reachable' = reachable \union {x}
      /\ unvisited' = (unvisited \ {x}) \union (IF x \in reachable THEN {} ELSE SsaCallees(x))
  BY DEF Walk
<1>3. x \in Target /\ SsaCallees(x) \subseteq Target /\ Target \subseteq Function
  BY <1>1, <1>2, TargetCalls DEF SsaWalk
<1>4. EmissionShape'
  BY <1>1, <1>2, <1>3 DEF Walk, EmissionShape, EmissionTypeOK
<1>5. SelectionMade'
  BY <1>1, <1>2, SelectionStays
<1>6. SsaWalk'
  <2>1. ASSUME NEW y \in reachable'
        PROVE  SsaCallees(y) \subseteq reachable' \union unvisited'
    <3>1. CASE y \in reachable
      BY <3>1, <1>1, <1>2 DEF SsaWalk
    <3>2. CASE y = x /\ x \notin reachable
      BY <3>2, <1>2
    <3>3. QED
      BY <3>1, <3>2, <2>1, <1>2
  <2>2. /\ selected \subseteq reachable' \union unvisited' /\ reachable' \union unvisited' \subseteq Target
        /\ reachable' \subseteq ssa.blocks
    BY <1>1, <1>2, <1>3 DEF SsaWalk
  <2>3. QED
    BY <1>2, <2>1, <2>2, TargetStays DEF SsaWalk
<1>7. Accepted' /\ Delivered'
  BY <1>1, <1>2, TargetStays DEF Delivered
<1>8. EmissionParts' /\ EmissionIsSound'
  BY <1>1, <1>2, <1>6, <1>7 DEF EmissionParts, EmissionIsSound
<1>9. QED
  BY <1>4, <1>5, <1>8 DEF EmissionInv

\* A target that is not found was lost by the compiler.
LEMMA RefuseTargetNext ==
  ASSUME EmissionInv, NEW x \in Function, RefuseTarget(x)
  PROVE  EmissionInv'
<1> USE DEF input, emissionWalk
<1>1. /\ EmissionTypeOK /\ emission_phase = "walk" /\ Accepted /\ Delivered /\ SsaWalk /\ scoped
  BY DEF EmissionInv, EmissionShape, EmissionParts, RefuseTarget, SelectionMade
<1>2. x \in unvisited /\ x \notin ssa.functions \intersect ssa.blocks /\ FailEmission("target")
  BY DEF RefuseTarget
<1>3. x \in Target /\ x \in lowered.body /\ x \notin ssa.blocks
  BY <1>1, <1>2, TargetCalls DEF SsaWalk, Delivered
<1>4. /\ request' = request /\ selected' = selected /\ lowered' = lowered /\ ssa' = ssa /\ why' = "target"
  BY <1>2 DEF FailEmission
<1>5. AcceptedRequestsFailInCompiler'
  BY <1>3, <1>4, TargetStays DEF AcceptedRequestsFailInCompiler, Target
<1>6. QED
  BY <1>1, <1>2, <1>5, EmissionFails

LEMMA ClosureDoneNext ==
  ASSUME EmissionInv, ClosureDone
  PROVE  EmissionInv'
<1> USE DEF input, emissionWalk
<1>1. /\ EmissionTypeOK /\ emission_phase = "walk" /\ emission_phase' = "types" /\ scoped /\ Accepted /\ Delivered
      /\ SelectionMade /\ artifact = {} /\ SsaWalk /\ reachable \subseteq Function /\ unvisited = {}
  BY DEF EmissionInv, EmissionShape, EmissionParts, ClosureDone, SelectionMade
<1>2. /\ request' = request /\ att' = att /\ selected' = selected /\ lowered' = lowered
      /\ ssa' = [ssa EXCEPT !.functions = @ \intersect reachable, !.blocks = @ \intersect reachable]
      /\ unvisited' = UNION {att.types[x] : x \in reachable} /\ reachable' = {} /\ artifact' = artifact
  BY DEF ClosureDone
<1>3. reachable = Target
  <2>1. selected \subseteq reachable /\ reachable \subseteq Target /\ \A x \in reachable : SsaCallees(x) \subseteq reachable
    BY <1>1 DEF SsaWalk
  <2>2. ClosedUnderCalls(prog, reachable)
    BY <1>1, <2>1, TargetCalls DEF ClosedUnderCalls
  <2>3. prog \in ProgramType /\ selected \in SUBSET Function
    BY <1>1, EmissionInput DEF EmissionTypeOK
  <2>4. Target \subseteq reachable
    BY <1>1, <2>1, <2>2, <2>3, ReachedFacts DEF Target
  <2>5. QED
    BY <2>1, <2>4
<1>4. ssa \in SsaType
  BY <1>1 DEF EmissionTypeOK
<1>5. /\ ssa'.functions = Target /\ ssa'.blocks = Target
      /\ ssa'.obligations = ssa.obligations /\ ssa'.trace = ssa.trace /\ ssa' \in SsaType
  BY <1>1, <1>2, <1>3, <1>4 DEF SsaType, SsaWalk, Delivered
<1>6. unvisited' \subseteq RecordType /\ \A x \in reachable : att.types[x] \subseteq unvisited'
  BY <1>1, <1>2, EmissionInput
<1>7. EmissionShape'
  BY <1>1, <1>2, <1>5, <1>6 DEF ClosureDone, EmissionShape, EmissionTypeOK
<1>8. SelectionMade'
  BY <1>1, <1>2, SelectionStays
<1>9. Accepted' /\ Delivered' /\ CutToTarget' /\ TypeWalk'
  BY <1>1, <1>2, <1>3, <1>5, <1>6, TargetStays DEF Delivered, CutToTarget, TypeWalk
<1>10. EmissionParts' /\ EmissionIsSound'
  BY <1>1, <1>2, <1>9 DEF EmissionParts, EmissionIsSound
<1>11. QED
  BY <1>7, <1>8, <1>10 DEF EmissionInv

LEMMA WalkTypeNext ==
  ASSUME EmissionInv, NEW t \in RecordType, WalkType(t)
  PROVE  EmissionInv'
<1> USE DEF input, emissionWalk
<1>1. /\ EmissionTypeOK /\ emission_phase = "types" /\ emission_phase' = "types" /\ scoped /\ Accepted /\ Delivered
      /\ SelectionMade /\ artifact = {} /\ CutToTarget /\ TypeWalk /\ unvisited \union reachable \subseteq RecordType
  BY DEF EmissionInv, EmissionShape, EmissionParts, WalkType, SelectionMade
<1>2. /\ request' = request /\ att' = att /\ selected' = selected /\ lowered' = lowered /\ ssa' = ssa
      /\ artifact' = artifact /\ t \in unvisited /\ t \in ssa.recordTypes
      /\ reachable' = reachable \union {t}
      /\ unvisited' = (unvisited \ {t}) \union (IF t \in reachable THEN {} ELSE att.fields[t])
  BY DEF WalkType
<1>3. att.fields[t] \subseteq RecordType
  BY <1>1, EmissionInput
<1>4. EmissionShape'
  BY <1>1, <1>2, <1>3 DEF WalkType, EmissionShape, EmissionTypeOK
<1>5. SelectionMade'
  BY <1>1, <1>2, SelectionStays
<1>6. TypeWalk'
  <2>1. ASSUME NEW y \in reachable'
        PROVE  y \in ssa.recordTypes /\ att.fields[y] \subseteq reachable' \union unvisited'
    <3>1. CASE y \in reachable
      BY <3>1, <1>1, <1>2 DEF TypeWalk
    <3>2. CASE y = t /\ t \notin reachable
      BY <3>2, <1>2
    <3>3. QED
      BY <3>1, <3>2, <2>1, <1>2
  <2>2. \A x \in Target : att.types[x] \subseteq reachable' \union unvisited'
    BY <1>1, <1>2 DEF TypeWalk
  <2>3. QED
    BY <1>2, <2>1, <2>2, TargetStays DEF TypeWalk
<1>7. Accepted' /\ Delivered' /\ CutToTarget'
  BY <1>1, <1>2, TargetStays DEF Delivered, CutToTarget
<1>8. EmissionParts' /\ EmissionIsSound'
  BY <1>1, <1>2, <1>6, <1>7 DEF EmissionParts, EmissionIsSound
<1>9. QED
  BY <1>4, <1>5, <1>8 DEF EmissionInv

LEMMA TypesDoneNext ==
  ASSUME EmissionInv, TypesDone
  PROVE  EmissionInv'
<1> USE DEF input, emissionWalk
<1>1. /\ EmissionTypeOK /\ emission_phase = "types" /\ emission_phase' = "obligations" /\ scoped /\ Accepted /\ Delivered
      /\ SelectionMade /\ artifact = {} /\ CutToTarget /\ TypeWalk /\ unvisited = {} /\ ssa \in SsaType
  BY DEF EmissionInv, EmissionShape, EmissionParts, TypesDone, SelectionMade, EmissionTypeOK
<1>2. /\ request' = request /\ att' = att /\ selected' = selected /\ lowered' = lowered /\ artifact' = artifact
      /\ ssa' = [ssa EXCEPT !.recordTypes = @ \intersect reachable]
      /\ reachable' = UNION {att.obligations[x] : x \in ssa.functions} /\ unvisited' = reachable'
  BY DEF TypesDone
<1>3. /\ ssa'.functions = ssa.functions /\ ssa'.blocks = ssa.blocks /\ ssa'.obligations = ssa.obligations
      /\ ssa'.trace = ssa.trace /\ ssa'.recordTypes = reachable /\ ssa' \in SsaType
  BY <1>1, <1>2 DEF SsaType, TypeWalk
<1>4. ssa.functions = Target /\ Target \subseteq Function
  BY <1>1, TargetCalls DEF CutToTarget
<1>5. reachable' \subseteq Obligation /\ \A x \in Target : att.obligations[x] \subseteq reachable'
  BY <1>1, <1>2, <1>4, EmissionInput
<1>6. EmissionShape'
  BY <1>1, <1>2, <1>3, <1>5 DEF TypesDone, EmissionShape, EmissionTypeOK
<1>7. SelectionMade'
  BY <1>1, <1>2, SelectionStays
<1>8. TypesKept'
  BY <1>1, <1>2, <1>3, TargetStays DEF TypeWalk, TypesKept
<1>9. ObligationWalk'
  BY <1>2, <1>5, TargetStays DEF ObligationWalk
<1>10. Accepted' /\ Delivered' /\ CutToTarget'
  BY <1>1, <1>2, <1>3, TargetStays DEF Delivered, CutToTarget
<1>11. EmissionParts' /\ EmissionIsSound'
  BY <1>1, <1>2, <1>8, <1>9, <1>10 DEF EmissionParts, EmissionIsSound
<1>12. QED
  BY <1>6, <1>7, <1>11 DEF EmissionInv

LEMMA WalkObligationNext ==
  ASSUME EmissionInv, NEW o \in Obligation, WalkObligation(o)
  PROVE  EmissionInv'
<1> USE DEF input, emissionWalk
<1>1. /\ EmissionTypeOK /\ emission_phase = "obligations" /\ emission_phase' = "obligations" /\ scoped
      /\ Accepted /\ Delivered /\ SelectionMade /\ artifact = {} /\ CutToTarget /\ TypesKept /\ ObligationWalk
      /\ unvisited \union reachable \subseteq Obligation
  BY DEF EmissionInv, EmissionShape, EmissionParts, WalkObligation, SelectionMade
<1> DEFINE found == IF o \in ssa.obligations THEN RestsOn(o) \ reachable ELSE {}
<1>2. /\ request' = request /\ att' = att /\ selected' = selected /\ lowered' = lowered /\ ssa' = ssa
      /\ artifact' = artifact /\ reachable' = reachable \union found /\ unvisited' = (unvisited \ {o}) \union found
  BY <1>1 DEF WalkObligation, Delivered, RestsOn
<1>3. found \subseteq Obligation
  BY <1>1, EmissionInput DEF RestsOn
<1>4. EmissionShape'
  BY <1>1, <1>2, <1>3 DEF WalkObligation, EmissionShape, EmissionTypeOK
<1>5. SelectionMade'
  BY <1>1, <1>2, SelectionStays
<1>6. ObligationWalk'
  <2>1. \A y : RestsOn(y)' = RestsOn(y)
    BY <1>2 DEF RestsOn
  <2>2. ASSUME NEW y \in reachable'
        PROVE  y \in unvisited' \/ y \notin att.known \/ RestsOn(y) \subseteq reachable'
    <3>1. CASE y \in found
      BY <3>1, <1>2
    <3>2. CASE y = o
      BY <3>2, <1>1, <1>2 DEF Delivered
    <3>3. CASE y \in reachable /\ y # o
      BY <3>3, <1>1, <1>2 DEF ObligationWalk
    <3>4. QED
      BY <3>1, <3>2, <3>3, <2>2, <1>2
  <2>3. \A x \in Target : att.obligations[x] \subseteq reachable'
    BY <1>1, <1>2 DEF ObligationWalk
  <2>4. QED
    BY <1>2, <2>1, <2>2, <2>3, TargetStays DEF ObligationWalk
<1>7. Accepted' /\ Delivered' /\ CutToTarget' /\ TypesKept'
  BY <1>1, <1>2, TargetStays DEF Delivered, CutToTarget, TypesKept
<1>8. EmissionParts' /\ EmissionIsSound'
  BY <1>1, <1>2, <1>6, <1>7 DEF EmissionParts, EmissionIsSound
<1>9. QED
  BY <1>4, <1>5, <1>8 DEF EmissionInv

\* The cut SSA is SSA, refers to nothing it lost, and has its evidence.
LEMMA ProjectionFacts ==
  ASSUME EmissionInv, emission_phase = "obligations", unvisited = {}
  PROVE  /\ Projection \in SsaType /\ Projection.functions = Target /\ Projection.blocks = Target
         /\ att.boundary => ValidSsa(Projection)
         /\ \A x \in Target : att.obligations[x] \intersect att.known \subseteq Projection.obligations
         /\ \A o \in Projection.obligations : RestsOn(o) \subseteq Projection.obligations
         /\ \A x \in Function : Projection.trace[x] = att.trace[x] \intersect Projection.functions
<1>1. /\ EmissionTypeOK /\ ssa \in SsaType /\ Accepted /\ Delivered /\ CutToTarget /\ TypesKept /\ ObligationWalk
      /\ reachable \subseteq Obligation
  BY DEF EmissionInv, EmissionShape, EmissionParts, SelectionMade, EmissionTypeOK
<1>2. RetainedTrace \in [Function -> SUBSET Function] /\ \A x \in Function : RetainedTrace[x] = att.trace[x] \intersect Target
  BY <1>1, EmissionInput DEF RetainedTrace, Delivered, CutToTarget, SsaType
<1>3. /\ Projection.functions = Target /\ Projection.blocks = Target /\ Projection.recordTypes = ssa.recordTypes
      /\ Projection.obligations = att.known \intersect reachable /\ Projection.trace = RetainedTrace
  BY <1>1 DEF Projection, SsaType, Delivered, CutToTarget
<1>4. Projection \in SsaType
  BY <1>1, <1>2 DEF Projection, SsaType
<1>5. att.boundary => ValidSsa(Projection)
  BY <1>1, <1>3, TargetCalls DEF ValidSsa, TypesKept
<1>6. /\ \A x \in Target : att.obligations[x] \intersect att.known \subseteq Projection.obligations
      /\ \A o \in Projection.obligations : RestsOn(o) \subseteq Projection.obligations
  BY <1>1, <1>3 DEF ObligationWalk, RestsOn
<1>7. QED
  BY <1>2, <1>3, <1>4, <1>5, <1>6

LEMMA ProjectNext ==
  ASSUME EmissionInv, Project
  PROVE  EmissionInv'
<1> USE DEF input, emissionWalk
<1>1. /\ EmissionTypeOK /\ emission_phase = "obligations" /\ emission_phase' = "emit" /\ scoped
      /\ Accepted /\ SelectionMade /\ artifact = {} /\ unvisited = {}
  BY DEF EmissionInv, EmissionShape, EmissionParts, Project, SelectionMade
<1>2. /\ request' = request /\ att' = att /\ selected' = selected /\ lowered' = lowered /\ ssa' = Projection
      /\ artifact' = artifact
  BY DEF Project
<1>3. EmissionShape'
  <2>1. ssa' \in SsaType
    BY <1>1, <1>2, ProjectionFacts
  <2>2. QED
    BY <1>1, <2>1 DEF Project, EmissionShape, EmissionTypeOK
<1>4. SelectionMade'
  BY <1>1, <1>2, SelectionStays
<1>5. CutToTarget'
  BY <1>1, <1>2, ProjectionFacts, TargetStays DEF CutToTarget
<1>6. EvidenceKept'
  <2>1. \A y : RestsOn(y)' = RestsOn(y)
    BY <1>2 DEF RestsOn
  <2>2. QED
    BY <1>1, <1>2, <2>1, ProjectionFacts, TargetStays DEF EvidenceKept
<1>7. Accepted'
  BY <1>1, <1>2, TargetStays
<1>8. EmissionParts' /\ EmissionIsSound'
  BY <1>1, <1>2, <1>5, <1>6, <1>7 DEF EmissionParts, EmissionIsSound
<1>9. QED
  BY <1>3, <1>4, <1>8 DEF EmissionInv

\* Validation of the cut can only find what the compiler brought along.
LEMMA RefuseProjectedNext ==
  ASSUME EmissionInv, RefuseProjectedSsa
  PROVE  EmissionInv'
<1>1. emission_phase = "obligations" /\ unvisited = {} /\ ~ValidSsa(Projection) /\ FailEmission("projection")
  BY DEF RefuseProjectedSsa
<1>2. ~att.boundary
  BY <1>1, ProjectionFacts
<1>3. AcceptedRequestsFailInCompiler'
  BY <1>1, <1>2 DEF FailEmission, AcceptedRequestsFailInCompiler, input
<1>4. QED
  BY <1>1, <1>3, EmissionFails

\* Every demanded capability is bound, except those a call only uses.
LEMMA BindingFacts ==
  ASSUME NEW s
  PROVE  /\ {b[3] : b \in Bindings(s)} \subseteq Capabilities(s)
         /\ \A k \in Capabilities(s) \ {b[3] : b \in Bindings(s)} :
               \E c \in Code(s) : c[2].kind = "call" /\ k \in c[2].uses \ c[2].required
<1> DEFINE Uses(c) == IF c[2].kind = "call" THEN c[2].required ELSE c[2].uses
           How(c) == IF c[2].kind = "host" THEN "source-alias" ELSE "canonical-identity"
<1>1. \A b \in Bindings(s) : \E c \in Code(s) : b[3] \in Uses(c)
  BY DEF Bindings
<1>2. ASSUME NEW c \in Code(s), NEW k \in Uses(c)
      PROVE  \E b \in Bindings(s) : b[3] = k
  <2>1. <<c[1], How(c), k>> \in Bindings(s)
    <3>1. CASE c[2].kind = "host"
      BY <3>1, <1>2 DEF Bindings
    <3>2. CASE c[2].kind # "host"
      BY <3>2, <1>2 DEF Bindings
    <3>3. QED
      BY <3>1, <3>2
  <2>2. <<c[1], How(c), k>>[3] = k
    OBVIOUS
  <2>3. QED
    BY <2>1, <2>2
<1>3. ASSUME NEW k
      PROVE  k \in Capabilities(s) <=> \E c \in Code(s) : k \in c[2].uses \/ k \in Uses(c)
  BY DEF Capabilities
<1>4. {b[3] : b \in Bindings(s)} \subseteq Capabilities(s)
  BY <1>1, <1>3
<1>5. ASSUME NEW k \in Capabilities(s), k \notin {b[3] : b \in Bindings(s)}
      PROVE  \E c \in Code(s) : c[2].kind = "call" /\ k \in c[2].uses \ c[2].required
  <2>1. PICK c \in Code(s) : k \in c[2].uses \/ k \in Uses(c)
    BY <1>3, <1>5
  <2>2. k \notin Uses(c)
    BY <1>2, <1>5
  <2>3. QED
    BY <2>1, <2>2
<1>6. QED
  BY <1>4, <1>5

LEMMA CodeFacts ==
  ASSUME EmissionTypeOK
  PROVE  /\ \A c \in Code(ssa) : c[1] \in Function /\ c[2] \in InstructionType
         /\ Capabilities(ssa) \subseteq Capability
         /\ Bindings(ssa) \subseteq Function \X {"source-alias", "canonical-identity"} \X Capability
<1>1. ssa.blocks \subseteq Function
  BY DEF EmissionTypeOK, SsaType
<1>2. \A c \in Code(ssa) : c[1] \in Function /\ c[2] \in InstructionType
  BY <1>1 DEF Code
<1>3. \A c \in Code(ssa) : c[2].uses \subseteq Capability /\ c[2].required \subseteq Capability
  BY <1>2 DEF InstructionType
<1>4. Capabilities(ssa) \subseteq Capability
  BY <1>3 DEF Capabilities
<1>5. Bindings(ssa) \subseteq Function \X {"source-alias", "canonical-identity"} \X Capability
  BY <1>2, <1>3 DEF Bindings
<1>6. QED
  BY <1>2, <1>4, <1>5

\* What is selected, of a request the source walk has let pass, is what was asked for.
LEMMA SelectedIsRequested ==
  ASSUME EmissionTypeOK, SelectionMade, Accepted, scoped, emission_phase \notin {"select", "refused"}
  PROVE  selected = Requested /\ selected \subseteq prog.declared
<1>1. selected = SelectedExports(request)
  BY DEF SelectionMade
<1>2. selected \subseteq prog.declared
  BY TargetCalls DEF Accepted, Executable
<1>3. CASE request.mode = "application"
  <2>1. \A x : x \in UNION {SpecializationsOf(prog, g) : g \in request.seeds}
               <=> \E r \in prog.specs : r[1] \in request.seeds /\ r[2] = x
    BY DEF SpecializationsOf
  <2>2. QED
    BY <1>1, <1>2, <1>3, <2>1 DEF SelectedExports, Requested, prog
<1>4. CASE request.mode # "application"
  BY <1>1, <1>2, <1>4 DEF SelectedExports, Requested, prog
<1>5. QED
  BY <1>2, <1>3, <1>4

LEMMA EmitNext ==
  ASSUME EmissionInv, Emit
  PROVE  EmissionInv'
<1> USE DEF input, emissionWalk
<1>1. /\ EmissionTypeOK /\ emission_phase = "emit" /\ emission_phase' = "sealed" /\ SelectionMade /\ ssa \in SsaType
      /\ scoped => Accepted /\ CutToTarget /\ EvidenceKept
  BY DEF EmissionInv, EmissionShape, EmissionParts, Emit, EmissionTypeOK
<1>2. /\ request' = request /\ att' = att /\ selected' = selected /\ lowered' = lowered /\ ssa' = ssa
  BY DEF Emit
<1> DEFINE exports == selected \intersect prog.declared
           rows == {r \in GenericRows : RowSelected(r)}
           sealed == [ssa |-> ssa,
                      callables |-> {x \in exports : Entry(ssa, x)},
                      entrypoints |-> {r \in rows : Entry(ssa, r[2])},
                      unsupported |-> {x \in exports : ~Entry(ssa, x)} \union {r \in rows : ~Entry(ssa, r[2])},
                      capabilities |-> Capabilities(ssa),
                      bindings |-> Bindings(ssa),
                      lowering_refs |-> (IF scoped THEN {"application-ssa-closure"} ELSE {})
                                        \union UNION {att.copies[x] : x \in ssa.functions}]
<1>3. artifact' = {sealed}
  BY DEF Emit
<1>4. EmissionTypeOK'
  <2>1. exports \subseteq Function /\ rows \subseteq Function \X Function
    BY <1>1, EmissionInput, EmissionProgram DEF GenericRows, EmissionTypeOK
  <2>2. UNION {att.copies[x] : x \in ssa.functions} \subseteq CopyKind
    BY <1>1, EmissionInput DEF SsaType
  <2>3. sealed \in ArtifactType
    BY <1>1, <2>1, <2>2, CodeFacts DEF ArtifactType
  <2>4. QED
    BY <1>1, <1>2, <1>3, <2>3 DEF Emit, EmissionTypeOK
<1>5. EmissionShape'
  BY <1>1, <1>4 DEF EmissionShape
<1>6. SelectionMade'
  BY <1>1, <1>2, SelectionStays
<1>7. EmissionParts'
  BY <1>1 DEF EmissionParts
<1>8. SealedIsRequestedClosure'
  <2>1. scoped => ssa.functions = Reached(prog, Requested) /\ ssa.blocks = ssa.functions
    BY <1>1, SelectedIsRequested DEF CutToTarget, Target
  <2>2. scoped' = scoped /\ prog' = prog /\ Requested' = Requested
    BY <1>2 DEF scoped, prog, Requested
  <2>3. QED
    BY <1>3, <2>1, <2>2 DEF SealedIsRequestedClosure
<1>9. ApplicationIsComplete'
  <2>1. SUFFICES ASSUME request.mode = "application"
                 PROVE  /\ sealed.callables = Requested
                        /\ {r \in request.spelled \intersect prog.specs :
                              r[1] \in request.seeds /\ r[2] \in prog.declared} \subseteq sealed.entrypoints
                        /\ sealed.unsupported = {}
    BY <1>2, <1>3 DEF ApplicationIsComplete, Requested, prog
  <2>2. scoped
    BY <2>1 DEF scoped
  <2>3. /\ selected = Requested /\ selected \subseteq prog.declared /\ selected \subseteq ssa.functions
        /\ prog.specs \subseteq prog.declared \X prog.declared
    BY <1>1, <2>2, SelectedIsRequested, TargetCalls DEF CutToTarget, Accepted, ValidProgram
  <2>4. \A x \in exports : Entry(ssa, x)
    BY <2>3 DEF Entry
  <2>5. ASSUME NEW r \in prog.specs, r[1] \in request.seeds, r[2] \in prog.declared
        PROVE  Entry(ssa, r[2]) /\ r[1] \in prog.declared
    BY <2>1, <2>3, <2>5 DEF Entry, Requested
  <2>6. \A r \in rows : Entry(ssa, r[2])
    BY <2>1, <2>5 DEF GenericRows, RowSelected
  <2>7. \A r \in request.spelled \intersect prog.specs :
            r[1] \in request.seeds /\ r[2] \in prog.declared => r \in rows
    BY <2>1, <2>5 DEF GenericRows, RowSelected
  <2>8. QED
    BY <2>3, <2>4, <2>6, <2>7
<1>10. EvidenceTravels'
  BY <1>1, <1>2, <1>3 DEF EvidenceTravels, EvidenceKept, RestsOn, CutToTarget, scoped
<1>11. CapabilitiesAreBound'
  <2>1. Code(ssa)' = Code(ssa)
    BY <1>2 DEF Code
  <2>2. QED
    BY <1>2, <1>3, <2>1, BindingFacts DEF CapabilitiesAreBound, Code
<1>12. QED
  BY <1>1, <1>4, <1>5, <1>6, <1>7, <1>8, <1>9, <1>10, <1>11 DEF EmissionInv, EmissionIsSound

\* Every step of the emission keeps the invariant.
LEMMA EmissionPreserved ==
  EmissionInv /\ [EmissionNext]_emissionVars => EmissionInv'
<1> SUFFICES ASSUME EmissionInv, [EmissionNext]_emissionVars
             PROVE  EmissionInv'
  OBVIOUS
<1>1. CASE RefuseNoRoots \/ RefuseProgram \/ CompileFails \/ RefuseProofs \/ RefuseHostCall \/ RefuseFacts
  BY <1>1, EmissionFailsEarly DEF RefuseNoRoots, RefuseProgram, CompileFails, RefuseProofs, RefuseHostCall, RefuseFacts
<1>2. CASE SelectExports \/ StartLowering \/ LoweringDone \/ Compile
  BY <1>2, SelectNext, StartLoweringNext, LoweringDoneNext, CompileNext
<1>3. CASE StartClosure \/ ClosureDone \/ TypesDone \/ Project \/ RefuseProjectedSsa \/ Emit
  BY <1>3, StartClosureNext, ClosureDoneNext, TypesDoneNext, ProjectNext, RefuseProjectedNext, EmitNext
<1>4. ASSUME NEW x \in Function, Lower(x) \/ RefuseLowering(x) \/ Walk(x) \/ RefuseTarget(x)
      PROVE  EmissionInv'
  BY <1>4, LowerNext, WalkNext, RefuseTargetNext, EmissionFailsEarly DEF RefuseLowering
<1>5. ASSUME NEW t \in RecordType, WalkType(t) \/ RefuseType(t)
      PROVE  EmissionInv'
  BY <1>5, WalkTypeNext, EmissionFailsEarly DEF RefuseType
<1>6. ASSUME NEW o \in Obligation, WalkObligation(o)
      PROVE  EmissionInv'
  BY <1>6, WalkObligationNext
<1>7. CASE UNCHANGED emissionVars
  <2>1. /\ request' = request /\ att' = att /\ selected' = selected /\ emission_phase' = emission_phase
        /\ why' = why /\ lowered' = lowered /\ unvisited' = unvisited /\ reachable' = reachable /\ ssa' = ssa
        /\ unselected' = unselected /\ artifact' = artifact
    BY <1>7 DEF emissionVars
  <2>2. prog' = prog /\ scoped' = scoped
    BY <2>1 DEF prog, scoped
  <2>3. EmissionShape' /\ SelectionMade'
    BY <2>1, <2>2 DEF EmissionInv, EmissionShape, EmissionTypeOK, SelectionMade
  <2>4. EmissionParts'
    BY <2>1, <2>2, TargetStays DEF EmissionInv, EmissionParts, SourceWalk, Executable, Delivered, SsaWalk,
       CutToTarget, TypeWalk, TypesKept, ObligationWalk, RestsOn, EvidenceKept
  <2>5. EmissionIsSound'
    <3>1. EmissionTypeOK' = EmissionTypeOK /\ SealedIsRequestedClosure' = SealedIsRequestedClosure
      BY <2>1, <2>2 DEF EmissionTypeOK, SealedIsRequestedClosure, Requested
    <3>2. ApplicationIsComplete' = ApplicationIsComplete /\ EvidenceTravels' = EvidenceTravels
      BY <2>1, <2>2 DEF ApplicationIsComplete, Requested, EvidenceTravels
    <3>3. CapabilitiesAreBound' = CapabilitiesAreBound /\ AcceptedRequestsFailInCompiler' = AcceptedRequestsFailInCompiler
      BY <2>1, <2>2 DEF CapabilitiesAreBound, Code, AcceptedRequestsFailInCompiler
    <3>4. QED
      BY <2>1, <3>1, <3>2, <3>3 DEF EmissionInv, EmissionIsSound
  <2>6. QED
    BY <2>3, <2>4, <2>5 DEF EmissionInv
<1>8. QED
  BY <1>1, <1>2, <1>3, <1>4, <1>5, <1>6, <1>7 DEF EmissionNext

\* The type invariant of the emission: no step of emit_vm_artifact_scoped puts
\* anything but functions, types and obligations of the input into its result.
THEOREM EmissionTypeCorrect ==
  EmissionSpec => []EmissionTypeOK
<1>1. EmissionInv => EmissionTypeOK
  BY DEF EmissionInv, EmissionShape
<1>2. QED
  BY <1>1, EmissionInitially, EmissionPreserved, PTL DEF EmissionSpec

\* What is sealed is what was requested, complete, with its evidence and its
\* bindings; and a request the source walk of application_lowering_program let
\* pass fails to find a target or to validate only for what the compiler
\* delivered: for every request, Program and loss.
THEOREM EmissionSound ==
  EmissionSpec => []EmissionIsSound
<1>1. EmissionInv => EmissionIsSound
  BY DEF EmissionInv
<1>2. QED
  BY <1>1, EmissionInitially, EmissionPreserved, PTL DEF EmissionSpec

----------------------------------------------------------------------------
(***************************************************************************)
(* The table of a frozen artifact.                                         *)
(***************************************************************************)

\* A nonempty set of naturals has a least element, and a greatest below a bound.
LEMMA LeastNatural ==
    ASSUME NEW T \in SUBSET Nat, T # {}
    PROVE  \E t \in T : \A u \in T : t <= u
<1> DEFINE R == {ss \in Nat \X Nat : ss[1] < ss[2]}
<1>1. IsWellFoundedOn(R, Nat)
  BY NatLessThanWellFounded, Zenon DEF OpToRel
<1>2. \E x \in T : \A y \in T : ~(<< y, x >> \in R)
  <2> HIDE DEF R
  <2> QED
    BY <1>1, WFMin
<1>3. PICK x \in T : \A y \in T : ~(<< y, x >> \in R)
  BY <1>2
<1>4. \A y \in T : ~(y < x)
  BY <1>3
<1> QED
  BY <1>4

LEMMA GreatestNatural ==
    ASSUME NEW T \in SUBSET Nat, T # {}, NEW b \in Nat, \A t \in T : t <= b
    PROVE  \E t \in T : \A u \in T : u <= t
<1> DEFINE D == {b - t : t \in T}
<1>1. D \in SUBSET Nat /\ D # {}
  <2>1. \A t \in T : t \in Nat /\ b - t \in Nat
    OBVIOUS
  <2> QED
    BY <2>1
<1>2. PICK d \in D : \A e \in D : d <= e
  <2> HIDE DEF D
  <2> QED
    BY <1>1, LeastNatural
<1>3. PICK t \in T : d = b - t
  BY <1>2
<1>4. \A u \in T : b - t <= b - u
  BY <1>2, <1>3
<1> QED
  BY <1>4

\* The partial sums of weights exist and are unique.
Sums(weights, g) == g = [k \in 0 .. Len(weights) |-> IF k = 0 THEN 1 ELSE g[k - 1] + weights[k]]

LEMMA SumsExist ==
    ASSUME NEW w \in Seq(Nat)
    PROVE  \E g \in [0 .. Len(w) -> Nat] : Sums(w, g)
<1> DEFINE Ok(m, g) == g[0] = 1 /\ \A k \in 1 .. m : g[k] = g[k - 1] + w[k]
           Has(m) == \E g \in [0 .. m -> Nat] : Ok(m, g)
<1>0. PICK L \in Nat : L = Len(w) /\ \A k \in 1 .. L : w[k] \in Nat
  OBVIOUS
<1>1. Has(0)
  <2>1. [k \in 0 .. 0 |-> 1] \in [0 .. 0 -> Nat] /\ Ok(0, [k \in 0 .. 0 |-> 1])
    OBVIOUS
  <2> QED
    BY <2>1
<1>2. ASSUME NEW m \in 1 .. L, Has(m - 1)
      PROVE  Has(m)
  <2>1. PICK g \in [0 .. m - 1 -> Nat] : Ok(m - 1, g)
    BY <1>2
  <2>2. PICK v \in Nat : v = g[m - 1] + w[m]
    BY <1>0
  <2> DEFINE h == [k \in 0 .. m |-> IF k = m THEN v ELSE g[k]]
  <2>3. h \in [0 .. m -> Nat]
    BY <2>1, <2>2
  <2>4. h[0] = 1
    BY <2>1
  <2>5. ASSUME NEW k \in 1 .. m PROVE h[k] = h[k - 1] + w[k]
    <3>1. h[k - 1] = g[k - 1]
      OBVIOUS
    <3>2. k # m => k \in 1 .. m - 1 /\ g[k] = g[k - 1] + w[k] /\ h[k] = g[k]
      BY <2>1
    <3> QED
      BY <3>1, <3>2, <2>2
  <2> QED
    BY <2>3, <2>4, <2>5
<1> DEFINE Failing == {m \in 0 .. L : ~Has(m)}
<1> HIDE DEF Has
<1>3. Failing = {}
  <2> SUFFICES ASSUME Failing # {} PROVE FALSE
    OBVIOUS
  <2>1. PICK m \in Failing : \A u \in Failing : m <= u
    <3> Failing \in SUBSET Nat
      OBVIOUS
    <3> HIDE DEF Failing
    <3> QED
      BY LeastNatural
  <2> QED
    BY <1>1, <1>2, <2>1
<1>4. Has(L)
  BY <1>3
<1>5. PICK g \in [0 .. L -> Nat] : Ok(L, g)
  BY <1>4 DEF Has
<1>6. \A k \in 0 .. L : g[k] = IF k = 0 THEN 1 ELSE g[k - 1] + w[k]
  BY <1>5
<1>7. g = [k \in 0 .. L |-> IF k = 0 THEN 1 ELSE g[k - 1] + w[k]]
  BY <1>5, <1>6
<1> QED
  BY <1>0, <1>5, <1>7 DEF Sums

LEMMA SumsUnique ==
    ASSUME NEW w \in Seq(Nat), NEW g, NEW h \in [0 .. Len(w) -> Nat], Sums(w, g), Sums(w, h)
    PROVE  g = h
<1> DEFINE Failing == {k \in 0 .. Len(w) : g[k] # h[k]}
<1>1. Failing = {}
  <2> SUFFICES ASSUME Failing # {} PROVE FALSE
    OBVIOUS
  <2>1. PICK m \in Failing : \A u \in Failing : m <= u
    <3> Failing \in SUBSET Nat
      OBVIOUS
    <3> HIDE DEF Failing
    <3> QED
      BY LeastNatural
  <2>2. m # 0
    BY <2>1 DEF Sums
  <2>3. m - 1 \in 0 .. Len(w) /\ m - 1 \notin Failing
    BY <2>1, <2>2
  <2>4. g[m] = g[m - 1] + w[m] /\ h[m] = h[m - 1] + w[m]
    BY <2>1, <2>2 DEF Sums
  <2> QED
    BY <2>1, <2>3, <2>4
<1>2. DOMAIN g = 0 .. Len(w)
  BY DEF Sums
<1> QED
  BY <1>1, <1>2 DEF Sums

\* So that Total is the last of them.
LEMMA TotalIs ==
    ASSUME NEW w \in Seq(Nat), NEW g \in [0 .. Len(w) -> Nat], Sums(w, g)
    PROVE  Total(w) = g[Len(w)] /\ Total(w) \in Nat
<1> DEFINE G == CHOOSE h : h = [k \in 0 .. Len(w) |-> IF k = 0 THEN 1 ELSE h[k - 1] + w[k]]
<1>1. Sums(w, G)
  <2>1. \E h : h = [k \in 0 .. Len(w) |-> IF k = 0 THEN 1 ELSE h[k - 1] + w[k]]
    BY DEF Sums
  <2> QED
    BY <2>1 DEF Sums
<1>2. G = g
  <2> HIDE DEF G
  <2> QED
    BY <1>1, SumsUnique
<1>3. Total(w) = G[Len(w)]
  BY DEF Total
<1>4. PICK L \in Nat : L = Len(w)
  OBVIOUS
<1> HIDE DEF G
<1> QED
  BY <1>2, <1>3, <1>4

LEMMA TotalType ==
    ASSUME NEW w \in Seq(Nat)
    PROVE  Total(w) \in Nat
BY SumsExist, TotalIs

\* The highest of finitely many weights.
LEMMA HighestIs ==
    ASSUME NEW w \in Seq(Nat)
    PROVE  /\ Max({0} \union Ids(w)) \in {0} \union Ids(w)
           /\ Max({0} \union Ids(w)) \in Nat
           /\ \A k \in DOMAIN w : w[k] <= Max({0} \union Ids(w))
<1> DEFINE Upto(m) == {0} \union {w[k] : k \in 1 .. m}
           Has(m) == \E x \in Upto(m) : \A y \in Upto(m) : x >= y
<1>0. PICK L \in Nat : L = Len(w) /\ DOMAIN w = 1 .. L /\ \A k \in 1 .. L : w[k] \in Nat
  OBVIOUS
<1>1. Has(0)
  OBVIOUS
<1>2. ASSUME NEW m \in 1 .. L, Has(m - 1)
      PROVE  Has(m)
  <2>1. PICK x \in Upto(m - 1) : \A y \in Upto(m - 1) : x >= y
    BY <1>2
  <2>2. Upto(m) = Upto(m - 1) \union {w[m]}
    OBVIOUS
  <2>3. \A y \in Upto(m) : y \in Nat
    BY <1>0
  <2>4. w[m] \in Nat /\ x \in Nat
    BY <1>0, <2>1, <2>2, <2>3
  <2> HIDE DEF Upto
  <2>5. CASE x >= w[m]
    BY <2>1, <2>2, <2>5
  <2>6. CASE w[m] > x
    <3>1. \A y \in Upto(m) : w[m] >= y
      BY <2>1, <2>2, <2>3, <2>4, <2>6
    <3> QED
      BY <2>2, <3>1
  <2> QED
    BY <2>4, <2>5, <2>6
<1> DEFINE Failing == {m \in 0 .. L : ~Has(m)}
<1> HIDE DEF Has
<1>3. Failing = {}
  <2> SUFFICES ASSUME Failing # {} PROVE FALSE
    OBVIOUS
  <2>1. PICK m \in Failing : \A u \in Failing : m <= u
    <3> Failing \in SUBSET Nat
      OBVIOUS
    <3> HIDE DEF Failing
    <3> QED
      BY LeastNatural
  <2> QED
    BY <1>1, <1>2, <2>1
<1>4. Has(L)
  BY <1>3
<1>5. Upto(L) = {0} \union Ids(w)
  BY <1>0 DEF Ids
<1>6. \E x \in {0} \union Ids(w) : \A y \in {0} \union Ids(w) : x >= y
  BY <1>4, <1>5 DEF Has
<1>7. /\ Max({0} \union Ids(w)) \in {0} \union Ids(w)
      /\ \A y \in {0} \union Ids(w) : Max({0} \union Ids(w)) >= y
  BY <1>6, Zenon DEF Max
<1>8. \A k \in DOMAIN w : w[k] \in Ids(w)
  BY DEF Ids
<1>9. {0} \union Ids(w) \subseteq Nat
  BY <1>0 DEF Ids
<1> QED
  BY <1>7, <1>8, <1>9

\* A function at the references of a node.
Compose(f, s) == [k \in DOMAIN s |-> f[s[k]]]

\* The references of a node of a table.
LEMMA RefsTyped ==
    ASSUME NEW ns \in Seq(NodeType), NEW n \in DOMAIN ns
    PROVE  ns[n] \in NodeType /\ ns[n].refs \in Seq(Nat \ {0}) /\ n \in Nat
BY DEF NodeType

LEMMA RefsBackward ==
    ASSUME NEW ns \in Seq(NodeType), Backward(ns), NEW n \in DOMAIN ns, NEW k \in DOMAIN ns[n].refs
    PROVE  ns[n].refs[k] \in 1 .. n - 1
<1>1. ns[n].refs[k] < n
  BY DEF Backward, Ids
<1>2. ns[n].refs[k] \in Nat \ {0}
  BY RefsTyped
<1> QED
  BY <1>1, <1>2, RefsTyped

\* What is defined from the references of a node is defined.
Rules(V) == [Nat -> [Seq(V) -> V]]
Solves(ns, V, H, f) == f \in [DOMAIN ns -> V] /\ \A n \in DOMAIN ns : f[n] = H[n][Compose(f, ns[n].refs)]

LEMMA Recursion ==
    ASSUME NEW ns \in Seq(NodeType), Backward(ns), NEW V, NEW H \in Rules(V)
    PROVE  \E f : Solves(ns, V, H, f)
<1> DEFINE Ok(m, f) == \A n \in 1 .. m : f[n] = H[n][Compose(f, ns[n].refs)]
           Has(m) == \E f \in [1 .. m -> V] : Ok(m, f)
<1>0. PICK L \in Nat : L = Len(ns) /\ DOMAIN ns = 1 .. L
  OBVIOUS
<1>1. Has(0)
  <2>1. [k \in 1 .. 0 |-> H[0][<< >>]] \in [1 .. 0 -> V]
    BY DEF Rules
  <2>2. Ok(0, [k \in 1 .. 0 |-> H[0][<< >>]])
    OBVIOUS
  <2> QED
    BY <2>1, <2>2
<1>2. ASSUME NEW m \in 1 .. L, Has(m - 1)
      PROVE  Has(m)
  <2>1. PICK f \in [1 .. m - 1 -> V] : Ok(m - 1, f)
    BY <1>2
  <2>2. ASSUME NEW n \in 1 .. m, NEW g \in [1 .. m -> V], \A j \in 1 .. m - 1 : g[j] = f[j]
        PROVE  Compose(g, ns[n].refs) = Compose(f, ns[n].refs)
    <3>1. \A k \in DOMAIN ns[n].refs : ns[n].refs[k] \in 1 .. m - 1
      <4>1. n \in DOMAIN ns /\ 1 .. n - 1 \subseteq 1 .. m - 1
        BY <1>0
      <4> QED
        BY <4>1, RefsBackward
    <3> QED
      BY <2>2, <3>1 DEF Compose
  <2>3. ASSUME NEW n \in 1 .. m PROVE Compose(f, ns[n].refs) \in Seq(V)
    <3>1. \A k \in DOMAIN ns[n].refs : ns[n].refs[k] \in 1 .. m - 1
      <4>1. n \in DOMAIN ns /\ 1 .. n - 1 \subseteq 1 .. m - 1
        BY <1>0
      <4> QED
        BY <4>1, RefsBackward
    <3>2. ns[n].refs \in Seq(Nat \ {0})
      BY <1>0, RefsTyped
    <3>3. PICK l \in Nat : DOMAIN ns[n].refs = 1 .. l
      BY <3>2
    <3>4. Compose(f, ns[n].refs) \in [1 .. l -> V]
      BY <2>1, <3>1, <3>3 DEF Compose
    <3> QED
      BY <3>4
  <2>4. PICK v \in V : v = H[m][Compose(f, ns[m].refs)]
    BY <2>3 DEF Rules
  <2> DEFINE h == [k \in 1 .. m |-> IF k = m THEN v ELSE f[k]]
  <2>5. h \in [1 .. m -> V]
    BY <2>1, <2>4
  <2>6. \A j \in 1 .. m - 1 : h[j] = f[j]
    OBVIOUS
  <2>7. h[m] = v
    OBVIOUS
  <2> HIDE DEF h
  <2>8. ASSUME NEW n \in 1 .. m PROVE h[n] = H[n][Compose(h, ns[n].refs)]
    <3>1. Compose(h, ns[n].refs) = Compose(f, ns[n].refs)
      BY <2>2, <2>5, <2>6
    <3>2. CASE n = m
      BY <2>4, <2>7, <3>1, <3>2
    <3>3. CASE n # m
      <4>1. n \in 1 .. m - 1
        BY <3>3
      <4> QED
        BY <2>1, <2>6, <3>1, <4>1
    <3> QED
      BY <3>2, <3>3
  <2> QED
    BY <2>5, <2>8
<1> DEFINE Failing == {m \in 0 .. L : ~Has(m)}
<1> HIDE DEF Has
<1>3. Failing = {}
  <2> SUFFICES ASSUME Failing # {} PROVE FALSE
    OBVIOUS
  <2>1. PICK m \in Failing : \A u \in Failing : m <= u
    <3> Failing \in SUBSET Nat
      OBVIOUS
    <3> HIDE DEF Failing
    <3> QED
      BY LeastNatural
  <2> QED
    BY <1>1, <1>2, <2>1
<1>4. Has(L)
  <2> L \in 0 .. L
    OBVIOUS
  <2> HIDE DEF Failing
  <2> L \notin Failing
    BY <1>3
  <2> QED
    BY DEF Failing
<1> QED
  BY <1>0, <1>4 DEF Has, Solves

\* And there is one such function.
LEMMA RecursionUnique ==
    ASSUME NEW ns \in Seq(NodeType), NEW b \in 0 .. Len(ns), NEW f, NEW g,
           \A n \in 1 .. b : \A r \in Ids(ns[n].refs) : r < n,
           \A n \in 1 .. b : Compose(f, ns[n].refs) = Compose(g, ns[n].refs) => f[n] = g[n]
    PROVE  \A n \in 1 .. b : f[n] = g[n]
<1> DEFINE Failing == {n \in 1 .. b : f[n] # g[n]}
<1>0. b \in Nat /\ 1 .. b \subseteq DOMAIN ns
  OBVIOUS
<1> SUFFICES ASSUME Failing # {} PROVE FALSE
  OBVIOUS
<1>1. PICK m \in Failing : \A u \in Failing : m <= u
  <2> Failing \in SUBSET Nat
    BY <1>0
  <2> HIDE DEF Failing
  <2> QED
    BY LeastNatural
<1>2. ns[m].refs \in Seq(Nat \ {0}) /\ m \in 1 .. b
  BY <1>0, <1>1, RefsTyped
<1>3. \A k \in DOMAIN ns[m].refs : ns[m].refs[k] \in 1 .. m - 1
  <2> SUFFICES ASSUME NEW k \in DOMAIN ns[m].refs PROVE ns[m].refs[k] \in 1 .. m - 1
    OBVIOUS
  <2>1. ns[m].refs[k] \in Nat \ {0}
    BY <1>2
  <2>2. ns[m].refs[k] \in Ids(ns[m].refs)
    BY DEF Ids
  <2>3. ns[m].refs[k] < m
    BY <1>2, <2>2
  <2> QED
    BY <1>0, <1>2, <2>1, <2>3
<1>4. \A k \in DOMAIN ns[m].refs : f[ns[m].refs[k]] = g[ns[m].refs[k]]
  BY <1>0, <1>1, <1>2, <1>3
<1>5. Compose(f, ns[m].refs) = Compose(g, ns[m].refs)
  BY <1>4 DEF Compose
<1> QED
  BY <1>1, <1>5

LEMMA ComposeTyped ==
    ASSUME NEW ns \in Seq(NodeType), Backward(ns), NEW V, NEW f \in [DOMAIN ns -> V], NEW n \in DOMAIN ns
    PROVE  n \in Nat /\ Compose(f, ns[n].refs) \in Seq(V)
<1>1. ns[n].refs \in Seq(Nat \ {0}) /\ n \in Nat
  BY RefsTyped
<1>2. PICK l \in Nat : DOMAIN ns[n].refs = 1 .. l
  BY <1>1
<1>3. \A k \in DOMAIN ns[n].refs : ns[n].refs[k] \in DOMAIN ns
  <2>1. PICK L \in Nat : DOMAIN ns = 1 .. L
    OBVIOUS
  <2>2. 1 .. n - 1 \subseteq 1 .. L
    BY <2>1
  <2> QED
    BY <2>1, <2>2, RefsBackward
<1>4. Compose(f, ns[n].refs) \in [1 .. l -> V]
  BY <1>2, <1>3 DEF Compose
<1>5. Compose(f, ns[n].refs) \in Seq(V)
  BY <1>4
<1> QED
  BY <1>1, <1>5

\* What nodes expand to is given by their references.
LEMMA ExpandedIs ==
    ASSUME nodes \in Seq(NodeType), Backward(nodes)
    PROVE  /\ Expanded \in [DOMAIN nodes -> Nat]
           /\ \A n \in DOMAIN nodes : Expanded[n] = Total(Compose(Expanded, nodes[n].refs))
<1> DEFINE H == [c \in Nat |-> [s \in Seq(Nat) |-> Total(s)]]
<1>1. H \in Rules(Nat)
  BY TotalType DEF Rules
<1>2. PICK f : Solves(nodes, Nat, H, f)
  <2> HIDE DEF H
  <2> QED
    BY <1>1, Recursion
<1>3. ASSUME NEW n \in DOMAIN nodes
      PROVE  f[n] = Total(Compose(f, nodes[n].refs))
  <2>1. n \in Nat /\ Compose(f, nodes[n].refs) \in Seq(Nat)
    BY <1>2, ComposeTyped DEF Solves
  <2> QED
    BY <1>2, <2>1 DEF Solves
<1>9. f \in [DOMAIN nodes -> Nat]
  BY <1>2 DEF Solves
<1>4. f = [n \in DOMAIN nodes |-> Total([k \in DOMAIN nodes[n].refs |-> f[nodes[n].refs[k]]])]
  BY <1>9, <1>3 DEF Compose
<1>5. Expanded = [n \in DOMAIN nodes |-> Total([k \in DOMAIN nodes[n].refs |-> Expanded[nodes[n].refs[k]]])]
  <2> DEFINE E == CHOOSE g : g = [n \in DOMAIN nodes |-> Total([k \in DOMAIN nodes[n].refs |-> g[nodes[n].refs[k]]])]
  <2>1. E = [n \in DOMAIN nodes |-> Total([k \in DOMAIN nodes[n].refs |-> E[nodes[n].refs[k]]])]
    BY <1>4, Zenon
  <2>2. Expanded = E
    BY DEF Expanded
  <2> HIDE DEF E
  <2> QED
    BY <2>1, <2>2
<1>6. \A n \in DOMAIN nodes : Expanded[n] = Total(Compose(Expanded, nodes[n].refs))
  BY <1>5 DEF Compose
<1>7. \A n \in DOMAIN nodes : Compose(Expanded, nodes[n].refs) = Compose(f, nodes[n].refs) => Expanded[n] = f[n]
  BY <1>3, <1>6
<1>8. \A n \in DOMAIN nodes : Expanded[n] = f[n]
  <2>1. PICK b \in 0 .. Len(nodes) : DOMAIN nodes = 1 .. b
    OBVIOUS
  <2>2. \A n \in 1 .. b : \A r \in Ids(nodes[n].refs) : r < n
    BY <2>1 DEF Backward
  <2>3. \A n \in 1 .. b : Compose(Expanded, nodes[n].refs) = Compose(f, nodes[n].refs) => Expanded[n] = f[n]
    BY <1>7, <2>1
  <2>4. \A n \in 1 .. b : Expanded[n] = f[n]
    BY <2>2, <2>3, RecursionUnique
  <2> QED
    BY <2>1, <2>4
<1> QED
  BY <1>9, <1>5, <1>6, <1>8

LEMMA LevelsIs ==
    ASSUME nodes \in Seq(NodeType), Backward(nodes)
    PROVE  /\ Levels \in [DOMAIN nodes -> Nat]
           /\ \A n \in DOMAIN nodes : Levels[n] = 1 + Max({0} \union Ids(Compose(Levels, nodes[n].refs)))
<1> DEFINE H == [c \in Nat |-> [s \in Seq(Nat) |-> 1 + Max({0} \union Ids(s))]]
<1>1. H \in Rules(Nat)
  <2>1. \A s \in Seq(Nat) : 1 + Max({0} \union Ids(s)) \in Nat
    <3> SUFFICES ASSUME NEW s \in Seq(Nat) PROVE 1 + Max({0} \union Ids(s)) \in Nat
      OBVIOUS
    <3>1. Max({0} \union Ids(s)) \in Nat
      BY HighestIs
    <3> QED
      BY <3>1
  <2> QED
    BY <2>1 DEF Rules
<1>2. PICK f : Solves(nodes, Nat, H, f)
  <2> HIDE DEF H
  <2> QED
    BY <1>1, Recursion
<1>3. ASSUME NEW n \in DOMAIN nodes
      PROVE  f[n] = 1 + Max({0} \union Ids(Compose(f, nodes[n].refs)))
  <2>1. n \in Nat /\ Compose(f, nodes[n].refs) \in Seq(Nat)
    BY <1>2, ComposeTyped DEF Solves
  <2> QED
    BY <1>2, <2>1 DEF Solves
<1>0. \A g, n : {g[r] : r \in Ids(nodes[n].refs)} = Ids(Compose(g, nodes[n].refs))
  BY DEF Ids, Compose
<1>9. f \in [DOMAIN nodes -> Nat]
  BY <1>2 DEF Solves
<1>4. f = [n \in DOMAIN nodes |-> 1 + Max({0} \union {f[r] : r \in Ids(nodes[n].refs)})]
  BY <1>9, <1>0, <1>3
<1>5. Levels = [n \in DOMAIN nodes |-> 1 + Max({0} \union {Levels[r] : r \in Ids(nodes[n].refs)})]
  <2> DEFINE E == CHOOSE g : g = [n \in DOMAIN nodes |-> 1 + Max({0} \union {g[r] : r \in Ids(nodes[n].refs)})]
  <2>1. E = [n \in DOMAIN nodes |-> 1 + Max({0} \union {E[r] : r \in Ids(nodes[n].refs)})]
    BY <1>4, Zenon
  <2>2. Levels = E
    BY DEF Levels
  <2> HIDE DEF E
  <2> QED
    BY <2>1, <2>2
<1>6. \A n \in DOMAIN nodes : Levels[n] = 1 + Max({0} \union Ids(Compose(Levels, nodes[n].refs)))
  BY <1>0, <1>5
<1>7. \A n \in DOMAIN nodes : Compose(Levels, nodes[n].refs) = Compose(f, nodes[n].refs) => Levels[n] = f[n]
  BY <1>3, <1>6
<1>8. \A n \in DOMAIN nodes : Levels[n] = f[n]
  <2>1. PICK b \in 0 .. Len(nodes) : DOMAIN nodes = 1 .. b
    OBVIOUS
  <2>2. \A n \in 1 .. b : \A r \in Ids(nodes[n].refs) : r < n
    BY <2>1 DEF Backward
  <2>3. \A n \in 1 .. b : Compose(Levels, nodes[n].refs) = Compose(f, nodes[n].refs) => Levels[n] = f[n]
    BY <1>7, <2>1
  <2>4. \A n \in 1 .. b : Levels[n] = f[n]
    BY <2>2, <2>3, RecursionUnique
  <2> QED
    BY <2>1, <2>4
<1> QED
  BY <1>9, <1>5, <1>6, <1>8

\* The entries below a node, with those below its references.
LEMMA BelowIs ==
    ASSUME nodes \in Seq(NodeType), Backward(nodes)
    PROVE  /\ Below \in [DOMAIN nodes -> SUBSET (DOMAIN nodes)]
           /\ \A n \in DOMAIN nodes : Below[n] = {n} \union UNION Ids(Compose(Below, nodes[n].refs))
<1> DEFINE V == SUBSET (DOMAIN nodes)
           H == [c \in Nat |-> [s \in Seq(V) |-> ({c} \intersect DOMAIN nodes) \union UNION Ids(s)]]
<1>1. H \in Rules(V)
  <2>1. ASSUME NEW s \in Seq(V) PROVE UNION Ids(s) \subseteq DOMAIN nodes
    BY DEF Ids
  <2> QED
    BY <2>1 DEF Rules
<1>2. PICK f : Solves(nodes, V, H, f)
  <2> HIDE DEF H, V
  <2> QED
    BY <1>1, Recursion
<1>3. ASSUME NEW n \in DOMAIN nodes
      PROVE  f[n] = {n} \union UNION Ids(Compose(f, nodes[n].refs))
  <2>1. n \in Nat /\ Compose(f, nodes[n].refs) \in Seq(V)
    <3> HIDE DEF V
    <3> QED
      BY <1>2, ComposeTyped DEF Solves
  <2>2. H[n][Compose(f, nodes[n].refs)] = ({n} \intersect DOMAIN nodes) \union UNION Ids(Compose(f, nodes[n].refs))
    <3> HIDE DEF V
    <3> QED
      BY <2>1
  <2> QED
    BY <1>2, <2>2 DEF Solves
<1>0. \A g, n : {g[r] : r \in Ids(nodes[n].refs)} = Ids(Compose(g, nodes[n].refs))
  BY DEF Ids, Compose
<1>9. f \in [DOMAIN nodes -> V]
  BY <1>2 DEF Solves
<1>4. f = [n \in DOMAIN nodes |-> {n} \union UNION {f[r] : r \in Ids(nodes[n].refs)}]
  BY <1>9, <1>0, <1>3
<1>5. Below = [n \in DOMAIN nodes |-> {n} \union UNION {Below[r] : r \in Ids(nodes[n].refs)}]
  <2> DEFINE F(g) == [n \in DOMAIN nodes |-> {n} \union UNION {g[r] : r \in Ids(nodes[n].refs)}]
             E == CHOOSE g : g = F(g)
  <2>1. E = F(E)
    BY <1>4, Zenon
  <2>2. Below = E
    BY DEF Below
  <2>3. Below = F(Below)
    <3> HIDE DEF E, F
    <3> QED
      BY <2>1, <2>2
  <2> QED
    BY <2>3
<1>6. \A n \in DOMAIN nodes : Below[n] = {n} \union UNION Ids(Compose(Below, nodes[n].refs))
  BY <1>0, <1>5
<1>7. \A n \in DOMAIN nodes : Compose(Below, nodes[n].refs) = Compose(f, nodes[n].refs) => Below[n] = f[n]
  BY <1>3, <1>6
<1>8. \A n \in DOMAIN nodes : Below[n] = f[n]
  <2>1. PICK b \in 0 .. Len(nodes) : DOMAIN nodes = 1 .. b
    OBVIOUS
  <2>2. \A n \in 1 .. b : \A r \in Ids(nodes[n].refs) : r < n
    BY <2>1 DEF Backward
  <2>3. \A n \in 1 .. b : Compose(Below, nodes[n].refs) = Compose(f, nodes[n].refs) => Below[n] = f[n]
    BY <1>7, <2>1
  <2>4. \A n \in 1 .. b : Below[n] = f[n]
    BY <2>2, <2>3, RecursionUnique
  <2> QED
    BY <2>1, <2>4
<1> QED
  BY <1>9, <1>5, <1>6, <1>8

----------------------------------------------------------------------------
(* The invariant, stage by stage. *)

Frame == [id : DOMAIN nodes, slot : Nat \ {0}]
Numbered(n) == mapped[n] \notin {Visiting, Unvisited}
RefsOf(j) == nodes[frames[j].id].refs

VisitTyped ==
    /\ Interned(nodes, root) /\ built = nodes /\ Len(nodes) < MaxU32 - 1
    /\ mapped \in [DOMAIN nodes -> (1 .. Len(nodes)) \union {Visiting, Unvisited}]
    /\ next \in 1 .. Len(nodes) + 1
    /\ frames \in Seq(Frame)

\* The calls of visit go down the table; what they have seen is numbered, but
\* for the reference the next call is about.
FramesInv ==
    /\ \A j \in DOMAIN frames : mapped[frames[j].id] = Visiting
    /\ \A n \in DOMAIN nodes : mapped[n] = Visiting => \E j \in DOMAIN frames : frames[j].id = n
    /\ \A j, l \in DOMAIN frames : j < l => frames[l].id < frames[j].id
    /\ \A j \in DOMAIN frames : \A k \in DOMAIN RefsOf(j) :
          k < frames[j].slot => Numbered(RefsOf(j)[k]) \/ (j < Len(frames) /\ RefsOf(j)[k] = frames[j + 1].id)
    /\ frames # <<>> => frames[1].id = root
    /\ frames = <<>> => Numbered(root) /\ mapped[root] = next - 1

\* Numbers are given once each, in ascending order, to a node after its
\* references.
NumbersInv ==
    /\ \A n \in DOMAIN nodes : Numbered(n) => mapped[n] \in 1 .. next - 1
    /\ \A m, n \in DOMAIN nodes : Numbered(m) /\ mapped[m] = mapped[n] => m = n
    /\ \A v \in 1 .. next - 1 : \E n \in DOMAIN nodes : mapped[n] = v
    /\ \A n \in DOMAIN nodes : Numbered(n) =>
          \A r \in Ids(nodes[n].refs) : Numbered(r) /\ mapped[r] < mapped[n]

VisitInv == VisitTyped /\ FramesInv /\ NumbersInv

\* The numbers of a table: a permutation that keeps references backward.
Numbering(ns, map) ==
    /\ map \in [DOMAIN ns -> DOMAIN ns]
    /\ \A m, n \in DOMAIN ns : map[m] = map[n] => m = n
    /\ \A v \in DOMAIN ns : \E n \in DOMAIN ns : map[n] = v
    /\ \A n \in DOMAIN ns : \A r \in Ids(ns[n].refs) : map[r] < map[n]

NumberedInv ==
    /\ built \in Seq(NodeType) /\ Len(nodes) = Len(built) /\ Len(nodes) < MaxU32 - 1
    /\ \E r \in DOMAIN built : Interned(built, r) /\ numbers[r] = Len(nodes)
    /\ root = Len(nodes)
    /\ Numbering(built, numbers)
    /\ mapped \in [DOMAIN built -> Nat]
    /\ \A n \in DOMAIN built : mapped[n] \in {numbers[n], Consumed}

Moved(n) == Renumbered(built[n], numbers)

\* Between two cycles the consumed positions are whole cycles.
RotateInv ==
    /\ index \in 1 .. Len(nodes) + 1
    /\ \A n \in DOMAIN built :
          /\ n < index => mapped[n] = Consumed
          /\ mapped[n] = Consumed => nodes[numbers[n]] = Moved(n)
          /\ mapped[n] # Consumed => nodes[n] = Moved(n)
          /\ mapped[n] = Consumed <=> mapped[numbers[n]] = Consumed

\* Within a cycle the node of the current position is in the hand, and the
\* consumed positions run from the start of the cycle to it.
SwapInv ==
    /\ index \in DOMAIN built /\ current \in DOMAIN built
    /\ mapped[current] # Consumed /\ hand = Moved(current)
    /\ current # index => /\ mapped[index] = Consumed
                          /\ \E n \in DOMAIN built : mapped[n] = Consumed /\ numbers[n] = current
    /\ \A n \in DOMAIN built :
          /\ n < index => mapped[n] = Consumed
          /\ mapped[n] = Consumed => nodes[numbers[n]] = Moved(n)
          /\ mapped[n] # Consumed /\ n # current => nodes[n] = Moved(n)
          /\ mapped[n] = Consumed => mapped[numbers[n]] = Consumed \/ numbers[n] = current
          /\ mapped[numbers[n]] = Consumed => mapped[n] = Consumed \/ numbers[n] = index

\* What was frozen is in order.
FrozenInv == built # <<>> => Interned(nodes, root) /\ root = Len(nodes)

Prefix(s, k) == SubSeq(s, 1, k)
Height(w) == 1 + Max({0} \union Ids(w))

\* The summaries are exact and within the limits.
SummaryInv ==
    /\ sizes \in Seq(Nat) /\ depths \in Seq(Nat) /\ Len(sizes) = Len(depths) /\ Len(sizes) <= Len(nodes)
    /\ \A n \in DOMAIN sizes :
          /\ \A r \in Ids(nodes[n].refs) : r < n
          /\ nodes[n].kind = "O" => KeysInOrder(nodes, nodes[n])
          /\ sizes[n] = Total(Compose(sizes, nodes[n].refs)) /\ sizes[n] <= MaxExpanded
          /\ depths[n] = Height(Compose(depths, nodes[n].refs)) /\ depths[n] <= MaxDepth

\* And so are the ones of the node that is being accounted, up to saturation.
AccountInv ==
    /\ nodes # <<>> /\ root = Len(nodes) /\ reached = {root}
    /\ index \in DOMAIN nodes /\ Len(sizes) = index - 1
    /\ slot \in 1 .. Len(nodes[index].refs) + 1
    /\ LET seen == Prefix(nodes[index].refs, slot - 1)
       IN  /\ \A r \in Ids(seen) : r < index
           /\ size = SaturatingAdd(Total(Compose(sizes, seen)), 0)
           /\ depth = Height(Compose(depths, seen))

ReachInv ==
    /\ root = Len(nodes) /\ Len(sizes) = Len(nodes)
    /\ index \in 2 .. Len(nodes) + 1
    /\ root \in reached
    /\ \A m \in DOMAIN nodes : m >= index => m \in reached /\ Ids(nodes[m].refs) \subseteq reached
    /\ \A n \in reached : n = root \/ \E m \in DOMAIN nodes : m >= index /\ n \in Ids(nodes[m].refs)

AcceptedInv ==
    /\ nodes # <<>> /\ root = Len(nodes) /\ Len(sizes) = Len(nodes)
    /\ Referenced(nodes, root)

Stages == {"encode", "unencodable", "order", "visit", "rotate", "swap", "received", "validate", "reach", "decode",
           "decoded", "refused", "panicked"}

GraphInv ==
    /\ pc \in Stages /\ nodes \in Seq(NodeType) /\ root \in Nat
    /\ pc \in {"encode", "order"} => built = <<>>
    /\ pc = "order" => Interned(nodes, root)
    /\ pc = "visit" => VisitInv
    /\ pc = "rotate" => NumberedInv /\ RotateInv
    /\ pc = "swap" => NumberedInv /\ SwapInv
    /\ pc \in {"received", "validate", "reach"} => FrozenInv
    /\ FrozenIsRenumbered
    /\ pc = "validate" => SummaryInv /\ AccountInv
    /\ pc = "reach" => SummaryInv /\ ReachInv
    /\ pc \in {"decode", "decoded"} => SummaryInv /\ AcceptedInv
    /\ FrozenIsAccepted

LEMMA Marks == Visiting # Unvisited /\ Visiting \in Nat /\ Unvisited \in Nat /\ Consumed = Unvisited
BY LimitsAssumption DEF Visiting, Unvisited, Consumed

\* A table stays too large.
LEMMA TooLargeStays ==
    ASSUME nodes' = nodes
    PROVE  TooLarge' <=> TooLarge
BY DEF TooLarge, Expanded, Levels

\* What the invariant says of the stages.
LEMMA ToVisit ==
    ASSUME pc' = "visit", nodes' \in Seq(NodeType), root' \in Nat, VisitInv'
    PROVE  GraphInv'
BY DEF GraphInv, FrozenIsRenumbered, FrozenIsAccepted, Stages

LEMMA ToRotate ==
    ASSUME pc' = "rotate", nodes' \in Seq(NodeType), root' \in Nat, NumberedInv', RotateInv'
    PROVE  GraphInv'
BY DEF GraphInv, FrozenIsRenumbered, FrozenIsAccepted, Stages

LEMMA ToSwap ==
    ASSUME pc' = "swap", nodes' \in Seq(NodeType), root' \in Nat, NumberedInv', SwapInv'
    PROVE  GraphInv'
BY DEF GraphInv, FrozenIsRenumbered, FrozenIsAccepted, Stages

LEMMA ToReceived ==
    ASSUME pc' = "received", nodes' \in Seq(NodeType), root' \in Nat, FrozenInv', FrozenIsRenumbered'
    PROVE  GraphInv'
BY DEF GraphInv, FrozenIsAccepted, Stages

LEMMA ToValidate ==
    ASSUME pc' = "validate", nodes' \in Seq(NodeType), root' \in Nat, FrozenInv', SummaryInv', AccountInv'
    PROVE  GraphInv'
BY DEF GraphInv, FrozenIsRenumbered, FrozenIsAccepted, Stages

LEMMA ToReach ==
    ASSUME pc' = "reach", nodes' \in Seq(NodeType), root' \in Nat, FrozenInv', SummaryInv', ReachInv'
    PROVE  GraphInv'
BY DEF GraphInv, FrozenIsRenumbered, FrozenIsAccepted, Stages

LEMMA ToDecode ==
    ASSUME pc' \in {"decode", "decoded"}, nodes' \in Seq(NodeType), root' \in Nat, SummaryInv', AcceptedInv'
    PROVE  GraphInv'
BY DEF GraphInv, FrozenIsRenumbered, FrozenIsAccepted, Stages

LEMMA ToRefused ==
    ASSUME pc' = "refused", nodes' \in Seq(NodeType), root' \in Nat, (built # << >> => TooLarge)'
    PROVE  GraphInv'
BY DEF GraphInv, FrozenIsRenumbered, FrozenIsAccepted, Stages

LEMMA ToPanicked ==
    ASSUME pc' = "panicked", nodes' \in Seq(NodeType), root' \in Nat, Len(nodes') >= MaxU32 - 1
    PROVE  GraphInv'
BY DEF GraphInv, FrozenIsRenumbered, FrozenIsAccepted, Stages

LEMMA OrderStep ==
    ASSUME GraphInv, Order
    PROVE  GraphInv'
<1>0. Interned(nodes, root) /\ root \in DOMAIN nodes /\ nodes \in Seq(NodeType) /\ nodes # << >> /\ root \in Nat
  BY DEF GraphInv, Order, Interned
<1>1. CASE Len(nodes) >= MaxU32 - 1
  <2>1. pc' = "panicked" /\ nodes' = nodes /\ root' = root
    BY <1>1 DEF Order
  <2> QED
    BY <1>0, <1>1, <2>1, ToPanicked
<1>2. CASE ~(Len(nodes) >= MaxU32 - 1)
  <2>1. /\ pc' = "visit" /\ nodes' = nodes /\ root' = root /\ built' = nodes /\ next' = 1
        /\ mapped' = [[n \in DOMAIN nodes |-> Unvisited] EXCEPT ![root] = Visiting]
        /\ frames' = << [id |-> root, slot |-> 1] >>
    BY <1>2 DEF Order
  <2>2. /\ mapped' \in [DOMAIN nodes -> {Visiting, Unvisited}]
        /\ mapped'[root] = Visiting
        /\ \A n \in DOMAIN nodes : mapped'[n] = Visiting => n = root
    BY <1>0, <2>1, Marks
  <2>3. /\ DOMAIN frames' = 1 .. 1 /\ Len(frames') = 1 /\ frames'[1].id = root /\ frames'[1].slot = 1
        /\ frames' # << >>
    BY <2>1
  <2>4. VisitTyped'
    <3>1. frames' \in Seq(Frame')
      BY <1>0, <2>1 DEF Frame
    <3>2. Len(nodes) < MaxU32 - 1 /\ next' \in 1 .. Len(nodes') + 1
      BY <1>0, <1>2, <2>1, LimitsAssumption
    <3> QED
      BY <1>0, <2>1, <2>2, <3>1, <3>2 DEF VisitTyped
  <2>5. FramesInv'
    <3> USE <1>0, <2>1, <2>2, <2>3
    <3>1. \A j \in DOMAIN frames' : j = 1
      OBVIOUS
    <3>2. \A j \in DOMAIN frames' : mapped'[frames'[j].id] = Visiting
      BY <3>1
    <3>3. \A n \in DOMAIN nodes' : mapped'[n] = Visiting => \E j \in DOMAIN frames' : frames'[j].id = n
      OBVIOUS
    <3>4. \A j, l \in DOMAIN frames' : j < l => frames'[l].id < frames'[j].id
      OBVIOUS
    <3>5. \A j \in DOMAIN frames' : frames'[j].slot = 1
      BY <3>1
    <3>6. ASSUME NEW j \in DOMAIN frames', NEW k \in DOMAIN RefsOf(j)'
          PROVE  ~(k < frames'[j].slot)
      <4>1. RefsOf(j)' = nodes[root].refs
        BY <3>1 DEF RefsOf
      <4>2. k \in Nat \ {0}
        BY <4>1, RefsTyped
      <4> QED
        BY <3>5, <4>2
    <3> QED
      BY <3>2, <3>3, <3>4, <3>6 DEF FramesInv
  <2>6. NumbersInv'
    <3>1. \A n \in DOMAIN nodes' : ~Numbered(n)'
      BY <2>1, <2>2 DEF Numbered
    <3>2. 1 .. next' - 1 = {}
      BY <2>1
    <3> QED
      BY <3>1, <3>2 DEF NumbersInv
  <2> QED
    BY <1>0, <2>1, <2>4, <2>5, <2>6, ToVisit DEF VisitInv
<1> QED
  BY <1>1, <1>2

\* The references of the innermost call, and where they are.
LEMMA TopTyped ==
    ASSUME GraphInv, pc = "visit", frames # << >>
    PROVE  /\ Len(frames) \in Nat \ {0} /\ DOMAIN frames = 1 .. Len(frames)
           /\ Top.id \in DOMAIN nodes /\ Top.slot \in Nat \ {0} /\ TopRefs \in Seq(Nat \ {0})
           /\ TopRefs = RefsOf(Len(frames))
           /\ \A k \in DOMAIN TopRefs : TopRefs[k] \in DOMAIN nodes /\ TopRefs[k] < Top.id
<1>1. VisitTyped /\ nodes \in Seq(NodeType)
  BY DEF GraphInv, VisitInv
<1>2. frames \in Seq(Frame)
  BY <1>1 DEF VisitTyped
<1>3. Len(frames) \in Nat \ {0} /\ DOMAIN frames = 1 .. Len(frames)
  BY <1>2
<1>4. frames[Len(frames)] \in Frame
  BY <1>2, <1>3
<1>5. Top.id \in DOMAIN nodes /\ Top.slot \in Nat \ {0}
  BY <1>4 DEF Top, Frame
<1>6. TopRefs \in Seq(Nat \ {0})
  BY <1>1, <1>5, RefsTyped DEF TopRefs
<1>7. Backward(nodes)
  BY <1>1 DEF VisitTyped, Interned
<1>8. \A k \in DOMAIN TopRefs : TopRefs[k] \in 1 .. Top.id - 1
  BY <1>1, <1>5, <1>7, RefsBackward DEF TopRefs
<1>9. PICK L \in Nat : DOMAIN nodes = 1 .. L
  BY <1>1
<1>10. 1 .. Top.id - 1 \subseteq DOMAIN nodes /\ Top.id \in Nat
  BY <1>5, <1>9
<1>11. \A k \in DOMAIN TopRefs : TopRefs[k] \in DOMAIN nodes /\ TopRefs[k] < Top.id
  BY <1>8, <1>10
<1> QED
  BY <1>3, <1>5, <1>6, <1>11 DEF TopRefs, RefsOf, Top

\* No call of visit meets a node that is being visited.
LEMMA NoCycle ==
    ASSUME GraphInv, pc = "visit", frames # << >>, NEW k \in DOMAIN TopRefs
    PROVE  mapped[TopRefs[k]] # Visiting
<1> SUFFICES ASSUME mapped[TopRefs[k]] = Visiting PROVE FALSE
  OBVIOUS
<1>1. FramesInv
  BY DEF GraphInv, VisitInv
<1>2. PICK j \in DOMAIN frames : frames[j].id = TopRefs[k]
  BY <1>1, TopTyped DEF FramesInv
<1>3. PICK r \in DOMAIN nodes : r = TopRefs[k] /\ r < Top.id
  BY TopTyped
<1>4. j <= Len(frames) /\ Len(frames) \in DOMAIN frames
  BY <1>2, TopTyped
<1>5. j < Len(frames) => Top.id < frames[j].id
  BY <1>1, <1>4 DEF FramesInv, Top
<1>6. j = Len(frames) => frames[j].id = Top.id
  BY DEF Top
<1>7. DOMAIN nodes \subseteq Nat /\ Top.id \in DOMAIN nodes
  BY TopTyped DEF GraphInv
<1> QED
  BY <1>2, <1>3, <1>4, <1>5, <1>6, <1>7, TopTyped
LEMMA SeqOf ==
    ASSUME NEW S, NEW L \in Nat, NEW f \in [1 .. L -> S]
    PROVE  f \in Seq(S) /\ Len(f) = L /\ DOMAIN f = 1 .. L
OBVIOUS

LEMMA FrameTyped ==
    ASSUME frames \in Seq(Frame), NEW j \in DOMAIN frames
    PROVE  frames[j] \in Frame /\ frames[j].id \in DOMAIN nodes /\ frames[j].slot \in Nat \ {0}
<1>1. frames[j] \in Frame
  OBVIOUS
<1> QED
  BY <1>1 DEF Frame

\* The calls of visit after the innermost one moved to its next reference.
LEMMA MovedFrames ==
    ASSUME GraphInv, pc = "visit", frames # << >>, NEW fs,
           fs = [frames EXCEPT ![Len(frames)] = [id |-> Top.id, slot |-> Top.slot + 1]]
    PROVE  /\ fs \in Seq(Frame) /\ Len(fs) = Len(frames) /\ DOMAIN fs = DOMAIN frames
           /\ \A j \in DOMAIN frames : fs[j].id = frames[j].id
           /\ \A j \in DOMAIN frames : j # Len(frames) => fs[j].slot = frames[j].slot
           /\ fs[Len(frames)].slot = Top.slot + 1
<1>1. frames \in Seq(Frame)
  BY DEF GraphInv, VisitInv, VisitTyped
<1>2. PICK L \in Nat \ {0} : L = Len(frames) /\ DOMAIN frames = 1 .. L
  BY TopTyped
<1>3. [id |-> Top.id, slot |-> Top.slot + 1] \in Frame
  <2>1. Top.slot + 1 \in Nat \ {0}
    BY TopTyped
  <2> QED
    BY <2>1, TopTyped DEF Frame
<1>4. fs \in [1 .. L -> Frame]
  BY <1>1, <1>2, <1>3
<1>5. fs \in Seq(Frame) /\ Len(fs) = L /\ DOMAIN fs = 1 .. L
  <2>1. L \in Nat
    OBVIOUS
  <2> QED
    BY <1>4, <2>1, SeqOf, ZenonT(60)
<1>6. fs[L] = [id |-> Top.id, slot |-> Top.slot + 1] /\ \A j \in 1 .. L : j # L => fs[j] = frames[j]
  BY <1>1, <1>2
<1>7. frames[L].id = Top.id
  BY <1>2 DEF Top
<1>8. fs[L].id = Top.id /\ fs[L].slot = Top.slot + 1
  BY <1>6
<1> QED
  BY <1>2, <1>5, <1>6, <1>7, <1>8

LEMMA VisitRefStep ==
    ASSUME GraphInv, VisitRef
    PROVE  GraphInv'
<1>0. /\ pc = "visit" /\ frames # << >> /\ Top.slot <= Len(TopRefs)
      /\ nodes' = nodes /\ root' = root /\ next' = next /\ built' = built
  BY DEF VisitRef
<1>1. VisitTyped /\ FramesInv /\ NumbersInv /\ nodes \in Seq(NodeType) /\ root \in Nat
  BY <1>0 DEF GraphInv, VisitInv
<1> DEFINE fs == [frames EXCEPT ![Len(frames)] = [id |-> Top.id, slot |-> Top.slot + 1]]
<1>2. PICK k0 \in DOMAIN TopRefs : k0 = Top.slot
  <2>1. Top.slot \in Nat \ {0} /\ TopRefs \in Seq(Nat \ {0})
    BY <1>0, TopTyped
  <2>2. Top.slot \in DOMAIN TopRefs
    BY <1>0, <2>1
  <2> QED
    BY <2>2
<1>3. PICK r \in DOMAIN nodes : r = TopRefs[k0] /\ r < Top.id
  BY <1>0, TopTyped
<1>4. mapped[r] # Visiting
  BY <1>0, <1>2, <1>3, NoCycle
<1>5. /\ fs \in Seq(Frame) /\ Len(fs) = Len(frames) /\ DOMAIN fs = DOMAIN frames
      /\ \A j \in DOMAIN frames : fs[j].id = frames[j].id
      /\ \A j \in DOMAIN frames : j # Len(frames) => fs[j].slot = frames[j].slot
      /\ fs[Len(frames)].slot = Top.slot + 1
  <2> PICK f : f = fs
    OBVIOUS
  <2> HIDE DEF fs
  <2> QED
    BY <1>0, MovedFrames DEF fs
<1>6. PICK L \in Nat \ {0} : L = Len(frames) /\ DOMAIN frames = 1 .. L
  BY <1>0, TopTyped
<1>7. TopRefs = RefsOf(L) /\ Top.id = frames[L].id
  BY <1>0, <1>6, TopTyped DEF Top
<1>8. \A j \in 1 .. L : frames[j].id \in Nat /\ Top.id <= frames[j].id
  <2>1. \A j \in 1 .. L : frames[j].id \in DOMAIN nodes
    BY <1>1, <1>6, FrameTyped DEF VisitTyped
  <2>2. \A j \in 1 .. L : frames[j].id \in Nat
    BY <1>1, <2>1
  <2>3. ASSUME NEW j \in 1 .. L PROVE Top.id <= frames[j].id
    <3>1. j # L => frames[L].id < frames[j].id
      BY <1>1, <1>6 DEF FramesInv
    <3>2. L \in 1 .. L
      BY <1>6
    <3> QED
      BY <1>7, <2>2, <3>1, <3>2
  <2> QED
    BY <2>2, <2>3
<1>9. \A j \in DOMAIN frames : \A k \in DOMAIN RefsOf(j) : RefsOf(j) \in Seq(Nat \ {0}) /\ k \in Nat \ {0}
  <2> SUFFICES ASSUME NEW j \in DOMAIN frames, NEW k \in DOMAIN RefsOf(j)
               PROVE  RefsOf(j) \in Seq(Nat \ {0}) /\ k \in Nat \ {0}
    OBVIOUS
  <2>1. frames[j].id \in DOMAIN nodes
    BY <1>1, FrameTyped DEF VisitTyped
  <2>2. RefsOf(j) \in Seq(Nat \ {0})
    BY <1>1, <2>1, RefsTyped DEF RefsOf
  <2> QED
    BY <2>2
\* What the calls have seen, once the innermost one has seen one more.
<1>10. ASSUME NEW j \in 1 .. L, NEW k \in DOMAIN RefsOf(j), k < fs[j].slot
       PROVE  \/ Numbered(RefsOf(j)[k])
              \/ j < L /\ RefsOf(j)[k] = frames[j + 1].id
              \/ j = L /\ RefsOf(j)[k] = r
  <2>1. CASE j # L
    BY <1>1, <1>5, <1>6, <1>10, <2>1 DEF FramesInv
  <2>2. CASE j = L /\ k # k0
    <3>1. k \in Nat /\ k0 \in Nat /\ fs[j].slot = k0 + 1 /\ frames[j].slot = k0
      BY <1>2, <1>5, <1>6, <1>7, <1>9, <2>2 DEF Top
    <3>2. k < frames[j].slot
      <4> HIDE DEF fs
      <4> QED
        BY <1>10, <2>2, <3>1
    <3> QED
      BY <1>1, <1>6, <2>2, <3>2 DEF FramesInv
  <2>3. CASE j = L /\ k = k0
    BY <1>3, <1>7, <2>3
  <2> QED
    BY <2>1, <2>2, <2>3
<1>11. \A j \in DOMAIN frames : RefsOf(j) = nodes[frames[j].id].refs
  BY DEF RefsOf
<1> HIDE DEF fs
<1>12. CASE mapped[r] = Unvisited
  <2>1. /\ pc' = "visit" /\ mapped' = [mapped EXCEPT ![r] = Visiting]
        /\ frames' = Append(fs, [id |-> r, slot |-> 1])
    BY <1>0, <1>2, <1>3, <1>4, <1>12 DEF VisitRef, fs
  <2>2. /\ DOMAIN mapped = DOMAIN nodes /\ DOMAIN mapped' = DOMAIN nodes
        /\ mapped'[r] = Visiting /\ \A n \in DOMAIN nodes : n # r => mapped'[n] = mapped[n]
    BY <1>1, <2>1 DEF VisitTyped
  <2>3. /\ frames' \in Seq(Frame) /\ Len(frames') = L + 1 /\ DOMAIN frames' = 1 .. L + 1
        /\ frames'[L + 1] = [id |-> r, slot |-> 1]
        /\ \A j \in 1 .. L : frames'[j] = fs[j]
    <3>1. [id |-> r, slot |-> 1] \in Frame
      BY DEF Frame
    <3> QED
      BY <1>5, <1>6, <2>1, <3>1
  <2>4. /\ frames'[L + 1].id = r /\ frames'[L + 1].slot = 1
        /\ \A j \in 1 .. L : frames'[j].id = frames[j].id /\ frames'[j].slot = fs[j].slot
    BY <1>5, <1>6, <2>3
  <2>5. \A n \in DOMAIN nodes : Numbered(n)' <=> Numbered(n)
    BY <1>12, <2>2, Marks DEF Numbered
  <2>6. \A n \in DOMAIN nodes : Numbered(n) => mapped'[n] = mapped[n]
    BY <1>12, <2>2, Marks DEF Numbered
  <2>7. VisitTyped'
    <3>1. mapped' \in [DOMAIN nodes' -> (1 .. Len(nodes')) \union {Visiting, Unvisited}]
      BY <1>0, <1>1, <2>1 DEF VisitTyped
    <3>2. Frame' = Frame
      BY <1>0 DEF Frame
    <3> QED
      BY <1>0, <1>1, <2>3, <3>1, <3>2 DEF VisitTyped
  <2>8. FramesInv'
    <3>1. ASSUME NEW j \in 1 .. L + 1 PROVE mapped'[frames'[j].id] = Visiting
      <4>1. CASE j = L + 1
        BY <2>2, <2>4, <4>1
      <4>2. CASE j # L + 1
        <5>1. j \in 1 .. L
          BY <4>2
        <5>2. mapped[frames[j].id] = Visiting /\ frames[j].id \in DOMAIN nodes
          BY <1>1, <1>6, <5>1, FrameTyped DEF FramesInv, VisitTyped
        <5> QED
          BY <2>2, <2>4, <5>1, <5>2
      <4> QED
        BY <4>1, <4>2
    <3>2. ASSUME NEW n \in DOMAIN nodes, mapped'[n] = Visiting PROVE \E j \in 1 .. L + 1 : frames'[j].id = n
      <4>1. CASE n = r
        <5> L + 1 \in 1 .. L + 1
          OBVIOUS
        <5> QED
          BY <2>4, <4>1
      <4>2. CASE n # r
        <5>1. PICK j \in 1 .. L : frames[j].id = n
          BY <1>1, <1>6, <2>2, <3>2, <4>2 DEF FramesInv
        <5>2. j \in 1 .. L + 1
          BY <5>1
        <5> QED
          BY <2>4, <5>1, <5>2
      <4> QED
        BY <4>1, <4>2
    <3>3. ASSUME NEW j \in 1 .. L + 1, NEW l \in 1 .. L + 1, j < l PROVE frames'[l].id < frames'[j].id
      <4>1. j \in 1 .. L
        BY <3>3
      <4>2. CASE l = L + 1
        <5>1. r \in Nat /\ Top.id \in Nat
          BY <1>1, <1>6, <1>7, <1>8
        <5> QED
          BY <1>3, <1>8, <2>4, <4>1, <4>2, <5>1
      <4>3. CASE l # L + 1
        <5>1. l \in 1 .. L
          BY <4>3
        <5> QED
          BY <1>1, <1>6, <2>4, <3>3, <4>1, <5>1 DEF FramesInv
      <4> QED
        BY <4>2, <4>3
    <3>4. ASSUME NEW j \in 1 .. L + 1, NEW k \in DOMAIN RefsOf(j)', k < frames'[j].slot
          PROVE  Numbered(RefsOf(j)[k])' \/ (j < L + 1 /\ RefsOf(j)'[k] = frames'[j + 1].id)
      <4>1. CASE j = L + 1
        <5>1. RefsOf(j)' = nodes[r].refs
          BY <1>0, <2>4, <4>1 DEF RefsOf
        <5>2. k \in Nat \ {0}
          BY <1>1, <5>1, RefsTyped
        <5> QED
          BY <2>4, <3>4, <4>1, <5>2
      <4>2. CASE j # L + 1
        <5>1. j \in 1 .. L /\ j < L + 1
          BY <4>2
        <5>2. RefsOf(j)' = RefsOf(j) /\ frames'[j].slot = fs[j].slot
          BY <1>0, <2>4, <5>1 DEF RefsOf
        <5>3. \/ Numbered(RefsOf(j)[k])
              \/ j < L /\ RefsOf(j)[k] = frames[j + 1].id
              \/ j = L /\ RefsOf(j)[k] = r
          BY <1>10, <3>4, <5>1, <5>2
        <5>4. RefsOf(j)[k] \in DOMAIN nodes
          <6>1. frames[j].id \in DOMAIN nodes
            BY <1>1, <1>6, <5>1, FrameTyped DEF VisitTyped
          <6>2. Backward(nodes)
            BY <1>1 DEF VisitTyped, Interned
          <6>3. nodes[frames[j].id].refs[k] \in 1 .. frames[j].id - 1
            BY <1>1, <3>4, <5>2, <6>1, <6>2, RefsBackward DEF RefsOf
          <6>4. PICK N \in Nat : DOMAIN nodes = 1 .. N
            BY <1>1
          <6>5. 1 .. frames[j].id - 1 \subseteq DOMAIN nodes
            BY <6>1, <6>4
          <6> QED
            BY <6>3, <6>5 DEF RefsOf
        <5>5. CASE Numbered(RefsOf(j)[k])
          <6>1. Numbered(RefsOf(j)[k])'
            BY <2>5, <5>2, <5>4, <5>5 DEF Numbered
          <6> QED
            BY <6>1
        <5>6. CASE j < L /\ RefsOf(j)[k] = frames[j + 1].id
          <6>1. j + 1 \in 1 .. L
            BY <5>1, <5>6
          <6> QED
            BY <2>4, <5>1, <5>2, <5>6, <6>1
        <5>7. CASE j = L /\ RefsOf(j)[k] = r
          BY <2>4, <5>1, <5>2, <5>7
        <5> QED
          BY <5>3, <5>5, <5>6, <5>7
      <4> QED
        BY <4>1, <4>2
    <3>5. frames' # << >> /\ frames'[1].id = root'
      <4>1. 1 \in 1 .. L
        OBVIOUS
      <4> QED
        BY <1>0, <1>1, <2>3, <2>4, <4>1 DEF FramesInv
    <3> QED
      BY <1>0, <2>3, <3>1, <3>2, <3>3, <3>4, <3>5 DEF FramesInv
  <2>9. NumbersInv'
    <3>1. \A n \in DOMAIN nodes' : Numbered(n)' => mapped'[n] \in 1 .. next' - 1
      BY <1>0, <1>1, <2>5, <2>6 DEF NumbersInv
    <3>2. \A m, n \in DOMAIN nodes' : Numbered(m)' /\ mapped'[m] = mapped'[n] => m = n
      <4> SUFFICES ASSUME NEW m \in DOMAIN nodes, NEW n \in DOMAIN nodes, Numbered(m)', mapped'[m] = mapped'[n]
                   PROVE  m = n
        BY <1>0
      <4>1. Numbered(n)'
        BY DEF Numbered
      <4> QED
        BY <1>1, <2>5, <2>6, <4>1 DEF NumbersInv
    <3>3. \A v \in 1 .. next' - 1 : \E n \in DOMAIN nodes' : mapped'[n] = v
      <4> SUFFICES ASSUME NEW v \in 1 .. next - 1 PROVE \E n \in DOMAIN nodes : mapped'[n] = v
        BY <1>0
      <4>1. PICK n \in DOMAIN nodes : mapped[n] = v
        BY <1>1 DEF NumbersInv
      <4>2. v # Unvisited
        BY <1>1, LimitsAssumption DEF VisitTyped, Unvisited
      <4> QED
        BY <1>12, <2>2, <4>1, <4>2
    <3>4. \A n \in DOMAIN nodes' : Numbered(n)' => \A s \in Ids(nodes'[n].refs) : Numbered(s)' /\ mapped'[s] < mapped'[n]
      <4> SUFFICES ASSUME NEW n \in DOMAIN nodes, Numbered(n), NEW s \in Ids(nodes[n].refs)
                   PROVE  Numbered(s)' /\ mapped'[s] < mapped'[n]
        BY <1>0, <2>5
      <4>1. Numbered(s) /\ mapped[s] < mapped[n]
        BY <1>1 DEF NumbersInv
      <4>2. s \in DOMAIN nodes
        <5>1. PICK k \in DOMAIN nodes[n].refs : s = nodes[n].refs[k]
          BY DEF Ids
        <5>2. Backward(nodes)
          BY <1>1 DEF VisitTyped, Interned
        <5>3. s \in 1 .. n - 1
          BY <1>1, <5>1, <5>2, RefsBackward
        <5>4. PICK N \in Nat : DOMAIN nodes = 1 .. N
          BY <1>1
        <5> QED
          BY <5>3, <5>4
      <4> QED
        BY <2>5, <2>6, <4>1, <4>2
    <3> QED
      BY <3>1, <3>2, <3>3, <3>4 DEF NumbersInv
  <2> QED
    BY <1>0, <1>1, <2>1, <2>7, <2>8, <2>9, ToVisit DEF VisitInv
<1>13. CASE mapped[r] # Unvisited
  <2>1. pc' = "visit" /\ mapped' = mapped /\ frames' = fs
    BY <1>0, <1>2, <1>3, <1>4, <1>13 DEF VisitRef, fs
  <2>2. \A n : Numbered(n)' <=> Numbered(n)
    BY <2>1 DEF Numbered
  <2>3. VisitTyped'
    <3>1. Frame' = Frame
      BY <1>0 DEF Frame
    <3> QED
      BY <1>0, <1>1, <1>5, <2>1, <3>1 DEF VisitTyped
  <2>4. DOMAIN frames' = 1 .. L /\ Len(frames') = L /\ frames' # << >> /\ \A j \in 1 .. L : frames'[j].id = frames[j].id
    BY <1>5, <1>6, <2>1
  <2>5. FramesInv'
    <3>1. \A j \in DOMAIN frames' : mapped'[frames'[j].id] = Visiting
      BY <1>1, <1>6, <2>1, <2>4 DEF FramesInv
    <3>2. \A n \in DOMAIN nodes' : mapped'[n] = Visiting => \E j \in DOMAIN frames' : frames'[j].id = n
      BY <1>0, <1>1, <1>6, <2>1, <2>4 DEF FramesInv
    <3>3. \A j, l \in DOMAIN frames' : j < l => frames'[l].id < frames'[j].id
      BY <1>1, <1>6, <2>4 DEF FramesInv
    <3>4. ASSUME NEW j \in 1 .. L, NEW k \in DOMAIN RefsOf(j)', k < frames'[j].slot
          PROVE  Numbered(RefsOf(j)[k])' \/ (j < L /\ RefsOf(j)'[k] = frames'[j + 1].id)
      <4>1. RefsOf(j)' = RefsOf(j)
        BY <1>0, <2>4 DEF RefsOf
      <4>2. \/ Numbered(RefsOf(j)[k])
            \/ j < L /\ RefsOf(j)[k] = frames[j + 1].id
            \/ j = L /\ RefsOf(j)[k] = r
        BY <1>10, <2>1, <3>4, <4>1
      <4>3. Numbered(r)
        BY <1>4, <1>13 DEF Numbered
      <4>4. CASE Numbered(RefsOf(j)[k])
        <5>1. Numbered(RefsOf(j)[k])'
          BY <2>1, <4>1, <4>4 DEF Numbered
        <5> QED
          BY <5>1
      <4>5. CASE j < L /\ RefsOf(j)[k] = frames[j + 1].id
        <5>1. j + 1 \in 1 .. L
          BY <4>5
        <5> QED
          BY <2>4, <4>1, <4>5, <5>1
      <4> QED
        BY <4>2, <4>3, <4>4, <4>5
    <3>5. frames'[1].id = root'
      <4>1. 1 \in 1 .. L
        OBVIOUS
      <4> QED
        BY <1>0, <1>1, <2>4, <4>1 DEF FramesInv
    <3> QED
      BY <2>4, <3>1, <3>2, <3>3, <3>4, <3>5 DEF FramesInv
  <2>6. NumbersInv'
    BY <1>0, <1>1, <2>1 DEF NumbersInv, Numbered
  <2> QED
    BY <1>0, <1>1, <2>1, <2>3, <2>5, <2>6, ToVisit DEF VisitInv
<1> QED
  BY <1>12, <1>13

\* While a node is not numbered, there is a number left.
LEMMA NumberLeft ==
    ASSUME VisitTyped, NumbersInv, nodes \in Seq(NodeType), NEW m \in DOMAIN nodes, ~Numbered(m)
    PROVE  next <= Len(nodes)
<1>1. PICK N \in Nat : N = Len(nodes) /\ DOMAIN nodes = 1 .. N
  OBVIOUS
<1>2. next \in 1 .. N + 1 /\ next - 1 \in Nat
  BY <1>1 DEF VisitTyped
<1> DEFINE S == 1 .. next - 1
           T == (1 .. N) \ {m}
           f == [v \in S |-> CHOOSE n \in DOMAIN nodes : mapped[n] = v]
<1>3. \A v \in S : f[v] \in DOMAIN nodes /\ mapped[f[v]] = v
  BY Zenon DEF NumbersInv
<1>4. \A v \in S : v # Visiting /\ v # Unvisited
  <2>1. N < MaxU32 - 1 /\ MaxU32 \in Nat
    BY <1>1, LimitsAssumption DEF VisitTyped
  <2> QED
    BY <1>1, <1>2, <2>1 DEF Visiting, Unvisited
<1> HIDE DEF f
<1>5. \A v \in S : f[v] # m
  BY <1>3, <1>4 DEF Numbered
<1>6. f \in [S -> T]
  <2>1. DOMAIN f = S /\ f = [v \in DOMAIN f |-> f[v]]
    BY DEF f
  <2> QED
    BY <1>1, <1>3, <1>5, <2>1
<1>7. f \in Injection(S, T)
  BY <1>3, <1>6 DEF Injection, IsInjective
<1>8. IsFiniteSet(1 .. N) /\ Cardinality(1 .. N) = N
  <2>1. 1 \in Int /\ N \in Int
    OBVIOUS
  <2>2. IsFiniteSet(1 .. N) /\ Cardinality(1 .. N) = IF 1 > N THEN 0 ELSE N - 1 + 1
    BY <2>1, FS_Interval
  <2> QED
    BY <2>2
<1>9. IsFiniteSet(T) /\ Cardinality(T) = N - 1
  BY <1>1, <1>8, FS_RemoveElement
<1>10. Cardinality(S) = next - 1
  BY <1>2, FS_Interval
<1>11. Cardinality(S) <= Cardinality(T)
  <2> HIDE DEF S, T
  <2> QED
    BY <1>7, <1>9, FS_Injection
<1> QED
  BY <1>1, <1>2, <1>9, <1>10, <1>11

LEMMA RefInTable ==
    ASSUME nodes \in Seq(NodeType), Backward(nodes), NEW n \in DOMAIN nodes, NEW s \in Ids(nodes[n].refs)
    PROVE  s \in DOMAIN nodes /\ s < n /\ s \in Nat /\ n \in Nat
<1>1. PICK k \in DOMAIN nodes[n].refs : s = nodes[n].refs[k]
  BY DEF Ids
<1>2. s \in 1 .. n - 1
  BY <1>1, RefsBackward
<1>3. PICK N \in Nat : DOMAIN nodes = 1 .. N
  OBVIOUS
<1> QED
  BY <1>2, <1>3

LEMMA VisitDoneStep ==
    ASSUME GraphInv, VisitDone
    PROVE  GraphInv'
<1>0. /\ pc = "visit" /\ pc' = "visit" /\ frames # << >> /\ Top.slot > Len(TopRefs)
      /\ nodes' = nodes /\ root' = root /\ built' = built /\ next' = next + 1
      /\ mapped' = [mapped EXCEPT ![Top.id] = next] /\ frames' = SubSeq(frames, 1, Len(frames) - 1)
  BY DEF VisitDone
<1>1. VisitTyped /\ FramesInv /\ NumbersInv /\ nodes \in Seq(NodeType) /\ root \in Nat
  BY <1>0 DEF GraphInv, VisitInv
<1>2. PICK L \in Nat \ {0} : L = Len(frames) /\ DOMAIN frames = 1 .. L
  BY <1>0, TopTyped
<1>3. PICK t \in DOMAIN nodes : t = Top.id /\ t = frames[L].id
  BY <1>0, <1>2, TopTyped DEF Top
<1>4. mapped[t] = Visiting
  BY <1>1, <1>2, <1>3 DEF FramesInv
<1>5. next <= Len(nodes)
  BY <1>1, <1>4, NumberLeft DEF Numbered
<1>6. PICK N \in Nat : N = Len(nodes) /\ DOMAIN nodes = 1 .. N
  BY <1>1
<1>7. next \in 1 .. N /\ next \in Nat /\ next # Visiting /\ next # Unvisited
  <2>1. N < MaxU32 - 1 /\ MaxU32 \in Nat /\ next \in 1 .. N + 1
    BY <1>1, <1>6, LimitsAssumption DEF VisitTyped
  <2> QED
    BY <1>5, <1>6, <2>1 DEF Visiting, Unvisited
<1>8. /\ DOMAIN mapped' = DOMAIN nodes
      /\ mapped'[t] = next /\ \A n \in DOMAIN nodes : n # t => mapped'[n] = mapped[n]
  BY <1>0, <1>1, <1>3 DEF VisitTyped
<1>9. \A n \in DOMAIN nodes : Numbered(n)' <=> n = t \/ Numbered(n)
  BY <1>4, <1>7, <1>8 DEF Numbered
<1>10. ~Numbered(t)
  BY <1>4 DEF Numbered
<1>11. /\ frames' \in Seq(Frame) /\ Len(frames') = L - 1 /\ DOMAIN frames' = 1 .. L - 1
       /\ \A j \in 1 .. L - 1 : frames'[j] = frames[j]
  <2>1. frames \in Seq(Frame)
    BY <1>1 DEF VisitTyped
  <2> HIDE DEF Frame
  <2> QED
    BY <1>0, <1>2, <2>1
<1>12. \A j \in 1 .. L : frames[j].id \in DOMAIN nodes
  BY <1>1, <1>2, FrameTyped DEF VisitTyped
<1>13. \A j \in 1 .. L - 1 : frames[j].id # t
  <2> SUFFICES ASSUME NEW j \in 1 .. L - 1 PROVE frames[j].id # t
    OBVIOUS
  <2>1. j \in 1 .. L /\ L \in 1 .. L /\ j < L
    OBVIOUS
  <2>2. frames[L].id < frames[j].id
    BY <1>1, <1>2, <2>1 DEF FramesInv
  <2>3. frames[j].id \in Nat /\ t \in Nat
    BY <1>6, <1>12, <2>1
  <2> QED
    BY <1>3, <2>2, <2>3
<1>14. Backward(nodes)
  BY <1>1 DEF VisitTyped, Interned
<1>15. VisitTyped'
  <2>1. mapped' \in [DOMAIN nodes' -> (1 .. Len(nodes')) \union {Visiting, Unvisited}]
    <3>1. mapped \in [DOMAIN nodes -> (1 .. N) \union {Visiting, Unvisited}]
      BY <1>1, <1>6 DEF VisitTyped
    <3> QED
      BY <1>0, <1>3, <1>6, <1>7, <3>1
  <2>2. Frame' = Frame
    BY <1>0 DEF Frame
  <2>3. next' \in 1 .. Len(nodes') + 1
    BY <1>0, <1>6, <1>7
  <2> QED
    BY <1>0, <1>1, <1>11, <2>1, <2>2, <2>3 DEF VisitTyped
<1>16. FramesInv'
  <2>1. \A j \in 1 .. L - 1 : mapped'[frames'[j].id] = Visiting
    <3> SUFFICES ASSUME NEW j \in 1 .. L - 1 PROVE mapped'[frames'[j].id] = Visiting
      OBVIOUS
    <3>1. j \in 1 .. L
      OBVIOUS
    <3>2. mapped[frames[j].id] = Visiting
      BY <1>1, <1>2, <3>1 DEF FramesInv
    <3> QED
      BY <1>8, <1>11, <1>12, <1>13, <3>1, <3>2
  <2>2. ASSUME NEW n \in DOMAIN nodes, mapped'[n] = Visiting PROVE \E j \in 1 .. L - 1 : frames'[j].id = n
    <3>1. n # t
      BY <1>7, <1>8, <2>2
    <3>2. PICK j \in 1 .. L : frames[j].id = n
      BY <1>1, <1>2, <1>8, <2>2, <3>1 DEF FramesInv
    <3>3. j \in 1 .. L - 1
      BY <1>3, <3>1, <3>2
    <3> QED
      BY <1>11, <3>2, <3>3
  <2>3. \A j, l \in 1 .. L - 1 : j < l => frames'[l].id < frames'[j].id
    <3>1. \A j \in 1 .. L - 1 : j \in 1 .. L
      OBVIOUS
    <3> QED
      BY <1>1, <1>2, <1>11, <3>1 DEF FramesInv
  <2>4. ASSUME NEW j \in 1 .. L - 1, NEW k \in DOMAIN RefsOf(j)', k < frames'[j].slot
        PROVE  Numbered(RefsOf(j)[k])' \/ (j < L - 1 /\ RefsOf(j)'[k] = frames'[j + 1].id)
    <3>1. j \in 1 .. L
      OBVIOUS
    <3>2. RefsOf(j)' = RefsOf(j)
      BY <1>0, <1>11 DEF RefsOf
    <3>3. PICK s : s = RefsOf(j)[k]
      OBVIOUS
    <3>4. s \in DOMAIN nodes
      <4>1. s \in Ids(nodes[frames[j].id].refs)
        BY <2>4, <3>2, <3>3 DEF RefsOf, Ids
      <4> QED
        BY <1>1, <1>12, <1>14, <3>1, <4>1, RefInTable
    <3>5. Numbered(s) \/ (j < L /\ s = frames[j + 1].id)
      BY <1>1, <1>2, <1>11, <2>4, <3>1, <3>2, <3>3 DEF FramesInv
    <3>6. CASE Numbered(s) \/ s = t
      <4>1. Numbered(s)'
        BY <1>9, <3>4, <3>6
      <4>2. Numbered(RefsOf(j)[k])'
        BY <3>2, <3>3, <4>1 DEF Numbered
      <4> QED
        BY <4>2
    <3>7. CASE s # t /\ s = frames[j + 1].id
      <4>1. j + 1 \in 1 .. L - 1
        BY <1>3, <3>7
      <4>2. j < L - 1
        BY <4>1
      <4> QED
        BY <1>11, <3>2, <3>3, <3>7, <4>1, <4>2
    <3> QED
      BY <3>5, <3>6, <3>7
  <2>5. frames' # << >> => frames'[1].id = root'
    <3> SUFFICES ASSUME frames' # << >> PROVE frames'[1].id = root'
      OBVIOUS
    <3>1. 1 \in 1 .. L - 1
      BY <1>11
    <3> QED
      BY <1>0, <1>1, <1>11, <3>1 DEF FramesInv
  <2>6. frames' = << >> => Numbered(root)' /\ mapped'[root'] = next' - 1
    <3> SUFFICES ASSUME frames' = << >> PROVE Numbered(root)' /\ mapped'[root'] = next' - 1
      OBVIOUS
    <3>1. L = 1
      BY <1>11
    <3>2. root = t
      BY <1>0, <1>1, <1>3, <3>1 DEF FramesInv
    <3>3. Numbered(t)' /\ mapped'[t] = next' - 1
      BY <1>0, <1>7, <1>8, <1>9
    <3> QED
      BY <1>0, <3>2, <3>3 DEF Numbered
  <2> QED
    BY <1>0, <1>11, <2>1, <2>2, <2>3, <2>4, <2>5, <2>6 DEF FramesInv
<1>17. NumbersInv'
  <2>0. \A n \in DOMAIN nodes : Numbered(n) => mapped[n] \in 1 .. next - 1 /\ mapped'[n] = mapped[n] /\ n # t
    BY <1>1, <1>8, <1>10 DEF NumbersInv
  <2>1. \A n \in DOMAIN nodes : Numbered(n)' => mapped'[n] \in 1 .. next
    <3> SUFFICES ASSUME NEW n \in DOMAIN nodes, Numbered(n)' PROVE mapped'[n] \in 1 .. next
      OBVIOUS
    <3>1. n = t => mapped'[n] \in 1 .. next
      BY <1>7, <1>8
    <3>2. n # t => mapped'[n] \in 1 .. next - 1
      BY <1>9, <2>0
    <3>3. 1 .. next - 1 \subseteq 1 .. next
      BY <1>7
    <3> QED
      BY <3>1, <3>2, <3>3
  <2>2. ASSUME NEW m \in DOMAIN nodes, NEW n \in DOMAIN nodes, Numbered(m)', mapped'[m] = mapped'[n]
        PROVE  m = n
    <3>1. Numbered(n)'
      BY <2>2 DEF Numbered
    <3>2. next \notin 1 .. next - 1
      BY <1>7
    <3>3. (m = t) = (n = t)
      BY <1>8, <1>9, <2>0, <2>2, <3>1, <3>2
    <3> QED
      BY <1>1, <1>9, <2>0, <2>2, <3>1, <3>3 DEF NumbersInv
  <2>3. ASSUME NEW v \in 1 .. next PROVE \E n \in DOMAIN nodes : mapped'[n] = v
    <3>1. CASE v = next
      BY <1>8, <3>1
    <3>2. CASE v # next
      <4>1. v \in 1 .. next - 1
        BY <1>7, <3>2
      <4>2. PICK n \in DOMAIN nodes : mapped[n] = v
        BY <1>1, <4>1 DEF NumbersInv
      <4>3. v # Visiting
        <5>1. N < MaxU32 - 1 /\ MaxU32 \in Nat
          BY <1>1, <1>6, LimitsAssumption DEF VisitTyped
        <5> QED
          BY <1>7, <4>1, <5>1 DEF Visiting
      <4> QED
        BY <1>4, <1>8, <4>2, <4>3
    <3> QED
      BY <3>1, <3>2
  <2>4. ASSUME NEW n \in DOMAIN nodes, Numbered(n)', NEW s \in Ids(nodes[n].refs)
        PROVE  Numbered(s)' /\ mapped'[s] < mapped'[n]
    <3>1. s \in DOMAIN nodes
      BY <1>1, <1>14, RefInTable
    <3>2. CASE n # t
      <4>1. Numbered(s) /\ mapped[s] < mapped[n] /\ Numbered(n)
        BY <1>1, <1>9, <2>4, <3>2 DEF NumbersInv
      <4> QED
        BY <1>9, <2>0, <3>1, <4>1
    <3>3. CASE n = t
      <4>1. PICK k \in DOMAIN RefsOf(L) : s = RefsOf(L)[k]
        BY <1>3, <3>3 DEF RefsOf, Ids
      <4>2. TopRefs = RefsOf(L) /\ TopRefs \in Seq(Nat \ {0}) /\ Top.slot = frames[L].slot /\ Top.slot \in Nat
        BY <1>0, <1>2, TopTyped DEF Top
      <4>3. k < frames[L].slot
        <5>1. k \in 1 .. Len(TopRefs) /\ Len(TopRefs) \in Nat
          BY <4>1, <4>2
        <5> QED
          BY <1>0, <4>2, <5>1
      <4>4. Numbered(s)
        BY <1>1, <1>2, <4>1, <4>3 DEF FramesInv
      <4>5. mapped[s] \in 1 .. next - 1 /\ mapped'[s] = mapped[s]
        BY <2>0, <3>1, <4>4
      <4>6. mapped'[s] < next
        BY <1>7, <4>5
      <4> QED
        BY <1>8, <1>9, <3>1, <3>3, <4>4, <4>6
    <3> QED
      BY <3>2, <3>3
  <2>5. next' - 1 = next
    BY <1>0, <1>7
  <2> QED
    BY <1>0, <2>1, <2>2, <2>3, <2>4, <2>5 DEF NumbersInv
<1> QED
  BY <1>0, <1>1, <1>15, <1>16, <1>17, ToVisit DEF VisitInv

\* A node keeps all but its references when it is renumbered.
LEMMA RenumberedIs ==
    ASSUME NEW ns \in Seq(NodeType), Backward(ns), NEW map \in [DOMAIN ns -> DOMAIN ns], NEW n \in DOMAIN ns
    PROVE  /\ Renumbered(ns[n], map) \in NodeType
           /\ Renumbered(ns[n], map).kind = ns[n].kind /\ Renumbered(ns[n], map).leaf = ns[n].leaf
           /\ Renumbered(ns[n], map).refs = [k \in DOMAIN ns[n].refs |-> map[ns[n].refs[k]]]
<1>1. ns[n].refs \in Seq(Nat \ {0}) /\ ns[n] \in NodeType
  BY RefsTyped
<1>2. PICK l \in Nat : DOMAIN ns[n].refs = 1 .. l
  BY <1>1
<1>3. PICK N \in Nat : DOMAIN ns = 1 .. N
  OBVIOUS
<1>4. \A k \in 1 .. l : map[ns[n].refs[k]] \in Nat \ {0}
  <2> SUFFICES ASSUME NEW k \in 1 .. l PROVE map[ns[n].refs[k]] \in Nat \ {0}
    OBVIOUS
  <2>1. ns[n].refs[k] \in 1 .. n - 1
    BY <1>2, RefsBackward
  <2>2. ns[n].refs[k] \in DOMAIN ns
    BY <1>3, <2>1
  <2>3. PICK x : x = ns[n].refs[k]
    OBVIOUS
  <2>4. map[x] \in DOMAIN ns
    BY <2>2, <2>3
  <2>5. map[x] \in Nat \ {0}
    BY <1>3, <2>4, SMTT(60)
  <2> QED
    BY <2>3, <2>5
<1> DEFINE rs == [k \in DOMAIN ns[n].refs |-> map[ns[n].refs[k]]]
<1>5. rs \in Seq(Nat \ {0})
  <2>1. rs \in [1 .. l -> Nat \ {0}]
    BY <1>2, <1>4
  <2> QED
    BY <2>1, SeqOf
<1>6. ns[n].refs = << >> => rs = << >>
  <2> SUFFICES ASSUME ns[n].refs = << >> PROVE rs = << >>
    OBVIOUS
  <2>1. DOMAIN rs = {}
    OBVIOUS
  <2>2. Len(rs) = 0
    BY <1>5, <2>1
  <2> HIDE DEF rs
  <2> QED
    BY <1>5, <2>2
<1>7. Renumbered(ns[n], map) = [ns[n] EXCEPT !.refs = rs]
  BY DEF Renumbered
<1> HIDE DEF rs
<1>8. /\ [ns[n] EXCEPT !.refs = rs] \in NodeType
      /\ [ns[n] EXCEPT !.refs = rs].kind = ns[n].kind /\ [ns[n] EXCEPT !.refs = rs].leaf = ns[n].leaf
      /\ [ns[n] EXCEPT !.refs = rs].refs = rs
  BY <1>1, <1>5, <1>6 DEF NodeType
<1> QED
  BY <1>7, <1>8 DEF rs

\* When no call is left, every node is numbered.
LEMMA AllNumbered ==
    ASSUME GraphInv, pc = "visit", frames = << >>
    PROVE  /\ \A n \in DOMAIN nodes : Numbered(n)
           /\ next = Len(nodes) + 1
<1>1. VisitTyped /\ FramesInv /\ NumbersInv /\ nodes \in Seq(NodeType)
  BY DEF GraphInv, VisitInv
<1>2. PICK N \in Nat : N = Len(nodes) /\ DOMAIN nodes = 1 .. N
  BY <1>1
<1>3. Numbered(root) /\ Backward(nodes) /\ Referenced(nodes, root)
  BY <1>1 DEF FramesInv, VisitTyped, Interned
<1> DEFINE U == {n \in DOMAIN nodes : ~Numbered(n)}
<1>4. U = {}
  <2> SUFFICES ASSUME U # {} PROVE FALSE
    OBVIOUS
  <2>1. U \in SUBSET Nat /\ \A t \in U : t <= N
    BY <1>2
  <2>2. PICK g \in U : \A u \in U : u <= g
    <3> HIDE DEF U
    <3> QED
      BY <1>2, <2>1, GreatestNatural
  <2>3. PICK m \in DOMAIN nodes : g \in Ids(nodes[m].refs)
    BY <1>3, <2>2 DEF Referenced
  <2>4. g < m /\ g \in Nat /\ m \in Nat
    BY <1>1, <1>3, <2>3, RefInTable
  <2>5. Numbered(m)
    BY <2>2, <2>3, <2>4
  <2> QED
    BY <1>1, <2>2, <2>3, <2>5 DEF NumbersInv
<1>5. \A n \in DOMAIN nodes : Numbered(n)
  BY <1>4
<1>6. next \in 1 .. N + 1
  BY <1>1, <1>2 DEF VisitTyped
<1>7. mapped \in [1 .. N -> 1 .. next - 1]
  <2>1. \A n \in 1 .. N : mapped[n] \in 1 .. next - 1
    BY <1>1, <1>2, <1>5 DEF NumbersInv
  <2>2. mapped \in [1 .. N -> (1 .. Len(nodes)) \union {Visiting, Unvisited}]
    BY <1>1, <1>2 DEF VisitTyped
  <2> QED
    BY <2>1, <2>2
<1>8. mapped \in Injection(1 .. N, 1 .. next - 1)
  BY <1>1, <1>2, <1>5, <1>7 DEF Injection, IsInjective, NumbersInv
<1>9. IsFiniteSet(1 .. next - 1) /\ Cardinality(1 .. next - 1) = next - 1
  <2>1. 1 \in Int /\ next - 1 \in Int
    BY <1>6
  <2>2. IsFiniteSet(1 .. next - 1) /\ Cardinality(1 .. next - 1) = IF 1 > next - 1 THEN 0 ELSE next - 1 - 1 + 1
    BY <2>1, FS_Interval
  <2> QED
    BY <1>6, <2>2
<1>10. Cardinality(1 .. N) = N
  <2>1. 1 \in Int /\ N \in Int
    OBVIOUS
  <2>2. Cardinality(1 .. N) = IF 1 > N THEN 0 ELSE N - 1 + 1
    BY <2>1, FS_Interval
  <2> QED
    BY <2>2
<1>11. Cardinality(1 .. N) <= Cardinality(1 .. next - 1)
  BY <1>8, <1>9, FS_Injection
<1>12. next = N + 1
  BY <1>6, <1>9, <1>10, <1>11
<1> QED
  BY <1>2, <1>5, <1>12

LEMMA RemapStep ==
    ASSUME GraphInv, Remap
    PROVE  GraphInv'
<1>0. pc = "visit" /\ frames = << >> /\ index' = 1 /\ mapped' = mapped /\ built' = built
  BY DEF Remap
<1>1. VisitTyped /\ FramesInv /\ NumbersInv /\ nodes \in Seq(NodeType) /\ root \in Nat
  BY <1>0 DEF GraphInv, VisitInv
<1>2. (\A n \in DOMAIN nodes : Numbered(n)) /\ next = Len(nodes) + 1
  BY <1>0, AllNumbered
<1>3. /\ pc' = "rotate" /\ root' = mapped[root] /\ numbers' = mapped
      /\ nodes' = [n \in DOMAIN nodes |-> Renumbered(nodes[n], mapped)]
  BY <1>2 DEF Remap
<1>4. PICK N \in Nat : N = Len(nodes) /\ DOMAIN nodes = 1 .. N
  BY <1>1
<1>5. next - 1 = N /\ Interned(nodes, root) /\ Backward(nodes) /\ root \in DOMAIN nodes /\ built = nodes /\ N < MaxU32 - 1
  BY <1>1, <1>2, <1>4 DEF VisitTyped, Interned
<1>6. mapped \in [DOMAIN nodes -> DOMAIN nodes] /\ mapped[root] = N
  <2>1. \A n \in DOMAIN nodes : mapped[n] \in 1 .. N
    BY <1>1, <1>2, <1>5 DEF NumbersInv
  <2>2. mapped \in [DOMAIN nodes -> (1 .. Len(nodes)) \union {Visiting, Unvisited}]
    BY <1>1 DEF VisitTyped
  <2>3. mapped[root] = N
    BY <1>0, <1>1, <1>5 DEF FramesInv
  <2> QED
    BY <1>4, <2>1, <2>2, <2>3
<1>7. Numbering(nodes, mapped)
  BY <1>1, <1>2, <1>4, <1>5, <1>6 DEF Numbering, NumbersInv
<1>8. \A n \in DOMAIN nodes : mapped[n] # Consumed
  BY <1>2, Marks DEF Numbered
<1>9. nodes' \in Seq(NodeType) /\ Len(nodes') = N /\ DOMAIN nodes' = 1 .. N
  <2>1. \A n \in DOMAIN nodes : Renumbered(nodes[n], mapped) \in NodeType
    BY <1>1, <1>5, <1>6, RenumberedIs
  <2>2. nodes' \in [1 .. N -> NodeType]
    BY <1>3, <1>4, <2>1
  <2> QED
    BY <2>2, SeqOf
<1>10. NumberedInv'
  <2>1. mapped' \in [DOMAIN built' -> Nat]
    BY <1>0, <1>4, <1>5, <1>6
  <2>2. \A n \in DOMAIN built' : mapped'[n] \in {numbers'[n], Consumed}
    BY <1>0, <1>3
  <2>3. \E r \in DOMAIN built' : Interned(built', r) /\ numbers'[r] = Len(nodes')
    BY <1>0, <1>3, <1>5, <1>6, <1>9
  <2>4. Numbering(built', numbers')
    BY <1>0, <1>3, <1>5, <1>7
  <2> QED
    BY <1>0, <1>1, <1>3, <1>4, <1>5, <1>6, <1>9, <2>1, <2>2, <2>3, <2>4 DEF NumberedInv
<1>11. RotateInv'
  <2>1. index' \in 1 .. Len(nodes') + 1
    BY <1>0, <1>9
  <2>2. ASSUME NEW n \in DOMAIN nodes
        PROVE  ~(n < 1) /\ mapped[n] # Consumed /\ nodes'[n] = Moved(n)' /\ mapped[mapped[n]] # Consumed
    BY <1>0, <1>3, <1>4, <1>5, <1>6, <1>8 DEF Moved
  <2> QED
    BY <1>0, <1>3, <1>5, <2>1, <2>2 DEF RotateInv
<1>12. root' \in Nat
  BY <1>3, <1>6
<1> QED
  BY <1>3, <1>9, <1>10, <1>11, <1>12, ToRotate

LEMMA StartCycleStep ==
    ASSUME GraphInv, StartCycle
    PROVE  GraphInv'
<1>0. /\ pc = "rotate" /\ index <= Len(nodes) /\ root' = root /\ mapped' = mapped /\ built' = built
      /\ numbers' = numbers
  BY DEF StartCycle, visitVars
<1>1. NumberedInv /\ RotateInv /\ nodes \in Seq(NodeType) /\ root \in Nat
  BY <1>0 DEF GraphInv
<1>2. PICK N \in Nat : N = Len(nodes) /\ DOMAIN nodes = 1 .. N /\ DOMAIN built = 1 .. N
  BY <1>1 DEF NumberedInv
<1>3. index \in 1 .. N
  BY <1>0, <1>1, <1>2 DEF RotateInv
<1>4. CASE mapped[index] = Consumed
  <2>1. index' = index + 1 /\ pc' = "rotate" /\ nodes' = nodes
    BY <1>0, <1>4 DEF StartCycle
  <2>2. NumberedInv'
    BY <1>0, <1>1, <2>1 DEF NumberedInv
  <2>3. RotateInv'
    <3>1. index' \in 1 .. Len(nodes') + 1
      BY <1>2, <1>3, <2>1
    <3>2. \A n \in DOMAIN built : n < index + 1 => n < index \/ n = index
      BY <1>2, <1>3
    <3>3. \A n : Moved(n)' = Moved(n)
      BY <1>0 DEF Moved
    <3> QED
      BY <1>0, <1>1, <1>4, <2>1, <3>1, <3>2, <3>3 DEF RotateInv
  <2> QED
    BY <1>0, <1>1, <2>1, <2>2, <2>3, ToRotate
<1>5. CASE mapped[index] # Consumed
  <2>1. /\ index' = index /\ pc' = "swap" /\ current' = index /\ hand' = nodes[index]
        /\ nodes' = [nodes EXCEPT ![index] = NodeN]
    BY <1>0, <1>5 DEF StartCycle
  <2>2. nodes' \in Seq(NodeType) /\ Len(nodes') = N
    <3>1. NodeN \in NodeType
      BY DEF NodeN, Node, NodeType
    <3>2. nodes \in [1 .. N -> NodeType]
      BY <1>1, <1>2
    <3>3. nodes' \in [1 .. N -> NodeType]
      BY <2>1, <3>1, <3>2
    <3> QED
      BY <3>3, SeqOf
  <2>3. NumberedInv'
    BY <1>0, <1>1, <1>2, <2>2 DEF NumberedInv
  <2>4. \A n : Moved(n)' = Moved(n)
    BY <1>0 DEF Moved
  <2>5. ASSUME NEW n \in DOMAIN built
        PROVE  /\ n < index => mapped[n] = Consumed
               /\ mapped[n] = Consumed => nodes'[numbers[n]] = Moved(n)
               /\ mapped[n] # Consumed /\ n # index => nodes'[n] = Moved(n)
               /\ mapped[n] = Consumed <=> mapped[numbers[n]] = Consumed
    <3>1. numbers[n] \in DOMAIN built
      BY <1>1 DEF NumberedInv, Numbering
    <3>2. mapped[n] = Consumed => numbers[n] # index /\ nodes[numbers[n]] = Moved(n)
      BY <1>1, <1>5 DEF RotateInv
    <3>3. \A m \in DOMAIN built : m # index => nodes'[m] = nodes[m]
      BY <1>1, <1>2, <2>1
    <3> QED
      BY <1>1, <3>1, <3>2, <3>3 DEF RotateInv
  <2>6. SwapInv'
    BY <1>0, <1>1, <1>2, <1>3, <1>5, <2>1, <2>4, <2>5 DEF SwapInv, RotateInv
  <2> QED
    BY <1>0, <1>1, <2>1, <2>2, <2>3, <2>6, ToSwap
<1> QED
  BY <1>4, <1>5

LEMMA SwapStep ==
    ASSUME GraphInv, Swap
    PROVE  GraphInv'
<1> DEFINE d == mapped[current]
<1>0. /\ pc = "swap" /\ root' = root /\ built' = built /\ numbers' = numbers
      /\ mapped' = [mapped EXCEPT ![current] = Consumed]
      /\ nodes' = [nodes EXCEPT ![d] = hand] /\ hand' = nodes[d]
  BY DEF Swap
<1>1. NumberedInv /\ SwapInv /\ nodes \in Seq(NodeType) /\ root \in Nat
  BY <1>0 DEF GraphInv
<1>2. PICK N \in Nat : N = Len(nodes) /\ DOMAIN nodes = 1 .. N /\ DOMAIN built = 1 .. N
  BY <1>1 DEF NumberedInv
<1>3. /\ index \in 1 .. N /\ current \in 1 .. N /\ mapped[current] # Consumed /\ hand = Moved(current)
      /\ current # index => mapped[index] = Consumed
      /\ current # index => \E n \in 1 .. N : mapped[n] = Consumed /\ numbers[n] = current
  BY <1>1, <1>2 DEF SwapInv
<1>4. /\ numbers \in [1 .. N -> 1 .. N] /\ \A m, n \in 1 .. N : numbers[m] = numbers[n] => m = n
      /\ mapped \in [1 .. N -> Nat]
      /\ \A n \in 1 .. N : mapped[n] # Consumed => mapped[n] = numbers[n]
  BY <1>1, <1>2 DEF NumberedInv, Numbering
<1>5. d = numbers[current] /\ d \in 1 .. N
  BY <1>3, <1>4
<1>6. \A n \in 1 .. N :
          /\ n < index => mapped[n] = Consumed
          /\ mapped[n] = Consumed => nodes[numbers[n]] = Moved(n)
          /\ mapped[n] # Consumed /\ n # current => nodes[n] = Moved(n)
          /\ mapped[n] = Consumed => mapped[numbers[n]] = Consumed \/ numbers[n] = current
          /\ mapped[numbers[n]] = Consumed => mapped[n] = Consumed \/ numbers[n] = index
  BY <1>1, <1>2 DEF SwapInv
<1>7. /\ mapped'[current] = Consumed /\ \A n \in 1 .. N : n # current => mapped'[n] = mapped[n]
      /\ mapped' \in [1 .. N -> Nat]
  BY <1>0, <1>3, <1>4, Marks
<1> HIDE DEF d
<1>8. nodes'[d] = hand /\ \A n \in 1 .. N : n # d => nodes'[n] = nodes[n]
  BY <1>0, <1>1, <1>2, <1>5
<1>9. nodes' \in Seq(NodeType) /\ Len(nodes') = N
  <2>1. Moved(current) \in NodeType
    <3>1. built \in Seq(NodeType) /\ Backward(built) /\ numbers \in [DOMAIN built -> DOMAIN built]
      BY <1>1 DEF NumberedInv, Interned, Numbering
    <3> QED
      BY <1>2, <1>3, <3>1, RenumberedIs DEF Moved
  <2>2. nodes \in [1 .. N -> NodeType]
    BY <1>1, <1>2
  <2>3. nodes' \in [1 .. N -> NodeType]
    BY <1>0, <1>3, <2>1, <2>2
  <2> QED
    BY <2>3, SeqOf
<1>10. NumberedInv'
  <2>1. \A n \in DOMAIN built : mapped'[n] \in {numbers[n], Consumed}
    BY <1>2, <1>4, <1>7
  <2> QED
    BY <1>0, <1>1, <1>2, <1>7, <1>9, <2>1 DEF NumberedInv
<1>11. \A n : Moved(n)' = Moved(n)
  BY <1>0 DEF Moved
<1>12. ASSUME NEW n \in 1 .. N
       PROVE  /\ mapped'[n] = Consumed <=> n = current \/ mapped[n] = Consumed
              /\ numbers[n] \in 1 .. N
              /\ n # current => numbers[n] # d
              /\ mapped'[n] = Consumed => nodes'[numbers[n]] = Moved(n)
              /\ numbers[n] = current => mapped[n] = Consumed \/ current = index
  <2>1. mapped'[n] = Consumed <=> n = current \/ mapped[n] = Consumed
    BY <1>7
  <2>2. numbers[n] \in 1 .. N /\ (n # current => numbers[n] # d)
    BY <1>3, <1>4, <1>5
  <2>3. mapped'[n] = Consumed => nodes'[numbers[n]] = Moved(n)
    BY <1>3, <1>5, <1>6, <1>8, <2>1, <2>2
  <2>4. numbers[n] = current => mapped[n] = Consumed \/ current = index
    BY <1>3, <1>4
  <2> QED
    BY <2>1, <2>2, <2>3, <2>4
<1>13. mapped'[index] = Consumed
  BY <1>3, <1>12
<1>14. CASE d = index
  <2>1. pc' = "rotate" /\ index' = index + 1
    BY <1>14 DEF Swap, d
  <2>2. RotateInv'
    <3>1. index' \in 1 .. Len(nodes') + 1
      BY <1>3, <1>9, <2>1
    <3>2. ASSUME NEW n \in 1 .. N
          PROVE  /\ n < index' => mapped'[n] = Consumed
                 /\ mapped'[n] = Consumed => nodes'[numbers[n]] = Moved(n)
                 /\ mapped'[n] # Consumed => nodes'[n] = Moved(n)
                 /\ mapped'[n] = Consumed <=> mapped'[numbers[n]] = Consumed
      <4>1. n < index' => n < index \/ n = index
        BY <1>3, <2>1
      <4>2. n < index' => mapped'[n] = Consumed
        BY <1>6, <1>12, <1>13, <4>1
      <4>3. mapped'[n] # Consumed => nodes'[n] = Moved(n)
        BY <1>6, <1>8, <1>12, <1>13, <1>14
      <4>4. mapped'[numbers[n]] = Consumed <=> numbers[n] = current \/ mapped[numbers[n]] = Consumed
        BY <1>12
      <4>5. mapped'[n] = Consumed => mapped'[numbers[n]] = Consumed
        BY <1>5, <1>6, <1>12, <1>13, <1>14, <4>4
      <4>6. mapped'[numbers[n]] = Consumed => mapped'[n] = Consumed
        BY <1>6, <1>12, <1>14, <4>4
      <4> QED
        BY <1>12, <4>2, <4>3, <4>5, <4>6
    <3> QED
      BY <1>0, <1>2, <1>11, <3>1, <3>2 DEF RotateInv
  <2> QED
    BY <1>0, <1>1, <1>9, <1>10, <2>1, <2>2, ToRotate
<1>15. CASE d # index
  <2>1. pc' = "swap" /\ index' = index /\ current' = d
    BY <1>0, <1>15 DEF Swap, d
  <2>2. d # current
    BY <1>3, <1>5, <1>12, <1>15
  <2>3. mapped[d] # Consumed
    BY <1>3, <1>5, <1>6, <1>15
  <2>4. mapped'[d] # Consumed /\ hand' = Moved(d)
    BY <1>0, <1>5, <1>6, <1>7, <2>2, <2>3
  <2>5. mapped'[current] = Consumed /\ numbers[current] = d
    BY <1>5, <1>7
  <2>6. ASSUME NEW n \in 1 .. N
        PROVE  /\ n < index => mapped'[n] = Consumed
               /\ mapped'[n] = Consumed => nodes'[numbers[n]] = Moved(n)
               /\ mapped'[n] # Consumed /\ n # d => nodes'[n] = Moved(n)
               /\ mapped'[n] = Consumed => mapped'[numbers[n]] = Consumed \/ numbers[n] = d
               /\ mapped'[numbers[n]] = Consumed => mapped'[n] = Consumed \/ numbers[n] = index
    <3>1. mapped'[numbers[n]] = Consumed <=> numbers[n] = current \/ mapped[numbers[n]] = Consumed
      BY <1>12
    <3>2. n < index => mapped'[n] = Consumed
      BY <1>6, <1>12
    <3>3. mapped'[n] # Consumed /\ n # d => nodes'[n] = Moved(n)
      BY <1>6, <1>8, <1>12
    <3>4. mapped'[n] = Consumed => mapped'[numbers[n]] = Consumed \/ numbers[n] = d
      BY <1>5, <1>6, <1>12, <3>1
    <3>5. mapped'[numbers[n]] = Consumed => mapped'[n] = Consumed \/ numbers[n] = index
      BY <1>6, <1>12, <3>1
    <3> QED
      BY <1>12, <3>2, <3>3, <3>4, <3>5
  <2>7. SwapInv'
    BY <1>0, <1>2, <1>3, <1>5, <1>11, <1>13, <2>1, <2>4, <2>5, <2>6 DEF SwapInv
  <2> QED
    BY <1>0, <1>1, <1>9, <1>10, <2>1, <2>7, ToSwap
<1> QED
  BY <1>14, <1>15

LEMMA NodesEqual ==
    ASSUME NEW x \in NodeType, NEW y \in NodeType, x.kind = y.kind, x.leaf = y.leaf, x.refs = y.refs
    PROVE  x = y
BY DEF NodeType

\* A renumbered table is in order as the one it came from.
LEMMA InternedMoves ==
    ASSUME NEW old \in Seq(NodeType), NEW new \in Seq(NodeType), NEW map, NEW r \in DOMAIN old,
           Interned(old, r), Numbering(old, map), Len(new) = Len(old),
           \A n \in DOMAIN old : new[map[n]] = Renumbered(old[n], map)
    PROVE  Interned(new, map[r])
<1>1. PICK N \in Nat : DOMAIN old = 1 .. N /\ DOMAIN new = 1 .. N /\ N = Len(new)
  OBVIOUS
<1>2. /\ map \in [1 .. N -> 1 .. N] /\ \A m, n \in 1 .. N : map[m] = map[n] => m = n
      /\ \A v \in 1 .. N : \E n \in 1 .. N : map[n] = v
      /\ \A n \in 1 .. N : \A s \in Ids(old[n].refs) : map[s] < map[n]
  BY <1>1 DEF Numbering
<1>3. Backward(old) /\ map \in [DOMAIN old -> DOMAIN old]
  BY <1>1, <1>2 DEF Interned
<1>4. ASSUME NEW n \in 1 .. N
      PROVE  /\ new[map[n]].kind = old[n].kind /\ new[map[n]].leaf = old[n].leaf
             /\ new[map[n]].refs = [k \in DOMAIN old[n].refs |-> map[old[n].refs[k]]]
             /\ DOMAIN new[map[n]].refs = DOMAIN old[n].refs
             /\ \A k \in DOMAIN old[n].refs : old[n].refs[k] \in 1 .. N
  <2>1. n \in DOMAIN old
    BY <1>1
  <2>2. /\ new[map[n]].kind = old[n].kind /\ new[map[n]].leaf = old[n].leaf
        /\ new[map[n]].refs = [k \in DOMAIN old[n].refs |-> map[old[n].refs[k]]]
    <3>1. PICK x : x = Renumbered(old[n], map)
      OBVIOUS
    <3>2. x.kind = old[n].kind /\ x.leaf = old[n].leaf /\ x.refs = [k \in DOMAIN old[n].refs |-> map[old[n].refs[k]]]
      BY <1>3, <2>1, <3>1, RenumberedIs
    <3>3. new[map[n]] = x
      BY <2>1, <3>1
    <3> QED
      BY <3>2, <3>3
  <2>3. DOMAIN new[map[n]].refs = DOMAIN old[n].refs
    BY <2>2
  <2>4. 1 .. n - 1 \subseteq 1 .. N
    BY <1>1
  <2>5. \A k \in DOMAIN old[n].refs : old[n].refs[k] \in 1 .. N
    BY <1>3, <2>1, <2>4, RefsBackward
  <2> QED
    BY <2>2, <2>3, <2>5
<1>5. map[r] \in DOMAIN new
  BY <1>1, <1>2
<1>6. \A a, b \in DOMAIN new : new[a] = new[b] => a = b
  <2> SUFFICES ASSUME NEW a \in 1 .. N, NEW b \in 1 .. N, new[a] = new[b] PROVE a = b
    BY <1>1
  <2>1. PICK m \in 1 .. N : map[m] = a
    BY <1>2
  <2>2. PICK n \in 1 .. N : map[n] = b
    BY <1>2
  <2>0. new[map[m]] = new[map[n]]
    BY <2>1, <2>2
  <2>3. old[m].kind = old[n].kind /\ old[m].leaf = old[n].leaf
    <3>1. new[map[m]].kind = old[m].kind /\ new[map[m]].leaf = old[m].leaf
      BY <1>4
    <3>2. new[map[n]].kind = old[n].kind /\ new[map[n]].leaf = old[n].leaf
      BY <1>4
    <3> QED
      BY <2>0, <3>1, <3>2
  <2>4. old[m].refs = old[n].refs
    <3>1. DOMAIN old[m].refs = DOMAIN old[n].refs
      BY <1>4, <2>0
    <3>2. ASSUME NEW k \in DOMAIN old[m].refs PROVE old[m].refs[k] = old[n].refs[k]
      <4>1. old[m].refs[k] \in 1 .. N /\ old[n].refs[k] \in 1 .. N
        BY <1>4, <3>1
      <4>2. PICK x, y : x = old[m].refs[k] /\ y = old[n].refs[k]
        OBVIOUS
      <4>3. new[map[m]].refs[k] = map[x]
        BY <1>4, <4>2, ZenonT(60)
      <4>4. new[map[n]].refs[k] = map[y]
        BY <1>4, <3>1, <4>2
      <4>5. map[x] = map[y]
        BY <2>0, <4>3, <4>4
      <4>6. x \in 1 .. N /\ y \in 1 .. N
        BY <4>1, <4>2
      <4>7. x = y
        BY <1>2, <4>5, <4>6
      <4> QED
        BY <4>2, <4>7
    <3>3. old[m].refs \in Seq(Nat \ {0}) /\ old[n].refs \in Seq(Nat \ {0})
      BY <1>1, RefsTyped
    <3>4. old[m].refs = [k \in DOMAIN old[m].refs |-> old[m].refs[k]] /\ old[n].refs = [k \in DOMAIN old[n].refs |-> old[n].refs[k]]
      BY <3>3
    <3> QED
      BY <3>1, <3>2, <3>4
  <2>5. old[m] = old[n]
    <3>1. old[m] \in NodeType /\ old[n] \in NodeType
      BY <1>1, RefsTyped
    <3> QED
      BY <2>3, <2>4, <3>1, NodesEqual
  <2> QED
    BY <1>1, <2>1, <2>2, <2>5 DEF Interned
<1>7. Backward(new)
  <2> SUFFICES ASSUME NEW a \in 1 .. N, NEW s \in Ids(new[a].refs) PROVE s < a
    BY <1>1 DEF Backward
  <2>1. PICK m \in 1 .. N : map[m] = a
    BY <1>2
  <2>2. PICK k \in DOMAIN old[m].refs : s = map[old[m].refs[k]]
    <3>1. PICK k \in DOMAIN new[map[m]].refs : s = new[map[m]].refs[k]
      BY <2>1 DEF Ids
    <3>2. k \in DOMAIN old[m].refs /\ new[map[m]].refs[k] = map[old[m].refs[k]]
      BY <1>4, <3>1
    <3> QED
      BY <3>1, <3>2
  <2>3. old[m].refs[k] \in Ids(old[m].refs)
    BY DEF Ids
  <2> QED
    BY <1>2, <2>1, <2>2, <2>3
<1>8. Referenced(new, map[r])
  <2> SUFFICES ASSUME NEW a \in 1 .. N, a # map[r] PROVE \E b \in 1 .. N : a \in Ids(new[b].refs)
    BY <1>1 DEF Referenced
  <2>1. PICK n \in 1 .. N : map[n] = a
    BY <1>2
  <2>2. PICK m \in 1 .. N : n \in Ids(old[m].refs)
    BY <1>1, <2>1 DEF Interned, Referenced
  <2>3. PICK k \in DOMAIN old[m].refs : n = old[m].refs[k]
    BY <2>2 DEF Ids
  <2>4. k \in DOMAIN new[map[m]].refs /\ new[map[m]].refs[k] = a
    BY <1>4, <2>1, <2>3, ZenonT(60)
  <2>5. map[m] \in 1 .. N /\ a \in Ids(new[map[m]].refs)
    BY <1>2, <2>4 DEF Ids
  <2> QED
    BY <2>5
<1>9. ASSUME NEW a \in 1 .. N, new[a].kind = "O" PROVE KeysInOrder(new, new[a])
  <2>1. PICK m \in 1 .. N : map[m] = a
    BY <1>2
  <2>2. KeysInOrder(old, old[m])
    BY <1>1, <1>4, <1>9, <2>1 DEF Interned
  <2>3. old[m].refs \in Seq(Nat \ {0}) /\ new[a].refs \in Seq(Nat \ {0})
    BY <1>1, RefsTyped
  <2>4. PICK l \in Nat : l = Len(old[m].refs) /\ l = Len(new[a].refs) /\ DOMAIN old[m].refs = 1 .. l
    <3>1. DOMAIN new[map[m]].refs = DOMAIN old[m].refs
      BY <1>4
    <3>2. DOMAIN new[a].refs = DOMAIN old[m].refs
      BY <2>1, <3>1
    <3>3. PICK l \in Nat, q \in Nat : l = Len(old[m].refs) /\ q = Len(new[a].refs) /\ DOMAIN old[m].refs = 1 .. l /\ DOMAIN new[a].refs = 1 .. q
      BY <2>3
    <3>4. l = q
      BY <3>2, <3>3
    <3> QED
      BY <3>3, <3>4
  <2> DEFINE ok == Keys(old[m].refs)
             nk == Keys(new[a].refs)
             P == Pairs(old[m].refs)
  <2>5. P = 1 .. (l \div 2) /\ DOMAIN ok = P /\ DOMAIN nk = P
    BY <2>4 DEF Keys, Pairs
  <2>6. ASSUME NEW j \in P
        PROVE  new[nk[j]].kind = old[ok[j]].kind /\ new[nk[j]].leaf = old[ok[j]].leaf
    <3>1. 2 * j - 1 \in 1 .. l
      BY <2>5
    <3>2. PICK q \in DOMAIN old[m].refs : q = 2 * j - 1
      BY <2>4, <3>1
    <3>3. ok[j] = old[m].refs[q] /\ nk[j] = new[a].refs[q]
      BY <2>4, <2>5, <3>2 DEF Keys, Pairs
    <3>4. new[map[m]].refs[q] = map[old[m].refs[q]] /\ old[m].refs[q] \in 1 .. N
      BY <1>4
    <3>5. PICK x \in 1 .. N : x = old[m].refs[q]
      BY <3>4
    <3> HIDE DEF ok, nk
    <3>6. ok[j] = x /\ nk[j] = map[x]
      BY <2>1, <3>3, <3>4, <3>5
    <3>7. new[map[x]].kind = old[x].kind /\ new[map[x]].leaf = old[x].leaf
      BY <1>4
    <3> QED
      BY <3>6, <3>7
  <2>7. \A j \in P : j > 1 => j - 1 \in P
    BY <2>5
  <2>8. \A j \in P : old[ok[j]].kind = "S" /\ (j > 1 => old[ok[j - 1]].leaf < old[ok[j]].leaf)
    BY <2>2, <2>5 DEF KeysInOrder
  <2> HIDE DEF P
  <2>9. \A j \in P : new[nk[j]].kind = "S" /\ (j > 1 => new[nk[j - 1]].leaf < new[nk[j]].leaf)
    <3> HIDE DEF ok, nk
    <3> QED
      BY <2>6, <2>7, <2>8
  <2> QED
    BY <2>5, <2>9 DEF KeysInOrder
<1> QED
  BY <1>1, <1>5, <1>6, <1>7, <1>8, <1>9 DEF Interned

LEMMA FreezeStep ==
    ASSUME GraphInv, Freeze
    PROVE  GraphInv'
<1>0. /\ pc = "rotate" /\ index > Len(nodes) /\ pc' = "received" /\ nodes' = nodes /\ root' = root /\ built' = built
      /\ numbers' = numbers
  BY DEF Freeze, visitVars
<1>1. NumberedInv /\ RotateInv /\ nodes \in Seq(NodeType) /\ root \in Nat
  BY <1>0 DEF GraphInv
<1>2. PICK N \in Nat : N = Len(nodes) /\ DOMAIN nodes = 1 .. N /\ DOMAIN built = 1 .. N
  BY <1>1 DEF NumberedInv
<1>3. \A n \in DOMAIN built : n < index
  BY <1>0, <1>1, <1>2 DEF RotateInv
<1>4. \A n \in DOMAIN built : nodes[numbers[n]] = Renumbered(built[n], numbers)
  BY <1>1, <1>3 DEF RotateInv, Moved
<1>5. PICK r \in DOMAIN built : Interned(built, r) /\ numbers[r] = Len(nodes)
  BY <1>1 DEF NumberedInv
<1>6. built \in Seq(NodeType) /\ Numbering(built, numbers) /\ Len(nodes) = Len(built) /\ root = Len(nodes)
  BY <1>1 DEF NumberedInv
<1>7. Interned(nodes, numbers[r])
  BY <1>1, <1>4, <1>5, <1>6, InternedMoves
<1>8. Interned(nodes, root)
  BY <1>5, <1>6, <1>7
<1>9. {numbers[n] : n \in DOMAIN built} = DOMAIN nodes
  BY <1>2, <1>6 DEF Numbering
<1>10. FrozenIsRenumbered'
  BY <1>0, <1>4, <1>6, <1>8, <1>9 DEF FrozenIsRenumbered
<1>11. FrozenInv'
  BY <1>0, <1>6, <1>8 DEF FrozenInv
<1> QED
  BY <1>0, <1>1, <1>10, <1>11, ToReceived

----------------------------------------------------------------------------
(* The summaries. *)

LEMMA TotalEmpty == Total(<< >>) = 1
<1>1. << >> \in Seq(Nat) /\ Len(<< >>) = 0
  OBVIOUS
<1>2. PICK g \in [0 .. 0 -> Nat] : Sums(<< >>, g)
  BY <1>1, SumsExist
<1>3. Total(<< >>) = g[0]
  BY <1>1, <1>2, TotalIs
<1>4. g[0] = 1
  BY <1>1, <1>2 DEF Sums
<1> QED
  BY <1>3, <1>4

LEMMA TotalAppend ==
    ASSUME NEW w \in Seq(Nat), NEW x \in Nat
    PROVE  Total(Append(w, x)) = Total(w) + x
<1> DEFINE v == Append(w, x)
<1>1. PICK L \in Nat : L = Len(w)
  OBVIOUS
<1>2. v \in Seq(Nat) /\ Len(v) = L + 1 /\ v[L + 1] = x /\ \A k \in 1 .. L : v[k] = w[k]
  BY <1>1
<1> HIDE DEF v
<1>3. PICK g \in [0 .. Len(v) -> Nat] : Sums(v, g)
  BY <1>2, SumsExist
<1>4. g \in [0 .. L + 1 -> Nat]
  BY <1>2, <1>3
<1>5. \A k \in 0 .. L + 1 : g[k] = IF k = 0 THEN 1 ELSE g[k - 1] + v[k]
  BY <1>2, <1>3 DEF Sums
<1> DEFINE h == [k \in 0 .. L |-> g[k]]
<1>6. h \in [0 .. L -> Nat]
  BY <1>4
<1>7. ASSUME NEW k \in 0 .. L PROVE h[k] = IF k = 0 THEN 1 ELSE h[k - 1] + w[k]
  <2>1. h[k] = g[k] /\ (k # 0 => h[k - 1] = g[k - 1] /\ k \in 1 .. L)
    OBVIOUS
  <2>2. k \in 0 .. L + 1
    OBVIOUS
  <2> HIDE DEF h
  <2> QED
    BY <1>2, <1>5, <2>1, <2>2
<1>8. h[L] = g[L]
  OBVIOUS
<1> HIDE DEF h
<1>9. Sums(w, h)
  BY <1>1, <1>6, <1>7 DEF Sums
<1>10. Total(w) = h[L]
  BY <1>1, <1>6, <1>9, TotalIs
<1>11. Total(v) = g[L + 1]
  BY <1>2, <1>3, TotalIs
<1>12. g[L + 1] = g[L] + x
  BY <1>2, <1>5
<1> QED
  BY <1>8, <1>10, <1>11, <1>12 DEF v

LEMMA HeightType ==
    ASSUME NEW w \in Seq(Nat)
    PROVE  Height(w) \in Nat
<1>1. Max({0} \union Ids(w)) \in Nat
  BY HighestIs
<1> QED
  BY <1>1 DEF Height

LEMMA HeightEmpty == Height(<< >>) = 1
<1>1. << >> \in Seq(Nat)
  OBVIOUS
<1>2. Ids(<< >>) = {}
  BY DEF Ids
<1>3. Max({0} \union Ids(<< >>)) \in {0} \union Ids(<< >>)
  BY <1>1, HighestIs
<1>4. Max({0} \union Ids(<< >>)) = 0
  BY <1>2, <1>3
<1> QED
  BY <1>4 DEF Height

LEMMA HeightAppend ==
    ASSUME NEW w \in Seq(Nat), NEW x \in Nat
    PROVE  Height(Append(w, x)) = IF Height(w) > x THEN Height(w) ELSE x + 1
<1> DEFINE v == Append(w, x)
<1>1. PICK L \in Nat : L = Len(w) /\ DOMAIN w = 1 .. L
  OBVIOUS
<1>2. v \in Seq(Nat) /\ DOMAIN v = 1 .. L + 1 /\ v[L + 1] = x /\ \A k \in 1 .. L : v[k] = w[k]
  BY <1>1
<1> HIDE DEF v
<1>3. PICK a \in Nat : a = Max({0} \union Ids(w))
  BY HighestIs
<1>4. PICK b \in Nat : b = Max({0} \union Ids(v))
  BY <1>2, HighestIs
<1>5. a \in {0} \union Ids(w) /\ \A k \in 1 .. L : w[k] <= a
  BY <1>1, <1>3, HighestIs
<1>6. b \in {0} \union Ids(v) /\ \A k \in 1 .. L + 1 : v[k] <= b
  BY <1>2, <1>4, HighestIs
<1>7. Ids(v) = Ids(w) \union {x}
  BY <1>1, <1>2 DEF Ids
<1>8. x <= b
  <2>1. L + 1 \in 1 .. L + 1
    OBVIOUS
  <2> QED
    BY <1>2, <1>6, <2>1
<1>9. a <= b
  <2>1. CASE a = 0
    BY <2>1
  <2>2. CASE a \in Ids(w)
    <3>1. PICK k \in 1 .. L : w[k] = a
      BY <1>1, <2>2 DEF Ids
    <3>2. k \in 1 .. L + 1
      OBVIOUS
    <3> QED
      BY <1>2, <1>6, <3>1, <3>2
  <2> QED
    BY <1>5, <2>1, <2>2
<1>10. b = x \/ b <= a
  <2>1. CASE b = 0
    BY <2>1
  <2>2. CASE b \in Ids(w)
    <3>1. PICK k \in 1 .. L : w[k] = b
      BY <1>1, <2>2 DEF Ids
    <3> QED
      BY <1>5, <3>1
  <2> QED
    BY <1>6, <1>7, <2>1, <2>2
<1>11. Height(w) = 1 + a /\ Height(v) = 1 + b
  BY <1>3, <1>4 DEF Height
<1>12. Height(v) = IF Height(w) > x THEN Height(w) ELSE x + 1
  BY <1>8, <1>9, <1>10, <1>11
<1> QED
  BY <1>12 DEF v

LEMMA PrefixIs ==
    ASSUME NEW s \in Seq(Nat \ {0}), NEW k \in 0 .. Len(s)
    PROVE  /\ Prefix(s, k) \in Seq(Nat \ {0}) /\ DOMAIN Prefix(s, k) = 1 .. k /\ Len(Prefix(s, k)) = k
           /\ \A j \in 1 .. k : Prefix(s, k)[j] = s[j] /\ j \in DOMAIN s
<1>1. PICK L \in Nat : L = Len(s) /\ DOMAIN s = 1 .. L
  OBVIOUS
<1>2. k \in Nat /\ k <= L
  BY <1>1
<1>3. SubSeq(s, 1, k) \in Seq(Nat \ {0}) /\ Len(SubSeq(s, 1, k)) = k
  BY <1>1, <1>2
<1>4. \A j \in 1 .. k : SubSeq(s, 1, k)[j] = s[j]
  BY <1>1, <1>2
<1> QED
  BY <1>1, <1>2, <1>3, <1>4 DEF Prefix

\* What was seen before the first reference, after all, and after one more.
LEMMA PrefixNone ==
    ASSUME NEW s \in Seq(Nat \ {0}), NEW f
    PROVE  Ids(Prefix(s, 0)) = {} /\ Compose(f, Prefix(s, 0)) = << >>
<1>1. 0 \in 0 .. Len(s)
  OBVIOUS
<1>2. DOMAIN Prefix(s, 0) = {} /\ Prefix(s, 0) \in Seq(Nat \ {0}) /\ Len(Prefix(s, 0)) = 0
  BY <1>1, PrefixIs
<1>3. Compose(f, Prefix(s, 0)) \in [1 .. 0 -> Nat]
  BY <1>2 DEF Compose
<1>4. Compose(f, Prefix(s, 0)) \in Seq(Nat) /\ Len(Compose(f, Prefix(s, 0))) = 0
  BY <1>3, SeqOf
<1>5. Compose(f, Prefix(s, 0)) = << >>
  BY <1>4
<1> QED
  BY <1>2, <1>5 DEF Ids

LEMMA PrefixAll ==
    ASSUME NEW s \in Seq(Nat \ {0})
    PROVE  Prefix(s, Len(s)) = s
<1>1. PICK L \in Nat : L = Len(s) /\ DOMAIN s = 1 .. L
  OBVIOUS
<1>2. DOMAIN Prefix(s, L) = 1 .. L /\ \A j \in 1 .. L : Prefix(s, L)[j] = s[j]
  BY <1>1, PrefixIs
<1>3. Prefix(s, L) \in Seq(Nat \ {0})
  BY <1>1, PrefixIs
<1> QED
  BY <1>1, <1>2, <1>3

LEMMA PrefixMore ==
    ASSUME NEW s \in Seq(Nat \ {0}), NEW k \in 1 .. Len(s), NEW f
    PROVE  /\ Ids(Prefix(s, k)) = Ids(Prefix(s, k - 1)) \union {s[k]}
           /\ Compose(f, Prefix(s, k)) = Append(Compose(f, Prefix(s, k - 1)), f[s[k]])
<1>1. PICK L \in Nat : L = Len(s) /\ DOMAIN s = 1 .. L
  OBVIOUS
<1>2. k \in 0 .. Len(s) /\ k - 1 \in 0 .. Len(s) /\ k \in Nat \ {0}
  BY <1>1
<1> DEFINE a == Prefix(s, k)
           b == Prefix(s, k - 1)
<1>3. DOMAIN a = 1 .. k /\ \A j \in 1 .. k : a[j] = s[j]
  BY <1>2, PrefixIs
<1>4. DOMAIN b = 1 .. k - 1 /\ \A j \in 1 .. k - 1 : b[j] = s[j]
  BY <1>2, PrefixIs
<1> HIDE DEF a, b
<1>5. Ids(a) = Ids(b) \union {s[k]}
  <2>1. Ids(a) = {s[j] : j \in 1 .. k}
    BY <1>3 DEF Ids
  <2>2. Ids(b) = {s[j] : j \in 1 .. k - 1}
    BY <1>4 DEF Ids
  <2>3. 1 .. k = (1 .. k - 1) \union {k}
    BY <1>2
  <2> QED
    BY <2>1, <2>2, <2>3
<1> DEFINE c == Compose(f, b)
<1>6. c = [j \in 1 .. k - 1 |-> f[s[j]]]
  BY <1>4 DEF Compose
<1>7. Compose(f, a) = [j \in 1 .. k |-> f[s[j]]]
  BY <1>3 DEF Compose
<1> HIDE DEF c
<1> DEFINE V == {f[s[j]] : j \in 1 .. k}
<1>8. c \in [1 .. k - 1 -> V]
  BY <1>2, <1>6
<1>9. c \in Seq(V) /\ Len(c) = k - 1 /\ f[s[k]] \in V
  <2>1. k - 1 \in Nat
    BY <1>2
  <2>2. f[s[k]] \in V
    BY <1>2
  <2> HIDE DEF V
  <2> QED
    BY <1>8, <2>1, <2>2, SeqOf
<1> HIDE DEF V
<1>10. /\ Append(c, f[s[k]]) \in Seq(V) /\ DOMAIN Append(c, f[s[k]]) = 1 .. k
       /\ Append(c, f[s[k]])[k] = f[s[k]] /\ \A j \in 1 .. k - 1 : Append(c, f[s[k]])[j] = c[j]
  BY <1>2, <1>9
<1>11. \A j \in 1 .. k : Append(c, f[s[k]])[j] = f[s[j]]
  <2> SUFFICES ASSUME NEW j \in 1 .. k PROVE Append(c, f[s[k]])[j] = f[s[j]]
    OBVIOUS
  <2>1. j = k \/ j \in 1 .. k - 1
    BY <1>2
  <2> QED
    BY <1>6, <1>10, <2>1
<1>12. Append(c, f[s[k]]) = [j \in 1 .. k |-> f[s[j]]]
  BY <1>10, <1>11
<1> QED
  BY <1>5, <1>7, <1>12 DEF a, b, c

LEMMA BuildStep ==
    ASSUME GraphInv, Build
    PROVE  GraphInv'
<1>1. built = << >> /\ built' = built /\ nodes' \in Seq(NodeType) /\ root' \in Nat
  BY DEF GraphInv, Build, visitVars
<1>2. CASE pc' = "order" /\ Interned(nodes', root')
  BY <1>1, <1>2 DEF GraphInv, FrozenIsRenumbered, FrozenIsAccepted, Stages
<1>3. CASE pc' = "unencodable"
  BY <1>1, <1>3 DEF GraphInv, FrozenIsRenumbered, FrozenIsAccepted, Stages
<1> QED
  BY <1>2, <1>3 DEF Build

\* Nothing of a node is accounted yet.
LEMMA FreshAccount ==
    ASSUME NEW s \in Seq(Nat \ {0}), NEW f, NEW g
    PROVE  /\ Ids(Prefix(s, 1 - 1)) = {}
           /\ SaturatingAdd(Total(Compose(f, Prefix(s, 1 - 1))), 0) = 1
           /\ Height(Compose(g, Prefix(s, 1 - 1))) = 1
<1>1. 1 - 1 = 0
  OBVIOUS
<1>2. Ids(Prefix(s, 0)) = {} /\ Compose(f, Prefix(s, 0)) = << >> /\ Compose(g, Prefix(s, 0)) = << >>
  BY PrefixNone
<1>3. SaturatingAdd(1, 0) = 1
  BY LimitsAssumption DEF SaturatingAdd
<1> QED
  BY <1>1, <1>2, <1>3, TotalEmpty, HeightEmpty

LEMMA OpenGraphStep ==
    ASSUME GraphInv, OpenGraph
    PROVE  GraphInv'
<1>0. /\ pc = "received" /\ pc' = IF nodes = << >> \/ root # Len(nodes) THEN "refused" ELSE "validate"
      /\ index' = 1 /\ slot' = 1 /\ size' = 1 /\ depth' = 1 /\ sizes' = << >> /\ depths' = << >> /\ reached' = {root}
      /\ nodes' = nodes /\ root' = root /\ built' = built
  BY DEF OpenGraph, visitVars
<1>1. nodes \in Seq(NodeType) /\ root \in Nat /\ FrozenInv
  BY <1>0 DEF GraphInv
<1>2. CASE nodes = << >> \/ root # Len(nodes)
  <2>1. pc' = "refused"
    BY <1>0, <1>2
  <2>2. built = << >>
    <3> SUFFICES ASSUME built # << >> PROVE FALSE
      OBVIOUS
    <3>1. root \in DOMAIN nodes /\ root = Len(nodes)
      BY <1>1 DEF FrozenInv, Interned
    <3> QED
      BY <1>2, <3>1
  <2> QED
    BY <1>0, <1>1, <2>1, <2>2, ToRefused
<1>3. CASE ~(nodes = << >> \/ root # Len(nodes))
  <2>1. pc' = "validate"
    BY <1>0, <1>3
  <2>2. SummaryInv'
    BY <1>0, <1>1 DEF SummaryInv
  <2>3. PICK s \in Seq(Nat \ {0}) : s = nodes[1].refs /\ 1 \in DOMAIN nodes
    <3>1. 1 \in DOMAIN nodes
      BY <1>1, <1>3
    <3> QED
      BY <1>1, <3>1, RefsTyped
  <2>4. PICK q \in Nat : q = Len(s)
    OBVIOUS
  <2>5. /\ slot' \in 1 .. Len(nodes'[index'].refs) + 1
        /\ index' \in DOMAIN nodes' /\ Len(sizes') = index' - 1
    BY <1>0, <2>3, <2>4
  <2>6. nodes'[index'].refs = s /\ slot' - 1 = 1 - 1
    BY <1>0, <2>3
  <2>7. /\ \A r \in Ids(Prefix(nodes'[index'].refs, slot' - 1)) : r < index'
        /\ size' = SaturatingAdd(Total(Compose(sizes', Prefix(nodes'[index'].refs, slot' - 1))), 0)
        /\ depth' = Height(Compose(depths', Prefix(nodes'[index'].refs, slot' - 1)))
    BY <1>0, <2>6, FreshAccount
  <2>8. AccountInv'
    BY <1>0, <1>3, <2>5, <2>7 DEF AccountInv
  <2>9. FrozenInv'
    BY <1>0, <1>1 DEF FrozenInv
  <2> QED
    BY <1>0, <1>1, <2>1, <2>2, <2>8, <2>9, ToValidate
<1> QED
  BY <1>2, <1>3

\* The references that were accounted have summaries.
LEMMA SeenTyped ==
    ASSUME NEW s \in Seq(Nat \ {0}), NEW f \in Seq(Nat), NEW k \in 0 .. Len(s), \A r \in Ids(Prefix(s, k)) : r < Len(f) + 1
    PROVE  Compose(f, Prefix(s, k)) \in Seq(Nat) /\ \A r \in Ids(Prefix(s, k)) : r \in DOMAIN f
<1>1. PICK L \in Nat : L = Len(f) /\ DOMAIN f = 1 .. L
  OBVIOUS
<1>2. DOMAIN Prefix(s, k) = 1 .. k /\ Prefix(s, k) \in Seq(Nat \ {0}) /\ k \in Nat
  BY PrefixIs
<1> DEFINE b == Prefix(s, k)
<1>3. \A j \in 1 .. k : b[j] \in Nat \ {0}
  BY <1>2
<1>4. \A j \in 1 .. k : b[j] \in Ids(b)
  BY <1>2 DEF Ids
<1> HIDE DEF b
<1>5. \A j \in 1 .. k : b[j] \in 1 .. L
  <2>1. \A r \in Ids(b) : r < L + 1
    BY <1>1 DEF b
  <2> QED
    BY <1>1, <1>3, <1>4, <2>1
<1>6. \A j \in 1 .. k : f[b[j]] \in Nat
  BY <1>1, <1>5
<1>7. Compose(f, b) \in [1 .. k -> Nat]
  BY <1>2, <1>6 DEF Compose, b
<1>8. Compose(f, b) \in Seq(Nat)
  BY <1>2, <1>7, SeqOf
<1>9. \A r \in Ids(b) : r \in DOMAIN f
  BY <1>1, <1>2, <1>5 DEF Ids, b
<1> QED
  BY <1>8, <1>9 DEF b

LEMMA Saturates ==
    ASSUME NEW t \in Nat, NEW x \in Nat
    PROVE  SaturatingAdd(SaturatingAdd(t, 0), x) = SaturatingAdd(t + x, 0)
BY LimitsAssumption DEF SaturatingAdd

LEMMA AccountRefStep ==
    ASSUME GraphInv, AccountRef
    PROVE  GraphInv'
<1>0. /\ pc = "validate" /\ slot <= Len(nodes[index].refs)
      /\ nodes' = nodes /\ root' = root /\ built' = built /\ index' = index /\ sizes' = sizes /\ depths' = depths
      /\ reached' = reached
  BY DEF AccountRef, visitVars
<1>1. nodes \in Seq(NodeType) /\ root \in Nat /\ FrozenInv /\ SummaryInv /\ AccountInv
  BY <1>0 DEF GraphInv
<1>2. PICK s \in Seq(Nat \ {0}) : s = nodes[index].refs
  BY <1>1, RefsTyped DEF AccountInv
<1>3. /\ index \in DOMAIN nodes /\ index \in Nat \ {0}
      /\ sizes \in Seq(Nat) /\ depths \in Seq(Nat) /\ Len(sizes) = index - 1 /\ Len(depths) = index - 1
  BY <1>1 DEF AccountInv, SummaryInv
<1>4. PICK q \in Nat : q = Len(s) /\ DOMAIN s = 1 .. q
  OBVIOUS
<1>5. slot \in 1 .. q
  BY <1>0, <1>1, <1>2, <1>4 DEF AccountInv
<1>6. PICK r \in Nat \ {0} : r = s[slot]
  BY <1>4, <1>5
<1>7. CASE r >= index
  <2>1. pc' = "refused"
    BY <1>2, <1>6, <1>7 DEF AccountRef
  <2>2. built = << >>
    <3> SUFFICES ASSUME built # << >> PROVE FALSE
      OBVIOUS
    <3>1. Backward(nodes)
      BY <1>1 DEF FrozenInv, Interned
    <3>2. r \in Ids(nodes[index].refs)
      BY <1>2, <1>4, <1>5, <1>6 DEF Ids
    <3>3. r < index
      BY <1>3, <3>1, <3>2 DEF Backward
    <3> QED
      BY <1>3, <1>7, <3>3
  <2> QED
    BY <1>0, <1>1, <2>1, <2>2, ToRefused
<1>8. CASE ~(r >= index)
  <2>1. /\ size' = SaturatingAdd(size, sizes[r]) /\ depth' = (IF depth > depths[r] THEN depth ELSE depths[r] + 1)
        /\ slot' = slot + 1 /\ pc' = "validate"
    BY <1>0, <1>2, <1>6, <1>8 DEF AccountRef
  <2>2. r < index /\ r \in DOMAIN sizes /\ r \in DOMAIN depths /\ sizes[r] \in Nat /\ depths[r] \in Nat
    BY <1>3, <1>6, <1>8, SMTT(60)
  <2> DEFINE seen == Prefix(s, slot - 1)
  <2>3. /\ \A x \in Ids(seen) : x < index
        /\ size = SaturatingAdd(Total(Compose(sizes, seen)), 0)
        /\ depth = Height(Compose(depths, seen))
    BY <1>1, <1>2 DEF AccountInv
  <2>4. slot - 1 \in 0 .. Len(s) /\ Len(sizes) + 1 = index /\ Len(depths) + 1 = index
    BY <1>3, <1>4, <1>5
  <2>5. Compose(sizes, seen) \in Seq(Nat) /\ Compose(depths, seen) \in Seq(Nat)
    <3>1. Compose(sizes, seen) \in Seq(Nat)
      BY <1>3, <2>3, <2>4, SeenTyped
    <3>2. Compose(depths, seen) \in Seq(Nat)
      BY <1>3, <2>3, <2>4, SeenTyped
    <3> QED
      BY <3>1, <3>2
  <2>6. /\ Ids(Prefix(s, slot)) = Ids(seen) \union {r}
        /\ Compose(sizes, Prefix(s, slot)) = Append(Compose(sizes, seen), sizes[r])
        /\ Compose(depths, Prefix(s, slot)) = Append(Compose(depths, seen), depths[r])
    BY <1>4, <1>5, <1>6, PrefixMore
  <2> HIDE DEF seen
  <2>7. size' = SaturatingAdd(Total(Compose(sizes, Prefix(s, slot))), 0)
    <3>1. PICK t \in Nat : t = Total(Compose(sizes, seen))
      BY <2>5, TotalType
    <3>2. Total(Compose(sizes, Prefix(s, slot))) = t + sizes[r]
      BY <2>2, <2>5, <2>6, <3>1, TotalAppend
    <3> QED
      BY <2>1, <2>2, <2>3, <3>1, <3>2, Saturates
  <2>8. depth' = Height(Compose(depths, Prefix(s, slot)))
    BY <2>1, <2>2, <2>3, <2>5, <2>6, HeightAppend
  <2>9. slot' - 1 = slot /\ slot' \in 1 .. q + 1
    BY <1>5, <2>1
  <2>10. \A x \in Ids(Prefix(s, slot)) : x < index
    BY <2>2, <2>3, <2>6
  <2>11. AccountInv'
    <3>1. /\ nodes # << >> /\ root = Len(nodes) /\ reached = {root}
          /\ index \in DOMAIN nodes /\ Len(sizes) = index - 1
      BY <1>1 DEF AccountInv
    <3> QED
      BY <1>0, <1>2, <1>4, <2>7, <2>8, <2>9, <2>10, <3>1 DEF AccountInv
  <2>12. SummaryInv'
    BY <1>0, <1>1 DEF SummaryInv
  <2>13. FrozenInv'
    BY <1>0, <1>1 DEF FrozenInv
  <2> QED
    BY <1>0, <1>1, <2>1, <2>11, <2>12, <2>13, ToValidate
<1> QED
  BY <1>7, <1>8

\* The summaries of the nodes before a bound are what they expand to.
LEMMA SummariesExact ==
    ASSUME nodes \in Seq(NodeType), Backward(nodes), SummaryInv
    PROVE  \A n \in DOMAIN sizes : n \in DOMAIN nodes /\ Expanded[n] = sizes[n] /\ Levels[n] = depths[n]
<1>1. PICK b \in 0 .. Len(nodes) : b = Len(sizes) /\ DOMAIN sizes = 1 .. b /\ 1 .. b \subseteq DOMAIN nodes
  BY DEF SummaryInv
<1>2. \A n \in 1 .. b : \A r \in Ids(nodes[n].refs) : r < n
  BY <1>1 DEF SummaryInv
<1>3. \A n \in 1 .. b : sizes[n] = Total(Compose(sizes, nodes[n].refs)) /\ depths[n] = 1 + Max({0} \union Ids(Compose(depths, nodes[n].refs)))
  BY <1>1 DEF SummaryInv, Height
<1>4. \A n \in 1 .. b : Expanded[n] = Total(Compose(Expanded, nodes[n].refs))
  BY <1>1, ExpandedIs
<1>5. \A n \in 1 .. b : Levels[n] = 1 + Max({0} \union Ids(Compose(Levels, nodes[n].refs)))
  BY <1>1, LevelsIs
<1>6. \A n \in 1 .. b : Expanded[n] = sizes[n]
  <2>1. \A n \in 1 .. b : Compose(Expanded, nodes[n].refs) = Compose(sizes, nodes[n].refs) => Expanded[n] = sizes[n]
    BY <1>3, <1>4
  <2> QED
    BY <1>2, <2>1, RecursionUnique
<1>7. \A n \in 1 .. b : Levels[n] = depths[n]
  <2>1. \A n \in 1 .. b : Compose(Levels, nodes[n].refs) = Compose(depths, nodes[n].refs) => Levels[n] = depths[n]
    BY <1>3, <1>5
  <2> QED
    BY <1>2, <2>1, RecursionUnique
<1> QED
  BY <1>1, <1>6, <1>7

LEMMA FinishNodeStep ==
    ASSUME GraphInv, FinishNode
    PROVE  GraphInv'
<1>0. /\ pc = "validate" /\ slot > Len(nodes[index].refs)
      /\ nodes' = nodes /\ root' = root /\ built' = built /\ reached' = reached
  BY DEF FinishNode, visitVars
<1>1. nodes \in Seq(NodeType) /\ root \in Nat /\ FrozenInv /\ SummaryInv /\ AccountInv
  BY <1>0 DEF GraphInv
<1>2. PICK s \in Seq(Nat \ {0}) : s = nodes[index].refs
  BY <1>1, RefsTyped DEF AccountInv
<1>3. PICK N \in Nat : N = Len(nodes) /\ DOMAIN nodes = 1 .. N
  BY <1>1
<1>4. PICK i \in 1 .. N : i = index
  BY <1>1, <1>3 DEF AccountInv
<1>5. /\ sizes \in Seq(Nat) /\ depths \in Seq(Nat) /\ Len(sizes) = i - 1 /\ Len(depths) = i - 1
      /\ DOMAIN sizes = 1 .. i - 1 /\ DOMAIN depths = 1 .. i - 1
  <2>1. sizes \in Seq(Nat) /\ depths \in Seq(Nat) /\ Len(sizes) = Len(depths)
    BY <1>1 DEF SummaryInv
  <2>2. Len(sizes) = i - 1
    BY <1>1, <1>4 DEF AccountInv
  <2>3. PICK l \in Nat : l = Len(sizes) /\ l = Len(depths) /\ DOMAIN sizes = 1 .. l /\ DOMAIN depths = 1 .. l
    BY <2>1
  <2>4. l = i - 1
    BY <2>2, <2>3
  <2> QED
    BY <2>1, <2>3, <2>4
<1>6. slot - 1 = Len(s) /\ Prefix(s, slot - 1) = s
  <2>1. PICK q \in Nat : q = Len(s)
    OBVIOUS
  <2>2. slot \in 1 .. Len(nodes[index].refs) + 1
    BY <1>1 DEF AccountInv
  <2>3. slot \in 1 .. q + 1 /\ slot > q
    BY <1>0, <1>2, <2>1, <2>2
  <2>4. slot - 1 = q
    BY <2>3
  <2> QED
    BY <2>1, <2>4, PrefixAll
<1>7. PICK t \in Nat : t = Total(Compose(sizes, s))
  <2>1. Len(s) \in 0 .. Len(s) /\ Len(sizes) + 1 = i
    BY <1>4, <1>5
  <2>2. \A r \in Ids(Prefix(s, Len(s))) : r < Len(sizes) + 1
    BY <1>1, <1>2, <1>4, <1>6, <2>1 DEF AccountInv
  <2>3. Compose(sizes, Prefix(s, Len(s))) \in Seq(Nat)
    BY <1>5, <2>1, <2>2, SeenTyped
  <2> QED
    BY <1>6, <2>3, TotalType
<1>8. PICK h \in Nat : h = Height(Compose(depths, s))
  <2>1. Len(s) \in 0 .. Len(s) /\ Len(depths) + 1 = i
    BY <1>4, <1>5
  <2>2. \A r \in Ids(Prefix(s, Len(s))) : r < Len(depths) + 1
    BY <1>1, <1>2, <1>4, <1>6, <2>1 DEF AccountInv
  <2>3. Compose(depths, Prefix(s, Len(s))) \in Seq(Nat)
    BY <1>5, <2>1, <2>2, SeenTyped
  <2> QED
    BY <1>6, <2>3, HeightType
<1>9. size = SaturatingAdd(t, 0) /\ depth = h /\ \A r \in Ids(s) : r < i
  BY <1>1, <1>2, <1>4, <1>6, <1>7, <1>8 DEF AccountInv
<1>10. size \in Nat /\ size <= t /\ (size <= MaxExpanded => size = t)
  BY <1>9, LimitsAssumption DEF SaturatingAdd
<1> DEFINE Wrong == nodes[index].kind = "O" /\ ~KeysInOrder(nodes, nodes[index])
<1>11. CASE depth > MaxDepth \/ size > MaxExpanded \/ Wrong
  <2>1. pc' = "refused"
    BY <1>11 DEF FinishNode
  <2>2. built # << >> => TooLarge
    <3> SUFFICES ASSUME built # << >> PROVE TooLarge
      OBVIOUS
    <3>1. Interned(nodes, root) /\ Backward(nodes)
      BY <1>1 DEF FrozenInv, Interned
    <3>2. ~Wrong
      BY <1>3, <1>4, <3>1 DEF Interned
    <3>3. \A n \in 1 .. i - 1 : Expanded[n] = sizes[n] /\ Levels[n] = depths[n]
      BY <1>1, <1>5, <3>1, SummariesExact
    <3>4. \A k \in DOMAIN s : s[k] \in 1 .. i - 1
      BY <1>1, <1>2, <1>3, <1>4, <3>1, RefsBackward
    <3>5. Compose(Expanded, s) = Compose(sizes, s) /\ Compose(Levels, s) = Compose(depths, s)
      BY <3>3, <3>4 DEF Compose
    <3>6. Expanded[i] = t
      BY <1>1, <1>2, <1>3, <1>4, <1>7, <3>1, <3>5, ExpandedIs
    <3>7. Levels[i] = h
      BY <1>1, <1>2, <1>3, <1>4, <1>8, <3>1, <3>5, LevelsIs DEF Height
    <3>8. depth > MaxDepth \/ size > MaxExpanded
      BY <1>11, <3>2
    <3>9. Levels[i] > MaxDepth \/ Expanded[i] > MaxExpanded
      BY <1>9, <1>10, <3>6, <3>7, <3>8, LimitsAssumption
    <3> QED
      BY <1>3, <3>9 DEF TooLarge
  <2>3. (built # << >> => TooLarge)'
    BY <1>0, <2>2, TooLargeStays
  <2> QED
    BY <1>0, <1>1, <2>1, <2>3, ToRefused
<1>12. CASE ~(depth > MaxDepth \/ size > MaxExpanded \/ Wrong)
  <2>1. /\ sizes' = Append(sizes, size) /\ depths' = Append(depths, depth)
        /\ slot' = 1 /\ size' = 1 /\ depth' = 1 /\ index' = index + 1
        /\ pc' = IF index = Len(nodes) THEN "reach" ELSE pc
    BY <1>12 DEF FinishNode
  <2>2. size = t /\ t <= MaxExpanded /\ h <= MaxDepth /\ ~Wrong
    BY <1>9, <1>10, <1>12, LimitsAssumption
  <2>3. /\ sizes' \in Seq(Nat) /\ Len(sizes') = i /\ DOMAIN sizes' = 1 .. i
        /\ sizes'[i] = t /\ \A n \in 1 .. i - 1 : sizes'[n] = sizes[n]
    BY <1>5, <2>1, <2>2
  <2>4. /\ depths' \in Seq(Nat) /\ Len(depths') = i /\ DOMAIN depths' = 1 .. i
        /\ depths'[i] = h /\ \A n \in 1 .. i - 1 : depths'[n] = depths[n]
    BY <1>5, <1>9, <2>1
  <2>5. ASSUME NEW n \in 1 .. i
        PROVE  /\ \A r \in Ids(nodes[n].refs) : r < n
               /\ nodes[n].kind = "O" => KeysInOrder(nodes, nodes[n])
               /\ sizes'[n] = Total(Compose(sizes, nodes[n].refs)) /\ sizes'[n] <= MaxExpanded
               /\ depths'[n] = Height(Compose(depths, nodes[n].refs)) /\ depths'[n] <= MaxDepth
    <3>1. CASE n = i
      BY <1>2, <1>4, <1>7, <1>8, <1>9, <2>2, <2>3, <2>4, <3>1
    <3>2. CASE n # i
      <4>1. n \in 1 .. i - 1
        BY <3>2
      <4> QED
        BY <1>1, <1>5, <2>3, <2>4, <4>1 DEF SummaryInv
    <3> QED
      BY <3>1, <3>2
  <2>6. ASSUME NEW n \in 1 .. i
        PROVE  Compose(sizes', nodes[n].refs) = Compose(sizes, nodes[n].refs) /\ Compose(depths', nodes[n].refs) = Compose(depths, nodes[n].refs)
    <3>1. n \in DOMAIN nodes
      BY <1>3
    <3>2. nodes[n].refs \in Seq(Nat \ {0})
      BY <1>1, <3>1, RefsTyped
    <3>3. ASSUME NEW k \in DOMAIN nodes[n].refs PROVE nodes[n].refs[k] \in 1 .. i - 1
      <4>1. PICK x \in Nat \ {0} : x = nodes[n].refs[k]
        BY <3>2
      <4>2. x \in Ids(nodes[n].refs)
        BY <4>1 DEF Ids
      <4>3. x < n
        BY <2>5, <4>2
      <4>4. x \in 1 .. i - 1
        BY <4>3
      <4> QED
        BY <4>1, <4>4
    <3> QED
      BY <2>3, <2>4, <3>3 DEF Compose
  <2>7. SummaryInv'
    <3>1. Len(sizes') <= Len(nodes')
      BY <1>0, <1>3, <2>3
    <3> QED
      BY <1>0, <2>3, <2>4, <2>5, <2>6, <3>1 DEF SummaryInv
  <2>8. FrozenInv'
    BY <1>0, <1>1 DEF FrozenInv
  <2>9. root = N /\ reached = {root} /\ nodes # << >>
    BY <1>1, <1>3 DEF AccountInv
  <2>10. CASE i = N
    <3>1. pc' = "reach" /\ index' = N + 1
      BY <1>3, <1>4, <2>1, <2>10
    <3>2. ReachInv'
      <4>1. \A m \in 1 .. N : ~(m >= N + 1)
        OBVIOUS
      <4>2. N + 1 \in 2 .. N + 1
        BY <1>4
      <4> QED
        BY <1>0, <1>3, <2>3, <2>9, <2>10, <3>1, <4>1, <4>2 DEF ReachInv
    <3> QED
      BY <1>0, <1>1, <2>7, <2>8, <3>1, <3>2, ToReach
  <2>11. CASE i # N
    <3>1. pc' = "validate" /\ index' = i + 1 /\ i + 1 \in 1 .. N
      BY <1>0, <1>3, <1>4, <2>1, <2>11
    <3>2. PICK u \in Seq(Nat \ {0}) : u = nodes'[index'].refs
      BY <1>0, <1>1, <1>3, <3>1, RefsTyped
    <3>3. PICK q \in Nat : q = Len(u)
      OBVIOUS
    <3>4. slot' \in 1 .. Len(nodes'[index'].refs) + 1 /\ slot' - 1 = 1 - 1
      BY <2>1, <3>2, <3>3
    <3>5. /\ \A r \in Ids(Prefix(nodes'[index'].refs, slot' - 1)) : r < index'
          /\ size' = SaturatingAdd(Total(Compose(sizes', Prefix(nodes'[index'].refs, slot' - 1))), 0)
          /\ depth' = Height(Compose(depths', Prefix(nodes'[index'].refs, slot' - 1)))
      BY <2>1, <3>2, <3>4, FreshAccount
    <3>6. index' \in DOMAIN nodes' /\ Len(sizes') = index' - 1
      BY <1>0, <1>3, <2>3, <3>1
    <3>7. nodes' # << >> /\ root' = Len(nodes') /\ reached' = {root'}
      BY <1>0, <1>3, <2>9
    <3>8. AccountInv'
      BY <3>4, <3>5, <3>6, <3>7 DEF AccountInv
    <3> QED
      BY <1>0, <1>1, <2>7, <2>8, <3>1, <3>8, ToValidate
  <2> QED
    BY <2>10, <2>11
<1> QED
  BY <1>11, <1>12

LEMMA ReachNodeStep ==
    ASSUME GraphInv, ReachNode
    PROVE  GraphInv'
<1>0. /\ pc = "reach" /\ nodes' = nodes /\ root' = root /\ built' = built /\ sizes' = sizes /\ depths' = depths
  BY DEF ReachNode, visitVars
<1>1. nodes \in Seq(NodeType) /\ root \in Nat /\ FrozenInv /\ SummaryInv /\ ReachInv
  BY <1>0 DEF GraphInv
<1>2. PICK N \in Nat : N = Len(nodes) /\ DOMAIN nodes = 1 .. N /\ Len(sizes) = N /\ root = N
  BY <1>1 DEF ReachInv
<1>3. PICK i \in 2 .. N + 1 : i = index
  BY <1>1, <1>2 DEF ReachInv
<1>4. PICK n \in 1 .. N : n = index - 1 /\ n = i - 1
  BY <1>3
<1>5. /\ root \in reached
      /\ \A m \in 1 .. N : m >= i => m \in reached /\ Ids(nodes[m].refs) \subseteq reached
      /\ \A x \in reached : x = root \/ \E m \in 1 .. N : m >= i /\ x \in Ids(nodes[m].refs)
  BY <1>1, <1>2, <1>3 DEF ReachInv
<1>6. SummaryInv'
  BY <1>0, <1>1 DEF SummaryInv
<1>7. FrozenInv'
  BY <1>0, <1>1 DEF FrozenInv
<1>8. CASE n \notin reached
  <2>1. pc' = "refused"
    BY <1>4, <1>8 DEF ReachNode
  <2>2. built = << >>
    <3> SUFFICES ASSUME built # << >> PROVE FALSE
      OBVIOUS
    <3>1. Referenced(nodes, root) /\ Backward(nodes)
      BY <1>1 DEF FrozenInv, Interned
    <3>2. n # root
      BY <1>5, <1>8
    <3>3. PICK m \in 1 .. N : n \in Ids(nodes[m].refs)
      BY <1>2, <3>1, <3>2 DEF Referenced
    <3>4. n < m
      BY <1>2, <3>1, <3>3 DEF Backward
    <3>5. m >= i
      BY <1>4, <3>4
    <3> QED
      BY <1>5, <1>8, <3>3, <3>5
  <2> QED
    BY <1>0, <1>1, <2>1, <2>2, ToRefused
<1>9. CASE n \in reached
  <2>1. /\ reached' = reached \union Ids(nodes[n].refs) /\ index' = n
        /\ pc' = IF n = 1 THEN "decode" ELSE pc
    BY <1>4, <1>9 DEF ReachNode
  <2>2. \A m \in 1 .. N : m >= n => m = n \/ m >= i
    BY <1>4
  <2>3. CASE n = 1
    <3>1. pc' = "decode"
      BY <2>1, <2>3
    <3>2. Referenced(nodes, root)
      <4> SUFFICES ASSUME NEW x \in 1 .. N, x # root PROVE \E m \in 1 .. N : x \in Ids(nodes[m].refs)
        BY <1>2 DEF Referenced
      <4>1. x >= n
        BY <2>3
      <4>2. x \in reached
        BY <1>5, <1>9, <2>2, <4>1
      <4> QED
        BY <1>5, <4>2
    <3>3. AcceptedInv'
      <4>1. nodes # << >>
        BY <1>2, <1>4
      <4> QED
        BY <1>0, <1>2, <3>2, <4>1 DEF AcceptedInv
    <3> QED
      BY <1>0, <1>1, <1>6, <3>1, <3>3, ToDecode
  <2>4. CASE n # 1
    <3>1. pc' = "reach"
      BY <1>0, <2>1, <2>4
    <3>2. n \in 2 .. N + 1
      BY <2>4
    <3>3. \A m \in 1 .. N : m >= n => m \in reached' /\ Ids(nodes[m].refs) \subseteq reached'
      BY <1>5, <1>9, <2>1, <2>2
    <3>4. \A x \in reached' : x = root \/ \E m \in 1 .. N : m >= n /\ x \in Ids(nodes[m].refs)
      <4> SUFFICES ASSUME NEW x \in reached', x # root PROVE \E m \in 1 .. N : m >= n /\ x \in Ids(nodes[m].refs)
        OBVIOUS
      <4>1. CASE x \in Ids(nodes[n].refs)
        <5> n >= n
          OBVIOUS
        <5> QED
          BY <4>1
      <4>2. CASE x \in reached
        <5>1. PICK m \in 1 .. N : m >= i /\ x \in Ids(nodes[m].refs)
          BY <1>5, <4>2
        <5>2. m >= n
          BY <1>4, <5>1
        <5> QED
          BY <5>1, <5>2
      <4> QED
        BY <2>1, <4>1, <4>2
    <3>5. ReachInv'
      BY <1>0, <1>2, <1>5, <2>1, <3>2, <3>3, <3>4 DEF ReachInv
    <3> QED
      BY <1>0, <1>1, <1>6, <1>7, <3>1, <3>5, ToReach
  <2> QED
    BY <2>3, <2>4
<1> QED
  BY <1>8, <1>9

LEMMA DecodeGraphStep ==
    ASSUME GraphInv, DecodeGraph
    PROVE  GraphInv'
<1>1. /\ pc = "decode" /\ pc' = "decoded" /\ nodes' = nodes /\ root' = root /\ sizes' = sizes /\ depths' = depths
  BY DEF DecodeGraph, summaryVars
<1>2. nodes \in Seq(NodeType) /\ root \in Nat /\ SummaryInv /\ AcceptedInv
  BY <1>1 DEF GraphInv
<1>3. SummaryInv' /\ AcceptedInv'
  BY <1>1, <1>2 DEF SummaryInv, AcceptedInv
<1> QED
  BY <1>1, <1>2, <1>3, ToDecode

\* The entries below a node are closed under references.
LEMMA BelowClosed ==
    ASSUME nodes \in Seq(NodeType), Backward(nodes)
    PROVE  \A n \in DOMAIN nodes : n \in Below[n] /\ \A m \in DOMAIN nodes : m \in Below[n] => Ids(nodes[m].refs) \subseteq Below[n]
<1> DEFINE ClosedBelow(n) == n \in Below[n] /\ \A m \in DOMAIN nodes : m \in Below[n] => Ids(nodes[m].refs) \subseteq Below[n]
           Failing == {n \in DOMAIN nodes : ~ClosedBelow(n)}
<1>1. \A n \in DOMAIN nodes : Below[n] = {n} \union UNION Ids(Compose(Below, nodes[n].refs))
  BY BelowIs
<1>2. \A n \in DOMAIN nodes : Ids(Compose(Below, nodes[n].refs)) = {Below[r] : r \in Ids(nodes[n].refs)}
  BY DEF Ids, Compose
<1>3. \A n \in DOMAIN nodes : Below[n] = {n} \union UNION {Below[r] : r \in Ids(nodes[n].refs)}
  BY <1>1, <1>2
<1>4. ASSUME NEW n \in DOMAIN nodes, \A r \in DOMAIN nodes : r < n => ClosedBelow(r)
      PROVE  ClosedBelow(n)
  <2>1. \A r \in Ids(nodes[n].refs) : r \in DOMAIN nodes /\ ClosedBelow(r) /\ Below[r] \subseteq Below[n]
    <3> SUFFICES ASSUME NEW r \in Ids(nodes[n].refs) PROVE r \in DOMAIN nodes /\ ClosedBelow(r) /\ Below[r] \subseteq Below[n]
      OBVIOUS
    <3>1. r \in DOMAIN nodes /\ r < n
      BY RefInTable
    <3>2. ClosedBelow(r)
      BY <1>4, <3>1
    <3>3. Below[r] \subseteq Below[n]
      BY <1>3
    <3> QED
      BY <3>1, <3>2, <3>3
  <2>2. n \in Below[n]
    BY <1>3
  <2>3. ASSUME NEW m \in DOMAIN nodes, m \in Below[n] PROVE Ids(nodes[m].refs) \subseteq Below[n]
    <3>1. CASE m = n
      BY <2>1, <3>1
    <3>2. CASE m # n
      <4>1. PICK r \in Ids(nodes[n].refs) : m \in Below[r]
        BY <1>3, <2>3, <3>2
      <4> QED
        BY <2>1, <4>1
    <3> QED
      BY <3>1, <3>2
  <2> QED
    BY <2>2, <2>3
<1> HIDE DEF ClosedBelow
<1>5. Failing = {}
  <2> SUFFICES ASSUME Failing # {} PROVE FALSE
    OBVIOUS
  <2>1. PICK n \in Failing : \A u \in Failing : n <= u
    <3> Failing \in SUBSET Nat
      OBVIOUS
    <3> HIDE DEF Failing
    <3> QED
      BY LeastNatural
  <2>2. n \in DOMAIN nodes /\ ~ClosedBelow(n) /\ DOMAIN nodes \subseteq Nat
    OBVIOUS
  <2>3. \A r \in DOMAIN nodes : r < n => ClosedBelow(r)
    BY <2>1, <2>2
  <2> QED
    BY <1>4, <2>2, <2>3
<1>6. \A n \in DOMAIN nodes : ClosedBelow(n)
  BY <1>5
<1> QED
  BY <1>6 DEF ClosedBelow

\* What the invariant says of an accepted table.
LEMMA AcceptedIsSound ==
    ASSUME GraphInv, pc \in {"decode", "decoded"}
    PROVE  /\ Expanded[root] <= MaxExpanded /\ Levels[root] <= MaxDepth
           /\ Below[root] = DOMAIN nodes
<1>1. nodes \in Seq(NodeType) /\ SummaryInv /\ AcceptedInv
  BY DEF GraphInv
<1>2. PICK N \in Nat : N = Len(nodes) /\ DOMAIN nodes = 1 .. N
  BY <1>1
<1>3. root = N /\ DOMAIN sizes = 1 .. N /\ N # 0 /\ Referenced(nodes, root)
  BY <1>1, <1>2 DEF AcceptedInv, SummaryInv
<1>4. Backward(nodes)
  BY <1>1, <1>2, <1>3 DEF SummaryInv, Backward
<1>5. root \in DOMAIN sizes /\ root \in DOMAIN nodes
  BY <1>2, <1>3
<1>6. Expanded[root] = sizes[root] /\ Levels[root] = depths[root]
  BY <1>1, <1>4, <1>5, SummariesExact
<1>7. sizes[root] <= MaxExpanded /\ depths[root] <= MaxDepth
  BY <1>1, <1>5 DEF SummaryInv
<1> DEFINE U == {n \in DOMAIN nodes : n \notin Below[root]}
<1>8. U = {}
  <2> SUFFICES ASSUME U # {} PROVE FALSE
    OBVIOUS
  <2>1. U \in SUBSET Nat /\ \A t \in U : t <= N
    BY <1>2
  <2>2. PICK g \in U : \A u \in U : u <= g
    <3> HIDE DEF U
    <3> QED
      BY <1>2, <2>1, GreatestNatural
  <2>3. g # root
    BY <1>1, <1>4, <1>5, <2>2, BelowClosed
  <2>4. PICK m \in DOMAIN nodes : g \in Ids(nodes[m].refs)
    BY <1>3, <2>2, <2>3 DEF Referenced
  <2>5. g < m /\ g \in Nat /\ m \in Nat
    BY <1>1, <1>4, <2>4, RefInTable
  <2>6. m \in Below[root]
    BY <2>2, <2>4, <2>5
  <2>7. g \in Below[root]
    BY <1>1, <1>4, <1>5, <2>4, <2>6, BelowClosed
  <2> QED
    BY <2>2, <2>7
<1>9. Below[root] \subseteq DOMAIN nodes
  BY <1>1, <1>4, <1>5, BelowIs
<1> QED
  BY <1>6, <1>7, <1>8, <1>9

LEMMA GraphStutters ==
    ASSUME GraphInv, UNCHANGED graphVars
    PROVE  GraphInv'
<1>1. TooLarge' <=> TooLarge
  BY TooLargeStays DEF graphVars
<1>2. /\ VisitInv' <=> VisitInv
      /\ NumberedInv' <=> NumberedInv
      /\ RotateInv' <=> RotateInv
      /\ SwapInv' <=> SwapInv
  BY DEF graphVars, VisitInv, VisitTyped, FramesInv, NumbersInv, NumberedInv, RotateInv, SwapInv, Frame, Numbered, RefsOf, Moved
<1>3. /\ FrozenInv' <=> FrozenInv
      /\ FrozenIsRenumbered' <=> FrozenIsRenumbered
      /\ SummaryInv' <=> SummaryInv
      /\ AccountInv' <=> AccountInv
      /\ ReachInv' <=> ReachInv
      /\ AcceptedInv' <=> AcceptedInv
  BY DEF graphVars, FrozenInv, FrozenIsRenumbered, SummaryInv, AccountInv, ReachInv, AcceptedInv
<1> QED
  BY <1>1, <1>2, <1>3 DEF GraphInv, FrozenIsAccepted, graphVars

\* The node table of an artifact: what canonical_order freezes is the Builder's
\* table, renumbered and in order, none of its panics but the one for a table as
\* long as its marks is met, validate refuses it for the limits alone, and what
\* validate accepts from anywhere expands, counted without a width, within the
\* limits and holds no node the root does not reach.
THEOREM GraphSound == GraphSpec => []GraphIsSound
<1>1. GraphInit => GraphInv
  <2> SUFFICES ASSUME GraphInit PROVE GraphInv
    OBVIOUS
  <2>1. built = << >>
    BY DEF GraphInit, GraphClear
  <2>2. CASE pc = "encode" /\ nodes = << >> /\ root = 0
    BY <2>1, <2>2 DEF GraphInv, FrozenIsRenumbered, FrozenIsAccepted, Stages
  <2>3. CASE pc = "received" /\ nodes \in Seq(NodeType) /\ root \in Nat
    BY <2>1, <2>3 DEF GraphInv, FrozenIsRenumbered, FrozenIsAccepted, Stages, FrozenInv
  <2> QED
    BY <2>2, <2>3 DEF GraphInit
<1>2. GraphInv /\ [GraphNext]_graphVars => GraphInv'
  <2> SUFFICES ASSUME GraphInv, [GraphNext]_graphVars PROVE GraphInv'
    OBVIOUS
  <2>1. CASE Build
    BY <2>1, BuildStep
  <2>2. CASE Order
    BY <2>2, OrderStep
  <2>3. CASE VisitRef
    BY <2>3, VisitRefStep
  <2>4. CASE VisitDone
    BY <2>4, VisitDoneStep
  <2>5. CASE Remap
    BY <2>5, RemapStep
  <2>6. CASE StartCycle
    BY <2>6, StartCycleStep
  <2>7. CASE Swap
    BY <2>7, SwapStep
  <2>8. CASE Freeze
    BY <2>8, FreezeStep
  <2>9. CASE OpenGraph
    BY <2>9, OpenGraphStep
  <2>10. CASE AccountRef
    BY <2>10, AccountRefStep
  <2>11. CASE FinishNode
    BY <2>11, FinishNodeStep
  <2>12. CASE ReachNode
    BY <2>12, ReachNodeStep
  <2>13. CASE DecodeGraph
    BY <2>13, DecodeGraphStep
  <2>14. CASE UNCHANGED graphVars
    BY <2>14, GraphStutters
  <2> QED
    BY <2>1, <2>2, <2>3, <2>4, <2>5, <2>6, <2>7, <2>8, <2>9, <2>10, <2>11, <2>12, <2>13, <2>14 DEF GraphNext, GraphStep
<1>3. GraphInv => GraphIsSound
  BY AcceptedIsSound DEF GraphInv, GraphIsSound, ExpansionIsBounded, NothingRidesAlong
<1> QED
  BY <1>1, <1>2, <1>3, PTL DEF GraphSpec
=============================================================================
