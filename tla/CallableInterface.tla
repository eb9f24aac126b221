------------------------- MODULE CallableInterface -------------------------
(***************************************************************************)
(* callable_interface of application.rs, the description of a selected     *)
(* callable that decides together with the executable closure whether an   *)
(* earlier artifact is taken over, and the comparison that uses it.        *)
(*                                                                         *)
(* A signature and a type's fields refer to types by reference, a name or  *)
(* an identity; references may dangle, be ambiguous and form cycles.  A    *)
(* written type is a reference within sequence and vector wrappers.  The   *)
(* source is edited between two builds.                                    *)
(***************************************************************************)
EXTENDS FiniteSets

CONSTANTS
    Ref, Builtin,   \* references, and those is_builtin_interface_type accepts
    Wrapper,        \* wrappings of a reference in a written type
    NamedType,           \* record and finite types
    InterfaceText,           \* what else a signature or a type says
    InterfacePrograms,
    None

Written == Wrapper \X Ref

InterfaceProgramType ==
    [found : BOOLEAN, inputs : SUBSET Written, outputs : SUBSET Written, text : InterfaceText,
     types : SUBSET NamedType, name : [NamedType -> Ref], identity : [NamedType -> Ref],
     fields : [NamedType -> SUBSET Written], typeText : [NamedType -> InterfaceText]]

ASSUME InterfaceAssumption ==
    /\ Builtin \subseteq Ref
    /\ InterfacePrograms \subseteq InterfaceProgramType

VARIABLES
    source,        \* the program of the current build
    stage,
    needed_types, visited_types, unresolved_types,
    listed,         \* record_types and finite_types
    interface,      \* None, or what is digested into the interface's identity
    cached,         \* the interface of the earlier build and its program
    admitted

interfaceVars == << source, stage, needed_types, visited_types, unresolved_types, listed, interface, cached, admitted >>
interfaceWalk == << needed_types, visited_types, unresolved_types, listed >>

----------------------------------------------------------------------------
\* enqueue_interface_type: the reference within the wrappers.
References(written) == {w[2] : w \in written}

Signature(p) == p.inputs \union p.outputs

\* The types a reference may stand for.
Matching(p, r) == {t \in p.types : p.name[t] = r \/ p.identity[t] = r}

\* What the interface holds of a type.
Definition(p, t) == << t, p.name[t], p.identity[t], p.fields[t], p.typeText[t] >>

Ambiguous(p, r) == \E t, u \in Matching(p, r) : t # u
Dangling(p, r) == Matching(p, r) = {} /\ r \notin Builtin

----------------------------------------------------------------------------
InterfaceInit ==
    /\ source \in InterfacePrograms
    /\ stage = "start"
    /\ needed_types = {} /\ visited_types = {} /\ unresolved_types = {} /\ listed = {}
    /\ interface = None /\ cached = None /\ admitted = FALSE

\* No such function in the program: no interface.
Missing ==
    /\ stage = "start" /\ ~source.found
    /\ stage' = "done"
    /\ UNCHANGED << source, interfaceWalk, interface, cached, admitted >>

Begin ==
    /\ stage = "start" /\ source.found
    /\ needed_types' = References(Signature(source))
    /\ stage' = "walk"
    /\ UNCHANGED << source, visited_types, unresolved_types, listed, interface, cached, admitted >>

SkipReference(r) ==
    /\ stage = "walk" /\ r \in needed_types \intersect visited_types
    /\ needed_types' = needed_types \ {r}
    /\ UNCHANGED << source, stage, visited_types, unresolved_types, listed, interface, cached, admitted >>

\* Seeded fault: the fields of a type are not looked into.
VisitReferenceShallow(r) ==
    /\ stage = "walk" /\ r \in needed_types \ visited_types
    /\ visited_types' = visited_types \union {r}
    /\ needed_types' = needed_types \ {r}
    /\ listed' = listed \union Matching(source, r)
    /\ unresolved_types' = unresolved_types \union (IF Ambiguous(source, r) \/ Dangling(source, r) THEN {r} ELSE {})
    /\ UNCHANGED << source, stage, interface, cached, admitted >>

\* while let Some(type_name) = needed_types.iter().next(), in any order.
VisitReference(r) ==
    /\ stage = "walk" /\ r \in needed_types \ visited_types
    /\ visited_types' = visited_types \union {r}
    /\ needed_types' = (needed_types \ {r}) \union UNION {References(source.fields[t]) : t \in Matching(source, r)}
    /\ listed' = listed \union Matching(source, r)
    /\ unresolved_types' = unresolved_types \union (IF Ambiguous(source, r) \/ Dangling(source, r) THEN {r} ELSE {})
    /\ UNCHANGED << source, stage, interface, cached, admitted >>

\* Both vectors are sorted by identity, so the order of the visits is lost.
Describe ==
    /\ stage = "walk" /\ needed_types = {}
    /\ interface' = [inputs |-> source.inputs, outputs |-> source.outputs, text |-> source.text,
                     verified |-> unresolved_types = {}, unresolved |-> unresolved_types,
                     types |-> {Definition(source, t) : t \in listed}]
    /\ stage' = "done"
    /\ UNCHANGED << source, interfaceWalk, cached, admitted >>

\* Seeded fault: equal identities are enough.
MatchesByIdentity == interface # None /\ interface = cached.interface

\* cached_callable_interfaces_match, for one callable.
Matches == interface # None /\ interface = cached.interface /\ interface.verified

Compare ==
    /\ stage = "done" /\ cached # None
    /\ admitted' = Matches
    /\ stage' = "compared"
    /\ UNCHANGED << source, interfaceWalk, interface, cached >>

\* The response of the build is stored, and the next build sees edited sources.
EditTypes ==
    /\ stage = "done" /\ cached = None
    /\ cached' = [interface |-> interface, program |-> source]
    /\ source' \in InterfacePrograms
    /\ stage' = "start"
    /\ needed_types' = {} /\ visited_types' = {} /\ unresolved_types' = {} /\ listed' = {}
    /\ interface' = None
    /\ UNCHANGED admitted

InterfaceWalk == Missing \/ Begin \/ Describe \/ Compare \/ \E r \in Ref : SkipReference(r) \/ VisitReference(r)
InterfaceNext == InterfaceWalk \/ EditTypes
InterfaceSpec == InterfaceInit /\ [][InterfaceNext]_interfaceVars

\* The function is plain code of one thread.
InterfaceFairSpec == InterfaceSpec /\ WF_interfaceVars(InterfaceWalk)

----------------------------------------------------------------------------
(* Properties. *)

\* The type invariant.
InterfaceTypeOK ==
    /\ source \in InterfacePrograms
    /\ stage \in {"start", "walk", "done", "compared"}
    /\ needed_types \subseteq Ref /\ visited_types \subseteq Ref /\ unresolved_types \subseteq Ref
    /\ listed \subseteq source.types
    /\ cached # None => cached.program \in InterfacePrograms
    /\ admitted \in BOOLEAN

\* The references one meets on the way down from the signature.
Reachable(p) ==
    {r \in Ref : \A C \in SUBSET Ref :
        /\ References(Signature(p)) \subseteq C
        /\ \A q \in C : \A t \in Matching(p, q) : References(p.fields[t]) \subseteq C
        => r \in C}

\* An interface that claims to be verified describes its callable completely:
\* whatever one meets below the signature stands for one type, which is
\* listed, or is built in.
VerifiedIsComplete ==
    interface # None /\ interface.verified =>
        \A r \in Reachable(source) :
            /\ ~Ambiguous(source, r)
            /\ Matching(source, r) \subseteq listed
            /\ Matching(source, r) # {} \/ r \in Builtin

\* Nothing but what lies below the signature enters the interface: an edit of
\* another type leaves it as it was, and the artifact can be reused.
NothingUnrelated ==
    stage = "done" => \A t \in listed : \E r \in Reachable(source) : t \in Matching(source, r)

\* A callable's artifact is taken over only when it means the same to its
\* caller as before: the signature, and all that lies below it.
AdmittedMeansTheSame ==
    stage = "compared" /\ admitted =>
        /\ source.inputs = cached.program.inputs /\ source.outputs = cached.program.outputs
        /\ Reachable(source) = Reachable(cached.program)
        /\ \A r \in Reachable(source) :
              /\ ~Ambiguous(source, r)
              /\ {Definition(source, t) : t \in Matching(source, r)}
                   = {Definition(cached.program, t) : t \in Matching(cached.program, r)}

\* The walk ends, recursive types or not.
InterfaceEnds == stage = "walk" ~> stage = "done"
=============================================================================
