--------------------------- MODULE MCProgramWalks ---------------------------
(***************************************************************************)
(* The three walks over a Program: the projection for a backend, the       *)
(* identity of an executable closure and the interface of a callable.      *)
(* They share no state: a behaviour is one of the three, and the variables *)
(* of the other two are None throughout.                                   *)
(***************************************************************************)
EXTENDS BackendProjection, ClosureIdentity, CallableInterface

CONSTANTS
    f, g, h, t, u,                      \* functions and types
    tA, tB, nA, nB, idA, idB, u8        \* types below a signature and references to them

VARIABLE walker   \* which walk the behaviour is

ProjectionOff ==
    /\ program = None /\ selection = None /\ roots = None /\ phase = None /\ pending = None
    /\ body_closure = None /\ included = None /\ metadata_only = None /\ first = None

IdentityOff ==
    /\ build = None /\ stored = None /\ served = None /\ identity_phase = None
    /\ pending_functions = None /\ function_facts = None /\ nominal_types = None /\ type_facts = None

InterfaceOff ==
    /\ source = None /\ stage = None /\ needed_types = None /\ visited_types = None
    /\ unresolved_types = None /\ listed = None /\ interface = None /\ cached = None /\ admitted = None

Init ==
    \/ walker = "projection" /\ ProjectionInit /\ IdentityOff /\ InterfaceOff
    \/ walker = "identity" /\ IdentityInit /\ ProjectionOff /\ InterfaceOff
    \/ walker = "interface" /\ InterfaceInit /\ ProjectionOff /\ IdentityOff

Next ==
    /\ UNCHANGED walker
    /\ \/ walker = "projection" /\ ProjectionNext /\ UNCHANGED << identityVars, interfaceVars >>
       \/ walker = "identity" /\ IdentityNext /\ UNCHANGED << projectionVars, interfaceVars >>
       \/ walker = "interface" /\ InterfaceNext /\ UNCHANGED << projectionVars, identityVars >>

Spec ==
    /\ Init /\ [][Next]_<< walker, projectionVars, identityVars, interfaceVars >>
    /\ ProjectionFairness /\ WF_interfaceVars(InterfaceWalk)

(***************************************************************************)
(* Both worklists come to an end, whatever cycles the calls and the types  *)
(* form, although each is filled while it is emptied.                      *)
(***************************************************************************)
WalksEnd == WalkTerminates /\ InterfaceEnds

----------------------------------------------------------------------------
(***************************************************************************)
(* For the projection: every call graph over three functions, with one     *)
(* generic template and its specializations, cycles, undeclared callees    *)
(* and undeclared templates included.  g and h share a leaf name.          *)
(***************************************************************************)
MCNameOf == [x \in Function |-> IF x = f THEN "run" ELSE "step"]
MCNamespaceOf == [x \in Function |-> IF x = h THEN "lib" ELSE "app"]

MCPrograms ==
    {w \in [declared : {{f, g, h}, {f, g}, {f, h}}, body : SUBSET {f, g, h}, generic : {{}, {g}},
            calls : [Function -> SUBSET Function],
            iterates : {[x \in Function |-> {}], [x \in Function |-> IF x = f THEN {h} ELSE {}]},
            specs : {{}, {<<g, f>>}, {<<g, h>>}, {<<g, f>>, <<g, h>>}}] :
        /\ w.body \union w.generic \subseteq w.declared
        /\ h \in w.body => w.calls[h] \subseteq {f, g}
        /\ \A x \in Function \ w.body : w.calls[x] = {}}

Selector(namespace, name) == [namespace |-> namespace, name |-> name]
MCSelections ==
    {{Selector(AnyNamespace, "run")}, {Selector("app", "step")}, {Selector(AnyNamespace, "step")},
     {Selector("app", "run"), Selector("app", "step")}, {Selector("lib", "step")}}

----------------------------------------------------------------------------
(***************************************************************************)
(* For the identity: an entry f, a template g and its instance h, edited   *)
(* in every way that could slip past an identity: the text of a reached or *)
(* unreached body, a call moved into an iteration, a type changed two      *)
(* fields away, the same functions requested as roots or as seeds, a       *)
(* missing fingerprint.                                                    *)
(***************************************************************************)
NoEdges == [x \in Function |-> {}]

Edited(fcalls, iterates, gcalls, body) ==
    [declared |-> Function, body |-> body, generic |-> {g},
     calls |-> [NoEdges EXCEPT ![f] = fcalls, ![g] = gcalls], iterates |-> [NoEdges EXCEPT ![f] = iterates],
     specs |-> {<<g, h>>}]

EditedPrograms ==
    {Edited(fc, {}, {}, Function) : fc \in {{}, {h}, {g}}}
    \union {Edited({}, {h}, {}, Function), Edited({}, {}, {f}, {f, h})}

Build(pr, ft, ht, hm, uf, ut, as, ro, se) ==
    [program |-> pr, text |-> [x \in Function |-> CASE x = f -> ft [] x = h -> ht [] OTHER -> 1],
     mentions |-> [NoEdges EXCEPT ![h] = hm], arguments |-> [NoEdges EXCEPT ![h] = {u}],
     fields |-> [x \in Type |-> IF x = t THEN {u} ELSE uf], typeText |-> [x \in Type |-> IF x = u THEN ut ELSE 1],
     nominal |-> Type, assumptions |-> as, roots |-> ro, seeds |-> se,
     facts |-> Function \union Type, ambiguous |-> FALSE]

Requests == {<<{f}, {}>>, <<{f, g}, {}>>, <<{f}, {g}>>, <<{f, g}, {g}>>, <<{h}, {g}>>}

Contents == {<<1, {t}, 1>>, <<2, {t}, 1>>, <<1, {t}, 2>>, <<1, {}, 1>>}

MCBuilds ==
    {Build(pr, 1, c[1], c[2], {t}, c[3], 1, r[1], r[2]) : pr \in EditedPrograms, c \in Contents, r \in Requests}
    \union {Build(Edited({h}, {}, {}, Function), ft, 1, {t}, {}, 1, as, {f}, {}) : ft \in {1, 2}, as \in {1, 2}}
    \union {[Build(Edited({h}, {}, {}, Function), 1, 1, {t}, {}, 1, 1, ro, {}) EXCEPT
                !.facts = fa, !.nominal = no, !.ambiguous = am] :
              ro \in {{f}, {}}, fa \in {Function \union {t}, {f} \union Type}, no \in {Type, {t}}, am \in BOOLEAN}

----------------------------------------------------------------------------
(***************************************************************************)
(* For the interface: two types that refer to each other, by name or by    *)
(* identity, to a built-in type or to nothing; the second may carry the    *)
(* first one's name.                                                       *)
(***************************************************************************)
MCNamedType == {tA, tB}
MCRef == {nA, nB, idA, idB, u8}
MCBuiltin == {u8}
Plain(S) == {<< "plain", r >> : r \in S}
Arrays(S) == {<< "array", r >> : r \in S}
MCInterfacePrograms ==
    {[found |-> TRUE, inputs |-> i, outputs |-> Plain({u8}), text |-> "f", types |-> ts,
      name |-> [x \in MCNamedType |-> IF x = tA THEN nA ELSE n], identity |-> [x \in MCNamedType |-> IF x = tA THEN idA ELSE idB],
      fields |-> [x \in MCNamedType |-> IF x = tA THEN a ELSE b], typeText |-> [x \in MCNamedType |-> IF x = tA THEN "x" ELSE y]] :
        i \in {Plain({nA}), Arrays({nA, idB})}, ts \in {{tA}, {tA, tB}}, n \in {nA, nB},
        a \in {{}, Plain({nB}), Arrays({idB})}, b \in {Plain({u8}), Arrays({nA})}, y \in {"x", "y"}}
    \union {[found |-> FALSE, inputs |-> {}, outputs |-> {}, text |-> "f", types |-> {},
      name |-> [x \in MCNamedType |-> nA], identity |-> [x \in MCNamedType |-> idA],
      fields |-> [x \in MCNamedType |-> {}], typeText |-> [x \in MCNamedType |-> "x"]]}
=============================================================================
