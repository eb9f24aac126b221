---------------------------- MODULE MCVmEmission ----------------------------
(***************************************************************************)
(* Three functions: an entry, a template or helper, and an instance or     *)
(* helper, under every combination of calls, bodies and requests; and for  *)
(* one program every attachment that makes a later walk matter.            *)
(***************************************************************************)
EXTENDS VmEmission

CONSTANTS
    fE, fT, fI,        \* an entry, a template, an instance of it
    tOuter, tInner, oFirst, oSecond, cUsed, cOther

Nothing == [x \in Function |-> {}]
On(x, S) == [Nothing EXCEPT ![x] = S]

ProgramOf(declared, body, generic, fcalls, hcalls, iterates, specs) ==
    [declared |-> declared, body |-> body \intersect declared, generic |-> generic,
     calls |-> [Nothing EXCEPT ![fE] = fcalls, ![fI] = hcalls], iterates |-> On(fE, iterates), specs |-> specs]

MCPrograms ==
    {ProgramOf(d, b, ge, fc, hc, it, sp) :
        d \in {{fE, fT, fI}, {fE, fT}}, b \in {{fE, fT, fI}, {fE, fT}, {fE}}, ge \in {{}, {fT}},
        fc \in SUBSET {fT, fI}, hc \in {{}, {fE}}, it \in {{}, {fI}}, sp \in {{}, {<<fT, fI>>}, {<<fT, fE>>, <<fT, fI>>}}}

Request(mode, p, bad, roots, seeds) ==
    [mode |-> mode, program |-> p, mismatched |-> bad, roots |-> roots, seeds |-> seeds, spelled |-> {<<fT, fI>>}]

MCRequests ==
    {Request("whole", p, {}, {}, {}) : p \in MCPrograms}
    \union {Request("roots", p, bad, r, {}) : p \in MCPrograms, bad \in {{}, {fI}}, r \in {{fE}, {}}}
    \union {Request("application", p, {}, r, se) : p \in MCPrograms, r \in {{}, {fE}, {fT}}, se \in {{}, {fT}}}

Operation(kind, uses, required) == [kind |-> kind, uses |-> uses, required |-> required]

Bare ==
    [proofs |-> FALSE, facts |-> TRUE, boundary |-> TRUE,
     types |-> Nothing, fields |-> [x \in RecordType |-> {}], recordTypes |-> RecordType,
     obligations |-> Nothing, known |-> Obligation,
     dependencies |-> [x \in Obligation |-> {}], assumptions |-> [x \in Obligation |-> {}],
     trace |-> [x \in Function |-> {x}], copies |-> Nothing, code |-> Nothing]

Rich ==
    {[Bare EXCEPT !.proofs = pr, !.facts = fa, !.boundary = bo,
        !.types = On(fE, {tOuter}), !.fields = [x \in RecordType |-> IF x = tOuter THEN {tInner} ELSE back], !.recordTypes = ty,
        !.obligations = On(fE, {oFirst}), !.known = ob,
        !.dependencies = [x \in Obligation |-> IF x = oFirst THEN de ELSE {oFirst}],
        !.assumptions = [x \in Obligation |-> IF x = oFirst THEN {oSecond} \ de ELSE {}],
        !.trace = On(fT, {fE, fI}), !.copies = On(fE, {"static"}),
        !.code = [Nothing EXCEPT ![fE] = {Operation("call", {cUsed}, re)}, ![fI] = ho]] :
      pr \in BOOLEAN, fa \in BOOLEAN, bo \in BOOLEAN, back \in {{}, {tOuter}}, ty \in {{tOuter, tInner}, {tOuter}}, ob \in {{oFirst, oSecond}, {oFirst}},
      de \in {{}, {oSecond}}, re \in {{cUsed}, {cOther}},
      ho \in {{Operation("host", {cUsed}, {})}, {Operation("host", {}, {})}, {Operation("other", {cOther}, {})}}}

Linked == ProgramOf({fE, fT, fI}, {fE, fT, fI}, {fT}, {}, {fE}, {fI}, {<<fT, fI>>})
Alone == ProgramOf({fE, fT, fI}, {fE, fT, fI}, {fT}, {}, {}, {}, {<<fT, fI>>})

MCInputs ==
    (MCRequests \X {Bare})
    \union ({Request(mode, p, {}, {fE}, {fT} \intersect se) :
                mode \in {"roots", "application"}, p \in {Linked, Alone}, se \in {{}, {fT}}} \X Rich)
    \union ({Request("whole", Linked, {}, {}, {})} \X Rich)

MCLosses == {<<{}, {}>>, <<{fI}, {}>>, <<{}, {fI}>>}
=============================================================================
