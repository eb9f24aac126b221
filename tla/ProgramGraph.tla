---------------------------- MODULE ProgramGraph ----------------------------
(***************************************************************************)
(* A linked Program as its backends see it: declarations, bodies, generic  *)
(* templates, call and iteration edges, specialization records.            *)
(*                                                                         *)
(*   declared   identities in program.functions                            *)
(*   body       those with a body                                          *)
(*   generic    those with generic parameters                              *)
(*   calls      callees of Call operations in a body                       *)
(*   iterates   callees of bounded iterations in a body                    *)
(*   specs      <<generic_function, specialization_function>> records      *)
(*                                                                         *)
(* A callee need not be declared; each walk decides what that means.       *)
(***************************************************************************)
EXTENDS FiniteSets, Integers

CONSTANT Function

Edges == [Function -> SUBSET Function]

ProgramType ==
    [declared : SUBSET Function, body : SUBSET Function, generic : SUBSET Function,
     calls : Edges, iterates : Edges, specs : SUBSET (Function \X Function)]

\* Everything a body can transfer control to.
Callees(p, f) == IF f \in p.body THEN p.calls[f] \union p.iterates[f] ELSE {}

SpecializationsOf(p, g) == {r[2] : r \in {s \in p.specs : s[1] = g}}
GenericsOf(p, f) == {r[1] : r \in {s \in p.specs : s[2] = f}}

(***************************************************************************)
(* mncs_model's Program::validate, as far as the projections can disturb   *)
(* it: bodies call declared functions, records relate declared functions,  *)
(* and only declared functions have bodies.                                *)
(***************************************************************************)
ValidProgram(p) ==
    /\ p.body \subseteq p.declared
    /\ p.generic \subseteq p.declared
    /\ \A f \in p.body : p.calls[f] \union p.iterates[f] \subseteq p.declared
    /\ p.specs \subseteq p.declared \X p.declared

(***************************************************************************)
(* The reference a worklist is compared with: what every set contains that *)
(* contains the roots and whatever its bodies call.                        *)
(***************************************************************************)
ClosedUnderCalls(p, S) == \A f \in S : Callees(p, f) \subseteq S

Reached(p, roots) ==
    {f \in Function : \A S \in SUBSET Function : roots \subseteq S /\ ClosedUnderCalls(p, S) => f \in S}
=============================================================================
