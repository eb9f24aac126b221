---------------------------- MODULE SequenceCopy ----------------------------
(***************************************************************************)
(* The canonical VM refuses the SSA instruction SequenceCopy.  Before an   *)
(* artifact is frozen, tools/vm_emit.rs rewrites copies in three passes:   *)
(* proven exact windows, constant windows with runtime-checked reads, and  *)
(* constant lengths with dynamic offsets.  What no pass takes stays an     *)
(* explicit copy.                                                          *)
(*                                                                         *)
(* A function is one block of instructions over named values.  An          *)
(* identity is <<owner, role, ordinal>>, the three things the source       *)
(* hashes; owner is the instruction a pass is rewriting.  Roles that the   *)
(* source qualifies further (by pass, or by destination and source) share  *)
(* one name here, so uniqueness rests on the ordinals alone.               *)
(***************************************************************************)
EXTENDS Integers, Sequences, SequencesExt, FiniteSets, TLC

CONSTANTS
    U64MAX,          \* u64::MAX, scaled down
    UNROLL_LIMIT,    \* VM_STATIC_SEQUENCE_COPY_UNROLL_LIMIT
    REBUILD_LIMIT,   \* VM_STATIC_SEQUENCE_COPY_REBUILD_BOUND_LIMIT
    SsaFunctions,    \* the functions to lower
    BlockOf(_),      \* their instructions
    InputsOf(_),     \* the values of their inputs at run time
    RunnableCopy(_)    \* whether the SSA verifier accepts them

VARIABLES
    fn,              \* the function as the compiler selected it
    pass,            \* the pass that runs next
    code,            \* the block as rewritten so far
    transformations, \* ssa.transformations
    obligations,     \* identities in ssa.obligations
    lowering_refs    \* passes whose fingerprint the artifact carries

copyVars == <<fn, pass, code, transformations, obligations, lowering_refs>>

NoId == <<"", "", 0>>

Exact(n) == [exact |-> TRUE, n |-> n]
UpTo(n) == [exact |-> FALSE, n |-> n]

(***************************************************************************)
(* vm_sequence_copy_instruction: an instruction with no source             *)
(* correspondence, no obligations and no failure mode.                     *)
(***************************************************************************)
Instruction(id, kind, inputs, output) ==
    [id |-> id, kind |-> kind, inputs |-> inputs, output |-> output,
     sem |-> NoId, obligations |-> {}]

Kind(op, arg) == [op |-> op, arg |-> arg]

(***************************************************************************)
(* What the passes read off a function first: its u64 constants.           *)
(***************************************************************************)
ConstantOf(block) ==
    LET defs == {i \in DOMAIN block : block[i].kind.op = "constant"}
    IN  [v \in {block[i].output : i \in defs} |->
            block[CHOOSE i \in defs : block[i].output = v].kind.arg]

----------------------------------------------------------------------------
(* Rewriting.  A buffer is the instructions pushed for one owner, the next *)
(* ordinal, and the obligations generated on the way.                      *)

Empty == [code |-> <<>>, ordinal |-> 0, obligations |-> {}]

Push(b, instruction) ==
    [code |-> Append(b.code, instruction), ordinal |-> b.ordinal + 1,
     obligations |-> b.obligations]

ConstantId(owner, b) == <<owner, "constant-value", b.ordinal + 1>>

push_vm_sequence_copy_constant(b, owner, value) ==
    Push(b, Instruction(<<owner, "constant", b.ordinal>>, Kind("constant", value),
                        <<>>, ConstantId(owner, b)))

(***************************************************************************)
(* push_vm_sequence_copy_dynamic_index: offset zero is the base itself, a  *)
(* constant base folds, anything else is a checked u64 addition with an    *)
(* obligation of its own.  The result is the buffer and the index value.   *)
(***************************************************************************)
DynamicIndex(b, owner, base, constants, increment) ==
    LET folds == /\ base \in DOMAIN constants
                 /\ constants[base] + increment \in 0..U64MAX
        c == push_vm_sequence_copy_constant(b, owner, increment)
        obligation == <<owner, "dynamic-offset-add-obligation", c.ordinal + 1>>
        sum == <<owner, "dynamic-offset-add-value", c.ordinal + 1>>
        add == [Instruction(<<owner, "dynamic-offset-add", c.ordinal>>, Kind("add", "checked"),
                            <<base, ConstantId(owner, b)>>, sum)
                EXCEPT !.obligations = {obligation}]
    IN  IF increment = 0 THEN [buffer |-> b, index |-> base]
        ELSE IF folds
        THEN [buffer |-> push_vm_sequence_copy_constant(b, owner, constants[base] + increment),
              index |-> ConstantId(owner, b)]
        ELSE [buffer |-> [Push(c, add) EXCEPT !.obligations = @ \union {obligation}],
              index |-> sum]

ConstantIndex(b, owner, at, increment) ==
    [buffer |-> push_vm_sequence_copy_constant(b, owner, at + increment),
     index |-> ConstantId(owner, b)]

----------------------------------------------------------------------------
(* The operands of a copy: destination, its offset, source, its offset,    *)
(* length.                                                                 *)

Owner(i) == i.id[1]
IsCopy(i) == i.kind.op = "copy"
Bounds(i) == i.kind.arg
Arity(i) == Len(i.inputs) = 5
ConstantWindow(i, constants) == {i.inputs[2], i.inputs[4], i.inputs[5]} \subseteq DOMAIN constants
TypesAgree(i) == Bounds(i).typed

(***************************************************************************)
(* record_vm_sequence_copy_lowering.                                       *)
(***************************************************************************)
record_vm_sequence_copy_lowering(i, output, extra) ==
    [input |-> i.id, output |-> output, operation |-> IF i.sem = NoId THEN i.id ELSE i.sem,
     required |-> i.obligations \union extra]

Kept(i) == [error |-> FALSE, code |-> <<i>>, records |-> {}, obligations |-> {}]
FailedCopy(i) == [error |-> TRUE, code |-> <<i>>, records |-> {}, obligations |-> {}]
Lowered(b, i, output) ==
    [error |-> FALSE, code |-> b.code, obligations |-> b.obligations,
     records |-> {record_vm_sequence_copy_lowering(i, output, b.obligations)}]

(***************************************************************************)
(* The instruction that takes over the copy's value keeps its output       *)
(* identity, its source operation and its obligations.                     *)
(***************************************************************************)
TakeOver(i, id, kind, inputs) ==
    [Instruction(id, kind, inputs, i.output) EXCEPT !.sem = i.sem, !.obligations = i.obligations]

(***************************************************************************)
(* length == 0: a constant true and a selection of the destination.        *)
(***************************************************************************)
EmptySelection(i) ==
    LET owner == Owner(i)
        condition == <<owner, "empty-condition-value", 1>>
        b == Push(Empty, Instruction(<<owner, "empty-condition", 0>>,
                                     Kind("true", ""), <<>>, condition))
        result == <<owner, "empty-result", b.ordinal>>
    IN  Lowered(Push(b, TakeOver(i, result, Kind("select", ""),
                                 <<condition, i.inputs[1], i.inputs[1]>>)), i, result)

(***************************************************************************)
(* The project/replace chain: element k is read from the source as it was  *)
(* before the copy and written into the sequence built so far.  Index      *)
(* gives the k-th destination and source index; the evidence says whether  *)
(* the VM checks the access.                                               *)
(***************************************************************************)
Unroll(i, length, readEvidence, writeEvidence, DstIndex(_, _), SrcIndex(_, _)) ==
    LET owner == Owner(i)
        chain[k \in 0..length] ==
          IF k = 0 THEN [buffer |-> Empty, current |-> i.inputs[1]]
          ELSE LET before == chain[k - 1]
                   d == DstIndex(before.buffer, k - 1)
                   s == SrcIndex(d.buffer, k - 1)
                   element == <<owner, "project-value", s.buffer.ordinal + 1>>
                   read == Push(s.buffer,
                             Instruction(<<owner, "project", s.buffer.ordinal>>,
                                         Kind("project", readEvidence),
                                         <<i.inputs[3], s.index>>, element))
                   inputs == <<before.current, d.index, element>>
                   kind == Kind("replace", writeEvidence)
                   replace ==
                     IF k = length
                     THEN TakeOver(i, <<owner, "replace-result", read.ordinal>>, kind, inputs)
                     ELSE Instruction(<<owner, "replace", read.ordinal>>, kind, inputs,
                                      <<owner, "replace-value", read.ordinal + 1>>)
               IN  [buffer |-> Push(read, replace), current |-> replace.output]
    IN  Lowered(chain[length].buffer, i, chain[length].current)

----------------------------------------------------------------------------
(* lower_vm_static_sequence_copies: proven copies between exact bounds.    *)

(***************************************************************************)
(* Rebuild: every element of the result is projected, from the source      *)
(* inside the copied window and from the destination outside it.           *)
(***************************************************************************)
Rebuild(i, dst_at, src_at, length) ==
    LET owner == Owner(i)
        n == Bounds(i).dst.n
        build[k \in 0..n] ==
          IF k = 0 THEN [buffer |-> Empty, elements |-> <<>>]
          ELSE LET before == build[k - 1]
                   at == k - 1
                   copied == at >= dst_at /\ at < dst_at + length
                   index == ConstantIndex(before.buffer, owner,
                                          IF copied THEN src_at ELSE 0,
                                          IF copied THEN at - dst_at ELSE at)
                   element == <<owner, "rebuild-project-value", index.buffer.ordinal + 1>>
               IN  [buffer |-> Push(index.buffer,
                         Instruction(<<owner, "rebuild-project", index.buffer.ordinal>>,
                                     Kind("project", "static"),
                                     <<IF copied THEN i.inputs[3] ELSE i.inputs[1], index.index>>,
                                     element)),
                    elements |-> Append(before.elements, element)]
        result == <<owner, "rebuild-result", build[n].buffer.ordinal>>
    IN  Lowered(Push(build[n].buffer,
                     TakeOver(i, result, Kind("construct", n), build[n].elements)), i, result)

UnrollStatic(i, dst_at, src_at, length) ==
    LET Dst(buffer, k) == ConstantIndex(buffer, Owner(i), dst_at, k)
        Src(buffer, k) == ConstantIndex(buffer, Owner(i), src_at, k)
    IN  Unroll(i, length, "static", "static", Dst, Src)

LowerStatic(i, constants) ==
    LET b == Bounds(i)
        dst_at == constants[i.inputs[2]]
        src_at == constants[i.inputs[4]]
        length == constants[i.inputs[5]]
    IN  IF \/ ~IsCopy(i)
           \/ b.evidence # "static"
           \/ ~(b.dst.exact /\ b.src.exact) THEN Kept(i)
        ELSE IF ~Arity(i) THEN FailedCopy(i)
        ELSE IF ~ConstantWindow(i, constants) THEN Kept(i)
        ELSE IF dst_at < 0 \/ src_at < 0 \/ length < 0 THEN FailedCopy(i)
        ELSE IF dst_at + length > b.dst.n \/ src_at + length > b.src.n THEN FailedCopy(i)
        ELSE IF length > UNROLL_LIMIT /\ b.dst.n > REBUILD_LIMIT THEN Kept(i)
        ELSE IF ~TypesAgree(i) THEN FailedCopy(i)
        ELSE IF length = 0 THEN EmptySelection(i)
        ELSE IF length > UNROLL_LIMIT THEN Rebuild(i, dst_at, src_at, length)
        ELSE UnrollStatic(i, dst_at, src_at, length)

----------------------------------------------------------------------------
(* lower_vm_runtime_checked_sequence_copies: the window is constant and    *)
(* fits the exact destination; reads of the source stay checked.           *)

\* Seeded fault: an empty copy is a selection whatever its source offset.
LowerConstantWindowAnyEmpty(i, constants) ==
    IF /\ IsCopy(i) /\ Arity(i) /\ ConstantWindow(i, constants)
       /\ Bounds(i).evidence = "checked" /\ Bounds(i).dst.exact
       /\ constants[i.inputs[5]] = 0
       /\ constants[i.inputs[2]] \in 0..Bounds(i).dst.n
    THEN EmptySelection(i)
    ELSE Kept(i)

UnrollConstantWindow(i, dst_at, src_at, length) ==
    LET Dst(buffer, k) == ConstantIndex(buffer, Owner(i), dst_at, k)
        Src(buffer, k) == ConstantIndex(buffer, Owner(i), src_at, k)
    IN  Unroll(i, length, "checked", "static", Dst, Src)

LowerConstantWindow(i, constants) ==
    LET b == Bounds(i)
        dst_at == constants[i.inputs[2]]
        src_at == constants[i.inputs[4]]
        length == constants[i.inputs[5]]
    IN  IF ~IsCopy(i) \/ b.evidence # "checked" \/ ~b.dst.exact THEN Kept(i)
        ELSE IF ~Arity(i) THEN FailedCopy(i)
        ELSE IF ~ConstantWindow(i, constants) THEN Kept(i)
        ELSE IF dst_at < 0 \/ src_at < 0 \/ length < 0 THEN Kept(i)
        ELSE IF \/ dst_at + length > b.dst.n
                \/ src_at + length > U64MAX
                \/ length > UNROLL_LIMIT
                \/ length = 0 /\ src_at # 0 THEN Kept(i)
        ELSE IF ~TypesAgree(i) THEN FailedCopy(i)
        ELSE IF length = 0 THEN EmptySelection(i)
        ELSE UnrollConstantWindow(i, dst_at, src_at, length)

----------------------------------------------------------------------------
(* lower_vm_runtime_checked_dynamic_offset_sequence_copies.                *)

(***************************************************************************)
(* A zero-length copy still checks both offsets: an empty view at each     *)
(* offset, a comparison of their lengths with zero, and a selection.       *)
(***************************************************************************)
EmptyViews(i) ==
    LET owner == Owner(i)
        View(b, sequence, offset) ==
          LET view == <<owner, "empty-view-value", b.ordinal + 1>>
              v == Push(b, Instruction(<<owner, "empty-view", b.ordinal>>,
                                       Kind("view", 0), <<sequence, offset, offset>>, view))
              length == <<owner, "empty-length-value", v.ordinal + 1>>
          IN  [buffer |-> Push(v, Instruction(<<owner, "empty-length", v.ordinal>>,
                                              Kind("length", 0), <<view>>, length)),
               length |-> length]
        d == View(Empty, i.inputs[1], i.inputs[2])
        s == View(d.buffer, i.inputs[3], i.inputs[4])
        zero == ConstantId(owner, s.buffer)
        z == push_vm_sequence_copy_constant(s.buffer, owner, 0)
        Check(b, length) ==
          LET equal == <<owner, "empty-length-check-value", b.ordinal + 1>>
          IN  [buffer |-> Push(b, Instruction(
                             <<owner, "empty-length-check", b.ordinal>>,
                             Kind("eq", 0), <<length, zero>>, equal)),
               value |-> equal]
        cd == Check(z, d.length)
        cs == Check(cd.buffer, s.length)
        condition == <<owner, "empty-views-condition-value", cs.buffer.ordinal + 1>>
        a == Push(cs.buffer, Instruction(<<owner, "empty-views-condition", cs.buffer.ordinal>>,
                                         Kind("and", 0), <<cd.value, cs.value>>, condition))
        result == <<owner, "empty-views-result", a.ordinal>>
    IN  Lowered(Push(a, TakeOver(i, result, Kind("select", ""),
                                 <<condition, i.inputs[1], i.inputs[1]>>)), i, result)

UnrollDynamicOffset(i, constants, length) ==
    LET Dst(buffer, k) == DynamicIndex(buffer, Owner(i), i.inputs[2], constants, k)
        Src(buffer, k) == DynamicIndex(buffer, Owner(i), i.inputs[4], constants, k)
    IN  Unroll(i, length, "checked", "checked", Dst, Src)

LowerDynamicOffset(i, constants) ==
    LET b == Bounds(i)
        length == constants[i.inputs[5]]
        offsets == {i.inputs[2], i.inputs[4]}
    IN  IF ~IsCopy(i) \/ b.evidence # "checked" \/ ~b.dst.exact THEN Kept(i)
        ELSE IF ~Arity(i) THEN FailedCopy(i)
        ELSE IF i.inputs[5] \notin DOMAIN constants THEN Kept(i)
        ELSE IF length < 0 \/ length > UNROLL_LIMIT THEN Kept(i)
        ELSE IF \/ \E o \in offsets \intersect DOMAIN constants : constants[o] < 0
                \/ offsets \subseteq DOMAIN constants /\ length # 0 THEN Kept(i)
        ELSE IF ~b.offsetsU64 \/ ~TypesAgree(i) THEN FailedCopy(i)
        ELSE IF length = 0 THEN EmptyViews(i)
        ELSE UnrollDynamicOffset(i, constants, length)

----------------------------------------------------------------------------
CopyInit ==
    /\ fn \in SsaFunctions
    /\ pass = "static"
    /\ code = BlockOf(fn)
    /\ transformations = {}
    /\ obligations = UNION {BlockOf(fn)[i].obligations : i \in DOMAIN BlockOf(fn)}
    /\ lowering_refs = <<>>

(***************************************************************************)
(* One pass over the block.  An error ends the emission; a pass that       *)
(* lowered something leaves its fingerprint in the artifact.               *)
(***************************************************************************)
Pass(name, next, Lower(_, _)) ==
    LET constants == ConstantOf(code)
        results == [k \in DOMAIN code |-> Lower(code[k], constants)]
        failed == \E k \in DOMAIN results : results[k].error
        records == UNION {results[k].records : k \in DOMAIN results}
    IN  /\ pass = name
        /\ \/ /\ failed
              /\ pass' = "error"
              /\ UNCHANGED <<code, transformations, obligations, lowering_refs>>
           \/ /\ ~failed
              /\ pass' = next
              /\ code' = FlattenSeq([k \in DOMAIN results |-> results[k].code])
              /\ transformations' = transformations \union records
              /\ obligations' = obligations \union UNION {results[k].obligations : k \in DOMAIN results}
              /\ lowering_refs' = IF records = {} THEN lowering_refs ELSE Append(lowering_refs, name)
        /\ UNCHANGED fn

LowerStaticCopies == Pass("static", "constant", LowerStatic)
LowerConstantWindows == Pass("constant", "dynamic", LowerConstantWindow)
LowerDynamicOffsets == Pass("dynamic", "lowered", LowerDynamicOffset)

CopyNext == LowerStaticCopies \/ LowerConstantWindows \/ LowerDynamicOffsets

CopySpec == CopyInit /\ [][CopyNext]_copyVars

----------------------------------------------------------------------------
(* The VM (external).  A checked access that misses is a failure of the    *)
(* program; a statically proven one that misses is a trap, which no        *)
(* correct lowering can reach.                                             *)

Miss(evidence) == IF evidence = "checked" THEN "failure" ELSE "trap"

Value(v) == [status |-> "ok", value |-> v]
Stop(s) == [status |-> s]

Execute(i, env) ==
    LET x(n) == env[i.inputs[n]]
        arg == i.kind.arg
        op == i.kind.op
    IN  CASE op = "constant" -> Value(arg)
          [] op = "true" -> Value(TRUE)
          [] op = "project" -> IF x(2) < Len(x(1)) THEN Value(x(1)[x(2) + 1]) ELSE Stop(Miss(arg))
          [] op = "replace" -> IF x(2) < Len(x(1)) THEN Value([x(1) EXCEPT ![x(2) + 1] = x(3)])
                               ELSE Stop(Miss(arg))
          [] op = "construct" -> Value([n \in 1..arg |-> x(n)])
          [] op = "select" -> Value(IF x(1) THEN x(2) ELSE x(3))
          [] op = "view" -> IF x(2) <= x(3) /\ x(3) <= Len(x(1)) /\ x(3) - x(2) <= arg
                            THEN Value(SubSeq(x(1), x(2) + 1, x(3))) ELSE Stop("failure")
          [] op = "length" -> Value(Len(x(1)))
          [] op = "eq" -> Value(x(1) = x(2))
          [] op = "and" -> Value(x(1) /\ x(2))
          [] op = "add" -> IF x(1) + x(2) <= U64MAX THEN Value(x(1) + x(2)) ELSE Stop("failure")
          [] op = "copy" ->
               IF x(2) < 0 \/ x(4) < 0 \/ x(5) < 0
                  \/ x(2) + x(5) > Len(x(1)) \/ x(4) + x(5) > Len(x(3))
               THEN Stop("failure")
               ELSE Value([n \in DOMAIN x(1) |->
                            IF n > x(2) /\ n <= x(2) + x(5) THEN x(3)[x(4) + n - x(2)] ELSE x(1)[n]])

(***************************************************************************)
(* Running a block: the values it defines, or how it stopped.              *)
(***************************************************************************)
Run(block, inputs) ==
    FoldLeft(LAMBDA state, i :
                IF state.status # "ok" THEN state
                ELSE LET r == Execute(i, state.env)
                     IN  IF r.status = "ok" THEN [state EXCEPT !.env = (i.output :> r.value) @@ @]
                         ELSE [state EXCEPT !.status = r.status],
             [status |-> "ok", env |-> inputs], block)

Copies(block) == {block[k] : k \in {n \in DOMAIN block : IsCopy(block[n])}}

----------------------------------------------------------------------------
(***************************************************************************)
(* The shape of the rewritten block and of the emission's provenance.      *)
(***************************************************************************)
CopyTypeOK ==
    /\ pass \in {"static", "constant", "dynamic", "lowered", "error"}
    /\ \A k \in DOMAIN code : {"id", "kind", "inputs", "output", "sem", "obligations"} = DOMAIN code[k]
    /\ \A n \in DOMAIN lowering_refs : lowering_refs[n] \in {"static", "constant", "dynamic"}

(***************************************************************************)
(* After every pass the block computes, for the inputs it is given, the    *)
(* value the source copies compute, and it fails exactly when they fail:   *)
(* no out-of-range read, no wrap of an offset past u64::MAX, no empty copy *)
(* that forgets its offsets.                                               *)
(***************************************************************************)
LoweringPreservesCopies ==
    pass # "error" /\ RunnableCopy(fn) =>
        LET before == Run(BlockOf(fn), InputsOf(fn))
            after == Run(code, InputsOf(fn))
        IN  /\ after.status = before.status
            /\ after.status = "ok" =>
                 \A i \in Copies(BlockOf(fn)) : after.env[i.output] = before.env[i.output]

(***************************************************************************)
(* The rewritten block is in SSA form: every identity is defined once and  *)
(* every operand is an input or the result of an earlier instruction.      *)
(***************************************************************************)
StaysSsa ==
    /\ \A m, n \in DOMAIN code : m # n => /\ code[m].id # code[n].id
                                          /\ code[m].output # code[n].output
    /\ \A n \in DOMAIN code : \A k \in DOMAIN code[n].inputs :
          \/ code[n].inputs[k] \in DOMAIN InputsOf(fn)
          \/ \E m \in 1..(n - 1) : code[m].output = code[n].inputs[k]

(***************************************************************************)
(* Provenance: each source copy is still answered by exactly one           *)
(* instruction that carries its operation and obligations (the source map  *)
(* is built from it); a copy that is gone has exactly one transformation   *)
(* record; every obligation an instruction names exists.                   *)
(***************************************************************************)
ProvenanceKept ==
    pass # "error" =>
    /\ \A i \in Copies(BlockOf(fn)) :
         /\ Cardinality({n \in DOMAIN code : code[n].sem = i.sem}) = 1
         /\ \E n \in DOMAIN code : code[n].sem = i.sem /\ i.obligations \subseteq code[n].obligations
         /\ Cardinality({t \in transformations : t.input = i.id})
              = IF i \in Copies(code) THEN 0 ELSE 1
    /\ \A n \in DOMAIN code : code[n].obligations \subseteq obligations
    /\ \A t \in transformations : t.required \subseteq obligations

(***************************************************************************)
(* What stays explicit, and so refuses to run on the VM: a copy with an    *)
(* exact destination, runtime-checked evidence and a constant length       *)
(* within the unroll limit stays only if it fails whatever the inputs.     *)
(***************************************************************************)
OnlyFailingWindowsStayExplicit ==
    pass = "lowered" /\ RunnableCopy(fn) =>
      \A i \in Copies(code) :
        LET constants == ConstantOf(BlockOf(fn))
        IN  /\ Bounds(i).evidence = "checked" /\ Bounds(i).dst.exact
            /\ i.inputs[5] \in DOMAIN constants /\ constants[i.inputs[5]] <= UNROLL_LIMIT
            => Run(BlockOf(fn), InputsOf(fn)).status = "failure"
=============================================================================
