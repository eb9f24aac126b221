--------------------------- MODULE MCSequenceCopy ---------------------------
(***************************************************************************)
(* Functions of one to three copies.  Windows range over constants and     *)
(* run-time values, with offsets up to the scaled u64::MAX; bounds are     *)
(* exact or upper, and a view may be shorter than its upper bound.         *)
(***************************************************************************)
EXTENDS SequenceCopy

CONSTANTS ExactBounds, ViewBounds
Offsets == {-1, 0, 1, 3, U64MAX}
Lengths == {-1, 0, 1, 2, 3}

V(name) == <<"value", name, 0>>
Cells(tag, n) == [k \in 1..n |-> <<tag, k>>]

\* A scalar operand: whether a constant defines it, and its value.
Scalar(values) ==
    [known : {TRUE}, value : values] \union [known : {FALSE}, value : values \ {-1}]

\* A sequence operand: its declared bound and its length at run time.
Operand ==
    {[bound |-> Exact(n), length |-> n] : n \in ExactBounds}
    \union {[bound |-> UpTo(m), length |-> m - short] : m \in ViewBounds, short \in {0, 1}}

\* self: the destination is also the source.  fault: what the verifier would
\* refuse, for the passes' own checks.
CopyShape ==
    [dst : Operand, src : Operand, self : BOOLEAN, dstAt : Scalar(Offsets), srcAt : Scalar(Offsets),
     length : Scalar(Lengths), evidence : {"static", "checked"},
     form : {"single", "chained"}, fault : {"none", "operands", "types", "offsets"}]

SourceOf(f) == IF f.self THEN f.dst ELSE f.src

\* The verifier accepts static evidence for a constant window that fits.
Proven(f) ==
    /\ f.dstAt.known /\ f.srcAt.known /\ f.length.known
    /\ f.dstAt.value >= 0 /\ f.srcAt.value >= 0 /\ f.length.value >= 0
    /\ f.dstAt.value + f.length.value <= f.dst.length
    /\ f.srcAt.value + f.length.value <= SourceOf(f).length

MCRunnableCopy(f) == f.fault = "none" /\ (f.evidence = "static" => Proven(f))

SmallCopy(f) == /\ f.dstAt.value \in {0, 1, U64MAX} /\ f.srcAt.value \in {0, 1} /\ f.length.value \in 0..2
            /\ f.dst.bound.exact /\ f.length.known

MCSsaFunctions ==
    {f \in CopyShape :
        /\ f.self => f.src = f.dst
        /\ f.form = "chained" => SmallCopy(f) /\ f.evidence = "checked" /\ f.fault = "none" /\ ~f.self
        /\ ~MCRunnableCopy(f) => ~f.self /\ f.dst = f.src /\ f.length.value \in {-1, 1, 3}
                             /\ f.dstAt = f.srcAt
        /\ f.fault = "offsets" => ~f.dstAt.known}

Define(name, s) ==
    IF s.known
    THEN <<[Instruction(<<"define", name, 0>>, Kind("constant", s.value), <<>>, V(name))
            EXCEPT !.sem = <<"source", name, 0>>]>>
    ELSE <<>>

Given(name, s) == IF s.known THEN <<>> ELSE V(name) :> s.value

CopyOf(name, bounds, inputs) ==
    [Instruction(<<name, "copy", 0>>, Kind("copy", bounds), inputs, V(name))
     EXCEPT !.sem = <<"source", name, 1>>, !.obligations = {<<"source", name, 2>>}]

\* The second copy writes the first result into the source (an upper bound, so
\* it stays explicit); the third copies two elements of the source back.
MCBlockOf(f) ==
    LET d == f.dst.bound
        s == SourceOf(f).bound
        B(dst, src, e) == [dst |-> dst, src |-> src, evidence |-> e,
                           typed |-> f.fault # "types", offsetsU64 |-> f.fault # "offsets"]
        w == <<V("dst"), V("dstAt"), IF f.self THEN V("dst") ELSE V("src"), V("srcAt"), V("length")>>
        first == Define("dstAt", f.dstAt) \o Define("srcAt", f.srcAt) \o Define("length", f.length)
                 \o <<CopyOf("copy", B(d, s, f.evidence),
                             IF f.fault = "operands" THEN SubSeq(w, 1, 4) ELSE w)>>
    IN  IF f.form = "single" THEN first
        ELSE Define("two", [known |-> TRUE, value |-> 2]) \o first
             \o <<CopyOf("again", B(UpTo(3), d, "checked"),
                         <<V("src"), V("at"), V("copy"), V("at"), V("one")>>),
                  CopyOf("onto", B(d, UpTo(3), "checked"),
                         <<V("copy"), V("one"), V("again"), V("at"), V("two")>>)>>

MCInputsOf(f) ==
    (V("dst") :> Cells("d", f.dst.length)) @@ (V("src") :> Cells("s", f.src.length))
    @@ Given("dstAt", f.dstAt) @@ Given("srcAt", f.srcAt) @@ Given("length", f.length)
    @@ (V("at") :> 1) @@ (V("one") :> 1)
=============================================================================
