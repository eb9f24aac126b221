-------------------------- MODULE MCArtifactCodec --------------------------
(* Instances for ArtifactCodec: typed values built from two strings, and   *)
(* node tables of three nodes, most of them malformed, or of shared chains *)
(* whose expansion outgrows the limits.                                    *)
EXTENDS ArtifactCodec

Str(n) == Tree("str", n, <<>>)
Unit == Tree("unit", 0, <<>>)

\* Pairs <<type, value>>.
Scalars ==
    { <<Unit, Unit>>, <<Tree("bool", 0, <<>>), Tree("bool", 1, <<>>)>>,
      <<Tree("int", 0, <<>>), Tree("int", 1, <<>>)>>,
      <<Tree("int", 0, <<>>), Tree("wide", 1, <<>>)>>, <<Str(0), Str(1)>>, <<Str(0), Str(2)>> }

SomeOf(tv) == << Tree("option", 0, <<tv[1]>>), Tree("some", 0, <<tv[2]>>) >>
NoneOf(tv) == << Tree("option", 0, <<tv[1]>>), Tree("none", 0, <<>>) >>

EnumType == Tree("enum", 0, << Str(1), Unit, Str(2), Tree("seq", 0, <<Str(0)>>), Str(3), Str(0) >>)
Enums ==
    { << EnumType, Tree("variant", 1, <<Unit>>) >>,
      << EnumType, Tree("variant", 2, <<Tree("seq", 0, <<Str(2), Str(1), Str(2)>>)>>) >>,
      << EnumType, Tree("variant", 3, <<Str(3)>>) >> }

Seqs == { << Tree("seq", 0, <<Str(0)>>), Tree("seq", 0, s) >> :
            s \in { <<>>, <<Str(1)>>, <<Str(1), Str(1)>>, <<Str(3), Str(2)>> } }

Maps == { << Tree("map", 0, <<Str(0)>>), Tree("map", 0, s) >> :
            s \in { <<>>, << Str(2), Str(1), Str(1), Str(2) >>,
                    << Str(1), Str(2), Str(3), Str(2) >>,
                    << Tree("int", 1, <<>>), Str(1) >> } }

\* Null is one node: an option of a type whose value is null is not used.
SmallValues == Scalars \union Enums \union Seqs \union Maps
Optional == {SomeOf(tv) : tv \in SmallValues \ {<<Unit, Unit>>}} \union {NoneOf(tv) : tv \in Scalars}

Struct(k, x, l, y) ==
    << Tree("struct", 0, << Str(k), x[1], Str(l), y[1] >>),
       Tree("struct", 0, << Str(k), x[2], Str(l), y[2] >>) >>

Structs == {Struct(2, x, 1, y) : x, y \in SmallValues \union Optional}
       \union {Struct(1, x, 3, y) : x \in SmallValues, y \in Optional}

\* Structs in structs, which run into the limits.
Nested == {Struct(3, Struct(2, x, 1, y), 2, Struct(1, y, 2, x)) :
              x, y \in Enums \union Maps \union Seqs}

MCValues == SmallValues \union Optional \union Structs \union Nested

----------------------------------------------------------------------------
Leaves == { NodeN, Node("S", 1, <<>>), Node("S", 2, <<>>) }
Arrays(refs) == {Node("A", 0, <<>>)} \union {Node("A", 0, <<r>>) : r \in refs}
                \union {Node("A", 0, <<r, q>>) : r, q \in refs}
Objects1(refs) == {Node("O", 0, <<k, v>>) : k, v \in refs}
Objects2(refs) == {Node("O", 0, <<k, v, l, w>>) : k, v, l, w \in refs}

Graph(ns, r) == [nodes |-> ns, root |-> r]

Malformed ==
    {Graph(<<a, b, c>>, r) :
        a \in Leaves \union {Node("A", 0, <<1>>)},
        b \in Leaves \union Arrays(1 .. 2) \union Objects1(1 .. 3),
        c \in Leaves \union Arrays(1 .. 3) \union Objects1(1 .. 3) \union Objects2(1 .. 2),
        r \in {2, 3}}

\* Each node holds the one before it several times over.
Shared ==
    {Graph(<< NodeN, Node("A", 0, a), Node("A", 0, b), Node("A", 0, c) >>, 4) :
        a \in {<<1, 1>>, <<1, 1, 1>>},
        b \in UNION {[1 .. n -> 1 .. 2] : n \in 2 .. 4},
        c \in UNION {[1 .. n -> 1 .. 3] : n \in 1 .. 4}}

MCReceived == {Graph(<<>>, 0)} \union Malformed \union Shared
=============================================================================
