--------------------------- MODULE ArtifactCodec ---------------------------
(***************************************************************************)
(* The DAG encoding of frozen VM artifacts, vm-artifact-codec/src/lib.rs.  *)
(* A typed value is serialised into a table of interned nodes, the table   *)
(* is put in order, frozen and validated as ArtifactGraph has it, and the  *)
(* receiver decodes it as its type asks.                                   *)
(*                                                                         *)
(* Values, types and JSON trees are records [kind, leaf, kids]; the kids   *)
(* of an object alternate key and value.                                   *)
(***************************************************************************)
EXTENDS ArtifactGraph, SequencesExt

CONSTANTS
    Values,        \* pairs <<type, value>> a sealer may freeze
    Received       \* graphs [nodes, root] a decoder may be handed

Tree(kind, leaf, kids) == [kind |-> kind, leaf |-> leaf, kids |-> kids]

NoTree == Tree("absent", 0, <<>>)
Fail == Tree("fail", 0, <<>>)

VARIABLES
    type,      \* the Rust type of the value, absent for a received graph
    value,     \* the value that was frozen, absent for a received graph
    decoded    \* what typed decoding returned

valueVars == << type, value, decoded >>
codecVars == << graphVars, valueVars >>

\* Op at a value that is worked out once, before Op looks at it.
With(x, Op(_)) == CHOOSE y \in {Op(z) : z \in {x}} : TRUE

----------------------------------------------------------------------------
(* The encoder. *)

\* Builder::intern: the id of an equal node, else a new last node.
Intern(ns, node) ==
    IF \E k \in DOMAIN ns : ns[k] = node
    THEN [nodes |-> ns, ids |-> <<CHOOSE k \in DOMAIN ns : ns[k] = node>>, ok |-> TRUE]
    ELSE [nodes |-> Append(ns, node), ids |-> <<Len(ns) + 1>>, ok |-> TRUE]

Failed(ns) == [nodes |-> ns, ids |-> <<>>, ok |-> FALSE]

\* Seeded fault: the fields stay in the order they were emitted in.
KeepFields(ns, refs) == refs

\* Compound::finish sorts the fields by the text of their keys.
SortFields(ns, refs) ==
    LET byKey(p, q) == ns[refs[2 * p - 1]].leaf < ns[refs[2 * q - 1]].leaf
        order == SetToSortSeq(Pairs(refs), byKey)
    IN  [k \in DOMAIN refs |->
            IF k % 2 = 1 THEN refs[2 * order[(k + 1) \div 2] - 1] ELSE refs[2 * order[k \div 2]]]

RECURSIVE Serialize(_, _)
RECURSIVE SerializeAll(_, _, _)

\* The elements of a sequence, or the keys and values of an object, in
\* emission order; the first error ends it.
SerializeAll(ns, ids, kids) ==
    IF kids = <<>> THEN [nodes |-> ns, ids |-> ids, ok |-> TRUE]
    ELSE With(Serialize(ns, Head(kids)),
              LAMBDA r : IF r.ok THEN SerializeAll(r.nodes, ids \o r.ids, Tail(kids)) ELSE r)

SerializeSeq(ns, v) ==
    With(SerializeAll(ns, <<>>, v.kids),
         LAMBDA r : IF r.ok THEN Intern(r.nodes, Node("A", 0, r.ids)) ELSE r)

\* A struct, or a map, whose keys must have serialised to strings.
SerializeObject(ns, v) ==
    With(SerializeAll(ns, <<>>, v.kids),
         LAMBDA r : IF ~r.ok \/ \E p \in Pairs(r.ids) : r.nodes[r.ids[2 * p - 1]].kind # "S"
                    THEN Failed(r.nodes)
                    ELSE Intern(r.nodes, Node("O", 0, SortFields(r.nodes, r.ids))))

\* A unit variant is its name; any other is an object of one field, whose key
\* is interned before the payload.
SerializeVariant(ns, v) ==
    LET name == Intern(ns, Node("S", v.leaf, <<>>))
    IN  IF v.kids[1].kind = "unit" THEN name
        ELSE With(Serialize(name.nodes, v.kids[1]),
                  LAMBDA r : IF r.ok THEN Intern(r.nodes, Node("O", 0, name.ids \o r.ids)) ELSE r)

\* impl Serializer for &mut Builder.  Some and newtypes are transparent;
\* a "wide" integer is a 128-bit one that serde_json::Number cannot hold.
Serialize(ns, v) ==
    CASE v.kind \in {"unit", "none"} -> Intern(ns, NodeN)
      [] v.kind = "bool" -> Intern(ns, Node("B", v.leaf, <<>>))
      [] v.kind = "int" -> Intern(ns, Node("I", v.leaf, <<>>))
      [] v.kind = "str" -> Intern(ns, Node("S", v.leaf, <<>>))
      [] v.kind = "wide" -> Failed(ns)
      [] v.kind = "some" -> Serialize(ns, v.kids[1])
      [] v.kind = "seq" -> SerializeSeq(ns, v)
      [] v.kind \in {"struct", "map"} -> SerializeObject(ns, v)
      [] v.kind = "variant" -> SerializeVariant(ns, v)

\* encode, up to the call of canonical_order.
Encode ==
    /\ pc = "encode"
    /\ \E r \in {Serialize(<<>>, value)} :
           /\ nodes' = r.nodes
           /\ root' = IF r.ok THEN r.ids[1] ELSE 0
           /\ pc' = IF r.ok THEN "order" ELSE "unencodable"
    /\ UNCHANGED << index, visitVars, rotationVars, summaryVars, valueVars >>

----------------------------------------------------------------------------
(* The decoder. *)

\* The value below a key of an object node, 0 when it has no such key.
FieldAt(node, key) ==
    LET hits == {p \in Pairs(node.refs) : nodes[node.refs[2 * p - 1]].leaf = key.leaf}
    IN  IF hits = {} THEN 0 ELSE node.refs[2 * (CHOOSE p \in hits : TRUE)]

OrFail(tree) == IF \E k \in DOMAIN tree.kids : tree.kids[k] = Fail THEN Fail ELSE tree

\* deserialize_option: only the null node is None.
IsNone(id) == nodes[id].kind = "N"

RECURSIVE Decode(_, _)

DecodeStruct(t, node) ==
    LET field(k) ==
            LET id == FieldAt(node, t.kids[k - 1])
            IN  IF id # 0 THEN Decode(t.kids[k], id)
                ELSE IF t.kids[k].kind = "option" THEN Tree("none", 0, <<>>) ELSE Fail
    IN  OrFail(Tree("struct", 0,
            [k \in DOMAIN t.kids |-> IF k % 2 = 1 THEN t.kids[k] ELSE field(k)]))

DecodeMap(t, node) ==
    OrFail(Tree("map", 0,
        [k \in DOMAIN node.refs |->
            Decode(IF k % 2 = 1 THEN Tree("str", 0, <<>>) ELSE t.kids[1], node.refs[k])]))

\* deserialize_enum: a string names a unit variant, an object of one field
\* holds the payload of the variant its key names.
DecodeEnum(t, node) ==
    LET name == IF node.kind = "S" THEN node.leaf
                ELSE IF node.kind = "O" /\ Len(node.refs) = 2 THEN nodes[node.refs[1]].leaf
                ELSE 0
        hits == {p \in Pairs(t.kids) : t.kids[2 * p - 1].leaf = name}
        payload == t.kids[2 * (CHOOSE p \in hits : TRUE)]
    IN  CASE hits = {} -> Fail
          [] hits # {} /\ node.kind = "S" ->
                IF payload.kind = "unit"
                THEN Tree("variant", name, <<Tree("unit", 0, <<>>)>>) ELSE Fail
          [] OTHER -> OrFail(Tree("variant", name, <<Decode(payload, node.refs[2])>>))

\* The Deserializer at a node, driven by the type that is asked for.
Decode(t, id) ==
    LET node == nodes[id]
    IN  CASE t.kind = "unit" /\ node.kind = "N" -> Tree("unit", 0, <<>>)
          [] t.kind = "bool" /\ node.kind = "B" -> Tree("bool", node.leaf, <<>>)
          [] t.kind = "int" /\ node.kind = "I" -> Tree("int", node.leaf, <<>>)
          [] t.kind = "str" /\ node.kind = "S" -> Tree("str", node.leaf, <<>>)
          [] t.kind = "option" ->
                IF IsNone(id) THEN Tree("none", 0, <<>>)
                ELSE OrFail(Tree("some", 0, <<Decode(t.kids[1], id)>>))
          [] t.kind = "seq" /\ node.kind = "A" ->
                OrFail(Tree("seq", 0, [k \in DOMAIN node.refs |-> Decode(t.kids[1], node.refs[k])]))
          [] t.kind = "struct" /\ node.kind = "O" -> DecodeStruct(t, node)
          [] t.kind = "map" /\ node.kind = "O" -> DecodeMap(t, node)
          [] t.kind = "enum" -> DecodeEnum(t, node)
          [] OTHER -> Fail

\* T::deserialize at the root of a validated graph.
DecodeRoot ==
    /\ DecodeGraph
    /\ decoded' = IF type = NoTree THEN NoTree ELSE Decode(type, root)
    /\ UNCHANGED << type, value >>

----------------------------------------------------------------------------
Ended == {"unencodable", "panicked", "refused", "decoded"}

CodecInit ==
    /\ \/ /\ pc = "encode"
          /\ \E tv \in Values : type = tv[1] /\ value = tv[2]
          /\ nodes = <<>> /\ root = 0
       \/ /\ pc = "received"
          /\ type = NoTree /\ value = NoTree
          /\ \E g \in Received : nodes = g.nodes /\ root = g.root
    /\ GraphClear
    /\ decoded = NoTree

CodecNext == Encode \/ (GraphStep /\ UNCHANGED valueVars) \/ DecodeRoot

CodecSpec == CodecInit /\ [][CodecNext]_codecVars
\* encode and deserialize are ordinary calls: they run on until they return.
CodecFairSpec == CodecSpec /\ WF_codecVars(CodecNext)

----------------------------------------------------------------------------
(* References the code is measured against. *)

Sort(ks) == SetToSortSeq(ks, <)

\* The JSON tree a value stands for, its objects in key order.
RECURSIVE Json(_)
Json(v) ==
    CASE v.kind \in {"unit", "none"} -> Tree("N", 0, <<>>)
      [] v.kind = "bool" -> Tree("B", v.leaf, <<>>)
      [] v.kind = "int" -> Tree("I", v.leaf, <<>>)
      [] v.kind = "str" -> Tree("S", v.leaf, <<>>)
      [] v.kind = "some" -> Json(v.kids[1])
      [] v.kind = "seq" -> Tree("A", 0, [k \in DOMAIN v.kids |-> Json(v.kids[k])])
      [] v.kind = "variant" ->
            IF v.kids[1].kind = "unit" THEN Tree("S", v.leaf, <<>>)
            ELSE Tree("O", 0, << Tree("S", v.leaf, <<>>), Json(v.kids[1]) >>)
      [] v.kind \in {"struct", "map"} ->
            LET at(leaf) == CHOOSE p \in Pairs(v.kids) : v.kids[2 * p - 1].leaf = leaf
                keys == Sort({v.kids[2 * p - 1].leaf : p \in Pairs(v.kids)})
            IN  Tree("O", 0, [k \in DOMAIN v.kids |->
                    IF k % 2 = 1 THEN Tree("S", keys[(k + 1) \div 2], <<>>)
                    ELSE Json(v.kids[2 * at(keys[k \div 2])])])

\* The distinct subtrees of a tree, in the order a postorder walk first
\* completes them.
RECURSIVE Postorder(_, _)
RECURSIVE PostorderAll(_, _)
PostorderAll(done, kids) ==
    IF kids = <<>> THEN done
    ELSE With(Postorder(done, Head(kids)), LAMBDA d : PostorderAll(d, Tail(kids)))
Postorder(done, tree) ==
    With(PostorderAll(done, tree.kids),
         LAMBDA d : IF tree \in Range(d) THEN d ELSE Append(d, tree))

\* The tree a node expands to; how large and how deep a tree is.
RECURSIVE Expand(_)
Expand(id) ==
    Tree(nodes[id].kind, nodes[id].leaf, [k \in DOMAIN nodes[id].refs |-> Expand(nodes[id].refs[k])])

RECURSIVE TreeSize(_)
TreeSize(tree) == FoldLeft(+, 1, [k \in DOMAIN tree.kids |-> TreeSize(tree.kids[k])])

RECURSIVE TreeDepth(_)
TreeDepth(tree) == 1 + Max({0} \union {TreeDepth(tree.kids[k]) : k \in DOMAIN tree.kids})

\* A map is equal to itself however its entries are listed.
RECURSIVE Normal(_)
Normal(v) ==
    LET kids == [k \in DOMAIN v.kids |-> Normal(v.kids[k])]
        at(leaf) == CHOOSE p \in Pairs(kids) : kids[2 * p - 1].leaf = leaf
        keys == Sort({kids[2 * p - 1].leaf : p \in Pairs(kids)})
    IN  IF v.kind # "map" THEN Tree(v.kind, v.leaf, kids)
        ELSE Tree("map", v.leaf, [k \in DOMAIN kids |->
                IF k % 2 = 1 THEN Tree("str", keys[(k + 1) \div 2], <<>>)
                ELSE kids[2 * at(keys[k \div 2])]])

RECURSIVE Unfreezable(_)
Unfreezable(v) ==
    \/ v.kind = "wide"
    \/ v.kind = "map" /\ \E p \in Pairs(v.kids) : v.kids[2 * p - 1].kind # "str"
    \/ \E k \in DOMAIN v.kids : Unfreezable(v.kids[k])

----------------------------------------------------------------------------
(* Properties. *)

\* Every variable keeps its type: node tables hold nodes, the loops stay in
\* their bounds, the validator's summaries grow with its loop.  A table that
\* leaves the Builder is interned.
CodecTypeOK ==
    /\ pc \in {"encode", "order", "visit", "rotate", "swap", "received", "validate",
               "reach", "decode"} \union Ended
    /\ nodes \in Seq(NodeType) /\ root \in Nat
    /\ pc = "order" => Interned(nodes, root)
    /\ index \in 1 .. (Len(nodes) + 1)
    /\ Len(sizes) = Len(depths) /\ Len(sizes) <= Len(nodes)
    /\ reached \subseteq Nat

\* The header's promise that nodes are "interned in deterministic postorder"
\* with sorted keys: the frozen table lists each distinct subtree of the
\* value's JSON tree once, in the order a postorder walk of that tree first
\* completes it, whatever order a struct emitted its fields in and however the
\* in-place rotation of canonical_order shuffled the table on the way.
CanonicalForm ==
    (pc = "received" /\ value # NoTree) =>
        [n \in DOMAIN nodes |-> Expand(n)] = Postorder(<<>>, Json(value))

\* The encoding is lossless: what the decoder reads back under the value's own
\* type is the value, shared nodes, optional and enum values included.
Lossless ==
    (pc = "decoded" /\ value # NoTree) => decoded = Normal(value)

\* The two halves agree on what a graph is: encode fails on nothing but an
\* object key that is not a string or an integer outside the JSON range, never
\* meets its own panics, and the decoder refuses a frozen graph only for the
\* expansion limits it enforces.
DecoderAcceptsFrozen ==
    value # NoTree =>
        /\ pc # "panicked"
        /\ pc = "unencodable" => Unfreezable(value)
        /\ pc = "refused" => \/ TreeSize(Json(value)) > MaxExpanded
                             \/ TreeDepth(Json(value)) > MaxDepth

\* Encoding and decoding end: the rotation closes every cycle of the
\* permutation and the validator's loops finish.
CodecEnds == <>(pc \in Ended)
=============================================================================
