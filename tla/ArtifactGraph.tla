--------------------------- MODULE ArtifactGraph ---------------------------
(***************************************************************************)
(* The node table of a frozen VM artifact, vm-artifact-codec/src/lib.rs:   *)
(* canonical_order, which numbers the nodes of a Builder in postorder and  *)
(* rotates them into place, and Graph::validate, which a decoder runs on a *)
(* table it may have got from anywhere before it expands it.               *)
(*                                                                         *)
(* A node is a record [kind, leaf, refs] whose kind is the constructor of  *)
(* enum Node.  A string or a number is its rank; the refs of an object     *)
(* alternate key and value.  Indices start at 1.  The recursion of visit   *)
(* is a stack of frames.                                                   *)
(***************************************************************************)
EXTENDS Naturals, Sequences, FiniteSets, FiniteSetsExt

CONSTANTS
    MaxU32,        \* u32::MAX, where the expansion count saturates
    MaxExpanded,   \* MAX_EXPANDED_NODES
    MaxDepth       \* the 128 of Graph::validate

ASSUME LimitsAssumption ==
    MaxU32 \in Nat /\ MaxExpanded \in 1 .. (MaxU32 - 1) /\ MaxDepth \in Nat \ {0}

Node(kind, leaf, refs) == [kind |-> kind, leaf |-> leaf, refs |-> refs]
NodeN == Node("N", 0, <<>>)

NodeType ==
    {x \in [kind : {"N", "B", "I", "S", "A", "O"}, leaf : Nat, refs : Seq(Nat \ {0})] :
        x.kind \notin {"A", "O"} => x.refs = <<>>}

\* UNVISITED, which is also PERMUTATION_CONSUMED, and VISITING.
Unvisited == MaxU32
Consumed == MaxU32
Visiting == MaxU32 - 1

VARIABLES
    pc,        \* the stage the artifact is in
    nodes,     \* Builder.nodes, then Graph.nodes
    root,      \* Graph.root
    mapped,    \* the old-to-new permutation
    frames,    \* the calls of visit that have not returned
    next,      \* the number visit gives next
    index,     \* the index of the running for loop
    current,   \* the position the rotation left last
    hand,      \* the node the rotation holds
    slot,      \* the reference validate accounts next
    size, depth,
    sizes,     \* expanded nodes below each validated node, saturating
    depths,    \* nesting of each validated node
    reached,   \* nodes the root was seen to reach
    built,     \* the table as the Builder left it, for the properties
    numbers    \* and the numbers visit gave its nodes

graphVars == << pc, nodes, root, mapped, frames, next, index, current, hand, slot, size, depth, sizes, depths,
                reached, built, numbers >>

visitVars == << mapped, frames, next, built, numbers >>
rotationVars == << current, hand >>
summaryVars == << slot, size, depth, sizes, depths, reached >>

Ids(s) == {s[k] : k \in DOMAIN s}
Pairs(s) == 1 .. (Len(s) \div 2)
Keys(s) == [j \in Pairs(s) |-> s[2 * j - 1]]

\* The keys of an object are string nodes in strictly ascending order.
KeysInOrder(ns, node) ==
    LET keys == Keys(node.refs)
    IN  /\ \A j \in DOMAIN keys : ns[keys[j]].kind = "S"
        /\ \A j \in DOMAIN keys : j > 1 => ns[keys[j - 1]].leaf < ns[keys[j]].leaf

Backward(ns) == \A n \in DOMAIN ns : \A r \in Ids(ns[n].refs) : r < n
Referenced(ns, r) == \A n \in DOMAIN ns \ {r} : \E m \in DOMAIN ns : n \in Ids(ns[m].refs)

\* What a Builder leaves: no node twice, each after the nodes it refers to,
\* objects sorted, and nothing but the root without a reference to it.
Interned(ns, r) ==
    /\ r \in DOMAIN ns
    /\ \A m, n \in DOMAIN ns : ns[m] = ns[n] => m = n
    /\ Backward(ns)
    /\ Referenced(ns, r)
    /\ \A n \in DOMAIN ns : ns[n].kind = "O" => KeysInOrder(ns, ns[n])

----------------------------------------------------------------------------
(* canonical_order. *)

\* The value is serialised, or cannot be.
Build ==
    /\ pc = "encode"
    /\ nodes' \in Seq(NodeType) /\ root' \in Nat
    /\ \/ pc' = "order" /\ Interned(nodes', root')
       \/ pc' = "unencodable"
    /\ UNCHANGED << index, visitVars, rotationVars, summaryVars >>

\* The two marks are no indices; the root is visited.
Order ==
    /\ pc = "order"
    /\ IF Len(nodes) >= MaxU32 - 1
       THEN pc' = "panicked" /\ UNCHANGED << mapped, frames, next >>
       ELSE /\ pc' = "visit"
            /\ mapped' = [[n \in DOMAIN nodes |-> Unvisited] EXCEPT ![root] = Visiting]
            /\ frames' = << [id |-> root, slot |-> 1] >>
            /\ next' = 1
    /\ built' = nodes
    /\ UNCHANGED << nodes, root, index, numbers, rotationVars, summaryVars >>

\* The innermost visit that has not returned, and its node's references.
Top == frames[Len(frames)]
TopRefs == nodes[Top.id].refs

\* visit is called on the next reference: it panics on a node that is being
\* visited, enters one that was not visited, and returns from any other.
VisitRef ==
    /\ pc = "visit" /\ frames # <<>> /\ Top.slot <= Len(TopRefs)
    /\ LET r == TopRefs[Top.slot]
           moved == [frames EXCEPT ![Len(frames)] = [id |-> Top.id, slot |-> Top.slot + 1]]
       IN  IF mapped[r] = Visiting
           THEN pc' = "panicked" /\ UNCHANGED << mapped, frames >>
           ELSE IF mapped[r] = Unvisited
           THEN /\ mapped' = [mapped EXCEPT ![r] = Visiting]
                /\ frames' = Append(moved, [id |-> r, slot |-> 1])
                /\ UNCHANGED pc
           ELSE frames' = moved /\ UNCHANGED << pc, mapped >>
    /\ UNCHANGED << nodes, root, next, index, built, numbers, rotationVars, summaryVars >>

\* All references of a node are numbered: so is the node.
VisitDone ==
    /\ pc = "visit" /\ frames # <<>> /\ Top.slot > Len(TopRefs)
    /\ mapped' = [mapped EXCEPT ![Top.id] = next]
    /\ next' = next + 1
    /\ frames' = SubSeq(frames, 1, Len(frames) - 1)
    /\ UNCHANGED << pc, nodes, root, index, built, numbers, rotationVars, summaryVars >>

Renumbered(node, map) == [node EXCEPT !.refs = [k \in DOMAIN node.refs |-> map[node.refs[k]]]]

\* All nodes must have been reached; the references are rewritten in place.
Remap ==
    /\ pc = "visit" /\ frames = <<>>
    /\ IF next = Len(nodes) + 1
       THEN /\ pc' = "rotate"
            /\ root' = mapped[root]
            /\ nodes' = [n \in DOMAIN nodes |-> Renumbered(nodes[n], mapped)]
            /\ numbers' = mapped
       ELSE pc' = "panicked" /\ UNCHANGED << root, nodes, numbers >>
    /\ index' = 1
    /\ UNCHANGED << mapped, frames, next, built, rotationVars, summaryVars >>

\* The head of the rotation's for loop: a consumed position is skipped, any
\* other starts a cycle with its node taken out.
StartCycle ==
    /\ pc = "rotate"
    /\ index <= Len(nodes)
    /\ IF mapped[index] = Consumed
       THEN index' = index + 1 /\ UNCHANGED << pc, nodes, current, hand >>
       ELSE /\ current' = index
            /\ hand' = nodes[index]
            /\ nodes' = [nodes EXCEPT ![index] = NodeN]
            /\ pc' = "swap"
            /\ index' = index
    /\ UNCHANGED << root, visitVars, summaryVars >>

\* Seeded fault: a rotated position is not marked as consumed.
SwapWithoutConsuming ==
    LET destination == mapped[current]
    IN  /\ pc = "swap"
        /\ nodes' = [nodes EXCEPT ![destination] = hand]
        /\ hand' = nodes[destination]
        /\ IF destination = index
           THEN pc' = "rotate" /\ UNCHANGED << index, current >>
           ELSE current' = destination /\ UNCHANGED << pc, index >>
        /\ UNCHANGED << root, visitVars, summaryVars >>

\* One turn of the rotation's inner loop.
Swap ==
    LET destination == mapped[current]
    IN  /\ pc = "swap"
        /\ mapped' = [mapped EXCEPT ![current] = Consumed]
        /\ nodes' = [nodes EXCEPT ![destination] = hand]
        /\ hand' = nodes[destination]
        /\ IF destination = index
           THEN pc' = "rotate" /\ index' = index + 1 /\ current' = current
           ELSE current' = destination /\ UNCHANGED << pc, index >>
        /\ UNCHANGED << root, frames, next, built, numbers, summaryVars >>

\* The graph is frozen and handed to a decoder.
Freeze ==
    /\ pc = "rotate"
    /\ index > Len(nodes)
    /\ pc' = "received"
    /\ UNCHANGED << nodes, root, index, visitVars, rotationVars, summaryVars >>

----------------------------------------------------------------------------
(* Graph::validate. *)

\* The checks before its loops.
OpenGraph ==
    /\ pc = "received"
    /\ pc' = IF nodes = <<>> \/ root # Len(nodes) THEN "refused" ELSE "validate"
    /\ index' = 1
    /\ slot' = 1 /\ size' = 1 /\ depth' = 1
    /\ sizes' = <<>> /\ depths' = <<>>
    /\ reached' = {root}
    /\ UNCHANGED << nodes, root, visitVars, rotationVars >>

\* Seeded fault: the expansion count wraps at the width of its type.
WrappingAdd(a, b) == (a + b) % (MaxU32 + 1)

\* u32::saturating_add.
SaturatingAdd(a, b) == IF a + b > MaxU32 THEN MaxU32 ELSE a + b

\* account_ref.
AccountRef ==
    /\ pc = "validate" /\ slot <= Len(nodes[index].refs)
    /\ LET r == nodes[index].refs[slot]
       IN  IF r >= index
           THEN pc' = "refused" /\ UNCHANGED << slot, size, depth >>
           ELSE /\ size' = SaturatingAdd(size, sizes[r])
                /\ depth' = IF depth > depths[r] THEN depth ELSE depths[r] + 1
                /\ slot' = slot + 1
                /\ UNCHANGED pc
    /\ UNCHANGED << nodes, root, index, sizes, depths, reached, visitVars, rotationVars >>

\* The rest of a turn of the first loop: the limits, the keys of an object,
\* and the summaries of the node.
FinishNode ==
    /\ pc = "validate" /\ slot > Len(nodes[index].refs)
    /\ IF \/ depth > MaxDepth
          \/ size > MaxExpanded
          \/ nodes[index].kind = "O" /\ ~KeysInOrder(nodes, nodes[index])
       THEN pc' = "refused" /\ UNCHANGED << index, slot, size, depth, sizes, depths >>
       ELSE /\ sizes' = Append(sizes, size)
            /\ depths' = Append(depths, depth)
            /\ slot' = 1 /\ size' = 1 /\ depth' = 1
            /\ index' = index + 1
            /\ pc' = IF index = Len(nodes) THEN "reach" ELSE pc
    /\ UNCHANGED << nodes, root, reached, visitVars, rotationVars >>

\* One turn of the second loop, which runs from the root down.
ReachNode ==
    /\ pc = "reach"
    /\ LET n == index - 1
       IN  IF n \notin reached
           THEN pc' = "refused" /\ UNCHANGED << index, reached >>
           ELSE /\ reached' = reached \union Ids(nodes[n].refs)
                /\ index' = n
                /\ pc' = IF n = 1 THEN "decode" ELSE pc
    /\ UNCHANGED << nodes, root, slot, size, depth, sizes, depths, visitVars, rotationVars >>

\* Typed decoding reads the table.
DecodeGraph ==
    /\ pc = "decode"
    /\ pc' = "decoded"
    /\ UNCHANGED << nodes, root, index, visitVars, rotationVars, summaryVars >>

----------------------------------------------------------------------------
\* Nothing is numbered, rotated or summarised yet.
GraphClear ==
    /\ mapped = <<>> /\ frames = <<>> /\ next = 1 /\ built = <<>> /\ numbers = <<>>
    /\ index = 1 /\ current = 1 /\ hand = NodeN
    /\ slot = 1 /\ size = 1 /\ depth = 1 /\ sizes = <<>> /\ depths = <<>> /\ reached = {}

\* A value is to be frozen, or a table came from anywhere.
GraphInit ==
    /\ \/ pc = "encode" /\ nodes = <<>> /\ root = 0
       \/ pc = "received" /\ nodes \in Seq(NodeType) /\ root \in Nat
    /\ GraphClear

GraphStep ==
    \/ Order \/ VisitRef \/ VisitDone \/ Remap \/ StartCycle \/ Swap \/ Freeze
    \/ OpenGraph \/ AccountRef \/ FinishNode \/ ReachNode

GraphNext == Build \/ GraphStep \/ DecodeGraph
GraphSpec == GraphInit /\ [][GraphNext]_graphVars

----------------------------------------------------------------------------
(* What a node expands to, counted without a width. *)

Total(weights) ==
    LET sum[k \in 0 .. Len(weights)] == IF k = 0 THEN 1 ELSE sum[k - 1] + weights[k]
    IN  sum[Len(weights)]

\* The nodes, the levels and the set of table entries below a node.
Expanded[n \in DOMAIN nodes] == Total([k \in DOMAIN nodes[n].refs |-> Expanded[nodes[n].refs[k]]])
Levels[n \in DOMAIN nodes] == 1 + Max({0} \union {Levels[r] : r \in Ids(nodes[n].refs)})
Below[n \in DOMAIN nodes] == {n} \union UNION {Below[r] : r \in Ids(nodes[n].refs)}

TooLarge == \E n \in DOMAIN nodes : Expanded[n] > MaxExpanded \/ Levels[n] > MaxDepth

(* Properties. *)

\* "Remap references before consuming the sole old-index -> new-index table to
\* rotate its permutation cycles in the existing node buffer": a frozen table is
\* the Builder's, each node once at its number with its references renumbered,
\* and is again without repetition, in the order of its references, and rooted
\* in its last node.
FrozenIsRenumbered ==
    pc = "received" /\ built # <<>> =>
        /\ {numbers[n] : n \in DOMAIN built} = DOMAIN nodes
        /\ Len(nodes) = Len(built)
        /\ \A n \in DOMAIN built : nodes[numbers[n]] = Renumbered(built[n], numbers)
        /\ Interned(nodes, root) /\ root = Len(nodes)

\* The two halves agree on what a graph is: numbering meets none of its panics
\* while its marks are no indices, and validate refuses a frozen graph for the
\* decoder's limits alone.
FrozenIsAccepted ==
    /\ pc = "panicked" => Len(nodes) >= MaxU32 - 1
    /\ pc = "refused" /\ built # <<>> => TooLarge

\* "Bound expansion before typed decoding": a graph from anywhere that reaches
\* the decoder expands, counted without a width, to at most MaxExpanded nodes
\* and MaxDepth levels.
ExpansionIsBounded ==
    pc \in {"decode", "decoded"} => Expanded[root] <= MaxExpanded /\ Levels[root] <= MaxDepth

\* Every node of an accepted graph is part of the artifact: the descending
\* reachability pass misses no node the root does not reach.
NothingRidesAlong ==
    pc \in {"decode", "decoded"} => Below[root] = DOMAIN nodes

\* A table is frozen without loss, is accepted within the limits, and what is
\* accepted from anywhere is bounded and whole.
GraphIsSound ==
    /\ FrozenIsRenumbered
    /\ FrozenIsAccepted
    /\ ExpansionIsBounded
    /\ NothingRidesAlong
=============================================================================
