--------------------------- MODULE SourceResolver ---------------------------
(***************************************************************************)
(* How the probe, run for the Python VM provider, finds the source of an   *)
(* imported module: Resolver of provider.rs.  It looks at every candidate  *)
(* path of every selected root and takes a text only when it is the one    *)
(* authority.  Beside it stands the inventory of the same roots that       *)
(* vm_provider.py puts into the key of the product.                        *)
(*                                                                         *)
(* A dotted name and a path are sequences of components.  The file system  *)
(* holds a text or a link at a location; a directory may be a link too.    *)
(* Links of links do not occur, nothing outside the roots is a link, and   *)
(* no root lies inside another.  A request may list a root more than once. *)
(***************************************************************************)
EXTENDS Naturals, SequencesExt, FiniteSetsExt

CONSTANTS
    Root,           \* the directory of the source and the selected libraries
    RootPath,       \* the absolute path of each root
    Elsewhere,      \* the rest of the file system
    Slot,           \* the locations a file or a link may be at
    Directory,      \* locations of directories that may be links
    Orders,         \* the roots as a request may list them
    Module,         \* names the front end may ask for
    Version,        \* components of the form v1, v2, ...
    Text,
    Compatible,     \* pairs of a name and a text that declares a compatible name
    Trees,          \* file systems to look at
    Mounts,         \* what Directory may be: a link to a location, or Nothing
    Nothing

Path == Seq(STRING)
Location == (Root \union {Elsewhere}) \X Path

\* A search under way, and how one ends.
Search == [roots : Seq(Root), paths : Seq([root : Root, at : Location])]
Outcome == [kind : {"not found", "resolved", "conflict"}, texts : SUBSET Text]

\* Strictly inside a directory.
Below(directory, l) == l[1] = directory[1] /\ Len(l[2]) > Len(directory[2]) /\ IsPrefix(directory[2], l[2])

ASSUME SourceResolverAssumption ==
    /\ Elsewhere \notin Root
    /\ RootPath \in [Root -> Path]
    /\ \A r, s \in Root : r # s => ~IsPrefix(RootPath[r], RootPath[s])
    /\ Slot \subseteq Location /\ Directory \subseteq Location
    /\ Module \subseteq Path \ {<< >>}
    /\ Orders \subseteq Seq(Root)
    /\ \A o \in Orders : \A r \in Root : \E i \in DOMAIN o : o[i] = r
    /\ Nothing \notin Text \union Slot
    /\ Nothing \notin Search
    /\ Nothing \notin Outcome
    /\ Trees \subseteq [Slot -> Slot \union Text \union {Nothing}]
    /\ \A t \in Trees : \A l \in Slot :
          t[l] \in Slot => l[1] \in Root /\ t[t[l]] \notin Slot /\ \A d \in Directory : ~Below(d, t[l])
    /\ Mounts \subseteq [Directory -> Location \union {Nothing}]
    /\ \A w \in Mounts : \A d, e \in {f \in Directory : w[f] # Nothing} : \A l \in Slot :
          Below(w[d], l) => ~Below(e, l)
    /\ Compatible \subseteq Module \X Text

VARIABLES
    root_tree, mount,    \* the file system
    order,          \* the roots as the request lists them
    module,         \* the name asked for
    todo,           \* the roots not begun, and the candidates of the current root not looked at
    authorities,    \* the texts found, each with the location it was found at first
    outcome,
    observed,       \* what the reply will list as source_inputs
    key,            \* what the provider's key holds of the roots
    prior           \* history: the resolution before the last edit

resolverVars == << root_tree, mount, order, module, todo, authorities, outcome, observed, key, prior >>

----------------------------------------------------------------------------
(* Candidate paths. *)

\* "", or two dots in a row.
Malformed(m) == m = << "" >> \/ \E i \in 2..(Len(m) - 1) : m[i] = ""

Versioned(m) == Len(m) > 1 /\ Last(m) \in Version

PathsOf(name) ==
    << << Last(name) >>, name >>
    \o (IF Len(name) > 1 /\ Head(name) = "mncs" THEN << Tail(name) >> ELSE << >>)

\* Where an absolute path leads.
Located(path) ==
    IF \E r \in Root : Len(path) > Len(RootPath[r]) /\ IsPrefix(RootPath[r], path)
    THEN LET r == CHOOSE r \in Root : Len(path) > Len(RootPath[r]) /\ IsPrefix(RootPath[r], path)
         IN << r, SubSeq(path, Len(RootPath[r]) + 1, Len(path)) >>
    ELSE << Elsewhere, path >>

\* root.join: a path that begins with a slash replaces the root.
Join(root, path) ==
    IF Len(path) > 1 /\ Head(path) = "" THEN Located(Tail(path)) ELSE << root, path >>

\* The paths of the name, and of the name without its version.
Paths(m) == PathsOf(m) \o (IF Versioned(m) THEN PathsOf(Front(m)) ELSE << >>) \o << << Last(m) >> >>

Candidates(root, m) ==
    LET paths == Paths(m)
    IN [i \in DOMAIN paths |-> [root |-> root, at |-> Join(root, paths[i])]]

----------------------------------------------------------------------------
(* The file system. *)

\* The location with a linked directory on its way replaced.
ThroughDirectory(links, l) ==
    IF \E d \in Directory : links[d] # Nothing /\ Below(d, l)
    THEN LET d == CHOOSE d \in Directory : links[d] # Nothing /\ Below(d, l)
         IN << links[d][1], links[d][2] \o SubSeq(l[2], Len(d[2]) + 1, Len(l[2])) >>
    ELSE l

\* canonicalize
Canonical(l) ==
    LET through == ThroughDirectory(mount, l)
    IN IF through \in Slot /\ root_tree[through] \in Slot THEN root_tree[through] ELSE through

Readable(l) == Canonical(l) \in Slot /\ root_tree[Canonical(l)] \in Text
TextAt(l) == root_tree[Canonical(l)]

\* The canonical path stays under the root.
UnderRoot(c) == Canonical(c.at)[1] = c.root

\* What vm_provider.py records of the roots: every file rglob comes by, with
\* its bytes.  rglob does not enter linked directories.  A link that leaves its
\* root, or leads nowhere, is refused.
Inventory ==
    LET listed(r) == {l \in Slot : l[1] = r /\ root_tree[l] # Nothing /\ ThroughDirectory(mount, l) = l}
        refused(l) == Canonical(l)[1] # l[1] \/ ~Readable(l)
    IN IF \E r \in Root : \E l \in listed(r) : refused(l) THEN Nothing
       ELSE [r \in Root |-> {<< l[2], TextAt(l) >> : l \in listed(r)}]

----------------------------------------------------------------------------
(* resolve_detailed. *)

NotFound == [kind |-> "not found", texts |-> {}]

BeginSearch ==
    /\ todo = Nothing /\ outcome = Nothing
    /\ key' = Inventory
    /\ IF Malformed(module)
       THEN outcome' = NotFound /\ UNCHANGED todo
       ELSE todo' = [roots |-> order, paths |-> << >>] /\ UNCHANGED outcome
    /\ UNCHANGED << root_tree, mount, order, module, authorities, observed, prior >>

\* Seeded fault: the first text found is the authority.
First(c) == DOMAIN authorities = {}

\* Whether the text of a candidate joins the authorities: entry().or_insert().
New(c) == TextAt(c.at) \notin DOMAIN authorities

NextRoot ==
    /\ todo # Nothing /\ todo.paths = << >> /\ todo.roots # << >>
    /\ todo' = [roots |-> Tail(todo.roots), paths |-> Candidates(Head(todo.roots), module)]
    /\ UNCHANGED << root_tree, mount, order, module, authorities, outcome, observed, key, prior >>

Look ==
    /\ todo # Nothing /\ todo.paths # << >>
    /\ LET c == Head(todo.paths)
           text == TextAt(c.at)
       IN IF Readable(c.at) /\ UnderRoot(c) /\ << module, text >> \in Compatible /\ New(c)
          THEN authorities' = [t \in DOMAIN authorities \union {text} |->
                                 IF t = text THEN Canonical(c.at) ELSE authorities[t]]
          ELSE UNCHANGED authorities
    /\ todo' = [todo EXCEPT !.paths = Tail(@)]
    /\ UNCHANGED << root_tree, mount, order, module, outcome, observed, key, prior >>

Observe(text) == observed' = observed \union {<< authorities[text], text >>}

Conclude ==
    /\ todo # Nothing /\ todo.paths = << >> /\ todo.roots = << >>
    /\ LET texts == DOMAIN authorities
       IN \/ texts = {} /\ outcome' = NotFound /\ UNCHANGED observed
          \/ /\ Cardinality(texts) = 1
             /\ outcome' = [kind |-> "resolved", texts |-> texts]
             /\ \A text \in texts : Observe(text)
          \/ /\ Cardinality(texts) > 1
             /\ outcome' = [kind |-> "conflict", texts |-> texts]
             /\ UNCHANGED observed
    /\ todo' = Nothing
    /\ UNCHANGED << root_tree, mount, order, module, authorities, key, prior >>

\* The next emission, after an edit of the file system.
EditRoots ==
    /\ outcome # Nothing /\ prior = Nothing
    /\ prior' = [key |-> key, mount |-> mount, outcome |-> outcome]
    /\ root_tree' \in Trees /\ mount' \in Mounts
    /\ order' \in Orders
    /\ todo' = Nothing /\ authorities' = << >> /\ outcome' = Nothing /\ observed' = {} /\ key' = Nothing
    /\ UNCHANGED module

ResolverInit ==
    /\ root_tree \in Trees /\ mount \in Mounts /\ order \in Orders
    /\ module \in Module
    /\ todo = Nothing /\ authorities = << >> /\ outcome = Nothing /\ observed = {} /\ key = Nothing /\ prior = Nothing

ResolverNext == BeginSearch \/ NextRoot \/ Look \/ Conclude \/ EditRoots
ResolverSpec == ResolverInit /\ [][ResolverNext]_resolverVars

----------------------------------------------------------------------------
(* Properties. *)

\* The type invariant.
ResolverTypeOK ==
    /\ root_tree \in Trees /\ mount \in Mounts /\ module \in Module
    /\ todo \in Search \union {Nothing}
    /\ DOMAIN authorities \subseteq Text
    /\ outcome \in Outcome \union {Nothing}
    /\ observed \subseteq Slot \X Text

\* No text comes from outside the root it was looked for in, whatever links
\* there are and whatever the name asked for looks like.
StaysInsideRoots ==
    \A t \in DOMAIN authorities :
        authorities[t][1] \in Root /\ root_tree[authorities[t]] = t

\* A module is resolved exactly when the roots agree on one text for it: no
\* root and no spelling of the path has precedence, and two texts are a
\* conflict in every order of the roots.
OneAuthority ==
    outcome # Nothing /\ ~Malformed(module) =>
        outcome.texts = {t \in Text :
            /\ << module, t >> \in Compatible
            /\ \E r \in Root, name \in {module, Front(module)} :
                  /\ name = module \/ Last(module) \in Version
                  /\ name # << >>
                  /\ \E path \in {name, << Last(name) >>}
                                   \union (IF Len(name) > 1 /\ name[1] = "mncs" THEN {Tail(name)} ELSE {}) :
                        LET l == Join(r, path)
                        IN Readable(l) /\ TextAt(l) = t /\ Canonical(l)[1] = r}

\* What is resolved is listed among the reply's source_inputs, at a place that
\* holds it.
ResolvedIsObserved ==
    outcome # Nothing /\ outcome.kind = "resolved" =>
        \E seen \in observed : seen[2] \in outcome.texts /\ root_tree[seen[1]] = seen[2]

\* Whatever way a text was reached, through a link or a linked directory, the
\* inventory shows it at the place it is read from.
InventoryShows ==
    key # Nothing => \A t \in DOMAIN authorities : << authorities[t][2], t >> \in key[authorities[t][1]]

\* Two emissions with the same inventory, and so with the same key, resolve a
\* module alike, through linked directories too, as long as the links of
\* directories are the same.  These links are all that the key leaves out and
\* that decides: rglob does not enter them, while the probe reads through them.
InventoryDecides ==
    outcome # Nothing /\ prior # Nothing /\ key # Nothing /\ prior.key = key /\ prior.mount = mount
        => outcome = prior.outcome
=============================================================================
