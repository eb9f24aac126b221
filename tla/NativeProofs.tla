---------------------------- MODULE NativeProofs ----------------------------
(***************************************************************************)
(* Theorems about the native compiler's passes over a project and its      *)
(* character tables: the closure of a target's imports is exact, the       *)
(* resolution of imports shows nothing of its cache, the generated lookup  *)
(* answers as the predicate it was made from, and a diagnostic gets the    *)
(* line and column of its span.                                            *)
(***************************************************************************)
EXTENDS MCNativePasses, FiniteSetTheorems, WellFoundedInduction, TLAPS

----------------------------------------------------------------------------
(* The closure of a target's imports.                                      *)

Sources == 0 .. project.source_count - 1
Links == DOMAIN project.imports
From(j) == project.imports[j][1]
To(j) == project.imports[j][2]
InStack(i) == \E k \in DOMAIN pending : pending[k] = i

\* What the walk is given: a project of Projects and any target.
ProjectInv ==
    /\ project \in Projects
    /\ target \in 0 .. Capacity
    /\ phase \notin {"start", "done"} => target \in Sources

\* Each variable is of its type; reachable modules are modules of the project.
WalkTypeInv ==
    /\ phase \in {"start", "first", "second", "adjacency", "seed", "work", "expand", "done"}
    /\ at \in Nat \ {0} /\ turn \in Nat /\ changed \in BOOLEAN
    /\ reachable \subseteq Sources
    /\ adjacency \in [Index -> Seq(Link)]
    /\ pending \in Seq(Index)
    /\ expanding \in Seq(Link)

\* A walk begins with nothing.
StartInv ==
    phase \in {"start", "first", "second"} =>
        /\ adjacency = [i \in Index |-> << >>] /\ pending = << >> /\ turn = 0
        /\ phase = "start" => reachable = {} /\ at = 1

\* Nothing but the target and what lies in every closed set around it.
ReachSound == \A S \in SUBSET Index : target \in S /\ Closed(S) => reachable \subseteq S

\* A scan without a change has followed every link it passed.
ScanInv ==
    phase \in {"first", "second"} =>
        /\ target \in reachable
        /\ ~changed => \A j \in Links : j < at /\ From(j) \in reachable => To(j) \in reachable

Passed(i) == {j \in Links : From(j) = i /\ (phase = "adjacency" => j < at)}
Below(n) == {i \in reachable : i < n}

\* Each module's list holds the links passed that leave it, all of them and no others.
AdjacencyInv ==
    phase \in {"adjacency", "seed", "work", "expand"} =>
        /\ target \in reachable
        /\ \A j \in Links : (phase = "adjacency" => j < at) =>
              \E k \in DOMAIN adjacency[From(j)] : adjacency[From(j)][k] = project.imports[j]
        /\ \A i \in Index :
              /\ \A k \in DOMAIN adjacency[i] :
                    \E j \in Links : From(j) = i /\ adjacency[i][k] = project.imports[j]
              /\ Len(adjacency[i]) = Cardinality(Passed(i))

\* The stack holds the reachable modules passed, once each.
SeedInv ==
    /\ phase = "adjacency" => pending = << >> /\ turn = 0
    /\ phase = "seed" =>
        /\ turn = 0
        /\ \A i \in Index : InStack(i) <=> (i \in reachable /\ i < at - 1)
        /\ Len(pending) = Cardinality(Below(at - 1))

\* Modules on the stack are reachable and distinct; a reachable module that is
\* not on it has all its links followed, but for those left to expand.
WorkInv ==
    phase \in {"work", "expand"} =>
        /\ turn + Len(pending) = Cardinality(reachable)
        /\ \A k \in DOMAIN pending : pending[k] \in reachable
        /\ \A j \in Links : From(j) \in reachable /\ ~InStack(From(j)) =>
              To(j) \in reachable \/ (phase = "expand" /\ \E k \in DOMAIN expanding : expanding[k][2] = To(j))
        /\ phase = "expand" =>
              /\ at + Len(expanding) <= LinkLimit + 1
              /\ \A k \in DOMAIN expanding : \E j \in Links :
                    expanding[k] = project.imports[j] /\ From(j) \in reachable

\* No module is on the stack twice.
DistinctInv == \A i, j \in DOMAIN pending : pending[i] = pending[j] => i = j

\* A walk that is over has followed every link of what it reached.
DoneInv ==
    phase = "done" =>
        /\ turn <= Capacity /\ Len(pending) <= Capacity
        /\ IF target \in Sources THEN target \in reachable /\ Closed(reachable) ELSE reachable = {}

ClosureInv ==
    /\ ProjectInv /\ WalkTypeInv /\ StartInv /\ ReachSound
    /\ ScanInv /\ AdjacencyInv /\ SeedInv /\ WorkInv /\ DistinctInv /\ DoneInv

----------------------------------------------------------------------------
\* A project of resolve_imports: every link is visible to every scan and lies
\* in the project.
LEMMA ProjectFacts ==
    ASSUME ProjectInv
    PROVE  /\ project.source_count \in 1 .. Capacity /\ project.imports \in Seq(Link)
           /\ Capacity \in Nat /\ LinkLimit \in Nat
           /\ Links = 1 .. Len(project.imports) /\ Len(project.imports) \in Nat
           /\ Sources \subseteq Index
           /\ \A j \in Links : From(j) \in Sources /\ To(j) \in Sources
                             /\ project.imports[j] = << From(j), To(j) >>
                             /\ InProject(project.imports[j])
           /\ \A i \in Index : Cardinality({j \in Links : From(j) = i}) <= LinkLimit
           /\ Visible = project.imports
<1>1. /\ project.source_count \in 1 .. Capacity /\ project.imports \in Seq(Link)
      /\ Len(project.imports) <= Batches * BatchSize
      /\ Capacity \in Nat /\ LinkLimit \in Nat
  BY ClosureAssumption DEF ProjectInv
<1>2. Links = 1 .. Len(project.imports) /\ Len(project.imports) \in Nat
  BY <1>1 DEF Links
<1>3. Sources \subseteq Index
  BY <1>1 DEF Sources, Index
<1>4. ASSUME NEW j \in Links
      PROVE  /\ From(j) \in Sources /\ To(j) \in Sources
             /\ project.imports[j] = << From(j), To(j) >>
             /\ InProject(project.imports[j])
  <2>1. project.imports[j] \in Index \X Index
    BY <1>1, <1>2 DEF Link
  <2>2. \A side \in {1, 2} : project.imports[j][side] < project.source_count
    BY ClosureAssumption DEF ProjectInv, Links
  <2>3. From(j) \in Index /\ To(j) \in Index /\ project.imports[j] = << From(j), To(j) >>
    BY <2>1 DEF From, To
  <2>4. From(j) < project.source_count /\ To(j) < project.source_count
    BY <2>2 DEF From, To
  <2> QED
    BY <1>1, <2>3, <2>4 DEF Sources, Index, InProject, From, To
<1>5. ASSUME NEW i \in Index
      PROVE  Cardinality({j \in Links : From(j) = i}) <= LinkLimit
  <2>1. CASE \E n \in Links : From(n) = i
    <3>1. PICK n \in Links : From(n) = i
      BY <2>1
    <3> DEFINE same == {j \in DOMAIN project.imports : project.imports[j][1] = project.imports[n][1]}
               own == {j \in Links : From(j) = i}
    <3>2. Cardinality(same) <= LinkLimit
      BY ClosureAssumption DEF ProjectInv, Links
    <3>3. same = own
      BY <3>1 DEF Links, From
    <3> HIDE DEF same, own
    <3>4. Cardinality(own) <= LinkLimit
      BY <3>2, <3>3
    <3> QED
      BY <3>4 DEF own
  <2>2. CASE ~\E n \in Links : From(n) = i
    <3> DEFINE own == {j \in Links : From(j) = i}
    <3>1. own = {}
      BY <2>2
    <3> HIDE DEF own
    <3>2. Cardinality(own) <= LinkLimit
      BY <3>1, <1>1, FS_EmptySet
    <3> QED
      BY <3>2 DEF own
  <2> QED
    BY <2>1, <2>2
<1>6. Visible = project.imports
  <2>1. Visible = SubSeq(project.imports, 1, Len(project.imports))
    <3>1. Batches * BatchSize \in Nat
      BY ClosureAssumption
    <3> HIDE DEF Links
    <3> DEFINE bound == Batches * BatchSize
    <3>2. bound \in Nat /\ Len(project.imports) <= bound
      BY <3>1, <1>1
    <3>3. Visible = SubSeq(project.imports, 1, IF Len(project.imports) < bound THEN Len(project.imports) ELSE bound)
      BY DEF Visible
    <3> HIDE DEF bound
    <3> QED
      BY <3>2, <3>3, <1>2
  <2> QED
    BY <2>1, <1>1
<1> QED
  BY <1>1, <1>2, <1>3, <1>4, <1>5, <1>6

\* The sets that are counted are finite.
LEMMA CountFacts ==
    ASSUME ProjectInv, WalkTypeInv
    PROVE  /\ IsFiniteSet(Links) /\ \A i \in Index : IsFiniteSet(Passed(i))
           /\ IsFiniteSet(Index) /\ Cardinality(Index) = Capacity
           /\ IsFiniteSet(reachable) /\ Cardinality(reachable) \in Nat /\ Cardinality(reachable) <= Capacity
           /\ \A n : IsFiniteSet(Below(n))
<1>1. /\ Links = 1 .. Len(project.imports) /\ Len(project.imports) \in Nat /\ Capacity \in Nat
      /\ Sources \subseteq Index
  BY ProjectFacts
<1>2. IsFiniteSet(Links)
  BY <1>1, FS_Interval
<1>3. ASSUME NEW i \in Index PROVE IsFiniteSet(Passed(i))
  BY <1>2, FS_Subset DEF Passed
<1>4. IsFiniteSet(Index) /\ Cardinality(Index) = Capacity
  <2>1. 0 \in Int /\ Capacity - 1 \in Int
    BY <1>1
  <2>2. IsFiniteSet(0 .. Capacity - 1) /\ Cardinality(0 .. Capacity - 1) = IF 0 > Capacity - 1 THEN 0 ELSE Capacity - 1 - 0 + 1
    BY <2>1, FS_Interval
  <2>3. Cardinality(0 .. Capacity - 1) = Capacity
    <3> HIDE DEF Links
    <3>1. Capacity \in Nat \ {0}
      BY ClosureAssumption
    <3> QED
      BY <2>2, <3>1
  <2> QED
    BY <2>2, <2>3 DEF Index
<1>5. reachable \subseteq Index
  BY <1>1 DEF WalkTypeInv
<1>6. IsFiniteSet(reachable) /\ Cardinality(reachable) <= Cardinality(Index)
  BY <1>4, <1>5, FS_Subset
<1>7. Cardinality(reachable) \in Nat
  BY <1>6, FS_CardinalityType
<1>8. ASSUME NEW n PROVE IsFiniteSet(Below(n))
  <2>1. Below(n) \subseteq reachable
    BY DEF Below
  <2> QED
    BY <2>1, <1>6, FS_Subset
<1> QED
  BY <1>2, <1>3, <1>4, <1>6, <1>7, <1>8

LEMMA ClosureStart ==
    ASSUME ClosureInit
    PROVE  ClosureInv
<1> USE DEF ClosureInit
<1>1. ProjectInv
  BY DEF ProjectInv
<1>2. WalkTypeInv
  <2>1. << >> \in Seq(Index) /\ << >> \in Seq(Link)
    OBVIOUS
  <2>2. adjacency \in [Index -> Seq(Link)]
    BY <2>1
  <2>3. reachable \subseteq Sources /\ pending \in Seq(Index) /\ expanding \in Seq(Link)
    BY <2>1
  <2>4. changed \in BOOLEAN
    OBVIOUS
  <2>5. at \in Nat \ {0} /\ turn \in Nat
    OBVIOUS
  <2> QED
    BY <2>2, <2>3, <2>4, <2>5, Zenon DEF WalkTypeInv
<1>3. StartInv /\ ReachSound /\ ScanInv /\ AdjacencyInv /\ SeedInv /\ WorkInv /\ DistinctInv /\ DoneInv
  BY DEF StartInv, ReachSound, ScanInv, AdjacencyInv, SeedInv, WorkInv, DistinctInv, DoneInv
<1> QED
  BY <1>1, <1>2, <1>3 DEF ClosureInv

\* A target beyond the project, and a target of it.
LEMMA StepBegin ==
    ASSUME ClosureInv, OutOfProject \/ Begin
    PROVE  ClosureInv'
<1> USE DEF ClosureInv
<1>f. /\ project.source_count \in 1 .. Capacity /\ Capacity \in Nat
      /\ Sources \subseteq Index
  BY ProjectFacts
<1>u. phase = "start" /\ UNCHANGED << project, target, at, changed, adjacency, pending, expanding, turn >>
  BY DEF OutOfProject, Begin
<1>1. CASE OutOfProject
  <2> USE <1>1 DEF OutOfProject
  <2>1. target \notin Sources
    BY <1>f DEF Sources, ProjectInv
  <2>2. ProjectInv'
    BY DEF ProjectInv
  <2>3. WalkTypeInv'
    BY <1>u, Zenon DEF WalkTypeInv, Sources
  <2>4. ReachSound'
    BY <1>u DEF ReachSound, Closed
  <2>5. DistinctInv'
    BY <1>u DEF DistinctInv
  <2>6. DoneInv'
    BY <2>1, <1>u, <1>f DEF DoneInv, StartInv, Sources
  <2> QED
    BY <2>2, <2>3, <2>4, <2>5, <2>6 DEF StartInv, ScanInv, AdjacencyInv, SeedInv, WorkInv
<1>2. CASE Begin
  <2> USE <1>2 DEF Begin
  <2>1. target \in Sources /\ reachable' = {target} /\ phase' = "first"
    BY <1>f DEF Sources, ProjectInv
  <2>2. ProjectInv'
    BY <2>1, <1>u DEF ProjectInv, Sources
  <2>3. WalkTypeInv'
    <3>1. (reachable \subseteq Sources)'
      BY <2>1, <1>u DEF Sources
    <3> QED
      BY <3>1, <2>1, <1>u, Zenon DEF WalkTypeInv
  <2>4. ReachSound'
    BY <2>1, <1>u DEF ReachSound, Closed
  <2>5. DistinctInv'
    BY <1>u DEF DistinctInv
  <2>6. StartInv'
    BY <1>u, <2>1 DEF StartInv
  <2>7. ScanInv'
    <3>1. at' = 1
      BY <1>u DEF StartInv
    <3>2. \A j \in Links' : ~(j < at')
      BY <3>1, <1>u, ProjectFacts DEF Links
    <3> QED
      BY <3>2, <2>1, <1>u DEF ScanInv
  <2> QED
    BY <2>1, <2>2, <2>3, <2>4, <2>5, <2>6, <2>7 DEF AdjacencyInv, SeedInv, WorkInv, DoneInv
<1> QED
  BY <1>1, <1>2

\* project_import_closure_link_one: a link followed, or passed over.
LEMMA StepScanLink ==
    ASSUME ClosureInv, ScanLink
    PROVE  ClosureInv'
<1> USE DEF ClosureInv
<1> DEFINE new == From(at) \in reachable /\ To(at) \notin reachable
<1>f. /\ Links = 1 .. Len(project.imports) /\ Visible = project.imports
      /\ \A j \in Links : From(j) \in Sources /\ To(j) \in Sources /\ InProject(project.imports[j])
      /\ Sources \subseteq Index
  BY ProjectFacts
<1>u. /\ phase \in {"first", "second"} /\ at' = at + 1 /\ at \in Nat \ {0}
      /\ UNCHANGED << project, target, phase, adjacency, pending, expanding, turn >>
  BY DEF ScanLink, WalkTypeInv
<1>1. at \in Links
  BY <1>f, <1>u DEF ScanLink
<1>2. /\ reachable' = IF new THEN reachable \union {To(at)} ELSE reachable
      /\ changed' = (changed \/ new)
  BY <1>f, <1>1 DEF ScanLink, From, To
<1>3. ProjectInv'
  BY <1>u DEF ProjectInv, Sources
<1>4. WalkTypeInv'
  <2>1. (reachable \subseteq Sources)'
    BY <1>2, <1>1, <1>f, <1>u DEF WalkTypeInv, Sources
  <2>2. (changed \in BOOLEAN)'
    BY <1>2 DEF WalkTypeInv
  <2>3. (at \in Nat \ {0})'
    BY <1>u
  <2> QED
    BY <2>1, <2>2, <2>3, <1>u, Zenon DEF WalkTypeInv
<1>5. StartInv'
  BY <1>u DEF StartInv
<1>6. ReachSound'
  <2> SUFFICES ASSUME NEW S \in SUBSET Index, target \in S, Closed(S) PROVE reachable' \subseteq S
    BY <1>u DEF ReachSound, Closed
  <2>1. reachable \subseteq S
    BY DEF ReachSound
  <2>2. new => To(at) \in S
    BY <2>1, <1>1 DEF Closed, From, To, Links
  <2> QED
    BY <2>1, <2>2, <1>2
<1>7. ScanInv'
  <2>1. target' \in reachable'
    BY <1>2, <1>u DEF ScanInv
  <2>2. ASSUME ~changed', NEW j \in Links, j < at', From(j) \in reachable'
        PROVE  To(j) \in reachable'
    <3>1. ~changed /\ ~new
      BY <1>2, <2>2 DEF WalkTypeInv
    <3>2. reachable' = reachable
      BY <3>1, <1>2
    <3>3. j < at \/ j = at
      BY <1>u, <1>f, <2>2, <1>1
    <3> QED
      BY <3>1, <3>2, <3>3, <2>2, <1>u DEF ScanInv
  <2> QED
    BY <2>1, <2>2, <1>u DEF ScanInv, Links, From, To
<1>8. DistinctInv'
  BY <1>u DEF DistinctInv
<1> QED
  BY <1>3, <1>4, <1>5, <1>6, <1>7, <1>8, <1>u DEF AdjacencyInv, SeedInv, WorkInv, DoneInv

\* The end of a scan: closed, complete, or on to the next stage.
LEMMA StepEndRound ==
    ASSUME ClosureInv, EndRound
    PROVE  ClosureInv'
<1> USE DEF ClosureInv
<1>f. /\ project.source_count \in 1 .. Capacity /\ Capacity \in Nat
      /\ Links = 1 .. Len(project.imports) /\ Len(project.imports) \in Nat /\ Visible = project.imports
      /\ \A j \in Links : From(j) \in Sources /\ To(j) \in Sources
      /\ Sources \subseteq Index
  BY ProjectFacts
<1>u. /\ phase \in {"first", "second"} /\ at' = 1 /\ at \in Nat \ {0} /\ at > Len(project.imports) /\ changed' = FALSE
      /\ UNCHANGED << project, target, reachable, adjacency, pending, expanding, turn >>
      /\ phase' = AfterRound(phase)
  BY <1>f DEF EndRound, WalkTypeInv
<1>p. /\ phase' \in {"done", "second", "adjacency"}
      /\ phase' = "done" => ~changed \/ Complete
  BY <1>u DEF AfterRound
<1>1. ProjectInv'
  BY <1>u, <1>p DEF ProjectInv, Sources
<1>2. WalkTypeInv'
  <2>1. (reachable \subseteq Sources)' /\ (at \in Nat \ {0})'
    BY <1>u DEF WalkTypeInv, Sources
  <2>2. phase' \in {"start", "first", "second", "adjacency", "seed", "work", "expand", "done"}
    BY <1>p
  <2>3. (changed \in BOOLEAN)'
    BY <1>u
  <2> QED
    BY <2>1, <2>2, <2>3, <1>u, Zenon DEF WalkTypeInv
<1>3. StartInv'
  BY <1>u, <1>p DEF StartInv
<1>4. ReachSound'
  BY <1>u DEF ReachSound, Closed
<1>5. ScanInv'
  <2>1. \A j \in Links' : ~(j < at')
    BY <1>u, <1>f DEF Links
  <2> QED
    BY <2>1, <1>u, <1>p DEF ScanInv
<1>6. AdjacencyInv'
  <2> SUFFICES ASSUME phase' = "adjacency" PROVE AdjacencyInv'
    BY <1>p DEF AdjacencyInv
  <2>1. \A j \in Links' : ~(j < at')
    BY <1>u, <1>f DEF Links
  <2>2. ASSUME NEW i \in Index
        PROVE  /\ DOMAIN adjacency'[i] = {}
               /\ Len(adjacency'[i]) = Cardinality(Passed(i)')
    <3>1. adjacency'[i] = << >>
      BY <1>u DEF StartInv
    <3>2. Passed(i)' = {}
      BY <2>1 DEF Passed
    <3>3. Len(adjacency'[i]) = 0 /\ DOMAIN adjacency'[i] = {}
      BY <3>1
    <3> QED
      BY <3>2, <3>3, FS_EmptySet
  <2> QED
    BY <2>1, <2>2, <1>u DEF AdjacencyInv, ScanInv
<1>7. SeedInv'
  BY <1>u, <1>p DEF SeedInv, StartInv
<1>8. DistinctInv'
  BY <1>u DEF DistinctInv
<1>9. DoneInv'
  <2> SUFFICES ASSUME phase' = "done" PROVE DoneInv'
    BY DEF DoneInv
  <2>1. Closed(reachable)
    <3>1. CASE ~changed
      <4>1. \A j \in Links : j < at
        BY <1>f, <1>u
      <4> QED
        BY <3>1, <4>1, <1>u DEF ScanInv, Closed, Links, From, To
    <3>2. CASE Complete
      <4>1. Sources \subseteq reachable
        BY <3>2 DEF Complete, Sources
      <4> QED
        BY <4>1, <1>f DEF Closed, Links, From, To
    <3> QED
      BY <3>1, <3>2, <1>p
  <2>2. target \in reachable /\ target \in Sources
    BY <1>u DEF ScanInv, ProjectInv
  <2>3. turn' = 0 /\ Len(pending') = 0
    BY <1>u DEF StartInv
  <2> QED
    BY <2>1, <2>2, <2>3, <1>u, <1>f DEF DoneInv, Closed, Sources
<1> QED
  BY <1>1, <1>2, <1>3, <1>4, <1>5, <1>6, <1>7, <1>8, <1>9, <1>p DEF WorkInv

\* project_import_adjacency_add and the end of its loop.
LEMMA StepAdjacency ==
    ASSUME ClosureInv, AddAdjacency \/ AdjacencyBuilt
    PROVE  ClosureInv'
<1> USE DEF ClosureInv
<1>f. /\ project.imports \in Seq(Link)
      /\ Links = 1 .. Len(project.imports) /\ Len(project.imports) \in Nat /\ Visible = project.imports
      /\ \A j \in Links : From(j) \in Sources /\ InProject(project.imports[j])
      /\ Sources \subseteq Index
  BY ProjectFacts
<1>u. /\ phase = "adjacency" /\ at \in Nat \ {0} /\ phase' \in {"adjacency", "seed"}
      /\ UNCHANGED << project, target, reachable, changed, pending, expanding, turn >>
      /\ at' \in Nat \ {0}
  BY DEF AddAdjacency, AdjacencyBuilt, WalkTypeInv
<1>1. ProjectInv'
  BY <1>u DEF ProjectInv, Sources
<1>2. ReachSound'
  BY <1>u DEF ReachSound, Closed
<1>3. DistinctInv'
  BY <1>u DEF DistinctInv
<1>4. StartInv' /\ ScanInv' /\ WorkInv' /\ DoneInv'
  BY <1>u DEF StartInv, ScanInv, WorkInv, DoneInv
<1>t. ASSUME adjacency' \in [Index -> Seq(Link)]
      PROVE  WalkTypeInv'
  <2>1. (reachable \subseteq Sources)' /\ (at \in Nat \ {0})'
    BY <1>u DEF WalkTypeInv, Sources
  <2>2. phase' \in {"start", "first", "second", "adjacency", "seed", "work", "expand", "done"}
    BY <1>u
  <2> QED
    BY <1>t, <2>1, <2>2, <1>u, Zenon DEF WalkTypeInv
<1>5. CASE AddAdjacency
  <2> DEFINE link == project.imports[at]
  <2>1. /\ at \in Links /\ at' = at + 1 /\ phase' = "adjacency"
        /\ adjacency' = [adjacency EXCEPT ![From(at)] = << link >> \o @]
    BY <1>5, <1>f, <1>u DEF AddAdjacency, From
  <2>2. From(at) \in Index /\ link \in Link /\ adjacency[From(at)] \in Seq(Link)
    BY <2>1, <1>f DEF WalkTypeInv
  <2> HIDE DEF link
  <2>3. /\ << link >> \o adjacency[From(at)] \in Seq(Link)
        /\ Len(<< link >> \o adjacency[From(at)]) = Len(adjacency[From(at)]) + 1
        /\ (<< link >> \o adjacency[From(at)])[1] = link
        /\ \A k \in DOMAIN adjacency[From(at)] : (<< link >> \o adjacency[From(at)])[k + 1] = adjacency[From(at)][k]
        /\ \A k \in 2 .. Len(adjacency[From(at)]) + 1 :
              (<< link >> \o adjacency[From(at)])[k] = adjacency[From(at)][k - 1]
    BY <2>2
  <2>4. adjacency' \in [Index -> Seq(Link)]
    BY <2>1, <2>2, <2>3 DEF WalkTypeInv
  <2>5. /\ adjacency'[From(at)] = << link >> \o adjacency[From(at)]
        /\ \A i \in Index : i # From(at) => adjacency'[i] = adjacency[i]
    BY <2>1, <2>2 DEF WalkTypeInv
  <2>6. ASSUME NEW j \in Links, j < at'
        PROVE  \E k \in DOMAIN adjacency'[From(j)] : adjacency'[From(j)][k] = project.imports[j]
    <3>1. CASE j = at
      <4>1. 1 \in DOMAIN adjacency'[From(at)]
        BY <2>2, <2>3, <2>5
      <4> QED
        BY <3>1, <4>1, <2>3, <2>5 DEF link
    <3>2. CASE j < at
      <4>1. PICK k \in DOMAIN adjacency[From(j)] : adjacency[From(j)][k] = project.imports[j]
        BY <3>2, <1>u DEF AdjacencyInv
      <4>2. CASE From(j) = From(at)
        <5>1. k + 1 \in DOMAIN adjacency'[From(at)]
          BY <4>1, <4>2, <2>2, <2>3, <2>5
        <5>2. adjacency'[From(at)][k + 1] = project.imports[j]
          BY <4>1, <4>2, <2>3, <2>5
        <5> QED
          BY <5>1, <5>2, <4>2
      <4>3. CASE From(j) # From(at)
        BY <4>1, <4>3, <2>5, <1>f
      <4> QED
        BY <4>2, <4>3
    <3> QED
      BY <3>1, <3>2, <2>6, <2>1, <1>f, <1>u
  <2>7. ASSUME NEW i \in Index, NEW k \in DOMAIN adjacency'[i]
        PROVE  \E j \in Links : From(j) = i /\ adjacency'[i][k] = project.imports[j]
    <3>1. CASE i # From(at)
      BY <3>1, <2>5, <2>7, <1>u DEF AdjacencyInv
    <3>2. CASE i = From(at)
      <4>1. k \in 1 .. Len(adjacency[i]) + 1
        BY <3>2, <2>2, <2>3, <2>5
      <4>2. CASE k = 1
        BY <4>2, <3>2, <2>3, <2>5, <2>1 DEF link
      <4>3. CASE k # 1
        <5>1. k - 1 \in DOMAIN adjacency[i] /\ adjacency'[i][k] = adjacency[i][k - 1]
          BY <4>1, <4>3, <3>2, <2>2, <2>3, <2>5
        <5> QED
          BY <5>1, <1>u DEF AdjacencyInv
      <4> QED
        BY <4>2, <4>3
    <3> QED
      BY <3>1, <3>2
  <2>8. ASSUME NEW i \in Index
        PROVE  Len(adjacency'[i]) = Cardinality(Passed(i)')
    <3>1. IsFiniteSet(Passed(i)) /\ Len(adjacency[i]) = Cardinality(Passed(i))
      BY CountFacts, <1>u DEF AdjacencyInv
    <3>2. CASE i # From(at)
      <4>1. Passed(i)' = Passed(i)
        BY <3>2, <2>1, <1>u, <1>f DEF Passed, Links, From
      <4> QED
        BY <4>1, <3>1, <3>2, <2>5
    <3>3. CASE i = From(at)
      <4>1. Passed(i)' = Passed(i) \union {at} /\ at \notin Passed(i)
        BY <3>3, <2>1, <1>u, <1>f DEF Passed, Links, From
      <4>2. Cardinality(Passed(i)') = Cardinality(Passed(i)) + 1
        BY <4>1, <3>1, FS_AddElement
      <4> QED
        BY <4>2, <3>1, <3>3, <2>3, <2>5
    <3> QED
      BY <3>2, <3>3
  <2>9. AdjacencyInv'
    <3>1. Links' = Links /\ (\A j : From(j)' = From(j)) /\ project' = project
      BY <1>u DEF Links, From
    <3>2. (target \in reachable)'
      BY <1>u DEF AdjacencyInv
    <3>3. (\A j \in Links : j < at =>
              \E k \in DOMAIN adjacency[From(j)] : adjacency[From(j)][k] = project.imports[j])'
      BY <2>6, <3>1
    <3>4. (\A i \in Index : \A k \in DOMAIN adjacency[i] :
              \E j \in Links : From(j) = i /\ adjacency[i][k] = project.imports[j])'
      BY <2>7, <3>1
    <3>5. (\A i \in Index : Len(adjacency[i]) = Cardinality(Passed(i)))'
      BY <2>8
    <3> QED
      BY <3>2, <3>3, <3>4, <3>5, <2>1, Zenon DEF AdjacencyInv
  <2>10. SeedInv'
    BY <2>1, <1>u DEF SeedInv
  <2> QED
    BY <2>4, <2>9, <2>10, <1>1, <1>2, <1>3, <1>4, <1>t
<1>6. CASE AdjacencyBuilt
  <2>1. /\ at > Len(project.imports) /\ phase' = "seed" /\ at' = 1 /\ adjacency' = adjacency
    BY <1>6, <1>f DEF AdjacencyBuilt
  <2>2. WalkTypeInv'
    BY <2>1, <1>t DEF WalkTypeInv
  <2>3. \A j \in Links : j < at
    BY <2>1, <1>f, <1>u
  <2>4. \A i : Passed(i)' = Passed(i)
    BY <2>1, <2>3, <1>u DEF Passed, Links, From
  <2>5. AdjacencyInv'
    BY <2>1, <2>3, <2>4, <1>u DEF AdjacencyInv, Links, From
  <2>6. SeedInv'
    <3>1. turn' = 0 /\ pending' = << >>
      BY <1>u DEF SeedInv
    <3>2. (\A i \in Index : ~InStack(i))' /\ Len(pending') = 0
      BY <3>1 DEF InStack
    <3>3. \A i \in Index : ~(i < at' - 1)
      BY <2>1 DEF Index
    <3>4. Below(at - 1)' = {}
      BY <3>3, <1>u, <1>f DEF Below, WalkTypeInv
    <3>5. Cardinality(Below(at - 1)') = 0
      BY <3>4, FS_EmptySet
    <3> QED
      BY <3>1, <3>2, <3>3, <3>5, <2>1 DEF SeedInv
  <2> QED
    BY <2>2, <2>5, <2>6, <1>1, <1>2, <1>3, <1>4
<1> QED
  BY <1>5, <1>6

\* project_import_closure_seed_step and the end of its loop.
LEMMA StepSeed ==
    ASSUME ClosureInv, Seed \/ Seeded
    PROVE  ClosureInv'
<1> USE DEF ClosureInv
<1>f. /\ project.source_count \in 1 .. Capacity /\ Capacity \in Nat
      /\ Sources \subseteq Index /\ reachable \subseteq Sources
  BY ProjectFacts DEF WalkTypeInv
<1>u. /\ phase = "seed" /\ at \in Nat \ {0} /\ phase' \in {"seed", "work"} /\ at' \in Nat \ {0}
      /\ UNCHANGED << project, target, reachable, changed, adjacency, expanding, turn >>
      /\ pending \in Seq(Index) /\ turn = 0
  BY DEF Seed, Seeded, WalkTypeInv, SeedInv
<1>1. ProjectInv'
  BY <1>u DEF ProjectInv, Sources
<1>2. ReachSound'
  BY <1>u DEF ReachSound, Closed
<1>3. StartInv' /\ ScanInv' /\ DoneInv'
  BY <1>u DEF StartInv, ScanInv, DoneInv
<1>4. AdjacencyInv'
  <2>1. \A i : Passed(i)' = Passed(i)
    BY <1>u DEF Passed, Links, From
  <2> QED
    BY <2>1, <1>u DEF AdjacencyInv, Links, From
<1>t. ASSUME pending' \in Seq(Index)
      PROVE  WalkTypeInv'
  <2>1. (reachable \subseteq Sources)' /\ (at \in Nat \ {0})'
    BY <1>u DEF WalkTypeInv, Sources
  <2>2. phase' \in {"start", "first", "second", "adjacency", "seed", "work", "expand", "done"}
    BY <1>u
  <2> QED
    BY <1>t, <2>1, <2>2, <1>u, Zenon DEF WalkTypeInv
<1>5. CASE Seed
  <2>1. /\ phase' = "seed" /\ at' = at + 1 /\ at <= project.source_count
        /\ pending' = IF at - 1 \in reachable THEN Append(pending, at - 1) ELSE pending
    BY <1>5 DEF Seed
  <2>2. at - 1 \in Index
    BY <2>1, <1>f, <1>u DEF Index
  <2>b. \A i \in reachable : i < at' - 1 <=> (i < at - 1 \/ i = at - 1)
    BY <2>1, <1>f, <1>u DEF Sources
  <2>3. CASE at - 1 \notin reachable
    <3>1. pending' = pending
      BY <2>1, <2>3
    <3>2. Below(at - 1)' = Below(at - 1)
      BY <2>b, <2>3, <1>u DEF Below
    <3>3. SeedInv'
      <4>1. ASSUME NEW i \in Index PROVE (i \in reachable /\ i < at' - 1) <=> (i \in reachable /\ i < at - 1)
        BY <2>1, <2>3, <1>u DEF Index
      <4>2. \A i : InStack(i)' <=> InStack(i)
        BY <3>1 DEF InStack
      <4> QED
        BY <3>1, <3>2, <4>1, <4>2, <2>1, <1>u DEF SeedInv
    <3>4. DistinctInv' /\ WorkInv' /\ WalkTypeInv'
      BY <3>1, <1>t, <1>u, <2>1 DEF DistinctInv, WorkInv
    <3> QED
      BY <3>3, <3>4, <1>1, <1>2, <1>3, <1>4
  <2>4. CASE at - 1 \in reachable
    <3>1. /\ pending' = Append(pending, at - 1) /\ pending' \in Seq(Index)
          /\ Len(pending') = Len(pending) + 1 /\ pending'[Len(pending) + 1] = at - 1
          /\ \A k \in 1 .. Len(pending) : pending'[k] = pending[k]
      BY <2>1, <2>2, <2>4, <1>u
    <3>2. Below(at - 1)' = Below(at - 1) \union {at - 1} /\ at - 1 \notin Below(at - 1)
      BY <2>b, <2>4, <1>u DEF Below
    <3>3. Cardinality(Below(at - 1)') = Cardinality(Below(at - 1)) + 1
      <4>1. IsFiniteSet(Below(at - 1))
        BY CountFacts
      <4> QED
        BY <4>1, <3>2, FS_AddElement
    <3>4. \A i : InStack(i)' <=> (InStack(i) \/ i = at - 1)
      <4>1. DOMAIN pending' = 1 .. Len(pending) + 1 /\ DOMAIN pending = 1 .. Len(pending) /\ Len(pending) \in Nat
        BY <3>1, <1>u
      <4> QED
        BY <4>1, <3>1 DEF InStack
    <3>5. SeedInv'
      <4>1. ASSUME NEW i \in Index
            PROVE  (i \in reachable /\ i < at' - 1) <=> ((i \in reachable /\ i < at - 1) \/ i = at - 1)
        BY <2>1, <2>4, <1>u DEF Index
      <4>2. \A i \in Index : InStack(i) <=> (i \in reachable /\ i < at - 1)
        BY <1>u DEF SeedInv
      <4>3. Len(pending) = Cardinality(Below(at - 1))
        BY <1>u DEF SeedInv
      <4>4. (\A i \in Index : InStack(i) <=> (i \in reachable /\ i < at - 1))'
        BY <3>4, <4>1, <4>2, <1>u
      <4>5. (Len(pending) = Cardinality(Below(at - 1)))'
        BY <3>1, <3>3, <4>3
      <4> QED
        BY <4>4, <4>5, <2>1, <1>u DEF SeedInv
    <3>6. DistinctInv'
      <4>1. ~InStack(at - 1)
        BY <2>2, <1>u DEF SeedInv
      <4>2. DOMAIN pending' = 1 .. Len(pending) + 1 /\ DOMAIN pending = 1 .. Len(pending) /\ Len(pending) \in Nat
        BY <3>1, <1>u
      <4> QED
        BY <4>1, <4>2, <3>1 DEF DistinctInv, InStack
    <3>7. WorkInv' /\ WalkTypeInv'
      BY <3>1, <1>t, <1>u, <2>1 DEF WorkInv
    <3> QED
      BY <3>5, <3>6, <3>7, <1>1, <1>2, <1>3, <1>4
  <2> QED
    BY <2>3, <2>4
<1>6. CASE Seeded
  <2>1. phase' = "work" /\ at' = 1 /\ at > project.source_count /\ pending' = pending
    BY <1>6 DEF Seeded
  <2>2. \A i \in reachable : i < at - 1 /\ i \in Index
    BY <2>1, <1>f, <1>u DEF Sources
  <2>3. Below(at - 1) = reachable
    BY <2>2 DEF Below
  <2>4. /\ \A i \in Index : InStack(i) <=> i \in reachable
        /\ Len(pending) = Cardinality(reachable)
    BY <2>2, <2>3, <1>u DEF SeedInv
  <2>5. \A k \in DOMAIN pending : pending[k] \in Index
    BY <1>u
  <2>6. \A k \in DOMAIN pending : pending[k] \in reachable
    BY <2>4, <2>5 DEF InStack
  <2>7. \A i : InStack(i)' <=> InStack(i)
    BY <2>1 DEF InStack
  <2>8. turn' + Len(pending') = Cardinality(reachable')
    BY <2>1, <2>4, <1>u
  <2>9. WorkInv'
    BY <2>1, <2>2, <2>4, <2>6, <2>7, <2>8, <1>u DEF WorkInv, Links, From, To
  <2>10. SeedInv' /\ DistinctInv' /\ WalkTypeInv'
    BY <2>1, <1>t, <1>u DEF SeedInv, DistinctInv
  <2> QED
    BY <2>9, <2>10, <1>1, <1>2, <1>3, <1>4
<1> QED
  BY <1>5, <1>6

\* A module taken from the stack: it has turned, and its links are at hand.
LEMMA StepPop ==
    ASSUME ClosureInv, Pop
    PROVE  ClosureInv'
<1> USE DEF ClosureInv
<1> DEFINE top == pending[Len(pending)]
<1>f. /\ Sources \subseteq Index /\ reachable \subseteq Sources /\ LinkLimit \in Nat
      /\ \A j \in Links : From(j) \in Sources /\ project.imports[j] = << From(j), To(j) >>
      /\ \A i \in Index : Cardinality({j \in Links : From(j) = i}) <= LinkLimit
  BY ProjectFacts DEF WalkTypeInv
<1>u. /\ phase = "work" /\ phase' = "expand" /\ at' = 1 /\ turn' = turn + 1
      /\ UNCHANGED << project, target, reachable, changed, adjacency >>
      /\ expanding' = adjacency[top] /\ pending' = SubSeq(pending, 1, Len(pending) - 1)
      /\ pending \in Seq(Index) /\ pending # << >> /\ turn \in Nat /\ adjacency \in [Index -> Seq(Link)]
  BY DEF Pop, WalkTypeInv
<1>1. /\ Len(pending) \in Nat \ {0} /\ DOMAIN pending = 1 .. Len(pending)
      /\ pending' \in Seq(Index) /\ Len(pending') = Len(pending) - 1
      /\ DOMAIN pending' = 1 .. Len(pending) - 1
      /\ \A k \in 1 .. Len(pending) - 1 : pending'[k] = pending[k]
      /\ top \in Index
  <2>1. Len(pending) \in Nat \ {0} /\ DOMAIN pending = 1 .. Len(pending)
    BY <1>u
  <2>2. top \in Index
    BY <2>1, <1>u
  <2> HIDE DEF top
  <2>3. /\ Len(pending') = Len(pending) - 1
        /\ \A k \in 1 .. Len(pending) - 1 : pending'[k] = pending[k]
    BY <2>1, <1>u
  <2>4. pending' \in Seq(Index)
    BY <2>1, <1>u
  <2>5. DOMAIN pending' = 1 .. Len(pending) - 1
    BY <2>3, <2>4
  <2> QED
    BY <2>1, <2>2, <2>3, <2>4, <2>5
<1>2. top \in reachable
  <2>1. Len(pending) \in DOMAIN pending
    BY <1>1
  <2> QED
    BY <2>1, <1>u DEF WorkInv
<1> HIDE DEF top
<1>3. \A i : InStack(i)' <=> (InStack(i) /\ i # top)
  BY <1>1 DEF InStack, DistinctInv, top
<1>4. ProjectInv'
  BY <1>u DEF ProjectInv, Sources
<1>5. ReachSound'
  BY <1>u DEF ReachSound, Closed
<1>6. StartInv' /\ ScanInv' /\ DoneInv' /\ SeedInv'
  BY <1>u DEF StartInv, ScanInv, DoneInv, SeedInv
<1>7. AdjacencyInv'
  <2>1. \A i : Passed(i)' = Passed(i)
    BY <1>u DEF Passed, Links, From
  <2> QED
    BY <2>1, <1>u, SMTT(60) DEF AdjacencyInv, Links, From
<1>8. WalkTypeInv'
  <2>1. (reachable \subseteq Sources)' /\ (at \in Nat \ {0})' /\ turn' \in Nat
    BY <1>u DEF WalkTypeInv, Sources
  <2>2. phase' \in {"start", "first", "second", "adjacency", "seed", "work", "expand", "done"}
    BY <1>u
  <2>3. expanding' \in Seq(Link)
    BY <1>u, <1>1
  <2> QED
    BY <2>1, <2>2, <2>3, <1>1, <1>u, Zenon DEF WalkTypeInv
<1>9. DistinctInv'
  BY <1>1 DEF DistinctInv
<1>10. WorkInv'
  <2>1. turn' + Len(pending') = Cardinality(reachable')
    <3>1. turn + Len(pending) = Cardinality(reachable)
      BY <1>u DEF WorkInv
    <3> QED
      BY <3>1, <1>1, <1>u
  <2>2. \A k \in DOMAIN pending' : pending'[k] \in reachable'
    BY <1>1, <1>u DEF WorkInv
  <2>3. ASSUME NEW j \in Links, From(j) \in reachable, ~InStack(From(j))'
        PROVE  To(j) \in reachable \/ \E k \in DOMAIN expanding' : expanding'[k][2] = To(j)
    <3>1. CASE From(j) = top
      <4>1. PICK k \in DOMAIN adjacency[top] : adjacency[top][k] = project.imports[j]
        BY <3>1, <1>u DEF AdjacencyInv
      <4>2. expanding'[k] = << From(j), To(j) >> /\ k \in DOMAIN expanding'
        BY <4>1, <1>u, <1>f
      <4> QED
        BY <4>2
    <3>2. CASE From(j) # top
      <4>1. From(j)' = From(j)
        BY <1>u DEF From
      <4>2. ~InStack(From(j))
        BY <4>1, <3>2, <2>3, <1>3
      <4> QED
        BY <4>2, <2>3, <1>u DEF WorkInv
    <3> QED
      BY <3>1, <3>2
  <2>4. at' + Len(expanding') <= LinkLimit + 1
    <3>1. Passed(top) = {j \in Links : From(j) = top}
      BY <1>u DEF Passed
    <3>2. Len(adjacency[top]) = Cardinality(Passed(top))
      BY <1>1, <1>u DEF AdjacencyInv
    <3>3. Cardinality(Passed(top)) <= LinkLimit
      BY <3>1, <1>1, <1>f
    <3>4. Len(adjacency[top]) \in Nat
      BY <1>1, <1>u
    <3> QED
      BY <3>2, <3>3, <3>4, <1>u, <1>f
  <2>5. ASSUME NEW k \in DOMAIN expanding'
        PROVE  \E j \in Links : expanding'[k] = project.imports[j] /\ From(j) \in reachable
    <3>1. k \in DOMAIN adjacency[top] /\ expanding'[k] = adjacency[top][k]
      BY <1>u
    <3>2. PICK j \in Links : From(j) = top /\ adjacency[top][k] = project.imports[j]
      BY <3>1, <1>1, <1>u DEF AdjacencyInv
    <3> QED
      BY <3>1, <3>2, <1>2
  <2> QED
    BY <2>1, <2>2, <2>3, <2>4, <2>5, <1>u DEF WorkInv, Links, From, To
<1> QED
  BY <1>4, <1>5, <1>6, <1>7, <1>8, <1>9, <1>10

\* project_import_closure_expand_link: the target joins the stack, or is known.
LEMMA StepExpand ==
    ASSUME ClosureInv, Expand
    PROVE  ClosureInv'
<1> USE DEF ClosureInv
<1> DEFINE to == Head(expanding)[2]
<1>f. /\ Sources \subseteq Index /\ reachable \subseteq Sources /\ LinkLimit \in Nat /\ Capacity \in Nat
      /\ project.source_count \in 1 .. Capacity
      /\ \A j \in Links : To(j) \in Sources /\ project.imports[j] = << From(j), To(j) >>
  BY ProjectFacts DEF WalkTypeInv
<1>u. /\ phase = "expand" /\ phase' = "expand" /\ at' = at + 1 /\ at \in Nat \ {0}
      /\ UNCHANGED << project, target, changed, adjacency, turn >>
      /\ expanding' = Tail(expanding) /\ expanding \in Seq(Link) /\ expanding # << >>
      /\ pending \in Seq(Index) /\ turn \in Nat
  BY DEF Expand, WalkTypeInv
<1>1. /\ Len(expanding) \in Nat \ {0} /\ DOMAIN expanding = 1 .. Len(expanding)
      /\ expanding' \in Seq(Link) /\ Len(expanding') = Len(expanding) - 1
      /\ DOMAIN expanding' = 1 .. Len(expanding) - 1
      /\ \A k \in 1 .. Len(expanding) - 1 : expanding'[k] = expanding[k + 1]
      /\ Head(expanding) = expanding[1] /\ 1 \in DOMAIN expanding
  <2>1. Len(expanding) \in Nat \ {0} /\ DOMAIN expanding = 1 .. Len(expanding)
    BY <1>u
  <2>2. expanding' \in Seq(Link) /\ Len(expanding') = Len(expanding) - 1
    BY <2>1, <1>u
  <2>3. \A k \in 1 .. Len(expanding) - 1 : expanding'[k] = expanding[k + 1]
    BY <2>1, <1>u
  <2> QED
    BY <2>1, <2>2, <2>3, <1>u
<1>2. PICK n \in Links : expanding[1] = project.imports[n] /\ From(n) \in reachable
  BY <1>1, <1>u DEF WorkInv
<1>3. to = To(n) /\ to \in Sources /\ to \in Index /\ to < project.source_count
  <2>1. to = To(n)
    BY <1>1, <1>2, <1>f
  <2> HIDE DEF to
  <2> QED
    BY <2>1, <1>f DEF Sources
<1>4. Len(pending) \in Nat /\ turn + Len(pending) = Cardinality(reachable)
  BY <1>u DEF WorkInv
<1>5. to \notin reachable => Len(pending) < Capacity /\ Cardinality(reachable \union {to}) = Cardinality(reachable) + 1
  <2> HIDE DEF to
  <2> SUFFICES ASSUME to \notin reachable
               PROVE  Len(pending) < Capacity /\ Cardinality(reachable \union {to}) = Cardinality(reachable) + 1
    OBVIOUS
  <2>1. IsFiniteSet(reachable) /\ IsFiniteSet(Index) /\ Cardinality(Index) = Capacity /\ Cardinality(reachable) \in Nat
    BY CountFacts
  <2>2. Cardinality(reachable \union {to}) = Cardinality(reachable) + 1
    BY <2>1, FS_AddElement
  <2>3. reachable \union {to} \subseteq Index
    BY <1>3, <1>f
  <2>4. Cardinality(reachable \union {to}) <= Capacity
    BY <2>1, <2>3, FS_Subset
  <2> QED
    BY <2>1, <2>2, <2>4, <1>4, <1>u, <1>f
<1>6. /\ reachable' = reachable \union {to}
      /\ pending' = IF to \notin reachable THEN Append(pending, to) ELSE pending
  BY <1>3, <1>5 DEF Expand
<1> HIDE DEF to
<1>7. /\ to \in reachable => pending' = pending /\ reachable' = reachable
      /\ to \notin reachable =>
            /\ pending' \in Seq(Index) /\ Len(pending') = Len(pending) + 1 /\ DOMAIN pending' = 1 .. Len(pending) + 1
            /\ pending'[Len(pending) + 1] = to
            /\ \A k \in 1 .. Len(pending) : pending'[k] = pending[k]
  BY <1>6, <1>3, <1>u
<1>8. \A i : InStack(i)' <=> (InStack(i) \/ (i = to /\ to \notin reachable))
  <2>1. DOMAIN pending = 1 .. Len(pending)
    BY <1>u
  <2> QED
    BY <2>1, <1>7, <1>4 DEF InStack
<1>9. \A k \in DOMAIN pending : pending[k] \in reachable
  BY <1>u DEF WorkInv
<1>10. ProjectInv'
  BY <1>u DEF ProjectInv, Sources
<1>11. ReachSound'
  <2> SUFFICES ASSUME NEW S \in SUBSET Index, target \in S, Closed(S) PROVE reachable' \subseteq S
    BY <1>u DEF ReachSound, Closed
  <2>1. reachable \subseteq S
    BY DEF ReachSound
  <2>2. to \in S
    BY <2>1, <1>2, <1>3 DEF Closed, From, To, Links
  <2> QED
    BY <2>1, <2>2, <1>6
<1>12. StartInv' /\ ScanInv' /\ DoneInv' /\ SeedInv'
  BY <1>u DEF StartInv, ScanInv, DoneInv, SeedInv
<1>13. AdjacencyInv'
  <2>1. \A i : Passed(i)' = Passed(i)
    BY <1>u DEF Passed, Links, From
  <2> QED
    BY <2>1, <1>u, <1>6 DEF AdjacencyInv, Links, From
<1>14. WalkTypeInv'
  <2>1. (at \in Nat \ {0})' /\ turn' \in Nat /\ pending' \in Seq(Index)
    BY <1>u, <1>7
  <2>2. (reachable \subseteq Sources)'
    BY <1>u, <1>6, <1>3 DEF WalkTypeInv, Sources
  <2>3. phase' \in {"start", "first", "second", "adjacency", "seed", "work", "expand", "done"}
    BY <1>u
  <2> QED
    BY <2>1, <2>2, <2>3, <1>1, <1>u, Zenon DEF WalkTypeInv
<1>15. DistinctInv'
  <2>1. DOMAIN pending = 1 .. Len(pending)
    BY <1>u
  <2>2. CASE to \in reachable
    BY <2>2, <1>7 DEF DistinctInv
  <2>3. CASE to \notin reachable
    <3>1. \A k \in 1 .. Len(pending) : pending[k] # to
      BY <2>1, <2>3, <1>9
    <3>2. \A i, j \in 1 .. Len(pending) : pending[i] = pending[j] => i = j
      BY <2>1 DEF DistinctInv
    <3>3. ASSUME NEW i \in 1 .. Len(pending) + 1, NEW j \in 1 .. Len(pending) + 1, pending'[i] = pending'[j]
          PROVE  i = j
      <4>1. i = Len(pending) + 1 \/ i \in 1 .. Len(pending)
        BY <1>4
      <4>2. j = Len(pending) + 1 \/ j \in 1 .. Len(pending)
        BY <1>4
      <4> QED
        BY <4>1, <4>2, <3>1, <3>2, <3>3, <2>3, <1>7
    <3> QED
      BY <3>3, <2>3, <1>7 DEF DistinctInv
  <2> QED
    BY <2>2, <2>3
<1>16. WorkInv'
  <2>1. turn' + Len(pending') = Cardinality(reachable')
    <3>1. CASE to \in reachable
      BY <3>1, <1>4, <1>7, <1>u
    <3>2. CASE to \notin reachable
      <4>1. Cardinality(reachable') = Cardinality(reachable) + 1
        BY <3>2, <1>5, <1>6
      <4>2. Len(pending') = Len(pending) + 1 /\ turn' = turn
        BY <3>2, <1>7, <1>u
      <4> QED
        BY <4>1, <4>2, <1>4, <1>u
    <3> QED
      BY <3>1, <3>2
  <2>2. \A k \in DOMAIN pending' : pending'[k] \in reachable'
    <3>1. DOMAIN pending = 1 .. Len(pending)
      BY <1>u
    <3>2. CASE to \in reachable
      BY <3>2, <1>7, <1>9
    <3>3. CASE to \notin reachable
      <4> SUFFICES ASSUME NEW k \in 1 .. Len(pending) + 1 PROVE pending'[k] \in reachable'
        BY <3>3, <1>7
      <4>1. k = Len(pending) + 1 \/ k \in DOMAIN pending
        BY <3>1, <1>4
      <4> QED
        BY <4>1, <3>1, <3>3, <1>6, <1>7, <1>9
    <3> QED
      BY <3>2, <3>3
  <2>3. ASSUME NEW j \in Links, From(j) \in reachable', ~InStack(From(j))'
        PROVE  To(j) \in reachable' \/ \E k \in DOMAIN expanding' : expanding'[k][2] = To(j)
    <3>1. From(j)' = From(j)
      BY <1>u DEF From
    <3>2. From(j) \in reachable /\ ~InStack(From(j))
      BY <3>1, <2>3, <1>6, <1>8
    <3>3. CASE To(j) \in reachable
      BY <3>3, <1>6
    <3>4. CASE To(j) \notin reachable
      <4>1. PICK k \in DOMAIN expanding : expanding[k][2] = To(j)
        BY <3>2, <3>4, <1>u DEF WorkInv
      <4>2. CASE k = 1
        <5>1. To(j) = to
          BY <4>1, <4>2, <1>1 DEF to
        <5> QED
          BY <5>1, <1>6
      <4>3. CASE k # 1
        <5>1. k - 1 \in DOMAIN expanding' /\ expanding'[k - 1] = expanding[k]
          BY <4>1, <4>3, <1>1
        <5> QED
          BY <5>1, <4>1
      <4> QED
        BY <4>2, <4>3
    <3> QED
      BY <3>3, <3>4
  <2>4. at' + Len(expanding') <= LinkLimit + 1
    <3>1. at + Len(expanding) <= LinkLimit + 1
      BY <1>u DEF WorkInv
    <3> QED
      BY <3>1, <1>1, <1>u, <1>f
  <2>5. ASSUME NEW k \in DOMAIN expanding'
        PROVE  \E j \in Links : expanding'[k] = project.imports[j] /\ From(j) \in reachable'
    <3>1. k + 1 \in DOMAIN expanding /\ expanding'[k] = expanding[k + 1]
      BY <1>1
    <3> QED
      BY <3>1, <1>u, <1>6 DEF WorkInv
  <2> QED
    BY <2>1, <2>2, <2>3, <2>4, <2>5, <1>u DEF WorkInv, Links, From, To
<1> QED
  BY <1>10, <1>11, <1>12, <1>13, <1>14, <1>15, <1>16

\* The end of an expansion and the end of the walk.
LEMMA StepExpanded ==
    ASSUME ClosureInv, Expanded \/ Finish
    PROVE  ClosureInv'
<1> USE DEF ClosureInv
<1>f. /\ Capacity \in Nat /\ LinkLimit \in Nat
      /\ Cardinality(reachable) \in Nat /\ Cardinality(reachable) <= Capacity
  BY ProjectFacts, CountFacts
<1>u. /\ phase \in {"work", "expand"} /\ phase' \in {"work", "done"} /\ at' \in Nat \ {0}
      /\ UNCHANGED << project, target, reachable, changed, adjacency, pending, turn >>
      /\ expanding' \in Seq(Link) /\ expanding \in Seq(Link) /\ pending \in Seq(Index) /\ turn \in Nat
      /\ at \in Nat \ {0}
  <2>1. << >> \in Seq(Link)
    OBVIOUS
  <2>2. /\ expanding \in Seq(Link) /\ pending \in Seq(Index) /\ turn \in Nat /\ at \in Nat \ {0}
    BY DEF WalkTypeInv
  <2>3. CASE Expanded
    BY <2>1, <2>2, <2>3 DEF Expanded
  <2>4. CASE Finish
    BY <2>2, <2>4 DEF Finish
  <2> QED
    BY <2>3, <2>4
<1>1. ProjectInv'
  BY <1>u DEF ProjectInv, Sources
<1>2. ReachSound'
  BY <1>u DEF ReachSound, Closed
<1>3. StartInv' /\ ScanInv' /\ SeedInv'
  BY <1>u DEF StartInv, ScanInv, SeedInv
<1>4. AdjacencyInv'
  <2>1. \A i : Passed(i)' = Passed(i)
    BY <1>u DEF Passed, Links, From
  <2> QED
    BY <2>1, <1>u DEF AdjacencyInv, Links, From
<1>5. WalkTypeInv'
  <2>1. (reachable \subseteq Sources)'
    BY <1>u DEF WalkTypeInv, Sources
  <2>2. phase' \in {"start", "first", "second", "adjacency", "seed", "work", "expand", "done"}
    BY <1>u
  <2> QED
    BY <2>1, <2>2, <1>u, Zenon DEF WalkTypeInv
<1>6. DistinctInv'
  BY <1>u DEF DistinctInv
<1>7. \A i : InStack(i)' <=> InStack(i)
  BY <1>u DEF InStack
<1>8. turn + Len(pending) = Cardinality(reachable) /\ Len(pending) \in Nat
  BY <1>u DEF WorkInv
<1>9. CASE Expanded
  <2>1. phase' = "work" /\ phase = "expand" /\ (expanding = << >> \/ at > LinkLimit)
    BY <1>9 DEF Expanded
  <2>2. DOMAIN expanding = {}
    <3>1. at + Len(expanding) <= LinkLimit + 1
      BY <2>1 DEF WorkInv
    <3>2. Len(expanding) = 0
      BY <2>1, <3>1, <1>u, <1>f
    <3> QED
      BY <3>2, <1>u
  <2>3. WorkInv'
    BY <2>1, <2>2, <1>7, <1>8, <1>u DEF WorkInv, Links, From, To
  <2> QED
    BY <2>1, <2>3, <1>1, <1>2, <1>3, <1>4, <1>5, <1>6 DEF DoneInv
<1>10. CASE Finish
  <2>1. phase' = "done" /\ phase = "work" /\ (pending = << >> \/ turn = Capacity)
    BY <1>10 DEF Finish
  <2>2. Len(pending) = 0 /\ turn <= Capacity
    BY <2>1, <1>8, <1>f, <1>u
  <2>3. \A i : ~InStack(i)
    BY <2>2, <1>u DEF InStack
  <2>4. Closed(reachable)
    BY <2>1, <2>3 DEF WorkInv, Closed, Links, From, To
  <2>5. target \in reachable /\ target \in Sources
    BY <2>1 DEF AdjacencyInv, ProjectInv
  <2>6. DoneInv'
    BY <2>2, <2>4, <2>5, <1>u, <1>f DEF DoneInv, Closed, Sources
  <2> QED
    BY <2>1, <2>6, <1>1, <1>2, <1>3, <1>4, <1>5, <1>6 DEF WorkInv
<1> QED
  BY <1>9, <1>10

----------------------------------------------------------------------------
\* Every operation of the walk preserves its invariant.
LEMMA ClosureStep ==
    ASSUME ClosureInv, ClosureNext
    PROVE  ClosureInv'
BY StepBegin, StepScanLink, StepEndRound, StepAdjacency, StepSeed, StepPop, StepExpand, StepExpanded
   DEF ClosureNext

\* The invariant gives the three parts of the property.
LEMMA ClosureParts ==
    ASSUME ClosureInv
    PROVE  ClosureTypeOK /\ ClosureIsExact /\ WorkFits
<1> USE DEF ClosureInv
<1>f. /\ project.source_count \in 1 .. Capacity /\ project.imports \in Seq(Link) /\ Capacity \in Nat
      /\ Sources \subseteq Index /\ reachable \subseteq Sources
  BY ProjectFacts DEF WalkTypeInv
<1>c. Cardinality(reachable) \in Nat /\ Cardinality(reachable) <= Capacity /\ Cardinality(Index) = Capacity
      /\ IsFiniteSet(reachable)
  BY CountFacts
<1>1. turn \in 0 .. Capacity /\ Len(pending) <= Capacity
  <2>t. turn \in Nat /\ Len(pending) \in Nat
    BY DEF WalkTypeInv
  <2>1. CASE phase \in {"start", "first", "second"}
    BY <2>1, <1>f DEF StartInv
  <2>2. CASE phase = "adjacency"
    BY <2>2, <1>f DEF SeedInv
  <2>3. CASE phase = "seed"
    <3>1. turn = 0 /\ Len(pending) = Cardinality(Below(at - 1))
      BY <2>3 DEF SeedInv
    <3>2. Below(at - 1) \subseteq reachable
      BY DEF Below
    <3>3. Cardinality(Below(at - 1)) <= Cardinality(reachable)
      BY <3>2, <1>c, FS_Subset
    <3> QED
      BY <3>1, <3>3, <2>t, <1>c, <1>f
  <2>4. CASE phase \in {"work", "expand"}
    <3>1. turn + Len(pending) = Cardinality(reachable)
      BY <2>4 DEF WorkInv
    <3> QED
      BY <3>1, <2>t, <1>c, <1>f
  <2>5. CASE phase = "done"
    BY <2>5, <2>t, <1>f DEF DoneInv
  <2> QED
    BY <2>1, <2>2, <2>3, <2>4, <2>5 DEF WalkTypeInv
<1>2. ClosureTypeOK
  <2>1. target \in 0 .. Capacity
    BY DEF ProjectInv
  <2>2. reachable \subseteq Index
    BY <1>f
  <2> QED
    BY <2>1, <2>2, <1>1, <1>f, Zenon DEF ClosureTypeOK, WalkTypeInv
<1>3. ClosureIsExact
  <2> SUFFICES ASSUME phase = "done" PROVE reachable = Reached
    BY DEF ClosureIsExact
  <2>1. target \in Sources <=> ~(target >= project.source_count)
    BY <1>f DEF ProjectInv, Sources
  <2>2. CASE target \notin Sources
    BY <2>1, <2>2 DEF Reached, DoneInv
  <2>3. CASE target \in Sources
    <3>1. target \in reachable /\ Closed(reachable) /\ reachable \in SUBSET Index
      BY <2>3, <1>f DEF DoneInv
    <3>2. Reached = {i \in Index : \A S \in SUBSET Index : target \in S /\ Closed(S) => i \in S}
      BY <2>1, <2>3 DEF Reached
    <3>3. Reached \subseteq reachable
      BY <3>1, <3>2
    <3>4. reachable \subseteq Reached
      BY <3>1, <3>2 DEF ReachSound
    <3> QED
      BY <3>3, <3>4
  <2> QED
    BY <2>2, <2>3
<1>4. WorkFits
  BY DEF WorkFits, WorkInv, DistinctInv
<1> QED
  BY <1>2, <1>3, <1>4

(***************************************************************************)
(* project_import_closure, for every project within the limits of          *)
(* resolve_imports, every target and every capacity: whichever way it      *)
(* returns, it has marked exactly the modules the target imports, directly *)
(* or not; its stack and its turns suffice.                                *)
(***************************************************************************)
THEOREM ClosureExact == Spec => []ImportClosureIsExact
<1> DEFINE I == native = "closure" => ClosureInv
<1>1. Init => I
  BY ClosureStart DEF Init
<1>2. I /\ [Next]_<< native, resolutionVars, closureVars, locationVars, classifierVars >> => I'
  <2> SUFFICES ASSUME I, native' = "closure",
                      [Next]_<< native, resolutionVars, closureVars, locationVars, classifierVars >>
               PROVE  ClosureInv'
    OBVIOUS
  <2>1. CASE Next
    <3>1. native = "closure" /\ ClosureNext
      BY <2>1 DEF Next
    <3> QED
      BY <3>1, ClosureStep
  <2>2. CASE UNCHANGED << native, resolutionVars, closureVars, locationVars, classifierVars >>
    <3>1. ClosureInv /\ UNCHANGED closureVars
      BY <2>2
    <3>2. UNCHANGED << project, target, phase, at, reachable, changed, adjacency, pending, expanding, turn >>
      BY <3>1 DEF closureVars
    <3> USE <3>1, <3>2 DEF ClosureInv
    <3>3. ProjectInv' /\ StartInv' /\ ReachSound'
      BY DEF ProjectInv, StartInv, ReachSound, Closed, Sources
    <3>4. WalkTypeInv'
      BY Zenon DEF WalkTypeInv, Sources
    <3>5. ScanInv'
      BY DEF ScanInv, Links, From, To
    <3>6. AdjacencyInv'
      <4>1. \A i : Passed(i)' = Passed(i)
        BY DEF Passed, Links, From
      <4> QED
        BY <4>1 DEF AdjacencyInv, Links, From
    <3>7. SeedInv' /\ WorkInv' /\ DistinctInv'
      <4>1. Below(at - 1)' = Below(at - 1)
        BY DEF Below
      <4>2. \A i : InStack(i)' <=> InStack(i)
        BY DEF InStack
      <4> QED
        BY <4>1, <4>2 DEF SeedInv, WorkInv, DistinctInv, Links, From, To
    <3>8. DoneInv'
      BY DEF DoneInv, Closed, Sources
    <3> QED
      BY <3>3, <3>4, <3>5, <3>6, <3>7, <3>8
  <2> QED
    BY <2>1, <2>2
<1>3. I => ImportClosureIsExact
  BY ClosureParts DEF ImportClosureIsExact
<1> QED
  BY <1>1, <1>2, <1>3, PTL DEF Spec

----------------------------------------------------------------------------
(* The resolution of imports.                                              *)

DiagnosticKind == {"DuplicateModule", "MissingImport", "ImportLimitExceeded"}
DiagnosticRow == [kind : DiagnosticKind, source : Source, use : Nat]
Miss(s, u) == Diagnostic("MissingImport", s, u)

\* Each variable is of its type.
ResolutionTypes ==
    /\ declared \in [Source -> Name] /\ uses \in [Source -> Seq(Name)]
    /\ checked \in 0 .. SourceCount /\ current \in 1 .. SourceCount + 1
    /\ facts \in Seq([name : Name, target : Nat])
    /\ imports \in Seq([source : Source, use : Nat, target : Source])
    /\ diagnostics \in Seq(DiagnosticRow) /\ duplicates \in Seq(DiagnosticRow)
    /\ valid \in BOOLEAN /\ count = Len(imports)

\* A fact says what a lookup for the current module would find.
FactsInv ==
    /\ current > SourceCount => facts = << >>
    /\ \A i \in DOMAIN facts :
          /\ Cacheable(facts[i].name)
          /\ facts[i].target = FindImportTarget(current, facts[i].name)

\* Uses are read module by module.
UsesInv == \A s \in Source : s > current => uses[s] = << >>

\* A link is where a lookup for its use leads, each use that leads somewhere has
\* one, and they are in order.
LinksInv ==
    /\ \A i \in DOMAIN imports :
          /\ imports[i].use \in DOMAIN uses[imports[i].source]
          /\ imports[i].target = FindImportTarget(imports[i].source, uses[imports[i].source][imports[i].use])
    /\ \A s \in Source : \A u \in DOMAIN uses[s] :
          Providers(s, uses[s][u]) # {} => \E i \in DOMAIN imports : (imports[i].source = s /\ imports[i].use = u)
    /\ \A i, j \in DOMAIN imports : i < j =>
          \/ imports[i].source < imports[j].source
          \/ imports[i].source = imports[j].source /\ imports[i].use < imports[j].use

\* A use without a provider has a diagnostic, and no two uses share one.
MissesInv ==
    /\ \A i \in DOMAIN diagnostics : diagnostics[i].kind = "MissingImport" =>
          /\ diagnostics[i].use \in DOMAIN uses[diagnostics[i].source]
          /\ Providers(diagnostics[i].source, uses[diagnostics[i].source][diagnostics[i].use]) = {}
    /\ \A s \in Source : \A u \in DOMAIN uses[s] :
          Providers(s, uses[s][u]) = {} => \E i \in DOMAIN diagnostics : diagnostics[i] = Miss(s, u)
    /\ \A i, j \in DOMAIN diagnostics :
          diagnostics[i].kind = "MissingImport" /\ diagnostics[i] = diagnostics[j] => i = j

\* What is wrong with the imports has been said.
VerdictInv ==
    /\ valid <=> diagnostics = << >>
    /\ \A s \in Source : s <= checked /\ duplicates = << >> => s \notin Duplicate

ResolutionInv ==
    /\ ResolutionTypes /\ FactsInv /\ FactsAreExamined /\ UsesInv /\ LinksInv /\ MissesInv /\ VerdictInv
    /\ InvalidHasReason /\ ValidIsUnambiguous

\* A nonempty set of naturals has a least element.
LEMMA LeastNatural ==
    ASSUME NEW T \in SUBSET Nat, T # {}
    PROVE  \E t \in T : \A u \in T : t <= u
<1> DEFINE R == {ss \in Nat \X Nat : ss[1] < ss[2]}
<1>1. IsWellFoundedOn(R, Nat)
  BY NatLessThanWellFounded, Zenon DEF OpToRel
<1>2. \E x \in T : \A y \in T : ~(<< y, x >> \in R)
  <2> HIDE DEF R
  <2> QED
    BY <1>1, WFMin
<1>3. PICK x \in T : \A y \in T : ~(<< y, x >> \in R)
  BY <1>2
<1>4. \A y \in T : ~(y < x)
  BY <1>3
<1> QED
  BY <1>4

\* What find_import_target returns.
LEMMA FindFacts ==
    ASSUME NEW s, NEW n
    PROVE  /\ FindImportTarget(s, n) \in Nat
           /\ FindImportTarget(s, n) = 0 <=> Providers(s, n) = {}
           /\ Providers(s, n) # {} => /\ FindImportTarget(s, n) \in Providers(s, n)
                                      /\ \A t \in Providers(s, n) : FindImportTarget(s, n) <= t
<1> DEFINE same == {t \in Source : t # s /\ declared[t] = n}
           least == CHOOSE t \in same : \A u \in same : t <= u
<1>1. same = Providers(s, n) /\ same \subseteq Source
  BY DEF Providers
<1>2. same \in SUBSET Nat
  BY DEF Source
<1>3. FindImportTarget(s, n) = IF same = {} THEN 0 ELSE least
  BY DEF FindImportTarget
<1>4. same # {} => least \in same /\ \A u \in same : least <= u
  <2> HIDE DEF same
  <2> QED
    BY <1>2, LeastNatural
<1>5. 0 \notin same
  BY <1>1 DEF Source
<1> HIDE DEF same, least
<1> QED
  BY <1>1, <1>2, <1>3, <1>4, <1>5

\* A hit says what the lookup would, and without one the name is not in the cache.
LEMMA CachedFacts ==
    ASSUME ResolutionInv, NEW n \in Name
    PROVE  /\ Cached(n) # << >> => Cached(n)[1].target = FindImportTarget(current, n)
           /\ Cached(n) = << >> /\ Cacheable(n) => \A i \in DOMAIN facts : facts[i].name # n
<1> DEFINE hits == {i \in DOMAIN facts : i <= FactLimit /\ KeyEqual(n, facts[i])}
           least == CHOOSE i \in hits : \A j \in hits : i <= j
<1>1. Cached(n) = IF hits = {} THEN << >> ELSE << facts[least] >>
  BY DEF Cached
<1>t. /\ facts \in Seq([name : Name, target : Nat]) /\ Len(facts) \in Nat /\ Len(facts) <= FactLimit
      /\ FactLimit \in Nat /\ DOMAIN facts = 1 .. Len(facts)
  BY ResolutionAssumption DEF ResolutionInv, ResolutionTypes, FactsAreExamined
<1>2. hits \in SUBSET Nat /\ hits \subseteq DOMAIN facts
  BY <1>t
<1>3. hits # {} => least \in hits
  <2> HIDE DEF hits
  <2> QED
    BY <1>2, LeastNatural
<1>4. \A i \in hits : facts[i].name = n
  BY DEF KeyEqual
<1>5. hits = {} /\ Cacheable(n) => \A i \in DOMAIN facts : facts[i].name # n
  BY <1>t DEF KeyEqual
<1> HIDE DEF hits, least
<1>6. CASE hits = {}
  BY <1>1, <1>5, <1>6
<1>7. CASE hits # {}
  <2>1. Cached(n) = << facts[least] >> /\ least \in DOMAIN facts /\ facts[least].name = n
    BY <1>1, <1>2, <1>3, <1>4, <1>7
  <2>2. facts[least].target = FindImportTarget(current, n)
    BY <2>1 DEF ResolutionInv, FactsInv
  <2>3. Cached(n) # << >> /\ Cached(n)[1] = facts[least]
    BY <2>1
  <2> QED
    BY <2>2, <2>3
<1> QED
  BY <1>6, <1>7

\* What an element put in front of a list, or behind it, leaves where.
LEMMA PrependFacts ==
    ASSUME NEW S, NEW x \in S, NEW q \in Seq(S)
    PROVE  /\ << x >> \o q \in Seq(S) /\ Len(<< x >> \o q) = Len(q) + 1 /\ (<< x >> \o q)[1] = x
           /\ DOMAIN (<< x >> \o q) = 1 .. Len(q) + 1
           /\ \A k \in 2 .. Len(q) + 1 : (<< x >> \o q)[k] = q[k - 1] /\ k - 1 \in DOMAIN q
OBVIOUS

LEMMA ElementFacts ==
    ASSUME NEW S, NEW q \in Seq(S), NEW i \in DOMAIN q
    PROVE  q[i] \in S
OBVIOUS

\* Sources are in order.
LEMMA SourceOrder ==
    ASSUME NEW s \in Source, NEW t \in Source
    PROVE  s \in Int /\ (s <= t <=> ~(s > t)) /\ (s <= t <=> s < t \/ s = t)
BY DEF Source

LEMMA AppendFacts ==
    ASSUME NEW S, NEW x \in S, NEW q \in Seq(S)
    PROVE  /\ Append(q, x) \in Seq(S) /\ Len(Append(q, x)) = Len(q) + 1 /\ Append(q, x)[Len(q) + 1] = x
           /\ DOMAIN Append(q, x) = 1 .. Len(q) + 1 /\ DOMAIN q = 1 .. Len(q) /\ Len(q) \in Nat
           /\ \A k \in 1 .. Len(q) : Append(q, x)[k] = q[k]
           /\ Append(q, x) # << >>
OBVIOUS

LEMMA ResolutionStart ==
    ASSUME ResolutionInit
    PROVE  ResolutionInv
<1> USE DEF ResolutionInit
<1>1. SourceCount \in Nat \ {0} /\ FactLimit \in Nat
  BY ResolutionAssumption
<1>2. ResolutionTypes
  <2>1. uses \in [Source -> Seq(Name)]
    OBVIOUS
  <2>2. /\ facts \in Seq([name : Name, target : Nat])
        /\ imports \in Seq([source : Source, use : Nat, target : Source])
        /\ diagnostics \in Seq(DiagnosticRow) /\ duplicates \in Seq(DiagnosticRow)
        /\ count = Len(imports)
    OBVIOUS
  <2>3. checked \in 0 .. SourceCount /\ current \in 1 .. SourceCount + 1
    BY <1>1
  <2>4. valid \in BOOLEAN
    OBVIOUS
  <2> QED
    BY <2>1, <2>2, <2>3, <2>4, Zenon DEF ResolutionTypes
<1>3. \A s \in Source : DOMAIN uses[s] = {}
  OBVIOUS
<1>4. FactsInv /\ FactsAreExamined /\ UsesInv /\ LinksInv /\ MissesInv
  BY <1>1, <1>3 DEF FactsInv, FactsAreExamined, UsesInv, LinksInv, MissesInv
<1>5. VerdictInv
  <2>1. valid <=> diagnostics = << >>
    OBVIOUS
  <2>2. \A s \in Source : ~(s <= checked)
    BY DEF Source
  <2> QED
    BY <2>1, <2>2, Zenon DEF VerdictInv
<1> QED
  BY <1>2, <1>4, <1>5 DEF ResolutionInv, InvalidHasReason, ValidIsUnambiguous

\* The links of uses that do not change stay right.
LEMMA LinksStay ==
    ASSUME LinksInv, UNCHANGED << declared, uses, imports >>
    PROVE  LinksInv'
<1>1. \A s, m : Providers(s, m)' = Providers(s, m) /\ FindImportTarget(s, m)' = FindImportTarget(s, m)
  BY DEF Providers, FindImportTarget
<1>2. \A i \in DOMAIN imports' :
        /\ imports'[i].use \in DOMAIN uses'[imports'[i].source]
        /\ imports'[i].target
              = FindImportTarget(imports[i].source, uses[imports[i].source][imports[i].use])'
  BY <1>1 DEF LinksInv
<1>3. \A s \in Source : \A u \in DOMAIN uses'[s] :
        Providers(s, uses[s][u])' # {} =>
          \E i \in DOMAIN imports' : imports'[i].source = s /\ imports'[i].use = u
  BY <1>1 DEF LinksInv
<1>4. \A i, j \in DOMAIN imports' : i < j =>
        \/ imports'[i].source < imports'[j].source
        \/ imports'[i].source = imports'[j].source /\ imports'[i].use < imports'[j].use
  BY DEF LinksInv
<1> QED
  BY <1>2, <1>3, <1>4, Zenon DEF LinksInv

\* duplicate_module_cons.
LEMMA StepCheckDuplicate ==
    ASSUME ResolutionInv, CheckDuplicate
    PROVE  ResolutionInv'
<1> USE DEF ResolutionInv
<1>1. SourceCount \in Nat /\ checked \in 0 .. SourceCount /\ checked < SourceCount /\ checked' = checked + 1
      /\ UNCHANGED << declared, current, uses, facts, facts_count, imports, diagnostics, valid, count, result >>
  BY ResolutionAssumption DEF CheckDuplicate, ResolutionTypes
<1>2. checked + 1 \in Source
  BY <1>1 DEF Source
<1>3. duplicates' \in Seq(DiagnosticRow) /\ (duplicates' = << >> => duplicates = << >> /\ checked + 1 \notin Duplicate)
  <2> DEFINE d == Diagnostic("DuplicateModule", checked + 1, 0)
  <2>1. d \in DiagnosticRow
    BY <1>2 DEF Diagnostic, DiagnosticRow, DiagnosticKind
  <2>2. duplicates \in Seq(DiagnosticRow)
    BY DEF ResolutionTypes
  <2>3. duplicates' = IF checked + 1 \in Duplicate THEN Append(duplicates, d) ELSE duplicates
    BY DEF CheckDuplicate
  <2> HIDE DEF d
  <2> QED
    BY <2>1, <2>2, <2>3, AppendFacts
<1>4. ResolutionTypes'
  <2>1. checked' \in 0 .. SourceCount
    BY <1>1
  <2> QED
    BY <2>1, <1>1, <1>3, Zenon DEF ResolutionTypes
<1>5. VerdictInv'
  <2>1. \A s \in Source : s <= checked' => s <= checked \/ s = checked + 1
    BY <1>1 DEF Source
  <2>2. Duplicate' = Duplicate
    BY <1>1 DEF Duplicate
  <2> QED
    BY <2>1, <2>2, <1>1, <1>3, Zenon DEF VerdictInv
<1>6. \A s, n : Providers(s, n)' = Providers(s, n) /\ FindImportTarget(s, n)' = FindImportTarget(s, n)
  BY <1>1 DEF Providers, FindImportTarget
<1>7. FactsInv' /\ FactsAreExamined' /\ UsesInv'
  BY <1>1, <1>6 DEF FactsInv, FactsAreExamined, UsesInv, Cacheable
<1>8. LinksInv' /\ MissesInv'
  <2>1. LinksInv'
    BY <1>1, LinksStay
  <2>2. MissesInv'
    BY <1>1, <1>6 DEF MissesInv, Miss, Diagnostic
  <2> QED
    BY <2>1, <2>2
<1>9. InvalidHasReason' /\ ValidIsUnambiguous'
  BY <1>1, <1>6 DEF InvalidHasReason, ValidIsUnambiguous
<1> QED
  BY <1>4, <1>5, <1>7, <1>8, <1>9

\* resolve_one_use: the cache never changes where the use leads.
LEMMA StepResolveUse ==
    ASSUME ResolutionInv, NEW n \in Name, ResolveUse(n)
    PROVE  ResolutionInv'
<1> USE DEF ResolutionInv
<1> DEFINE to == FindImportTarget(current, n)
           use == Len(uses[current]) + 1
           link == [source |-> current, use |-> use, target |-> to]
           fact == [name |-> n, target |-> to]
           adds == Cached(n) = << >> /\ Cacheable(n)
<1>t. /\ SourceCount \in Nat \ {0} /\ FactLimit \in Nat \ {0}
      /\ declared \in [Source -> Name] /\ uses \in [Source -> Seq(Name)]
      /\ facts \in Seq([name : Name, target : Nat])
      /\ imports \in Seq([source : Source, use : Nat, target : Source])
      /\ diagnostics \in Seq(DiagnosticRow)
  BY ResolutionAssumption DEF ResolutionTypes
<1>u. /\ current \in Source /\ result = << >> /\ UNCHANGED << declared, checked, duplicates, current, result >>
      /\ uses' = [uses EXCEPT ![current] = Append(@, n)]
  BY <1>t DEF ResolveUse, Reading, ResolutionTypes, Source
<1>n. /\ to \in Nat
      /\ to = 0 <=> Providers(current, n) = {}
      /\ Providers(current, n) # {} => to \in Providers(current, n)
  BY FindFacts
<1>s. to # 0 => to \in Source
  BY <1>n DEF Providers
<1>1. /\ facts' = IF adds THEN CacheAdd(n, to) ELSE facts
      /\ facts_count' = IF adds THEN IF facts_count >= FactLimit THEN 1 ELSE facts_count + 1 ELSE facts_count
      /\ imports' = IF to = 0 THEN imports ELSE Append(imports, link)
      /\ diagnostics' = IF to = 0 THEN Append(diagnostics, Miss(current, use)) ELSE diagnostics
      /\ valid' = (valid /\ to # 0)
      /\ count' = IF to = 0 THEN count ELSE count + 1
  <2>1. (IF Cached(n) = << >> THEN FindImportTarget(current, n) ELSE Cached(n)[1].target) = to
    BY CachedFacts
  <2> QED
    BY <2>1, Zenon DEF ResolveUse, Miss
<1>2. /\ uses[current] \in Seq(Name) /\ use \in Nat \ {0} /\ use \notin DOMAIN uses[current]
      /\ \A u \in DOMAIN uses[current] : u < use
      /\ uses' \in [Source -> Seq(Name)]
      /\ \A s \in Source : s # current => uses'[s] = uses[s]
      /\ uses'[current] = Append(uses[current], n)
      /\ DOMAIN uses'[current] = DOMAIN uses[current] \union {use}
      /\ uses'[current][use] = n
      /\ \A u \in DOMAIN uses[current] : uses'[current][u] = uses[current][u]
  <2>1. uses[current] \in Seq(Name)
    BY <1>t, <1>u
  <2>2. /\ Append(uses[current], n) \in Seq(Name)
        /\ DOMAIN Append(uses[current], n) = 1 .. Len(uses[current]) + 1
        /\ Append(uses[current], n)[Len(uses[current]) + 1] = n
        /\ DOMAIN uses[current] = 1 .. Len(uses[current]) /\ Len(uses[current]) \in Nat
        /\ \A u \in 1 .. Len(uses[current]) : Append(uses[current], n)[u] = uses[current][u]
    BY <2>1, AppendFacts
  <2>3. /\ uses' \in [Source -> Seq(Name)]
        /\ uses'[current] = Append(uses[current], n)
        /\ \A s \in Source : s # current => uses'[s] = uses[s]
    BY <2>2, <1>t, <1>u
  <2> QED
    BY <2>1, <2>2, <2>3
<1>3. \A s \in Source : s # current => DOMAIN uses'[s] = DOMAIN uses[s]
  BY <1>2
<1>4. \A s \in Source : \A u \in DOMAIN uses[s] : u \in DOMAIN uses'[s] /\ uses'[s][u] = uses[s][u]
  BY <1>2, <1>3
<1>5. \A s \in Source : \A u \in DOMAIN uses'[s] : u \in DOMAIN uses[s] \/ (s = current /\ u = use)
  BY <1>2, <1>3
<1>p. \A s, m : Providers(s, m)' = Providers(s, m) /\ FindImportTarget(s, m)' = FindImportTarget(s, m)
  BY <1>u DEF Providers, FindImportTarget
<1>k. link.source = current /\ link.use = use /\ link.target = to /\ fact.name = n /\ fact.target = to
      /\ (to # 0 => link \in [source : Source, use : Nat, target : Source])
      /\ fact \in [name : Name, target : Nat]
  BY <1>n, <1>s, <1>u, <1>2
<1>m. /\ Miss(current, use) \in DiagnosticRow
      /\ Miss(current, use).kind = "MissingImport" /\ Miss(current, use).source = current
      /\ Miss(current, use).use = use
  BY <1>u, <1>2 DEF Miss, Diagnostic, DiagnosticRow, DiagnosticKind
<1> HIDE DEF to, use, link, fact
<1>6. /\ facts' \in Seq([name : Name, target : Nat]) /\ FactsInv' /\ FactsAreExamined'
  <2>1. CASE ~adds
    <3>1. UNCHANGED << facts, facts_count, current >>
      BY <2>1, <1>1, <1>u
    <3> QED
      BY <3>1, <1>p, <1>t, <1>u DEF FactsInv, FactsAreExamined, Cacheable
  <2>2. CASE adds /\ facts_count >= FactLimit
    <3>1. facts' = << fact >> /\ facts_count' = 1
      BY <2>2, <1>1 DEF CacheAdd, fact
    <3>2. DOMAIN facts' = {1} /\ facts'[1] = fact /\ Len(facts') = 1 /\ facts' \in Seq([name : Name, target : Nat])
      BY <3>1, <1>k
    <3>3. FactsAreExamined'
      BY <3>1, <3>2, <1>t DEF FactsAreExamined
    <3>4. current' <= SourceCount
      BY <1>u, <1>t DEF Source
    <3>5. FactsInv'
      BY <3>2, <3>4, <2>2, <1>k, <1>p, <1>u, <1>t DEF FactsInv, Cacheable, Source, to
    <3> QED
      BY <3>2, <3>3, <3>5
  <2>3. CASE adds /\ ~(facts_count >= FactLimit)
    <3>1. facts' = << fact >> \o facts /\ facts_count' = facts_count + 1
      BY <2>3, <1>1 DEF CacheAdd, fact
    <3>2. /\ facts' \in Seq([name : Name, target : Nat]) /\ Len(facts') = Len(facts) + 1 /\ facts'[1] = fact
          /\ DOMAIN facts' = 1 .. Len(facts) + 1
          /\ \A k \in 2 .. Len(facts) + 1 : facts'[k] = facts[k - 1] /\ k - 1 \in DOMAIN facts
      BY <3>1, <1>k, <1>t, PrependFacts
    <3>3. facts_count = Len(facts) /\ Len(facts) \in Nat
      BY <1>t DEF FactsAreExamined
    <3>4. \A k \in DOMAIN facts' : k = 1 \/ (k \in 2 .. Len(facts) + 1)
      BY <3>2, <3>3
    <3>5. \A i \in DOMAIN facts : facts[i].name # n
      BY <2>3, CachedFacts
    <3>6. FactsAreExamined'
      <4>1. facts_count' = Len(facts') /\ facts_count' <= FactLimit
        BY <3>1, <3>2, <3>3, <2>3, <1>t
      <4>2. ASSUME NEW i \in DOMAIN facts', NEW j \in DOMAIN facts', facts'[i].name = facts'[j].name
            PROVE  i = j
        <5>1. CASE i = 1 /\ j = 1
          BY <5>1
        <5>2. CASE i = 1 /\ j \in 2 .. Len(facts) + 1
          BY <5>2, <3>2, <3>5, <4>2, <1>k
        <5>3. CASE i \in 2 .. Len(facts) + 1 /\ j = 1
          BY <5>3, <3>2, <3>5, <4>2, <1>k
        <5>4. CASE i \in 2 .. Len(facts) + 1 /\ j \in 2 .. Len(facts) + 1
          <6>1. i - 1 = j - 1
            BY <5>4, <3>2, <4>2, ZenonT(60) DEF FactsAreExamined
          <6> QED
            BY <6>1, <5>4
        <5> QED
          BY <3>4, <5>1, <5>2, <5>3, <5>4
      <4> QED
        BY <4>1, <4>2 DEF FactsAreExamined
    <3>7. FactsInv'
      <4>1. ~(current' > SourceCount)
        BY <1>u, <1>t DEF Source
      <4>2. ASSUME NEW k \in DOMAIN facts'
            PROVE  Cacheable(facts'[k].name) /\ facts'[k].target = FindImportTarget(current, facts'[k].name)
        <5>1. CASE k = 1
          BY <5>1, <3>2, <2>3, <1>k DEF to
        <5>2. CASE k \in 2 .. Len(facts) + 1
          BY <5>2, <3>2 DEF FactsInv
        <5> QED
          BY <3>4, <5>1, <5>2
      <4> QED
        BY <4>1, <4>2, <1>p, <1>u DEF FactsInv, Cacheable
    <3> QED
      BY <3>2, <3>6, <3>7
  <2> QED
    BY <2>1, <2>2, <2>3
<1>7. UsesInv'
  BY <1>2, <1>u, <1>t DEF UsesInv, Source
<1>8. ASSUME NEW i \in DOMAIN imports
      PROVE  /\ imports[i].source \in Source /\ imports[i].source <= current
             /\ imports[i].source = current => imports[i].use < use
  <2>0. imports[i] \in [source : Source, use : Nat, target : Source]
    <3>1. imports \in Seq([source : Source, use : Nat, target : Source])
      BY <1>t
    <3> QED
      BY <3>1, ElementFacts
  <2>1. imports[i].source \in Source /\ imports[i].use \in DOMAIN uses[imports[i].source]
    BY <2>0 DEF LinksInv
  <2>2. imports[i].source <= current
    <3>1. uses[imports[i].source] # << >>
      BY <2>1
    <3>2. ~(imports[i].source > current)
      BY <3>1, <2>1 DEF UsesInv
    <3> QED
      BY <3>2, <2>1, <1>u, SourceOrder
  <2> QED
    BY <2>1, <2>2, <1>2
<1>9. LinksInv' /\ imports' \in Seq([source : Source, use : Nat, target : Source])
  <2>1. CASE to = 0
    <3>1. imports' = imports
      BY <2>1, <1>1
    <3>2. ASSUME NEW i \in DOMAIN imports'
          PROVE  /\ imports'[i].use \in DOMAIN uses'[imports'[i].source]
                 /\ imports'[i].target = FindImportTarget(imports'[i].source, uses'[imports'[i].source][imports'[i].use])
      BY <3>1, <1>4, <1>8 DEF LinksInv
    <3>3. ASSUME NEW s \in Source, NEW u \in DOMAIN uses'[s], Providers(s, uses'[s][u]) # {}
          PROVE  \E i \in DOMAIN imports' : (imports'[i].source = s /\ imports'[i].use = u)
      <4>1. u \in DOMAIN uses[s]
        BY <1>5, <1>2, <1>n, <2>1, <3>3
      <4>2. Providers(s, uses[s][u]) # {}
        BY <4>1, <1>4, <3>3
      <4> QED
        BY <4>1, <4>2, <3>1 DEF LinksInv
    <3>4. \A i, j \in DOMAIN imports' : i < j =>
          \/ imports'[i].source < imports'[j].source
          \/ imports'[i].source = imports'[j].source /\ imports'[i].use < imports'[j].use
      BY <3>1 DEF LinksInv
    <3> QED
      BY <3>1, <3>2, <3>3, <3>4, <1>p, <1>t, ZenonT(60) DEF LinksInv
  <2>2. CASE to # 0
    <3>1. imports' = Append(imports, link)
      BY <2>2, <1>1
    <3>2. /\ imports' \in Seq([source : Source, use : Nat, target : Source])
          /\ DOMAIN imports' = 1 .. Len(imports) + 1 /\ DOMAIN imports = 1 .. Len(imports) /\ Len(imports) \in Nat
          /\ imports'[Len(imports) + 1] = link
          /\ \A k \in 1 .. Len(imports) : imports'[k] = imports[k]
      BY <3>1, <2>2, <1>k, <1>t, AppendFacts
    <3>3. \A k \in DOMAIN imports' : k = Len(imports) + 1 \/ k \in DOMAIN imports
      BY <3>2
    <3>4. ASSUME NEW i \in DOMAIN imports'
          PROVE  /\ imports'[i].use \in DOMAIN uses'[imports'[i].source]
                 /\ imports'[i].target = FindImportTarget(imports'[i].source, uses'[imports'[i].source][imports'[i].use])
      <4>1. CASE i = Len(imports) + 1
        <5>1. imports'[i].source = current /\ imports'[i].use = use /\ imports'[i].target = to
          BY <4>1, <3>2, <1>k
        <5>2. uses'[current][use] = n /\ use \in DOMAIN uses'[current]
          BY <1>2
        <5> QED
          BY <5>1, <5>2 DEF to
      <4>2. CASE i \in DOMAIN imports
        <5>1. imports'[i] = imports[i]
          BY <4>2, <3>2
        <5>2. imports[i].source \in Source /\ imports[i].use \in DOMAIN uses[imports[i].source]
          BY <4>2, <1>8 DEF LinksInv
        <5>3. DOMAIN uses'[imports'[i].source] = DOMAIN uses'[imports[i].source]
          BY <5>1
        <5>4. imports[i].use \in DOMAIN uses'[imports[i].source]
          BY <5>2, <1>4
        <5>5. uses'[imports[i].source][imports[i].use] = uses[imports[i].source][imports[i].use]
          BY <5>2, <1>4
        <5> QED
          BY <5>1, <5>3, <5>4, <5>5, <4>2 DEF LinksInv
      <4> QED
        BY <4>1, <4>2, <3>3
    <3>5. ASSUME NEW s \in Source, NEW u \in DOMAIN uses'[s], Providers(s, uses'[s][u]) # {}
          PROVE  \E i \in DOMAIN imports' : (imports'[i].source = s /\ imports'[i].use = u)
      <4>1. CASE u \in DOMAIN uses[s]
        <5>1. PICK i \in DOMAIN imports : (imports[i].source = s /\ imports[i].use = u)
          BY <4>1, <1>4, <3>5 DEF LinksInv
        <5> QED
          BY <5>1, <3>2
      <4>2. CASE s = current /\ u = use
        <5>1. Len(imports) + 1 \in DOMAIN imports' /\ (imports'[Len(imports) + 1].source = s /\ imports'[Len(imports) + 1].use = u)
          BY <4>2, <3>2, <1>k
        <5> QED
          BY <5>1
      <4> QED
        BY <4>1, <4>2, <1>5
    <3>6. ASSUME NEW i \in DOMAIN imports', NEW j \in DOMAIN imports', i < j
          PROVE  \/ imports'[i].source < imports'[j].source
                 \/ imports'[i].source = imports'[j].source /\ imports'[i].use < imports'[j].use
      <4>1. i \in DOMAIN imports /\ imports'[i] = imports[i]
        BY <3>2, <3>6
      <4>2. CASE j \in DOMAIN imports
        BY <4>1, <4>2, <3>2, <3>6 DEF LinksInv
      <4>3. CASE j = Len(imports) + 1
        <5>1. imports'[j].source = current /\ imports'[j].use = use
          BY <4>3, <3>2, <1>k
        <5>2. imports[i].source = current \/ imports[i].source < current
          BY <4>1, <1>8, <1>u, SourceOrder
        <5> QED
          BY <5>1, <5>2, <4>1, <1>8
      <4> QED
        BY <4>2, <4>3, <3>3
    <3>7. LinksInv'
      <4>1. \A i \in DOMAIN imports' :
              /\ imports'[i].use \in DOMAIN uses'[imports'[i].source]
              /\ imports'[i].target
                    = FindImportTarget(imports[i].source, uses[imports[i].source][imports[i].use])'
        BY <3>4, <1>p
      <4>2. \A s \in Source : \A u \in DOMAIN uses'[s] :
              Providers(s, uses[s][u])' # {} =>
                \E i \in DOMAIN imports' : imports'[i].source = s /\ imports'[i].use = u
        BY <3>5, <1>p
      <4> QED
        BY <4>1, <4>2, <3>6, Zenon DEF LinksInv
    <3> QED
      BY <3>2, <3>7
  <2> QED
    BY <2>1, <2>2
<1>10. MissesInv' /\ diagnostics' \in Seq(DiagnosticRow)
  <2>1. CASE to # 0
    <3>1. diagnostics' = diagnostics
      BY <2>1, <1>1
    <3>2. ASSUME NEW i \in DOMAIN diagnostics', diagnostics'[i].kind = "MissingImport"
          PROVE  /\ diagnostics'[i].use \in DOMAIN uses'[diagnostics'[i].source]
                 /\ Providers(diagnostics'[i].source, uses'[diagnostics'[i].source][diagnostics'[i].use]) = {}
      <4>1. diagnostics[i] \in DiagnosticRow
        BY <3>1, <1>t
      <4>2. diagnostics[i].source \in Source
        BY <4>1 DEF DiagnosticRow
      <4> QED
        BY <3>1, <3>2, <4>2, <1>4 DEF MissesInv
    <3>3. ASSUME NEW s \in Source, NEW u \in DOMAIN uses'[s], Providers(s, uses'[s][u]) = {}
          PROVE  \E i \in DOMAIN diagnostics' : diagnostics'[i] = Miss(s, u)
      <4>1. u \in DOMAIN uses[s]
        BY <1>5, <1>2, <1>n, <2>1, <3>3
      <4> QED
        BY <4>1, <1>4, <3>1, <3>3 DEF MissesInv
    <3>4. MissesInv'
      <4>1. \A i \in DOMAIN diagnostics' : diagnostics'[i].kind = "MissingImport" =>
              /\ diagnostics'[i].use \in DOMAIN uses'[diagnostics'[i].source]
              /\ Providers(diagnostics[i].source, uses[diagnostics[i].source][diagnostics[i].use])' = {}
        BY <3>2, <1>p
      <4>2. \A s \in Source : \A u \in DOMAIN uses'[s] :
              Providers(s, uses[s][u])' = {} => \E i \in DOMAIN diagnostics' : diagnostics'[i] = Miss(s, u)'
        BY <3>3, <1>p DEF Miss, Diagnostic
      <4>3. \A i, j \in DOMAIN diagnostics' :
              diagnostics'[i].kind = "MissingImport" /\ diagnostics'[i] = diagnostics'[j] => i = j
        BY <3>1 DEF MissesInv
      <4> QED
        BY <4>1, <4>2, <4>3, Zenon DEF MissesInv
    <3> QED
      BY <3>1, <3>4, <1>t
  <2>2. CASE to = 0
    <3>1. diagnostics' = Append(diagnostics, Miss(current, use))
      BY <2>2, <1>1
    <3>2. /\ diagnostics' \in Seq(DiagnosticRow)
          /\ DOMAIN diagnostics' = 1 .. Len(diagnostics) + 1
          /\ DOMAIN diagnostics = 1 .. Len(diagnostics) /\ Len(diagnostics) \in Nat
          /\ diagnostics'[Len(diagnostics) + 1] = Miss(current, use)
          /\ \A k \in 1 .. Len(diagnostics) : diagnostics'[k] = diagnostics[k]
      BY <3>1, <1>m, <1>t, AppendFacts
    <3>3. \A k \in DOMAIN diagnostics' : k = Len(diagnostics) + 1 \/ k \in DOMAIN diagnostics
      BY <3>2
    <3>4. ASSUME NEW i \in DOMAIN diagnostics', diagnostics'[i].kind = "MissingImport"
          PROVE  /\ diagnostics'[i].use \in DOMAIN uses'[diagnostics'[i].source]
                 /\ Providers(diagnostics'[i].source, uses'[diagnostics'[i].source][diagnostics'[i].use]) = {}
      <4>1. CASE i = Len(diagnostics) + 1
        <5>1. diagnostics'[i].source = current /\ diagnostics'[i].use = use
          BY <4>1, <3>2, <1>m
        <5> QED
          BY <5>1, <2>2, <1>2, <1>n
      <4>2. CASE i \in DOMAIN diagnostics
        <5>1. diagnostics'[i] = diagnostics[i] /\ diagnostics[i] \in DiagnosticRow
          BY <4>2, <3>2, <1>t
        <5>2. diagnostics[i].source \in Source
          BY <5>1 DEF DiagnosticRow
        <5> QED
          BY <5>1, <5>2, <4>2, <3>4, <1>4 DEF MissesInv
      <4> QED
        BY <4>1, <4>2, <3>3
    <3>5. ASSUME NEW s \in Source, NEW u \in DOMAIN uses'[s], Providers(s, uses'[s][u]) = {}
          PROVE  \E i \in DOMAIN diagnostics' : diagnostics'[i] = Miss(s, u)
      <4>1. CASE u \in DOMAIN uses[s]
        <5>1. PICK i \in DOMAIN diagnostics : diagnostics[i] = Miss(s, u)
          BY <4>1, <1>4, <3>5 DEF MissesInv
        <5> QED
          BY <5>1, <3>2
      <4>2. CASE s = current /\ u = use
        <5>1. Len(diagnostics) + 1 \in DOMAIN diagnostics'
          BY <3>2
        <5> QED
          BY <5>1, <4>2, <3>2
      <4> QED
        BY <4>1, <4>2, <1>5
    <3>6. ASSUME NEW i \in DOMAIN diagnostics, diagnostics[i].kind = "MissingImport"
          PROVE  diagnostics[i] # Miss(current, use)
      BY <3>6, <1>m, <1>2 DEF MissesInv
    <3>7. ASSUME NEW i \in DOMAIN diagnostics', NEW j \in DOMAIN diagnostics',
                 diagnostics'[i].kind = "MissingImport", diagnostics'[i] = diagnostics'[j]
          PROVE  i = j
      <4>1. CASE i \in DOMAIN diagnostics /\ j \in DOMAIN diagnostics
        BY <4>1, <3>2, <3>7 DEF MissesInv
      <4>2. CASE i = Len(diagnostics) + 1 /\ j \in DOMAIN diagnostics
        BY <4>2, <3>2, <3>6, <3>7
      <4>3. CASE i \in DOMAIN diagnostics /\ j = Len(diagnostics) + 1
        BY <4>3, <3>2, <3>6, <3>7
      <4> QED
        BY <4>1, <4>2, <4>3, <3>3
    <3>8. MissesInv'
      <4>1. \A i \in DOMAIN diagnostics' : diagnostics'[i].kind = "MissingImport" =>
              /\ diagnostics'[i].use \in DOMAIN uses'[diagnostics'[i].source]
              /\ Providers(diagnostics[i].source, uses[diagnostics[i].source][diagnostics[i].use])' = {}
        BY <3>4, <1>p
      <4>2. \A s \in Source : \A u \in DOMAIN uses'[s] :
              Providers(s, uses[s][u])' = {} => \E i \in DOMAIN diagnostics' : diagnostics'[i] = Miss(s, u)'
        BY <3>5, <1>p DEF Miss, Diagnostic
      <4> QED
        BY <4>1, <4>2, <3>7, Zenon DEF MissesInv
    <3> QED
      BY <3>2, <3>8
  <2> QED
    BY <2>1, <2>2
<1>11. VerdictInv'
  <2>1. valid' <=> diagnostics' = << >>
    <3>1. valid <=> diagnostics = << >>
      BY DEF VerdictInv
    <3>2. to = 0 => diagnostics' # << >>
      BY <1>1, <1>m, <1>t, AppendFacts
    <3> QED
      BY <3>1, <3>2, <1>1, Zenon
  <2>2. Duplicate' = Duplicate
    BY <1>u DEF Duplicate
  <2> QED
    BY <2>1, <2>2, <1>u, Zenon DEF VerdictInv
<1>12. ResolutionTypes'
  <2>1. count' = Len(imports')
    <3>1. count = Len(imports)
      BY DEF ResolutionTypes
    <3>2. to # 0 => Len(Append(imports, link)) = Len(imports) + 1
      BY <1>k, <1>t, AppendFacts
    <3> QED
      BY <3>1, <3>2, <1>1
  <2>2. valid' \in BOOLEAN
    BY <1>1 DEF ResolutionTypes
  <2> QED
    BY <2>1, <2>2, <1>2, <1>6, <1>9, <1>10, <1>u, Zenon DEF ResolutionTypes
<1> QED
  BY <1>6, <1>7, <1>9, <1>10, <1>11, <1>12, <1>u DEF InvalidHasReason, ValidIsUnambiguous

\* The end of a module's uses, or a limit reached.
LEMMA StepNextModule ==
    ASSUME ResolutionInv, EndUses \/ ModuleLimit \/ ProjectLimit
    PROVE  ResolutionInv'
<1> USE DEF ResolutionInv
<1> DEFINE d == Diagnostic("ImportLimitExceeded", current, Len(uses[current]) + 1)
<1>t. /\ SourceCount \in Nat \ {0} /\ FactLimit \in Nat
      /\ diagnostics \in Seq(DiagnosticRow) /\ uses \in [Source -> Seq(Name)] /\ current \in 1 .. SourceCount + 1
  BY ResolutionAssumption DEF ResolutionTypes
<1>u. /\ current \in Source /\ result = << >>
      /\ current' \in 1 .. SourceCount + 1 /\ current' > current
      /\ facts' = << >> /\ facts_count' = 0
      /\ UNCHANGED << declared, checked, duplicates, uses, imports, count, result >>
  <2>1. current \in Source /\ result = << >>
    BY <1>t DEF EndUses, ModuleLimit, ProjectLimit, Reading, Source
  <2>2. NextModule(current + 1) \/ NextModule(SourceCount + 1)
    BY DEF EndUses, ModuleLimit, ProjectLimit, Limit
  <2>3. CASE NextModule(current + 1)
    BY <2>1, <2>3, <1>t DEF NextModule, Source
  <2>4. CASE NextModule(SourceCount + 1)
    BY <2>1, <2>4, <1>t DEF NextModule, Source
  <2> QED
    BY <2>2, <2>3, <2>4
<1>1. \/ UNCHANGED << diagnostics, valid >>
      \/ valid' = FALSE /\ diagnostics' = Append(diagnostics, d)
  BY DEF EndUses, ModuleLimit, ProjectLimit, Limit
<1>d. d \in DiagnosticRow /\ d.kind # "MissingImport"
  <2>1. Len(uses[current]) + 1 \in Nat
    BY <1>t, <1>u
  <2> QED
    BY <2>1, <1>u DEF Diagnostic, DiagnosticRow, DiagnosticKind
<1> HIDE DEF d
<1>p. \A s, m : Providers(s, m)' = Providers(s, m) /\ FindImportTarget(s, m)' = FindImportTarget(s, m)
  BY <1>u DEF Providers, FindImportTarget
<1>2. /\ diagnostics' \in Seq(DiagnosticRow) /\ (valid' <=> diagnostics' = << >>) /\ valid' \in BOOLEAN
      /\ \A i \in DOMAIN diagnostics : i \in DOMAIN diagnostics' /\ diagnostics'[i] = diagnostics[i]
      /\ \A i \in DOMAIN diagnostics' : diagnostics'[i].kind = "MissingImport" => i \in DOMAIN diagnostics
  <2>v. (valid <=> diagnostics = << >>) /\ valid \in BOOLEAN
    BY DEF VerdictInv, ResolutionTypes
  <2>1. CASE UNCHANGED << diagnostics, valid >>
    BY <2>1, <2>v, <1>t
  <2>2. CASE valid' = FALSE /\ diagnostics' = Append(diagnostics, d)
    <3>1. /\ diagnostics' \in Seq(DiagnosticRow)
          /\ DOMAIN diagnostics' = 1 .. Len(diagnostics) + 1
          /\ DOMAIN diagnostics = 1 .. Len(diagnostics) /\ Len(diagnostics) \in Nat
          /\ diagnostics'[Len(diagnostics) + 1] = d
          /\ \A k \in 1 .. Len(diagnostics) : diagnostics'[k] = diagnostics[k]
          /\ diagnostics' # << >>
      BY <2>2, <1>d, <1>t, AppendFacts
    <3>2. \A k \in DOMAIN diagnostics' : k = Len(diagnostics) + 1 \/ k \in DOMAIN diagnostics
      BY <3>1
    <3>3. \A i \in DOMAIN diagnostics : i \in DOMAIN diagnostics'
      BY <3>1
    <3> QED
      BY <3>1, <3>2, <3>3, <2>2, <1>d
  <2> QED
    BY <2>1, <2>2, <1>1
<1>3. ResolutionTypes'
  <2>1. facts' \in Seq([name : Name, target : Nat])
    BY <1>u
  <2> QED
    BY <2>1, <1>u, <1>2, Zenon DEF ResolutionTypes
<1>4. FactsInv' /\ FactsAreExamined'
  <2>1. DOMAIN facts' = {} /\ Len(facts') = 0
    BY <1>u
  <2> QED
    BY <2>1, <1>u, <1>t DEF FactsInv, FactsAreExamined
<1>5. UsesInv'
  <2>1. \A s \in Source : s > current' => s > current
    BY <1>u, <1>t DEF Source
  <2> QED
    BY <2>1, <1>u DEF UsesInv
<1>6. LinksInv'
  BY <1>u, LinksStay
<1>7. MissesInv'
  <2>1. \A i \in DOMAIN diagnostics' : diagnostics'[i].kind = "MissingImport" =>
          /\ diagnostics'[i].use \in DOMAIN uses'[diagnostics'[i].source]
          /\ Providers(diagnostics[i].source, uses[diagnostics[i].source][diagnostics[i].use])' = {}
    BY <1>2, <1>u, <1>p DEF MissesInv
  <2>2. \A s \in Source : \A u \in DOMAIN uses'[s] :
          Providers(s, uses[s][u])' = {} => \E i \in DOMAIN diagnostics' : diagnostics'[i] = Miss(s, u)'
    BY <1>2, <1>u, <1>p DEF MissesInv, Miss, Diagnostic
  <2>3. \A i, j \in DOMAIN diagnostics' :
          diagnostics'[i].kind = "MissingImport" /\ diagnostics'[i] = diagnostics'[j] => i = j
    BY <1>2 DEF MissesInv
  <2> QED
    BY <2>1, <2>2, <2>3, Zenon DEF MissesInv
<1>8. VerdictInv'
  <2>1. Duplicate' = Duplicate
    BY <1>u DEF Duplicate
  <2> QED
    BY <2>1, <1>2, <1>u, Zenon DEF VerdictInv
<1> QED
  BY <1>3, <1>4, <1>5, <1>6, <1>7, <1>8, <1>u DEF InvalidHasReason, ValidIsUnambiguous

\* With nothing reported, each use has exactly one provider.
LEMMA NothingReported ==
    ASSUME ResolutionInv, checked = SourceCount, duplicates = << >>, diagnostics = << >>,
           NEW s \in Source, NEW u \in DOMAIN uses[s]
    PROVE  Cardinality(Providers(s, uses[s][u])) = 1
<1> DEFINE ps == Providers(s, uses[s][u])
<1>1. ps # {}
  <2>1. DOMAIN diagnostics = {}
    OBVIOUS
  <2> QED
    BY <2>1 DEF ResolutionInv, MissesInv
<1>2. \A t \in Source : t \notin Duplicate
  <2>1. \A t \in Source : t <= checked
    BY ResolutionAssumption DEF Source
  <2> QED
    BY <2>1 DEF ResolutionInv, VerdictInv
<1>3. ASSUME NEW t \in ps, NEW v \in ps
      PROVE  t = v
  <2>1. t \in Source /\ v \in Source /\ declared[t] = declared[v]
    BY DEF Providers
  <2>2. ~(t < v) /\ ~(v < t)
    BY <2>1, <1>2 DEF Duplicate
  <2> QED
    BY <2>1, <2>2, ResolutionAssumption DEF Source
<1> HIDE DEF ps
<1>4. PICK t \in ps : TRUE
  BY <1>1
<1>5. ps = {t}
  BY <1>3, <1>4
<1>6. Cardinality(ps) = 1
  BY <1>5, FS_Singleton
<1> QED
  BY <1>6 DEF ps

\* Two lists in a row are empty only when both are.
LEMMA ConcatEmpty ==
    ASSUME NEW S, NEW p \in Seq(S), NEW q \in Seq(S)
    PROVE  p \o q \in Seq(S) /\ (p \o q = << >> <=> (p = << >> /\ q = << >>))
<1>1. p \o q \in Seq(S) /\ Len(p \o q) = Len(p) + Len(q) /\ Len(p) \in Nat /\ Len(q) \in Nat
  OBVIOUS
<1> QED
  BY <1>1

LEMMA ReverseEmpty ==
    ASSUME NEW S, NEW q \in Seq(S)
    PROVE  Reverse(q) \in Seq(S) /\ (Reverse(q) = << >> <=> q = << >>)
<1>1. /\ Reverse(q) = [i \in 1 .. Len(q) |-> q[(Len(q) - i) + 1]] /\ Len(q) \in Nat
  BY DEF Reverse
<1>2. \A i \in 1 .. Len(q) : q[(Len(q) - i) + 1] \in S
  OBVIOUS
<1>3. Reverse(q) \in Seq(S) /\ Len(Reverse(q)) = Len(q)
  BY <1>1, <1>2
<1> QED
  BY <1>3

\* compile_project_target gives its verdict.
LEMMA StepConclude ==
    ASSUME ResolutionInv, Conclude
    PROVE  ResolutionInv'
<1> USE DEF ResolutionInv
<1>u. /\ checked = SourceCount
      /\ UNCHANGED << declared, checked, duplicates, current, uses, facts, facts_count, imports, diagnostics,
                      valid, count >>
  BY DEF Conclude
<1>1. PICK ordered \in BOOLEAN, missing \in BOOLEAN, stage \in {"none", "ParseFailed", "LoweringFailed"}, s \in Source :
        LET basic == AppendDiagnostics(OrderDiagnostics(ordered), duplicates)
            all == StageDiagnostics(stage, s, missing) \o AppendDiagnostics(basic, diagnostics)
        IN result' = << [valid |-> ordered /\ stage = "none" /\ ~missing /\ valid /\ all = << >>,
                         diagnostics |-> all] >>
  BY ZenonT(60) DEF Conclude
<1> DEFINE Rows == [kind : DiagnosticKind \union {"SourceOrder", "TargetModuleMissing", "ParseFailed", "LoweringFailed"},
                    source : Nat, use : Nat]
           order == OrderDiagnostics(ordered)
           basic == AppendDiagnostics(order, duplicates)
           later == StageDiagnostics(stage, s, missing)
           rest == AppendDiagnostics(basic, diagnostics)
           all == later \o rest
           sound == ordered /\ stage = "none" /\ ~missing /\ valid /\ all = << >>
<1>2. result' = << [valid |-> sound, diagnostics |-> all] >>
  BY <1>1, Zenon
<1>3. duplicates \in Seq(Rows) /\ diagnostics \in Seq(Rows)
  <2>1. duplicates \in Seq(DiagnosticRow) /\ diagnostics \in Seq(DiagnosticRow)
    BY DEF ResolutionTypes
  <2>2. Source \subseteq Nat
    BY DEF Source
  <2>3. DiagnosticRow \subseteq Rows
    BY <2>2 DEF DiagnosticRow
  <2> HIDE DEF Rows
  <2> QED
    BY <2>1, <2>3
<1>4. order \in Seq(Rows) /\ (order = << >> <=> ordered)
  <2> DEFINE d == Diagnostic("SourceOrder", 1, 0)
  <2>1. d \in Rows
    BY DEF Diagnostic
  <2>2. order = IF ordered THEN << >> ELSE << d >>
    BY DEF OrderDiagnostics
  <2> HIDE DEF d, Rows, order
  <2>3. << >> \in Seq(Rows) /\ << d >> \in Seq(Rows) /\ << d >> # << >>
    BY <2>1
  <2> QED
    BY <2>2, <2>3, Zenon
<1>5. later \in Seq(Rows) /\ (later = << >> <=> (stage = "none" /\ ~missing))
  <2> DEFINE d == Diagnostic("TargetModuleMissing", SourceCount + 1, 0)
             e == Diagnostic(stage, s, 0)
             f == IF missing THEN << d >> ELSE << >>
             g == IF stage = "none" THEN << >> ELSE << e >>
  <2>1. d \in Rows /\ (stage # "none" => e \in Rows)
    <3>1. SourceCount + 1 \in Nat /\ s \in Nat
      BY ResolutionAssumption DEF Source
    <3> QED
      BY <3>1 DEF Diagnostic
  <2>2. later = f \o g
    BY DEF StageDiagnostics
  <2> HIDE DEF d, e, Rows, later
  <2>3. << >> \in Seq(Rows) /\ << d >> \in Seq(Rows) /\ << d >> # << >>
    BY <2>1
  <2>4. stage # "none" => << e >> \in Seq(Rows) /\ << e >> # << >>
    BY <2>1
  <2>5. f \in Seq(Rows) /\ (f = << >> <=> ~missing)
    BY <2>3, Zenon
  <2>6. g \in Seq(Rows) /\ (g = << >> <=> stage = "none")
    BY <2>3, <2>4, Zenon
  <2> HIDE DEF f, g
  <2>7. f \o g \in Seq(Rows) /\ (f \o g = << >> <=> (f = << >> /\ g = << >>))
    BY <2>5, <2>6, ConcatEmpty
  <2> QED
    BY <2>2, <2>5, <2>6, <2>7, Zenon
<1> HIDE DEF Rows, order, later
<1>6. basic \in Seq(Rows) /\ (basic = << >> <=> (order = << >> /\ duplicates = << >>))
  <2>1. Reverse(order) \in Seq(Rows) /\ (Reverse(order) = << >> <=> order = << >>)
    BY <1>4, ReverseEmpty
  <2>2. basic = Reverse(order) \o duplicates
    BY DEF AppendDiagnostics
  <2>3. Reverse(order) \o duplicates \in Seq(Rows)
        /\ (Reverse(order) \o duplicates = << >> <=> (Reverse(order) = << >> /\ duplicates = << >>))
    BY <2>1, <1>3, ConcatEmpty
  <2> QED
    BY <2>1, <2>2, <2>3, Zenon
<1> HIDE DEF basic
<1>7. rest \in Seq(Rows) /\ (rest = << >> <=> (basic = << >> /\ diagnostics = << >>))
  <2>1. Reverse(basic) \in Seq(Rows) /\ (Reverse(basic) = << >> <=> basic = << >>)
    BY <1>6, ReverseEmpty
  <2>2. rest = Reverse(basic) \o diagnostics
    BY DEF AppendDiagnostics
  <2>3. Reverse(basic) \o diagnostics \in Seq(Rows)
        /\ (Reverse(basic) \o diagnostics = << >> <=> (Reverse(basic) = << >> /\ diagnostics = << >>))
    BY <2>1, <1>3, ConcatEmpty
  <2> QED
    BY <2>1, <2>2, <2>3, Zenon
<1> HIDE DEF rest
<1>8. all = << >> <=> (later = << >> /\ rest = << >>)
  BY <1>5, <1>7, ConcatEmpty
<1> HIDE DEF all
<1>9. all = << >> => sound /\ duplicates = << >> /\ diagnostics = << >>
  BY <1>4, <1>5, <1>6, <1>7, <1>8, Zenon DEF VerdictInv
<1>10. sound => all = << >>
  OBVIOUS
<1> HIDE DEF sound
<1>11. result'[1].valid = sound /\ result'[1].diagnostics = all
  BY <1>2
<1>12. InvalidHasReason'
  <2>1. sound <=> all = << >>
    BY <1>9, <1>10
  <2> QED
    BY <2>1, <1>11, Zenon DEF InvalidHasReason
<1>13. ValidIsUnambiguous'
  <2>1. \A t, m : Providers(t, m)' = Providers(t, m)
    BY <1>u DEF Providers
  <2> SUFFICES ASSUME result'[1].valid, NEW t \in Source, NEW v \in DOMAIN uses[t]
               PROVE  Cardinality(Providers(t, uses[t][v])) = 1
    BY <2>1, <1>u DEF ValidIsUnambiguous
  <2>2. duplicates = << >> /\ diagnostics = << >>
    BY <1>9, <1>10, <1>11
  <2> QED
    BY <2>2, <1>u, NothingReported
<1>14. \A t, m : Providers(t, m)' = Providers(t, m) /\ FindImportTarget(t, m)' = FindImportTarget(t, m)
  BY <1>u DEF Providers, FindImportTarget
<1>15. ResolutionTypes' /\ VerdictInv'
  BY <1>u, Zenon DEF ResolutionTypes, VerdictInv, Duplicate
<1>16. FactsInv' /\ FactsAreExamined' /\ UsesInv'
  BY <1>u, <1>14 DEF FactsInv, FactsAreExamined, UsesInv, Cacheable
<1>17. LinksInv'
  BY <1>u, LinksStay
<1>18. MissesInv'
  BY <1>u, <1>14 DEF MissesInv, Miss, Diagnostic
<1> QED
  BY <1>12, <1>13, <1>15, <1>16, <1>17, <1>18

----------------------------------------------------------------------------
\* The invariant gives the parts of the property.
LEMMA ResolutionParts ==
    ASSUME ResolutionInv
    PROVE  ResolutionTypeOK /\ LookupsAgree /\ EveryMissIsReported
<1> USE DEF ResolutionInv
<1>1. ResolutionTypeOK
  <2>1. ASSUME NEW i \in DOMAIN imports PROVE imports[i].source \in Source /\ imports[i].target \in Source
    <3>1. imports[i] \in [source : Source, use : Nat, target : Source]
      BY ElementFacts DEF ResolutionTypes
    <3> QED
      BY <3>1
  <2>2. ASSUME NEW i \in DOMAIN diagnostics PROVE diagnostics[i].source \in Source
    <3>1. diagnostics[i] \in DiagnosticRow
      BY ElementFacts DEF ResolutionTypes
    <3> QED
      BY <3>1 DEF DiagnosticRow
  <2>3. ASSUME NEW i \in DOMAIN duplicates PROVE duplicates[i].source \in Source
    <3>1. duplicates[i] \in DiagnosticRow
      BY ElementFacts DEF ResolutionTypes
    <3> QED
      BY <3>1 DEF DiagnosticRow
  <2> QED
    BY <2>1, <2>2, <2>3, Zenon DEF ResolutionTypeOK, ResolutionTypes
<1>d. imports \in Seq([source : Source, use : Nat, target : Source]) /\ DOMAIN imports = 1 .. Len(imports)
      /\ Len(imports) \in Nat
  BY DEF ResolutionTypes
<1>2. ASSUME NEW s \in Source, NEW u \in DOMAIN uses[s]
      PROVE  LET links == {i \in DOMAIN imports : imports[i].source = s /\ imports[i].use = u}
                 ps == Providers(s, uses[s][u])
             IN /\ Cardinality(links) = (IF ps = {} THEN 0 ELSE 1)
                /\ \A i \in links : imports[i].target \in ps /\ \A t \in ps : imports[i].target <= t
  <2> DEFINE links == {i \in DOMAIN imports : imports[i].source = s /\ imports[i].use = u}
             ps == Providers(s, uses[s][u])
  <2>1. \A i \in links : imports[i].target = FindImportTarget(s, uses[s][u])
    BY DEF LinksInv
  <2>2. ASSUME NEW i \in links PROVE imports[i].target \in Source /\ imports[i].target # 0
    <3>1. imports[i] \in [source : Source, use : Nat, target : Source]
      BY <1>d, ElementFacts
    <3> QED
      BY <3>1 DEF Source
  <2>3. /\ FindImportTarget(s, uses[s][u]) = 0 <=> ps = {}
        /\ ps # {} => /\ FindImportTarget(s, uses[s][u]) \in ps
                      /\ \A t \in ps : FindImportTarget(s, uses[s][u]) <= t
    BY FindFacts
  <2>4. ASSUME NEW i \in links, NEW j \in links PROVE i = j
    <3>1. ~(i < j) /\ ~(j < i)
      <4>1. /\ imports[i].source = imports[j].source /\ imports[i].use = imports[j].use
            /\ imports[i].source \in Int /\ imports[i].use \in Int
        <5>1. imports[i] \in [source : Source, use : Nat, target : Source]
          BY <1>d, ElementFacts
        <5> QED
          BY <5>1, SourceOrder
      <4>2. /\ i < j => imports[i].source < imports[j].source \/ imports[i].use < imports[j].use
            /\ j < i => imports[j].source < imports[i].source \/ imports[j].use < imports[i].use
        BY DEF LinksInv
      <4> QED
        BY <4>1, <4>2
    <3> QED
      BY <3>1, <1>d
  <2>5. ps # {} => links # {}
    BY DEF LinksInv
  <2> HIDE DEF ps
  <2>6. \A i \in links : imports[i].target \in ps /\ \A t \in ps : imports[i].target <= t
    BY <2>1, <2>2, <2>3
  <2> HIDE DEF links
  <2>7. Cardinality(links) = (IF ps = {} THEN 0 ELSE 1)
    <3>1. CASE ps = {}
      <4>1. links = {}
        BY <3>1, <2>6
      <4> QED
        BY <4>1, <3>1, FS_EmptySet
    <3>2. CASE ps # {}
      <4>1. PICK i \in links : TRUE
        BY <3>2, <2>5
      <4>2. links = {i}
        BY <4>1, <2>4
      <4> QED
        BY <4>2, <3>2, FS_Singleton
    <3> QED
      BY <3>1, <3>2
  <2> QED
    BY <2>6, <2>7, Zenon DEF links, ps
<1>3. LookupsAgree
  BY <1>2, Zenon DEF LookupsAgree, LinksInv
<1>4. ASSUME NEW s \in Source, NEW u \in DOMAIN uses[s]
      PROVE  Cardinality({i \in DOMAIN diagnostics : diagnostics[i] = Diagnostic("MissingImport", s, u)})
                 = IF Providers(s, uses[s][u]) = {} THEN 1 ELSE 0
  <2> DEFINE reports == {i \in DOMAIN diagnostics : diagnostics[i] = Miss(s, u)}
             ps == Providers(s, uses[s][u])
  <2>m. Miss(s, u).kind = "MissingImport" /\ Miss(s, u).source = s /\ Miss(s, u).use = u
    BY DEF Miss, Diagnostic
  <2>1. reports # {} => ps = {}
    BY <2>m DEF MissesInv
  <2>2. ASSUME NEW i \in reports, NEW j \in reports PROVE i = j
    BY <2>m DEF MissesInv
  <2>3. ps = {} => reports # {}
    BY DEF MissesInv
  <2> HIDE DEF reports, ps
  <2>4. Cardinality(reports) = IF ps = {} THEN 1 ELSE 0
    <3>1. CASE ps # {}
      <4>1. reports = {}
        BY <3>1, <2>1
      <4> QED
        BY <4>1, <3>1, FS_EmptySet
    <3>2. CASE ps = {}
      <4>1. PICK i \in reports : TRUE
        BY <3>2, <2>3
      <4>2. reports = {i}
        BY <4>1, <2>2
      <4> QED
        BY <4>2, <3>2, FS_Singleton
    <3> QED
      BY <3>1, <3>2
  <2> QED
    BY <2>4, Zenon DEF reports, ps, Miss
<1>5. EveryMissIsReported
  BY <1>4, Zenon DEF EveryMissIsReported
<1> QED
  BY <1>1, <1>3, <1>5

(***************************************************************************)
(* duplicate_modules, resolve_imports and compile_project_target, for any  *)
(* names, uses and limits: neither the cache nor its restarts show in a    *)
(* link or a diagnostic, every miss is reported once, a verdict is invalid *)
(* exactly with a reason, and a valid project leaves no import to the      *)
(* order of its sources.                                                   *)
(***************************************************************************)
THEOREM ResolutionSound == Spec => []ImportsAreSound
<1> DEFINE I == native = "resolution" => ResolutionInv
<1>1. Init => I
  BY ResolutionStart DEF Init
<1>2. I /\ [Next]_<< native, resolutionVars, closureVars, locationVars, classifierVars >> => I'
  <2> SUFFICES ASSUME I, native' = "resolution",
                      [Next]_<< native, resolutionVars, closureVars, locationVars, classifierVars >>
               PROVE  ResolutionInv'
    OBVIOUS
  <2>1. CASE Next
    <3>1. native = "resolution" /\ ResolutionNext
      BY <2>1 DEF Next
    <3>2. ResolutionInv
      BY <3>1
    <3> QED
      BY <3>1, <3>2, StepCheckDuplicate, StepResolveUse, StepNextModule, StepConclude DEF ResolutionNext
  <2>2. CASE UNCHANGED << native, resolutionVars, closureVars, locationVars, classifierVars >>
    <3>1. ResolutionInv /\ UNCHANGED resolutionVars
      BY <2>2
    <3>2. UNCHANGED << declared, checked, duplicates, current, uses, facts, facts_count, imports, diagnostics, valid,
                       count, result >>
      BY <3>1 DEF resolutionVars
    <3> USE <3>1, <3>2 DEF ResolutionInv
    <3>3. \A s, m : Providers(s, m)' = Providers(s, m) /\ FindImportTarget(s, m)' = FindImportTarget(s, m)
      BY DEF Providers, FindImportTarget
    <3>4. ResolutionTypes' /\ VerdictInv'
      BY Zenon DEF ResolutionTypes, VerdictInv, Duplicate
    <3>5. FactsInv' /\ FactsAreExamined' /\ UsesInv'
      BY <3>3 DEF FactsInv, FactsAreExamined, UsesInv, Cacheable
    <3>6. LinksInv'
      BY LinksStay
    <3>7. MissesInv'
      BY <3>3 DEF MissesInv, Miss, Diagnostic
    <3>8. InvalidHasReason' /\ ValidIsUnambiguous'
      BY <3>3 DEF InvalidHasReason, ValidIsUnambiguous
    <3> QED
      BY <3>4, <3>5, <3>6, <3>7, <3>8
  <2> QED
    BY <2>1, <2>2
<1>3. I => ImportsAreSound
  BY ResolutionParts DEF ImportsAreSound, ResolutionInv
<1> QED
  BY <1>1, <1>2, <1>3, PTL DEF Spec

----------------------------------------------------------------------------
(* The tables of the Unicode classifier and the search in them.            *)

InRange(x, r) == r[1] <= x /\ x <= r[2]
Covered(x) == \E i \in DOMAIN ranges : InRange(x, ranges[i])
InPlane(x, p) == p * PlaneSize <= x /\ x <= p * PlaneSize + PlaneSize - 1
FirstOf(e) == e \div Radix
LastOf(e) == e % Radix
Holds(p, x) == \E k \in DOMAIN tables[p] : FirstOf(tables[p][k]) <= x /\ x <= LastOf(tables[p][k])

\* Runs are runs, in order and apart.
RunsInv ==
    /\ included \subseteq Scalar
    /\ ranges \in Seq(Scalar \X Scalar)
    /\ \A i \in DOMAIN ranges : ranges[i][1] <= ranges[i][2]
    /\ \A i, j \in DOMAIN ranges : i < j => ranges[i][2] < ranges[j][1]

\* While the scalars are scanned: the closed runs and the open one are what was accepted so far.
OpenInv ==
    classifier_phase = "scan" =>
        /\ scalar \in FirstScalar .. LastScalar + 1 /\ start \in Nat
        /\ start # 0 => start \in FirstScalar .. scalar - 1
        /\ \A i \in DOMAIN ranges : ranges[i][2] < scalar /\ (start # 0 => ranges[i][2] < start)
        /\ \A x \in Scalar : x < scalar => (x \in included <=> Covered(x) \/ (start # 0 /\ start <= x))
        /\ plane = 0 /\ entry = 1 /\ tables = [p \in Plane |-> << >>]

\* From then on the runs are the property.
CoverInv == classifier_phase # "scan" => \A x \in Scalar : x \in included <=> Covered(x)

\* Entries hold two ends each and are in order and apart.
EntriesInv ==
    /\ classifier_phase \in {"scan", "emit", "refused", "ready", "search", "answered"}
    /\ tables \in [Plane -> Seq(0 .. Radix * Radix - 1)]
    /\ \A p \in Plane : \A k \in DOMAIN tables[p] : FirstOf(tables[p][k]) <= LastOf(tables[p][k])
    /\ \A p \in Plane : \A k, l \in DOMAIN tables[p] : k < l => LastOf(tables[p][k]) < FirstOf(tables[p][l])

\* A finished table fits and holds of its plane what the property has there.
Finished(p) ==
    /\ Len(tables[p]) <= TableLimit
    /\ \A x \in Scalar : InPlane(x, p) => (x \in included <=> Holds(p, x))

\* The table being made holds the runs before entry, and ends before the others begin.
PlaneInv ==
    /\ classifier_phase = "emit" =>
          /\ plane \in Plane /\ entry \in 1 .. Len(ranges) + 1
          /\ \A p \in Plane : p > plane => tables[p] = << >>
          /\ \A p \in Plane : p < plane => Finished(p)
          /\ \A x \in Scalar : InPlane(x, plane) =>
                (Holds(plane, x) <=> \E i \in DOMAIN ranges : i < entry /\ InRange(x, ranges[i]))
          /\ \A k \in DOMAIN tables[plane], i \in DOMAIN ranges :
                i >= entry => LastOf(tables[plane][k]) < ranges[i][1]
    /\ classifier_phase \in {"ready", "search", "answered"} => \A p \in Plane : Finished(p)

\* What the steps still to come are enough for.
Width ==
    CHOOSE left \in [0 .. SearchSteps -> 0 .. TableLimit] :
        /\ left[0] = 0 /\ left[SearchSteps] = TableLimit
        /\ \A k \in 0 .. SearchSteps - 1 : left[k + 1] <= 2 * left[k] + 1

\* Entries up to low end before the value, entries past high begin after it, and
\* the steps left are enough for the entries between.
Narrowed ==
    /\ \A k \in DOMAIN Table(value) :
          /\ k <= low => LastOf(Table(value)[k]) < value
          /\ k > high => value < FirstOf(Table(value)[k])
    /\ high - low <= Width[SearchSteps - step]

SearchInv ==
    /\ low \in 0 .. TableLimit /\ high \in 0 .. TableLimit /\ step \in 0 .. SearchSteps
    /\ found \in BOOLEAN
    /\ classifier_phase = "search" =>
          /\ value \in Scalar /\ low <= high /\ high <= Len(Table(value))
          /\ found => value \in included
          /\ ~found => Narrowed
    /\ classifier_phase = "answered" => (found <=> value \in included)

\* The inductive invariant of the classifier.
ClassifierParts == RunsInv /\ OpenInv /\ CoverInv /\ EntriesInv /\ PlaneInv /\ SearchInv

\* What division and remainder are, in the form the provers use.
LEMMA DivFacts ==
    ASSUME NEW x \in Nat, NEW d \in Nat \ {0}
    PROVE  x \div d \in Nat /\ x % d \in 0 .. d - 1 /\ x = (d * (x \div d)) + (x % d)
OBVIOUS

LEMMA AtLeast ==
    ASSUME NEW a \in Int, NEW d \in Nat \ {0}, a >= 1
    PROVE  d * a >= d
OBVIOUS

\* A number has one quotient and one remainder.
LEMMA OneQuotient ==
    ASSUME NEW q \in Nat, NEW p \in Nat, NEW d \in Nat \ {0}, NEW r \in 0 .. d - 1, NEW s \in 0 .. d - 1,
           d * q + r = d * p + s
    PROVE  q = p /\ r = s
<1>1. d * (q - p) = s - r
  OBVIOUS
<1>2. ~(q - p >= 1)
  <2> SUFFICES ASSUME q - p >= 1 PROVE FALSE
    OBVIOUS
  <2>1. d * (q - p) >= d
    BY AtLeast
  <2> QED
    BY <2>1, <1>1
<1>3. ~(p - q >= 1)
  <2> SUFFICES ASSUME p - q >= 1 PROVE FALSE
    OBVIOUS
  <2>1. d * (p - q) >= d
    BY AtLeast
  <2>2. d * (p - q) = r - s
    OBVIOUS
  <2> QED
    BY <2>1, <2>2
<1>4. q = p
  BY <1>2, <1>3
<1> QED
  BY <1>4

\* Packing two scalars into one number loses neither, and stays within its width.
LEMMA PackFacts ==
    ASSUME NEW range, NEW q \in Nat, NEW r \in Nat, range = << q, r >>, q < Radix, r < Radix
    PROVE  /\ FirstOf(Pack(range)) = q /\ LastOf(Pack(range)) = r
           /\ Pack(range) \in 0 .. Radix * Radix - 1
<1> DEFINE x == q * Radix + r
<1>1. Radix \in Nat \ {0} /\ r \in 0 .. Radix - 1
  BY ClassifierAssumption
<1>2. x \in Nat /\ x = Radix * q + r
  BY <1>1
<1>3. Pack(range) = x
  BY DEF Pack
<1>4. x <= Radix * Radix - 1
  <2>1. Radix * (Radix - q) >= Radix
    BY <1>1, AtLeast
  <2>2. Radix * (Radix - q) = Radix * Radix - Radix * q
    BY <1>1
  <2>3. Radix * Radix \in Nat /\ Radix * q \in Nat
    BY <1>1
  <2> QED
    BY <1>1, <1>2, <2>1, <2>2, <2>3
<1> HIDE DEF x
<1>5. x \div Radix \in Nat /\ x % Radix \in 0 .. Radix - 1 /\ x = (Radix * (x \div Radix)) + (x % Radix)
  BY <1>1, <1>2, DivFacts
<1>6. x \div Radix = q /\ x % Radix = r
  BY <1>1, <1>2, <1>5, OneQuotient
<1>7. Radix * Radix - 1 \in Int
  BY <1>1
<1> QED
  BY <1>2, <1>3, <1>4, <1>6, <1>7 DEF FirstOf, LastOf

\* A scalar is in the plane the lookup computes for it, and that plane has a table.
LEMMA PlaneOf ==
    ASSUME NEW x \in Scalar
    PROVE  x \div PlaneSize \in Plane /\ InPlane(x, x \div PlaneSize)
<1> DEFINE p == x \div PlaneSize
           q == LastScalar \div PlaneSize
<1>1. x \in Nat /\ x <= LastScalar /\ PlaneSize \in Nat \ {0} /\ LastScalar \in Nat
  BY ClassifierAssumption DEF Scalar
<1>2. p \in Nat /\ x % PlaneSize \in 0 .. PlaneSize - 1 /\ x = (PlaneSize * p) + (x % PlaneSize)
  BY <1>1, DivFacts
<1>3. /\ q \in Nat /\ LastScalar % PlaneSize \in 0 .. PlaneSize - 1
      /\ LastScalar = (PlaneSize * q) + (LastScalar % PlaneSize)
  BY <1>1, DivFacts
<1> HIDE DEF p, q
<1>4. p * PlaneSize = PlaneSize * p /\ PlaneSize * p \in Nat
  BY <1>1, <1>2
<1>5. InPlane(x, p)
  <2> DEFINE y == PlaneSize * p
  <2>1. y \in Nat /\ p * PlaneSize = y /\ x = y + (x % PlaneSize)
    BY <1>2, <1>4
  <2> HIDE DEF y
  <2>2. y <= x /\ x <= y + PlaneSize - 1
    BY <1>1, <1>2, <2>1
  <2> QED
    BY <2>1, <2>2 DEF InPlane
<1>6. ~(p - q >= 1)
  <2> SUFFICES ASSUME p - q >= 1 PROVE FALSE
    OBVIOUS
  <2>1. PlaneSize * (p - q) >= PlaneSize
    BY <1>1, <1>2, <1>3, AtLeast
  <2>2. PlaneSize * (p - q) = PlaneSize * p - PlaneSize * q /\ PlaneSize * q \in Nat
    BY <1>1, <1>2, <1>3
  <2> QED
    BY <1>1, <1>2, <1>3, <1>4, <2>1, <2>2
<1>7. p \in 0 .. q
  BY <1>2, <1>3, <1>6
<1> QED
  BY <1>5, <1>7 DEF p, q, Plane

\* A range clipped to a plane has the scalars of both.
LEMMA ClipFacts ==
    ASSUME NEW r \in Scalar \X Scalar, NEW p \in Nat
    PROVE  /\ Clip(r, p) = << Clip(r, p)[1], Clip(r, p)[2] >>
           /\ Clip(r, p)[1] \in Nat /\ Clip(r, p)[2] \in Nat
           /\ r[1] <= Clip(r, p)[1] /\ Clip(r, p)[2] <= r[2]
           /\ \A x \in Nat : InPlane(x, p) => (InRange(x, r) <=> InRange(x, Clip(r, p)))
<1> DEFINE y == p * PlaneSize
<1>1. y \in Nat /\ PlaneSize \in Nat \ {0}
  BY ClassifierAssumption
<1>2. r[1] \in Nat /\ r[2] \in Nat
  BY ClassifierAssumption DEF Scalar
<1>3. Clip(r, p) = << Greater(r[1], y), Lesser(r[2], y + PlaneSize - 1) >>
  BY DEF Clip
<1>4. \A x : InPlane(x, p) <=> y <= x /\ x <= y + PlaneSize - 1
  BY DEF InPlane
<1> HIDE DEF y
<1> QED
  BY <1>1, <1>2, <1>3, <1>4 DEF Greater, Lesser, InRange

\* What a step that leaves the runs, or the tables, alone keeps of them.
LEMMA RunsStay ==
    ASSUME ClassifierParts, UNCHANGED << included, ranges >>
    PROVE  RunsInv' /\ \A x : Covered(x)' <=> Covered(x)
BY Zenon DEF ClassifierParts, RunsInv, Covered

LEMMA TablesStay ==
    ASSUME ClassifierParts, UNCHANGED << included, tables >>
    PROVE  /\ \A p, x : Holds(p, x)' <=> Holds(p, x)
           /\ \A p : Finished(p)' <=> Finished(p)
           /\ classifier_phase' \in {"scan", "emit", "refused", "ready", "search", "answered"} => EntriesInv'
<1>1. \A p, x : Holds(p, x)' <=> Holds(p, x)
  BY Zenon DEF Holds
<1>2. \A p : Finished(p)' <=> Finished(p)
  BY <1>1 DEF Finished
<1> QED
  BY <1>1, <1>2, Zenon DEF ClassifierParts, EntriesInv

\* The ends of a run are scalars.
LEMMA RunFacts ==
    ASSUME ClassifierParts
    PROVE  \A i \in DOMAIN ranges : /\ ranges[i] \in Scalar \X Scalar
                                    /\ ranges[i][1] \in Nat /\ ranges[i][2] \in Nat /\ ranges[i][2] <= LastScalar
<1> SUFFICES ASSUME NEW i \in DOMAIN ranges
             PROVE  /\ ranges[i] \in Scalar \X Scalar
                    /\ ranges[i][1] \in Nat /\ ranges[i][2] \in Nat /\ ranges[i][2] <= LastScalar
  OBVIOUS
<1>1. ranges[i] \in Scalar \X Scalar
  BY DEF ClassifierParts, RunsInv
<1> QED
  BY <1>1, ClassifierAssumption DEF Scalar

\* A run past the others may be added at the end.
LEMMA RunAppended ==
    ASSUME ClassifierParts, NEW r \in Scalar \X Scalar, r[1] <= r[2],
           \A i \in DOMAIN ranges : ranges[i][2] < r[1],
           ranges' = Append(ranges, r), UNCHANGED included
    PROVE  /\ RunsInv' /\ \A x \in Scalar : Covered(x)' <=> Covered(x) \/ InRange(x, r)
           /\ \A i \in DOMAIN ranges' : ranges'[i] = r \/ \E j \in DOMAIN ranges : ranges'[i] = ranges[j]
<1> DEFINE n == Len(ranges)
<1>r. /\ ranges \in Seq(Scalar \X Scalar) /\ included \subseteq Scalar
      /\ \A i \in DOMAIN ranges : ranges[i][1] <= ranges[i][2] /\ ranges[i][1] \in Nat /\ ranges[i][2] \in Nat
      /\ \A i, j \in DOMAIN ranges : i < j => ranges[i][2] < ranges[j][1]
  BY RunFacts DEF ClassifierParts, RunsInv
<1>1. /\ n \in Nat /\ DOMAIN ranges = 1 .. n /\ DOMAIN ranges' = 1 .. n + 1
      /\ ranges' \in Seq(Scalar \X Scalar) /\ ranges'[n + 1] = r
      /\ \A i \in 1 .. n : ranges'[i] = ranges[i]
  BY <1>r
<1> HIDE DEF n
<1>2. \A i \in DOMAIN ranges' : ranges'[i][1] <= ranges'[i][2]
  BY <1>r, <1>1
<1>3. ASSUME NEW i \in DOMAIN ranges', NEW j \in DOMAIN ranges', i < j PROVE ranges'[i][2] < ranges'[j][1]
  <2>1. i \in 1 .. n
    BY <1>1, <1>3
  <2>2. CASE j = n + 1
    BY <1>1, <2>1, <2>2
  <2>3. CASE j # n + 1
    BY <1>r, <1>1, <1>3, <2>1, <2>3
  <2> QED
    BY <2>2, <2>3
<1>4. DOMAIN ranges' = DOMAIN ranges \union {n + 1} /\ \A i \in DOMAIN ranges : ranges'[i] = ranges[i]
  BY <1>1
<1>5. RunsInv'
  BY <1>r, <1>1, <1>2, <1>3 DEF RunsInv
<1>6. \A x \in Scalar : Covered(x)' <=> Covered(x) \/ InRange(x, r)
  BY <1>1, <1>4, Zenon DEF Covered
<1> QED
  BY <1>1, <1>4, <1>5, <1>6

LEMMA ClassifierStart == ClassifierInit => ClassifierParts
<1> SUFFICES ASSUME ClassifierInit PROVE ClassifierParts
  OBVIOUS
<1> USE ClassifierAssumption DEF ClassifierInit
<1>1. RunsInv
  BY DEF RunsInv
<1>2. OpenInv
  BY DEF OpenInv, Scalar, Covered
<1>3. CoverInv /\ PlaneInv
  BY DEF CoverInv, PlaneInv
<1>4. EntriesInv
  BY DEF EntriesInv
<1>5. SearchInv
  <2>1. found \in BOOLEAN
    OBVIOUS
  <2> QED
    BY <2>1 DEF SearchInv
<1> QED
  BY <1>1, <1>2, <1>3, <1>4, <1>5 DEF ClassifierParts

LEMMA StepScan == ClassifierParts /\ Scan => ClassifierParts'
<1> SUFFICES ASSUME ClassifierParts, Scan PROVE ClassifierParts'
  OBVIOUS
<1>1. /\ classifier_phase = "scan" /\ classifier_phase' = "scan" /\ scalar <= LastScalar /\ scalar' = scalar + 1
      /\ UNCHANGED << included, plane, entry, tables, value, low, high, found, step >>
  BY DEF Scan, emission, search
<1>2. /\ scalar \in Scalar /\ scalar \in Nat /\ start \in Nat /\ 0 \notin Scalar /\ FirstScalar \in Nat \ {0}
      /\ LastScalar \in Nat /\ Scalar \subseteq Nat
  BY <1>1, ClassifierAssumption DEF ClassifierParts, OpenInv, Scalar
<1>o. /\ start # 0 => start \in FirstScalar .. scalar - 1
      /\ \A i \in DOMAIN ranges : ranges[i][2] < scalar /\ (start # 0 => ranges[i][2] < start)
      /\ \A x \in Scalar : x < scalar => (x \in included <=> Covered(x) \/ (start # 0 /\ start <= x))
      /\ plane = 0 /\ entry = 1 /\ tables = [p \in Plane |-> << >>]
  BY <1>1 DEF ClassifierParts, OpenInv
<1>r. /\ ranges \in Seq(Scalar \X Scalar) /\ included \subseteq Scalar
      /\ \A i \in DOMAIN ranges : ranges[i][1] <= ranges[i][2] /\ ranges[i][1] \in Nat /\ ranges[i][2] \in Nat
      /\ \A i, j \in DOMAIN ranges : i < j => ranges[i][2] < ranges[j][1]
  BY RunFacts DEF ClassifierParts, RunsInv
<1>5. EntriesInv'
  BY <1>1, TablesStay
<1>6. CoverInv' /\ PlaneInv' /\ SearchInv' /\ (RunsInv' /\ OpenInv' => ClassifierParts')
  <2>1. CoverInv' /\ PlaneInv'
    BY <1>1 DEF CoverInv, PlaneInv
  <2>2. SearchInv'
    BY <1>1, Zenon DEF ClassifierParts, SearchInv
  <2> QED
    BY <1>5, <2>1, <2>2 DEF ClassifierParts
<1>3. CASE start # 0 /\ scalar \notin included
  <2>1. start' = 0 /\ ranges' = Append(ranges, << start, scalar - 1 >>)
    BY <1>3 DEF Scan
  <2> DEFINE r == << start, scalar - 1 >>
  <2>2. r \in Scalar \X Scalar /\ r[1] = start /\ r[2] = scalar - 1 /\ start <= scalar - 1
    BY <1>2, <1>3, <1>o DEF Scalar
  <2>3. ranges' = Append(ranges, r)
    BY <2>1
  <2> HIDE DEF r
  <2>4. /\ RunsInv' /\ \A x \in Scalar : Covered(x)' <=> Covered(x) \/ InRange(x, r)
        /\ \A i \in DOMAIN ranges' : ranges'[i] = r \/ \E j \in DOMAIN ranges : ranges'[i] = ranges[j]
    BY <1>1, <1>3, <1>o, <2>2, <2>3, RunAppended
  <2>6. OpenInv'
    <3>1. ASSUME NEW i \in DOMAIN ranges' PROVE ranges'[i][2] < scalar'
      <4>1. CASE ranges'[i] = r
        BY <1>1, <1>2, <2>2, <4>1
      <4>2. CASE ranges'[i] # r
        <5>1. PICK j \in DOMAIN ranges : ranges'[i] = ranges[j]
          BY <2>4, <3>1, <4>2
        <5> QED
          BY <1>1, <1>2, <1>o, <1>r, <5>1
      <4> QED
        BY <4>1, <4>2
    <3>2. ASSUME NEW x \in Scalar, x < scalar' PROVE x \in included <=> Covered(x)'
      <4>1. x \in Nat /\ (x = scalar \/ x < scalar)
        BY <1>1, <1>2, <3>2
      <4>2. InRange(x, r) <=> start <= x /\ x < scalar
        BY <1>2, <2>2, <4>1 DEF InRange
      <4>3. CASE x = scalar
        <5>1. ~Covered(x)
          BY <1>2, <1>o, <1>r, <4>3 DEF Covered, InRange
        <5> QED
          BY <1>2, <1>3, <2>4, <4>2, <4>3, <5>1
      <4>4. CASE x < scalar
        BY <1>3, <1>o, <2>4, <4>2, <4>4
      <4> QED
        BY <4>1, <4>3, <4>4
    <3> QED
      BY <1>1, <1>2, <1>o, <2>1, <3>1, <3>2, ClassifierAssumption DEF OpenInv, Scalar
  <2> QED
    BY <2>4, <2>6, <1>6
<1>4. CASE ~(start # 0 /\ scalar \notin included)
  <2>1. /\ start' = IF scalar \in included THEN (IF start = 0 THEN scalar ELSE start) ELSE 0
        /\ ranges' = ranges
    BY <1>4 DEF Scan
  <2>2. RunsInv' /\ \A x : Covered(x)' <=> Covered(x)
    BY <1>1, <2>1, RunsStay
  <2>3. /\ start' \in Nat /\ (start' # 0 => start' \in FirstScalar .. scalar' - 1)
        /\ scalar' \in FirstScalar .. LastScalar + 1
    BY <1>1, <1>2, <1>o, <2>1 DEF Scalar
  <2>4. \A i \in DOMAIN ranges' : ranges'[i][2] < scalar' /\ (start' # 0 => ranges'[i][2] < start')
    BY <1>1, <1>2, <1>o, <1>r, <2>1
  <2>5. ASSUME NEW x \in Scalar, x < scalar' PROVE x \in included <=> Covered(x) \/ (start' # 0 /\ start' <= x)
    <3>1. x \in Nat /\ (x = scalar \/ x < scalar)
      BY <1>1, <1>2, <2>5
    <3>2. CASE x = scalar
      <4>1. ~Covered(x)
        BY <1>2, <1>o, <1>r, <3>2 DEF Covered, InRange
      <4>2. scalar \in included => start' # 0 /\ start' <= x
        BY <1>2, <1>o, <2>1, <3>2
      <4> QED
        BY <2>1, <3>2, <4>1, <4>2
    <3>3. CASE x < scalar
      BY <1>2, <1>4, <1>o, <2>1, <3>1, <3>3
    <3> QED
      BY <3>1, <3>2, <3>3
  <2>6. OpenInv'
    BY <1>1, <1>o, <2>2, <2>3, <2>4, <2>5 DEF OpenInv
  <2> QED
    BY <2>2, <2>6, <1>6
<1> QED
  BY <1>3, <1>4

LEMMA StepCloseRun == ClassifierParts /\ CloseRun => ClassifierParts'
<1> SUFFICES ASSUME ClassifierParts, CloseRun PROVE ClassifierParts'
  OBVIOUS
<1>1. /\ classifier_phase = "scan" /\ classifier_phase' = "emit" /\ scalar > LastScalar /\ ranges' = AllRanges
      /\ UNCHANGED << included, plane, entry, tables, value, low, high, found, step >>
  BY DEF CloseRun, emission, search
<1>2. scalar = LastScalar + 1 /\ start \in Nat /\ LastScalar \in Nat /\ FirstScalar \in Nat /\ Scalar \subseteq Nat
  BY <1>1, ClassifierAssumption DEF ClassifierParts, OpenInv, Scalar
<1>o. /\ start # 0 => start \in Scalar
      /\ \A i \in DOMAIN ranges : start # 0 => ranges[i][2] < start
      /\ \A x \in Scalar : x \in included <=> Covered(x) \/ (start # 0 /\ start <= x)
      /\ plane = 0 /\ entry = 1 /\ tables = [p \in Plane |-> << >>]
  BY <1>1, <1>2 DEF ClassifierParts, OpenInv, Scalar
<1>3. RunsInv' /\ \A x \in Scalar : x \in included <=> Covered(x)'
  <2>1. CASE start = 0
    <3>1. ranges' = ranges
      BY <1>1, <2>1 DEF AllRanges
    <3> QED
      BY <1>1, <1>o, <2>1, <3>1, RunsStay
  <2>2. CASE start # 0
    <3> DEFINE r == << start, LastScalar >>
    <3>1. r \in Scalar \X Scalar /\ r[1] = start /\ r[2] = LastScalar /\ r[1] <= r[2]
      BY <1>2, <1>o, <2>2 DEF Scalar
    <3>2. ranges' = Append(ranges, r)
      BY <1>1, <2>2 DEF AllRanges
    <3> HIDE DEF r
    <3>3. RunsInv' /\ \A x \in Scalar : Covered(x)' <=> Covered(x) \/ InRange(x, r)
      BY <1>1, <1>o, <2>2, <3>1, <3>2, RunAppended
    <3>4. \A x \in Scalar : InRange(x, r) <=> start <= x
      BY <1>2, <3>1 DEF InRange, Scalar
    <3> QED
      BY <1>o, <2>2, <3>3, <3>4
  <2> QED
    BY <2>1, <2>2
<1>4. OpenInv' /\ CoverInv'
  BY <1>1, <1>3 DEF OpenInv, CoverInv
<1>5. EntriesInv'
  BY <1>1, TablesStay
<1>6. PlaneInv'
  <2>1. plane \in Plane /\ tables'[plane] = << >> /\ Plane \subseteq Nat
    <3>1. LastScalar \div PlaneSize \in Nat
      BY ClassifierAssumption, DivFacts
    <3> QED
      BY <1>1, <1>o, <3>1 DEF Plane
  <2>2. entry' \in 1 .. Len(ranges') + 1
    BY <1>1, <1>3, <1>o DEF RunsInv
  <2>3. \A p \in Plane : (p > plane => tables'[p] = << >>) /\ ~(p < plane)
    BY <1>1, <1>o, <2>1
  <2>4. \A x : ~Holds(plane, x)' /\ \A i \in DOMAIN ranges' : ~(i < entry)
    BY <1>1, <1>3, <1>o, <2>1 DEF Holds, RunsInv
  <2> QED
    BY <1>1, <2>1, <2>2, <2>3, <2>4 DEF PlaneInv, Holds
<1>7. SearchInv'
  BY <1>1, Zenon DEF ClassifierParts, SearchInv
<1> QED
  BY <1>3, <1>4, <1>5, <1>6, <1>7 DEF ClassifierParts

LEMMA StepClipRange == ClassifierParts /\ ClipRange => ClassifierParts'
<1> SUFFICES ASSUME ClassifierParts, ClipRange PROVE ClassifierParts'
  OBVIOUS
<1> DEFINE r == ranges[entry]
           local == Clip(r, plane)
           n == Len(tables[plane])
<1>1. /\ classifier_phase = "emit" /\ classifier_phase' = "emit" /\ entry <= Len(ranges) /\ entry' = entry + 1
      /\ tables' = IF local[1] <= local[2] THEN [tables EXCEPT ![plane] = Append(@, Pack(local))] ELSE tables
      /\ UNCHANGED << included, plane, scalar, start, ranges, value, low, high, found, step >>
  BY DEF ClipRange, scan, search
<1>2. /\ plane \in Plane /\ plane \in Nat /\ entry \in DOMAIN ranges /\ entry \in Nat
      /\ Scalar \subseteq Nat /\ Plane \subseteq Nat
  <2>1. LastScalar \div PlaneSize \in Nat
    BY ClassifierAssumption, DivFacts
  <2>2. ranges \in Seq(Scalar \X Scalar) /\ plane \in Plane /\ entry \in 1 .. Len(ranges) + 1
    BY <1>1 DEF ClassifierParts, RunsInv, PlaneInv
  <2>3. Plane \subseteq Nat
    BY <2>1 DEF Plane
  <2> QED
    BY <1>1, <2>2, <2>3, ClassifierAssumption DEF Scalar
<1>p. /\ \A p \in Plane : p > plane => tables[p] = << >>
      /\ \A p \in Plane : p < plane => Finished(p)
      /\ \A x \in Scalar : InPlane(x, plane) =>
            (Holds(plane, x) <=> \E i \in DOMAIN ranges : i < entry /\ InRange(x, ranges[i]))
      /\ \A k \in DOMAIN tables[plane], i \in DOMAIN ranges :
            i >= entry => LastOf(tables[plane][k]) < ranges[i][1]
  BY <1>1 DEF ClassifierParts, PlaneInv
<1>r. \A i \in DOMAIN ranges : i \in Nat /\ ranges[i][1] \in Nat /\ ranges[i][2] \in Nat
                               /\ (i > entry => r[2] < ranges[i][1])
  BY <1>2, RunFacts DEF ClassifierParts, RunsInv
<1>3. /\ r \in Scalar \X Scalar /\ local = << local[1], local[2] >> /\ local[1] \in Nat /\ local[2] \in Nat
      /\ r[1] <= local[1] /\ local[2] <= r[2] /\ r[1] \in Nat /\ r[2] \in Nat /\ r[2] <= LastScalar
      /\ \A x \in Scalar : InPlane(x, plane) => (InRange(x, r) <=> InRange(x, local))
  BY <1>2, RunFacts, ClipFacts
<1> HIDE DEF local, r, n
<1>e. /\ tables \in [Plane -> Seq(0 .. Radix * Radix - 1)]
      /\ \A p \in Plane : \A k \in DOMAIN tables[p] : FirstOf(tables[p][k]) <= LastOf(tables[p][k])
      /\ \A p \in Plane : \A k, l \in DOMAIN tables[p] : k < l => LastOf(tables[p][k]) < FirstOf(tables[p][l])
  BY DEF ClassifierParts, EntriesInv
<1>4. RunsInv'
  BY <1>1, RunsStay
<1>5. OpenInv' /\ CoverInv'
  <2>1. \A x \in Scalar : x \in included <=> Covered(x)
    BY <1>1 DEF ClassifierParts, CoverInv
  <2>2. \A x : Covered(x)' <=> Covered(x)
    BY <1>1, RunsStay
  <2> QED
    BY <1>1, <2>1, <2>2 DEF OpenInv, CoverInv
<1>6. \A p \in Plane : p # plane => tables'[p] = tables[p]
  BY <1>1, <1>e
<1>7. /\ EntriesInv'
      /\ \A x \in Scalar : InPlane(x, plane) => (Holds(plane, x)' <=> Holds(plane, x) \/ InRange(x, r))
      /\ \A k \in DOMAIN tables'[plane], i \in DOMAIN ranges :
            i > entry => LastOf(tables'[plane][k]) < ranges[i][1]
  <2>1. CASE ~(local[1] <= local[2])
    <3>1. UNCHANGED tables
      BY <1>1, <2>1
    <3>2. EntriesInv' /\ \A x : Holds(plane, x)' <=> Holds(plane, x)
      BY <1>1, <3>1, TablesStay
    <3>3. \A x \in Scalar : ~InRange(x, local)
      BY <1>2, <1>3, <2>1 DEF InRange
    <3>4. \A k \in DOMAIN tables[plane], i \in DOMAIN ranges : i > entry => LastOf(tables[plane][k]) < ranges[i][1]
      <4>1. \A i \in DOMAIN ranges : i > entry => i >= entry
        BY <1>2, <1>r
      <4> QED
        BY <1>p, <4>1
    <3> QED
      BY <1>3, <3>1, <3>2, <3>3, <3>4
  <2>2. CASE local[1] <= local[2]
    <3> DEFINE e == Pack(local)
    <3>1. local[1] < Radix /\ local[2] < Radix
      BY <1>3, <2>2, ClassifierAssumption
    <3>2. FirstOf(e) = local[1] /\ LastOf(e) = local[2] /\ e \in 0 .. Radix * Radix - 1
      BY <1>3, <3>1, PackFacts
    <3> HIDE DEF e
    <3> DEFINE T == 0 .. Radix * Radix - 1
    <3>t. tables[plane] \in Seq(T) /\ tables'[plane] = Append(tables[plane], e) /\ e \in T
      BY <1>1, <1>2, <1>e, <2>2, <3>2 DEF e
    <3>T. tables \in [Plane -> Seq(T)]
      BY <1>e
    <3> HIDE DEF T
    <3>3. /\ n \in Nat /\ DOMAIN tables[plane] = 1 .. n /\ DOMAIN tables'[plane] = 1 .. n + 1
          /\ tables'[plane] \in Seq(T) /\ tables'[plane][n + 1] = e
          /\ \A k \in 1 .. n : tables'[plane][k] = tables[plane][k]
      BY <3>t DEF n
    <3>4. tables' \in [Plane -> Seq(T)]
      <4>1. tables' = [tables EXCEPT ![plane] = Append(tables[plane], e)] /\ Append(tables[plane], e) \in Seq(T)
        BY <1>1, <2>2, <3>3, <3>t DEF e
      <4> QED
        BY <1>2, <3>T, <4>1
    <3>i. \A k \in 1 .. n : tables[plane][k] \in T /\ LastOf(tables[plane][k]) \in Int /\ FirstOf(tables[plane][k]) \in Int
      <4>1. \A k \in T : k \in Nat
        BY ClassifierAssumption DEF T
      <4>2. Radix \in Nat \ {0}
        BY ClassifierAssumption
      <4>3. \A k \in 1 .. n : tables[plane][k] \in T
        BY <3>3, <3>t
      <4> QED
        BY <4>1, <4>2, <4>3, DivFacts DEF LastOf, FirstOf
    <3>5. ASSUME NEW p \in Plane, NEW k \in DOMAIN tables'[p] PROVE FirstOf(tables'[p][k]) <= LastOf(tables'[p][k])
      <4>1. CASE p # plane
        BY <1>6, <1>e, <3>5, <4>1
      <4>2. CASE p = plane /\ k = n + 1
        BY <2>2, <3>2, <3>3, <4>2
      <4>3. CASE p = plane /\ k # n + 1
        <5>1. k \in 1 .. n
          BY <3>3, <3>5, <4>3
        <5> QED
          BY <1>e, <3>3, <4>3, <5>1
      <4> QED
        BY <4>1, <4>2, <4>3
    <3>6. ASSUME NEW p \in Plane, NEW k \in DOMAIN tables'[p], NEW l \in DOMAIN tables'[p], k < l
          PROVE  LastOf(tables'[p][k]) < FirstOf(tables'[p][l])
      <4>1. CASE p # plane
        BY <1>6, <1>e, <3>6, <4>1
      <4>2. CASE p = plane
        <5>1. k \in 1 .. n /\ l \in 1 .. n + 1
          BY <3>3, <3>6, <4>2
        <5>2. CASE l = n + 1
          <6>1. k \in DOMAIN tables[plane] /\ entry >= entry
            BY <1>2, <3>3, <5>1
          <6>2. LastOf(tables[plane][k]) < ranges[entry][1]
            BY <1>2, <1>p, <6>1
          <6> QED
            BY <1>3, <3>2, <3>3, <3>i, <4>2, <5>1, <5>2, <6>2, SMTT(60) DEF r
        <5>3. CASE l # n + 1
          <6>1. l \in 1 .. n
            BY <3>3, <5>1, <5>3
          <6> QED
            BY <1>e, <3>3, <3>6, <4>2, <5>1, <6>1
        <5> QED
          BY <5>2, <5>3
      <4> QED
        BY <4>1, <4>2
    <3>7. EntriesInv'
      BY <1>1, <3>4, <3>5, <3>6 DEF EntriesInv, T
    <3>8. DOMAIN tables'[plane] = DOMAIN tables[plane] \union {n + 1}
          /\ \A k \in DOMAIN tables[plane] : tables'[plane][k] = tables[plane][k]
      BY <3>3
    <3>9. \A x \in Scalar : Holds(plane, x)' <=> Holds(plane, x) \/ InRange(x, local)
      BY <1>1, <3>2, <3>3, <3>8, SMTT(60) DEF Holds, InRange
    <3>10. ASSUME NEW k \in DOMAIN tables'[plane], NEW i \in DOMAIN ranges, i > entry
           PROVE  LastOf(tables'[plane][k]) < ranges[i][1]
      <4>1. CASE k = n + 1
        BY <1>3, <1>r, <3>2, <3>3, <3>10, <4>1
      <4>2. CASE k # n + 1
        <5>1. k \in DOMAIN tables[plane] /\ i >= entry
          BY <1>2, <1>r, <3>3, <3>10, <4>2
        <5> QED
          BY <1>p, <3>8, <5>1
      <4> QED
        BY <4>1, <4>2
    <3> QED
      BY <1>3, <3>7, <3>9, <3>10
  <2> QED
    BY <2>1, <2>2
<1>8. PlaneInv'
  <2>1. \A p \in Plane : p < plane => Finished(p)'
    <3>1. \A p \in Plane : p # plane => \A x : Holds(p, x)' <=> Holds(p, x)
      BY <1>6 DEF Holds
    <3>2. \A p \in Plane : p < plane => p # plane
      BY <1>2
    <3> QED
      BY <1>1, <1>6, <1>p, <3>1, <3>2 DEF Finished
  <2>2. entry' \in 1 .. Len(ranges') + 1
    BY <1>1, <1>2 DEF ClassifierParts, RunsInv
  <2>3. ASSUME NEW x \in Scalar, InPlane(x, plane)
        PROVE  Holds(plane, x)' <=> \E i \in DOMAIN ranges : i < entry' /\ InRange(x, ranges[i])
    <3>1. \A i \in DOMAIN ranges : i < entry' <=> (i < entry \/ i = entry)
      BY <1>1, <1>2, <1>r
    <3>2. Holds(plane, x)' <=> Holds(plane, x) \/ InRange(x, ranges[entry])
      BY <1>7, <2>3 DEF r
    <3> QED
      BY <1>2, <1>p, <2>3, <3>1, <3>2
  <2>4. \A k \in DOMAIN tables'[plane], i \in DOMAIN ranges : i >= entry' => LastOf(tables'[plane][k]) < ranges[i][1]
    <3>1. \A i \in DOMAIN ranges : i >= entry' => i > entry
      BY <1>1, <1>2, <1>r
    <3> QED
      BY <1>7, <3>1
  <2>5. \A p \in Plane : p > plane => tables'[p] = << >>
    <3>1. \A p \in Plane : p > plane => p # plane
      BY <1>2
    <3> QED
      BY <1>6, <1>p, <3>1
  <2> QED
    BY <1>1, <1>2, <2>1, <2>2, <2>3, <2>4, <2>5 DEF PlaneInv
<1>9. SearchInv'
  BY <1>1, Zenon DEF ClassifierParts, SearchInv
<1> QED
  BY <1>4, <1>5, <1>7, <1>8, <1>9 DEF ClassifierParts

LEMMA StepEndPlane == ClassifierParts /\ EndPlane => ClassifierParts'
<1> SUFFICES ASSUME ClassifierParts, EndPlane PROVE ClassifierParts'
  OBVIOUS
<1>1. /\ classifier_phase = "emit" /\ entry > Len(ranges) /\ Len(tables[plane]) <= TableLimit
      /\ entry' = 1 /\ plane' = plane + 1
      /\ classifier_phase' = IF plane + 1 \in Plane THEN "emit" ELSE "ready"
      /\ UNCHANGED << included, tables, scalar, start, ranges, value, low, high, found, step >>
  BY DEF EndPlane, scan, search
<1>2. RunsInv' /\ \A x : Covered(x)' <=> Covered(x)
  BY <1>1, RunsStay
<1>3. /\ EntriesInv' /\ (\A p, x : Holds(p, x)' <=> Holds(p, x)) /\ \A p : Finished(p)' <=> Finished(p)
  BY <1>1, TablesStay
<1>4. /\ plane \in Plane /\ entry \in Nat /\ ranges \in Seq(Scalar \X Scalar)
      /\ \A p \in Plane : p > plane => tables[p] = << >>
      /\ \A p \in Plane : p < plane => Finished(p)
      /\ \A x \in Scalar : InPlane(x, plane) =>
            (Holds(plane, x) <=> \E i \in DOMAIN ranges : i < entry /\ InRange(x, ranges[i]))
  BY <1>1 DEF ClassifierParts, PlaneInv, RunsInv
<1>5. \A x \in Scalar : x \in included <=> Covered(x)
  BY <1>1 DEF ClassifierParts, CoverInv
<1>6. \E q \in Nat : Plane = 0 .. q
  BY ClassifierAssumption, DivFacts DEF Plane
<1>7. Finished(plane)
  <2>1. \A i \in DOMAIN ranges : i < entry
    BY <1>1, <1>4
  <2>2. \A x \in Scalar : InPlane(x, plane) => (Holds(plane, x) <=> Covered(x))
    BY <1>4, <2>1 DEF Covered
  <2> QED
    BY <1>1, <1>5, <2>2 DEF Finished
<1>8. \A p \in Plane : p < plane + 1 => Finished(p)
  <2>1. \A p \in Plane : p < plane + 1 => p < plane \/ p = plane
    BY <1>4, <1>6
  <2> QED
    BY <1>4, <1>7, <2>1
<1>9. OpenInv' /\ CoverInv'
  BY <1>1, <1>2, <1>5 DEF OpenInv, CoverInv
<1>10. PlaneInv'
  <2>1. CASE plane + 1 \in Plane
    <3>1. classifier_phase' = "emit" /\ tables'[plane + 1] = << >>
      BY <1>1, <1>4, <1>6, <2>1
    <3>2. entry' \in 1 .. Len(ranges') + 1
      BY <1>1, <1>4
    <3>3. \A p \in Plane : (p > plane' => tables'[p] = << >>) /\ (p < plane' => Finished(p)')
      <4>1. \A p \in Plane : p > plane + 1 => p > plane
        BY <1>4, <1>6
      <4> QED
        BY <1>1, <1>3, <1>4, <1>8, <4>1
    <3>4. \A x : ~Holds(plane, x)' /\ \A i \in DOMAIN ranges' : ~(i < entry')
      BY <1>1, <1>4, <3>1 DEF Holds
    <3> QED
      BY <1>1, <2>1, <3>1, <3>2, <3>3, <3>4 DEF PlaneInv, Holds
  <2>2. CASE plane + 1 \notin Plane
    <3>1. \A p \in Plane : p < plane + 1
      BY <1>4, <1>6, <2>2
    <3> QED
      BY <1>1, <1>3, <1>8, <2>2, <3>1 DEF PlaneInv
  <2> QED
    BY <2>1, <2>2
<1>11. SearchInv'
  BY <1>1, Zenon DEF ClassifierParts, SearchInv
<1> QED
  BY <1>2, <1>3, <1>9, <1>10, <1>11 DEF ClassifierParts

LEMMA StepRefuse == ClassifierParts /\ Refuse => ClassifierParts'
<1> SUFFICES ASSUME ClassifierParts, Refuse PROVE ClassifierParts'
  OBVIOUS
<1>1. /\ classifier_phase = "emit" /\ classifier_phase' = "refused"
      /\ UNCHANGED << included, plane, entry, tables, scalar, start, ranges, value, low, high, found, step >>
  BY DEF Refuse, scan, search, emission
<1>2. RunsInv' /\ \A x : Covered(x)' <=> Covered(x)
  BY <1>1, RunsStay
<1>3. EntriesInv'
  BY <1>1, TablesStay
<1>4. OpenInv' /\ CoverInv' /\ PlaneInv'
  BY <1>1, <1>2 DEF ClassifierParts, OpenInv, CoverInv, PlaneInv
<1>5. SearchInv'
  BY <1>1, Zenon DEF ClassifierParts, SearchInv
<1> QED
  BY <1>2, <1>3, <1>4, <1>5 DEF ClassifierParts

\* What a lookup leaves as it was.
LEMMA LookupKeeps ==
    ASSUME ClassifierParts, classifier_phase \in {"ready", "search"}, classifier_phase' \in {"search", "answered"},
           UNCHANGED << included, plane, entry, tables, scalar, start, ranges >>, SearchInv'
    PROVE  ClassifierParts'
<1>1. RunsInv' /\ \A x : Covered(x)' <=> Covered(x)
  BY RunsStay
<1>2. EntriesInv' /\ \A p : Finished(p)' <=> Finished(p)
  BY TablesStay
<1>3. OpenInv' /\ CoverInv' /\ PlaneInv'
  BY <1>1, <1>2 DEF ClassifierParts, OpenInv, CoverInv, PlaneInv
<1> QED
  BY <1>1, <1>2, <1>3 DEF ClassifierParts

\* What the search narrows down to: the sequence the assumption names.
LEMMA WidthFacts ==
    /\ Width \in [0 .. SearchSteps -> 0 .. TableLimit] /\ Width[0] = 0 /\ Width[SearchSteps] = TableLimit
    /\ \A k \in 0 .. SearchSteps - 1 : Width[k + 1] <= 2 * Width[k] + 1
BY SearchAssumption DEF Width

\* The table of a scalar holds it exactly if the property does; positions and ends are numbers.
LEMMA TableFacts ==
    ASSUME ClassifierParts, classifier_phase \in {"ready", "search"}, NEW v \in Scalar
    PROVE  /\ Len(Table(v)) \in Nat /\ DOMAIN Table(v) = 1 .. Len(Table(v)) /\ Len(Table(v)) <= TableLimit
           /\ v \in included <=> \E k \in DOMAIN Table(v) : FirstOf(Table(v)[k]) <= v /\ v <= LastOf(Table(v)[k])
           /\ \A k \in DOMAIN Table(v) :
                 /\ FirstOf(Table(v)[k]) \in Nat /\ LastOf(Table(v)[k]) \in Nat
                 /\ FirstOf(Table(v)[k]) <= LastOf(Table(v)[k])
                 /\ \A l \in DOMAIN Table(v) : k < l => LastOf(Table(v)[k]) < FirstOf(Table(v)[l])
<1> DEFINE p == v \div PlaneSize
           T == 0 .. Radix * Radix - 1
<1>1. p \in Plane /\ InPlane(v, p)
  BY PlaneOf
<1>2. Table(v) = tables[p]
  BY DEF Table
<1>3. \A e \in T : FirstOf(e) \in Nat /\ LastOf(e) \in Nat
  <2>1. Radix \in Nat \ {0} /\ T \subseteq Nat
    BY ClassifierAssumption
  <2> HIDE DEF T
  <2> SUFFICES ASSUME NEW e \in T PROVE FirstOf(e) \in Nat /\ LastOf(e) \in Nat
    OBVIOUS
  <2>2. e \in Nat /\ e \div Radix \in Nat /\ e % Radix \in 0 .. Radix - 1
    BY <2>1, DivFacts
  <2> QED
    BY <2>1, <2>2 DEF FirstOf, LastOf
<1>4. tables \in [Plane -> Seq(T)]
  BY DEF ClassifierParts, EntriesInv
<1> HIDE DEF p, T
<1>5. tables[p] \in Seq(T)
  BY <1>1, <1>4
<1>6. \A k \in DOMAIN tables[p] : tables[p][k] \in T
  BY <1>5
<1>7. Finished(p)
  BY <1>1 DEF ClassifierParts, PlaneInv
<1>8. \A k \in DOMAIN tables[p] :
        /\ FirstOf(tables[p][k]) <= LastOf(tables[p][k])
        /\ \A l \in DOMAIN tables[p] : k < l => LastOf(tables[p][k]) < FirstOf(tables[p][l])
  BY <1>1 DEF ClassifierParts, EntriesInv
<1>9. v \in included <=> \E k \in DOMAIN tables[p] : FirstOf(tables[p][k]) <= v /\ v <= LastOf(tables[p][k])
  BY <1>1, <1>7 DEF Finished, Holds
<1>10. Len(tables[p]) \in Nat /\ DOMAIN tables[p] = 1 .. Len(tables[p]) /\ Len(tables[p]) <= TableLimit
  BY <1>5, <1>7 DEF Finished
<1>11. \A k \in DOMAIN tables[p] : FirstOf(tables[p][k]) \in Nat /\ LastOf(tables[p][k]) \in Nat
  BY <1>3, <1>6
<1> QED
  BY <1>2, <1>8, <1>9, <1>10, <1>11

LEMMA StepLookup == ASSUME NEW v \in 0 .. LastScalar + 1 PROVE ClassifierParts /\ Lookup(v) => ClassifierParts'
<1> SUFFICES ASSUME ClassifierParts, Lookup(v) PROVE ClassifierParts'
  OBVIOUS
<1>1. /\ classifier_phase = "ready" /\ value' = v /\ found' = FALSE /\ step' = 0 /\ low' = 0
      /\ UNCHANGED << included, plane, entry, tables, scalar, start, ranges >>
  BY DEF Lookup, emission, scan
<1>2. LastScalar \in Nat /\ FirstScalar \in Nat /\ SearchSteps \in Nat /\ TableLimit \in Nat
  BY ClassifierAssumption
<1>3. Outside(v) => v \notin included
  BY <1>2 DEF ClassifierParts, RunsInv, Outside, Scalar
<1>4. ~Outside(v) => v \in Scalar
  BY <1>2 DEF Outside, Scalar
<1>5. Table(value)' = Table(v)
  BY <1>1 DEF Table
<1>6. found' \in BOOLEAN
  BY <1>1
<1>7. CASE Outside(v) \/ Table(v) = << >>
  <2>1. classifier_phase' = "answered" /\ high' = 0
    BY <1>7 DEF Lookup
  <2>2. v \notin included
    <3>1. CASE Outside(v)
      BY <1>3, <3>1
    <3>2. CASE ~Outside(v)
      <4>1. v \in included <=> \E k \in DOMAIN Table(v) : FirstOf(Table(v)[k]) <= v /\ v <= LastOf(Table(v)[k])
        BY <1>1, <1>4, <3>2, TableFacts
      <4>2. DOMAIN Table(v) = {}
        BY <1>7, <3>2
      <4> QED
        BY <4>1, <4>2
    <3> QED
      BY <3>1, <3>2
  <2>3. SearchInv'
    BY <1>1, <1>2, <1>6, <2>1, <2>2 DEF SearchInv
  <2> QED
    BY <1>1, <2>1, <2>3, LookupKeeps
<1>8. CASE ~(Outside(v) \/ Table(v) = << >>)
  <2>1. classifier_phase' = "search" /\ high' = Len(Table(v)) /\ v \in Scalar
    BY <1>4, <1>8 DEF Lookup
  <2>2. Len(Table(v)) \in Nat /\ DOMAIN Table(v) = 1 .. Len(Table(v)) /\ Len(Table(v)) <= TableLimit
    BY <1>1, <2>1, TableFacts
  <2>3. Narrowed'
    <3>1. Width[SearchSteps - 0] = TableLimit
      BY <1>2, WidthFacts
    <3>2. \A k \in DOMAIN Table(v) : ~(k <= 0) /\ ~(k > Len(Table(v)))
      BY <2>2
    <3> QED
      BY <1>1, <1>5, <2>1, <2>2, <3>1, <3>2 DEF Narrowed
  <2>4. SearchInv'
    BY <1>1, <1>2, <1>5, <1>6, <2>1, <2>2, <2>3 DEF SearchInv
  <2> QED
    BY <1>1, <2>1, <2>4, LookupKeeps
<1> QED
  BY <1>7, <1>8

LEMMA StepStep == ClassifierParts /\ Step => ClassifierParts'
<1> SUFFICES ASSUME ClassifierParts, Step PROVE ClassifierParts'
  OBVIOUS
<1> DEFINE active == low < high /\ ~found
           midpoint == IF active THEN (low + high) \div 2 ELSE 0
           T == Table(value)
           begins == FirstOf(T[midpoint + 1])
           ends == LastOf(T[midpoint + 1])
<1>1. /\ classifier_phase = "search" /\ classifier_phase' = "search" /\ step < SearchSteps /\ step' = step + 1
      /\ high' = IF active /\ value < begins THEN midpoint ELSE high
      /\ low' = IF active /\ value >= begins /\ value > ends THEN midpoint + 1 ELSE low
      /\ found' = (found \/ (active /\ value >= begins /\ value <= ends))
      /\ UNCHANGED << included, plane, entry, tables, scalar, start, ranges, value >>
  BY DEF Step, emission, scan, FirstOf, LastOf
<1>2. /\ low \in Nat /\ high \in Nat /\ high <= TableLimit /\ step \in Nat /\ step \in 0 .. SearchSteps
      /\ SearchSteps \in Nat /\ TableLimit \in Nat
      /\ value \in Scalar /\ value \in Nat /\ low <= high /\ high <= Len(T)
  BY <1>1, ClassifierAssumption DEF ClassifierParts, SearchInv, Scalar
<1>3. found \in BOOLEAN /\ (found => value \in included) /\ (~found => Narrowed)
  BY <1>1, Zenon DEF ClassifierParts, SearchInv
<1>4. /\ Len(T) \in Nat /\ DOMAIN T = 1 .. Len(T)
      /\ value \in included <=> \E k \in DOMAIN T : FirstOf(T[k]) <= value /\ value <= LastOf(T[k])
      /\ \A k \in DOMAIN T :
            /\ FirstOf(T[k]) \in Nat /\ LastOf(T[k]) \in Nat /\ FirstOf(T[k]) <= LastOf(T[k])
            /\ \A l \in DOMAIN T : k < l => LastOf(T[k]) < FirstOf(T[l])
  BY <1>1, <1>2, TableFacts
<1>5. Table(value)' = T
  BY <1>1 DEF Table
<1>6. found' \in BOOLEAN
  BY <1>1, <1>3, Zenon
<1> HIDE DEF T
<1>w. /\ SearchSteps - step \in 1 .. SearchSteps /\ SearchSteps - (step + 1) \in 0 .. SearchSteps - 1
      /\ SearchSteps - (step + 1) + 1 = SearchSteps - step
  BY <1>1, <1>2
<1>x. /\ Width[SearchSteps - step] \in Nat /\ Width[SearchSteps - (step + 1)] \in Nat
      /\ Width[SearchSteps - step] <= 2 * Width[SearchSteps - (step + 1)] + 1
  BY <1>2, <1>w, WidthFacts
<1>7. CASE ~active
  <2>1. high' = high /\ low' = low /\ (found' <=> found)
    BY <1>1, <1>7
  <2>2. ~found => high - low = 0
    BY <1>2, <1>7
  <2>3. ~found' => Narrowed'
    BY <1>1, <1>2, <1>3, <1>5, <1>x, <2>1, <2>2 DEF Narrowed, T
  <2>4. found' => value' \in included'
    BY <1>1, <1>3, <2>1
  <2>5. SearchInv'
    BY <1>1, <1>2, <1>5, <1>6, <2>1, <2>3, <2>4 DEF SearchInv
  <2> QED
    BY <1>1, <2>5, LookupKeeps
<1>8. CASE active
  <2>1. midpoint = (low + high) \div 2 /\ low < high /\ ~found
    BY <1>8
  <2>2. midpoint \in Nat /\ low <= midpoint /\ midpoint < high /\ 2 * midpoint <= low + high /\ low + high <= 2 * midpoint + 1
    BY <1>2, <2>1
  <2>3. midpoint + 1 \in DOMAIN T
    BY <1>2, <1>4, <2>2
  <2> HIDE DEF midpoint
  <2>4. begins \in Nat /\ ends \in Nat /\ begins <= ends
    BY <1>4, <2>3
  <2>5. /\ \A k \in DOMAIN T : (k <= low => LastOf(T[k]) < value) /\ (k > high => value < FirstOf(T[k]))
        /\ high - low <= Width[SearchSteps - step]
    BY <1>3, <2>1 DEF Narrowed, T
  <2>6. low' <= high' /\ low' \in 0 .. TableLimit /\ high' \in 0 .. TableLimit /\ high' <= Len(T)
    BY <1>1, <1>2, <1>8, <2>2, <2>4
  <2>7. found' => value \in included
    BY <1>1, <1>4, <2>1, <2>3
  <2>8. ~found' => Narrowed'
    <3> SUFFICES ASSUME ~found' PROVE Narrowed'
      OBVIOUS
    <3>1. CASE value < begins
      <4>1. high' = midpoint /\ low' = low
        BY <1>1, <1>2, <1>8, <2>4, <3>1
      <4>2. midpoint - low <= Width[SearchSteps - (step + 1)]
        BY <1>2, <1>x, <2>2, <2>5
      <4>3. ASSUME NEW k \in DOMAIN T, k > midpoint PROVE value < FirstOf(T[k])
        <5>1. CASE k = midpoint + 1
          BY <3>1, <5>1
        <5>2. CASE k # midpoint + 1
          <6>1. midpoint + 1 < k
            BY <1>4, <2>2, <4>3, <5>2
          <6>2. ends < FirstOf(T[k]) /\ FirstOf(T[k]) \in Nat
            BY <1>4, <2>3, <4>3, <6>1
          <6> QED
            BY <1>2, <2>4, <3>1, <6>2
        <5> QED
          BY <5>1, <5>2
      <4> QED
        BY <1>1, <1>5, <2>5, <4>1, <4>2, <4>3 DEF Narrowed
    <3>2. CASE ~(value < begins)
      <4>0. ~(active /\ value >= begins /\ value <= ends)
        BY <1>1, Zenon
      <4>1. value > ends
        BY <1>2, <1>8, <2>4, <3>2, <4>0
      <4>2. high' = high /\ low' = midpoint + 1
        BY <1>1, <1>2, <1>8, <2>4, <3>2, <4>1
      <4>3. high - (midpoint + 1) <= Width[SearchSteps - (step + 1)]
        BY <1>2, <1>x, <2>2, <2>5
      <4>4. ASSUME NEW k \in DOMAIN T, k <= midpoint + 1 PROVE LastOf(T[k]) < value
        <5>1. CASE k = midpoint + 1
          BY <1>2, <2>4, <4>1, <5>1
        <5>2. CASE k # midpoint + 1
          <6>1. k < midpoint + 1
            BY <1>4, <2>2, <4>4, <5>2
          <6>2. LastOf(T[k]) < begins /\ LastOf(T[k]) \in Nat
            BY <1>4, <2>3, <4>4, <6>1
          <6> QED
            BY <1>2, <2>4, <3>2, <6>2
        <5> QED
          BY <5>1, <5>2
      <4> QED
        BY <1>1, <1>5, <2>5, <4>2, <4>3, <4>4 DEF Narrowed
    <3> QED
      BY <3>1, <3>2
  <2>9. SearchInv'
    BY <1>1, <1>2, <1>5, <1>6, <2>6, <2>7, <2>8 DEF SearchInv
  <2> QED
    BY <1>1, <2>9, LookupKeeps
<1> QED
  BY <1>7, <1>8

LEMMA StepAnswer == ClassifierParts /\ Answer => ClassifierParts'
<1> SUFFICES ASSUME ClassifierParts, Answer PROVE ClassifierParts'
  OBVIOUS
<1>1. /\ classifier_phase = "search" /\ classifier_phase' = "answered" /\ step = SearchSteps
      /\ UNCHANGED << included, plane, entry, tables, scalar, start, ranges, value, low, high, found, step >>
  BY DEF Answer, emission, scan, search
<1>2. /\ low \in Nat /\ high \in Nat /\ value \in Scalar /\ value \in Nat /\ low <= high
  BY <1>1, ClassifierAssumption DEF ClassifierParts, SearchInv, Scalar
<1>3. found \in BOOLEAN /\ (found => value \in included) /\ (~found => Narrowed)
  BY <1>1, Zenon DEF ClassifierParts, SearchInv
<1>4. ASSUME ~found PROVE value \notin included
  <2> DEFINE T == Table(value)
  <2>1. /\ Len(T) \in Nat /\ DOMAIN T = 1 .. Len(T)
        /\ value \in included <=> \E k \in DOMAIN T : FirstOf(T[k]) <= value /\ value <= LastOf(T[k])
        /\ \A k \in DOMAIN T : FirstOf(T[k]) \in Nat /\ LastOf(T[k]) \in Nat
    BY <1>1, <1>2, TableFacts
  <2>2. SearchSteps - step = 0 /\ Width[0] = 0
    BY <1>1, ClassifierAssumption, WidthFacts
  <2>3. /\ \A k \in DOMAIN T : (k <= low => LastOf(T[k]) < value) /\ (k > high => value < FirstOf(T[k]))
        /\ high - low <= 0
    BY <1>3, <1>4, <2>2 DEF Narrowed
  <2> HIDE DEF T
  <2>4. \A k \in DOMAIN T : k <= low \/ k > high
    BY <1>2, <2>1, <2>3
  <2> QED
    BY <1>2, <2>1, <2>3, <2>4
<1>5. found' <=> value' \in included'
  BY <1>1, <1>3, <1>4
<1>6. found' \in BOOLEAN
  BY <1>1, <1>3, Zenon
<1>7. SearchInv'
  BY <1>1, <1>5, <1>6 DEF ClassifierParts, SearchInv
<1> QED
  BY <1>1, <1>7, LookupKeeps

\* The invariant's parts are what the run checks.
LEMMA ClassifierConclusion == ClassifierParts => ClassifierTypeOK /\ TablesAreSorted /\ ClassifiesExactly
<1> SUFFICES ASSUME ClassifierParts PROVE ClassifierTypeOK /\ TablesAreSorted /\ ClassifiesExactly
  OBVIOUS
<1>1. ClassifiesExactly
  BY DEF ClassifierParts, SearchInv, ClassifiesExactly
<1>2. TablesAreSorted
  <2> SUFFICES ASSUME NEW p \in Plane, NEW i \in 1 .. Len(tables[p]) - 1
               PROVE  LastOf(tables[p][i]) < FirstOf(tables[p][i + 1])
    BY DEF TablesAreSorted, LastOf, FirstOf
  <2>1. tables[p] \in Seq(0 .. Radix * Radix - 1)
    BY DEF ClassifierParts, EntriesInv
  <2>2. i \in DOMAIN tables[p] /\ i + 1 \in DOMAIN tables[p] /\ i < i + 1
    BY <2>1
  <2> QED
    BY <2>2 DEF ClassifierParts, EntriesInv
<1>3. \A p \in Plane : \A i \in DOMAIN tables[p] : tables[p][i] \in 0 .. Radix * Radix - 1
  <2> DEFINE T == 0 .. Radix * Radix - 1
  <2>1. tables \in [Plane -> Seq(T)]
    BY DEF ClassifierParts, EntriesInv
  <2> HIDE DEF T
  <2>2. \A p \in Plane : \A i \in DOMAIN tables[p] : tables[p][i] \in T
    BY <2>1
  <2> QED
    BY <2>2 DEF T
<1>4. classifier_phase \in {"ready", "search", "answered"} => \A p \in Plane : Len(tables[p]) <= TableLimit
  BY DEF ClassifierParts, PlaneInv, Finished
<1>5. /\ included \subseteq Scalar
      /\ low \in 0 .. TableLimit /\ high \in 0 .. TableLimit /\ step \in 0 .. SearchSteps
  BY DEF ClassifierParts, RunsInv, SearchInv
<1> QED
  BY <1>1, <1>2, <1>3, <1>4, <1>5 DEF ClassifierTypeOK

(***************************************************************************)
(* property_ranges, emit_property and the lookup they write, for any       *)
(* property, planes and radix: the tables are in order and fit, and the    *)
(* search answers as the predicate does for every value, provided its      *)
(* steps are enough for a full table.                                      *)
(***************************************************************************)
THEOREM ClassifierExact == Spec => []TablesClassify
<1> DEFINE I == native = "classifier" => ClassifierParts
<1>1. Init => I
  BY ClassifierStart DEF Init
<1>2. I /\ [Next]_<< native, resolutionVars, closureVars, locationVars, classifierVars >> => I'
  <2> SUFFICES ASSUME I, native' = "classifier",
                      [Next]_<< native, resolutionVars, closureVars, locationVars, classifierVars >>
               PROVE  ClassifierParts'
    OBVIOUS
  <2>1. CASE Next
    <3>1. native = "classifier" /\ ClassifierNext
      BY <2>1 DEF Next
    <3>2. ClassifierParts
      BY <3>1
    <3> QED
      BY <3>1, <3>2, StepScan, StepCloseRun, StepClipRange, StepEndPlane, StepRefuse, StepLookup, StepStep, StepAnswer
      DEF ClassifierNext
  <2>2. CASE UNCHANGED << native, resolutionVars, closureVars, locationVars, classifierVars >>
    <3>1. /\ ClassifierParts
          /\ UNCHANGED << included, classifier_phase, scalar, start, ranges, plane, entry, tables, value, low, high, found, step >>
      BY <2>2 DEF classifierVars
    <3>2. RunsInv' /\ \A x : Covered(x)' <=> Covered(x)
      BY <3>1, RunsStay
    <3>3. EntriesInv' /\ (\A p, x : Holds(p, x)' <=> Holds(p, x)) /\ \A p : Finished(p)' <=> Finished(p)
      BY <3>1, TablesStay DEF ClassifierParts, EntriesInv
    <3>4. OpenInv' /\ CoverInv'
      BY <3>1, <3>2 DEF ClassifierParts, OpenInv, CoverInv
    <3>5. PlaneInv'
      BY <3>1, <3>3, Zenon DEF ClassifierParts, PlaneInv, Holds
    <3>6. SearchInv'
      BY <3>1, Zenon DEF ClassifierParts, SearchInv, Narrowed, Table
    <3> QED
      BY <3>2, <3>3, <3>4, <3>5, <3>6 DEF ClassifierParts
  <2> QED
    BY <2>1, <2>2
<1>3. I => TablesClassify
  BY ClassifierConclusion DEF TablesClassify
<1> QED
  BY <1>1, <1>2, <1>3, PTL DEF Spec

----------------------------------------------------------------------------
(* The locations of diagnostics.                                           *)

Place == [line : Nat, col : Nat]
DiagnosticSpan == [has_span : BOOLEAN, source : Nat, start : Nat, end : Nat]
LegKind == {"to_start", "to_end", "prefix", "span"}
WalkRecord ==
    [leg : LegKind, d : DiagnosticSpan, from : Nat, to : Nat, page : Nat, byte : Nat,
     at : Place, start : Place, found : BOOLEAN]

\* What is given stays: texts, the stride of their pages and which sources are whole.
GivenInv ==
    /\ text \in [LocatedSource -> Seq(Byte)] /\ stride \in Nat \ {0}
    /\ shape \in [LocatedSource -> {"good", "slice", "pages"}]

CursorInv ==
    /\ cursor \in [has_source : BOOLEAN, source : LocatedSource, pages_valid : BOOLEAN, cursor_valid : BOOLEAN,
                   offset : Nat, position : Place]
    /\ cursor.offset <= Len(text[cursor.source])
    /\ cursor.cursor_valid => cursor.has_source /\ cursor.pages_valid

\* The offset a walk has come to, while it has pages ahead.
Offset(w) == w.page * stride + w.byte
Ahead(w) == w.page < ScannedPages(w.d.source, w.to)

\* The walk serves a span of a whole source, between the ends its kind says.
LegInv(w) ==
    /\ w.d.has_span /\ w.d.source \in LocatedSource /\ shape[w.d.source] = "good"
    /\ w.d.start <= w.d.end /\ w.d.end <= Len(text[w.d.source])
    /\ w.from <= w.to
    /\ w.to = IF w.leg = "to_start" THEN w.d.start ELSE w.d.end
    /\ w.leg \in {"prefix", "span"} => w.from = 0
    /\ w.leg = "prefix" => w.d.start = 0 \/ w.d.start = w.d.end
    /\ w.leg = "span" => 0 < w.d.start /\ w.d.start < w.d.end

\* Its position belongs to its offset, and the start is marked once it is passed.
ProgressInv(w) ==
    /\ w.page <= ScannedPages(w.d.source, w.to)
    /\ Ahead(w) => /\ w.from <= Offset(w) /\ Offset(w) <= w.to /\ Offset(w) <= (w.page + 1) * stride
                   /\ w.at = Position(w.d.source, Offset(w))
    /\ ~Ahead(w) => w.at = Position(w.d.source, w.to)

MarkInv(w) ==
    /\ w.leg = "to_end" => w.found
    /\ w.leg \in {"to_start", "prefix"} => ~w.found
    /\ w.leg = "span" => (w.found <=> (Ahead(w) => Offset(w) > w.d.start))
    /\ w.found => w.start = Position(w.d.source, w.d.start)

WalkInv ==
    walk # << >> => /\ walk = << walk[1] >> /\ walk[1] \in WalkRecord
                    /\ LegInv(walk[1]) /\ ProgressInv(walk[1]) /\ MarkInv(walk[1])
                    /\ last = << >>

LocationInv == GivenInv /\ CursorInv /\ WalkInv /\ LocationsAreExact /\ CursorIsTrue

\* Counting from the start of a source: at its first byte, and one byte further.
LEMMA PositionZero ==
    ASSUME NEW s PROVE Position(s, 0) = Initial
<1>1. {i \in 1 .. 0 : text[s][i] = "newline"} = {}
  OBVIOUS
<1>2. {i \in 1 .. 0 : text[s][i] = "other" /\ \A j \in {k \in 1 .. 0 : text[s][k] = "newline"} : j < i} = {}
  OBVIOUS
<1> QED
  BY <1>1, <1>2, FS_EmptySet DEF Position, Initial

Newlines(s, n) == {i \in 1 .. n : text[s][i] = "newline"}
Columns(s, n) == {i \in 1 .. n : text[s][i] = "other" /\ \A j \in Newlines(s, n) : j < i}

LEMMA PositionIs ==
    ASSUME NEW s, NEW n \in Nat
    PROVE  /\ Position(s, n) = [line |-> 1 + Cardinality(Newlines(s, n)), col |-> 1 + Cardinality(Columns(s, n))]
           /\ IsFiniteSet(Newlines(s, n)) /\ IsFiniteSet(Columns(s, n))
           /\ Cardinality(Newlines(s, n)) \in Nat /\ Cardinality(Columns(s, n)) \in Nat
           /\ Position(s, n) \in Place
<1>1. IsFiniteSet(1 .. n)
  BY FS_Interval
<1>2. IsFiniteSet(Newlines(s, n)) /\ IsFiniteSet(Columns(s, n))
  BY <1>1, FS_Subset DEF Newlines, Columns
<1>3. Cardinality(Newlines(s, n)) \in Nat /\ Cardinality(Columns(s, n)) \in Nat
  BY <1>2, FS_CardinalityType
<1>4. Position(s, n) = [line |-> 1 + Cardinality(Newlines(s, n)), col |-> 1 + Cardinality(Columns(s, n))]
  BY DEF Position, Newlines, Columns
<1>5. Position(s, n) \in Place
  BY <1>3, <1>4 DEF Place
<1> QED
  BY <1>2, <1>3, <1>4, <1>5

LEMMA PositionStep ==
    ASSUME GivenInv, NEW s \in LocatedSource, NEW n \in Nat, n < Len(text[s])
    PROVE  Position(s, n + 1) = AdvanceByte(Position(s, n), text[s][n + 1])
<1> DEFINE b == text[s][n + 1]
<1>1. b \in Byte
  BY DEF GivenInv
<1>2. /\ n + 1 \in Nat /\ n + 1 \notin Newlines(s, n) /\ n + 1 \notin Columns(s, n)
      /\ 1 .. n + 1 = (1 .. n) \union {n + 1}
  BY DEF Newlines, Columns
<1>3. /\ IsFiniteSet(Newlines(s, n)) /\ IsFiniteSet(Columns(s, n))
      /\ Cardinality(Newlines(s, n)) \in Nat /\ Cardinality(Columns(s, n)) \in Nat
      /\ Position(s, n) = [line |-> 1 + Cardinality(Newlines(s, n)), col |-> 1 + Cardinality(Columns(s, n))]
      /\ Position(s, n + 1) = [line |-> 1 + Cardinality(Newlines(s, n + 1)), col |-> 1 + Cardinality(Columns(s, n + 1))]
  BY PositionIs, <1>2
<1>4. CASE b = "newline"
  <2>1. Newlines(s, n + 1) = Newlines(s, n) \union {n + 1}
    BY <1>2, <1>4 DEF Newlines
  <2>2. Columns(s, n + 1) = {}
    <3> SUFFICES ASSUME NEW i \in Columns(s, n + 1) PROVE FALSE
      OBVIOUS
    <3>1. i \in 1 .. n + 1 /\ n + 1 < i
      BY <2>1 DEF Columns
    <3> QED
      BY <3>1
  <2>3. Cardinality(Newlines(s, n + 1)) = Cardinality(Newlines(s, n)) + 1
    BY <2>1, <1>2, <1>3, FS_AddElement
  <2>c. Cardinality(Columns(s, n + 1)) = 0
    BY <2>2, FS_EmptySet
  <2>4. AdvanceByte(Position(s, n), b) = [line |-> Position(s, n).line + 1, col |-> 1]
    BY <1>4 DEF AdvanceByte
  <2> QED
    BY <2>3, <2>c, <2>4, <1>3
<1>5. CASE b = "continuation"
  <2>1. Newlines(s, n + 1) = Newlines(s, n)
    BY <1>2, <1>5 DEF Newlines
  <2>2. Columns(s, n + 1) = Columns(s, n)
    BY <2>1, <1>2, <1>5 DEF Columns
  <2>3. AdvanceByte(Position(s, n), b) = Position(s, n)
    BY <1>5 DEF AdvanceByte
  <2> QED
    BY <2>1, <2>2, <2>3, <1>3
<1>6. CASE b = "other"
  <2>1. Newlines(s, n + 1) = Newlines(s, n)
    BY <1>2, <1>6 DEF Newlines
  <2>2. \A j \in Newlines(s, n) : j < n + 1
    BY DEF Newlines
  <2>3. Columns(s, n + 1) = Columns(s, n) \union {n + 1}
    BY <2>1, <2>2, <1>2, <1>6 DEF Columns
  <2>4. Cardinality(Columns(s, n + 1)) = Cardinality(Columns(s, n)) + 1
    BY <2>3, <1>2, <1>3, FS_AddElement
  <2>5. AdvanceByte(Position(s, n), b) = [Position(s, n) EXCEPT !.col = @ + 1]
    BY <1>6 DEF AdvanceByte
  <2> QED
    BY <2>1, <2>4, <2>5, <1>3
<1> QED
  BY <1>1, <1>4, <1>5, <1>6 DEF Byte

\* How many pages hold the bytes before an offset.
LEMMA ScannedFacts ==
    ASSUME GivenInv, NEW s \in LocatedSource, NEW to \in Nat, to <= Len(text[s])
    PROVE  /\ ScannedPages(s, to) \in Nat
           /\ to = 0 => ScannedPages(s, to) = 0
           /\ to > 0 => /\ ScannedPages(s, to) >= 1
                        /\ (ScannedPages(s, to) - 1) * stride < to
           /\ to <= ScannedPages(s, to) * stride
           /\ \A p \in Nat : p < ScannedPages(s, to) <=> p * stride < to
<1> DEFINE n == Len(text[s])
           c(k) == PageCountFor(k)
<1>1. n \in Nat /\ stride \in Nat \ {0}
  BY DEF GivenInv
<1>2. ASSUME NEW k \in Nat, k > 0
      PROVE  c(k) \in Nat /\ c(k) >= 1 /\ (c(k) - 1) * stride < k /\ k <= c(k) * stride
  <2>1. /\ (k - 1) \div stride \in Nat /\ (k - 1) % stride \in 0 .. stride - 1
        /\ k - 1 = (stride * ((k - 1) \div stride)) + ((k - 1) % stride)
    <3>1. k - 1 \in Nat /\ stride \in Nat \ {0}
      BY <1>1, <1>2
    <3> QED
      BY <3>1, DivFacts, Zenon
  <2>2. c(k) = (k - 1) \div stride + 1
    BY <1>2 DEF PageCountFor
  <2> HIDE DEF c
  <2>3. PICK q \in Nat : q = (k - 1) \div stride
    BY <2>1
  <2>4. PICK r \in 0 .. stride - 1 : r = (k - 1) % stride
    BY <2>1
  <2>5. k - 1 = (stride * q) + r /\ c(k) = q + 1
    BY <2>1, <2>2, <2>3, <2>4
  <2>6. (q + 1) * stride = (stride * q) + stride /\ ((q + 1) - 1) * stride = stride * q /\ stride * q \in Nat
    BY <1>1
  <2> QED
    BY <2>5, <2>6, <1>1
<1>3. c(0) = 0
  BY DEF PageCountFor
<1>4. c(to) \in Nat /\ c(n) \in Nat
  <2> HIDE DEF c
  <2>1. \A k \in Nat : k = 0 \/ k > 0
    OBVIOUS
  <2> QED
    BY <2>1, <1>1, <1>2, <1>3
<1>5. c(to) <= c(n)
  <2>1. CASE to = 0
    BY <2>1, <1>3, <1>4
  <2>2. CASE to > 0
    <3>1. (c(to) - 1) * stride < c(n) * stride
      <4>1. /\ c(to) \in Nat /\ c(to) >= 1 /\ (c(to) - 1) * stride < to
            /\ c(n) \in Nat /\ n <= c(n) * stride
        <5>1. n > 0
          BY <1>1, <2>2
        <5> HIDE DEF c, n
        <5> QED
          BY <5>1, <1>1, <1>2, <2>2
      <4> HIDE DEF c
      <4>2. (c(to) - 1) * stride \in Int /\ c(n) * stride \in Int /\ to <= n
        BY <4>1, <1>1
      <4> HIDE DEF n
      <4> QED
        BY <4>1, <4>2, <1>1
    <3>2. ASSUME c(n) <= c(to) - 1 PROVE FALSE
      <4> HIDE DEF c
      <4>1. c(n) * stride <= (c(to) - 1) * stride
        BY <3>2, <1>1, <1>4
      <4>2. c(n) * stride \in Int /\ (c(to) - 1) * stride \in Int
        BY <1>1, <1>4
      <4> QED
        BY <4>1, <4>2, <3>1
    <3> QED
      BY <3>2, <1>4
  <2> QED
    BY <2>1, <2>2
<1>6. ScannedPages(s, to) = c(to)
  BY <1>5, <1>4 DEF ScannedPages, Least
<1>7. ASSUME NEW p \in Nat PROVE p < c(to) <=> p * stride < to
  <2>1. CASE to = 0
    <3>1. p * stride \in Nat
      BY <1>1
    <3> QED
      BY <2>1, <3>1, <1>3
  <2>2. CASE to > 0
    <3>1. c(to) \in Nat /\ c(to) >= 1 /\ (c(to) - 1) * stride < to /\ to <= c(to) * stride
      BY <1>2, <2>2
    <3> HIDE DEF c
    <3>2. ASSUME p < c(to) PROVE p * stride <= (c(to) - 1) * stride
      BY <3>1, <3>2, <1>1
    <3>3. ASSUME p >= c(to) PROVE c(to) * stride <= p * stride
      BY <3>1, <3>3, <1>1
    <3>4. p * stride \in Nat /\ c(to) * stride \in Nat /\ (c(to) - 1) * stride \in Nat
      BY <3>1, <1>1
    <3> QED
      BY <3>1, <3>2, <3>3, <3>4
  <2> QED
    BY <2>1, <2>2
<1>8. to <= c(to) * stride
  <2>1. CASE to = 0
    BY <2>1, <1>3, <1>1
  <2>2. CASE to > 0
    BY <2>2, <1>2
  <2> QED
    BY <2>1, <2>2
<1> QED
  BY <1>1, <1>2, <1>3, <1>6, <1>7, <1>8, <1>4

\* What a page that is scanned holds, and where the scan of it ends.
LEMMA PageFacts ==
    ASSUME GivenInv, NEW s \in LocatedSource, NEW to \in Nat, to <= Len(text[s]),
           NEW p \in Nat, p < ScannedPages(s, to)
    PROVE  /\ p * stride \in Nat /\ p * stride < to
           /\ PageFinish(s, p, to) \in Nat
           /\ Len(Page(s, p)) \in Nat /\ PageFinish(s, p, to) <= Len(Page(s, p))
           /\ p * stride + PageFinish(s, p, to) <= to
           /\ p * stride + PageFinish(s, p, to) <= (p + 1) * stride
           /\ p + 1 < ScannedPages(s, to) => p * stride + PageFinish(s, p, to) = (p + 1) * stride
           /\ p + 1 = ScannedPages(s, to) => p * stride + PageFinish(s, p, to) = to
           /\ \A b \in 0 .. PageFinish(s, p, to) - 1 : Page(s, p)[b + 1] = text[s][p * stride + b + 1]
<1> DEFINE n == Len(text[s])
           base == p * stride
           next == (p + 1) * stride
<1>1. n \in Nat /\ stride \in Nat \ {0} /\ text[s] \in Seq(Byte)
  BY DEF GivenInv
<1>2. base \in Nat /\ next = base + stride /\ base < to
  BY <1>1, ScannedFacts
<1>3. p + 1 < ScannedPages(s, to) <=> next < to
  BY ScannedFacts
<1> HIDE DEF base, next, n
<1>4. Page(s, p) = SubSeq(text[s], base + 1, Least(next, n))
  BY DEF Page, base, next, n
<1>5. Least(next, n) \in base + 1 .. n
  BY <1>1, <1>2 DEF Least, n
<1>6. /\ Len(Page(s, p)) = Least(next, n) - base
      /\ \A i \in 1 .. Least(next, n) - base : Page(s, p)[i] = text[s][base + i]
  BY <1>1, <1>2, <1>4, <1>5 DEF n
<1>7. PageFinish(s, p, to) = Least(Len(Page(s, p)), to - base)
  BY <1>2 DEF PageFinish, base
<1>8. PageFinish(s, p, to) = IF next < to THEN stride ELSE to - base
  BY <1>1, <1>2, <1>6, <1>7 DEF Least, n
<1>a. Len(Page(s, p)) \in Nat
  BY <1>2, <1>5, <1>6
<1>9. PageFinish(s, p, to) \in Nat /\ PageFinish(s, p, to) <= Len(Page(s, p)) /\ base + PageFinish(s, p, to) <= next
  BY <1>1, <1>2, <1>6, <1>8 DEF Least, n
<1>10. ScannedPages(s, to) \in Nat
  BY ScannedFacts
<1>11. \A b \in 0 .. PageFinish(s, p, to) - 1 : Page(s, p)[b + 1] = text[s][base + b + 1]
  <2> SUFFICES ASSUME NEW b \in 0 .. PageFinish(s, p, to) - 1
               PROVE  Page(s, p)[b + 1] = text[s][base + b + 1]
    OBVIOUS
  <2>1. b + 1 \in 1 .. Least(next, n) - base
    BY <1>9, <1>6, <1>5, <1>2
  <2>2. Page(s, p)[b + 1] = text[s][base + (b + 1)]
    BY <2>1, <1>6
  <2> QED
    BY <2>2, <1>2
<1> QED
  BY <1>2, <1>3, <1>8, <1>9, <1>10, <1>11, <1>a DEF base, next

\* Where a walk begins.
LEMMA LegFacts ==
    ASSUME GivenInv, NEW s \in LocatedSource, NEW from \in Nat, NEW to \in Nat, from <= to, to <= Len(text[s])
    PROVE  LET first == FirstPage(s, from, to)
               byte == PageStart(from, first * stride)
           IN /\ first \in Nat /\ byte \in Nat /\ first <= ScannedPages(s, to)
              /\ first < ScannedPages(s, to) => first * stride + byte = from /\ from <= (first + 1) * stride
              /\ first = ScannedPages(s, to) => from = to
<1> DEFINE q == from \div stride
           c == ScannedPages(s, to)
           first == FirstPage(s, from, to)
<1>1. stride \in Nat \ {0}
  BY DEF GivenInv
<1>2. q \in Nat /\ q * stride <= from /\ q * stride \in Nat /\ from <= (q + 1) * stride
  <2>1. q \in Nat /\ from % stride \in 0 .. stride - 1 /\ from = (stride * q) + (from % stride)
    BY <1>1, DivFacts
  <2> HIDE DEF q
  <2>2. stride * q = q * stride /\ q * stride \in Nat /\ (q + 1) * stride = q * stride + stride
    BY <2>1, <1>1
  <2>3. PICK r \in 0 .. stride - 1 : r = from % stride
    BY <2>1
  <2>4. PICK m \in Nat : m = q * stride
    BY <2>2
  <2>5. from = m + r /\ (q + 1) * stride = m + stride
    BY <2>1, <2>2, <2>3, <2>4
  <2>6. m <= from /\ from <= m + stride
    BY <2>5, <1>1
  <2> QED
    BY <2>1, <2>4, <2>5, <2>6
<1>3. c \in Nat /\ (\A p \in Nat : p < c <=> p * stride < to) /\ to <= c * stride
  BY ScannedFacts
<1>4. first = IF q <= c THEN q ELSE c
  BY DEF FirstPage, Least
<1> HIDE DEF q, c, first
<1>5. first \in Nat /\ first <= c /\ first * stride \in Nat
  BY <1>1, <1>2, <1>3, <1>4
<1>6. CASE first < c
  <2>1. first = q /\ first * stride <= from
    BY <1>6, <1>2, <1>3, <1>4
  <2>2. PageStart(from, first * stride) = from - first * stride
    BY <2>1, <1>5 DEF PageStart
  <2>3. PICK m \in Nat : m = first * stride
    BY <1>5
  <2>4. m + (from - m) = from /\ from - m \in Nat
    BY <2>1, <2>3
  <2>5. first * stride + PageStart(from, first * stride) = from /\ PageStart(from, first * stride) \in Nat
    BY <2>2, <2>3, <2>4
  <2>6. from <= (first + 1) * stride
    BY <2>1, <1>2
  <2> QED
    BY <2>5, <2>6, <1>5, <1>6 DEF first, c
<1>7. CASE first = c
  <2>1. c <= q
    BY <1>7, <1>2, <1>3, <1>4
  <2>2. c * stride <= q * stride /\ c * stride \in Nat
    BY <2>1, <1>1, <1>2, <1>3
  <2>3. from = to
    BY <2>2, <1>2, <1>3
  <2>4. PageStart(from, first * stride) \in Nat
    BY <1>5 DEF PageStart
  <2> QED
    BY <2>3, <2>4, <1>5, <1>7 DEF first, c
<1> QED
  BY <1>5, <1>6, <1>7, <1>3

\* A walk that begins where the position is known.
LEMMA LegBegins ==
    ASSUME GivenInv, NEW d \in DiagnosticSpan, NEW kind \in LegKind, NEW from \in Nat, NEW to \in Nat,
           d.source \in LocatedSource, from <= to, to <= Len(text[d.source])
    PROVE  LET w == Leg(kind, d, from, to, Position(d.source, from))
           IN /\ w \in WalkRecord /\ ProgressInv(w)
              /\ w.leg = kind /\ w.d = d /\ w.from = from /\ w.to = to /\ ~w.found
              /\ Ahead(w) => Offset(w) = from
              /\ ~Ahead(w) => from = to
<1> DEFINE first == FirstPage(d.source, from, to)
           byte == PageStart(from, first * stride)
           here == Position(d.source, from)
           w == Leg(kind, d, from, to, here)
<1>1. /\ first \in Nat /\ byte \in Nat /\ first <= ScannedPages(d.source, to)
      /\ first < ScannedPages(d.source, to) => first * stride + byte = from /\ from <= (first + 1) * stride
      /\ first = ScannedPages(d.source, to) => from = to
  BY LegFacts
<1>2. here \in Place /\ Initial \in Place
  BY PositionIs DEF Initial, Place
<1>3. w = [leg |-> kind, d |-> d, from |-> from, to |-> to, page |-> first, byte |-> byte,
           at |-> here, start |-> Initial, found |-> FALSE]
  BY DEF Leg
<1>4. ScannedPages(d.source, to) \in Nat
  BY ScannedFacts
<1> HIDE DEF first, byte, here, w
<1>5. w \in WalkRecord
  BY <1>1, <1>2, <1>3 DEF WalkRecord
<1>6. /\ w.leg = kind /\ w.d = d /\ w.from = from /\ w.to = to /\ ~w.found /\ w.page = first /\ w.byte = byte
      /\ w.at = here
  BY <1>3
<1>7. /\ Ahead(w) => Offset(w) = from
      /\ ~Ahead(w) => from = to
  BY <1>1, <1>4, <1>6 DEF Ahead, Offset
<1>8. ProgressInv(w)
  <2>1. Ahead(w) => from <= (w.page + 1) * stride
    BY <1>1, <1>6 DEF Ahead
  <2>2. w.page <= ScannedPages(w.d.source, w.to)
    BY <1>1, <1>6
  <2> QED
    BY <2>1, <2>2, <1>6, <1>7 DEF ProgressInv, here
<1> QED
  BY <1>5, <1>6, <1>7, <1>8 DEF w, here

LEMMA LocationStart == LocationInit => LocationInv
<1> SUFFICES ASSUME LocationInit PROVE LocationInv
  OBVIOUS
<1>1. GivenInv
  BY LocationAssumption DEF LocationInit, GivenInv
<1>2. 1 \in LocatedSource
  BY LocationAssumption DEF LocatedSource
<1>3. cursor = [has_source |-> FALSE, source |-> 1, pages_valid |-> FALSE, cursor_valid |-> FALSE,
                offset |-> 0, position |-> Initial]
  BY DEF LocationInit, Fresh
<1>4. CursorInv
  BY <1>1, <1>2, <1>3 DEF CursorInv, GivenInv, Initial, Place
<1> QED
  BY <1>1, <1>3, <1>4 DEF LocationInit, LocationInv, WalkInv, LocationsAreExact, CursorIsTrue

\* A diagnostic is a span, of a source of the project or of none.
LEMMA DiagnosticFacts ==
    ASSUME GivenInv, NEW d \in Diagnostics
    PROVE  d \in DiagnosticSpan /\ d.source \in Nat \ {0} /\ (d.source <= LocatedSourceCount <=> d.source \in LocatedSource)
<1>1. \A s : Offsets(s) \subseteq Nat
  BY DEF Offsets
<1>2. LocatedSourceCount \in Nat \ {0}
  BY LocationAssumption
<1>3. CASE d \in [has_span : {FALSE}, source : {1}, start : {0}, end : {0}]
  <2>1. d.start = 0 /\ d.end = 0 /\ d.source = 1 /\ d.has_span \in BOOLEAN
    BY <1>3
  <2>2. d = [has_span |-> d.has_span, source |-> d.source, start |-> d.start, end |-> d.end]
    BY <1>3
  <2> QED
    BY <2>1, <2>2, <1>2 DEF DiagnosticSpan, LocatedSource
<1>4. CASE \E s \in 1 .. LocatedSourceCount + 1 : d \in [has_span : {TRUE}, source : {s}, start : Offsets(s), end : Offsets(s)]
  <2>1. PICK s \in 1 .. LocatedSourceCount + 1 : d \in [has_span : {TRUE}, source : {s}, start : Offsets(s), end : Offsets(s)]
    BY <1>4
  <2>2. d.start \in Nat /\ d.end \in Nat /\ d.source = s /\ d.has_span \in BOOLEAN
    BY <2>1, <1>1
  <2>3. d = [has_span |-> d.has_span, source |-> d.source, start |-> d.start, end |-> d.end]
    BY <2>1
  <2> QED
    BY <2>2, <2>3, <1>2 DEF DiagnosticSpan, LocatedSource
<1> QED
  BY <1>3, <1>4 DEF Diagnostics

\* What is given, and the positions in it, stay as they are.
LEMMA GivenStays ==
    ASSUME GivenInv, UNCHANGED << text, stride, shape >>
    PROVE  /\ GivenInv'
           /\ \A s, n : Position(s, n)' = Position(s, n)
           /\ \A s, to : ScannedPages(s, to)' = ScannedPages(s, to)
<1>1. GivenInv'
  BY DEF GivenInv
<1>2. \A s, n : Position(s, n)' = Position(s, n)
  BY DEF Position
<1>3. \A s, to : ScannedPages(s, to)' = ScannedPages(s, to)
  BY DEF ScannedPages, PageCountFor
<1> QED
  BY <1>1, <1>2, <1>3

\* A diagnostic that is not placed: its source is missing, not whole, or too short.
LEMMA StepUnmapped ==
    ASSUME LocationInv, NEW d \in Diagnostics,
           NoSpan(d) \/ BadSlice(d) \/ KnownBad(d) \/ BadPages(d) \/ BadSpan(d)
    PROVE  LocationInv'
<1> USE DEF LocationInv
<1>1. /\ UNCHANGED << text, stride, shape >> /\ walk' = << >> /\ last' = << d, Unmapped >>
  BY DEF NoSpan, BadSlice, KnownBad, BadPages, BadSpan, Located
<1>2. d \in DiagnosticSpan /\ d.source \in Nat \ {0} /\ (d.source <= LocatedSourceCount <=> d.source \in LocatedSource)
  BY DiagnosticFacts
<1>3. GivenInv' /\ \A s, n : Position(s, n)' = Position(s, n)
  BY <1>1, GivenStays
<1>4. \/ cursor' = cursor
      \/ /\ d.source \in LocatedSource
         /\ \E whole \in BOOLEAN : cursor' = Fresh(d.source, whole) /\ (whole <=> shape[d.source] = "good")
  <2>1. CASE NoSpan(d) \/ KnownBad(d)
    BY <2>1 DEF NoSpan, KnownBad
  <2>2. CASE BadSlice(d) \/ BadPages(d)
    <3>1. cursor' = Fresh(d.source, FALSE) /\ shape[d.source] # "good" /\ d.source \in LocatedSource
      BY <2>2, <1>2 DEF BadSlice, BadPages, HasSource
    <3> QED
      BY <3>1
  <2>3. CASE BadSpan(d)
    <3>1. d.source \in LocatedSource /\ cursor' = Entered(d.source) /\ (~SameSource(d.source) => shape[d.source] = "good")
      BY <2>3, <1>2 DEF BadSpan, Good, HasSource
    <3> QED
      BY <3>1 DEF Entered
  <2> QED
    BY <2>1, <2>2, <2>3
<1>5. CursorInv' /\ CursorIsTrue'
  <2>1. CASE cursor' = cursor
    BY <2>1, <1>1, <1>3 DEF CursorInv, CursorIsTrue
  <2>2. CASE /\ d.source \in LocatedSource
             /\ \E whole \in BOOLEAN : cursor' = Fresh(d.source, whole) /\ (whole <=> shape[d.source] = "good")
    <3>1. PICK whole \in BOOLEAN : cursor' = Fresh(d.source, whole) /\ (whole <=> shape[d.source] = "good")
      BY <2>2
    <3>2. cursor' = [has_source |-> TRUE, source |-> d.source, pages_valid |-> whole, cursor_valid |-> FALSE,
                     offset |-> 0, position |-> Initial]
      BY <3>1 DEF Fresh
    <3>3. Initial \in Place /\ Len(text[d.source]) \in Nat
      BY <2>2 DEF Initial, Place, GivenInv
    <3> QED
      BY <3>1, <3>2, <3>3, <2>2, <1>1 DEF CursorInv, CursorIsTrue
  <2> QED
    BY <1>4, <2>1, <2>2
<1>6. ~(d.has_span /\ d.source \in LocatedSource /\ shape[d.source] = "good" /\ d.start <= d.end /\ d.end <= Len(text[d.source]))
  <2>1. CASE NoSpan(d)
    <3>1. CASE ~d.has_span
      BY <3>1, Zenon
    <3>2. CASE d.source > LocatedSourceCount
      BY <3>2, <1>2, LocationAssumption
    <3> QED
      BY <2>1, <3>1, <3>2, Zenon DEF NoSpan
  <2>2. CASE BadSlice(d) \/ BadPages(d)
    <3>1. shape[d.source] \in {"slice", "pages"}
      BY <2>2, Zenon DEF BadSlice, BadPages
    <3> QED
      BY <3>1
  <2>3. CASE KnownBad(d)
    BY <2>3 DEF KnownBad, SameSource, CursorIsTrue
  <2>4. CASE BadSpan(d)
    BY <2>4 DEF BadSpan, SpanValid
  <2> QED
    BY <2>1, <2>2, <2>3, <2>4
<1>7. LocationsAreExact'
  BY <1>1, <1>6 DEF LocationsAreExact, Unmapped
<1>8. WalkInv'
  BY <1>1 DEF WalkInv
<1> QED
  BY <1>3, <1>5, <1>7, <1>8

\* A walk begins: from the cursor, or from the start of the source.
LEMMA StepBeginWalk ==
    ASSUME LocationInv, NEW d \in Diagnostics, AdvanceCursor(d) \/ FullScan(d)
    PROVE  LocationInv'
<1> USE DEF LocationInv
<1>1. d \in DiagnosticSpan /\ (d.source <= LocatedSourceCount <=> d.source \in LocatedSource)
  BY DiagnosticFacts
<1>2. /\ Good(d) /\ SpanValid(d) /\ UNCHANGED << text, stride, shape, cursor >> /\ last' = << >>
  BY DEF AdvanceCursor, FullScan, Walks
<1>3. /\ d.has_span /\ d.source \in LocatedSource /\ shape[d.source] = "good"
      /\ d.start \in Nat /\ d.end \in Nat /\ d.start <= d.end /\ d.end <= Len(text[d.source])
  BY <1>1, <1>2 DEF Good, HasSource, SpanValid, SameSource, CursorIsTrue, DiagnosticSpan
<1>4. /\ GivenInv' /\ (\A s, n : Position(s, n)' = Position(s, n))
      /\ \A s, to : ScannedPages(s, to)' = ScannedPages(s, to)
  BY <1>2, GivenStays
<1>5. PICK kind \in LegKind, from \in Nat, to \in Nat :
          /\ walk' = << Leg(kind, d, from, to, Position(d.source, from)) >>
          /\ from <= to /\ to <= d.end /\ kind # "to_end"
          /\ to = IF kind = "to_start" THEN d.start ELSE d.end
          /\ kind \in {"prefix", "span"} => from = 0
          /\ kind = "prefix" => d.start = 0 \/ d.start = d.end
          /\ kind = "span" => 0 < d.start /\ d.start < d.end
  <2>1. CASE AdvanceCursor(d)
    <3>1. /\ walk' = << Leg("to_start", d, cursor.offset, d.start, cursor.position) >>
          /\ cursor.has_source /\ cursor.source = d.source /\ cursor.cursor_valid /\ d.start >= cursor.offset
      BY <2>1 DEF AdvanceCursor, Walks, Forward, SameSource
    <3>2. cursor.position = Position(d.source, cursor.offset) /\ cursor.offset \in Nat
      BY <3>1 DEF CursorIsTrue, CursorInv
    <3> d.start \in Nat /\ cursor.offset \in Nat /\ "to_start" \in LegKind
      BY <1>3, <3>2 DEF LegKind
    <3> WITNESS "to_start" \in LegKind, cursor.offset \in Nat, d.start \in Nat
    <3> QED
      BY <3>1, <3>2, <1>3 DEF LegKind
  <2>2. CASE FullScan(d)
    <3> DEFINE k == IF d.start = 0 \/ d.start = d.end THEN "prefix" ELSE "span"
    <3>1. walk' = << Leg(k, d, 0, d.end, Initial) >>
      BY <2>2 DEF FullScan, Walks
    <3>2. k \in LegKind /\ k \in {"prefix", "span"}
      BY DEF LegKind
    <3>3. /\ k = "prefix" => d.start = 0 \/ d.start = d.end
          /\ k = "span" => 0 < d.start /\ d.start < d.end
      BY <1>3
    <3>4. Initial = Position(d.source, 0)
      BY PositionZero
    <3> HIDE DEF k
    <3> d.end \in Nat /\ k \in LegKind
      BY <1>3, <3>2
    <3> WITNESS k \in LegKind, 0 \in Nat, d.end \in Nat
    <3> QED
      BY <3>1, <3>2, <3>3, <3>4, <1>3
  <2> QED
    BY <2>1, <2>2
<1>6. PICK w \in WalkRecord :
          /\ walk' = << w >> /\ ProgressInv(w)
          /\ w.leg = kind /\ w.d = d /\ w.from = from /\ w.to = to /\ ~w.found
          /\ Ahead(w) => Offset(w) = from
          /\ ~Ahead(w) => from = to
  <2>1. to <= Len(text[d.source])
    BY <1>3, <1>5 DEF GivenInv
  <2> QED
    BY <2>1, <1>1, <1>3, <1>5, LegBegins
<1>7. LegInv(w) /\ MarkInv(w)
  <2>1. LegInv(w)
    BY <1>3, <1>5, <1>6 DEF LegInv
  <2>2. MarkInv(w)
    BY <1>3, <1>5, <1>6 DEF MarkInv
  <2> QED
    BY <2>1, <2>2
<1>8. LegInv(w)' /\ MarkInv(w)' /\ ProgressInv(w)'
  BY <1>2, <1>4, <1>6, <1>7 DEF LegInv, MarkInv, ProgressInv, Ahead, Offset
<1>9. WalkInv'
  BY <1>2, <1>6, <1>8 DEF WalkInv
<1>10. CursorInv' /\ CursorIsTrue' /\ LocationsAreExact'
  BY <1>2, <1>4 DEF CursorInv, CursorIsTrue, LocationsAreExact
<1> QED
  BY <1>4, <1>9, <1>10

\* One byte further.
LEMMA StepWalkByte ==
    ASSUME LocationInv, WalkByte
    PROVE  LocationInv'
<1> USE DEF LocationInv
<1> DEFINE w == walk[1]
           s == w.d.source
           marks == w.leg = "span" /\ w.page * stride + w.byte = w.d.start
           next == [w EXCEPT !.byte = @ + 1,
                             !.at = AdvanceByte(@, Page(s, w.page)[w.byte + 1]),
                             !.start = IF marks THEN w.at ELSE @,
                             !.found = @ \/ marks]
<1>1. /\ walk # << >> /\ Ahead(w) /\ w.byte < PageFinish(s, w.page, w.to)
      /\ walk' = << next >> /\ UNCHANGED << text, stride, shape, cursor, last >>
  BY DEF WalkByte, OnTheWay, Continue, Ahead
<1>2. w \in WalkRecord /\ LegInv(w) /\ ProgressInv(w) /\ MarkInv(w) /\ last = << >>
  BY <1>1 DEF WalkInv
<1>3. /\ w.page \in Nat /\ w.byte \in Nat /\ w.to \in Nat /\ w.from \in Nat /\ w.at \in Place /\ w.start \in Place
      /\ w.found \in BOOLEAN /\ w.leg \in LegKind /\ w.d \in DiagnosticSpan
  BY <1>2 DEF WalkRecord
<1>4. /\ s \in LocatedSource /\ w.to <= Len(text[s]) /\ Len(text[s]) \in Nat
      /\ w.d.start \in Nat /\ w.d.end \in Nat /\ stride \in Nat \ {0}
  BY <1>2, <1>3 DEF LegInv, GivenInv, DiagnosticSpan
<1>a. (w.page + 1) * stride \in Nat
  BY <1>3, <1>4
<1>5. /\ w.page * stride \in Nat
      /\ w.page * stride + PageFinish(s, w.page, w.to) <= w.to /\ PageFinish(s, w.page, w.to) \in Nat
      /\ w.page * stride + PageFinish(s, w.page, w.to) <= (w.page + 1) * stride
      /\ \A b \in 0 .. PageFinish(s, w.page, w.to) - 1 : Page(s, w.page)[b + 1] = text[s][w.page * stride + b + 1]
  <2>1. PICK p \in Nat : p = w.page
    BY <1>3
  <2>2. PICK to \in Nat : to = w.to
    BY <1>3
  <2>3. PICK x \in LocatedSource : x = s
    BY <1>4
  <2>4. GivenInv /\ to <= Len(text[x]) /\ p < ScannedPages(x, to)
    BY <1>1, <1>4, <2>1, <2>2, <2>3 DEF Ahead
  <2>5. /\ p * stride \in Nat
        /\ p * stride + PageFinish(x, p, to) <= to /\ PageFinish(x, p, to) \in Nat
        /\ p * stride + PageFinish(x, p, to) <= (p + 1) * stride
        /\ \A b \in 0 .. PageFinish(x, p, to) - 1 : Page(x, p)[b + 1] = text[x][p * stride + b + 1]
    <3> HIDE DEF LocationInv
    <3> QED
      BY <2>4, PageFacts
  <2> QED
    BY <2>1, <2>2, <2>3, <2>5
<1>6. /\ Offset(w) \in Nat /\ Offset(w) < w.to /\ Offset(w) < Len(text[s]) /\ Offset(w) < (w.page + 1) * stride
      /\ Page(s, w.page)[w.byte + 1] = text[s][Offset(w) + 1]
  <2>1. PICK m \in Nat : m = w.page * stride
    BY <1>5
  <2>2. PICK n \in Nat : n = (w.page + 1) * stride
    BY <1>a
  <2>3. PICK f \in Nat : f = PageFinish(s, w.page, w.to)
    BY <1>5
  <2>4. Offset(w) = m + w.byte
    BY <2>1 DEF Offset
  <2>5. m + f <= w.to /\ m + f <= n /\ w.byte < f
    BY <1>1, <1>5, <2>1, <2>2, <2>3
  <2>6. Offset(w) \in Nat /\ Offset(w) < w.to /\ Offset(w) < Len(text[s]) /\ Offset(w) < n
    <3>1. PICK b \in Nat : b = w.byte
      BY <1>3
    <3>2. PICK to \in Nat : to = w.to
      BY <1>3
    <3>3. PICK k \in Nat : k = Len(text[s])
      BY <1>4
    <3>4. m + f <= to /\ m + f <= n /\ b < f /\ to <= k
      BY <2>5, <3>1, <3>2, <3>3, <1>4
    <3>5. m + b \in Nat /\ m + b < to /\ m + b < k /\ m + b < n
      BY <3>4
    <3> QED
      BY <2>4, <3>1, <3>2, <3>3, <3>5
  <2>7. w.byte \in 0 .. f - 1
    BY <2>5, <1>3
  <2>8. Page(s, w.page)[w.byte + 1] = text[s][m + w.byte + 1]
    BY <2>1, <2>3, <2>7, <1>5
  <2> QED
    BY <2>2, <2>4, <2>6, <2>8
<1>7. w.at = Position(s, Offset(w))
  BY <1>1, <1>2 DEF ProgressInv
<1>8. AdvanceByte(w.at, Page(s, w.page)[w.byte + 1]) = Position(s, Offset(w) + 1)
  BY <1>4, <1>6, <1>7, PositionStep
<1>9. Position(s, Offset(w) + 1) \in Place
  BY <1>6, PositionIs
<1>10. PICK v : v = next
  OBVIOUS
<1>11. /\ v.leg = w.leg /\ v.d = w.d /\ v.from = w.from /\ v.to = w.to /\ v.page = w.page /\ v.byte = w.byte + 1
       /\ v.at = Position(s, Offset(w) + 1)
       /\ v.start = IF marks THEN w.at ELSE w.start
       /\ v.found = (w.found \/ marks)
       /\ v \in WalkRecord
  <2>1. /\ v.leg = w.leg /\ v.d = w.d /\ v.from = w.from /\ v.to = w.to /\ v.page = w.page /\ v.byte = w.byte + 1
        /\ v.at = Position(s, Offset(w) + 1)
        /\ v.start = IF marks THEN w.at ELSE w.start
    BY <1>2, <1>8, <1>10 DEF WalkRecord
  <2>2. v.found = (w.found \/ marks) /\ v.found \in BOOLEAN
    BY <1>2, <1>10, Zenon DEF WalkRecord
  <2>3. v = [leg |-> v.leg, d |-> v.d, from |-> v.from, to |-> v.to, page |-> v.page, byte |-> v.byte,
             at |-> v.at, start |-> v.start, found |-> v.found]
    BY <1>2, <1>10 DEF WalkRecord
  <2>4. v.start \in Place /\ v.at \in Place /\ v.byte \in Nat
    BY <2>1, <1>3, <1>9
  <2>5. v \in WalkRecord
    BY <2>1, <2>2, <2>3, <2>4, <1>3 DEF WalkRecord
  <2> QED
    BY <2>1, <2>2, <2>5
<1> HIDE DEF next
<1>12. Offset(v) = Offset(w) + 1 /\ (Ahead(v) <=> Ahead(w))
  BY <1>3, <1>5, <1>11 DEF Offset, Ahead
<1>13. LegInv(v)
  BY <1>2, <1>11 DEF LegInv
<1>14. ProgressInv(v)
  <2>1. w.page <= ScannedPages(s, w.to) /\ w.from <= Offset(w)
    BY <1>1, <1>2 DEF ProgressInv
  <2>2. PICK o \in Nat : o = Offset(w)
    BY <1>6
  <2>3. PICK n \in Nat : n = (w.page + 1) * stride
    BY <1>a
  <2>4. w.from <= o + 1 /\ o + 1 <= w.to /\ o + 1 <= n
    BY <2>1, <2>2, <2>3, <1>3, <1>6
  <2>5. Ahead(v) /\ Offset(v) = o + 1
    BY <2>2, <1>1, <1>12
  <2>6. v.from <= Offset(v) /\ Offset(v) <= v.to /\ Offset(v) <= (v.page + 1) * stride
    BY <2>3, <2>4, <2>5, <1>11
  <2>7. v.at = Position(v.d.source, Offset(v))
    BY <2>2, <2>5, <1>11
  <2> QED
    BY <2>1, <2>5, <2>6, <2>7, <1>11 DEF ProgressInv
<1>15. MarkInv(v)
  <2>1. marks <=> (w.leg = "span" /\ Offset(w) = w.d.start)
    BY DEF Offset
  <2>2. w.leg = "span" => (w.found <=> Offset(w) > w.d.start)
    BY <1>1, <1>2 DEF MarkInv
  <2> HIDE DEF marks
  <2>3. w.leg = "span" => (v.found <=> Offset(v) > w.d.start)
    <3> SUFFICES ASSUME w.leg = "span" PROVE v.found <=> Offset(v) > w.d.start
      OBVIOUS
    <3>1. v.found <=> (w.found \/ marks)
      BY <1>11, Zenon
    <3>2. v.found <=> (Offset(w) > w.d.start \/ Offset(w) = w.d.start)
      BY <3>1, <2>1, <2>2
    <3>3. Offset(v) > w.d.start <=> (Offset(w) > w.d.start \/ Offset(w) = w.d.start)
      BY <1>4, <1>6, <1>12
    <3> QED
      BY <3>2, <3>3
  <2>4. v.found => v.start = Position(s, w.d.start)
    BY <2>1, <1>2, <1>7, <1>11 DEF MarkInv
  <2>5. w.leg # "span" => (v.found <=> w.found)
    BY <2>1, <1>11
  <2> QED
    BY <2>3, <2>4, <2>5, <1>1, <1>2, <1>11, <1>12 DEF MarkInv
<1>16. /\ GivenInv' /\ (\A x, n : Position(x, n)' = Position(x, n))
       /\ \A x, to : ScannedPages(x, to)' = ScannedPages(x, to)
  BY <1>1, GivenStays
<1>17. LegInv(v)' /\ MarkInv(v)' /\ ProgressInv(v)'
  BY <1>1, <1>13, <1>14, <1>15, <1>16 DEF LegInv, MarkInv, ProgressInv, Ahead, Offset
<1>18. WalkInv'
  BY <1>1, <1>2, <1>10, <1>11, <1>17 DEF WalkInv
<1>19. CursorInv' /\ CursorIsTrue' /\ LocationsAreExact'
  BY <1>1, <1>2, <1>16 DEF CursorInv, CursorIsTrue, LocationsAreExact
<1> QED
  BY <1>16, <1>18, <1>19

\* The next page: it takes up where the scan of this one ended.
LEMMA StepWalkPage ==
    ASSUME LocationInv, WalkPage
    PROVE  LocationInv'
<1> USE DEF LocationInv
<1> DEFINE w == walk[1]
           s == w.d.source
           c == ScannedPages(s, w.to)
           next == [w EXCEPT !.page = @ + 1, !.byte = PageStart(w.from, (w.page + 1) * stride)]
<1>1. /\ walk # << >> /\ Ahead(w) /\ w.byte >= PageFinish(s, w.page, w.to)
      /\ walk' = << next >> /\ UNCHANGED << text, stride, shape, cursor, last >>
  BY DEF WalkPage, OnTheWay, Continue, Ahead
<1>2. w \in WalkRecord /\ LegInv(w) /\ ProgressInv(w) /\ MarkInv(w) /\ last = << >>
  BY <1>1 DEF WalkInv
<1>3. /\ w.page \in Nat /\ w.byte \in Nat /\ w.to \in Nat /\ w.from \in Nat /\ w.at \in Place /\ w.start \in Place
      /\ w.found \in BOOLEAN /\ w.leg \in LegKind /\ w.d \in DiagnosticSpan
  BY <1>2 DEF WalkRecord
<1>4. /\ s \in LocatedSource /\ w.to <= Len(text[s]) /\ Len(text[s]) \in Nat
      /\ w.d.start \in Nat /\ w.d.end \in Nat /\ stride \in Nat \ {0}
  BY <1>2, <1>3 DEF LegInv, GivenInv, DiagnosticSpan
<1>5. /\ w.page * stride \in Nat /\ PageFinish(s, w.page, w.to) \in Nat
      /\ w.page + 1 < c => w.page * stride + PageFinish(s, w.page, w.to) = (w.page + 1) * stride
      /\ w.page + 1 = c => w.page * stride + PageFinish(s, w.page, w.to) = w.to
      /\ (w.page + 1) * stride = w.page * stride + stride
  <2>1. PICK p \in Nat : p = w.page
    BY <1>3
  <2>2. PICK to \in Nat : to = w.to
    BY <1>3
  <2>3. PICK x \in LocatedSource : x = s
    BY <1>4
  <2>4. GivenInv /\ to <= Len(text[x]) /\ p < ScannedPages(x, to)
    BY <1>1, <1>4, <2>1, <2>2, <2>3 DEF Ahead
  <2>5. /\ p * stride \in Nat /\ PageFinish(x, p, to) \in Nat
        /\ p + 1 < ScannedPages(x, to) => p * stride + PageFinish(x, p, to) = (p + 1) * stride
        /\ p + 1 = ScannedPages(x, to) => p * stride + PageFinish(x, p, to) = to
    <3> HIDE DEF LocationInv
    <3> QED
      BY <2>4, PageFacts
  <2>6. (p + 1) * stride = p * stride + stride
    BY <1>4
  <2> QED
    BY <2>1, <2>2, <2>3, <2>5, <2>6
<1>6. c \in Nat /\ w.page < c /\ (\A p \in Nat : p < c <=> p * stride < w.to)
  BY <1>1, <1>3, <1>4, ScannedFacts DEF Ahead
<1>7. /\ w.from <= Offset(w) /\ Offset(w) <= w.to /\ w.at = Position(s, Offset(w))
      /\ Offset(w) = w.page * stride + w.byte /\ Offset(w) \in Nat
  BY <1>1, <1>2, <1>3, <1>5 DEF ProgressInv, Offset
<1> HIDE DEF c
<1>8. /\ w.page + 1 = c => Offset(w) = w.to
      /\ w.page + 1 < c => Offset(w) = (w.page + 1) * stride
  <2>1. Offset(w) <= (w.page + 1) * stride
    BY <1>1, <1>2 DEF ProgressInv
  <2> QED
    BY <2>1, <1>1, <1>3, <1>5, <1>7
<1>9. PICK v : v = next
  OBVIOUS
<1>10. /\ v.leg = w.leg /\ v.d = w.d /\ v.from = w.from /\ v.to = w.to /\ v.page = w.page + 1
       /\ v.byte = PageStart(w.from, (w.page + 1) * stride)
       /\ v.at = w.at /\ v.start = w.start /\ v.found = w.found
  BY <1>2, <1>9 DEF WalkRecord
<1>11. v \in WalkRecord
  <2>1. PageStart(w.from, (w.page + 1) * stride) \in Nat
    BY <1>3, <1>4, <1>5, SMTT(60) DEF PageStart
  <2>2. v = [leg |-> v.leg, d |-> v.d, from |-> v.from, to |-> v.to, page |-> v.page, byte |-> v.byte,
             at |-> v.at, start |-> v.start, found |-> v.found]
    BY <1>2, <1>9 DEF WalkRecord
  <2> QED
    BY <2>1, <2>2, <1>3, <1>10 DEF WalkRecord
<1> HIDE DEF next
<1>12. /\ Ahead(v) <=> w.page + 1 < c
       /\ Ahead(v) => Offset(v) = Offset(w)
  <2>1. Ahead(v) <=> w.page + 1 < c
    BY <1>10 DEF Ahead, c
  <2>2. ASSUME w.page + 1 < c PROVE Offset(v) = Offset(w)
    <3>1. PageStart(w.from, (w.page + 1) * stride) = 0
      <4>1. PICK n \in Nat : n = Offset(w)
        BY <1>7
      <4>2. n = (w.page + 1) * stride /\ w.from <= n
        BY <4>1, <2>2, <1>7, <1>8
      <4>3. ~(w.from > n)
        BY <4>2, <1>3
      <4> QED
        BY <4>2, <4>3 DEF PageStart
    <3> QED
      BY <3>1, <2>2, <1>3, <1>4, <1>5, <1>8, <1>10 DEF Offset
  <2> QED
    BY <2>1, <2>2
<1>13. LegInv(v)
  BY <1>2, <1>10 DEF LegInv
<1>14. ProgressInv(v)
  <2>1. v.page <= c /\ (~Ahead(v) => w.page + 1 = c)
    BY <1>3, <1>6, <1>10, <1>12
  <2>2. (v.page + 1) * stride = (w.page + 1) * stride + stride
    BY <1>3, <1>4, <1>10
  <2>3. Ahead(v) => Offset(v) <= (v.page + 1) * stride
    BY <2>2, <1>4, <1>5, <1>8, <1>12
  <2> QED
    BY <2>1, <2>3, <1>7, <1>8, <1>10, <1>12 DEF ProgressInv, c
<1>15. MarkInv(v)
  <2>1. w.leg = "span" => w.d.start < w.to
    BY <1>2, <1>3, <1>4 DEF LegInv
  <2>2. w.leg = "span" => (w.found <=> Offset(w) > w.d.start)
    BY <1>1, <1>2 DEF MarkInv
  <2>3. ~Ahead(v) => Offset(w) = w.to
    BY <1>3, <1>6, <1>8, <1>12
  <2>4. w.leg = "span" => (v.found <=> (Ahead(v) => Offset(v) > w.d.start))
    BY <2>1, <2>2, <2>3, <1>3, <1>4, <1>10, <1>12
  <2> QED
    BY <2>4, <1>2, <1>10 DEF MarkInv
<1>16. /\ GivenInv' /\ (\A x, n : Position(x, n)' = Position(x, n))
       /\ \A x, to : ScannedPages(x, to)' = ScannedPages(x, to)
  BY <1>1, GivenStays
<1>17. LegInv(v)' /\ MarkInv(v)' /\ ProgressInv(v)'
  BY <1>1, <1>13, <1>14, <1>15, <1>16 DEF LegInv, MarkInv, ProgressInv, Ahead, Offset
<1>18. WalkInv'
  BY <1>1, <1>2, <1>9, <1>11, <1>17 DEF WalkInv
<1>19. CursorInv' /\ CursorIsTrue' /\ LocationsAreExact'
  BY <1>1, <1>2, <1>16 DEF CursorInv, CursorIsTrue, LocationsAreExact
<1> QED
  BY <1>16, <1>18, <1>19

\* The start of the span is reached: its end is next, from there.
LEMMA StepStartReached ==
    ASSUME LocationInv, StartReached
    PROVE  LocationInv'
<1> USE DEF LocationInv
<1> DEFINE w == walk[1]
           d == w.d
<1>1. /\ walk # << >> /\ ~Ahead(w) /\ w.leg = "to_start"
      /\ walk' = << [Leg("to_end", d, d.start, d.end, w.at) EXCEPT !.start = w.at, !.found = TRUE] >>
      /\ UNCHANGED << text, stride, shape, cursor, last >>
  <2>1. w.page \in Nat /\ ScannedPages(d.source, w.to) \in Nat
    <3>1. walk # << >>
      BY DEF StartReached, Arrived
    <3>2. w \in WalkRecord /\ LegInv(w) /\ w.d \in DiagnosticSpan /\ w.to \in Nat /\ w.page \in Nat
      BY <3>1 DEF WalkInv, WalkRecord
    <3>3. w.to <= Len(text[d.source]) /\ d.source \in LocatedSource
      BY <3>2 DEF LegInv, GivenInv, DiagnosticSpan
    <3> QED
      BY <3>2, <3>3, ScannedFacts
  <2> QED
    BY <2>1 DEF StartReached, Arrived, Continue, Ahead
<1>2. w \in WalkRecord /\ LegInv(w) /\ ProgressInv(w) /\ MarkInv(w) /\ last = << >>
  BY <1>1 DEF WalkInv
<1>3. /\ d \in DiagnosticSpan /\ d.source \in LocatedSource /\ d.start \in Nat /\ d.end \in Nat
      /\ d.start <= d.end /\ d.end <= Len(text[d.source]) /\ w.at = Position(d.source, d.start)
      /\ w.at \in Place
  BY <1>1, <1>2 DEF WalkRecord, DiagnosticSpan, LegInv, ProgressInv
<1>4. PICK u \in WalkRecord :
          /\ u = Leg("to_end", d, d.start, d.end, w.at) /\ ProgressInv(u)
          /\ u.leg = "to_end" /\ u.d = d /\ u.from = d.start /\ u.to = d.end
  BY <1>3, LegBegins DEF LegKind
<1>5. PICK v : v = [u EXCEPT !.start = w.at, !.found = TRUE]
  OBVIOUS
<1>6. /\ v.leg = "to_end" /\ v.d = d /\ v.from = d.start /\ v.to = d.end /\ v.page = u.page /\ v.byte = u.byte
      /\ v.at = u.at /\ v.start = w.at /\ v.found
  BY <1>4, <1>5 DEF WalkRecord
<1>7. v \in WalkRecord
  <2>1. v = [leg |-> v.leg, d |-> v.d, from |-> v.from, to |-> v.to, page |-> v.page, byte |-> v.byte,
             at |-> v.at, start |-> v.start, found |-> v.found]
    BY <1>4, <1>5 DEF WalkRecord
  <2>2. v.found \in BOOLEAN
    BY <1>5, Zenon DEF WalkRecord
  <2> QED
    BY <2>1, <2>2, <1>3, <1>4, <1>6 DEF WalkRecord
<1>8. LegInv(v)
  BY <1>2, <1>3, <1>6 DEF LegInv
<1>9. ProgressInv(v)
  <2>1. Ahead(v) = Ahead(u) /\ Offset(v) = Offset(u)
    BY <1>4, <1>6 DEF Ahead, Offset
  <2> HIDE DEF Ahead, Offset
  <2> QED
    BY <2>1, <1>4, <1>6 DEF ProgressInv
<1>10. MarkInv(v)
  BY <1>3, <1>6 DEF MarkInv
<1>11. /\ GivenInv' /\ (\A x, n : Position(x, n)' = Position(x, n))
       /\ \A x, to : ScannedPages(x, to)' = ScannedPages(x, to)
  BY <1>1, GivenStays
<1>12. LegInv(v)' /\ MarkInv(v)' /\ ProgressInv(v)'
  BY <1>1, <1>8, <1>9, <1>10, <1>11 DEF LegInv, MarkInv, ProgressInv, Ahead, Offset
<1>13. walk' = << v >>
  BY <1>1, <1>4, <1>5
<1>14. WalkInv'
  BY <1>1, <1>2, <1>7, <1>12, <1>13 DEF WalkInv
<1>15. CursorInv' /\ CursorIsTrue' /\ LocationsAreExact'
  BY <1>1, <1>2, <1>11 DEF CursorInv, CursorIsTrue, LocationsAreExact
<1> QED
  BY <1>11, <1>14, <1>15

\* The end is reached: the diagnostic has its location and the cursor moves there.
LEMMA StepEndReached ==
    ASSUME LocationInv, EndReached
    PROVE  LocationInv'
<1> USE DEF LocationInv
<1> DEFINE w == walk[1]
           d == w.d
<1>1. /\ walk # << >> /\ w.page = ScannedPages(d.source, w.to) /\ w.leg # "to_start"
      /\ cursor' = At(d.source, d.end, w.at)
      /\ last' = << d, Mapped([start |-> SpanStart(w), end |-> w.at]) >>
      /\ walk' = << >> /\ UNCHANGED << text, stride, shape >>
  BY DEF EndReached, Arrived
<1>2. w \in WalkRecord /\ LegInv(w) /\ ProgressInv(w) /\ MarkInv(w)
  BY <1>1 DEF WalkInv
<1>3. /\ d \in DiagnosticSpan /\ d.has_span /\ d.source \in LocatedSource /\ d.start \in Nat /\ d.end \in Nat
      /\ d.start <= d.end /\ d.end <= Len(text[d.source]) /\ shape[d.source] = "good" /\ w.to = d.end
      /\ w.at \in Place /\ w.page \in Nat /\ w.leg \in LegKind
  BY <1>1, <1>2 DEF WalkRecord, DiagnosticSpan, LegInv
<1>4. ~Ahead(w)
  BY <1>1, <1>3 DEF Ahead
<1>5. w.at = Position(d.source, d.end)
  BY <1>2, <1>3, <1>4 DEF ProgressInv
<1>6. SpanStart(w) = Position(d.source, d.start)
  <2>1. CASE w.leg = "prefix"
    <3>1. ~w.found /\ (d.start = 0 \/ d.start = d.end)
      BY <2>1, <1>2 DEF MarkInv, LegInv
    <3>2. CASE d.start = 0
      BY <3>2, <2>1, PositionZero DEF SpanStart
    <3>3. CASE d.start # 0
      BY <3>1, <3>3, <2>1, <1>5 DEF SpanStart
    <3> QED
      BY <3>2, <3>3
  <2>2. CASE w.leg # "prefix"
    <3>1. w.found
      BY <2>2, <1>1, <1>2, <1>3, <1>4 DEF MarkInv, LegKind
    <3> QED
      BY <3>1, <2>2, <1>2 DEF SpanStart, MarkInv
  <2> QED
    BY <2>1, <2>2
<1>7. GivenInv' /\ (\A x, n : Position(x, n)' = Position(x, n))
  BY <1>1, GivenStays
<1>8. last' = << d, [mapped |-> TRUE, start |-> Position(d.source, d.start), end |-> Position(d.source, d.end)] >>
  BY <1>1, <1>5, <1>6 DEF Mapped
<1>9. LocationsAreExact'
  <2>1. PICK e \in DiagnosticSpan : e = d
    BY <1>3
  <2>2. PICK l : l = [mapped |-> TRUE, start |-> Position(e.source, e.start), end |-> Position(e.source, e.end)]
    OBVIOUS
  <2>3. last' = << e, l >>
    BY <2>1, <2>2, <1>8
  <2>4. last'[1] = e /\ last'[2] = l
    BY <2>3
  <2>5. /\ e.has_span /\ e.source \in LocatedSource /\ shape'[e.source] = "good"
        /\ e.start <= e.end /\ e.end <= Len(text'[e.source])
    BY <2>1, <1>1, <1>3
  <2>6. l = [mapped |-> TRUE, start |-> Position(e.source, e.start)', end |-> Position(e.source, e.end)']
    BY <2>2, <1>7
  <2> QED
    BY <2>4, <2>5, <2>6 DEF LocationsAreExact
<1>10. cursor' = [has_source |-> TRUE, source |-> d.source, pages_valid |-> TRUE, cursor_valid |-> TRUE,
                  offset |-> d.end, position |-> w.at]
  BY <1>1 DEF At
<1>a. PICK k \in Place : k = w.at
  BY <1>3
<1>b. PICK e \in DiagnosticSpan : e = d
  BY <1>3
<1>c. /\ cursor' = [has_source |-> TRUE, source |-> e.source, pages_valid |-> TRUE, cursor_valid |-> TRUE,
                    offset |-> e.end, position |-> k]
      /\ e.source \in LocatedSource /\ e.end \in Nat /\ e.end <= Len(text'[e.source]) /\ shape'[e.source] = "good"
      /\ k = Position(e.source, e.end)'
  BY <1>1, <1>3, <1>5, <1>7, <1>10, <1>a, <1>b
<1>d. CursorInv'
  <2>1. cursor' \in [has_source : BOOLEAN, source : LocatedSource, pages_valid : BOOLEAN, cursor_valid : BOOLEAN,
                     offset : Nat, position : Place]
    BY <1>c
  <2>2. cursor'.offset <= Len(text'[cursor'.source])
    BY <1>c
  <2>3. cursor'.has_source /\ cursor'.pages_valid
    BY <1>c
  <2> QED
    BY <2>1, <2>2, <2>3 DEF CursorInv
<1>e. CursorIsTrue'
  <2>1. cursor'.pages_valid /\ cursor'.source = e.source /\ cursor'.offset = e.end /\ cursor'.position = k
    BY <1>c
  <2> QED
    BY <2>1, <1>c DEF CursorIsTrue
<1>11. CursorInv' /\ CursorIsTrue'
  BY <1>d, <1>e
<1>12. WalkInv'
  BY <1>1 DEF WalkInv
<1> QED
  BY <1>7, <1>9, <1>11, <1>12

\* The invariant gives the type invariant of the pass.
LEMMA LocationTypes == LocationInv => LocationTypeOK
<1> SUFFICES ASSUME LocationInv PROVE LocationTypeOK
  OBVIOUS
<1> USE DEF LocationInv
<1>1. /\ text \in [LocatedSource -> Seq(Byte)] /\ stride \in Nat \ {0}
      /\ cursor.source \in LocatedSource
      /\ cursor.offset \in 0 .. Len(text[cursor.source])
      /\ cursor.cursor_valid => cursor.has_source /\ cursor.pages_valid
  BY DEF GivenInv, CursorInv
<1>2. ASSUME walk # << >>
      PROVE  LET w == walk[1]
             IN /\ w.d.source \in LocatedSource /\ w.from <= w.to /\ w.to <= Len(text[w.d.source])
                /\ w.page \in 0 .. ScannedPages(w.d.source, w.to)
                /\ OnTheWay => w.byte \in 0 .. Len(Page(w.d.source, w.page))
  <2> DEFINE w == walk[1]
             s == w.d.source
  <2>1. w \in WalkRecord /\ LegInv(w) /\ ProgressInv(w)
    BY <1>2 DEF WalkInv
  <2>2. /\ w.page \in Nat /\ w.byte \in Nat /\ w.to \in Nat /\ w.from \in Nat /\ w.d \in DiagnosticSpan
        /\ s \in LocatedSource /\ w.from <= w.to /\ w.to <= Len(text[s])
    BY <2>1 DEF WalkRecord, LegInv, DiagnosticSpan, GivenInv
  <2>3. w.page \in 0 .. ScannedPages(s, w.to)
    BY <2>1, <2>2, ScannedFacts DEF ProgressInv
  <2>4. ASSUME OnTheWay PROVE w.byte \in 0 .. Len(Page(s, w.page))
    <3>1. w.page < ScannedPages(s, w.to) /\ Offset(w) <= w.to /\ Offset(w) <= (w.page + 1) * stride
      BY <2>1, <2>4 DEF OnTheWay, ProgressInv, Ahead
    <3>2. /\ w.page * stride \in Nat /\ PageFinish(s, w.page, w.to) \in Nat
          /\ Len(Page(s, w.page)) \in Nat /\ PageFinish(s, w.page, w.to) <= Len(Page(s, w.page))
          /\ w.page + 1 < ScannedPages(s, w.to) => w.page * stride + PageFinish(s, w.page, w.to) = (w.page + 1) * stride
          /\ w.page + 1 = ScannedPages(s, w.to) => w.page * stride + PageFinish(s, w.page, w.to) = w.to
      <4>1. PICK p \in Nat : p = w.page
        BY <2>2
      <4>2. PICK to \in Nat : to = w.to
        BY <2>2
      <4>3. PICK x \in LocatedSource : x = s
        BY <2>2
      <4>4. GivenInv /\ to <= Len(text[x]) /\ p < ScannedPages(x, to)
        BY <3>1, <2>2, <4>1, <4>2, <4>3
      <4>5. /\ p * stride \in Nat /\ PageFinish(x, p, to) \in Nat
            /\ Len(Page(x, p)) \in Nat /\ PageFinish(x, p, to) <= Len(Page(x, p))
            /\ p + 1 < ScannedPages(x, to) => p * stride + PageFinish(x, p, to) = (p + 1) * stride
            /\ p + 1 = ScannedPages(x, to) => p * stride + PageFinish(x, p, to) = to
        <5> HIDE DEF LocationInv
        <5> QED
          BY <4>4, PageFacts
      <4> QED
        BY <4>1, <4>2, <4>3, <4>5
    <3>3. ScannedPages(s, w.to) \in Nat
      BY <2>2, ScannedFacts
    <3> QED
      BY <3>1, <3>2, <3>3, <2>2, SMTT(60) DEF Offset
  <2> QED
    BY <2>2, <2>3, <2>4
<1> QED
  BY <1>1, <1>2 DEF LocationTypeOK

(***************************************************************************)
(* locate_project_diagnostics_global, for every project, stride and order  *)
(* of diagnostics: the cursor carried along gives every span the line and  *)
(* column that a count from the start of its source gives, and a           *)
(* diagnostic is placed exactly when its source is whole and holds it.     *)
(***************************************************************************)
THEOREM LocationsExact == Spec => []DiagnosticsAreLocated
<1> DEFINE I == native = "locations" => LocationInv
<1>1. Init => I
  BY LocationStart DEF Init
<1>2. I /\ [Next]_<< native, resolutionVars, closureVars, locationVars, classifierVars >> => I'
  <2> SUFFICES ASSUME I, native' = "locations",
                      [Next]_<< native, resolutionVars, closureVars, locationVars, classifierVars >>
               PROVE  LocationInv'
    OBVIOUS
  <2>1. CASE Next
    <3>1. native = "locations" /\ LocationNext
      BY <2>1 DEF Next
    <3>2. LocationInv
      BY <3>1
    <3> QED
      BY <3>1, <3>2, StepUnmapped, StepBeginWalk, StepWalkByte, StepWalkPage, StepStartReached, StepEndReached
      DEF LocationNext
  <2>2. CASE UNCHANGED << native, resolutionVars, closureVars, locationVars, classifierVars >>
    <3>1. LocationInv /\ UNCHANGED << text, stride, shape, cursor, walk, last >>
      BY <2>2 DEF locationVars
    <3>2. /\ GivenInv' /\ (\A x, n : Position(x, n)' = Position(x, n))
          /\ \A x, to : ScannedPages(x, to)' = ScannedPages(x, to)
      BY <3>1, GivenStays DEF LocationInv
    <3>3. WalkInv'
      BY <3>1, <3>2 DEF LocationInv, WalkInv, LegInv, MarkInv, ProgressInv, Ahead, Offset
    <3>4. CursorInv' /\ CursorIsTrue' /\ LocationsAreExact'
      BY <3>1, <3>2 DEF LocationInv, CursorInv, CursorIsTrue, LocationsAreExact
    <3> QED
      BY <3>2, <3>3, <3>4 DEF LocationInv
  <2> QED
    BY <2>1, <2>2
<1>3. I => DiagnosticsAreLocated
  BY LocationTypes DEF DiagnosticsAreLocated, LocationInv
<1> QED
  BY <1>1, <1>2, <1>3, PTL DEF Spec

=============================================================================
