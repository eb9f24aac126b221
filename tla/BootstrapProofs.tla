--------------------------- MODULE BootstrapProofs ---------------------------
(***************************************************************************)
(* Provisioning loses nothing and returns the pinned probe, for any number *)
(* of processes, revisions, interruptions and edits of the lock file.      *)
(***************************************************************************)
EXTENDS Bootstrap, TLAPS

(***************************************************************************)
(* The inductive invariant.                                                *)
(***************************************************************************)
Labels == Script \union {"idle", "wait", "recheck", "returned"}

Typed ==
    /\ lock \in Revision
    /\ boot \in Tree /\ stage \in [Revision -> Tree] /\ old \subseteq Tree /\ ext \in Target
    /\ pc \in [Process -> Labels]
    /\ \A p \in Process : pc[p] \in Script <=> holder = p
    /\ dest \in {"boot", "stage"} /\ told \in {"none", "boot", "stage"}
    /\ stops \in 0 .. MaxStops /\ repins \in 0 .. MaxRepins

\* A tree staged or archived under a revision's name is marked with that
\* revision, or its extraction did not get as far as the mark.
StageInv == \A r \in Revision : stage[r].mark \in {None, Empty, r}

\* What the process inside the script knows of the trees at each of its steps.
\* Nobody else changes a tree, or the lock file, while it is there.
PhaseInv(p) ==
    /\ pc[p] = "extract" => DestTree.mark = None
    /\ pc[p] = "mark" => DestTree.mark \in {None, Empty}
    /\ pc[p] \in {"extract", "mark"} /\ dest = "stage" => boot.mark # lock
    /\ pc[p] = "archive" => boot.mark # lock /\ stage[lock].mark = lock
    /\ pc[p] = "install" => boot = NoTree /\ stage[lock].mark = lock
    /\ pc[p] \in {"clean", "build", "marker", "retire"} => boot.mark = lock

Inv == Typed /\ StageInv /\ \A p \in Process : PhaseInv(p)

\* With the target inside the tree, a target marker and a probe are those of the
\* revision the tree is marked with, wherever the tree has been moved to.
Coherent(tree) ==
    /\ tree.target.marker # None => tree.target.marker = tree.mark
    /\ tree.target.bin # None => tree.target.bin = tree.mark
    /\ tree.mark \notin Revision => tree.target = NoTarget

TreesInv ==
    /\ Coherent(boot)
    /\ \A r \in Revision : Coherent(stage[r])
    /\ \A tree \in old : Coherent(tree)

ReturnedInv == \A p \in Process : pc[p] = "returned" => Provisioned

PinnedInv == TreesInv /\ ReturnedInv

(***************************************************************************)
(* Who is inside the script, and who may change what.                      *)
(***************************************************************************)

\* bootstrap.sh runs in one process at a time.
LEMMA Alone ==
    ASSUME Typed, NEW p \in Process, pc[p] \in Script
    PROVE  holder = p /\ \A q \in Process \ {p} : pc[q] \notin Script
BY DEF Typed

\* With the lock free nobody is inside.
LEMMA Nobody ==
    ASSUME Typed, holder = None
    PROVE  \A q \in Process : pc[q] \notin Script
BY BootstrapAssumption DEF Typed

\* Outside the script, and at its first two steps, nothing is known of the trees.
LEMMA KnowsNothing ==
    ASSUME NEW q \in Process, pc[q]' \notin Script \ {"provision", "compare"}
    PROVE  PhaseInv(q)'
BY DEF PhaseInv, Script

\* A step inside the script keeps Inv if it keeps the types and what it knows.
LEMMA Inside ==
    ASSUME Inv, NEW p \in Process, pc[p] \in Script, Typed', StageInv', PhaseInv(p)',
           NEW label, Goto(p, label)
    PROVE  Inv'
<1>1. ASSUME NEW q \in Process \ {p} PROVE PhaseInv(q)'
  <2>1. pc'[q] = pc[q] /\ pc[q] \notin Script
    BY Alone DEF Inv, Typed, Goto
  <2> QED
    BY <2>1, KnowsNothing
<1> QED
  BY <1>1 DEF Inv

\* A step of p that leaves the disk and the environment, and takes p to a place
\* where it knows nothing, keeps Inv.
LEMMA Move ==
    ASSUME Inv, NEW p \in Process, NEW label \in Labels, Goto(p, label),
           UNCHANGED <<boot, stage, old, ext, lock, dest>>,
           label \notin Script \ {"provision", "compare"}, Typed'
    PROVE  Inv'
<1>1. pc'[p] = label /\ \A q \in Process \ {p} : pc'[q] = pc[q]
  BY DEF Inv, Typed, Goto
<1>2. PhaseInv(p)'
  BY <1>1, KnowsNothing
<1>3. ASSUME NEW q \in Process \ {p} PROVE PhaseInv(q)'
  BY <1>1 DEF Inv, PhaseInv, DestTree
<1>4. StageInv'
  BY DEF Inv, StageInv
<1> QED
  BY <1>2, <1>3, <1>4 DEF Inv

(***************************************************************************)
(* Every step keeps Inv.                                                   *)
(***************************************************************************)

\* The harness, the lock, and interruptions.
LEMMA HarnessInv ==
    ASSUME Inv, NEW p \in Process, Ensure(p) \/ Recheck(p) \/ Leave(p) \/ Flock(p) \/ Stop(p)
    PROVE  Inv'
<1>1. UNCHANGED <<boot, stage, old, ext, lock, dest>>
  BY DEF Ensure, Recheck, Leave, Flock, Stop, Disk, Env
<1>2. PICK label \in {"idle", "wait", "recheck", "returned", "provision"} : Goto(p, label)
  BY DEF Ensure, Recheck, Leave, Flock, Stop
<1>3. label \in Labels /\ label \notin Script \ {"provision", "compare"}
  BY DEF Labels, Script
<1>4. Typed'
  <2>1. pc' \in [Process -> Labels]
    BY <1>2, <1>3 DEF Inv, Typed, Goto
  <2>2. told' = told /\ stops' \in 0 .. MaxStops /\ repins' = repins
    BY BootstrapAssumption DEF Inv, Typed, Ensure, Recheck, Leave, Flock, Stop, Env
  <2>3. \A q \in Process : pc'[q] \in Script <=> holder' = q
    <3>1. CASE Ensure(p) \/ Recheck(p) \/ Leave(p)
      BY <3>1 DEF Inv, Typed, Ensure, Recheck, Leave, Goto, At, Script
    <3>2. CASE Flock(p)
      BY <3>2, Nobody DEF Inv, Typed, Flock, Goto, At, Script
    <3>3. CASE Stop(p)
      BY <3>3, BootstrapAssumption DEF Inv, Typed, Stop, Goto, Script
    <3> QED
      BY <3>1, <3>2, <3>3
  <2> QED
    BY <1>1, <2>1, <2>2, <2>3 DEF Inv, Typed
<1> QED
  BY <1>1, <1>2, <1>3, <1>4, Move

\* exit 1 with a message.
LEMMA RefuseInv ==
    ASSUME Inv, NEW p \in Process, pc[p] \in Script, NEW tree \in {"boot", "stage"}, Refuse(p, tree)
    PROVE  Inv'
<1>1. UNCHANGED <<boot, stage, old, ext, lock, dest, stops, repins>>
  BY DEF Refuse, Disk
<1>2. pc' = [pc EXCEPT ![p] = "idle"] /\ holder' = None /\ told' = tree /\ Goto(p, "idle")
  BY DEF Refuse, Goto
<1>3. \A q \in Process : pc'[q] \notin Script /\ holder' # q
  BY <1>2, Alone, BootstrapAssumption DEF Inv, Typed, Script
<1>4. "idle" \in Labels /\ "idle" \notin Script
  BY DEF Labels, Script
<1>5. Typed'
  BY <1>1, <1>2, <1>3, <1>4 DEF Inv, Typed
<1> QED
  BY <1>1, <1>2, <1>4, <1>5, Move

\* A step within the script keeps the types of the rest.
LEMMA ScriptTyped ==
    ASSUME Typed, NEW p \in Process, pc[p] \in Script, NEW label \in Script, Goto(p, label),
           UNCHANGED <<Env, holder>>, dest' \in {"boot", "stage"},
           boot' \in Tree, stage' \in [Revision -> Tree], old' \subseteq Tree, ext' \in Target
    PROVE  Typed'
<1>1. pc' \in [Process -> Labels]
  BY DEF Typed, Goto, Labels
<1>2. \A q \in Process : pc'[q] \in Script <=> holder' = q
  BY DEF Typed, Goto
<1> QED
  BY <1>1, <1>2 DEF Typed, Env

LEMMA ProvisionInv ==
    ASSUME Inv, NEW p \in Process, Provision(p)
    PROVE  Inv'
<1>1. pc[p] = "provision" /\ pc[p] \in Script /\ {"compare", "extract"} \subseteq Script
  BY DEF Provision, At, Script
<1>2. CASE boot.mark # None /\ Goto(p, "compare") /\ UNCHANGED <<Disk, Env, holder, dest>>
  <2>1. Typed'
    BY <1>1, <1>2, ScriptTyped DEF Inv, Typed, Disk
  <2> QED
    BY <1>1, <1>2, <2>1, Move DEF Disk, Env, Labels
<1>3. CASE Refuse(p, "boot")
  BY <1>1, <1>3, RefuseInv
<1>4. CASE boot.mark = None /\ dest' = "boot" /\ Goto(p, "extract") /\ UNCHANGED <<Disk, Env, holder>>
  <2>1. Typed'
    BY <1>1, <1>4, ScriptTyped DEF Inv, Typed, Disk
  <2>2. pc'[p] = "extract"
    BY <1>4 DEF Inv, Typed, Goto
  <2>3. PhaseInv(p)'
    BY <1>4, <2>2 DEF PhaseInv, DestTree, Disk
  <2>4. StageInv'
    BY <1>4 DEF Inv, StageInv, Disk, Env
  <2> QED
    BY <1>1, <1>4, <2>1, <2>3, <2>4, Inside
<1> QED
  BY <1>2, <1>3, <1>4 DEF Provision

LEMMA CompareInv ==
    ASSUME Inv, NEW p \in Process, Compare(p)
    PROVE  Inv'
<1>1. pc[p] = "compare" /\ pc[p] \in Script /\ {"clean", "archive", "extract"} \subseteq Script
  BY DEF Compare, At, Script
<1>2. CASE Refuse(p, "stage")
  BY <1>1, <1>2, RefuseInv
<1>3. ASSUME NEW label \in {"clean", "archive", "extract"}, Goto(p, label),
             UNCHANGED <<Disk, Env, holder>>, dest' \in {"boot", "stage"},
             label = "clean" => boot.mark = lock,
             label = "archive" => boot.mark # lock /\ stage[lock].mark = lock,
             label = "extract" => boot.mark # lock /\ stage[lock].mark = None /\ dest' = "stage"
      PROVE  Inv'
  <2>1. Typed'
    BY <1>1, <1>3, ScriptTyped DEF Inv, Typed, Disk
  <2>2. pc'[p] = label
    BY <1>3 DEF Inv, Typed, Goto
  <2>3. PhaseInv(p)'
    BY <1>3, <2>2 DEF PhaseInv, DestTree, Disk, Env
  <2>4. StageInv'
    BY <1>3 DEF Inv, StageInv, Disk, Env
  <2> QED
    BY <1>1, <1>3, <2>1, <2>3, <2>4, Inside
<1> QED
  BY <1>2, <1>3 DEF Compare, Inv, Typed

\* The tree that is being extracted is a tree, and one of its fields can be set.
LEMMA DestTyped ==
    ASSUME Typed
    PROVE  /\ DestTree \in Tree
           /\ \A f \in {"partial", "manifest", "full"} : [DestTree EXCEPT !.files = f] \in Tree
           /\ \A m \in Mark : [DestTree EXCEPT !.mark = m] \in Tree
<1>1. DestTree \in Tree
  BY DEF Typed, DestTree
<1> HIDE DEF DestTree
<1> QED
  BY <1>1 DEF Tree

\* Setting the destination keeps the types; and the other tree is as it was.
LEMMA SetDestParts ==
    ASSUME Typed, NEW tree \in Tree, SetDest(tree)
    PROVE  /\ boot' \in Tree /\ stage' \in [Revision -> Tree] /\ old' = old /\ ext' = ext
           /\ dest = "boot" => boot' = tree /\ stage' = stage
           /\ dest = "stage" => boot' = boot /\ stage' = [stage EXCEPT ![lock] = tree]
BY DEF Typed, SetDest

LEMMA ExtractInv ==
    ASSUME Inv, NEW p \in Process, Extract(p)
    PROVE  Inv'
<1>1. pc[p] = "extract" /\ pc[p] \in Script /\ {"mark", "extract"} \subseteq Script
  BY DEF Extract, At, Script
<1>2. PICK more \in {"partial", "manifest", "full"} :
        /\ SetDest([DestTree EXCEPT !.files = more])
        /\ Goto(p, IF more = "full" THEN "mark" ELSE "extract")
  BY DEF Extract
<1> DEFINE tree == [DestTree EXCEPT !.files = more]
           label == IF more = "full" THEN "mark" ELSE "extract"
<1>3. UNCHANGED <<Env, holder, dest>> /\ lock' = lock /\ dest' = dest
  BY DEF Extract, Env
<1>4. tree \in Tree /\ tree.mark = None /\ DestTree \in Tree
  BY <1>1, DestTyped DEF Inv, PhaseInv, Tree
<1>5. /\ boot' \in Tree /\ stage' \in [Revision -> Tree] /\ old' = old /\ ext' = ext
      /\ dest = "boot" => boot' = tree /\ stage' = stage
      /\ dest = "stage" => boot' = boot /\ stage' = [stage EXCEPT ![lock] = tree]
  BY <1>2, <1>4, SetDestParts DEF Inv
<1> HIDE DEF tree
<1>6. Typed'
  BY <1>1, <1>2, <1>3, <1>5, ScriptTyped DEF Inv, Typed
<1>7. pc'[p] = label
  BY <1>2 DEF Inv, Typed, Goto
<1>8. dest \in {"boot", "stage"} /\ lock \in Revision /\ stage \in [Revision -> Tree]
  BY DEF Inv, Typed
<1>9. DestTree' = tree
  BY <1>3, <1>5, <1>8 DEF DestTree
<1>10. dest = "stage" => boot'.mark # lock
  BY <1>1, <1>5 DEF Inv, PhaseInv
<1>11. PhaseInv(p)'
  BY <1>3, <1>4, <1>7, <1>9, <1>10 DEF PhaseInv
<1>12. StageInv'
  BY <1>3, <1>4, <1>5, <1>8 DEF Inv, StageInv
<1> QED
  BY <1>1, <1>2, <1>6, <1>11, <1>12, Inside

LEMMA WriteRevisionInv ==
    ASSUME Inv, NEW p \in Process, WriteRevision(p)
    PROVE  Inv'
<1>1. pc[p] = "mark" /\ pc[p] \in Script /\ {"mark", "compare", "archive"} \subseteq Script
  BY DEF WriteRevision, At, Script
<1>2. UNCHANGED <<Env, holder, dest>> /\ lock' = lock /\ dest' = dest
  BY DEF WriteRevision, Env
<1>3. PICK m \in {Empty, lock}, label \in {"mark", "compare", "archive"} :
        /\ SetDest([DestTree EXCEPT !.mark = m])
        /\ Goto(p, label)
        /\ label = "mark" => m = Empty
        /\ label = "archive" => m = lock /\ dest = "stage"
  <2>1. CASE DestTree.mark = None
    <3>1. Goto(p, "mark")
      BY <1>1, <2>1 DEF WriteRevision, Inv, Typed, Goto
    <3> QED
      BY <2>1, <3>1 DEF WriteRevision
  <2>2. CASE DestTree.mark # None
    BY <2>2 DEF WriteRevision, Inv, Typed
  <2> QED
    BY <2>1, <2>2
<1> DEFINE tree == [DestTree EXCEPT !.mark = m]
<1>4. m \in Mark
  BY DEF Inv, Typed, Mark
<1>5. tree \in Tree /\ tree.mark = m
  BY <1>4, DestTyped DEF Inv, Tree
<1>6. /\ boot' \in Tree /\ stage' \in [Revision -> Tree] /\ old' = old /\ ext' = ext
      /\ dest = "boot" => boot' = tree /\ stage' = stage
      /\ dest = "stage" => boot' = boot /\ stage' = [stage EXCEPT ![lock] = tree]
  BY <1>3, <1>5, SetDestParts DEF Inv
<1> HIDE DEF tree
<1>7. Typed'
  BY <1>1, <1>2, <1>3, <1>6, ScriptTyped DEF Inv, Typed
<1>8. pc'[p] = label
  BY <1>3 DEF Inv, Typed, Goto
<1>9. dest \in {"boot", "stage"} /\ lock \in Revision /\ stage \in [Revision -> Tree]
  BY DEF Inv, Typed
<1>10. DestTree' = tree /\ (dest = "stage" => stage'[lock] = tree)
  BY <1>2, <1>6, <1>9 DEF DestTree
<1>11. dest = "stage" => boot'.mark # lock
  BY <1>1, <1>6 DEF Inv, PhaseInv
<1>12. PhaseInv(p)'
  BY <1>2, <1>3, <1>5, <1>8, <1>10, <1>11 DEF PhaseInv
<1>13. StageInv'
  BY <1>2, <1>5, <1>6, <1>9 DEF Inv, StageInv
<1> QED
  BY <1>1, <1>3, <1>7, <1>12, <1>13, Inside

\* There is no tree where NoTree is.
LEMMA NoTreeParts ==
    /\ NoTree \in Tree /\ NoTarget \in Target
    /\ NoTree.mark = None /\ NoTree.target = NoTarget
    /\ NoTarget.marker = None /\ NoTarget.bin = None
BY DEF NoTree, NoTarget, Tree, Target, Mark

LEMMA ArchiveInv ==
    ASSUME Inv, NEW p \in Process, Archive(p)
    PROVE  Inv'
<1>1. pc[p] = "archive" /\ pc[p] \in Script /\ "install" \in Script
  BY DEF Archive, At, Script
<1>2. boot' = NoTree /\ Goto(p, "install") /\ UNCHANGED <<ext, Env, holder, dest>> /\ lock' = lock
  BY DEF Archive, Env
<1>3. boot.mark # lock /\ stage[lock].mark = lock
  BY <1>1 DEF Inv, PhaseInv
<1>4. \/ boot.mark \in Revision /\ stage' = [stage EXCEPT ![boot.mark] = boot] /\ old' = old
      \/ stage' = stage /\ old' = old \union {boot}
  BY DEF Archive
<1>5. stage' \in [Revision -> Tree] /\ old' \subseteq Tree
  BY <1>4 DEF Inv, Typed
<1>6. Typed'
  BY <1>1, <1>2, <1>5, NoTreeParts, ScriptTyped DEF Inv, Typed
<1>7. stage'[lock] = stage[lock]
  BY <1>3, <1>4 DEF Inv, Typed
<1>8. pc'[p] = "install"
  BY <1>2 DEF Inv, Typed, Goto
<1>9. PhaseInv(p)'
  BY <1>2, <1>3, <1>7, <1>8 DEF PhaseInv
<1>10. StageInv'
  BY <1>4 DEF Inv, Typed, StageInv
<1> QED
  BY <1>1, <1>2, <1>6, <1>9, <1>10, Inside

LEMMA InstallInv ==
    ASSUME Inv, NEW p \in Process, Install(p)
    PROVE  Inv'
<1>1. pc[p] = "install" /\ pc[p] \in Script /\ "clean" \in Script
  BY DEF Install, At, Script
<1>2. /\ boot' = stage[lock] /\ stage' = [stage EXCEPT ![lock] = NoTree]
      /\ Goto(p, "clean") /\ UNCHANGED <<old, ext, Env, holder, dest>> /\ lock' = lock
  BY DEF Install, Env
<1>3. stage[lock].mark = lock
  BY <1>1 DEF Inv, PhaseInv
<1>4. Typed'
  BY <1>1, <1>2, NoTreeParts, ScriptTyped DEF Inv, Typed
<1>5. pc'[p] = "clean"
  BY <1>2 DEF Inv, Typed, Goto
<1>6. PhaseInv(p)'
  BY <1>2, <1>3, <1>5 DEF PhaseInv
<1>7. StageInv'
  BY <1>2, NoTreeParts DEF Inv, Typed, StageInv
<1> QED
  BY <1>1, <1>2, <1>4, <1>6, <1>7, Inside

\* cargo clean, the builds and the marker change the target only, and each
\* leaves in it the revision that the tree is marked with.
LEMMA TargetParts ==
    ASSUME Inv, NEW p \in Process, Clean(p) \/ Build(p) \/ WriteMarker(p)
    PROVE  /\ pc[p] \in {"clean", "build", "marker"} /\ boot.mark = lock /\ lock \in Revision
           /\ UNCHANGED <<stage, old, lock, dest, Env, holder>>
           /\ \E label \in {"build", "marker", "retire"} : Goto(p, label)
           /\ TheTarget \in Target
           /\ \/ UNCHANGED <<boot, ext>>
              \/ \E t \in Target :
                    /\ SetTarget(t)
                    /\ \/ TheTarget.marker # lock /\ t = [TheTarget EXCEPT !.bin = None]
                       \/ t = [TheTarget EXCEPT !.bin = lock]
                       \/ t = [TheTarget EXCEPT !.marker = lock] /\ pc[p] = "marker"
<1>1. pc[p] \in {"clean", "build", "marker"} /\ boot.mark = lock /\ lock \in Revision
  BY DEF Clean, Build, WriteMarker, At, Inv, Typed, PhaseInv
<1>2. /\ UNCHANGED <<stage, old, lock, dest, Env, holder>>
      /\ \E label \in {"build", "marker", "retire"} : Goto(p, label)
  BY DEF Clean, Build, WriteMarker, Env
<1>3. TheTarget \in Target
  BY BootstrapAssumption DEF Inv, Typed, TheTarget, Tree
<1>4. /\ [TheTarget EXCEPT !.bin = None] \in Target
      /\ [TheTarget EXCEPT !.bin = lock] \in Target
      /\ [TheTarget EXCEPT !.marker = lock] \in Target
  <2> HIDE DEF TheTarget
  <2> QED
    BY <1>1, <1>3 DEF Target
<1>5. \/ UNCHANGED <<boot, ext>>
      \/ TheTarget.marker # lock /\ SetTarget([TheTarget EXCEPT !.bin = None])
      \/ SetTarget([TheTarget EXCEPT !.bin = lock])
      \/ SetTarget([TheTarget EXCEPT !.marker = lock]) /\ pc[p] = "marker"
  <2>1. CASE Clean(p)
    BY <2>1 DEF Clean
  <2>2. CASE Build(p)
    BY <1>1, <2>2 DEF Build
  <2>3. CASE WriteMarker(p)
    BY <2>3 DEF WriteMarker, At
  <2> QED
    BY <2>1, <2>2, <2>3
<1> QED
  BY <1>1, <1>2, <1>3, <1>4, <1>5

LEMMA TargetInv ==
    ASSUME Inv, NEW p \in Process, Clean(p) \/ Build(p) \/ WriteMarker(p)
    PROVE  Inv'
<1>1. /\ pc[p] \in {"clean", "build", "marker"} /\ boot.mark = lock
      /\ UNCHANGED <<stage, old, lock, dest, Env, holder>>
  BY TargetParts
<1>2. PICK label \in {"build", "marker", "retire"} : Goto(p, label)
  BY TargetParts
<1>3. UNCHANGED <<boot, ext>> \/ \E t \in Target : SetTarget(t)
  BY TargetParts
<1>4. boot' \in Tree /\ ext' \in Target /\ boot'.mark = boot.mark
  <2>1. boot \in Tree /\ ext \in Target
    BY DEF Inv, Typed
  <2>2. CASE UNCHANGED <<boot, ext>>
    BY <2>1, <2>2
  <2>3. ASSUME NEW t \in Target, SetTarget(t) PROVE boot' \in Tree /\ ext' \in Target /\ boot'.mark = boot.mark
    BY <2>1, <2>3 DEF SetTarget, Tree
  <2> QED
    BY <1>3, <2>2, <2>3
<1>5. pc[p] \in Script /\ label \in Script
  BY <1>1 DEF Script
<1>6. Typed'
  BY <1>1, <1>2, <1>4, <1>5, ScriptTyped DEF Inv, Typed
<1>7. pc'[p] = label
  BY <1>2 DEF Inv, Typed, Goto
<1>8. PhaseInv(p)'
  BY <1>1, <1>4, <1>7 DEF PhaseInv
<1>9. StageInv'
  BY <1>1 DEF Inv, StageInv
<1> QED
  BY <1>2, <1>5, <1>6, <1>8, <1>9, Inside

\* Retirement takes nothing but the target from a tree.
LEMMA WithoutTargetParts ==
    ASSUME NEW tree \in Tree
    PROVE  /\ WithoutTarget(tree) \in Tree
           /\ WithoutTarget(tree).mark = tree.mark /\ WithoutTarget(tree).files = tree.files
           /\ WithoutTarget(tree).target = NoTarget
BY NoTreeParts DEF WithoutTarget, Tree

LEMMA RetireParts ==
    ASSUME Typed, RetireTargets
    PROVE  /\ boot' = boot /\ stage' \in [Revision -> Tree] /\ old' \subseteq Tree
           /\ \A r \in Revision : /\ stage'[r].mark = stage[r].mark /\ stage'[r].files = stage[r].files
                                  /\ stage'[r].target \in {stage[r].target, NoTarget}
           /\ \A tree \in old : \E new \in old' : new.mark = tree.mark /\ new.files = tree.files
           /\ \A new \in old' : \E tree \in old :
                new.mark = tree.mark /\ new.target \in {tree.target, NoTarget}
<1> DEFINE Kept(tree) == IF tree.mark \in Revision /\ HasManifest(tree) THEN WithoutTarget(tree) ELSE tree
<1>1. ASSUME NEW tree \in Tree
      PROVE  /\ Kept(tree) \in Tree /\ Kept(tree).mark = tree.mark /\ Kept(tree).files = tree.files
             /\ Kept(tree).target \in {tree.target, NoTarget}
  BY WithoutTargetParts
<1>2. ASSUME NEW r \in Revision
      PROVE  /\ stage'[r] \in Tree
             /\ stage'[r].mark = stage[r].mark /\ stage'[r].files = stage[r].files
             /\ stage'[r].target \in {stage[r].target, NoTarget}
  <2>1. stage[r] \in Tree
    BY DEF Typed
  <2>2. stage'[r] = WithoutTarget(stage[r]) \/ stage'[r] = stage[r]
    BY DEF RetireTargets
  <2> QED
    BY <2>1, <2>2, WithoutTargetParts
<1>3. boot' = boot /\ stage' \in [Revision -> Tree]
  BY <1>2 DEF RetireTargets
<1>4. old' = {Kept(tree) : tree \in old} /\ old \subseteq Tree
  BY DEF RetireTargets, Typed
<1> HIDE DEF Kept
<1>5. old' \subseteq Tree
  BY <1>1, <1>4
<1>6. \A tree \in old : \E new \in old' : new.mark = tree.mark /\ new.files = tree.files
  BY <1>1, <1>4
<1>7. \A new \in old' : \E tree \in old : new.mark = tree.mark /\ new.target \in {tree.target, NoTarget}
  BY <1>1, <1>4
<1> QED
  BY <1>2, <1>3, <1>5, <1>6, <1>7

\* The script's end, and retirement on its own.
LEMMA RetireInv ==
    ASSUME Inv, NEW p \in Process, Retire(p)
    PROVE  Inv'
<1>1. pc[p] = "retire" /\ pc[p] \in Script
  BY DEF Retire, At, Script
<1>2. /\ pc' = [pc EXCEPT ![p] = "recheck"] /\ holder' = None
      /\ UNCHANGED <<ext, Env, dest, lock, told, stops, repins>>
  BY DEF Retire, Env, Goto
<1>3. boot' = boot /\ stage' \in [Revision -> Tree] /\ old' \subseteq Tree
      /\ \A r \in Revision : stage'[r].mark = stage[r].mark
  BY RetireParts DEF Retire, Inv, Typed
<1>4. \A q \in Process : pc'[q] \notin Script /\ holder' # q
  BY <1>1, <1>2, Alone, BootstrapAssumption DEF Inv, Typed, Script
<1>5. pc' \in [Process -> Labels]
  BY <1>2 DEF Inv, Typed, Labels
<1>6. Typed'
  BY <1>2, <1>3, <1>4, <1>5 DEF Inv, Typed
<1>7. StageInv'
  BY <1>3 DEF Inv, StageInv
<1> QED
  BY <1>4, <1>6, <1>7, KnowsNothing DEF Inv

LEMMA SurroundingsInv ==
    ASSUME Inv, RetireOnly \/ Repin \/ Remove
    PROVE  Inv'
<1>1. \A q \in Process : pc'[q] \notin Script
  BY Nobody DEF RetireOnly, Repin, Remove, Quiet, Inv, Script
<1>2. \A q \in Process : PhaseInv(q)'
  BY <1>1, KnowsNothing
<1>3. UNCHANGED <<pc, holder, dest, ext>>
  BY DEF RetireOnly, Repin, Remove, Disk
<1>4. CASE RetireOnly
  <2>1. boot' = boot /\ stage' \in [Revision -> Tree] /\ old' \subseteq Tree
        /\ \A r \in Revision : stage'[r].mark = stage[r].mark
    BY <1>4, RetireParts DEF RetireOnly, Inv
  <2>2. Typed'
    BY <1>3, <1>4, <2>1 DEF Inv, Typed, RetireOnly, Env
  <2> QED
    BY <1>2, <2>1, <2>2 DEF Inv, StageInv
<1>5. CASE Repin
  <2>1. lock' \in Revision /\ repins' \in 0 .. MaxRepins
    BY <1>5, BootstrapAssumption DEF Repin, Inv, Typed
  <2>2. Typed'
    BY <1>3, <1>5, <2>1 DEF Inv, Typed, Repin, Disk
  <2>3. StageInv'
    BY <1>5 DEF Inv, StageInv, Repin, Disk
  <2> QED
    BY <1>2, <2>2, <2>3 DEF Inv
<1>6. CASE Remove
  <2>1. boot' \in Tree /\ stage' \in [Revision -> Tree]
        /\ \A r \in Revision : stage'[r].mark \in {None, stage[r].mark}
    BY <1>6, NoTreeParts DEF Remove, Inv, Typed
  <2>2. Typed'
    BY <1>3, <1>6, <2>1 DEF Inv, Typed, Remove
  <2>3. StageInv'
    BY <2>1 DEF Inv, StageInv
  <2> QED
    BY <1>2, <2>2, <2>3 DEF Inv
<1> QED
  BY <1>4, <1>5, <1>6

LEMMA InitInv == Init => Inv
<1> SUFFICES ASSUME Init PROVE Inv
  OBVIOUS
<1>1. \A p \in Process : pc[p] = "idle" /\ holder # p
  BY BootstrapAssumption DEF Init
<1>2. Typed
  BY <1>1, NoTreeParts, BootstrapAssumption DEF Init, Typed, Labels, Script
<1>3. StageInv
  BY NoTreeParts DEF Init, StageInv
<1> QED
  BY <1>1, <1>2, <1>3 DEF Inv, PhaseInv

LEMMA StepInv == Inv /\ [Next]_vars => Inv'
<1> SUFFICES ASSUME Inv, [Next]_vars PROVE Inv'
  OBVIOUS
<1>1. CASE UNCHANGED vars
  BY <1>1 DEF vars, Inv, Typed, StageInv, PhaseInv, DestTree
<1>2. ASSUME NEW p \in Process, Ensure(p) \/ Stop(p) PROVE Inv'
  BY <1>2, HarnessInv
<1>3. ASSUME NEW p \in Process, Step(p) PROVE Inv'
  BY <1>3, HarnessInv, ProvisionInv, ExtractInv, WriteRevisionInv, CompareInv, ArchiveInv,
     InstallInv, TargetInv, RetireInv DEF Step
<1>4. CASE RetireOnly \/ Repin \/ Remove
  BY <1>4, SurroundingsInv
<1> QED
  BY <1>1, <1>2, <1>3, <1>4 DEF Next

\* The invariant holds in every reachable state, wherever the target lies.
THEOREM ScriptInv == Spec => []Inv
BY InitInv, StepInv, PTL DEF Spec

\* Every variable keeps its type, and a process is inside bootstrap.sh exactly
\* when it holds the lock.
THEOREM TypeCorrect == Spec => []TypeOK
<1>1. Inv => TypeOK
  BY DEF Inv, Typed, TypeOK, Labels
<1> QED
  BY <1>1, ScriptInv, PTL

(***************************************************************************)
(* Nothing is taken back.                                                  *)
(***************************************************************************)

\* A marked and complete tree keeps its mark and its files, or is copied whole,
\* in every step.
LEMMA CompleteKept ==
    ASSUME Inv, [Next]_vars
    PROVE  Complete \subseteq Complete'
<1> SUFFICES ASSUME NEW r \in Complete PROVE r \in Complete'
  OBVIOUS
<1>1. r \in Revision /\ r # None /\ r # Empty /\ lock \in Revision
  BY BootstrapAssumption DEF Complete, Inv, Typed
<1> DEFINE Has(tree) == tree.mark = r /\ tree.files = "full"
<1>2. Has(boot) \/ (\E s \in Revision : Has(stage[s])) \/ (\E tree \in old : Has(tree))
  BY DEF Complete
<1>3. SUFFICES Has(boot') \/ (\E s \in Revision : Has(stage'[s])) \/ (\E tree \in old' : Has(tree))
  BY <1>1 DEF Complete
<1>4. CASE UNCHANGED <<boot, stage, old>>
  BY <1>2, <1>4
<1>5. ASSUME NEW p \in Process, Extract(p) \/ WriteRevision(p)
      PROVE  Has(boot') \/ (\E s \in Revision : Has(stage'[s])) \/ (\E tree \in old' : Has(tree))
  <2>1. PICK tree : SetDest(tree)
    BY <1>5 DEF Extract, WriteRevision
  <2>2. ~Has(DestTree)
    BY <1>1, <1>5 DEF Extract, WriteRevision, At, Inv, PhaseInv
  <2>3. CASE dest = "boot"
    BY <1>2, <2>1, <2>2, <2>3 DEF SetDest, DestTree
  <2>4. CASE dest # "boot"
    BY <1>2, <2>1, <2>2, <2>4 DEF SetDest, DestTree, Inv, Typed
  <2> QED
    BY <2>3, <2>4
<1>6. ASSUME NEW p \in Process, Archive(p)
      PROVE  Has(boot') \/ (\E s \in Revision : Has(stage'[s])) \/ (\E tree \in old' : Has(tree))
  <2>1. \/ boot.mark \in Revision /\ stage[boot.mark] = NoTree
           /\ stage' = [stage EXCEPT ![boot.mark] = boot] /\ old' = old
        \/ stage' = stage /\ old' = old \union {boot}
    BY <1>6 DEF Archive
  <2> QED
    BY <1>1, <1>2, <2>1, NoTreeParts DEF Inv, Typed
<1>7. ASSUME NEW p \in Process, Install(p)
      PROVE  Has(boot') \/ (\E s \in Revision : Has(stage'[s])) \/ (\E tree \in old' : Has(tree))
  <2>1. boot = NoTree
    BY <1>7 DEF Inv, PhaseInv, Install, At
  <2> QED
    BY <1>1, <1>2, <1>7, <2>1, NoTreeParts DEF Inv, Typed, Install
<1>8. ASSUME NEW p \in Process, Clean(p) \/ Build(p) \/ WriteMarker(p)
      PROVE  Has(boot') \/ (\E s \in Revision : Has(stage'[s])) \/ (\E tree \in old' : Has(tree))
  <2>1. stage' = stage /\ old' = old /\ (UNCHANGED <<boot, ext>> \/ \E t \in Target : SetTarget(t))
    BY <1>8, TargetParts
  <2>2. boot'.mark = boot.mark /\ boot'.files = boot.files
    BY <2>1 DEF SetTarget, Inv, Typed, Tree
  <2> QED
    BY <1>2, <2>1, <2>2
<1>9. CASE RetireTargets
  BY <1>2, <1>9, RetireParts DEF Inv
<1>10. CASE Remove
  <2>1. \A s \in Revision : Has(stage[s]) => stage[s].mark = s
    BY <1>1 DEF Inv, StageInv
  <2> QED
    BY <1>1, <1>2, <1>10, <2>1 DEF Remove
<1> QED
  BY <1>4, <1>5, <1>6, <1>7, <1>8, <1>9, <1>10 DEF Next, Step, Ensure, Recheck, Leave, Flock, Provision,
     Compare, Refuse, Retire, RetireOnly, Repin, Stop, Disk, vars

\* The target after cargo or the script has written it.
LEMMA SetTargetParts ==
    ASSUME Typed, NEW t \in Target, SetTarget(t)
    PROVE  /\ TheTarget' = t /\ boot'.mark = boot.mark
           /\ InTree => boot'.target = t
BY DEF Typed, SetTarget, TheTarget, Tree

\* Until the lock file changes, a finished provision stays: a script that is on
\* its way to replacing the tree has found it marked with another revision.
LEMMA ProvisionedKept ==
    ASSUME Inv, [Next]_vars, Provisioned, lock' = lock
    PROVE  Provisioned'
<1>1. boot.mark = lock /\ TheTarget.marker = lock /\ TheTarget.bin = lock
  BY DEF Provisioned
<1>2. lock # None /\ lock # Empty
  BY BootstrapAssumption DEF Inv, Typed
<1>3. CASE UNCHANGED <<boot, ext>>
  BY <1>3 DEF Provisioned, TheTarget
<1>4. ASSUME NEW p \in Process, Extract(p) \/ WriteRevision(p) PROVE UNCHANGED <<boot, ext>>
  <2>1. DestTree.mark # lock
    BY <1>2, <1>4 DEF Extract, WriteRevision, At, Inv, PhaseInv
  <2>2. dest # "boot"
    BY <1>1, <2>1 DEF DestTree
  <2> QED
    BY <1>4, <2>2 DEF Extract, WriteRevision, SetDest
<1>5. ASSUME NEW p \in Process PROVE ~Archive(p) /\ ~Install(p)
  BY <1>1, <1>2, NoTreeParts DEF Archive, Install, At, Inv, PhaseInv
<1>6. ASSUME NEW p \in Process, Clean(p) \/ Build(p) \/ WriteMarker(p) PROVE Provisioned'
  <2>1. CASE UNCHANGED <<boot, ext>>
    BY <1>3, <2>1
  <2>2. CASE ~UNCHANGED <<boot, ext>>
    <3>1. PICK t \in Target :
            /\ SetTarget(t)
            /\ t = [TheTarget EXCEPT !.bin = lock] \/ t = [TheTarget EXCEPT !.marker = lock]
      BY <1>1, <1>6, <2>2, TargetParts
    <3>2. TheTarget \in Target
      BY <1>6, TargetParts
    <3>3. t.marker = lock /\ t.bin = lock
      <4> HIDE DEF TheTarget
      <4> QED
        BY <1>1, <3>1, <3>2 DEF Target
    <3>4. TheTarget' = t /\ boot'.mark = boot.mark
      BY <3>1, SetTargetParts DEF Inv
    <3> QED
      BY <1>1, <3>3, <3>4 DEF Provisioned
  <2> QED
    BY <2>1, <2>2
<1>7. Remove => UNCHANGED <<boot, ext>>
  BY <1>1, <1>2 DEF Remove
<1> QED
  BY <1>3, <1>4, <1>5, <1>6, <1>7 DEF Next, Step, Ensure, Recheck, Leave, Flock, Provision,
     Compare, Refuse, Retire, RetireOnly, RetireTargets, Repin, Stop, Disk, vars

\* "A repin archives the previous source tree for provenance", also one that is
\* stopped half-way; and nothing takes a finished provision back until the lock
\* file changes.
THEOREM NothingLost == Spec => NothingIsTakenBack
<1>1. Inv /\ [Next]_vars =>
        [Complete \subseteq Complete' /\ (Provisioned /\ lock' = lock => Provisioned')]_vars
  BY CompleteKept, ProvisionedKept
<1> QED
  BY <1>1, ScriptInv, PTL DEF Spec, NothingIsTakenBack

(***************************************************************************)
(* The probe that is returned.                                             *)
(***************************************************************************)

\* With the target in the tree, every tree's target is its own revision's.
LEMMA TreesKept ==
    ASSUME InTree, Inv, TreesInv, [Next]_vars
    PROVE  TreesInv'
<1>1. lock \in Revision /\ None \notin Revision /\ Empty \notin Revision
  BY BootstrapAssumption DEF Inv, Typed
<1>2. CASE UNCHANGED <<boot, stage, old>>
  BY <1>2 DEF TreesInv, Coherent
<1>3. Coherent(NoTree)
  BY NoTreeParts DEF Coherent
<1>4. ASSUME NEW p \in Process, Extract(p) \/ WriteRevision(p) PROVE TreesInv'
  <2>1. PICK tree \in Tree : SetDest(tree) /\ tree.target = DestTree.target
    BY <1>1, <1>4, DestTyped DEF Extract, WriteRevision, Inv, Typed, Tree, Mark
  <2>2. DestTree.mark \notin Revision
    BY <1>1, <1>4 DEF Extract, WriteRevision, At, Inv, PhaseInv
  <2>3. DestTree.target = NoTarget
    BY <1>1, <2>2 DEF DestTree, TreesInv, Coherent
  <2>4. Coherent(tree)
    BY <2>1, <2>3, NoTreeParts DEF Coherent
  <2>5. /\ old' = old
        /\ \/ boot' = tree /\ stage' = stage
           \/ boot' = boot /\ stage' = [stage EXCEPT ![lock] = tree]
    BY <2>1, SetDestParts DEF Inv, Typed
  <2> QED
    BY <2>4, <2>5 DEF TreesInv, Inv, Typed
<1>5. ASSUME NEW p \in Process, Archive(p) PROVE TreesInv'
  BY <1>3, <1>5 DEF Archive, TreesInv, Inv, Typed
<1>6. ASSUME NEW p \in Process, Install(p) PROVE TreesInv'
  BY <1>1, <1>3, <1>6 DEF Install, TreesInv, Inv, Typed
<1>7. ASSUME NEW p \in Process, Clean(p) \/ Build(p) \/ WriteMarker(p) PROVE TreesInv'
  <2>1. stage' = stage /\ old' = old /\ boot.mark = lock /\ TheTarget \in Target
    BY <1>7, TargetParts
  <2>2. CASE UNCHANGED <<boot, ext>>
    BY <1>2, <2>1, <2>2
  <2>3. CASE ~UNCHANGED <<boot, ext>>
    <3>1. PICK t \in Target :
            /\ SetTarget(t)
            /\ \/ t = [TheTarget EXCEPT !.bin = None] \/ t = [TheTarget EXCEPT !.bin = lock]
               \/ t = [TheTarget EXCEPT !.marker = lock]
      BY <1>7, <2>3, TargetParts
    <3>2. boot'.target = t /\ boot'.mark = lock
      BY <2>1, <3>1, SetTargetParts DEF Inv
    <3>3. TheTarget = boot.target
      BY DEF TheTarget
    <3>4. /\ t.marker \in {TheTarget.marker, lock}
          /\ t.bin \in {TheTarget.bin, None, lock}
      <4> HIDE DEF TheTarget
      <4> QED
        BY <2>1, <3>1 DEF Target
    <3>5. Coherent(boot')
      BY <1>1, <2>1, <3>2, <3>3, <3>4 DEF TreesInv, Coherent
    <3> QED
      BY <2>1, <3>5 DEF TreesInv, Coherent
  <2> QED
    BY <2>2, <2>3
<1>8. ASSUME RetireTargets PROVE TreesInv'
  <2>1. boot' = boot
    BY <1>8, RetireParts DEF Inv
  <2>2. ASSUME NEW r \in Revision PROVE Coherent(stage'[r])
    BY <1>8, RetireParts, NoTreeParts DEF Inv, TreesInv, Coherent
  <2>3. ASSUME NEW new \in old' PROVE Coherent(new)
    <3>1. PICK tree \in old : new.mark = tree.mark /\ new.target \in {tree.target, NoTarget}
      BY <1>8, RetireParts DEF Inv
    <3> QED
      BY <3>1, NoTreeParts DEF TreesInv, Coherent
  <2> QED
    BY <2>1, <2>2, <2>3 DEF TreesInv
<1>9. CASE Remove
  BY <1>3, <1>9 DEF Remove, TreesInv
<1> QED
  BY <1>2, <1>4, <1>5, <1>6, <1>7, <1>8, <1>9 DEF Next, Step, Ensure, Recheck, Leave, Flock, Provision,
     Compare, Refuse, Retire, RetireOnly, Repin, Stop, Disk, vars

\* A process that has been handed the probe keeps a pinned one.
LEMMA ReturnedKept ==
    ASSUME InTree, Inv, PinnedInv, [Next]_vars
    PROVE  ReturnedInv'
<1> SUFFICES ASSUME NEW p \in Process, pc'[p] = "returned" PROVE Provisioned'
  BY DEF ReturnedInv
<1>1. CASE pc[p] = "returned"
  <2>1. ~Repin
    BY <1>1 DEF Repin, Quiet
  <2>2. lock' = lock
    BY <2>1 DEF Next, Step, Ensure, Recheck, Leave, Flock, Provision, Compare, Refuse, Retire, RetireOnly,
       Stop, Extract, WriteRevision, Archive, Install, Clean, Build, WriteMarker, Remove, Env, vars
  <2> QED
    BY <1>1, <2>2, ProvisionedKept DEF PinnedInv, ReturnedInv
<1>2. CASE pc[p] # "returned"
  <2>1. Recheck(p) /\ Verified
    BY <1>2 DEF Next, Step, Ensure, Recheck, Leave, Flock, Provision, Compare, Refuse, Retire, RetireOnly,
       Repin, Stop, Extract, WriteRevision, Archive, Install, Clean, Build, WriteMarker, Remove, vars,
       Inv, Typed, Goto, At
  <2>2. boot.mark = lock /\ boot.target.marker = lock /\ boot.target.bin = lock
    BY <2>1 DEF Verified, TheTarget, PinnedInv, TreesInv, Coherent
  <2> QED
    BY <2>1, <2>2 DEF Provisioned, TheTarget, Recheck, Disk, Env
<1> QED
  BY <1>1, <1>2

\* ensure_locked_stage0_probe returns "the pinned Stage-0 probe" as long as the
\* target lies in .bootstrap and moves with its tree.
THEOREM ReturnedPinned ==
    ASSUME InTree
    PROVE  Spec => []ReturnedProbeIsPinned
<1>1. Init => PinnedInv
  BY NoTreeParts DEF Init, PinnedInv, TreesInv, Coherent, ReturnedInv
<1>2. Inv /\ PinnedInv /\ [Next]_vars => PinnedInv'
  BY TreesKept, ReturnedKept DEF PinnedInv
<1>3. PinnedInv => ReturnedProbeIsPinned
  BY DEF PinnedInv, ReturnedInv, Provisioned, ReturnedProbeIsPinned
<1> QED
  BY <1>1, <1>2, <1>3, InitInv, StepInv, PTL DEF Spec
==============================================================================
