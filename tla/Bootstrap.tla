----------------------------- MODULE Bootstrap -----------------------------
(***************************************************************************)
(* Provisioning of the pinned Stage-0 tree, tools/bootstrap.sh, and the    *)
(* check harnesses make before they use its probe,                         *)
(* tools/ensure_locked_stage0_probe.py.  The script extracts the locked    *)
(* revision, repins by archiving the old tree and moving a staged one into *)
(* place, builds, and marks the target with the revision it was built      *)
(* from.  Any process may stop between two of its steps, by a failing      *)
(* command or a kill, and others start over from what it left.             *)
(*                                                                         *)
(* The lock file is edited while no process runs.  Cargo is external: the  *)
(* script leaves it to cargo to validate outputs it finds, so a build      *)
(* that ends has built the probe from the tree it was given.               *)
(***************************************************************************)
EXTENDS Naturals, FiniteSets

CONSTANTS
    Process,
    Revision,
    None, Empty,      \* no file; a file truncated and not yet written
    InTree,           \* the target is .bootstrap/target, its default
    MaxStops,         \* bound: processes that stop short
    MaxRepins         \* bound: edits of the lock file

ASSUME BootstrapAssumption ==
    /\ None \notin Revision /\ Empty \notin Revision /\ None # Empty
    /\ None \notin Process
    /\ InTree \in BOOLEAN
    /\ MaxStops \in Nat /\ MaxRepins \in Nat

VARIABLES
    lock,     \* the revision of mncs-language.lock.json
    boot,     \* .bootstrap
    stage,    \* .build/stage0/<revision>
    old,      \* trees archived under <revision>-<seconds>
    ext,      \* the target in MNCS_BOOTSTRAP_TARGET_DIR
    pc,       \* where each process is
    holder,   \* who holds .build/bootstrap.lock
    dest,     \* the argument of extract_locked_source
    told,     \* the tree the operator was told to look at
    stops, repins

vars == << lock, boot, stage, old, ext, pc, holder, dest, told, stops, repins >>

Mark == Revision \union {None, Empty}
\* marker is .mncs-language-revision, bin the revision the probe came from.
Target == [marker : Revision \union {None}, bin : Revision \union {None}]
\* "manifest": Cargo.toml is there, other files are still missing.
Tree == [files : {"none", "partial", "manifest", "full"}, mark : Mark, target : Target]

NoTarget == [marker |-> None, bin |-> None]
NoTree == [files |-> "none", mark |-> None, target |-> NoTarget]
HasManifest(tree) == tree.files \in {"manifest", "full"}

TheTarget == IF InTree THEN boot.target ELSE ext
SetTarget(t) ==
    IF InTree THEN boot' = [boot EXCEPT !.target = t] /\ UNCHANGED ext
    ELSE ext' = t /\ UNCHANGED boot

Script == {"provision", "extract", "mark", "compare", "archive", "install",
           "clean", "build", "marker", "retire"}

Goto(p, label) == pc' = [pc EXCEPT ![p] = label]
At(p, label) == pc[p] = label

Disk == << boot, stage, old, ext >>
Env == << lock, told, stops, repins >>

----------------------------------------------------------------------------
(* ensure_locked_stage0_probe. *)

\* Seeded fault: the two markers are compared with each other only.
MarkersAgree ==
    boot.mark # None /\ boot.mark = TheTarget.marker /\ TheTarget.bin # None

\* Both markers name the locked revision and the probe is a file.
Verified == boot.mark = lock /\ TheTarget.marker = lock /\ TheTarget.bin # None

Ensure(p) ==
    /\ At(p, "idle")
    /\ Goto(p, IF Verified THEN "recheck" ELSE "wait")
    /\ UNCHANGED << Disk, Env, holder, dest >>

\* The checks after the script, which turn a mismatch into an error.
Recheck(p) ==
    /\ At(p, "recheck")
    /\ Goto(p, IF Verified THEN "returned" ELSE "idle")
    /\ UNCHANGED << Disk, Env, holder, dest >>

Leave(p) ==
    /\ At(p, "returned")
    /\ Goto(p, "idle")
    /\ UNCHANGED << Disk, Env, holder, dest >>

----------------------------------------------------------------------------
(* bootstrap.sh. *)

Flock(p) ==
    /\ At(p, "wait")
    /\ holder = None
    /\ holder' = p
    /\ Goto(p, "provision")
    /\ UNCHANGED << Disk, Env, dest >>

\* exit 1 with a message that names a tree.
Refuse(p, tree) ==
    /\ Goto(p, "idle")
    /\ holder' = None
    /\ told' = tree
    /\ UNCHANGED << Disk, lock, stops, repins, dest >>

\* Seeded fault: only a tree that is already there is brought up to date.
ProvisionExisting(p) ==
    /\ At(p, "provision")
    /\ IF boot.mark # None
       THEN Goto(p, "compare") /\ UNCHANGED << Disk, Env, holder, dest >>
       ELSE Refuse(p, "none")

\* No .bootstrap/revision: an unmarked tree is refused, an empty one filled.
Provision(p) ==
    /\ At(p, "provision")
    /\ \/ /\ boot.mark # None
          /\ Goto(p, "compare")
          /\ UNCHANGED << Disk, Env, holder, dest >>
       \/ /\ boot.mark = None /\ HasManifest(boot)
          /\ Refuse(p, "boot")
       \/ /\ boot.mark = None /\ ~HasManifest(boot)
          /\ dest' = "boot"
          /\ Goto(p, "extract")
          /\ UNCHANGED << Disk, Env, holder >>

SetDest(tree) ==
    IF dest = "boot" THEN boot' = tree /\ UNCHANGED << stage, old, ext >>
    ELSE stage' = [stage EXCEPT ![lock] = tree] /\ UNCHANGED << boot, old, ext >>

DestTree == IF dest = "boot" THEN boot ELSE stage[lock]

\* tar writes the files one after the other.
Extract(p) ==
    /\ At(p, "extract")
    /\ \E more \in {"partial", "manifest", "full"} :
          /\ DestTree.files = "manifest" => more = "full"
          /\ DestTree.files = "partial" => more # "partial"
          /\ SetDest([DestTree EXCEPT !.files = more])
          /\ Goto(p, IF more = "full" THEN "mark" ELSE "extract")
    /\ UNCHANGED << Env, holder, dest >>

\* printf > revision truncates the file, then writes it.
WriteRevision(p) ==
    /\ At(p, "mark")
    /\ IF DestTree.mark = None
       THEN SetDest([DestTree EXCEPT !.mark = Empty]) /\ UNCHANGED pc
       ELSE /\ SetDest([DestTree EXCEPT !.mark = lock])
            /\ Goto(p, IF dest = "boot" THEN "compare" ELSE "archive")
    /\ UNCHANGED << Env, holder, dest >>

\* The tree is current, or a staged tree is found, refused or extracted.
Compare(p) ==
    /\ At(p, "compare")
    /\ LET staged == stage[lock]
       IN  \/ /\ boot.mark = lock
              /\ Goto(p, "clean")
              /\ UNCHANGED << Disk, Env, holder, dest >>
           \/ /\ boot.mark # lock
              /\ staged.mark = lock /\ HasManifest(staged)
              /\ Goto(p, "archive")
              /\ UNCHANGED << Disk, Env, holder, dest >>
           \/ /\ boot.mark # lock
              /\ \/ staged.mark # None /\ ~(staged.mark = lock /\ HasManifest(staged))
                 \/ staged.mark = None /\ HasManifest(staged)
              /\ Refuse(p, "stage")
           \/ /\ boot.mark # lock
              /\ staged.mark = None /\ ~HasManifest(staged)
              /\ dest' = "stage"
              /\ Goto(p, "extract")
              /\ UNCHANGED << Disk, Env, holder >>

\* Seeded fault: the old tree is removed instead of archived.
Discard(p) ==
    /\ At(p, "archive")
    /\ boot' = NoTree
    /\ Goto(p, "install")
    /\ UNCHANGED << stage, old, ext, Env, holder, dest >>

\* mv .bootstrap to its archive, under a new name when that one is taken.
Archive(p) ==
    /\ At(p, "archive")
    /\ IF boot.mark \in Revision /\ stage[boot.mark] = NoTree
       THEN stage' = [stage EXCEPT ![boot.mark] = boot] /\ UNCHANGED old
       ELSE old' = old \union {boot} /\ UNCHANGED stage
    /\ boot' = NoTree
    /\ Goto(p, "install")
    /\ UNCHANGED << ext, Env, holder, dest >>

\* mv the staged tree to .bootstrap.
Install(p) ==
    /\ At(p, "install")
    /\ boot' = stage[lock]
    /\ stage' = [stage EXCEPT ![lock] = NoTree]
    /\ Goto(p, "clean")
    /\ UNCHANGED << old, ext, Env, holder, dest >>

\* cargo clean when the target was marked for another revision.
Clean(p) ==
    /\ At(p, "clean")
    /\ boot.mark = lock /\ HasManifest(boot)
    /\ IF TheTarget.marker \notin {None, lock}
       THEN SetTarget([TheTarget EXCEPT !.bin = None])
       ELSE UNCHANGED << boot, ext >>
    /\ Goto(p, "build")
    /\ UNCHANGED << stage, old, Env, holder, dest >>

\* The two cargo builds.
Build(p) ==
    /\ At(p, "build")
    /\ SetTarget([TheTarget EXCEPT !.bin = boot.mark])
    /\ Goto(p, "marker")
    /\ UNCHANGED << stage, old, Env, holder, dest >>

\* The target marker is written aside and renamed.
WriteMarker(p) ==
    /\ At(p, "marker")
    /\ SetTarget([TheTarget EXCEPT !.marker = lock])
    /\ Goto(p, "retire")
    /\ UNCHANGED << stage, old, Env, holder, dest >>

WithoutTarget(tree) == [tree EXCEPT !.target = NoTarget]

\* retire_archived_targets: archives whose mark is the revision in their name.
RetireTargets ==
    /\ stage' = [r \in Revision |->
                    IF stage[r].mark = r /\ HasManifest(stage[r]) THEN WithoutTarget(stage[r]) ELSE stage[r]]
    /\ old' = {IF tree.mark \in Revision /\ HasManifest(tree) THEN WithoutTarget(tree) ELSE tree : tree \in old}
    /\ boot' = boot

\* The end of the script, with or without MNCS_BOOTSTRAP_KEEP_ARCHIVED_TARGETS.
Retire(p) ==
    /\ At(p, "retire")
    /\ RetireTargets \/ UNCHANGED << stage, old, boot >>
    /\ holder' = None
    /\ Goto(p, "recheck")
    /\ UNCHANGED << ext, Env, dest >>

\* bootstrap.sh --retire-archived-targets, which asks for a verified build.
RetireOnly ==
    /\ holder = None
    /\ boot.mark = lock /\ TheTarget.marker = lock
    /\ RetireTargets
    /\ UNCHANGED << ext, Env, pc, holder, dest >>

----------------------------------------------------------------------------
(* The surroundings. *)

\* A command fails, or the process is killed; its descriptor is closed.
Stop(p) ==
    /\ stops < MaxStops
    /\ pc[p] # "idle"
    /\ stops' = stops + 1
    /\ holder' = IF holder = p THEN None ELSE holder
    /\ Goto(p, "idle")
    /\ UNCHANGED << Disk, lock, told, repins, dest >>

Quiet == \A p \in Process : pc[p] = "idle"

Repin ==
    /\ Quiet
    /\ repins < MaxRepins
    /\ repins' = repins + 1
    /\ \E r \in Revision \ {lock} : lock' = r
    /\ UNCHANGED << Disk, told, stops, pc, holder, dest >>

\* The operator removes the tree a message named, if it is still unusable and
\* while no script runs.
Remove ==
    /\ holder = None
    /\ told # "none"
    /\ told' = "none"
    /\ boot' = IF told = "boot" /\ boot.mark = None THEN NoTree ELSE boot
    /\ stage' = [r \in Revision |-> IF told = "stage" /\ stage[r].mark # r THEN NoTree ELSE stage[r]]
    /\ UNCHANGED << old, ext, lock, stops, repins, pc, holder, dest >>

Init ==
    /\ lock \in Revision
    /\ boot = NoTree /\ stage = [r \in Revision |-> NoTree] /\ old = {} /\ ext = NoTarget
    /\ pc = [p \in Process |-> "idle"]
    /\ holder = None /\ dest = "boot" /\ told = "none" /\ stops = 0 /\ repins = 0

Step(p) ==
    \/ Recheck(p) \/ Leave(p) \/ Flock(p) \/ Provision(p) \/ Extract(p)
    \/ WriteRevision(p) \/ Compare(p) \/ Archive(p) \/ Install(p)
    \/ Clean(p) \/ Build(p) \/ WriteMarker(p) \/ Retire(p)

Next ==
    \/ \E p \in Process : Ensure(p) \/ Step(p) \/ Stop(p)
    \/ RetireOnly \/ Repin \/ Remove

Spec == Init /\ [][Next]_vars

\* A command of the script returns, callers that failed come back, and the
\* operator finds a moment between two runs to act on a message.
FairSpec ==
    /\ Spec
    /\ \A p \in Process : WF_vars(Step(p)) /\ WF_vars(Ensure(p))
    /\ SF_vars(Remove)

----------------------------------------------------------------------------
(* Properties. *)

\* The type invariant, with the flock: a process is inside the script exactly
\* when it holds the lock.
TypeOK ==
    /\ lock \in Revision
    /\ boot \in Tree /\ stage \in [Revision -> Tree] /\ old \subseteq Tree /\ ext \in Target
    /\ pc \in [Process -> Script \union {"idle", "wait", "recheck", "returned"}]
    /\ \A p \in Process : (pc[p] \in Script) = (holder = p)
    /\ dest \in {"boot", "stage"} /\ told \in {"none", "boot", "stage"}
    /\ stops \in 0 .. MaxStops /\ repins \in 0 .. MaxRepins

\* ensure_locked_stage0_probe returns "the pinned Stage-0 probe": whatever was
\* interrupted or repinned before, the probe at the returned path was built
\* from the revision the lock file names.  This needs InTree: a target outside
\* the tree keeps its marker through a repin, and a repin stopped between Build
\* and WriteMarker followed by a repin back makes it vouch for the wrong probe.
ReturnedProbeIsPinned ==
    \A p \in Process : pc[p] = "returned" => TheTarget.bin = lock

Complete ==
    {r \in Revision :
        \E tree \in {boot} \union {stage[s] : s \in Revision} \union old :
            tree.mark = r /\ tree.files = "full"}

Provisioned == boot.mark = lock /\ TheTarget.marker = lock /\ TheTarget.bin = lock

\* "A repin archives the previous source tree for provenance": a complete,
\* marked source tree stays somewhere on disk through every repin, also one
\* stopped between its two renames.  And until the lock file changes, nothing
\* takes a finished provision back: not a second run of the script, nor one that
\* stops half-way, nor retirement.
NothingIsTakenBack ==
    [][/\ Complete \subseteq Complete'
       /\ Provisioned /\ lock' = lock => Provisioned']_vars

\* An interrupted first provision, repin or build can always be completed:
\* once edits and interruptions end, the pinned probe is provisioned for good.
ProvisioningRecovers == <>[]Provisioned
=============================================================================
