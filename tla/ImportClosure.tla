--------------------------- MODULE ImportClosure ---------------------------
(***************************************************************************)
(* project_import_closure of the native compiler's project pass: the       *)
(* modules a target can reach through its imports, whose record and enum   *)
(* schemas are the only ones the target is lowered with.                   *)
(*                                                                         *)
(* Two scans of the link list cover shallow projects; a deeper one is      *)
(* finished over per-source adjacency with a stack.  Every loop of the     *)
(* code has a fixed bound, and runs out without a word.                    *)
(***************************************************************************)
EXTENDS Naturals, Sequences, FiniteSets

CONSTANTS
    Capacity,   \* slots of the fixed vectors, 64
    Batches,    \* batches a scan of the links takes, 4 ...
    BatchSize,  \* ... and links in each, 1024
    LinkLimit,   \* links one module can have, 1024
    Projects    \* link lists resolve_imports may hand over, with their source counts

Index == 0 .. Capacity - 1
Link == Index \X Index

ASSUME ClosureAssumption ==
    /\ Capacity \in Nat \ {0} /\ Batches \in Nat /\ BatchSize \in Nat /\ LinkLimit \in Nat
    /\ Projects \subseteq [source_count : 1 .. Capacity, imports : Seq(Link)]
    /\ \A p \in Projects :
          /\ Len(p.imports) <= Batches * BatchSize
          /\ \A i \in DOMAIN p.imports :
                /\ \A side \in {1, 2} : p.imports[i][side] < p.source_count
                /\ Cardinality({j \in DOMAIN p.imports : p.imports[j][1] = p.imports[i][1]}) <= LinkLimit

VARIABLES
    project, target,
    phase,
    at,             \* the turn a loop is at: the link or the module it looks at
    reachable, changed,
    adjacency,      \* the links of each module, the last one first
    pending,        \* the stack of modules whose links are still to be followed
    expanding,      \* links left of the module last popped
    turn            \* iterations of the worklist loop

closureVars == << project, target, phase, at, reachable, changed, adjacency, pending, expanding, turn >>

----------------------------------------------------------------------------
\* The links a bounded scan gets to.
Visible ==
    LET bound == Batches * BatchSize
    IN SubSeq(project.imports, 1, IF Len(project.imports) < bound THEN Len(project.imports) ELSE bound)

InProject(link) == link[1] < project.source_count /\ link[2] < project.source_count

\* project_import_closure_complete and project_import_closure_complete_prefix.
Complete == \A i \in 0 .. project.source_count - 1 : i \in reachable

----------------------------------------------------------------------------
ClosureInit ==
    /\ project \in Projects
    /\ target \in 0 .. Capacity
    /\ phase = "start" /\ at = 1
    /\ reachable = {} /\ changed = FALSE
    /\ adjacency = [i \in Index |-> << >>]
    /\ pending = << >> /\ expanding = << >> /\ turn = 0

\* A target the host names beyond the project reaches nothing.
OutOfProject ==
    /\ phase = "start"
    /\ target >= Capacity \/ target >= project.source_count
    /\ phase' = "done"
    /\ UNCHANGED << project, target, at, reachable, changed, adjacency, pending, expanding, turn >>

Begin ==
    /\ phase = "start"
    /\ target < Capacity /\ target < project.source_count
    /\ reachable' = {target}
    /\ phase' = "first"
    /\ UNCHANGED << project, target, at, changed, adjacency, pending, expanding, turn >>

\* project_import_closure_link_one.
ScanLink ==
    /\ phase \in {"first", "second"} /\ at <= Len(Visible)
    /\ LET link == Visible[at]
           new == InProject(link) /\ link[1] \in reachable /\ link[2] \notin reachable
       IN /\ reachable' = IF new THEN reachable \union {link[2]} ELSE reachable
          /\ changed' = (changed \/ new)
    /\ at' = at + 1
    /\ UNCHANGED << project, target, phase, adjacency, pending, expanding, turn >>

\* Seeded fault: a second scan is always enough.
AfterRoundTwice(round) == IF round = "first" /\ changed THEN "second" ELSE "done"

\* What follows a scan; the first one checks completeness below capacity only.
AfterRound(round) ==
    IF ~changed THEN "done"
    ELSE IF round = "first"
         THEN IF project.source_count < Capacity /\ Complete THEN "done" ELSE "second"
         ELSE IF Complete THEN "done" ELSE "adjacency"

EndRound ==
    /\ phase \in {"first", "second"} /\ at > Len(Visible)
    /\ phase' = AfterRound(phase)
    /\ at' = 1 /\ changed' = FALSE
    /\ UNCHANGED << project, target, reachable, adjacency, pending, expanding, turn >>

\* project_import_adjacency_add: a module's links come out last first.
AddAdjacency ==
    /\ phase = "adjacency" /\ at <= Len(Visible)
    /\ LET link == Visible[at]
       IN adjacency' = IF InProject(link) THEN [adjacency EXCEPT ![link[1]] = << link >> \o @] ELSE adjacency
    /\ at' = at + 1
    /\ UNCHANGED << project, target, phase, reachable, changed, pending, expanding, turn >>

AdjacencyBuilt ==
    /\ phase = "adjacency" /\ at > Len(Visible)
    /\ phase' = "seed" /\ at' = 1
    /\ UNCHANGED << project, target, reachable, changed, adjacency, pending, expanding, turn >>

\* project_import_closure_seed_step.
Seed ==
    /\ phase = "seed" /\ at <= project.source_count
    /\ pending' = IF at - 1 \in reachable THEN Append(pending, at - 1) ELSE pending
    /\ at' = at + 1
    /\ UNCHANGED << project, target, phase, reachable, changed, adjacency, expanding, turn >>

Seeded ==
    /\ phase = "seed" /\ at > project.source_count
    /\ phase' = "work" /\ at' = 1
    /\ UNCHANGED << project, target, reachable, changed, adjacency, pending, expanding, turn >>

Pop ==
    /\ phase = "work" /\ pending # << >> /\ turn < Capacity
    /\ expanding' = adjacency[pending[Len(pending)]]
    /\ pending' = SubSeq(pending, 1, Len(pending) - 1)
    /\ turn' = turn + 1 /\ at' = 1
    /\ phase' = "expand"
    /\ UNCHANGED << project, target, reachable, changed, adjacency >>

\* project_import_closure_expand_link.
Expand ==
    /\ phase = "expand" /\ expanding # << >> /\ at <= LinkLimit
    /\ LET to == Head(expanding)[2]
           new == to < project.source_count /\ to \notin reachable /\ Len(pending) < Capacity
       IN /\ reachable' = IF new THEN reachable \union {to} ELSE reachable
          /\ pending' = IF new THEN Append(pending, to) ELSE pending
    /\ expanding' = Tail(expanding)
    /\ at' = at + 1
    /\ UNCHANGED << project, target, phase, changed, adjacency, turn >>

Expanded ==
    /\ phase = "expand" /\ (expanding = << >> \/ at > LinkLimit)
    /\ phase' = "work" /\ at' = 1 /\ expanding' = << >>
    /\ UNCHANGED << project, target, reachable, changed, adjacency, pending, turn >>

\* An empty stack, or the last iteration: what is reachable so far is the answer.
Finish ==
    /\ phase = "work" /\ (pending = << >> \/ turn = Capacity)
    /\ phase' = "done"
    /\ UNCHANGED << project, target, at, reachable, changed, adjacency, pending, expanding, turn >>

ClosureNext ==
    \/ OutOfProject \/ Begin \/ ScanLink \/ EndRound
    \/ AddAdjacency \/ AdjacencyBuilt \/ Seed \/ Seeded
    \/ Pop \/ Expand \/ Expanded \/ Finish

ClosureSpec == ClosureInit /\ [][ClosureNext]_closureVars

----------------------------------------------------------------------------
\* The stack and the vectors stay within the fixed sequences of the records
\* ProjectImportClosureWork and ProjectImportClosureWalk.
ClosureTypeOK ==
    /\ project.source_count \in 1 .. Capacity /\ project.imports \in Seq(Link)
    /\ target \in 0 .. Capacity
    /\ phase \in {"start", "first", "second", "adjacency", "seed", "work", "expand", "done"}
    /\ at \in Nat \ {0} /\ turn \in 0 .. Capacity /\ changed \in BOOLEAN
    /\ reachable \subseteq Index
    /\ adjacency \in [Index -> Seq(Link)]
    /\ pending \in Seq(Index) /\ Len(pending) <= Capacity
    /\ expanding \in Seq(Link)

Closed(S) == \A i \in DOMAIN project.imports : project.imports[i][1] \in S => project.imports[i][2] \in S

Reached ==
    IF target >= project.source_count THEN {}
    ELSE {i \in Index : \A S \in SUBSET Index : target \in S /\ Closed(S) => i \in S}

\* Whichever way project_import_closure returns, by an early exit, an emptied
\* stack or a loop that ran out, the schemas kept are those of exactly the
\* modules the target imports, directly or not, whatever order the links are in.
ClosureIsExact == phase = "done" => reachable = Reached

\* Every turn of the worklist loop is spent on a module not handled before, so
\* Capacity turns and Capacity slots are enough: the check of a full stack in
\* project_import_closure_expand_link never drops a module.
WorkFits ==
    phase \in {"work", "expand"} =>
        /\ turn + Len(pending) = Cardinality(reachable)
        /\ \A i, j \in DOMAIN pending : pending[i] = pending[j] => i = j
=============================================================================
