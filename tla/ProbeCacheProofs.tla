-------------------------- MODULE ProbeCacheProofs --------------------------
(***************************************************************************)
(* What a probe serves is what its keys name, for every set of processes,  *)
(* modules, texts, backends and roots, and any number of probes started    *)
(* beside each other.                                                      *)
(*                                                                         *)
(* The argument has two layers.  The first needs nothing of the developer: *)
(* an artifact is always that of the Program beside it, in the cache and   *)
(* in every process.  The second is about the sources the Programs come    *)
(* from and holds as long as no source changes between the two reads of a  *)
(* probe (QuietReads).                                                     *)
(***************************************************************************)
EXTENDS ProbeCache, TLAPS

(***************************************************************************)
(* The inductive invariant.                                                *)
(***************************************************************************)
Roots == Root \cup {AllRoots}
Keys == [module : Wanted, closure : Sources, backend : Backend, roots : Roots]

\* The phases in which the loop is at a module, and those in which that module
\* has no Program yet.
Visiting == {"artifact", "frontend", "offer", "elaborate"}
Seeking == {"artifact", "frontend", "elaborate"}

\* The modules that process p has a Program for.
Settled(p) == {m \in Wanted :
  \/ pc[p] \in {"module", "offer"} /\ m \notin todo[p]
  \/ pc[p] \in Seeking /\ m \notin todo[p] /\ m # at[p]
  \/ pc[p] \in {"backend", "ready"}}

\* The modules whose artifact the loop over the Programs has dealt with.
Finished(p) == {m \in Wanted : \/ pc[p] = "backend" /\ m \notin todo[p]
                               \/ pc[p] = "ready" /\ config[p].backend # NoBackend}

\* Process p's artifact of m is that of its Program of m, for its backend, and
\* the Program is already narrowed to its roots.
Fit(p, m) == /\ artifact[p][m] = Compiled(program[p][m], config[p].backend)
             /\ program[p][m] = Project(program[p][m], config[p].roots)

LoopInv(p) == /\ pc[p] \in {"artifact", "backend"} => config[p].backend # NoBackend
              /\ pc[p] \in Visiting => at[p] \in Wanted /\ at[p] \notin todo[p]
              /\ \A m \in Settled(p) : program[p][m] \in Programs

FitInv(p) == /\ \A m \in Wanted : artifact[p][m] # NoArtifact => m \in Settled(p) /\ Fit(p, m)
             /\ \A m \in Finished(p) : Fit(p, m)

\* An entry holds a Program, and the artifact of its projection to the key's
\* roots by the key's backend.
ArtifactsInv == \A k \in DOMAIN artifacts :
  /\ k \in Keys
  /\ artifacts[k].program \in Programs
  /\ artifacts[k] = [program |-> artifacts[k].program,
                     artifact |-> Compiled(Project(artifacts[k].program, k.roots), k.backend)]

FrontendsInv == \A k \in DOMAIN frontends : frontends[k].program \in Programs

Typed == /\ disk \in Sources
         /\ runs \in 0..MaxRuns
         /\ pc \in [Proc -> Phases]
         /\ config \in [Proc -> Configs]
         /\ sources \in [Proc -> Sources]
         /\ closure \in [Proc -> Sources]
         /\ at \in [Proc -> Module]
         /\ todo \in [Proc -> SUBSET Wanted]
         /\ program \in [Proc -> [Wanted -> Programs \cup {NoProgram}]]
         /\ artifact \in [Proc -> [Wanted -> Artifacts \cup {NoArtifact}]]

Inv == /\ Typed
       /\ ArtifactsInv
       /\ FrontendsInv
       /\ \A p \in Proc : LoopInv(p) /\ FitInv(p)

\* The sources: a probe's two reads agree, its Programs are those of what it
\* read as far as its roots go, and so are the entries under the closures of
\* their keys and the reusable ones under their metadata.
ReadInv(p) == /\ pc[p] = "reading" => sources[p] = disk
              /\ pc[p] \notin {"idle", "reading"} => closure[p] = sources[p]

SourceInv(p) == \A m \in Settled(p) :
  Project(program[p][m], config[p].roots) = Project(Program(m, closure[p]), config[p].roots)

ArtifactSources == \A k \in DOMAIN artifacts :
  Project(artifacts[k].program, k.roots) = Project(Program(k.module, k.closure), k.roots)

FrontendSources == \A k \in DOMAIN frontends : frontends[k].meta # NoMeta =>
  \E m \in Wanted, c \in Sources :
    /\ k = FrontendKey(m, c)
    /\ frontends[k].program = Program(m, c)
    /\ frontends[k].meta = Metadata(m, Program(m, c), c)

QuietInv == /\ ArtifactSources
            /\ FrontendSources
            /\ \A p \in Proc : ReadInv(p) /\ SourceInv(p)

(***************************************************************************)
(* Programs and their projections.                                         *)
(***************************************************************************)

\* A Program has a closure of texts and a selection of roots, nothing else.
LEMMA ProgramShape ==
  ASSUME NEW g \in Programs
  PROVE  g = [src |-> g.src, roots |-> g.roots]
<1>1. PICK m \in Module, s \in Sources, r \in Roots : g = Project(Program(m, s), r)
  BY DEF Programs, Roots
<1> QED
  BY <1>1 DEF Project, Program

\* What backend_program_projection gives for selected roots.
LEMMA ProjectShape ==
  ASSUME NEW g \in Programs, NEW r, r # AllRoots
  PROVE  Project(g, r) = [src |-> g.src, roots |-> r]
BY ProgramShape DEF Project

\* The Program of a module's sources is a Program.
LEMMA ProgramTyped ==
  ASSUME NEW m \in Module, NEW s \in Sources
  PROVE  Program(m, s) \in Programs
<1>1. Program(m, s) = Project(Program(m, s), AllRoots)
  BY DEF Project
<1> QED
  BY <1>1 DEF Programs

\* A projection is a Program.
LEMMA ProjectTyped ==
  ASSUME NEW g \in Programs, NEW r \in Roots
  PROVE  Project(g, r) \in Programs
<1>1. CASE r = AllRoots
  BY <1>1 DEF Project
<1>2. CASE r # AllRoots
  <2>1. PICK m \in Module, s \in Sources, q \in Roots : g = Project(Program(m, s), q)
    BY DEF Programs, Roots
  <2>2. g.src = Program(m, s).src
    BY <2>1 DEF Project, Program
  <2>3. Project(g, r) = Project(Program(m, s), r)
    BY <1>2, <2>2, ProjectShape, ProgramTyped
  <2> QED
    BY <2>3 DEF Programs, Roots
<1> QED
  BY <1>1, <1>2

\* Projecting to the same roots again changes nothing.
LEMMA ProjectTwice ==
  ASSUME NEW g \in Programs, NEW r \in Roots
  PROVE  Project(Project(g, r), r) = Project(g, r)
<1>1. CASE r = AllRoots
  BY <1>1 DEF Project
<1>2. CASE r # AllRoots
  BY <1>2, ProjectShape, ProjectTyped
<1> QED
  BY <1>1, <1>2

\* Two source trees that agree on a module and what it resolves give it the
\* same Program: what makes metadata about the dependencies enough.
LEMMA SameSourcesSameProgram ==
  ASSUME NEW m \in Module, NEW s \in Sources, NEW t \in Sources, SameFor(m, s, t)
  PROVE  Program(m, s) = Program(m, t)
<1>1. Resolves[m][s] = Resolves[m][t]
  BY ProbeAssumption
<1>2. [d \in {m} \cup Resolves[m][s] |-> s[d]] = [d \in {m} \cup Resolves[m][t] |-> t[d]]
  BY <1>1 DEF SameFor
<1> QED
  BY <1>2 DEF Program

\* The selection of a probe is a pair of a backend, or none, and roots.
LEMMA ConfigParts ==
  ASSUME NEW o \in Configs
  PROVE  /\ o.roots \in Roots
         /\ o.backend \in Backend \cup {NoBackend}
         /\ o.backend = NoBackend => o.roots = AllRoots
BY ProbeAssumption DEF Configs, Roots

(***************************************************************************)
(* The first layer: every step keeps Inv.                                  *)
(***************************************************************************)

\* A step leaves process q alone.
Same(q) == /\ pc'[q] = pc[q] /\ config'[q] = config[q]
           /\ sources'[q] = sources[q] /\ closure'[q] = closure[q]
           /\ at'[q] = at[q] /\ todo'[q] = todo[q]
           /\ program'[q] = program[q] /\ artifact'[q] = artifact[q]

\* What holds of a process that is left alone goes on to hold.
LEMMA Frame ==
  ASSUME NEW q \in Proc, LoopInv(q), FitInv(q), Same(q)
  PROVE  LoopInv(q)' /\ FitInv(q)'
<1>1. Settled(q)' = Settled(q) /\ Finished(q)' = Finished(q)
  BY DEF Same, Settled, Finished
<1>2. \A m : Fit(q, m)' <=> Fit(q, m)
  BY DEF Same, Fit
<1> QED
  BY <1>1, <1>2 DEF Same, LoopInv, FitInv

\* A step of process p keeps Inv if it keeps the types, the files and p's part.
LEMMA Assemble ==
  ASSUME Inv, NEW p \in Proc, Typed', ArtifactsInv', FrontendsInv',
         LoopInv(p)', FitInv(p)', \A q \in Proc \ {p} : Same(q)
  PROVE  Inv'
<1>1. \A q \in Proc \ {p} : LoopInv(q)' /\ FitInv(q)'
  BY Frame DEF Inv
<1> QED
  BY <1>1 DEF Inv

\* The developer's edit is no business of any cache or process.
LEMMA EditInv ==
  ASSUME Inv, NEW m \in Module, NEW t \in Text, Edit(m, t)
  PROVE  Inv'
<1>1. Typed'
  BY DEF Inv, Typed, Edit, Sources, locals
<1>2. ArtifactsInv' /\ FrontendsInv'
  BY DEF Inv, Edit, ArtifactsInv, FrontendsInv
<1>3. ASSUME NEW q \in Proc PROVE Same(q)
  BY DEF Edit, locals, Same
<1>4. ASSUME NEW q \in Proc PROVE LoopInv(q)' /\ FitInv(q)'
  BY <1>3, Frame DEF Inv
<1> QED
  BY <1>1, <1>2, <1>4 DEF Inv

\* A process writes its own variables only.
LEMMA OnlyMine ==
  ASSUME Inv, NEW p \in Proc, Exit(p) \/ Begin(p) \/ Lookup(p) \/ Build(p) \/ Emit(p)
  PROVE  \A q \in Proc \ {p} : Same(q)
<1>1. CASE Exit(p) \/ Begin(p)
  BY <1>1 DEF Inv, Typed, Same, Goto, Exit, Begin, Start, ReadClosure, NextModule
<1>2. CASE Lookup(p)
  BY <1>2 DEF Inv, Typed, Same, Goto, Lookup, ArtifactHit, ArtifactMiss, Offer, FrontendHit,
     FrontendMiss, LegacyHit, Miss, Settle, locals
<1>3. CASE Build(p) \/ Emit(p)
  BY <1>3 DEF Inv, Typed, Same, Goto, Build, Emit, Elaborate, ProgramsDone, ReuseArtifact,
     CompileBackend, BackendDone, Settle, locals
<1> QED
  BY <1>1, <1>2, <1>3

\* Starting, and reading the sources a second time.
LEMMA StartInv ==
  ASSUME Inv, NEW p \in Proc, Start(p)
  PROVE  Inv'
<1>1. PICK o \in Config : config' = [config EXCEPT ![p] = o]
  BY DEF Start
<1>2. o \in Configs
  BY ProbeAssumption
<1>3. Typed'
  BY <1>1, <1>2, ProbeAssumption DEF Inv, Typed, Start, Goto, Phases
<1>4. ArtifactsInv' /\ FrontendsInv'
  BY DEF Inv, Start, ArtifactsInv, FrontendsInv
<1>5. pc[p] = "idle" /\ pc'[p] = "reading"
  BY DEF Inv, Typed, Start, Goto
<1>6. LoopInv(p)'
  BY <1>5 DEF LoopInv, Settled, Seeking, Visiting
<1>7. \A m \in Wanted : artifact[p][m] = NoArtifact
  BY <1>5 DEF Inv, FitInv, Settled, Seeking
<1>8. FitInv(p)'
  BY <1>5, <1>7 DEF FitInv, Settled, Seeking, Finished, Start
<1>9. \A q \in Proc \ {p} : Same(q)
  BY OnlyMine DEF Begin
<1> QED
  BY <1>3, <1>4, <1>6, <1>8, <1>9, Assemble

LEMMA ReadClosureInv ==
  ASSUME Inv, NEW p \in Proc, ReadClosure(p)
  PROVE  Inv'
<1>1. [m \in Module |-> IF m \in Library THEN sources[p][m] ELSE disk[m]] \in Sources
  BY DEF Inv, Typed, Sources
<1>2. Typed'
  BY <1>1 DEF Inv, Typed, ReadClosure, Goto, Phases, files
<1>3. ArtifactsInv' /\ FrontendsInv'
  BY DEF Inv, ReadClosure, ArtifactsInv, FrontendsInv, files
<1>4. pc[p] = "reading" /\ pc'[p] = "module" /\ todo'[p] = Wanted
  BY DEF Inv, Typed, ReadClosure, Goto
<1>5. LoopInv(p)'
  BY <1>4 DEF LoopInv, Settled, Seeking, Visiting
<1>6. \A m \in Wanted : artifact[p][m] = NoArtifact
  BY <1>4 DEF Inv, FitInv, Settled, Seeking
<1>7. FitInv(p)'
  BY <1>4, <1>6 DEF FitInv, Finished, ReadClosure
<1>8. \A q \in Proc \ {p} : Same(q)
  BY OnlyMine DEF Begin
<1> QED
  BY <1>2, <1>3, <1>5, <1>7, <1>8, Assemble

\* The process ends and forgets what it holds.
LEMMA ExitInv ==
  ASSUME Inv, NEW p \in Proc, Exit(p)
  PROVE  Inv'
<1>1. [backend |-> NoBackend, roots |-> AllRoots] \in Configs
  BY DEF Configs
<1>2. Unread \in Sources
  BY DEF Unread, Inv, Typed
<1>3. Typed'
  BY <1>1, <1>2 DEF Inv, Typed, Exit, Goto, Phases, files
<1>4. ArtifactsInv' /\ FrontendsInv'
  BY DEF Inv, Exit, ArtifactsInv, FrontendsInv, files
<1>5. pc'[p] = "idle"
  BY DEF Inv, Typed, Exit, Goto
<1>6. LoopInv(p)'
  BY <1>5 DEF LoopInv, Settled, Seeking, Visiting
<1>7. \A m \in Wanted : artifact'[p][m] = NoArtifact
  BY DEF Inv, Typed, Exit
<1>8. FitInv(p)'
  BY <1>5, <1>7 DEF FitInv, Settled, Seeking, Finished
<1>9. \A q \in Proc \ {p} : Same(q)
  BY OnlyMine
<1> QED
  BY <1>3, <1>4, <1>6, <1>8, <1>9, Assemble

\* The loop goes to its next module.
LEMMA NextModuleInv ==
  ASSUME Inv, NEW p \in Proc, NextModule(p)
  PROVE  Inv'
<1>1. PICK m \in todo[p] : /\ at' = [at EXCEPT ![p] = m]
                           /\ todo' = [todo EXCEPT ![p] = @ \ {m}]
  BY DEF NextModule
<1>2. m \in Wanted /\ m \in Module
  BY ProbeAssumption DEF Inv, Typed
<1>3. Typed'
  BY <1>1, <1>2 DEF Inv, Typed, NextModule, Goto, Phases, files
<1>4. ArtifactsInv' /\ FrontendsInv'
  BY DEF Inv, NextModule, ArtifactsInv, FrontendsInv, files
<1>5. /\ pc[p] = "module" /\ at'[p] = m /\ todo'[p] = todo[p] \ {m}
      /\ pc'[p] = IF config[p].backend = NoBackend THEN "frontend" ELSE "artifact"
      /\ config'[p] = config[p] /\ program'[p] = program[p] /\ artifact'[p] = artifact[p]
  BY <1>1 DEF Inv, Typed, NextModule, Goto
<1>6. Settled(p)' = Settled(p)
  BY <1>5 DEF Settled, Seeking
<1>7. LoopInv(p)'
  BY <1>2, <1>5, <1>6 DEF Inv, LoopInv, Visiting
<1>8. FitInv(p)'
  BY <1>5, <1>6 DEF Inv, FitInv, Finished, Fit
<1>9. \A q \in Proc \ {p} : Same(q)
  BY OnlyMine DEF Begin
<1> QED
  BY <1>3, <1>4, <1>7, <1>8, <1>9, Assemble

\* The module a process looks up has neither a Program nor an artifact yet.
LEMMA SeekingHasNothing ==
  ASSUME Inv, NEW p \in Proc, pc[p] \in Seeking
  PROVE  /\ at[p] \in Wanted /\ at[p] \in Module /\ at[p] \notin todo[p]
         /\ at[p] \notin Settled(p) /\ artifact[p][at[p]] = NoArtifact
<1>1. at[p] \in Wanted /\ at[p] \notin todo[p] /\ at[p] \in Module
  BY DEF Inv, Typed, LoopInv, Seeking, Visiting
<1>2. at[p] \notin Settled(p)
  BY DEF Settled, Seeking
<1> QED
  BY <1>1, <1>2 DEF Inv, FitInv

\* A process that gives the module it looks up a Program, and an artifact that
\* is that of the Program or none, keeps its part of the invariant.
LEMMA SettleInv ==
  ASSUME Inv, NEW p \in Proc, pc[p] \in Seeking, NEW g \in Programs,
         NEW phase \in {"module", "offer"}, Settle(p, g, phase),
         \/ artifact' = artifact
         \/ /\ artifact' = [artifact EXCEPT ![p][at[p]] = Compiled(g, config[p].backend)]
            /\ config[p].backend # NoBackend
            /\ g = Project(g, config[p].roots)
  PROVE  /\ pc' \in [Proc -> Phases]
         /\ program' \in [Proc -> [Wanted -> Programs \cup {NoProgram}]]
         /\ artifact' \in [Proc -> [Wanted -> Artifacts \cup {NoArtifact}]]
         /\ LoopInv(p)' /\ FitInv(p)'
         /\ \A q \in Proc \ {p} : Same(q)
<1> DEFINE m == at[p]
<1>1. m \in Wanted /\ m \notin todo[p] /\ m \notin Settled(p) /\ artifact[p][m] = NoArtifact
  BY SeekingHasNothing
<1>2. /\ pc'[p] = phase /\ config'[p] = config[p] /\ at'[p] = at[p] /\ todo'[p] = todo[p]
      /\ program'[p] = [program[p] EXCEPT ![m] = g]
  BY DEF Inv, Typed, Settle, Goto
<1>3. \/ artifact'[p] = artifact[p]
      \/ /\ artifact'[p] = [artifact[p] EXCEPT ![m] = Compiled(g, config[p].backend)]
         /\ config[p].backend # NoBackend
         /\ g = Project(g, config[p].roots)
  BY DEF Inv, Typed
<1>4. program[p] \in [Wanted -> Programs \cup {NoProgram}]
      /\ artifact[p] \in [Wanted -> Artifacts \cup {NoArtifact}]
  BY DEF Inv, Typed
<1>5. config[p].backend # NoBackend => Compiled(g, config[p].backend) \in Artifacts
  BY ConfigParts DEF Inv, Typed, Compiled, Artifacts
<1>6. Settled(p)' = Settled(p) \cup {m}
  BY <1>1, <1>2 DEF Settled, Seeking
<1>7. pc' \in [Proc -> Phases]
  BY DEF Inv, Typed, Settle, Goto, Phases
<1>8. program' \in [Proc -> [Wanted -> Programs \cup {NoProgram}]]
  BY <1>1 DEF Inv, Typed, Settle
<1>9. artifact' \in [Proc -> [Wanted -> Artifacts \cup {NoArtifact}]]
  <2>1. artifact \in [Proc -> [Wanted -> Artifacts \cup {NoArtifact}]]
    BY DEF Inv, Typed
  <2>2. CASE artifact' = artifact
    BY <2>1, <2>2
  <2>3. CASE /\ artifact' = [artifact EXCEPT ![p][m] = Compiled(g, config[p].backend)]
             /\ config[p].backend # NoBackend
    BY <1>1, <1>5, <2>1, <2>3
  <2> QED
    BY <2>2, <2>3
<1>10. \A x \in Settled(p) : program'[p][x] \in Programs
  BY <1>1, <1>2, <1>4 DEF Inv, LoopInv
<1>11. program'[p][m] = g
  BY <1>1, <1>2, <1>4
<1>12. LoopInv(p)'
  BY <1>1, <1>2, <1>6, <1>10, <1>11 DEF LoopInv, Visiting
<1>13. Finished(p)' = {}
  BY <1>2 DEF Finished
<1>14. ASSUME NEW x \in Wanted, artifact'[p][x] # NoArtifact
       PROVE  x \in Settled(p)' /\ Fit(p, x)'
  <2>1. CASE x = m
    BY <1>1, <1>2, <1>3, <1>4, <1>6, <1>11, <1>14, <2>1 DEF Fit
  <2>2. CASE x # m
    <3>1. artifact'[p][x] = artifact[p][x] /\ program'[p][x] = program[p][x]
      BY <1>1, <1>2, <1>3, <1>4, <2>2
    <3>2. x \in Settled(p) /\ Fit(p, x)
      BY <1>14, <3>1 DEF Inv, FitInv
    <3> QED
      BY <1>2, <1>6, <3>1, <3>2 DEF Fit
  <2> QED
    BY <2>1, <2>2
<1>15. FitInv(p)'
  BY <1>13, <1>14 DEF FitInv
<1>16. \A q \in Proc \ {p} : Same(q)
  BY DEF Inv, Typed, Settle, Goto, Same
<1> QED
  BY <1>7, <1>8, <1>9, <1>12, <1>15, <1>16

\* Keys under which artifacts are looked up and stored, and the Programs there.
LEMMA ArtifactKeyTyped ==
  ASSUME Inv, NEW p \in Proc, config[p].backend # NoBackend, NEW m \in Wanted
  PROVE  /\ ArtifactKey(m, closure[p], config[p]) \in Keys
         /\ ArtifactKey(m, closure[p], config[p]).roots = config[p].roots
         /\ ArtifactKey(m, closure[p], config[p]).backend = config[p].backend
BY ConfigParts DEF Inv, Typed, ArtifactKey, Keys

\* Storing a Program with the artifact of its projection keeps the cache sound.
LEMMA StoreArtifactInv ==
  ASSUME ArtifactsInv, NEW k \in Keys, NEW g \in Programs,
         StoreArtifact(k, [program |-> g, artifact |-> Compiled(Project(g, k.roots), k.backend)])
  PROVE  ArtifactsInv'
<1> DEFINE e == [program |-> g, artifact |-> Compiled(Project(g, k.roots), k.backend)]
<1>1. CASE artifacts' = artifacts
  BY <1>1 DEF ArtifactsInv
<1>2. CASE artifacts' = Put(artifacts, k, e)
  <2>1. DOMAIN artifacts' = DOMAIN artifacts \cup {k}
    BY <1>2 DEF Put
  <2>2. artifacts'[k] = e
    BY <1>2 DEF Put
  <2>3. \A x \in DOMAIN artifacts : x # k => artifacts'[x] = artifacts[x]
    BY <1>2 DEF Put
  <2> HIDE DEF e
  <2>4. e.program = g /\ e = [program |-> g, artifact |-> Compiled(Project(g, k.roots), k.backend)]
    BY DEF e
  <2> QED
    BY <2>1, <2>2, <2>3, <2>4 DEF ArtifactsInv
<1> QED
  BY <1>1, <1>2 DEF StoreArtifact

\* Storing a Program keeps the frontend cache sound.
LEMMA StoreProgramInv ==
  ASSUME FrontendsInv, NEW k, NEW g \in Programs, NEW meta,
         StoreProgram(k, [program |-> g, meta |-> meta])
  PROVE  FrontendsInv'
<1> DEFINE e == [program |-> g, meta |-> meta]
<1>1. CASE frontends' = frontends
  BY <1>1 DEF FrontendsInv
<1>2. CASE frontends' = Put(frontends, k, e)
  <2>1. DOMAIN frontends' = DOMAIN frontends \cup {k}
    BY <1>2 DEF Put
  <2>2. frontends'[k] = e
    BY <1>2 DEF Put
  <2>3. \A x \in DOMAIN frontends : x # k => frontends'[x] = frontends[x]
    BY <1>2 DEF Put
  <2> QED
    BY <2>1, <2>2, <2>3 DEF FrontendsInv
<1> QED
  BY <1>1, <1>2 DEF StoreProgram

\* An artifact hit: the Program it settles with, and the artifact with it.
LEMMA ArtifactHitParts ==
  ASSUME Inv, NEW p \in Proc, ArtifactHit(p)
  PROVE  LET k == ArtifactKey(at[p], closure[p], config[p])
             g == Project(artifacts[k].program, config[p].roots)
         IN /\ pc[p] = "artifact" /\ config[p].backend # NoBackend
            /\ k \in Keys /\ k \in DOMAIN artifacts
            /\ artifacts[k].program \in Programs /\ g \in Programs
            /\ g = Project(g, config[p].roots)
            /\ artifacts[k].artifact = Compiled(g, config[p].backend)
            /\ \/ artifacts' = artifacts
               \/ StoreArtifact(k, [program |-> g, artifact |-> Compiled(g, config[p].backend)])
<1> DEFINE k == ArtifactKey(at[p], closure[p], config[p])
           e == artifacts[k]
           g == Project(e.program, config[p].roots)
<1>1. pc[p] = "artifact" /\ k \in DOMAIN artifacts
  BY DEF ArtifactHit
<1>2. config[p].backend # NoBackend /\ at[p] \in Wanted
  BY <1>1 DEF Inv, LoopInv, Visiting
<1>3. k \in Keys /\ k.roots = config[p].roots /\ k.backend = config[p].backend
  BY <1>2, ArtifactKeyTyped
<1>4. /\ e.program \in Programs
      /\ e = [program |-> e.program, artifact |-> Compiled(g, config[p].backend)]
  BY <1>1, <1>3 DEF Inv, ArtifactsInv
<1>5. config[p].roots \in Roots
  BY ConfigParts DEF Inv, Typed
<1>6. g \in Programs /\ g = Project(g, config[p].roots)
  BY <1>4, <1>5, ProjectTyped, ProjectTwice
<1>7. artifacts' = artifacts \/ StoreArtifact(k, [e EXCEPT !.program = g])
  BY DEF ArtifactHit, CachedProgram
<1>8. [e EXCEPT !.program = g] = [program |-> g, artifact |-> Compiled(g, config[p].backend)]
  BY <1>4
<1>9. e.artifact = Compiled(g, config[p].backend)
  BY <1>4
<1> HIDE DEF g, e, k
<1> QED
  BY <1>1, <1>2, <1>3, <1>4, <1>6, <1>7, <1>8, <1>9 DEF g, e, k

LEMMA ArtifactHitInv ==
  ASSUME Inv, NEW p \in Proc, ArtifactHit(p)
  PROVE  Inv'
<1> DEFINE k == ArtifactKey(at[p], closure[p], config[p])
           g == Project(artifacts[k].program, config[p].roots)
<1>1. /\ pc[p] = "artifact" /\ config[p].backend # NoBackend /\ k \in Keys
      /\ g \in Programs /\ g = Project(g, config[p].roots)
      /\ artifacts[k].artifact = Compiled(g, config[p].backend)
      /\ \/ artifacts' = artifacts
         \/ StoreArtifact(k, [program |-> g, artifact |-> Compiled(g, config[p].backend)])
  BY ArtifactHitParts
<1>2. at[p] \in Wanted /\ k.roots = config[p].roots /\ k.backend = config[p].backend
  BY <1>1 DEF Inv, LoopInv, Visiting, ArtifactKey
<1>3. PICK phase \in {"module", "offer"} : Settle(p, g, phase)
  BY DEF ArtifactHit, CachedProgram
<1>4. artifact' = [artifact EXCEPT ![p][at[p]] = Compiled(g, config[p].backend)]
  BY <1>1 DEF ArtifactHit
<1> HIDE DEF g
<1>5. ArtifactsInv'
  BY <1>1, <1>2, StoreArtifactInv DEF Inv, ArtifactsInv
<1>6. FrontendsInv'
  BY DEF Inv, FrontendsInv, ArtifactHit
<1>7. /\ pc' \in [Proc -> Phases]
      /\ program' \in [Proc -> [Wanted -> Programs \cup {NoProgram}]]
      /\ artifact' \in [Proc -> [Wanted -> Artifacts \cup {NoArtifact}]]
      /\ LoopInv(p)' /\ FitInv(p)'
      /\ \A q \in Proc \ {p} : Same(q)
  BY <1>1, <1>3, <1>4, SettleInv, ZenonT(60) DEF Seeking
<1>8. UNCHANGED <<disk, runs, config, sources, closure, at, todo>>
  BY <1>3 DEF ArtifactHit, Settle
<1>9. Typed'
  BY <1>7, <1>8 DEF Inv, Typed
<1> QED
  BY <1>5, <1>6, <1>7, <1>9, Assemble

\* A process that finds nothing goes on to the next kind of entry.
LEMMA MissInv ==
  ASSUME Inv, NEW p \in Proc, ArtifactMiss(p) \/ FrontendMiss(p)
  PROVE  Inv'
<1>1. /\ pc[p] \in Seeking /\ UNCHANGED <<files, locals>>
      /\ \E next \in {"frontend", "elaborate"} : Goto(p, next)
  BY DEF ArtifactMiss, FrontendMiss, Miss, AfterMiss, Seeking
<1>2. Typed'
  BY <1>1 DEF Inv, Typed, Goto, Phases, files, locals
<1>3. pc'[p] \in {"frontend", "elaborate"}
  BY <1>1 DEF Inv, Typed, Goto
<1>4. ArtifactsInv' /\ FrontendsInv'
  BY <1>1 DEF Inv, ArtifactsInv, FrontendsInv, files
<1>5. Settled(p)' = Settled(p) /\ Finished(p)' = {}
  BY <1>1, <1>3 DEF Settled, Seeking, Finished, locals
<1>6. LoopInv(p)'
  BY <1>1, <1>3, <1>5 DEF Inv, LoopInv, Seeking, Visiting, locals
<1>7. FitInv(p)'
  BY <1>1, <1>5 DEF Inv, FitInv, Fit, locals
<1>8. \A q \in Proc \ {p} : Same(q)
  BY OnlyMine DEF Lookup
<1> QED
  BY <1>2, <1>4, <1>6, <1>7, <1>8, Assemble

LEMMA OfferInv ==
  ASSUME Inv, NEW p \in Proc, Offer(p)
  PROVE  Inv'
<1>1. pc[p] = "offer" /\ Goto(p, "module") /\ UNCHANGED <<disk, artifacts, runs, locals>>
  BY DEF Offer
<1>2. Typed'
  BY <1>1 DEF Inv, Typed, Goto, Phases, locals
<1>3. pc'[p] = "module"
  BY <1>1 DEF Inv, Typed, Goto
<1>4. at[p] \in Settled(p)
  BY <1>1 DEF Inv, LoopInv, Visiting, Settled
<1>5. program[p][at[p]] \in Programs
  BY <1>4 DEF Inv, LoopInv
<1>6. ArtifactsInv' /\ FrontendsInv'
  BY <1>1, <1>5, StoreProgramInv DEF Inv, ArtifactsInv, Offer
<1>7. Settled(p)' = Settled(p) /\ Finished(p)' = {}
  BY <1>1, <1>3 DEF Settled, Seeking, Finished, locals
<1>8. LoopInv(p)'
  BY <1>1, <1>3, <1>7 DEF Inv, LoopInv, Visiting, locals
<1>9. FitInv(p)'
  BY <1>1, <1>7 DEF Inv, FitInv, Fit, locals
<1>10. \A q \in Proc \ {p} : Same(q)
  BY OnlyMine DEF Lookup
<1> QED
  BY <1>2, <1>6, <1>8, <1>9, <1>10, Assemble

\* A frontend hit, a legacy hit and an elaboration settle with a Program.
LEMMA ProgramFoundInv ==
  ASSUME Inv, NEW p \in Proc, FrontendHit(p) \/ LegacyHit(p) \/ Elaborate(p)
  PROVE  Inv'
<1>1. pc[p] \in Seeking /\ artifact' = artifact /\ UNCHANGED <<disk, artifacts, runs>>
  BY DEF FrontendHit, LegacyHit, Elaborate, Seeking, files
<1>2. at[p] \in Wanted /\ at[p] \in Module
  BY <1>1, SeekingHasNothing
<1>3. Program(at[p], closure[p]) \in Programs /\ Program(at[p], sources[p]) \in Programs
  BY <1>2, ProgramTyped DEF Inv, Typed
<1>4. FrontendHit(p) => frontends[FrontendKey(at[p], closure[p])].program \in Programs
  BY DEF FrontendHit, Inv, FrontendsInv
<1>5. PICK g \in Programs, phase \in {"module", "offer"} : Settle(p, g, phase)
  BY <1>3, <1>4 DEF FrontendHit, LegacyHit, Elaborate, Elaborated
<1>6. FrontendsInv'
  <2>1. CASE FrontendHit(p) \/ LegacyHit(p)
    BY <2>1 DEF FrontendHit, LegacyHit, files, Inv, FrontendsInv
  <2>2. CASE Elaborate(p)
    <3>1. PICK meta : StoreProgram(FrontendKey(at[p], closure[p]),
                                   [program |-> Program(at[p], sources[p]), meta |-> meta])
      BY <2>2 DEF Elaborate, Elaborated
    <3> QED
      BY <1>3, <3>1, StoreProgramInv DEF Inv
  <2> QED
    BY <2>1, <2>2
<1>7. ArtifactsInv'
  BY <1>1 DEF Inv, ArtifactsInv
<1>8. /\ pc' \in [Proc -> Phases]
      /\ program' \in [Proc -> [Wanted -> Programs \cup {NoProgram}]]
      /\ artifact' \in [Proc -> [Wanted -> Artifacts \cup {NoArtifact}]]
      /\ LoopInv(p)' /\ FitInv(p)'
      /\ \A q \in Proc \ {p} : Same(q)
  BY <1>1, <1>5, SettleInv
<1>9. Typed'
  BY <1>1, <1>5, <1>8 DEF Inv, Typed, Settle
<1> QED
  BY <1>6, <1>7, <1>8, <1>9, Assemble

\* The loop over the modules ends, with a Program for each.
LEMMA ProgramsDoneInv ==
  ASSUME Inv, NEW p \in Proc, ProgramsDone(p)
  PROVE  Inv'
<1>1. Typed'
  BY DEF Inv, Typed, ProgramsDone, Goto, Phases, files
<1>2. ArtifactsInv' /\ FrontendsInv'
  BY DEF Inv, ProgramsDone, ArtifactsInv, FrontendsInv, files
<1>3. /\ pc[p] = "module" /\ todo[p] = {}
      /\ \/ config[p].backend = NoBackend /\ pc'[p] = "ready"
         \/ config[p].backend # NoBackend /\ pc'[p] = "backend" /\ todo'[p] = Wanted
      /\ config'[p] = config[p] /\ program'[p] = program[p] /\ artifact'[p] = artifact[p]
  BY DEF Inv, Typed, ProgramsDone, Goto
<1>4. Settled(p)' = Settled(p) /\ Finished(p)' = {}
  BY <1>3 DEF Settled, Seeking, Finished
<1>5. LoopInv(p)'
  BY <1>3, <1>4 DEF Inv, LoopInv, Visiting
<1>6. FitInv(p)'
  BY <1>3, <1>4 DEF Inv, FitInv, Fit
<1>7. \A q \in Proc \ {p} : Same(q)
  BY OnlyMine DEF Build
<1> QED
  BY <1>1, <1>2, <1>5, <1>6, <1>7, Assemble

\* An artifact that was found is kept, being that of the Program.
LEMMA ReuseArtifactInv ==
  ASSUME Inv, NEW p \in Proc, ReuseArtifact(p)
  PROVE  Inv'
<1>1. PICK m \in todo[p] : artifact[p][m] # NoArtifact /\ todo' = [todo EXCEPT ![p] = @ \ {m}]
  BY DEF ReuseArtifact
<1>2. UNCHANGED <<files, pc, config, sources, closure, at, program, artifact>> /\ pc[p] = "backend"
  BY DEF ReuseArtifact
<1>3. Typed'
  BY <1>1, <1>2 DEF Inv, Typed, files
<1>4. ArtifactsInv' /\ FrontendsInv'
  BY <1>2 DEF Inv, ArtifactsInv, FrontendsInv, files
<1>5. m \in Wanted /\ todo'[p] = todo[p] \ {m}
  BY <1>1 DEF Inv, Typed
<1>6. Settled(p)' = Settled(p) /\ Finished(p)' = Finished(p) \cup {m}
  BY <1>2, <1>5 DEF Settled, Seeking, Finished
<1>7. \A x : Fit(p, x)' <=> Fit(p, x)
  BY <1>2 DEF Fit
<1>8. LoopInv(p)'
  BY <1>2, <1>6 DEF Inv, LoopInv, Visiting
<1>9. FitInv(p)'
  BY <1>1, <1>2, <1>5, <1>6, <1>7 DEF Inv, FitInv
<1>10. \A q \in Proc \ {p} : Same(q)
  BY OnlyMine DEF Emit
<1> QED
  BY <1>3, <1>4, <1>8, <1>9, <1>10, Assemble

\* A missing artifact is compiled from the projected Program.
LEMMA CompileBackendInv ==
  ASSUME Inv, NEW p \in Proc, CompileBackend(p)
  PROVE  Inv'
<1>1. pc[p] = "backend" /\ UNCHANGED <<disk, frontends, runs, pc, config, sources, closure, at>>
  BY DEF CompileBackend
<1> DEFINE o == config[p]
<1>2. PICK m \in todo[p] :
        /\ program' = [program EXCEPT ![p][m] = Project(program[p][m], o.roots)]
        /\ artifact' = [artifact EXCEPT ![p][m] = Compiled(Project(program[p][m], o.roots), o.backend)]
        /\ StoreArtifact(ArtifactKey(m, closure[p], o),
              [program |-> Project(program[p][m], o.roots),
               artifact |-> Compiled(Project(program[p][m], o.roots), o.backend)])
        /\ todo' = [todo EXCEPT ![p] = @ \ {m}]
  BY DEF CompileBackend
<1> DEFINE g == Project(program[p][m], o.roots)
           a == Compiled(g, o.backend)
           k == ArtifactKey(m, closure[p], o)
<1>3. m \in Wanted /\ o.backend # NoBackend /\ o.roots \in Roots /\ o.backend \in Backend
  BY <1>1, ConfigParts DEF Inv, Typed, LoopInv
<1>4. program[p][m] \in Programs
  BY <1>1, <1>3 DEF Inv, LoopInv, Settled
<1>5. g \in Programs /\ g = Project(g, o.roots)
  BY <1>3, <1>4, ProjectTyped, ProjectTwice
<1>6. a \in Artifacts
  BY <1>3, <1>5 DEF Compiled, Artifacts
<1>7. k \in Keys /\ k.roots = o.roots /\ k.backend = o.backend
  BY <1>3, ArtifactKeyTyped
<1>8. /\ program'[p] = [program[p] EXCEPT ![m] = g]
      /\ artifact'[p] = [artifact[p] EXCEPT ![m] = a]
      /\ todo'[p] = todo[p] \ {m}
      /\ StoreArtifact(k, [program |-> g, artifact |-> a])
  BY <1>2 DEF Inv, Typed
<1>9. \A q \in Proc \ {p} : Same(q)
  BY OnlyMine DEF Emit
<1>10. program[p] \in [Wanted -> Programs \cup {NoProgram}]
       /\ artifact[p] \in [Wanted -> Artifacts \cup {NoArtifact}]
  BY DEF Inv, Typed
<1>11. todo' \in [Proc -> SUBSET Wanted]
  BY <1>2 DEF Inv, Typed
<1>12. program' \in [Proc -> [Wanted -> Programs \cup {NoProgram}]]
  BY <1>2, <1>3, <1>5 DEF Inv, Typed
<1>13. artifact' \in [Proc -> [Wanted -> Artifacts \cup {NoArtifact}]]
  BY <1>2, <1>3, <1>6 DEF Inv, Typed
<1>14. Typed'
  BY <1>1, <1>11, <1>12, <1>13 DEF Inv, Typed
<1>15. a = Compiled(Project(g, k.roots), k.backend)
  BY <1>5, <1>7
<1> HIDE DEF g, k, o
<1>16. ArtifactsInv'
  BY <1>5, <1>7, <1>8, <1>15, StoreArtifactInv DEF Inv
<1>17. FrontendsInv'
  BY <1>1 DEF Inv, FrontendsInv
<1>18. Settled(p)' = Settled(p) /\ Finished(p)' = Finished(p) \cup {m} /\ Settled(p) = Wanted
  BY <1>1, <1>3, <1>8 DEF Settled, Seeking, Finished
<1>19. program'[p][m] = g /\ artifact'[p][m] = a
  BY <1>3, <1>8, <1>10
<1>20. \A x \in Wanted : x # m => program'[p][x] = program[p][x] /\ artifact'[p][x] = artifact[p][x]
  BY <1>3, <1>8, <1>10
<1>21. LoopInv(p)'
  BY <1>1, <1>3, <1>5, <1>18, <1>19, <1>20 DEF Inv, LoopInv, Visiting
<1>22. Fit(p, m)'
  BY <1>1, <1>5, <1>19 DEF Fit, o
<1>23. \A x \in Wanted : x # m => (Fit(p, x)' <=> Fit(p, x))
  BY <1>1, <1>20 DEF Fit
<1>24. FitInv(p)'
  <2>1. \A x \in Wanted : artifact'[p][x] # NoArtifact => Fit(p, x)'
    BY <1>20, <1>22, <1>23 DEF Inv, FitInv
  <2>2. \A x \in Finished(p)' : Fit(p, x)'
    BY <1>18, <1>22, <1>23 DEF Inv, FitInv, Finished
  <2> QED
    BY <1>18, <2>1, <2>2 DEF FitInv
<1> QED
  BY <1>9, <1>14, <1>16, <1>17, <1>21, <1>24, Assemble

LEMMA BackendDoneInv ==
  ASSUME Inv, NEW p \in Proc, BackendDone(p)
  PROVE  Inv'
<1>1. pc[p] = "backend" /\ todo[p] = {} /\ Goto(p, "ready") /\ UNCHANGED <<files, locals>>
  BY DEF BackendDone
<1>2. Typed'
  BY <1>1 DEF Inv, Typed, Goto, Phases, files, locals
<1>3. ArtifactsInv' /\ FrontendsInv'
  BY <1>1 DEF Inv, ArtifactsInv, FrontendsInv, files
<1>4. pc'[p] = "ready" /\ config[p].backend # NoBackend
  BY <1>1 DEF Inv, Typed, LoopInv, Goto
<1>5. Settled(p)' = Settled(p) /\ Finished(p)' = Finished(p)
  BY <1>1, <1>4 DEF Settled, Seeking, Finished, locals
<1>6. LoopInv(p)'
  BY <1>1, <1>4, <1>5 DEF Inv, LoopInv, Visiting, locals
<1>7. FitInv(p)'
  BY <1>1, <1>5 DEF Inv, FitInv, Fit, locals
<1>8. \A q \in Proc \ {p} : Same(q)
  BY OnlyMine DEF Emit
<1> QED
  BY <1>2, <1>3, <1>6, <1>7, <1>8, Assemble

\* Entries of an older probe hold the whole Program beside the root artifact.
LEMMA OlderArtifactsParts ==
  ASSUME NEW k \in DOMAIN OlderArtifacts
  PROVE  /\ k \in Keys
         /\ Program(k.module, k.closure) \in Programs
         /\ OlderArtifacts[k] =
              [program |-> Program(k.module, k.closure),
               artifact |-> Compiled(Project(Program(k.module, k.closure), k.roots), k.backend)]
<1>1. PICK m \in Wanted, c \in Legacy, o \in [backend : Backend, roots : Root] : k = ArtifactKey(m, c, o)
  BY DEF OlderArtifacts
<1>2. k \in Keys
  BY <1>1, ProbeAssumption DEF ArtifactKey, Keys, Roots
<1>3. Program(k.module, k.closure) \in Programs
  BY <1>2, ProgramTyped, ProbeAssumption DEF Keys
<1> QED
  BY <1>2, <1>3 DEF OlderArtifacts

LEMMA InitInv == Init => Inv
<1> SUFFICES ASSUME Init PROVE Inv
  OBVIOUS
<1>1. Unread \in Sources
  BY DEF Init, Unread
<1>2. [backend |-> NoBackend, roots |-> AllRoots] \in Configs
  BY DEF Configs
<1>3. (CHOOSE m \in Module : TRUE) \in Module
  BY ProbeAssumption
<1>4. at \in [Proc -> Module]
  BY <1>3 DEF Init
<1>5. Typed
  BY <1>1, <1>2, <1>4, ProbeAssumption DEF Init, Typed, Phases
<1>6. ArtifactsInv
  <2>1. CASE artifacts = OlderArtifacts
    BY <2>1, OlderArtifactsParts DEF ArtifactsInv
  <2>2. CASE artifacts = [k \in {} |-> NoProgram]
    BY <2>2 DEF ArtifactsInv
  <2> QED
    BY <2>1, <2>2 DEF Init
<1>7. FrontendsInv
  BY DEF Init, FrontendsInv
<1>8. ASSUME NEW p \in Proc PROVE LoopInv(p) /\ FitInv(p)
  <2>1. pc[p] = "idle" /\ \A m \in Wanted : artifact[p][m] = NoArtifact
    BY DEF Init
  <2> QED
    BY <2>1 DEF LoopInv, FitInv, Settled, Seeking, Visiting, Finished
<1> QED
  BY <1>5, <1>6, <1>7, <1>8 DEF Inv

LEMMA StepInv == Inv /\ [Next]_vars => Inv'
<1> SUFFICES ASSUME Inv, [Next]_vars PROVE Inv'
  OBVIOUS
<1>1. CASE UNCHANGED vars
  <2>1. Typed' /\ ArtifactsInv' /\ FrontendsInv'
    BY <1>1 DEF vars, Inv, Typed, ArtifactsInv, FrontendsInv
  <2>2. \A q \in Proc : Same(q)
    BY <1>1 DEF vars, Same
  <2> QED
    BY <2>1, <2>2, Frame DEF Inv
<1>2. ASSUME NEW m \in Module, NEW t \in Text, Edit(m, t) PROVE Inv'
  BY <1>2, EditInv
<1>3. ASSUME NEW p \in Proc, Exit(p) \/ Begin(p) PROVE Inv'
  BY <1>3, ExitInv, StartInv, ReadClosureInv, NextModuleInv DEF Begin
<1>4. ASSUME NEW p \in Proc, Lookup(p) PROVE Inv'
  BY <1>4, ArtifactHitInv, MissInv, OfferInv, ProgramFoundInv DEF Lookup
<1>5. ASSUME NEW p \in Proc, Build(p) \/ Emit(p) PROVE Inv'
  BY <1>5, ProgramFoundInv, ProgramsDoneInv, ReuseArtifactInv, CompileBackendInv, BackendDoneInv
  DEF Build, Emit
<1> QED
  BY <1>1, <1>2, <1>3, <1>4, <1>5 DEF Next

\* The invariant of the first layer holds in every reachable state, whatever
\* the developer edits when.
THEOREM CacheInv == Spec => []Inv
BY InitInv, StepInv, PTL DEF Spec

\* Every variable keeps its type, and a probe past its first loop has a
\* Program for every module it was asked for.
THEOREM TypeCorrect == Spec => []TypeOK
<1>1. Inv => TypeOK
  <2> SUFFICES ASSUME Inv PROVE TypeOK
    OBVIOUS
  <2>1. ASSUME NEW p \in Proc, pc[p] \in {"backend", "ready"}, NEW m \in Wanted
        PROVE  program[p][m] # NoProgram
    BY <2>1, ProbeAssumption DEF Inv, LoopInv, Settled
  <2> QED
    BY <2>1 DEF Inv, Typed, TypeOK
<1> QED
  BY <1>1, CacheInv, PTL

\* "A Program hit never admits an artifact from a different backend": the
\* artifact of a ready session is its own backend's of the Program it serves,
\* also when the sources are edited in the middle of its start.
THEOREM SessionsFit == Spec => []SessionFitsProgram
<1>1. Inv => SessionFitsProgram
  BY DEF Inv, FitInv, Finished, Fit, SessionFitsProgram
<1> QED
  BY <1>1, CacheInv, PTL

(***************************************************************************)
(* The second layer: Programs and their sources.                           *)
(***************************************************************************)

\* What holds of the sources of a process that is left alone, with the disk as
\* it was or the process past its reads, goes on to hold.
LEMMA QuietFrame ==
  ASSUME NEW q \in Proc, ReadInv(q), SourceInv(q), Same(q),
         disk' = disk \/ pc[q] # "reading"
  PROVE  ReadInv(q)' /\ SourceInv(q)'
<1>1. Settled(q)' = Settled(q)
  BY DEF Same, Settled
<1> QED
  BY <1>1 DEF Same, ReadInv, SourceInv

\* A step of p on an unchanged disk keeps QuietInv if it keeps the entries and
\* p's part.
LEMMA QuietAssemble ==
  ASSUME QuietInv, NEW p \in Proc, disk' = disk, ArtifactSources', FrontendSources',
         ReadInv(p)', SourceInv(p)', \A q \in Proc \ {p} : Same(q)
  PROVE  QuietInv'
<1>1. \A q \in Proc \ {p} : ReadInv(q)' /\ SourceInv(q)'
  BY QuietFrame DEF QuietInv
<1> QED
  BY <1>1 DEF QuietInv

\* Of a step that touches no entry, only p's part is left to show.
LEMMA QuietPrivate ==
  ASSUME QuietInv, NEW p \in Proc, UNCHANGED <<disk, artifacts, frontends>>,
         ReadInv(p)', SourceInv(p)', \A q \in Proc \ {p} : Same(q)
  PROVE  QuietInv'
<1>1. ArtifactSources' /\ FrontendSources'
  BY DEF QuietInv, ArtifactSources, FrontendSources
<1> QED
  BY <1>1, QuietAssemble

\* With quiet reads an edit falls into no process's two reads.
LEMMA EditQuiet ==
  ASSUME QuietReads, QuietInv, NEW m \in Module, NEW t \in Text, Edit(m, t)
  PROVE  QuietInv'
<1>1. ArtifactSources' /\ FrontendSources'
  BY DEF QuietInv, Edit, ArtifactSources, FrontendSources
<1>2. \A q \in Proc : Same(q) /\ pc[q] # "reading"
  BY DEF Edit, locals, Same
<1> QED
  BY <1>1, <1>2, QuietFrame DEF QuietInv

\* The reads themselves, and the steps between modules.
LEMMA BeginQuiet ==
  ASSUME Inv, QuietInv, NEW p \in Proc, Exit(p) \/ Begin(p)
  PROVE  QuietInv'
<1>1. \A q \in Proc \ {p} : Same(q)
  BY OnlyMine
<1>2. UNCHANGED <<disk, artifacts, frontends>>
  BY DEF Exit, Begin, Start, ReadClosure, NextModule, files
<1>3. CASE Exit(p)
  <2>1. pc'[p] = "idle"
    BY <1>3 DEF Inv, Typed, Exit, Goto
  <2>2. ReadInv(p)' /\ SourceInv(p)'
    BY <2>1 DEF ReadInv, SourceInv, Settled, Seeking
  <2> QED
    BY <1>1, <1>2, <2>2, QuietPrivate
<1>4. CASE Start(p)
  <2>1. pc'[p] = "reading" /\ sources'[p] = disk'
    BY <1>4 DEF Inv, Typed, Start, Goto
  <2>2. ReadInv(p)' /\ SourceInv(p)'
    BY <2>1 DEF ReadInv, SourceInv, Settled, Seeking
  <2> QED
    BY <1>1, <1>2, <2>2, QuietPrivate
<1>5. CASE ReadClosure(p)
  <2>1. pc'[p] = "module" /\ todo'[p] = Wanted /\ sources'[p] = sources[p]
    BY <1>5 DEF Inv, Typed, ReadClosure, Goto
  <2>2. sources[p] = disk /\ disk \in Sources
    BY <1>5 DEF QuietInv, ReadInv, ReadClosure, Inv, Typed
  <2>3. closure'[p] = [m \in Module |-> IF m \in Library THEN sources[p][m] ELSE disk[m]]
    BY <1>5 DEF Inv, Typed, ReadClosure
  <2>4. closure'[p] = sources[p]
    BY <2>2, <2>3 DEF Sources
  <2>5. ReadInv(p)' /\ SourceInv(p)'
    BY <2>1, <2>4 DEF ReadInv, SourceInv, Settled, Seeking
  <2> QED
    BY <1>1, <1>2, <2>5, QuietPrivate
<1>6. CASE NextModule(p)
  <2>1. PICK m \in todo[p] : at'[p] = m /\ todo'[p] = todo[p] \ {m}
    BY <1>6 DEF Inv, Typed, NextModule
  <2>2. /\ pc[p] = "module" /\ pc'[p] \in {"frontend", "artifact"}
        /\ UNCHANGED <<config, sources, closure, program>>
    BY <1>6 DEF Inv, Typed, NextModule, Goto
  <2>3. Settled(p)' = Settled(p)
    BY <2>1, <2>2 DEF Settled, Seeking
  <2>4. ReadInv(p)' /\ SourceInv(p)'
    BY <2>2, <2>3 DEF QuietInv, ReadInv, SourceInv
  <2> QED
    BY <1>1, <1>2, <2>4, QuietPrivate
<1> QED
  BY <1>3, <1>4, <1>5, <1>6 DEF Begin

\* Settling with the Program of the sources read, as far as the roots go.
LEMMA SettleQuiet ==
  ASSUME Inv, QuietInv, NEW p \in Proc, pc[p] \in Seeking, NEW g,
         NEW phase \in {"module", "offer"}, Settle(p, g, phase),
         Project(g, config[p].roots) = Project(Program(at[p], closure[p]), config[p].roots)
  PROVE  ReadInv(p)' /\ SourceInv(p)'
<1>1. at[p] \in Wanted /\ at[p] \notin Settled(p) /\ at[p] \notin todo[p]
  BY SeekingHasNothing
<1>2. /\ pc'[p] = phase /\ UNCHANGED <<config, sources, closure, at, todo>>
      /\ program'[p] = [program[p] EXCEPT ![at[p]] = g]
  BY DEF Inv, Typed, Settle, Goto
<1>3. program[p] \in [Wanted -> Programs \cup {NoProgram}]
  BY DEF Inv, Typed
<1>4. Settled(p)' = Settled(p) \cup {at[p]}
  BY <1>1, <1>2 DEF Settled, Seeking
<1>5. \A m \in Settled(p) : m \in Wanted /\ m # at[p]
  BY <1>1 DEF Settled
<1>6. program'[p][at[p]] = g /\ \A m \in Settled(p) : program'[p][m] = program[p][m]
  BY <1>1, <1>2, <1>3, <1>5
<1>7. SourceInv(p)'
  BY <1>2, <1>4, <1>6 DEF QuietInv, SourceInv
<1>8. ReadInv(p)'
  BY <1>2 DEF QuietInv, ReadInv, Seeking
<1> QED
  BY <1>7, <1>8

\* Storing, under the key of a closure, a Program of that closure.
LEMMA StoreArtifactQuiet ==
  ASSUME ArtifactSources, NEW k \in Keys, NEW g, NEW a,
         StoreArtifact(k, [program |-> g, artifact |-> a]) \/ artifacts' = artifacts,
         Project(g, k.roots) = Project(Program(k.module, k.closure), k.roots)
  PROVE  ArtifactSources'
<1> DEFINE e == [program |-> g, artifact |-> a]
<1>1. CASE artifacts' = artifacts
  BY <1>1 DEF ArtifactSources
<1>2. CASE artifacts' = Put(artifacts, k, e)
  <2>1. DOMAIN artifacts' = DOMAIN artifacts \cup {k}
    BY <1>2 DEF Put
  <2>2. artifacts'[k] = e
    BY <1>2 DEF Put
  <2>3. \A x \in DOMAIN artifacts : x # k => artifacts'[x] = artifacts[x]
    BY <1>2 DEF Put
  <2>4. artifacts'[k].program = g
    BY <2>2
  <2> HIDE DEF e
  <2> QED
    BY <2>1, <2>3, <2>4 DEF ArtifactSources
<1> QED
  BY <1>1, <1>2 DEF StoreArtifact

\* Storing a Program without metadata, or with that of the closure it is of.
LEMMA StoreProgramQuiet ==
  ASSUME FrontendSources, NEW m \in Wanted, NEW c \in Sources, NEW g, NEW meta,
         StoreProgram(FrontendKey(m, c), [program |-> g, meta |-> meta]),
         \/ meta = NoMeta
         \/ g = Program(m, c) /\ meta = Metadata(m, Program(m, c), c)
  PROVE  FrontendSources'
<1> DEFINE e == [program |-> g, meta |-> meta]
           k == FrontendKey(m, c)
<1>1. CASE frontends' = frontends
  BY <1>1 DEF FrontendSources
<1>2. CASE frontends' = Put(frontends, k, e)
  <2>1. DOMAIN frontends' = DOMAIN frontends \cup {k}
    BY <1>2 DEF Put
  <2>2. frontends'[k] = e
    BY <1>2 DEF Put
  <2>3. \A x \in DOMAIN frontends : x # k => frontends'[x] = frontends[x]
    BY <1>2 DEF Put
  <2>4. frontends'[k].program = g /\ frontends'[k].meta = meta
    BY <2>2
  <2>5. ASSUME NEW x \in DOMAIN frontends', frontends'[x].meta # NoMeta
        PROVE  \E n \in Wanted, b \in Sources :
                 /\ x = FrontendKey(n, b)
                 /\ frontends'[x].program = Program(n, b)
                 /\ frontends'[x].meta = Metadata(n, Program(n, b), b)
    <3> HIDE DEF e
    <3>1. CASE x = k
      BY <2>4, <2>5, <3>1
    <3>2. CASE x # k
      <4> HIDE DEF k
      <4>1. x \in DOMAIN frontends /\ frontends'[x] = frontends[x]
        BY <2>1, <2>3, <3>2
      <4> QED
        BY <2>5, <4>1 DEF FrontendSources
    <3> QED
      BY <3>1, <3>2
  <2> QED
    BY <2>5 DEF FrontendSources
<1> QED
  BY <1>1, <1>2 DEF StoreProgram

LEMMA ArtifactHitQuiet ==
  ASSUME Inv, QuietInv, NEW p \in Proc, ArtifactHit(p)
  PROVE  QuietInv'
<1> DEFINE o == config[p]
           k == ArtifactKey(at[p], closure[p], config[p])
           g == Project(artifacts[k].program, config[p].roots)
<1>1. /\ pc[p] = "artifact" /\ k \in Keys /\ k \in DOMAIN artifacts
      /\ g = Project(g, o.roots)
      /\ \/ artifacts' = artifacts
         \/ StoreArtifact(k, [program |-> g, artifact |-> Compiled(g, o.backend)])
  BY ArtifactHitParts
<1>2. k.roots = o.roots /\ k.module = at[p] /\ k.closure = closure[p]
  BY DEF ArtifactKey
<1>3. g = Project(Program(at[p], closure[p]), o.roots)
  BY <1>1, <1>2 DEF QuietInv, ArtifactSources
<1>4. PICK phase \in {"module", "offer"} : Settle(p, g, phase)
  BY DEF ArtifactHit, CachedProgram
<1>5. disk' = disk /\ frontends' = frontends
  BY DEF ArtifactHit
<1>6. \A q \in Proc \ {p} : Same(q)
  BY OnlyMine DEF Lookup
<1> HIDE DEF g, k
<1>7. ReadInv(p)' /\ SourceInv(p)'
  BY <1>1, <1>3, <1>4, SettleQuiet DEF Seeking
<1>8. ArtifactSources'
  BY <1>1, <1>2, <1>3, StoreArtifactQuiet DEF QuietInv
<1>9. FrontendSources'
  BY <1>5 DEF QuietInv, FrontendSources
<1> QED
  BY <1>5, <1>6, <1>7, <1>8, <1>9, QuietAssemble

\* A frontend entry whose metadata matches is the Program of this closure.
LEMMA MatchIsExact ==
  ASSUME QuietInv, NEW m \in Module, NEW c \in Sources,
         FrontendKey(m, c) \in DOMAIN frontends, Matches(frontends[FrontendKey(m, c)], m, c)
  PROVE  frontends[FrontendKey(m, c)].program = Program(m, c)
<1> DEFINE e == frontends[FrontendKey(m, c)]
<1>1. e.meta # NoMeta
  BY DEF Matches
<1>2. PICK n \in Wanted, b \in Sources :
        FrontendKey(m, c) = FrontendKey(n, b) /\ e.program = Program(n, b) /\ e.meta = Metadata(n, Program(n, b), b)
  BY <1>1 DEF QuietInv, FrontendSources
<1>3. n = m /\ b[m] = c[m]
  BY <1>2 DEF FrontendKey
<1>4. m \notin Resolves[m][b]
  BY <1>3, ProbeAssumption
<1>5. DOMAIN Program(m, b).src = {m} \cup Resolves[m][b]
  BY DEF Program
<1>6. DOMAIN e.meta.deps = Resolves[m][b] /\ \A d \in Resolves[m][b] : e.meta.deps[d] = b[d]
  BY <1>2, <1>3, <1>4, <1>5 DEF Metadata
<1>7. SameFor(m, b, c)
  BY <1>3, <1>6 DEF Matches, SameFor
<1> QED
  BY <1>2, <1>3, <1>7, SameSourcesSameProgram

\* The other lookups, and the elaboration of what the resolver holds.
LEMMA ProgramFoundQuiet ==
  ASSUME Inv, QuietInv, NEW p \in Proc, FrontendHit(p) \/ LegacyHit(p) \/ Elaborate(p)
  PROVE  QuietInv'
<1>1. pc[p] \in Seeking /\ UNCHANGED <<disk, artifacts>>
  BY DEF FrontendHit, LegacyHit, Elaborate, Seeking, files
<1>2. at[p] \in Wanted /\ at[p] \in Module /\ closure[p] \in Sources
  BY <1>1, SeekingHasNothing DEF Inv, Typed
<1>3. closure[p] = sources[p]
  BY <1>1 DEF QuietInv, ReadInv, Seeking
<1>4. FrontendHit(p) => frontends[FrontendKey(at[p], closure[p])].program = Program(at[p], closure[p])
  BY <1>2, MatchIsExact DEF FrontendHit
<1>5. PICK phase \in {"module", "offer"} : Settle(p, Program(at[p], closure[p]), phase)
  BY <1>3, <1>4 DEF FrontendHit, LegacyHit, Elaborate, Elaborated
<1>6. ReadInv(p)' /\ SourceInv(p)'
  BY <1>1, <1>5, SettleQuiet
<1>7. \A q \in Proc \ {p} : Same(q)
  BY OnlyMine DEF Lookup, Build
<1>8. ArtifactSources'
  BY <1>1 DEF QuietInv, ArtifactSources
<1>9. FrontendSources'
  <2>1. CASE FrontendHit(p) \/ LegacyHit(p)
    BY <2>1 DEF FrontendHit, LegacyHit, files, QuietInv, FrontendSources
  <2>2. CASE Elaborate(p)
    <3> DEFINE g == Program(at[p], closure[p])
    <3>1. PICK meta \in {Metadata(at[p], g, closure[p]), NoMeta} :
            StoreProgram(FrontendKey(at[p], closure[p]), [program |-> g, meta |-> meta])
      BY <1>3, <2>2 DEF Elaborate, Elaborated
    <3> QED
      BY <1>2, <3>1, StoreProgramQuiet DEF QuietInv
  <2> QED
    BY <2>1, <2>2
<1> QED
  BY <1>1, <1>6, <1>7, <1>8, <1>9, QuietAssemble

\* Misses, offers and the ends of the loops move no Program.
LEMMA MoveQuiet ==
  ASSUME Inv, QuietInv, NEW p \in Proc,
         \/ ArtifactMiss(p) \/ FrontendMiss(p) \/ Offer(p)
         \/ ProgramsDone(p) \/ ReuseArtifact(p) \/ BackendDone(p)
  PROVE  QuietInv'
<1>1. \A q \in Proc \ {p} : Same(q)
  BY OnlyMine DEF Lookup, Build, Emit
<1>2. UNCHANGED <<disk, artifacts, config, sources, closure, program>>
  BY DEF ArtifactMiss, FrontendMiss, Miss, Offer, ProgramsDone, ReuseArtifact, BackendDone, files, locals
<1>3. pc[p] \notin {"idle", "reading"} /\ pc'[p] \notin {"idle", "reading"}
  BY DEF Inv, Typed, ArtifactMiss, FrontendMiss, Miss, AfterMiss, Offer, ProgramsDone, ReuseArtifact, BackendDone, Goto
<1>4. Settled(p)' = Settled(p)
  <2>1. CASE ArtifactMiss(p) \/ FrontendMiss(p)
    BY <2>1 DEF Inv, Typed, ArtifactMiss, FrontendMiss, Miss, AfterMiss, Goto, Settled, Seeking, locals
  <2>2. CASE Offer(p)
    BY <2>2 DEF Inv, Typed, Offer, Goto, Settled, Seeking, locals
  <2>3. CASE ProgramsDone(p)
    BY <2>3 DEF Inv, Typed, ProgramsDone, Goto, Settled, Seeking
  <2>4. CASE ReuseArtifact(p) \/ BackendDone(p)
    BY <2>4 DEF Inv, Typed, ReuseArtifact, BackendDone, Goto, Settled, Seeking, locals
  <2> QED
    BY <2>1, <2>2, <2>3, <2>4
<1>5. ReadInv(p)' /\ SourceInv(p)'
  BY <1>2, <1>3, <1>4 DEF QuietInv, ReadInv, SourceInv
<1>6. ArtifactSources'
  BY <1>2 DEF QuietInv, ArtifactSources
<1>7. FrontendSources'
  <2>1. CASE Offer(p)
    <3>1. at[p] \in Wanted /\ closure[p] \in Sources
      BY <2>1 DEF Inv, Typed, LoopInv, Visiting, Offer
    <3> QED
      BY <2>1, <3>1, StoreProgramQuiet DEF QuietInv, Offer
  <2>2. CASE frontends' = frontends
    BY <2>2 DEF QuietInv, FrontendSources
  <2> QED
    BY <2>1, <2>2 DEF ArtifactMiss, FrontendMiss, Miss, ProgramsDone, ReuseArtifact, BackendDone, files
<1> QED
  BY <1>1, <1>2, <1>5, <1>6, <1>7, QuietAssemble

LEMMA CompileBackendQuiet ==
  ASSUME Inv, QuietInv, NEW p \in Proc, CompileBackend(p)
  PROVE  QuietInv'
<1>1. pc[p] = "backend" /\ UNCHANGED <<disk, frontends, pc, config, sources, closure, at>>
  BY DEF CompileBackend
<1> DEFINE o == config[p]
<1>2. PICK m \in todo[p] :
        /\ program' = [program EXCEPT ![p][m] = Project(program[p][m], o.roots)]
        /\ StoreArtifact(ArtifactKey(m, closure[p], o),
              [program |-> Project(program[p][m], o.roots),
               artifact |-> Compiled(Project(program[p][m], o.roots), o.backend)])
  BY DEF CompileBackend
<1> DEFINE g == Project(program[p][m], o.roots)
           k == ArtifactKey(m, closure[p], o)
<1>3. m \in Wanted /\ o.backend # NoBackend /\ o.roots \in Roots
  BY <1>1, ConfigParts DEF Inv, Typed, LoopInv
<1>4. program[p][m] \in Programs /\ m \in Settled(p) /\ Settled(p)' = Wanted /\ Settled(p) = Wanted
  BY <1>1, <1>3 DEF Inv, LoopInv, Settled, Seeking
<1>5. Project(g, o.roots) = g /\ g = Project(Program(m, closure[p]), o.roots)
  BY <1>3, <1>4, ProjectTwice DEF QuietInv, SourceInv
<1>6. k \in Keys /\ k.roots = o.roots /\ k.module = m /\ k.closure = closure[p]
  BY <1>3, ArtifactKeyTyped DEF ArtifactKey
<1>7. ArtifactSources'
  BY <1>2, <1>5, <1>6, StoreArtifactQuiet DEF QuietInv
<1>8. FrontendSources'
  BY <1>1 DEF QuietInv, FrontendSources
<1>9. program'[p] = [program[p] EXCEPT ![m] = g] /\ program[p] \in [Wanted -> Programs \cup {NoProgram}]
  BY <1>2 DEF Inv, Typed
<1>10. program'[p][m] = g /\ \A x \in Wanted : x # m => program'[p][x] = program[p][x]
  BY <1>3, <1>9
<1>11. SourceInv(p)'
  BY <1>1, <1>4, <1>5, <1>10 DEF QuietInv, SourceInv
<1>12. ReadInv(p)'
  BY <1>1 DEF QuietInv, ReadInv
<1>13. \A q \in Proc \ {p} : Same(q)
  BY OnlyMine DEF Emit
<1> QED
  BY <1>1, <1>7, <1>8, <1>11, <1>12, <1>13, QuietAssemble

LEMMA InitQuiet == Init => QuietInv
<1> SUFFICES ASSUME Init PROVE QuietInv
  OBVIOUS
<1>1. ArtifactSources
  <2>1. CASE artifacts = OlderArtifacts
    BY <2>1, OlderArtifactsParts DEF ArtifactSources
  <2>2. CASE artifacts = [k \in {} |-> NoProgram]
    BY <2>2 DEF ArtifactSources
  <2> QED
    BY <2>1, <2>2 DEF Init
<1>2. FrontendSources
  BY DEF Init, FrontendSources
<1>3. \A p \in Proc : pc[p] = "idle"
  BY DEF Init
<1>4. \A p \in Proc : ReadInv(p) /\ SourceInv(p)
  BY <1>3 DEF ReadInv, SourceInv, Settled, Seeking
<1> QED
  BY <1>1, <1>2, <1>4 DEF QuietInv

LEMMA StepQuiet ==
  ASSUME QuietReads
  PROVE  Inv /\ QuietInv /\ [Next]_vars => QuietInv'
<1> SUFFICES ASSUME Inv, QuietInv, [Next]_vars PROVE QuietInv'
  OBVIOUS
<1>1. CASE UNCHANGED vars
  <2>1. ArtifactSources' /\ FrontendSources'
    BY <1>1 DEF vars, QuietInv, ArtifactSources, FrontendSources
  <2>2. \A q \in Proc : Same(q)
    BY <1>1 DEF vars, Same
  <2> QED
    BY <1>1, <2>1, <2>2, QuietFrame DEF QuietInv, vars
<1>2. ASSUME NEW m \in Module, NEW t \in Text, Edit(m, t) PROVE QuietInv'
  BY <1>2, EditQuiet
<1>3. ASSUME NEW p \in Proc, Exit(p) \/ Begin(p) PROVE QuietInv'
  BY <1>3, BeginQuiet
<1>4. ASSUME NEW p \in Proc, Lookup(p) PROVE QuietInv'
  BY <1>4, ArtifactHitQuiet, ProgramFoundQuiet, MoveQuiet DEF Lookup
<1>5. ASSUME NEW p \in Proc, Build(p) \/ Emit(p) PROVE QuietInv'
  BY <1>5, ProgramFoundQuiet, MoveQuiet, CompileBackendQuiet DEF Build, Emit
<1> QED
  BY <1>1, <1>2, <1>3, <1>4, <1>5 DEF Next

\* Both layers hold as long as no source changes between the two reads.
THEOREM SourcesInv ==
  ASSUME QuietReads
  PROVE  Spec => [](Inv /\ QuietInv)
<1>1. Inv /\ QuietInv /\ [Next]_vars => QuietInv'
  BY StepQuiet
<1> QED
  BY <1>1, InitInv, StepInv, InitQuiet, PTL DEF Spec

\* A frontend Program that can be reused was elaborated from the texts its key
\* and metadata state, whoever stored it, as long as the two reads are quiet.
THEOREM ProgramsAreBound ==
  ASSUME QuietReads
  PROVE  Spec => []ProgramsBindTheirSources
<1>1. QuietInv => ProgramsBindTheirSources
  <2> SUFFICES ASSUME QuietInv, NEW k \in DOMAIN frontends, frontends[k].meta # NoMeta
               PROVE  /\ frontends[k].program.src[k.module] = k.text
                      /\ \A d \in DOMAIN frontends[k].meta.deps :
                           frontends[k].program.src[d] = frontends[k].meta.deps[d]
    BY DEF ProgramsBindTheirSources
  <2>1. PICK m \in Wanted, c \in Sources :
          /\ k = FrontendKey(m, c)
          /\ frontends[k].program = Program(m, c)
          /\ frontends[k].meta = Metadata(m, Program(m, c), c)
    BY DEF QuietInv, FrontendSources
  <2>2. k.module = m /\ k.text = c[m]
    BY <2>1 DEF FrontendKey
  <2>3. Program(m, c).src = [d \in {m} \cup Resolves[m][c] |-> c[d]]
    BY DEF Program
  <2>4. frontends[k].meta.deps = [d \in DOMAIN Program(m, c).src \ {m} |-> c[d]]
    BY <2>1 DEF Metadata
  <2> QED
    BY <2>1, <2>2, <2>3, <2>4
<1> QED
  BY <1>1, SourcesInv, PTL

\* A ready probe serves the Programs of the sources its keys name, projected to
\* its roots, from whatever entries of whatever probes, as long as the two
\* reads are quiet.
THEOREM ServesSources ==
  ASSUME QuietReads
  PROVE  Spec => []ServesItsSources
<1>1. Inv /\ QuietInv => ServesItsSources
  <2> SUFFICES ASSUME Inv, QuietInv, NEW p \in Proc, pc[p] = "ready", NEW m \in Wanted
               PROVE  program[p][m] = Project(Program(m, closure[p]), config[p].roots)
    BY DEF ServesItsSources
  <2>1. m \in Settled(p)
    BY DEF Settled
  <2>2. Project(program[p][m], config[p].roots) = Project(Program(m, closure[p]), config[p].roots)
    BY <2>1 DEF QuietInv, SourceInv
  <2>3. CASE config[p].backend # NoBackend
    BY <2>2, <2>3 DEF Inv, FitInv, Finished, Fit
  <2>4. CASE config[p].backend = NoBackend
    <3>1. config[p].roots = AllRoots
      BY <2>4, ConfigParts DEF Inv, Typed
    <3> QED
      BY <2>2, <3>1 DEF Project
  <2> QED
    BY <2>3, <2>4
<1> QED
  BY <1>1, SourcesInv, PTL
=============================================================================
