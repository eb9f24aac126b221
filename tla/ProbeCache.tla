----------------------------- MODULE ProbeCache -----------------------------
(***************************************************************************)
(* The readiness cache of the Stage-0 probe: how main() in                 *)
(* tools/stage0-probe/src/main.rs turns compiler sources on disk into      *)
(* elaborated Programs and backend artifacts, and what it stores and       *)
(* reuses under which key on the way.                                      *)
(*                                                                         *)
(* A probe reads the compiler modules once for the resolver and, after it  *)
(* has gathered the toolchain identity, a second time for the cache keys.  *)
(* Three kinds of entry are looked up per module: the backend artifact,    *)
(* keyed by the whole closure, the backend and the selected roots; the     *)
(* frontend Program, keyed by the module's own source, with metadata about *)
(* the sources of its dependencies; and a Program that an older probe      *)
(* stored under the whole closure.  Nothing serialises two probes, or a    *)
(* probe and the developer who edits the sources.                          *)
(*                                                                         *)
(* An entry is read and written in one step and may be absent at any read: *)
(* ProbeRetention is about the files themselves.  Seeds and the toolchain  *)
(* identity are the same for every process; the backend is not.            *)
(***************************************************************************)
EXTENDS Integers

CONSTANTS Proc,      \* probe processes
          Module,    \* compiler and library modules of the loaded closure
          Library,   \* the library modules, read once
          Wanted,    \* MNCS_PROBE_EXECUTION_MODULES: the modules elaborated
          Text,      \* source texts
          Resolves,  \* [Module -> [Sources -> SUBSET Module]]: dependencies
          Backend, NoBackend,  \* MNCS_PROBE_BACKEND
          Root, AllRoots,      \* MNCS_PROBE_BACKEND_ROOTS
          Config,    \* the pairs of backend and roots probes are started with
          Legacy,    \* closures with entries of an older probe
          MaxRuns,    \* how many probes are started
          QuietReads, \* whether sources stay put between the two reads
          NoProgram, NoArtifact, NoMeta

Sources == [Module -> Text]
Unread == CHOOSE s \in Sources : TRUE   \* what a process that has not started holds

\* Roots can only be selected with a backend.
Configs == [backend : Backend, roots : Root \cup {AllRoots}]
           \cup [backend : {NoBackend}, roots : {AllRoots}]

\* s and t give m and everything m resolves in s the same texts.
SameFor(m, s, t) == \A d \in {m} \cup Resolves[m][s] : s[d] = t[d]

\* A Program is what the sources it was elaborated from say, and the roots it
\* has been projected to.
Program(m, s) == [src |-> [d \in {m} \cup Resolves[m][s] |-> s[d]], roots |-> AllRoots]

\* backend_program_projection: a projection is not widened again.
Project(g, roots) == IF roots = AllRoots THEN g ELSE [g EXCEPT !.roots = roots]

Programs == {Project(Program(m, s), r) : m \in Module, s \in Sources, r \in Root \cup {AllRoots}}

ASSUME ProbeAssumption ==
  /\ Module # {}
  /\ Library \subseteq Module
  /\ Wanted \subseteq Module
  /\ Resolves \in [Module -> [Sources -> SUBSET Module]]
  /\ \A m \in Module, s \in Sources : m \notin Resolves[m][s]
  /\ Legacy \subseteq Sources
  /\ Config \subseteq Configs
  /\ MaxRuns \in Nat
  /\ QuietReads \in BOOLEAN
  /\ NoBackend \notin Backend
  /\ AllRoots \notin Root
  /\ \A m \in Module, s, t \in Sources :
       SameFor(m, s, t) => Resolves[m][s] = Resolves[m][t]
  /\ NoProgram \notin Programs

VARIABLES disk,      \* the source files
          artifacts, \* <key>.json.gz: key -> Program and backend artifact
          frontends, \* <key>.program.json.gz: key -> Program and metadata
          runs,      \* probes started so far
          pc,
          config,    \* backend and root selection of each process
          sources,   \* what its resolver holds
          closure,   \* what its cache keys are made of
          at,        \* the module its loop is at
          todo,      \* the modules its loop still has to visit
          program,   \* programs: module -> Program
          artifact   \* cached_artifacts, backend_artifacts: module -> artifact

files == <<disk, artifacts, frontends, runs>>
locals == <<config, sources, closure, at, todo, program, artifact>>
vars == <<disk, artifacts, frontends, runs, pc, config, sources, closure, at, todo, program, artifact>>

(***************************************************************************)
(* Artifacts, keys.                                                        *)
(***************************************************************************)

Compiled(g, backend) == [of |-> g, backend |-> backend]

\* Seeded fault: the backend is no part of the key.
ArtifactKeyWithoutBackend(m, c, o) ==
  [module |-> m, closure |-> c, backend |-> NoBackend, roots |-> o.roots]

\* Seeded fault: the selected roots are no part of the key.
ArtifactKeyWithoutRoots(m, c, o) ==
  [module |-> m, closure |-> c, backend |-> o.backend, roots |-> AllRoots]

\* cache_key_hex with the roots of backend_root_cache_key.
ArtifactKey(m, c, o) == [module |-> m, closure |-> c, backend |-> o.backend, roots |-> o.roots]

\* frontend_cache_key_hex: no backend, and only the module's own source.
FrontendKey(m, c) == [module |-> m, text |-> c[m]]

\* frontend_cache_metadata: the dependencies of the Program with the texts
\* the closure holds for them.
Metadata(m, g, c) == [module |-> m, text |-> c[m],
                      deps |-> [d \in DOMAIN g.src \ {m} |-> c[d]]]

\* Seeded fault: the sources of the dependencies are not compared.
MatchesOwnSource(e, m, c) == e.meta # NoMeta /\ e.meta.module = m /\ e.meta.text = c[m]

\* frontend_cache_matches.
Matches(e, m, c) ==
  /\ e.meta # NoMeta
  /\ e.meta.module = m
  /\ e.meta.text = c[m]
  /\ DOMAIN e.meta.deps = DOMAIN e.program.src \ {m}
  /\ \A d \in DOMAIN e.meta.deps : c[d] = e.meta.deps[d]

Put(f, k, v) == [x \in DOMAIN f \cup {k} |-> IF x = k THEN v ELSE f[x]]

\* cache_store may fail at any point; then nothing is published.
StoreProgram(k, e) == frontends' = Put(frontends, k, e) \/ frontends' = frontends
StoreArtifact(k, e) == artifacts' = Put(artifacts, k, e) \/ artifacts' = artifacts

\* Older probes stored a root artifact together with the whole Program.
OlderArtifacts ==
  [k \in {ArtifactKey(m, c, o) : m \in Wanted, c \in Legacy, o \in [backend : Backend, roots : Root]} |->
     LET g == Program(k.module, k.closure) IN
     [program |-> g, artifact |-> Compiled(Project(g, k.roots), k.backend)]]

Init == /\ disk \in Sources
        /\ artifacts \in {[k \in {} |-> NoProgram], OlderArtifacts}
        /\ frontends = [k \in {} |-> NoProgram]
        /\ runs = 0
        /\ pc = [p \in Proc |-> "idle"]
        /\ config = [p \in Proc |-> [backend |-> NoBackend, roots |-> AllRoots]]
        /\ sources = [p \in Proc |-> Unread]
        /\ closure = [p \in Proc |-> Unread]
        /\ at \in [Proc -> {CHOOSE m \in Module : TRUE}]
        /\ todo = [p \in Proc |-> {}]
        /\ program = [p \in Proc |-> [m \in Wanted |-> NoProgram]]
        /\ artifact = [p \in Proc |-> [m \in Wanted |-> NoArtifact]]

Goto(p, phase) == pc' = [pc EXCEPT ![p] = phase]

(***************************************************************************)
(* The developer edits; probes start and end.                              *)
(***************************************************************************)
Edit(m, t) == /\ QuietReads => \A p \in Proc : pc[p] # "reading"
              /\ disk' = [disk EXCEPT ![m] = t]
              /\ UNCHANGED <<artifacts, frontends, runs, pc, locals>>

\* source_resolution: every module is read, the library modules among them.
Start(p) == /\ pc[p] = "idle"
            /\ runs < MaxRuns
            /\ runs' = runs + 1
            /\ \E o \in Config : config' = [config EXCEPT ![p] = o]
            /\ sources' = [sources EXCEPT ![p] = disk]
            /\ closure' = [closure EXCEPT ![p] = disk]
            /\ Goto(p, "reading")
            /\ UNCHANGED <<disk, artifacts, frontends, at, todo, program, artifact>>

\* dependency_closure_resolution: the compiler modules are read again.
ReadClosure(p) ==
  /\ pc[p] = "reading"
  /\ closure' = [closure EXCEPT ![p] =
       [m \in Module |-> IF m \in Library THEN sources[p][m] ELSE disk[m]]]
  /\ todo' = [todo EXCEPT ![p] = Wanted]
  /\ Goto(p, "module")
  /\ UNCHANGED <<files, config, sources, at, program, artifact>>

\* The process is killed, panics, or is done and exits.
Exit(p) == /\ pc[p] # "idle"
           /\ Goto(p, "idle")
           /\ todo' = [todo EXCEPT ![p] = {}]
           /\ program' = [program EXCEPT ![p] = [m \in Wanted |-> NoProgram]]
           /\ artifact' = [artifact EXCEPT ![p] = [m \in Wanted |-> NoArtifact]]
           /\ config' = [config EXCEPT ![p] = [backend |-> NoBackend, roots |-> AllRoots]]
           /\ sources' = [sources EXCEPT ![p] = Unread]
           /\ closure' = [closure EXCEPT ![p] = Unread]
           /\ UNCHANGED <<files, at>>

(***************************************************************************)
(* The loop over the modules: a Program for each.                          *)
(***************************************************************************)
NextModule(p) ==
  /\ pc[p] = "module"
  /\ \E m \in todo[p] : /\ at' = [at EXCEPT ![p] = m]
                        /\ todo' = [todo EXCEPT ![p] = @ \ {m}]
  /\ Goto(p, IF config[p].backend = NoBackend THEN "frontend" ELSE "artifact")
  /\ UNCHANGED <<files, config, sources, closure, program, artifact>>

\* The current module has its Program g; the loop goes on, or stores first.
Settle(p, g, phase) == /\ program' = [program EXCEPT ![p][at[p]] = g]
                       /\ Goto(p, phase)
                       /\ UNCHANGED <<config, sources, closure, at, todo>>

\* The Program of an artifact entry, narrowed to the roots of this probe.
CachedProgram(e, o) == Project(e.program, o.roots)

\* A hit on the artifact key gives both.  An entry that still holds the whole
\* Program is stored again with the projected one; and a whole Program is
\* offered to the frontend cache where that has none.
ArtifactHit(p) ==
  LET m == at[p]
      o == config[p]
      k == ArtifactKey(m, closure[p], o)
      e == artifacts[k]
      g == CachedProgram(e, o)
  IN /\ pc[p] = "artifact"
     /\ k \in DOMAIN artifacts
     /\ artifact' = [artifact EXCEPT ![p][m] = e.artifact]
     /\ IF g # e.program THEN StoreArtifact(k, [e EXCEPT !.program = g])
                         ELSE UNCHANGED artifacts
     /\ Settle(p, g, IF o.roots = AllRoots /\ FrontendKey(m, closure[p]) \notin DOMAIN frontends
                     THEN "offer" ELSE "module")
     /\ UNCHANGED <<disk, frontends, runs>>

\* A Program stored without metadata never matches.
Offer(p) == /\ pc[p] = "offer"
            /\ StoreProgram(FrontendKey(at[p], closure[p]),
                            [program |-> program[p][at[p]], meta |-> NoMeta])
            /\ Goto(p, "module")
            /\ UNCHANGED <<disk, artifacts, runs, locals>>

Miss(p, phase, next) == /\ pc[p] = phase
                        /\ Goto(p, next)
                        /\ UNCHANGED <<files, locals>>

ArtifactMiss(p) == Miss(p, "artifact", "frontend")

FrontendHit(p) ==
  LET m == at[p]
      k == FrontendKey(m, closure[p])
  IN /\ pc[p] = "frontend"
     /\ k \in DOMAIN frontends
     /\ Matches(frontends[k], m, closure[p])
     /\ Settle(p, frontends[k].program, "module")
     /\ UNCHANGED <<files, artifact>>

\* No Program in any cache: the module is elaborated.
AfterMiss == "elaborate"

FrontendMiss(p) == Miss(p, "frontend", AfterMiss)

\* A Program that an older probe stored under the whole closure is offered to
\* the frontend cache, without metadata and in the place of what is there.
LegacyHit(p) == /\ pc[p] = "frontend"
                /\ closure[p] \in Legacy
                /\ Settle(p, Program(at[p], closure[p]), "offer")
                /\ UNCHANGED <<files, artifact>>

\* Seeded fault: the dependencies are resolved against the disk.
ElaboratedNow(p) == Program(at[p], disk)

\* The resolver holds what the first read gave.
Elaborated(p) == Program(at[p], sources[p])

\* front_end_with_resolver_and_seeds, and the Program is stored before any
\* backend runs.  Sources that do not check end in Exit, and
\* frontend_cache_metadata gives up on resolutions it cannot index.
Elaborate(p) ==
  LET g == Elaborated(p) IN
  /\ pc[p] = "elaborate"
  /\ Settle(p, g, "module")
  /\ \E meta \in {Metadata(at[p], g, closure[p]), NoMeta} :
       StoreProgram(FrontendKey(at[p], closure[p]), [program |-> g, meta |-> meta])
  /\ UNCHANGED <<disk, artifacts, runs, artifact>>

(***************************************************************************)
(* The loop over the Programs: an artifact for each, if there is a backend.*)
(***************************************************************************)
ProgramsDone(p) ==
  /\ pc[p] = "module"
  /\ todo[p] = {}
  /\ Goto(p, IF config[p].backend = NoBackend THEN "ready" ELSE "backend")
  /\ todo' = [todo EXCEPT ![p] = IF config[p].backend = NoBackend THEN {} ELSE Wanted]
  /\ UNCHANGED <<files, config, sources, closure, at, program, artifact>>

ReuseArtifact(p) ==
  /\ pc[p] = "backend"
  /\ \E m \in todo[p] : /\ artifact[p][m] # NoArtifact
                        /\ todo' = [todo EXCEPT ![p] = @ \ {m}]
  /\ UNCHANGED <<files, pc, config, sources, closure, at, program, artifact>>

\* compile_backend_program on the projected Program, stored with it.
CompileBackend(p) ==
  /\ pc[p] = "backend"
  /\ \E m \in todo[p] :
       LET o == config[p]
           g == Project(program[p][m], o.roots)
           a == Compiled(g, o.backend)
       IN /\ artifact[p][m] = NoArtifact
          /\ program' = [program EXCEPT ![p][m] = g]
          /\ artifact' = [artifact EXCEPT ![p][m] = a]
          /\ StoreArtifact(ArtifactKey(m, closure[p], o), [program |-> g, artifact |-> a])
          /\ todo' = [todo EXCEPT ![p] = @ \ {m}]
  /\ UNCHANGED <<disk, frontends, runs, pc, config, sources, closure, at>>

BackendDone(p) == /\ pc[p] = "backend"
                  /\ todo[p] = {}
                  /\ Goto(p, "ready")
                  /\ UNCHANGED <<files, locals>>

Begin(p) == Start(p) \/ ReadClosure(p) \/ NextModule(p)
Lookup(p) == \/ ArtifactHit(p) \/ ArtifactMiss(p) \/ Offer(p) \/ FrontendHit(p)
             \/ FrontendMiss(p) \/ LegacyHit(p)
Build(p) == Elaborate(p) \/ ProgramsDone(p)
Emit(p) == ReuseArtifact(p) \/ CompileBackend(p) \/ BackendDone(p)

Next == \/ \E m \in Module, t \in Text : Edit(m, t)
        \/ \E p \in Proc : Exit(p) \/ Begin(p) \/ Lookup(p) \/ Build(p) \/ Emit(p)

Spec == Init /\ [][Next]_vars

(***************************************************************************)
(* Properties.                                                             *)
(***************************************************************************)
Phases == {"idle", "reading", "module", "artifact", "frontend", "offer",
           "elaborate", "backend", "ready"}
Artifacts == [of : Programs, backend : Backend]

\* Every variable has its type, and once the loop over the modules is done
\* every module to be elaborated has its Program.
TypeOK == /\ disk \in Sources
          /\ runs \in 0..MaxRuns
          /\ pc \in [Proc -> Phases]
          /\ config \in [Proc -> Configs]
          /\ sources \in [Proc -> Sources]
          /\ closure \in [Proc -> Sources]
          /\ at \in [Proc -> Module]
          /\ todo \in [Proc -> SUBSET Wanted]
          /\ program \in [Proc -> [Wanted -> Programs \cup {NoProgram}]]
          /\ artifact \in [Proc -> [Wanted -> Artifacts \cup {NoArtifact}]]
          /\ \A p \in Proc : pc[p] \in {"backend", "ready"} => NoProgram \notin {program[p][m] : m \in Wanted}

\* A frontend Program key binds the module's exact source, and its metadata
\* validates every dependency source (main.rs:1710): a stored Program that can
\* be reused was elaborated from the very texts its key and metadata state.
ProgramsBindTheirSources ==
  \A k \in DOMAIN frontends :
    LET e == frontends[k] IN
    e.meta # NoMeta => /\ e.program.src[k.module] = k.text
                       /\ \A d \in DOMAIN e.meta.deps : e.program.src[d] = e.meta.deps[d]

\* A probe that is ready serves, for each module, the Program of the sources
\* its keys name, projected to its own roots, whatever mixture of artifact,
\* frontend and legacy entries of other probes it was put together from.
ServesItsSources ==
  \A p \in Proc : pc[p] = "ready" =>
    \A m \in Wanted : program[p][m] = Project(Program(m, closure[p]), config[p].roots)

\* A Program hit never admits an artifact from a different backend
\* (main.rs:1263), and the session's artifact is that of the Program served.
SessionFitsProgram ==
  \A p \in Proc : pc[p] = "ready" /\ config[p].backend # NoBackend =>
    \A m \in Wanted : artifact[p][m] = Compiled(program[p][m], config[p].backend)
=============================================================================
