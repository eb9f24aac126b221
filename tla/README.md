# TLA+ models of mncs-compiler

`mncs-compiler` is a compiler written in the MNCS language and, around it, the
Rust and Python tools that load, run and build it today. The Rust program
`tools/stage0-probe` is what every build goes through: it links the pinned
Stage-0 compiler of `mncs-language` as a library, elaborates modules, compiles
them for a backend, emits sealed VM artifacts and answers build requests. Almost
everything in it that can go wrong in a way a unit test does not see is about
*reuse*: caches on disk, shared by processes that may be killed at any moment,
and a promise that nobody can tell a reused result from a freshly computed one.
That promise, the walks over call graphs, types and imports it rests on, and the
tools that hand results from one process to the next are what this directory
models, checks and proves.

Source paths below are relative to the repository; `probe/` abbreviates
`tools/stage0-probe/src/`.

## 1. Inventory

| Component | State | Operations | Interacts with |
|---|---|---|---|
| Cache retention, `probe/cache_retention.rs` | a directory of managed files and temporary files; a lock file with shared and exclusive flocks | `read_lease`, `touch`, `prune`, `publish`, `maintain` | called from `cache_load` and `cache_store` of `probe/main.rs`; other probe processes through the directory |
| Readiness cache, `probe/main.rs` | artifact, frontend and legacy entries; per process the sources, the closure, a Program and an artifact per module | start, read closure, look up, elaborate, compile backend, store | retention for the files; the editor that changes the sources |
| Application build cache, `probe/application.rs` | entries, artifact index files, fact index files; per request a candidate and a response | exact lookup, index lookup, candidate lookup, admission, rebinding, emission, three publications | Language frontend, VM emitter, other probes through the directory |
| Request validation and test selection, `probe/application.rs` | none beyond the request | thirteen schema versions, bounds, cache key, selection of roots and tests | feeds the application build |
| Executable closure identity and callable interfaces, `probe/application.rs` | worklists of functions and types | reachability from the selected callables, digest; comparison of interfaces | decide admission in the application cache |
| Backend root projection, `probe/main.rs` | a worklist and three sets | selection, walk, retention, validation | narrows the Programs of the readiness cache |
| VM emitter, `tools/vm_emit.rs` | worklists, SSA, obligations | export selection, two closure walks, copy lowering, sealing | called by the application build and by the probe transport |
| Probe transport, `probe/main.rs` | ready Programs, sessions, record types | JSONL requests, release of Programs, one-shot emission | Python harnesses |
| Source resolver, `probe/provider.rs` | roots, observed files | search of candidate paths, conflict rule | `vm_provider.py` lists the same roots for its key |
| VM provider, `tools/vm_provider.py` | product cache with a prepare lock, two memos | `inspect`, `emit` | starts the probe; editors and other providers |
| Application build provider, `tools/application_build_provider.py` | one result file | clear, run with timeout, check, publish | Environment starts it, it starts the probe |
| Bootstrap, `tools/bootstrap.sh`, `tools/ensure_locked_stage0_probe.py` | `.bootstrap`, staged and archived trees, targets, revision markers | extract, archive, install, build, mark, retire; ensure | produces the probe executable |
| VM runner, `tools/native_app_vm_runner.rs` | capability binding, files of the application | bind, check a batch, call, print the document | consumes sealed artifacts |
| Artifact codec, `tools/vm-artifact-codec` | a table of nodes | encode, freeze, validate, decode | emitter writes, runner reads |
| Native project pass, `src/compiler/project.mncs`, `source.mncs` | bounded lists, caches and cursors passed from step to step | resolve imports, import closure, join and locate diagnostics | executed by the probe as test subject |
| Native lexer, parser, declaration, flow and SSA passes, `src/compiler/*.mncs` | none: pure bounded functions | case analysis over characters, tokens and syntax | as above |
| Unicode generator, `tools/generate_unicode_classifier.rs` | none | ranges, tables, generated search | writes part of the lexer |

What is hard about them, component by component, and what correctness means:

* **Retention.** Readers, writers and maintenance interleave; writers compress
  without a lock; a crash can fall between rename and prune; removal can fail
  half way. Correct means: no reader loses the file under its hands, no live
  writer loses its temporary file, the directory stays bounded after any failure,
  eviction follows recency *at the time of removal*, and the lock is always
  released.
* **Readiness cache.** A key that leaves something out serves the wrong Program.
  Keys are deliberately partial: a frontend key covers one module's text and
  leaves its dependencies to metadata. Correct means: a probe that reports ready
  serves what its sources say, with an artifact of its own backend.
* **Application build.** Results are reused across *different* sources, when the
  dependency closure is unchanged or when the executable closure and all
  interfaces agree, and reused results are rebound and published again. Correct
  means: an answer equals the answer of a build without a cache.
* **Walks.** Six worklists run over graphs with cycles, templates, dangling and
  ambiguous references, and several of them must agree with one another although
  they share no code. Correct means: each computes its closure, no more and no
  less, and ends; the identity by which an artifact is reused covers all that the
  emitter reads.
* **Copy lowering and codec.** Rewriting passes and an encoding with limits.
  Correct means: the rewritten code does what the copies did and fails when they
  failed; the encoding is canonical, lossless and bounded when expanded.
* **Providers, bootstrap, runner.** Timeouts, kills, partial renames, retries on
  what an earlier process left. Correct means: what is returned was made from
  what its name says, nothing stale passes for new, nothing is lost or
  overwritten, and interrupted work can be completed.
* **Native project pass.** Every loop has a fixed bound and runs out without a
  word; caches and cursors are carried along by value. Correct means: bounds and
  caches never change a result without a diagnostic that says so.

`PROJECT.json` lists every component with its status, and the hazards at the
lines where they bite.

## 2. Modules

| Module | Stands for |
|---|---|
| `ProbeRetention` | cache retention with `cache_load` and `cache_store` |
| `ProbeRetentionProofs` | its theorems |
| `BuildModel` | what a build without a cache computes; shared vocabulary |
| `ApplicationBuild` | abstract service: a request is answered with that |
| `ApplicationCache` | `compile_application` with its caches; implements `ApplicationBuild` |
| `ApplicationCacheProofs` | its theorems, the refinement among them |
| `ProbeCache`, `ProbeCacheProofs` | the probe's way from sources to ready sessions |
| `ProgramGraph` | declarations, bodies, calls and specializations of a Program; shared by the next three |
| `BackendProjection` | `backend_program_projection`, twice in a row |
| `VmEmission` | emission of one artifact, from the request to the seal |
| `ClosureIdentity` | the executable closure identity and the reuse it licenses |
| `CallableInterface` | the interface of a callable and its comparison |
| `SequenceCopy` | the three copy lowering passes of the emitter |
| `ArtifactGraph` | the node table of an artifact: numbering, rotation and validation |
| `ArtifactCodec` | the typed encoder and decoder around it |
| `WalkProofs` | theorems about projection, emission, identity, interface and node table |
| `RequestVersions`, `BuildRequest` | validation, cache key and test selection of a request |
| `BuildProvider` | one invocation of `application_build_provider.py` |
| `VmProvider` | several `CompilerProvider` objects of `vm_provider.py` on one cache |
| `SourceResolver` | the resolver of `probe/provider.rs`, beside the inventory of `vm_provider.py` |
| `ProvidersProofs` | theorems about the two providers and the resolver |
| `ProbeTransport` | the two request loops of a ready probe |
| `VmRunner` | `native_app_vm_runner.rs` |
| `ServingProofs` | theorems about the transport, the requests and the runner |
| `Bootstrap`, `BootstrapProofs` | `bootstrap.sh` and `ensure_locked_stage0_probe.py` |
| `ImportResolution`, `ImportClosure`, `DiagnosticLocations` | parts of the native project pass |
| `UnicodeClassifier` | the generated tables and their lookup |
| `NativeProofs` | theorems about these four |
| `MC…` | small worlds for TLC: sets of processes, graphs, files, requests |

Definitions whose comment begins with *Seeded fault* are not part of any
specification. Each is a plausible mistake in one definition; substituting it
must break a named property, which shows that the property has teeth.

### ProbeRetention

A managed name is a number, because names break ties of equal modification
times. A file is a length and a modification time, and the bytes of a directory are
counted as pairs of a name and a place in the file. The lock is two sets of
holders: `ReadLease` waits for `exclusiveBy` to be empty, `LockExclusive` for
both. `pc` follows a process through one operation:

    load -> leased -> parsing                       cache_load
    gzip -> publish -> scan1 -> evict1 -> rename
         -> scan2 -> evict2 (-> discard)            cache_store, publish
    maintain -> scanM -> evictM                     --cache-maintain

`Scan` is the first loop of `prune` (reap temporary files whose pid is not in
`/proc`, list the entries) and `Evict` one turn of the second. They are separate
steps because other processes run between them; what `Evict` decides, it decides
from the listing in `scan`. Every call that can fail has an action that fails,
and `GiveUp` is the common way out: the lease is dropped and `cache_store`
removes its temporary file. A crash keeps the files, drops the locks and leaves
the pid free for the next process. The name of a temporary file holds the pid
and a nanosecond count; the count is abstracted to the first unused number, so a
reused pid does not collide with its predecessor's file.

### BuildModel, ApplicationBuild, ApplicationCache

A request is a source snapshot, options (schema version, selection, context) and
the producer that received it; *context* is all that the fact index key leaves
out: root identity, seeds, capabilities, effects, policies. The Language frontend
and the VM emitter are libraries and enter as constant functions. Two facts are
assumed of them, and they are exactly what the cache relies on:

* the frontend reads the root and the modules it resolves and nothing else
  (`FrontendReadsClosureOnly`);
* what is emitted depends on the executable closure identity, on the interfaces
  of the selected callables and on the Language interface identity. In
  particular `unselected_unresolved_exports` of a response
  (`tools/vm_emit.rs:2251`), which rebinding does not refresh, is taken to be
  determined by the Language interface identity.

`Cold(r)` is the answer of a build without a cache, the reference of every
property. `ApplicationBuild` says that each request is answered with it, or the
process dies.

`ApplicationCache` follows `compile_application`: `exact` (entry of the very same
request), `index` and `candidate` (an earlier entry with the same options, served
at once if its dependency closure is unchanged), `factIndex` and `factCandidate`
(schema 5 and later: an entry of another context, whose facts may be verified
again but whose artifact is not eligible), `frontend` (run Language, then reject,
reuse the artifact with `Rebind`, or emit), `publish`, `publishIndex`,
`publishFactIndex`. Entry and index files appear by rename, so each read and each
write is one step; every read may miss and every write may fail. An entry has
three parts: the response, the second copy of the test rows that sits in
`callable_scope`, and the executable closure its SSA facts were proved for.

### ProbeCache

A Program is the texts it was elaborated from and the roots it was narrowed to,
which is all that tells two Programs apart here. `Start` reads the sources for
the resolver and `ReadClosure` reads the compiler modules again for the keys; the
library modules are read once. Then each module goes through the artifact lookup
(only with a backend), the frontend lookup with its metadata test, the legacy
lookup, and elaboration; a second loop reuses or compiles artifacts. `Offer`
stores a Program without metadata, which never matches later: in the code the
test whether the file exists and the store are two steps, and so they are here.
`QuietReads` says whether the sources stay put between the two reads. Files are
read and written in one step and may be absent at any read: how they come and go
is the subject of `ProbeRetention`.

### ProgramGraph, BackendProjection, VmEmission

A Program is a set of declared functions, which of them have a body and which are
generic, their calls and iterations, and the specialization records. A `Vec` or
`VecDeque` of pending identities is a set: every walk skips what it has visited,
so popping in any order covers the order of the code. `BackendProjection` runs
the projection, and then once more on the projected Program with other roots,
which is what a probe does with a Program it loads from the cache. `VmEmission`
has one phase per stage of `emit_vm_artifact_scoped_with_ssa_facts`: exports,
lowering walk, compilation, SSA walk, record types, obligations and trace,
capability bindings, seal; each `Refuse…` action is an error return. The Language
compiler between the two walks is external: it yields one SSA function for each
non-generic declaration, or loses one (`Losses`), which the emitter must notice.
The element type of an iteration is among the types of the values of its body,
and only a `Call`'s own capability uses can be unbound.

### ClosureIdentity, CallableInterface

What `Exec` and `Api` of `BuildModel` stand for. A fingerprint identifies a
declaration's own content and not what it refers to, which is why the identity
walks. `Edit` changes the source between two builds; `Reuse` takes the stored
artifact when the identities agree, and the emission it is compared with is
defined by the walks of `VmEmission`, not by those of the identity. The record
of a specialization is fixed by its name. `CallableInterface` follows one callable:
references to types by name or by identity, wrappers, ambiguous and dangling
references, cycles; the listed types are a set.

### SequenceCopy, ArtifactGraph, ArtifactCodec

`SequenceCopy` is the exception among the emitter's stages: its result depends on
arithmetic. A function is a block of instructions over named values, an identity
what the code hashes, `U64MAX` the width. `Run` executes a block for every value of
its run-time operands, before and after each pass.

The codec is two modules. `ArtifactGraph` has what works on the table of nodes
alone, one turn of a loop at a time: the recursion of `visit` in `canonical_order` is
a stack of frames (`VisitRef` is one call, `VisitDone` a return), then the references
are rewritten (`Remap`) and the permutation is consumed cycle by cycle (`StartCycle`,
`Swap`); `AccountRef` is one call of `account_ref` in `Graph::validate`, `FinishNode`
the rest of a turn, `ReachNode` a turn of the second loop. `MaxU32` is the width of
sizes and of indices, `MaxExpanded` and `MaxDepth` are the decoder's limits. `Build` is
the encoder as the table sees it: anything `Interned`, or an error. `ArtifactCodec`
replaces `Build` by the typed serializer, whose table `CodecTypeOK` shows to be
interned, and adds the typed decoder; a received table may also come from
anywhere. NaN, which JSON turns into `null`, and an `Option` of
a type that is itself written as `null` are left out.

### RequestVersions, BuildRequest, BuildProvider

`BuildRequest` lists the checks of a request in the order of the code (`Checks`,
`SelectionChecks`) and answers with the first that fails, and so gives the reason
the code gives; each field is right or spoilt in its own way. What the code sorts
is in rank order (`InOrder`: the i-th element has i - 1 before it).
Inventories come from Language and are not trusted. `BuildProvider` is the
process around one build: `Environment` may put an old result back, the probe
may answer anything, hang or be killed, and the provider itself may be killed at
each step; only a probe that conforms is expected to satisfy
`SupportedBuildsAreTaken`.

### VmProvider, SourceResolver

`VmProvider` separates the observations that the code separates: the stamps and
digests of `inspect`, the stamps and bytes of `_inputs`, the bytes the probe reads,
and the second pass of both. The stamp of a file counts its edits; an artifact is a
function of the bytes read and of the compiler. All providers emit one request.
The checks of the producer binding are part of `Observed`, the second digest of the
source part of `Hash`. `SourceResolver` has files and links at the candidate
paths of the roots and goes through them root by root and path by path, as the two
loops of `resolve_detailed` do; a request may list a root twice. A name that begins
with a dot gives an absolute path, which may lead back into a root (`Located`), and
a directory may be a link (`mount`). The tree stands still during one resolution,
links of links do not occur, what a linked directory leads to is below no other link,
nothing outside the roots is a link, no root lies inside another, and a file that
cannot be read counts as absent.

### ProbeTransport, Bootstrap, VmRunner

`ProbeTransport` has both loops of `main`, the second of which drops Programs. A
client waits for each answer; a session is a deterministic executor. `Bootstrap`
has one action per command that changes the disk, and `Stop` between any two.
Cargo validates the outputs it finds, markers are read in one step, the lock file
is edited while no process runs, and leftovers of an interrupted first extraction
of another revision are not told apart from files of the new one. `VmRunner`
records who wrote each file; a write that fails may leave a part of the file
(`WriteFails`). The VM dispatches host calls by alias and admits
calls by identity. A path conflict in a later row of a batch is found only when
that row is reached, after earlier ones have run, as in the code.

### ImportResolution, ImportClosure, DiagnosticLocations, UnicodeClassifier

The carried records of the MNCS iterations are the variables, one turn of a loop is
one step, and the fixed capacities are constants small enough to be reached.
`ImportResolution` checks the modules for duplicates one by one and chooses the
uses of a module as it reads them; two kinds of
diagnostics about the number of sources are one, and so are those of the later
stages, which only matter for the verdict. `ImportClosure` assumes link lists as
`resolve_imports` leaves them: within the project and within the batches; it scans,
groups the links by module, seeds its stack and expands it link by link.
`DiagnosticLocations` carries the cursor from diagnostic to diagnostic and walks over
the bytes of a source page by page, one byte per step, in the ways the code has: to
the start of a span and on to its end, or over the whole prefix; it takes a positive
stride, and a stride of zero is a source with bad pages. `UnicodeClassifier` scans a property into ranges, writes the tables plane
by plane and range by range, and searches one; its `SearchAssumption` says that the
fixed number of search steps is enough for a full table, as 12 are for 1024 entries.

## 3. Runs

All passing runs explore their state space completely.

| Run | Checks | Distinct states |
|---|---|---|
| `retention` | `FilesInUseAreKept`, `BoundedDespiteFailures`, `PublishedWithinLimits`, `EvictionIsLeastRecent`, `LockIsReleased` | 593,480 |
| `application_cache` | `AnswerIsColdBuild`, `EntriesAreVerifiedBuilds`, `IndexNamesPublishedEntry`, `SsaFactsFitClosure`, `ImplementsService` | 646,854 |
| `application_test_rows` | violates `AnswerTestRowsFresh` | stops at the violation |
| `probe_cache` | `ProgramsBindTheirSources`, `ServesItsSources`, `SessionFitsProgram` | 2.5 million |
| `probe_cache_edits` | violates `ProgramsBindTheirSources` | stops at the violation |
| `program_walks` | `ProjectionIsExact`, `ProjectionIsStable`, `ReuseIsExact`, `VerifiedIsComplete`, `AdmittedMeansTheSame`, `WalksEnd` | 752,947 |
| `emission` | `EmissionIsSound`, `LoweringIsSound`, `GraphIsSound`, `CodecIsFaithful`, `EmissionsEnd` | 473,649 |
| `bootstrap` | `ReturnedProbeIsPinned`, `NothingIsTakenBack`, `ProvisioningRecovers` | 376,017 |
| `bootstrap_external` | violates `ReturnedProbeIsPinned` | stops at the violation |
| `providers` | `ProductsAreSound`, `ResultIsGenuine`, `ResolutionIsSound`, `ProvidersEnd` | 821,981 |
| `serving` | `ProbeServesAnyOrder`, `RequestsAreExact`, `RunnerKeepsToItsGrant`, `EveryLineIsAnswered` | 148,533 |
| `native_passes` | `ImportsAreSound`, `ImportClosureIsExact`, `DiagnosticsAreLocated`, `TablesClassify` | 3.3 million |

**Shared runs.** `MCProgramWalks`, `MCEmission`, `MCProviders`, `MCServing` and
`MCNativePasses` put components of one kind into one run. These components do not
touch each other's state in the code: they meet in files that are complete, or
not at all. The first step of a behaviour chooses one of them and only that one
moves; the variables of the others hold a placeholder. Every state space is the
sum, and not the product, of its parts. Each property of such a run is the
conjunction of the named properties of one component, which keep their own
comments in its module. `MCProbeCache` follows one of two questions in the same
way, as a restriction of `Spec`: two backends with edits of both modules, or
selected roots and probes without a backend with an unchanged library and one more
start.

**What they show.** `retention`, `application_cache` and `probe_cache*`: processes
that share a cache directory never disturb each other's files, an answer from the
cache is the answer of a build without one, and a ready probe serves what its
sources say. `program_walks`: the walks compute least closures over every small
graph with cycles and end, and a reuse by identity and interface is exact.
`emission`: what is sealed is the requested closure; lowering and encoding
preserve meaning at every boundary of their bounds. `providers`, `serving`: what
is built, returned, published and run is what was asked for, whatever failed
before or is edited meanwhile. `bootstrap`: no stop loses a source tree and, with the
default target inside the tree (`InTree`), none leaves a marker for another build's
outputs; `bootstrap_external` shows that with a target elsewhere one does. `native_passes`: no bound, cache or cursor
changes a result silently. `PROJECT.json` has a sentence for each run and a
seeded fault for each property.

**Bounds.** Two processes everywhere: each hazard listed is between one process
and one other, and restarts under the same identity supply further actors.
Retention needs more names than `MaxEntries` (three for two), lengths that exceed
the byte limit alone (three units) and together (two of two), and a clock whose
one tick lets an entry expire while another is touched. With `MaxTmp` = 1 one
temporary file exists at a time, of a writer beside a reader, a maintainer or the
remains of a killed writer; what two writers could do to each other is settled by
the theorems, which hold for any number. The application world has seven
snapshots, each one kind of edit: a module nobody imports, a moved test, a changed
callee, a changed export nobody selected calls, a source that no longer checks,
one that checks but cannot be emitted. Three requests make the longest chain that
matters: build, reuse and publish again, reuse the reuse. It has one probe version
and one request schema; that probes of different versions and requests of
different schemas do not serve each other's results follows from
`AnswersTransparent` and `IndexesSound`, where both are arbitrary. The probe
worlds have a module and a library module that only the *new* text of the first
one imports, so that an edit changes what has to be compared; three or four probe
starts give two overlapping writers and a later reader.

Graphs have three functions and two types: a root, what it reaches directly and
what it reaches through another, with every edge between them, so that cycles,
shared callees and unreachable parts all occur. Copies are chained once, with
exact bounds of 0, at and above the unrolling and rebuilding limits and operands
up to a `U64MAX` of 5, past which additions would wrap. Codec tables pass
`MaxExpanded` and `MaxDepth` by one. Requests come in every version, with bounds
that a request can exceed by one. VM providers see two events (edits, moves of
the checkout, replaced executables) and make two emits, which is a change between
any two observations and one later reader; the build provider is started twice,
once on the result of the other; the bootstrap has three revisions, two stops and
three repins, which leads away and back with an interruption on each way; the
runner is invoked three times with two calls; the transport gets four lines about
three modules. Import closures have five modules at a capacity of five, deeper
than the two scans reach; import resolution one fact less than there are names
and one use more than fits. `MaxTime`, `MaxLen`, `MaxTmp`, `MaxRequests`,
`MaxRuns`, `MaxUses`, `MaxEvents`, `MaxEmits`, `MaxStops`, `MaxRepins`,
`MaxInvocations`, `MaxEffects`, `MaxLength` and `MaxLines` are bounds of the models; the code
has none of them. Symmetry is declared for interchangeable processes and names,
and no liveness is checked under it.

**Deadlock.** It is checked in the retention and probe runs. The others switch it
off because their models stop when the one computation they follow is done or the
requests, edits or lines they allow are used up; that computations end where they
should is stated as liveness instead.

**Fairness.** Weak fairness of the steps of a process that is running and has
begun, and no more: `Step(p)` in `retention`; in `providers` the steps of an emit
(the subprocess ends or is ended by its timeout) and of an invocation (with the
timeout; the probe owes nothing); in `program_walks` and `emission` one thread that
runs to its end; in `serving` the loop of the probe, and a client that reads what
it waits for. That is what an operating system gives a runnable process.
`ProvisioningRecovers` needs more, because an unmarked tree is refused with a
message and left to a person: callers that failed come back (`Ensure`), and an
operator acts on a message at some moment between two runs (strong fairness of
`Remove`); stops and repins are finitely many. Nothing is assumed about the start
of operations, crashes, or who gets a contended lock: a writer that waits behind
readers for ever is possible in the model as it is with `flock`, which is why only
the release of a retention lock once held is claimed. `ProvidersEnd` is about
emits that are finitely many, so a waiting provider gets its turn.

## 4. Where the code and what it says differ

* **Test rows in `callable_scope`** (`application_test_rows`). The contract says
  that when executable closure reuse is admitted the response *refreshes selected
  Test rows and their source locations* from the current frontend
  (`docs/native-application-build-contract.md:67`).
  `rebind_cached_application_response` (`probe/application.rs:2514`) refreshes
  the top-level `test_case_selection`, but `callable_scope` holds a second copy
  and only its `callable_roots` are replaced. TLC finds it with two requests:
  build `base`, move the tests, build again. The copy is kept apart from the
  response in the model (`scope`), so `AnswerIsColdBuild` speaks of all the rest.
* **Sources read twice** (`probe_cache_edits`). A comment says that a frontend
  key binds the module's *exact source* (`probe/main.rs:1710`). The text that is
  elaborated and the text that is hashed come from two reads of the file, with the
  toolchain identity gathered in between. A save at that moment leaves a Program
  of the old text under the key of the new one, with matching metadata, so later
  probes reuse it. With `QuietReads` the property holds, as `probe_cache` shows.
* **The marker of an external target** (`bootstrap_external`).
  `ensure_locked_stage0_probe` promises to *return the pinned Stage-0 probe,
  rebuilding it when its lock is stale*
  (`tools/ensure_locked_stage0_probe.py:11`) and decides by two markers. With
  `MNCS_BOOTSTRAP_TARGET_DIR` (`tools/bootstrap.sh:18`) the target does not move with
  its tree, and its marker is replaced after a build and never withdrawn before one.
  A repin from A to B stopped between the two leaves B's probe under the marker A;
  when the lock file goes back to A, a harness that checks before the next build has
  ended takes that probe for A's. The default target lies in `.bootstrap/target` and
  moves with its tree: with `InTree` the property holds, as `bootstrap` shows.

Two restrictions keep cases out of the passing runs in which a property does not
hold. They are worth a look when the code is changed:

* `Reverts = FALSE` (`VmProvider`). `emit` compares contents before and after the
  compilation, so a file changed and changed back meanwhile is seen by the probe
  alone (`tools/vm_provider.py:209`). With `TRUE`, `ProductIsExact` fails. The same
  module treats the memo of `inspect` as what it is, stamps taken after digests
  (line 122): an edit between the two stays hidden from that provider's later
  inspections. Products stay exact, because the producer that the probe itself
  names is compared with the inspected one.
* `prior.mount = mount` in `InventoryDecides` (`SourceResolver`). The key lists what
  `rglob` finds, which does not enter linked directories; the resolver opens paths
  through them (`probe/provider.rs:74`). The texts it takes there are in the
  inventory, at their own places (`InventoryShows`), but which of them a name leads to
  is not: a link pointed at another directory of its root changes a resolution under
  an unchanged key.

The order of diagnostics is not claimed: `append_diagnostics`
(`src/compiler/project.mncs:1255`) pushes its first list head first, so duplicate
modules come out in reverse of source order. Locations do not depend on the
order, as `DiagnosticsAreLocated` shows.

## 5. Proofs

The eight proof modules are checked by TLAPS for every value of the constants that
the named assumptions allow; nothing is assumed beyond those, except where a theorem
states a hypothesis of its own. Each inductive invariant was checked by TLC on the
run of its component before it was proved.

### ProbeRetentionProofs

Assumption `RetentionAssumption`: names are positive numbers and finitely many,
limits are naturals. `ReadersKeepTheirEntry` is not inductive: a step of `prune`
must be known to hold the exclusive lock and a parsing reader the shared one. The
inductive invariant `Safe` adds that the holders of each lock are exactly the
processes in the corresponding phases, that an exclusive holder excludes everyone
else (`LockInv`), that a listing made under the exclusive lock still equals the
directory while its entries are evicted (`Listed`), and, for the types, that an
operation under way is about a managed name and that no compressed file is newer
than the clock. From it follow `TypeCorrect`, `ReadersSafe` and `TemporariesSafe`, which
together are `FilesInUseSafe`, the action property `EvictionSafe` (the listing is not stale, because nobody can touch an
entry while the exclusive lock is held) and `PublicationSafe`: a publication that
reports success leaves its entry in a directory within both limits.
`DirectoryBounded` needs more: a writer about to rename stands before a directory
within both limits (`RoomToRename`), because nobody else can add to it; the rename
then adds one entry of at most `MaxBytes`.

### ApplicationCacheProofs

Assumptions of `BuildModel`, and `CacheAssumption`. The
inductive invariant `Inv` joins the types, the three invariants of the files and
`Carries(p)`, what each process holds in each phase: a candidate named by an
index has the right options, a loaded entry is the cold build of some request with
the same options and is eligible only if the contexts agree, a reply about to be
published is the cold build of the request at hand. Two lemmas carry the argument.
`ClosureReuse`: an entry whose dependency closure matches, rebound to the new
snapshot, is the cold build of the new request; it rests on
`FrontendReadsClosureOnly`. `ArtifactReuse`: an admitted entry, rebound with the
current frontend result, is the cold build too; it rests on the emitter being a
function of the three identities that `Admitted` compares. From `Inv` follow
`AnswersTransparent`, `EntriesSound`, `IndexesSound`, `SsaFactsSound`, and with
the mapping `answered` step simulation gives `Refinement`: every behaviour of the
cached build is one of the service.

### ProbeCacheProofs

Assumption `ProbeAssumption`: what a module's source resolves depends on the texts it
resolves. The argument has two layers. `Inv` needs nothing of the developer: an
artifact is that of the Program beside it, in every entry (`ArtifactsInv`) and in
every process (`FitInv`), and gives `TypeCorrect` and `SessionsFit`. `QuietInv` says
where the Programs come from: the two reads of a probe agree, its Programs are those
of what it read as far as its roots go, entries hold the Programs of the closures in
their keys, and reusable ones those their metadata describes. It is inductive under
the hypothesis `QuietReads`, without which it is false (`probe_cache_edits`), and
gives `ProgramsAreBound` and `ServesSources`.

### WalkProofs

*Projection* (`ProgramsAssumption`: the inputs are Programs). The inductive invariant
is that of a worklist: roots are visited or pending, what a visited function calls is
visited or pending, everything visited lies in every closed set that contains the
roots, and what is declared covers what has a body (`ProjectionWalkInv`);
`ProjectionDoneInv` carries it over the retention step. It gives
`ProjectionTypeCorrect`, `ProjectionExact` and `ProjectionStaysValid`.
`ProjectionStable` compares two runs of the walk: `Settled` says of a Program alone
that a projection keeps all of it, `SelectionInv` knows exactly what is included
during a walk, and `SecondInv` that a projected Program is settled, so that the
second walk finds the same roots, callees and templates.

*Identity* (`BuildsAssumption`: inputs are builds, and the record of a
specialization is the same in all of them). Two walks over two builds are compared:
`SameWalk` shows that when two finished identities are equal, the set one walk
visited is closed in the other build too; with equal fingerprints the bodies and
types on it are the same, so the emitter, whose walk stays inside
(`EmittedWithin`), emits the same (`SameIdentitySameCode`). `StoreInv` keeps, for
the stored pair, a build it came from. Results: `IdentityTypeCorrect`, `ReuseExact`,
`WalkCoversEmission`.

*Interface* (`InterfaceAssumption`: inputs are programs, built-in references are
references). `InterfaceWalkInv` is the worklist invariant over references;
`InterfaceInv` says that a stored verified interface lists exactly the definitions
below the signature. `SameBelow` then shows that two equal verified interfaces
have the same references below their signatures. Results: `InterfaceTypeCorrect`,
`VerifiedComplete`, `NoUnrelated`, `AdmissionSound`.

*Emission* (`InputsAssumption`: inputs are requests with what is attached to their
code). An emission walks over the source, where it may refuse, and over the SSA of
what it kept. `EmissionInv` follows the least closed set of the first walk, `Target`,
through both: bodies outside it are gone before the second walk (`Accepted`), so that
walk stays inside (`SsaWalk`), and it ends with all of `Target` (`CutToTarget`) or
finds a function of `Target` lost by the compiler and refuses. The walks over types
and obligations have worklist invariants of their own. Results:
`EmissionTypeCorrect`, `EmissionSound`.

*Node table* (`LimitsAssumption`: the limits are positive and below the width).
`GraphInv` follows the table stage by stage. During `visit` (`VisitInv`) the frames go
down the table, they are the nodes marked as being visited, and every reference they
have passed is numbered or being visited in the next frame; numbers are given once
each, without gaps, to a node after its references. At the end every node is numbered,
because every node but the root is referenced by a later one, so that no panic is met and
the numbers are a permutation (a pigeonhole argument over finite sets). `RotateInv` and
`SwapInv` say of the rotation that consumed positions have sent their node to its
number, that between two cycles they are whole cycles, and which node is in the hand;
`FrozenInv` is the table afterwards. `SummaryInv` and `AccountInv` relate the
validator's sums and depths to those of the references, up to saturation: a sum that
saturated is over the limit, which lies below the width. `ReachInv` says that what the
descending loop has seen is referenced from what it has passed. The reference
functions `Expanded`, `Levels` and `Below`, which count without a width, are defined by
recursion over the table; that they satisfy their equations is proved first, with least
counterexamples over the naturals, from the fact that references go backward, which
holds of frozen tables and of those that `validate` accepts. Result: `GraphSound`. It
holds for `GraphSpec`, whose `Build` may produce any interned table; that the typed
serializer produces such a table is what TLC checks (`CodecTypeOK`).

### BootstrapProofs

Assumption `BootstrapAssumption`: markers and revisions are told apart. `Inv` says
that one process at a time is in the script, what it knows of the trees at each step
(`PhaseInv`), and that a staged tree carries the mark of its revision or none; it
gives `TypeCorrect` and the action property `NothingLost`. `ReturnedPinned` adds
`Coherent`: with the target inside the tree, target marker and probe are those of the
revision the tree is marked with, wherever it is moved. It is stated under `InTree`,
without which it is false (`bootstrap_external`).

### ProvidersProofs

*Build provider* (`BuildProviderAssumption`). `InvocationInv` knows for each step
whether the result file is absent, this invocation's or complete; it gives
`ResultGenuine`.

*VM provider* (`VmProviderAssumption`), under the hypothesis that no edit brings an
earlier content back (`~Reverts`; section 4). What makes a product exact is the
order of three readings: `NotBefore` says that what the probe read is what the first
observation saw, or the file has given that up for good, in which case the second
observation differs and nothing is published (`CompiledInv`). `MemoInv` says that
memoised inputs are the contents as long as the stamps are current. With them
`ProductsSound` covers exactness, completeness after crashes and losses, and the memo.

*Resolver* (`SourceResolverAssumption`, which says how links lie). `SearchInv` is the
invariant of the two loops:
what was found is offered by some place, and every text offered has been found or its
place is still ahead. It gives the outcome at the end as a function of what the roots
offer, which equals the reference set of `OneAuthority` (`OfferedIsAgreed`) and,
unless the inventory was refused, a set that the inventory and the links of directories
determine (`OfferedIsListed`, which rests on `ThroughOnce`: what a linked directory
leads to is led no further); `KeyInv` remembers the latter across an edit, and
`FoundInv` says that texts are recorded where no link leads away, which is where the
inventory has them. Result: `ResolverSound`.

### ServingProofs

*Transport* (`ProbeTransportAssumption`). Each line has one answer (`AnswerOf`);
`KeepsInv` says that what a release dropped has its record types retained, so the
answers stay what they were. Result: `ServesAnyOrder`. *Requests*
(`RequestAssumption`: fields are what a request may hold, an entry is one row, there
is room for a root). The argument is about operators more than about steps: rank order
lists each element of a finite set once and depends on the set alone (`InOrder` and its
lemmas), so sorted roots, identities and seeds are equal exactly when the sets are;
none of the checks sees an order, except that the reason for a refusal may differ; and
each identity that resolves has one test, so that the matched tests are the asked ones.
`RequestInv` carries to the answer that the request was admitted and its selection
resolved (`ResolvedRequest`). Result: `RequestsExact`. *Runner* (`PathsAssumption`).
`BindingsInv`: a running process has exactly the bindings its command line and its
artifact agree on. `OutputsInv`: what stands at the outputs of a row is absent or its
own. `PathsInv`: no row uses a path of an earlier one. Result: `KeepsToItsGrant`.

### NativeProofs

*Import closure* (`ClosureAssumption`). `ClosureInv` follows the phases: a scan without
a change has followed every link it passed, the grouped links are all the links
(`AdjacencyInv`), and on the stack each reachable module is met once, so that turns
and stack stay within the capacity (`WorkInv`: turns and stack together count the
reachable modules). Result: `ClosureExact`. *Import resolution*
(`ResolutionAssumption`). `FactsInv` says that a cached fact is what a lookup for the
current module would find; links and diagnostics are in order and one per use.
Result: `ResolutionSound`. *Classifier* (`ClassifierAssumption`, `SearchAssumption`).
Closed and open runs are what was accepted so far, tables hold what the runs have in
their plane, and the search narrows to entries that the steps left suffice for
(`Narrowed`). Result: `ClassifierExact`. *Diagnostics* (`LocationAssumption`).
`LocationInv` says that a valid cursor holds the position that belongs to its offset
(`CursorIsTrue`), and of a walk under way which span of which whole source it serves
(`LegInv`), that its position belongs to the offset it has reached, whatever page that
is in and however many pages were skipped (`ProgressInv`), and that a start marked in
passing is the position of the start (`MarkInv`). The position that belongs to an
offset counts newlines and characters of the text by the cardinality of a set; one byte
further changes it as `AdvanceByte` does (`PositionZero` and the lemmas after it). Result: `LocationsExact`.

**Only model-checked.** All liveness properties (`LockIsReleased`, `WalksEnd`,
`EmissionsEnd`, `ProvidersEnd`, `EveryLineIsAnswered`, `ProvisioningRecovers`):
liveness under fairness is out of the prover's reach. `LoweringIsSound` and
`CodecIsFaithful` compare computations by structural recursion over data: a block that an
interpreter folds, trees that are serialised and decoded in one step. Induction over
data is out of the prover's reach, and the typed halves of the codec need RECURSIVE
operators besides; section 7 says how either could be restated. Where data is walked one step at a time (diagnostics, node tables, ranges), the
induction is that of the invariant, and where a reference function is defined by
recursion over an index, its equation is proved from the least index at which it could
fail.

## 6. What is not modelled, and why

Contents of files, digests and JSON encodings: two values are equal or they are
not, and a digest is taken to be injective. Clock adjustments, and processes that
share a directory with different `MNCS_PROBE_CACHE_MAX_*` limits. The race in
which a pid is reused between the moment `prune` looks in `/proc` and the removal
of the file is inside one step of `Scan`. Tracing and telemetry, which is most of
what lies between the mapped parts of `probe/application.rs` (the `annotate_…`
functions). The toolchain identity of `ProbeCache` is the same for all processes;
a change of it changes every key. `probe/build.rs`, which computes one digest at
build time. The conversion of argument values in the VM runner, a pure case
analysis. The encoding of single VM operations other than copies. Of the native
compiler the lexer, the parser and the declaration, flow and SSA passes: pure case
analysis over syntax, covered by differential tests against Rust; their loops carry
no state that outlives a declaration. Names of more than 1024 bytes, which never
match anything. Backend policy (a constant table) and measurement scripts.

## 7. Plan

Done, checked and proved: retention, the application cache with its abstract service
(refinement), the readiness cache, the walks of projection, closure identity,
interface and emission, the node table of an artifact, requests, the three programs
around the probe, the transport, the runner, the bootstrap, and the import passes,
the diagnostics and the classifier of the native compiler. Done and checked: copy
lowering, the typed halves of the codec.

What would come next, in this order:

1. The copy passes with one instruction of the interpreter per step, so that a lowered
   copy and its source could be proved to run side by side.
2. The typed serializer as a stack of compounds, which would turn *the table is interned*
   into an invariant and make `Build` its refinement.
3. An abstract product store that `VmProvider` implements without reverts.
4. The segmented scan of the native kernel against an unsegmented one, and the nominal
   and signature caches of `project.mncs`.
