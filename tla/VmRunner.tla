------------------------------ MODULE VmRunner ------------------------------
(***************************************************************************)
(* The runner of admitted VM applications, tools/native_app_vm_runner.rs.  *)
(* One process admits an artifact, derives from its SSA which host calls   *)
(* the command line authorises, and runs one call or a batch of calls in   *)
(* one VM session; the application touches files only through the          *)
(* structured-file provider bound to each authorised alias.  Files outlive *)
(* the process, which may fail or be killed between any two steps and be   *)
(* started again on what it left behind.                                   *)
(*                                                                         *)
(* A path is a spelling, and two spellings may name one file.  The content *)
(* of a file is who wrote it, in whole or in part: <<n, k>> is row k of    *)
(* the n-th invocation, <<0, 0>> whoever prepared the fixture, Absent      *)
(* nobody.                                                                 *)
(***************************************************************************)
EXTENDS Naturals, Sequences, FiniteSets, SequencesExt

CONSTANTS
    Path,             \* spellings of paths
    AbsolutePath,     \* the absolute ones
    FileOf,           \* the file a spelling names
    File,
    Suffix,           \* the last segment of a capability identity
    Invocations,      \* command lines, their artifact and manifest read
    MaxCalls,         \* the 64 of run_batch
    MaxEffects,       \* bound: instructions with a capability one call runs
    MaxInvocations    \* bound: processes started

NoPath == "no path"
Absent == <<>>
Fixture == << 0, 0 >>

ASSUME PathsAssumption ==
    /\ AbsolutePath \subseteq Path /\ NoPath \notin Path
    /\ FileOf \in [Path -> File]
    /\ MaxCalls \in Nat \ {0}

\* A row of a batch, or the one call of the command line.
CallRow == [request : Path, input : Path, output : Path, check : Path \union {NoPath},
            mode : {"none", "success", "fail-write", "other"}]

\* A command line that names no batch has one call.
ASSUME InvocationsAssumption ==
    /\ MaxEffects \in Nat /\ MaxInvocations \in Nat /\ Invocations # {}
    /\ \A g \in Invocations :
          g.mode \in {"single", "batch"} /\ g.rows \in Seq(CallRow) /\ (g.mode = "single" => Len(g.rows) = 1)

VARIABLES
    disk,       \* the content of every file
    n,          \* invocations so far
    runner_pc,  \* where the process is
    args,       \* its command line
    bindings,   \* what capability_dispatch_bindings returned
    used,       \* unique_paths of run_batch
    row,        \* the row being run
    effects,    \* capability instructions the running call executed
    results,    \* outcomes collected for the document
    touched     \* file accesses of this invocation, for the properties

runnerVars == << disk, n, runner_pc, args, bindings, used, row, effects, results, touched >>

\* Schemas by the use the provider makes of them; "other" is any it refuses.
Schemas == {"input", "output", "check", "other"}

Row == args.rows[row]
Content == {Absent, Fixture} \union ((1 .. MaxInvocations) \X (1 .. MaxCalls))

----------------------------------------------------------------------------
(* capability_dispatch_bindings. *)

Hosts(code) == {c \in code : c.kind = "host"}
Calls(code) == {c \in code : c.kind = "call"}

IdentitiesByAlias(code, alias) == UNION {c.uses : c \in {h \in Hosts(code) : h.alias = alias}}
AliasesByIdentity(code, id) == {h.alias : h \in {c \in Hosts(code) : id \in c.uses}}

\* split_binding_values: no empty value and no duplicate.
Split(values) == IsInjective(values) /\ \A k \in DOMAIN values : values[k] # ""

\* The checks of the pass over the SSA.
CodeIsBound(a) ==
    /\ Hosts(a.code) # {}
    /\ \A h \in Hosts(a.code) : Cardinality(h.uses) = 1 /\ h.uses \subseteq a.required
    /\ \A c \in Calls(a.code) : c.requires \subseteq a.required /\ \A id \in c.requires : Suffix[id] # ""

\* Seeded fault: an alias is not checked for other identities behind it.
BindableByIdentity(a, id, alias) ==
    id \in a.required /\ AliasesByIdentity(a.code, id) = {alias}

\* One authorised identity beside its declared alias: one alias for the
\* identity and one identity for the alias.
Bindable(a, id, alias) ==
    /\ id \in a.required
    /\ AliasesByIdentity(a.code, id) = {alias}
    /\ IdentitiesByAlias(a.code, alias) = {id}

Accepts(g) ==
    /\ Split(g.authorized) /\ Split(g.aliases)
    /\ Len(g.authorized) = Len(g.aliases)
    /\ CodeIsBound(g.artifact)
    /\ \A k \in DOMAIN g.authorized : Bindable(g.artifact, g.authorized[k], g.aliases[k])

\* DispatchBinding: the operations of the alias and the call authorities
\* whose identity ends in it.
Binding(code, id, alias) ==
    [identity |-> id, alias |-> alias,
     operations |-> {h.operation : h \in {c \in Hosts(code) : c.alias = alias}},
     authorities |-> {x \in UNION {c.requires : c \in Calls(code)} : Suffix[x] = alias}]

----------------------------------------------------------------------------
(* The process. *)

Exit(document) ==
    /\ runner_pc' = document
    /\ UNCHANGED << disk, n, args, bindings, used, row, effects, results, touched >>

\* A process is started; admit_owned has accepted the artifact.
StartRunner ==
    /\ runner_pc \in {"idle", "failed", "printed"}
    /\ n < MaxInvocations
    /\ n' = n + 1
    /\ args' \in Invocations
    /\ runner_pc' = "bind"
    /\ bindings' = {} /\ used' = {} /\ row' = 1 /\ effects' = 0
    /\ results' = <<>> /\ touched' = {}
    /\ UNCHANGED disk

\* run_single and run_batch before their first call.
Bind ==
    /\ runner_pc = "bind"
    /\ args.mode = "batch" => Len(args.rows) \in 1 .. MaxCalls
    /\ Accepts(args)
    /\ bindings' = {Binding(args.artifact.code, args.authorized[k], args.aliases[k]) : k \in DOMAIN args.authorized}
    /\ runner_pc' = "row"
    /\ UNCHANGED << disk, n, args, used, row, effects, results, touched >>

RefuseBinding ==
    /\ runner_pc = "bind"
    /\ \/ args.mode = "batch" /\ Len(args.rows) \notin 1 .. MaxCalls
       \/ ~Accepts(args)
    /\ Exit("failed")

RowPaths(r) == << r.request, r.input, r.output >> \o (IF r.check = NoPath THEN <<>> ELSE << r.check >>)

\* The checks run_batch makes of a row's paths just before it runs the row.
PathsAdmitted(r) ==
    /\ Range(RowPaths(r)) \subseteq AbsolutePath
    /\ IsInjective(RowPaths(r))
    /\ Range(RowPaths(r)) \intersect used = {}

Exists(path) == path # NoPath /\ disk[FileOf[path]] # Absent

\* execute_call up to the session: its mode, outputs that are not there yet,
\* a request that can be read.
CallAdmitted(r) ==
    /\ r.mode \in {"none", "success", "fail-write"}
    /\ r.mode # "none" => ~Exists(r.output) /\ ~Exists(r.check)
    /\ Exists(r.request)

BeginCall ==
    /\ runner_pc = "row"
    /\ args.mode = "batch" => PathsAdmitted(Row)
    /\ CallAdmitted(Row)
    /\ used' = used \union Range(RowPaths(Row))
    /\ effects' = 0
    /\ runner_pc' = "running"
    /\ UNCHANGED << disk, n, args, bindings, row, results, touched >>

RefuseRow ==
    /\ runner_pc = "row"
    /\ ~(args.mode = "batch" => PathsAdmitted(Row)) \/ ~CallAdmitted(Row)
    /\ Exit("failed")

\* The session's call returns an outcome, good or bad; the loop goes on to
\* the next row or prints the document.
Return(outcome) ==
    /\ results' = Append(results, outcome)
    /\ IF row = Len(args.rows) THEN runner_pc' = "printed" /\ row' = row ELSE runner_pc' = "row" /\ row' = row + 1
    /\ UNCHANGED << n, args, bindings, used, effects >>

Returns ==
    /\ runner_pc = "running"
    /\ Return("returned")
    /\ UNCHANGED << disk, touched >>

\* Instructions without a provider: a mode of "none" binds nothing.
Bound == IF Row.mode = "none" THEN {} ELSE bindings

\* The VM admits a call when every identity it requires is bound.
CallAdmission(c) ==
    /\ runner_pc = "running" /\ effects < MaxEffects
    /\ c \in Calls(args.artifact.code)
    /\ IF c.requires \subseteq UNION {b.authorities : b \in Bound}
       THEN effects' = effects + 1 /\ UNCHANGED << n, runner_pc, args, bindings, used, row, results >>
       ELSE Return("denied")
    /\ UNCHANGED << disk, touched >>

Serves(h) == \E b \in Bound : b.alias = h.alias /\ h.operation \in b.operations
Touch(h, path) ==
    touched' = touched \union {[row |-> row, host |-> h, path |-> path, seen |-> disk[FileOf[path]]]}

\* StructuredFileProvider::invoke, "structured_read".
Read(h, path, schema) ==
    /\ runner_pc = "running" /\ effects < MaxEffects
    /\ h \in Hosts(args.artifact.code) /\ h.operation = "structured_read"
    /\ IF Serves(h) /\ path = Row.input /\ schema = "input" /\ Exists(path)
       THEN /\ effects' = effects + 1
            /\ Touch(h, path)
            /\ UNCHANGED << n, runner_pc, args, bindings, used, row, results >>
       ELSE Return("provider failure") /\ UNCHANGED touched
    /\ UNCHANGED disk

\* The one path each schema may be written to.
WriteExpected(path, schema) ==
    \/ schema = "output" /\ path = Row.output
    \/ schema = "check" /\ path = Row.check

\* StructuredFileProvider::invoke, "structured_write"; a mode of fail-write
\* answers 0 and writes nothing.
Write(h, path, schema) ==
    /\ runner_pc = "running" /\ effects < MaxEffects
    /\ h \in Hosts(args.artifact.code) /\ h.operation = "structured_write"
    /\ IF Serves(h) /\ WriteExpected(path, schema)
       THEN /\ effects' = effects + 1
            /\ IF Row.mode = "fail-write" THEN UNCHANGED << disk, touched >>
               ELSE Touch(h, path) /\ disk' = [disk EXCEPT ![FileOf[path]] = << n, row >>]
            /\ UNCHANGED << n, runner_pc, args, bindings, used, row, results >>
       ELSE Return("provider failure") /\ UNCHANGED << disk, touched >>

\* "structured_digest" computes its answer from its operand alone; any other
\* operation is unsupported.
OtherOperation(h) ==
    /\ runner_pc = "running" /\ effects < MaxEffects
    /\ h \in Hosts(args.artifact.code) /\ h.operation \notin {"structured_read", "structured_write"}
    /\ IF Serves(h) /\ h.operation = "structured_digest"
       THEN effects' = effects + 1 /\ UNCHANGED << n, runner_pc, args, bindings, used, row, results >>
       ELSE Return("provider failure")
    /\ UNCHANGED << disk, touched >>

\* An admitted access fails before a file is changed, or a digest refuses its operand.
AccessFails(h) ==
    /\ runner_pc = "running" /\ effects < MaxEffects
    /\ h \in Hosts(args.artifact.code) /\ Serves(h)
    /\ Return("provider failure")
    /\ UNCHANGED << disk, touched >>

\* fs::write fails once it has opened the file: what it wrote so far stays.
WriteFails(h, path, schema) ==
    /\ runner_pc = "running" /\ effects < MaxEffects
    /\ h \in Hosts(args.artifact.code) /\ h.operation = "structured_write"
    /\ Serves(h) /\ WriteExpected(path, schema) /\ Row.mode # "fail-write"
    /\ Touch(h, path)
    /\ disk' = [disk EXCEPT ![FileOf[path]] = << n, row >>]
    /\ Return("provider failure")

\* The process is killed, as the test harness does after its deadline.
Kill ==
    /\ runner_pc \in {"bind", "row", "running"}
    /\ runner_pc' = "idle"
    /\ UNCHANGED << disk, n, args, bindings, used, row, effects, results, touched >>

RunnerInit ==
    /\ disk \in [File -> {Absent, Fixture}]
    /\ n = 0 /\ runner_pc = "idle" /\ args = CHOOSE g \in Invocations : TRUE
    /\ bindings = {} /\ used = {} /\ row = 1 /\ effects = 0 /\ results = <<>> /\ touched = {}

RunnerNext ==
    \/ StartRunner \/ Bind \/ RefuseBinding \/ BeginCall \/ RefuseRow \/ Returns \/ Kill
    \/ \E c \in args.artifact.code : CallAdmission(c)
    \/ \E c \in args.artifact.code : OtherOperation(c)
    \/ \E c \in args.artifact.code : AccessFails(c)
    \/ \E c \in args.artifact.code, path \in Path, schema \in Schemas : Read(c, path, schema)
    \/ \E c \in args.artifact.code, path \in Path, schema \in Schemas : Write(c, path, schema)
    \/ \E c \in args.artifact.code, path \in Path, schema \in Schemas : WriteFails(c, path, schema)

RunnerSpec == RunnerInit /\ [][RunnerNext]_runnerVars

----------------------------------------------------------------------------
(* Properties. *)

\* The type invariant: files hold what some row wrote, the row index stays in
\* the batch and the results keep up with it.
RunnerTypeOK ==
    /\ disk \in [File -> Content]
    /\ n \in 0 .. MaxInvocations
    /\ runner_pc \in {"idle", "bind", "row", "running", "printed", "failed"}
    /\ used \subseteq AbsolutePath \union Path
    /\ runner_pc \in {"row", "running"} => row \in 1 .. Len(args.rows) /\ Len(results) = row - 1
    /\ effects \in 0 .. MaxEffects
    /\ \A t \in touched : t.path \in Path /\ t.seen \in Content

\* A file is read or written only on behalf of a host call whose one
\* capability use is an identity the command line authorises beside that very
\* alias, which the artifact requires, and which no other identity shares.
AuthorityIsExact ==
    \A t \in touched :
        \E k \in DOMAIN args.authorized :
            /\ t.host.uses = {args.authorized[k]} /\ t.host.alias = args.aliases[k]
            /\ args.authorized[k] \in args.artifact.required
            /\ \A h \in Hosts(args.artifact.code) :
                  h.alias = t.host.alias <=> h.uses = t.host.uses

\* No row reads what an earlier row of its batch wrote under the path it
\* reads: only another spelling of one file could get past unique_paths.
RowsAreIsolated ==
    (runner_pc # "bind" /\ args.mode = "batch") =>
        \A t, u \in touched : t.row < u.row => t.path # u.path

\* A printed document is complete, and what stands at an output or check path
\* of a row that had a provider was written by this very invocation: an output
\* an earlier, failed or killed, invocation left is never reported as new.
DocumentIsFresh ==
    runner_pc = "printed" =>
        /\ Len(results) = Len(args.rows)
        /\ \A k \in DOMAIN args.rows :
              args.rows[k].mode # "none" =>
                  \A path \in {args.rows[k].output, args.rows[k].check} \ {NoPath} :
                      disk[FileOf[path]] # Absent => disk[FileOf[path]][1] = n

\* What is on disk is never overwritten by anyone but the row that wrote it,
\* fixtures and the outputs of other rows and invocations included, under
\* whatever spelling they are reached.
NothingIsOverwritten ==
    \A f \in File : disk[f] # Absent /\ disk'[f] # disk[f] => disk[f] = << n, row >>
=============================================================================
