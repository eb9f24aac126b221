---------------------------- MODULE ServingProofs ----------------------------
(***************************************************************************)
(* What answers a client, for any modules, lines, paths, command lines and *)
(* requests: the line protocol of a ready probe, the runner of             *)
(* applications, and the builds that are made for requests.                *)
(***************************************************************************)
EXTENDS MCServing, FiniteSetTheorems, WellFoundedInduction, TLAPS

(***************************************************************************)
(* The probe's loop.                                                       *)
(***************************************************************************)

\* The one answer a line ever has.
AnswerOf(l) ==
    IF l.kind = "status" THEN << "status", None >>
    ELSE IF l.kind = "record_types" THEN << "record_types", l.module >>
    ELSE IF l.kind = "execute" THEN << IF l.module \in BackendSessions THEN "backend" ELSE "reference", l.module >>
    ELSE IF l.kind = "emit" THEN << "artifact", l.module >>
    ELSE << "stateless", None >>

\* Without releases every Program stays; with them, what was released has its
\* record types retained and a backend session.
KeepsInv ==
    /\ ~release => programs = Elaborated
    /\ release => Elaborated \subseteq programs \union recordTypes

\* The client waits for the line it sent, and a probe that died could never
\* have served it.
WaitInv ==
    /\ line # None => asked = line
    /\ ~alive => asked # None /\ output = None /\ ~Served(asked)

AnswerInv ==
    /\ output # None => output = AnswerOf(asked)
    /\ \A l \in Line : known[l] # None => known[l] = AnswerOf(l)

TransportInv == TransportTypeOK /\ KeepsInv /\ WaitInv /\ AnswerInv

\* The answers are answers.
LEMMA AnswerTyped ==
    ASSUME NEW m \in Module
    PROVE  /\ \A k \in {"backend", "reference", "record_types", "artifact"} : << k, m >> \in Answer /\ << k, m >> # None
           /\ << "status", None >> \in Answer /\ << "status", None >> # None
           /\ << "stateless", None >> \in Answer /\ << "stateless", None >> # None
BY ProbeTransportAssumption DEF Answer

LEMMA TransportStarts == TransportInit => TransportInv
<1> SUFFICES ASSUME TransportInit PROVE TransportInv
  OBVIOUS
<1>1. TransportTypeOK
  BY DEF TransportInit, StartProbe, TransportTypeOK
<1>2. KeepsInv /\ WaitInv /\ AnswerInv
  BY DEF TransportInit, StartProbe, KeepsInv, WaitInv, AnswerInv
<1> QED
  BY <1>1, <1>2 DEF TransportInv

\* An answer to the line the probe has just read.
LEMMA ReplyInv ==
    ASSUME TransportInv, alive, line # None, NEW given \in Answer, given # None, given = AnswerOf(line), Reply(given), line' = None,
           programs' \subseteq programs, sessions' \subseteq Elaborated, recordTypes' \subseteq Elaborated, KeepsInv'
    PROVE  TransportInv'
<1>1. asked = line /\ UNCHANGED << backend, release, alive, asked, known >> /\ output' = given
  BY DEF TransportInv, WaitInv, Reply
<1>2. \A l : AnswerOf(l)' = AnswerOf(l)
  BY <1>1 DEF AnswerOf, BackendSessions
<1>3. \A l : Served(l)' <=> Served(l)
  BY <1>1 DEF Served, BackendSessions
<1>4. TransportTypeOK'
  BY <1>1 DEF TransportInv, TransportTypeOK
<1>5. WaitInv'
  BY <1>1, <1>3 DEF TransportInv, WaitInv
<1>6. AnswerInv'
  BY <1>1, <1>2 DEF TransportInv, AnswerInv
<1> QED
  BY <1>4, <1>5, <1>6 DEF TransportInv

\* A panic on a line that could never be served.
LEMMA PanicInv ==
    ASSUME TransportInv, line # None, ~Served(line), Panic
    PROVE  TransportInv'
<1>1. /\ asked = line /\ UNCHANGED << backend, release, programs, sessions, recordTypes, output, asked, known >>
      /\ alive' = FALSE /\ line' = None /\ output = None
  BY DEF TransportInv, TransportTypeOK, WaitInv, Panic
<1>2. \A l : AnswerOf(l)' = AnswerOf(l)
  BY <1>1 DEF AnswerOf, BackendSessions
<1>3. \A l : Served(l)' <=> Served(l)
  BY <1>1 DEF Served, BackendSessions
<1>4. TransportTypeOK'
  BY <1>1 DEF TransportInv, TransportTypeOK
<1>5. KeepsInv' /\ WaitInv' /\ AnswerInv'
  BY <1>1, <1>2, <1>3 DEF TransportInv, KeepsInv, WaitInv, AnswerInv
<1> QED
  BY <1>4, <1>5 DEF TransportInv

\* The ordinary loop: a Program is never given up.
LEMMA OrdinaryInv ==
    ASSUME TransportInv, Status \/ Malformed \/ RecordTypes \/ Execute \/ Emit \/ Other
    PROVE  TransportInv'
<1>1. line # None /\ line \in Line /\ line.module \in Module
  BY ProbeTransportAssumption
     DEF Status, Malformed, RecordTypes, Execute, Emit, Other, Reads, TransportInv, TransportTypeOK, Line
<1> USE AnswerTyped
<1>2. ASSUME UNCHANGED << programs, sessions, recordTypes >>, NEW a, Reply(a)
      PROVE  /\ programs' \subseteq programs /\ sessions' \subseteq Elaborated /\ recordTypes' \subseteq Elaborated
             /\ KeepsInv'
  BY <1>2 DEF TransportInv, TransportTypeOK, KeepsInv, Reply
<1>3. CASE Status
  BY <1>1, <1>2, <1>3, ReplyInv DEF Status, Reads, AnswerOf
<1>4. CASE Malformed
  BY <1>1, <1>4, PanicInv DEF Malformed, Reads, Served
<1>5. CASE RecordTypes
  <2>1. CASE line.module \in programs
    BY <1>1, <1>2, <1>5, <2>1, ReplyInv DEF RecordTypes, Reads, AnswerOf
  <2>2. CASE line.module \notin programs
    BY <1>1, <1>5, <2>2, PanicInv DEF RecordTypes, Reads, Served, TransportInv, KeepsInv
  <2> QED
    BY <2>1, <2>2
<1>6. CASE Execute
  <2>1. CASE line.module \in BackendSessions
    BY <1>1, <1>2, <1>6, <2>1, ReplyInv DEF Execute, Reads, AnswerOf
  <2>2. CASE line.module \in (sessions \union programs) \ BackendSessions
    <3>1. /\ Reply(<< "reference", line.module >>) /\ line' = None /\ UNCHANGED << programs, recordTypes >>
          /\ sessions' = sessions \union {line.module} /\ line.kind = "execute" /\ alive
      BY <1>6, <2>2 DEF Execute, Reads
    <3>2. << "reference", line.module >> = AnswerOf(line)
      BY <2>2, <3>1 DEF AnswerOf
    <3>3. programs' \subseteq programs /\ sessions' \subseteq Elaborated /\ recordTypes' \subseteq Elaborated /\ KeepsInv'
      BY <2>2, <3>1 DEF TransportInv, TransportTypeOK, KeepsInv, Reply
    <3> QED
      BY <1>1, <3>1, <3>2, <3>3, ReplyInv
  <2>3. CASE line.module \notin BackendSessions \union sessions \union programs
    BY <1>1, <1>6, <2>3, PanicInv DEF Execute, Reads, Served, TransportInv, KeepsInv
  <2> QED
    BY <2>1, <2>2, <2>3
<1>7. CASE Emit
  <2>1. CASE line.module \in programs \intersect Emittable
    BY <1>1, <1>2, <1>7, <2>1, ReplyInv DEF Emit, Reads, AnswerOf
  <2>2. CASE line.module \notin programs \intersect Emittable
    BY <1>1, <1>7, <2>2, PanicInv, ProbeTransportAssumption DEF Emit, Reads, Served, TransportInv, KeepsInv
  <2> QED
    BY <2>1, <2>2
<1>8. CASE Other
  BY <1>1, <1>2, <1>8, ReplyInv DEF Other, Reads, AnswerOf
<1> QED
  BY <1>3, <1>4, <1>5, <1>6, <1>7, <1>8

\* The releasing loop: a Program goes only once its record types are kept.
LEMMA ReleasingInv ==
    ASSUME TransportInv, RecordTypesReleasing \/ ExecuteReleasing
    PROVE  TransportInv'
<1>1. line # None /\ line \in Line /\ line.module \in Module /\ release
  BY ProbeTransportAssumption DEF RecordTypesReleasing, ExecuteReleasing, Reads, TransportInv, TransportTypeOK, Line
<1> USE AnswerTyped
<1>2. ASSUME UNCHANGED << programs, sessions, recordTypes >>, NEW a, Reply(a)
      PROVE  /\ programs' \subseteq programs /\ sessions' \subseteq Elaborated /\ recordTypes' \subseteq Elaborated
             /\ KeepsInv'
  BY <1>2 DEF TransportInv, TransportTypeOK, KeepsInv, Reply
<1>3. CASE RecordTypesReleasing
  <2>1. CASE line.module \in recordTypes
    BY <1>1, <1>2, <1>3, <2>1, ReplyInv DEF RecordTypesReleasing, Reads, AnswerOf
  <2>2. CASE line.module \in programs \ recordTypes
    <3>1. /\ Reply(<< "record_types", line.module >>) /\ line' = None /\ UNCHANGED sessions /\ line.kind = "record_types"
          /\ alive /\ programs' \subseteq programs /\ programs \ programs' \subseteq recordTypes'
          /\ recordTypes \subseteq recordTypes' /\ recordTypes' \subseteq recordTypes \union {line.module}
      BY <1>3, <2>2 DEF RecordTypesReleasing, Reads, Retain
    <3>2. << "record_types", line.module >> = AnswerOf(line)
      BY <3>1 DEF AnswerOf
    <3>3. sessions' \subseteq Elaborated /\ recordTypes' \subseteq Elaborated /\ KeepsInv'
      BY <1>1, <2>2, <3>1 DEF TransportInv, TransportTypeOK, KeepsInv, Reply
    <3> QED
      BY <1>1, <3>1, <3>2, <3>3, ReplyInv
  <2>3. CASE line.module \notin programs \union recordTypes
    BY <1>1, <1>3, <2>3, PanicInv DEF RecordTypesReleasing, Reads, Served, TransportInv, KeepsInv
  <2> QED
    BY <2>1, <2>2, <2>3
<1>4. CASE ExecuteReleasing
  <2>1. CASE line.kind = "execute" /\ line.module \in BackendSessions
    BY <1>1, <1>2, <1>4, <2>1, ReplyInv DEF ExecuteReleasing, Reads, AnswerOf
  <2>2. CASE ~(line.kind = "execute" /\ line.module \in BackendSessions)
    BY <1>1, <1>4, <2>2, PanicInv DEF ExecuteReleasing, Reads, Served
  <2> QED
    BY <2>1, <2>2
<1> QED
  BY <1>3, <1>4

\* The client.
LEMMA ClientInv ==
    ASSUME TransportInv, Send \/ Receive
    PROVE  TransportInv'
<1>1. UNCHANGED << backend, release, programs, sessions, recordTypes, alive >>
  BY DEF Send, Receive
<1>2. \A l : AnswerOf(l)' = AnswerOf(l)
  BY <1>1 DEF AnswerOf, BackendSessions
<1>3. \A l : Served(l)' <=> Served(l)
  BY <1>1 DEF Served, BackendSessions
<1>4. KeepsInv'
  BY <1>1 DEF TransportInv, KeepsInv
<1>5. CASE Send
  <2>1. PICK l \in Line : line' = l /\ asked' = l
    BY <1>5 DEF Send
  <2>2. alive /\ asked = None /\ output = None /\ UNCHANGED << output, known >>
    BY <1>5 DEF Send, TransportInv, TransportTypeOK
  <2>3. TransportTypeOK'
    BY <1>1, <2>1, <2>2 DEF TransportInv, TransportTypeOK
  <2>4. WaitInv' /\ AnswerInv'
    BY <1>1, <1>2, <1>3, <2>1, <2>2 DEF TransportInv, WaitInv, AnswerInv
  <2> QED
    BY <1>4, <2>3, <2>4 DEF TransportInv
<1>6. CASE Receive
  <2>1. /\ output # None /\ known' = [known EXCEPT ![asked] = output] /\ output' = None /\ asked' = None
        /\ line' = line
    BY <1>6 DEF Receive
  <2>2. /\ asked \in Line /\ line = None /\ output \in Answer /\ known \in [Line -> Answer \union {None}]
        /\ output = AnswerOf(asked)
    BY <2>1 DEF TransportInv, TransportTypeOK, AnswerInv
  <2>3. alive
    BY <2>1, <2>2 DEF TransportInv, WaitInv
  <2>4. known' \in [Line -> Answer \union {None}]
    BY <2>1, <2>2
  <2>5. TransportTypeOK'
    BY <1>1, <2>1, <2>2, <2>4 DEF TransportInv, TransportTypeOK
  <2>6. WaitInv' /\ AnswerInv'
    BY <1>1, <1>2, <2>1, <2>2, <2>3 DEF TransportInv, WaitInv, AnswerInv
  <2> QED
    BY <1>4, <2>5, <2>6 DEF TransportInv
<1> QED
  BY <1>5, <1>6

LEMMA TransportKept == TransportInv /\ [TransportNext]_transportVars => TransportInv'
<1> SUFFICES ASSUME TransportInv, [TransportNext]_transportVars PROVE TransportInv'
  OBVIOUS
<1>1. CASE UNCHANGED transportVars
  BY <1>1 DEF transportVars, TransportInv, TransportTypeOK, KeepsInv, WaitInv, AnswerInv, AnswerOf, Served,
     BackendSessions
<1> QED
  BY <1>1, OrdinaryInv, ReleasingInv, ClientInv DEF TransportNext, Probe

\* Whatever lines a probe served and whatever Programs it released before, it dies
\* only of lines a fresh probe could not serve either, and an answer once given
\* is given again.
THEOREM ServesAnyOrder == Spec => []ProbeServesAnyOrder
<1> DEFINE I == server = "transport" => TransportInv
<1>1. Init => I
  BY TransportStarts DEF Init
<1>2. I /\ [Next]_<<server, transportVars, runnerVars, requestVars>> => I'
  BY TransportKept DEF Next
<1>3. I => ProbeServesAnyOrder
  BY DEF TransportInv, WaitInv, AnswerInv, TransportTypeOK, ProbeServesAnyOrder, DiesOfMisuseOnly, AnswersAreRepeatable
<1> QED
  BY <1>1, <1>2, <1>3, PTL DEF Spec

(***************************************************************************)
(* The runner.                                                             *)
(***************************************************************************)

Outcome == {"returned", "denied", "provider failure"}

\* The paths of a row a provider may write.
Written(r) == {r.output, r.check} \ {NoPath}

\* What stands at the outputs of row k was written by this invocation.
Fresh(k) ==
    args.rows[k].mode # "none" =>
        \A path \in Written(args.rows[k]) : disk[FileOf[path]] # Absent => disk[FileOf[path]][1] = n

ProcessInv ==
    /\ args \in Invocations /\ results \in Seq(Outcome)
    /\ runner_pc \in {"bind", "row", "running"} => n \in 1 .. MaxInvocations
    /\ runner_pc = "bind" => touched = {}
    /\ runner_pc \in {"bind", "row"} => row = 1 \/ row \in 2 .. Len(args.rows)
    /\ runner_pc = "bind" => row = 1 /\ results = << >>
    /\ runner_pc \in {"row", "running"} => Len(args.rows) \in 1 .. MaxCalls

\* A running process has the bindings its command line and its artifact agree on.
BindingsInv ==
    runner_pc \in {"row", "running"} =>
        /\ Accepts(args)
        /\ bindings = {Binding(args.artifact.code, args.authorized[k], args.aliases[k]) : k \in DOMAIN args.authorized}

\* The outputs of the row being run are absent or its own; those of the rows
\* before it are of this invocation.
OutputsInv ==
    /\ runner_pc \in {"row", "running"} => \A k \in 1 .. row - 1 : Fresh(k)
    /\ runner_pc = "running" /\ Row.mode # "none" =>
          \A path \in Written(Row) : disk[FileOf[path]] \in {Absent, << n, row >>}
    /\ DocumentIsFresh

\* Rows of a batch keep to their own paths, which no earlier row used.
PathsInv ==
    /\ \A t \in touched : t.row \in Nat /\ t.path \in Path
    /\ RowsAreIsolated
    /\ args.mode = "batch" /\ runner_pc = "row" => \A t \in touched : t.row < row /\ t.path \in used
    /\ args.mode = "batch" /\ runner_pc = "running" =>
          /\ Range(RowPaths(Row)) \subseteq used
          /\ \A t \in touched :
                \/ t.row < row /\ t.path \in used \ Range(RowPaths(Row))
                \/ t.row = row /\ t.path \in Range(RowPaths(Row))

RunnerInv == RunnerTypeOK /\ ProcessInv /\ BindingsInv /\ OutputsInv /\ PathsInv /\ AuthorityIsExact

\* The paths of a row.
LEMMA RowRange ==
    ASSUME NEW r \in CallRow
    PROVE  /\ Range(RowPaths(r)) = {r.request, r.input, r.output} \union ({r.check} \ {NoPath})
           /\ Range(RowPaths(r)) \subseteq Path
<1>1. r.request \in Path /\ r.input \in Path /\ r.output \in Path /\ r.check \in Path \union {NoPath}
  BY DEF CallRow
<1>2. CASE r.check = NoPath
  <2>1. RowPaths(r) = << r.request, r.input, r.output >>
    BY <1>1, <1>2 DEF RowPaths
  <2>2. Range(RowPaths(r)) = {r.request, r.input, r.output}
    BY <2>1 DEF Range
  <2> QED
    BY <1>1, <1>2, <2>2
<1>3. CASE r.check # NoPath
  <2> DEFINE a == << r.request, r.input, r.output >>
             b == << r.check >>
  <2>0. a \in Seq(Path) /\ b \in Seq(Path) /\ Len(a) = 3 /\ Len(b) = 1 /\ RowPaths(r) = a \o b
    BY <1>1, <1>3 DEF RowPaths
  <2>1. /\ DOMAIN RowPaths(r) = 1 .. 4
        /\ RowPaths(r)[1] = r.request /\ RowPaths(r)[2] = r.input /\ RowPaths(r)[3] = r.output
        /\ RowPaths(r)[4] = r.check
    BY <2>0
  <2>2. Range(RowPaths(r)) = {r.request, r.input, r.output, r.check}
    BY <2>1 DEF Range
  <2> QED
    BY <1>1, <1>3, <2>2
<1> QED
  BY <1>2, <1>3

\* An authorised alias and its identity stand for each other in the code.
LEMMA AliasIsIdentity ==
    ASSUME NEW g, Accepts(g), NEW k \in DOMAIN g.authorized, NEW h \in Hosts(g.artifact.code)
    PROVE  /\ g.authorized[k] \in g.artifact.required
           /\ h.alias = g.aliases[k] <=> h.uses = {g.authorized[k]}
<1> DEFINE id == g.authorized[k]
           alias == g.aliases[k]
           code == g.artifact.code
<1>1. id \in g.artifact.required /\ AliasesByIdentity(code, id) = {alias} /\ IdentitiesByAlias(code, alias) = {id}
  BY DEF Accepts, Bindable
<1>2. Cardinality(h.uses) = 1
  BY DEF Accepts, CodeIsBound
<1>3. h.uses # {}
  BY <1>2, FS_EmptySet
<1>4. ASSUME h.alias = alias PROVE h.uses = {id}
  <2>1. h.uses \subseteq IdentitiesByAlias(code, alias)
    BY <1>4 DEF IdentitiesByAlias
  <2> QED
    BY <1>1, <1>3, <2>1
<1>5. ASSUME h.uses = {id} PROVE h.alias = alias
  <2>1. h.alias \in AliasesByIdentity(code, id)
    BY <1>5 DEF AliasesByIdentity
  <2> QED
    BY <1>1, <2>1
<1> QED
  BY <1>1, <1>4, <1>5

LEMMA RunnerStarts == RunnerInit => RunnerInv
<1> SUFFICES ASSUME RunnerInit PROVE RunnerInv
  OBVIOUS
<1> USE DEF RunnerInit
<1>1. RunnerTypeOK
  BY InvocationsAssumption DEF RunnerTypeOK, Content
<1>2. ProcessInv
  BY InvocationsAssumption DEF ProcessInv
<1>3. BindingsInv /\ OutputsInv /\ PathsInv /\ AuthorityIsExact
  BY DEF BindingsInv, OutputsInv, PathsInv, AuthorityIsExact, DocumentIsFresh, RowsAreIsolated
<1> QED
  BY <1>1, <1>2, <1>3 DEF RunnerInv

\* The row a process is at is a row of its command line.
LEMMA RowTyped ==
    ASSUME RunnerInv, runner_pc \in {"row", "running"}
    PROVE  /\ row \in 1 .. Len(args.rows) /\ Len(args.rows) \in 1 .. MaxCalls /\ Row \in CallRow
           /\ n \in 1 .. MaxInvocations /\ Len(results) = row - 1 /\ args.rows \in Seq(CallRow)
<1>1. /\ row \in 1 .. Len(args.rows) /\ args.rows \in Seq(CallRow) /\ Len(args.rows) \in 1 .. MaxCalls
      /\ n \in 1 .. MaxInvocations /\ Len(results) = row - 1
  BY InvocationsAssumption DEF RunnerInv, RunnerTypeOK, ProcessInv
<1> QED
  BY <1>1 DEF Row

\* A process ends without a document, or is killed.
LEMMA ExitInv ==
    ASSUME RunnerInv, runner_pc' \in {"idle", "failed"}, runner_pc \in {"bind", "row", "running"},
           UNCHANGED << disk, n, args, bindings, used, row, effects, results, touched >>
    PROVE  RunnerInv'
<1>1. RunnerTypeOK'
  BY DEF RunnerInv, RunnerTypeOK
<1>2. ProcessInv' /\ BindingsInv'
  BY DEF RunnerInv, ProcessInv, BindingsInv
<1>3. OutputsInv'
  BY DEF OutputsInv, DocumentIsFresh
<1>4. RowsAreIsolated'
  <2>1. CASE runner_pc = "bind"
    BY <2>1 DEF RunnerInv, ProcessInv, RowsAreIsolated
  <2>2. CASE runner_pc # "bind"
    BY <2>2 DEF RunnerInv, PathsInv, RowsAreIsolated
  <2> QED
    BY <2>1, <2>2
<1>5. PathsInv'
  BY <1>4 DEF RunnerInv, PathsInv
<1>6. AuthorityIsExact'
  BY DEF RunnerInv, AuthorityIsExact
<1> QED
  BY <1>1, <1>2, <1>3, <1>5, <1>6 DEF RunnerInv

LEMMA StartRunnerInv ==
    ASSUME RunnerInv, StartRunner
    PROVE  RunnerInv'
<1> USE DEF StartRunner
<1>1. n' \in 1 .. MaxInvocations /\ args' \in Invocations /\ disk' = disk
  BY InvocationsAssumption DEF RunnerInv, RunnerTypeOK
<1>2. RunnerTypeOK'
  BY <1>1, InvocationsAssumption DEF RunnerInv, RunnerTypeOK
<1>3. ProcessInv' /\ BindingsInv'
  BY <1>1 DEF ProcessInv, BindingsInv
<1>4. OutputsInv' /\ PathsInv' /\ AuthorityIsExact'
  BY DEF OutputsInv, DocumentIsFresh, PathsInv, RowsAreIsolated, AuthorityIsExact
<1> QED
  BY <1>2, <1>3, <1>4 DEF RunnerInv

LEMMA BindInv ==
    ASSUME RunnerInv, Bind
    PROVE  RunnerInv'
<1>1. /\ runner_pc = "bind" /\ runner_pc' = "row" /\ Accepts(args) /\ touched = {} /\ row = 1 /\ results = << >>
      /\ UNCHANGED << disk, n, args, used, row, effects, results, touched >>
      /\ bindings' = {Binding(args.artifact.code, args.authorized[k], args.aliases[k]) : k \in DOMAIN args.authorized}
  BY DEF Bind, RunnerInv, ProcessInv
<1>2. Len(args.rows) \in 1 .. MaxCalls
  <2>1. args \in Invocations /\ MaxCalls \in Nat \ {0}
    BY PathsAssumption DEF RunnerInv, ProcessInv
  <2>2. args.mode \in {"single", "batch"} /\ (args.mode = "single" => Len(args.rows) = 1)
    BY <2>1, InvocationsAssumption
  <2>3. CASE args.mode = "single"
    <3>1. Len(args.rows) = 1
      BY <2>2, <2>3
    <3> QED
      BY <2>1, <3>1
  <2>4. CASE args.mode = "batch"
    BY <2>4 DEF Bind
  <2> QED
    BY <2>2, <2>3, <2>4
<1>3. RunnerTypeOK'
  BY <1>1, <1>2 DEF RunnerInv, RunnerTypeOK
<1>4. ProcessInv'
  BY <1>1, <1>2 DEF RunnerInv, ProcessInv
<1>5. BindingsInv'
  BY <1>1 DEF BindingsInv
<1>6. OutputsInv' /\ PathsInv' /\ AuthorityIsExact'
  BY <1>1 DEF OutputsInv, DocumentIsFresh, PathsInv, RowsAreIsolated, AuthorityIsExact
<1> QED
  BY <1>3, <1>4, <1>5, <1>6 DEF RunnerInv

\* A call starts with its outputs absent and, in a batch, with paths no row
\* before it used.
LEMMA BeginCallInv ==
    ASSUME RunnerInv, BeginCall
    PROVE  RunnerInv'
<1>1. /\ runner_pc = "row" /\ runner_pc' = "running" /\ CallAdmitted(Row)
      /\ args.mode = "batch" => PathsAdmitted(Row)
      /\ used' = used \union Range(RowPaths(Row)) /\ effects' = 0
      /\ UNCHANGED << disk, n, args, bindings, row, results, touched >>
  BY DEF BeginCall
<1>2. /\ row \in 1 .. Len(args.rows) /\ Len(args.rows) \in 1 .. MaxCalls /\ Row \in CallRow
      /\ n \in 1 .. MaxInvocations /\ Len(results) = row - 1 /\ Row' = Row
  BY <1>1, RowTyped DEF Row
<1>3. Range(RowPaths(Row)) \subseteq Path
  BY <1>2, RowRange
<1>4. RunnerTypeOK'
  BY <1>1, <1>2, <1>3, InvocationsAssumption DEF RunnerInv, RunnerTypeOK
<1>5. ProcessInv' /\ BindingsInv'
  BY <1>1, <1>2 DEF RunnerInv, ProcessInv, BindingsInv
<1>6. \A k \in 1 .. row - 1 : Fresh(k)'
  BY <1>1 DEF RunnerInv, OutputsInv, Fresh
<1>7. Row.mode # "none" => \A path \in Written(Row) : disk[FileOf[path]] = Absent
  BY <1>1 DEF CallAdmitted, Exists, Written
<1>8. OutputsInv'
  BY <1>1, <1>2, <1>6, <1>7 DEF OutputsInv, DocumentIsFresh
<1>9. PathsInv'
  <2>1. RowsAreIsolated'
    BY <1>1 DEF RunnerInv, PathsInv, RowsAreIsolated
  <2>2. args.mode = "batch" => \A t \in touched : t.row < row /\ t.path \in used' \ Range(RowPaths(Row))
    BY <1>1 DEF RunnerInv, PathsInv, PathsAdmitted
  <2>3. (Range(RowPaths(Row)) \subseteq used)'
    BY <1>1, <1>2
  <2> QED
    BY <1>1, <1>2, <2>1, <2>2, <2>3 DEF RunnerInv, PathsInv
<1>10. AuthorityIsExact'
  BY <1>1 DEF RunnerInv, AuthorityIsExact
<1> QED
  BY <1>4, <1>5, <1>8, <1>9, <1>10 DEF RunnerInv

\* The outcome of a call is collected and the next row, or the document, follows.
LEMMA ReturnKeeps ==
    ASSUME RunnerInv, runner_pc = "running", NEW o \in Outcome, Return(o),
           disk' \in [File -> Content], \A k \in 1 .. row : Fresh(k)', AuthorityIsExact',
           \A t \in touched' : t.row \in Nat /\ t.path \in Path /\ t.seen \in Content,
           args.mode = "batch" =>
             /\ \A t \in touched' : t.row <= row /\ t.path \in used
             /\ \A t, u \in touched' : t.row < u.row => t.path # u.path
    PROVE  RunnerInv'
<1>1. /\ row \in 1 .. Len(args.rows) /\ Len(args.rows) \in 1 .. MaxCalls /\ Row \in CallRow
      /\ n \in 1 .. MaxInvocations /\ Len(results) = row - 1 /\ args.rows \in Seq(CallRow)
      /\ results \in Seq(Outcome)
  BY RowTyped DEF RunnerInv, ProcessInv
<1>2. results' \in Seq(Outcome) /\ Len(results') = row
  BY <1>1 DEF Return
<1>3. UNCHANGED << n, args, bindings, used, effects >>
  BY DEF Return
<1>4. \/ runner_pc' = "printed" /\ row' = row /\ row = Len(args.rows)
      \/ runner_pc' = "row" /\ row' = row + 1 /\ row < Len(args.rows)
  BY <1>1 DEF Return
<1>5. RunnerTypeOK'
  BY <1>1, <1>2, <1>3, <1>4 DEF RunnerInv, RunnerTypeOK
<1>6. ProcessInv' /\ BindingsInv'
  BY <1>1, <1>2, <1>3, <1>4 DEF RunnerInv, ProcessInv, BindingsInv
<1>7. OutputsInv'
  <2>1. CASE runner_pc' = "printed" /\ row' = row /\ row = Len(args.rows)
    <3>1. \A k \in DOMAIN args.rows : Fresh(k)'
      BY <1>1, <2>1
    <3>2. DocumentIsFresh'
      BY <1>2, <1>3, <2>1, <3>1 DEF DocumentIsFresh, Fresh, Written
    <3> QED
      BY <2>1, <3>2 DEF OutputsInv
  <2>2. CASE runner_pc' = "row" /\ row' = row + 1
    <3>1. \A k \in 1 .. row' - 1 : Fresh(k)'
      BY <1>1, <2>2
    <3> QED
      BY <2>2, <3>1 DEF OutputsInv, DocumentIsFresh
  <2> QED
    BY <1>4, <2>1, <2>2
<1>8. RowsAreIsolated'
  BY <1>3 DEF RowsAreIsolated
<1>9. PathsInv'
  BY <1>1, <1>3, <1>4, <1>8 DEF RunnerInv, PathsInv
<1> QED
  BY <1>5, <1>6, <1>7, <1>9 DEF RunnerInv

\* A row's outputs are fresh when they are absent or its own.
LEMMA RowIsFresh ==
    ASSUME RunnerInv, runner_pc = "running", UNCHANGED << n, args >>,
           Row.mode # "none" => \A path \in Written(Row) : disk'[FileOf[path]] \in {Absent, << n, row >>}
    PROVE  \A k : k = row => Fresh(k)'
<1> SUFFICES ASSUME NEW k, k = row, Row.mode # "none", NEW path \in Written(Row), disk'[FileOf[path]] # Absent
             PROVE  disk'[FileOf[path]][1] = n
  BY DEF Fresh, Row
<1>1. disk'[FileOf[path]] = << n, row >>
  OBVIOUS
<1> QED
  BY <1>1

LEMMA ReturnInv ==
    ASSUME RunnerInv, runner_pc = "running", NEW o \in Outcome, Return(o), UNCHANGED << disk, touched >>
    PROVE  RunnerInv'
<1>1. UNCHANGED << n, args, used >> /\ row \in Nat
  BY RowTyped DEF Return
<1>2. \A k : k = row => Fresh(k)'
  <2>1. Row.mode # "none" => \A path \in Written(Row) : disk'[FileOf[path]] \in {Absent, << n, row >>}
    BY DEF RunnerInv, OutputsInv
  <2> QED
    BY <1>1, <2>1, RowIsFresh
<1>3. \A k \in 1 .. row - 1 : Fresh(k)'
  BY <1>1 DEF RunnerInv, OutputsInv, Fresh
<1>4. \A k \in 1 .. row : Fresh(k)'
  BY <1>1, <1>2, <1>3
<1>5. AuthorityIsExact' /\ disk' \in [File -> Content]
  BY <1>1 DEF RunnerInv, RunnerTypeOK, AuthorityIsExact
<1>6. \A t \in touched' : t.row \in Nat /\ t.path \in Path /\ t.seen \in Content
  BY DEF RunnerInv, RunnerTypeOK, PathsInv
<1>7. args.mode = "batch" =>
        /\ \A t \in touched' : t.row <= row /\ t.path \in used
        /\ \A t, u \in touched' : t.row < u.row => t.path # u.path
  BY <1>1, <1>6 DEF RunnerInv, PathsInv, RowsAreIsolated
<1> QED
  BY <1>4, <1>5, <1>6, <1>7, ReturnKeeps

\* A file access of the row being run, under an authorised alias, and to one of
\* the row's own paths.
LEMMA AccessKeeps ==
    ASSUME RunnerInv, runner_pc = "running", UNCHANGED << n, args >>,
           NEW h \in Hosts(args.artifact.code), Serves(h), NEW path \in Path, path \in Range(RowPaths(Row)),
           touched' \in {touched, touched \union {[row |-> row, host |-> h, path |-> path, seen |-> disk[FileOf[path]]]}}
    PROVE  /\ \A t \in touched' : t.row \in Nat /\ t.path \in Path /\ t.seen \in Content
           /\ AuthorityIsExact'
           /\ args.mode = "batch" =>
                /\ \A t \in touched' : \/ t.row < row /\ t.path \in used \ Range(RowPaths(Row))
                                       \/ t.row = row /\ t.path \in Range(RowPaths(Row))
                /\ \A t, u \in touched' : t.row < u.row => t.path # u.path
<1> DEFINE new == [row |-> row, host |-> h, path |-> path, seen |-> disk[FileOf[path]]]
<1>1. row \in Nat
  BY RowTyped
<1>2. FileOf[path] \in File /\ disk[FileOf[path]] \in Content
  BY PathsAssumption DEF RunnerInv, RunnerTypeOK
<1>3. new.row = row /\ new.host = h /\ new.path = path /\ new.seen \in Content
  BY <1>2
<1>4. touched' \subseteq touched \union {new}
  OBVIOUS
<1> HIDE DEF new
<1>5. \A t \in touched' : t.row \in Nat /\ t.path \in Path /\ t.seen \in Content
  BY <1>1, <1>3, <1>4 DEF RunnerInv, RunnerTypeOK, PathsInv
<1>6. args.mode = "batch" =>
        \A t \in touched' : \/ t.row < row /\ t.path \in used \ Range(RowPaths(Row))
                            \/ t.row = row /\ t.path \in Range(RowPaths(Row))
  BY <1>3, <1>4 DEF RunnerInv, PathsInv
<1>7. AuthorityIsExact'
  <2>1. PICK k \in DOMAIN args.authorized : h.alias = args.aliases[k]
    BY DEF Serves, Bound, Binding, RunnerInv, BindingsInv
  <2>2. Accepts(args)
    BY DEF RunnerInv, BindingsInv
  <2>3. /\ h.uses = {args.authorized[k]} /\ args.authorized[k] \in args.artifact.required
        /\ \A g \in Hosts(args.artifact.code) : g.alias = h.alias <=> g.uses = h.uses
    <3>1. /\ args.authorized[k] \in args.artifact.required
          /\ h.alias = args.aliases[k] <=> h.uses = {args.authorized[k]}
      BY <2>2, AliasIsIdentity
    <3>2. ASSUME NEW g \in Hosts(args.artifact.code)
          PROVE  g.alias = args.aliases[k] <=> g.uses = {args.authorized[k]}
      BY <2>2, AliasIsIdentity
    <3> QED
      BY <2>1, <3>1, <3>2
  <2> SUFFICES ASSUME NEW t \in touched'
               PROVE  \E j \in DOMAIN args.authorized :
                         /\ t.host.uses = {args.authorized[j]} /\ t.host.alias = args.aliases[j]
                         /\ args.authorized[j] \in args.artifact.required
                         /\ \A g \in Hosts(args.artifact.code) : g.alias = t.host.alias <=> g.uses = t.host.uses
    BY DEF AuthorityIsExact
  <2>4. CASE t \in touched
    BY <2>4 DEF RunnerInv, AuthorityIsExact
  <2>5. CASE t = new
    BY <1>3, <2>1, <2>3, <2>5
  <2> QED
    BY <1>4, <2>4, <2>5
<1>8. ASSUME args.mode = "batch", NEW t \in touched', NEW u \in touched', t.row < u.row PROVE t.path # u.path
  <2>1. t.row \in Nat /\ u.row \in Nat /\ row \in Nat
    BY <1>1, <1>5
  <2>2. CASE t \in touched /\ u \in touched
    BY <1>8, <2>2 DEF RunnerInv, PathsInv, RowsAreIsolated
  <2>3. CASE u = new
    BY <1>3, <1>6, <1>8, <2>1, <2>3
  <2>4. CASE t = new
    BY <1>3, <1>6, <1>8, <2>1, <2>4
  <2> QED
    BY <1>4, <2>2, <2>3, <2>4
<1> QED
  BY <1>5, <1>6, <1>7, <1>8

\* An access that succeeds.
LEMMA AccessInv ==
    ASSUME RunnerInv, runner_pc = "running", effects < MaxEffects, effects' = effects + 1,
           UNCHANGED << n, runner_pc, args, bindings, used, row, results >>,
           disk' \in [File -> Content],
           NEW h \in Hosts(args.artifact.code), Serves(h), NEW path \in Path, path \in Range(RowPaths(Row)),
           touched' \in {touched, touched \union {[row |-> row, host |-> h, path |-> path, seen |-> disk[FileOf[path]]]}},
           OutputsInv'
    PROVE  RunnerInv'
<1>1. /\ row \in 1 .. Len(args.rows) /\ Len(args.rows) \in 1 .. MaxCalls /\ Row \in CallRow
      /\ n \in 1 .. MaxInvocations /\ Len(results) = row - 1 /\ Row' = Row
  BY RowTyped DEF Row
<1>2. /\ \A t \in touched' : t.row \in Nat /\ t.path \in Path /\ t.seen \in Content
      /\ AuthorityIsExact'
      /\ args.mode = "batch" =>
           /\ \A t \in touched' : \/ t.row < row /\ t.path \in used \ Range(RowPaths(Row))
                                  \/ t.row = row /\ t.path \in Range(RowPaths(Row))
           /\ \A t, u \in touched' : t.row < u.row => t.path # u.path
  BY AccessKeeps
<1>3. RunnerTypeOK'
  <2>1. effects' \in 0 .. MaxEffects
    BY InvocationsAssumption DEF RunnerInv, RunnerTypeOK
  <2> QED
    BY <1>2, <2>1 DEF RunnerInv, RunnerTypeOK
<1>4. ProcessInv' /\ BindingsInv'
  BY DEF RunnerInv, ProcessInv, BindingsInv
<1>5. RowsAreIsolated'
  BY <1>2 DEF RowsAreIsolated
<1>6. PathsInv'
  BY <1>1, <1>2, <1>5 DEF RunnerInv, PathsInv
<1> QED
  BY <1>2, <1>3, <1>4, <1>6 DEF RunnerInv

\* An instruction that touches no file.
LEMMA EffectInv ==
    ASSUME RunnerInv, runner_pc = "running", effects < MaxEffects, effects' = effects + 1,
           UNCHANGED << disk, touched, n, runner_pc, args, bindings, used, row, results >>
    PROVE  RunnerInv'
<1>1. effects' \in 0 .. MaxEffects /\ Row' = Row
  BY InvocationsAssumption DEF RunnerInv, RunnerTypeOK, Row
<1>2. RunnerTypeOK'
  BY <1>1 DEF RunnerInv, RunnerTypeOK
<1>3. ProcessInv' /\ BindingsInv'
  BY DEF RunnerInv, ProcessInv, BindingsInv
<1>4. OutputsInv'
  BY <1>1 DEF RunnerInv, OutputsInv, Fresh, DocumentIsFresh
<1>5. PathsInv' /\ AuthorityIsExact'
  BY <1>1 DEF RunnerInv, PathsInv, RowsAreIsolated, AuthorityIsExact
<1> QED
  BY <1>2, <1>3, <1>4, <1>5 DEF RunnerInv

LEMMA ReadInv ==
    ASSUME RunnerInv, NEW h, NEW path \in Path, NEW schema, Read(h, path, schema)
    PROVE  RunnerInv'
<1>1. runner_pc = "running" /\ effects < MaxEffects /\ h \in Hosts(args.artifact.code) /\ disk' = disk
  BY DEF Read
<1>2. CASE Serves(h) /\ path = Row.input /\ schema = "input" /\ Exists(path)
  <2>1. /\ effects' = effects + 1 /\ UNCHANGED << n, runner_pc, args, bindings, used, row, results >>
        /\ touched' = touched \union {[row |-> row, host |-> h, path |-> path, seen |-> disk[FileOf[path]]]}
    BY <1>2 DEF Read, Touch
  <2>2. path \in Range(RowPaths(Row))
    BY <1>1, <1>2, RowTyped, RowRange
  <2>3. OutputsInv'
    <3>1. Row' = Row
      BY <2>1 DEF Row
    <3> QED
      BY <1>1, <2>1, <3>1 DEF RunnerInv, OutputsInv, Fresh, DocumentIsFresh
  <2>4. disk' \in [File -> Content]
    BY <1>1 DEF RunnerInv, RunnerTypeOK
  <2> QED
    BY <1>1, <1>2, <2>1, <2>2, <2>3, <2>4, AccessInv
<1>3. CASE ~(Serves(h) /\ path = Row.input /\ schema = "input" /\ Exists(path))
  <2>1. Return("provider failure") /\ UNCHANGED << disk, touched >>
    BY <1>3 DEF Read
  <2> QED
    BY <1>1, <2>1, ReturnInv DEF Outcome
<1> QED
  BY <1>2, <1>3

\* A write, finished or not, goes to an output of the row being run, which is
\* absent or its own.
LEMMA OwnWrite ==
    ASSUME RunnerInv, runner_pc = "running", UNCHANGED << n, args >>, NEW h, Serves(h),
           NEW path \in Path, NEW schema, WriteExpected(path, schema),
           disk' = [disk EXCEPT ![FileOf[path]] = << n, row >>]
    PROVE  /\ path \in Range(RowPaths(Row)) /\ disk' \in [File -> Content] /\ NothingIsOverwritten
           /\ \A k \in 1 .. row - 1 : Fresh(k)'
           /\ \A way \in Written(Row) : disk'[FileOf[way]] \in {Absent, << n, row >>}
<1>1. /\ row \in 1 .. Len(args.rows) /\ Len(args.rows) \in 1 .. MaxCalls /\ Row \in CallRow
      /\ n \in 1 .. MaxInvocations
  BY RowTyped
<1>2. path \in Written(Row) /\ path \in Range(RowPaths(Row)) /\ Row.mode # "none"
  <2>1. path = Row.output \/ path = Row.check
    BY DEF WriteExpected
  <2>2. path # NoPath
    BY PathsAssumption
  <2>3. Row.mode # "none"
    BY DEF Serves, Bound
  <2> QED
    BY <1>1, <2>1, <2>2, <2>3, RowRange DEF Written
<1>3. disk \in [File -> Content] /\ FileOf[path] \in File /\ << n, row >> \in Content
  BY <1>1, PathsAssumption DEF RunnerInv, RunnerTypeOK, Content
<1>4. disk' \in [File -> Content]
  BY <1>3
<1>5. \A x \in File : disk'[x] = disk[x] \/ disk'[x] = << n, row >>
  BY <1>3
<1>6. << n, row >>[1] = n
  OBVIOUS
<1>7. ASSUME NEW r \in CallRow, NEW way \in Written(r) PROVE FileOf[way] \in File
  BY PathsAssumption DEF Written, CallRow
<1>8. ASSUME NEW k \in 1 .. row - 1 PROVE Fresh(k)'
  <2>1. args.rows[k] \in CallRow /\ Fresh(k)
    BY <1>1, RowTyped DEF RunnerInv, OutputsInv
  <2> SUFFICES ASSUME args.rows[k].mode # "none", NEW way \in Written(args.rows[k]), disk'[FileOf[way]] # Absent
               PROVE  disk'[FileOf[way]][1] = n
    BY DEF Fresh
  <2>2. FileOf[way] \in File
    BY <1>7, <2>1
  <2> QED
    BY <1>5, <1>6, <2>1, <2>2 DEF Fresh
<1>9. \A way \in Written(Row) : disk'[FileOf[way]] \in {Absent, << n, row >>}
  BY <1>1, <1>2, <1>5, <1>7 DEF RunnerInv, OutputsInv
<1>10. disk[FileOf[path]] \in {Absent, << n, row >>}
  BY <1>2 DEF RunnerInv, OutputsInv
<1>11. NothingIsOverwritten
  BY <1>3, <1>10 DEF NothingIsOverwritten
<1> QED
  BY <1>2, <1>4, <1>8, <1>9, <1>11

LEMMA WriteInv ==
    ASSUME RunnerInv, NEW h, NEW path \in Path, NEW schema, Write(h, path, schema)
    PROVE  RunnerInv' /\ NothingIsOverwritten
<1>1. runner_pc = "running" /\ effects < MaxEffects /\ h \in Hosts(args.artifact.code)
  BY DEF Write
<1>2. CASE ~(Serves(h) /\ WriteExpected(path, schema))
  <2>1. Return("provider failure") /\ UNCHANGED << disk, touched >>
    BY <1>2 DEF Write
  <2> QED
    BY <1>1, <2>1, ReturnInv DEF Outcome, NothingIsOverwritten
<1>3. CASE Serves(h) /\ WriteExpected(path, schema) /\ Row.mode = "fail-write"
  <2>1. effects' = effects + 1 /\ UNCHANGED << disk, touched, n, runner_pc, args, bindings, used, row, results >>
    BY <1>3 DEF Write
  <2> QED
    BY <1>1, <2>1, EffectInv DEF NothingIsOverwritten
<1>4. CASE Serves(h) /\ WriteExpected(path, schema) /\ Row.mode # "fail-write"
  <2>1. /\ effects' = effects + 1 /\ UNCHANGED << n, runner_pc, args, bindings, used, row, results >>
        /\ touched' = touched \union {[row |-> row, host |-> h, path |-> path, seen |-> disk[FileOf[path]]]}
        /\ disk' = [disk EXCEPT ![FileOf[path]] = << n, row >>]
    BY <1>4 DEF Write, Touch
  <2>2. /\ path \in Range(RowPaths(Row)) /\ disk' \in [File -> Content] /\ NothingIsOverwritten
        /\ \A k \in 1 .. row - 1 : Fresh(k)'
        /\ \A way \in Written(Row) : disk'[FileOf[way]] \in {Absent, << n, row >>}
    BY <1>1, <1>4, <2>1, OwnWrite
  <2>3. Row' = Row
    BY <2>1 DEF Row
  <2>4. OutputsInv'
    BY <1>1, <2>1, <2>2, <2>3 DEF OutputsInv, DocumentIsFresh
  <2>5. RunnerInv'
    BY <1>1, <1>4, <2>1, <2>2, <2>4, AccessInv
  <2> QED
    BY <2>2, <2>5
<1> QED
  BY <1>2, <1>3, <1>4

\* A write that fails half-way leaves a part of the row's own output.
LEMMA WriteFailsInv ==
    ASSUME RunnerInv, NEW h, NEW path \in Path, NEW schema, WriteFails(h, path, schema)
    PROVE  RunnerInv' /\ NothingIsOverwritten
<1>1. /\ runner_pc = "running" /\ h \in Hosts(args.artifact.code) /\ Serves(h) /\ WriteExpected(path, schema)
      /\ touched' = touched \union {[row |-> row, host |-> h, path |-> path, seen |-> disk[FileOf[path]]]}
      /\ disk' = [disk EXCEPT ![FileOf[path]] = << n, row >>]
      /\ Return("provider failure")
  BY DEF WriteFails, Touch
<1>2. UNCHANGED << n, args >>
  BY <1>1 DEF Return
<1>3. /\ path \in Range(RowPaths(Row)) /\ disk' \in [File -> Content] /\ NothingIsOverwritten
      /\ \A k \in 1 .. row - 1 : Fresh(k)'
      /\ \A way \in Written(Row) : disk'[FileOf[way]] \in {Absent, << n, row >>}
  BY <1>1, <1>2, OwnWrite
<1>4. /\ \A t \in touched' : t.row \in Nat /\ t.path \in Path /\ t.seen \in Content
      /\ AuthorityIsExact'
      /\ args.mode = "batch" =>
           /\ \A t \in touched' : \/ t.row < row /\ t.path \in used \ Range(RowPaths(Row))
                                  \/ t.row = row /\ t.path \in Range(RowPaths(Row))
           /\ \A t, u \in touched' : t.row < u.row => t.path # u.path
  BY <1>1, <1>2, <1>3, AccessKeeps
<1>5. \A k : k = row => Fresh(k)'
  BY <1>1, <1>2, <1>3, RowIsFresh
<1>6. row \in Nat
  <2>1. row \in 1 .. Len(args.rows)
    BY <1>1, RowTyped
  <2> QED
    BY <2>1
<1>7. \A k \in 1 .. row : Fresh(k)'
  BY <1>3, <1>5, <1>6
<1>8. args.mode = "batch" => \A t \in touched' : t.row <= row /\ t.path \in used
  <2>1. args.mode = "batch" => Range(RowPaths(Row)) \subseteq used
    BY <1>1 DEF RunnerInv, PathsInv
  <2> QED
    BY <1>4, <1>6, <2>1
<1> QED
  BY <1>1, <1>3, <1>4, <1>7, <1>8, ReturnKeeps DEF Outcome

LEMMA RunnerKept == RunnerInv /\ [RunnerNext]_runnerVars => RunnerInv' /\ NothingIsOverwritten
<1> SUFFICES ASSUME RunnerInv, [RunnerNext]_runnerVars PROVE RunnerInv' /\ NothingIsOverwritten
  OBVIOUS
<1>1. ASSUME disk' = disk PROVE NothingIsOverwritten
  BY <1>1 DEF NothingIsOverwritten
<1>2. CASE UNCHANGED runnerVars
  <2>1. UNCHANGED << disk, n, runner_pc, args, bindings, used, row, effects, results, touched >>
    BY <1>2 DEF runnerVars
  <2>2. RunnerTypeOK' /\ ProcessInv' /\ BindingsInv'
    BY <2>1 DEF RunnerInv, RunnerTypeOK, ProcessInv, BindingsInv
  <2>3. OutputsInv' /\ PathsInv' /\ AuthorityIsExact'
    BY <2>1 DEF RunnerInv, OutputsInv, Fresh, DocumentIsFresh, PathsInv, RowsAreIsolated, AuthorityIsExact, Row
  <2> QED
    BY <1>1, <2>1, <2>2, <2>3 DEF RunnerInv
<1>3. CASE StartRunner \/ Bind \/ BeginCall
  BY <1>1, <1>3, StartRunnerInv, BindInv, BeginCallInv DEF StartRunner, Bind, BeginCall
<1>4. CASE RefuseBinding \/ RefuseRow \/ Kill
  BY <1>1, <1>4, ExitInv DEF RefuseBinding, RefuseRow, Kill, Exit
<1>5. CASE Returns
  BY <1>1, <1>5, ReturnInv DEF Returns, Outcome
<1>6. ASSUME NEW c, CallAdmission(c) PROVE RunnerInv' /\ NothingIsOverwritten
  <2>1. runner_pc = "running" /\ effects < MaxEffects /\ UNCHANGED << disk, touched >>
    BY <1>6 DEF CallAdmission
  <2>2. \/ Return("denied")
        \/ effects' = effects + 1 /\ UNCHANGED << n, runner_pc, args, bindings, used, row, results >>
    BY <1>6 DEF CallAdmission
  <2> QED
    BY <1>1, <2>1, <2>2, ReturnInv, EffectInv DEF Outcome
<1>7. ASSUME NEW c, OtherOperation(c) PROVE RunnerInv' /\ NothingIsOverwritten
  <2>1. runner_pc = "running" /\ effects < MaxEffects /\ UNCHANGED << disk, touched >>
    BY <1>7 DEF OtherOperation
  <2>2. \/ Return("provider failure")
        \/ effects' = effects + 1 /\ UNCHANGED << n, runner_pc, args, bindings, used, row, results >>
    BY <1>7 DEF OtherOperation
  <2> QED
    BY <1>1, <2>1, <2>2, ReturnInv, EffectInv DEF Outcome
<1>8. ASSUME NEW c, AccessFails(c) PROVE RunnerInv' /\ NothingIsOverwritten
  BY <1>1, <1>8, ReturnInv DEF AccessFails, Outcome
<1>9. ASSUME NEW c, NEW path \in Path, NEW schema, Read(c, path, schema) PROVE RunnerInv' /\ NothingIsOverwritten
  BY <1>1, <1>9, ReadInv DEF Read
<1> QED
  BY <1>2, <1>3, <1>4, <1>5, <1>6, <1>7, <1>8, <1>9, WriteInv, WriteFailsInv DEF RunnerNext

\* The runner touches files under exact authority only, keeps the rows of a batch
\* apart, prints a document about this invocation alone, and no step overwrites
\* what another row or invocation wrote, however paths are spelt and wherever
\* earlier invocations were killed.
THEOREM KeepsToItsGrant == Spec => RunnerKeepsToItsGrant
<1> DEFINE I == server = "runner" => RunnerInv
           A == server = "runner" => /\ (RunnerTypeOK /\ AuthorityIsExact /\ RowsAreIsolated /\ DocumentIsFresh)'
                                     /\ NothingIsOverwritten
<1>1. Init => I
  BY RunnerStarts DEF Init
<1>2. I /\ [Next]_<<server, transportVars, runnerVars, requestVars>> => I'
  BY RunnerKept DEF Next
<1>3. I /\ [Next]_<<server, transportVars, runnerVars, requestVars>> => [A]_runnerVars
  <2> SUFFICES ASSUME RunnerInv, server = "runner", Next, ~UNCHANGED runnerVars PROVE A
    BY DEF A
  <2>1. RunnerNext
    BY DEF Next
  <2>2. RunnerInv' /\ NothingIsOverwritten
    BY <2>1, RunnerKept
  <2> QED
    BY <2>2 DEF RunnerInv, PathsInv, OutputsInv
<1> QED
  BY <1>1, <1>2, <1>3, PTL DEF Spec, RunnerKeepsToItsGrant

(***************************************************************************)
(* Requests.                                                               *)
(***************************************************************************)

\* A nonempty set of naturals has a least element.
LEMMA LeastNatural ==
    ASSUME NEW T \in SUBSET Nat, T # {}
    PROVE  \E t \in T : \A u \in T : t <= u
<1> DEFINE R == {ss \in Nat \X Nat : ss[1] < ss[2]}
<1>1. IsWellFoundedOn(R, Nat)
  BY NatLessThanWellFounded, Zenon DEF OpToRel
<1>2. \E x \in T : \A y \in T : ~(<< y, x >> \in R)
  <2> HIDE DEF R
  <2> QED
    BY <1>1, WFMin
<1>3. PICK x \in T : \A y \in T : ~(<< y, x >> \in R)
  BY <1>2
<1>4. \A y \in T : ~(y < x)
  BY <1>3
<1> QED
  BY <1>4

\* The elements of a finite set in a strict total order: each of them has its place.
LEMMA InOrderLists ==
    ASSUME NEW S, IsFiniteSet(S), NEW R,
           \A x \in S : << x, x >> \notin R,
           \A x, y \in S : x # y => << x, y >> \in R \/ << y, x >> \in R,
           \A x, y, z \in S : << x, y >> \in R /\ << y, z >> \in R => << x, z >> \in R
    PROVE  /\ Cardinality(S) \in Nat
           /\ InOrder(S, R) \in [1 .. Cardinality(S) -> S]
           /\ \A x \in S : \E i \in 1 .. Cardinality(S) : InOrder(S, R)[i] = x
<1> DEFINE c == Cardinality(S)
           below(x) == {y \in S : << y, x >> \in R}
           rank == [x \in S |-> Cardinality(below(x))]
<1>1. c \in Nat
  BY FS_CardinalityType
<1>2. ASSUME NEW x \in S
      PROVE  /\ IsFiniteSet(below(x)) /\ Cardinality(below(x)) \in Nat
             /\ Cardinality(below(x)) < c
  <2>1. below(x) \in SUBSET S /\ below(x) # S
    OBVIOUS
  <2>2. IsFiniteSet(below(x)) /\ Cardinality(below(x)) <= c /\ Cardinality(below(x)) # c
    BY <2>1, FS_Subset
  <2>3. Cardinality(below(x)) \in Nat
    BY <2>2, FS_CardinalityType
  <2> QED
    BY <2>2, <2>3, <1>1
<1>3. ASSUME NEW x \in S, NEW y \in S, << x, y >> \in R
      PROVE  Cardinality(below(x)) < Cardinality(below(y))
  <2>1. below(x) \in SUBSET below(y) /\ x \in below(y) /\ x \notin below(x)
    BY <1>3
  <2>2. /\ IsFiniteSet(below(y)) /\ Cardinality(below(y)) \in Nat
        /\ IsFiniteSet(below(x)) /\ Cardinality(below(x)) \in Nat
    BY <1>2
  <2>3. Cardinality(below(x)) <= Cardinality(below(y)) /\ Cardinality(below(x)) # Cardinality(below(y))
    <3> HIDE DEF below
    <3> QED
      BY <2>1, <2>2, FS_Subset
  <2> QED
    BY <2>2, <2>3
<1>4. IsFiniteSet(0 .. c - 1) /\ Cardinality(0 .. c - 1) = c
  <2> HIDE DEF c
  <2>1. 0 \in Int /\ c - 1 \in Int
    BY <1>1
  <2>2. /\ IsFiniteSet(0 .. c - 1)
        /\ Cardinality(0 .. c - 1) = IF 0 > c - 1 THEN 0 ELSE (c - 1) - 0 + 1
    BY <2>1, FS_Interval
  <2> QED
    BY <2>2, <1>1
<1>5. rank \in Injection(S, 0 .. c - 1)
  <2>1. rank \in [S -> 0 .. c - 1]
    <3>1. \A x \in S : Cardinality(below(x)) \in 0 .. c - 1
      <4> TAKE x \in S
      <4>1. Cardinality(below(x)) \in Nat /\ Cardinality(below(x)) < c
        BY <1>2
      <4> HIDE DEF below, c
      <4> QED
        BY <4>1, <1>1
    <3> HIDE DEF below, c
    <3> QED
      BY <3>1
  <2>2. ASSUME NEW x \in S, NEW y \in S, rank[x] = rank[y] PROVE x = y
    <3>1. /\ Cardinality(below(x)) = Cardinality(below(y))
          /\ Cardinality(below(x)) \in Nat
      BY <2>2, <1>2
    <3>2. ~(<< x, y >> \in R) /\ ~(<< y, x >> \in R)
      BY <3>1, <1>3
    <3> QED
      BY <3>2
  <2> HIDE DEF rank
  <2> QED
    BY <2>1, <2>2 DEF Injection, IsInjective
<1>6. rank \in Surjection(S, 0 .. c - 1)
  BY <1>4, <1>5, FS_Injection
<1>7. \A i \in 0 .. c - 1 : \E x \in S : rank[x] = i
  <2> HIDE DEF rank, c
  <2> QED
    BY <1>6 DEF Surjection
<1>8. \A i \in 1 .. c : \E x \in S : Cardinality(below(x)) = i - 1
  <2> TAKE i \in 1 .. c
  <2>1. i - 1 \in 0 .. c - 1
    BY <1>1
  <2>2. PICK x \in S : rank[x] = i - 1
    BY <2>1, <1>7
  <2> QED
    BY <2>2
<1>9. InOrder(S, R) = [i \in 1 .. c |-> CHOOSE x \in S : Cardinality(below(x)) = i - 1]
  BY DEF InOrder
<1> HIDE DEF below
<1>10. ASSUME NEW i \in 1 .. c
       PROVE  InOrder(S, R)[i] \in S /\ Cardinality(below(InOrder(S, R)[i])) = i - 1
  <2>1. InOrder(S, R)[i] = CHOOSE x \in S : Cardinality(below(x)) = i - 1
    BY <1>9
  <2> QED
    BY <2>1, <1>8
<1>11. InOrder(S, R) \in [1 .. c -> S]
  BY <1>9, <1>10
<1>12. ASSUME NEW x \in S PROVE \E i \in 1 .. c : InOrder(S, R)[i] = x
  <2>1. Cardinality(below(x)) + 1 \in 1 .. c
    BY <1>1, <1>2
  <2>2. PICK i \in 1 .. c : i = Cardinality(below(x)) + 1
    BY <2>1
  <2>3. InOrder(S, R)[i] \in S /\ Cardinality(below(InOrder(S, R)[i])) = Cardinality(below(x))
    BY <2>2, <1>2, <1>10
  <2>4. rank[InOrder(S, R)[i]] = rank[x]
    BY <2>3
  <2>5. InOrder(S, R)[i] = x
    <3> HIDE DEF rank
    <3> QED
      BY <2>3, <2>4, <1>5 DEF Injection, IsInjective
  <2> QED
    BY <2>5
<1> QED
  BY <1>1, <1>11, <1>12

\* BTreeSet and sort: the numbers of a set, each once.
LEMMA AscendingLists ==
    ASSUME NEW S \in SUBSET Nat, IsFiniteSet(S)
    PROVE  /\ Ascending(S) \in Seq(Nat) /\ ToSet(Ascending(S)) = S
           /\ Len(Ascending(S)) = Cardinality(S) /\ Cardinality(S) \in Nat
           /\ Ascending(S) = << >> <=> S = {}
<1> DEFINE R == {p \in S \X S : p[1] < p[2]}
           a == InOrder(S, R)
           c == Cardinality(S)
<1>1. /\ \A x \in S : << x, x >> \notin R
      /\ \A x, y \in S : x # y => << x, y >> \in R \/ << y, x >> \in R
      /\ \A x, y, z \in S : << x, y >> \in R /\ << y, z >> \in R => << x, z >> \in R
  OBVIOUS
<1>2. Ascending(S) = a
  BY DEF Ascending
<1> HIDE DEF R
<1>3. c \in Nat /\ a \in [1 .. c -> S] /\ \A x \in S : \E i \in 1 .. c : a[i] = x
  BY <1>1, InOrderLists, ZenonT(60)
<1> HIDE DEF a, c
<1>4. a \in Seq(S) /\ Len(a) = c /\ DOMAIN a = 1 .. c
  BY <1>3
<1>5. ToSet(a) = S
  BY <1>3, <1>4 DEF ToSet
<1>6. a = << >> <=> S = {}
  <2>1. c = 0 <=> S = {}
    BY FS_EmptySet DEF c
  <2> QED
    BY <2>1, <1>3, <1>4
<1>7. a \in Seq(Nat)
  <2>1. \A i \in 1 .. c : a[i] \in Nat
    BY <1>3
  <2> QED
    BY <2>1, <1>3, <1>4
<1> QED
  BY <1>2, <1>3, <1>4, <1>5, <1>6, <1>7 DEF c

\* The set of the rows of a list.
LEMMA RowSet ==
    ASSUME NEW T, NEW s \in Seq(T)
    PROVE  /\ ToSet(s) \in SUBSET T /\ IsFiniteSet(ToSet(s))
           /\ Cardinality(ToSet(s)) \in Nat /\ Cardinality(ToSet(s)) <= Len(s)
           /\ ~Repeats(s) => Cardinality(ToSet(s)) = Len(s)
           /\ s = << >> <=> ToSet(s) = {}
<1>1. Len(s) \in Nat /\ DOMAIN s = 1 .. Len(s) /\ s \in [1 .. Len(s) -> T]
  OBVIOUS
<1>2. IsFiniteSet(1 .. Len(s)) /\ Cardinality(1 .. Len(s)) = Len(s)
  BY <1>1, FS_Interval
<1>3. s \in Surjection(1 .. Len(s), ToSet(s))
  BY <1>1 DEF ToSet, Surjection
<1>4. /\ IsFiniteSet(ToSet(s)) /\ Cardinality(ToSet(s)) <= Len(s)
      /\ Cardinality(ToSet(s)) = Len(s) <=> s \in Injection(1 .. Len(s), ToSet(s))
  BY <1>2, <1>3, FS_Surjection
<1>5. Cardinality(ToSet(s)) \in Nat
  BY <1>4, FS_CardinalityType
<1>6. ASSUME ~Repeats(s) PROVE s \in Injection(1 .. Len(s), ToSet(s))
  <2>1. ASSUME NEW i \in 1 .. Len(s), NEW j \in 1 .. Len(s), s[i] = s[j] PROVE i = j
    <3>1. ~(i < j) /\ ~(j < i)
      BY <2>1, <1>6, <1>1 DEF Repeats
    <3> QED
      BY <3>1, <1>1
  <2>2. s \in [1 .. Len(s) -> ToSet(s)]
    BY <1>3 DEF Surjection
  <2> QED
    BY <2>1, <2>2, <1>1 DEF Injection, IsInjective
<1>7. ToSet(s) \in SUBSET T
  BY <1>1 DEF ToSet
<1>8. s = << >> <=> ToSet(s) = {}
  <2>1. s = << >> <=> Len(s) = 0
    OBVIOUS
  <2>2. Len(s) = 0 => ToSet(s) = {}
    BY <1>1 DEF ToSet
  <2>3. Len(s) # 0 => s[1] \in ToSet(s)
    BY <1>1 DEF ToSet
  <2> QED
    BY <2>1, <2>2, <2>3
<1> QED
  BY <1>4, <1>5, <1>6, <1>7, <1>8

\* A list read backwards.
LEMMA Backwards ==
    ASSUME NEW T, NEW s \in Seq(T)
    PROVE  /\ Reverse(s) \in Seq(T) /\ Len(Reverse(s)) = Len(s) /\ ToSet(Reverse(s)) = ToSet(s)
           /\ Repeats(Reverse(s)) <=> Repeats(s)
           /\ \A i \in DOMAIN s : i \in DOMAIN Reverse(s) /\ Len(s) - i + 1 \in DOMAIN s /\ Reverse(s)[i] = s[Len(s) - i + 1]
           /\ DOMAIN Reverse(s) = DOMAIN s
<1> DEFINE l == Len(s)
           b == Reverse(s)
<1>1. l \in Nat /\ DOMAIN s = 1 .. l /\ \A i \in 1 .. l : s[i] \in T
  OBVIOUS
<1>2. b = [i \in 1 .. l |-> s[(l - i) + 1]]
  BY DEF Reverse
<1> HIDE DEF l, b
<1>3. /\ \A i \in 1 .. l : (l - i) + 1 \in 1 .. l /\ (l - ((l - i) + 1)) + 1 = i
      /\ \A i, j \in 1 .. l : i < j => (l - j) + 1 < (l - i) + 1
  BY <1>1
<1>4. b \in Seq(T) /\ Len(b) = l /\ DOMAIN b = 1 .. l /\ \A i \in 1 .. l : b[i] = s[(l - i) + 1]
  BY <1>1, <1>2, <1>3
<1>5. \A i \in 1 .. l : s[i] = b[(l - i) + 1]
  BY <1>3, <1>4
<1>6. ToSet(b) = ToSet(s)
  BY <1>1, <1>3, <1>4, <1>5 DEF ToSet
<1>7. ASSUME Repeats(s) PROVE Repeats(b)
  <2>1. PICK i \in 1 .. l, j \in 1 .. l : i < j /\ s[i] = s[j]
    BY <1>7, <1>1 DEF Repeats
  <2>2. /\ (l - j) + 1 \in DOMAIN b /\ (l - i) + 1 \in DOMAIN b /\ (l - j) + 1 < (l - i) + 1
        /\ b[(l - j) + 1] = b[(l - i) + 1]
    BY <2>1, <1>3, <1>4, <1>5
  <2> QED
    BY <2>2 DEF Repeats
<1>8. ASSUME Repeats(b) PROVE Repeats(s)
  <2>1. PICK i \in 1 .. l, j \in 1 .. l : i < j /\ b[i] = b[j]
    BY <1>8, <1>4 DEF Repeats
  <2>2. /\ (l - j) + 1 \in DOMAIN s /\ (l - i) + 1 \in DOMAIN s /\ (l - j) + 1 < (l - i) + 1
        /\ s[(l - j) + 1] = s[(l - i) + 1]
    BY <2>1, <1>1, <1>3, <1>4
  <2> QED
    BY <2>2 DEF Repeats
<1> QED
  BY <1>1, <1>3, <1>4, <1>6, <1>7, <1>8 DEF l, b

----------------------------------------------------------------------------
(* The checks. *)

Code ==
    {"MCA100", "MCA101", "MCA102", "MCA103", "MCA104", "MCA105", "MCA106", "MCA107", "MCA108", "MCA109", "MCA110", "MCA111",
     "MCA112", "MCA113", "MCA114", "MCA115"}
Refusal == {"unknown", "unsupported", "unavailable", "rejected"}
CheckRecord == [fails : BOOLEAN, status : Refusal, code : Code]
RequestRecord ==
    [version : Nat, selection : Field, roots : Field, entry : Field, seeds : Field, modules : Field,
     target : BOOLEAN, source : SUBSET {"id", "text"}, rootBytes : Nat, other : STRING]

LEMMA JoinedChecks ==
    ASSUME NEW s \in Seq(CheckRecord), NEW t \in Seq(CheckRecord)
    PROVE  /\ s \o t \in Seq(CheckRecord)
           /\ NoneFails(s \o t) <=> NoneFails(s) /\ NoneFails(t)
<1>1. /\ s \o t \in Seq(CheckRecord) /\ Len(s \o t) = Len(s) + Len(t) /\ Len(s) \in Nat /\ Len(t) \in Nat
      /\ DOMAIN s = 1 .. Len(s) /\ DOMAIN t = 1 .. Len(t) /\ DOMAIN (s \o t) = 1 .. Len(s) + Len(t)
      /\ \A i \in 1 .. Len(s) : (s \o t)[i] = s[i]
      /\ \A i \in 1 .. Len(t) : (s \o t)[Len(s) + i] = t[i]
  OBVIOUS
<1>2. ASSUME NoneFails(s \o t) PROVE NoneFails(s) /\ NoneFails(t)
  <2>1. ASSUME NEW i \in 1 .. Len(t) PROVE ~t[i].fails
    <3>1. Len(s) + i \in 1 .. Len(s) + Len(t)
      BY <1>1
    <3> QED
      BY <3>1, <1>1, <1>2 DEF NoneFails
  <2>2. ASSUME NEW i \in 1 .. Len(s) PROVE ~s[i].fails
    <3>1. i \in 1 .. Len(s) + Len(t)
      BY <1>1
    <3> QED
      BY <3>1, <1>1, <1>2 DEF NoneFails
  <2> QED
    BY <2>1, <2>2, <1>1 DEF NoneFails
<1>3. ASSUME NoneFails(s), NoneFails(t), NEW i \in 1 .. Len(s) + Len(t) PROVE ~(s \o t)[i].fails
  <2>1. CASE i <= Len(s)
    <3>1. i \in 1 .. Len(s)
      BY <2>1, <1>1
    <3> QED
      BY <3>1, <1>1, <1>3 DEF NoneFails
  <2>2. CASE i > Len(s)
    <3>1. PICK j \in 1 .. Len(t) : i = Len(s) + j
      <4>1. i - Len(s) \in 1 .. Len(t) /\ i = Len(s) + (i - Len(s))
        BY <2>2, <1>1
      <4> QED
        BY <4>1
    <3> QED
      BY <3>1, <1>1, <1>3 DEF NoneFails
  <2> QED
    BY <2>1, <2>2, <1>1
<1> QED
  BY <1>1, <1>2, <1>3 DEF NoneFails

\* Some check that fails is the first.
LEMMA FirstIsOne ==
    ASSUME NEW s \in Seq(CheckRecord), ~NoneFails(s)
    PROVE  FirstFailing(s) \in CheckRecord
<1> DEFINE T == {i \in DOMAIN s : s[i].fails}
           P(i) == s[i].fails /\ \A j \in 1 .. i - 1 : ~s[j].fails
<1>1. DOMAIN s = 1 .. Len(s) /\ Len(s) \in Nat
  OBVIOUS
<1>2. T # {} /\ T \in SUBSET Nat
  BY <1>1 DEF NoneFails
<1>3. PICK t \in T : \A u \in T : t <= u
  BY <1>2, LeastNatural
<1>4. ASSUME NEW j \in 1 .. t - 1 PROVE ~s[j].fails
  <2>1. j \in DOMAIN s /\ ~(t <= j)
    BY <1>1, <1>3
  <2> QED
    BY <2>1, <1>3
<1>5. \E i \in DOMAIN s : P(i)
  BY <1>3, <1>4
<1>6. (CHOOSE i \in DOMAIN s : P(i)) \in DOMAIN s
  <2> HIDE DEF P
  <2> QED
    BY <1>5
<1>7. FirstFailing(s) = s[CHOOSE i \in DOMAIN s : P(i)]
  BY DEF FirstFailing
<1> HIDE DEF P
<1> QED
  BY <1>1, <1>6, <1>7

LEMMA Checks1 ==
    ASSUME NEW a \in CheckRecord
    PROVE  /\ << a >> \in Seq(CheckRecord)
           /\ NoneFails(<< a >>) <=> ~a.fails
<1>1. PICK s : s = << a >>
  OBVIOUS
<1>2. /\ s \in Seq(CheckRecord) /\ DOMAIN s = 1 .. 1
      /\ s[1] = a
  BY <1>1
<1>3. \A i \in 1 .. 1 : i = 1
  OBVIOUS
<1>4. NoneFails(s) <=> ~a.fails
  BY <1>2, <1>3 DEF NoneFails
<1> QED
  BY <1>1, <1>2, <1>4

LEMMA Checks2 ==
    ASSUME NEW a \in CheckRecord, NEW b \in CheckRecord
    PROVE  /\ << a, b >> \in Seq(CheckRecord)
           /\ NoneFails(<< a, b >>) <=> ~a.fails /\ ~b.fails
<1>1. PICK s : s = << a, b >>
  OBVIOUS
<1>2. /\ s \in Seq(CheckRecord) /\ DOMAIN s = 1 .. 2
      /\ s[1] = a /\ s[2] = b
  BY <1>1
<1>3. \A i \in 1 .. 2 : i = 1 \/ i = 2
  OBVIOUS
<1>4. NoneFails(s) <=> ~a.fails /\ ~b.fails
  BY <1>2, <1>3 DEF NoneFails
<1> QED
  BY <1>1, <1>2, <1>4

LEMMA Checks3 ==
    ASSUME NEW a \in CheckRecord, NEW b \in CheckRecord, NEW c \in CheckRecord
    PROVE  /\ << a, b, c >> \in Seq(CheckRecord)
           /\ NoneFails(<< a, b, c >>) <=> ~a.fails /\ ~b.fails /\ ~c.fails
<1>1. PICK s : s = << a, b, c >>
  OBVIOUS
<1>2. /\ s \in Seq(CheckRecord) /\ DOMAIN s = 1 .. 3
      /\ s[1] = a /\ s[2] = b /\ s[3] = c
  BY <1>1
<1>3. \A i \in 1 .. 3 : i = 1 \/ i = 2 \/ i = 3
  OBVIOUS
<1>4. NoneFails(s) <=> ~a.fails /\ ~b.fails /\ ~c.fails
  BY <1>2, <1>3 DEF NoneFails
<1> QED
  BY <1>1, <1>2, <1>4

LEMMA Checks4 ==
    ASSUME NEW a \in CheckRecord, NEW b \in CheckRecord,
           NEW c \in CheckRecord, NEW d \in CheckRecord
    PROVE  /\ << a, b, c, d >> \in Seq(CheckRecord)
           /\ NoneFails(<< a, b, c, d >>) <=> ~a.fails /\ ~b.fails /\ ~c.fails /\ ~d.fails
<1>1. PICK s : s = << a, b, c, d >>
  OBVIOUS
<1>2. /\ s \in Seq(CheckRecord) /\ DOMAIN s = 1 .. 4
      /\ s[1] = a /\ s[2] = b /\ s[3] = c /\ s[4] = d
  BY <1>1
<1>3. \A i \in 1 .. 4 : i = 1 \/ i = 2 \/ i = 3 \/ i = 4
  OBVIOUS
<1>4. NoneFails(s) <=> ~a.fails /\ ~b.fails /\ ~c.fails /\ ~d.fails
  BY <1>2, <1>3 DEF NoneFails
<1> QED
  BY <1>1, <1>2, <1>4

LEMMA Checks6 ==
    ASSUME NEW a \in CheckRecord, NEW b \in CheckRecord, NEW c \in CheckRecord,
           NEW d \in CheckRecord, NEW e \in CheckRecord, NEW f \in CheckRecord
    PROVE  /\ << a, b, c, d, e, f >> \in Seq(CheckRecord)
           /\ NoneFails(<< a, b, c, d, e, f >>) <=> ~a.fails /\ ~b.fails /\ ~c.fails /\ ~d.fails /\ ~e.fails /\ ~f.fails
<1>1. PICK s : s = << a, b, c, d, e, f >>
  OBVIOUS
<1>2. /\ s \in Seq(CheckRecord) /\ DOMAIN s = 1 .. 6
      /\ s[1] = a /\ s[2] = b /\ s[3] = c /\ s[4] = d /\ s[5] = e /\ s[6] = f
  BY <1>1
<1>3. \A i \in 1 .. 6 : i = 1 \/ i = 2 \/ i = 3 \/ i = 4 \/ i = 5 \/ i = 6
  OBVIOUS
<1>4. NoneFails(s) <=> ~a.fails /\ ~b.fails /\ ~c.fails /\ ~d.fails /\ ~e.fails /\ ~f.fails
  BY <1>2, <1>3 DEF NoneFails
<1> QED
  BY <1>1, <1>2, <1>4

LEMMA Checks8 ==
    ASSUME NEW a \in CheckRecord, NEW b \in CheckRecord, NEW c \in CheckRecord, NEW d \in CheckRecord,
           NEW e \in CheckRecord, NEW f \in CheckRecord, NEW g \in CheckRecord, NEW h \in CheckRecord
    PROVE  /\ << a, b, c, d, e, f, g, h >> \in Seq(CheckRecord)
           /\ NoneFails(<< a, b, c, d, e, f, g, h >>) <=> ~a.fails /\ ~b.fails /\ ~c.fails /\ ~d.fails /\ ~e.fails /\ ~f.fails /\ ~g.fails /\ ~h.fails
<1>1. PICK s : s = << a, b, c, d, e, f, g, h >>
  OBVIOUS
<1>2. /\ s \in Seq(CheckRecord) /\ DOMAIN s = 1 .. 8
      /\ s[1] = a /\ s[2] = b /\ s[3] = c /\ s[4] = d /\ s[5] = e /\ s[6] = f /\ s[7] = g /\ s[8] = h
  BY <1>1
<1>3. \A i \in 1 .. 8 : i = 1 \/ i = 2 \/ i = 3 \/ i = 4 \/ i = 5 \/ i = 6 \/ i = 7 \/ i = 8
  OBVIOUS
<1>4. NoneFails(s) <=> ~a.fails /\ ~b.fails /\ ~c.fails /\ ~d.fails /\ ~e.fails /\ ~f.fails /\ ~g.fails /\ ~h.fails
  BY <1>2, <1>3 DEF NoneFails
<1> QED
  BY <1>1, <1>2, <1>4

\* What the first checks, those of the roots and those of the modules let through.
FieldsAdmitted(r) ==
    /\ r.version \in Versions
    /\ SelectsTestCases(r.version) => SelectionParses(r.selection)
    /\ r.target
    /\ Present(r.seeds) => IsArray(r.seeds)
    /\ ~(Len(r.seeds.rows) > MaxSeeds)
    /\ SeedsParse(r.seeds.rows)
    /\ "id" \in r.source
    /\ "text" \in r.source

BadRow(rows) == \E i \in DOMAIN rows : rows[i] = 0 /\ ~Repeats(SubSeq(rows, 1, i - 1))

RootsAdmitted(r) ==
    IF MultipleCallables(r.version)
    THEN /\ ~Present(r.entry)
         /\ Present(r.roots) => IsArray(r.roots)
         /\ Present(r.roots) \/ SelectsTestCases(r.version)
         /\ ~(Len(r.roots.rows) > MaxRoots \/ (r.roots.rows = << >> /\ ~SelectsTestCases(r.version)))
         /\ ~BadRow(r.roots.rows)
         /\ ~Repeats(r.roots.rows)
    ELSE IsArray(r.entry)

LEMMA FieldsLet ==
    ASSUME NEW r
    PROVE  LET checks == << Check(r.version \notin Versions, "unknown", "MCA100"),
                            Check(SelectsTestCases(r.version) /\ ~SelectionParses(r.selection), "unknown", "MCA113"),
                            Check(~r.target, "unavailable", "MCA101"),
                            Check(Present(r.seeds) /\ ~IsArray(r.seeds), "unknown", "MCA109"),
                            Check(Len(r.seeds.rows) > MaxSeeds, "unsupported", "MCA110"),
                            Check(~SeedsParse(r.seeds.rows), "unknown", "MCA109"),
                            Check("id" \notin r.source, "unknown", "MCA102"),
                            Check("text" \notin r.source, "unknown", "MCA103") >>
           IN checks \in Seq(CheckRecord) /\ (NoneFails(checks) <=> FieldsAdmitted(r))
<1> DEFINE c1 == Check(r.version \notin Versions, "unknown", "MCA100")
           c2 == Check(SelectsTestCases(r.version) /\ ~SelectionParses(r.selection), "unknown", "MCA113")
           c3 == Check(~r.target, "unavailable", "MCA101")
           c4 == Check(Present(r.seeds) /\ ~IsArray(r.seeds), "unknown", "MCA109")
           c5 == Check(Len(r.seeds.rows) > MaxSeeds, "unsupported", "MCA110")
           c6 == Check(~SeedsParse(r.seeds.rows), "unknown", "MCA109")
           c7 == Check("id" \notin r.source, "unknown", "MCA102")
           c8 == Check("text" \notin r.source, "unknown", "MCA103")
<1>1. c1 \in CheckRecord /\ (c1.fails <=> (r.version \notin Versions))
  <2>1. c1 \in CheckRecord
    BY DEF Check, CheckRecord, Refusal, Code
  <2>2. c1.fails <=> (r.version \notin Versions)
    BY Zenon DEF Check
  <2> QED
    BY <2>1, <2>2
<1>2. c2 \in CheckRecord /\ (c2.fails <=> (SelectsTestCases(r.version) /\ ~SelectionParses(r.selection)))
  <2>1. c2 \in CheckRecord
    BY DEF Check, CheckRecord, Refusal, Code
  <2>2. c2.fails <=> (SelectsTestCases(r.version) /\ ~SelectionParses(r.selection))
    BY Zenon DEF Check
  <2> QED
    BY <2>1, <2>2
<1>3. c3 \in CheckRecord /\ (c3.fails <=> (~r.target))
  <2>1. c3 \in CheckRecord
    BY DEF Check, CheckRecord, Refusal, Code
  <2>2. c3.fails <=> (~r.target)
    BY Zenon DEF Check
  <2> QED
    BY <2>1, <2>2
<1>4. c4 \in CheckRecord /\ (c4.fails <=> (Present(r.seeds) /\ ~IsArray(r.seeds)))
  <2>1. c4 \in CheckRecord
    BY DEF Check, CheckRecord, Refusal, Code
  <2>2. c4.fails <=> (Present(r.seeds) /\ ~IsArray(r.seeds))
    BY Zenon DEF Check
  <2> QED
    BY <2>1, <2>2
<1>5. c5 \in CheckRecord /\ (c5.fails <=> (Len(r.seeds.rows) > MaxSeeds))
  <2>1. c5 \in CheckRecord
    BY DEF Check, CheckRecord, Refusal, Code
  <2>2. c5.fails <=> (Len(r.seeds.rows) > MaxSeeds)
    BY Zenon DEF Check
  <2> QED
    BY <2>1, <2>2
<1>6. c6 \in CheckRecord /\ (c6.fails <=> (~SeedsParse(r.seeds.rows)))
  <2>1. c6 \in CheckRecord
    BY DEF Check, CheckRecord, Refusal, Code
  <2>2. c6.fails <=> (~SeedsParse(r.seeds.rows))
    BY Zenon DEF Check
  <2> QED
    BY <2>1, <2>2
<1>7. c7 \in CheckRecord /\ (c7.fails <=> ("id" \notin r.source))
  <2>1. c7 \in CheckRecord
    BY DEF Check, CheckRecord, Refusal, Code
  <2>2. c7.fails <=> ("id" \notin r.source)
    BY Zenon DEF Check
  <2> QED
    BY <2>1, <2>2
<1>8. c8 \in CheckRecord /\ (c8.fails <=> ("text" \notin r.source))
  <2>1. c8 \in CheckRecord
    BY DEF Check, CheckRecord, Refusal, Code
  <2>2. c8.fails <=> ("text" \notin r.source)
    BY Zenon DEF Check
  <2> QED
    BY <2>1, <2>2
<1> HIDE DEF c1, c2, c3, c4, c5, c6, c7, c8
<1>a. /\ << c1, c2, c3, c4, c5, c6, c7, c8 >> \in Seq(CheckRecord)
      /\ NoneFails(<< c1, c2, c3, c4, c5, c6, c7, c8 >>) <=> ~c1.fails /\ ~c2.fails /\ ~c3.fails /\ ~c4.fails /\ ~c5.fails /\ ~c6.fails /\ ~c7.fails /\ ~c8.fails
  BY <1>1, <1>2, <1>3, <1>4, <1>5, <1>6, <1>7, <1>8, Checks8
<1>b. NoneFails(<< c1, c2, c3, c4, c5, c6, c7, c8 >>) <=> FieldsAdmitted(r)
  BY <1>a, <1>1, <1>2, <1>3, <1>4, <1>5, <1>6, <1>7, <1>8 DEF FieldsAdmitted
<1> QED
  BY <1>a, <1>b DEF c1, c2, c3, c4, c5, c6, c7, c8

LEMMA RootsLet ==
    ASSUME NEW r, MultipleCallables(r.version)
    PROVE  LET checks == << Check(Present(r.entry), "unknown", "MCA104"),
                            Check(Present(r.roots) /\ ~IsArray(r.roots), "unknown", "MCA104"),
                            Check(~Present(r.roots) /\ ~SelectsTestCases(r.version), "unknown", "MCA104"),
                            Check(Len(r.roots.rows) > MaxRoots \/ (r.roots.rows = << >> /\ ~SelectsTestCases(r.version)), "unsupported", "MCA111"),
                            Check(BadRow(r.roots.rows), "unknown", "MCA104"),
                            Check(Repeats(r.roots.rows), "unknown", "MCA112") >>
           IN checks \in Seq(CheckRecord) /\ (NoneFails(checks) <=> RootsAdmitted(r))
<1> DEFINE c1 == Check(Present(r.entry), "unknown", "MCA104")
           c2 == Check(Present(r.roots) /\ ~IsArray(r.roots), "unknown", "MCA104")
           c3 == Check(~Present(r.roots) /\ ~SelectsTestCases(r.version), "unknown", "MCA104")
           c4 == Check(Len(r.roots.rows) > MaxRoots \/ (r.roots.rows = << >> /\ ~SelectsTestCases(r.version)), "unsupported", "MCA111")
           c5 == Check(BadRow(r.roots.rows), "unknown", "MCA104")
           c6 == Check(Repeats(r.roots.rows), "unknown", "MCA112")
<1>1. c1 \in CheckRecord /\ (c1.fails <=> (Present(r.entry)))
  <2>1. c1 \in CheckRecord
    BY DEF Check, CheckRecord, Refusal, Code, Present
  <2>2. c1.fails <=> (Present(r.entry))
    BY Zenon DEF Check
  <2> QED
    BY <2>1, <2>2
<1>2. c2 \in CheckRecord /\ (c2.fails <=> (Present(r.roots) /\ ~IsArray(r.roots)))
  <2>1. c2 \in CheckRecord
    BY DEF Check, CheckRecord, Refusal, Code
  <2>2. c2.fails <=> (Present(r.roots) /\ ~IsArray(r.roots))
    BY Zenon DEF Check
  <2> QED
    BY <2>1, <2>2
<1>3. c3 \in CheckRecord /\ (c3.fails <=> (~Present(r.roots) /\ ~SelectsTestCases(r.version)))
  <2>1. c3 \in CheckRecord
    BY DEF Check, CheckRecord, Refusal, Code
  <2>2. c3.fails <=> (~Present(r.roots) /\ ~SelectsTestCases(r.version))
    BY Zenon DEF Check
  <2> QED
    BY <2>1, <2>2
<1>4. c4 \in CheckRecord /\ (c4.fails <=> (Len(r.roots.rows) > MaxRoots \/ (r.roots.rows = << >> /\ ~SelectsTestCases(r.version))))
  <2>1. c4 \in CheckRecord
    BY DEF Check, CheckRecord, Refusal, Code
  <2>2. c4.fails <=> (Len(r.roots.rows) > MaxRoots \/ (r.roots.rows = << >> /\ ~SelectsTestCases(r.version)))
    BY Zenon DEF Check
  <2> QED
    BY <2>1, <2>2
<1>5. c5 \in CheckRecord /\ (c5.fails <=> (BadRow(r.roots.rows)))
  <2>1. c5 \in CheckRecord
    BY DEF Check, CheckRecord, Refusal, Code, BadRow
  <2>2. c5.fails <=> (BadRow(r.roots.rows))
    BY Zenon DEF Check
  <2> QED
    BY <2>1, <2>2
<1>6. c6 \in CheckRecord /\ (c6.fails <=> (Repeats(r.roots.rows)))
  <2>1. c6 \in CheckRecord
    BY DEF Check, CheckRecord, Refusal, Code, Repeats
  <2>2. c6.fails <=> (Repeats(r.roots.rows))
    BY Zenon DEF Check
  <2> QED
    BY <2>1, <2>2
<1> HIDE DEF c1, c2, c3, c4, c5, c6
<1>a. /\ << c1, c2, c3, c4, c5, c6 >> \in Seq(CheckRecord)
      /\ NoneFails(<< c1, c2, c3, c4, c5, c6 >>) <=> ~c1.fails /\ ~c2.fails /\ ~c3.fails /\ ~c4.fails /\ ~c5.fails /\ ~c6.fails
  BY <1>1, <1>2, <1>3, <1>4, <1>5, <1>6, Checks6
<1>b. NoneFails(<< c1, c2, c3, c4, c5, c6 >>) <=> RootsAdmitted(r)
  BY <1>a, <1>1, <1>2, <1>3, <1>4, <1>5, <1>6 DEF RootsAdmitted
<1> QED
  BY <1>a, <1>b DEF c1, c2, c3, c4, c5, c6

LEMMA RootChecksAre ==
    ASSUME NEW r
    PROVE  RootChecks(r) \in Seq(CheckRecord) /\ (NoneFails(RootChecks(r)) <=> RootsAdmitted(r))
<1>1. CASE MultipleCallables(r.version)
  BY <1>1, RootsLet DEF RootChecks, BadRow
<1>2. CASE ~MultipleCallables(r.version)
  <2> DEFINE c == Check(~IsArray(r.entry), "unknown", "MCA104")
  <2>a. c \in CheckRecord
    BY DEF Check, CheckRecord, Refusal, Code
  <2>b. c.fails <=> ~IsArray(r.entry)
    BY Zenon DEF Check
  <2>1. c \in CheckRecord /\ (c.fails <=> ~IsArray(r.entry))
    BY <2>a, <2>b
  <2>2. RootChecks(r) = << c >>
    BY <1>2 DEF RootChecks
  <2> HIDE DEF c
  <2> QED
    BY <1>2, <2>1, <2>2, Checks1 DEF RootsAdmitted
<1> QED
  BY <1>1, <1>2

LEMMA ModuleChecksAre ==
    ASSUME NEW r
    PROVE  ModuleChecks(r) \in Seq(CheckRecord)
<1> DEFINE c1 == Check(~IsArray(r.modules), "unknown", "MCA105")
           c2 == Check(Len(r.modules.rows) > MaxModules, "unsupported", "MCA106")
           c3 == Check(0 \in ToSet(r.modules.rows), "unknown", "MCA107")
           c4 == Check(TotalBytes(r.rootBytes, r.modules.rows) > MaxBytes, "unsupported", "MCA108")
<1>1. c1 \in CheckRecord /\ c2 \in CheckRecord /\ c3 \in CheckRecord /\ c4 \in CheckRecord
  BY DEF Check, CheckRecord, Refusal, Code
<1>2. ModuleChecks(r) = << c1, c2, c3, c4 >>
  BY DEF ModuleChecks
<1> HIDE DEF c1, c2, c3, c4
<1> QED
  BY <1>1, <1>2

\* A request is admitted when the three groups of checks let it through.
LEMMA AdmittedIs ==
    ASSUME NEW r
    PROVE  /\ Checks(r) \in Seq(CheckRecord)
           /\ AdmittedRequest(r) <=> FieldsAdmitted(r) /\ RootsAdmitted(r) /\ NoneFails(ModuleChecks(r))
<1> DEFINE first == << Check(r.version \notin Versions, "unknown", "MCA100"),
                       Check(SelectsTestCases(r.version) /\ ~SelectionParses(r.selection), "unknown", "MCA113"),
                       Check(~r.target, "unavailable", "MCA101"),
                       Check(Present(r.seeds) /\ ~IsArray(r.seeds), "unknown", "MCA109"),
                       Check(Len(r.seeds.rows) > MaxSeeds, "unsupported", "MCA110"),
                       Check(~SeedsParse(r.seeds.rows), "unknown", "MCA109"),
                       Check("id" \notin r.source, "unknown", "MCA102"),
                       Check("text" \notin r.source, "unknown", "MCA103") >>
<1>1. first \in Seq(CheckRecord) /\ (NoneFails(first) <=> FieldsAdmitted(r))
  BY FieldsLet
<1>2. Checks(r) = (first \o RootChecks(r)) \o ModuleChecks(r)
  BY DEF Checks
<1> HIDE DEF first
<1>3. /\ first \o RootChecks(r) \in Seq(CheckRecord)
      /\ NoneFails(first \o RootChecks(r)) <=> FieldsAdmitted(r) /\ RootsAdmitted(r)
  BY <1>1, RootChecksAre, JoinedChecks
<1> QED
  BY <1>2, <1>3, ModuleChecksAre, JoinedChecks DEF AdmittedRequest

----------------------------------------------------------------------------
(* The selection. *)

Inventory == [sound : BOOLEAN, tests : Seq(SourceTest)]

LEMMA CountTo ==
    ASSUME NEW k \in Nat
    PROVE  IsFiniteSet(1 .. k) /\ Cardinality(1 .. k) = k
<1>1. 1 \in Int /\ k \in Int
  OBVIOUS
<1>2. IsFiniteSet(1 .. k) /\ Cardinality(1 .. k) = IF 1 > k THEN 0 ELSE k - 1 + 1
  BY <1>1, FS_Interval
<1> QED
  BY <1>2

\* A stable sort keeps the tests it is given.
LEMMA SortKeeps ==
    ASSUME NEW s \in Seq(SourceTest)
    PROVE  /\ ByDeclaration(s) \in Seq(SourceTest) /\ Len(ByDeclaration(s)) = Len(s)
           /\ ToSet(ByDeclaration(s)) = ToSet(s)
<1> DEFINE l == Len(s)
           D == 1 .. l
           R == Before(s)
           order == InOrder(D, R)
<1>1. l \in Nat /\ DOMAIN s = D /\ \A i \in D : s[i] \in SourceTest
  OBVIOUS
<1>2. \A i \in D : s[i].declaration \in Nat
  BY <1>1 DEF SourceTest
<1>3. ASSUME NEW x \in D, NEW y \in D
      PROVE  << x, y >> \in R <=> \/ s[x].declaration < s[y].declaration
                                  \/ s[x].declaration = s[y].declaration /\ x < y
  BY <1>1 DEF Before
<1> HIDE DEF R
<1>4. \A x \in D : << x, x >> \notin R
  BY <1>1, <1>2, <1>3
<1>5. \A x, y \in D : x # y => << x, y >> \in R \/ << y, x >> \in R
  <2> TAKE x, y \in D
  <2>1. x \in Nat /\ y \in Nat /\ s[x].declaration \in Nat /\ s[y].declaration \in Nat
    BY <1>1, <1>2
  <2> QED
    BY <2>1, <1>3
<1>6. \A x, y, z \in D : << x, y >> \in R /\ << y, z >> \in R => << x, z >> \in R
  <2> TAKE x, y, z \in D
  <2>1. /\ x \in Nat /\ y \in Nat /\ z \in Nat
        /\ s[x].declaration \in Nat /\ s[y].declaration \in Nat /\ s[z].declaration \in Nat
    BY <1>1, <1>2
  <2> QED
    BY <2>1, <1>3
<1>7. IsFiniteSet(D) /\ Cardinality(D) = l
  BY <1>1, CountTo
<1>8. order \in [D -> D] /\ \A x \in D : \E i \in D : order[i] = x
  <2>1. D = 1 .. Cardinality(D)
    BY <1>7
  <2> HIDE DEF D
  <2>2. /\ order \in [1 .. Cardinality(D) -> D]
        /\ \A x \in D : \E i \in 1 .. Cardinality(D) : order[i] = x
    BY <1>4, <1>5, <1>6, <1>7, InOrderLists
  <2> QED
    BY <2>1, <2>2
<1>9. ByDeclaration(s) = [i \in D |-> s[order[i]]]
  BY <1>1 DEF ByDeclaration, R
<1> HIDE DEF order
<1>10. /\ ByDeclaration(s) \in Seq(SourceTest) /\ Len(ByDeclaration(s)) = l /\ DOMAIN ByDeclaration(s) = D
       /\ \A i \in D : ByDeclaration(s)[i] = s[order[i]]
  BY <1>1, <1>8, <1>9
<1>11. ToSet(ByDeclaration(s)) = ToSet(s)
  <2> HIDE DEF D
  <2>1. PICK b : b = ByDeclaration(s)
    OBVIOUS
  <2>2. DOMAIN b = D /\ \A i \in D : b[i] = s[order[i]]
    BY <2>1, <1>10
  <2>3. \A i \in D : order[i] \in D
    BY <1>8
  <2>4. ToSet(b) \subseteq ToSet(s)
    BY <2>2, <2>3, <1>1 DEF ToSet
  <2>5. ToSet(s) \subseteq ToSet(b)
    BY <2>2, <1>8, <1>1 DEF ToSet
  <2> QED
    BY <2>1, <2>4, <2>5
<1> QED
  BY <1>10, <1>11

\* Each identity of a selection that resolves finds its one test.
LEMMA MatchesFind ==
    ASSUME NEW inv \in Inventory, NEW rows \in Seq(Nat),
           \A i \in DOMAIN rows : Cardinality(Cases(inv, rows[i])) = 1,
           NEW kind
    PROVE  LET found == Matches([kind |-> kind, rows |-> rows], inv)
           IN /\ found \in Seq(SourceTest) /\ Len(found) = Len(rows)
              /\ ToSet(found) = {t \in ToSet(inv.tests) : t.identity \in ToSet(rows)}
              /\ \A i \in DOMAIN rows : \A j \in DOMAIN inv.tests :
                    inv.tests[j].identity = rows[i] => found[i] = inv.tests[j]
<1> DEFINE found == Matches([kind |-> kind, rows |-> rows], inv)
<1>1. /\ DOMAIN inv.tests = 1 .. Len(inv.tests) /\ Len(inv.tests) \in Nat /\ \A j \in DOMAIN inv.tests : inv.tests[j] \in SourceTest
      /\ DOMAIN rows = 1 .. Len(rows) /\ Len(rows) \in Nat
  BY DEF Inventory
<1>2. found = [i \in DOMAIN rows |-> inv.tests[CHOOSE j \in Cases(inv, rows[i]) : TRUE]]
  BY DEF Matches
<1>3. ASSUME NEW i \in DOMAIN rows
      PROVE  \E j \in DOMAIN inv.tests :
                /\ inv.tests[j].identity = rows[i] /\ found[i] = inv.tests[j]
                /\ \A k \in DOMAIN inv.tests : inv.tests[k].identity = rows[i] => k = j
  <2>a. Cases(inv, rows[i]) \in SUBSET (1 .. Len(inv.tests))
    BY <1>1 DEF Cases
  <2>1. Cases(inv, rows[i]) \in SUBSET (1 .. Len(inv.tests)) /\ IsFiniteSet(1 .. Len(inv.tests))
    BY <2>a, <1>1, CountTo
  <2>2. IsFiniteSet(Cases(inv, rows[i]))
    BY <2>1, FS_Subset
  <2>3. PICK j : Cases(inv, rows[i]) = {j}
    BY <2>2, FS_Singleton
  <2>4. (CHOOSE k \in Cases(inv, rows[i]) : TRUE) = j
    BY <2>3
  <2>5. j \in DOMAIN inv.tests /\ inv.tests[j].identity = rows[i]
    BY <2>3 DEF Cases
  <2>6. \A k \in DOMAIN inv.tests : inv.tests[k].identity = rows[i] => k = j
    BY <2>3 DEF Cases
  <2>7. found[i] = inv.tests[j]
    BY <1>2, <2>4
  <2> HIDE DEF found
  <2> QED
    BY <2>5, <2>6, <2>7
<1>4. DOMAIN found = DOMAIN rows /\ Len(found) = Len(rows)
  BY <1>1, <1>2
<1> HIDE DEF found
<1>5. \A i \in DOMAIN rows : found[i] \in SourceTest
  BY <1>1, <1>3
<1>6. found \in Seq(SourceTest)
  BY <1>1, <1>2, <1>4, <1>5
<1>7. \A i \in DOMAIN rows : \A j \in DOMAIN inv.tests : inv.tests[j].identity = rows[i] => found[i] = inv.tests[j]
  BY <1>3
<1>8. ToSet(found) = {t \in ToSet(inv.tests) : t.identity \in ToSet(rows)}
  <2>1. ASSUME NEW t \in ToSet(found) PROVE t \in ToSet(inv.tests) /\ t.identity \in ToSet(rows)
    <3>1. PICK i \in DOMAIN rows : t = found[i]
      BY <1>4 DEF ToSet
    <3>2. PICK j \in DOMAIN inv.tests : inv.tests[j].identity = rows[i] /\ found[i] = inv.tests[j]
      BY <1>3
    <3> QED
      BY <3>1, <3>2 DEF ToSet
  <2>2. ASSUME NEW t \in ToSet(inv.tests), t.identity \in ToSet(rows) PROVE t \in ToSet(found)
    <3>1. PICK j \in DOMAIN inv.tests : t = inv.tests[j]
      BY DEF ToSet
    <3>2. PICK i \in DOMAIN rows : t.identity = rows[i]
      BY <2>2 DEF ToSet
    <3>3. found[i] = t
      BY <3>1, <3>2, <1>7
    <3> QED
      BY <3>3, <1>4 DEF ToSet
  <2> QED
    BY <2>1, <2>2
<1> QED
  BY <1>4, <1>6, <1>7, <1>8 DEF found

\* What a selection is, and the tests it stands for.
LEMMA SelectionIs ==
    ASSUME NEW r \in RequestRecord, SelectsTestCases(r.version)
    PROVE  /\ Selection(r).kind = r.selection.kind
           /\ Selection(r) = [kind |-> r.selection.kind, rows |-> Ascending(ToSet(r.selection.rows))]
           /\ Selection(r).rows \in Seq(Nat) /\ ToSet(Selection(r).rows) = ToSet(r.selection.rows)
           /\ Len(Selection(r).rows) = Cardinality(ToSet(r.selection.rows))
<1>1. r.selection \in Field /\ r.selection.rows \in Seq(Nat)
  BY DEF RequestRecord, Field
<1>2. ToSet(r.selection.rows) \in SUBSET Nat /\ IsFiniteSet(ToSet(r.selection.rows))
  BY <1>1, RowSet
<1>3. Selection(r) = [kind |-> r.selection.kind, rows |-> Ascending(ToSet(r.selection.rows))]
  BY DEF Selection
<1> QED
  BY <1>2, <1>3, AscendingLists

SelectedOf(r, inv) ==
    {t \in ToSet(inv.tests) : r.selection.kind = "all" \/ t.identity \in ToSet(r.selection.rows)}

LEMMA SelectedAre ==
    ASSUME NEW r \in RequestRecord, SelectsTestCases(r.version), NEW inv \in Inventory, Resolves(Selection(r), inv)
    PROVE  LET cases == SelectedCases(Selection(r), inv)
           IN /\ cases \in Seq(SourceTest)
              /\ ToSet(cases) = SelectedOf(r, inv)
              /\ r.selection.kind # "all" => Len(cases) = Cardinality(ToSet(r.selection.rows))
<1> DEFINE sel == Selection(r)
           cases == SelectedCases(sel, inv)
<1>1. /\ sel = [kind |-> r.selection.kind, rows |-> sel.rows] /\ sel.kind = r.selection.kind
      /\ sel.rows \in Seq(Nat) /\ ToSet(sel.rows) = ToSet(r.selection.rows)
      /\ Len(sel.rows) = Cardinality(ToSet(r.selection.rows))
  BY SelectionIs
<1> HIDE DEF sel
<1>2. CASE sel.kind = "all"
  <2>1. cases = inv.tests
    BY <1>2 DEF SelectedCases
  <2>2. inv.tests \in Seq(SourceTest)
    BY DEF Inventory
  <2>3. ToSet(inv.tests) = SelectedOf(r, inv)
    BY <1>1, <1>2 DEF SelectedOf
  <2> QED
    BY <1>1, <1>2, <2>1, <2>2, <2>3 DEF sel
<1>3. CASE sel.kind # "all"
  <2> DEFINE m == Matches(sel, inv)
  <2>1. cases = ByDeclaration(m)
    BY <1>3 DEF SelectedCases
  <2>2. \A i \in DOMAIN sel.rows : Cardinality(Cases(inv, sel.rows[i])) = 1
    BY <1>3 DEF Resolves, sel
  <2>3. /\ m \in Seq(SourceTest) /\ Len(m) = Len(sel.rows)
        /\ ToSet(m) = {t \in ToSet(inv.tests) : t.identity \in ToSet(sel.rows)}
    <3>1. m = Matches([kind |-> r.selection.kind, rows |-> sel.rows], inv)
      BY <1>1
    <3> HIDE DEF m
    <3> QED
      BY <3>1, <1>1, <2>2, MatchesFind
  <2> HIDE DEF m
  <2>4. cases \in Seq(SourceTest) /\ Len(cases) = Len(m) /\ ToSet(cases) = ToSet(m)
    BY <2>1, <2>3, SortKeeps
  <2>5. ToSet(m) = SelectedOf(r, inv)
    BY <1>1, <1>3, <2>3 DEF SelectedOf
  <2> QED
    BY <1>1, <2>3, <2>4, <2>5 DEF sel
<1> QED
  BY <1>2, <1>3

\* What the checks of a selection let through.
LEMMA EarlyLet ==
    ASSUME NEW inv, NEW sel
    PROVE  LET early == << Check(~inv.sound, "rejected", "MCA115"),
                           Check(sel.kind = "all" /\ Len(inv.tests) > MaxCases, "unsupported", "MCA114"),
                           Check(~Resolves(sel, inv), "rejected", "MCA115") >>
           IN /\ early \in Seq(CheckRecord)
              /\ NoneFails(early) <=> inv.sound /\ ~(sel.kind = "all" /\ Len(inv.tests) > MaxCases) /\ Resolves(sel, inv)
<1> DEFINE c1 == Check(~inv.sound, "rejected", "MCA115")
           c2 == Check(sel.kind = "all" /\ Len(inv.tests) > MaxCases, "unsupported", "MCA114")
           c3 == Check(~Resolves(sel, inv), "rejected", "MCA115")
<1>1. c1 \in CheckRecord /\ c2 \in CheckRecord /\ c3 \in CheckRecord
  BY DEF Check, CheckRecord, Refusal, Code
<1>2. c1.fails <=> ~inv.sound
  BY Zenon DEF Check
<1>3. c2.fails <=> (sel.kind = "all" /\ Len(inv.tests) > MaxCases)
  BY Zenon DEF Check
<1>4. c3.fails <=> ~Resolves(sel, inv)
  BY Zenon DEF Check
<1> HIDE DEF c1, c2, c3
<1>5. << c1, c2, c3 >> \in Seq(CheckRecord) /\ (NoneFails(<< c1, c2, c3 >>) <=> ~c1.fails /\ ~c2.fails /\ ~c3.fails)
  BY <1>1, Checks3
<1> QED
  BY <1>2, <1>3, <1>4, <1>5 DEF c1, c2, c3

LEMMA CasesLet ==
    ASSUME NEW r, NEW cases \in Seq(SourceTest)
    PROVE  /\ CaseChecks(r, cases) \in Seq(CheckRecord)
           /\ NoneFails(CaseChecks(r, cases)) <=>
                 \A t \in ToSet(cases) : t.sound /\ (t.generic => t.root \in SeedFunctions(r))
<1> DEFINE checks == CaseChecks(r, cases)
<1>1. ASSUME NEW t \in SourceTest
      PROVE  /\ CaseCheck(r, t) \in CheckRecord
             /\ ~CaseCheck(r, t).fails <=> t.sound /\ (t.generic => t.root \in SeedFunctions(r))
  <2>1. CASE ~t.sound
    <3>1. CaseCheck(r, t) = Check(TRUE, "rejected", "MCA115")
      BY <2>1 DEF CaseCheck
    <3>2. Check(TRUE, "rejected", "MCA115") \in CheckRecord
      BY DEF Check, CheckRecord, Refusal, Code
    <3>3. Check(TRUE, "rejected", "MCA115").fails
      BY Zenon DEF Check
    <3> QED
      BY <2>1, <3>1, <3>2, <3>3
  <2>2. CASE t.sound
    <3> DEFINE c == Check(t.generic /\ t.root \notin SeedFunctions(r), "unsupported", "MCA114")
    <3>1. CaseCheck(r, t) = c
      BY <2>2 DEF CaseCheck
    <3>2. c \in CheckRecord
      BY DEF Check, CheckRecord, Refusal, Code
    <3>3. c.fails <=> (t.generic /\ t.root \notin SeedFunctions(r))
      BY Zenon DEF Check
    <3> HIDE DEF c
    <3> QED
      BY <2>2, <3>1, <3>2, <3>3
  <2> QED
    BY <2>1, <2>2
<1>2. /\ DOMAIN cases = 1 .. Len(cases) /\ Len(cases) \in Nat
      /\ \A i \in DOMAIN cases : cases[i] \in SourceTest
  OBVIOUS
<1>3. DOMAIN checks = DOMAIN cases /\ \A i \in DOMAIN cases : checks[i] = CaseCheck(r, cases[i])
  BY DEF CaseChecks
<1>a. checks = [i \in 1 .. Len(cases) |-> CaseCheck(r, cases[i])]
  BY <1>2 DEF CaseChecks
<1> HIDE DEF checks
<1>4. \A i \in 1 .. Len(cases) : CaseCheck(r, cases[i]) \in CheckRecord
  BY <1>1, <1>2
<1>5. checks \in Seq(CheckRecord)
  BY <1>2, <1>4, <1>a
<1>6. NoneFails(checks) <=> \A i \in DOMAIN cases : cases[i].sound /\ (cases[i].generic => cases[i].root \in SeedFunctions(r))
  BY <1>1, <1>2, <1>3 DEF NoneFails
<1> QED
  BY <1>5, <1>6 DEF ToSet, checks

LEMMA SelectionLets ==
    ASSUME NEW r \in RequestRecord, SelectsTestCases(r.version), NEW inv \in Inventory
    PROVE  LET cases == SelectedCases(Selection(r), inv)
               roots == CombinedRoots(r, cases)
           IN /\ SelectionChecks(r, inv) \in Seq(CheckRecord)
              /\ NoneFails(SelectionChecks(r, inv)) =>
                    /\ ~(r.selection.kind = "all" /\ Len(inv.tests) > MaxCases) /\ Resolves(Selection(r), inv)
                    /\ \A t \in ToSet(cases) : t.sound /\ (t.generic => t.root \in SeedFunctions(r))
                    /\ roots # {} /\ ~(Cardinality(roots) > MaxRoots)
<1> DEFINE sel == Selection(r)
           cases == SelectedCases(sel, inv)
           roots == CombinedRoots(r, cases)
           early == << Check(~inv.sound, "rejected", "MCA115"),
                       Check(sel.kind = "all" /\ Len(inv.tests) > MaxCases, "unsupported", "MCA114"),
                       Check(~Resolves(sel, inv), "rejected", "MCA115") >>
           c1 == Check(roots = {}, "unsupported", "MCA114")
           c2 == Check(Cardinality(roots) > MaxRoots, "unsupported", "MCA114")
<1>1. /\ early \in Seq(CheckRecord)
      /\ NoneFails(early) <=> inv.sound /\ ~(sel.kind = "all" /\ Len(inv.tests) > MaxCases) /\ Resolves(sel, inv)
  <2> HIDE DEF sel
  <2> QED
    BY EarlyLet
<1>2. SelectionChecks(r, inv) = IF ~NoneFails(early) THEN early ELSE CaseChecks(r, cases) \o << c1, c2 >>
  BY DEF SelectionChecks
<1>3. sel.kind = r.selection.kind
  BY SelectionIs
<1>4. c1 \in CheckRecord /\ c2 \in CheckRecord
  BY DEF Check, CheckRecord, Refusal, Code
<1>5. c1.fails <=> roots = {}
  BY Zenon DEF Check
<1>6. c2.fails <=> Cardinality(roots) > MaxRoots
  BY Zenon DEF Check
<1>7. CASE NoneFails(early)
  <2>1. Resolves(Selection(r), inv)
    BY <1>1, <1>7
  <2>2. cases \in Seq(SourceTest)
    BY <2>1, SelectedAre
  <2> HIDE DEF early, cases, roots, sel, c1, c2
  <2>3. << c1, c2 >> \in Seq(CheckRecord) /\ (NoneFails(<< c1, c2 >>) <=> ~c1.fails /\ ~c2.fails)
    BY <1>4, Checks2
  <2>4. /\ CaseChecks(r, cases) \in Seq(CheckRecord)
        /\ NoneFails(CaseChecks(r, cases)) <=>
                 \A t \in ToSet(cases) : t.sound /\ (t.generic => t.root \in SeedFunctions(r))
    BY <2>2, CasesLet
  <2>5. /\ CaseChecks(r, cases) \o << c1, c2 >> \in Seq(CheckRecord)
        /\ NoneFails(CaseChecks(r, cases) \o << c1, c2 >>) <=> NoneFails(CaseChecks(r, cases)) /\ NoneFails(<< c1, c2 >>)
    BY <2>3, <2>4, JoinedChecks
  <2>6. SelectionChecks(r, inv) = CaseChecks(r, cases) \o << c1, c2 >>
    BY <1>2, <1>7
  <2> QED
    BY <2>1, <2>3, <2>4, <2>5, <2>6, <1>1, <1>3, <1>5, <1>6, <1>7 DEF cases, roots, sel
<1>8. CASE ~NoneFails(early)
  <2>1. SelectionChecks(r, inv) = early /\ ~NoneFails(SelectionChecks(r, inv))
    BY <1>2, <1>8
  <2> QED
    BY <2>1, <1>1
<1> QED
  BY <1>7, <1>8

\* The roots of an admitted request.
LEMMA AdmittedRoots ==
    ASSUME NEW r \in Requests, AdmittedRequest(r)
    PROVE  /\ CallableRoots(r) \in Seq(Nat) /\ Len(CallableRoots(r)) <= MaxRoots
           /\ ToSet(CallableRoots(r)) = ToSet(IF MultipleCallables(r.version) THEN r.roots.rows ELSE r.entry.rows)
           /\ ~SelectsTestCases(r.version) => CallableRoots(r) # << >>
<1>1. /\ r \in RequestRecord /\ (r.entry.kind = "rows" => Len(r.entry.rows) = 1) /\ MaxRoots \in Nat \ {0}
  BY RequestAssumption DEF RequestRecord
<1>2. r.roots.rows \in Seq(Nat) /\ r.entry.rows \in Seq(Nat)
  BY <1>1 DEF RequestRecord, Field
<1>3. RootsAdmitted(r)
  BY AdmittedIs
<1>4. CASE MultipleCallables(r.version)
  <2> DEFINE S == ToSet(r.roots.rows)
  <2>1. /\ S \in SUBSET Nat /\ IsFiniteSet(S) /\ Cardinality(S) \in Nat /\ Cardinality(S) <= Len(r.roots.rows)
        /\ r.roots.rows = << >> <=> S = {}
    BY <1>2, RowSet
  <2>2. CallableRoots(r) = Ascending(S)
    BY <1>4 DEF CallableRoots
  <2> HIDE DEF S
  <2>3. /\ CallableRoots(r) \in Seq(Nat) /\ Len(CallableRoots(r)) = Cardinality(S) /\ ToSet(CallableRoots(r)) = S
        /\ CallableRoots(r) = << >> <=> S = {}
    BY <2>1, <2>2, AscendingLists
  <2>4. /\ ~(Len(r.roots.rows) > MaxRoots)
        /\ r.roots.rows = << >> => SelectsTestCases(r.version)
    BY <1>3, <1>4 DEF RootsAdmitted
  <2>5. Len(CallableRoots(r)) <= MaxRoots
    BY <2>1, <2>3, <2>4, <1>1, <1>2
  <2> QED
    BY <1>4, <2>1, <2>3, <2>4, <2>5 DEF S
<1>5. CASE ~MultipleCallables(r.version)
  <2>1. CallableRoots(r) = r.entry.rows
    BY <1>5 DEF CallableRoots
  <2>2. Len(r.entry.rows) = 1
    BY <1>1, <1>3, <1>5 DEF RootsAdmitted, IsArray
  <2>3. r.entry.rows # << >>
    BY <2>2
  <2>4. Len(r.entry.rows) <= MaxRoots
    BY <2>2, <1>1
  <2> QED
    BY <1>2, <1>5, <2>1, <2>3, <2>4
<1> QED
  BY <1>4, <1>5

\* A field whose rows may be listed the other way round.
LEMMA FlipKeeps ==
    ASSUME NEW f \in Field, NEW yes \in BOOLEAN
    PROVE  /\ Flip(f, yes) \in Field /\ Flip(f, yes).kind = f.kind
           /\ ToSet(Flip(f, yes).rows) = ToSet(f.rows) /\ Len(Flip(f, yes).rows) = Len(f.rows)
           /\ Repeats(Flip(f, yes).rows) <=> Repeats(f.rows)
           /\ Flip(f, yes).rows = << >> <=> f.rows = << >>
<1>1. /\ f.rows \in Seq(Nat) /\ f.kind \in {"absent", "other", "all", "rows"} /\ (f.kind # "rows" => f.rows = << >>)
      /\ f = [kind |-> f.kind, rows |-> f.rows]
  BY DEF Field
<1>2. CASE ~yes
  BY <1>2 DEF Flip
<1>3. CASE yes
  <2>1. Flip(f, yes) = [kind |-> f.kind, rows |-> Reverse(f.rows)]
    BY <1>1, <1>3 DEF Flip
  <2>2. /\ Reverse(f.rows) \in Seq(Nat) /\ Len(Reverse(f.rows)) = Len(f.rows) /\ ToSet(Reverse(f.rows)) = ToSet(f.rows)
        /\ Repeats(Reverse(f.rows)) <=> Repeats(f.rows)
    BY <1>1, Backwards
  <2>3. Reverse(f.rows) = << >> <=> f.rows = << >>
    BY <1>1, <2>2
  <2>4. Flip(f, yes) \in Field
    BY <1>1, <2>1, <2>2, <2>3 DEF Field
  <2> QED
    BY <2>1, <2>2, <2>3, <2>4
<1> QED
  BY <1>2, <1>3

\* A row is refused whatever the order, once no row is repeated.
LEMMA BadRowIs ==
    ASSUME NEW rows \in Seq(Nat), ~Repeats(rows)
    PROVE  BadRow(rows) <=> 0 \in ToSet(rows)
<1>1. ASSUME NEW i \in DOMAIN rows PROVE ~Repeats(SubSeq(rows, 1, i - 1))
  <2> SUFFICES ASSUME Repeats(SubSeq(rows, 1, i - 1)) PROVE FALSE
    OBVIOUS
  <2> DEFINE s == SubSeq(rows, 1, i - 1)
  <2>1. /\ i \in 1 .. Len(rows) /\ Len(rows) \in Nat /\ DOMAIN s = 1 .. i - 1 /\ \A k \in 1 .. i - 1 : s[k] = rows[k]
    OBVIOUS
  <2> HIDE DEF s
  <2>2. PICK a \in DOMAIN s, b \in DOMAIN s : a < b /\ s[a] = s[b]
    BY DEF Repeats, s
  <2>3. a \in DOMAIN rows /\ b \in DOMAIN rows /\ a < b /\ rows[a] = rows[b]
    BY <2>1, <2>2
  <2> QED
    BY <2>3 DEF Repeats
<1> QED
  BY <1>1 DEF BadRow, ToSet

\* What differs only in the order of roots, identities and seeds.
Alike(r, o) ==
    /\ r \in RequestRecord /\ o \in RequestRecord
    /\ r.version = o.version /\ r.entry = o.entry /\ r.modules = o.modules /\ r.target = o.target /\ r.source = o.source
    /\ r.rootBytes = o.rootBytes /\ r.other = o.other
    /\ r.roots.kind = o.roots.kind /\ r.selection.kind = o.selection.kind /\ r.seeds.kind = o.seeds.kind
    /\ ToSet(r.roots.rows) = ToSet(o.roots.rows) /\ ToSet(r.selection.rows) = ToSet(o.selection.rows)
    /\ ToSet(r.seeds.rows) = ToSet(o.seeds.rows)
    /\ Len(r.roots.rows) = Len(o.roots.rows) /\ Len(r.selection.rows) = Len(o.selection.rows) /\ Len(r.seeds.rows) = Len(o.seeds.rows)
    /\ Repeats(r.roots.rows) <=> Repeats(o.roots.rows)
    /\ Repeats(r.selection.rows) <=> Repeats(o.selection.rows)
    /\ r.roots.rows = << >> <=> o.roots.rows = << >>

LEMMA ReorderedAlike ==
    ASSUME NEW o \in RequestRecord, NEW a \in BOOLEAN, NEW b \in BOOLEAN, NEW c \in BOOLEAN
    PROVE  Alike(Reordered(o, a, b, c), o)
<1>1. PICK r : r = Reordered(o, a, b, c)
  OBVIOUS
<1>2. o.roots \in Field /\ o.selection \in Field /\ o.seeds \in Field
  BY DEF RequestRecord
<1>3. PICK fr \in Field : fr = Flip(o.roots, a)
  BY <1>2, FlipKeeps
<1>4. PICK fl \in Field : fl = Flip(o.selection, b)
  BY <1>2, FlipKeeps
<1>5. PICK fs \in Field : fs = Flip(o.seeds, c)
  BY <1>2, FlipKeeps
<1>6. r = [o EXCEPT !.roots = fr, !.selection = fl, !.seeds = fs]
  BY <1>1, <1>3, <1>4, <1>5 DEF Reordered
<1>7. /\ r \in RequestRecord /\ r.roots = fr /\ r.selection = fl /\ r.seeds = fs
      /\ r.version = o.version /\ r.entry = o.entry /\ r.modules = o.modules /\ r.target = o.target /\ r.source = o.source
      /\ r.rootBytes = o.rootBytes /\ r.other = o.other
  BY <1>6 DEF RequestRecord
<1>8. /\ fr.kind = o.roots.kind /\ ToSet(fr.rows) = ToSet(o.roots.rows) /\ Len(fr.rows) = Len(o.roots.rows)
      /\ (Repeats(fr.rows) <=> Repeats(o.roots.rows)) /\ (fr.rows = << >> <=> o.roots.rows = << >>)
  BY <1>2, <1>3, FlipKeeps
<1>9. /\ fl.kind = o.selection.kind /\ ToSet(fl.rows) = ToSet(o.selection.rows) /\ Len(fl.rows) = Len(o.selection.rows)
      /\ (Repeats(fl.rows) <=> Repeats(o.selection.rows))
  BY <1>2, <1>4, FlipKeeps
<1>10. fs.kind = o.seeds.kind /\ ToSet(fs.rows) = ToSet(o.seeds.rows) /\ Len(fs.rows) = Len(o.seeds.rows)
  BY <1>2, <1>5, FlipKeeps
<1> QED
  BY <1>1, <1>7, <1>8, <1>9, <1>10 DEF Alike

LEMMA AlikeAdmitted ==
    ASSUME NEW o, NEW r, Alike(r, o), AdmittedRequest(o)
    PROVE  AdmittedRequest(r)
<1>1. FieldsAdmitted(o) /\ RootsAdmitted(o) /\ NoneFails(ModuleChecks(o))
  BY AdmittedIs
<1>2. FieldsAdmitted(r)
  <2>1. SelectionParses(r.selection) <=> SelectionParses(o.selection)
    BY DEF Alike, SelectionParses, IsArray
  <2>2. Present(r.seeds) <=> Present(o.seeds)
    BY DEF Alike, Present
  <2>3. (IsArray(r.seeds) <=> IsArray(o.seeds)) /\ (SeedsParse(r.seeds.rows) <=> SeedsParse(o.seeds.rows))
    BY DEF Alike, IsArray, SeedsParse
  <2>4. (r.target <=> o.target) /\ r.source = o.source /\ Len(r.seeds.rows) = Len(o.seeds.rows) /\ r.version = o.version
    BY Zenon DEF Alike
  <2> QED
    BY <1>1, <2>1, <2>2, <2>3, <2>4 DEF FieldsAdmitted
<1>3. RootsAdmitted(r)
  <2>1. CASE MultipleCallables(o.version)
    <3>1. /\ ~Repeats(o.roots.rows) /\ ~BadRow(o.roots.rows)
      BY <1>1, <2>1 DEF RootsAdmitted
    <3>2. ~Repeats(r.roots.rows) /\ r.roots.rows \in Seq(Nat) /\ o.roots.rows \in Seq(Nat)
      BY <3>1 DEF Alike, RequestRecord, Field
    <3>3. ~BadRow(r.roots.rows)
      BY <3>1, <3>2, BadRowIs DEF Alike
    <3>4. (Present(r.roots) <=> Present(o.roots)) /\ (IsArray(r.roots) <=> IsArray(o.roots))
      BY DEF Alike, Present, IsArray
    <3>5. /\ r.version = o.version /\ r.entry = o.entry /\ Len(r.roots.rows) = Len(o.roots.rows)
          /\ r.roots.rows = << >> <=> o.roots.rows = << >>
      BY DEF Alike
    <3> QED
      BY <1>1, <2>1, <3>2, <3>3, <3>4, <3>5 DEF RootsAdmitted
  <2>2. CASE ~MultipleCallables(o.version)
    BY <1>1, <2>2 DEF RootsAdmitted, Alike
  <2> QED
    BY <2>1, <2>2
<1>4. ModuleChecks(r) = ModuleChecks(o)
  BY DEF ModuleChecks, Alike
<1> QED
  BY <1>1, <1>2, <1>3, <1>4, AdmittedIs

LEMMA AlikeKeys ==
    ASSUME NEW o, NEW r, Alike(r, o)
    PROVE  CacheKey(r) = CacheKey(o) /\ Selection(r) = Selection(o)
<1>1. CallableRoots(r) = CallableRoots(o)
  BY DEF Alike, CallableRoots
<1>2. Selection(r) = Selection(o)
  BY DEF Alike, Selection
<1>3. SeedKeys(r) = SeedKeys(o)
  BY DEF Alike, SeedKeys
<1>4. r.version = o.version /\ r.rootBytes = o.rootBytes /\ r.modules = o.modules /\ r.entry = o.entry /\ r.other = o.other
  BY DEF Alike
<1> QED
  BY <1>1, <1>2, <1>3, <1>4 DEF CacheKey

\* The inventory listed the other way round gives the same tests for identities.
LEMMA InventoryOrder ==
    ASSUME NEW inv \in Inventory, NEW sel, sel.rows \in Seq(Nat), sel = [kind |-> sel.kind, rows |-> sel.rows],
           Resolves(sel, inv)
    PROVE  SelectedCases(sel, [inv EXCEPT !.tests = IF sel.kind = "all" THEN @ ELSE Reverse(@)]) = SelectedCases(sel, inv)
<1> DEFINE back == [inv EXCEPT !.tests = Reverse(@)]
           rows == sel.rows
<1>1. CASE sel.kind = "all"
  BY <1>1 DEF SelectedCases, Inventory
<1>2. CASE sel.kind # "all"
  <2>1. /\ inv.tests \in Seq(SourceTest) /\ back.tests = Reverse(inv.tests) /\ back \in Inventory
    <3>1. inv.tests \in Seq(SourceTest) /\ Reverse(inv.tests) \in Seq(SourceTest)
      BY Backwards DEF Inventory
    <3> QED
      BY <3>1 DEF Inventory
  <2>2. \A i \in DOMAIN rows : Cardinality(Cases(inv, rows[i])) = 1
    BY <1>2 DEF Resolves
  <2>3. /\ Len(Matches(sel, inv)) = Len(rows) /\ Matches(sel, inv) \in Seq(SourceTest)
        /\ \A i \in DOMAIN rows : \A j \in DOMAIN inv.tests : inv.tests[j].identity = rows[i] => Matches(sel, inv)[i] = inv.tests[j]
    BY <2>2, MatchesFind
  <2> HIDE DEF back
  <2>4. ASSUME NEW i \in DOMAIN rows
        PROVE  back.tests[CHOOSE j \in Cases(back, rows[i]) : TRUE] = Matches(sel, inv)[i]
    <3> DEFINE l == Len(inv.tests)
    <3>1. /\ DOMAIN inv.tests = 1 .. l /\ l \in Nat /\ DOMAIN back.tests = DOMAIN inv.tests
          /\ \A k \in DOMAIN inv.tests : l - k + 1 \in DOMAIN inv.tests /\ back.tests[k] = inv.tests[l - k + 1]
      BY <2>1, Backwards
    <3>2. PICK k \in DOMAIN inv.tests : inv.tests[k].identity = rows[i]
      <4>1. Cases(inv, rows[i]) # {}
        <5>1. Cardinality(Cases(inv, rows[i])) = 1
          BY <2>2
        <5>2. Cardinality({}) = 0
          BY FS_EmptySet
        <5>3. ASSUME Cases(inv, rows[i]) = {} PROVE FALSE
          <6>1. Cardinality(Cases(inv, rows[i])) = 0
            BY <5>2, <5>3, Zenon
          <6> QED
            BY <5>1, <6>1
        <5> QED
          BY <5>3
      <4> QED
        BY <4>1 DEF Cases
    <3>3. l - k + 1 \in Cases(back, rows[i])
      <4>1. l - (l - k + 1) + 1 = k
        BY <3>1
      <4>2. l - k + 1 \in DOMAIN back.tests /\ back.tests[l - k + 1] = inv.tests[k]
        BY <3>1, <4>1
      <4> QED
        BY <3>2, <4>2 DEF Cases
    <3>4. PICK c : c = CHOOSE j \in Cases(back, rows[i]) : TRUE
      OBVIOUS
    <3>5. c \in DOMAIN back.tests /\ back.tests[c].identity = rows[i]
      <4>1. c \in Cases(back, rows[i])
        BY <3>3, <3>4
      <4> QED
        BY <4>1 DEF Cases
    <3>6. l - c + 1 \in DOMAIN inv.tests /\ back.tests[c] = inv.tests[l - c + 1]
      BY <3>1, <3>5
    <3> QED
      BY <2>3, <3>4, <3>5, <3>6
  <2>5. Matches(sel, back) = [i \in DOMAIN rows |-> Matches(sel, inv)[i]]
    BY <2>4 DEF Matches
  <2>6. Matches(sel, inv) = [i \in DOMAIN rows |-> Matches(sel, inv)[i]]
    BY DEF Matches
  <2>7. Matches(sel, back) = Matches(sel, inv)
    BY <2>5, <2>6
  <2> QED
    BY <1>2, <2>7 DEF SelectedCases, back
<1> QED
  BY <1>1, <1>2

----------------------------------------------------------------------------
(* The key. *)

\* Two admitted requests with one key ask for the same build.
LEMMA KeyDecides ==
    ASSUME NEW q \in Requests, NEW r \in Requests, AdmittedRequest(q), AdmittedRequest(r), CacheKey(q) = CacheKey(r)
    PROVE  Question(q) = Question(r)
<1>1. q \in RequestRecord /\ r \in RequestRecord
  BY RequestAssumption DEF RequestRecord
<1>2. /\ ContractOf(q.version) = ContractOf(r.version)
      /\ << q.rootBytes, q.modules.rows >> = << r.rootBytes, r.modules.rows >> /\ q.other = r.other
      /\ SeedKeys(q) = SeedKeys(r) /\ CallableRoots(q) = CallableRoots(r) /\ Selection(q) = Selection(r)
  <2>1. /\ CacheKey(q).contract = ContractOf(q.version) /\ CacheKey(q).sources = << q.rootBytes, q.modules.rows >>
        /\ CacheKey(q).seeds = SeedKeys(q) /\ CacheKey(q).roots = CallableRoots(q)
        /\ CacheKey(q).selection = Selection(q) /\ CacheKey(q).other = q.other
    BY DEF CacheKey
  <2>2. /\ CacheKey(r).contract = ContractOf(r.version) /\ CacheKey(r).sources = << r.rootBytes, r.modules.rows >>
        /\ CacheKey(r).seeds = SeedKeys(r) /\ CacheKey(r).roots = CallableRoots(r)
        /\ CacheKey(r).selection = Selection(r) /\ CacheKey(r).other = r.other
    BY DEF CacheKey
  <2> QED
    BY <2>1, <2>2
<1>3. q.version = r.version
  <2>1. q.version \in Versions /\ r.version \in Versions
    BY AdmittedIs DEF FieldsAdmitted
  <2> QED
    BY <2>1, <1>2 DEF ContractOf, Versions
<1>4. /\ ToSet(IF MultipleCallables(q.version) THEN q.roots.rows ELSE q.entry.rows)
         = ToSet(IF MultipleCallables(r.version) THEN r.roots.rows ELSE r.entry.rows)
  BY <1>2, AdmittedRoots
<1>5. ToSet(q.seeds.rows) = ToSet(r.seeds.rows)
  <2>1. ASSUME NEW x \in RequestRecord PROVE ToSet(SeedKeys(x)) = ToSet(x.seeds.rows)
    <3>1. x.seeds.rows \in Seq(Nat)
      BY DEF RequestRecord, Field
    <3>2. ToSet(x.seeds.rows) \in SUBSET Nat /\ IsFiniteSet(ToSet(x.seeds.rows))
      BY <3>1, RowSet
    <3> QED
      BY <3>2, AscendingLists DEF SeedKeys
  <2> QED
    BY <2>1, <1>1, <1>2
<1>6. SelectsTestCases(q.version) =>
          q.selection.kind = r.selection.kind /\ ToSet(q.selection.rows) = ToSet(r.selection.rows)
  BY <1>1, <1>2, <1>3, SelectionIs
<1>7. (IF SelectsTestCases(q.version) THEN [all |-> q.selection.kind = "all", of |-> ToSet(q.selection.rows)]
       ELSE [all |-> FALSE, of |-> {}])
      = (IF SelectsTestCases(r.version) THEN [all |-> r.selection.kind = "all", of |-> ToSet(r.selection.rows)]
         ELSE [all |-> FALSE, of |-> {}])
  BY <1>3, <1>6, Zenon
<1> QED
  BY <1>2, <1>3, <1>4, <1>5, <1>7, Zenon DEF Question

----------------------------------------------------------------------------
(* The steps. *)

AnswerRecord ==
    [status : {"none", "built"} \union Refusal, schema : 0 .. 16, code : {"none"} \union Code,
     roots : Seq(Nat), cases : Seq(SourceTest)]

\* The answer is about to be, or was, built from the resolved request.
ResolvedRequest ==
    /\ AdmittedRequest(request)
    /\ SelectsTestCases(request.version) =>
          /\ NoneFails(SelectionChecks(request, inventory))
          /\ answer.cases = SelectedCases(Selection(request), inventory)
          /\ answer.roots = Ascending(CombinedRoots(request, SelectedCases(Selection(request), inventory)))
    /\ ~SelectsTestCases(request.version) => answer.cases = << >> /\ answer.roots = CallableRoots(request)

RequestInv ==
    /\ request \in Requests /\ inventory \in Inventories
    /\ pc \in {"validate", "frontend", "build", "answered"}
    /\ answer \in AnswerRecord
    /\ pc # "answered" <=> answer.status = "none"
    /\ pc = "validate" \/ answer.status \in Refusal => answer.roots = << >> /\ answer.cases = << >>
    /\ pc = "frontend" => AdmittedRequest(request) /\ answer.roots = CallableRoots(request) /\ answer.cases = << >>
    /\ pc = "build" \/ answer.status = "built" => ResolvedRequest

\* What a resolved selection stands for.
LEMMA ResolvedIs ==
    ASSUME NEW r \in Requests, NEW inv \in Inventories, AdmittedRequest(r), SelectsTestCases(r.version),
           NoneFails(SelectionChecks(r, inv))
    PROVE  LET cases == SelectedCases(Selection(r), inv)
               roots == CombinedRoots(r, cases)
           IN /\ cases \in Seq(SourceTest) /\ Len(cases) <= MaxCases /\ ToSet(cases) = SelectedOf(r, inv)
              /\ r.selection.kind = "rows" => Len(cases) = Len(r.selection.rows)
              /\ Resolves(Selection(r), inv)
              /\ Ascending(roots) \in Seq(Nat) /\ Len(Ascending(roots)) <= MaxRoots
              /\ ToSet(Ascending(roots)) = roots /\ Ascending(roots) # << >>
              /\ roots = ToSet(IF MultipleCallables(r.version) THEN r.roots.rows ELSE r.entry.rows)
                         \union {t.root : t \in SelectedOf(r, inv)}
              /\ \A t \in SelectedOf(r, inv) : t.sound /\ (t.generic => t.root \in ToSet(r.seeds.rows))
<1> DEFINE cases == SelectedCases(Selection(r), inv)
           roots == CombinedRoots(r, cases)
<1>1. /\ r \in RequestRecord /\ inv \in Inventory /\ MaxCases \in Nat /\ MaxRoots \in Nat
  BY RequestAssumption DEF RequestRecord, Inventory
<1>2. /\ ~(r.selection.kind = "all" /\ Len(inv.tests) > MaxCases) /\ Resolves(Selection(r), inv)
      /\ \A t \in ToSet(cases) : t.sound /\ (t.generic => t.root \in SeedFunctions(r))
      /\ roots # {} /\ ~(Cardinality(roots) > MaxRoots)
  BY <1>1, SelectionLets
<1>3. /\ cases \in Seq(SourceTest) /\ ToSet(cases) = SelectedOf(r, inv)
      /\ r.selection.kind # "all" => Len(cases) = Cardinality(ToSet(r.selection.rows))
  BY <1>1, <1>2, SelectedAre
<1>4. /\ r.selection.kind # "all" => /\ r.selection.kind = "rows" /\ Len(r.selection.rows) <= MaxCases
                                     /\ ~Repeats(r.selection.rows)
      /\ r.selection.rows \in Seq(Nat)
  <2>1. SelectionParses(r.selection) /\ r.selection.rows \in Seq(Nat)
    BY <1>1, AdmittedIs DEF FieldsAdmitted, RequestRecord, Field
  <2> QED
    BY <2>1 DEF SelectionParses, IsArray
<1>5. r.selection.kind # "all" => Len(cases) = Len(r.selection.rows)
  BY <1>3, <1>4, RowSet
<1>6. r.selection.kind = "all" => cases = inv.tests
  BY <1>1, SelectionIs DEF SelectedCases
<1>7. Len(cases) <= MaxCases
  <2>1. CASE r.selection.kind = "all"
    <3>1. Len(inv.tests) \in Nat
      BY <1>1 DEF Inventory
    <3> QED
      BY <2>1, <3>1, <1>1, <1>2, <1>6
  <2>2. CASE r.selection.kind # "all"
    BY <2>2, <1>4, <1>5
  <2> QED
    BY <2>1, <2>2
<1> HIDE DEF cases
<1>8. /\ DOMAIN cases = 1 .. Len(cases) /\ Len(cases) \in Nat /\ \A i \in DOMAIN cases : cases[i].root \in Nat
  <2>1. DOMAIN cases = 1 .. Len(cases) /\ Len(cases) \in Nat /\ \A i \in DOMAIN cases : cases[i] \in SourceTest
    BY <1>3
  <2> QED
    BY <2>1 DEF SourceTest
<1>9. IsFiniteSet(TestRoots(cases)) /\ TestRoots(cases) \in SUBSET Nat /\ TestRoots(cases) = {t.root : t \in ToSet(cases)}
  <2>1. PICK s : s = [i \in 1 .. Len(cases) |-> cases[i].root]
    OBVIOUS
  <2>2. s \in Seq(Nat)
    BY <2>1, <1>8
  <2>3. TestRoots(cases) = ToSet(s)
    BY <2>1, <1>8 DEF TestRoots, ToSet
  <2>4. IsFiniteSet(ToSet(s)) /\ ToSet(s) \in SUBSET Nat
    BY <2>2, RowSet
  <2>5. TestRoots(cases) = {t.root : t \in ToSet(cases)}
    BY DEF TestRoots, ToSet
  <2> QED
    BY <2>3, <2>4, <2>5
<1>10. /\ CallableRoots(r) \in Seq(Nat)
       /\ ToSet(CallableRoots(r)) = ToSet(IF MultipleCallables(r.version) THEN r.roots.rows ELSE r.entry.rows)
  BY AdmittedRoots
<1>11. IsFiniteSet(ToSet(CallableRoots(r))) /\ ToSet(CallableRoots(r)) \in SUBSET Nat
  BY <1>10, RowSet
<1>12. roots = ToSet(CallableRoots(r)) \union TestRoots(cases)
  BY DEF CombinedRoots
<1> HIDE DEF roots
<1>13. IsFiniteSet(roots) /\ roots \in SUBSET Nat
  <2>1. IsFiniteSet(ToSet(CallableRoots(r)) \union TestRoots(cases))
    BY <1>9, <1>11, FS_Union
  <2> QED
    BY <2>1, <1>9, <1>11, <1>12
<1>14. /\ Ascending(roots) \in Seq(Nat) /\ ToSet(Ascending(roots)) = roots /\ Cardinality(roots) \in Nat
       /\ Len(Ascending(roots)) = Cardinality(roots) /\ (Ascending(roots) = << >> <=> roots = {})
  BY <1>13, AscendingLists
<1>15. Len(Ascending(roots)) <= MaxRoots
  BY <1>1, <1>2, <1>14
<1>16. \A t \in SelectedOf(r, inv) : t.sound /\ (t.generic => t.root \in ToSet(r.seeds.rows))
  BY <1>2, <1>3 DEF SeedFunctions
<1> QED
  BY <1>2, <1>3, <1>5, <1>7, <1>9, <1>10, <1>12, <1>14, <1>15, <1>16 DEF cases, roots

LEMMA SchemaTyped == ASSUME NEW v \in Nat PROVE ContractOf(v) \in 0 .. 16
BY DEF ContractOf, Versions

\* A refusal by the first check that fails.
LEMMA RefusedTyped ==
    ASSUME request \in RequestRecord, NEW c \in CheckRecord
    PROVE  /\ Refused(c) \in AnswerRecord /\ Refused(c).status \in Refusal
           /\ Refused(c).roots = << >> /\ Refused(c).cases = << >>
<1>1. c.status \in Refusal /\ c.code \in Code /\ ContractOf(request.version) \in 0 .. 16
  BY SchemaTyped DEF CheckRecord, RequestRecord
<1>2. Refused(c) = [status |-> c.status, schema |-> ContractOf(request.version), code |-> c.code,
                    roots |-> << >>, cases |-> << >>]
  <2>1. PICK v \in 0 .. 16 : v = ContractOf(request.version)
    BY <1>1
  <2>2. PICK s \in Refusal : s = c.status
    BY <1>1
  <2>3. PICK k \in Code : k = c.code
    BY <1>1
  <2>4. Pending = [status |-> "none", schema |-> 0, code |-> "none", roots |-> << >>, cases |-> << >>]
    BY DEF Pending
  <2>5. Refused(c) = [Pending EXCEPT !.status = s, !.schema = v, !.code = k]
    BY <2>1, <2>2, <2>3 DEF Refused
  <2>6. Refused(c) = [status |-> s, schema |-> v, code |-> k, roots |-> << >>, cases |-> << >>]
    BY <2>4, <2>5
  <2> QED
    BY <2>1, <2>2, <2>3, <2>6
<1> QED
  BY <1>1, <1>2 DEF AnswerRecord

LEMMA RequestStarts == RequestInit => RequestInv
<1> SUFFICES ASSUME RequestInit PROVE RequestInv
  OBVIOUS
<1>1. answer = [status |-> "none", schema |-> 0, code |-> "none", roots |-> << >>, cases |-> << >>]
  BY DEF RequestInit, Pending
<1>2. answer \in AnswerRecord /\ answer.status = "none" /\ answer.roots = << >> /\ answer.cases = << >>
  BY <1>1 DEF AnswerRecord
<1> QED
  BY <1>2 DEF RequestInit, RequestInv, Refusal

LEMMA ValidateKeeps == ASSUME RequestInv, Validate PROVE RequestInv'
<1>1. request \in RequestRecord /\ request \in Requests
  BY RequestAssumption DEF RequestInv, RequestRecord
<1>2. CASE AdmittedRequest(request)
  <2>1. /\ pc' = "frontend" /\ UNCHANGED << request, inventory >>
        /\ answer' = [Pending EXCEPT !.roots = CallableRoots(request)]
    BY <1>2 DEF Validate
  <2>2. CallableRoots(request) \in Seq(Nat)
    BY <1>1, <1>2, AdmittedRoots
  <2>3. PICK k \in Seq(Nat) : k = CallableRoots(request)
    BY <2>2
  <2>4. answer' = [status |-> "none", schema |-> 0, code |-> "none", roots |-> k, cases |-> << >>]
    BY <2>1, <2>3 DEF Pending
  <2>5. answer' \in AnswerRecord /\ answer'.status = "none" /\ answer'.roots = k /\ answer'.cases = << >>
    BY <2>4 DEF AnswerRecord
  <2>6. k = CallableRoots(request)' /\ AdmittedRequest(request)'
    BY <1>2, <2>1, <2>3
  <2> QED
    BY <2>1, <2>5, <2>6 DEF RequestInv, Refusal
<1>3. CASE ~AdmittedRequest(request)
  <2>1. /\ pc' = "answered" /\ UNCHANGED << request, inventory >>
        /\ answer' = Refused(FirstFailing(Checks(request)))
    BY <1>3 DEF Validate
  <2>2. FirstFailing(Checks(request)) \in CheckRecord
    BY <1>3, AdmittedIs, FirstIsOne DEF AdmittedRequest
  <2>3. /\ answer' \in AnswerRecord /\ answer'.status \in Refusal
        /\ answer'.roots = << >> /\ answer'.cases = << >>
    BY <1>1, <2>1, <2>2, RefusedTyped
  <2> QED
    BY <2>1, <2>3 DEF RequestInv, Refusal
<1> QED
  BY <1>2, <1>3

LEMMA SelectKeeps == ASSUME RequestInv, Select PROVE RequestInv'
<1> DEFINE cases == SelectedCases(Selection(request), inventory)
           roots == Ascending(CombinedRoots(request, cases))
<1>1. /\ request \in RequestRecord /\ request \in Requests /\ inventory \in Inventory /\ inventory \in Inventories
      /\ pc = "frontend" /\ AdmittedRequest(request) /\ SelectsTestCases(request.version)
      /\ answer \in AnswerRecord /\ answer.status = "none" /\ UNCHANGED << request, inventory >>
  BY RequestAssumption DEF RequestInv, RequestRecord, Inventory, Select
<1>2. CASE NoneFails(SelectionChecks(request, inventory))
  <2>1. pc' = "build" /\ answer' = [answer EXCEPT !.roots = roots, !.cases = cases]
    BY <1>2 DEF Select
  <2>2. roots \in Seq(Nat) /\ cases \in Seq(SourceTest)
    BY <1>1, <1>2, ResolvedIs
  <2>3. PICK k \in Seq(Nat) : k = roots
    BY <2>2
  <2>4. PICK s \in Seq(SourceTest) : s = cases
    BY <2>2
  <2>5. answer' = [answer EXCEPT !.roots = k, !.cases = s]
    BY <2>1, <2>3, <2>4
  <2>6. answer' \in AnswerRecord /\ answer'.status = "none" /\ answer'.roots = k /\ answer'.cases = s
    BY <2>5, <1>1 DEF AnswerRecord
  <2>7. ResolvedRequest'
    <3>1. k = roots' /\ s = cases' /\ AdmittedRequest(request)' /\ SelectsTestCases(request'.version)
      BY <1>1, <2>3, <2>4
    <3>2. NoneFails(SelectionChecks(request, inventory))'
      BY <1>1, <1>2
    <3> QED
      BY <2>6, <3>1, <3>2 DEF ResolvedRequest
  <2> QED
    BY <1>1, <2>1, <2>6, <2>7 DEF RequestInv, Refusal
<1>3. CASE ~NoneFails(SelectionChecks(request, inventory))
  <2>1. /\ pc' = "answered" /\ answer' = Refused(FirstFailing(SelectionChecks(request, inventory)))
    BY <1>3 DEF Select
  <2>2. FirstFailing(SelectionChecks(request, inventory)) \in CheckRecord
    BY <1>1, <1>3, SelectionLets, FirstIsOne
  <2>3. /\ answer' \in AnswerRecord /\ answer'.status \in Refusal
        /\ answer'.roots = << >> /\ answer'.cases = << >>
    BY <1>1, <2>1, <2>2, RefusedTyped
  <2> QED
    BY <1>1, <2>1, <2>3 DEF RequestInv, Refusal
<1> QED
  BY <1>2, <1>3

LEMMA BuildKeeps == ASSUME RequestInv, SelectNothing \/ Build PROVE RequestInv'
<1>1. CASE SelectNothing
  BY <1>1 DEF SelectNothing, RequestInv, ResolvedRequest, Refusal
<1>2. CASE Build
  <2>1. /\ pc = "build" /\ pc' = "answered" /\ UNCHANGED << request, inventory >> /\ answer \in AnswerRecord
        /\ answer' = [answer EXCEPT !.status = "built", !.schema = ContractOf(request.version)]
        /\ request \in Requests /\ inventory \in Inventories /\ ResolvedRequest
    BY <1>2 DEF Build, RequestInv
  <2>2. PICK k \in 0 .. 16 : k = ContractOf(request.version)
    <3>1. request.version \in Nat
      BY <2>1, RequestAssumption
    <3> QED
      BY <3>1, SchemaTyped
  <2>3. answer' = [answer EXCEPT !.status = "built", !.schema = k]
    BY <2>1, <2>2
  <2>4. answer' \in AnswerRecord /\ answer'.status = "built" /\ answer'.roots = answer.roots /\ answer'.cases = answer.cases
    BY <2>1, <2>3 DEF AnswerRecord
  <2>5. ResolvedRequest'
    BY <2>1, <2>4 DEF ResolvedRequest
  <2> QED
    BY <2>1, <2>4, <2>5 DEF RequestInv, Refusal
<1> QED
  BY <1>1, <1>2

LEMMA RequestKept == RequestInv /\ [RequestNext]_requestVars => RequestInv'
<1>1. ASSUME RequestInv, RequestNext PROVE RequestInv'
  BY <1>1, ValidateKeeps, SelectKeeps, BuildKeeps DEF RequestNext
<1>2. ASSUME RequestInv, UNCHANGED requestVars PROVE RequestInv'
  BY <1>2 DEF RequestInv, ResolvedRequest, requestVars
<1> QED
  BY <1>1, <1>2

LEMMA RequestTyped == RequestInv => RequestTypeOK
<1> SUFFICES ASSUME RequestInv PROVE RequestTypeOK
  OBVIOUS
<1>1. /\ request \in Requests /\ inventory \in Inventories /\ answer \in AnswerRecord /\ MaxRoots \in Nat /\ MaxCases \in Nat
      /\ pc \in {"validate", "frontend", "build", "answered"}
  BY RequestAssumption DEF RequestInv
<1>2. /\ answer.status \in {"none", "built"} \union Refusal /\ answer.schema \in 0 .. 16
  BY <1>1 DEF AnswerRecord
<1>3. Len(answer.roots) <= MaxRoots /\ Len(answer.cases) <= MaxCases
  <2>1. CASE answer.roots = << >> /\ answer.cases = << >>
    BY <2>1, <1>1
  <2>2. CASE pc = "frontend"
    BY <2>2, <1>1, AdmittedRoots DEF RequestInv
  <2>3. CASE ResolvedRequest
    <3>1. CASE SelectsTestCases(request.version)
      BY <2>3, <3>1, <1>1, ResolvedIs DEF ResolvedRequest
    <3>2. CASE ~SelectsTestCases(request.version)
      BY <2>3, <3>2, <1>1, AdmittedRoots DEF ResolvedRequest
    <3> QED
      BY <3>1, <3>2
  <2> QED
    BY <2>1, <2>2, <2>3, <1>1, <1>2 DEF RequestInv
<1> QED
  BY <1>1, <1>2, <1>3 DEF RequestTypeOK, Refusal

LEMMA RequestBuilt == RequestInv => BuiltAsAsked
<1> SUFFICES ASSUME RequestInv, answer.status = "built" PROVE BuiltAsAsked
  BY DEF BuiltAsAsked
<1>1. ResolvedRequest /\ request \in Requests /\ inventory \in Inventories
  BY DEF RequestInv
<1>2. CASE SelectsTestCases(request.version)
  <2>1. AskedTests = SelectedOf(request, inventory)
    BY <1>2 DEF AskedTests, SelectedOf
  <2> QED
    BY <1>1, <1>2, <2>1, ResolvedIs DEF ResolvedRequest, BuiltAsAsked, AskedRoots
<1>3. CASE ~SelectsTestCases(request.version)
  <2>1. AskedTests = {}
    BY <1>3 DEF AskedTests
  <2>2. ToSet(<< >>) = {}
    BY DEF ToSet
  <2> QED
    BY <1>1, <1>3, <2>1, <2>2, AdmittedRoots DEF ResolvedRequest, BuiltAsAsked, AskedRoots
<1> QED
  BY <1>2, <1>3

LEMMA RequestOrder == RequestInv => OrderDoesNotMatter
<1> SUFFICES ASSUME RequestInv, pc = "build", NEW a \in BOOLEAN, NEW b \in BOOLEAN, NEW c \in BOOLEAN
             PROVE  LET r == Reordered(request, a, b, c)
                    IN  /\ AdmittedRequest(r)
                        /\ CacheKey(r) = CacheKey(request)
                        /\ SelectsTestCases(r.version) =>
                              SelectedCases(Selection(r), [inventory EXCEPT !.tests = IF r.selection.kind = "all" THEN @ ELSE Reverse(@)])
                                  = answer.cases
  BY DEF OrderDoesNotMatter
<1>1. /\ ResolvedRequest /\ request \in Requests /\ inventory \in Inventories
      /\ request \in RequestRecord /\ inventory \in Inventory
  BY RequestAssumption DEF RequestInv, RequestRecord, Inventory
<1>2. PICK r : r = Reordered(request, a, b, c)
  OBVIOUS
<1>3. Alike(r, request)
  BY <1>1, <1>2, ReorderedAlike
<1>4. AdmittedRequest(r) /\ CacheKey(r) = CacheKey(request) /\ Selection(r) = Selection(request)
  BY <1>1, <1>3, AlikeAdmitted, AlikeKeys DEF ResolvedRequest
<1>5. ASSUME SelectsTestCases(r.version)
      PROVE  SelectedCases(Selection(r), [inventory EXCEPT !.tests = IF r.selection.kind = "all" THEN @ ELSE Reverse(@)])
                 = answer.cases
  <2>1. SelectsTestCases(request.version) /\ r.selection.kind = request.selection.kind
    BY <1>3, <1>5 DEF Alike
  <2>2. PICK sel : sel = Selection(request)
    OBVIOUS
  <2>3. /\ sel.kind = request.selection.kind /\ sel.rows \in Seq(Nat) /\ sel = [kind |-> sel.kind, rows |-> sel.rows]
    BY <1>1, <2>1, <2>2, SelectionIs
  <2>4. Resolves(sel, inventory)
    BY <1>1, <2>1, <2>2, ResolvedIs DEF ResolvedRequest
  <2>5. SelectedCases(sel, [inventory EXCEPT !.tests = IF sel.kind = "all" THEN @ ELSE Reverse(@)]) = SelectedCases(sel, inventory)
    BY <1>1, <2>3, <2>4, InventoryOrder
  <2>6. answer.cases = SelectedCases(sel, inventory)
    BY <1>1, <2>1, <2>2 DEF ResolvedRequest
  <2> QED
    BY <1>4, <2>1, <2>2, <2>3, <2>5, <2>6
<1> QED
  BY <1>2, <1>4, <1>5

LEMMA RequestKeys == RequestInv => KeyIsExact
<1> SUFFICES ASSUME RequestInv, pc = "frontend", NEW q \in Asked, q[1] = CacheKey(request)
             PROVE  q[2] = Question(request)
  BY DEF KeyIsExact
<1>1. AdmittedRequest(request) /\ request \in Requests
  BY DEF RequestInv
<1>2. PICK r \in Requests : AdmittedRequest(r) /\ q = << CacheKey(r), Question(r) >>
  BY DEF Asked
<1> QED
  BY <1>1, <1>2, KeyDecides

(***************************************************************************)
(* compile_application, for any requests, inventories and limits: a build  *)
(* is made for exactly the roots and tests that were asked for, the order  *)
(* in which they are listed does not show, and requests that share a cache *)
(* key ask for the same build.                                             *)
(***************************************************************************)
THEOREM RequestsExact == Spec => []RequestsAreExact
<1> DEFINE I == server = "request" => RequestInv
<1>1. Init => I
  BY RequestStarts DEF Init
<1>2. I /\ [Next]_<< server, transportVars, runnerVars, requestVars >> => I'
  <2> SUFFICES ASSUME I, server' = "request", [Next]_<< server, transportVars, runnerVars, requestVars >>
               PROVE  RequestInv'
    OBVIOUS
  <2>1. CASE Next
    <3>1. server = "request" /\ RequestNext
      BY <2>1 DEF Next
    <3> QED
      BY <3>1, RequestKept
  <2>2. CASE UNCHANGED << server, transportVars, runnerVars, requestVars >>
    BY <2>2, RequestKept
  <2> QED
    BY <2>1, <2>2
<1>3. I => RequestsAreExact
  BY RequestTyped, RequestBuilt, RequestOrder, RequestKeys DEF RequestsAreExact
<1> QED
  BY <1>1, <1>2, <1>3, PTL DEF Spec
=============================================================================
