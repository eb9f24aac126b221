--------------------------- MODULE ProvidersProofs ---------------------------
(***************************************************************************)
(* The Python providers, for any number of invocations, providers, files   *)
(* and edits: what an invocation of the build provider leaves is its own   *)
(* result, what the VM provider caches was made from what it says, and the *)
(* resolver takes the one text the selected roots agree on.                *)
(***************************************************************************)
EXTENDS MCProviders, FiniteSetTheorems, SequenceTheorems, TLAPS

(***************************************************************************)
(* The build provider.                                                     *)
(***************************************************************************)

\* The steps of an invocation whose request version has been accepted.
Accepted == {"start", "probe", "check", "create", "fill", "report"}

\* The result file is the complete one of this invocation's checked answer.
Published == /\ out \in Result /\ out.by = run /\ out.whole /\ Conforms(out.reply)

InvocationInv ==
    /\ InvocationTypeOK
    /\ pc # "idle" => run # 0
    /\ pc \notin {"idle", "ended"} => reason = "none"
    /\ pc \in Accepted => version \in Versions
    /\ pc = "check" => reply \in Reply
    /\ pc \in {"create", "fill"} => dir /\ reply \in Reply /\ Conforms(reply)
    /\ pc \in {"request"} \union (Accepted \ {"fill", "report"}) /\ dir => out = Absent
    /\ pc = "fill" => out \in Result /\ out.by = run /\ out.reply = reply
    /\ pc = "report" /\ dir => Published
    /\ pc = "ended" => /\ dir /\ out # Absent /\ reason # "clear" => out.by = run
                       /\ exit = 0 /\ dir => Published
                       /\ reason = "schema" => version \notin Versions
                       /\ reason = "answer" => ~Conforms(reply)

\* The provider's table answers the versions of compile_application, each with
\* the contract that compile_application answers it with.
LEMMA TableAgrees ==
    /\ DOMAIN ResponseSchemaByRequest = Versions
    /\ \A v \in Versions : ResponseSchemaByRequest[v] = ContractOf(v)
BY DEF ResponseSchemaByRequest, Versions, ContractOf

\* A step within an invocation keeps the types if it keeps those of what it sets.
LEMMA InvocationTyped ==
    ASSUME InvocationTypeOK, UNCHANGED <<run, version, dir, bundle, reply>>,
           probe' = probe /\ probe = "none",
           pc' \in {"create", "fill", "report", "ended"}, out' \in Result \union {Absent},
           exit' \in {exit, 0, 2}, reason' \in {reason, "io"}
    PROVE  InvocationTypeOK'
<1>1. exit' \in {Absent, 0, 2, 9}
  BY DEF InvocationTypeOK
<1>2. (run \in 0 .. MaxRuns)'
  BY DEF InvocationTypeOK
<1>3. (reply \in Reply \union {Absent})' /\ (bundle \in Result \union {Absent})'
  BY DEF InvocationTypeOK
<1>4. (version \in Requested)' /\ (dir \in BOOLEAN)'
  BY DEF InvocationTypeOK
<1>5. /\ pc' \in {"idle", "clear", "request", "start", "probe", "check", "create", "fill", "report", "ended"}
      /\ probe' \in {"none", "running"} /\ (probe' = "running" => pc' = "probe")
      /\ reason' \in {"none", "clear", "request", "schema", "timeout", "answer", "io"}
  BY DEF InvocationTypeOK
<1> QED
  BY <1>1, <1>2, <1>3, <1>4, <1>5 DEF InvocationTypeOK

LEMMA InvocationStarts == InvocationInit => InvocationInv
<1> SUFFICES ASSUME InvocationInit PROVE InvocationInv
  OBVIOUS
<1>1. run \in 0 .. MaxRuns
  BY BuildProviderAssumption DEF InvocationInit
<1>2. exit \in {Absent, 0, 2, 9}
  BY DEF InvocationInit
<1>3. InvocationTypeOK
  BY <1>1, <1>2 DEF InvocationInit, InvocationTypeOK
<1>4. pc = "idle"
  BY DEF InvocationInit
<1> QED
  BY <1>3, <1>4 DEF InvocationInv, Accepted

\* Before the probe: the old result is cleared and the version looked up.
LEMMA PrepareInv ==
    ASSUME InvocationInv, Invoke \/ Clear \/ ReadRequest \/ StartProbe
    PROVE  InvocationInv'
<1>1. CASE Invoke
  BY <1>1, BuildProviderAssumption DEF Invoke, InvocationInv, InvocationTypeOK, Accepted
<1>2. CASE Clear
  BY <1>2 DEF Clear, Fail, InvocationInv, InvocationTypeOK, Accepted
<1>3. CASE ReadRequest
  BY <1>3, TableAgrees DEF ReadRequest, Fail, InvocationInv, InvocationTypeOK, Accepted
<1>4. CASE StartProbe
  BY <1>4 DEF StartProbe, Fail, InvocationInv, InvocationTypeOK, Accepted
<1> QED
  BY <1>1, <1>2, <1>3, <1>4

\* The probe's answer, or its end without one.
LEMMA ProbeInv ==
    ASSUME InvocationInv, ProbeEnds \/ Timeout \/ CheckReply
    PROVE  InvocationInv'
<1>1. CASE ProbeEnds
  BY <1>1 DEF ProbeEnds, Fail, InvocationInv, InvocationTypeOK, Accepted
<1>2. CASE Timeout
  BY <1>2 DEF Timeout, Fail, InvocationInv, InvocationTypeOK, Accepted
<1>3. CASE CheckReply
  <2>1. version \in Versions /\ pc = "check" /\ reply \in Reply
    BY <1>3 DEF CheckReply, InvocationInv, Accepted
  <2>2. (reply.schema = ResponseSchemaByRequest[version] /\ reply.status \in Status) <=> Conforms(reply)
    BY <2>1, TableAgrees DEF Conforms
  <2>3. CASE Conforms(reply)
    BY <1>3, <2>1, <2>2, <2>3 DEF CheckReply, InvocationInv, InvocationTypeOK, Accepted, Conforms
  <2>4. CASE ~Conforms(reply)
    BY <1>3, <2>1, <2>2, <2>4 DEF CheckReply, Fail, InvocationInv, InvocationTypeOK, Accepted, Conforms
  <2> QED
    BY <2>3, <2>4
<1> QED
  BY <1>1, <1>2, <1>3

\* The result file is created, filled and reported.
LEMMA PublishInv ==
    ASSUME InvocationInv, Create \/ Fill \/ Report
    PROVE  InvocationInv'
<1>1. CASE Create
  <2>1. pc = "create" /\ reply \in Reply /\ run \in 1 .. MaxRuns
    BY <1>1, BuildProviderAssumption DEF Create, InvocationInv, InvocationTypeOK
  <2>2. [by |-> run, whole |-> FALSE, reply |-> reply] \in Result
    BY <2>1 DEF Result
  <2>3. probe = "none"
    BY <2>1 DEF InvocationInv, InvocationTypeOK
  <2> QED
    <3>1. CASE Fail("io") /\ UNCHANGED <<out, probe>>
      <4>1. InvocationTypeOK'
        BY <2>1, <2>3, <3>1, InvocationTyped DEF Fail, InvocationInv, InvocationTypeOK
      <4>2. dir => out = Absent
        BY <2>1 DEF InvocationInv, Accepted
      <4> QED
        BY <2>1, <3>1, <4>1, <4>2 DEF InvocationInv, Fail, Accepted
    <3>2. CASE out' = [by |-> run, whole |-> FALSE, reply |-> reply] /\ pc' = "fill"
               /\ UNCHANGED <<run, version, dir, bundle, probe, reply, exit, reason>>
      <4>1. InvocationTypeOK'
        BY <2>1, <2>2, <2>3, <3>2, InvocationTyped DEF InvocationInv
      <4>2. out' \in Result /\ out'.by = run /\ out'.reply = reply
        BY <2>2, <3>2
      <4> QED
        BY <2>1, <3>2, <4>1, <4>2 DEF InvocationInv, Accepted, Conforms
    <3> QED
      BY <1>1, <3>1, <3>2 DEF Create
<1>2. CASE Fill
  <2>1. pc = "fill" /\ out \in Result /\ out.by = run /\ Conforms(out.reply) /\ dir
    BY <1>2 DEF Fill, InvocationInv
  <2>2. /\ [out EXCEPT !.whole = TRUE] \in Result /\ [out EXCEPT !.whole = TRUE].by = run
        /\ [out EXCEPT !.whole = TRUE].whole /\ [out EXCEPT !.whole = TRUE].reply = out.reply
    BY <2>1 DEF Result
  <2> QED
    <3>1. \/ pc' = "report" /\ exit' = exit /\ reason' = reason /\ out'.whole
          \/ pc' = "ended" /\ exit' = 2 /\ reason' = "io"
      BY <1>2, <2>2 DEF Fill, Fail
    <3>2. out' \in Result /\ out'.by = run /\ out'.reply = out.reply
      BY <1>2, <2>1, <2>2 DEF Fill
    <3>3. UNCHANGED <<run, version, dir, bundle, probe, reply>>
      BY <1>2 DEF Fill, Fail
    <3>4. InvocationTypeOK'
      BY <2>1, <3>1, <3>2, <3>3 DEF InvocationInv, InvocationTypeOK
    <3>5. Conforms(out.reply)' /\ (Conforms(out'.reply) <=> Conforms(out.reply))
      BY <2>1, <3>2, <3>3 DEF Conforms
    <3> QED
      BY <2>1, <3>1, <3>2, <3>3, <3>4, <3>5 DEF InvocationInv, Accepted, Published
<1>3. CASE Report
  <2>1. /\ pc = "report" /\ pc' = "ended"
        /\ UNCHANGED <<run, version, dir, out, bundle, probe, reply>>
        /\ exit' \in {0, 2} /\ (reason' = reason \/ reason' = "io")
    BY <1>3 DEF Report, Fail
  <2>2. InvocationTypeOK'
    BY <2>1 DEF InvocationInv, InvocationTypeOK
  <2>3. Published' <=> Published
    BY <2>1 DEF Published, Conforms
  <2>4. dir => Published'
    BY <2>1, <2>3 DEF InvocationInv
  <2>5. reason' \in {"none", "io"}
    BY <2>1 DEF InvocationInv
  <2>6. dir' = dir /\ run' # 0
    BY <2>1 DEF InvocationInv
  <2> QED
    BY <2>1, <2>2, <2>4, <2>5, <2>6 DEF InvocationInv, Accepted, Published
<1> QED
  BY <1>1, <1>2, <1>3

\* The provider is killed; Environment keeps what it left.
LEMMA EndInv ==
    ASSUME InvocationInv, Killed \/ Capture
    PROVE  InvocationInv'
<1>1. CASE Killed
  BY <1>1 DEF Killed, InvocationInv, InvocationTypeOK, Accepted, Published
<1>2. CASE Capture
  BY <1>2 DEF Capture, InvocationInv, InvocationTypeOK, Accepted
<1> QED
  BY <1>1, <1>2

LEMMA InvocationKept == InvocationInv /\ [InvocationNext]_invocationVars => InvocationInv'
<1> SUFFICES ASSUME InvocationInv, [InvocationNext]_invocationVars PROVE InvocationInv'
  OBVIOUS
<1>1. CASE UNCHANGED invocationVars
  BY <1>1 DEF invocationVars, InvocationInv, InvocationTypeOK, Published, Conforms
<1> QED
  BY <1>1, PrepareInv, ProbeInv, PublishInv, EndInv DEF InvocationNext, InvocationStep

\* What an invocation leaves is its own: nothing restored passes for a new
\* result, exit code 0 means a complete one under the request's own contract,
\* and no build the compiler supports is refused.
THEOREM ResultGenuine == Spec => []ResultIsGenuine
<1> DEFINE I == tool = "build_provider" => InvocationInv
<1>1. Init => I
  BY InvocationStarts DEF Init
<1>2. I /\ [Next]_<<tool, providerVars, invocationVars, resolverVars>> => I'
  BY InvocationKept DEF Next
<1>3. I => ResultIsGenuine
  <2> SUFFICES ASSUME InvocationInv PROVE InvocationTypeOK /\ NothingStale /\ ExitZeroMeansPublished /\ SupportedBuildsAreTaken
    BY DEF ResultIsGenuine
  <2>1. NothingStale
    BY DEF InvocationInv, InvocationTypeOK, Accepted, Published, NothingStale
  <2>2. ExitZeroMeansPublished
    BY BuildProviderAssumption DEF InvocationInv, Published, ExitZeroMeansPublished
  <2>3. SupportedBuildsAreTaken
    BY DEF InvocationInv, SupportedBuildsAreTaken
  <2> QED
    BY <2>1, <2>2, <2>3 DEF InvocationInv
<1> QED
  BY <1>1, <1>2, <1>3, PTL DEF Spec

(***************************************************************************)
(* The VM provider: the inductive invariant.                               *)
(***************************************************************************)

\* Functions on some of the files.
On(S) == UNION {[fs -> S] : fs \in SUBSET File}
Signature == [producer : Checkout, exe : Checkout \union {None}, stamps : On(Nat)]
Got == Inspection \union Inputs \union Signature \union Checkout \union {None}
Locals == [pc : Label, info : Inspection \union {None}, inputs : Inputs \union {None}, got : Got,
           rows : On(Bytes), compiled : Artifact \union {None}, losses : Nat]
Kept == [inspection : [value : Inspection, signature : Nat \X Nat] \union {None},
         inputs : [value : Inputs, signature : Signature] \union {None}]

ProviderTyped ==
    /\ file \in [File -> Bytes] /\ stamp \in [File -> Nat] /\ past \in [File -> SUBSET Bytes]
    /\ tree \in Checkout /\ exe \in Checkout \union {None}
    /\ treeStamp \in Nat /\ exeStamp \in Nat /\ losses \in Nat
    /\ product \subseteq Product /\ blob \subseteq Blob
    /\ kept \in [Provider -> Kept] /\ me \in [Provider -> Locals]

\* What a file has held so far.  Without reverts it holds nothing again that it
\* gave up.
Held(f) == past[f] \union {file[f]}
PastInv == \A f \in File : file[f] \notin past[f]

\* The steps in which the inspection and the inputs are taken, and those under
\* the prepare lock only.
Looking == {"inspect", "digest", "sign", "list", "hash", "observed"}
Publishing == {"artifact", "evidence", "product"}

HoldInv(p) ==
    /\ me[p].pc \in {"lookup", "compile"} \union Publishing => holder = p
    /\ me[p].pc \in {"idle", "wait", "returned"} => holder # p

\* Which kind of value a provider holds at each step, and that it is about the
\* producer of its inspection.
ValueInv(p) ==
    /\ me[p].pc \in {"digest", "compile"} => me[p].got \in Checkout
    /\ me[p].pc = "sign" => me[p].got \in Inspection
    /\ me[p].pc \in {"list", "hash", "observed", "wait", "lookup", "compile"} => me[p].info \in Inspection
    /\ me[p].pc = "hash" => me[p].got \in Signature /\ me[p].got.producer = me[p].info.producer
    /\ me[p].pc = "observed" => me[p].got \in Inputs /\ me[p].got.producer = me[p].info.producer
    /\ me[p].pc \in {"wait", "lookup", "compile"} =>
          me[p].inputs \in Inputs /\ me[p].inputs.producer = me[p].info.producer
    /\ me[p].pc \notin {"hash", "compile"} => me[p].rows = << >>

\* stamps, rows: the signature of a listing and what was read of it since.  A
\* file whose stamp still is the listed one holds what was read.
ReadSince(stamps, rows) ==
    /\ DOMAIN rows \subseteq DOMAIN stamps
    /\ \A f \in DOMAIN stamps : stamps[f] <= stamp[f]
    /\ \A f \in DOMAIN rows : stamps[f] = stamp[f] => rows[f] = file[f]

\* Observations are of contents the files have had.
ObservationInv(p) ==
    /\ me[p].pc = "hash" =>
          /\ ReadSince(me[p].got.stamps, me[p].rows)
          /\ \A f \in DOMAIN me[p].rows : me[p].rows[f] \in Held(f)
          /\ \A f \in File \ DOMAIN me[p].got.stamps : None \in Held(f)
    /\ me[p].pc = "observed" => \A f \in File : me[p].got.rows[f] \in Held(f)
    /\ me[p].pc \in {"wait", "lookup", "compile"} => \A f \in File : me[p].inputs.rows[f] \in Held(f)

\* y was read from f no earlier than x: then y is x, or f has given x up.
NotBefore(f, x, y) == y = x \/ x \in past[f]

\* What the probe read is what the first observation says, or the first
\* observation has been overtaken; and then the second one differs from it.
CompiledInv(p) ==
    LET x == me[p].inputs.rows
        y == me[p].compiled.rows
    IN  /\ me[p].pc = "compile" =>
              \A f \in DOMAIN me[p].rows : NotBefore(f, x[f], me[p].rows[f])
        /\ me[p].pc \in Looking /\ holder = p =>
              /\ me[p].inputs \in Inputs /\ me[p].compiled \in Artifact
              /\ me[p].compiled.producer = me[p].inputs.producer
              /\ \A f \in File : NotBefore(f, x[f], y[f])
        /\ me[p].pc = "hash" /\ holder = p =>
              /\ \A f \in DOMAIN me[p].rows : me[p].rows[f] = x[f] => y[f] = x[f]
              /\ \A f \in File \ DOMAIN me[p].got.stamps : x[f] = None => y[f] = x[f]
        /\ me[p].pc = "observed" /\ holder = p =>
              \A f \in File : me[p].got.rows[f] = x[f] => y[f] = x[f]
        /\ me[p].pc \in Publishing =>
              /\ me[p].inputs \in Inputs
              /\ me[p].compiled = [rows |-> x, producer |-> me[p].inputs.producer]

\* Files published since the lock was taken are there unless something was lost.
BlobInv(p) ==
    /\ me[p].losses <= losses
    /\ me[p].losses = losses =>
          /\ me[p].pc \in {"evidence", "product"} => << "artifact", me[p].compiled >> \in blob
          /\ me[p].pc = "product" => << "evidence", me[p].compiled >> \in blob
          /\ me[p].pc = "returned" => Complete(me[p].compiled)
    /\ me[p].pc = "returned" => me[p].compiled \in Artifact

\* The memo of the inputs: as good as reading, while its stamps are current.
MemoInv(p) ==
    LET memo == kept[p].inputs
    IN  memo # None =>
          /\ memo.value.producer = memo.signature.producer
          /\ ReadSince(memo.signature.stamps, [f \in DOMAIN memo.signature.stamps |-> memo.value.rows[f]])
          /\ \A f \in File \ DOMAIN memo.signature.stamps : memo.value.rows[f] = None

ProductInv == ProductIsExact /\ ProductsAreComplete

EmitInv(p) == HoldInv(p) /\ ValueInv(p) /\ ObservationInv(p) /\ CompiledInv(p) /\ BlobInv(p) /\ MemoInv(p)

ProviderInv == ProviderTyped /\ PastInv /\ ProductInv /\ \A p \in Provider : EmitInv(p)

(***************************************************************************)
(* Steps that leave a provider alone.                                      *)
(***************************************************************************)

\* A provider keeps its part of the invariant while others work, as long as the
\* files stay and the cache loses nothing.
LEMMA EmitFrame ==
    ASSUME NEW q \in Provider, EmitInv(q), me'[q] = me[q], kept'[q] = kept[q],
           holder' = q <=> holder = q, UNCHANGED program, losses' = losses, blob \subseteq blob'
    PROVE  EmitInv(q)'
<1>1. HoldInv(q)'
  BY DEF EmitInv, HoldInv
<1>2. ValueInv(q)'
  BY DEF EmitInv, ValueInv
<1>3. \A f : Held(f)' = Held(f)
  BY DEF Held, program
<1>4. \A s, r : ReadSince(s, r)' <=> ReadSince(s, r)
  BY DEF ReadSince, program
<1>5. ObservationInv(q)'
  BY <1>3, <1>4 DEF EmitInv, ObservationInv
<1>6. \A f, x, y : NotBefore(f, x, y)' <=> NotBefore(f, x, y)
  BY DEF NotBefore, program
<1>7. CompiledInv(q)'
  BY <1>6 DEF EmitInv, CompiledInv
<1>8. BlobInv(q)'
  BY DEF EmitInv, BlobInv, Complete
<1>9. MemoInv(q)'
  BY <1>4 DEF EmitInv, MemoInv
<1> QED
  BY <1>1, <1>2, <1>5, <1>7, <1>8, <1>9 DEF EmitInv

\* A step of p with the files and the cache as they are keeps the invariant if
\* it keeps p's part.
LEMMA MyStep ==
    ASSUME ProviderInv, NEW p \in Provider, UNCHANGED << program, compiler, cache, losses >>,
           NEW r \in Locals, me' = [me EXCEPT ![p] = r],
           NEW k \in Kept, kept' = [kept EXCEPT ![p] = k],
           \A q \in Provider \ {p} : holder' = q <=> holder = q,
           EmitInv(p)'
    PROVE  ProviderInv'
<1>1. ProviderTyped'
  BY DEF ProviderInv, ProviderTyped, program, compiler, cache
<1>2. PastInv' /\ ProductInv'
  BY DEF ProviderInv, PastInv, ProductInv, ProductIsExact, ProductsAreComplete, Complete, program, cache
<1>3. ASSUME NEW q \in Provider \ {p} PROVE EmitInv(q)'
  <2>1. me'[q] = me[q] /\ kept'[q] = kept[q]
    BY DEF ProviderInv, ProviderTyped
  <2>2. UNCHANGED program /\ losses' = losses /\ blob' = blob
    BY DEF cache
  <2> QED
    BY <2>1, <2>2, EmitFrame DEF ProviderInv
<1> QED
  BY <1>1, <1>2, <1>3 DEF ProviderInv

\* There are no rows in the empty function.
LEMMA NoRows == << >> \in On(Bytes) /\ DOMAIN << >> = {}
<1>1. << >> \in [{} -> Bytes] /\ DOMAIN << >> = {}
  OBVIOUS
<1> QED
  BY <1>1 DEF On

LEMMA IdleTyped ==
    /\ Idle \in Locals /\ Idle.pc = "idle" /\ Idle.rows = << >> /\ Idle.losses = 0
    /\ NothingKept \in Kept
BY NoRows DEF Idle, Locals, Label, Got, NothingKept, Kept

\* An idle provider claims nothing.
LEMMA IdleInv ==
    ASSUME NEW p \in Provider, me'[p] = Idle, holder' # p, losses' \in Nat, MemoInv(p)'
    PROVE  EmitInv(p)'
<1>1. me'[p].pc = "idle" /\ me'[p].rows = << >> /\ me'[p].losses = 0
  BY IdleTyped
<1>2. HoldInv(p)'
  BY <1>1 DEF HoldInv, Publishing
<1>3. ValueInv(p)'
  BY <1>1 DEF ValueInv
<1>4. ObservationInv(p)' /\ CompiledInv(p)'
  BY <1>1 DEF ObservationInv, CompiledInv, Looking, Publishing
<1>5. BlobInv(p)'
  BY <1>1 DEF BlobInv
<1> QED
  BY <1>2, <1>3, <1>4, <1>5 DEF EmitInv

\* An untouched memo stays good while the files do.
LEMMA MemoKept ==
    ASSUME NEW p \in Provider, MemoInv(p), kept'[p].inputs = kept[p].inputs, UNCHANGED program
    PROVE  MemoInv(p)'
<1>1. \A s, r : ReadSince(s, r)' <=> ReadSince(s, r)
  BY DEF ReadSince, program
<1> QED
  BY <1>1 DEF MemoInv

\* A ProviderError.
LEMMA FailEmitInv ==
    ASSUME ProviderInv, NEW p \in Provider, FailEmit(p)
    PROVE  ProviderInv'
<1>1. /\ me' = [me EXCEPT ![p] = Idle] /\ Stay /\ UNCHANGED << program, compiler, cache, losses >>
      /\ kept' = kept /\ kept' = [kept EXCEPT ![p] = kept[p]] /\ kept[p] \in Kept
  BY DEF FailEmit, ProviderInv, ProviderTyped, Stay, counts
<1>2. holder' # p /\ \A q \in Provider \ {p} : holder' = q <=> holder = q
  BY VmProviderAssumption DEF FailEmit
<1>3. me'[p] = Idle /\ kept'[p] = kept[p] /\ losses' \in Nat /\ UNCHANGED program
  BY <1>1 DEF ProviderInv, ProviderTyped, Stay, counts
<1>4. MemoInv(p)'
  BY <1>3, MemoKept DEF ProviderInv, EmitInv
<1>5. EmitInv(p)'
  BY <1>2, <1>3, <1>4, IdleInv
<1> QED
  BY <1>1, <1>2, <1>5, IdleTyped, MyStep

(***************************************************************************)
(* One provider's steps.                                                   *)
(***************************************************************************)

\* What is said of the files stays true while they stay.
LEMMA SameFiles ==
    ASSUME UNCHANGED program
    PROVE  /\ \A f : Held(f)' = Held(f)
           /\ \A s, r : ReadSince(s, r)' <=> ReadSince(s, r)
           /\ \A f, x, y : NotBefore(f, x, y)' <=> NotBefore(f, x, y)
BY DEF Held, ReadSince, NotBefore, program

\* A step of p that changes its locals only.
LEMMA Goes ==
    ASSUME ProviderInv, NEW p \in Provider,
           UNCHANGED << program, compiler, cache, losses, holder, kept >>,
           NEW r \in Locals, me' = [me EXCEPT ![p] = r],
           HoldInv(p)', ValueInv(p)', ObservationInv(p)', CompiledInv(p)', BlobInv(p)'
    PROVE  ProviderInv'
<1>1. kept' = [kept EXCEPT ![p] = kept[p]] /\ kept[p] \in Kept /\ kept'[p].inputs = kept[p].inputs
  BY DEF ProviderInv, ProviderTyped
<1>2. MemoInv(p)'
  BY <1>1, MemoKept DEF ProviderInv, EmitInv
<1>3. EmitInv(p)'
  BY <1>2 DEF EmitInv
<1> QED
  BY <1>1, <1>3, MyStep

LEMMA BeginEmitInv ==
    ASSUME ProviderInv, NEW p \in Provider, BeginEmit(p)
    PROVE  ProviderInv'
<1> DEFINE r == [me[p] EXCEPT !.pc = "inspect"]
<1>1. me \in [Provider -> Locals] /\ me[p] \in Locals /\ EmitInv(p)
  BY DEF ProviderInv, ProviderTyped
<1>2. r \in Locals
  BY <1>1 DEF Locals, Label
<1>3. me' = [me EXCEPT ![p] = r] /\ me'[p] = r /\ UNCHANGED << program, compiler, cache, losses, holder, kept >>
  BY <1>1 DEF BeginEmit
<1>4. /\ r.pc = "inspect" /\ r.rows = << >> /\ r.losses = me[p].losses /\ holder # p /\ holder' # p
  BY <1>1, <1>3 DEF BeginEmit, At, EmitInv, ValueInv, HoldInv, Locals
<1>5. HoldInv(p)' /\ ValueInv(p)'
  BY <1>3, <1>4 DEF HoldInv, ValueInv, Publishing
<1>6. ObservationInv(p)' /\ CompiledInv(p)'
  BY <1>3, <1>4 DEF ObservationInv, CompiledInv, Publishing
<1>7. BlobInv(p)'
  BY <1>1, <1>3, <1>4 DEF BlobInv, EmitInv
<1> QED
  BY <1>2, <1>3, <1>5, <1>6, <1>7, Goes

\* emit goes on with an inspection, or refuses it.
LEMMA InspectedInv ==
    ASSUME ProviderInv, NEW p \in Provider, me[p].pc \in {"inspect", "sign"},
           NEW value \in Inspection, Inspected(p, value), Stay,
           NEW k \in Kept, kept' = [kept EXCEPT ![p] = k], k.inputs = kept[p].inputs
    PROVE  ProviderInv'
<1>1. me \in [Provider -> Locals] /\ me[p] \in Locals /\ EmitInv(p) /\ losses \in Nat
  BY DEF ProviderInv, ProviderTyped
<1>2. /\ UNCHANGED << program, compiler, cache, losses, holder >> /\ kept'[p] = k
      /\ kept'[p].inputs = kept[p].inputs
  BY DEF Inspected, Stay, counts, ProviderInv, ProviderTyped
<1>3. MemoInv(p)'
  BY <1>1, <1>2, MemoKept DEF EmitInv
<1>4. CASE value.ready \/ Second(p)
  <2> DEFINE r == [me[p] EXCEPT !.pc = "list", !.info = value, !.got = None]
  <2>1. r \in Locals
    BY <1>1 DEF Locals, Label, Got
  <2>2. me' = [me EXCEPT ![p] = r] /\ me'[p] = r
    BY <1>1, <1>4 DEF Inspected
  <2>3. /\ r.pc = "list" /\ r.info = value /\ r.inputs = me[p].inputs /\ r.compiled = me[p].compiled
        /\ r.rows = << >> /\ r.losses = me[p].losses
    BY <1>1 DEF EmitInv, ValueInv, Locals
  <2> HIDE DEF r
  <2>4. HoldInv(p)' /\ ValueInv(p)' /\ ObservationInv(p)' /\ BlobInv(p)'
    BY <1>1, <1>2, <2>2, <2>3 DEF HoldInv, ValueInv, ObservationInv, BlobInv, EmitInv, Publishing
  <2>5. CompiledInv(p)'
    BY <1>1, <1>2, <2>2, <2>3, SameFiles DEF CompiledInv, EmitInv, Publishing, Looking
  <2> QED
    BY <1>2, <1>3, <2>1, <2>2, <2>4, <2>5, MyStep DEF EmitInv
<1>5. CASE ~(value.ready \/ Second(p))
  <2>1. me' = [me EXCEPT ![p] = Idle] /\ me'[p] = Idle /\ holder' # p
    BY <1>1, <1>2, <1>5 DEF Inspected, Second
  <2>2. EmitInv(p)'
    BY <1>1, <1>2, <1>3, <2>1, IdleInv
  <2> QED
    BY <1>2, <2>1, <2>2, IdleTyped, MyStep
<1> QED
  BY <1>4, <1>5

\* A step of p within the looking of an emit.
LEMMA Looks ==
    ASSUME ProviderInv, NEW p \in Provider, me[p].pc \in Looking,
           UNCHANGED << program, compiler, cache, losses, holder, kept >>,
           NEW r \in Locals, me' = [me EXCEPT ![p] = r],
           r.pc \in {"digest", "sign"}, r.inputs = me[p].inputs, r.compiled = me[p].compiled,
           r.losses = me[p].losses, r.rows = << >>,
           r.pc = "digest" => r.got \in Checkout, r.pc = "sign" => r.got \in Inspection
    PROVE  ProviderInv'
<1>1. EmitInv(p) /\ me'[p] = r
  BY DEF ProviderInv, ProviderTyped
<1>2. HoldInv(p)' /\ ValueInv(p)' /\ ObservationInv(p)' /\ BlobInv(p)'
  BY <1>1 DEF HoldInv, ValueInv, ObservationInv, BlobInv, EmitInv, Publishing
<1>3. CompiledInv(p)'
  BY <1>1, SameFiles DEF CompiledInv, EmitInv, Publishing, Looking
<1> QED
  BY <1>2, <1>3, Goes

LEMMA InspectInv ==
    ASSUME ProviderInv, NEW p \in Provider, Inspect(p)
    PROVE  ProviderInv'
<1> DEFINE memo == kept[p].inspection
           hit == memo # None /\ memo.signature = CheckoutSignature
<1>1. me \in [Provider -> Locals] /\ me[p] \in Locals /\ EmitInv(p) /\ kept \in [Provider -> Kept] /\ me[p].pc = "inspect"
  BY DEF ProviderInv, ProviderTyped, Inspect, At
<1>2. CASE hit /\ Inspected(p, memo.value) /\ Stay /\ UNCHANGED kept
  <2>1. memo.value \in Inspection /\ kept[p] \in Kept /\ kept' = [kept EXCEPT ![p] = kept[p]]
    BY <1>1, <1>2 DEF Kept
  <2> QED
    BY <1>1, <1>2, <2>1, InspectedInv
<1>3. CASE FailEmit(p)
  BY <1>3, FailEmitInv
<1>4. CASE exe # None /\ me' = [me EXCEPT ![p].pc = "digest", ![p].got = exe] /\ Stay /\ UNCHANGED << holder, kept >>
  <2> DEFINE r == [me[p] EXCEPT !.pc = "digest", !.got = exe]
  <2>0. exe \in Checkout
    BY <1>4 DEF ProviderInv, ProviderTyped
  <2>1. r \in Locals
    BY <1>1, <2>0 DEF Locals, Label, Got
  <2>2. me' = [me EXCEPT ![p] = r]
    BY <1>1, <1>4
  <2>3. /\ r.pc = "digest" /\ r.got = exe /\ r.inputs = me[p].inputs /\ r.compiled = me[p].compiled
        /\ r.rows = << >> /\ r.losses = me[p].losses
    BY <1>1 DEF EmitInv, ValueInv, Locals
  <2> HIDE DEF r
  <2>4. UNCHANGED << program, compiler, cache, losses, holder, kept >>
    BY <1>4 DEF Stay, counts
  <2> QED
    BY <1>1, <2>0, <2>1, <2>2, <2>3, <2>4, Looks DEF Looking
<1> QED
  BY <1>2, <1>3, <1>4 DEF Inspect

LEMMA DigestInv ==
    ASSUME ProviderInv, NEW p \in Provider, Digest(p)
    PROVE  ProviderInv'
<1> DEFINE value == [producer |-> me[p].got, exe |-> exe, ready |-> tree = me[p].got]
           r == [me[p] EXCEPT !.pc = "sign", !.got = value]
<1>1. me \in [Provider -> Locals] /\ me[p] \in Locals /\ EmitInv(p) /\ me[p].pc = "digest"
  BY DEF ProviderInv, ProviderTyped, Digest, At
<1>2. value \in Inspection
  BY <1>1 DEF Inspection, EmitInv, ValueInv, ProviderInv, ProviderTyped
<1>3. me' = [me EXCEPT ![p].pc = "sign", ![p].got = value] /\ UNCHANGED << program, compiler, cache, losses, holder, kept >>
  BY DEF Digest, Stay, counts
<1> HIDE DEF value
<1>4. r \in Locals /\ me' = [me EXCEPT ![p] = r]
  BY <1>1, <1>2, <1>3 DEF Locals, Label, Got
<1>5. /\ r.pc = "sign" /\ r.got = value /\ r.inputs = me[p].inputs /\ r.compiled = me[p].compiled
      /\ r.rows = << >> /\ r.losses = me[p].losses
  BY <1>1 DEF EmitInv, ValueInv, Locals
<1> HIDE DEF r
<1> QED
  BY <1>1, <1>2, <1>3, <1>4, <1>5, Looks DEF Looking

LEMMA SignInv ==
    ASSUME ProviderInv, NEW p \in Provider, Sign(p)
    PROVE  ProviderInv'
<1> DEFINE m == [value |-> me[p].got, signature |-> CheckoutSignature]
           k == [kept[p] EXCEPT !.inspection = m]
<1>1. kept \in [Provider -> Kept] /\ me[p].pc = "sign" /\ me[p].got \in Inspection
  BY DEF ProviderInv, ProviderTyped, Sign, At, EmitInv, ValueInv
<1>2. CheckoutSignature \in Nat \X Nat
  BY DEF CheckoutSignature, ProviderInv, ProviderTyped
<1>3. k \in Kept /\ k.inputs = kept[p].inputs
  BY <1>1, <1>2 DEF Kept
<1>4. kept' = [kept EXCEPT ![p] = k]
  BY <1>1 DEF Sign
<1> HIDE DEF k
<1> QED
  BY <1>1, <1>3, <1>4, InspectedInv DEF Sign

\* Functions on some of the files.
LEMMA Partial ==
    ASSUME NEW S
    PROVE  /\ \A r \in On(S) : DOMAIN r \subseteq File /\ r \in [DOMAIN r -> S]
           /\ \A fs \in SUBSET File : [fs -> S] \subseteq On(S)
BY DEF On

\* A memo with the current signature holds what the files hold.
LEMMA CurrentMemo ==
    ASSUME ProviderInv, NEW p \in Provider, me[p].pc = "list", kept[p].inputs # None,
           kept[p].inputs.signature = InputsSignature(p)
    PROVE  /\ kept[p].inputs.value \in Inputs
           /\ kept[p].inputs.value.rows = file
           /\ kept[p].inputs.value.producer = me[p].info.producer
<1> DEFINE memo == kept[p].inputs
           stamps == [f \in Present |-> stamp[f]]
<1>1. memo \in [value : Inputs, signature : Signature] /\ MemoInv(p)
  BY DEF ProviderInv, ProviderTyped, EmitInv, Kept
<1>2. memo.value \in Inputs /\ memo.value.rows \in [File -> Bytes] /\ file \in [File -> Bytes]
  BY <1>1 DEF Inputs, ProviderInv, ProviderTyped
<1>3. memo.signature.stamps = stamps /\ memo.signature.producer = me[p].info.producer
  BY DEF InputsSignature
<1>4. memo.value.producer = memo.signature.producer
  BY <1>1 DEF MemoInv
<1>5. ReadSince(stamps, [f \in Present |-> memo.value.rows[f]])
  BY <1>1, <1>3 DEF MemoInv
<1>6. \A f \in Present : memo.value.rows[f] = file[f]
  BY <1>5 DEF ReadSince
<1>7. \A f \in File \ Present : memo.value.rows[f] = None
  BY <1>1, <1>3 DEF MemoInv
<1>8. \A f \in File : memo.value.rows[f] = file[f]
  BY <1>6, <1>7 DEF Present
<1> QED
  BY <1>2, <1>3, <1>4, <1>8

\* What is read now of a file agrees with the first observation only if the
\* probe's reading did.
LEMMA ReadNow ==
    ASSUME PastInv, NEW f \in File, NEW x, NEW y, NotBefore(f, x, y), file[f] = x
    PROVE  y = x
BY DEF PastInv, NotBefore

LEMMA ListInv ==
    ASSUME ProviderInv, NEW p \in Provider, List(p)
    PROVE  ProviderInv'
<1> DEFINE memo == kept[p].inputs
           signature == InputsSignature(p)
<1>1. /\ me \in [Provider -> Locals] /\ me[p] \in Locals /\ EmitInv(p) /\ me[p].pc = "list" /\ PastInv
      /\ me[p].info \in Inspection /\ me[p].rows = << >>
  BY DEF ProviderInv, ProviderTyped, List, At, EmitInv, ValueInv
<1>2. UNCHANGED << program, compiler, cache, losses, holder, kept >>
  BY DEF List, Stay, counts
<1>3. CASE memo # None /\ memo.signature = signature
  <2> DEFINE r == [me[p] EXCEPT !.pc = "observed", !.got = memo.value]
  <2>1. memo.value \in Inputs /\ memo.value.rows = file /\ memo.value.producer = me[p].info.producer
    BY <1>1, <1>3, CurrentMemo
  <2>2. r \in Locals /\ me' = [me EXCEPT ![p] = r] /\ me'[p] = r
    BY <1>1, <1>3, <2>1 DEF Locals, Label, Got, List
  <2>3. /\ r.pc = "observed" /\ r.got = memo.value /\ r.info = me[p].info /\ r.inputs = me[p].inputs
        /\ r.compiled = me[p].compiled /\ r.rows = << >> /\ r.losses = me[p].losses
    BY <1>1 DEF Locals
  <2> HIDE DEF r, memo
  <2>4. HoldInv(p)' /\ ValueInv(p)' /\ BlobInv(p)'
    BY <1>1, <1>2, <2>1, <2>2, <2>3 DEF HoldInv, ValueInv, BlobInv, EmitInv, Publishing
  <2>5. \A f \in File : r.got.rows[f] \in Held(f)'
    BY <1>2, <2>1, <2>3, SameFiles DEF Held
  <2>6. ObservationInv(p)'
    BY <2>2, <2>3, <2>5 DEF ObservationInv
  <2>7. holder = p => \A f \in File : r.got.rows[f] = r.inputs.rows[f] => r.compiled.rows[f] = r.inputs.rows[f]
    BY <1>1, <2>1, <2>3, ReadNow, ZenonT(60) DEF EmitInv, CompiledInv, Looking
  <2>8. CompiledInv(p)'
    BY <1>1, <1>2, <2>2, <2>3, <2>7, SameFiles DEF CompiledInv, EmitInv, Publishing, Looking
  <2> QED
    BY <1>2, <2>2, <2>4, <2>6, <2>8, Goes
<1>4. CASE ~(memo # None /\ memo.signature = signature)
  <2> DEFINE stamps == [f \in Present |-> stamp[f]]
             r == [me[p] EXCEPT !.pc = "hash", !.got = signature, !.rows = << >>]
  <2>1. stamps \in On(Nat)
    <3>1. stamps \in [Present -> Nat] /\ Present \in SUBSET File
      BY DEF Present, ProviderInv, ProviderTyped
    <3> QED
      BY <3>1, Partial
  <2>2. signature \in Signature /\ signature.producer = me[p].info.producer /\ signature.stamps = stamps
    BY <1>1, <2>1 DEF Signature, InputsSignature, Inspection
  <2> HIDE DEF signature
  <2>3. r \in Locals /\ me' = [me EXCEPT ![p] = r] /\ me'[p] = r
    BY <1>1, <1>4, <2>2, NoRows DEF Locals, Label, Got, List, signature
  <2>4. /\ r.pc = "hash" /\ r.got = signature /\ r.info = me[p].info /\ r.inputs = me[p].inputs
        /\ r.compiled = me[p].compiled /\ r.rows = << >> /\ r.losses = me[p].losses
    BY <1>1 DEF Locals
  <2> HIDE DEF r
  <2>5. HoldInv(p)' /\ ValueInv(p)' /\ BlobInv(p)'
    BY <1>1, <1>2, <2>2, <2>3, <2>4 DEF HoldInv, ValueInv, BlobInv, EmitInv, Publishing
  <2>6. ReadSince(r.got.stamps, r.rows)
    <3>1. \A f \in DOMAIN stamps : stamps[f] <= stamp[f]
      BY DEF Present, ProviderInv, ProviderTyped
    <3> QED
      BY <2>2, <2>4, <3>1, NoRows DEF ReadSince
  <2>7. \A f \in File \ DOMAIN stamps : None \in Held(f)'
    BY <1>2, SameFiles DEF Held, Present
  <2>8. ObservationInv(p)'
    BY <1>2, <2>2, <2>3, <2>4, <2>6, <2>7, NoRows, SameFiles DEF ObservationInv
  <2>9. holder = p => \A f \in File \ DOMAIN stamps : me[p].inputs.rows[f] = None => me[p].compiled.rows[f] = me[p].inputs.rows[f]
    BY <1>1, ReadNow, ZenonT(60) DEF EmitInv, CompiledInv, Looking, Present
  <2>10. CompiledInv(p)'
    BY <1>1, <1>2, <2>2, <2>3, <2>4, <2>9, SameFiles, NoRows DEF CompiledInv, EmitInv, Publishing, Looking
  <2> QED
    BY <1>2, <2>3, <2>5, <2>8, <2>10, Goes
<1> QED
  BY <1>3, <1>4

\* One more row is read.
LEMMA RowRead ==
    ASSUME ProviderInv, NEW p \in Provider, NEW f \in File
    PROVE  /\ ReadRow(p, f) \in On(Bytes)
           /\ DOMAIN ReadRow(p, f) = DOMAIN me[p].rows \union {f}
           /\ \A g \in DOMAIN ReadRow(p, f) : ReadRow(p, f)[g] = IF g = f THEN file[f] ELSE me[p].rows[g]
<1>1. me[p].rows \in On(Bytes) /\ file \in [File -> Bytes]
  BY DEF ProviderInv, ProviderTyped, Locals
<1>2. DOMAIN me[p].rows \subseteq File /\ me[p].rows \in [DOMAIN me[p].rows -> Bytes]
  BY <1>1, Partial
<1>3. /\ DOMAIN ReadRow(p, f) = DOMAIN me[p].rows \union {f}
      /\ \A g \in DOMAIN ReadRow(p, f) : ReadRow(p, f)[g] = IF g = f THEN file[f] ELSE me[p].rows[g]
  BY DEF ReadRow
<1>4. ReadRow(p, f) \in [DOMAIN me[p].rows \union {f} -> Bytes]
  BY <1>1, <1>2 DEF ReadRow
<1>5. ReadRow(p, f) \in On(Bytes)
  BY <1>2, <1>4, Partial
<1> QED
  BY <1>3, <1>5

\* The memo of a complete reading.
LEMMA HashedMemo ==
    ASSUME NEW p \in Provider, NEW rows, NEW value \in Inputs, NEW signature \in Signature,
           ReadSince(signature.stamps, rows), DOMAIN rows = DOMAIN signature.stamps, DOMAIN rows \subseteq File,
           value.producer = signature.producer,
           \A f \in File : value.rows[f] = IF f \in DOMAIN signature.stamps THEN rows[f] ELSE None,
           UNCHANGED program, kept'[p].inputs = [value |-> value, signature |-> signature]
    PROVE  MemoInv(p)'
<1>1. ReadSince(signature.stamps, [f \in DOMAIN signature.stamps |-> value.rows[f]])
  BY DEF ReadSince
<1>2. ReadSince(signature.stamps, [f \in DOMAIN signature.stamps |-> value.rows[f]])'
  BY <1>1 DEF ReadSince, program
<1> DEFINE memo == [value |-> value, signature |-> signature]
<1>3. memo.value = value /\ memo.signature = signature
  OBVIOUS
<1>4. kept'[p].inputs = memo
  OBVIOUS
<1> HIDE DEF memo
<1> QED
  BY <1>2, <1>3, <1>4 DEF MemoInv

LEMMA HashInv ==
    ASSUME ProviderInv, NEW p \in Provider, Hash(p)
    PROVE  ProviderInv'
<1> DEFINE listed == DOMAIN me[p].got.stamps
           left == listed \ DOMAIN me[p].rows
           f == CHOOSE g \in left : TRUE
           value == [rows |-> [g \in File |-> IF g \in listed THEN me[p].rows[g] ELSE None],
                     producer |-> me[p].got.producer, exe |-> me[p].got.exe]
<1>1. /\ me \in [Provider -> Locals] /\ me[p] \in Locals /\ EmitInv(p) /\ me[p].pc = "hash" /\ PastInv
      /\ me[p].info \in Inspection /\ me[p].got \in Signature /\ me[p].got.producer = me[p].info.producer
  BY DEF ProviderInv, ProviderTyped, Hash, At, EmitInv, ValueInv
<1>2. listed \subseteq File /\ DOMAIN me[p].rows \subseteq File /\ me[p].rows \in [DOMAIN me[p].rows -> Bytes]
  BY <1>1, Partial DEF Signature, Locals
<1>3. /\ ReadSince(me[p].got.stamps, me[p].rows) /\ DOMAIN me[p].rows \subseteq listed
      /\ \A g \in DOMAIN me[p].rows : me[p].rows[g] \in Held(g)
      /\ \A g \in File \ listed : None \in Held(g)
  BY <1>1 DEF EmitInv, ObservationInv, ReadSince
<1>4. holder = p =>
          /\ me[p].inputs \in Inputs /\ me[p].compiled \in Artifact
          /\ \A g \in File : NotBefore(g, me[p].inputs.rows[g], me[p].compiled.rows[g])
          /\ \A g \in DOMAIN me[p].rows : me[p].rows[g] = me[p].inputs.rows[g] => me[p].compiled.rows[g] = me[p].inputs.rows[g]
          /\ \A g \in File \ listed : me[p].inputs.rows[g] = None => me[p].compiled.rows[g] = me[p].inputs.rows[g]
  BY <1>1 DEF EmitInv, CompiledInv, Looking
<1>5. CASE FailEmit(p)
  BY <1>5, FailEmitInv
<1>6. CASE left # {} /\ me' = [me EXCEPT ![p].rows = ReadRow(p, f)] /\ Stay /\ UNCHANGED << holder, kept >>
  <2> DEFINE r == [me[p] EXCEPT !.rows = ReadRow(p, f)]
  <2>1. f \in left /\ f \in File /\ f \in listed
    BY <1>2, <1>6
  <2>2. UNCHANGED << program, compiler, cache, losses, holder, kept >>
    BY <1>6 DEF Stay, counts
  <2> HIDE DEF f
  <2>3. r \in Locals /\ me' = [me EXCEPT ![p] = r] /\ me'[p] = r
    BY <1>1, <1>6, <2>1, RowRead DEF Locals
  <2>4. /\ r.pc = "hash" /\ r.got = me[p].got /\ r.info = me[p].info /\ r.inputs = me[p].inputs
        /\ r.compiled = me[p].compiled /\ r.losses = me[p].losses
        /\ DOMAIN r.rows = DOMAIN me[p].rows \union {f}
        /\ \A g \in DOMAIN r.rows : r.rows[g] = IF g = f THEN file[f] ELSE me[p].rows[g]
    <3>1. /\ r.pc = "hash" /\ r.got = me[p].got /\ r.info = me[p].info /\ r.inputs = me[p].inputs
          /\ r.compiled = me[p].compiled /\ r.losses = me[p].losses /\ r.rows = ReadRow(p, f)
      BY <1>1 DEF Locals
    <3> HIDE DEF r
    <3>2. /\ DOMAIN ReadRow(p, f) = DOMAIN me[p].rows \union {f}
          /\ \A g \in DOMAIN ReadRow(p, f) : ReadRow(p, f)[g] = IF g = f THEN file[f] ELSE me[p].rows[g]
      BY <2>1, RowRead
    <3>3. DOMAIN r.rows = DOMAIN me[p].rows \union {f}
      BY <3>1, <3>2
    <3>4. \A g \in DOMAIN r.rows : r.rows[g] = IF g = f THEN file[f] ELSE me[p].rows[g]
      BY <3>1, <3>2, Zenon
    <3> QED
      BY <3>1, <3>3, <3>4, Zenon
  <2> HIDE DEF r
  <2>5. HoldInv(p)' /\ ValueInv(p)' /\ BlobInv(p)'
    BY <1>1, <2>2, <2>3, <2>4 DEF HoldInv, ValueInv, BlobInv, EmitInv, Publishing
  <2>6. ReadSince(r.got.stamps, r.rows)
    BY <1>3, <2>1, <2>4 DEF ReadSince
  <2>7. \A g \in DOMAIN r.rows : r.rows[g] \in Held(g)
    BY <1>3, <2>4 DEF Held
  <2>8. ObservationInv(p)'
    BY <1>3, <2>2, <2>3, <2>4, <2>6, <2>7, SameFiles DEF ObservationInv
  <2>9. holder = p => \A g \in DOMAIN r.rows : r.rows[g] = me[p].inputs.rows[g] => me[p].compiled.rows[g] = me[p].inputs.rows[g]
    BY <1>1, <1>4, <2>1, <2>4, ReadNow
  <2>10. CompiledInv(p)'
    BY <1>1, <1>4, <2>2, <2>3, <2>4, <2>9, SameFiles DEF CompiledInv, EmitInv, Publishing, Looking
  <2> QED
    BY <2>2, <2>3, <2>5, <2>8, <2>10, Goes
<1>7. CASE /\ left = {}
           /\ kept' = [kept EXCEPT ![p].inputs = [value |-> value, signature |-> EarlySignature(p)]]
           /\ me' = [me EXCEPT ![p].pc = "observed", ![p].got = value, ![p].rows = << >>]
           /\ Stay /\ UNCHANGED holder
  <2> DEFINE m == [value |-> value, signature |-> me[p].got]
             r == [me[p] EXCEPT !.pc = "observed", !.got = value, !.rows = << >>]
             k == [kept[p] EXCEPT !.inputs = m]
  <2>1. listed = DOMAIN me[p].rows
    BY <1>3, <1>7
  <2>2. /\ value \in Inputs /\ value.producer = me[p].got.producer
        /\ \A g \in File : value.rows[g] = IF g \in listed THEN me[p].rows[g] ELSE None
    <3>1. [g \in File |-> IF g \in listed THEN me[p].rows[g] ELSE None] \in [File -> Bytes]
      BY <1>2, <2>1 DEF Bytes
    <3> QED
      BY <1>1, <3>1 DEF Inputs, Signature
  <2>3. UNCHANGED << program, compiler, cache, losses, holder >>
    BY <1>7 DEF Stay, counts
  <2>4. m \in [value : Inputs, signature : Signature]
    BY <1>1, <2>2
  <2>5. kept \in [Provider -> Kept] /\ kept' = [kept EXCEPT ![p].inputs = m]
    BY <1>7 DEF ProviderInv, ProviderTyped, EarlySignature
  <2>6. me' = [me EXCEPT ![p].pc = "observed", ![p].got = value, ![p].rows = << >>]
    BY <1>7
  <2> HIDE DEF value
  <2>7. r \in Locals /\ me' = [me EXCEPT ![p] = r] /\ me'[p] = r
    BY <1>1, <2>2, <2>6, NoRows DEF Locals, Label, Got
  <2>8. /\ r.pc = "observed" /\ r.got = value /\ r.info = me[p].info /\ r.inputs = me[p].inputs
        /\ r.compiled = me[p].compiled /\ r.rows = << >> /\ r.losses = me[p].losses
    BY <1>1 DEF Locals
  <2>9. k \in Kept /\ kept' = [kept EXCEPT ![p] = k] /\ kept'[p].inputs = m
    BY <2>4, <2>5 DEF Kept
  <2> HIDE DEF r, k
  <2>10. MemoInv(p)'
    BY <1>1, <1>3, <2>1, <2>2, <2>3, <2>9, <1>2, HashedMemo
  <2>11. HoldInv(p)' /\ ValueInv(p)' /\ BlobInv(p)'
    BY <1>1, <2>2, <2>3, <2>7, <2>8 DEF HoldInv, ValueInv, BlobInv, EmitInv, Publishing
  <2>12. \A g \in File : value.rows[g] \in Held(g)
    BY <1>3, <2>1, <2>2
  <2>13. ObservationInv(p)'
    BY <2>3, <2>7, <2>8, <2>12, SameFiles DEF ObservationInv
  <2>14. holder = p => \A g \in File : value.rows[g] = me[p].inputs.rows[g] => me[p].compiled.rows[g] = me[p].inputs.rows[g]
    BY <1>4, <2>1, <2>2
  <2>15. CompiledInv(p)'
    BY <1>1, <1>4, <2>3, <2>7, <2>8, <2>14, SameFiles DEF CompiledInv, EmitInv, Publishing, Looking
  <2>16. EmitInv(p)'
    BY <2>10, <2>11, <2>13, <2>15 DEF EmitInv
  <2> QED
    BY <2>3, <2>7, <2>9, <2>16, MyStep
<1> QED
  BY <1>5, <1>6, <1>7 DEF Hash

\* The first observation names the product; the second releases the compiled
\* artifact only if it was compiled from what the first one says.
LEMMA ObservedInv ==
    ASSUME ProviderInv, NEW p \in Provider, Observed(p)
    PROVE  ProviderInv'
<1>1. /\ me \in [Provider -> Locals] /\ me[p] \in Locals /\ EmitInv(p) /\ me[p].pc = "observed"
      /\ me[p].info \in Inspection /\ me[p].got \in Inputs /\ me[p].got.producer = me[p].info.producer
      /\ me[p].rows = << >> /\ \A f \in File : me[p].got.rows[f] \in Held(f)
  BY DEF ProviderInv, ProviderTyped, Observed, At, EmitInv, ValueInv, ObservationInv
<1>2. CASE FailEmit(p)
  BY <1>2, FailEmitInv
<1>3. CASE /\ Second(p) /\ me[p].got = me[p].inputs
           /\ me' = [me EXCEPT ![p].pc = PublishOrder[1], ![p].got = None]
           /\ Stay /\ UNCHANGED << holder, kept >>
  <2> DEFINE r == [me[p] EXCEPT !.pc = "artifact", !.got = None]
  <2>1. holder = p /\ UNCHANGED << program, compiler, cache, losses, holder, kept >>
    BY <1>3 DEF Second, Stay, counts
  <2>2. PublishOrder[1] = "artifact"
    BY DEF PublishOrder
  <2>3. r \in Locals /\ me' = [me EXCEPT ![p] = r] /\ me'[p] = r
    BY <1>1, <1>3, <2>2 DEF Locals, Label, Got
  <2>4. /\ r.pc = "artifact" /\ r.info = me[p].info /\ r.inputs = me[p].inputs
        /\ r.compiled = me[p].compiled /\ r.rows = << >> /\ r.losses = me[p].losses
    BY <1>1 DEF Locals
  <2> HIDE DEF r
  <2>5. HoldInv(p)' /\ ValueInv(p)' /\ ObservationInv(p)' /\ BlobInv(p)'
    BY <1>1, <2>1, <2>3, <2>4 DEF HoldInv, ValueInv, ObservationInv, BlobInv, EmitInv, Publishing
  <2>6. /\ me[p].inputs \in Inputs /\ me[p].compiled \in Artifact
        /\ me[p].compiled.producer = me[p].inputs.producer
        /\ \A f \in File : me[p].got.rows[f] = me[p].inputs.rows[f] => me[p].compiled.rows[f] = me[p].inputs.rows[f]
    BY <1>1, <2>1 DEF EmitInv, CompiledInv, Looking
  <2>7. me[p].compiled.rows = me[p].inputs.rows
    BY <1>3, <2>6 DEF Inputs, Artifact
  <2>8. me[p].compiled = [rows |-> me[p].inputs.rows, producer |-> me[p].inputs.producer]
    BY <2>6, <2>7 DEF Artifact
  <2>9. CompiledInv(p)'
    BY <2>3, <2>4, <2>6, <2>8 DEF CompiledInv, Publishing, Looking
  <2> QED
    BY <2>1, <2>3, <2>5, <2>9, Goes
<1>4. CASE /\ ~Second(p)
           /\ me' = [me EXCEPT ![p].pc = "wait", ![p].inputs = me[p].got, ![p].got = None]
           /\ Stay /\ UNCHANGED << holder, kept >>
  <2> DEFINE r == [me[p] EXCEPT !.pc = "wait", !.inputs = me[p].got, !.got = None]
  <2>1. holder # p /\ UNCHANGED << program, compiler, cache, losses, holder, kept >>
    BY <1>4 DEF Second, Stay, counts
  <2>2. r \in Locals /\ me' = [me EXCEPT ![p] = r] /\ me'[p] = r
    BY <1>1, <1>4 DEF Locals, Label, Got
  <2>3. /\ r.pc = "wait" /\ r.info = me[p].info /\ r.inputs = me[p].got
        /\ r.compiled = me[p].compiled /\ r.rows = << >> /\ r.losses = me[p].losses
    BY <1>1 DEF Locals
  <2> HIDE DEF r
  <2>4. HoldInv(p)' /\ ValueInv(p)' /\ BlobInv(p)'
    BY <1>1, <2>1, <2>2, <2>3 DEF HoldInv, ValueInv, BlobInv, EmitInv, Publishing
  <2>5. ObservationInv(p)'
    BY <1>1, <2>1, <2>2, <2>3, SameFiles DEF ObservationInv
  <2>6. CompiledInv(p)'
    BY <2>2, <2>3 DEF CompiledInv, Publishing, Looking
  <2> QED
    BY <2>1, <2>2, <2>4, <2>5, <2>6, Goes
<1> QED
  BY <1>2, <1>3, <1>4 DEF Observed

LEMMA FlockInv ==
    ASSUME ProviderInv, NEW p \in Provider, Flock(p)
    PROVE  ProviderInv'
<1> DEFINE r == [me[p] EXCEPT !.pc = "lookup", !.losses = losses]
<1>1. /\ me \in [Provider -> Locals] /\ me[p] \in Locals /\ EmitInv(p) /\ me[p].pc = "wait" /\ losses \in Nat
      /\ kept' = [kept EXCEPT ![p] = kept[p]] /\ kept[p] \in Kept /\ kept'[p].inputs = kept[p].inputs
  BY DEF ProviderInv, ProviderTyped, Flock, At
<1>2. UNCHANGED << program, compiler, cache, losses >>
  BY DEF Flock, Stay, counts
<1>3. r \in Locals /\ me' = [me EXCEPT ![p] = r] /\ me'[p] = r
  BY <1>1 DEF Locals, Label, Flock
<1>4. /\ r.pc = "lookup" /\ r.info = me[p].info /\ r.inputs = me[p].inputs
      /\ r.rows = << >> /\ r.losses = losses
  BY <1>1 DEF Locals, EmitInv, ValueInv
<1> HIDE DEF r
<1>5. holder' = p /\ \A q \in Provider \ {p} : holder' = q <=> holder = q
  BY VmProviderAssumption DEF Flock
<1>6. HoldInv(p)' /\ ValueInv(p)' /\ BlobInv(p)'
  BY <1>1, <1>2, <1>3, <1>4, <1>5 DEF HoldInv, ValueInv, BlobInv, EmitInv, Publishing
<1>7. ObservationInv(p)'
  BY <1>1, <1>2, <1>3, <1>4, SameFiles DEF ObservationInv, EmitInv
<1>8. CompiledInv(p)'
  BY <1>3, <1>4 DEF CompiledInv, Publishing, Looking
<1>9. MemoInv(p)'
  BY <1>1, <1>2, MemoKept DEF EmitInv
<1>10. EmitInv(p)'
  BY <1>6, <1>7, <1>8, <1>9 DEF EmitInv
<1> QED
  BY <1>1, <1>2, <1>3, <1>5, <1>10, MyStep

LEMMA LookupInv ==
    ASSUME ProviderInv, NEW p \in Provider, Lookup(p)
    PROVE  ProviderInv'
<1> DEFINE found == {x \in product : x.key = me[p].inputs /\ Usable(x)}
<1>1. /\ me \in [Provider -> Locals] /\ me[p] \in Locals /\ EmitInv(p) /\ me[p].pc = "lookup" /\ losses \in Nat
      /\ me[p].rows = << >> /\ kept \in [Provider -> Kept] /\ holder = p
  BY DEF ProviderInv, ProviderTyped, Lookup, At, EmitInv, ValueInv, HoldInv
<1>2. CASE FailEmit(p)
  BY <1>2, FailEmitInv
<1>3. ASSUME NEW x \in found,
             me' = [me EXCEPT ![p] = [Idle EXCEPT !.pc = "returned", !.compiled = x.artifact,
                                                  !.inputs = me[p].inputs, !.losses = me[p].losses]],
             holder' = None, Stay, UNCHANGED kept
      PROVE  ProviderInv'
  <2> DEFINE r == [Idle EXCEPT !.pc = "returned", !.compiled = x.artifact,
                               !.inputs = me[p].inputs, !.losses = me[p].losses]
  <2>1. x \in product /\ Usable(x) /\ x.artifact \in Artifact
    BY DEF ProviderInv, ProviderTyped, Product
  <2>2. r \in Locals /\ me' = [me EXCEPT ![p] = r] /\ me'[p] = r
    BY <1>1, <1>3, <2>1, IdleTyped DEF Locals, Label, Idle, Got
  <2>3. r.pc = "returned" /\ r.compiled = x.artifact /\ r.rows = << >> /\ r.losses = me[p].losses
    BY DEF Idle
  <2> HIDE DEF r
  <2>4. /\ UNCHANGED << program, compiler, cache, losses >>
        /\ kept' = [kept EXCEPT ![p] = kept[p]] /\ kept[p] \in Kept /\ kept'[p].inputs = kept[p].inputs
    BY <1>1, <1>3 DEF Stay, counts
  <2>5. holder' # p /\ \A q \in Provider \ {p} : holder' = q <=> holder = q
    BY <1>1, <1>3, VmProviderAssumption
  <2>6. Complete(x.artifact)'
    BY <2>1, <2>4 DEF Usable, Complete, cache
  <2>7. HoldInv(p)' /\ ValueInv(p)' /\ ObservationInv(p)' /\ CompiledInv(p)'
    BY <2>2, <2>3, <2>5 DEF HoldInv, ValueInv, ObservationInv, CompiledInv, Publishing, Looking
  <2>8. BlobInv(p)'
    BY <1>1, <2>1, <2>2, <2>3, <2>4, <2>6 DEF BlobInv, EmitInv, Complete
  <2>9. MemoInv(p)'
    BY <1>1, <2>4, MemoKept DEF EmitInv
  <2>10. EmitInv(p)'
    BY <2>7, <2>8, <2>9 DEF EmitInv
  <2> QED
    BY <2>2, <2>4, <2>5, <2>10, MyStep
<1>4. CASE exe # None /\ me' = [me EXCEPT ![p].pc = "compile", ![p].got = exe] /\ Stay /\ UNCHANGED << holder, kept >>
  <2> DEFINE r == [me[p] EXCEPT !.pc = "compile", !.got = exe]
  <2>1. exe \in Checkout /\ UNCHANGED << program, compiler, cache, losses, holder, kept >>
    BY <1>4 DEF ProviderInv, ProviderTyped, Stay, counts
  <2>2. r \in Locals /\ me' = [me EXCEPT ![p] = r] /\ me'[p] = r
    BY <1>1, <1>4, <2>1 DEF Locals, Label, Got
  <2>3. /\ r.pc = "compile" /\ r.got = exe /\ r.info = me[p].info /\ r.inputs = me[p].inputs
        /\ r.rows = << >> /\ r.losses = me[p].losses
    BY <1>1 DEF Locals
  <2> HIDE DEF r
  <2>4. HoldInv(p)' /\ ValueInv(p)' /\ BlobInv(p)'
    BY <1>1, <2>1, <2>2, <2>3 DEF HoldInv, ValueInv, BlobInv, EmitInv, Publishing
  <2>5. ObservationInv(p)'
    BY <1>1, <2>1, <2>2, <2>3, SameFiles DEF ObservationInv, EmitInv
  <2>6. CompiledInv(p)'
    BY <2>2, <2>3, NoRows DEF CompiledInv, Publishing, Looking
  <2> QED
    BY <2>1, <2>2, <2>4, <2>5, <2>6, Goes
<1> QED
  BY <1>2, <1>3, <1>4 DEF Lookup

\* The probe reads no earlier than the first observation was made.
LEMMA CompileInv ==
    ASSUME ProviderInv, NEW p \in Provider, Compile(p)
    PROVE  ProviderInv'
<1>1. /\ me \in [Provider -> Locals] /\ me[p] \in Locals /\ EmitInv(p) /\ me[p].pc = "compile" /\ holder = p
      /\ me[p].info \in Inspection /\ me[p].got \in Checkout
      /\ me[p].inputs \in Inputs /\ me[p].inputs.producer = me[p].info.producer
      /\ \A f \in File : me[p].inputs.rows[f] \in Held(f)
      /\ \A f \in DOMAIN me[p].rows : NotBefore(f, me[p].inputs.rows[f], me[p].rows[f])
  BY DEF ProviderInv, ProviderTyped, Compile, At, EmitInv, ValueInv, ObservationInv, CompiledInv, HoldInv
<1>2. CASE FailEmit(p)
  BY <1>2, FailEmitInv
<1>3. ASSUME NEW f \in File, me' = [me EXCEPT ![p].rows = ReadRow(p, f)], Stay, UNCHANGED << holder, kept >>
      PROVE  ProviderInv'
  <2> DEFINE r == [me[p] EXCEPT !.rows = ReadRow(p, f)]
  <2>1. UNCHANGED << program, compiler, cache, losses, holder, kept >>
    BY <1>3 DEF Stay, counts
  <2>2. r \in Locals /\ me' = [me EXCEPT ![p] = r] /\ me'[p] = r
    BY <1>1, <1>3, RowRead DEF Locals
  <2>3. /\ r.pc = "compile" /\ r.got = me[p].got /\ r.info = me[p].info /\ r.inputs = me[p].inputs
        /\ r.compiled = me[p].compiled /\ r.losses = me[p].losses /\ r.rows = ReadRow(p, f)
    BY <1>1 DEF Locals
  <2> HIDE DEF r
  <2>4. HoldInv(p)' /\ ValueInv(p)' /\ BlobInv(p)'
    BY <1>1, <2>1, <2>2, <2>3 DEF HoldInv, ValueInv, BlobInv, EmitInv, Publishing
  <2>5. ObservationInv(p)'
    BY <1>1, <2>1, <2>2, <2>3, SameFiles DEF ObservationInv
  <2>6. ASSUME NEW g \in DOMAIN r.rows PROVE NotBefore(g, me[p].inputs.rows[g], r.rows[g])
    <3>1. DOMAIN r.rows = DOMAIN me[p].rows \union {f}
      BY <2>3, RowRead
    <3>2. CASE g = f
      <4>1. r.rows[g] = file[g]
        BY <2>3, <3>2, RowRead, Zenon
      <4> QED
        BY <1>1, <3>2, <4>1 DEF Held, NotBefore
    <3>3. CASE g # f
      <4>1. g \in DOMAIN ReadRow(p, f) /\ r.rows[g] = ReadRow(p, f)[g]
        BY <2>3
      <4>2. r.rows[g] = me[p].rows[g]
        BY <3>3, <4>1 DEF ReadRow
      <4> QED
        BY <1>1, <3>1, <3>3, <4>2
    <3> QED
      BY <3>2, <3>3
  <2>7. CompiledInv(p)'
    BY <2>1, <2>2, <2>3, <2>6, SameFiles DEF CompiledInv, Publishing, Looking
  <2> QED
    BY <2>1, <2>2, <2>4, <2>5, <2>7, Goes
<1>4. CASE /\ DOMAIN me[p].rows = File /\ me[p].got = me[p].info.producer
           /\ me' = [me EXCEPT ![p].pc = "inspect", ![p].got = None, ![p].rows = << >>,
                               ![p].compiled = [rows |-> me[p].rows, producer |-> me[p].got]]
           /\ Stay /\ UNCHANGED << holder, kept >>
  <2> DEFINE x == [rows |-> me[p].rows, producer |-> me[p].got]
             r == [me[p] EXCEPT !.pc = "inspect", !.got = None, !.rows = << >>, !.compiled = x]
  <2>1. UNCHANGED << program, compiler, cache, losses, holder, kept >>
    BY <1>4 DEF Stay, counts
  <2>2. me[p].rows \in [File -> Bytes]
    BY <1>1, <1>4, Partial DEF Locals
  <2>3. x \in Artifact /\ x.rows = me[p].rows /\ x.producer = me[p].got
    BY <1>1, <2>2 DEF Artifact
  <2>4. me' = [me EXCEPT ![p].pc = "inspect", ![p].got = None, ![p].rows = << >>, ![p].compiled = x]
    BY <1>4
  <2> HIDE DEF x
  <2>5. r \in Locals /\ me' = [me EXCEPT ![p] = r] /\ me'[p] = r
    BY <1>1, <2>3, <2>4, NoRows DEF Locals, Label, Got
  <2>6. /\ r.pc = "inspect" /\ r.inputs = me[p].inputs /\ r.compiled = x
        /\ r.rows = << >> /\ r.losses = me[p].losses
    BY <1>1 DEF Locals
  <2> HIDE DEF r
  <2>7. HoldInv(p)' /\ ValueInv(p)' /\ ObservationInv(p)' /\ BlobInv(p)'
    BY <1>1, <2>1, <2>5, <2>6 DEF HoldInv, ValueInv, ObservationInv, BlobInv, EmitInv, Publishing
  <2>8. CompiledInv(p)'
    BY <1>1, <1>4, <2>1, <2>3, <2>5, <2>6, SameFiles DEF CompiledInv, Publishing
  <2> QED
    BY <2>1, <2>5, <2>7, <2>8, Goes
<1> QED
  BY <1>2, <1>3, <1>4 DEF Compile

\* The product names the inputs the artifact was compiled from, and comes after
\* the files it names.
LEMMA PublishStepInv ==
    ASSUME ProviderInv, NEW p \in Provider, Publish(p)
    PROVE  ProviderInv'
<1> DEFINE x == me[p].compiled
           label == me[p].pc
           entry == [key |-> me[p].inputs, artifact |-> x]
           r == [me[p] EXCEPT !.pc = After(label), !.info = None]
<1>1. /\ me \in [Provider -> Locals] /\ me[p] \in Locals /\ EmitInv(p) /\ label \in Publishing /\ holder = p
      /\ me[p].inputs \in Inputs /\ x = [rows |-> me[p].inputs.rows, producer |-> me[p].inputs.producer]
      /\ me[p].rows = << >> /\ kept \in [Provider -> Kept] /\ losses \in Nat
  BY DEF ProviderInv, ProviderTyped, Publish, EmitInv, ValueInv, CompiledInv, HoldInv, Publishing
<1>2. x \in Artifact
  BY <1>1 DEF Artifact, Inputs
<1>3. After("artifact") = "evidence" /\ After("evidence") = "product" /\ After("product") = "returned"
  <2>1. PublishOrder[1] = "artifact" /\ PublishOrder[2] = "evidence" /\ PublishOrder[3] = "product"
    BY DEF PublishOrder
  <2>2. (CHOOSE i \in 1 .. 2 : PublishOrder[i] = "artifact") = 1
    BY <2>1
  <2>3. (CHOOSE i \in 1 .. 2 : PublishOrder[i] = "evidence") = 2
    BY <2>1
  <2> QED
    BY <2>1, <2>2, <2>3 DEF After
<1>4. /\ UNCHANGED << program, compiler, kept, losses >>
      /\ kept' = [kept EXCEPT ![p] = kept[p]] /\ kept'[p] = kept[p] /\ kept'[p].inputs = kept[p].inputs
  BY <1>1 DEF Publish, counts
<1>5. r \in Locals /\ me' = [me EXCEPT ![p] = r] /\ me'[p] = r
  BY <1>1, <1>3 DEF Locals, Label, Publish, Publishing
<1>6. /\ r.pc = After(label) /\ r.inputs = me[p].inputs /\ r.compiled = x
      /\ r.rows = << >> /\ r.losses = me[p].losses
  BY <1>1 DEF Locals
<1> HIDE DEF r
<1>7. holder' = (IF label = "product" THEN None ELSE p)
  BY <1>1, <1>3 DEF Publish, Publishing
<1>8. \A q \in Provider \ {p} : holder' = q <=> holder = q
  BY <1>1, <1>7, VmProviderAssumption
<1>9. entry \in Product /\ entry.key = me[p].inputs /\ entry.artifact = x
  BY <1>1, <1>2 DEF Product
<1>10. /\ product' \subseteq product \union {entry} /\ (label # "product" => product' = product)
       /\ blob' = IF label = "product" THEN blob ELSE blob \union {<< label, x >>}
  BY DEF Publish
<1> HIDE DEF entry
<1>11. blob \subseteq blob' /\ blob' \subseteq Blob
  <2>1. label # "product" => << label, x >> \in Blob
    BY <1>1, <1>2 DEF Blob, Publishing
  <2> QED
    BY <1>10, <2>1 DEF ProviderInv, ProviderTyped
<1>12. product' \subseteq Product
  BY <1>9, <1>10 DEF ProviderInv, ProviderTyped
<1>13. ProviderTyped'
  BY <1>4, <1>5, <1>11, <1>12 DEF ProviderInv, ProviderTyped, program, compiler
<1>14. PastInv'
  BY <1>4 DEF ProviderInv, PastInv, program
<1>15. ProductIsExact'
  BY <1>1, <1>9, <1>10 DEF ProviderInv, ProductInv, ProductIsExact
<1>16. /\ me[p].losses <= losses
       /\ me[p].losses = losses =>
            /\ label \in {"evidence", "product"} => << "artifact", x >> \in blob
            /\ label = "product" => << "evidence", x >> \in blob
  BY <1>1 DEF EmitInv, BlobInv
<1>17. ProductsAreComplete'
  <2> SUFFICES ASSUME losses = 0, NEW y \in product' PROVE Complete(y.artifact)'
    BY <1>4 DEF ProductsAreComplete
  <2>1. me[p].losses = losses
    BY <1>1, <1>16 DEF Locals
  <2>2. CASE y \in product
    BY <1>11, <2>2 DEF ProviderInv, ProductInv, ProductsAreComplete, Complete
  <2>3. CASE y = entry /\ label = "product"
    BY <1>9, <1>11, <1>16, <2>1, <2>3 DEF Complete
  <2> QED
    BY <1>10, <2>2, <2>3
<1>18. HoldInv(p)' /\ ValueInv(p)' /\ ObservationInv(p)'
  BY <1>1, <1>3, <1>5, <1>6, <1>7, VmProviderAssumption DEF HoldInv, ValueInv, ObservationInv, Publishing
<1>19. CompiledInv(p)'
  BY <1>1, <1>3, <1>5, <1>6 DEF CompiledInv, Publishing, Looking
<1>20. BlobInv(p)'
  BY <1>1, <1>2, <1>3, <1>4, <1>5, <1>6, <1>10, <1>16 DEF BlobInv, Complete, Publishing
<1>21. MemoInv(p)'
  BY <1>1, <1>4, MemoKept DEF EmitInv
<1>22. EmitInv(p)'
  BY <1>18, <1>19, <1>20, <1>21 DEF EmitInv
<1>23. ASSUME NEW q \in Provider \ {p} PROVE EmitInv(q)'
  <2>1. me'[q] = me[q] /\ kept'[q] = kept[q]
    BY <1>1, <1>4, <1>5
  <2> QED
    BY <1>4, <1>8, <1>11, <2>1, EmitFrame DEF ProviderInv
<1> QED
  BY <1>13, <1>14, <1>15, <1>17, <1>22, <1>23 DEF ProviderInv, ProductInv

LEMMA LeaveInv ==
    ASSUME ProviderInv, NEW p \in Provider, Leave(p)
    PROVE  ProviderInv'
<1>1. /\ me' = [me EXCEPT ![p] = Idle] /\ UNCHANGED << program, compiler, cache, losses, holder >>
      /\ kept' = [kept EXCEPT ![p] = kept[p]] /\ kept[p] \in Kept /\ kept'[p] = kept[p] /\ me'[p] = Idle
      /\ kept'[p].inputs = kept[p].inputs /\ losses' \in Nat /\ EmitInv(p)
  BY DEF Leave, ProviderInv, ProviderTyped, Stay, counts
<1>2. holder' # p
  BY <1>1 DEF Leave, At, EmitInv, HoldInv
<1>3. MemoInv(p)'
  BY <1>1, MemoKept DEF EmitInv
<1>4. EmitInv(p)'
  BY <1>1, <1>2, <1>3, IdleInv
<1> QED
  BY <1>1, <1>4, IdleTyped, MyStep

\* A new process has no memo and holds no lock.
LEMMA CrashInv ==
    ASSUME ProviderInv, NEW p \in Provider, Crash(p)
    PROVE  ProviderInv'
<1>1. /\ me' = [me EXCEPT ![p] = Idle] /\ UNCHANGED << program, compiler, cache, losses >>
      /\ kept' = [kept EXCEPT ![p] = NothingKept] /\ kept'[p] = NothingKept /\ me'[p] = Idle /\ losses' \in Nat
  BY DEF Crash, ProviderInv, ProviderTyped
<1>2. holder' # p /\ \A q \in Provider \ {p} : holder' = q <=> holder = q
  BY VmProviderAssumption DEF Crash
<1>3. MemoInv(p)'
  BY <1>1 DEF MemoInv, NothingKept
<1>4. EmitInv(p)'
  BY <1>1, <1>2, <1>3, IdleInv
<1> QED
  BY <1>1, <1>2, <1>4, IdleTyped, MyStep

(***************************************************************************)
(* The surroundings.                                                       *)
(***************************************************************************)

\* An edit gives a file a stamp nobody has seen and, without reverts, a content
\* it never had.
LEMMA EditInv ==
    ASSUME ProviderInv, ~Reverts, NEW f \in File, Edit(f)
    PROVE  ProviderInv'
<1>1. PICK c \in Bytes \ {file[f]} : c \notin past[f] /\ file' = [file EXCEPT ![f] = c]
  BY DEF Edit
<1>2. /\ past' = [past EXCEPT ![f] = @ \union {file[f]}] /\ stamp' = [stamp EXCEPT ![f] = @ + 1]
      /\ UNCHANGED << tree, treeStamp, exe, exeStamp, product, blob, holder, kept, me, losses >>
  BY DEF Edit, compiler, cache, counts
<1>3. file \in [File -> Bytes] /\ stamp \in [File -> Nat] /\ past \in [File -> SUBSET Bytes]
  BY DEF ProviderInv, ProviderTyped
<1>4. ProviderTyped'
  <2>1. file' \in [File -> Bytes] /\ stamp' \in [File -> Nat] /\ past' \in [File -> SUBSET Bytes]
    BY <1>1, <1>2, <1>3
  <2> QED
    BY <1>2, <2>1 DEF ProviderInv, ProviderTyped
<1>5. PastInv'
  BY <1>1, <1>2, <1>3 DEF ProviderInv, PastInv
<1>6. ProductInv'
  BY <1>2 DEF ProviderInv, ProductInv, ProductIsExact, ProductsAreComplete, Complete
<1>7. \A g \in File : Held(g) \subseteq Held(g)'
  BY <1>1, <1>2, <1>3 DEF Held
<1>8. \A g \in File : \A x, y : NotBefore(g, x, y) => NotBefore(g, x, y)'
  BY <1>1, <1>2, <1>3 DEF NotBefore
<1>9. \A s \in On(Nat) : \A r : ReadSince(s, r) => ReadSince(s, r)'
  <2> SUFFICES ASSUME NEW s \in On(Nat), NEW r, ReadSince(s, r) PROVE ReadSince(s, r)'
    OBVIOUS
  <2>1. DOMAIN s \subseteq File /\ s \in [DOMAIN s -> Nat]
    BY Partial
  <2>2. /\ DOMAIN r \subseteq DOMAIN s
        /\ \A g \in DOMAIN s : s[g] <= stamp[g]
        /\ \A g \in DOMAIN r : s[g] = stamp[g] => r[g] = file[g]
    BY DEF ReadSince
  <2>3. \A g \in DOMAIN s : s[g] <= stamp'[g] /\ (g = f => s[g] # stamp'[g]) /\ (g # f => stamp'[g] = stamp[g])
    BY <1>2, <1>3, <2>1, <2>2
  <2>4. \A g \in DOMAIN r : g # f => file'[g] = file[g]
    BY <1>1, <1>3, <2>1, <2>2
  <2> QED
    BY <2>2, <2>3, <2>4 DEF ReadSince
<1>10. ASSUME NEW p \in Provider PROVE EmitInv(p)'
  <2>1. EmitInv(p) /\ me[p] \in Locals /\ kept[p] \in Kept
    BY DEF ProviderInv, ProviderTyped
  <2>2. HoldInv(p)' /\ ValueInv(p)' /\ BlobInv(p)'
    BY <1>2, <2>1 DEF EmitInv, HoldInv, ValueInv, BlobInv, Complete
  <2>3. ObservationInv(p)'
    <3>1. ASSUME me[p].pc = "hash"
          PROVE  /\ ReadSince(me[p].got.stamps, me[p].rows)'
                 /\ \A g \in DOMAIN me[p].rows : me[p].rows[g] \in Held(g)'
                 /\ \A g \in File \ DOMAIN me[p].got.stamps : None \in Held(g)'
      <4>1. me[p].got.stamps \in On(Nat)
        BY <2>1, <3>1 DEF EmitInv, ValueInv, Signature
      <4>2. DOMAIN me[p].rows \subseteq File
        BY <2>1, Partial DEF Locals
      <4>3. /\ ReadSince(me[p].got.stamps, me[p].rows)
            /\ \A g \in DOMAIN me[p].rows : me[p].rows[g] \in Held(g)
            /\ \A g \in File \ DOMAIN me[p].got.stamps : None \in Held(g)
        BY <2>1, <3>1 DEF EmitInv, ObservationInv
      <4> QED
        BY <1>2, <1>7, <1>9, <4>1, <4>2, <4>3
    <3> QED
      BY <1>2, <1>7, <2>1, <3>1 DEF EmitInv, ObservationInv
  <2>4. CompiledInv(p)'
    <3>1. DOMAIN me[p].rows \subseteq File
      BY <2>1, Partial DEF Locals
    <3> QED
      BY <1>2, <1>8, <2>1, <3>1 DEF EmitInv, CompiledInv
  <2>5. MemoInv(p)'
    <3> DEFINE memo == kept[p].inputs
    <3> SUFFICES ASSUME memo # None
        PROVE  /\ memo.value.producer = memo.signature.producer
               /\ ReadSince(memo.signature.stamps, [g \in DOMAIN memo.signature.stamps |-> memo.value.rows[g]])'
               /\ \A g \in File \ DOMAIN memo.signature.stamps : memo.value.rows[g] = None
      BY <1>2 DEF MemoInv
    <3>1. memo.signature.stamps \in On(Nat)
      BY <2>1 DEF Kept, Signature
    <3> QED
      BY <1>2, <1>9, <2>1, <3>1 DEF EmitInv, MemoInv
  <2> QED
    BY <2>2, <2>3, <2>4, <2>5 DEF EmitInv
<1> QED
  BY <1>4, <1>5, <1>6, <1>10 DEF ProviderInv

\* The checkout and the executable may change at any time.
LEMMA CompilerInv ==
    ASSUME ProviderInv, MoveCheckout \/ Rebuild
    PROVE  ProviderInv'
<1>1. UNCHANGED << program, cache, holder, kept, me, losses >>
  BY DEF MoveCheckout, Rebuild, counts
<1>2. /\ tree' \in Checkout /\ exe' \in Checkout \union {None} /\ treeStamp' \in Nat /\ exeStamp' \in Nat
  BY DEF MoveCheckout, Rebuild, ProviderInv, ProviderTyped
<1>3. ProviderTyped'
  BY <1>1, <1>2 DEF ProviderInv, ProviderTyped, program, cache
<1>4. PastInv' /\ ProductInv'
  BY <1>1 DEF ProviderInv, PastInv, ProductInv, ProductIsExact, ProductsAreComplete, Complete, program, cache
<1>5. \A p \in Provider : EmitInv(p)'
  BY <1>1, EmitFrame DEF ProviderInv, cache
<1> QED
  BY <1>3, <1>4, <1>5 DEF ProviderInv

\* After a loss nothing is claimed of the files of emits under way.
LEMMA LoseInv ==
    ASSUME ProviderInv, Lose
    PROVE  ProviderInv'
<1>1. /\ UNCHANGED << program, compiler, holder, kept, me >> /\ losses' = losses + 1 /\ losses \in Nat
      /\ blob' \subseteq blob /\ product' \subseteq product
  BY DEF Lose, ProviderInv, ProviderTyped
<1>2. ProviderTyped'
  BY <1>1 DEF ProviderInv, ProviderTyped, program, compiler
<1>3. PastInv' /\ ProductInv'
  BY <1>1 DEF ProviderInv, PastInv, ProductInv, ProductIsExact, ProductsAreComplete, program
<1>4. ASSUME NEW p \in Provider PROVE EmitInv(p)'
  <2>1. EmitInv(p) /\ me[p] \in Locals
    BY DEF ProviderInv, ProviderTyped
  <2>2. HoldInv(p)' /\ ValueInv(p)'
    BY <1>1, <2>1 DEF EmitInv, HoldInv, ValueInv
  <2>3. ObservationInv(p)' /\ CompiledInv(p)' /\ MemoInv(p)'
    BY <1>1, <2>1, SameFiles DEF EmitInv, ObservationInv, CompiledInv, MemoInv
  <2>4. BlobInv(p)'
    BY <1>1, <2>1 DEF EmitInv, BlobInv, Locals
  <2> QED
    BY <2>2, <2>3, <2>4 DEF EmitInv
<1> QED
  BY <1>2, <1>3, <1>4 DEF ProviderInv

LEMMA ProviderStarts == ProviderInit => ProviderInv
<1> SUFFICES ASSUME ProviderInit PROVE ProviderInv
  OBVIOUS
<1>1. AnyContent \in Content /\ AnyCheckout \in Checkout
  BY VmProviderAssumption DEF AnyContent, AnyCheckout
<1>2. file \in [File -> Bytes]
  BY <1>1 DEF ProviderInit, Bytes
<1>3. ProviderTyped
  BY <1>1, <1>2, IdleTyped DEF ProviderInit, ProviderTyped
<1>4. PastInv /\ ProductInv
  BY DEF ProviderInit, PastInv, ProductInv, ProductIsExact, ProductsAreComplete
<1>5. ASSUME NEW p \in Provider PROVE EmitInv(p)
  <2>1. /\ me[p].pc = "idle" /\ me[p].rows = << >> /\ me[p].losses = 0 /\ losses = 0 /\ holder # p
        /\ kept[p].inputs = None
    BY IdleTyped, VmProviderAssumption DEF ProviderInit, NothingKept
  <2>2. HoldInv(p) /\ ValueInv(p)
    BY <2>1 DEF HoldInv, ValueInv, Publishing
  <2>3. ObservationInv(p) /\ CompiledInv(p) /\ MemoInv(p) /\ BlobInv(p)
    BY <2>1 DEF ObservationInv, CompiledInv, MemoInv, BlobInv, Looking, Publishing
  <2> QED
    BY <2>2, <2>3 DEF EmitInv
<1> QED
  BY <1>3, <1>4, <1>5 DEF ProviderInv

LEMMA ProviderKept ==
    ASSUME ~Reverts
    PROVE  ProviderInv /\ [ProviderNext]_providerVars => ProviderInv'
<1> SUFFICES ASSUME ProviderInv, [ProviderNext]_providerVars PROVE ProviderInv'
  OBVIOUS
<1>1. CASE UNCHANGED providerVars
  <2>1. UNCHANGED << program, compiler, cache, holder, kept, me, losses >>
    BY <1>1 DEF providerVars, counts
  <2>2. ProviderTyped'
    BY <2>1 DEF ProviderInv, ProviderTyped, program, compiler, cache
  <2>3. PastInv' /\ ProductInv'
    BY <2>1 DEF ProviderInv, PastInv, ProductInv, ProductIsExact, ProductsAreComplete, Complete, program, cache
  <2>4. \A p \in Provider : EmitInv(p)'
    BY <2>1, EmitFrame DEF ProviderInv, cache
  <2> QED
    BY <2>2, <2>3, <2>4 DEF ProviderInv
<1>2. ASSUME NEW p \in Provider, BeginEmit(p) \/ ProviderStep(p) \/ CompileFails(p) \/ Crash(p) PROVE ProviderInv'
  <2>1. ASSUME CompileFails(p) PROVE ProviderInv'
    BY <2>1, FailEmitInv DEF CompileFails
  <2> QED
    BY <1>2, <2>1, BeginEmitInv, CrashInv, InspectInv, DigestInv, SignInv, ListInv, HashInv, ObservedInv, FlockInv,
       LookupInv, CompileInv, PublishStepInv, LeaveInv DEF ProviderStep
<1> QED
  BY <1>1, <1>2, EditInv, CompilerInv, LoseInv DEF ProviderNext

\* While no edit brings an earlier content back, a product was made from the
\* bytes and by the compiler its key names, its files are there whoever died or
\* pruned when, and inputs taken from the memo are those on disk.
THEOREM ProductsSound ==
    ASSUME ~Reverts
    PROVE  Spec => []ProductsAreSound
<1> DEFINE I == tool = "vm_provider" => ProviderInv
<1>1. Init => I
  BY ProviderStarts DEF Init
<1>2. I /\ [Next]_<<tool, providerVars, invocationVars, resolverVars>> => I'
  BY ProviderKept DEF Next
<1>3. I => ProductsAreSound
  <2> SUFFICES ASSUME ProviderInv
               PROVE  ProviderTypeOK /\ ProductIsExact /\ ProductsAreComplete /\ ReturnedIsUsable /\ CachedInputsAreCurrent
    BY DEF ProductsAreSound
  <2>1. ProviderTypeOK
    <3>1. ASSUME NEW p \in Provider
          PROVE  /\ me[p].pc \in Label
                 /\ me[p].info \in Inspection \union {None} /\ me[p].inputs \in Inputs \union {None}
                 /\ me[p].compiled \in Artifact \union {None}
                 /\ me[p].pc \in {"lookup", "compile", "artifact", "evidence", "product"} => holder = p
      BY DEF ProviderInv, ProviderTyped, Locals, EmitInv, HoldInv, Publishing
    <3> QED
      BY <3>1 DEF ProviderInv, ProviderTyped, ProviderTypeOK
  <2>2. ReturnedIsUsable
    BY DEF ProviderInv, EmitInv, BlobInv, ReturnedIsUsable, At
  <2>3. CachedInputsAreCurrent
    BY CurrentMemo DEF CachedInputsAreCurrent, At
  <2> QED
    BY <2>1, <2>2, <2>3 DEF ProviderInv, ProductInv
<1> QED
  BY <1>1, <1>2, <1>3, PTL DEF Spec

(***************************************************************************)
(* The resolver: the inductive invariant.                                  *)
(***************************************************************************)

\* The places the search looks at.
Places == {[root |-> r, at |-> Join(r, Paths(module)[i])] : r \in Root, i \in DOMAIN Paths(module)}

Offers(c, t) ==
    Readable(c.at) /\ UnderRoot(c) /\ TextAt(c.at) = t /\ << module, t >> \in Compatible

Offered == {t \in Text : \E c \in Places : Offers(c, t)}

Verdict(texts) ==
    IF texts = {} THEN NotFound
    ELSE [kind |-> IF Cardinality(texts) = 1 THEN "resolved" ELSE "conflict", texts |-> texts]

\* What an inventory says a module resolves to, when the links of directories
\* are known.
Listed(k, links) ==
    {t \in Text :
        /\ << module, t >> \in Compatible
        /\ \E r \in Root, i \in DOMAIN Paths(module) :
              LET l == ThroughDirectory(links, Join(r, Paths(module)[i]))
              IN l[1] = r /\ << l[2], t >> \in k[r]}

\* A location no link leads away from.
Settled(l) == ThroughDirectory(mount, l) = l /\ Canonical(l) = l

ResolverTyped ==
    /\ ResolverTypeOK /\ order \in Orders
    /\ \A t \in DOMAIN authorities : authorities[t] \in Slot
    /\ todo # Nothing => /\ todo \in [roots : Seq(Root), paths : Seq(Places)]
                         /\ outcome = Nothing /\ ~Malformed(module)

\* Found is what was looked at: nothing else, and all but what is left to do.
SearchInv ==
    todo # Nothing =>
        /\ DOMAIN authorities \subseteq Offered
        /\ \A c \in Places, t \in Text :
              Offers(c, t) => \/ t \in DOMAIN authorities
                              \/ \E i \in DOMAIN todo.roots : todo.roots[i] = c.root
                              \/ \E i \in DOMAIN todo.paths : todo.paths[i] = c

\* A search that has not begun has found nothing; one that is over has all.
OutcomeInv ==
    /\ todo = Nothing /\ outcome = Nothing => authorities = << >> /\ observed = {}
    /\ outcome # Nothing => outcome = IF Malformed(module) THEN NotFound ELSE Verdict(Offered)

\* The key is the inventory, which decided the resolution before the edit too.
KeyInv ==
    /\ key = IF todo # Nothing \/ outcome # Nothing THEN Inventory ELSE Nothing
    /\ prior # Nothing /\ prior.key # Nothing =>
          prior.outcome = IF Malformed(module) THEN NotFound ELSE Verdict(Listed(prior.key, prior.mount))

\* A text is recorded at the end of every link.
FoundInv == \A t \in DOMAIN authorities : Settled(authorities[t])

ResolverInv ==
    /\ ResolverTyped /\ SearchInv /\ OutcomeInv /\ KeyInv /\ FoundInv
    /\ StaysInsideRoots /\ ResolvedIsObserved

(***************************************************************************)
(* The resolver: candidate paths.                                          *)
(***************************************************************************)

\* What occurs in a sequence, and in two put together.
In(x, s) == \E i \in DOMAIN s : s[i] = x

LEMMA InConcat ==
  ASSUME NEW S, NEW s \in Seq(S), NEW t \in Seq(S), NEW x
  PROVE  s \o t \in Seq(S) /\ (In(x, s \o t) <=> In(x, s) \/ In(x, t))
<1>1. /\ s \o t \in Seq(S) /\ Len(s \o t) = Len(s) + Len(t)
      /\ \A i \in 1 .. Len(s) : (s \o t)[i] = s[i]
      /\ \A i \in 1 .. Len(t) : (s \o t)[Len(s) + i] = t[i]
  OBVIOUS
<1>2. In(x, s) => In(x, s \o t)
  BY <1>1 DEF In
<1>3. ASSUME NEW i \in 1 .. Len(t), t[i] = x PROVE In(x, s \o t)
  <2>1. Len(s) + i \in 1 .. Len(s \o t)
    BY <1>1
  <2> QED
    BY <1>1, <1>3, <2>1 DEF In
<1>4. ASSUME NEW i \in 1 .. Len(s \o t), (s \o t)[i] = x PROVE In(x, s) \/ In(x, t)
  <2>1. CASE i <= Len(s)
    BY <1>1, <1>4, <2>1 DEF In
  <2>2. CASE i > Len(s)
    <3>1. i - Len(s) \in 1 .. Len(t) /\ Len(s) + (i - Len(s)) = i
      BY <1>1, <2>2
    <3> QED
      BY <1>1, <1>4, <3>1 DEF In
  <2> QED
    BY <2>1, <2>2
<1>5. DOMAIN t = 1 .. Len(t) /\ DOMAIN (s \o t) = 1 .. Len(s \o t)
  BY <1>1
<1>6. In(x, t) => In(x, s \o t)
  <2> SUFFICES ASSUME NEW i \in DOMAIN t, t[i] = x PROVE In(x, s \o t)
    BY Zenon DEF In
  <2> QED
    BY <1>3, <1>5
<1>7. In(x, s \o t) => In(x, s) \/ In(x, t)
  <2> SUFFICES ASSUME NEW i \in DOMAIN (s \o t), (s \o t)[i] = x PROVE In(x, s) \/ In(x, t)
    BY Zenon DEF In
  <2> QED
    BY <1>4, <1>5
<1> QED
  BY <1>1, <1>2, <1>6, <1>7, Zenon

\* The paths of one name, as a set.
PathSet(name) ==
    {<< Last(name) >>, name} \union (IF Len(name) > 1 /\ Head(name) = "mncs" THEN {Tail(name)} ELSE {})

LEMMA PathsOfFacts ==
  ASSUME NEW name \in Path, name # << >>
  PROVE  PathsOf(name) \in Seq(Path) /\ \A x : In(x, PathsOf(name)) <=> x \in PathSet(name)
<1>1. Last(name) \in STRING /\ << Last(name) >> \in Path /\ Tail(name) \in Path
  BY DEF Path, Last
<1> DEFINE A == << << Last(name) >>, name >>
           B == IF Len(name) > 1 /\ Head(name) = "mncs" THEN << Tail(name) >> ELSE << >>
<1>2. A \in Seq(Path) /\ \A x : In(x, A) <=> x \in {<< Last(name) >>, name}
  BY <1>1 DEF In
<1>3. B \in Seq(Path) /\ \A x : In(x, B) <=> Len(name) > 1 /\ Head(name) = "mncs" /\ x = Tail(name)
  <2>1. CASE Len(name) > 1 /\ Head(name) = "mncs"
    <3>1. B = << Tail(name) >>
      BY <2>1
    <3> HIDE DEF B
    <3>2. B \in Seq(Path) /\ \A x : In(x, B) <=> x = Tail(name)
      BY <1>1, <3>1, SMTT(60) DEF In
    <3> QED
      BY <2>1, <3>2
  <2>2. CASE ~(Len(name) > 1 /\ Head(name) = "mncs")
    <3>1. B = << >>
      BY <2>2
    <3> HIDE DEF B
    <3>2. B \in Seq(Path) /\ \A x : ~In(x, B)
      BY <3>1 DEF In
    <3> QED
      BY <2>2, <3>2
  <2> QED
    BY <2>1, <2>2
<1>4. PathsOf(name) = A \o B
  BY DEF PathsOf
<1> HIDE DEF A, B
<1>5. A \o B \in Seq(Path) /\ \A x : In(x, A \o B) <=> In(x, A) \/ In(x, B)
  BY <1>2, <1>3, InConcat
<1> QED
  BY <1>2, <1>3, <1>4, <1>5 DEF PathSet

\* The paths of a module: those of its name, with and without a version.
LEMMA PathsFacts ==
  ASSUME NEW m \in Path, m # << >>
  PROVE  /\ Paths(m) \in Seq(Path)
         /\ \A x : In(x, Paths(m)) <=> x \in PathSet(m) \/ (Versioned(m) /\ x \in PathSet(Front(m)))
         /\ Versioned(m) => Front(m) \in Path /\ Front(m) # << >>
<1> DEFINE B == IF Versioned(m) THEN PathsOf(Front(m)) ELSE << >>
           C == << << Last(m) >> >>
<1>1. Versioned(m) => Front(m) \in Path /\ Front(m) # << >>
  <2> SUFFICES ASSUME Len(m) > 1 PROVE Front(m) \in Path /\ Front(m) # << >>
    BY DEF Versioned
  <2>1. m \in Seq(STRING) /\ Len(m) - 1 \in 1 .. Len(m)
    BY DEF Path
  <2>2. Front(m) \in Seq(STRING) /\ Len(Front(m)) = Len(m) - 1
    BY <2>1, SubSeqProperties DEF Front
  <2> QED
    BY <2>1, <2>2 DEF Path
<1>2. << Last(m) >> \in Path
  BY DEF Path, Last
<1>3. PathsOf(m) \in Seq(Path) /\ \A x : In(x, PathsOf(m)) <=> x \in PathSet(m)
  BY PathsOfFacts
<1>4. B \in Seq(Path) /\ \A x : In(x, B) <=> Versioned(m) /\ x \in PathSet(Front(m))
  <2>1. CASE Versioned(m)
    BY <1>1, <2>1, PathsOfFacts
  <2>2. CASE ~Versioned(m)
    BY <2>2 DEF In
  <2> QED
    BY <2>1, <2>2
<1>5. C \in Seq(Path) /\ \A x : In(x, C) <=> x = << Last(m) >>
  BY <1>2 DEF In
<1> HIDE DEF B, C
<1>6. PathsOf(m) \o B \in Seq(Path) /\ \A x : In(x, PathsOf(m) \o B) <=> In(x, PathsOf(m)) \/ In(x, B)
  BY <1>3, <1>4, InConcat
<1>7. /\ (PathsOf(m) \o B) \o C \in Seq(Path)
      /\ \A x : In(x, (PathsOf(m) \o B) \o C) <=> In(x, PathsOf(m) \o B) \/ In(x, C)
  BY <1>5, <1>6, InConcat
<1>8. Paths(m) = (PathsOf(m) \o B) \o C
  BY DEF Paths, B, C
<1>9. << Last(m) >> \in PathSet(m)
  BY DEF PathSet
<1>10. ASSUME NEW x
       PROVE  In(x, Paths(m)) <=> x \in PathSet(m) \/ (Versioned(m) /\ x \in PathSet(Front(m)))
  <2>1. In(x, Paths(m)) <=> In(x, PathsOf(m)) \/ In(x, B) \/ In(x, C)
    BY <1>6, <1>7, <1>8
  <2>2. In(x, PathsOf(m)) <=> x \in PathSet(m)
    BY <1>3
  <2>3. In(x, B) <=> Versioned(m) /\ x \in PathSet(Front(m))
    BY <1>4
  <2>4. In(x, C) => x \in PathSet(m)
    BY <1>5, <1>9
  <2> QED
    BY <2>1, <2>2, <2>3, <2>4
<1>11. Paths(m) \in Seq(Path)
  BY <1>7, <1>8
<1> QED
  BY <1>1, <1>10, <1>11

\* The places are those of Candidates, root by root.
LEMMA CandidateFacts ==
  ASSUME module \in Module, NEW r \in Root
  PROVE  /\ Candidates(r, module) \in Seq(Places)
         /\ \A c \in Places : c.root = r => \E i \in DOMAIN Candidates(r, module) : Candidates(r, module)[i] = c
<1>1. Paths(module) \in Seq(Path)
  BY PathsFacts, SourceResolverAssumption
<1>2. PICK n \in Nat : DOMAIN Paths(module) = 1 .. n
  BY <1>1
<1>3. Candidates(r, module) = [i \in 1 .. n |-> [root |-> r, at |-> Join(r, Paths(module)[i])]]
  BY <1>2 DEF Candidates
<1>4. \A i \in 1 .. n : [root |-> r, at |-> Join(r, Paths(module)[i])] \in Places
  BY <1>2 DEF Places
<1>5. Candidates(r, module) \in Seq(Places)
  BY <1>3, <1>4
<1>6. ASSUME NEW c \in Places, c.root = r
      PROVE  \E i \in 1 .. n : [root |-> r, at |-> Join(r, Paths(module)[i])] = c
  BY <1>2, <1>6 DEF Places
<1> QED
  BY <1>3, <1>5, <1>6

LEMMA LocatedTyped ==
  ASSUME NEW path \in Path
  PROVE  Located(path) \in Location
<1> DEFINE Leads(r) == Len(path) > Len(RootPath[r]) /\ IsPrefix(RootPath[r], path)
<1>1. CASE \E r \in Root : Leads(r)
  <2> DEFINE r == CHOOSE r \in Root : Leads(r)
  <2>1. r \in Root /\ Leads(r)
    BY <1>1
  <2>2. Located(path) = << r, SubSeq(path, Len(RootPath[r]) + 1, Len(path)) >>
    BY <1>1 DEF Located
  <2> HIDE DEF r
  <2>3. path \in Seq(STRING) /\ RootPath[r] \in Seq(STRING)
    BY <2>1, SourceResolverAssumption DEF Path
  <2>4. SubSeq(path, Len(RootPath[r]) + 1, Len(path)) \in Seq(STRING)
    <3>1. Len(path) \in Nat /\ Len(RootPath[r]) + 1 \in Nat \ {0} /\ Len(RootPath[r]) + 1 <= Len(path)
      BY <2>1, <2>3
    <3> QED
      BY <2>3, <3>1
  <2>5. \A p \in Seq(STRING) : << r, p >> \in Location
    BY <2>1 DEF Location, Path
  <2> QED
    BY <2>2, <2>4, <2>5, Zenon
<1>2. CASE ~\E r \in Root : Leads(r)
  BY <1>2 DEF Located, Location
<1> QED
  BY <1>1, <1>2

LEMMA JoinTyped ==
  ASSUME NEW r \in Root, NEW path \in Path
  PROVE  Join(r, path) \in Location
<1> DEFINE absolute == Len(path) > 1 /\ Head(path) = ""
<1>1. Join(r, path) = IF absolute THEN Located(Tail(path)) ELSE << r, path >>
  BY Zenon DEF Join
<1>2. absolute => Len(path) > 1
  BY Zenon
<1> HIDE DEF absolute
<1>3. ASSUME absolute PROVE Located(Tail(path)) \in Location
  <2>1. Tail(path) \in Path
    BY <1>2, <1>3 DEF Path
  <2> QED
    BY <2>1, LocatedTyped
<1>4. << r, path >> \in Location
  BY DEF Location
<1> QED
  BY <1>1, <1>3, <1>4

LEMMA PlacesTyped ==
  ASSUME module \in Module
  PROVE  Places \subseteq [root : Root, at : Location]
<1> SUFFICES ASSUME NEW r \in Root, NEW i \in DOMAIN Paths(module)
             PROVE  Join(r, Paths(module)[i]) \in Location
  BY DEF Places
<1>1. Paths(module) \in Seq(Path)
  BY PathsFacts, SourceResolverAssumption
<1>2. Paths(module)[i] \in Path
  BY <1>1
<1> QED
  BY <1>2, JoinTyped

\* A search over the places is a search.
LEMMA SearchTyped ==
  ASSUME module \in Module, NEW R \in Seq(Root), NEW C \in Seq(Places)
  PROVE  [roots |-> R, paths |-> C] \in Search /\ [roots |-> R, paths |-> C] # Nothing
<1>1. C \in Seq([root : Root, at : Location])
  <2> DEFINE Place == [root : Root, at : Location]
  <2>1. Places \subseteq Place
    BY PlacesTyped
  <2> HIDE DEF Place
  <2>2. C \in Seq(Place)
    BY <2>1
  <2> QED
    BY <2>2 DEF Place
<1>2. [roots |-> R, paths |-> C] \in Search
  BY <1>1 DEF Search
<1> QED
  BY <1>2, SourceResolverAssumption

(***************************************************************************)
(* The resolver: the file system.                                          *)
(***************************************************************************)

\* What a linked directory leads to is not below a link again.
LEMMA ThroughOnce ==
  ASSUME NEW links \in Mounts, NEW l \in Location, ThroughDirectory(links, l) \in Slot
  PROVE  ThroughDirectory(links, ThroughDirectory(links, l)) = ThroughDirectory(links, l)
<1> DEFINE Leads(d) == links[d] # Nothing /\ Below(d, l)
           t == ThroughDirectory(links, l)
<1>1. CASE ~\E d \in Directory : Leads(d)
  <2>1. t = l
    BY <1>1 DEF ThroughDirectory
  <2> QED
    BY <2>1
<1>2. CASE \E d \in Directory : Leads(d)
  <2> DEFINE d == CHOOSE d \in Directory : Leads(d)
             rest == SubSeq(l[2], Len(d[2]) + 1, Len(l[2]))
  <2>1. d \in Directory /\ Leads(d)
    BY <1>2
  <2>2. t = << links[d][1], links[d][2] \o rest >>
    BY <1>2 DEF ThroughDirectory
  <2>3. t \in Slot
    OBVIOUS
  <2> HIDE DEF d, t
  <2>4. /\ l[2] \in Seq(STRING) /\ d[2] \in Seq(STRING)
        /\ links[d] \in Location /\ links[d][2] \in Seq(STRING)
    BY <2>1, SourceResolverAssumption DEF Location, Path
  <2>5. Len(l[2]) > Len(d[2])
    BY <2>1 DEF Below
  <2>6. rest \in Seq(STRING) /\ Len(rest) > 0
    <3>1. Len(l[2]) \in Nat /\ Len(d[2]) \in Nat
      BY <2>4
    <3>2. SubSeq(l[2], Len(d[2]) + 1, Len(l[2])) \in Seq(STRING)
          /\ Len(SubSeq(l[2], Len(d[2]) + 1, Len(l[2]))) = Len(l[2]) - Len(d[2])
      <4> DEFINE a == Len(d[2]) + 1
                 b == Len(l[2])
                 q == l[2]
      <4>1. q \in Seq(STRING) /\ b = Len(q) /\ a \in Nat /\ b \in Nat /\ a >= 1 /\ a <= b
            /\ b - a + 1 = Len(l[2]) - Len(d[2])
        BY <2>4, <2>5, <3>1
      <4> HIDE DEF a, b, q
      <4>2. \A i \in a .. b : q[i] \in STRING
        BY <4>1
      <4>3. SubSeq(q, a, b) \in Seq(STRING) /\ Len(SubSeq(q, a, b)) = IF a <= b THEN b - a + 1 ELSE 0
        BY <4>1, <4>2, SubSeqProperties
      <4>4. SubSeq(q, a, b) \in Seq(STRING) /\ Len(SubSeq(q, a, b)) = Len(l[2]) - Len(d[2])
        BY <4>1, <4>3
      <4> QED
        BY <4>4 DEF a, b, q
    <3>3. rest \in Seq(STRING) /\ Len(rest) = Len(l[2]) - Len(d[2])
      BY <3>2
    <3>4. \A x, y \in Nat : x > y => x - y > 0
      OBVIOUS
    <3> HIDE DEF rest
    <3> QED
      BY <2>5, <3>1, <3>3, <3>4, Zenon
  <2> HIDE DEF rest
  <2>7. Below(links[d], t)
    <3>1. t[1] = links[d][1] /\ t[2] = links[d][2] \o rest
      BY <2>2
    <3>2. Len(links[d][2] \o rest) = Len(links[d][2]) + Len(rest)
      BY <2>4, <2>6
    <3>3. Len(links[d][2] \o rest) > Len(links[d][2])
      BY <2>4, <2>6, <3>2
    <3>4. IsPrefix(links[d][2], links[d][2] \o rest)
      BY <2>4, <2>6 DEF IsPrefix
    <3> QED
      BY <3>1, <3>3, <3>4 DEF Below
  <2>8. \A e \in Directory : ~(links[e] # Nothing /\ Below(e, t))
    BY <2>1, <2>3, <2>7, SourceResolverAssumption
  <2>9. ThroughDirectory(links, t) = t
    BY <2>8 DEF ThroughDirectory
  <2> QED
    BY <2>9 DEF t
<1> QED
  BY <1>1, <1>2

\* A canonical location is settled.
LEMMA CanonicalSettled ==
  ASSUME root_tree \in Trees, mount \in Mounts, NEW l \in Location, Readable(l)
  PROVE  Settled(Canonical(l))
<1> DEFINE t == ThroughDirectory(mount, l)
           k == Canonical(l)
<1>1. k = IF t \in Slot /\ root_tree[t] \in Slot THEN root_tree[t] ELSE t
  BY DEF Canonical
<1>2. k \in Slot
  BY DEF Readable
<1>3. t \in Slot => ThroughDirectory(mount, t) = t
  BY ThroughOnce
<1> HIDE DEF t, k
<1>4. root_tree[k] \notin Slot /\ ThroughDirectory(mount, k) = k
  <2>1. CASE t \in Slot /\ root_tree[t] \in Slot
    <3>1. root_tree[k] \notin Slot /\ \A d \in Directory : ~Below(d, k)
      BY <1>1, <2>1, SourceResolverAssumption
    <3> QED
      BY <3>1 DEF ThroughDirectory
  <2>2. CASE ~(t \in Slot /\ root_tree[t] \in Slot)
    BY <1>1, <1>2, <1>3, <2>2
  <2> QED
    BY <2>1, <2>2
<1>5. Canonical(k) = k
  BY <1>4 DEF Canonical
<1> QED
  BY <1>4, <1>5 DEF Settled, k

\* A step that leaves the file system and the name alone leaves what the roots
\* offer alone.
LEMMA SameTree ==
  ASSUME UNCHANGED << root_tree, mount, module >>
  PROVE  /\ Places' = Places /\ Offered' = Offered /\ Inventory' = Inventory
         /\ \A c, t : Offers(c, t)' <=> Offers(c, t)
         /\ \A l : Settled(l)' <=> Settled(l)
<1>1. \A l : ThroughDirectory(mount, l)' = ThroughDirectory(mount, l) /\ Canonical(l)' = Canonical(l)
  BY DEF Canonical
<1>2. Places' = Places
  BY DEF Places
<1>3. \A l : (Readable(l)' <=> Readable(l)) /\ TextAt(l)' = TextAt(l)
  BY <1>1 DEF Readable, TextAt
<1>4. \A c : UnderRoot(c)' <=> UnderRoot(c)
  BY <1>1 DEF UnderRoot
<1>5. ASSUME NEW c, NEW t PROVE Offers(c, t)' <=> Offers(c, t)
  <2>1. (Readable(c.at)' <=> Readable(c.at)) /\ TextAt(c.at)' = TextAt(c.at) /\ (UnderRoot(c)' <=> UnderRoot(c))
    BY <1>3, <1>4
  <2> QED
    BY <2>1 DEF Offers
<1>6. Offered' = Offered
  BY <1>2, <1>5 DEF Offered
<1>7. Inventory' = Inventory
  BY <1>1, <1>3 DEF Inventory
<1>8. \A l : Settled(l)' <=> Settled(l)
  BY <1>1 DEF Settled
<1> QED
  BY <1>2, <1>5, <1>6, <1>7, <1>8

\* A step that leaves the name and the resolution before the edit alone leaves
\* what the earlier inventory says alone.
LEMMA SamePrior ==
  ASSUME UNCHANGED << module, prior >>
  PROVE  /\ Malformed(module)' <=> Malformed(module)
         /\ Listed(prior.key, prior.mount)' = Listed(prior.key, prior.mount)
         /\ Verdict(Listed(prior.key, prior.mount))' = Verdict(Listed(prior.key, prior.mount))
<1>1. Malformed(module)' <=> Malformed(module)
  BY DEF Malformed
<1>2. Listed(prior.key, prior.mount)' = Listed(prior.key, prior.mount)
  BY DEF Listed
<1>3. Verdict(Listed(prior.key, prior.mount))' = Verdict(Listed(prior.key, prior.mount))
  BY <1>2 DEF Verdict, NotFound
<1> QED
  BY <1>1, <1>2, <1>3

(***************************************************************************)
(* The resolver: what the roots offer.                                     *)
(***************************************************************************)

\* What the roots agree on, as OneAuthority says it.
Agreed ==
    {t \in Text :
        /\ << module, t >> \in Compatible
        /\ \E r \in Root, name \in {module, Front(module)} :
              /\ name = module \/ Last(module) \in Version
              /\ name # << >>
              /\ \E path \in {name, << Last(name) >>}
                               \union (IF Len(name) > 1 /\ name[1] = "mncs" THEN {Tail(name)} ELSE {}) :
                    LET l == Join(r, path)
                    IN Readable(l) /\ TextAt(l) = t /\ Canonical(l)[1] = r}

\* The paths of a name, as OneAuthority has them.
LEMMA PathSetFacts ==
  ASSUME NEW name \in Path, name # << >>
  PROVE  PathSet(name) = {name, << Last(name) >>}
                           \union (IF Len(name) > 1 /\ name[1] = "mncs" THEN {Tail(name)} ELSE {})
<1>1. Head(name) = name[1]
  BY DEF Path
<1> QED
  BY <1>1 DEF PathSet

LEMMA OfferedIsAgreed ==
  ASSUME module \in Module
  PROVE  Offered = Agreed
<1>0. module \in Path /\ module # << >>
  BY SourceResolverAssumption
<1>1. Versioned(module) => Front(module) \in Path /\ Front(module) # << >>
  BY <1>0, PathsFacts
<1>2. ASSUME Last(module) \in Version, Front(module) # << >> PROVE Versioned(module)
  <2>1. Len(module) # 1
    <3> SUFFICES ASSUME Len(module) = 1 PROVE FALSE
      OBVIOUS
    <3>1. Front(module) = << >>
      BY <1>0, SubSeqProperties DEF Front, Path
    <3> QED
      BY <1>2, <3>1
  <2>2. Len(module) \in Nat /\ Len(module) # 0
    BY <1>0 DEF Path
  <2>3. Len(module) > 1
    <3>1. \A n \in Nat : n # 0 /\ n # 1 => n > 1
      OBVIOUS
    <3> QED
      BY <2>1, <2>2, <3>1, Zenon
  <2> QED
    BY <1>2, <2>3, Zenon DEF Versioned
<1>3. ASSUME NEW x
      PROVE  In(x, Paths(module))
             <=> \E name \in {module, Front(module)} :
                    /\ name = module \/ Last(module) \in Version
                    /\ name # << >>
                    /\ x \in {name, << Last(name) >>}
                               \union (IF Len(name) > 1 /\ name[1] = "mncs" THEN {Tail(name)} ELSE {})
  <2>1. In(x, Paths(module)) <=> x \in PathSet(module) \/ (Versioned(module) /\ x \in PathSet(Front(module)))
    BY <1>0, PathsFacts
  <2>2. PathSet(module) = {module, << Last(module) >>}
                            \union (IF Len(module) > 1 /\ module[1] = "mncs" THEN {Tail(module)} ELSE {})
    BY <1>0, PathSetFacts
  <2>3. Versioned(module) =>
          PathSet(Front(module)) = {Front(module), << Last(Front(module)) >>}
                                     \union (IF Len(Front(module)) > 1 /\ Front(module)[1] = "mncs"
                                             THEN {Tail(Front(module))} ELSE {})
    BY <1>1, PathSetFacts
  <2>4. Versioned(module) => Last(module) \in Version
    BY DEF Versioned
  <2>5. CASE Versioned(module)
    BY <1>0, <1>1, <2>1, <2>2, <2>3, <2>4, <2>5
  <2>6. CASE ~Versioned(module)
    BY <1>0, <1>2, <2>1, <2>2, <2>6
  <2> QED
    BY <2>5, <2>6
<1>4. ASSUME NEW t \in Text PROVE (\E c \in Places : Offers(c, t)) <=> t \in Agreed
  <2> DEFINE Shows(r, x) == Readable(Join(r, x)) /\ TextAt(Join(r, x)) = t /\ Canonical(Join(r, x))[1] = r
  <2>1. (\E c \in Places : Offers(c, t))
         <=> << module, t >> \in Compatible /\ \E r \in Root : \E x : In(x, Paths(module)) /\ Shows(r, x)
    <3>1. ASSUME NEW r \in Root, NEW x
          PROVE  Offers([root |-> r, at |-> Join(r, x)], t) <=> << module, t >> \in Compatible /\ Shows(r, x)
      <4> DEFINE c == [root |-> r, at |-> Join(r, x)]
      <4>1. c.root = r /\ c.at = Join(r, x)
        OBVIOUS
      <4> HIDE DEF c
      <4>2. Offers(c, t) <=> << module, t >> \in Compatible /\ Shows(r, x)
        BY <4>1 DEF Offers, UnderRoot
      <4> QED
        BY <4>2 DEF c
    <3> HIDE DEF Shows
    <3>2. ASSUME NEW c \in Places, Offers(c, t)
          PROVE  << module, t >> \in Compatible /\ \E r \in Root : \E x : In(x, Paths(module)) /\ Shows(r, x)
      <4>1. PICK r \in Root, i \in DOMAIN Paths(module) : c = [root |-> r, at |-> Join(r, Paths(module)[i])]
        BY DEF Places
      <4>2. << module, t >> \in Compatible /\ Shows(r, Paths(module)[i])
        BY <3>1, <3>2, <4>1, Zenon
      <4>3. In(Paths(module)[i], Paths(module))
        BY Zenon DEF In
      <4> QED
        BY <4>2, <4>3, Zenon
    <3>3. ASSUME << module, t >> \in Compatible, NEW r \in Root, NEW x, In(x, Paths(module)), Shows(r, x)
          PROVE  \E c \in Places : Offers(c, t)
      <4>1. PICK i \in DOMAIN Paths(module) : Paths(module)[i] = x
        BY <3>3, Zenon DEF In
      <4>2. [root |-> r, at |-> Join(r, x)] \in Places
        BY <4>1 DEF Places
      <4>3. Offers([root |-> r, at |-> Join(r, x)], t)
        BY <3>1, <3>3, Zenon
      <4> QED
        BY <4>2, <4>3, Zenon
    <3> QED
      BY <3>2, <3>3, Zenon
  <2>2. t \in Agreed
         <=> /\ << module, t >> \in Compatible
             /\ \E r \in Root, name \in {module, Front(module)} :
                   /\ name = module \/ Last(module) \in Version
                   /\ name # << >>
                   /\ \E x \in {name, << Last(name) >>}
                                 \union (IF Len(name) > 1 /\ name[1] = "mncs" THEN {Tail(name)} ELSE {}) :
                         Shows(r, x)
    BY DEF Agreed
  <2> HIDE DEF Shows
  <2> QED
    BY <1>3, <2>1, <2>2
<1> QED
  BY <1>4 DEF Offered, Agreed

\* What an inventory holds: the files no linked directory stands before, none
\* of which is refused.
LEMMA InventoryFacts ==
  ASSUME Inventory # Nothing
  PROVE  /\ \A r \in Root, l \in Slot :
               l[1] = r /\ root_tree[l] # Nothing /\ ThroughDirectory(mount, l) = l
                 => Readable(l) /\ Canonical(l)[1] = r /\ << l[2], TextAt(l) >> \in Inventory[r]
         /\ \A r \in Root : \A x, t : << x, t >> \in Inventory[r] =>
               \E l \in Slot : /\ l[1] = r /\ l[2] = x /\ TextAt(l) = t
                               /\ root_tree[l] # Nothing /\ ThroughDirectory(mount, l) = l
<1> DEFINE listed(r) == {l \in Slot : l[1] = r /\ root_tree[l] # Nothing /\ ThroughDirectory(mount, l) = l}
           bad == \E r \in Root : \E l \in listed(r) : Canonical(l)[1] # l[1] \/ ~Readable(l)
           all == [r \in Root |-> {<< l[2], TextAt(l) >> : l \in listed(r)}]
<1>1. Inventory = IF bad THEN Nothing ELSE all
  BY DEF Inventory
<1>2. ~bad /\ Inventory = all
  BY <1>1
<1>3. \A r \in Root : Inventory[r] = {<< l[2], TextAt(l) >> : l \in listed(r)}
  BY <1>2
<1>4. ASSUME NEW r \in Root, NEW l \in Slot,
             l[1] = r, root_tree[l] # Nothing, ThroughDirectory(mount, l) = l
      PROVE  Readable(l) /\ Canonical(l)[1] = r /\ << l[2], TextAt(l) >> \in Inventory[r]
  <2>1. l \in listed(r)
    BY <1>4
  <2>2. Readable(l) /\ Canonical(l)[1] = r
    BY <1>2, <1>4, <2>1
  <2> HIDE DEF listed
  <2>3. << l[2], TextAt(l) >> \in Inventory[r]
    BY <1>3, <2>1
  <2> QED
    BY <2>2, <2>3
<1>5. ASSUME NEW r \in Root, NEW x, NEW t, << x, t >> \in Inventory[r]
      PROVE  \E l \in Slot : /\ l[1] = r /\ l[2] = x /\ TextAt(l) = t
                             /\ root_tree[l] # Nothing /\ ThroughDirectory(mount, l) = l
  <2> HIDE DEF listed
  <2>1. PICK l \in listed(r) : << x, t >> = << l[2], TextAt(l) >>
    BY <1>3, <1>5
  <2> QED
    BY <2>1 DEF listed
<1> QED
  BY <1>4, <1>5

\* Two locations with the same end.
LEMMA SameEnd ==
  ASSUME NEW k, NEW l, ThroughDirectory(mount, k) = ThroughDirectory(mount, l)
  PROVE  Canonical(k) = Canonical(l) /\ TextAt(k) = TextAt(l) /\ (Readable(k) <=> Readable(l))
<1>1. Canonical(k) = Canonical(l)
  BY DEF Canonical
<1> QED
  BY <1>1 DEF TextAt, Readable

\* An inventory, with the links of directories, decides what the roots offer.
LEMMA OfferedIsListed ==
  ASSUME root_tree \in Trees, mount \in Mounts, module \in Module, Inventory # Nothing
  PROVE  Offered = Listed(Inventory, mount)
<1> DEFINE Spot(r, i) == Join(r, Paths(module)[i])
           End(r, i) == ThroughDirectory(mount, Spot(r, i))
<1>1. \A r \in Root, i \in DOMAIN Paths(module) : Spot(r, i) \in Location
  <2>1. Paths(module) \in Seq(Path)
    BY PathsFacts, SourceResolverAssumption
  <2> QED
    BY <2>1, JoinTyped
<1>2. ASSUME NEW r \in Root, NEW i \in DOMAIN Paths(module), NEW t \in Text,
             Readable(Spot(r, i)), Canonical(Spot(r, i))[1] = r, TextAt(Spot(r, i)) = t
      PROVE  End(r, i)[1] = r /\ << End(r, i)[2], t >> \in Inventory[r]
  <2> DEFINE l == Spot(r, i)
             e == End(r, i)
  <2>1. e = ThroughDirectory(mount, l) /\ l \in Location
    BY <1>1
  <2>2. Readable(l) /\ Canonical(l)[1] = r /\ TextAt(l) = t
    BY <1>2
  <2> HIDE DEF l, e
  <2>3. Canonical(l) = IF e \in Slot /\ root_tree[e] \in Slot THEN root_tree[e] ELSE e
    BY <2>1 DEF Canonical
  <2>4. Canonical(l) \in Slot /\ root_tree[Canonical(l)] = t
    BY <2>2 DEF Readable, TextAt
  <2>5. e \in Slot /\ root_tree[e] # Nothing /\ e[1] \in Root
    <3>1. CASE e \in Slot /\ root_tree[e] \in Slot
      BY <3>1, SourceResolverAssumption
    <3>2. CASE ~(e \in Slot /\ root_tree[e] \in Slot)
      BY <2>2, <2>3, <2>4, <3>2, SourceResolverAssumption
    <3> QED
      BY <3>1, <3>2
  <2>6. ThroughDirectory(mount, e) = e
    BY <2>1, <2>5, ThroughOnce
  <2>7. Canonical(e) = Canonical(l) /\ TextAt(e) = t
    BY <2>1, <2>2, <2>6, SameEnd
  <2>8. Canonical(e)[1] = e[1] /\ << e[2], TextAt(e) >> \in Inventory[e[1]]
    BY <2>5, <2>6, InventoryFacts
  <2>9. e[1] = r /\ << e[2], t >> \in Inventory[r]
    BY <2>2, <2>7, <2>8
  <2> QED
    BY <2>9 DEF e
<1>3. ASSUME NEW r \in Root, NEW i \in DOMAIN Paths(module), NEW t \in Text,
             End(r, i)[1] = r, << End(r, i)[2], t >> \in Inventory[r]
      PROVE  Readable(Spot(r, i)) /\ Canonical(Spot(r, i))[1] = r /\ TextAt(Spot(r, i)) = t
  <2> DEFINE l == Spot(r, i)
             e == End(r, i)
  <2>1. e = ThroughDirectory(mount, l) /\ l \in Location
    BY <1>1
  <2>2. e[1] = r /\ << e[2], t >> \in Inventory[r]
    BY <1>3
  <2> HIDE DEF l, e
  <2>3. PICK k \in Slot : /\ k[1] = r /\ k[2] = e[2] /\ TextAt(k) = t
                          /\ root_tree[k] # Nothing /\ ThroughDirectory(mount, k) = k
    BY <2>2, InventoryFacts
  <2>4. k = e
    <3>1. k = << k[1], k[2] >>
      BY SourceResolverAssumption DEF Location
    <3>2. e = << e[1], e[2] >>
      <4>1. l = << l[1], l[2] >>
        BY <2>1 DEF Location
      <4> QED
        BY <2>1, <4>1 DEF ThroughDirectory
    <3> QED
      BY <2>2, <2>3, <3>1, <3>2
  <2>5. Canonical(k) = Canonical(l) /\ TextAt(k) = TextAt(l) /\ (Readable(k) <=> Readable(l))
    BY <2>1, <2>3, <2>4, SameEnd
  <2>6. Readable(k) /\ Canonical(k)[1] = r
    BY <2>3, InventoryFacts
  <2>7. Readable(l) /\ Canonical(l)[1] = r /\ TextAt(l) = t
    BY <2>3, <2>5, <2>6
  <2> QED
    BY <2>7 DEF l
<1>4. ASSUME NEW t \in Text PROVE (\E c \in Places : Offers(c, t)) <=> t \in Listed(Inventory, mount)
  <2>1. (\E c \in Places : Offers(c, t))
         <=> /\ << module, t >> \in Compatible
             /\ \E r \in Root, i \in DOMAIN Paths(module) :
                   Readable(Spot(r, i)) /\ Canonical(Spot(r, i))[1] = r /\ TextAt(Spot(r, i)) = t
    <3>1. ASSUME NEW r \in Root, NEW i \in DOMAIN Paths(module)
          PROVE  Offers([root |-> r, at |-> Spot(r, i)], t)
                 <=> << module, t >> \in Compatible
                     /\ Readable(Spot(r, i)) /\ Canonical(Spot(r, i))[1] = r /\ TextAt(Spot(r, i)) = t
      <4> DEFINE c == [root |-> r, at |-> Spot(r, i)]
      <4>1. c.root = r /\ c.at = Spot(r, i)
        OBVIOUS
      <4> HIDE DEF c
      <4>2. Offers(c, t) <=> << module, t >> \in Compatible
                             /\ Readable(Spot(r, i)) /\ Canonical(Spot(r, i))[1] = r /\ TextAt(Spot(r, i)) = t
        BY <4>1 DEF Offers, UnderRoot
      <4> QED
        BY <4>2 DEF c
    <3>2. Places = {[root |-> r, at |-> Spot(r, i)] : r \in Root, i \in DOMAIN Paths(module)}
      BY DEF Places
    <3> HIDE DEF Spot, End
    <3>3. ASSUME NEW c \in Places, Offers(c, t)
          PROVE  /\ << module, t >> \in Compatible
                 /\ \E r \in Root, i \in DOMAIN Paths(module) :
                       Readable(Spot(r, i)) /\ Canonical(Spot(r, i))[1] = r /\ TextAt(Spot(r, i)) = t
      <4>1. PICK r \in Root, i \in DOMAIN Paths(module) : c = [root |-> r, at |-> Spot(r, i)]
        BY <3>2
      <4> QED
        BY <3>1, <3>3, <4>1, Zenon
    <3>4. ASSUME << module, t >> \in Compatible, NEW r \in Root, NEW i \in DOMAIN Paths(module),
                 Readable(Spot(r, i)), Canonical(Spot(r, i))[1] = r, TextAt(Spot(r, i)) = t
          PROVE  \E c \in Places : Offers(c, t)
      <4>1. [root |-> r, at |-> Spot(r, i)] \in Places
        BY <3>2
      <4> QED
        BY <3>1, <3>4, <4>1, Zenon
    <3> QED
      BY <3>3, <3>4, Zenon
  <2>2. t \in Listed(Inventory, mount)
         <=> /\ << module, t >> \in Compatible
             /\ \E r \in Root, i \in DOMAIN Paths(module) :
                   End(r, i)[1] = r /\ << End(r, i)[2], t >> \in Inventory[r]
    BY DEF Listed
  <2> HIDE DEF Spot, End
  <2> QED
    BY <1>2, <1>3, <2>1, <2>2
<1> QED
  BY <1>4 DEF Offered, Listed

(***************************************************************************)
(* The resolver: the invariant is kept.                                    *)
(***************************************************************************)

LEMMA ResolverInitial ==
  ASSUME ResolverInit
  PROVE  ResolverInv
<1> USE DEF ResolverInit
<1>1. ResolverTyped
  BY DEF ResolverTyped, ResolverTypeOK
<1>2. SearchInv /\ OutcomeInv /\ KeyInv /\ FoundInv /\ StaysInsideRoots /\ ResolvedIsObserved
  BY DEF SearchInv, OutcomeInv, KeyInv, FoundInv, StaysInsideRoots, ResolvedIsObserved
<1> QED
  BY <1>1, <1>2 DEF ResolverInv

\* Every root is in the list of a request.
LEMMA OrderFacts ==
  ASSUME NEW o \in Orders
  PROVE  o \in Seq(Root) /\ \A r \in Root : \E i \in DOMAIN o : o[i] = r
BY SourceResolverAssumption

LEMMA BeginSearchKeeps ==
  ASSUME ResolverInv, BeginSearch
  PROVE  ResolverInv'
<1> USE DEF ResolverInv, BeginSearch
<1>1. mount \in Mounts /\ root_tree \in Trees /\ module \in Module /\ order \in Orders
  BY DEF ResolverTyped, ResolverTypeOK
<1>2. /\ Places' = Places /\ Offered' = Offered /\ Inventory' = Inventory
      /\ \A c, t : Offers(c, t)' <=> Offers(c, t)
      /\ \A l : Settled(l)' <=> Settled(l)
  BY <1>1, SameTree
<1>3. authorities = << >> /\ observed = {}
  BY DEF OutcomeInv
<1>4. StaysInsideRoots' /\ FoundInv'
  BY <1>3 DEF StaysInsideRoots, FoundInv
<1>5. CASE Malformed(module)
  <2>1. outcome' = NotFound /\ todo' = Nothing
    BY <1>5
  <2>2. ResolverTyped'
    BY <1>1, <1>3, <2>1 DEF ResolverTyped, ResolverTypeOK, NotFound, Outcome
  <2>3. SearchInv' /\ OutcomeInv' /\ ResolvedIsObserved'
    BY <1>5, <2>1 DEF SearchInv, OutcomeInv, ResolvedIsObserved, NotFound, Malformed
  <2>4. KeyInv'
    <3>1. NotFound \in Outcome
      BY DEF NotFound, Outcome
    <3>2. outcome' # Nothing
      BY <2>1, <3>1, SourceResolverAssumption
    <3> QED
      BY <1>2, <3>2, SamePrior DEF KeyInv, NotFound
  <2> QED
    BY <1>4, <2>2, <2>3, <2>4
<1>6. CASE ~Malformed(module)
  <2>1. outcome' = Nothing /\ todo' = [roots |-> order, paths |-> << >>]
    BY <1>6
  <2>2. ResolverTyped'
    <3>1. todo' \in Search /\ todo' # Nothing /\ todo' \in [roots : Seq(Root), paths : Seq(Places)]
      <4>1. order \in Seq(Root) /\ << >> \in Seq(Places)
        BY <1>1, OrderFacts
      <4>2. [roots |-> order, paths |-> << >>] \in Search /\ [roots |-> order, paths |-> << >>] # Nothing
        BY <1>1, <4>1, SearchTyped
      <4> QED
        BY <2>1, <4>1, <4>2
    <3>2. ~Malformed(module)'
      BY <1>6 DEF Malformed
    <3> QED
      BY <1>1, <1>2, <1>3, <2>1, <3>1, <3>2 DEF ResolverTyped, ResolverTypeOK
  <2>3. SearchInv'
    <3>1. \A c \in Places : \E i \in DOMAIN todo'.roots : todo'.roots[i] = c.root
      BY <1>1, <2>1, OrderFacts DEF Places
    <3> QED
      BY <1>2, <1>3, <3>1 DEF SearchInv
  <2>4. OutcomeInv' /\ ResolvedIsObserved'
    BY <1>3, <2>1 DEF OutcomeInv, ResolvedIsObserved
  <2>5. KeyInv'
    <3>1. order \in Seq(Root) /\ << >> \in Seq(Places)
      BY <1>1, OrderFacts
    <3>2. todo' # Nothing
      BY <1>1, <2>1, <3>1, SearchTyped
    <3> QED
      BY <1>2, <3>2, SamePrior DEF KeyInv, NotFound
  <2> QED
    BY <1>4, <2>2, <2>3, <2>4, <2>5
<1> QED
  BY <1>5, <1>6

LEMMA NextRootKeeps ==
  ASSUME ResolverInv, NextRoot
  PROVE  ResolverInv'
<1> USE DEF ResolverInv, NextRoot
<1>1. mount \in Mounts /\ root_tree \in Trees /\ module \in Module /\ order \in Orders
  BY DEF ResolverTyped, ResolverTypeOK
<1>2. /\ Places' = Places /\ Offered' = Offered /\ Inventory' = Inventory
      /\ \A c, t : Offers(c, t)' <=> Offers(c, t)
      /\ \A l : Settled(l)' <=> Settled(l)
  BY <1>1, SameTree
<1>3. /\ todo \in [roots : Seq(Root), paths : Seq(Places)] /\ outcome = Nothing /\ ~Malformed(module)
      /\ todo.paths = << >> /\ todo.roots # << >> /\ todo # Nothing
  BY DEF ResolverTyped
<1> DEFINE h == Head(todo.roots)
           R == Tail(todo.roots)
           C == Candidates(h, module)
<1>4. /\ h \in Root /\ R \in Seq(Root)
      /\ \A r : In(r, todo.roots) => r = h \/ In(r, R)
  <2>1. todo.roots \in Seq(Root) /\ todo.roots # << >>
    BY <1>3
  <2>2. Len(R) = Len(todo.roots) - 1 /\ \A i \in 1 .. Len(R) : R[i] = todo.roots[i + 1]
    BY <2>1
  <2>3. h \in Root /\ R \in Seq(Root)
    BY <2>1
  <2>4. ASSUME NEW i \in DOMAIN todo.roots PROVE todo.roots[i] = h \/ In(todo.roots[i], R)
    <3>1. CASE i = 1
      BY <2>1, <3>1
    <3>2. CASE i # 1
      <4>1. i - 1 \in 1 .. Len(R) /\ (i - 1) + 1 = i
        BY <2>1, <2>2, <3>2
      <4>2. R[i - 1] = todo.roots[i]
        BY <2>2, <4>1
      <4>3. i - 1 \in DOMAIN R
        BY <2>3, <4>1
      <4> QED
        BY <4>2, <4>3 DEF In
    <3> QED
      BY <3>1, <3>2
  <2> QED
    BY <2>3, <2>4 DEF In
<1>5. C \in Seq(Places) /\ \A c \in Places : c.root = h => In(c, C)
  BY <1>1, <1>4, CandidateFacts DEF In
<1>6. todo' = [roots |-> R, paths |-> C]
  OBVIOUS
<1> HIDE DEF h, R, C
<1>7. /\ todo' \in Search /\ todo' # Nothing /\ todo' \in [roots : Seq(Root), paths : Seq(Places)]
      /\ todo'.roots = R /\ todo'.paths = C
  <2> HIDE DEF ResolverInv, NextRoot
  <2>1. R \in Seq(Root) /\ C \in Seq(Places)
    BY <1>4, <1>5
  <2>2. [roots |-> R, paths |-> C] \in Search /\ [roots |-> R, paths |-> C] # Nothing
    BY <1>1, <2>1, SearchTyped
  <2>3. todo' \in Search /\ todo' # Nothing
    BY <1>6, <2>2
  <2>4. todo'.roots = R /\ todo'.paths = C /\ todo' \in [roots : Seq(Root), paths : Seq(Places)]
    BY <1>6, <2>1
  <2> QED
    BY <2>3, <2>4
<1>8. ResolverTyped'
  <2>1. ~Malformed(module)'
    BY <1>3 DEF Malformed
  <2>2. ResolverTypeOK'
    BY <1>7 DEF ResolverTyped, ResolverTypeOK
  <2> QED
    BY <1>2, <1>3, <1>7, <2>1, <2>2 DEF ResolverTyped
<1>9. SearchInv'
  <2>1. DOMAIN authorities' \subseteq Offered'
    BY <1>2, <1>3 DEF SearchInv
  <2>2. ASSUME NEW c \in Places, NEW t \in Text, Offers(c, t)
        PROVE  t \in DOMAIN authorities' \/ In(c.root, R) \/ In(c, C)
    <3>1. t \in DOMAIN authorities \/ In(c.root, todo.roots) \/ In(c, todo.paths)
      BY <1>3, <2>2 DEF SearchInv, In
    <3>2. ~In(c, todo.paths)
      BY <1>3 DEF In
    <3> QED
      BY <1>4, <1>5, <3>1, <3>2
  <2>3. \A c \in Places', t \in Text : Offers(c, t)' =>
           t \in DOMAIN authorities' \/ In(c.root, todo'.roots) \/ In(c, todo'.paths)
    BY <1>2, <1>7, <2>2
  <2> QED
    BY <2>1, <2>3 DEF SearchInv, In
<1>10. todo' # Nothing /\ outcome' = Nothing
  BY <1>3, <1>7
<1>11. OutcomeInv' /\ KeyInv' /\ FoundInv' /\ StaysInsideRoots' /\ ResolvedIsObserved'
  <2>1. OutcomeInv' /\ ResolvedIsObserved'
    BY <1>10 DEF OutcomeInv, ResolvedIsObserved
  <2>2. KeyInv'
    BY <1>2, <1>3, <1>10, SamePrior DEF KeyInv, NotFound
  <2>3. StaysInsideRoots' /\ FoundInv'
    BY <1>2 DEF StaysInsideRoots, FoundInv
  <2> QED
    BY <2>1, <2>2, <2>3
<1> QED
  BY <1>8, <1>9, <1>11

\* A Look steps over one place: it takes the text the place offers, unless it
\* is there already.
LEMMA LookKeeps ==
  ASSUME ResolverInv, Look
  PROVE  ResolverInv'
<1> DEFINE c == Head(todo.paths)
           C == Tail(todo.paths)
           text == TextAt(c.at)
           taken == Readable(c.at) /\ UnderRoot(c) /\ << module, text >> \in Compatible
                    /\ text \notin DOMAIN authorities
<1>1. mount \in Mounts /\ root_tree \in Trees /\ module \in Module /\ order \in Orders
  BY DEF ResolverInv, ResolverTyped, ResolverTypeOK
<1>2. /\ Places' = Places /\ Offered' = Offered /\ Inventory' = Inventory
      /\ \A d, t : Offers(d, t)' <=> Offers(d, t)
      /\ \A l : Settled(l)' <=> Settled(l)
  BY <1>1, SameTree DEF Look
<1>3. /\ todo \in [roots : Seq(Root), paths : Seq(Places)] /\ outcome = Nothing /\ ~Malformed(module)
      /\ todo.paths # << >> /\ todo # Nothing
  BY DEF ResolverInv, Look, ResolverTyped
<1>4. /\ c \in Places /\ C \in Seq(Places)
      /\ \A d : In(d, todo.paths) => d = c \/ In(d, C)
  <2>1. todo.paths \in Seq(Places) /\ todo.paths # << >>
    BY <1>3
  <2>2. Len(C) = Len(todo.paths) - 1 /\ \A i \in 1 .. Len(C) : C[i] = todo.paths[i + 1]
    BY <2>1
  <2>3. c \in Places /\ C \in Seq(Places)
    BY <2>1
  <2>4. ASSUME NEW i \in DOMAIN todo.paths PROVE todo.paths[i] = c \/ In(todo.paths[i], C)
    <3>1. CASE i = 1
      BY <2>1, <3>1
    <3>2. CASE i # 1
      <4>1. i - 1 \in 1 .. Len(C) /\ (i - 1) + 1 = i
        BY <2>1, <2>2, <3>2
      <4>2. C[i - 1] = todo.paths[i]
        BY <2>2, <4>1
      <4>3. i - 1 \in DOMAIN C
        BY <2>3, <4>1
      <4> QED
        BY <4>2, <4>3 DEF In
    <3> QED
      BY <3>1, <3>2
  <2> QED
    BY <2>3, <2>4 DEF In
<1>5. todo' = [roots |-> todo.roots, paths |-> C]
  <2>1. todo' = [todo EXCEPT !.paths = C]
    BY DEF Look
  <2> HIDE DEF C
  <2> QED
    BY <1>3, <2>1
<1>6. /\ authorities' = IF taken THEN [t \in DOMAIN authorities \union {text} |->
                                         IF t = text THEN Canonical(c.at) ELSE authorities[t]]
                                 ELSE authorities
      /\ UNCHANGED << root_tree, mount, order, module, outcome, observed, key, prior >>
  BY DEF Look, New
<1>7. ASSUME NEW t PROVE Offers(c, t) => t = text /\ (taken \/ t \in DOMAIN authorities)
  BY DEF Offers
<1>8. taken => /\ Offers(c, text) /\ text \in Text
               /\ Canonical(c.at) \in Slot /\ Canonical(c.at)[1] \in Root /\ root_tree[Canonical(c.at)] = text
               /\ Settled(Canonical(c.at))
  <2>1. c.root \in Root /\ c.at \in Location
    BY <1>4, <1>1, PlacesTyped
  <2>2. Readable(c.at) => Settled(Canonical(c.at))
    BY <1>1, <2>1, CanonicalSettled
  <2> QED
    BY <2>1, <2>2 DEF Offers, Readable, TextAt, UnderRoot
<1> HIDE DEF c, C, text, taken
<1>9. /\ todo' \in Search /\ todo' # Nothing /\ todo' \in [roots : Seq(Root), paths : Seq(Places)]
      /\ todo'.roots = todo.roots /\ todo'.paths = C
  <2>1. todo.roots \in Seq(Root) /\ C \in Seq(Places)
    BY <1>3, <1>4
  <2>2. [roots |-> todo.roots, paths |-> C] \in Search /\ [roots |-> todo.roots, paths |-> C] # Nothing
    BY <1>1, <2>1, SearchTyped
  <2>3. todo' \in Search /\ todo' # Nothing
    BY <1>5, <2>2
  <2>4. todo'.roots = todo.roots /\ todo'.paths = C /\ todo' \in [roots : Seq(Root), paths : Seq(Places)]
    BY <1>5, <2>1
  <2> QED
    BY <2>3, <2>4
<1>10. DOMAIN authorities' = DOMAIN authorities \union (IF taken THEN {text} ELSE {})
  BY <1>6
<1>11. \A t \in DOMAIN authorities' :
          authorities'[t] = IF taken /\ t = text THEN Canonical(c.at) ELSE authorities[t]
  BY <1>6
<1>12. DOMAIN authorities \subseteq Text /\ \A t \in DOMAIN authorities : authorities[t] \in Slot
  BY DEF ResolverInv, ResolverTyped, ResolverTypeOK
<1>13. ResolverTyped'
  <2>1. ~Malformed(module)'
    BY <1>3, <1>6 DEF Malformed
  <2>2. DOMAIN authorities' \subseteq Text /\ \A t \in DOMAIN authorities' : authorities'[t] \in Slot
    BY <1>8, <1>10, <1>11, <1>12
  <2>3. ResolverTypeOK'
    BY <1>6, <1>9, <2>2 DEF ResolverInv, ResolverTyped, ResolverTypeOK
  <2>4. todo' \in [roots : Seq(Root), paths : Seq(Places')] /\ outcome' = Nothing /\ order' \in Orders
    BY <1>1, <1>2, <1>3, <1>6, <1>9
  <2> QED
    BY <2>1, <2>2, <2>3, <2>4 DEF ResolverTyped
<1>14. SearchInv'
  <2>1. DOMAIN authorities' \subseteq Offered'
    <3>1. DOMAIN authorities \subseteq Offered
      BY <1>3 DEF ResolverInv, SearchInv
    <3>2. taken => text \in Offered
      BY <1>4, <1>8 DEF Offered
    <3> QED
      BY <1>2, <1>10, <3>1, <3>2
  <2>2. ASSUME NEW d \in Places, NEW t \in Text, Offers(d, t)
        PROVE  t \in DOMAIN authorities' \/ In(d.root, todo.roots) \/ In(d, C)
    <3>1. t \in DOMAIN authorities \/ In(d.root, todo.roots) \/ In(d, todo.paths)
      BY <1>3, <2>2 DEF ResolverInv, SearchInv, In
    <3> QED
      BY <1>4, <1>7, <1>10, <2>2, <3>1
  <2>3. \A d \in Places', t \in Text : Offers(d, t)' =>
           t \in DOMAIN authorities' \/ In(d.root, todo'.roots) \/ In(d, todo'.paths)
    BY <1>2, <1>9, <2>2
  <2> QED
    BY <2>1, <2>3 DEF SearchInv, In
<1>15. StaysInsideRoots'
  <2>1. \A t \in DOMAIN authorities : authorities[t][1] \in Root /\ root_tree[authorities[t]] = t
    BY DEF ResolverInv, StaysInsideRoots
  <2>2. \A t \in DOMAIN authorities' : authorities'[t][1] \in Root /\ root_tree[authorities'[t]] = t
    BY <1>8, <1>10, <1>11, <2>1
  <2> QED
    BY <1>6, <2>2 DEF StaysInsideRoots
<1>16. OutcomeInv' /\ ResolvedIsObserved'
  <2>1. todo' # Nothing /\ outcome' = Nothing
    BY <1>3, <1>6, <1>9
  <2> QED
    BY <2>1 DEF OutcomeInv, ResolvedIsObserved
<1>17. KeyInv'
  BY <1>2, <1>3, <1>6, <1>9, SamePrior DEF ResolverInv, KeyInv, NotFound
<1>18. FoundInv'
  <2>1. \A t \in DOMAIN authorities : Settled(authorities[t])
    BY DEF ResolverInv, FoundInv
  <2>2. \A t \in DOMAIN authorities' : Settled(authorities'[t])
    BY <1>8, <1>10, <1>11, <2>1
  <2> QED
    BY <1>2, <2>2 DEF FoundInv
<1> QED
  BY <1>13, <1>14, <1>15, <1>16, <1>17, <1>18 DEF ResolverInv

LEMMA ConcludeKeeps ==
  ASSUME ResolverInv, Conclude
  PROVE  ResolverInv'
<1> DEFINE texts == DOMAIN authorities
<1>1. mount \in Mounts /\ root_tree \in Trees /\ module \in Module /\ order \in Orders
  BY DEF ResolverInv, ResolverTyped, ResolverTypeOK
<1>2. UNCHANGED << root_tree, mount, order, module, authorities, key, prior >> /\ todo' = Nothing
  BY DEF Conclude
<1>3. Offered' = Offered /\ Inventory' = Inventory /\ \A l : Settled(l)' <=> Settled(l)
  BY <1>1, <1>2, SameTree
<1>4. /\ outcome = Nothing /\ ~Malformed(module)
      /\ todo.paths = << >> /\ todo.roots = << >> /\ todo # Nothing
  BY DEF ResolverInv, Conclude, ResolverTyped
<1>5. texts = Offered
  <2>1. texts \subseteq Offered
    BY <1>4 DEF ResolverInv, SearchInv
  <2>2. Offered \subseteq texts
    BY <1>4 DEF ResolverInv, SearchInv, Offered
  <2> QED
    BY <2>1, <2>2
<1>6. texts \subseteq Text /\ observed \subseteq Slot \X Text /\ \A t \in texts : authorities[t] \in Slot
  BY DEF ResolverInv, ResolverTyped, ResolverTypeOK
<1>7. \A t \in texts : root_tree[authorities[t]] = t
  BY DEF ResolverInv, StaysInsideRoots
<1>8. /\ outcome' = Verdict(texts)
      /\ \/ observed' = observed
         \/ \E t \in texts : observed' = observed \union {<< authorities[t], t >>}
      /\ outcome'.kind = "resolved" => \E t \in texts : << authorities[t], t >> \in observed'
  <2>1. CASE texts = {} /\ outcome' = NotFound /\ UNCHANGED observed
    BY <2>1 DEF Verdict, NotFound
  <2>2. CASE /\ Cardinality(texts) = 1
             /\ outcome' = [kind |-> "resolved", texts |-> texts]
             /\ \A t \in texts : Observe(t)
    <3>1. texts # {}
      BY <2>2, FS_EmptySet
    <3>2. PICK t \in texts : observed' = observed \union {<< authorities[t], t >>}
      BY <2>2, <3>1 DEF Observe
    <3> QED
      BY <2>2, <3>1, <3>2 DEF Verdict
  <2>3. CASE /\ Cardinality(texts) > 1
             /\ outcome' = [kind |-> "conflict", texts |-> texts]
             /\ UNCHANGED observed
    <3>1. texts # {}
      BY <2>3, FS_EmptySet
    <3>2. Cardinality(texts) # 1
      BY <2>3
    <3> QED
      BY <2>3, <3>1, <3>2 DEF Verdict
  <2> QED
    BY <2>1, <2>2, <2>3 DEF Conclude
<1>9. outcome' \in Outcome /\ outcome' # Nothing
  <2>1. Verdict(texts) \in Outcome
    BY <1>6 DEF Verdict, NotFound, Outcome
  <2> QED
    BY <1>8, <2>1, SourceResolverAssumption
<1> HIDE DEF texts
<1>10. observed' \subseteq Slot \X Text
  BY <1>6, <1>8
<1>11. ResolverTyped'
  <2>1. ResolverTypeOK'
    BY <1>2, <1>9, <1>10 DEF ResolverInv, ResolverTyped, ResolverTypeOK
  <2> QED
    BY <1>2, <2>1 DEF ResolverInv, ResolverTyped
<1>12. SearchInv'
  BY <1>2 DEF SearchInv
<1>13. OutcomeInv'
  <2>1. outcome' = Verdict(Offered)' /\ ~Malformed(module)'
    BY <1>2, <1>3, <1>4, <1>5, <1>8 DEF Verdict, NotFound, Malformed
  <2> QED
    BY <1>9, <2>1 DEF OutcomeInv
<1>14. KeyInv'
  BY <1>2, <1>3, <1>4, <1>9, SamePrior DEF ResolverInv, KeyInv, NotFound
<1>15. StaysInsideRoots' /\ FoundInv'
  BY <1>2, <1>3 DEF ResolverInv, StaysInsideRoots, FoundInv
<1>16. ResolvedIsObserved'
  <2>1. SUFFICES ASSUME outcome'.kind = "resolved"
                 PROVE  \E seen \in observed' : seen[2] \in outcome'.texts /\ root_tree'[seen[1]] = seen[2]
    BY DEF ResolvedIsObserved
  <2>2. PICK t \in texts : << authorities[t], t >> \in observed'
    BY <1>8, <2>1
  <2>3. outcome'.texts = texts
    BY <1>8, <2>2 DEF Verdict
  <2>4. root_tree'[authorities[t]] = t
    BY <1>2, <1>7
  <2> QED
    BY <2>2, <2>3, <2>4
<1> QED
  BY <1>11, <1>12, <1>13, <1>14, <1>15, <1>16 DEF ResolverInv

LEMMA EditRootsKeeps ==
  ASSUME ResolverInv, EditRoots
  PROVE  ResolverInv'
<1>1. mount \in Mounts /\ root_tree \in Trees /\ module \in Module /\ order \in Orders
  BY DEF ResolverInv, ResolverTyped, ResolverTypeOK
<1>2. /\ outcome # Nothing /\ prior' = [key |-> key, mount |-> mount, outcome |-> outcome] /\ module' = module
      /\ root_tree' \in Trees /\ mount' \in Mounts /\ order' \in Orders
      /\ todo' = Nothing /\ authorities' = << >> /\ outcome' = Nothing /\ observed' = {}
      /\ key' = Nothing
  BY DEF EditRoots
<1>3. ResolverTyped'
  <2>1. DOMAIN authorities' = {}
    BY <1>2
  <2> QED
    BY <1>1, <1>2, <2>1 DEF ResolverTyped, ResolverTypeOK
<1>4. SearchInv' /\ OutcomeInv' /\ FoundInv' /\ StaysInsideRoots' /\ ResolvedIsObserved'
  BY <1>2 DEF SearchInv, OutcomeInv, FoundInv, StaysInsideRoots, ResolvedIsObserved
<1>5. KeyInv'
  <2>1. key = Inventory /\ outcome = IF Malformed(module) THEN NotFound ELSE Verdict(Offered)
    BY <1>2 DEF ResolverInv, KeyInv, OutcomeInv
  <2>2. key # Nothing => outcome = IF Malformed(module) THEN NotFound ELSE Verdict(Listed(key, mount))
    BY <1>1, <2>1, OfferedIsListed
  <2>3. prior'.key = key /\ prior'.mount = mount /\ prior'.outcome = outcome
    BY <1>2
  <2>4. Listed(prior.key, prior.mount)' = Listed(key, mount) /\ (Malformed(module)' <=> Malformed(module))
    BY <1>2, <2>3 DEF Listed, Malformed
  <2>5. Verdict(Listed(prior.key, prior.mount))' = Verdict(Listed(key, mount))
    BY <2>4 DEF Verdict, NotFound
  <2>6. (prior.key # Nothing =>
           prior.outcome = IF Malformed(module) THEN NotFound ELSE Verdict(Listed(prior.key, prior.mount)))'
    BY <2>2, <2>3, <2>4, <2>5
  <2> QED
    BY <1>2, <2>6 DEF KeyInv
<1> QED
  BY <1>3, <1>4, <1>5 DEF ResolverInv

\* The invariant says what is wanted.
LEMMA ResolverInvSound ==
  ASSUME ResolverInv
  PROVE  ResolverTypeOK /\ StaysInsideRoots /\ OneAuthority /\ ResolvedIsObserved
         /\ InventoryShows /\ InventoryDecides
<1>1. mount \in Mounts /\ root_tree \in Trees /\ module \in Module
  BY DEF ResolverInv, ResolverTyped, ResolverTypeOK
<1>2. outcome # Nothing => outcome = IF Malformed(module) THEN NotFound ELSE Verdict(Offered)
  BY DEF ResolverInv, OutcomeInv
<1>3. OneAuthority
  <2>1. \A T : Verdict(T).texts = T
    BY DEF Verdict, NotFound
  <2>2. outcome # Nothing /\ ~Malformed(module) => outcome.texts = Agreed
    BY <1>1, <1>2, <2>1, OfferedIsAgreed
  <2> QED
    BY <2>2 DEF OneAuthority, Agreed
<1>4. InventoryDecides
  <2> SUFFICES ASSUME outcome # Nothing, prior # Nothing, key # Nothing, prior.key = key, prior.mount = mount
               PROVE  outcome = prior.outcome
    BY DEF InventoryDecides
  <2>1. key = Inventory /\ prior.outcome = IF Malformed(module) THEN NotFound ELSE Verdict(Listed(prior.key, prior.mount))
    BY DEF ResolverInv, KeyInv
  <2>2. Offered = Listed(prior.key, prior.mount)
    BY <1>1, <2>1, OfferedIsListed
  <2> QED
    BY <1>2, <2>1, <2>2
<1>5. InventoryShows
  <2> SUFFICES ASSUME key # Nothing, NEW t \in DOMAIN authorities
               PROVE  << authorities[t][2], t >> \in key[authorities[t][1]]
    BY DEF InventoryShows
  <2> DEFINE l == authorities[t]
  <2>1. l \in Slot /\ l[1] \in Root /\ root_tree[l] = t /\ t \in Text
    BY DEF ResolverInv, ResolverTyped, ResolverTypeOK, StaysInsideRoots
  <2>2. ThroughDirectory(mount, l) = l /\ Canonical(l) = l
    BY DEF ResolverInv, FoundInv, Settled
  <2>3. key = Inventory
    BY DEF ResolverInv, KeyInv
  <2> HIDE DEF l
  <2>4. TextAt(l) = t /\ root_tree[l] # Nothing
    BY <2>1, <2>2, SourceResolverAssumption DEF TextAt
  <2>5. << l[2], TextAt(l) >> \in Inventory[l[1]]
    BY <2>1, <2>2, <2>3, <2>4, InventoryFacts
  <2>6. << l[2], t >> \in key[l[1]]
    BY <2>3, <2>4, <2>5
  <2> QED
    BY <2>6 DEF l
<1> QED
  BY <1>3, <1>4, <1>5 DEF ResolverInv, ResolverTyped

LEMMA ResolverStep ==
  ASSUME ResolverInv, [ResolverNext]_resolverVars
  PROVE  ResolverInv'
<1>1. CASE UNCHANGED resolverVars
  <2>1. UNCHANGED << root_tree, mount, order, module, todo, authorities, outcome, observed, key, prior >>
    BY <1>1 DEF resolverVars
  <2>2. mount \in Mounts
    BY DEF ResolverInv, ResolverTyped, ResolverTypeOK
  <2>3. /\ Places' = Places /\ Offered' = Offered /\ Inventory' = Inventory
        /\ \A c, t : Offers(c, t)' <=> Offers(c, t)
        /\ \A l : Settled(l)' <=> Settled(l)
    BY <2>1, <2>2, SameTree
  <2>4. /\ Malformed(module)' <=> Malformed(module)
        /\ Listed(prior.key, prior.mount)' = Listed(prior.key, prior.mount)
    BY <2>1, SamePrior
  <2>5. ResolverTyped' /\ StaysInsideRoots' /\ ResolvedIsObserved'
    BY <2>1, <2>3, <2>4 DEF ResolverInv, ResolverTyped, ResolverTypeOK, StaysInsideRoots, ResolvedIsObserved
  <2>6. SearchInv'
    BY <2>1, <2>3 DEF ResolverInv, SearchInv
  <2>7. OutcomeInv'
    BY <2>1, <2>3, <2>4 DEF ResolverInv, OutcomeInv, Verdict
  <2>8. KeyInv'
    BY <2>1, <2>3, <2>4 DEF ResolverInv, KeyInv, Verdict
  <2>9. FoundInv'
    BY <2>1, <2>3 DEF ResolverInv, FoundInv
  <2> QED
    BY <2>5, <2>6, <2>7, <2>8, <2>9 DEF ResolverInv
<1> QED
  BY <1>1, BeginSearchKeeps, NextRootKeeps, LookKeeps, ConcludeKeeps, EditRootsKeeps DEF ResolverNext

(***************************************************************************)
(* A resolution is the one text the roots agree on, whichever way the      *)
(* request lists them, found inside them, reported as an input, shown by   *)
(* the inventory the key is made of and, together with the links of        *)
(* directories, decided by it (resolve_detailed of provider.rs with the    *)
(* inventory of vm_provider.py), for all roots, names, trees, links and    *)
(* orders.                                                                 *)
(***************************************************************************)
THEOREM ResolverSound == Spec => []ResolutionIsSound
<1> DEFINE I == tool = "resolver" => ResolverInv
<1>1. Init => I
  BY ResolverInitial DEF Init
<1>2. I /\ [Next]_<<tool, providerVars, invocationVars, resolverVars>> => I'
  BY ResolverStep DEF Next
<1>3. I => ResolutionIsSound
  BY ResolverInvSound DEF ResolutionIsSound
<1> QED
  BY <1>1, <1>2, <1>3, PTL DEF Spec
=============================================================================
