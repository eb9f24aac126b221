--------------------------- MODULE BuildProvider ---------------------------
(***************************************************************************)
(* tools/application_build_provider.py, the process Environment starts for *)
(* one application build.  Environment puts the files of an earlier        *)
(* invocation back into the artifact directory first; the provider removes *)
(* the old result, runs one probe under a timeout, checks its answer and   *)
(* publishes it.  Any step may fail, the probe may answer anything or hang *)
(* and the provider may be killed; Environment then invokes it again.      *)
(*                                                                         *)
(* Environment and the selected probe are external.  A probe that conforms *)
(* answers with the contract of compile_application; another one may have  *)
(* been selected with MNCS_COMPILER_PROBE.  What a killed probe leaves in  *)
(* the build cache is the subject of ApplicationCache.                     *)
(***************************************************************************)
EXTENDS RequestVersions

CONSTANTS
    Requested,     \* the schema versions clients send, supported or not
    Absent,
    MaxRuns        \* bound: invocations

VARIABLES
    run,       \* number of the invocation
    pc,
    version,   \* the request's schema version
    dir,       \* MNCS_ENV_SESSION_ARTIFACT_DIR is set
    out,       \* native-application-build.json
    bundle,    \* the result file Environment kept
    probe,     \* the subprocess
    reply,     \* its parsed answer
    exit,
    reason     \* what an exit code 2 was about

invocationVars == << run, pc, version, dir, out, bundle, probe, reply, exit, reason >>

Status == {"verified", "unsupported", "unavailable", "unknown", "rejected"}
Schema == 1 .. 17
Reply == [schema : Schema, status : Status \union {"other"}]
Result == [by : 1 .. MaxRuns, whole : BOOLEAN, reply : Reply]

ASSUME BuildProviderAssumption == MaxRuns \in Nat /\ Absent \notin Result

\* RESPONSE_SCHEMA_BY_REQUEST.
ResponseSchemaByRequest == [v \in 1 .. 13 |-> v + 3]

Conforms(answer) == answer.schema = ContractOf(version) /\ answer.status \in Status

----------------------------------------------------------------------------
(* The provider. *)

\* ProviderError, OSError and ValueError end in exit code 2.
Fail(why) ==
    /\ pc' = "ended" /\ exit' = 2 /\ reason' = why
    /\ UNCHANGED << run, version, dir, bundle, reply >>

\* Seeded fault: the old result is left where it is.
ClearNothing ==
    /\ pc = "clear"
    /\ pc' = "request"
    /\ UNCHANGED << run, version, dir, out, bundle, probe, reply, exit, reason >>

\* clear_previous_response: a file that cannot be removed ends the run.
Clear ==
    /\ pc = "clear"
    /\ \/ /\ out' = IF dir THEN Absent ELSE out
          /\ pc' = "request"
          /\ UNCHANGED << run, version, dir, bundle, probe, reply, exit, reason >>
       \/ /\ dir
          /\ Fail("clear")
          /\ UNCHANGED << out, probe >>

\* The request is read, and its version looked up.
ReadRequest ==
    /\ pc = "request"
    /\ \/ /\ version \in DOMAIN ResponseSchemaByRequest
          /\ pc' = "start"
          /\ UNCHANGED << run, version, dir, out, bundle, probe, reply, exit, reason >>
       \/ /\ version \notin DOMAIN ResponseSchemaByRequest
          /\ Fail("schema")
          /\ UNCHANGED << out, probe >>
       \/ Fail("request") /\ UNCHANGED << out, probe >>

StartProbe ==
    /\ pc = "start"
    /\ \/ /\ probe' = "running" /\ pc' = "probe"
          /\ UNCHANGED << run, version, dir, out, bundle, reply, exit, reason >>
       \/ Fail("io") /\ UNCHANGED << out, probe >>

\* The probe ends: with an answer, or without one that can be parsed.
ProbeEnds ==
    /\ pc = "probe"
    /\ probe' = "none"
    /\ \/ /\ reply' \in Reply
          /\ pc' = "check"
          /\ UNCHANGED << run, version, dir, out, bundle, exit, reason >>
       \/ Fail("io") /\ UNCHANGED out

\* subprocess.run kills the probe when the time is up.
Timeout == pc = "probe" /\ Fail("timeout") /\ probe' = "none" /\ UNCHANGED out

\* The checks at the end of run_build.
CheckReply ==
    /\ pc = "check"
    /\ IF reply.schema = ResponseSchemaByRequest[version] /\ reply.status \in Status
       THEN /\ pc' = IF dir THEN "create" ELSE "report"
            /\ UNCHANGED << run, version, dir, out, bundle, probe, reply, exit, reason >>
       ELSE Fail("answer") /\ UNCHANGED << out, probe >>

\* publish_response opens the file with O_EXCL.
Create ==
    /\ pc = "create"
    /\ \/ /\ out = Absent
          /\ out' = [by |-> run, whole |-> FALSE, reply |-> reply]
          /\ pc' = "fill"
          /\ UNCHANGED << run, version, dir, bundle, probe, reply, exit, reason >>
       \/ Fail("io") /\ UNCHANGED << out, probe >>

\* write, fsync and chmod; a failure leaves what was written.
Fill ==
    /\ pc = "fill"
    /\ \/ /\ out' = [out EXCEPT !.whole = TRUE]
          /\ pc' = "report"
          /\ UNCHANGED << run, version, dir, bundle, probe, reply, exit, reason >>
       \/ /\ out' \in {out, [out EXCEPT !.whole = TRUE]}
          /\ Fail("io")
          /\ UNCHANGED probe

\* The summary, or without a directory the whole response, goes to stdout.
Report ==
    /\ pc = "report"
    /\ \/ /\ pc' = "ended" /\ exit' = 0
          /\ UNCHANGED << run, version, dir, out, bundle, probe, reply, reason >>
       \/ Fail("io") /\ UNCHANGED << out, probe >>

----------------------------------------------------------------------------
(* The surroundings. *)

\* Environment restores the bundle and starts the provider.
Invoke ==
    /\ pc = "idle"
    /\ run < MaxRuns
    /\ run' = run + 1
    /\ version' \in Requested /\ dir' \in BOOLEAN
    /\ out' \in {bundle, Absent}
    /\ pc' = "clear" /\ exit' = Absent /\ reason' = "none"
    /\ UNCHANGED << bundle, probe, reply >>

\* The provider is killed; a probe it started ends on its own, unheard.
Killed ==
    /\ pc \notin {"idle", "ended"}
    /\ pc' = "ended" /\ exit' = 9
    /\ reason' = IF pc = "clear" THEN "clear" ELSE "io"
    /\ probe' = "none"
    /\ UNCHANGED << run, version, dir, out, bundle, reply >>

\* Environment may keep the directory of any invocation as the next bundle.
Capture ==
    /\ pc = "ended"
    /\ bundle' \in IF dir THEN {out, bundle} ELSE {bundle}
    /\ out' = Absent /\ reply' = Absent /\ pc' = "idle"
    /\ UNCHANGED << run, version, dir, probe, exit, reason >>

InvocationInit ==
    /\ run = 0 /\ pc = "idle" /\ version \in Requested /\ dir = FALSE
    /\ out = Absent /\ bundle = Absent /\ probe = "none" /\ reply = Absent /\ exit = Absent /\ reason = "none"

InvocationStep ==
    \/ Clear \/ ReadRequest \/ StartProbe \/ Timeout \/ CheckReply \/ Create \/ Fill \/ Report

InvocationNext == InvocationStep \/ ProbeEnds \/ Invoke \/ Killed \/ Capture
InvocationSpec == InvocationInit /\ [][InvocationNext]_invocationVars

\* The provider runs and its timeout expires.  The probe owes nothing.
InvocationFairSpec == InvocationSpec /\ WF_invocationVars(InvocationStep)

----------------------------------------------------------------------------
(* Properties. *)

\* The type invariant: a probe runs only while its provider waits for it.
InvocationTypeOK ==
    /\ run \in 0 .. MaxRuns
    /\ pc \in {"idle", "clear", "request", "start", "probe", "check", "create", "fill", "report", "ended"}
    /\ version \in Requested /\ dir \in BOOLEAN
    /\ out \in Result \union {Absent} /\ bundle \in Result \union {Absent}
    /\ probe \in {"none", "running"} /\ (probe = "running" => pc = "probe")
    /\ reply \in Reply \union {Absent} /\ exit \in {Absent, 0, 2, 9}
    /\ reason \in {"none", "clear", "request", "schema", "timeout", "answer", "io"}

\* "Keeping its last successful build file when the new request fails would
\* let a failed invocation appear to have produced that success": once the
\* provider has looked at the directory, what is there is its own, whatever
\* fails, is killed or runs out of time after that.
NothingStale ==
    dir /\ out # Absent /\ pc \notin {"idle", "clear"} /\ reason # "clear" => out.by = run

\* Exit code 0 promises a complete result of this very request in the
\* directory, under the response schema that belongs to the request.
ExitZeroMeansPublished ==
    pc = "ended" /\ exit = 0 /\ dir =>
        /\ out # Absent /\ out.by = run /\ out.whole
        /\ Conforms(out.reply)

\* The provider's table and compile_application agree: a version the compiler
\* supports is never refused for its schema, nor an answer that conforms.
SupportedBuildsAreTaken ==
    pc = "ended" =>
        /\ reason = "schema" => version \notin Versions
        /\ reason = "answer" => ~Conforms(reply)

\* Every invocation ends although the probe may hang for ever.
InvocationEnds == pc # "idle" /\ pc # "ended" ~> pc = "ended"
=============================================================================
