----------------------------- MODULE MCVmRunner -----------------------------
(* Instances for VmRunner: artifacts that bind one alias, two aliases, or   *)
(* in ways the runner refuses, and batches whose rows share paths.          *)
EXTENDS VmRunner

MCPath == {"/req1", "/req2", "/in", "/out", "/out2", "//out", "out"}
MCAbsolutePath == MCPath \ {"out"}
MCFileOf == [p \in MCPath |-> CASE p \in {"//out", "out"} -> "/out" [] OTHER -> p]
MCFile == {"/req1", "/req2", "/in", "/out", "/out2"}

MCSuffix == [id \in {"m::files", "x::files", "m::log", "m::"} |->
                CASE id \in {"m::files", "x::files"} -> "files" [] id = "m::log" -> "log" [] OTHER -> ""]

Instr(kind, alias, operation, uses, requires) ==
    [kind |-> kind, alias |-> alias, operation |-> operation, uses |-> uses, requires |-> requires]
Host(alias, operation, id) == Instr("host", alias, operation, {id}, {})
CallOf(ids) == Instr("call", "", "", {}, ids)

ReadFiles == Host("files", "structured_read", "m::files")
WriteFiles == Host("files", "structured_write", "m::files")
DigestFiles == Host("files", "structured_digest", "m::files")

Artifact(code, required) == [code |-> code, required |-> required]

OneAlias == Artifact({ReadFiles, WriteFiles, CallOf({"m::files"})}, {"m::files"})
TwoAliases == Artifact({WriteFiles, Host("log", "structured_write", "m::log"), DigestFiles}, {"m::files", "m::log"})

\* One alias shared by two identities, an identity with two aliases, a host
\* call with two uses, calls that require what the artifact or the command
\* line does not, an unknown operation, no host call at all.
Odd ==
    { Artifact({WriteFiles, Host("files", "structured_read", "x::files")}, {"m::files", "x::files"}),
      Artifact({WriteFiles, Host("log", "structured_read", "m::files")}, {"m::files"}),
      Artifact({Instr("host", "files", "structured_write", {"m::files", "m::log"}, {})}, {"m::files", "m::log"}),
      Artifact({WriteFiles, CallOf({"x::files"})}, {"m::files"}),
      Artifact({WriteFiles, CallOf({"m::"})}, {"m::files", "m::"}),
      Artifact({WriteFiles, CallOf({"x::files", "m::log"})}, {"m::files", "x::files", "m::log"}),
      Artifact({WriteFiles}, {}),
      Artifact({WriteFiles, Host("files", "structured_seek", "m::files")}, {"m::files"}),
      Artifact({CallOf({"m::files"})}, {"m::files"}) }

RowOf(request, input, output, check, mode) ==
    [request |-> request, input |-> input, output |-> output, check |-> check, mode |-> mode]

FirstRow == RowOf("/req1", "/in", "/out", NoPath, "success")
Batches ==
    { <<>>,
      << FirstRow, RowOf("/req2", "/out", "/out2", NoPath, "success") >>,
      << FirstRow, RowOf("/req2", "//out", "/out2", NoPath, "success") >>,
      << FirstRow, RowOf("/req2", "/out2", "//out", NoPath, "fail-write") >>,
      << RowOf("/req1", "/in", "/out", "//out", "success"), RowOf("/req2", "/in", "/out2", NoPath, "none") >>,
      << RowOf("/req1", "/in", "/out", NoPath, "none"), RowOf("/req2", "/out2", "//out", NoPath, "success") >>,
      << RowOf("/req1", "/in", "out", NoPath, "success") >>,
      << RowOf("/req1", "/in", "/out", NoPath, "other") >>,
      << FirstRow, FirstRow, FirstRow >> }

Invocation(artifact, authorized, aliases, mode, rows) ==
    [artifact |-> artifact, authorized |-> authorized, aliases |-> aliases, mode |-> mode, rows |-> rows]

MCInvocations ==
    {Invocation(a, b[1], b[2], "single", <<FirstRow>>) :
        a \in Odd \union {OneAlias, TwoAliases},
        b \in { << <<"m::files">>, <<"files">> >>, << <<"x::files">>, <<"files">> >>,
                << <<"m::files">>, <<"log">> >>, << <<"m::files", "m::log">>, <<"files", "log">> >>,
                << <<"m::files", "m::files">>, <<"files", "log">> >>,
                << <<"m::files", "m::log">>, <<"files">> >>, << <<"m::files">>, <<"">> >> }}
    \union {Invocation(OneAlias, <<"m::files">>, <<"files">>, "batch", rows) : rows \in Batches}
    \union {Invocation(TwoAliases, <<"m::log", "m::files">>, <<"log", "files">>, "single", << r >>) :
              r \in { RowOf("/req1", "/out", "/out", NoPath, "success"),
                      RowOf("/req1", "/in", "/out", "/out2", "success"),
                      RowOf("/req1", "/in", "/out", "/out2", "fail-write") }}
=============================================================================
