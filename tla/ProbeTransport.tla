--------------------------- MODULE ProbeTransport ---------------------------
(***************************************************************************)
(* The JSONL loop of a probe that is ready, the end of main in main.rs.    *)
(* It reads a line, answers it from the Programs and backend sessions of   *)
(* the start, and reads the next.  A client sends a line and waits for the *)
(* answer.  With MNCS_PROBE_RELEASE_PROGRAMS_AFTER_IDENTITIES the probe    *)
(* runs a second loop that drops a Program as soon as its record types     *)
(* were asked for; a line it cannot serve is a panic, which ends it.       *)
(*                                                                         *)
(* An answer is what it was computed from: the Program of a module as it   *)
(* was at the start, or one of its two executors.  A session is a          *)
(* deterministic executor of its Program.                                  *)
(***************************************************************************)
EXTENDS Naturals, Sequences

CONSTANTS
    Module,         \* the modules a client may name
    Elaborated,     \* the modules the probe has Programs of
    Admitted,       \* those with an admitted backend session
    Emittable,      \* those a VM artifact can be emitted for
    None,
    MaxLines        \* bound: lines the client sends

VARIABLES
    backend,        \* a backend is configured
    release,        \* the releasing loop runs
    programs,       \* modules whose Program is in memory
    sessions,       \* reference sessions made so far
    recordTypes,    \* record_types_cache
    line,           \* the line the probe has not read yet
    output,         \* the answer the client has not read yet
    alive,
    asked,          \* the line the client waits for
    known,          \* history: the answers the client has had
    lines

transportVars == << backend, release, programs, sessions, recordTypes, line, output, alive, asked, known, lines >>

Kind == {"status", "record_types", "execute", "emit", "other", "malformed"}
Line == [kind : Kind, module : Module]
Answer == {"backend", "reference", "record_types", "status", "artifact", "stateless"} \X (Module \union {None})

ASSUME ProbeTransportAssumption ==
    /\ Admitted \subseteq Elaborated
    /\ Emittable \subseteq Elaborated
    /\ Elaborated \subseteq Module
    /\ None \notin Line \union Answer
    /\ MaxLines \in Nat

BackendSessions == IF backend THEN Admitted ELSE {}

StartProbe ==
    /\ backend \in BOOLEAN
    /\ release \in BOOLEAN /\ (release => backend)
    /\ programs = Elaborated /\ sessions = {} /\ recordTypes = {}

Reply(answer) ==
    /\ output' = answer
    /\ UNCHANGED << backend, release, alive, asked, known, lines >>

\* Seeded fault: a line that cannot be served is skipped.
Skip ==
    /\ line' = None
    /\ UNCHANGED << backend, release, programs, sessions, recordTypes, output, alive, asked, known, lines >>

\* A panic: the process ends without an answer.
Panic ==
    /\ alive' = FALSE /\ line' = None
    /\ UNCHANGED << backend, release, programs, sessions, recordTypes, output, asked, known, lines >>

Reads(kind) == alive /\ line # None /\ line.kind = kind

----------------------------------------------------------------------------
(* What both loops answer. *)

Status ==
    /\ Reads("status")
    /\ Reply(<< "status", None >>)
    /\ line' = None
    /\ UNCHANGED << programs, sessions, recordTypes >>

\* A line that is no JSON value.
Malformed == Reads("malformed") /\ Panic

----------------------------------------------------------------------------
(* The ordinary loop. *)

RecordTypes ==
    /\ ~release
    /\ Reads("record_types")
    /\ \/ /\ line.module \in programs
          /\ Reply(<< "record_types", line.module >>)
          /\ line' = None
          /\ UNCHANGED << programs, sessions, recordTypes >>
       \/ line.module \notin programs /\ Panic

\* The backend session, the reference session, or a new reference session.
Execute ==
    /\ ~release
    /\ Reads("execute")
    /\ \/ /\ line.module \in BackendSessions
          /\ Reply(<< "backend", line.module >>)
          /\ line' = None
          /\ UNCHANGED << programs, sessions, recordTypes >>
       \/ /\ line.module \in (sessions \union programs) \ BackendSessions
          /\ sessions' = sessions \union {line.module}
          /\ Reply(<< "reference", line.module >>)
          /\ line' = None
          /\ UNCHANGED << programs, recordTypes >>
       \/ line.module \notin BackendSessions \union sessions \union programs /\ Panic

Emit ==
    /\ ~release
    /\ Reads("emit")
    /\ \/ /\ line.module \in programs \intersect Emittable
          /\ Reply(<< "artifact", line.module >>)
          /\ line' = None
          /\ UNCHANGED << programs, sessions, recordTypes >>
       \/ line.module \notin programs \intersect Emittable /\ Panic

\* oracle, project_oracle, compile_application, elaborate and ssa bring their
\* sources along.
Other ==
    /\ ~release
    /\ Reads("other")
    /\ Reply(<< "stateless", None >>)
    /\ line' = None
    /\ UNCHANGED << programs, sessions, recordTypes >>

----------------------------------------------------------------------------
(* The loop that releases Programs. *)

\* Seeded fault: the Program goes before its record types are retained.
ReleaseOnly(m) == recordTypes' = recordTypes

\* What is kept of a Program that is released.
Retain(m) == recordTypes' = recordTypes \union {m}

\* Record types from the cache, or from a Program that is then released.
RecordTypesReleasing ==
    /\ release
    /\ Reads("record_types")
    /\ \/ /\ line.module \in recordTypes
          /\ Reply(<< "record_types", line.module >>)
          /\ line' = None
          /\ UNCHANGED << programs, sessions, recordTypes >>
       \/ /\ line.module \in programs \ recordTypes
          /\ Reply(<< "record_types", line.module >>)
          /\ IF line.module \in BackendSessions
             THEN Retain(line.module) /\ programs' = programs \ {line.module}
             ELSE UNCHANGED << programs, recordTypes >>
          /\ line' = None
          /\ UNCHANGED sessions
       \/ line.module \notin programs \union recordTypes /\ Panic

\* Every other line is taken for an execution request.
ExecuteReleasing ==
    /\ release
    /\ Reads("execute") \/ Reads("emit") \/ Reads("other")
    /\ \/ /\ line.kind = "execute" /\ line.module \in BackendSessions
          /\ Reply(<< "backend", line.module >>)
          /\ line' = None
          /\ UNCHANGED << programs, sessions, recordTypes >>
       \/ ~(line.kind = "execute" /\ line.module \in BackendSessions) /\ Panic

----------------------------------------------------------------------------
(* The client. *)

Send ==
    /\ alive /\ asked = None
    /\ lines < MaxLines
    /\ lines' = lines + 1
    /\ \E l \in Line : line' = l /\ asked' = l
    /\ UNCHANGED << backend, release, programs, sessions, recordTypes, output, alive, known >>

Receive ==
    /\ output # None
    /\ known' = [known EXCEPT ![asked] = output]
    /\ output' = None /\ asked' = None
    /\ UNCHANGED << backend, release, programs, sessions, recordTypes, line, alive, lines >>

TransportInit ==
    /\ StartProbe
    /\ line = None /\ output = None /\ alive = TRUE /\ asked = None
    /\ known = [l \in Line |-> None] /\ lines = 0

Probe == Status \/ Malformed \/ RecordTypes \/ Execute \/ Emit \/ Other \/ RecordTypesReleasing \/ ExecuteReleasing
TransportNext == Probe \/ Send \/ Receive
TransportSpec == TransportInit /\ [][TransportNext]_transportVars

\* The probe's loop and a waiting client run.
TransportFairSpec == TransportSpec /\ WF_transportVars(Probe) /\ WF_transportVars(Receive)

----------------------------------------------------------------------------
(* Properties. *)

\* The type invariant; there is never an answer nobody waits for.
TransportTypeOK ==
    /\ backend \in BOOLEAN /\ release \in BOOLEAN /\ alive \in BOOLEAN
    /\ programs \subseteq Elaborated /\ sessions \subseteq Elaborated /\ recordTypes \subseteq Elaborated
    /\ line \in Line \union {None} /\ asked \in Line \union {None} /\ output \in Answer \union {None}
    /\ output # None => asked # None /\ line = None
    /\ known \in [Line -> Answer \union {None}]

\* What a probe without any state would answer.
Served(l) ==
    \/ l.kind = "status"
    \/ l.kind = "record_types" /\ l.module \in Elaborated
    \/ l.kind = "execute" /\ (l.module \in BackendSessions \/ (~release /\ l.module \in Elaborated))
    \/ l.kind = "emit" /\ ~release /\ l.module \in Emittable
    \/ l.kind = "other" /\ ~release

\* A probe dies of a line only when it could not have answered that line at
\* the start either: no order of requests, and no Program released on the way,
\* turns a line it serves into a panic.
DiesOfMisuseOnly == ~alive => ~Served(asked)

\* Asking again gives the answer one had: sessions made and Programs released
\* in between change neither the executor nor the record types.
AnswersAreRepeatable ==
    output # None /\ known[asked] # None => output = known[asked]

\* Every line is answered, or the client sees the probe end.
EveryLineIsAnswered == asked # None ~> (asked = None \/ ~alive)
=============================================================================
