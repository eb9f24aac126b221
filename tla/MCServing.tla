------------------------------ MODULE MCServing ------------------------------
(***************************************************************************)
(* What answers a client: the line protocol of a ready probe, the          *)
(* validation and key of an application build request, and the runner that *)
(* calls a finished application.  Each answers on its own: a behaviour is  *)
(* one of the three, and the others stay as they are.                      *)
(***************************************************************************)
EXTENDS ProbeTransport, MCVmRunner, BuildRequest

CONSTANTS mSession, mPlain, mUnknown   \* modules

VARIABLE server   \* which of the three the behaviour is about

TransportOff ==
    /\ backend = None /\ release = None /\ programs = None /\ sessions = None /\ recordTypes = None
    /\ line = None /\ output = None /\ alive = None /\ asked = None /\ known = None /\ lines = None

RunnerOff ==
    /\ disk = [x \in File |-> Absent]
    /\ n = None /\ runner_pc = None /\ args = None /\ bindings = None /\ used = None /\ row = None
    /\ effects = None /\ results = None /\ touched = None

RequestOff == request = None /\ inventory = None /\ pc = None /\ answer = None

Init ==
    \/ server = "transport" /\ TransportInit /\ RunnerOff /\ RequestOff
    \/ server = "runner" /\ RunnerInit /\ TransportOff /\ RequestOff
    \/ server = "request" /\ RequestInit /\ TransportOff /\ RunnerOff

Next ==
    /\ UNCHANGED server
    /\ \/ server = "transport" /\ TransportNext /\ UNCHANGED << runnerVars, requestVars >>
       \/ server = "runner" /\ RunnerNext /\ UNCHANGED << transportVars, requestVars >>
       \/ server = "request" /\ RequestNext /\ UNCHANGED << transportVars, runnerVars >>

Spec ==
    /\ Init /\ [][Next]_<< server, transportVars, runnerVars, requestVars >>
    /\ WF_transportVars(server = "transport" /\ Probe)
    /\ WF_transportVars(server = "transport" /\ Receive)

----------------------------------------------------------------------------
(***************************************************************************)
(* A probe serves a line, whatever it served before and whatever Programs  *)
(* it released, as a fresh one would: it dies only of lines it never could *)
(* serve, and an answer once given is given again.                         *)
(***************************************************************************)
ProbeServesAnyOrder ==
    server = "transport" => TransportTypeOK /\ DiesOfMisuseOnly /\ AnswersAreRepeatable

(***************************************************************************)
(* The runner touches files under exact authority only, keeps the rows of  *)
(* a batch apart, prints a document about this invocation alone, and no    *)
(* step of it overwrites what another row or invocation wrote.             *)
(***************************************************************************)
RunnerKeepsToItsGrant ==
    [][server = "runner" =>
         /\ (RunnerTypeOK /\ AuthorityIsExact /\ RowsAreIsolated /\ DocumentIsFresh)'
         /\ NothingIsOverwritten]_runnerVars

(***************************************************************************)
(* A request is answered for exactly what it asks, however it lists it,    *)
(* and shares its cache key only with requests that ask the same.          *)
(***************************************************************************)
RequestsAreExact ==
    server = "request" => RequestTypeOK /\ BuiltAsAsked /\ OrderDoesNotMatter /\ KeyIsExact

----------------------------------------------------------------------------
(* A module with a session, one without, and one the probe never had.      *)
MCModule == {mSession, mPlain, mUnknown}
MCElaborated == {mSession, mPlain}
MCAdmitted == {mSession}
MCEmittable == {mSession}

----------------------------------------------------------------------------
(* Requests of every kind, and inventories with missing, doubled, generic  *)
(* and unsound tests.                                                      *)
NotGiven == [kind |-> "absent", rows |-> << >>]
OfOtherType == [kind |-> "other", rows |-> << >>]
All == [kind |-> "all", rows |-> << >>]
Rows(s) == [kind |-> "rows", rows |-> s]

RequestShape ==
    [version : {1, 2, 3, 4, 13},
     selection : {NotGiven, All, Rows(<< 1 >>), Rows(<< 2, 1 >>), Rows(<< 3, 2, 1 >>), Rows(<< 1, 1 >>), Rows(<< >>)},
     roots : {NotGiven, Rows(<< >>), Rows(<< 1 >>), Rows(<< 2, 1 >>), Rows(<< 2, 4 >>), Rows(<< 1, 1 >>), Rows(<< 1, 0 >>)},
     entry : {NotGiven, Rows(<< 1 >>)},
     seeds : {NotGiven, Rows(<< 3 >>), Rows(<< 3, 2 >>), Rows(<< 3, 3 >>)},
     target : {TRUE}, source : {{"id", "text"}}, modules : {Rows(<< 1 >>)}, rootBytes : {1}, other : {"x"}]

Whole == [version |-> 13, selection |-> All, roots |-> Rows(<< 2 >>), entry |-> NotGiven, seeds |-> NotGiven,
          target |-> TRUE, source |-> {"id", "text"}, modules |-> Rows(<< 1 >>), rootBytes |-> 1, other |-> "x"]

Spoilt ==
    {[Whole EXCEPT !.version = v] : v \in 0 .. 14}
    \union {[Whole EXCEPT !.selection = f] : f \in {OfOtherType, Rows(<< 0 >>)}}
    \union {[Whole EXCEPT !.roots = f] : f \in {OfOtherType, Rows(<< 1, 2, 3, 4 >>), Rows(<< 1, 1, 0 >>)}}
    \union {[Whole EXCEPT !.version = 1, !.entry = f] : f \in {OfOtherType, Rows(<< 4 >>)}}
    \union {[Whole EXCEPT !.seeds = f] : f \in {OfOtherType, Rows(<< 0 >>), Rows(<< 1, 2, 3, 4 >>)}}
    \union {[Whole EXCEPT !.modules = f] : f \in {NotGiven, OfOtherType, Rows(<< >>), Rows(<< 0 >>), Rows(<< 1, 1, 1 >>), Rows(<< 2, 2 >>)}}
    \union {[Whole EXCEPT !.target = FALSE], [Whole EXCEPT !.source = {"text"}], [Whole EXCEPT !.source = {"id"}], [Whole EXCEPT !.other = "y"],
            [Whole EXCEPT !.rootBytes = 4], [Whole EXCEPT !.rootBytes = 2]}

MCRequests == RequestShape \union Spoilt

Test(i, root, declaration) == [identity |-> i, root |-> root, declaration |-> declaration, generic |-> FALSE, sound |-> TRUE]
SoundTests == << Test(1, 2, 3), Test(2, 3, 1), Test(3, 4, 2) >>
Inv(tests) == [sound |-> TRUE, tests |-> tests]

MCInventories ==
    {Inv(<< >>), Inv(SoundTests), Inv(SubSeq(SoundTests, 1, 1)), Inv(SubSeq(SoundTests, 1, 2)), Inv(SubSeq(SoundTests, 2, 3)),
     Inv(<< SoundTests[1], [SoundTests[2] EXCEPT !.identity = 1] >>),
     Inv(<< SoundTests[1], [SoundTests[2] EXCEPT !.generic = TRUE] >>),
     Inv(<< [SoundTests[1] EXCEPT !.sound = FALSE], SoundTests[2] >>),
     [sound |-> FALSE, tests |-> SoundTests]}
=============================================================================
