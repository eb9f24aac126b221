-------------------------- MODULE ApplicationCache --------------------------
(***************************************************************************)
(* The application build with its content-addressed cache, as              *)
(* compile_application in tools/stage0-probe/src/application.rs runs it.   *)
(*                                                                         *)
(* Probe processes share one cache directory and take no lock.  An entry   *)
(* is a file named by the digest of the complete request; two kinds of     *)
(* index file name one earlier entry each: the artifact index is keyed by  *)
(* the request without its sources, the fact index also without the root   *)
(* identity, seeds, capabilities and effects.  Files appear by rename, so  *)
(* a reader sees a whole file or none; every read may also fail (absent,   *)
(* damaged, wrong digest), which is a miss, and every write may fail.      *)
(*                                                                         *)
(* A lookup has three stages: the exact entry; the entry the artifact      *)
(* index names, served before the frontend runs if the dependency closure  *)
(* has not changed; and the same entry's artifact after the frontend has   *)
(* run, if the executable closure and all interfaces still agree.  The     *)
(* fact index only supplies facts that Language verifies again.            *)
(***************************************************************************)
EXTENDS BuildModel

CONSTANTS Proc,         \* probe processes
          ProducerOf,   \* [Proc -> Producer]
          NoRequest, NoResponse, NoKey,
          MaxRequests   \* bound: requests submitted in all

ASSUME CacheAssumption ==
  /\ ProducerOf \in [Proc -> Producer]
  /\ MaxRequests \in Nat
  /\ NoRequest \notin Request
  /\ NoKey \notin Request
  /\ NoResponse \notin Response

VARIABLES entry,      \* published entries: request -> [resp, scope, ssa]
          index,      \* artifact index files: index key -> request
          factIndex,  \* Language fact index files: fact key -> request
          pc,         \* where each process is
          request,    \* the request it works on
          candidate,  \* the request whose entry it loaded as a candidate
          loaded,     \* that entry
          eligible,   \* whether the candidate's artifact may be reused
          reply,      \* the entry it is about to publish, or its answer
          asked       \* requests submitted so far

cache == <<entry, index, factIndex>>
local == <<request, candidate, loaded, eligible, reply>>
vars == <<entry, index, factIndex, pc, request, candidate, loaded, eligible, reply, asked>>

\* A cache entry: the response, the copy of the test selection nested in its
\* callable_scope, and the executable closure its SSA facts were proved for.
Entry == [resp : Response, scope : Tests, ssa : Exec \cup {NoExec}]
NoEntry == [resp |-> NoResponse, scope |-> NoResponse, ssa |-> NoExec]

\* application_cache_index_key: everything but the sources.
IndexKey(r) == [opt |-> r.opt, by |-> r.by]

\* language_fact_cache_index_key: neither sources nor context.
FactKey(r) == [contract |-> r.opt.contract, sel |-> r.opt.sel, by |-> r.by]

ReusesFacts(r) == r.opt.contract >= 5
CarriesSsa(r) == r.opt.contract >= 9

Put(f, k, v) == [x \in DOMAIN f \cup {k} |-> IF x = k THEN v ELSE f[x]]

Init == /\ entry = [k \in {} |-> NoEntry]
        /\ index = [k \in {} |-> NoRequest]
        /\ factIndex = [k \in {} |-> NoRequest]
        /\ pc = [p \in Proc |-> "idle"]
        /\ request = [p \in Proc |-> NoRequest]
        /\ candidate = [p \in Proc |-> NoKey]
        /\ loaded = [p \in Proc |-> NoEntry]
        /\ eligible = [p \in Proc |-> FALSE]
        /\ reply = [p \in Proc |-> NoEntry]
        /\ asked = 0

(***************************************************************************)
(* Reading an entry, and the conditions for reusing one.                   *)
(***************************************************************************)

\* read_application_cache_with_facts accepts the entry stored for key k.
Readable(k, r) == /\ k \in DOMAIN entry
                  /\ entry[k].resp.status = "verified"
                  /\ entry[k].resp.opt.contract = r.opt.contract
                  /\ entry[k].resp.by = r.by

\* cached_application_matches_dependency_closure: the snapshot of the cached
\* response and the request agree on the root and on every module resolved.
\* (The root identity it also compares is part of the index key.)
ClosureMatches(resp, r) ==
  /\ RootText[resp.snap] = RootText[r.snap]
  /\ \A m \in DOMAIN resp.graph.mods : /\ ModText[r.snap][m] # NoText
                                       /\ ModText[resp.snap][m] = ModText[r.snap][m]
  /\ resp.snap \notin Aliased

\* Seeded fault: the Language interface of the artifact is not compared.
AdmittedWithoutApi(e, ok, f) ==
  /\ ok
  /\ e.resp.status = "verified"
  /\ f.exec # NoExec /\ e.resp.exec = f.exec
  /\ f.calls \in VerifiedCalls /\ e.resp.calls = f.calls

\* Seeded fault: the executable closures are not compared.
AdmittedWithoutExec(e, ok, f) ==
  /\ ok
  /\ e.resp.status = "verified"
  /\ f.calls \in VerifiedCalls /\ e.resp.calls = f.calls
  /\ e.resp.api = f.api

\* The candidate's artifact is admitted for the frontend result f.
Admitted(e, ok, f) ==
  /\ ok
  /\ e.resp.status = "verified"
  /\ f.exec # NoExec /\ e.resp.exec = f.exec
  /\ f.calls \in VerifiedCalls /\ e.resp.calls = f.calls
  /\ e.resp.api = f.api

\* rebind_cached_source_snapshot.
RebindSnapshot(e, r) == [e EXCEPT !.resp.snap = r.snap]

\* rebind_cached_application_response: everything the frontend computed is
\* taken from it, except the copy of the test selection in callable_scope.
Rebind(e, r, f) ==
  [e EXCEPT !.resp =
    [snap |-> r.snap, graph |-> Graph(r.snap), exec |-> f.exec, calls |-> f.calls,
     tests |-> f.tests, status |-> e.resp.status, api |-> e.resp.api, art |-> e.resp.art,
     opt |-> e.resp.opt, by |-> e.resp.by]]

\* A response built from nothing.
Fresh(r) == [resp |-> Cold(r), scope |-> Front(r).tests,
             ssa |-> IF CarriesSsa(r) THEN Front(r).exec ELSE NoExec]
(***************************************************************************)
(* A request arrives; a process dies.                                      *)
(***************************************************************************)
Submit(p) == /\ pc[p] \in {"idle", "done"}
             /\ asked < MaxRequests
             /\ asked' = asked + 1
             /\ \E r \in Request : /\ r.by = ProducerOf[p]
                                   /\ request' = [request EXCEPT ![p] = r]
             /\ pc' = [pc EXCEPT ![p] = "exact"]
             /\ reply' = [reply EXCEPT ![p] = NoEntry]
             /\ UNCHANGED <<cache, candidate, loaded, eligible>>

Crash(p) == /\ pc[p] # "idle"
            /\ pc' = [pc EXCEPT ![p] = "idle"]
            /\ request' = [request EXCEPT ![p] = NoRequest]
            /\ candidate' = [candidate EXCEPT ![p] = NoKey]
            /\ loaded' = [loaded EXCEPT ![p] = NoEntry]
            /\ eligible' = [eligible EXCEPT ![p] = FALSE]
            /\ reply' = [reply EXCEPT ![p] = NoEntry]
            /\ UNCHANGED <<cache, asked>>

Goto(p, phase) == pc' = [pc EXCEPT ![p] = phase]

\* p has its response e, which it publishes or answers with at once, and no
\* more use for its candidate.
Decide(p, e, phase) == /\ Goto(p, phase)
                       /\ reply' = [reply EXCEPT ![p] = e]
                       /\ candidate' = [candidate EXCEPT ![p] = NoKey]
                       /\ loaded' = [loaded EXCEPT ![p] = NoEntry]
                       /\ eligible' = [eligible EXCEPT ![p] = FALSE]
                       /\ UNCHANGED <<cache, request, asked>>

Answer(p, e) == Decide(p, e, "done")

(***************************************************************************)
(* Lookup.                                                                 *)
(***************************************************************************)
ExactHit(p) == LET r == request[p] IN
               /\ pc[p] = "exact"
               /\ Readable(r, r)
               /\ entry[r].resp.snap = r.snap
               /\ Answer(p, entry[r])

ExactMiss(p) == /\ pc[p] = "exact"
                /\ Goto(p, "index")
                /\ UNCHANGED <<cache, local, asked>>

\* Only requests of version 5 and later consult the fact index.
AfterIndex(p) == IF ReusesFacts(request[p]) THEN "factIndex" ELSE "frontend"

ReadIndex(p) == LET k == IndexKey(request[p]) IN
                /\ pc[p] = "index"
                /\ k \in DOMAIN index
                /\ candidate' = [candidate EXCEPT ![p] = index[k]]
                /\ Goto(p, "candidate")
                /\ UNCHANGED <<cache, request, loaded, eligible, reply, asked>>

IndexMiss(p) == /\ pc[p] = "index"
                /\ Goto(p, AfterIndex(p))
                /\ UNCHANGED <<cache, local, asked>>

\* The candidate is served before the frontend, or kept for afterwards.
ReadCandidate(p) ==
  LET r == request[p]
      k == candidate[p]
  IN /\ pc[p] = "candidate"
     /\ Readable(k, r)
     /\ \/ /\ ClosureMatches(entry[k].resp, r)
           /\ Answer(p, RebindSnapshot(entry[k], r))
        \/ /\ ~ClosureMatches(entry[k].resp, r)
           /\ loaded' = [loaded EXCEPT ![p] = entry[k]]
           /\ eligible' = [eligible EXCEPT ![p] = TRUE]
           /\ Goto(p, "frontend")
           /\ UNCHANGED <<cache, request, candidate, reply, asked>>

CandidateMiss(p) == /\ pc[p] = "candidate"
                    /\ candidate' = [candidate EXCEPT ![p] = NoKey]
                    /\ Goto(p, AfterIndex(p))
                    /\ UNCHANGED <<cache, request, loaded, eligible, reply, asked>>

ReadFactIndex(p) == LET k == FactKey(request[p]) IN
                    /\ pc[p] = "factIndex"
                    /\ k \in DOMAIN factIndex
                    /\ candidate' = [candidate EXCEPT ![p] = factIndex[k]]
                    /\ Goto(p, "factCandidate")
                    /\ UNCHANGED <<cache, request, loaded, eligible, reply, asked>>

FactIndexMiss(p) == /\ pc[p] = "factIndex"
                    /\ Goto(p, "frontend")
                    /\ UNCHANGED <<cache, local, asked>>

\* Seeded fault: an artifact found through the fact index may be reused.
FactCandidateEligible == TRUE

\* The last component of semantic_cache_candidate for the fact index.
FactEligible == FALSE

ReadFactCandidate(p) == LET k == candidate[p] IN
                        /\ pc[p] = "factCandidate"
                        /\ Readable(k, request[p])
                        /\ loaded' = [loaded EXCEPT ![p] = entry[k]]
                        /\ eligible' = [eligible EXCEPT ![p] = FactEligible]
                        /\ Goto(p, "frontend")
                        /\ UNCHANGED <<cache, request, candidate, reply, asked>>

FactCandidateMiss(p) == /\ pc[p] = "factCandidate"
                        /\ candidate' = [candidate EXCEPT ![p] = NoKey]
                        /\ Goto(p, "frontend")
                        /\ UNCHANGED <<cache, request, loaded, eligible, reply, asked>>

(***************************************************************************)
(* The frontend runs, then reuse or emission; publication follows.         *)
(***************************************************************************)
Reusable(p) == /\ loaded[p] # NoEntry
               /\ Admitted(loaded[p], eligible[p], Front(request[p]))

\* Seeded fault: every build with an artifact is published.
PublishableWithArtifact(e) == e.resp.art # NoArt

Publishable(e) == e.resp.status = "verified"

\* A rejected source, an unusable test selection: an answer without artifact.
Reject(p) == /\ pc[p] = "frontend"
             /\ Front(request[p]).status # "ok"
             /\ Answer(p, Fresh(request[p]))

Reuse(p) == /\ pc[p] = "frontend"
            /\ Front(request[p]).status = "ok"
            /\ Reusable(p)
            /\ Decide(p, Rebind(loaded[p], request[p], Front(request[p])), "publish")

EmitArtifact(p) ==
  /\ pc[p] = "frontend"
  /\ Front(request[p]).status = "ok"
  /\ ~Reusable(p)
  /\ Decide(p, Fresh(request[p]), IF Publishable(Fresh(request[p])) THEN "publish" ELSE "done")

PublishEntry(p) == /\ pc[p] = "publish"
                   /\ entry' = Put(entry, request[p], reply[p])
                   /\ Goto(p, "publishIndex")
                   /\ UNCHANGED <<index, factIndex, local, asked>>

\* Seeded fault: the index files are written even if the entry was not.
IndexAnyway(p) == "publishIndex"

\* write_failed: the answer goes out, no index names the entry.
AfterFailure(p) == "done"

PublishFails(p) == /\ pc[p] = "publish"
                   /\ Goto(p, AfterFailure(p))
                   /\ UNCHANGED <<cache, local, asked>>

PublishIndex(p) == /\ pc[p] = "publishIndex"
                   /\ \/ index' = Put(index, IndexKey(request[p]), request[p])
                      \/ index' = index
                   /\ Goto(p, IF ReusesFacts(request[p]) THEN "publishFactIndex" ELSE "done")
                   /\ UNCHANGED <<entry, factIndex, local, asked>>

PublishFactIndex(p) == /\ pc[p] = "publishFactIndex"
                       /\ \/ factIndex' = Put(factIndex, FactKey(request[p]), request[p])
                          \/ factIndex' = factIndex
                       /\ Goto(p, "done")
                       /\ UNCHANGED <<entry, index, local, asked>>

Lookup(p) == \/ ExactHit(p) \/ ExactMiss(p) \/ ReadIndex(p) \/ IndexMiss(p)
             \/ ReadCandidate(p) \/ CandidateMiss(p) \/ ReadFactIndex(p)
             \/ FactIndexMiss(p) \/ ReadFactCandidate(p) \/ FactCandidateMiss(p)
Build(p) == Reject(p) \/ Reuse(p) \/ EmitArtifact(p)
Store(p) == PublishEntry(p) \/ PublishFails(p) \/ PublishIndex(p) \/ PublishFactIndex(p)

Next == \E p \in Proc : Submit(p) \/ Crash(p) \/ Lookup(p) \/ Build(p) \/ Store(p)

Spec == Init /\ [][Next]_vars

(***************************************************************************)
(* Properties.                                                             *)
(***************************************************************************)
Phases == {"idle", "exact", "index", "candidate", "factIndex", "factCandidate", "frontend",
           "publish", "publishIndex", "publishFactIndex", "done"}

\* Every variable has its type, and a process reads the entry of a candidate
\* only after an index has named one.
TypeOK == /\ DOMAIN entry \subseteq Request
          /\ \A k \in DOMAIN entry : entry[k] \in Entry
          /\ \A k \in DOMAIN index : index[k] \in Request
          /\ \A k \in DOMAIN factIndex : factIndex[k] \in Request
          /\ pc \in [Proc -> Phases]
          /\ request \in [Proc -> Request \cup {NoRequest}]
          /\ candidate \in [Proc -> Request \cup {NoKey}]
          /\ \A p \in Proc : pc[p] \in {"candidate", "factCandidate"} => candidate[p] # NoKey
          /\ loaded \in [Proc -> Entry \cup {NoEntry}]
          /\ eligible \in [Proc -> BOOLEAN]
          /\ reply \in [Proc -> Entry \cup {NoEntry}]
          /\ asked \in 0 .. MaxRequests

\* The cache is transparent: whatever was published before, by which process
\* and through which stage of the lookup, an answer is the one a build of the
\* same request without a cache gives: its status, its source snapshot, its
\* dependency graph, its interfaces, its top-level test rows and its artifact.
AnswerIsColdBuild ==
  \A p \in Proc : pc[p] = "done" => reply[p].resp = Cold(request[p])

\* Only verified builds are published, and an entry is for ever the verified
\* build of the request that names it: nothing another process does, and no
\* chain of reuses, leaves a different response under that name.
EntriesAreVerifiedBuilds ==
  \A k \in DOMAIN entry : entry[k].resp = Cold(k) /\ entry[k].resp.status = "verified"

\* An index file never runs ahead of the entry it names, whichever writes
\* fail and whoever crashes between them, and it names an entry built with
\* the options its own name stands for.
IndexNamesPublishedEntry ==
  /\ \A k \in DOMAIN index : index[k] \in DOMAIN entry /\ IndexKey(index[k]) = k
  /\ \A k \in DOMAIN factIndex : factIndex[k] \in DOMAIN entry /\ FactKey(factIndex[k]) = k

\* SSA facts that an entry carries, its own or inherited from the candidate it
\* was rebound from, are facts about the executable closure it records.
SsaFactsFitClosure ==
  \A k \in DOMAIN entry : entry[k].ssa # NoExec => entry[k].ssa = entry[k].resp.exec

\* The contract (docs/native-application-build-contract.md:67) says that when
\* executable closure reuse is admitted, the response refreshes selected Test
\* rows and their source locations: so does every copy of them in an answer.
AnswerTestRowsFresh ==
  \A p \in Proc : pc[p] = "done" /\ request[p].opt.contract >= 4
                  => reply[p].scope = Front(request[p]).tests

\* A process has answered when compile_application has returned.
answered == [p \in Proc |-> IF pc[p] = "done" THEN reply[p].resp ELSE NoResponse]

Service == INSTANCE ApplicationBuild WITH response <- answered

\* The cached build implements the service of ApplicationBuild: seen through
\* requests and answers alone, compile_application with its cache, its crashes
\* and its failed writes does nothing that a build without a cache could not.
ImplementsService == Service!Spec
=============================================================================
