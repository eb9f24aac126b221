----------------------- MODULE ApplicationCacheProofs -----------------------
(***************************************************************************)
(* The application cache is transparent, for every set of processes, every *)
(* source snapshot, every frontend and emitter that satisfy BuildModel's   *)
(* assumptions, and any number of requests.                                *)
(***************************************************************************)
EXTENDS ApplicationCache, TLAPS

(***************************************************************************)
(* What the build computes has its type.                                   *)
(***************************************************************************)

\* A request is taken apart into its snapshot, its options and its producer.
LEMMA RequestParts ==
  ASSUME NEW r \in Request
  PROVE  /\ r.snap \in Snapshot
         /\ r.opt \in Option
         /\ r.by \in Producer
         /\ r = [snap |-> r.snap, opt |-> r.opt, by |-> r.by]
BY DEF Request

\* The frontend's result has its type.
LEMMA FrontTyped ==
  ASSUME NEW r \in Request
  PROVE  Front(r) \in FrontendResult
BY RequestParts, ConstantTypes DEF Front

\* The emitter's result has its type.
LEMMA EmitTyped ==
  ASSUME NEW f \in FrontendResult
  PROVE  Emit(f) \in Emission
BY ConstantTypes DEF Emit, FrontendResult

\* A build without a cache gives a response.
LEMMA ColdTyped ==
  ASSUME NEW r \in Request
  PROVE  Cold(r) \in Response
<1> DEFINE f == Front(r)
<1>1. f \in FrontendResult
  BY FrontTyped
<1>2. Emit(f) \in Emission
  BY <1>1, EmitTyped
<1>3. r.snap \in Snapshot /\ r.opt \in Option /\ r.by \in Producer
  BY RequestParts
<1>4. /\ f.status \in {"ok", "rejected", "selection_error"}
      /\ f.exec \in Exec \cup {NoExec} /\ f.calls \in Calls /\ f.api \in Api /\ f.tests \in Tests
  BY <1>1 DEF FrontendResult
<1>5. Emit(f).status \in {"verified", "unknown", "unsupported"} /\ Emit(f).art \in Art \cup {NoArt}
  BY <1>2 DEF Emission
<1> HIDE DEF f
<1> QED
  BY <1>3, <1>4, <1>5 DEF Cold, Response, f

\* So is the response of a build from nothing, with the facts stored beside it.
LEMMA FreshTyped ==
  ASSUME NEW r \in Request
  PROVE  Fresh(r) \in Entry
BY ColdTyped, FrontTyped DEF Fresh, Entry, FrontendResult

\* A build that is verified was accepted by the frontend.
LEMMA VerifiedIsAccepted ==
  ASSUME NEW r \in Request, Cold(r).status = "verified"
  PROVE  Front(r).status = "ok"
BY FrontTyped DEF Cold, FrontendResult

(***************************************************************************)
(* The two ways of reusing an entry give the response of a cold build.     *)
(***************************************************************************)

\* Equal root and equal resolved modules: equal graphs and frontend results.
LEMMA SameClosureSameBuild ==
  ASSUME NEW s \in Snapshot, NEW t \in Snapshot, SameClosure(s, t)
  PROVE  Graph(s) = Graph(t) /\ Frontend[s] = Frontend[t]
<1>1. Deps[s] = Deps[t] /\ Frontend[s] = Frontend[t]
  BY FrontendReadsClosureOnly
<1>2. [m \in Deps[s] |-> ModText[s][m]] = [m \in Deps[t] |-> ModText[t][m]]
  BY <1>1 DEF SameClosure
<1> QED
  BY <1>1, <1>2 DEF Graph, SameClosure

\* An entry built with the same options, whose dependency closure the request
\* leaves unchanged, becomes the request's own build by a new snapshot alone.
LEMMA ClosureReuse ==
  ASSUME NEW k \in Request, NEW r \in Request, NEW e \in Entry,
         IndexKey(k) = IndexKey(r), e.resp = Cold(k), ClosureMatches(e.resp, r)
  PROVE  RebindSnapshot(e, r).resp = Cold(r)
<1>1. k.opt = r.opt /\ k.by = r.by
  BY DEF IndexKey
<1>2. e.resp.snap = k.snap /\ e.resp.graph = Graph(k.snap)
  BY DEF Cold
<1>3. DOMAIN e.resp.graph.mods = Deps[k.snap]
  BY <1>2 DEF Graph
<1>4. SameClosure(k.snap, r.snap)
  BY <1>2, <1>3 DEF ClosureMatches, SameClosure
<1>5. Graph(k.snap) = Graph(r.snap) /\ Front(k) = Front(r)
  BY <1>1, <1>4, RequestParts, SameClosureSameBuild DEF Front
<1>6. Cold(r) = [Cold(k) EXCEPT !.snap = r.snap]
  BY <1>1, <1>5 DEF Cold
<1>7. RebindSnapshot(e, r).resp = [e.resp EXCEPT !.snap = r.snap]
  BY DEF RebindSnapshot, Entry
<1> QED
  BY <1>6, <1>7

\* An entry built with the same options, whose executable closure, callable
\* interfaces and Language interface are those of the request, becomes the
\* request's own build once it is rebound.
LEMMA ArtifactReuse ==
  ASSUME NEW k \in Request, NEW r \in Request, NEW e \in Entry,
         IndexKey(k) = IndexKey(r), e.resp = Cold(k),
         Front(r).status = "ok", Admitted(e, TRUE, Front(r))
  PROVE  /\ Rebind(e, r, Front(r)).resp = Cold(r)
         /\ Cold(r).status = "verified"
<1>1. k.opt = r.opt /\ k.by = r.by
  BY DEF IndexKey
<1>2. /\ Cold(k).status = "verified"
      /\ Front(k).exec = Front(r).exec
      /\ Front(k).calls = Front(r).calls
      /\ Front(k).api = Front(r).api
  BY DEF Admitted, Cold
<1>3. Front(k).status = "ok"
  BY <1>2, VerifiedIsAccepted
<1>4. Emit(Front(k)) = Emit(Front(r))
  BY <1>2 DEF Emit
<1>5. /\ Cold(k).art = Cold(r).art /\ Cold(k).status = Cold(r).status
      /\ Cold(k).api = Front(r).api /\ Cold(k).opt = r.opt /\ Cold(k).by = r.by
  BY <1>1, <1>2, <1>3, <1>4 DEF Cold
<1>6. Cold(r).status = "verified"
  BY <1>2, <1>3, <1>4 DEF Cold
<1>7. Rebind(e, r, Front(r)).resp =
        [snap |-> r.snap, graph |-> Graph(r.snap), exec |-> Front(r).exec,
         calls |-> Front(r).calls, tests |-> Front(r).tests, status |-> Cold(r).status,
         api |-> Front(r).api, art |-> Cold(r).art, opt |-> r.opt, by |-> r.by]
  BY <1>5 DEF Rebind, Entry
<1>8. Cold(r) =
        [snap |-> r.snap, graph |-> Graph(r.snap), exec |-> Front(r).exec,
         calls |-> Front(r).calls, tests |-> Front(r).tests, status |-> Cold(r).status,
         api |-> Front(r).api, art |-> Cold(r).art, opt |-> r.opt, by |-> r.by]
  BY DEF Cold
<1> QED
  BY <1>6, <1>7, <1>8

\* Rebinding keeps an entry's type, its nested test rows and its SSA facts.
LEMMA RebindTyped ==
  ASSUME NEW r \in Request, NEW e \in Entry
  PROVE  /\ RebindSnapshot(e, r) \in Entry
         /\ RebindSnapshot(e, r).ssa = e.ssa
         /\ RebindSnapshot(e, r).resp.exec = e.resp.exec
         /\ Rebind(e, r, Front(r)) \in Entry
         /\ Rebind(e, r, Front(r)).ssa = e.ssa
         /\ Rebind(e, r, Front(r)).resp.exec = Front(r).exec
<1>1. r.snap \in Snapshot /\ Front(r) \in FrontendResult
  BY RequestParts, FrontTyped
<1>2. [e.resp EXCEPT !.snap = r.snap] \in Response
  BY <1>1 DEF Entry, Response
<1>3. RebindSnapshot(e, r) = [e EXCEPT !.resp = [e.resp EXCEPT !.snap = r.snap]]
  BY DEF RebindSnapshot
<1>4. /\ RebindSnapshot(e, r) \in Entry
      /\ RebindSnapshot(e, r).ssa = e.ssa
      /\ RebindSnapshot(e, r).resp = [e.resp EXCEPT !.snap = r.snap]
  BY <1>2, <1>3 DEF Entry
<1>5. RebindSnapshot(e, r).resp.exec = e.resp.exec
  BY <1>4 DEF Entry, Response
<1> DEFINE b == [snap |-> r.snap, graph |-> Graph(r.snap), exec |-> Front(r).exec,
                 calls |-> Front(r).calls, tests |-> Front(r).tests,
                 status |-> e.resp.status, api |-> e.resp.api, art |-> e.resp.art,
                 opt |-> e.resp.opt, by |-> e.resp.by]
<1>6. b \in Response
  BY <1>1 DEF Entry, Response, FrontendResult
<1>7. Rebind(e, r, Front(r)) = [e EXCEPT !.resp = b]
  BY DEF Rebind
<1>8. b.exec = Front(r).exec
  OBVIOUS
<1> HIDE DEF b
<1>9. /\ Rebind(e, r, Front(r)) \in Entry
      /\ Rebind(e, r, Front(r)).ssa = e.ssa
      /\ Rebind(e, r, Front(r)).resp.exec = Front(r).exec
  BY <1>6, <1>7, <1>8 DEF Entry
<1> QED
  BY <1>4, <1>5, <1>9

(***************************************************************************)
(* The inductive invariant.                                                *)
(***************************************************************************)

\* SSA facts, if any, are about the executable closure of the response.
SsaFits(e) == e.ssa # NoExec => e.ssa = e.resp.exec

Publishing == {"publish", "publishIndex", "publishFactIndex"}

\* What p carries from one of its steps to the next.
Carries(p) ==
  /\ pc[p] = "idle" <=> request[p] = NoRequest
  /\ pc[p] = "candidate" => /\ candidate[p] \in DOMAIN entry
                             /\ IndexKey(candidate[p]) = IndexKey(request[p])
  /\ eligible[p] => /\ pc[p] = "frontend"
                     /\ candidate[p] \in Request
                     /\ IndexKey(candidate[p]) = IndexKey(request[p])
                     /\ loaded[p].resp = Cold(candidate[p])
  /\ pc[p] \in Publishing \cup {"done"} => /\ reply[p] \in Entry
                                           /\ reply[p].resp = Cold(request[p])
  /\ pc[p] \in Publishing => /\ reply[p].resp.status = "verified"
                             /\ SsaFits(reply[p])
  /\ pc[p] \in {"publishIndex", "publishFactIndex"} => request[p] \in DOMAIN entry
  /\ SsaFits(loaded[p])

\* The type of the producers' files and locals, without the request counter.
Typed == /\ DOMAIN entry \subseteq Request
         /\ \A k \in DOMAIN entry : entry[k] \in Entry
         /\ \A k \in DOMAIN index : index[k] \in Request
         /\ \A k \in DOMAIN factIndex : factIndex[k] \in Request
         /\ pc \in [Proc -> Phases]
         /\ request \in [Proc -> Request \cup {NoRequest}]
         /\ candidate \in [Proc -> Request \cup {NoKey}]
         /\ \A p \in Proc : pc[p] \in {"candidate", "factCandidate"} => candidate[p] # NoKey
         /\ loaded \in [Proc -> Entry \cup {NoEntry}]
         /\ eligible \in [Proc -> BOOLEAN]
         /\ reply \in [Proc -> Entry \cup {NoEntry}]

Inv == /\ Typed
       /\ asked \in 0 .. MaxRequests
       /\ EntriesAreVerifiedBuilds
       /\ IndexNamesPublishedEntry
       /\ SsaFactsFitClosure
       /\ \A p \in Proc : Carries(p)

\* NoEntry is not an entry, and carries no SSA facts.
LEMMA NoEntryFacts == NoEntry \notin Entry /\ SsaFits(NoEntry)
BY CacheAssumption DEF NoEntry, Entry, SsaFits

\* Nothing is published and nobody works.
LEMMA InitInv == Init => Inv
<1> SUFFICES ASSUME Init PROVE Inv
  OBVIOUS
<1>1. Typed
  BY DEF Init, Typed, Phases
<1>2. \A p \in Proc : Carries(p)
  BY NoEntryFacts DEF Init, Carries, Publishing
<1>3. asked \in 0 .. MaxRequests
  BY CacheAssumption DEF Init
<1>4. EntriesAreVerifiedBuilds /\ IndexNamesPublishedEntry /\ SsaFactsFitClosure
  BY DEF Init, EntriesAreVerifiedBuilds, IndexNamesPublishedEntry, SsaFactsFitClosure
<1> QED
  BY <1>1, <1>2, <1>3, <1>4 DEF Inv

(***************************************************************************)
(* Every step preserves it.                                                *)
(***************************************************************************)

\* The variables of a process that is not p stay as they are.
Frame(p) == \A q \in Proc \ {p} : /\ pc'[q] = pc[q]
                                    /\ request'[q] = request[q]
                                    /\ candidate'[q] = candidate[q]
                                    /\ loaded'[q] = loaded[q]
                                    /\ eligible'[q] = eligible[q]
                                    /\ reply'[q] = reply[q]

\* What another process carries survives p's step: entries stay in place.
LEMMA OthersKeep ==
  ASSUME NEW p \in Proc, NEW q \in Proc, q # p, Carries(q), Frame(p),
         DOMAIN entry \subseteq DOMAIN entry'
  PROVE  Carries(q)'
<1>1. /\ pc'[q] = pc[q] /\ request'[q] = request[q] /\ candidate'[q] = candidate[q]
      /\ loaded'[q] = loaded[q] /\ eligible'[q] = eligible[q] /\ reply'[q] = reply[q]
  BY DEF Frame
<1> QED
  BY <1>1 DEF Carries, SsaFits, Publishing, IndexKey

\* A step of p that leaves the directory alone preserves the invariant if it
\* preserves p's own part of it.
LEMMA PrivateStep ==
  ASSUME Inv, NEW p \in Proc, Frame(p), UNCHANGED cache, Typed', Carries(p)',
         asked' \in 0 .. MaxRequests
  PROVE  Inv'
<1>1. UNCHANGED <<entry, index, factIndex>>
  BY DEF cache
<1>2. ASSUME NEW q \in Proc PROVE Carries(q)'
  BY <1>1, OthersKeep DEF Inv
<1>3. (EntriesAreVerifiedBuilds /\ IndexNamesPublishedEntry /\ SsaFactsFitClosure)'
  BY <1>1 DEF Inv, EntriesAreVerifiedBuilds, IndexNamesPublishedEntry, SsaFactsFitClosure,
              IndexKey, FactKey
<1> QED
  BY <1>2, <1>3 DEF Inv

\* A request arrives: p's locals are clear.
LEMMA SubmitInv == ASSUME Inv, NEW p \in Proc, Submit(p) PROVE Inv'
<1>1. Typed'
  BY DEF Inv, Typed, Submit, Phases, cache
<1>2. Frame(p)
  BY DEF Inv, Typed, Submit, Frame, cache
<1>3. ~eligible[p]
  BY DEF Inv, Carries, Submit
<1>4. Carries(p)'
  BY <1>3, CacheAssumption DEF Inv, Typed, Submit, Carries, Publishing, SsaFits
<1>5. asked' \in 0 .. MaxRequests
  BY CacheAssumption DEF Inv, Submit
<1> QED
  BY <1>1, <1>2, <1>4, <1>5, PrivateStep DEF Submit

\* A killed process loses its locals; the directory stays as it was.
LEMMA CrashInv == ASSUME Inv, NEW p \in Proc, Crash(p) PROVE Inv'
<1>1. Typed'
  BY DEF Inv, Typed, Crash, Phases, cache
<1>2. Frame(p)
  BY DEF Inv, Typed, Crash, Frame, cache
<1>3. Carries(p)'
  BY NoEntryFacts DEF Inv, Typed, Crash, Carries, Publishing
<1> QED
  BY <1>1, <1>2, <1>3, PrivateStep DEF Crash, Inv

\* A process at work has a request.
LEMMA AtWork == ASSUME Inv, NEW p \in Proc, pc[p] # "idle" PROVE request[p] \in Request
BY DEF Inv, Typed, Carries

\* p settles on an entry that is the cold build of its request.
LEMMA DecideInv ==
  ASSUME Inv, NEW p \in Proc, pc[p] # "idle", NEW e \in Entry, NEW phase \in {"publish", "done"},
         e.resp = Cold(request[p]),
         phase = "publish" => e.resp.status = "verified" /\ SsaFits(e),
         Decide(p, e, phase)
  PROVE  Inv'
<1>1. Typed'
  BY DEF Inv, Typed, Decide, Goto, Phases, cache
<1>2. Frame(p)
  BY DEF Inv, Typed, Decide, Goto, Frame, cache
<1>3. /\ pc'[p] = phase /\ reply'[p] = e /\ request'[p] = request[p]
      /\ candidate'[p] = NoKey /\ loaded'[p] = NoEntry /\ eligible'[p] = FALSE
  BY DEF Inv, Typed, Decide, Goto
<1>4. Carries(p)'
  <2>1. SsaFits(loaded[p])'
    BY <1>3, NoEntryFacts DEF SsaFits
  <2>2. phase = "publish" => SsaFits(reply[p])'
    BY <1>3 DEF SsaFits
  <2>3. request'[p] # NoRequest
    BY <1>3 DEF Inv, Carries
  <2> QED
    BY <1>3, <2>1, <2>2, <2>3 DEF Carries, Publishing
<1> QED
  BY <1>1, <1>2, <1>4, PrivateStep DEF Decide, Inv

\* An exact hit answers with the entry of the request itself.
LEMMA ExactHitInv == ASSUME Inv, NEW p \in Proc, ExactHit(p) PROVE Inv'
<1> DEFINE r == request[p]
<1>1. r \in DOMAIN entry /\ entry[r] \in Entry /\ entry[r].resp = Cold(r)
  BY DEF Inv, Typed, ExactHit, Readable, EntriesAreVerifiedBuilds
<1> QED
  BY <1>1, DecideInv DEF ExactHit, Answer

\* A miss, and the lookup goes on.
LEMMA MissInv ==
  ASSUME Inv, NEW p \in Proc,
         ExactMiss(p) \/ IndexMiss(p) \/ CandidateMiss(p) \/ FactIndexMiss(p) \/ FactCandidateMiss(p)
  PROVE  Inv'
<1> USE DEF ExactMiss, IndexMiss, CandidateMiss, FactIndexMiss, FactCandidateMiss, Goto, local
<1>1. PICK phase \in {"index", "factIndex", "frontend"} : pc' = [pc EXCEPT ![p] = phase]
  BY DEF AfterIndex
<1>2. /\ UNCHANGED <<cache, request, loaded, eligible, reply, asked>>
      /\ candidate' = candidate \/ candidate' = [candidate EXCEPT ![p] = NoKey]
      /\ pc[p] \in {"exact", "index", "candidate", "factIndex", "factCandidate"}
  OBVIOUS
<1>3. Typed'
  BY <1>1, <1>2 DEF Inv, Typed, Phases, cache
<1>4. Frame(p)
  BY <1>1, <1>2 DEF Inv, Typed, Frame
<1>5. ~eligible[p] /\ request[p] # NoRequest
  BY <1>2 DEF Inv, Carries
<1>6. Carries(p)'
  BY <1>1, <1>2, <1>5 DEF Inv, Typed, Carries, Publishing, SsaFits
<1> QED
  BY <1>2, <1>3, <1>4, <1>6, PrivateStep DEF Inv

\* An index file names a published entry built with the same options.
LEMMA ReadIndexInv == ASSUME Inv, NEW p \in Proc, ReadIndex(p) \/ ReadFactIndex(p) PROVE Inv'
<1> USE DEF ReadIndex, ReadFactIndex, Goto
<1>1. PICK k \in Request : /\ candidate' = [candidate EXCEPT ![p] = k]
                           /\ \/ ReadFactIndex(p)
                              \/ ReadIndex(p) /\ k \in DOMAIN entry /\ IndexKey(k) = IndexKey(request[p])
  BY DEF Inv, Typed, IndexNamesPublishedEntry
<1>2. Typed'
  BY <1>1, CacheAssumption DEF Inv, Typed, Phases, cache
<1>3. Frame(p)
  BY <1>1 DEF Inv, Typed, Frame, cache
<1>4. ~eligible[p] /\ request[p] # NoRequest
  BY DEF Inv, Carries
<1>5. Carries(p)'
  BY <1>1, <1>4, ZenonT(60) DEF Inv, Typed, Carries, Publishing, SsaFits, cache, IndexKey
<1> QED
  BY <1>2, <1>3, <1>5, PrivateStep DEF Inv

\* The indexed entry is served for an unchanged closure, or kept for the admission.
LEMMA ReadCandidateInv == ASSUME Inv, NEW p \in Proc, ReadCandidate(p) PROVE Inv'
<1> DEFINE r == request[p]
           k == candidate[p]
<1>1. /\ pc[p] = "candidate" /\ r \in Request /\ k \in Request
      /\ entry[k] \in Entry /\ entry[k].resp = Cold(k) /\ IndexKey(k) = IndexKey(r)
  BY AtWork DEF Inv, Typed, Carries, ReadCandidate, EntriesAreVerifiedBuilds
<1>2. CASE ClosureMatches(entry[k].resp, r)
  <2>1. Decide(p, RebindSnapshot(entry[k], r), "done")
    BY <1>2 DEF ReadCandidate, Answer
  <2>2. RebindSnapshot(entry[k], r) \in Entry /\ RebindSnapshot(entry[k], r).resp = Cold(r)
    BY <1>1, <1>2, ClosureReuse, RebindTyped
  <2> QED
    BY <1>1, <2>1, <2>2, DecideInv
<1>3. CASE ~ClosureMatches(entry[k].resp, r)
  <2>1. /\ loaded' = [loaded EXCEPT ![p] = entry[k]]
        /\ eligible' = [eligible EXCEPT ![p] = TRUE]
        /\ pc' = [pc EXCEPT ![p] = "frontend"]
        /\ UNCHANGED <<cache, request, candidate, reply, asked>>
    BY <1>3 DEF ReadCandidate, Goto
  <2>2. Typed'
    BY <1>1, <2>1 DEF Inv, Typed, Phases, cache
  <2>3. Frame(p)
    BY <2>1 DEF Inv, Typed, Frame
  <2>4. loaded'[p] = entry[k] /\ SsaFits(entry[k])
    BY <1>1, <2>1 DEF Inv, Typed, SsaFactsFitClosure, SsaFits, Carries
  <2>5. Carries(p)'
    BY <1>1, <2>1, <2>4, CacheAssumption DEF Inv, Typed, Carries, Publishing, SsaFits
  <2> QED
    BY <2>1, <2>2, <2>3, <2>5, PrivateStep DEF Inv
<1> QED
  BY <1>2, <1>3

\* The fact index's entry is loaded, but its artifact is not eligible.
LEMMA ReadFactCandidateInv == ASSUME Inv, NEW p \in Proc, ReadFactCandidate(p) PROVE Inv'
<1>1. /\ loaded' = [loaded EXCEPT ![p] = entry[candidate[p]]]
      /\ eligible' = [eligible EXCEPT ![p] = FALSE]
      /\ pc' = [pc EXCEPT ![p] = "frontend"]
      /\ pc[p] = "factCandidate"
      /\ candidate[p] \in DOMAIN entry
      /\ UNCHANGED <<cache, request, candidate, reply, asked>>
  BY DEF ReadFactCandidate, Goto, FactEligible, Readable
<1>2. entry[candidate[p]] \in Entry /\ SsaFits(entry[candidate[p]])
  BY <1>1 DEF Inv, Typed, SsaFactsFitClosure, SsaFits
<1>3. Typed'
  BY <1>1, <1>2 DEF Inv, Typed, Phases, cache
<1>4. Frame(p)
  BY <1>1 DEF Inv, Typed, Frame
<1>5. Carries(p)'
  BY <1>1, <1>2 DEF Inv, Typed, Carries, Publishing, SsaFits
<1> QED
  BY <1>1, <1>3, <1>4, <1>5, PrivateStep DEF Inv

\* The frontend has run: a rejection, an admitted artifact or a new one.
LEMMA BuildInv == ASSUME Inv, NEW p \in Proc, Build(p) PROVE Inv'
<1> DEFINE r == request[p]
<1>1. pc[p] = "frontend" /\ r \in Request
  BY AtWork DEF Build, Reject, Reuse, EmitArtifact
<1>2. Fresh(r) \in Entry /\ Fresh(r).resp = Cold(r) /\ SsaFits(Fresh(r))
  BY <1>1, FreshTyped DEF Fresh, Cold, SsaFits
<1>3. CASE Reject(p)
  BY <1>1, <1>2, <1>3, DecideInv DEF Reject, Answer
<1>4. CASE EmitArtifact(p)
  BY <1>1, <1>2, <1>4, DecideInv DEF EmitArtifact, Publishable
<1>5. CASE Reuse(p)
  <2> DEFINE e == loaded[p]
             k == candidate[p]
  <2>1. /\ e \in Entry /\ eligible[p] /\ Front(r).status = "ok"
        /\ Admitted(e, TRUE, Front(r))
        /\ Decide(p, Rebind(e, r, Front(r)), "publish")
    BY <1>5 DEF Reuse, Reusable, Admitted, Inv, Typed
  <2>2. k \in Request /\ IndexKey(k) = IndexKey(r) /\ e.resp = Cold(k) /\ SsaFits(e)
    BY <2>1 DEF Inv, Carries
  <2>3. /\ Rebind(e, r, Front(r)).resp = Cold(r)
        /\ Cold(r).status = "verified"
        /\ Rebind(e, r, Front(r)) \in Entry
        /\ Rebind(e, r, Front(r)).ssa = e.ssa
        /\ Rebind(e, r, Front(r)).resp.exec = Front(r).exec
    BY <1>1, <2>1, <2>2, ArtifactReuse, RebindTyped
  <2>4. SsaFits(Rebind(e, r, Front(r)))
    BY <2>1, <2>2, <2>3 DEF SsaFits, Admitted
  <2> QED
    BY <1>1, <2>1, <2>3, <2>4, DecideInv
<1> QED
  BY <1>3, <1>4, <1>5 DEF Build

\* A step of p along the publication that touches none of its other locals.
LEMMA AlongPublication ==
  ASSUME Inv, NEW p \in Proc, NEW phase \in {"publishIndex", "publishFactIndex", "done"},
         pc[p] \in Publishing, pc' = [pc EXCEPT ![p] = phase], UNCHANGED local,
         DOMAIN entry \subseteq DOMAIN entry',
         phase # "done" => request[p] \in DOMAIN entry'
  PROVE  Frame(p) /\ \A q \in Proc : Carries(q)'
<1>1. Frame(p)
  BY DEF Inv, Typed, Frame, local
<1>2. Carries(p)'
  BY DEF Inv, Typed, Carries, Publishing, SsaFits, local
<1> QED
  BY <1>1, <1>2, OthersKeep DEF Inv

\* A verified response is renamed into place under the request's own key.
LEMMA PublishEntryInv == ASSUME Inv, NEW p \in Proc, PublishEntry(p) PROVE Inv'
<1> DEFINE r == request[p]
<1>1. /\ pc[p] = "publish" /\ entry' = Put(entry, r, reply[p])
      /\ pc' = [pc EXCEPT ![p] = "publishIndex"]
      /\ UNCHANGED <<index, factIndex, local, asked>>
  BY DEF PublishEntry, Goto
<1>2. /\ r \in Request /\ reply[p] \in Entry /\ reply[p].resp = Cold(r)
      /\ reply[p].resp.status = "verified" /\ SsaFits(reply[p])
  BY <1>1, AtWork DEF Inv, Carries, Publishing
<1>3. /\ DOMAIN entry' = DOMAIN entry \cup {r}
      /\ entry'[r] = reply[p]
      /\ \A k \in DOMAIN entry : k # r => entry'[k] = entry[k]
  BY <1>1 DEF Put
<1>4. Typed'
  BY <1>1, <1>2, <1>3 DEF Inv, Typed, Phases, local
<1>5. (EntriesAreVerifiedBuilds /\ SsaFactsFitClosure)'
  BY <1>2, <1>3 DEF Inv, EntriesAreVerifiedBuilds, SsaFactsFitClosure, SsaFits
<1>6. IndexNamesPublishedEntry'
  BY <1>1, <1>3 DEF Inv, IndexNamesPublishedEntry, IndexKey, FactKey
<1>7. \A q \in Proc : Carries(q)'
  BY <1>1, <1>3, AlongPublication DEF Publishing
<1> QED
  BY <1>1, <1>4, <1>5, <1>6, <1>7 DEF Inv

\* write_failed: the answer goes out and nothing is indexed.
LEMMA PublishFailsInv == ASSUME Inv, NEW p \in Proc, PublishFails(p) PROVE Inv'
<1>1. /\ pc[p] = "publish" /\ pc' = [pc EXCEPT ![p] = "done"]
      /\ UNCHANGED <<entry, index, factIndex, local, asked>>
  BY DEF PublishFails, Goto, AfterFailure, cache
<1>2. Typed'
  BY <1>1 DEF Inv, Typed, Phases, local
<1>3. Frame(p) /\ \A q \in Proc : Carries(q)'
  BY <1>1, AlongPublication DEF Publishing
<1> QED
  BY <1>1, <1>2, <1>3, PrivateStep DEF Inv, cache

\* The artifact index is pointed at the entry just published.
LEMMA PublishIndexInv == ASSUME Inv, NEW p \in Proc, PublishIndex(p) PROVE Inv'
<1> DEFINE r == request[p]
<1>1. PICK phase \in {"publishFactIndex", "done"} : pc' = [pc EXCEPT ![p] = phase]
  BY DEF PublishIndex, Goto
<1>2. /\ pc[p] = "publishIndex"
      /\ index' = Put(index, IndexKey(r), r) \/ index' = index
      /\ UNCHANGED <<entry, factIndex, local, asked>>
  BY DEF PublishIndex
<1>3. r \in Request /\ r \in DOMAIN entry
  BY <1>2, AtWork DEF Inv, Carries
<1>4. \A k \in DOMAIN index' :
        (k = IndexKey(r) /\ index'[k] = r) \/ (k \in DOMAIN index /\ index'[k] = index[k])
  <2>1. CASE index' = Put(index, IndexKey(r), r)
    BY <2>1 DEF Put
  <2>2. CASE index' = index
    BY <2>2
  <2> QED
    BY <1>2, <2>1, <2>2
<1>5. Typed'
  BY <1>1, <1>2, <1>3, <1>4 DEF Inv, Typed, Phases, local
<1>6. (EntriesAreVerifiedBuilds /\ SsaFactsFitClosure)'
  BY <1>2 DEF Inv, EntriesAreVerifiedBuilds, SsaFactsFitClosure
<1>7. IndexNamesPublishedEntry'
  BY <1>2, <1>3, <1>4 DEF Inv, IndexNamesPublishedEntry, FactKey
<1>8. \A q \in Proc : Carries(q)'
  BY <1>1, <1>2, <1>3, AlongPublication DEF Publishing
<1> QED
  BY <1>2, <1>5, <1>6, <1>7, <1>8 DEF Inv

\* The fact index is pointed at the entry just published.
LEMMA PublishFactIndexInv == ASSUME Inv, NEW p \in Proc, PublishFactIndex(p) PROVE Inv'
<1> DEFINE r == request[p]
<1>1. /\ pc[p] = "publishFactIndex" /\ pc' = [pc EXCEPT ![p] = "done"]
      /\ factIndex' = Put(factIndex, FactKey(r), r) \/ factIndex' = factIndex
      /\ UNCHANGED <<entry, index, local, asked>>
  BY DEF PublishFactIndex, Goto
<1>2. r \in Request /\ r \in DOMAIN entry
  BY <1>1, AtWork DEF Inv, Carries
<1>3. \A k \in DOMAIN factIndex' :
        (k = FactKey(r) /\ factIndex'[k] = r) \/ (k \in DOMAIN factIndex /\ factIndex'[k] = factIndex[k])
  <2>1. CASE factIndex' = Put(factIndex, FactKey(r), r)
    BY <2>1 DEF Put
  <2>2. CASE factIndex' = factIndex
    BY <2>2
  <2> QED
    BY <1>1, <2>1, <2>2
<1>4. Typed'
  BY <1>1, <1>2, <1>3 DEF Inv, Typed, Phases, local
<1>5. (EntriesAreVerifiedBuilds /\ SsaFactsFitClosure)'
  BY <1>1 DEF Inv, EntriesAreVerifiedBuilds, SsaFactsFitClosure
<1>6. IndexNamesPublishedEntry'
  BY <1>1, <1>2, <1>3 DEF Inv, IndexNamesPublishedEntry, IndexKey
<1>7. \A q \in Proc : Carries(q)'
  BY <1>1, AlongPublication DEF Publishing
<1> QED
  BY <1>1, <1>4, <1>5, <1>6, <1>7 DEF Inv

\* One step of the build, taken together.
LEMMA NextInv == Inv /\ [Next]_vars => Inv'
<1> SUFFICES ASSUME Inv, [Next]_vars PROVE Inv'
  OBVIOUS
<1>1. CASE UNCHANGED vars
  BY <1>1 DEF vars, Inv, Typed, Carries, Publishing, SsaFits, EntriesAreVerifiedBuilds,
              IndexNamesPublishedEntry, SsaFactsFitClosure, IndexKey, FactKey
<1>2. ASSUME NEW p \in Proc, Submit(p) \/ Crash(p) \/ Lookup(p) \/ Build(p) \/ Store(p)
      PROVE  Inv'
  <2>1. CASE Submit(p)
    BY <2>1, SubmitInv
  <2>2. CASE Crash(p)
    BY <2>2, CrashInv
  <2>3. CASE Lookup(p)
    BY <2>3, ExactHitInv, MissInv, ReadIndexInv, ReadCandidateInv, ReadFactCandidateInv DEF Lookup
  <2>4. CASE Build(p)
    BY <2>4, BuildInv
  <2>5. CASE Store(p)
    BY <2>5, PublishEntryInv, PublishFailsInv, PublishIndexInv, PublishFactIndexInv DEF Store
  <2> QED
    BY <1>2, <2>1, <2>2, <2>3, <2>4, <2>5
<1> QED
  BY <1>1, <1>2 DEF Next

\* The invariant holds in every reachable state.
THEOREM Invariance == Spec => []Inv
<1>1. Init => Inv
  BY InitInv
<1>2. Inv /\ [Next]_vars => Inv'
  BY NextInv
<1> QED
  BY <1>1, <1>2, PTL DEF Spec

(***************************************************************************)
(* The properties.                                                         *)
(***************************************************************************)

\* Every variable of the build keeps its type.
THEOREM TypeCorrect == Spec => []TypeOK
<1>1. Inv => TypeOK
  BY DEF Inv, Typed, TypeOK
<1> QED
  BY <1>1, Invariance, PTL

\* compile_application never answers with anything but the cold build of the
\* request, whichever of the three lookups, or none, produced the answer.
THEOREM AnswersTransparent == Spec => []AnswerIsColdBuild
<1>1. Inv => AnswerIsColdBuild
  BY DEF Inv, Carries, Publishing, AnswerIsColdBuild
<1> QED
  BY <1>1, Invariance, PTL

\* publish_application_cache stores nothing but verified cold builds, however
\* many reuses led to them.
THEOREM EntriesSound == Spec => []EntriesAreVerifiedBuilds
<1>1. Inv => EntriesAreVerifiedBuilds
  BY DEF Inv
<1> QED
  BY <1>1, Invariance, PTL

\* No failure or crash leaves an index file that names an absent entry, or an
\* entry built with other options.
THEOREM IndexesSound == Spec => []IndexNamesPublishedEntry
<1>1. Inv => IndexNamesPublishedEntry
  BY DEF Inv
<1> QED
  BY <1>1, Invariance, PTL

\* SSA facts republished with a rebound response fit its executable closure.
THEOREM SsaFactsSound == Spec => []SsaFactsFitClosure
<1>1. Inv => SsaFactsFitClosure
  BY DEF Inv
<1> QED
  BY <1>1, Invariance, PTL

(***************************************************************************)
(* The cached build implements the build without a cache.                  *)
(***************************************************************************)

\* The service speaks of the same requests and the same builds.
LEMMA SameRequests == Service!Request = Request
BY DEF Service!Request, Request, Service!Option, Option

\* A cold build is the same in both specifications.
LEMMA SameBuilds == ASSUME NEW r PROVE Service!Cold(r) = Cold(r)
<1>1. Service!Front(r) = Front(r)
  BY DEF Service!Front, Front
<1>2. ASSUME NEW f PROVE Service!Emit(f) = Emit(f)
  BY DEF Service!Emit, Emit
<1>3. ASSUME NEW t PROVE Service!Graph(t) = Graph(t)
  BY DEF Service!Graph, Graph
<1> QED
  BY <1>1, <1>2, <1>3 DEF Service!Cold, Cold

\* The answers p's step leaves to the other processes.
LEMMA AnswersOf ==
  ASSUME NEW p \in Proc, Frame(p), NEW v, (answered[p])' = v
  PROVE  answered' = [answered EXCEPT ![p] = v]
BY DEF answered, Frame

\* Every step is a step of the service or invisible to it.
LEMMA StepSimulation == Inv /\ Inv' /\ [Next]_vars => [Service!Next]_(Service!vars)
<1> SUFFICES ASSUME Inv, Inv', [Next]_vars PROVE Service!Next \/ UNCHANGED <<request, answered>>
  BY DEF Service!vars
<1>1. CASE UNCHANGED vars
  BY <1>1 DEF vars, answered
<1>2. ASSUME NEW p \in Proc, Submit(p) PROVE Service!Submit(p)
  <2>1. Frame(p) /\ pc'[p] = "exact" /\ pc[p] \in {"idle", "done"}
    BY <1>2 DEF Submit, Frame, Inv, Typed, cache
  <2>2. answered' = [answered EXCEPT ![p] = NoResponse]
    BY <2>1, AnswersOf DEF answered
  <2>3. request[p] = NoRequest \/ answered[p] # NoResponse
    <3>1. CASE pc[p] = "idle"
      BY <3>1 DEF Inv, Carries
    <3>2. CASE pc[p] = "done"
      <4>1. answered[p] = Cold(request[p])
        BY <3>2 DEF answered, Inv, Carries
      <4>2. request[p] \in Request
        BY <3>2, AtWork
      <4> QED
        BY <4>1, <4>2, ColdTyped, CacheAssumption
    <3> QED
      BY <2>1, <3>1, <3>2
  <2> QED
    BY <1>2, <2>2, <2>3, SameRequests DEF Submit, Service!Submit
<1>3. ASSUME NEW p \in Proc, Crash(p) PROVE Service!Die(p)
  <2>1. Frame(p) /\ pc'[p] = "idle"
    BY <1>3 DEF Crash, Frame, Inv, Typed
  <2>2. answered' = [answered EXCEPT ![p] = NoResponse]
    BY <2>1, AnswersOf DEF answered
  <2> QED
    BY <1>3, <2>2 DEF Crash, Service!Die
<1>4. ASSUME NEW p \in Proc, Lookup(p) \/ Build(p) \/ Store(p)
      PROVE  Service!Answer(p) \/ UNCHANGED <<request, answered>>
  <2>1. pc[p] \notin {"idle", "done"} /\ UNCHANGED request /\ Frame(p)
    <3> USE DEF Inv, Typed, Frame, Goto, local, cache
    <3>1. CASE Lookup(p)
      BY <3>1 DEF Lookup, ExactHit, ExactMiss, ReadIndex, IndexMiss, ReadCandidate, CandidateMiss,
                  ReadFactIndex, FactIndexMiss, ReadFactCandidate, FactCandidateMiss, Answer, Decide
    <3>2. CASE Build(p)
      BY <3>2 DEF Build, Reject, Reuse, EmitArtifact, Answer, Decide
    <3>3. CASE Store(p)
      BY <3>3 DEF Store, PublishEntry, PublishFails, PublishIndex, PublishFactIndex
    <3> QED
      BY <1>4, <3>1, <3>2, <3>3
  <2>2. answered[p] = NoResponse /\ request[p] # NoRequest
    BY <2>1 DEF answered, Inv, Carries
  <2>3. CASE pc'[p] = "done"
    <3>1. (answered[p])' = Cold(request[p])
      BY <2>1, <2>3 DEF answered, Inv, Carries
    <3> QED
      BY <2>1, <2>2, <3>1, AnswersOf, SameBuilds DEF Service!Answer
  <2>4. CASE pc'[p] # "done"
    <3>1. answered' = [answered EXCEPT ![p] = NoResponse]
      BY <2>1, <2>4, AnswersOf DEF answered
    <3> QED
      BY <2>1, <2>2, <3>1 DEF answered
  <2> QED
    BY <2>3, <2>4
<1> QED
  BY <1>1, <1>2, <1>3, <1>4 DEF Next, Service!Next

\* compile_application with its cache implements the service without one.
THEOREM Refinement == Spec => ImplementsService
<1>1. Init => Service!Init
  BY DEF Init, Service!Init, answered
<1>2. Inv /\ Inv' /\ [Next]_vars => [Service!Next]_(Service!vars)
  BY StepSimulation
<1> QED
  BY <1>1, <1>2, Invariance, PTL DEF Spec, ImplementsService, Service!Spec
=============================================================================
