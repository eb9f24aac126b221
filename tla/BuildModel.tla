----------------------------- MODULE BuildModel -----------------------------
(***************************************************************************)
(* What an application build computes, without any cache.                  *)
(*                                                                         *)
(* compile_application (tools/stage0-probe/src/application.rs) receives    *)
(* the whole source snapshot in the request: a root source and a map from  *)
(* module names to sources.  The Language frontend and the VM emitter      *)
(* are libraries; they enter as constant functions, with the two facts     *)
(* about them that the cache relies on:                                    *)
(*   - the frontend reads the root and the modules it resolves, nothing    *)
(*     else of the snapshot (FrontendReadsClosureOnly);                    *)
(*   - what the emitter produces is determined by the executable closure   *)
(*     identity, the selected callables' interfaces and the Language       *)
(*     interface identity (Emitted is a function of the three).            *)
(***************************************************************************)
EXTENDS Integers

CONSTANTS Snapshot,   \* source snapshots a request may carry
          Module,     \* module names
          Text,       \* source texts
          RootText,   \* [Snapshot -> Text]
          ModText,    \* [Snapshot -> [Module -> Text]]; NoText: not supplied
          Deps,       \* [Snapshot -> SUBSET Module]: the modules resolved
          Aliased,    \* snapshots that import a module under another name
          NoText,
          Contract,   \* request schema versions, a subset of 1 .. 13
          Selection,  \* callable roots, entry and test selection
          Context,    \* root_source_id, seeds, capabilities, effects, policies
          Producer,   \* Stage-0 toolchain and probe identity
          Exec, NoExec,  \* executable closure identities; NoExec: none
          Calls,      \* interfaces of the selected callables
          VerifiedCalls,  \* those whose types all resolve
          Api,        \* Language interface identities of a whole program
          Tests,      \* selected test rows with their source locations
          Art, NoArt, \* sealed VM artifacts
          Frontend,   \* [Snapshot -> [Option -> front-end result]]
          Emitted     \* [Exec \X Calls \X Api -> emission result]

Option == [contract : Contract, sel : Selection, ctx : Context]
Request == [snap : Snapshot, opt : Option, by : Producer]

FrontendResult ==
  [status : {"ok", "rejected", "selection_error"}, exec : Exec \cup {NoExec},
   calls : Calls, api : Api, tests : Tests]
Emission == [status : {"verified", "unknown", "unsupported"}, art : Art \cup {NoArt}]

\* The dependency graph of a snapshot: its root and the modules it resolves.
Graph(s) == [root |-> RootText[s], mods |-> [m \in Deps[s] |-> ModText[s][m]]]

\* t gives the root and the modules that s resolves the same texts.
SameClosure(s, t) == /\ RootText[s] = RootText[t]
                     /\ \A m \in Deps[s] : ModText[s][m] = ModText[t][m]

ASSUME ConstantTypes ==
  /\ RootText \in [Snapshot -> Text]
  /\ ModText \in [Snapshot -> [Module -> Text \cup {NoText}]]
  /\ Deps \in [Snapshot -> SUBSET Module]
  /\ Aliased \subseteq Snapshot
  /\ Contract \subseteq 1 .. 13
  /\ VerifiedCalls \subseteq Calls
  /\ NoExec \notin Exec
  /\ NoArt \notin Art
  /\ NoText \notin Text
  /\ Frontend \in [Snapshot -> [Option -> FrontendResult]]
  /\ Emitted \in [(Exec \cup {NoExec}) \X Calls \X Api -> Emission]

\* A resolved module is one the request supplied.
ASSUME DepsSupplied == \A s \in Snapshot : \A m \in Deps[s] : ModText[s][m] # NoText

ASSUME FrontendReadsClosureOnly ==
  \A s, t \in Snapshot :
    SameClosure(s, t) => /\ Deps[s] = Deps[t]
                         /\ Frontend[s] = Frontend[t]
                         /\ (s \in Aliased <=> t \in Aliased)

Front(r) == Frontend[r.snap][r.opt]
Emit(f) == Emitted[<<f.exec, f.calls, f.api>>]

Response ==
  [status : {"verified", "unknown", "unsupported", "rejected", "selection_error"},
   snap : Snapshot, graph : {Graph(s) : s \in Snapshot}, exec : Exec \cup {NoExec},
   calls : Calls, api : Api, tests : Tests, art : Art \cup {NoArt},
   opt : Option, by : Producer]

\* The response of a build that consults no cache.
Cold(r) ==
  LET f == Front(r) IN
  [status |-> IF f.status = "ok" THEN Emit(f).status ELSE f.status,
   snap |-> r.snap, graph |-> Graph(r.snap), exec |-> f.exec,
   calls |-> f.calls, api |-> f.api, tests |-> f.tests,
   art |-> IF f.status = "ok" THEN Emit(f).art ELSE NoArt,
   opt |-> r.opt, by |-> r.by]
=============================================================================
