---------------------------- MODULE MCProbeCache ----------------------------
(***************************************************************************)
(* Two probes, a compiler module "lexer" and a library module "text" that  *)
(* only the new "lexer" uses: an edit of one module changes what the other *)
(* has to be compared for.  An older probe has seen the old sources.       *)
(*                                                                         *)
(* A behaviour is about one of two questions.  Under "backends" probes     *)
(* with different backends share the cache while both modules are edited.  *)
(* Under "roots" one more probe is started, some probes select roots, some *)
(* have no backend, and the library stays as it is.                        *)
(***************************************************************************)
EXTENDS ProbeCache, TLC

CONSTANTS p1, p2

VARIABLE question

MCProc == {p1, p2}
MCSymmetry == Permutations(MCProc)
MCModule == {"lexer", "text"}
MCResolves == [m \in Module |-> [s \in Sources |->
  IF m = "lexer" /\ s["lexer"] = "new" THEN {"text"} ELSE {}]]
MCConfigs == Configs
MCLegacy == {[m \in Module |-> "old"]}

\* The probes a question is about.
Asked == [backends |-> {c \in Configs : c.backend # NoBackend /\ c.roots = AllRoots},
          roots |-> {c \in Configs : c.backend # "cranelift"}]

MCInit == /\ Init
          /\ question \in DOMAIN Asked
          /\ question = "backends" => DOMAIN artifacts = {}
          /\ question = "roots" => disk["text"] = "old"

MCNext == /\ Next /\ UNCHANGED question
          /\ \A p \in Proc : pc'[p] # "idle" => config'[p] \in Asked[question]
          /\ question = "backends" => runs' < MaxRuns
          /\ question = "roots" => disk'["text"] = disk["text"]

MCSpec == MCInit /\ [][MCNext]_<<question, vars>>
=============================================================================
