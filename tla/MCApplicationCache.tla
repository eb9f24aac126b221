------------------------- MODULE MCApplicationCache -------------------------
(***************************************************************************)
(* A small world for ApplicationCache.  Snapshot "base" and its edits:     *)
(*   extra   changes a module that is supplied but never imported;         *)
(*   comment moves the tests of the root module, nothing executable;       *)
(*   body    changes an imported function that is called;                  *)
(*   export  changes an exported signature nobody selected calls;          *)
(*   broken  no longer checks (or no longer has the selected test);        *)
(*   partial checks, but a selected callable has no admitted code.         *)
(***************************************************************************)
EXTENDS ApplicationCache, TLC

CONSTANTS p1, p2

MCProc == {p1, p2}
MCSnapshot == {"base", "extra", "comment", "body", "export", "broken", "partial"}
MCModule == {"lib", "util"}
MCText == {"old", "new", "commented", "exporting", "wrong", "half"}
MCRootText == [s \in Snapshot |-> CASE s = "comment" -> "commented"
                                    [] s = "export" -> "exporting"
                                    [] s = "broken" -> "wrong"
                                    [] s = "partial" -> "half"
                                    [] OTHER -> "old"]
MCModText == [s \in Snapshot |-> [m \in Module |->
                IF (s = "extra" /\ m = "util") \/ (s = "body" /\ m = "lib") THEN "new"
                ELSE IF s = "export" /\ m = "util" THEN NoText ELSE "old"]]
MCDeps == [s \in Snapshot |-> {"lib"}]
MCAliased == {"export"}
MCFrontend ==
  [s \in Snapshot |-> [o \in Option |->
    [status |-> IF s # "broken" THEN "ok"
                ELSE IF o.contract >= 5 THEN "rejected" ELSE "selection_error",
     exec |-> CASE s = "body" -> "e2" [] s = "partial" -> "e3" [] OTHER -> "e1",
     calls |-> "c",
     api |-> IF s = "export" THEN "a2" ELSE "a1",
     tests |-> IF s = "comment" THEN "t2" ELSE "t1"]]]
MCEmitted ==
  [x \in (Exec \cup {NoExec}) \X Calls \X Api |->
    [status |-> IF x[1] = "e3" THEN "unsupported" ELSE "verified",
     art |-> <<x[1], x[3]>>]]
MCArt == {"e1", "e2", "e3", "none"} \X {"a1", "a2"}
MCProducerOf == [p \in Proc |-> "probe"]
MCSymmetry == Permutations(MCProc)
=============================================================================
