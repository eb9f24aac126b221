-------------------------- MODULE MCProbeRetention --------------------------
(***************************************************************************)
(* Small instance of ProbeRetention: two processes, three names, a limit   *)
(* of two entries and two length units, so that every limit can be hit and *)
(* a file of three units is refused.                                       *)
(***************************************************************************)
EXTENDS ProbeRetention

CONSTANTS p1, p2
MCProc == {p1, p2}
=============================================================================
