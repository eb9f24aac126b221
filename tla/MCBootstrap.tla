---------------------------- MODULE MCBootstrap ----------------------------
(* Two processes provision three revisions.                                *)
EXTENDS Bootstrap
CONSTANTS p1, p2, rA, rB, rC
MCProcess == {p1, p2}
MCRevision == {rA, rB, rC}
=============================================================================
