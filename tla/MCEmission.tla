----------------------------- MODULE MCEmission -----------------------------
(***************************************************************************)
(* What happens to a verified program on its way into an artifact file:    *)
(* the emission of the requested closure, the lowering of sequence copies  *)
(* within it, and the codec the sealed artifact is written and read with.  *)
(* They meet in a finished artifact only: a behaviour is one of the three, *)
(* and the variables of the other two are Off throughout.                  *)
(***************************************************************************)
EXTENDS MCVmEmission, MCSequenceCopy, MCArtifactCodec

CONSTANT Off

VARIABLE part   \* which part the behaviour is about

EmissionOff ==
    /\ request = Off /\ att = Off /\ selected = Off /\ emission_phase = Off /\ why = Off /\ lowered = Off
    /\ unvisited = Off /\ reachable = Off /\ ssa = Off /\ unselected = Off /\ artifact = Off

CopyOff ==
    /\ fn = Off /\ pass = Off /\ code = Off /\ transformations = Off /\ obligations = Off
    /\ lowering_refs = Off

CodecOff ==
    /\ pc = Off /\ type = Off /\ value = Off /\ nodes = Off /\ root = Off /\ mapped = Off /\ frames = Off
    /\ next = Off /\ index = Off /\ current = Off /\ hand = Off /\ slot = Off /\ size = Off /\ depth = Off
    /\ sizes = Off /\ depths = Off /\ reached = Off /\ built = Off /\ numbers = Off /\ decoded = Off

Init ==
    \/ part = "emission" /\ EmissionInit /\ CopyOff /\ CodecOff
    \/ part = "lowering" /\ CopyInit /\ EmissionOff /\ CodecOff
    \/ part = "codec" /\ CodecInit /\ EmissionOff /\ CopyOff

Next ==
    /\ UNCHANGED part
    /\ \/ part = "emission" /\ EmissionNext /\ UNCHANGED << copyVars, codecVars >>
       \/ part = "lowering" /\ CopyNext /\ UNCHANGED << emissionVars, codecVars >>
       \/ part = "codec" /\ CodecNext /\ UNCHANGED << emissionVars, copyVars >>

Spec ==
    /\ Init /\ [][Next]_<< part, emissionVars, copyVars, codecVars >>
    /\ WF_emissionVars(part = "emission" /\ EmissionNext)
    /\ WF_codecVars(part = "codec" /\ CodecNext)

----------------------------------------------------------------------------
(***************************************************************************)
(* After each of the three passes the block computes and fails as the      *)
(* source copies do, is in SSA form and answers for every source copy;     *)
(* after all three only windows that always fail are left.                 *)
(***************************************************************************)
LoweringIsSound ==
    part = "lowering" =>
        /\ CopyTypeOK
        /\ LoweringPreservesCopies
        /\ StaysSsa
        /\ ProvenanceKept
        /\ OnlyFailingWindowsStayExplicit

(***************************************************************************)
(* What is frozen is canonical, is accepted and comes back unchanged.      *)
(***************************************************************************)
CodecIsFaithful ==
    part = "codec" => CodecTypeOK /\ CanonicalForm /\ Lossless /\ DecoderAcceptsFrozen

(***************************************************************************)
(* Emission and codec end: cyclic calls, types and obligations, and every  *)
(* cycle of the permutation that orders the nodes, included.               *)
(***************************************************************************)
EmissionsEnd ==
    /\ part = "emission" => EmissionEnds
    /\ part = "codec" => CodecEnds
=============================================================================
