-------------------------- MODULE RequestVersions --------------------------
(***************************************************************************)
(* The versions of mncs.compiler.application-build-request, the response   *)
(* contract compile_application answers each with, and what they add.      *)
(***************************************************************************)
EXTENDS Naturals

Versions == 1 .. 13

\* CONTRACT_V1 also answers a version that is not supported.
ContractOf(version) == IF version \in Versions THEN version + 3 ELSE 4

MultipleCallables(version) == version >= 2
SelectsTestCases(version) == version >= 4
=============================================================================
