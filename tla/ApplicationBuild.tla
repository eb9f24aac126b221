-------------------------- MODULE ApplicationBuild --------------------------
(***************************************************************************)
(* What the application build service promises: a request is answered with *)
(* what a build of exactly that request computes, whatever was built       *)
(* before, by whom, and however it ended.  A builder may also die.         *)
(***************************************************************************)
EXTENDS BuildModel

CONSTANTS Proc, NoRequest, NoResponse

VARIABLES request,   \* the request each process works on
          response   \* its answer

vars == <<request, response>>

Init == /\ request = [p \in Proc |-> NoRequest]
        /\ response = [p \in Proc |-> NoResponse]

Submit(p) == /\ \E r \in Request : request' = [request EXCEPT ![p] = r]
             /\ request[p] = NoRequest \/ response[p] # NoResponse
             /\ response' = [response EXCEPT ![p] = NoResponse]

Answer(p) == /\ request[p] # NoRequest
             /\ response[p] = NoResponse
             /\ response' = [response EXCEPT ![p] = Cold(request[p])]
             /\ UNCHANGED request

Die(p) == /\ request' = [request EXCEPT ![p] = NoRequest]
          /\ response' = [response EXCEPT ![p] = NoResponse]

Next == \E p \in Proc : Submit(p) \/ Answer(p) \/ Die(p)

Spec == Init /\ [][Next]_vars
=============================================================================
