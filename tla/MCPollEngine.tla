---------------------------- MODULE MCPollEngine ----------------------------
(* Instances of PollEngine for TLC. *)
EXTENDS PollEngine, TLC

CONSTANTS p1, p2, i1

OneList == i1 :> <<p1, p2>>
OnePoint == i1 :> <<p1>>
=============================================================================
