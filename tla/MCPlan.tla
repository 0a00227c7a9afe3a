------------------------------- MODULE MCPlan -------------------------------
(* Instances of Plan for TLC.                                              *)
EXTENDS Views, TLC

CONSTANTS a, b

CodeSymmetry == Permutations(Codes)

=============================================================================
