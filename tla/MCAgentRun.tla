------------------------------ MODULE MCAgentRun ------------------------------
(* AgentRun for model checking: signatures are interchangeable. *)
EXTENDS AgentRun, TLC

Symmetry == Permutations(Signature)
=============================================================================
