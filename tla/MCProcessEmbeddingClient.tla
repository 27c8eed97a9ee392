----------------------- MODULE MCProcessEmbeddingClient -----------------------
(* ProcessEmbeddingClient for model checking: the calls are interchangeable. *)
EXTENDS ProcessEmbeddingClient, TLC

Symmetry == Permutations(Call)
=============================================================================
