------------------------ MODULE MCGenerationCapacity ------------------------
(* Model checking of GenerationCapacity: turn ids are interchangeable. *)
EXTENDS GenerationCapacity, TLC

TurnSymmetry == Permutations(Turns)
=============================================================================
