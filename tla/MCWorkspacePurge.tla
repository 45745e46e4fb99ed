-------------------------- MODULE MCWorkspacePurge --------------------------
(* Model checking of WorkspacePurge: dispatchers are interchangeable. *)
EXTENDS WorkspacePurge, TLC

WorkerSymmetry == Permutations(Workers)
=============================================================================
