-------------------------- MODULE MCChatGeneration --------------------------
(* TLC instance of ChatGeneration: interchangeable turns and worker slots. *)
EXTENDS ChatGeneration, TLC

WorkerSymmetry == Permutations(Workers)
TurnWorkerSymmetry == Permutations(Turns) \cup Permutations(Workers)
=============================================================================
