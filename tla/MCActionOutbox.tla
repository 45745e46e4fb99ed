-------------------------- MODULE MCActionOutbox --------------------------
EXTENDS ActionOutbox, TLC

(* Slots are interchangeable, and so are rows. *)
SlotSymmetry == Permutations(Workers) \cup Permutations(Events)
=============================================================================
