------------------------- MODULE MCCallConcurrency -------------------------
(* Small instances of CallConcurrency for TLC. *)
EXTENDS CallConcurrency, TLC

SlotSymmetry == Permutations(Slots)
=============================================================================
