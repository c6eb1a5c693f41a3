-------------------------- MODULE MCFromNumberPool --------------------------
(* Small instances of FromNumberPool for TLC. *)
EXTENDS FromNumberPool, TLC

NumberSymmetry == Permutations(Numbers) \cup Permutations(Runs) \cup Permutations(Dispatchers)
=============================================================================
