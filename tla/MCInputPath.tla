---------------------------- MODULE MCInputPath ----------------------------
(* InputPath for TLC: keys, and the symbols they produce, are interchangeable. *)
EXTENDS InputPath, TLC

InputSymmetry == Permutations(Keys) \cup Permutations(Symbols)
=============================================================================
