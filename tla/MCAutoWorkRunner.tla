-------------------------- MODULE MCAutoWorkRunner --------------------------
(* Instances of AutoWorkRunner for TLC. *)
EXTENDS AutoWorkRunner, TLC

RunnerSymmetry == Permutations(Requirements) \cup Permutations(Sessions) \cup Permutations(Tags)
=============================================================================
