------------------------------ MODULE MCKmlab ------------------------------
(* Instances of Kmlab for TLC. *)
EXTENDS Kmlab, TLC

\* Processes and callers are alike; the fair specification is checked without this.
Symmetry == Permutations(Pids) \cup Permutations(Callers) \cup Permutations(Workers)
=============================================================================
