---------------------------- MODULE MCCollector -----------------------------
(* Instances of Collector for TLC. *)
EXTENDS Collector, TLC

CONSTANTS o1, o2, o3, o4

Symmetry == Permutations(Obj)
=============================================================================
