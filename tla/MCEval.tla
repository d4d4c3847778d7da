------------------------------- MODULE MCEval -------------------------------
(* Instances of EpslEval for TLC. *)
EXTENDS EpslEval, TLC

CONSTANTS o1, o2, o3, x, va

Symmetry == Permutations(Obj)

All == AllForms
=============================================================================
