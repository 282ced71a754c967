------------------------------ MODULE MCJobOutbox ------------------------------
(* Model checking JobOutbox: dispatchers are interchangeable, rows are      *)
(* not, since they are drained in the order of their creation.              *)
EXTENDS JobOutbox, TLC

CONSTANTS d1, d2, d3

Symmetry == Permutations(Dispatchers)

===============================================================================
