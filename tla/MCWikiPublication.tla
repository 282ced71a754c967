--------------------------- MODULE MCWikiPublication ---------------------------
(* Model checking WikiPublication: the calls are interchangeable, and a     *)
(* behaviour is followed up to the step that hits a window.                 *)
EXTENDS WikiPublication, TLC

CONSTANTS p1, p2, p3

Symmetry == Permutations(Ops)
Unharmed == harm = {}

===============================================================================
