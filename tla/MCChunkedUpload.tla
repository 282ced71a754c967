---------------------------- MODULE MCChunkedUpload ----------------------------
(* Model checking ChunkedUpload: parts, requests, handlers and messages are *)
(* interchangeable, where no liveness is checked.                           *)
EXTENDS ChunkedUpload, TLC

CONSTANTS p1, p2, c1, c2, h1, h2, m1, m2

Symmetry == Permutations(Parts) \cup Permutations(Clients)
              \cup Permutations(Handlers) \cup Permutations(Messages)

===============================================================================
