--------------------------- MODULE MCProcessingJobs ---------------------------
(* Model values and symmetry for the runs of ProcessingJobs.                *)
EXTENDS ProcessingJobs, TLC

CONSTANTS j1, j2, j3, e1, e2, m1, m2, m3, r1, r2

(* Handler slots and messages are interchangeable, and so are the jobs but  *)
(* for FirstJob.  Not used where a run checks liveness.                     *)
Symmetry ==
    Permutations(Execs) \cup Permutations(Messages) \cup Permutations(Jobs \ {FirstJob})
===============================================================================
