----------------------------- MODULE MCLpSched -----------------------------
(* Model values for TLC: lua processes are interchangeable, and so are the *)
(* workers that do not exist at start.                                     *)
EXTENDS LpSched, TLC

Symmetry == Permutations(Procs) \cup Permutations(Workers \ InitialWorkers)
=============================================================================
