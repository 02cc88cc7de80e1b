----------------------------- MODULE MCLuaProc -----------------------------
(* Model values for TLC: processes, and channel structures, are           *)
(* interchangeable.                                                        *)
EXTENDS LuaProc

Symmetry == Permutations(Procs) \cup Permutations(Chans)
=============================================================================
