----------------------------- MODULE MCProfiler -----------------------------
(***************************************************************************)
(* Instance of Profiler for TLC: a function stack of two slots, so that it *)
(* overflows and underflows, and two functions.                            *)
(***************************************************************************)
EXTENDS Profiler, TLC

MCCallSeqs == UNION {[1 .. n -> Func] : n \in 0 .. 2}

MCSymmetry == Permutations(Func)
=============================================================================
