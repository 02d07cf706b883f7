----------------------------- MODULE MCStepping -----------------------------
(* Stepping for TLC: the main thread and others.                           *)
EXTENDS Stepping, TLC

CONSTANTS main, t1, t2

OtherThreads == Permutations({t1, t2})
=============================================================================
