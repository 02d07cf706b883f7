--------------------------- MODULE MCCommandPipe ---------------------------
(* CommandPipe for TLC: two writers in one process.                        *)
EXTENDS CommandPipe, TLC

CONSTANTS w1, w2, p1

OneProcess == w1 :> p1 @@ w2 :> p1
=============================================================================
