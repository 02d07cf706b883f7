------------------------- MODULE MCServerLifecycle -------------------------
(* ServerLifecycle for TLC: two processes and two callers.                 *)
EXTENDS ServerLifecycle
=============================================================================
