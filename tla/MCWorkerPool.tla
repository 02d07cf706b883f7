---------------------------- MODULE MCWorkerPool ----------------------------
(* WorkerPool for TLC: sockets are interchangeable in the safety runs.     *)
EXTENDS WorkerPool, TLC

SocketSymmetry == Permutations(Sockets)
=============================================================================
