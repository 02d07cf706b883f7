----------------------------- MODULE SocketFifo -----------------------------
(***************************************************************************)
(* What the worker pool promises its users: accepted connections go to the *)
(* workers first come, first served, each to one worker and only once; at  *)
(* most Capacity of them wait; a worker has one connection at a time.      *)
(***************************************************************************)
EXTENDS Integers, Sequences

CONSTANTS Workers, Sockets, Capacity, NoSocket

VARIABLES pending,   \* the connections waiting, oldest first
          hold,      \* the connection each worker has
          known      \* every connection ever enqueued

Init ==
    /\ pending = <<>>
    /\ hold = [w \in Workers |-> NoSocket]
    /\ known = {}

Enqueue(s) ==
    /\ s \notin known /\ Len(pending) < Capacity
    /\ pending' = Append(pending, s)
    /\ known' = known \cup {s}
    /\ UNCHANGED hold

Dequeue(w) ==
    /\ hold[w] = NoSocket /\ pending # <<>>
    /\ hold' = [hold EXCEPT ![w] = Head(pending)]
    /\ pending' = Tail(pending)
    /\ UNCHANGED known

Release(w) ==
    /\ hold[w] # NoSocket
    /\ hold' = [hold EXCEPT ![w] = NoSocket]
    /\ UNCHANGED <<pending, known>>

Next ==
    \/ \E s \in Sockets : Enqueue(s)
    \/ \E w \in Workers : Dequeue(w) \/ Release(w)

Spec == Init /\ [][Next]_<<pending, hold, known>>
=============================================================================
