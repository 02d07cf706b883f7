---------------------------- MODULE LossyChannel ----------------------------
(***************************************************************************)
(* What the named pipes between a traced app and the server promise: the   *)
(* pieces of the messages are numbered as they are sent; a reader gets     *)
(* some of them at a time, at most Limit, in the order they were sent, and *)
(* no piece twice.  Pieces may be lost, and pieces of several messages may *)
(* arrive together.                                                        *)
(***************************************************************************)
EXTENDS Integers, Sequences

CONSTANTS Readers, Limit

VARIABLES sent,   \* the number of pieces sent so far
          got     \* the pieces each reader has got, in the order of arrival

Elems(s) == {s[i] : i \in 1..Len(s)}

Increasing(s) == \A i, j \in 1..Len(s) : i < j => s[i] < s[j]

Init == sent = 0 /\ got = [r \in Readers |-> <<>>]

Send == sent' = sent + 1 /\ UNCHANGED got

\* Pieces that nobody has got.
Fresh == 1..sent \ UNION {Elems(got[r]) : r \in Readers}

\* Reader r gets the pieces s.
Deliver(r, s) ==
    /\ s # <<>> /\ Len(s) <= Limit
    /\ Elems(s) \subseteq Fresh
    /\ Increasing(got[r] \o s)
    /\ got' = [got EXCEPT ![r] = @ \o s]
    /\ UNCHANGED sent

\* What a step has added to the pieces of r.
New(r) == SubSeq(got'[r], Len(got[r]) + 1, Len(got'[r]))

Next == Send \/ \E r \in Readers : Deliver(r, New(r))

Spec == Init /\ [][Next]_<<sent, got>>
=============================================================================
