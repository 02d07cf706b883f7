---------------------------- MODULE MCWsSessions ----------------------------
(* WsSessions for TLC: three tabs, two of which show the same thread, which *)
(* is the one that pushes; the third worker is there for the tab for which  *)
(* no slot is left.  The third thread is of the app of one and has the id   *)
(* of the other.                                                            *)
EXTENDS WsSessions, TLC

CONSTANTS w1, w2, w3, t1, t2, t3

n1 == [app |-> "a", thread |-> 1]
n2 == [app |-> "b", thread |-> 2]
n3 == [app |-> "a", thread |-> 2]
MCNames   == {n1, n2, n3}
MCPushing == {n1}

MCThreadOf == [t \in Tabs |-> IF t = t2 THEN n2 ELSE n1]
MCTakes    == {<<w1, t1>>, <<w1, t2>>, <<w2, t2>>, <<w1, t3>>, <<w3, t3>>}
AllTakes   == Workers \X Tabs
=============================================================================
