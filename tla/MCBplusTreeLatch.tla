-------------------------- MODULE MCBplusTreeLatch --------------------------
EXTENDS BplusTreeLatch

MCAttrs == 1..5
MCRids == 1..2
AllKeys == [i \in 1..10 |-> <<(i - 1) \div 2 + 1, ((i - 1) % 2) + 1>>]

(* Nothing; two leaves; three leaves of which the middle one is full;      *)
(* three levels of minimal nodes.                                          *)
Uneven == [i \in 1..9 |-> AllKeys[<<10, 9, 8, 4, 3, 2, 1, 5, 6>>[i]]]
MCBuilds == {<<>>, SubSeq(AllKeys, 1, 5), Uneven, AllKeys}

MCCallKeys == {<<1, 1>>, <<2, 1>>, <<5, 1>>}
Everything == [left |-> NoBound, linc |-> TRUE, right |-> NoBound, rinc |-> TRUE]
MCCallRanges == {Everything, [left |-> 2, linc |-> FALSE, right |-> 6, rinc |-> TRUE]}
=============================================================================
