---------------------------- MODULE MCBplusTree ----------------------------
EXTENDS BplusTree

MCAttrs == 1..4
MCRids == 1..3
MCBounds == {3, 4}        \* between the values 1 and 2, and 2
AllKeys == [i \in 1..12 |-> <<(i - 1) \div 3 + 1, ((i - 1) % 3) + 1>>]

(* From nothing, and three levels built in ascending and descending order. *)
MCBuilds == {<<>>, AllKeys, Reverse(AllKeys)}
=============================================================================
