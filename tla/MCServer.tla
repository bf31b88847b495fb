------------------------------ MODULE MCServer ------------------------------
EXTENDS Server, TLC

CONSTANTS c1, c2

MCQuota == (c1 :> 2) @@ (c2 :> 0)
MCItems == UNION {{c} \X (1 .. Quota[c]) : c \in Clients}
=============================================================================
