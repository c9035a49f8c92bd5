--------------------------- MODULE MCCacheOrders ---------------------------
(* Model checking CacheOrders. *)
EXTENDS CacheOrders, TLC

CONSTANTS c1, n1, n2

\* The call of another program: a payment to the node or to another one, an
\* attempt to pay, the life of another node, the exit command of this one.
OneProgram ==
    {c1 :> j : j \in [kind : {"pay"}, acc : {n1, n2}]
                 \cup [kind : {"register", "claim"}, acc : {n2}]
                 \cup [kind : {"exit", "credit"}, acc : {n1}]}

=============================================================================
