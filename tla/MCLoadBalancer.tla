---------------------------- MODULE MCLoadBalancer ----------------------------
(***************************************************************************)
(* Two or three nodes on two destinations, blobs that hash to either.      *)
(***************************************************************************)
EXTENDS LoadBalancer

CONSTANTS n1, n2, n3, d1, d2, b1, b2

\* n3 advertises the destination of n1.
MCDestOf == [n \in Nodes |-> IF n = n2 THEN d2 ELSE d1]
\* n1 retries, where the run asks for it.
MCMaxAttempts == [n \in Nodes |-> IF n = n1 THEN 2 ELSE 1]
MCMaxAttempts2 == [n \in Nodes |-> 2]
MCHashOf == [b \in Blobs |-> IF b = b1 THEN 0 ELSE 1]
=============================================================================
