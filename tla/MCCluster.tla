----------------------------- MODULE MCCluster -----------------------------
EXTENDS ClusterWire

Three == {1, 2, 3}

\* Every store empty; the first one fuller than the others.
Empty  == {[n \in Node |-> 0]}
Uneven == {[n \in Node |-> IF n = 1 THEN 1 ELSE 0]}
=============================================================================
