-------------------------- MODULE MCClusterObjects --------------------------
EXTENDS ClusterObjects

Three == {1, 2, 3}

\* The first store fuller than the others.
Uneven == {[n \in Node |-> IF n = 1 THEN 1 ELSE 0]}
=============================================================================
