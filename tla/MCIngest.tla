------------------------------ MODULE MCIngest ------------------------------
EXTENDS Ingest, TLC

CONSTANTS alice

\* Three publications of one publisher, the second of them rejected.
One    == {alice}
Three  == (alice :> 3)
Second == {<<alice, 2>>}
=============================================================================
