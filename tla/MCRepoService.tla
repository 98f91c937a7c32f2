--------------------------- MODULE MCRepoService ---------------------------
EXTENDS RepoCommands, TLC

CONSTANTS g1, g2, n1, n2

TwoGroups == {g1, g2}
TwoNames  == {n1, n2}
Apart     == (n1 :> {g1}) @@ (n2 :> {g2})
Nested    == (n1 :> {g1}) @@ (n2 :> {g1, g2})
First     == <<g1>>
=============================================================================
