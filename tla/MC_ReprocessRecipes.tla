------------------------- MODULE MC_ReprocessRecipes -------------------------
EXTENDS ReprocessRecipes, TLC

CONSTANTS w1, w2, root1, root2, v1, v2

\* root1 was created with the old revision v1, root2 already with v2.
RootRevisions == (root1 :> v1) @@ (root2 :> v2)

\* The message reprocesses both roots.
TwoRoots == <<root1, root2>>

\* Every diff between the revisions can be reprocessed (and has nodes to copy).
AllReprocessable == [v \in {v1, v2} |-> TRUE]
=============================================================================
