--------------------------- MODULE MC_RecipeDiff ---------------------------
(***************************************************************************)
(* Instances of RecipeDiff for TLC.  The previous revision is a chain of   *)
(* three job nodes a -> b -> c, each with one connection.  The new         *)
(* revision keeps, drops or alters each node: same job type, a new job     *)
(* type version, or a recipe node in its place; any parents among the      *)
(* nodes declared before it; the same or a changed connection.  Forcing   *)
(* names nodes and, for a recipe node, a node inside its sub-recipe.      *)
(***************************************************************************)
EXTENDS RecipeDiff, TLC

CONSTANTS a, b, c, in1, x1

JobNode(ver, parents, conn) ==
    [node_type |-> "job", type_name |-> "t1", version |-> ver, revision_num |-> 1,
     parents |-> parents, connections |-> [i \in {in1} |-> conn]]

ChainDefinition ==
    (a :> JobNode("1.0", {}, "v1")) @@ (b :> JobNode("1.0", {a}, "v1"))
    @@ (c :> JobNode("1.0", {b}, "v1"))

OldRevisions == {ChainDefinition}

\* No forced nodes, the root forced, a middle node forced (with or without
\* a sub-recipe node), or the root with the last node's sub-recipe node.
ForcedSets == {[n \in {} |-> {}], a :> {}, b :> {}, b :> {x1}, (a :> {}) @@ (c :> {x1})}

\* The variants of one node in the new revision.
Variants(parents) ==
    {JobNode(ver, parents, conn) : ver \in {"1.0", "2.0"}, conn \in {"v1", "v2"}}
    \cup {[node_type |-> "recipe", type_name |-> "t1", version |-> "", revision_num |-> 1,
           parents |-> parents, connections |-> [i \in {in1} |-> "v1"]]}

\* A new revision: a subset of {a, b, c} present, each node a variant with
\* parents among the present nodes declared before it.
NewRevisions ==
    UNION { { (a :> na) @@ (b :> nb) @@ (c :> nc) :
                na \in Variants({}), nb \in Variants(pb), nc \in Variants(pc) } :
            pb \in SUBSET {a}, pc \in SUBSET {a, b} }
    \cup { (a :> na) @@ (c :> nc) : na \in Variants({}), nc \in Variants({}) \cup Variants({a}) }
    \cup { (b :> nb) @@ (c :> nc) : nb \in Variants({}), nc \in Variants({b}) }
=============================================================================
