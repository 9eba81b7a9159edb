----------------------------- MODULE RecipeDiff -----------------------------
(***************************************************************************)
(* The diff between two revisions of a recipe definition.                  *)
(*                                                                         *)
(* recipe/diff/node.py (NodeDiff, JobNodeDiff, RecipeNodeDiff) holds the   *)
(* per-node logic: a node diff starts NEW, compare_to_previous classifies  *)
(* it CHANGED or UNCHANGED from its own fields, its parents (including     *)
(* whether a parent diff is already CHANGED) and its connections, and      *)
(* set_force_reprocess marks it and, recursively, its children.            *)
(*                                                                         *)
(* The top-level RecipeDiff (recipe/diff/diff.py) is not in the source     *)
(* tree; it is modelled from the spec: a node diff is created for each     *)
(* node of the new definition, after the diffs of its parents (so that     *)
(* add_dependency can link them), and compared with the node of the same   *)
(* name in the old definition; nodes only in the old definition become     *)
(* DELETED diffs; set_force_reprocess is then applied to the forced nodes. *)
(***************************************************************************)
EXTENDS FiniteSets, Functions

CONSTANTS
    NodeName,       \* names of nodes in either revision
    ConnInput,      \* input names of node connections
    OldDefinitions, \* candidate previous revisions: [names -> NodeDefinition]
    NewDefinitions, \* candidate new revisions
    SubNodeName,    \* names of nodes inside a sub-recipe
    ForcedChoices   \* candidate reprocess_nodes dicts: a forced node name
                    \* mapped to the sub-recipe node names to force within it

\* A node of recipe.definition.node is a record: node_type "job" (with
\* type_name, version, revision_num) or "recipe" (type_name, revision_num;
\* version is unused), its set of parent names, and its connections as a
\* function from input name to a connection value.

Statuses == {"UNCHANGED", "CHANGED", "NEW", "DELETED"}
ChangeKinds == {"NODE_TYPE_CHANGE", "JOB_TYPE_CHANGE", "JOB_TYPE_VERSION_CHANGE",
                "JOB_TYPE_REVISION_CHANGE", "RECIPE_TYPE_CHANGE",
                "RECIPE_TYPE_REVISION_CHANGE", "PARENT_NEW", "PARENT_CHANGED",
                "PARENT_REMOVED", "INPUT_NEW", "INPUT_CHANGE", "INPUT_REMOVED"}
Change == [name: ChangeKinds, subject: NodeName \cup ConnInput \cup {"node"}]

VARIABLES
    old, new,            \* the two definitions being compared
    canReprocess,        \* RecipeDiff.can_be_reprocessed
    forced,              \* the reprocess_nodes dict given to set_force_reprocess
    status,              \* NodeDiff.status, "NONE" before the diff exists
    changes,             \* NodeDiff.changes, as a set of Change records
    force,               \* NodeDiff.force_reprocess
    reprocess,           \* NodeDiff.reprocess_new_node
    forceSub,            \* RecipeNodeDiff.force_reprocess_nodes
    phase                \* "build", "force" or "done"

vars == <<old, new, canReprocess, forced, status, changes, force, reprocess, forceSub, phase>>

-----------------------------------------------------------------------------
(* NodeDiff._calculate_reprocess_new_node                                  *)
CalculateReprocessNewNode(st, frc) ==
    /\ canReprocess
    /\ \/ st \in {"CHANGED", "NEW"}
       \/ frc /\ st # "DELETED"

\* A change of the node itself, reported when the field differs.
NodeChange(kind, differs) == IF differs THEN {[name |-> kind, subject |-> "node"]} ELSE {}

(* JobNodeDiff._compare_node_type                                          *)
CompareJobNodeType(cur, prev) ==
    NodeChange("JOB_TYPE_CHANGE", cur.type_name # prev.type_name)
    \cup NodeChange("JOB_TYPE_VERSION_CHANGE", cur.version # prev.version)
    \cup NodeChange("JOB_TYPE_REVISION_CHANGE", cur.revision_num # prev.revision_num)

(* RecipeNodeDiff._compare_node_type                                       *)
CompareRecipeNodeType(cur, prev) ==
    NodeChange("RECIPE_TYPE_CHANGE", cur.type_name # prev.type_name)
    \cup NodeChange("RECIPE_TYPE_REVISION_CHANGE", cur.revision_num # prev.revision_num)

\* The abstract _compare_node_type of the diff's subclass.
CompareNodeType(cur, prev) ==
    IF cur.node_type = "job" THEN CompareJobNodeType(cur, prev)
    ELSE CompareRecipeNodeType(cur, prev)

\* Variant: a shared parent's CHANGED status is not reported.
CompareDependenciesNoParentChanged(cur, prev, st) ==
    {[name |-> "PARENT_NEW", subject |-> p] : p \in cur.parents \ prev.parents}
    \cup {[name |-> "PARENT_REMOVED", subject |-> p] : p \in prev.parents \ cur.parents}

(* NodeDiff._compare_dependencies: the diff's parents are the parents in   *)
(* the new definition; a parent present in both is reported if its own     *)
(* diff is CHANGED at the time of the comparison.                          *)
CompareDependencies(cur, prev, st) ==
    {[name |-> "PARENT_NEW", subject |-> p] : p \in cur.parents \ prev.parents}
    \cup {[name |-> "PARENT_CHANGED", subject |-> p] :
            p \in {q \in cur.parents \cap prev.parents : st[q] = "CHANGED"}}
    \cup {[name |-> "PARENT_REMOVED", subject |-> p] : p \in prev.parents \ cur.parents}

(* NodeDiff._compare_connections                                           *)
CompareConnections(cur, prev) ==
    LET in == DOMAIN cur.connections
        pin == DOMAIN prev.connections
    IN  {[name |-> "INPUT_NEW", subject |-> i] : i \in in \ pin}
        \cup {[name |-> "INPUT_CHANGE", subject |-> i] :
                i \in {j \in in \cap pin : cur.connections[j] # prev.connections[j]}}
        \cup {[name |-> "INPUT_REMOVED", subject |-> i] : i \in pin \ in}

(* NodeDiff.compare_to_previous: the list of changes, then the status.     *)
CompareToPrevious(cur, prev, st) ==
    (IF cur.node_type = prev.node_type
     THEN CompareNodeType(cur, prev)
     ELSE {[name |-> "NODE_TYPE_CHANGE", subject |-> "node"]})
    \cup CompareDependencies(cur, prev, st)
    \cup CompareConnections(cur, prev)

StatusFromChanges(chg) == IF chg # {} THEN "CHANGED" ELSE "UNCHANGED"

\* Variant: forcing a node does not reach its children.
ForceClosureNodeOnly(S) == S

(* NodeDiff.set_force_reprocess recurses into children: the nodes it       *)
(* reaches from S are S and every descendant in the new definition.        *)
RECURSIVE ForceClosure(_)
ForceClosure(S) ==
    LET kids == {c \in DOMAIN new : new[c].parents \cap S # {}}
    IN  IF kids \subseteq S THEN S ELSE ForceClosure(S \cup kids)

(* NodeDiff.should_be_copied / should_be_superseded / should_be_unpublished *)
ShouldBeCopied(n) == status[n] # "DELETED" /\ ~reprocess[n]

ShouldBeSuperseded(n) ==
    \/ status[n] = "DELETED"
    \/ status[n] = "CHANGED"
    \/ status[n] = "UNCHANGED" /\ force[n]

ShouldBeUnpublished(n) == status[n] = "DELETED"

-----------------------------------------------------------------------------
Init ==
    /\ old \in OldDefinitions
    /\ new \in NewDefinitions
    /\ canReprocess \in BOOLEAN
    /\ forced \in ForcedChoices
    /\ status = [n \in NodeName |-> "NONE"]
    /\ changes = [n \in NodeName |-> {}]
    /\ force = [n \in NodeName |-> FALSE]
    /\ reprocess = [n \in NodeName |-> FALSE]
    /\ forceSub = [n \in NodeName |-> {}]
    /\ phase = "build"

\* RecipeDiff creates the diff of node n once the diffs of its parents
\* exist: NodeDiff.__init__ (status NEW), add_dependency for each parent,
\* then compare_to_previous when the old definition has a node named n.
AddNodeDiff(n) ==
    /\ phase = "build"
    /\ n \in DOMAIN new
    /\ status[n] = "NONE"
    /\ \A p \in new[n].parents : status[p] # "NONE"
    /\ LET chg == IF n \in DOMAIN old THEN CompareToPrevious(new[n], old[n], status) ELSE {}
           st  == IF n \in DOMAIN old THEN StatusFromChanges(chg) ELSE "NEW"
       IN  /\ status' = [status EXCEPT ![n] = st]
           /\ changes' = [changes EXCEPT ![n] = chg]
           /\ reprocess' = [reprocess EXCEPT ![n] = CalculateReprocessNewNode(st, FALSE)]
    /\ UNCHANGED <<old, new, canReprocess, forced, force, forceSub, phase>>

\* Variant: nodes only in the old definition get no diff.
AddDeletedNodesSkipped ==
    /\ phase = "build"
    /\ \A n \in DOMAIN new : status[n] # "NONE"
    /\ phase' = "force"
    /\ UNCHANGED <<old, new, canReprocess, forced, status, changes, force, reprocess, forceSub>>

\* Every node of the new definition has its diff: the nodes found only in
\* the old definition are added as DELETED diffs.
AddDeletedNodes ==
    /\ phase = "build"
    /\ \A n \in DOMAIN new : status[n] # "NONE"
    /\ status' = [n \in NodeName |-> IF n \in DOMAIN old \ DOMAIN new THEN "DELETED" ELSE status[n]]
    /\ phase' = "force"
    /\ UNCHANGED <<old, new, canReprocess, forced, changes, force, reprocess, forceSub>>

\* The definition node a diff was made from.
DiffNode(n) == IF n \in DOMAIN new THEN new[n] ELSE old[n]

(* RecipeNodeDiff.set_force_reprocess, after the NodeDiff part: a recipe   *)
(* node named in reprocess_nodes takes its entry as the sub-recipe nodes   *)
(* to force; any other keeps what it had.                                  *)
ForceReprocessNodes(n, reprocess_nodes) ==
    IF DiffNode(n).node_type = "recipe" /\ n \in DOMAIN reprocess_nodes
    THEN reprocess_nodes[n] ELSE forceSub[n]

\* RecipeDiff.set_force_reprocess: NodeDiff.set_force_reprocess on each
\* forced node in the diff, which sets force_reprocess, recalculates
\* reprocess_new_node and recurses into the node's children with the same
\* reprocess_nodes dict.
SetForceReprocess ==
    /\ phase = "force"
    /\ LET hit == ForceClosure(DOMAIN forced \cap {n \in NodeName : status[n] # "NONE"})
       IN  /\ force' = [n \in NodeName |-> force[n] \/ n \in hit]
           /\ reprocess' = [n \in NodeName |->
                              IF n \in hit THEN CalculateReprocessNewNode(status[n], TRUE)
                              ELSE reprocess[n]]
           /\ forceSub' = [n \in NodeName |->
                              IF n \in hit THEN ForceReprocessNodes(n, forced) ELSE forceSub[n]]
    /\ phase' = "done"
    /\ UNCHANGED <<old, new, canReprocess, forced, status, changes>>

Next ==
    \/ \E n \in NodeName : AddNodeDiff(n)
    \/ AddDeletedNodes
    \/ SetForceReprocess

Spec == Init /\ [][Next]_vars /\ WF_vars(Next)

-----------------------------------------------------------------------------
TypeOK ==
    /\ canReprocess \in BOOLEAN
    /\ DOMAIN forced \subseteq NodeName
    /\ forced \in [DOMAIN forced -> SUBSET SubNodeName]
    /\ forceSub \in [NodeName -> SUBSET SubNodeName]
    /\ status \in [NodeName -> Statuses \cup {"NONE"}]
    /\ changes \in [NodeName -> SUBSET Change]
    /\ force \in [NodeName -> BOOLEAN]
    /\ reprocess \in [NodeName -> BOOLEAN]
    /\ phase \in {"build", "force", "done"}
    /\ phase # "build" =>
          \A n \in NodeName : (status[n] = "NONE") <=> (n \notin DOMAIN old \cup DOMAIN new)

\* Reference classification: a node of the new definition is NEW when the
\* old one lacks it; otherwise CHANGED when its own fields, parents or
\* connections differ, or when a parent it shares with the old revision is
\* itself CHANGED, and UNCHANGED otherwise.
RECURSIVE RefChanged(_)
RefChanged(n) ==
    \/ CompareToPrevious(new[n], old[n], [p \in NodeName |-> "UNCHANGED"]) # {}
    \/ \E p \in new[n].parents \cap old[n].parents : p \in DOMAIN old /\ RefChanged(p)

RefStatus(n) ==
    CASE n \notin DOMAIN old -> "NEW"
      [] n \notin DOMAIN new -> "DELETED"
      [] RefChanged(n)       -> "CHANGED"
      [] OTHER               -> "UNCHANGED"

\* The statuses the diff reports agree with the reference classification,
\* whatever topological order RecipeDiff visits the nodes in: a parent's
\* status is final before any child compares against it.
StatusMatchesReference ==
    phase = "done" =>
        \A n \in DOMAIN old \cup DOMAIN new : status[n] = RefStatus(n)

\* A node copied from the previous recipe never depends on a node that is
\* recreated: re-running a parent (changed, new or forced) always re-runs
\* its children too, so no copied job keeps results computed from a
\* superseded parent.
CopiedNodeHasNoRerunParent ==
    phase = "done" =>
        \A n \in DOMAIN new : ShouldBeCopied(n) =>
            \A p \in new[n].parents : ~reprocess[p]
=============================================================================
