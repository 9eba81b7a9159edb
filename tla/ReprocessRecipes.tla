-------------------------- MODULE ReprocessRecipes --------------------------
(***************************************************************************)
(* The reprocess flavour of the create_recipes command message            *)
(* (recipe/messages/create_recipes.py): one message names root recipes    *)
(* to be re-run under revision recipe_type_rev_num of their recipe type.  *)
(* A worker receives it from SQS, and inside one transaction locks the    *)
(* current recipes of those roots, looks for recipes this message already *)
(* created (same roots, same event), and otherwise supersedes the locked  *)
(* recipes, computes one RecipeDiff per revision and creates the new      *)
(* recipes.  After the commit it sends supersede_recipe_nodes and         *)
(* process_recipe_input messages and the message is deleted.  An          *)
(* exception rolls the transaction back and leaves the message in flight  *)
(* until its visibility timeout.                                           *)
(*                                                                         *)
(* Recipes are model values: a root recipe and, once this message has run,*)
(* the new recipe superseding it.  Revision ids are another set of model  *)
(* values; a dict keyed by revision id never has a Recipe as a key.       *)
(***************************************************************************)
EXTENDS FiniteSets, Sequences, Functions, CreateRecipesJson

CONSTANTS
    Worker,         \* scale_message_handler processes
    RootRecipeIds,  \* the root recipe ids given to add_recipe_to_reprocess
    Event,          \* the event_id of the reprocess request
    RecipeType,     \* recipe_type_name
    Revision,       \* recipe type revision ids
    NewRev,         \* the revision named by recipe_type_name/recipe_type_rev_num
    OldRev,         \* OldRev[r]: the revision root recipe r was created with
    CanReprocess,   \* CanReprocess[v]: RecipeDiff(v, NewRev).can_be_reprocessed
    CopiesNodes,    \* CopiesNodes[v]: that diff's get_nodes_to_copy() is not empty
    NoWorker        \* the lock is free

RootRecipe == Range(RootRecipeIds)

(* The message as built: create_recipes_type REPROCESS_TYPE, then          *)
(* add_recipe_to_reprocess for each root, which appends only because the  *)
(* type is already set.                                                    *)
ReprocessMessage ==
    [NewCreateRecipes EXCEPT
        !.create_recipes_type = REPROCESS_TYPE,
        !.event_id = Event,
        !.recipe_type_name = RecipeType,
        !.recipe_type_rev_num = NewRev,
        !.root_recipe_ids = RootRecipeIds]

\* What execute() runs on: from_json of the dict to_json produced.
Msg == OverTheWire(ReprocessMessage)

ASSUME /\ NewRev \in Revision
       /\ OldRev \in [RootRecipe -> Revision]
       /\ CanReprocess \in [Revision -> BOOLEAN]
       /\ CopiesNodes \in [Revision -> BOOLEAN]
       /\ RootRecipe \cap Revision = {}

\* A recipe created by this message: the root it supersedes.
NewRecipe == [superseded_recipe: RootRecipe]

FollowOn == [type: {"supersede_recipe_nodes"}, recipe_ids: SUBSET RootRecipe]
            \cup [type: {"process_recipe_input"}, recipe: NewRecipe]

VARIABLES
    queue,       \* the message in SQS: "visible", "inflight" or "deleted"
    pc,          \* pc[w]: where worker w is in the handling of the message
    lock,        \* holder of the row locks on the roots' recipes
    superseded,  \* root recipes marked superseded (committed)
    made,        \* recipes committed by this message (Recipe rows)
    recipes,     \* recipes[w]: what execute() passes to _create_messages
    sent,        \* follow-on messages sent
    copied       \* RecipeNodeCopy rows: nodes copied from a root to its new recipe

vars == <<queue, pc, lock, superseded, made, recipes, sent, copied>>

Init ==
    /\ queue = "visible"
    /\ pc = [w \in Worker |-> "idle"]
    /\ lock = NoWorker
    /\ superseded = {}
    /\ made = {}
    /\ recipes = [w \in Worker |-> {}]
    /\ sent = {}
    /\ copied = {}

-----------------------------------------------------------------------------
\* receive_messages yields the body; SQS only hides the message.
Receive(w) ==
    /\ pc[w] = "idle"
    /\ queue = "visible"
    /\ queue' = "inflight"
    /\ pc' = [pc EXCEPT ![w] = "received"]
    /\ UNCHANGED <<lock, superseded, made, recipes, sent, copied>>

\* _perform_locking: get_locked_recipes_from_root(root_recipe_ids) selects
\* for update the current recipe of each root.
PerformLocking(w) ==
    /\ pc[w] = "received"
    /\ lock = NoWorker
    /\ lock' = w
    /\ pc' = [pc EXCEPT ![w] = "locked"]
    /\ UNCHANGED <<queue, superseded, made, recipes, sent, copied>>

\* The recipes _perform_locking stored in _superseded_recipes: the roots
\* of the message's root_recipe_ids that no committed recipe supersedes yet.
SupersededRecipes == Range(Msg.root_recipe_ids) \ superseded

\* The transaction ends, releasing the locks; p is where the worker goes.
EndTransaction(w, p, rs) ==
    /\ lock' = NoWorker
    /\ pc' = [pc EXCEPT ![w] = p]
    /\ recipes' = [recipes EXCEPT ![w] = rs]

(* _find_existing_recipes: the recipes whose root_superseded_recipe_id is  *)
(* one of the roots and whose event is this message's; their diffs are     *)
(* built from revisions looked up by their own revision ids.               *)
FindExistingRecipes(w) ==
    /\ pc[w] = "locked"
    /\ IF made = {}
       THEN /\ pc' = [pc EXCEPT ![w] = "create"]
            /\ UNCHANGED <<lock, recipes>>
       ELSE EndTransaction(w, "committed", made)
    /\ UNCHANGED <<queue, superseded, made, sent, copied>>

(* _copy_recipe_nodes: for each diff with nodes to copy, one              *)
(* RecipeNodeCopy per recipe pair, from the superseded to the new recipe.  *)
CopyRecipeNodes(new) ==
    {[from |-> n.superseded_recipe, to |-> n] :
        n \in {n \in new : CopiesNodes[OldRev[n.superseded_recipe]]}}

(* _create_recipes_for_reprocess, inside the transaction:                  *)
(*  - supersede_recipes on the locked recipes;                             *)
(*  - get_revisions(superseded_recipe_ids, [(name, rev_num)]) is given     *)
(*    recipe ids where revision ids are expected, so besides NewRev it     *)
(*    returns whichever revisions happen to share an id with a recipe;     *)
(*  - diffs is keyed by revision id, and diffs[superseded_recipe] looks a  *)
(*    Recipe up in it;                                                     *)
(*  - a recipe is created for each root whose diff can be reprocessed;     *)
(*  - every revision in diffs must have a pair in pairs_by_rev_id.         *)
(* Then _copy_recipe_nodes.  A KeyError at either lookup rolls back.       *)
(* (The collide set is where the value of the mixed-up lookup is chosen.) *)
CreateRecipesForReprocess(w) ==
    /\ pc[w] = "create"
    /\ \E collide \in SUBSET (Revision \ {Msg.recipe_type_rev_num}) :
          LET sup      == SupersededRecipes
              diffs    == collide \cup {Msg.recipe_type_rev_num}
              lookupOK == \A r \in sup : r \in diffs
              new      == {[superseded_recipe |-> r] : r \in {r \in sup : CanReprocess[OldRev[r]]}}
              pairRevs == {OldRev[n.superseded_recipe] : n \in new}
          IN  IF lookupOK /\ diffs \subseteq pairRevs
              THEN /\ superseded' = superseded \cup sup
                   /\ made' = made \cup new
                   /\ copied' = copied \cup CopyRecipeNodes(new)
                   /\ EndTransaction(w, "committed", new)
              ELSE /\ EndTransaction(w, "idle", {})
                   /\ UNCHANGED <<superseded, made, copied>>
    /\ UNCHANGED <<queue, sent>>

(* _create_messages: per diff (per old revision), one                     *)
(* supersede_recipe_nodes message for the recipes it replaced, and         *)
(* process_recipe_input for every new recipe, which has its superseded     *)
(* recipe's input copied (has_input()).                                     *)
CreateMessages(w) ==
    /\ pc[w] = "committed"
    /\ sent' = sent
               \cup {[type |-> "supersede_recipe_nodes",
                      recipe_ids |-> {n.superseded_recipe : n \in
                                        {n \in recipes[w] : OldRev[n.superseded_recipe] = v}}]
                        : v \in {OldRev[n.superseded_recipe] : n \in recipes[w]}}
               \cup {[type |-> "process_recipe_input", recipe |-> n] : n \in recipes[w]}
    /\ pc' = [pc EXCEPT ![w] = "sent"]
    /\ UNCHANGED <<queue, lock, superseded, made, recipes, copied>>

\* execute() returned True and the backend deletes the message.
DeleteMessage(w) ==
    /\ pc[w] = "sent"
    /\ queue' = "deleted"
    /\ pc' = [pc EXCEPT ![w] = "idle"]
    /\ recipes' = [recipes EXCEPT ![w] = {}]
    /\ UNCHANGED <<lock, superseded, made, sent, copied>>

\* The visibility timeout of the in-flight message expires.
VisibilityTimeout ==
    /\ queue = "inflight"
    /\ queue' = "visible"
    /\ UNCHANGED <<pc, lock, superseded, made, recipes, sent, copied>>

Next ==
    \/ \E w \in Worker :
          \/ Receive(w)
          \/ PerformLocking(w)
          \/ FindExistingRecipes(w)
          \/ CreateRecipesForReprocess(w)
          \/ CreateMessages(w)
          \/ DeleteMessage(w)
    \/ VisibilityTimeout

\* The handler loops keep polling and executing; the database grants the
\* locks in turn; SQS always expires a visibility timeout.
Fairness ==
    /\ \A w \in Worker :
          /\ WF_vars(Receive(w))
          /\ SF_vars(PerformLocking(w))
          /\ WF_vars(FindExistingRecipes(w))
          /\ WF_vars(CreateRecipesForReprocess(w))
          /\ WF_vars(CreateMessages(w))
          /\ WF_vars(DeleteMessage(w))
    /\ WF_vars(VisibilityTimeout)

Spec == Init /\ [][Next]_vars /\ Fairness

-----------------------------------------------------------------------------
\* A reprocess request is eventually carried out: the create_recipes
\* message is eventually deleted after a successful execute(), the spec's
\* recovery of InvalidData by counting and continuing included (roots
\* whose diff cannot be reprocessed are skipped, not fatal).
ReprocessEventuallyDone == <>(queue = "deleted")
=============================================================================
