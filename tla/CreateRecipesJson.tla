-------------------------- MODULE CreateRecipesJson --------------------------
(***************************************************************************)
(* The fields of a CreateRecipes command message and its conversion to and *)
(* from the JSON dict that travels through the queue                       *)
(* (recipe/messages/create_recipes.py).  A message is a record with one    *)
(* field per attribute; a JSON dict is a function whose domain is the set  *)
(* of keys present.  Ids are model values; None is a model value of its    *)
(* own.  forced_nodes is carried in the v6 dict built by                   *)
(* convert_forced_nodes_to_v6 (recipe/diff/json, outside the tree), kept   *)
(* opaque here.                                                            *)
(***************************************************************************)
CONSTANTS None

REPROCESS_TYPE == "reprocess"
SUB_RECIPE_TYPE == "sub-recipes"

\* CreateRecipes.__init__: every field unset.
NewCreateRecipes ==
    [event_id |-> None, batch_id |-> None, forced_nodes |-> None,
     create_recipes_type |-> None,
     recipe_type_name |-> None, recipe_type_rev_num |-> None, root_recipe_ids |-> <<>>,
     recipe_id |-> None, root_recipe_id |-> None, superseded_recipe_id |-> None,
     sub_recipes |-> <<>>]

\* The keys a SubRecipe tuple is written under.
SubRecipeKeys == {"recipe_type_name", "recipe_type_rev_num", "node_name", "process_input"}

\* The keys of m present in to_json(m): an optional field only when truthy.
JsonKeys(m) ==
    LET IfSet(k) == IF m[k] # None THEN {k} ELSE {}
    IN  {"event_id", "create_recipes_type"} \cup IfSet("batch_id") \cup IfSet("forced_nodes")
        \cup (IF m.create_recipes_type = REPROCESS_TYPE
              THEN {"recipe_type_name", "recipe_type_rev_num", "root_recipe_ids"}
              ELSE {})
        \cup (IF m.create_recipes_type = SUB_RECIPE_TYPE
              THEN {"recipe_id", "sub_recipes"} \cup IfSet("root_recipe_id")
                   \cup IfSet("superseded_recipe_id")
              ELSE {})

\* CreateRecipes.to_json: each SubRecipe tuple becomes a dict of its fields.
to_json(m) ==
    [k \in JsonKeys(m) |->
        IF k = "sub_recipes"
        THEN [i \in DOMAIN m.sub_recipes |-> [f \in SubRecipeKeys |-> m.sub_recipes[i][f]]]
        ELSE m[k]]

(* CreateRecipes.from_json: the required keys of the message's type are    *)
(* read, an optional key missing from the dict leaves the field unset, and *)
(* each sub-recipe dict becomes a SubRecipe tuple.                          *)
from_json(d) ==
    LET t == d["create_recipes_type"]
        Opt(k) == IF k \in DOMAIN d THEN d[k] ELSE None
        IfType(ty, k, unset) == IF t = ty THEN d[k] ELSE unset
    IN  [NewCreateRecipes EXCEPT
            !.event_id = d["event_id"],
            !.create_recipes_type = t,
            !.batch_id = Opt("batch_id"),
            !.forced_nodes = Opt("forced_nodes"),
            !.recipe_type_name = IfType(REPROCESS_TYPE, "recipe_type_name", None),
            !.recipe_type_rev_num = IfType(REPROCESS_TYPE, "recipe_type_rev_num", None),
            !.root_recipe_ids = IfType(REPROCESS_TYPE, "root_recipe_ids", <<>>),
            !.recipe_id = IfType(SUB_RECIPE_TYPE, "recipe_id", None),
            !.root_recipe_id = IF t = SUB_RECIPE_TYPE THEN Opt("root_recipe_id") ELSE None,
            !.superseded_recipe_id = IF t = SUB_RECIPE_TYPE THEN Opt("superseded_recipe_id") ELSE None,
            !.sub_recipes =
                IF t = SUB_RECIPE_TYPE
                THEN [i \in DOMAIN d["sub_recipes"] |->
                        [f \in SubRecipeKeys |-> d["sub_recipes"][i][f]]]
                ELSE <<>>]

\* What a worker decodes from the queue for message m.
OverTheWire(m) == from_json(to_json(m))
=============================================================================
