------------------------- MODULE SubRecipeCreation -------------------------
(***************************************************************************)
(* What the sub-recipe flavour of the create_recipes message promises, as *)
(* seen from the database: each sub-recipe node that was requested for the *)
(* containing recipe ends up with exactly one sub-recipe, created for a    *)
(* whole batch of still-missing nodes at once, and a sub-recipe is handed  *)
(* to process_recipe_input only after it exists and only when its request *)
(* asked for it.  Redelivery, crashes and concurrent workers are invisible *)
(* at this level.                                                          *)
(***************************************************************************)
EXTENDS Naturals

CONSTANTS
    NodeName,          \* node names of the containing recipe
    Requested,         \* the node names some create_recipes message asks for
    ProcessInputNodes  \* the node names some request marks process_input

VARIABLES
    made,      \* made[n]: number of sub-recipes recorded for node n
    advanced   \* nodes whose sub-recipe was sent to process_recipe_input

avars == <<made, advanced>>

AInit ==
    /\ made = [n \in NodeName |-> 0]
    /\ advanced = {}

\* A batch of requested nodes that have no sub-recipe yet gets one each.
CreateBatch(S) ==
    /\ S # {}
    /\ \A n \in S : made[n] = 0
    /\ made' = [n \in NodeName |-> IF n \in S THEN 1 ELSE made[n]]
    /\ UNCHANGED advanced

\* An existing sub-recipe whose request asked for it receives its input.
Advance(n) ==
    /\ made[n] = 1
    /\ n \in ProcessInputNodes
    /\ advanced' = advanced \cup {n}
    /\ UNCHANGED made

ANext ==
    \/ \E S \in SUBSET Requested : CreateBatch(S)
    \/ \E n \in NodeName : Advance(n)

ASpec == AInit /\ [][ANext]_avars
=============================================================================
