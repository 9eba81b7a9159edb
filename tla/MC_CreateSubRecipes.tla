------------------------ MODULE MC_CreateSubRecipes ------------------------
EXTENDS CreateSubRecipes, TLC

CONSTANTS w1, w2, a, b

Entry(n, pi) == [recipe_type_name |-> RecipeType, recipe_type_rev_num |-> 1,
                node_name |-> n, process_input |-> pi]

\* One update_recipe execution asks for the sub-recipes of nodes a and b,
\* b not yet ready for its input, and a second one asks again for a.  With
\* MAX_NUM = 1 they become three messages, two of them for node a.
RepeatedRequests == << <<Entry(a, TRUE), Entry(b, FALSE)>>, <<Entry(a, TRUE)>> >>

\* Two update_recipe executions for the same recipe: the first saw only a
\* as ready, the second saw a and b.  With MAX_NUM = 2 each is one message
\* and their node sets overlap.
OverlappingRequests == << <<Entry(a, TRUE)>>, <<Entry(a, TRUE), Entry(b, TRUE)>> >>
=============================================================================
