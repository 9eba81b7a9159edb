------------------------ MODULE MC_RecipeDefinition ------------------------
(***************************************************************************)
(* Instances of RecipeDefinition for TLC.  CycleDefinitions varies the     *)
(* dependency lists of three jobs (every dependency graph over them, with  *)
(* a fourth, undeclared name); InputDefinitions varies inputs, job names   *)
(* and connections of two jobs.                                            *)
(***************************************************************************)
EXTENDS RecipeDefinition, TLC

CONSTANTS a, b, c, x, i1, i2, s1, s2, t1, v1, v2

Job(n, deps, ris, conns) ==
    [name |-> n, recipe_inputs |-> ris,
     dependencies |-> [k \in 1..Len(deps) |-> [name |-> deps[k], connections |-> conns]]]

\* Three jobs a, b, c declared in that order, each depending on any subset
\* of {a, b, c, x}; x is never declared.
CycleDefinitions ==
    { [files |-> <<>>, json |-> <<>>,
       jobs |-> <<Job(a, SetToSeq(da), <<>>, <<>>),
                  Job(b, SetToSeq(db), <<>>, <<>>),
                  Job(c, SetToSeq(dc), <<>>, <<>>)>>] :
        da \in SUBSET {a, b, c, x}, db \in SUBSET {a, b, c, x}, dc \in SUBSET {a, b, c, x} }

RecipeInputChoices ==
    { <<>>, <<[recipe_input |-> i1, job_input |-> s1]>>,
      <<[recipe_input |-> i2, job_input |-> s1]>>,
      <<[recipe_input |-> i1, job_input |-> s1], [recipe_input |-> i1, job_input |-> s2]>> }

\* Two jobs, the second possibly named like the first, depending on the
\* first or on x, with recipe inputs and connections that may collide.
InputDefinitions ==
    { [files |-> fs, json |-> js,
       jobs |-> <<Job(a, <<>>, ra, <<>>), Job(nb, SetToSeq(db), rb, cb)>>] :
        fs \in {<<i1>>, <<i1, i1>>}, js \in {<<>>, <<i1>>, <<i2>>},
        nb \in {a, b}, db \in SUBSET {a, x}, ra \in RecipeInputChoices,
        rb \in RecipeInputChoices, cb \in {<<>>, <<s1>>, <<s2>>} }

AllDefinitions == CycleDefinitions \cup InputDefinitions
=============================================================================
