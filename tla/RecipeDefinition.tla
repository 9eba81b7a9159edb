-------------------------- MODULE RecipeDefinition --------------------------
(***************************************************************************)
(* The validation performed by the constructor of RecipeDefinition         *)
(* (recipe/seed/recipe_definition.py) and LegacyRecipeDefinition           *)
(* (recipe/configuration/definition/recipe_definition.py).  Both classes   *)
(* run the same sequence of checks once the JSON schema has accepted the   *)
(* dictionary: duplicate input names, duplicate job names, undefined       *)
(* dependencies, the layer-by-layer search for cyclic dependencies,        *)
(* duplicate job inputs and undefined recipe inputs.  The first failing    *)
(* check raises InvalidDefinition; the constructor returns otherwise.      *)
(*                                                                         *)
(* The cycle search is a loop whose only exit other than an exception is   *)
(* an empty layer, so it is modelled one layer per step.                   *)
(***************************************************************************)
EXTENDS Integers, Sequences, FiniteSets, SequencesExt, Functions

CONSTANTS
    JobName,      \* names a job or a dependency entry may carry
    InputName,    \* names of recipe inputs
    SlotName,     \* names of job inputs
    Definitions,  \* the definitions (already schema-valid) to construct
    JobTypeName,  \* job type names
    JobTypeVersion \* job type versions

\* The outcomes of the constructor: it returns, or raises InvalidDefinition
\* with one of these reasons.
Outcomes == {"ACCEPTED", "DUPLICATE_INPUT_NAME", "DUPLICATE_JOB_NAME",
             "UNDEFINED_DEPENDENCY", "CIRCULAR_DEPENDENCY",
             "DUPLICATE_JOB_INPUT", "UNDEFINED_RECIPE_INPUT"}

\* The schema-valid dictionaries after _populate_default_values: inputs
\* split into files and json (v2.0), each job with its recipe_inputs and
\* dependencies, each dependency with its connections.
RecipeInputItem == [recipe_input: InputName, job_input: SlotName]
DependencyItem  == [name: JobName, connections: Seq(SlotName)]
JobItem == [name: JobName, recipe_inputs: Seq(RecipeInputItem),
            dependencies: Seq(DependencyItem)]
DefinitionDict == [files: Seq(InputName), json: Seq(InputName), jobs: Seq(JobItem)]

ASSUME Definitions \subseteq DefinitionDict

\* The (name, version) key the schema requires in every job's job_type.
JobTypeKey == JobTypeName \X JobTypeVersion

VARIABLES
    def,        \* the dictionary being validated
    phase,      \* which check the constructor is executing
    jobIdx,     \* index of the job whose cycle search is running
    toCheck,    \* dependencies_to_check: the current layer of that search
    result,     \* the outcome, "NONE" while running
    jobType,    \* jobType[n]: the job_type key of job n's dict
    registered, \* the keys of the JobType rows in the database
    order,      \* what get_topological_order has emitted so far
    toCreate,   \* the list get_jobs_to_create returned
    fileOutputs, \* the job types whose interface has file outputs
    workspace   \* the connection or data validated provides a workspace

vars == <<def, phase, jobIdx, toCheck, result, jobType, registered, order, toCreate,
          fileOutputs, workspace>>

\* After the constructor: validate_job_interfaces, then get_jobs_to_create
\* walking the graph's topological order.
Phases == {"names", "deps", "cycle", "dup_inputs", "recipe_inputs", "done",
           "unknown_job_type", "topo", "graph_error", "created",
           "connection_ok", "data_ok", "no_workspace"}

-----------------------------------------------------------------------------
HasDuplicate(s) == \E i, j \in 1..Len(s) : i < j /\ s[i] = s[j]

JobNames(d) == {d.jobs[i].name : i \in DOMAIN d.jobs}

\* _jobs_by_name[n]: names are distinct once the name checks have passed.
JobByName(d, n) == d.jobs[CHOOSE i \in DOMAIN d.jobs : d.jobs[i].name = n]

DependencyNames(d, n) ==
    {JobByName(d, n).dependencies[k].name : k \in DOMAIN JobByName(d, n).dependencies}

\* Every job input a job receives, from recipe inputs then from the
\* connections of its dependencies, in the order the code adds them.
JobInputs(j) ==
    [k \in DOMAIN j.recipe_inputs |-> j.recipe_inputs[k].job_input]
    \o FoldLeft(LAMBDA acc, dep : acc \o dep.connections, <<>>, j.dependencies)

\* Reference: the jobs reachable from the set of jobs S by one or more
\* dependency edges, computed as a least fixed point with a visited set.
RECURSIVE Reach(_, _, _)
Reach(d, frontier, seen) ==
    LET step == UNION {DependencyNames(d, n) \cap JobNames(d) : n \in frontier}
    IN  IF step \subseteq seen THEN seen ELSE Reach(d, step \ seen, seen \cup step)

DependsTransitively(d, n) ==
    Reach(d, {n}, {})

IsAcyclic(d) == \A n \in JobNames(d) : n \notin DependsTransitively(d, n)

-----------------------------------------------------------------------------
\* The state the methods called after construction work on.
callerVars == <<jobType, registered, order, toCreate, fileOutputs, workspace>>

Init ==
    /\ def \in Definitions
    /\ phase = "names"
    /\ jobIdx = 0
    /\ toCheck = {}
    /\ result = "NONE"
    /\ jobType \in [JobNames(def) -> JobTypeKey]
    /\ registered \in SUBSET JobTypeKey
    /\ order = <<>>
    /\ toCreate = <<>>
    /\ fileOutputs \in SUBSET JobTypeKey
    /\ workspace = FALSE

Reject(reason) ==
    /\ phase' = "done"
    /\ result' = reason

\* __init__: the input names of files then json, then the job names, are
\* put in dicts; a name already present raises.
CheckNames ==
    /\ phase = "names"
    /\ CASE HasDuplicate(def.files \o def.json) -> Reject("DUPLICATE_INPUT_NAME")
         [] HasDuplicate([i \in DOMAIN def.jobs |-> def.jobs[i].name]) ->
                Reject("DUPLICATE_JOB_NAME")
         [] OTHER -> phase' = "deps" /\ result' = result
    /\ UNCHANGED <<def, jobIdx, toCheck>>
    /\ UNCHANGED callerVars

\* Variant: the check that every dependency names a job is left out.
CheckDependenciesDefinedUnchecked ==
    /\ phase = "deps"
    /\ phase' = "cycle"
    /\ jobIdx' = 1
    /\ toCheck' = IF def.jobs = <<>> THEN {} ELSE {def.jobs[1].name}
    /\ UNCHANGED <<def, result>>
    /\ UNCHANGED callerVars

\* _validate_job_dependencies, first loop: every dependency names a job.
\* The cycle loop then starts with the first job.
CheckDependenciesDefined ==
    /\ phase = "deps"
    /\ IF \E i \in DOMAIN def.jobs : \E k \in DOMAIN def.jobs[i].dependencies :
              def.jobs[i].dependencies[k].name \notin JobNames(def)
       THEN Reject("UNDEFINED_DEPENDENCY") /\ UNCHANGED <<jobIdx, toCheck>>
       ELSE /\ phase' = "cycle"
            /\ jobIdx' = 1
            /\ toCheck' = IF def.jobs = <<>> THEN {} ELSE {def.jobs[1].name}
            /\ result' = result
    /\ UNCHANGED def
    /\ UNCHANGED callerVars

\* Variant: only the direct dependencies of each job are searched.
CycleLayerDirectOnly ==
    /\ phase = "cycle"
    /\ toCheck # {}
    /\ LET start == def.jobs[jobIdx].name
           next  == UNION {DependencyNames(def, n) : n \in toCheck}
       IN  IF start \in next
           THEN Reject("CIRCULAR_DEPENDENCY") /\ UNCHANGED toCheck
           ELSE toCheck' = {} /\ UNCHANGED <<phase, result>>
    /\ UNCHANGED <<def, jobIdx>>
    /\ UNCHANGED callerVars

\* One pass of the while loop: the next layer is every dependency of the
\* current layer; meeting the job the search started from raises.
CycleLayer ==
    /\ phase = "cycle"
    /\ toCheck # {}
    /\ LET start == def.jobs[jobIdx].name
           next  == UNION {DependencyNames(def, n) : n \in toCheck}
       IN  IF start \in next
           THEN Reject("CIRCULAR_DEPENDENCY") /\ UNCHANGED toCheck
           ELSE toCheck' = next /\ UNCHANGED <<phase, result>>
    /\ UNCHANGED <<def, jobIdx>>
    /\ UNCHANGED callerVars

\* The while loop ended with an empty layer: the for loop moves to the
\* next job, or the constructor moves on to the next check.
CycleNextJob ==
    /\ phase = "cycle"
    /\ toCheck = {}
    /\ IF jobIdx < Len(def.jobs)
       THEN /\ jobIdx' = jobIdx + 1
            /\ toCheck' = {def.jobs[jobIdx + 1].name}
            /\ UNCHANGED phase
       ELSE /\ phase' = "dup_inputs"
            /\ UNCHANGED <<jobIdx, toCheck>>
    /\ UNCHANGED <<def, result>>
    /\ UNCHANGED callerVars

\* _validate_no_dup_job_inputs: no job receives the same input name twice.
CheckDuplicateJobInputs ==
    /\ phase = "dup_inputs"
    /\ IF \E i \in DOMAIN def.jobs : HasDuplicate(JobInputs(def.jobs[i]))
       THEN Reject("DUPLICATE_JOB_INPUT")
       ELSE phase' = "recipe_inputs" /\ result' = result
    /\ UNCHANGED <<def, jobIdx, toCheck>>
    /\ UNCHANGED callerVars

\* _validate_recipe_inputs: each recipe_input is a declared file or json
\* input.  This is the last check; the constructor returns after it.
CheckRecipeInputs ==
    /\ phase = "recipe_inputs"
    /\ IF \E i \in DOMAIN def.jobs : \E k \in DOMAIN def.jobs[i].recipe_inputs :
              def.jobs[i].recipe_inputs[k].recipe_input
                  \notin Range(def.files) \cup Range(def.json)
       THEN Reject("UNDEFINED_RECIPE_INPUT")
       ELSE Reject("ACCEPTED")
    /\ UNCHANGED <<def, jobIdx, toCheck>>
    /\ UNCHANGED callerVars

-----------------------------------------------------------------------------
(* get_job_types with get_job_type_keys: one query for the rows matching   *)
(* the (name, version) key of any job; no job, no query.                   *)
get_job_types == {k \in registered : k \in {jobType[n] : n \in JobNames(def)}}

(* get_job_type_map: the rows keyed by (name, version), then each job name *)
(* mapped to the row of its own key when there is one.                     *)
get_job_type_map ==
    LET byKey == get_job_types
    IN  [n \in {m \in JobNames(def) : jobType[m] \in byKey} |-> jobType[n]]

\* Variant: add_dependency called with the job and its dependency swapped.
GraphParentsSwapped(d) == [n \in JobNames(d) |-> {m \in JobNames(d) : n \in DependencyNames(d, m)}]

\* get_graph: a node per job, and add_dependency(dependency, job) for each
\* dependency entry, so a job's parents are the jobs it names.
GraphParents(d) == [n \in JobNames(d) |-> DependencyNames(d, n)]

(* validate_job_interfaces, as called on an accepted definition: a job     *)
(* missing from get_job_type_map raises "Unknown job type" (the schema     *)
(* requires job_type with name and version).  The per-job connection       *)
(* checks against the job interfaces use job-type code outside this tree.  *)
ValidateJobInterfaces ==
    /\ phase = "done"
    /\ result = "ACCEPTED"
    /\ phase' = IF JobNames(def) \subseteq DOMAIN get_job_type_map
                THEN "topo" ELSE "unknown_job_type"
    /\ UNCHANGED <<def, jobIdx, toCheck, result, jobType, registered, order, toCreate,
                   fileOutputs, workspace>>

(* RecipeGraph.get_topological_order (recipe/handlers/graph.py, not in the *)
(* tree): a node all of whose parents are already emitted is emitted next; *)
(* with nodes left and none ready, the graph raises.                       *)
TopologicalStep ==
    /\ phase = "topo"
    /\ Len(order) < Cardinality(JobNames(def))
    /\ LET parents == GraphParents(def)
           ready   == {n \in JobNames(def) \ Range(order) : parents[n] \subseteq Range(order)}
       IN  IF ready = {}
           THEN phase' = "graph_error" /\ UNCHANGED order
           ELSE \E n \in ready : order' = Append(order, n) /\ UNCHANGED phase
    /\ UNCHANGED <<def, jobIdx, toCheck, result, jobType, registered, toCreate,
                   fileOutputs, workspace>>

\* get_jobs_to_create: (job name, job_type_map[job name]) in topological order.
GetJobsToCreate ==
    /\ phase = "topo"
    /\ Len(order) = Cardinality(JobNames(def))
    /\ toCreate' = [i \in DOMAIN order |-> <<order[i], get_job_type_map[order[i]]>>]
    /\ phase' = "created"
    /\ UNCHANGED <<def, jobIdx, toCheck, result, jobType, registered, order,
                   fileOutputs, workspace>>

\* The loop of validate_connection and validate_data: some job type of
\* get_job_types() has file output names.
FileOutputs == \E k \in get_job_types : k \in fileOutputs

(* validate_connection, on the recipe connection of a recipe being made:   *)
(* the connection's input files and properties are checked against the    *)
(* validation dicts (recipe connection code outside the tree, not         *)
(* modelled); a recipe with file outputs and a connection without a       *)
(* workspace raises InvalidRecipeConnection.                               *)
ValidateConnection(ws) ==
    /\ phase = "created"
    /\ workspace' = ws
    /\ phase' = IF FileOutputs /\ ~ws THEN "no_workspace" ELSE "connection_ok"
    /\ UNCHANGED <<def, jobIdx, toCheck, result, jobType, registered, order, toCreate,
                   fileOutputs>>

(* validate_data: with file outputs, recipe_data.validate_workspace() is   *)
(* added, which per the spec rejects data without a workspace.             *)
ValidateData(ws) ==
    /\ phase = "created"
    /\ workspace' = ws
    /\ phase' = IF FileOutputs /\ ~ws THEN "no_workspace" ELSE "data_ok"
    /\ UNCHANGED <<def, jobIdx, toCheck, result, jobType, registered, order, toCreate,
                   fileOutputs>>

Next ==
    \/ CheckNames
    \/ CheckDependenciesDefined
    \/ CycleLayer
    \/ CycleNextJob
    \/ CheckDuplicateJobInputs
    \/ CheckRecipeInputs
    \/ ValidateJobInterfaces
    \/ TopologicalStep
    \/ GetJobsToCreate
    \/ \E ws \in BOOLEAN : ValidateConnection(ws) \/ ValidateData(ws)

\* The constructor is sequential code run by one caller.
Spec == Init /\ [][Next]_vars /\ WF_vars(Next)

-----------------------------------------------------------------------------
TypeOK ==
    /\ def \in DefinitionDict
    /\ phase \in Phases
    /\ jobIdx \in 0..Len(def.jobs)
    /\ toCheck \subseteq JobNames(def)
    /\ result \in Outcomes \cup {"NONE"}
    /\ jobType \in [JobNames(def) -> JobTypeKey]
    /\ registered \subseteq JobTypeKey
    /\ order \in Seq(JobNames(def))
    /\ toCreate \in Seq(JobNames(def) \X JobTypeKey)
    /\ fileOutputs \subseteq JobTypeKey
    /\ workspace \in BOOLEAN

\* The cycle verdict of _validate_job_dependencies is right: a definition
\* that passes the cycle search has an acyclic dependency graph, and a
\* "circular dependency" error names a job that really lies on a cycle.
CycleVerdictCorrect ==
    /\ result \in {"DUPLICATE_JOB_INPUT", "UNDEFINED_RECIPE_INPUT", "ACCEPTED"}
           => IsAcyclic(def)
    /\ result = "CIRCULAR_DEPENDENCY"
           => def.jobs[jobIdx].name \in DependsTransitively(def, def.jobs[jobIdx].name)

\* get_jobs_to_create on an accepted definition whose job types all exist
\* never meets a cycle in the graph, and returns every job exactly once,
\* each after the jobs it depends on, with the JobType row of its own
\* (name, version): the order in which recipe creation makes the jobs.
JobsToCreateOrdered ==
    /\ phase # "graph_error"
    /\ phase = "created" =>
          LET name(i) == toCreate[i][1]
          IN  /\ Len(toCreate) = Cardinality(JobNames(def))
              /\ {name(i) : i \in DOMAIN toCreate} = JobNames(def)
              /\ \A i, j \in DOMAIN toCreate :
                    name(j) \in DependencyNames(def, name(i)) => j < i
              /\ \A i \in DOMAIN toCreate : toCreate[i][2] = jobType[name(i)]

\* The constructor of a recipe definition always returns or raises: every
\* definition handed to it is eventually accepted or rejected.
ValidationTerminates == <>(phase = "done")
=============================================================================
