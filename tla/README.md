# TLA+ models of Scale's recipe engine, command-message bus, node administration and host storage

This directory holds TLA+ specifications of the parts of Scale
(`src/scale`) where correctness depends on ordering, concurrency,
redelivery or a graph algorithm. Each specification comes with the TLC
configurations that check it. `PROJECT.json` lists the components, the
runs, the mutants, the mapping from each TLA+ definition to the source
lines it models, the findings and the hazards.

## 1. The system and its parts

Scale turns recipe definitions (DAGs of jobs joined by data dependencies)
into recipe and job models. Command messages on a durable queue drive
every state change. A scheduler process and web servers share the
database tables of nodes and of the cluster-wide scheduler row.

| Part | Source | State | Operations | Interacts with |
|---|---|---|---|---|
| Recipe definition | `recipe/seed/recipe_definition.py`, `recipe/configuration/definition/recipe_definition.py` | The definition dict, name indexes, the cycle search's layer; after construction, the JobType rows | Constructor checks, `validate_job_interfaces`, `get_job_types`, `get_job_type_map`, `get_graph`, `get_jobs_to_create`, `validate_connection`, `validate_data` | Recipe types; recipe diff; recipe creation |
| Recipe diff | `recipe/diff/node.py` (driver `recipe/diff/diff.py` is not in the tree) | Per node: status, changes, `force_reprocess`, `reprocess_new_node`, `force_reprocess_nodes` | Creation, `add_dependency`, `compare_to_previous`, `set_force_reprocess`, the copy/supersede/unpublish predicates | `create_recipes` copies and supersedes nodes from it |
| `create_recipes` message | `recipe/messages/create_recipes.py` | Message fields and their JSON form; recipe and recipe-node rows; the row locks | `create_subrecipes_messages`, `to_json`/`from_json`, `execute` (lock, find existing, create, copy nodes, `_create_messages`) | Queue; diff; follow-on messages |
| Message backend and handler | `messaging/backends/sqs.py`, `messaging/management/commands/scale_message_handler.py` | Queue messages (visible, in flight, deleted); each handler's `running` flag | `send_messages`, `receive_messages` (yield, then delete on success), the polling loop, the SIGTERM/SIGINT handler | Every command message |
| Delete-files chain | `job/messages/spawn_delete_files_job.py`, `storage/management/commands/scale_delete_files.py` | Message fields (`job_id`, `purge`) | `to_json`/`from_json`, `execute` (queues a system job), the CLI command | Queue; storage |
| Node administration | `node/models.py`, `node/views.py` | Node rows; the row locks taken by `update_node` | `create_nodes`, PATCH v4/v5/v6, `update_node` | Scheduler; users |
| Scheduler row | `scheduler/models.py` | The `Scheduler` table | `initialize_scheduler`, `update_scheduler`, `update_master` | Every process at start-up; REST API |
| Host storage | `storage/brokers/host_broker.py`, `storage/management/commands/scale_delete_file.py`, `scale_download_file.py` | Files under the host mount; ScaleFile rows (`file_path`, `is_deleted`); each call's in-memory ScaleFile | `upload_files`, `move_files`, `delete_files`, `download_files`, the two commands | Task containers and commands acting on the same files |
| REST views, other storage brokers, JSON configurations, Mesos task helpers | the rest of `src/scale` | Database rows, configuration dicts, files | Single HTTP requests, conversions, file I/O | Database, filesystem |

The hard behaviours in this code are these:

- **At-least-once delivery.** SQS hides a received message only until its
  visibility timeout. A slow or dead worker's message is executed again,
  possibly in parallel with the first worker. Every `execute()` has to
  re-derive its work from the database.
- **Transactions and row locks.** `create_recipes` serialises executions on
  the containing recipe with `select_for_update`, and `update_node` locks
  the node it updates. Follow-on messages are built after the commit, and
  the message is deleted after they are sent. A crash between any two of
  these steps is possible. `initialize_scheduler` takes no lock at all.
- **Graph algorithms.** The cycle check is a layer-by-layer search. Job
  creation follows a topological order of the graph. The diff's
  classification depends on the order nodes are compared in. Force
  reprocessing recurses into descendants.
- **Two stores, no transaction.** The host broker changes the mount and
  then saves a ScaleFile object loaded before the call; `save()` writes
  every column. A kill between the two steps, or a concurrent call on the
  same file, can leave the row and the file system apart.
- **Conversions across the wire.** Messages go through `to_json`/`from_json`,
  and system jobs receive their inputs as strings.

## 2. Modules

| Module | Models | Source it follows |
|---|---|---|
| `RecipeDefinition` | The constructor checks, one action per check and one per layer of the cycle search; then, on an accepted definition, `validate_job_interfaces`, the graph's topological order, `get_jobs_to_create`, `validate_connection` and `validate_data` | seed `recipe_definition.py` 35-82, 119-313, 349-374, 418-487 |
| `RecipeDiff` | Building a `RecipeDiff`: a node's diff is created after its parents' diffs and compared with the old node; DELETED diffs and forcing (with the sub-recipe nodes of recipe nodes) follow | `node.py`; the driver follows the spec |
| `SubRecipeCreation` | The abstract promise of sub-recipe creation: one sub-recipe per requested node, created in batches, and handed to `process_recipe_input` only after it exists and was asked for | the spec, §4.4 |
| `CreateRecipesJson` | The fields of a `CreateRecipes` message, and `to_json`/`from_json` (optional keys present only when set) | `create_recipes.py` 98-219 |
| `CreateSubRecipes` | Workers executing sub-recipe `create_recipes` messages from SQS, with visibility timeouts, crashes, SIGTERM stops and the row lock. It implements `SubRecipeCreation` through the refinement mapping `rows -> made` | `create_recipes.py` 30-90, 139-159, 221-513; `sqs.py` 28-45; `scale_message_handler.py` 24-54 |
| `ReprocessRecipes` | Workers executing one reprocess `create_recipes` message: locking the roots' recipes, finding existing recipes, `_create_recipes_for_reprocess`, `_copy_recipe_nodes`, `_create_messages` | `create_recipes.py` 129-137, 221-386, 448-511 |
| `DeleteFilesPurge` | The purge flag's path: spawn message, wire dict, execute, system job input, and CLI argument | `spawn_delete_files_job.py`; `scale_delete_files.py` 30-67 |
| `NodeAdmin` | `create_nodes`, the PATCH views, and `update_node` under its row lock. No code in the tree sets `is_paused_errors`, so no scheduler pause is modelled | `node/models.py` 58-74, 149-174, 264-312; `node/views.py` 77, 123-245 |
| `SchedulerRow` | `initialize_scheduler` as two steps (count, then save), `update_scheduler`, `update_master`. `SchedulerRow.cfg` reproduces the duplicate row but is not among the runs (see Findings) | `scheduler/models.py` 30-72, 127-161 |
| `HostStorage` | Processes running `upload_files`, `move_files`, the `scale_delete_file` and `scale_download_file` commands on the same files, each step of a call an action, with kills between steps | `host_broker.py` 50-147; `scale_delete_file.py` 23-45; `scale_download_file.py` 26-55 |
| `HostFileStore` | The promise of the host broker's calls: each upload (copy, then record), move and delete takes effect on the mount and the ScaleFile table at one instant. `HostStorage` implements it through the refinement mapping that applies a pending `save()` at the file step (`StoreRow`) | `host_broker.py`, as a whole |
| `MC_*` | Model values, constant definitions and the candidate inputs for TLC | — |

State and actions correspond to the code as follows.

- **`RecipeDefinition`**
  - `def` is the (already schema-valid, defaults-populated) definition dict.
  - `phase` is the check or the method being executed.
  - `jobIdx` and `toCheck` are the outer loop variable and
    `dependencies_to_check` of `_validate_job_dependencies`.
  - `result` is `ACCEPTED` or the reason `InvalidDefinition` was raised.
  - `CycleLayer` is one iteration of the `while dependencies_to_check` loop;
    `CycleNextJob` is the outer `for` loop moving to the next job.
  - `jobType` is the `job_type` key of each job, `registered` the JobType
    rows, `fileOutputs` the job types whose interface has file outputs.
  - `ValidateJobInterfaces` raises for a job whose type is not a row.
    `TopologicalStep` emits one ready node of `get_graph()` (the graph class
    is not in the tree; any ready node may come next). `GetJobsToCreate`
    pairs each emitted name with its row from `get_job_type_map`.
  - `ValidateConnection(ws)` and `ValidateData(ws)` apply the workspace rule.
- **`RecipeDiff`**
  - `status`, `changes`, `force`, `reprocess` and `forceSub` are the
    `NodeDiff` fields.
  - `AddNodeDiff(n)` is `create_diff_for_node` plus `add_dependency` for each
    parent, plus `compare_to_previous` when the old revision has `n`.
  - `SetForceReprocess` is `set_force_reprocess` with its recursion into
    children, computed as `ForceClosure`; recipe nodes named in the forced
    dict take their entry as `force_reprocess_nodes`.
- **`CreateSubRecipes` and `ReprocessRecipes`**
  - `queue[m]` is the SQS state of message `m`.
  - `pc[w]` is the step worker `w` is at:
    - `received`: the message has been yielded;
    - `locked`: inside `transaction.atomic` after the select for update;
    - `create`: no existing recipes were found;
    - `committed`: the transaction has ended;
    - `sent`: `new_messages` have been sent.
  - `rows[n]` counts the sub-recipes committed for node `n`, so a duplicate
    is visible; `made` and `superseded` are the reprocess rows.
  - `recipes[w]` is the list `execute` passes to `_create_messages`.
  - `sent` holds the follow-on messages.
  - `running[w]` is the handler's flag; `Interrupt(w)` is the signal.
  - A message body is what `from_json(to_json(m))` returns, computed once
    per message (`WireBodies`, `Msg`).
- **`NodeAdmin`**
  - `node[h]` holds the columns the properties read; `exists[h]` says the
    row was created.
  - `Patch(r, h, b)` is the view's checks (400 for an unknown or empty body,
    404 for an unknown node). `SelectForUpdate(r)` takes the row lock and
    reads the row; `UpdateNode(r)` writes the keys of `new_data` computed
    from that read (`WrittenFields`, `NewData`).
- **`HostStorage`**
  - `disk` is the set of relative paths under the host mount; `row[f]` is
    the ScaleFile row (`file_path`, `is_deleted`) or `NoRow`.
  - `obj[p]` is the ScaleFile object process `p`'s call was handed, loaded
    when the call starts; `target[p]` is a move's `new_path`; `linked[p]`
    is what a download's `local_path` links to.
  - Each call is a start action (the command's own checks and early
    exits) and one action per broker step: the existence check, the file
    operation (which raises if the path vanished since the check), and the
    `save()` of the whole object.
  - `Crash(p)` kills a process at one of `CrashPoints`, at most
    `MaxCrashes` times; nothing of a killed call is resumed. The two
    commands install no signal handler, so the kill (OOM, node loss, a
    task killed by the scheduler) comes from outside the code.
  - `StoreRow` maps the state to `HostFileStore`: a process between its
    rename or remove and its `save()` counts as having written the row it
    will save (`PendingRow`). A call that skips, raises or is killed before
    its file step maps to no step at all.
- **`SchedulerRow`**
  - `rows` is the table; `CountSchedulers(p)` and `SaveScheduler(p)` are the
    two statements of `initialize_scheduler`.

Abstractions:

- Recipe types, revisions, job types, hosts and connection payloads are
  model values or small records. Database ids play no part in any property.
- Error messages, logging and response bodies are left out.
- In `RecipeDefinition`, the JSON schema validation and the version check
  are the constructor's entry conditions. `Definitions` holds only dicts
  that pass them. The legacy class runs the same checks and methods over
  the v1.0 dict, so one module stands for both.
- In `HostStorage`, a path is a model value: each file has its upload
  path and the set `MovePaths[f]` of new paths its moves may use, disjoint
  from other files' paths.
  Permissions, `makedirs` and the copy's contents are left out.

## 3. Runs

| Run (cfg) | Expect | What it shows |
|---|---|---|
| `RecipeDefinition.cfg` | pass | Covers all 4096 dependency graphs over three jobs (plus an undefined name) and two-job definitions varying the input declarations, with every assignment of two job-type versions, registered rows and file outputs. A circular-dependency error names a job on a cycle; accepted definitions are acyclic; `get_jobs_to_create` lists every job once, after its dependencies, with its own JobType row |
| `RecipeDefinition_termination.cfg` | violation | `ValidationTerminates` fails. For `b -> c`, `c -> c`, the search started from `b` repeats the layer `{c}` forever. |
| `RecipeDiff.cfg` | pass | Covers every topological order of building the diff for variants of an `a -> b -> c` chain: changed versions and connections, node-type changes, added, removed and rewired nodes, and forced dicts naming `a`, `b` or `c` (with a sub-recipe node). The statuses equal a recursive reference classification, and no copied node has a re-run parent. |
| `CreateSubRecipes.cfg` | pass | Two workers and two update_recipe requests (`[a, b]` and `[a]`) with `MAX_NUM = 1` give three messages. It allows any number of visibility timeouts, one crash and a SIGTERM of one handler. No node ever gets two sub-recipes; the system refines `SubRecipeCreation`; every message is eventually deleted. |
| `CreateSubRecipes_overlap.cfg` | violation | The requests `[a]` and `[a, b]` with `MAX_NUM = 2` leave a message that raises `KeyError` on every delivery, so it is never deleted. |
| `ReprocessRecipes.cfg` | violation | A reprocess message for two roots raises `KeyError` on every delivery and is never deleted. |
| `DeleteFilesPurge_roundtrip.cfg` | violation | A request with `purge = False` yields delete_files messages with `purge = True`. |
| `NodeAdmin.cfg` | pass | Two concurrent PATCH requests that set `is_active` (with or without a reason, plus rejected bodies): `deprecated` stays in step with `is_active`. |
| `NodeAdmin_pause_deprecates.cfg` | violation | A PATCH that only pauses an active node stamps `deprecated` on it. |
| `HostStorage.cfg` | pass | Two processes upload, move, delete and download two files (one already stored) in every interleaving, with one kill anywhere except between a file step and its save. Every live record's file is at its `file_path` and every deleted record's file is gone: the existence checks and the raising rename and remove keep a stale object from overwriting a newer row. Every call is also one atomic `HostFileStore` step or none (`ImplementsHostFileStore`). |
| `HostStorage_moveback.cfg` | violation | With no crash, two concurrent moves of one file, one moving it back to its upload path, leave the record at `o1` and the file at `n1`. |
| `HostStorage_crash.cfg` | violation | A kill between `shutil.move` and `save()` leaves a live record whose file is not at its `file_path`. |

Each property of a passing run has a mutant in `PROJECT.json`: a variant
of one modelled definition that a plausible bug would produce. TLC finds
the property violated when the variant replaces it:

- the undefined-dependency check dropped;
- the cycle search limited to direct dependencies;
- `add_dependency` called with its arguments swapped in `get_graph`;
- PARENT_CHANGED not reported;
- forcing that does not recurse;
- DELETED diffs not added;
- the row lock left out (in `create_recipes` and in `update_node`);
- the SQS delete skipped;
- the `process_input` test dropped;
- an id read before the insert;
- resuming a node that keeps the request's pause reason;
- a move whose call does not take the new path over, or whose save keeps the old `file_path`;
- a move that copies the file instead of renaming it.

### Bounds and why they are enough

- **`RecipeDefinition`.** Three jobs are the fewest for a cycle that does not
  pass through the start job (`a -> b -> c -> b`), for a diamond, and for a
  chain of two layers. The fourth name `x` exercises the undefined-dependency
  check. Two input names and two slot names are the fewest that make
  duplicates and undefined inputs possible. One job-type name with two
  versions is the fewest that can tell a (name, version) key from a name.
- **`RecipeDiff`.** Three nodes give a grandchild. A grandchild is what
  separates recursive from one-level propagation, both for PARENT_CHANGED
  and for forcing. One sub-recipe node name tells a named recipe node from
  one reached through a parent.
- **`CreateSubRecipes`.** Two workers are enough for a redelivered message to
  run concurrently with its first execution. Two nodes are enough for a
  message that partly overlaps another. One crash is enough to place a crash
  between any two steps. `MaxSubRecipes = 2` only caps the counter if a
  duplicate is ever created, so a duplicate is still reported.
- **`NodeAdmin`.** One node and two requesters are the fewest for two
  PATCHes of the same row to interleave; one reason tells a set
  `pause_reason` from NULL.
- **`HostStorage`.** Two processes are the fewest for two calls on one
  file to interleave; the second file shows calls on different files do
  not interfere. One kill covers a kill at each step. In the passing run
  each file has one move destination. A file that may move back to its
  upload path breaks `RecordsMatchFiles` (`HostStorage_moveback.cfg`),
  so the passing run states what holds when moves only go forward.

### Fairness

Each handler runs `while self.running: manager.receive_messages()`, so
every step of a running worker is weakly fair. The row lock is taken under
strong fairness, because a waiting `select for update` is eventually
granted once the holder commits, even when other workers keep taking the
lock in between. SQS always expires a visibility timeout (weak fairness).
Crashes and signals have no fairness; crashes are bounded, and a signal
never stops the last running handler (the deployment keeps one). The
constructor and the diff are sequential code. `NodeAdmin` and
`HostStorage` check only safety.

## 4. Findings

- **Cycle check can hang.** In `recipe_definition.py:439` (and the legacy
  class at `:556`), `_validate_job_dependencies` never returns for a
  definition where a job depends on a cycle that does not contain it.
- **Overlapping sub-recipe messages never succeed.** In
  `create_recipes.py:485`, a sub-recipe message whose nodes only partly
  exist raises `KeyError` on every delivery.
- **Reprocessing always fails.** In `create_recipes.py:359`, the diffs are
  keyed by revision id but looked up with a Recipe, so every reprocess
  message raises `KeyError` and is redelivered forever.
- **`purge=False` purges anyway.** `spawn_delete_files_job.py:67` reads the
  flag with `bool("False")`, and `scale_delete_files.py:36` parses it with
  argparse `type=bool`. Either conversion turns `purge=False` into `True`.
- **Pausing a node deprecates it.** `node/models.py:161` compares
  `is_active` with `new_data.get('is_active')`, which is `None` for a
  pause-only PATCH, so an active node gets a `deprecated` time.
- **Moving a file back loses it.** `move_files` guards its rename only
  with `os.path.exists` on the path of the ScaleFile its caller loaded
  (`host_broker.py:113`). A call that loaded the record at `o1`, and was
  overtaken by a move to `n1` and a move back to `o1`, finds `o1` again
  and renames it to `n1`. The move back then saves `file_path = o1`. The
  record names `o1`, and the only file is at `n1`. No crash is needed.
- **A kill between file step and save.** In `host_broker.py:121` (and
  `:35` for a delete), the mount is changed before the ScaleFile is saved.
  A killed move leaves a live record pointing at a path that is gone, and
  a retried move raises `MissingFile`. A retried `scale_delete_file` skips
  the missing file and reports success while the record stays live.

A hazard the refinement does not settle: `scale_delete_file` that loads
its ScaleFile just before a concurrent move renames the file checks the
old path, skips the delete, and still logs "Command completed" and exits 0.
`ImplementsHostFileStore` shows the stores stay consistent (the skipped
delete is no step at all). The false success report is the command's exit
status, which no run checks.

Three divergences were noted while modelling but are not run:

- `scheduler/models.py:34` counts and then inserts without a lock, so two
  starting processes both insert a Scheduler row, while the model's
  docstring says there should be one. `SchedulerRow.cfg` shows it. It is
  not among the runs: every reader in the tree reads the row with pk 1 and
  every writer updates all rows, so the second row is never observed.

- At `node.py:103`, a PARENT_CHANGED change alone makes a node CHANGED.
  The spec's scenario C says it stays unchanged, but the spec's own wording
  there hedges.
- In `create_recipes.py:301`, `update_recipe_ids` is computed but never
  sent, as the TODO at line 304 acknowledges. `CreateSubRecipes` records
  the advanced nodes (`AdvancedNodes`) for the refinement.

## 5. Not modelled, and the plan for what is left

Not modelled, because there is nothing for TLC to find:

- The read-only REST views and queries (`get_nodes`, `get_details`,
  `get_status`, port and queue views), JSON configuration classes and
  Mesos task helpers. Each is a single request or a single conversion.
- The migration and app registration files.

Not modelled, because the code is not in the tree, or because a property
would need a run of its own:

- **Download check-then-link** (`host_broker.py:50`): a delete between a
  download's existence check and its `ln -s` leaves a dangling link.
  `HostStorage` has both steps, so TLC would find this race at once. There
  is no run for it, because every run slot already checks a finding with
  more effect.
- **The delete_files job** (`storage/delete_files_job.py`, the
  `delete_files` messages) and **`create_jobs`** are not in the tree.
  The redelivery of `spawn_delete_files_job` and the SIGTERM window of
  `scale_delete_files` are listed as hazards without a property.
- **`RecipeInstance`** (`recipe/instance/recipe.py`) delegates every
  decision to node instances (`recipe/instance/node.py`) that are not in
  the tree. The spec says too little about them to model them faithfully.
- **Job queue messages** (`QueuedJobs`, `CancelJobs`, `UpdateRecipes`):
  only their tests are in the tree.
- **The legacy recipe definition** repeats the seed class line for line
  over the v1.0 dict, so `RecipeDefinition` stands for both.
