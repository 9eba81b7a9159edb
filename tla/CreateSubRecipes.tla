-------------------------- MODULE CreateSubRecipes --------------------------
(***************************************************************************)
(* The sub-recipe flavour of the create_recipes command message            *)
(* (recipe/messages/create_recipes.py) executed by message-handler workers *)
(* that pull it from an SQS queue (messaging/backends/sqs.py).             *)
(*                                                                         *)
(* create_subrecipes_messages splits the sub-recipes one update_recipe    *)
(* execution asks for into messages of at most MAX_NUM entries.  A worker *)
(* receives a message (it becomes invisible, not deleted), executes it:   *)
(* inside one transaction it locks the containing recipe, looks for the   *)
(* sub-recipes this message already created and, when there are none,     *)
(* creates them; after the commit it builds the follow-on messages, which *)
(* the manager sends before reporting success, and success deletes the    *)
(* message.  A message whose execution failed, or whose worker died, or    *)
(* that was simply slow, becomes visible again when its visibility         *)
(* timeout expires and is executed again, possibly while the first worker *)
(* is still running.  Only one containing recipe is modelled: every       *)
(* message carries the same recipe_id and event_id.                        *)
(***************************************************************************)
EXTENDS Naturals, Sequences, FiniteSets, CreateRecipesJson

CONSTANTS
    Worker,        \* scale_message_handler processes
    NodeName,      \* node names of the containing recipe
    Requests,      \* the sub_recipes lists given to create_subrecipes_messages
    MAX_NUM,       \* create_recipes.MAX_NUM
    MaxCrashes,    \* bound on worker crashes
    MaxSubRecipes, \* bound on the sub-recipes recorded per node
    NoWorker,      \* the lock is free
    Recipe1,       \* id of the containing recipe (recipe_id)
    Event,         \* event_id of the update_recipe execution
    RecipeType     \* recipe type name of the sub-recipes

\* SubRecipe(recipe_type_name, recipe_type_rev_num, node_name, process_input).
SubRecipe == [recipe_type_name: {RecipeType}, recipe_type_rev_num: {1},
              node_name: NodeName, process_input: BOOLEAN]

ASSUME Requests \in Seq(Seq(SubRecipe)) /\ MAX_NUM \in Nat \ {0}

Min2(x, y) == IF x < y THEN x ELSE y

(* create_subrecipes_messages: a new message is started whenever the       *)
(* current one cannot fit more (len(sub_recipes) >= MAX_NUM), so the list  *)
(* is cut into consecutive chunks of MAX_NUM entries; an empty list gives  *)
(* no message.  Every message carries the containing recipe's recipe_id   *)
(* and the event_id; the containing recipe here is a root that supersedes *)
(* nothing, with no forced nodes and no batch.                             *)
create_subrecipes_messages(subs) ==
    [i \in 1..((Len(subs) + MAX_NUM - 1) \div MAX_NUM) |->
        [NewCreateRecipes EXCEPT
            !.create_recipes_type = SUB_RECIPE_TYPE,
            !.recipe_id = Recipe1,
            !.event_id = Event,
            !.sub_recipes = SubSeq(subs, (i - 1) * MAX_NUM + 1, Min2(i * MAX_NUM, Len(subs)))]]

\* A message is named by the request that produced it and its chunk index.
MsgId == UNION {{<<r, c>> : c \in DOMAIN create_subrecipes_messages(Requests[r])}
                : r \in DOMAIN Requests}
\* The message a worker executes: from_json of the body to_json produced.
WireBodies == [m \in MsgId |-> OverTheWire(create_subrecipes_messages(Requests[m[1]])[m[2]])]
Body(m) == WireBodies[m]
SubRecipesOf(m) == Body(m).sub_recipes
NodesOf(m) == {SubRecipesOf(m)[k].node_name : k \in DOMAIN SubRecipesOf(m)}
NoMsg == <<0, 0>>

\* A sub-recipe model is named by its node and by how many sub-recipes the
\* node had when it was created (its generation).
Recipe == [node: NodeName, gen: 1..MaxSubRecipes]
FollowOn == [type: {"process_recipe_input"}, recipe: Recipe]
            \cup [type: {"update_recipe_metrics"}]

VARIABLES
    queue,     \* queue[m]: "visible", "inflight" or "deleted" in SQS
    pc,        \* pc[w]: where worker w is in the handling of its message
    msg,       \* msg[w]: the message worker w is handling
    lock,      \* holder of the row lock on the containing recipe
    recipes,   \* recipes[w]: the recipe models execute() passes to _create_messages
    rows,      \* rows[n]: sub-recipes committed for node n (RecipeNode rows)
    sent,      \* follow-on messages sent to the queue
    crashes,   \* number of worker crashes so far
    running    \* running[w]: the handler's running flag

vars == <<queue, pc, msg, lock, recipes, rows, sent, crashes, running>>

Pcs == {"idle", "received", "locked", "create", "committed", "sent"}

-----------------------------------------------------------------------------
\* scale_message_handler's handle(): the flag is set before the loop and
\* SIGINT and SIGTERM are routed to interupt().
HandlerStarted == [w \in Worker |-> TRUE]

Init ==
    /\ queue = [m \in MsgId |-> "visible"]
    /\ pc = [w \in Worker |-> "idle"]
    /\ msg = [w \in Worker |-> NoMsg]
    /\ lock = NoWorker
    /\ recipes = [w \in Worker |-> {}]
    /\ rows = [n \in NodeName |-> 0]
    /\ sent = {}
    /\ crashes = 0
    /\ running = HandlerStarted

\* SQSMessagingBackend.receive_messages yields a message body; SQS hides
\* the message until its visibility timeout instead of deleting it.
Receive(w, m) ==
    /\ running[w]
    /\ pc[w] = "idle"
    /\ queue[m] = "visible"
    /\ queue' = [queue EXCEPT ![m] = "inflight"]
    /\ pc' = [pc EXCEPT ![w] = "received"]
    /\ msg' = [msg EXCEPT ![w] = m]
    /\ UNCHANGED <<lock, recipes, rows, sent, crashes, running>>

\* Variant: the select for update on the containing recipe is left out.
PerformLockingUnlocked(w) ==
    /\ pc[w] = "received"
    /\ lock' = w
    /\ pc' = [pc EXCEPT ![w] = "locked"]
    /\ UNCHANGED <<queue, msg, recipes, rows, sent, crashes, running>>

\* execute(): transaction.atomic() then _perform_locking, which for the
\* sub-recipe type is get_locked_recipe(recipe_id), a select for update.
PerformLocking(w) ==
    /\ pc[w] = "received"
    /\ lock = NoWorker
    /\ lock' = w
    /\ pc' = [pc EXCEPT ![w] = "locked"]
    /\ UNCHANGED <<queue, msg, recipes, rows, sent, crashes, running>>

\* The transaction ends: the lock is released and the worker goes on.
Commit(w, p, rs) ==
    /\ lock' = NoWorker
    /\ pc' = [pc EXCEPT ![w] = p]
    /\ recipes' = [recipes EXCEPT ![w] = rs]

\* The sub-recipe that RecipeNode(recipe_id, node_name) points at.
Existing(n) == [node |-> n, gen |-> rows[n]]

(* _find_existing_recipes: the RecipeNode rows of the containing recipe    *)
(* for this message's nodes and event.  None: go on to create them.  All: *)
(* the transaction commits and those recipes are passed on.  Some but not *)
(* all: recipes_by_node[sub_recipe.node_name] raises KeyError, the         *)
(* transaction rolls back and the manager leaves the message on the queue.*)
FindExistingRecipes(w) ==
    /\ pc[w] = "locked"
    /\ LET ns    == NodesOf(msg[w])
           found == {n \in ns : rows[n] > 0}
       IN  CASE found = {} ->
                    /\ pc' = [pc EXCEPT ![w] = "create"]
                    /\ UNCHANGED <<lock, recipes, msg>>
             [] found = ns ->
                    /\ Commit(w, "committed", {Existing(n) : n \in ns})
                    /\ UNCHANGED msg
             [] OTHER ->
                    /\ Commit(w, "idle", {})
                    /\ msg' = [msg EXCEPT ![w] = NoMsg]
    /\ UNCHANGED <<queue, rows, sent, crashes, running>>

\* Variant: the new recipe is identified by the row count read before the
\* insert.
CreateSubrecipesStaleId(w) ==
    /\ pc[w] = "create"
    /\ \A n \in NodesOf(msg[w]) : rows[n] < MaxSubRecipes
    /\ LET ns == NodesOf(msg[w])
       IN  /\ rows' = [n \in NodeName |-> IF n \in ns THEN rows[n] + 1 ELSE rows[n]]
           /\ Commit(w, "committed", {[node |-> n, gen |-> rows[n]] : n \in ns})
    /\ UNCHANGED <<queue, msg, sent, crashes, running>>

(* _create_recipes / _create_subrecipes: one sub-recipe and one RecipeNode *)
(* row per entry, all committed with the transaction.                      *)
CreateSubrecipes(w) ==
    /\ pc[w] = "create"
    /\ \A n \in NodesOf(msg[w]) : rows[n] < MaxSubRecipes
    /\ LET ns == NodesOf(msg[w])
       IN  /\ rows' = [n \in NodeName |-> IF n \in ns THEN rows[n] + 1 ELSE rows[n]]
           /\ Commit(w, "committed", {[node |-> n, gen |-> rows[n] + 1] : n \in ns})
    /\ UNCHANGED <<queue, msg, sent, crashes, running>>

\* Whether the message asked for the recipe of node n to process its input
\* (self.recipe_id and self._process_input.get(new_recipe.id, False)).
ProcessInput(m, n) ==
    /\ Body(m).recipe_id # None
    /\ \E k \in DOMAIN SubRecipesOf(m) :
          SubRecipesOf(m)[k].node_name = n /\ SubRecipesOf(m)[k].process_input

\* update_recipe_metrics for the containing recipe, when recipe_id is set.
MetricsMessages(m) ==
    IF Body(m).recipe_id # None THEN {[type |-> "update_recipe_metrics"]} ELSE {}

\* Variant: every recipe is sent to process_recipe_input, ready or not.
CreateMessagesIgnoringProcessInput(w) ==
    /\ pc[w] = "committed"
    /\ sent' = sent
               \cup {[type |-> "process_recipe_input", recipe |-> r] : r \in recipes[w]}
               \cup MetricsMessages(msg[w])
    /\ pc' = [pc EXCEPT ![w] = "sent"]
    /\ UNCHANGED <<queue, msg, lock, recipes, rows, crashes, running>>

(* _create_messages, then the manager sending new_messages: a               *)
(* process_recipe_input message for each recipe whose entry has            *)
(* process_input (a new sub-recipe has no input yet), and one              *)
(* update_recipe_metrics for the containing recipe.  The update_recipe_ids *)
(* collected for the other recipes are never sent.                         *)
CreateMessages(w) ==
    /\ pc[w] = "committed"
    /\ sent' = sent
               \cup {[type |-> "process_recipe_input", recipe |-> r] :
                        r \in {r \in recipes[w] : ProcessInput(msg[w], r.node)}}
               \cup MetricsMessages(msg[w])
    /\ pc' = [pc EXCEPT ![w] = "sent"]
    /\ UNCHANGED <<queue, msg, lock, recipes, rows, crashes, running>>

\* Variant: success is reported but the SQS message is not deleted.
DeleteMessageSkipped(w) ==
    /\ pc[w] = "sent"
    /\ pc' = [pc EXCEPT ![w] = "idle"]
    /\ msg' = [msg EXCEPT ![w] = NoMsg]
    /\ recipes' = [recipes EXCEPT ![w] = {}]
    /\ UNCHANGED <<queue, lock, rows, sent, crashes, running>>

\* execute() returned True: the generator is sent success and the backend
\* deletes the message.
DeleteMessage(w) ==
    /\ pc[w] = "sent"
    /\ queue' = [queue EXCEPT ![msg[w]] = "deleted"]
    /\ pc' = [pc EXCEPT ![w] = "idle"]
    /\ msg' = [msg EXCEPT ![w] = NoMsg]
    /\ recipes' = [recipes EXCEPT ![w] = {}]
    /\ UNCHANGED <<lock, rows, sent, crashes, running>>

\* A worker dies at any point of its handling: an open transaction rolls
\* back and frees the lock; the message stays in flight.  The process is
\* restarted idle and handle() sets its flag again.
Crash(w) ==
    /\ pc[w] # "idle"
    /\ crashes < MaxCrashes
    /\ pc' = [pc EXCEPT ![w] = "idle"]
    /\ msg' = [msg EXCEPT ![w] = NoMsg]
    /\ recipes' = [recipes EXCEPT ![w] = {}]
    /\ lock' = IF lock = w THEN NoWorker ELSE lock
    /\ crashes' = crashes + 1
    /\ running' = [running EXCEPT ![w] = TRUE]
    /\ UNCHANGED <<queue, rows, sent>>

(* interupt(): a SIGTERM or SIGINT clears the flag.  The message being    *)
(* executed is finished; the while loop then ends and the handler stops.   *)
(* The deployment keeps at least one handler running.                      *)
Interrupt(w) ==
    /\ running[w]
    /\ \E v \in Worker \ {w} : running[v]
    /\ running' = [running EXCEPT ![w] = FALSE]
    /\ UNCHANGED <<queue, pc, msg, lock, recipes, rows, sent, crashes>>

\* The visibility timeout of an in-flight message expires, whether or not
\* the worker that received it is still working on it.
VisibilityTimeout(m) ==
    /\ queue[m] = "inflight"
    /\ queue' = [queue EXCEPT ![m] = "visible"]
    /\ UNCHANGED <<pc, msg, lock, recipes, rows, sent, crashes, running>>

\* The queue is drained: manager.receive_messages keeps returning nothing.
Drained ==
    /\ \A m \in MsgId : queue[m] = "deleted"
    /\ \A w \in Worker : pc[w] = "idle"
    /\ UNCHANGED vars

Next ==
    \/ \E w \in Worker :
          \/ \E m \in MsgId : Receive(w, m)
          \/ PerformLocking(w)
          \/ FindExistingRecipes(w)
          \/ CreateSubrecipes(w)
          \/ CreateMessages(w)
          \/ DeleteMessage(w)
          \/ Crash(w)
          \/ Interrupt(w)
    \/ \E m \in MsgId : VisibilityTimeout(m)
    \/ Drained

\* Every handler loop keeps polling and running its message (weak fairness
\* of its steps); the database grants a contended row lock to each waiter
\* in turn (strong fairness); SQS always expires a visibility timeout.
Fairness ==
    /\ \A w \in Worker :
          /\ WF_vars(\E m \in MsgId : Receive(w, m))
          /\ SF_vars(PerformLocking(w))
          /\ WF_vars(FindExistingRecipes(w))
          /\ WF_vars(CreateSubrecipes(w))
          /\ WF_vars(CreateMessages(w))
          /\ WF_vars(DeleteMessage(w))
    /\ \A m \in MsgId : WF_vars(VisibilityTimeout(m))

Spec == Init /\ [][Next]_vars /\ Fairness

-----------------------------------------------------------------------------
TypeOK ==
    /\ queue \in [MsgId -> {"visible", "inflight", "deleted"}]
    /\ pc \in [Worker -> Pcs]
    /\ msg \in [Worker -> MsgId \cup {NoMsg}]
    /\ lock \in Worker \cup {NoWorker}
    /\ recipes \in [Worker -> SUBSET Recipe]
    /\ rows \in [NodeName -> 0..MaxSubRecipes]
    /\ sent \subseteq FollowOn
    /\ crashes \in 0..MaxCrashes
    /\ running \in [Worker -> BOOLEAN]

\* The nodes whose sub-recipe some sent message hands to process_recipe_input.
AdvancedNodes ==
    {f.recipe.node : f \in {f \in sent : f.type = "process_recipe_input"}}

RequestedNodes == UNION {NodesOf(m) : m \in MsgId}

\* A message redelivered after its visibility timeout, while the worker
\* that first received it is still inside execute(), or after that worker
\* died between the commit and the delete, never gives a node a second
\* sub-recipe: the lock and _find_existing_recipes make re-execution
\* converge on the rows the first execution committed.
NoDuplicateSubRecipe == \A n \in NodeName : rows[n] <= 1

\* The workers, the queue and the transactions together implement the
\* promise of SubRecipeCreation: the recorded sub-recipes per node and the
\* nodes handed to process_recipe_input move only as that specification
\* allows.
Abs == INSTANCE SubRecipeCreation
         WITH made <- rows, advanced <- AdvancedNodes,
              Requested <- RequestedNodes,
              ProcessInputNodes <- {n \in NodeName : \E m \in MsgId : ProcessInput(m, n)}

ImplementsSubRecipeCreation == Abs!ASpec

\* Every create_recipes message is eventually deleted from the queue: a
\* failed or abandoned execution is retried through the visibility
\* timeout until one succeeds.
MessagesEventuallyDeleted == \A m \in MsgId : <>(queue[m] = "deleted")
=============================================================================
