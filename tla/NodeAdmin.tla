----------------------------- MODULE NodeAdmin -----------------------------
(***************************************************************************)
(* Administration of cluster nodes (node/models.py, node/views.py).       *)
(*                                                                         *)
(* The scheduler registers agents as Node rows (NodeManager.create_nodes). *)
(* No code of the tree sets is_paused_errors, so only the PATCH path      *)
(* writes the pause state.  Users PATCH a node                             *)
(* through the REST API (v4, v5 and v6 differ only in the response): the   *)
(* view rejects unknown or missing fields and unknown nodes, then          *)
(* NodeManager.update_node, inside a transaction, locks the row with       *)
(* select_for_update, reads it, derives the extra fields from what it read *)
(* and writes them with the request's fields.  Several web workers serve   *)
(* requests concurrently.                                                  *)
(***************************************************************************)
EXTENDS Naturals

CONSTANTS
    Host,       \* hostnames of agents
    Requester,  \* web server workers serving PATCH requests
    Reason,     \* pause reasons
    Bodies,     \* the PATCH bodies users send
    NoReason,   \* pause_reason is NULL
    Absent,     \* a field missing from a PATCH body
    NoHost      \* a requester without a request

\* The view's update_fields, and one field it does not accept.
UpdateFields == {"pause_reason", "is_paused", "is_active"}

\* A PATCH body gives each field a value or leaves it Absent.
Body == [pause_reason: Reason \cup {NoReason, Absent},
         is_paused: BOOLEAN \cup {Absent},
         is_active: BOOLEAN \cup {Absent},
         port: {Absent, 5051}]

ASSUME Bodies \subseteq Body

Keys(b) == {f \in UpdateFields \cup {"port"} : b[f] # Absent}

\* The Node columns the properties read; deprecated is set or NULL.
NodeRow == [is_active: BOOLEAN, is_paused: BOOLEAN, is_paused_errors: BOOLEAN,
            deprecated: BOOLEAN, pause_reason: Reason \cup {NoReason}]

VARIABLES
    exists,   \* exists[h]: a Node row with hostname h has been created
    node,     \* node[h]: that row
    lock,     \* lock[h]: the requester holding the row lock, or NoHost
    pc,       \* pc[r]: "idle", "update" (view checks passed) or "locked"
    target,   \* target[r]: the node requester r is updating
    body,     \* body[r]: the body of requester r's PATCH
    snapshot  \* snapshot[r]: the row as update_node read it

vars == <<exists, node, lock, pc, target, body, snapshot>>

\* Node() with its field defaults, as create_nodes builds it.
NewNode == [is_active |-> TRUE, is_paused |-> FALSE, is_paused_errors |-> FALSE,
            deprecated |-> FALSE, pause_reason |-> NoReason]

Init ==
    /\ exists = [h \in Host |-> FALSE]
    /\ node = [h \in Host |-> NewNode]
    /\ lock = [h \in Host |-> NoHost]
    /\ pc = [r \in Requester |-> "idle"]
    /\ target = [r \in Requester |-> NoHost]
    /\ body = [r \in Requester |-> CHOOSE b \in Bodies : TRUE]
    /\ snapshot = [r \in Requester |-> NewNode]

-----------------------------------------------------------------------------
\* NodeManager.create_nodes for an agent the scheduler has not seen.
CreateNodes(h) ==
    /\ ~exists[h]
    /\ exists' = [exists EXCEPT ![h] = TRUE]
    /\ node' = [node EXCEPT ![h] = NewNode]
    /\ UNCHANGED <<lock, pc, target, body, snapshot>>

(* NodeDetailsView.patch_v4/v5/v6: a body with a field outside            *)
(* update_fields or with no field is answered 400, an unknown node 404;   *)
(* otherwise update_node is called.                                        *)
Patch(r, h, b) ==
    /\ pc[r] = "idle"
    /\ IF Keys(b) \subseteq UpdateFields /\ Keys(b) # {} /\ exists[h]
       THEN /\ pc' = [pc EXCEPT ![r] = "update"]
            /\ target' = [target EXCEPT ![r] = h]
            /\ body' = [body EXCEPT ![r] = b]
       ELSE UNCHANGED <<pc, target, body>>
    /\ UNCHANGED <<exists, node, lock, snapshot>>

\* Mutant: the row read without select_for_update.
SelectForUpdateUnlocked(r) ==
    /\ pc[r] = "update"
    /\ snapshot' = [snapshot EXCEPT ![r] = node[target[r]]]
    /\ pc' = [pc EXCEPT ![r] = "locked"]
    /\ UNCHANGED <<exists, node, lock, target, body>>

\* update_node: select_for_update().filter(id=node_id).first() inside the
\* transaction.atomic decorator.
SelectForUpdate(r) ==
    /\ pc[r] = "update"
    /\ lock[target[r]] = NoHost
    /\ lock' = [lock EXCEPT ![target[r]] = r]
    /\ snapshot' = [snapshot EXCEPT ![r] = node[target[r]]]
    /\ pc' = [pc EXCEPT ![r] = "locked"]
    /\ UNCHANGED <<exists, node, target, body>>

\* Mutant: resuming keeps the request's pause_reason instead of None.
NewDataKeepReason(old, b) ==
    LET Given(f, cur) == IF b[f] = Absent THEN cur ELSE b[f]
    IN  [is_active        |-> Given("is_active", old.is_active),
         is_paused        |-> Given("is_paused", old.is_paused),
         is_paused_errors |-> IF b.is_paused # Absent THEN FALSE ELSE old.is_paused_errors,
         deprecated       |-> IF old.is_active # b.is_active THEN old.is_active
                              ELSE old.deprecated,
         pause_reason     |-> b.pause_reason]

(* update_node, from the row it read: deprecated is stamped when the       *)
(* row's is_active differs from new_data.get('is_active', None) and the   *)
(* row is active, cleared when it differs and the row is inactive; a body *)
(* with is_paused clears is_paused_errors; is_paused False clears         *)
(* pause_reason.  node_query.update then writes new_data.                 *)
NewData(old, b) ==
    LET Given(f, cur) == IF b[f] = Absent THEN cur ELSE b[f]
    IN  [is_active        |-> Given("is_active", old.is_active),
         is_paused        |-> Given("is_paused", old.is_paused),
         is_paused_errors |-> IF b.is_paused # Absent THEN FALSE ELSE old.is_paused_errors,
         deprecated       |-> IF old.is_active # b.is_active THEN old.is_active
                              ELSE old.deprecated,
         pause_reason     |-> IF b.is_paused = FALSE THEN NoReason
                              ELSE Given("pause_reason", old.pause_reason)]

\* The keys of new_data when node_query.update(**new_data) runs.
WrittenFields(old, b) ==
    Keys(b)
    \cup (IF old.is_active # b.is_active THEN {"deprecated"} ELSE {})
    \cup (IF b.is_paused # Absent THEN {"is_paused_errors"} ELSE {})
    \cup (IF b.is_paused = FALSE THEN {"pause_reason"} ELSE {})

\* The UPDATE writes the keys of new_data over the current row and the
\* transaction commits, releasing the lock.
UpdateNode(r) ==
    /\ pc[r] = "locked"
    /\ LET h  == target[r]
           nd == NewData(snapshot[r], body[r])
           ws == WrittenFields(snapshot[r], body[r])
       IN  /\ node' = [node EXCEPT ![h] =
                 [f \in DOMAIN node[h] |-> IF f \in ws THEN nd[f] ELSE node[h][f]]]
           /\ lock' = [lock EXCEPT ![h] = NoHost]
    /\ pc' = [pc EXCEPT ![r] = "idle"]
    /\ UNCHANGED <<exists, target, body, snapshot>>

Next ==
    \/ \E h \in Host : CreateNodes(h)
    \/ \E r \in Requester, h \in Host, b \in Bodies : Patch(r, h, b)
    \/ \E r \in Requester : SelectForUpdate(r) \/ UpdateNode(r)

Spec == Init /\ [][Next]_vars

-----------------------------------------------------------------------------
TypeOK ==
    /\ exists \in [Host -> BOOLEAN]
    /\ node \in [Host -> NodeRow]
    /\ lock \in [Host -> Requester \cup {NoHost}]
    /\ pc \in [Requester -> {"idle", "update", "locked"}]
    /\ target \in [Requester -> Host \cup {NoHost}]
    /\ body \in [Requester -> Bodies]
    /\ snapshot \in [Requester -> NodeRow]

\* The Node model's documentation: deprecated is when the node stopped
\* being active.  Whatever PATCH requests run, in whatever interleaving,
\* a registered node has a deprecated time exactly when it is inactive.
DeprecatedIffInactive ==
    \A h \in Host : exists[h] => (node[h].deprecated <=> ~node[h].is_active)
=============================================================================
