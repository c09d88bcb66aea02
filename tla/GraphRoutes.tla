----------------------------- MODULE GraphRoutes -----------------------------
(***************************************************************************)
(* How the agent's graph goes from node to node: the routers of            *)
(* app/graph/routing.py, each a function of the graph state h, and the     *)
(* edges app/graph/builder.py declares for the keys they return.           *)
(*                                                                         *)
(* The fields of h are those of TaskGraph, where they are described.       *)
(***************************************************************************)
CONSTANT None  \* no value: a field of the state that is not set

Intents ==
    {"CREATE_TASK", "QUERY_TASKS", "UPDATE_TASK", "UPDATE_TASK_STATUS", "DECOMPOSE_TASK",
     "DELETE_TASK", "GENERAL_CHAT", "UNKNOWN"}

\* The intents whose task may be named by the conversation ("it").
ContextIntents == {"QUERY_TASKS", "UPDATE_TASK_STATUS", "UPDATE_TASK", "DECOMPOSE_TASK"}

\* Intents that have to restore a cancelled task first.
WritingIntents == ContextIntents \ {"QUERY_TASKS"}

\* Every router but the first gives way to an error message.
Unless(h, key) == IF h.error THEN "handle_error" ELSE key

RouteFromPendingState(h) ==
    CASE h.route = "selection"                 -> "resolve_task_selection"
      [] h.route = "delete_selection"          -> "resolve_task_delete_selection"
      [] h.route = "clarification"             -> "resolve_query_clarification"
      [] h.route = "task_draft_clarification"  -> "resolve_task_draft_clarification"
      [] h.route = "task_update_clarification" -> "resolve_task_update_clarification"
      [] h.route = "blocked"                   -> "handle_error"
      [] OTHER                                 -> "classify_intent"

RouteAfterTaskDraftClarification(h) ==
    CASE h.route = "classify"     -> "classify_intent"
      [] h.route = "draft_resume" -> "parse_task"
      [] OTHER                    -> "end"

RouteAfterTaskUpdateClarification(h) ==
    CASE h.route = "classify"           -> "classify_intent"
      [] h.route = "task_update_resume" -> "parse_task_update"
      [] OTHER                          -> "end"

RouteAfterClassification(h) ==
    CASE h.intent \in ContextIntents /\ h.ref = "it"     -> "resolve_context_reference"
      [] ~(h.intent \in ContextIntents /\ h.ref = "it") /\ h.asks
                                                         -> "request_intent_clarification"
      [] ~h.asks /\ h.ref # "it" /\ h.intent \in WritingIntents
                                                         -> "resolve_task_reference"
      [] ~h.asks /\ h.ref # "it" /\ h.intent = "QUERY_TASKS" -> "query_task_data"
      [] ~h.asks /\ h.intent = "CREATE_TASK"             -> "parse_task"
      [] ~h.asks /\ h.intent = "DELETE_TASK"             -> "parse_task_delete"
      [] ~h.asks /\ h.intent = "GENERAL_CHAT"            -> "respond_to_general_chat"
      [] OTHER                                           -> "respond_unknown_intent"

\* Mutant: a merged query is not routed like a classified one.
RouteAfterQueryClarificationFlat(h) ==
    CASE h.route = "classify"   -> "classify_intent"
      [] h.route = "classified" -> h.intent
      [] OTHER                  -> "end"

RouteAfterQueryClarification(h) ==
    CASE h.route = "classify"   -> "classify_intent"
      [] h.route = "classified" -> RouteAfterClassification(h)
      [] OTHER                  -> "end"

\* The selected task is cancelled, and the operation is not its cancellation.
NeedsRestore(h, cancellable) ==
    /\ h.selected # None /\ h.selected.status = "CANCELLED"
    /\ ~(cancellable /\ h.target = "CANCELLED")

RouteAfterTaskSelection(h) ==
    LET update == h.route = "selected_update" IN
    CASE h.route = "classify" -> "classify_intent"
      [] /\ h.route \in {"selected_update", "selected_attribute_update", "selected_decomposition"}
         /\ NeedsRestore(h, update) -> "prepare_task_restore"
      [] update /\ ~NeedsRestore(h, TRUE) -> "prepare_status_update"
      [] h.route = "selected_attribute_update" /\ ~NeedsRestore(h, FALSE) -> "parse_task_update"
      [] h.route = "selected_decomposition" /\ ~NeedsRestore(h, FALSE) ->
           "load_decomposition_context"
      [] h.route = "selected_deletion" -> "prepare_task_delete"
      [] OTHER -> "end"

RouteAfterContextReference(h) ==
    CASE h.asks -> "request_intent_clarification"
      [] ~h.asks /\ h.intent = "QUERY_TASKS"       -> "query_task_data"
      [] ~h.asks /\ h.intent \in WritingIntents    -> "resolve_task_reference"
      [] ~h.asks /\ h.intent \notin ContextIntents -> "handle_error"

RouteAfterTaskReferenceResolution(h) ==
    CASE h.selected = None -> "end"
      [] /\ h.selected # None /\ h.intent \in WritingIntents
         /\ NeedsRestore(h, h.intent = "UPDATE_TASK_STATUS") -> "prepare_task_restore"
      [] OTHER ->
           CASE h.intent = "DECOMPOSE_TASK" -> "load_decomposition_context"
             [] h.intent = "UPDATE_TASK"    -> "parse_task_update"
             [] h.intent = "DELETE_TASK"    -> "prepare_task_delete"
             [] OTHER                       -> "prepare_status_update"

RouteAfterTaskDeleteSelection(h) ==
    CASE h.selRoute = "resume"   -> "prepare_task_delete_batch"
      [] h.selRoute = "classify" -> "classify_intent"
      [] OTHER                   -> "end"

RouteAfterTaskUpdateParsing(h) ==
    CASE h.needs            -> "prepare_task_update_clarification"
      [] ~h.needs /\ h.patch -> "prepare_task_update"
      [] OTHER              -> "end"

RouteAfterTaskDeleteParsing(h) ==
    CASE h.delRoute = "single" -> "resolve_task_reference"
      [] h.delRoute = "batch"  -> "prepare_task_delete_batch"
      [] OTHER                 -> "end"

RouteAfterValidation(h) ==
    CASE h.valid              -> "calculate_priority"
      [] ~h.valid /\ h.missing -> "prepare_task_draft_clarification"
      [] OTHER                -> "handle_error"

RouteAfterPreparation(h) ==
    IF h.action = None THEN "end" ELSE "request_confirmation"

RouteAfterConfirmation(h) ==
    LET type == h.action.type
        batch == type = "create_subtasks_batch"
    IN
    CASE h.decision = "approve" ->
           CASE type = "update_task_status" -> "execute_status_update"
             [] type = "update_task"        -> "execute_task_update"
             [] batch                       -> "execute_create_subtasks_batch"
             [] type = "delete_task"        -> "execute_task_delete"
             [] type = "delete_tasks_batch" -> "execute_task_delete_batch"
             [] type = "restore_task"       -> "execute_task_restore"
             [] OTHER                       -> "execute_create_task"
      [] h.decision = "edit"       -> IF batch THEN "edit_subtasks" ELSE "edit"
      [] h.decision = "regenerate" -> IF batch THEN "regenerate_subtasks" ELSE "regenerate"
      [] OTHER                     -> "reject"

\* The intent is that of the turn's own message: a turn that answered a
\* selection has none.
RouteAfterRestoreExecution(h) ==
    CASE h.intent = "UPDATE_TASK"        -> "parse_task_update"
      [] h.intent = "DECOMPOSE_TASK"     -> "load_decomposition_context"
      [] h.intent = "UPDATE_TASK_STATUS" -> "prepare_status_update"
      [] OTHER                           -> "end"

-----------------------------------------------------------------------------
(* The nodes, the keys each may route by, and where a key leads.           *)

Preparing == {"prepare_status_update", "prepare_task_update", "prepare_task_delete",
              "prepare_task_delete_batch", "prepare_task_restore",
              "prepare_subtask_confirmation"}

Executing == {"execute_create_task", "execute_status_update", "execute_task_update",
              "execute_create_subtasks_batch", "execute_task_delete",
              "execute_task_delete_batch"}

\* Nodes with one edge, to finalize_turn.
Answering == {"handle_error", "request_intent_clarification", "respond_to_general_chat",
              "respond_feature_unavailable", "respond_unknown_intent"}

Classified == {"parse_task", "query_task_data", "resolve_task_reference", "parse_task_delete",
               "request_intent_clarification", "respond_to_general_chat",
               "respond_feature_unavailable", "respond_unknown_intent",
               "resolve_context_reference"}

\* The conditional edges of the nodes that resume a context or classify.
EdgesOfContexts(n) ==
    CASE n = "route_pending_state" ->
           {"classify_intent", "resolve_task_selection", "resolve_task_delete_selection",
            "resolve_query_clarification", "resolve_task_draft_clarification",
            "resolve_task_update_clarification"}
      [] n = "resolve_task_update_clarification" -> {"classify_intent", "parse_task_update", "end"}
      [] n = "resolve_task_draft_clarification"  -> {"classify_intent", "parse_task", "end"}
      [] n = "resolve_task_selection" ->
           {"classify_intent", "prepare_status_update", "parse_task_update",
            "load_decomposition_context", "prepare_task_delete", "prepare_task_restore", "end"}
      [] n = "resolve_query_clarification" -> Classified \cup {"classify_intent", "end"}
      [] n = "classify_intent"             -> Classified
      [] n = "resolve_context_reference" ->
           {"query_task_data", "resolve_task_reference", "request_intent_clarification"}
      [] n = "query_task_data" -> {"end"}
      [] OTHER                 -> {}

\* Those of the nodes that find the task and understand the change.
EdgesOfOperations(n) ==
    CASE n = "resolve_task_reference" ->
           {"prepare_status_update", "parse_task_update", "load_decomposition_context",
            "prepare_task_delete", "prepare_task_restore", "end"}
      [] n = "resolve_task_delete_selection" ->
           {"prepare_task_delete_batch", "classify_intent", "end"}
      [] n = "parse_task_update" ->
           {"prepare_task_update", "prepare_task_update_clarification", "end"}
      [] n = "prepare_task_update_clarification" -> {"end"}
      [] n = "parse_task_delete" -> {"resolve_task_reference", "prepare_task_delete_batch", "end"}
      [] n \in Preparing        -> {"request_confirmation", "end"}
      [] OTHER                  -> {}

\* Those of the nodes that draft, confirm and execute.
EdgesOfDrafts(n) ==
    CASE n = "load_decomposition_context" -> {"generate_subtask_plan"}
      [] n = "generate_subtask_plan"      -> {"validate_subtask_plan"}
      [] n = "validate_subtask_plan"      -> {"prepare_subtask_confirmation"}
      [] n = "parse_task"                 -> {"validate_task"}
      [] n = "validate_task" -> {"calculate_priority", "prepare_task_draft_clarification"}
      [] n = "prepare_task_draft_clarification" -> {"end"}
      [] n = "calculate_priority"   -> {"prepare_confirmation"}
      [] n = "prepare_confirmation" -> {"request_confirmation"}
      [] OTHER                      -> {}

EdgesOfExecution(n) ==
    CASE n \in Executing -> {"end"}
      [] n = "request_confirmation" ->
           Executing \cup {"execute_task_restore", "edit", "regenerate", "edit_subtasks",
                           "regenerate_subtasks", "reject"}
      [] n = "execute_task_restore" ->
           {"parse_task_update", "load_decomposition_context", "prepare_status_update", "end"}
      [] OTHER -> {}

\* The conditional edges of n; a node that has any also declares "handle_error".
Edges(n) ==
    EdgesOfContexts(n) \cup EdgesOfOperations(n) \cup EdgesOfDrafts(n) \cup EdgesOfExecution(n)

Branching ==
    {"route_pending_state", "resolve_task_update_clarification",
     "resolve_task_draft_clarification", "resolve_task_selection",
     "resolve_query_clarification", "classify_intent", "resolve_context_reference",
     "query_task_data", "resolve_task_reference", "resolve_task_delete_selection",
     "parse_task_update", "prepare_task_update_clarification", "parse_task_delete",
     "load_decomposition_context", "generate_subtask_plan", "validate_subtask_plan",
     "parse_task", "validate_task", "prepare_task_draft_clarification",
     "calculate_priority", "prepare_confirmation", "request_confirmation",
     "execute_task_restore"} \cup Preparing \cup Executing

Nodes == Branching \cup Answering \cup {"finalize_turn"}

\* The router of a node with conditional edges.
Router(h) ==
    CASE h.at = "resolve_task_draft_clarification"  -> RouteAfterTaskDraftClarification(h)
      [] h.at = "resolve_task_update_clarification" -> RouteAfterTaskUpdateClarification(h)
      [] h.at = "resolve_query_clarification"       -> RouteAfterQueryClarification(h)
      [] h.at = "resolve_task_selection"            -> RouteAfterTaskSelection(h)
      [] h.at = "resolve_task_delete_selection"     -> RouteAfterTaskDeleteSelection(h)
      [] h.at = "classify_intent"                   -> RouteAfterClassification(h)
      [] h.at = "resolve_context_reference"         -> RouteAfterContextReference(h)
      [] h.at = "resolve_task_reference"            -> RouteAfterTaskReferenceResolution(h)
      [] h.at = "parse_task_update"                 -> RouteAfterTaskUpdateParsing(h)
      [] h.at = "parse_task_delete"                 -> RouteAfterTaskDeleteParsing(h)
      [] h.at = "load_decomposition_context"        -> "generate_subtask_plan"
      [] h.at = "generate_subtask_plan"             -> "validate_subtask_plan"
      [] h.at = "validate_subtask_plan"             -> "prepare_subtask_confirmation"
      [] h.at = "parse_task"                        -> "validate_task"
      [] h.at = "validate_task"                     -> RouteAfterValidation(h)
      [] h.at = "calculate_priority"                -> "prepare_confirmation"
      [] h.at \in Preparing \cup {"prepare_confirmation"} -> RouteAfterPreparation(h)
      [] h.at = "request_confirmation"              -> RouteAfterConfirmation(h)
      [] h.at = "execute_task_restore"              -> RouteAfterRestoreExecution(h)
      [] OTHER                                      -> "end"

Key(h) ==
    IF h.at = "route_pending_state" THEN RouteFromPendingState(h) ELSE Unless(h, Router(h))

\* The node a key stands for.
Target(key) ==
    CASE key \in {"end", "reject"}       -> "finalize_turn"
      [] key = "edit"                    -> "validate_task"
      [] key = "regenerate"              -> "parse_task"
      [] key = "edit_subtasks"           -> "validate_subtask_plan"
      [] key = "regenerate_subtasks"     -> "generate_subtask_plan"
      [] OTHER                           -> key

\* Mutant: finalize_turn leads back to the start.
SuccessorLooping(h) ==
    CASE h.at = "finalize_turn" -> "route_pending_state"
      [] h.at \in Answering     -> "finalize_turn"
      [] h.at \in Branching    ->
           IF Key(h) \in Edges(h.at) \cup {"handle_error"} THEN Target(Key(h))
           ELSE "undeclared"

\* The node that runs after h.at has left the state h.  LangGraph fails when
\* a router returns a key the edges do not declare.
Successor(h) ==
    CASE h.at = "finalize_turn" -> "END"
      [] h.at \in Answering     -> "finalize_turn"
      [] h.at \in Branching    ->
           IF Key(h) \in Edges(h.at) \cup {"handle_error"} THEN Target(Key(h))
           ELSE "undeclared"
=============================================================================
