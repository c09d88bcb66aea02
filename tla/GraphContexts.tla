---------------------------- MODULE GraphContexts ----------------------------
(***************************************************************************)
(* The nodes of app/graph/nodes that start a turn, resume what an earlier  *)
(* turn left open, classify the message and find the task it is about.     *)
(***************************************************************************)
EXTENDS GraphState

-----------------------------------------------------------------------------
(* The start of a turn.                                                    *)

\* The context with the highest priority takes the message; of the others it
\* clears those its own branch of the code names.
RoutePendingState ==
    /\ At("route_pending_state")
    /\ \/ /\ g.deletion # None
          /\ Leave([g EXCEPT !.route = "delete_selection", !.draft = None, !.update = None])
       \/ /\ g.deletion = None /\ g.selection # None
          /\ Leave([g EXCEPT !.route = "selection",
                             !.query = None, !.draft = None, !.update = None])
       \/ /\ g.deletion = None /\ g.selection = None /\ g.update # None
          /\ Leave([g EXCEPT !.route = "task_update_clarification",
                             !.query = None, !.draft = None])
       \/ /\ g.deletion = None /\ g.selection = None /\ g.update = None /\ g.draft # None
          /\ Leave([g EXCEPT !.route = "task_draft_clarification", !.query = None])
       \/ /\ Contexts(g) \subseteq {g.query} /\ g.query # None
          /\ Leave([g EXCEPT !.route = "clarification"])
       \/ /\ Contexts(g) = {}
          /\ Leave([g EXCEPT !.route = "classify"])

\* _classified_result: what the intent service made of the message.
Classified(h, r) ==
    [h EXCEPT !.intent = r.intent, !.ref = r.ref, !.target = r.target,
              !.asks = r.asks, !.error = FALSE]

ClassifyIntent ==
    /\ At("classify_intent")
    /\ \E r \in Request[scene] : Leave(Classified(g, r))

\* The answer to a query that was not complete.  Without a patch in it the
\* question is repeated; a patch may leave the query incomplete.
ResolveQueryClarification ==
    LET closed == [g EXCEPT !.query = None] IN
    /\ At("resolve_query_clarification")
    /\ \/ /\ ~g.query.live
          /\ Leave([closed EXCEPT !.route = "classify"])
       \/ /\ g.query.live /\ g.msg.kind = "cancel"
          /\ Leave([closed EXCEPT !.route = "handled", !.asks = FALSE, !.error = FALSE])
       \/ /\ g.query.live /\ g.msg.kind # "cancel"
          /\ \/ \E r \in Request[scene] :
                   \/ /\ r.intent # "QUERY_TASKS" \/ ~r.asks
                      /\ Leave([Classified(closed, r) EXCEPT !.route = "classified"])
                   \/ /\ r.intent = "QUERY_TASKS" /\ r.asks
                      /\ Leave([Classified(g, r) EXCEPT !.route = "handled"])
             \/ Leave([g EXCEPT !.route = "handled", !.error = FALSE])

RequestIntentClarification ==
    /\ At("request_intent_clarification")
    /\ Leave([g EXCEPT !.query = IF g.intent = "QUERY_TASKS" THEN [live |-> TRUE] ELSE None,
                       !.error = FALSE])

\* respond_to_general_chat, respond_unknown_intent; nothing routes to
\* respond_feature_unavailable.
Respond ==
    /\ \E node \in {"respond_to_general_chat", "respond_unknown_intent"} : At(node)
    /\ Leave([g EXCEPT !.error = FALSE])

\* "it" is the task in focus.
ResolveContextReference ==
    /\ At("resolve_context_reference")
    /\ \/ /\ g.focus # None /\ g.focus.live
          /\ Leave([g EXCEPT !.ref = g.focus.id, !.asks = FALSE, !.error = FALSE])
       \/ /\ ~(g.focus # None /\ g.focus.live)
          /\ Leave([g EXCEPT !.focus = None, !.ref = None, !.asks = TRUE, !.error = FALSE])

-----------------------------------------------------------------------------
(* Finding a task, and asking which one is meant.                          *)

\* The result of a match: the tasks found are kept as candidates when there
\* are several, the one found is selected.
Found(h, found, pending) ==
    LET one == Cardinality(found) = 1
        several == Cardinality(found) > 1
    IN  [h EXCEPT !.selected = IF one THEN Copy(CHOOSE t \in found : TRUE) ELSE None,
                  !.selection = IF several THEN pending ELSE None,
                  !.candidates = IF several THEN Items(found) ELSE <<>>,
                  !.error = FALSE]

\* The tasks a query keeps depend on its statuses, priorities and times.
QueryTaskData ==
    /\ At("query_task_data")
    /\ \/ Leave(Failed(g))
       \/ \E kept \in SUBSET Live :
             \/ /\ g.ref = None
                /\ Leave([g EXCEPT !.results = kept, !.candidates = <<>>, !.selected = None,
                                   !.selection = None, !.error = FALSE])
             \/ /\ g.ref # None
                /\ LET found == Matching(g.ref, kept) IN
                   Leave([Found(g, found, [live |-> TRUE, operation |-> "QUERY_TASKS",
                                           items |-> Items(found), target |-> None,
                                           text |-> None])
                            EXCEPT !.results = IF Cardinality(found) = 1 THEN found ELSE {}])

\* A missing reference is a failure: the matcher is called with no text.
ResolveTaskReference ==
    /\ At("resolve_task_reference")
    /\ \/ Leave(Failed(g))
       \/ /\ g.ref # None
          /\ LET found == Matching(g.ref, Live) IN
             Leave(Found(g, found,
                 [live |-> TRUE, operation |-> g.intent, items |-> Items(found),
                  target |-> IF g.intent = "UPDATE_TASK_STATUS" THEN g.target ELSE None,
                  text |-> IF g.intent \in {"UPDATE_TASK", "DECOMPOSE_TASK"}
                           THEN Text(g) ELSE None]))

-----------------------------------------------------------------------------
(* Resuming a selection.                                                   *)

\* The chosen item is the task the list showed, in the version it showed.
Fresh(t, items) == t \in Live /\ task[t].version = VersionIn(items, t)

\* What is left of the candidates.
Available(items) == Ids(items) \cap Live

Closed(h) == [h EXCEPT !.selection = None, !.candidates = <<>>, !.error = FALSE]

\* Mutant: the message that made the request is not restored.
SelectedWithoutText(t) ==
    LET pending == g.selection
        h == [Closed(g) EXCEPT !.selected = Copy(t)]
    IN
    CASE pending.operation = "QUERY_TASKS" ->
           [h EXCEPT !.results = {t}, !.route = "handled"]
      [] pending.operation = "UPDATE_TASK" ->
           [h EXCEPT !.route = "selected_attribute_update"]
      [] pending.operation = "DECOMPOSE_TASK" ->
           [h EXCEPT !.route = "selected_decomposition"]
      [] pending.operation = "DELETE_TASK" ->
           [h EXCEPT !.route = "selected_deletion"]
      [] pending.operation = "UPDATE_TASK_STATUS" ->
           [h EXCEPT !.target = pending.target, !.route = "selected_update"]

\* The operation the selection was made for goes on with the task t.
Selected(t) ==
    LET pending == g.selection
        h == [Closed(g) EXCEPT !.selected = Copy(t)]
    IN
    CASE pending.operation = "QUERY_TASKS" ->
           [h EXCEPT !.results = {t}, !.route = "handled"]
      [] pending.operation = "UPDATE_TASK" ->
           [h EXCEPT !.uMsg = pending.text, !.route = "selected_attribute_update"]
      [] pending.operation = "DECOMPOSE_TASK" ->
           [h EXCEPT !.dMsg = pending.text, !.route = "selected_decomposition"]
      [] pending.operation = "DELETE_TASK" ->
           [h EXCEPT !.route = "selected_deletion"]
      [] pending.operation = "UPDATE_TASK_STATUS" ->
           IF \/ task[t].status = "CANCELLED" /\ pending.target # "CANCELLED"
              \/ T!Transition(task[t].status, pending.target, TRUE, FALSE)
           THEN [h EXCEPT !.target = pending.target, !.route = "selected_update"]
           ELSE [Closed(g) EXCEPT !.route = "handled"]

\* Mutant: a new request leaves the selection open.
NotChosenKept ==
    LET left == Available(g.selection.items)
        items == Items(left)
    IN
    \/ /\ g.msg.kind \in {"new", "marked"}
       /\ Leave([g EXCEPT !.candidates = <<>>, !.route = "classify"])
    \/ /\ g.msg.kind \notin {"new", "marked"} /\ left = {}
       /\ Leave([Closed(g) EXCEPT !.route = "handled"])
    \/ /\ g.msg.kind \notin {"new", "marked"} /\ left # {}
       /\ Leave([g EXCEPT !.selection.items = items, !.candidates = items,
                          !.route = "handled", !.error = FALSE])

\* Mutant: the list is shown again without what is gone, and not kept.
NotChosenStale ==
    LET left == Available(g.selection.items)
        items == Items(left)
    IN
    \/ /\ g.msg.kind \in {"new", "marked"}
       /\ Leave([g EXCEPT !.selection = None, !.candidates = <<>>, !.route = "classify"])
    \/ /\ g.msg.kind \notin {"new", "marked"} /\ left = {}
       /\ Leave([Closed(g) EXCEPT !.route = "handled"])
    \/ /\ g.msg.kind \notin {"new", "marked"} /\ left # {}
       /\ Leave([g EXCEPT !.candidates = items,
                          !.route = "handled", !.error = FALSE])

\* A message that chooses nothing: a new request closes the selection, any
\* other one is answered with the list of what is left.
NotChosen ==
    LET left == Available(g.selection.items)
        items == Items(left)
    IN
    \/ /\ g.msg.kind \in {"new", "marked"}
       /\ Leave([g EXCEPT !.selection = None, !.candidates = <<>>, !.route = "classify"])
    \/ /\ g.msg.kind \notin {"new", "marked"} /\ left = {}
       /\ Leave([Closed(g) EXCEPT !.route = "handled"])
    \/ /\ g.msg.kind \notin {"new", "marked"} /\ left # {}
       /\ Leave([g EXCEPT !.selection.items = items, !.candidates = items,
                          !.route = "handled", !.error = FALSE])

ResolveTaskSelection ==
    LET pending == g.selection IN
    /\ At("resolve_task_selection")
    /\ \/ /\ ~pending.live
          /\ Leave([g EXCEPT !.selection = None, !.candidates = <<>>, !.route = "classify"])
       \/ /\ pending.live /\ g.msg.kind = "cancel"
          /\ Leave([Closed(g) EXCEPT !.route = "handled"])
       \/ /\ pending.live /\ g.msg.kind # "cancel"
          /\ \/ Leave(Failed(g))
             \/ Chosen(g.msg, pending.items) = {} /\ NotChosen
             \/ \E t \in Chosen(g.msg, pending.items) :
                   \/ ~Fresh(t, pending.items) /\ Leave([Closed(g) EXCEPT !.route = "handled"])
                   \/ Fresh(t, pending.items) /\ Leave(Selected(t))

\* The references resolved so far, with the one that was asked about.
WithReference(pending, t) ==
    [r \in DOMAIN pending.rRefs \cup {pending.reference} |->
        IF r = pending.reference THEN t ELSE pending.rRefs[r]]

\* A selection of a deletion.  Expired, it ends the turn; a message that
\* chooses nothing is answered with what is left, and the list stays.
ResolveTaskDeleteSelection ==
    LET pending == g.deletion
        closed == [g EXCEPT !.deletion = None, !.candidates = <<>>, !.error = FALSE]
        ended == [closed EXCEPT !.selRoute = "end"]
        left == Available(pending.items)
    IN
    /\ At("resolve_task_delete_selection")
    /\ \/ /\ ~pending.live \/ g.msg.kind = "cancel"
          /\ Leave(ended)
       \/ /\ pending.live /\ g.msg.kind # "cancel" /\ Chosen(g.msg, pending.items) = {}
          /\ \/ /\ g.msg.kind \in {"new", "marked"}
                /\ Leave([closed EXCEPT !.selRoute = "classify"])
             \/ /\ g.msg.kind \notin {"new", "marked"} /\ left = {}
                /\ Leave(ended)
             \/ /\ g.msg.kind \notin {"new", "marked"} /\ left # {}
                /\ Leave([g EXCEPT !.candidates = Items(left), !.selRoute = "end",
                                   !.error = FALSE])
       \/ /\ pending.live /\ g.msg.kind # "cancel"
          /\ \E t \in Chosen(g.msg, pending.items) :
                \/ ~Fresh(t, pending.items) /\ Leave(ended)
                \/ /\ Fresh(t, pending.items)
                   /\ Leave([closed EXCEPT
                          !.plan = pending.plan, !.delRoute = "batch", !.selRoute = "resume",
                          !.rParent = IF pending.kind = "parent" THEN t ELSE pending.rParent,
                          !.rRefs = IF pending.kind = "parent" THEN pending.rRefs
                                    ELSE WithReference(pending, t)])

-----------------------------------------------------------------------------
(* Collecting the fields of a draft, or of a change, over several turns.   *)

NoDraft(h) == [h EXCEPT !.draft = None, !.inputs = <<>>, !.round = 0]

\* Mutant: the rounds are counted but not limited.
PrepareTaskDraftClarificationForever ==
    LET round == g.round + 1 IN
    /\ At("prepare_task_draft_clarification")
    /\ Leave([g EXCEPT !.draft = [live |-> TRUE, inputs |-> g.inputs, round |-> round],
                       !.round = round, !.error = FALSE])

PrepareTaskDraftClarification ==
    LET round == g.round + 1 IN
    /\ At("prepare_task_draft_clarification")
    /\ \/ /\ round > MaxRounds
          /\ Leave([NoDraft(g) EXCEPT !.error = FALSE])
       \/ /\ round <= MaxRounds
          /\ Leave([g EXCEPT !.draft = [live |-> TRUE, inputs |-> g.inputs, round |-> round],
                             !.round = round, !.error = FALSE])

ResolveTaskDraftClarification ==
    LET pending == g.draft IN
    /\ At("resolve_task_draft_clarification")
    /\ \/ /\ ~pending.live \/ g.msg.kind \in {"new", "greeting"}
          /\ Leave([NoDraft(g) EXCEPT !.route = "classify"])
       \/ /\ pending.live /\ g.msg.kind = "cancel"
          /\ Leave([NoDraft(g) EXCEPT !.route = "handled"])
       \/ /\ pending.live /\ g.msg.kind \notin {"cancel", "new", "greeting"}
          /\ Leave([g EXCEPT !.draft = None, !.inputs = Append(pending.inputs, "reply"),
                             !.round = pending.round, !.route = "draft_resume"])

NoUpdate(h) == [h EXCEPT !.update = None, !.uInputs = <<>>, !.uRound = 0]

PrepareTaskUpdateClarification ==
    LET round == g.uRound + 1
        inputs == IF g.uInputs # <<>> THEN g.uInputs
                  ELSE <<IF g.uMsg # None THEN g.uMsg ELSE Text(g)>>
    IN
    /\ At("prepare_task_update_clarification")
    /\ \/ Leave(Failed(g))
       \/ /\ round > MaxRounds
          /\ Leave([NoUpdate(g) EXCEPT !.needs = FALSE, !.patch = FALSE, !.error = FALSE])
       \/ /\ round <= MaxRounds
          /\ Leave([g EXCEPT !.update = [live |-> TRUE, inputs |-> inputs, round |-> round,
                                         id |-> g.selected.id,
                                         version |-> g.selected.version],
                             !.uInputs = inputs, !.uRound = round, !.error = FALSE])

\* Mutant: the round starts over with every answer.
ResolveTaskUpdateClarificationAnew ==
    LET pending == g.update
        known == pending.id \in Live /\ task[pending.id].version = pending.version
        given == [NoUpdate(g) EXCEPT !.route = "handled"]
    IN
    /\ At("resolve_task_update_clarification")
    /\ \/ /\ ~pending.live \/ g.msg.kind \in {"new", "greeting"}
          /\ Leave([NoUpdate(g) EXCEPT !.route = "classify"])
       \/ /\ pending.live /\ g.msg.kind = "cancel"
          /\ Leave(given)
       \/ /\ pending.live /\ g.msg.kind \notin {"cancel", "new", "greeting"}
          /\ \/ Leave(Failed(g))
             \/ ~known /\ Leave(given)
             \/ /\ known
                /\ Leave([g EXCEPT !.update = None, !.uInputs = Append(pending.inputs, "reply"),
                                   !.uRound = 0, !.selected = Copy(pending.id),
                                   !.needs = TRUE, !.patch = FALSE, !.uMsg = None,
                                   !.route = "task_update_resume"])

\* The task is read again; in another version the change is given up.
ResolveTaskUpdateClarification ==
    LET pending == g.update
        known == pending.id \in Live /\ task[pending.id].version = pending.version
        given == [NoUpdate(g) EXCEPT !.route = "handled"]
    IN
    /\ At("resolve_task_update_clarification")
    /\ \/ /\ ~pending.live \/ g.msg.kind \in {"new", "greeting"}
          /\ Leave([NoUpdate(g) EXCEPT !.route = "classify"])
       \/ /\ pending.live /\ g.msg.kind = "cancel"
          /\ Leave(given)
       \/ /\ pending.live /\ g.msg.kind \notin {"cancel", "new", "greeting"}
          /\ \/ Leave(Failed(g))
             \/ ~known /\ Leave(given)
             \/ /\ known
                /\ Leave([g EXCEPT !.update = None, !.uInputs = Append(pending.inputs, "reply"),
                                   !.uRound = pending.round, !.selected = Copy(pending.id),
                                   !.needs = TRUE, !.patch = FALSE, !.uMsg = None,
                                   !.route = "task_update_resume"])

-----------------------------------------------------------------------------
(* The end of a turn.                                                      *)

HandleError ==
    /\ At("handle_error")
    /\ Leave(Failed(g))

\* Mutant: a deletion leaves the focus alone.
NextFocusKept(h) ==
    LET current == IF h.focus # None /\ h.focus.live THEN h.focus.id ELSE None IN
    CASE h.created # None -> h.created
      [] h.created = None /\ h.updated # None -> h.updated
      [] h.created = None /\ h.updated = None /\ h.selected # None -> h.selected.id
      [] OTHER -> current

\* next_active_task_id: the task the turn was about, or the focus it had.
NextFocus(h) ==
    LET current == IF h.focus # None /\ h.focus.live THEN h.focus.id ELSE None IN
    CASE h.deleted # {} -> None
      [] h.deleted = {} /\ h.created # None -> h.created
      [] h.deleted = {} /\ h.created = None /\ h.updated # None -> h.updated
      [] h.deleted = {} /\ h.created = None /\ h.updated = None /\ h.selected # None ->
           h.selected.id
      [] OTHER ->
           CASE h.intent = "QUERY_TASKS" /\ Cardinality(h.results) = 1 ->
                  CHOOSE t \in h.results : TRUE
             [] h.intent \in {"QUERY_TASKS", "CREATE_TASK"} \cup R!ContextIntents
                /\ ~(h.intent = "QUERY_TASKS" /\ Cardinality(h.results) = 1) -> None
             [] OTHER -> current

FinalizeTurn ==
    /\ At("finalize_turn")
    /\ Leave([g EXCEPT !.focus = IF NextFocus(g) = None THEN None
                                 ELSE [live |-> TRUE, id |-> NextFocus(g)]])

\* The nodes that read but never write a task.
Reading ==
    \/ RoutePendingState \/ ClassifyIntent \/ ResolveQueryClarification
    \/ RequestIntentClarification \/ Respond \/ ResolveContextReference
    \/ QueryTaskData \/ ResolveTaskReference \/ ResolveTaskSelection
    \/ ResolveTaskDeleteSelection \/ PrepareTaskDraftClarification
    \/ ResolveTaskDraftClarification \/ PrepareTaskUpdateClarification
    \/ ResolveTaskUpdateClarification \/ HandleError \/ FinalizeTurn
=============================================================================
