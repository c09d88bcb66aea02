--------------------------- MODULE GraphStateProofs ---------------------------
(***************************************************************************)
(* TLAPS proofs about the state of the agent's graph: lists of tasks, the  *)
(* shape of TaskAgentState, and the inductive invariant of TaskGraph with  *)
(* what a node has to establish for it.  The nodes are in                  *)
(* GraphNodesProofs, the theorems in TaskGraphProofs.                      *)
(***************************************************************************)
EXTENDS TaskGraph, FiniteSetTheorems, TLAPS

-----------------------------------------------------------------------------
(* Lists of tasks.                                                         *)

\* A list shows no task twice.
Distinct(items) == \A i, j \in DOMAIN items : items[i].id = items[j].id => i = j

\* The sets of tasks are finite.
LEMMA TasksFinite ==
    ASSUME NEW S \in SUBSET TaskId
    PROVE  IsFiniteSet(S) /\ Cardinality(S) \in Nat
BY FS_Subset, FS_CardinalityType, GraphAssumption

\* A task with a lower place has fewer tasks before it.
LEMMA FewerBefore ==
    ASSUME NEW S \in SUBSET TaskId, NEW t \in S, NEW x \in S, Order[t] < Order[x]
    PROVE  Cardinality(Before(t, S)) < Cardinality(Before(x, S))
<1>1. Before(t, S) \subseteq Before(x, S) /\ t \in Before(x, S) \ Before(t, S)
  BY GraphAssumption DEF Before
<1>2. Before(x, S) \in SUBSET TaskId
  BY DEF Before
<1>3. IsFiniteSet(Before(x, S)) /\ Cardinality(Before(x, S)) \in Nat
  BY <1>2, TasksFinite
<1>4. /\ Cardinality(Before(t, S)) <= Cardinality(Before(x, S))
      /\ Cardinality(Before(x, S)) = Cardinality(Before(t, S)) => Before(x, S) = Before(t, S)
  BY <1>1, <1>3, FS_Subset
<1>5. Cardinality(Before(t, S)) \in Nat
  BY <1>1, <1>2, TasksFinite
<1> QED BY <1>1, <1>3, <1>4, <1>5

\* Each place of the list is that of one task.
LEMMA PlacesTaken ==
    ASSUME NEW S \in SUBSET TaskId
    PROVE  /\ \A t \in S : Cardinality(Before(t, S)) \in 0..(Cardinality(S) - 1)
           /\ \A t, x \in S :
                Cardinality(Before(t, S)) = Cardinality(Before(x, S)) => t = x
           /\ \A n \in 1..Cardinality(S) : \E t \in S : Cardinality(Before(t, S)) = n - 1
<1> DEFINE places == 0..(Cardinality(S) - 1)
           place == [t \in S |-> Cardinality(Before(t, S))]
<1>1. IsFiniteSet(S) /\ Cardinality(S) \in Nat
  BY TasksFinite
<1>2. ASSUME NEW t \in S
      PROVE  place[t] \in places
  <2>1. Before(t, S) \subseteq S /\ t \notin Before(t, S)
    BY GraphAssumption DEF Before
  <2>2. Cardinality(Before(t, S)) \in Nat
    BY <2>1, TasksFinite
  <2>3. /\ Cardinality(Before(t, S)) <= Cardinality(S)
        /\ Cardinality(S) = Cardinality(Before(t, S)) => S = Before(t, S)
    BY <2>1, <1>1, FS_Subset
  <2> QED BY <2>1, <2>2, <2>3, <1>1
<1>3. ASSUME NEW t \in S, NEW x \in S, place[t] = place[x]
      PROVE  t = x
  <2>1. Order[t] \in Nat /\ Order[x] \in Nat /\ (Order[t] = Order[x] => t = x)
    BY GraphAssumption
  <2>2. Cardinality(Before(t, S)) \in Nat /\ Cardinality(Before(x, S)) \in Nat
    BY <1>2
  <2> QED BY <1>3, <2>1, <2>2, FewerBefore
<1>4. place \in Injection(S, places)
  BY <1>2, <1>3 DEF Injection, IsInjective
<1>5. IsFiniteSet(places) /\ Cardinality(places) = Cardinality(S)
  BY <1>1, FS_Interval
<1>6. place \in Surjection(S, places)
  BY <1>4, <1>5, FS_Injection
<1>7. \A n \in places : \E t \in S : place[t] = n
  BY <1>6 DEF Surjection
<1>8. \A n \in 1..Cardinality(S) : n - 1 \in places
  BY <1>1
<1> QED BY <1>2, <1>3, <1>7, <1>8

\* What a list shows: the tasks it is made of, each once, in its version.
LEMMA ListItems ==
    ASSUME task \in [TaskId -> TaskRecord \cup {None, Gone}], NEW S \in SUBSET Live
    PROVE  /\ Items(S) \in Seq(ListItem) /\ Len(Items(S)) = Cardinality(S)
           /\ Ids(Items(S)) = S /\ Distinct(Items(S))
           /\ S # {} => Items(S) # <<>>
<1> DEFINE list == Listed(S)
           n == Cardinality(S)
<1>0. S \in SUBSET TaskId /\ n \in Nat /\ IsFiniteSet(S)
  BY TasksFinite DEF Live
<1>1. \A i \in 1..n : list[i] \in S /\ Cardinality(Before(list[i], S)) = i - 1
  BY <1>0, PlacesTaken DEF Listed
<1>2. \A i, j \in 1..n : list[i] = list[j] => i = j
  BY <1>1
<1>3. \A t \in S : \E i \in 1..n : list[i] = t
  <2> SUFFICES ASSUME NEW t \in S
               PROVE  \E i \in 1..n : list[i] = t
    OBVIOUS
  <2> DEFINE i == Cardinality(Before(t, S)) + 1
  <2>1. i \in 1..n /\ i - 1 = Cardinality(Before(t, S))
    BY <1>0, PlacesTaken
  <2>2. Cardinality(Before(list[i], S)) = Cardinality(Before(t, S)) /\ list[i] \in S
    BY <2>1, <1>1
  <2>3. list[i] = t
    BY <2>2, <1>0, PlacesTaken
  <2> QED BY <2>1, <2>3
<1>4. DOMAIN list = 1..n
  BY DEF Listed
<1>5. \A t \in S : Item(t) \in ListItem /\ Item(t).id = t
  BY DEF Item, ListItem, Live, TaskRecord
<1> HIDE DEF list
<1>6. Items(S) = [i \in 1..n |-> Item(list[i])]
  BY <1>4 DEF Items, list
<1>7. Items(S) \in Seq(ListItem) /\ Len(Items(S)) = n
  BY <1>0, <1>1, <1>5, <1>6
<1>8. Ids(Items(S)) = S
  BY <1>1, <1>3, <1>5, <1>6 DEF Ids
<1>9. Distinct(Items(S))
  BY <1>1, <1>2, <1>5, <1>6 DEF Distinct
<1>10. S # {} => n # 0
  BY <1>0, FS_EmptySet
<1> QED BY <1>7, <1>8, <1>9, <1>10

-----------------------------------------------------------------------------
(* The shape of the graph state, field by field: a state that has it has   *)
(* it with any of its fields replaced by another value of the field's type.*)

FieldType ==
    [at |-> R!Nodes \cup {"END"},
     msg |-> Message \cup {[kind |-> "other"]},
     intent |-> R!Intents \cup {None},
     ref |-> Reference \cup {None, "it"},
     target |-> Status \cup {None},
     asks |-> BOOLEAN,
     route |-> {"selection", "delete_selection", "clarification",
             "task_draft_clarification", "task_update_clarification", "classify",
             "classified", "handled", "draft_resume", "task_update_resume",
             "selected_update", "selected_attribute_update", "selected_decomposition",
             "selected_deletion", None},
     selRoute |-> {"end", "classify", "resume", None},
     delRoute |-> {"clarification", "single", "batch", None},
     selection |-> Selection \cup {None},
     deletion |-> DeleteSelection \cup {None},
     query |-> QueryClarification \cup {None},
     draft |-> DraftClarification \cup {None},
     update |-> UpdateClarification \cup {None},
     focus |-> Focus \cup {None},
     inputs |-> Seq(MessageText),
     round |-> 0..MaxRounds,
     uInputs |-> Seq(MessageText),
     uRound |-> 0..MaxRounds,
     uMsg |-> MessageText \cup {None},
     dMsg |-> MessageText \cup {None},
     needs |-> BOOLEAN,
     patch |-> BOOLEAN,
     plan |-> Plan \cup {None},
     rParent |-> TaskId \cup {None},
     rRefs |-> Resolved,
     selected |-> TaskCopy \cup {None},
     created |-> TaskId \cup {None},
     updated |-> TaskId \cup {None},
     deleted |-> SUBSET TaskId,
     results |-> SUBSET TaskId,
     candidates |-> Seq(ListItem),
     action |-> PendingAction \cup {None},
     decision |-> {"approve", "reject", "edit", "regenerate", None},
     valid |-> BOOLEAN,
     missing |-> BOOLEAN,
     error |-> BOOLEAN]

Fields ==
    {"at", "msg", "intent", "ref", "target", "asks", "route", "selRoute",
     "delRoute", "selection", "deletion", "query", "draft", "update", "focus",
     "inputs", "round", "uInputs", "uRound", "uMsg", "dMsg", "needs", "patch",
     "plan", "rParent", "rRefs", "selected", "created", "updated", "deleted",
     "results", "candidates", "action", "decision", "valid", "missing", "error"}

Rec(h) == h = [f \in Fields |-> h[f]]

Shape(h) == Rec(h) /\ \A f \in Fields : h[f] \in FieldType[f]

SameBut(F, k, h) == \A f \in Fields \ F : k[f] = h[f]

\* The states of TaskAgentState have the shape.
LEMMA StateHasShape ==
    ASSUME NEW h \in TaskAgentState
    PROVE  Shape(h)
<1> SUFFICES Rec(h) /\ \A f \in Fields : h[f] \in FieldType[f]
  BY DEF Shape
<1>1. Rec(h)
  BY DEF TaskAgentState, Rec, Fields, FieldType
<1> SUFFICES ASSUME NEW f \in Fields
             PROVE  h[f] \in FieldType[f]
  BY <1>1
<1>2. CASE f \in {"at", "msg", "intent", "ref", "target", "asks"}
  BY <1>2 DEF TaskAgentState, FieldType
<1>3. CASE f \in {"route", "selRoute", "delRoute", "selection", "deletion", "query"}
  BY <1>3 DEF TaskAgentState, FieldType
<1>4. CASE f \in {"draft", "update", "focus", "inputs", "uInputs", "uMsg"}
  BY <1>4 DEF TaskAgentState, FieldType
<1>5. CASE f \in {"dMsg", "needs", "patch", "plan"}
  BY <1>5 DEF TaskAgentState, FieldType
<1>6. CASE f \in {"rParent", "rRefs", "selected", "created", "updated", "deleted"}
  BY <1>6 DEF TaskAgentState, FieldType
<1>7. CASE f \in {"results", "candidates", "action", "decision", "valid", "missing",
                    "error"}
  BY <1>7 DEF TaskAgentState, FieldType
<1>8. CASE f \in {"round", "uRound"}
  <2>1. h.round \in 0..MaxRounds /\ h.uRound \in 0..MaxRounds
    BY DEF TaskAgentState
  <2>2. FieldType["round"] = 0..MaxRounds /\ FieldType["uRound"] = 0..MaxRounds
    BY DEF FieldType
  <2> QED BY <1>8, <2>1, <2>2
<1> QED BY <1>2, <1>3, <1>4, <1>5, <1>6, <1>7, <1>8 DEF Fields

\* Nothing else has it.
LEMMA ShapeOfState ==
    ASSUME NEW h, Shape(h)
    PROVE  h \in TaskAgentState
BY DEF TaskAgentState, Shape, Rec, Fields, FieldType

\* A field gets another value of its type.
LEMMA Put ==
    ASSUME NEW h, Shape(h), NEW f \in Fields, NEW v \in FieldType[f]
    PROVE  Shape([h EXCEPT ![f] = v])
BY DEF Shape, Rec

\* The fields of a state are those listed.
LEMMA HasFields ==
    ASSUME NEW h, Shape(h)
    PROVE  DOMAIN h = Fields
BY DEF Shape, Rec


-----------------------------------------------------------------------------
(* The inductive invariant: what holds of the tasks, of a graph state       *)
(* wherever it is, and of the state in which a node starts.                *)

\* The parent of a task is there as long as the task is.
Tree(table) ==
    /\ table \in [TaskId -> TaskRecord \cup {None, Gone}]
    /\ \A t \in TaskId : table[t] \in TaskRecord /\ Parent[t] # None =>
          table[Parent[t]] \in TaskRecord

\* A copy tells the version, and in this version the status, of a task that may
\* have changed since, or gone.
CopyOK(table, c) ==
    /\ table[c.id] # None
    /\ table[c.id] \in TaskRecord =>
         /\ c.version <= table[c.id].version
         /\ c.version = table[c.id].version => c.status = table[c.id].status

CopiesOK(table, h) ==
    /\ h.selected # None => CopyOK(table, h.selected)
    /\ h.action # None => \A c \in h.action.targets : CopyOK(table, c)

\* The list a choice is checked against is the one last shown.
ListsOK(list, h) ==
    /\ h.selection # None =>
         /\ Distinct(h.selection.items)
         /\ h.selection.items = IF h.candidates # <<>> THEN h.candidates ELSE list
    /\ h.deletion # None => Ids(h.candidates) \subseteq Ids(h.deletion.items)
    /\ h.selection = None /\ h.deletion = None => h.candidates = <<>>

\* Collected inputs begin with the request, and each round adds at most one.
Collected(inputs, max) == inputs # <<>> => Head(inputs) = "request" /\ Len(inputs) <= max

TextsOK(h) ==
    /\ Collected(h.inputs, h.round + 1) /\ Collected(h.uInputs, h.uRound + 1)
    /\ h.draft # None => h.draft.inputs # <<>> /\ Collected(h.draft.inputs, h.draft.round)
    /\ h.update # None => h.update.inputs # <<>> /\ Collected(h.update.inputs, h.update.round)
    /\ h.uMsg \in {"request", None} /\ h.dMsg \in {"request", None}
    /\ h.selection # None /\ h.selection.operation \in {"UPDATE_TASK", "DECOMPOSE_TASK"} =>
         h.selection.text = "request"

\* The results of a turn are about one task.
FocusOK(h) ==
    /\ h.created = None \/ h.updated = None
    /\ h.updated # None /\ h.selected # None => h.updated = h.selected.id

Sound(table, list, h) ==
    Shape(h) /\ CopiesOK(table, h) /\ ListsOK(list, h) /\ TextsOK(h) /\ FocusOK(h)

\* What a message begins with.
Begun(h) ==
    /\ h.action = None /\ h.selected = None /\ h.created = None /\ h.updated = None
    /\ h.deleted = {} /\ h.candidates = <<>>
    /\ h.inputs = <<>> /\ h.uInputs = <<>> /\ h.round = 0 /\ h.uRound = 0
    /\ h.uMsg = None /\ h.dMsg = None /\ h.error = FALSE

Quiet(h) ==
    h.selection = None /\ h.deletion = None /\ h.query = None /\ h.draft = None /\ h.update = None

\* At most one context is open.
Once(h) ==
    \/ h.deletion = None /\ h.query = None /\ h.draft = None /\ h.update = None
    \/ h.selection = None /\ h.query = None /\ h.draft = None /\ h.update = None
    \/ h.selection = None /\ h.deletion = None /\ h.draft = None /\ h.update = None
    \/ h.selection = None /\ h.deletion = None /\ h.query = None /\ h.update = None
    \/ h.selection = None /\ h.deletion = None /\ h.query = None /\ h.draft = None

\* A turn that takes up the context c, and only that.
Resuming(h, c) == Begun(h) /\ h.intent = None /\ Once(h) /\ c # None

Drafting == {"parse_task", "validate_task", "calculate_priority", "prepare_confirmation",
             "prepare_task_draft_clarification"}

Updating == {"parse_task_update", "prepare_task_update", "prepare_task_update_clarification"}

Decomposing == {"load_decomposition_context", "generate_subtask_plan", "validate_subtask_plan",
                "prepare_subtask_confirmation"}

Changing == {"prepare_status_update", "prepare_task_restore", "prepare_task_delete"}

\* The action is about the task selected; of a batch it covers all that was named.
ActionOK(h) ==
    LET type == h.action.type IN
    /\ h.action # None
    /\ type = "create_task" => h.updated = None /\ h.inputs # <<>> /\ h.selected = None
    /\ type # "create_task" => h.action.targets # {}
    /\ type = "create_subtasks_batch" => h.dMsg = "request"
    /\ type \notin {"create_task", "delete_tasks_batch"} =>
           h.selected # None /\ \A c \in h.action.targets : c.id = h.selected.id
    /\ (type = "delete_tasks_batch" /\ h.plan.refs # <<>> /\ ~h.plan.keywords) =>
           Cardinality(h.action.targets) = Len(h.plan.refs)

\* The action a node executes.
Executes(n) ==
    CASE n = "execute_status_update"         -> "update_task_status"
      [] n = "execute_task_update"           -> "update_task"
      [] n = "execute_create_subtasks_batch" -> "create_subtasks_batch"
      [] n = "execute_task_delete"           -> "delete_task"
      [] n = "execute_task_delete_batch"     -> "delete_tasks_batch"
      [] n = "execute_task_restore"          -> "restore_task"
      [] OTHER                               -> "create_task"

Working(h) == Quiet(h) /\ h.created = None /\ h.deleted = {} /\ h.candidates = <<>>

\* FocusIsAnswered, for a state at the end of its turn.
Answered(h) ==
    h.focus # None =>
        /\ h.focus.id \notin h.deleted
        /\ \A t \in {h.created, h.updated} \ {None} : h.focus.id = t
        /\ h.selected # None /\ h.created = None => h.focus.id = h.selected.id

\* What the node n may rely on when it starts.
Ready(n, h) ==
    /\ n = "route_pending_state" => Begun(h) /\ h.intent = None /\ Once(h)
    /\ n = "resolve_task_selection" => Resuming(h, h.selection)
    /\ n = "resolve_task_delete_selection" => Resuming(h, h.deletion)
    /\ n = "resolve_query_clarification" => Resuming(h, h.query)
    /\ n = "resolve_task_draft_clarification" => Resuming(h, h.draft)
    /\ n = "resolve_task_update_clarification" => Resuming(h, h.update)
    /\ n \in (R!Classified \cup {"classify_intent"}) \ {"parse_task"} => Begun(h) /\ Quiet(h)
    /\ n = "query_task_data" => h.intent = "QUERY_TASKS"
    /\ n = "resolve_context_reference" => h.intent \in R!ContextIntents
    /\ n = "parse_task_delete" => h.intent = "DELETE_TASK"
    /\ n = "resolve_task_reference" => h.intent \in R!WritingIntents \cup {"DELETE_TASK"}
    /\ n \in Drafting => Working(h) /\ h.updated = None /\ h.selected = None
    /\ n = "parse_task" => h.inputs # <<>> \/ h.intent # None
    /\ n \in Drafting \ {"parse_task"} => h.inputs # <<>>
    /\ n \in Updating \cup Decomposing \cup Changing => Working(h) /\ h.selected # None
    /\ n \in Updating \cup Changing \cup {"load_decomposition_context"} => h.action = None
    /\ n = "parse_task_update" => h.uInputs # <<>> \/ h.uMsg = "request" \/ h.intent # None
    /\ n \in Updating \ {"parse_task_update"} => h.uInputs # <<>>
    /\ n = "load_decomposition_context" => h.dMsg = "request" \/ h.intent # None
    /\ n \in Decomposing \ {"load_decomposition_context"} => h.dMsg = "request"
    /\ n = "prepare_task_delete_batch" =>
         Working(h) /\ h.plan \in Plan /\ h.action = None /\ h.selected = None /\ h.updated = None
    /\ n = "request_confirmation" => Working(h) /\ ActionOK(h)
    /\ n \in R!Executing \cup {"execute_task_restore"} =>
         /\ Working(h) /\ ActionOK(h)
         /\ h.action.status = "approved" /\ h.action.type = Executes(n)
    /\ n \in R!Answering \cup {"finalize_turn", "END"} => Once(h)
    /\ n = "END" => Answered(h)

IInv ==
    /\ scene \in Scene /\ heard \in Seq(ListItem) /\ Tree(task)
    /\ Sound(task, heard, g) /\ Ready(g.at, g)

-----------------------------------------------------------------------------
(* Where the routers lead.                                                 *)

\* A node that did not fail goes on to the node its router's key stands for.
LEMMA Routed ==
    ASSUME NEW h, h.error = FALSE, h.at \in R!Branching \ {"route_pending_state"},
           R!Router(h) \in R!Edges(h.at)
    PROVE  R!Successor(h) = R!Target(R!Router(h))
BY DEF R!Successor, R!Key, R!Unless, R!Answering, R!Branching, R!Preparing, R!Executing

\* The nodes that prepare a draft or a plan lead to the next one of the chain.
LEMMA RoutesOfDrafts ==
    ASSUME NEW h, h.error = FALSE
    PROVE  /\ h.at = "parse_task" => R!Successor(h) = "validate_task"
           /\ h.at = "validate_task" /\ h.valid = TRUE => R!Successor(h) = "calculate_priority"
           /\ h.at = "validate_task" /\ h.valid = FALSE /\ h.missing = TRUE =>
                R!Successor(h) = "prepare_task_draft_clarification"
           /\ h.at = "calculate_priority" => R!Successor(h) = "prepare_confirmation"
           /\ h.at = "prepare_task_draft_clarification" => R!Successor(h) = "finalize_turn"
           /\ h.at = "load_decomposition_context" => R!Successor(h) = "generate_subtask_plan"
           /\ h.at = "generate_subtask_plan" => R!Successor(h) = "validate_subtask_plan"
           /\ h.at = "validate_subtask_plan" => R!Successor(h) = "prepare_subtask_confirmation"
BY DEF R!Successor, R!Key, R!Unless, R!Router, R!RouteAfterValidation, R!Target, R!Answering,
       R!Branching, R!Preparing, R!Executing, R!Edges, R!EdgesOfContexts, R!EdgesOfOperations,
       R!EdgesOfDrafts, R!EdgesOfExecution

\* A prepared action is put to the user; without one the turn ends.
LEMMA RoutesOfPreparation ==
    ASSUME NEW h, h.error = FALSE, h.at \in R!Preparing \cup {"prepare_confirmation"}
    PROVE  /\ h.action # None => R!Successor(h) = "request_confirmation"
           /\ h.action = None /\ h.at # "prepare_confirmation" =>
                R!Successor(h) = "finalize_turn"
BY DEF R!Successor, R!Key, R!Unless, R!Router, R!RouteAfterPreparation, R!Target, R!Answering,
       R!Branching, R!Preparing, R!Executing, R!Edges, R!EdgesOfContexts, R!EdgesOfOperations,
       R!EdgesOfDrafts, R!EdgesOfExecution

\* What follows the understanding of a change or of a deletion.
LEMMA RoutesOfParsing ==
    ASSUME NEW h, h.error = FALSE
    PROVE  /\ h.at = "parse_task_update" /\ h.needs = TRUE =>
                R!Successor(h) = "prepare_task_update_clarification"
           /\ h.at = "parse_task_update" /\ h.needs = FALSE /\ h.patch = TRUE =>
                R!Successor(h) = "prepare_task_update"
           /\ h.at = "prepare_task_update_clarification" => R!Successor(h) = "finalize_turn"
           /\ h.at = "parse_task_delete" /\ h.delRoute = "single" =>
                R!Successor(h) = "resolve_task_reference"
           /\ h.at = "parse_task_delete" /\ h.delRoute = "batch" =>
                R!Successor(h) = "prepare_task_delete_batch"
           /\ h.at = "parse_task_delete" /\ h.delRoute = "clarification" =>
                R!Successor(h) = "finalize_turn"
BY DEF R!Successor, R!Key, R!Unless, R!Router, R!RouteAfterTaskUpdateParsing,
       R!RouteAfterTaskDeleteParsing, R!Target, R!Answering, R!Branching, R!Preparing,
       R!Executing, R!Edges, R!EdgesOfContexts, R!EdgesOfOperations, R!EdgesOfDrafts,
       R!EdgesOfExecution

\* What follows the user's decision on an action.
LEMMA RoutesOfConfirmation ==
    ASSUME NEW h, h.error = FALSE, h.at = "request_confirmation",
           h.action.type \in ActionType
    PROVE  /\ h.decision = "reject" => R!Successor(h) = "finalize_turn"
           /\ h.decision = "approve" =>
                /\ R!Successor(h) \in R!Executing \cup {"execute_task_restore"}
                /\ h.action.type = Executes(R!Successor(h))
           /\ h.decision = "edit" =>
                R!Successor(h) = IF h.action.type = "create_subtasks_batch"
                                 THEN "validate_subtask_plan" ELSE "validate_task"
           /\ h.decision = "regenerate" =>
                R!Successor(h) = IF h.action.type = "create_subtasks_batch"
                                 THEN "generate_subtask_plan" ELSE "parse_task"
<1>1. /\ h.at \in R!Branching \ {"route_pending_state"}
      /\ R!Edges(h.at) = R!Executing \cup {"execute_task_restore", "edit", "regenerate",
                                           "edit_subtasks", "regenerate_subtasks", "reject"}
  BY DEF R!Branching, R!Preparing, R!Executing, R!Edges, R!EdgesOfContexts,
         R!EdgesOfOperations, R!EdgesOfDrafts, R!EdgesOfExecution
<1>2. R!Router(h) = R!RouteAfterConfirmation(h)
  BY DEF R!Router, R!Preparing
<1>3. CASE h.decision = "approve"
  <2>1. /\ R!RouteAfterConfirmation(h) \in R!Executing \cup {"execute_task_restore"}
        /\ h.action.type = Executes(R!RouteAfterConfirmation(h))
    BY <1>3 DEF R!RouteAfterConfirmation, R!Executing, Executes, ActionType
  <2>2. R!Target(R!RouteAfterConfirmation(h)) = R!RouteAfterConfirmation(h)
    BY <2>1 DEF R!Target, R!Executing
  <2> QED BY <1>1, <1>2, <1>3, <2>1, <2>2, Routed
<1>4. CASE h.decision # "approve"
  <2>1. /\ h.decision = "reject" => R!RouteAfterConfirmation(h) = "reject"
        /\ h.decision = "edit" =>
             R!RouteAfterConfirmation(h) = IF h.action.type = "create_subtasks_batch"
                                           THEN "edit_subtasks" ELSE "edit"
        /\ h.decision = "regenerate" =>
             R!RouteAfterConfirmation(h) = IF h.action.type = "create_subtasks_batch"
                                           THEN "regenerate_subtasks" ELSE "regenerate"
    BY <1>4 DEF R!RouteAfterConfirmation
  <2> QED BY <1>1, <1>2, <1>4, <2>1, Routed DEF R!Target
<1> QED BY <1>3, <1>4

\* What follows a write.
LEMMA RoutesOfExecution ==
    ASSUME NEW h, h.error = FALSE
    PROVE  /\ h.at \in R!Executing => R!Successor(h) = "finalize_turn"
           /\ h.at = "execute_task_restore" =>
                \/ R!Successor(h) = "finalize_turn"
                \/ /\ R!Successor(h) \in {"parse_task_update", "load_decomposition_context",
                                          "prepare_status_update"}
                   /\ h.intent \in R!WritingIntents
BY DEF R!Successor, R!Key, R!Unless, R!Router, R!RouteAfterRestoreExecution, R!Target,
       R!Answering, R!Branching, R!Preparing, R!Executing, R!Edges, R!EdgesOfContexts,
       R!EdgesOfOperations, R!EdgesOfDrafts, R!EdgesOfExecution, R!WritingIntents,
       R!ContextIntents

\* Where a message leads: the context that takes it, or its classification.
LEMMA RoutesOfPending ==
    ASSUME NEW h, h.at = "route_pending_state"
    PROVE  /\ h.route = "selection" => R!Successor(h) = "resolve_task_selection"
           /\ h.route = "delete_selection" => R!Successor(h) = "resolve_task_delete_selection"
           /\ h.route = "clarification" => R!Successor(h) = "resolve_query_clarification"
           /\ h.route = "task_draft_clarification" =>
                R!Successor(h) = "resolve_task_draft_clarification"
           /\ h.route = "task_update_clarification" =>
                R!Successor(h) = "resolve_task_update_clarification"
           /\ h.route = "classify" => R!Successor(h) = "classify_intent"
BY DEF R!Successor, R!Key, R!RouteFromPendingState, R!Target, R!Answering, R!Branching,
       R!Preparing, R!Executing, R!Edges, R!EdgesOfContexts, R!EdgesOfOperations,
       R!EdgesOfDrafts, R!EdgesOfExecution

\* Where a classified message leads.
LEMMA RoutesOfIntents ==
    ASSUME NEW h, h.error = FALSE, h.asks \in BOOLEAN,
           \/ h.at = "classify_intent"
           \/ h.at = "resolve_query_clarification" /\ h.route = "classified"
    PROVE  /\ R!Successor(h) \in R!Classified \ {"respond_feature_unavailable"}
           /\ R!Successor(h) = "query_task_data" => h.intent = "QUERY_TASKS"
           /\ R!Successor(h) = "resolve_task_reference" => h.intent \in R!WritingIntents
           /\ R!Successor(h) = "parse_task" => h.intent = "CREATE_TASK"
           /\ R!Successor(h) = "parse_task_delete" => h.intent = "DELETE_TASK"
           /\ R!Successor(h) = "resolve_context_reference" => h.intent \in R!ContextIntents
<1> DEFINE key == R!RouteAfterClassification(h)
<1>1. h.at \in R!Branching \ {"route_pending_state"} /\ R!Classified \subseteq R!Edges(h.at)
  BY DEF R!Branching, R!Classified, R!Edges, R!EdgesOfContexts
<1>2. R!Router(h) = key
  BY DEF R!Router, R!Preparing, R!RouteAfterQueryClarification
<1>3. /\ key \in R!Classified \ {"respond_feature_unavailable"}
      /\ key = "query_task_data" => h.intent = "QUERY_TASKS"
      /\ key = "resolve_task_reference" => h.intent \in R!WritingIntents
      /\ key = "parse_task" => h.intent = "CREATE_TASK"
      /\ key = "parse_task_delete" => h.intent = "DELETE_TASK"
      /\ key = "resolve_context_reference" => h.intent \in R!ContextIntents
  BY DEF R!RouteAfterClassification, R!Classified, R!WritingIntents, R!ContextIntents
<1>4. R!Target(key) = key
  BY <1>3 DEF R!Target, R!Classified
<1> HIDE DEF key
<1>5. R!Successor(h) = key
  BY <1>1, <1>2, <1>3, <1>4, Routed
<1> QED BY <1>3, <1>5

\* Where "it" leads once its task is known, or asked for.
LEMMA RoutesOfFocus ==
    ASSUME NEW h, h.error = FALSE, h.at = "resolve_context_reference"
    PROVE  /\ h.asks = TRUE => R!Successor(h) = "request_intent_clarification"
           /\ h.asks = FALSE /\ h.intent = "QUERY_TASKS" =>
                R!Successor(h) = "query_task_data"
           /\ h.asks = FALSE /\ h.intent \in R!WritingIntents =>
                R!Successor(h) = "resolve_task_reference"
BY DEF R!Successor, R!Key, R!Unless, R!Router, R!RouteAfterContextReference, R!Target,
       R!Answering, R!Branching, R!Preparing, R!Executing, R!Edges, R!EdgesOfContexts,
       R!EdgesOfOperations, R!EdgesOfDrafts, R!EdgesOfExecution, R!WritingIntents,
       R!ContextIntents

\* Where a task leads that has been found.
LEMMA RoutesOfReferences ==
    ASSUME NEW h, h.error = FALSE
    PROVE  /\ h.at = "query_task_data" => R!Successor(h) = "finalize_turn"
           /\ h.at = "resolve_task_reference" /\ h.selected = None =>
                R!Successor(h) = "finalize_turn"
           /\ h.at = "resolve_task_reference" /\ h.selected # None =>
                \/ R!Successor(h) \in {"prepare_status_update", "prepare_task_restore",
                                       "prepare_task_delete"}
                \/ /\ R!Successor(h) \in {"parse_task_update", "load_decomposition_context"}
                   /\ h.intent \in R!WritingIntents
<1>1. h.at = "query_task_data" => R!Successor(h) = "finalize_turn"
  BY DEF R!Successor, R!Key, R!Unless, R!Router, R!Target, R!Answering, R!Branching,
         R!Preparing, R!Executing, R!Edges, R!EdgesOfContexts
<1> SUFFICES ASSUME h.at = "resolve_task_reference"
             PROVE  /\ h.selected = None => R!Successor(h) = "finalize_turn"
                    /\ h.selected # None =>
                       \/ R!Successor(h) \in {"prepare_status_update", "prepare_task_restore",
                                              "prepare_task_delete"}
                       \/ /\ R!Successor(h) \in {"parse_task_update",
                                                 "load_decomposition_context"}
                          /\ h.intent \in R!WritingIntents
  BY <1>1
<1> DEFINE key == R!RouteAfterTaskReferenceResolution(h)
<1>2. /\ h.at \in R!Branching \ {"route_pending_state"}
      /\ R!Edges(h.at) = {"prepare_status_update", "parse_task_update",
                          "load_decomposition_context", "prepare_task_delete",
                          "prepare_task_restore", "end"}
  BY DEF R!Branching, R!Edges, R!EdgesOfContexts, R!EdgesOfOperations, R!EdgesOfDrafts,
         R!EdgesOfExecution, R!Preparing, R!Executing
<1>3. R!Router(h) = key
  BY DEF R!Router, R!Preparing
<1>4. /\ h.selected = None => key = "end"
      /\ h.selected # None =>
           \/ key \in {"prepare_status_update", "prepare_task_restore", "prepare_task_delete"}
           \/ /\ key \in {"parse_task_update", "load_decomposition_context"}
              /\ h.intent \in R!WritingIntents
  BY DEF R!RouteAfterTaskReferenceResolution, R!WritingIntents, R!ContextIntents
<1> HIDE DEF key
<1>5. R!Successor(h) = R!Target(key)
  BY <1>2, <1>3, <1>4, Routed
<1> QED BY <1>4, <1>5 DEF R!Target

\* Where the answer to a question leads.
LEMMA RoutesOfClarifications ==
    ASSUME NEW h, h.error = FALSE,
           h.at \in {"resolve_query_clarification", "resolve_task_draft_clarification",
                     "resolve_task_update_clarification"}
    PROVE  /\ h.route = "classify" => R!Successor(h) = "classify_intent"
           /\ h.route = "handled" => R!Successor(h) = "finalize_turn"
           /\ h.at = "resolve_task_draft_clarification" /\ h.route = "draft_resume" =>
                R!Successor(h) = "parse_task"
           /\ h.at = "resolve_task_update_clarification" /\ h.route = "task_update_resume" =>
                R!Successor(h) = "parse_task_update"
<1>1. h.at \in R!Branching \ {"route_pending_state"} /\ {"classify_intent", "end"} \subseteq R!Edges(h.at)
  BY DEF R!Branching, R!Edges, R!EdgesOfContexts
<1>2. /\ h.route = "classify" => R!Router(h) = "classify_intent"
      /\ h.route = "handled" => R!Router(h) = "end"
  BY DEF R!Router, R!Preparing, R!RouteAfterQueryClarification,
         R!RouteAfterTaskDraftClarification, R!RouteAfterTaskUpdateClarification
<1>3. /\ h.at = "resolve_task_draft_clarification" /\ h.route = "draft_resume" =>
           R!Router(h) = "parse_task" /\ "parse_task" \in R!Edges(h.at)
      /\ h.at = "resolve_task_update_clarification" /\ h.route = "task_update_resume" =>
           R!Router(h) = "parse_task_update" /\ "parse_task_update" \in R!Edges(h.at)
  BY DEF R!Router, R!Preparing, R!RouteAfterTaskDraftClarification,
         R!RouteAfterTaskUpdateClarification, R!Edges, R!EdgesOfContexts
<1> QED BY <1>1, <1>2, <1>3, Routed DEF R!Target

\* Where the answer to a list leads that chooses no task.
LEMMA RoutesOfLists ==
    ASSUME NEW h, h.error = FALSE
    PROVE  /\ h.at = "resolve_task_selection" =>
                /\ h.route = "classify" => R!Successor(h) = "classify_intent"
                /\ h.route = "handled" => R!Successor(h) = "finalize_turn"
           /\ h.at = "resolve_task_delete_selection" =>
                /\ h.selRoute = "resume" => R!Successor(h) = "prepare_task_delete_batch"
                /\ h.selRoute = "classify" => R!Successor(h) = "classify_intent"
                /\ h.selRoute = "end" => R!Successor(h) = "finalize_turn"
BY DEF R!Successor, R!Key, R!Unless, R!Router, R!RouteAfterTaskSelection,
       R!RouteAfterTaskDeleteSelection, R!Target, R!Answering, R!Branching, R!Preparing,
       R!Executing, R!Edges, R!EdgesOfContexts, R!EdgesOfOperations

\* Where the choice of a task leads.
LEMMA RoutesOfSelection ==
    ASSUME NEW h, h.error = FALSE, h.at = "resolve_task_selection", h.selected # None
    PROVE  /\ h.route = "selected_update" =>
                R!Successor(h) \in {"prepare_status_update", "prepare_task_restore"}
           /\ h.route = "selected_attribute_update" =>
                R!Successor(h) \in {"parse_task_update", "prepare_task_restore"}
           /\ h.route = "selected_decomposition" =>
                R!Successor(h) \in {"load_decomposition_context", "prepare_task_restore"}
           /\ h.route = "selected_deletion" => R!Successor(h) = "prepare_task_delete"
BY DEF R!Successor, R!Key, R!Unless, R!Router, R!RouteAfterTaskSelection, R!NeedsRestore,
       R!Target, R!Answering, R!Branching, R!Preparing, R!Executing, R!Edges,
       R!EdgesOfContexts, R!EdgesOfOperations, R!EdgesOfDrafts, R!EdgesOfExecution

\* Answers and errors end the turn.
LEMMA RoutesOfAnswers ==
    ASSUME NEW h
    PROVE  /\ h.at \in R!Answering => R!Successor(h) = "finalize_turn"
           /\ h.at = "finalize_turn" => R!Successor(h) = "END"
           /\ h.at \in R!Branching \ {"route_pending_state"} /\ h.error = TRUE =>
                R!Successor(h) = "handle_error"
BY DEF R!Successor, R!Key, R!Unless, R!Target, R!Answering, R!Branching, R!Preparing,
       R!Executing

-----------------------------------------------------------------------------
(* From node to node.                                                      *)

\* A node leaves a sound state in which its successor may start.
LEMMA Enters ==
    ASSUME NEW table, NEW list, NEW h, Sound(table, list, h),
           NEW n \in R!Nodes \cup {"END"}, Ready(n, h)
    PROVE  LET k == [h EXCEPT !.at = n] IN Sound(table, list, k) /\ Ready(k.at, k)
<1> DEFINE k == [h EXCEPT !.at = n]
<1>1. Shape(k)
  BY Put DEF Sound, SameBut, Fields, FieldType
<1>2. k.at = n /\ SameBut({"at"}, k, h)
  BY HasFields DEF Sound, SameBut, Fields
<1> HIDE DEF k
<1>3. CopiesOK(table, k) /\ ListsOK(list, k) /\ TextsOK(k) /\ FocusOK(k)
  BY <1>2 DEF Sound, CopiesOK, ListsOK, TextsOK, FocusOK, SameBut, Fields
<1>4. /\ Begun(k) = Begun(h) /\ Once(k) = Once(h) /\ Quiet(k) = Quiet(h)
      /\ Working(k) = Working(h) /\ ActionOK(k) = ActionOK(h) /\ Answered(k) = Answered(h)
  BY <1>2 DEF Begun, Once, Quiet, Working, ActionOK, Answered, SameBut, Fields
<1>5. Ready(n, k)
  BY <1>2, <1>4 DEF Ready, Resuming, SameBut, Fields
<1> QED BY <1>1, <1>2, <1>3, <1>5 DEF Sound, k

\* A node that writes no task leaves the state h, and n runs next.
LEMMA Left ==
    ASSUME IInv, UNCHANGED <<scene, task, heard>>, NEW h, Sound(task, heard, h),
           NEW n \in R!Nodes \cup {"END"}, Ready(n, h), g' = [h EXCEPT !.at = n]
    PROVE  IInv'
<1>1. Sound(task, heard, g') /\ Ready(g'.at, g')
  BY Enters
<1> QED BY <1>1 DEF IInv

\* A turn ends, with an answer or an error, and with one open context at most.
LEMMA Finishes ==
    ASSUME IInv, UNCHANGED <<scene, task, heard>>, NEW h, Sound(task, heard, h), Once(h),
           R!Successor(h) \in {"finalize_turn", "handle_error"},
           g' = [h EXCEPT !.at = R!Successor(h)]
    PROVE  IInv'
<1>1. \A n \in {"finalize_turn", "handle_error"} : Ready(n, h)
  BY DEF Ready, R!Classified, R!Answering, R!Executing, Drafting, Updating, Decomposing, Changing
<1>2. R!Successor(h) \in R!Nodes
  BY DEF R!Nodes, R!Answering
<1> QED BY <1>1, <1>2, Left

\* A failure changes nothing that matters.
LEMMA FailedSound ==
    ASSUME NEW table, NEW list, NEW h, Sound(table, list, h)
    PROVE  /\ Sound(table, list, Failed(h)) /\ Once(Failed(h)) = Once(h)
           /\ Failed(h).error = TRUE /\ Failed(h).at = h.at
<1> DEFINE k == Failed(h)
<1>1. Shape(k)
  BY Put DEF Sound, SameBut, Fields, FieldType, Failed
<1>2. k.error = TRUE /\ SameBut({"error"}, k, h)
  BY HasFields DEF Sound, SameBut, Fields, Failed
<1> HIDE DEF k
<1> QED BY <1>1, <1>2 DEF Sound, CopiesOK, ListsOK, TextsOK, FocusOK, SameBut, Fields, Once, k

\* A failure is answered by handle_error, which ends the turn.
LEMMA Fails ==
    ASSUME IInv, UNCHANGED task, Once(g), Leave(Failed(g)),
           g.at \in (R!Branching \cup R!Answering) \ {"route_pending_state"}
    PROVE  IInv'
<1> DEFINE h == Failed(g)
<1>1. Sound(task, heard, h) /\ Once(h) /\ h.error = TRUE /\ h.at = g.at
  BY FailedSound DEF IInv
<1>2. g' = [h EXCEPT !.at = R!Successor(h)] /\ UNCHANGED <<scene, task, heard>>
  BY DEF Leave
<1> HIDE DEF h
<1>3. R!Successor(h) \in {"finalize_turn", "handle_error"}
  BY <1>1, RoutesOfAnswers
<1> QED BY <1>1, <1>2, <1>3, Finishes

\* A node that changes nothing but the error.
LEMMA Cleared ==
    ASSUME NEW table, NEW list, NEW h, Sound(table, list, h)
    PROVE  LET k == [h EXCEPT !.error = FALSE] IN
           Sound(table, list, k) /\ k.error = FALSE /\ SameBut({"error"}, k, h)
<1> DEFINE k == [h EXCEPT !.error = FALSE]
<1>1. Shape(k)
  BY Put DEF Sound, SameBut, Fields, FieldType
<1>2. k.error = FALSE /\ SameBut({"error"}, k, h)
  BY HasFields DEF Sound, Fields, SameBut
<1> HIDE DEF k
<1> QED BY <1>1, <1>2 DEF Sound, CopiesOK, ListsOK, TextsOK, FocusOK, SameBut, Fields, k

\* What has been collected is the inputs so far or, at first, the text of the turn.
LEMMA FirstInput ==
    ASSUME NEW inputs \in Seq(MessageText), NEW text, NEW max \in Nat,
           Collected(inputs, max + 1), inputs = <<>> => text = "request"
    PROVE  LET all == IF inputs # <<>> THEN inputs ELSE <<text>> IN
           /\ all \in Seq(MessageText) /\ all # <<>>
           /\ Head(all) = "request" /\ Len(all) <= max + 1
<1>1. CASE inputs # <<>>
  BY <1>1 DEF Collected
<1>2. CASE inputs = <<>>
  <2>1. text = "request" /\ text \in MessageText
    BY <1>2 DEF MessageText
  <2>2. <<text>> \in Seq(MessageText) /\ Len(<<text>>) = 1 /\ Head(<<text>>) = text
    BY <2>1
  <2>3. <<text>> # <<>>
    OBVIOUS
  <2> QED BY <1>2, <2>1, <2>2, <2>3
<1> QED BY <1>1, <1>2
=============================================================================
