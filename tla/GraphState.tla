------------------------------ MODULE GraphState ------------------------------
(***************************************************************************)
(* What the agent's graph works on: the user's tasks, the graph state of   *)
(* one thread, and how a message's words find tasks in a list.  The nodes  *)
(* are in GraphContexts and GraphWrites; TaskGraph puts them together.     *)
(***************************************************************************)
EXTENDS Integers, Sequences, FiniteSets

CONSTANTS
    TaskId,      \* ids of tasks
    Order,       \* Order[t]: the place of t where lists show all of them
    Parent,      \* Parent[t]: the task t is a subtask of, or None
    Ref,         \* references to tasks in messages, besides the contextual "it"
    Exact,       \* Exact[r]: tasks whose title is r
    Loose,       \* Loose[r]: tasks whose title contains r, or the reverse
    Message,     \* messages: [kind, n, ref], see below
    Scene,       \* names of what a user may be up to; for each of them:
    Start,       \* Start[s]: the stores the thread may find
    Request,     \* Request[s]: what the intent service makes of messages,
                 \*   [intent, ref, target, asks]
    Deletion,    \* Deletion[s]: what the deletion parser makes of them,
                 \*   [asks, all, scope, parent, refs, query, keywords]
    Foreign,     \* Foreign[s]: bound, the statuses other threads give to tasks
    None, Gone,  \* an id not yet used; a deleted task
    MaxRounds,   \* task_draft_ and task_update_clarification_max_rounds
    MaxBatch,    \* the most tasks of one batch deletion (50)
    MaxVersion   \* bound: nobody raises a task's version beyond it

(***************************************************************************)
(* Messages, by what the nodes tell apart without a model:                 *)
(*   cancel    a word every context takes for its cancellation             *)
(*   new       a new request to every context ("delete ...", "show ...")   *)
(*   marked    one to a selection only ("create ...", "finish ...")        *)
(*   greeting  one to the clarification of a draft or an update only       *)
(*   ordinal   the n-th item                                               *)
(*   name      a title or an id, ref                                       *)
(*   other     anything else                                               *)
(***************************************************************************)

VARIABLES
    scene,  \* what the user is up to, a parameter
    task,   \* the user's tasks: [status, version], None or Gone
    g,      \* the graph state, in memory and in the thread's checkpoint
    heard   \* ghost: the last numbered list of tasks the user was shown

vars == <<scene, task, g, heard>>

R == INSTANCE GraphRoutes

Status == {"TODO", "DOING", "DONE", "BLOCKED", "CANCELLED"}

Version == 1..MaxVersion

TaskRecord == [status : Status, version : Version]

\* A task as a node has read it, and as a list shows it.
TaskCopy == [id : TaskId, status : Status, version : Version]
ListItem == [id : TaskId, version : Version]

T == INSTANCE TaskStore WITH
    KeysOf <- <<>>, MaxItems <- 1, userIndex <- {}, children <- <<>>, idem <- <<>>

-----------------------------------------------------------------------------
(* Tasks, references and lists.                                            *)

Live == {t \in TaskId : task[t] \notin {None, Gone}}

Unused == {t \in TaskId : task[t] = None}

ChildrenOf(t) == {x \in Live : Parent[x] = t}

CopyIn(table, t) == [id |-> t, status |-> table[t].status, version |-> table[t].version]

Copy(t) == CopyIn(task, t)

\* What remains of a task in a list of candidates.
Item(t) == [id |-> t, version |-> task[t].version]

\* The tasks of S as a list: t is preceded by those with a lower place.
Before(t, S) == {x \in S : Order[x] < Order[t]}

Listed(S) ==
    [n \in 1..Cardinality(S) |-> CHOOSE t \in S : Cardinality(Before(t, S)) = n - 1]

Items(S) == [i \in DOMAIN Listed(S) |-> Item(Listed(S)[i])]

Ids(items) == {items[i].id : i \in DOMAIN items}

\* The first tier of the matcher that has a match: an id, a title, a part of it.
Matching(r, S) ==
    IF r \in TaskId THEN {r} \cap S
    ELSE IF Exact[r] \cap S # {} THEN Exact[r] \cap S ELSE Loose[r] \cap S

\* Matches a deletion accepts: no keyword matches.
Explicit(r, S) == IF r \in TaskId THEN {r} \cap S ELSE Exact[r] \cap S

\* Mutant: an ordinal counts the candidates that are still there.
ChosenFromLive(m, items) ==
    LET live == Items(Ids(items) \cap Live) IN
    CASE m.kind = "ordinal" -> {live[i].id : i \in {m.n} \cap DOMAIN live}
      [] m.kind = "name" /\ m.ref \in TaskId -> {m.ref} \cap Ids(items)
      [] m.kind = "name" /\ m.ref \notin TaskId ->
           LET named == Exact[m.ref] \cap Ids(items) \cap Live
           IN  IF Cardinality(named) = 1 THEN named ELSE {}
      [] OTHER -> {}

\* The item a message chooses, as a set; empty when it chooses none.  An
\* ordinal or an id may choose a task that no longer exists.
Chosen(m, items) ==
    CASE m.kind = "ordinal" -> {items[i].id : i \in {m.n} \cap DOMAIN items}
      [] m.kind = "name" /\ m.ref \in TaskId -> {m.ref} \cap Ids(items)
      [] m.kind = "name" /\ m.ref \notin TaskId ->
           LET named == Exact[m.ref] \cap Ids(items) \cap Live
           IN  IF Cardinality(named) = 1 THEN named ELSE {}
      [] OTHER -> {}

\* The version under which t is in a list.
VersionIn(items, t) == items[CHOOSE i \in DOMAIN items : items[i].id = t].version

-----------------------------------------------------------------------------
(***************************************************************************)
(* The graph state.                                                        *)
(*   at           the node that runs next; "request_confirmation" waits    *)
(*                for the user, "END" for the next message                 *)
(*   msg          user_message                                             *)
(*   intent, ref, target, asks                                             *)
(*                the classified intent: task_reference, target_status,    *)
(*                intent_result.needs_clarification                        *)
(*   route, selRoute, delRoute                                             *)
(*                pending_route, task_delete_selection_route,              *)
(*                task_delete_route                                        *)
(*   selection, deletion, query, draft, update                             *)
(*                the contexts: pending_task_selection,                    *)
(*                pending_task_delete_selection and the pending_*_         *)
(*                clarifications; live is FALSE once they have expired     *)
(*   focus        active_task_context                                      *)
(*   inputs, round, uInputs, uRound                                        *)
(*                task_collection_inputs, task_update_inputs, their rounds *)
(*   uMsg, dMsg   task_update_message, decomposition_message               *)
(*   needs, patch task_update_result.needs_clarification, task_update      *)
(*   plan, rParent, rRefs                                                  *)
(*                task_delete_parse_result, resolved_delete_*              *)
(*   selected, created, updated, deleted, results, candidates              *)
(*                selected_task, created_task and so on                    *)
(*   action, decision                                                      *)
(*                pending_action with the copies of its targets,           *)
(*                review_action                                            *)
(*   valid, missing, error                                                 *)
(*                validation_passed, missing_fields, error_message         *)
(* Texts are kept as what they are: "request" for the message of a turn    *)
(* whose message was classified, "reply" for one that answered a context.  *)
(***************************************************************************)

Contexts(h) == {h.selection, h.deletion, h.query, h.draft, h.update} \ {None}

MessageText == {"request", "reply"}

Plan == UNION {Deletion[s] : s \in Scene}

Reference == Ref \cup TaskId

\* The references of a deletion that have been resolved.
Resolved == UNION {[D -> TaskId] : D \in SUBSET (Reference \cup {None})}

\* The contexts, the focus and the pending action, when there is one.
Selection ==
    [live : BOOLEAN, operation : R!ContextIntents \cup {"DELETE_TASK"}, items : Seq(ListItem),
     target : Status \cup {None}, text : MessageText \cup {None}]

DeleteSelection ==
    [live : BOOLEAN, plan : Plan, kind : {"parent", "task_reference"},
     reference : Reference \cup {None}, items : Seq(ListItem),
     rParent : TaskId \cup {None}, rRefs : Resolved]

QueryClarification  == [live : BOOLEAN]
DraftClarification  == [live : BOOLEAN, inputs : Seq(MessageText), round : 1..MaxRounds]
UpdateClarification ==
    [live : BOOLEAN, inputs : Seq(MessageText), round : 1..MaxRounds, id : TaskId,
     version : Version]

Focus == [live : BOOLEAN, id : TaskId]

ActionType ==
    {"create_task", "update_task", "update_task_status", "restore_task",
     "create_subtasks_batch", "delete_task", "delete_tasks_batch"}

PendingAction ==
    [type    : ActionType,
     targets : SUBSET TaskCopy,
     status  : {"pending", "approved", "rejected", "cancelled"}]

ASSUME GraphAssumption ==
    /\ IsFiniteSet(TaskId) /\ {None, Gone} \cap TaskId = {} /\ None # Gone
    /\ Parent \in [TaskId -> TaskId \cup {None}]
    /\ Order \in [TaskId -> Nat] /\ \A t, x \in TaskId : Order[t] = Order[x] => t = x
    /\ MaxRounds \in 1..8          \* user_inputs holds at most 8
    /\ MaxBatch \in Nat \ {0} /\ MaxVersion \in Nat \ {0}
    /\ {None, Gone} \cap [status : Status, version : Nat] = {}
    /\ None \notin MessageText \cup R!Intents
    /\ None \notin TaskCopy \cup Focus \cup PendingAction \cup Selection \cup DeleteSelection
                   \cup QueryClarification \cup DraftClarification \cup UpdateClarification

\* TaskAgentState, as far as it decides anything.
TaskAgentState ==
    [at : R!Nodes \cup {"END"}, msg : Message \cup {[kind |-> "other"]},
     intent : R!Intents \cup {None}, ref : Reference \cup {None, "it"},
     target : Status \cup {None}, asks : BOOLEAN,
     route : {"selection", "delete_selection", "clarification", "task_draft_clarification",
              "task_update_clarification", "classify", "classified", "handled",
              "draft_resume", "task_update_resume", "selected_update",
              "selected_attribute_update", "selected_decomposition", "selected_deletion",
              None},
     selRoute : {"end", "classify", "resume", None},
     delRoute : {"clarification", "single", "batch", None},
     selection : Selection \cup {None}, deletion : DeleteSelection \cup {None},
     query : QueryClarification \cup {None}, draft : DraftClarification \cup {None},
     update : UpdateClarification \cup {None}, focus : Focus \cup {None},
     inputs : Seq(MessageText), round : 0..MaxRounds,
     uInputs : Seq(MessageText), uRound : 0..MaxRounds,
     uMsg : MessageText \cup {None}, dMsg : MessageText \cup {None},
     needs : BOOLEAN, patch : BOOLEAN,
     plan : Plan \cup {None}, rParent : TaskId \cup {None}, rRefs : Resolved,
     selected : TaskCopy \cup {None},
     created : TaskId \cup {None}, updated : TaskId \cup {None},
     deleted : SUBSET TaskId, results : SUBSET TaskId, candidates : Seq(ListItem),
     action : PendingAction \cup {None},
     decision : {"approve", "reject", "edit", "regenerate", None},
     valid : BOOLEAN, missing : BOOLEAN, error : BOOLEAN]

\* What a user may be up to: tasks with their parents, and what the schemas of
\* the intent and of the deletion plan allow.
ASSUME SceneAssumption ==
    \A s \in Scene :
        /\ \A table \in Start[s] :
             /\ table \in [TaskId -> TaskRecord \cup {None, Gone}]
             /\ \A t \in TaskId : table[t] \in TaskRecord /\ Parent[t] # None =>
                   table[Parent[t]] \in TaskRecord
        /\ \A r \in Request[s] :
             /\ r.intent \in R!Intents /\ r.asks \in BOOLEAN
             /\ r.ref \in Reference \cup {None, "it"} /\ r.target \in Status \cup {None}
        /\ \A d \in Deletion[s] :
             /\ d.refs \in Seq(Reference) /\ d.parent \in Reference \cup {None}
             /\ {d.asks, d.all, d.query, d.keywords} \subseteq BOOLEAN
             /\ d.scope \in {"ALL_TASKS", "DIRECT_CHILDREN"}

\* The input of a chat: nothing of earlier turns but the contexts and the focus.
Initial(m, old) ==
    [at |-> "route_pending_state", msg |-> m,
     intent |-> None, ref |-> None, target |-> None, asks |-> FALSE,
     route |-> None, selRoute |-> None, delRoute |-> None,
     selection |-> old.selection, deletion |-> old.deletion, query |-> old.query,
     draft |-> old.draft, update |-> old.update, focus |-> old.focus,
     inputs |-> <<>>, round |-> 0, uInputs |-> <<>>, uRound |-> 0,
     uMsg |-> None, dMsg |-> None, needs |-> FALSE, patch |-> FALSE,
     plan |-> None, rParent |-> None, rRefs |-> <<>>,
     selected |-> None, created |-> None, updated |-> None,
     deleted |-> {}, results |-> {}, candidates |-> <<>>,
     action |-> None, decision |-> None,
     valid |-> FALSE, missing |-> FALSE, error |-> FALSE]

NoContexts ==
    [selection |-> None, deletion |-> None, query |-> None, draft |-> None,
     update |-> None, focus |-> None]

Init ==
    /\ scene \in Scene
    /\ task \in Start[scene]
    /\ g = [Initial([kind |-> "other"], NoContexts) EXCEPT !.at = "END"]
    /\ heard = <<>>

\* The text of the message, for a parser.
Text(h) == IF h.intent = None THEN "reply" ELSE "request"

\* A node ends in state h; its router decides what runs next.
Leave(h) ==
    /\ g' = [h EXCEPT !.at = R!Successor(h)]
    /\ UNCHANGED <<scene, heard>>

\* A node that only reads and writes the graph state.
At(node) == g.at = node /\ UNCHANGED task

Failed(h) == [h EXCEPT !.error = TRUE]

=============================================================================
