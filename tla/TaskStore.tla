------------------------------ MODULE TaskStore ------------------------------
(***************************************************************************)
(* The task store of one user: what RedisTaskRepository                    *)
(* (app/repositories/redis_task.py) commits in each EXEC, one action per   *)
(* write operation, as if operations ran one at a time.  TaskTxn is the    *)
(* same store with the WATCH/GET/EXEC round trips interleaved; it          *)
(* implements this module (TaskTxnProofs).                                 *)
(*                                                                         *)
(* Every Redis key carries the user id, so users never share a key and one *)
(* user is enough.  A call that the code refuses, or that it answers from  *)
(* an idempotency record, changes nothing here: it is a stuttering step.   *)
(* So a step is a call whose expected_version equals the stored version;   *)
(* what a stale expectation does is in TaskTxn.                            *)
(*                                                                         *)
(* Data left out: title, description, category, deadline, minutes and      *)
(* priorities (only refusals of create_subtasks_batch look at titles and   *)
(* deadlines), and the timestamps, of which only "completed_at is set" is  *)
(* kept.                                                                   *)
(***************************************************************************)
EXTENDS Integers, FiniteSets

CONSTANTS
    TaskId,      \* task ids, those of uuid4 and of uuid5 alike
    None,        \* an absent Redis value, parent_id = None, no idempotency key
    KeysOf,      \* KeysOf[kind]: idempotency keys clients use for that operation
    MaxVersion,  \* bound: no step raises a version beyond it
    MaxItems     \* bound: subtasks of one batch (10 in SubtaskBatchCreate)

Kind == {"create", "batch", "status", "update", "delete", "delete_batch"}

Status == {"TODO", "DOING", "BLOCKED", "DONE", "CANCELLED"}

Version == 1..MaxVersion

TaskRecord ==
    [parent    : TaskId \cup {None},  \* parent_id
     status    : Status,
     progress  : 0..100,
     completed : BOOLEAN,             \* completed_at is not None
     version   : Version,
     deps      : SUBSET TaskId,       \* depends_on_task_ids
     order     : Nat]                 \* subtask_order, 0 for None

\* The idempotency keys, in one Redis namespace per kind of operation.
IdemKey == {ik \in Kind \X UNION {KeysOf[kind] : kind \in Kind} :
                ik[2] \in KeysOf[ik[1]]}

ASSUME NoneAssumption == None \notin TaskId /\ None \notin TaskRecord
ASSUME KeysAssumption == \A kind \in Kind : None \notin KeysOf[kind]
ASSUME BoundsAssumption == MaxVersion \in Nat \ {0} /\ MaxItems \in Nat \ {0}

VARIABLES
    task,       \* task[t]: the JSON at t's key, None when the key is absent
    userIndex,  \* the set at the user's index key
    children,   \* children[t]: the members of the sorted set of t's children
    idem        \* idem[<<kind, key>>]: the tasks the recorded call wrote, {} when absent

vars == <<task, userIndex, children, idem>>

Live == {t \in TaskId : task[t] # None}

-----------------------------------------------------------------------------
(* Status rules and the roll-up of children into their parent.  They take  *)
(* the task table as an argument because the code applies them to a table  *)
(* in which the updated child has already replaced the stored one.         *)

\* services/task_state.py: the transitions validate_status_transition allows.
Transition(from, to, reopen, restore) ==
    \/ from = to
    \/ from = "TODO"      /\ to \in {"DOING", "CANCELLED"}
    \/ from = "DOING"     /\ to \in {"DONE", "BLOCKED"}
    \/ from = "BLOCKED"   /\ to = "DOING"
    \/ from = "DONE"      /\ to = "DOING" /\ reopen
    \/ from = "CANCELLED" /\ to = "TODO"  /\ restore

Effective(table, kids) == {c \in kids : table[c].status # "CANCELLED"}

DoneAmong(table, kids) == {c \in kids : table[c].status = "DONE"}

AllDone(table, kids) ==
    /\ Effective(table, kids) # {}
    /\ \A c \in Effective(table, kids) : table[c].status = "DONE"

\* Mutant: cancelled subtasks stay in the numerator.
ProgressOfAll(table, kids) ==
    IF Effective(table, kids) = {} THEN 0
    ELSE (Cardinality(kids) * 100) \div Cardinality(Effective(table, kids))

Progress(table, kids) ==
    IF Effective(table, kids) = {} THEN 0
    ELSE (Cardinality(DoneAmong(table, kids)) * 100)
           \div Cardinality(Effective(table, kids))

\* Mutant: a DONE parent is not reopened.
RolledStatusKept(current, allDone) ==
    IF current = "CANCELLED" THEN "CANCELLED" ELSE IF allDone THEN "DONE" ELSE current

\* Mutant: a cancelled parent is rolled up like any other.
RolledStatusAlways(current, allDone) ==
    IF allDone THEN "DONE" ELSE IF current = "DONE" THEN "DOING" ELSE current

\* The parent's new status when kids are its remaining or updated children.
RolledStatus(current, allDone) ==
    IF current = "CANCELLED" THEN "CANCELLED"
    ELSE IF allDone THEN "DONE"
    ELSE IF current = "DONE" THEN "DOING"
    ELSE current

RollUp(parent, table, kids) ==
    LET rolled == RolledStatus(parent.status, AllDone(table, kids))
    IN  [parent EXCEPT
            !.status    = rolled,
            !.progress  = Progress(table, kids),
            !.completed = \/ rolled = "DONE"
                          \/ @ /\ rolled # "CANCELLED" /\ parent.status # "DONE",
            !.version   = @ + 1]

-----------------------------------------------------------------------------
(* Idempotency records.                                                    *)

\* The call is the first with this key: no record answers it.
Unrecorded(kind, key) ==
    key # None => idem[<<kind, key>>] = {}

Recorded(kind, key, written) ==
    IF key = None THEN idem ELSE [idem EXCEPT ![<<kind, key>>] = written]

\* uuid4, or uuid5 of a batch key not yet used: an id no call has minted.
Fresh(t) ==
    \A ik \in IdemKey : ik[1] \in {"create", "batch"} => t \notin idem[ik]

Init ==
    /\ task = [t \in TaskId |-> None]
    /\ userIndex = {}
    /\ children = [t \in TaskId |-> {}]
    /\ idem = [ik \in IdemKey |-> {}]

-----------------------------------------------------------------------------
(* The write operations.                                                   *)

NewTask(parent, deps, order) ==
    [parent |-> parent, status |-> "TODO", progress |-> 0, completed |-> FALSE,
     version |-> 1, deps |-> deps, order |-> order]

\* Mutant: the new id is not added to the user's index.
CreateUnindexed(t, key) ==
    /\ Unrecorded("create", key)
    /\ Fresh(t)
    /\ t \notin Live
    /\ task' = [task EXCEPT ![t] = NewTask(None, {}, 0)]
    /\ idem' = Recorded("create", key, {t})
    /\ UNCHANGED <<userIndex, children>>

\* create: the graph builds TaskCreate without a parent_id.
Create(t, key) ==
    /\ Unrecorded("create", key)
    /\ Fresh(t)
    /\ t \notin Live
    /\ task' = [task EXCEPT ![t] = NewTask(None, {}, 0)]
    /\ userIndex' = userIndex \cup {t}
    /\ idem' = Recorded("create", key, {t})
    /\ UNCHANGED children

\* A version that may still grow under the bound.
Bumpable(t) == task[t].version < MaxVersion

\* A plan maps the ids of its subtasks to their order and dependencies.
Plan(S) == [S -> [order : 1..MaxItems, deps : SUBSET S]]

Decomposable(p) ==
    /\ p \in Live
    /\ task[p].parent = None
    /\ task[p].status # "CANCELLED"
    /\ children[p] \subseteq Live

\* Mutant: <= where the code has <.
PlanAcceptedLoosely(plan) ==
    LET S == DOMAIN plan IN
    /\ S \cap Live = {}
    /\ \A s, u \in S : plan[s].order = plan[u].order => s = u
    /\ \A s \in S : \A d \in plan[s].deps : plan[d].order <= plan[s].order

\* Distinct orders, and dependencies only on earlier steps of the same plan.
PlanAccepted(plan) ==
    LET S == DOMAIN plan IN
    /\ S \cap Live = {}
    /\ \A s, u \in S : plan[s].order = plan[u].order => s = u
    /\ \A s \in S : \A d \in plan[s].deps : plan[d].order < plan[s].order

\* offset is the largest subtask_order of the present children, 0 without any.
IsOrderOffset(offset, p) ==
    LET orders == {task[c].order : c \in children[p]} \cup {0}
    IN  offset \in orders /\ \A n \in orders : n <= offset

\* Mutant: the progress of the parent is left as it was.
DecomposedStale(parent, table, kids) ==
    [parent EXCEPT !.status    = IF @ = "DONE" THEN "DOING" ELSE @,
                   !.completed = FALSE,
                   !.version   = @ + 1]

\* Mutant: the parent is rewritten under its old version.
DecomposedUnversioned(parent, table, kids) ==
    [parent EXCEPT !.status    = IF @ = "DONE" THEN "DOING" ELSE @,
                   !.progress  = Progress(table, kids),
                   !.completed = FALSE]

\* The parent after create_subtasks_batch: reopened if it was DONE.
Decomposed(parent, table, kids) ==
    [parent EXCEPT !.status    = IF @ = "DONE" THEN "DOING" ELSE @,
                   !.progress  = Progress(table, kids),
                   !.completed = FALSE,
                   !.version   = @ + 1]

\* All subtasks, the index entries and the parent in one EXEC.
WriteSubtasks(p, plan, offset) ==
    LET S     == DOMAIN plan
        table == [t \in TaskId |->
                    IF t \in S THEN NewTask(p, plan[t].deps, offset + plan[t].order)
                               ELSE task[t]]
    IN
    /\ task' = [table EXCEPT ![p] = Decomposed(@, table, children[p] \cup S)]
    /\ userIndex' = userIndex \cup S
    /\ children' = [children EXCEPT ![p] = @ \cup S]

CreateSubtasks(p, key) ==
    /\ Unrecorded("batch", key)
    /\ Decomposable(p)
    /\ Bumpable(p)
    /\ \E S \in SUBSET {t \in TaskId : Fresh(t)} :
         /\ IsFiniteSet(S) /\ Cardinality(S) \in 1..MaxItems
         /\ \E plan \in Plan(S), offset \in {task[c].order : c \in children[p]} \cup {0} :
              /\ PlanAccepted(plan)
              /\ IsOrderOffset(offset, p)
              /\ WriteSubtasks(p, plan, offset)
         /\ idem' = Recorded("batch", key, S)

Bumped(record) == [record EXCEPT !.version = @ + 1]

\* update: the attributes are not modelled, so only the version moves.
Update(t, key) ==
    /\ Unrecorded("update", key)
    /\ t \in Live
    /\ Bumpable(t)
    /\ task' = [task EXCEPT ![t] = Bumped(@)]
    /\ idem' = Recorded("update", key, {t})
    /\ UNCHANGED <<userIndex, children>>

StatusAccepted(t, target, reopen, restore) ==
    LET parent == task[t].parent
        kids   == children[IF parent = None THEN t ELSE parent]
    IN
    /\ Transition(task[t].status, target, reopen, restore)
    /\ kids \subseteq Live
    /\ parent # None =>
         /\ parent \in Live
         /\ task[parent].status # "CANCELLED"
         /\ t \in kids
    /\ parent = None /\ kids # {} => (target = "DONE" <=> AllDone(task, kids))

\* Mutant: completed_at is set but never cleared.
WithStatusStamped(record, target) ==
    [record EXCEPT !.status    = target,
                   !.completed = @ \/ target = "DONE",
                   !.version   = @ + 1]

WithStatus(record, target) ==
    [record EXCEPT !.status    = target,
                   !.completed = (target = "DONE"),
                   !.version   = @ + 1]

\* update_status_with_rollup: the task and, for a subtask, its parent.
UpdateStatus(t, target, reopen, restore, key) ==
    LET parent == task[t].parent
        table  == [task EXCEPT ![t] = WithStatus(@, target)]
    IN
    /\ Unrecorded("status", key)
    /\ t \in Live
    /\ StatusAccepted(t, target, reopen, restore)
    /\ Bumpable(t)
    /\ parent # None => Bumpable(parent)
    /\ task' = IF parent = None THEN table
               ELSE [table EXCEPT ![parent] = RollUp(@, table, children[parent])]
    /\ idem' = Recorded("status", key, {t})
    /\ UNCHANGED <<userIndex, children>>

ParentsOf(S) == {task[t].parent : t \in S} \ {None}

\* Mutant: neither subtasks nor dependants block a deletion.
DeletionUnchecked(S) == S \subseteq userIndex

\* All targets are leaves, and no sibling that stays depends on one of them.
DeletionAccepted(S) ==
    /\ S \subseteq userIndex
    /\ \A t \in S : children[t] = {}
    /\ \A p \in ParentsOf(S) :
         /\ p \in Live
         /\ children[p] \subseteq Live
         /\ {t \in S : task[t].parent = p} \subseteq children[p]
         /\ \A c \in children[p] :
              task[c].parent = p /\ (c \notin S => task[c].deps \cap S = {})

\* delete (kind "delete", one target) and delete_batch: targets, indexes,
\* every affected parent once, and the record in one EXEC.
Delete(S, kind, key) ==
    /\ Unrecorded(kind, key)
    /\ IF kind = "delete" THEN Cardinality(S) = 1 ELSE S # {}
    /\ S \subseteq Live
    /\ DeletionAccepted(S)
    /\ \A p \in ParentsOf(S) : Bumpable(p)
    /\ task' = [t \in TaskId |->
                  IF t \in S THEN None
                  ELSE IF t \in ParentsOf(S)
                       THEN RollUp(task[t], task, children[t] \ S)
                       ELSE task[t]]
    /\ userIndex' = userIndex \ S
    /\ children' = [t \in TaskId |->
                      IF t \in S THEN {}
                      ELSE IF t \in ParentsOf(S) THEN children[t] \ S
                      ELSE children[t]]
    /\ idem' = Recorded(kind, key, S)

Next ==
    \/ \E t \in TaskId, key \in KeysOf["create"] : Create(t, key)
    \/ \E p \in TaskId, key \in KeysOf["batch"] : CreateSubtasks(p, key)
    \/ \E t \in TaskId, key \in KeysOf["update"] \cup {None} : Update(t, key)
    \/ \E t \in TaskId, target \in Status, reopen, restore \in BOOLEAN,
          key \in KeysOf["status"] \cup {None} :
         UpdateStatus(t, target, reopen, restore, key)
    \/ \E kind \in {"delete", "delete_batch"} : \E key \in KeysOf[kind] :
         \E S \in SUBSET TaskId : Delete(S, kind, key)

Spec == Init /\ [][Next]_vars

-----------------------------------------------------------------------------
(* Properties.                                                             *)

\* Every stored value has the shape its pydantic schema gives it.
TypeOK ==
    /\ task \in [TaskId -> TaskRecord \cup {None}]
    /\ userIndex \in SUBSET TaskId
    /\ children \in [TaskId -> SUBSET TaskId]
    /\ idem \in [IdemKey -> SUBSET TaskId]

\* The user's index names exactly the tasks whose key exists, whatever mix of
\* creations, decompositions and deletions came before: list_tasks, which
\* starts from the index, neither misses a task nor meets a dead id.
IndexComplete == userIndex = Live

\* The child index of a task and the parent_id of its subtasks say the same
\* thing, every subtask's parent exists and is a root: no deletion orphans a
\* subtask, and decomposition never nests.
TreeIntact ==
    /\ \A p \in TaskId : children[p] = {t \in Live : task[t].parent = p}
    /\ \A t \in Live : task[t].parent # None =>
          /\ task[t].parent \in Live
          /\ task[task[t].parent].parent = None

\* Whatever is deleted and however often a parent is decomposed again, a
\* dependency of a subtask is a live sibling that comes earlier in the order.
DepsIntact ==
    \A t \in Live : \A d \in task[t].deps :
        /\ d \in Live
        /\ task[t].parent # None
        /\ task[d].parent = task[t].parent
        /\ task[d].order < task[t].order

\* The constraint of PROJECT_TASK_BOOK 8.8 on a parent that is not cancelled:
\* it is DONE exactly when its subtasks that count are all DONE (and there is
\* one), through status changes, reopening, new batches and deletions.
DoneByChildren ==
    \A p \in Live : task[p].status # "CANCELLED" /\ children[p] # {} =>
        (task[p].status = "DONE" <=> AllDone(task, children[p]))

\* The stored progress of a parent is the share of its subtasks that are done,
\* cancelled ones not counted, although it is only recomputed by the operations
\* on its subtasks and copied by those on the parent itself.
ProgressAgrees ==
    \A p \in Live : children[p] # {} =>
        task[p].progress = Progress(task, children[p])

\* completed_at is set on the tasks that are DONE and on no other, although
\* four operations write status and completed_at by different rules.
CompletedIffDone ==
    \A t \in Live : task[t].completed <=> task[t].status = "DONE"

\* A status moves along the transition table, or it is a parent pulled to DONE
\* or back to DOING by its subtasks; nothing else moves out of CANCELLED or
\* completes a task.
LegalMoves ==
    [][\A t \in TaskId : task[t] # None /\ task'[t] # None =>
          \/ Transition(task[t].status, task'[t].status, TRUE, TRUE)
          \/ /\ children[t] # {}
             /\ task[t].status \in {"TODO", "BLOCKED"}
             /\ task'[t].status = "DONE"
             /\ AllDone(task', children'[t])]_vars

\* What an optimistic lock rests on: a stored task never changes in any field
\* without its version growing by one, so equal versions mean equal contents.
VersionGuardsContent ==
    [][\A t \in TaskId : task[t] # None /\ task'[t] # None =>
          task'[t] = task[t] \/ task'[t].version = task[t].version + 1]_vars

\* README and PROJECT_TASK_BOOK 8.8.2: a cancelled task can be restored to TODO
\* once the user confirms.  Stated for roots; a subtask waits for its parent.
CancelledRootRestorable ==
    \A t \in Live : task[t].status = "CANCELLED" /\ task[t].parent = None =>
        StatusAccepted(t, "TODO", FALSE, TRUE)

=============================================================================
