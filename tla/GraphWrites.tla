----------------------------- MODULE GraphWrites -----------------------------
(***************************************************************************)
(* The nodes of app/graph/nodes on the way to a write: they understand     *)
(* the change, prepare it for the user's confirmation, and carry it out.   *)
(***************************************************************************)
EXTENDS GraphState

\* An action waits for its confirmation; targets are the copies it was made of.
Prepared(h, type, targets) ==
    [h EXCEPT !.action = [type |-> type, targets |-> targets, status |-> "pending"],
              !.decision = None, !.error = FALSE]

-----------------------------------------------------------------------------
(* A new task.                                                             *)

\* The inputs collected so far, or the message.
ParseTask ==
    /\ At("parse_task")
    /\ \/ Leave(Failed(g))
       \/ Leave([g EXCEPT !.inputs = IF @ = <<>> THEN <<Text(g)>> ELSE @, !.error = FALSE])

ValidateTask ==
    /\ At("validate_task")
    /\ \/ Leave([Failed(g) EXCEPT !.valid = FALSE])
       \/ \E complete \in BOOLEAN :
             Leave([g EXCEPT !.valid = complete, !.missing = ~complete, !.error = FALSE])

CalculatePriority ==
    /\ At("calculate_priority")
    /\ \/ Leave(Failed(g))
       \/ Leave([g EXCEPT !.error = FALSE])

PrepareConfirmation ==
    /\ At("prepare_confirmation")
    /\ \/ Leave(Failed(g))
       \/ Leave(Prepared(g, "create_task", {}))

-----------------------------------------------------------------------------
(* A change of a task.                                                     *)

\* The model asks back or gives a patch.
ParseTaskUpdate ==
    LET inputs == IF g.uInputs # <<>> THEN g.uInputs
                  ELSE <<IF g.uMsg # None THEN g.uMsg ELSE Text(g)>>
    IN
    /\ At("parse_task_update")
    /\ \/ Leave(Failed(g))
       \/ Leave([g EXCEPT !.uInputs = inputs, !.needs = TRUE, !.patch = FALSE,
                          !.error = FALSE])
       \/ Leave([g EXCEPT !.uInputs = inputs, !.needs = FALSE, !.patch = TRUE,
                          !.update = None, !.error = FALSE])

PrepareTaskUpdate ==
    /\ At("prepare_task_update")
    /\ \/ Leave(Failed(g))
       \/ Leave(Prepared(g, "update_task", {g.selected}))

\* A task that has the status already is the turn's result.
PrepareStatusUpdate ==
    /\ At("prepare_status_update")
    /\ \/ /\ g.selected.status = g.target
          /\ Leave([g EXCEPT !.updated = g.selected.id, !.error = FALSE])
       \/ /\ g.selected.status # g.target
          /\ IF T!Transition(g.selected.status, g.target, TRUE, FALSE)
             THEN Leave(Prepared(g, "update_task_status", {g.selected}))
             ELSE Leave(Failed(g))

PrepareTaskRestore ==
    /\ At("prepare_task_restore")
    /\ \/ Leave(Failed(g))
       \/ /\ g.selected.status = "CANCELLED"
          /\ Leave(Prepared(g, "restore_task", {g.selected}))

-----------------------------------------------------------------------------
(* A decomposition.                                                        *)

\* The parent is read again: the plan is made for what it is now.
LoadDecompositionContext ==
    LET chosen == g.selected.id IN
    /\ At("load_decomposition_context")
    /\ \/ Leave(Failed(g))
       \/ /\ chosen \in Live /\ Parent[chosen] = None /\ task[chosen].status # "CANCELLED"
          /\ Leave([g EXCEPT !.selected = Copy(chosen), !.error = FALSE,
                             !.dMsg = IF @ # None THEN @ ELSE Text(g)])

GenerateSubtaskPlan ==
    /\ At("generate_subtask_plan")
    /\ \/ Leave(Failed(g))
       \/ Leave([g EXCEPT !.error = FALSE])

ValidateSubtaskPlan ==
    /\ At("validate_subtask_plan")
    /\ \/ Leave(Failed(g))
       \/ Leave([g EXCEPT !.error = FALSE])

PrepareSubtaskConfirmation ==
    /\ At("prepare_subtask_confirmation")
    /\ \/ Leave(Failed(g))
       \/ Leave(Prepared(g, "create_subtasks_batch", {g.selected}))

-----------------------------------------------------------------------------
(* A deletion.                                                             *)

\* One reference, not all that match it, and no filter: the task is found like
\* that of an update.
Single(D) ==
    /\ ~D.asks /\ ~D.all /\ D.scope = "ALL_TASKS" /\ Len(D.refs) = 1
    /\ ~D.query /\ ~D.keywords

ParseTaskDelete ==
    /\ At("parse_task_delete")
    /\ \/ Leave(Failed(g))
       \/ \E D \in Deletion[scene] :
             Leave([g EXCEPT !.plan = D, !.error = FALSE,
                             !.ref = IF Single(D) THEN Head(D.refs) ELSE None,
                             !.delRoute = IF D.asks THEN "clarification"
                                          ELSE IF Single(D) THEN "single" ELSE "batch"])

\* _prepare_delete_selection
AskWhich(h, kind, reference, found) ==
    [h EXCEPT !.deletion = [live |-> TRUE, plan |-> h.plan, kind |-> kind,
                            reference |-> reference, items |-> Items(found),
                            rParent |-> IF kind = "parent" THEN None ELSE h.rParent,
                            rRefs |-> h.rRefs],
              !.candidates = Items(found), !.error = FALSE]

\* Nothing to confirm: the answer says why.
NoPlan(h) == [h EXCEPT !.deletion = None, !.candidates = <<>>, !.error = FALSE]

\* The roots a subtask scope may mean; the one already chosen if it is still there.
ScopeParents ==
    LET roots == {t \in Live : Parent[t] = None} IN
    IF g.rParent # None THEN {g.rParent} \cap roots ELSE Matching(g.plan.parent, roots)

\* What a reference means among the tasks the filters keep.
Referenced(r, kept) ==
    IF r \in DOMAIN g.rRefs THEN {g.rRefs[r]} \cap kept ELSE Explicit(r, kept)

\* The plan made for the tasks picked; a task with subtasks blocks it, and so
\* does one another task depends on.
PlanFor(h, picked) ==
    \/ /\ Cardinality(picked) \notin 1..MaxBatch \/ \E t \in picked : ChildrenOf(t) # {}
       /\ Leave([g EXCEPT !.error = FALSE])
    \/ /\ Cardinality(picked) \in 1..MaxBatch /\ \A t \in picked : ChildrenOf(t) = {}
       /\ \/ /\ picked # Live
             /\ Leave([g EXCEPT !.error = FALSE])
          \/ Leave(Prepared(NoPlan(h), "delete_tasks_batch", {Copy(t) : t \in picked}))

\* The keywords may leave out tasks that were referenced by name.
Filtered(h, picked) ==
    \E left \in SUBSET picked :
        /\ g.plan.keywords \/ left = picked
        /\ PlanFor(h, left)

\* Mutant: references that mean the same task are not noticed.
PickReferencedLoosely(h, kept) ==
    LET refs == g.plan.refs
        missing == {i \in DOMAIN refs : Referenced(refs[i], kept) = {}}
        several == {i \in DOMAIN refs : Cardinality(Referenced(refs[i], kept)) > 1}
        picked == UNION {Referenced(refs[i], kept) : i \in DOMAIN refs}
    IN
    \/ /\ missing # {}
       /\ Leave(NoPlan(g))
    \/ /\ missing = {} /\ several # {}
       /\ LET first == CHOOSE i \in several : \A j \in several : i <= j
          IN  Leave(AskWhich(h, "task_reference", refs[first],
                             Referenced(refs[first], kept)))
    \/ /\ missing = {} /\ several = {}
       /\ Filtered(h, picked)

\* Every reference has to mean one task, and no two the same.
PickReferenced(h, kept) ==
    LET refs == g.plan.refs
        missing == {i \in DOMAIN refs : Referenced(refs[i], kept) = {}}
        several == {i \in DOMAIN refs : Cardinality(Referenced(refs[i], kept)) > 1}
        picked == UNION {Referenced(refs[i], kept) : i \in DOMAIN refs}
    IN
    \/ /\ \/ missing # {}
          \/ several = {} /\ Cardinality(picked) # Len(refs)
       /\ Leave(NoPlan(g))
    \/ /\ missing = {} /\ several # {}
       /\ LET first == CHOOSE i \in several : \A j \in several : i <= j
          IN  Leave(AskWhich(h, "task_reference", refs[first],
                             Referenced(refs[first], kept)))
    \/ /\ missing = {} /\ several = {} /\ Cardinality(picked) = Len(refs)
       /\ Filtered(h, picked)

PrepareTaskDeleteBatch ==
    /\ At("prepare_task_delete_batch")
    /\ \/ Leave(Failed(g))
       \/ /\ g.plan.scope = "DIRECT_CHILDREN" /\ ScopeParents = {}
          /\ Leave(NoPlan(g))
       \/ /\ g.plan.scope = "DIRECT_CHILDREN" /\ Cardinality(ScopeParents) > 1
          /\ Leave(AskWhich(g, "parent", g.plan.parent, ScopeParents))
       \/ /\ g.plan.scope = "DIRECT_CHILDREN" => Cardinality(ScopeParents) = 1
          /\ LET scope == IF g.plan.scope = "DIRECT_CHILDREN"
                          THEN UNION {ChildrenOf(p) : p \in ScopeParents} ELSE Live
                 h == IF g.plan.scope = "DIRECT_CHILDREN"
                      THEN [g EXCEPT !.rParent = CHOOSE p \in ScopeParents : TRUE] ELSE g
             IN
             \E kept \in SUBSET scope :
                /\ g.plan.query \/ kept = scope
                /\ \/ g.plan.refs # <<>> /\ PickReferenced(h, kept)
                   \/ g.plan.refs = <<>> /\ Filtered(h, kept)

\* A task with subtasks, or one a sibling depends on, is not deleted.
PrepareTaskDelete ==
    LET t == g.selected.id IN
    /\ At("prepare_task_delete")
    /\ \/ Leave(Failed(g))
       \/ /\ ChildrenOf(t) # {} \/ (Parent[t] # None /\ ChildrenOf(Parent[t]) # {t})
          /\ Leave([g EXCEPT !.error = FALSE])
       \/ /\ ChildrenOf(t) = {}
          /\ Leave(Prepared(g, "delete_task", {g.selected}))

-----------------------------------------------------------------------------
(* The confirmation.                                                       *)

Decision == {"approve", "reject", "edit", "regenerate"}

\* What may be edited or generated again.
Generated == {"create_task", "create_subtasks_batch"}

\* An edit may have the wrong format.
Confirm(d) ==
    /\ At("request_confirmation")
    /\ \/ /\ d \in {"approve", "reject"} \/ g.action.type \in Generated
          /\ Leave([g EXCEPT !.decision = d, !.error = FALSE,
                             !.action.status = CASE d = "approve" -> "approved"
                                                 [] d = "reject"  -> "rejected"
                                                 [] OTHER         -> "cancelled"])
       \/ /\ d \notin {"approve", "reject"}
          /\ d = "edit" \/ g.action.type \notin Generated
          /\ Leave(Failed(g))

-----------------------------------------------------------------------------
(* The writes.  Each may fail, and leave the tasks alone or not; when it   *)
(* writes, its targets are what the user confirmed.                        *)

Target == (CHOOSE c \in g.action.targets : TRUE).id

\* Mutant: the versions are not compared.
CurrentInAnyVersion == \A c \in g.action.targets : c.id \in Live

\* The targets exist in the versions the action was prepared for.
Current == \A c \in g.action.targets : c.id \in Live /\ task[c.id].version = c.version

Bumped(table, t) == [table EXCEPT ![t].version = @ + 1]

\* The table after the parents of the tasks in S have been rolled up.
RolledUp(table, S) ==
    LET parents == {Parent[t] : t \in S} \ {None}
        kids(p) == {x \in TaskId : table[x] \notin {None, Gone} /\ Parent[x] = p}
    IN  [t \in TaskId |->
            IF t \in parents
            THEN [status  |-> T!RolledStatus(table[t].status, T!AllDone(table, kids(t))),
                  version |-> table[t].version + 1]
            ELSE table[t]]

\* The bound on versions.
Bounded(table) ==
    \A t \in TaskId : table[t] \notin {None, Gone} => table[t].version <= MaxVersion

\* A write replaces the tasks by table and leaves the graph state h.  The reply
\* of the store may be lost: the tasks are written, and the node has failed.
Written(table, h) ==
    /\ Bounded(table) /\ task' = table
    /\ Leave([h EXCEPT !.error = FALSE]) \/ Leave(Failed(g))

\* Nothing was written.
ExecutionFails ==
    /\ \E node \in R!Executing \cup {"execute_task_restore"} : At(node)
    /\ Leave(Failed(g))

ExecuteCreateTask ==
    /\ g.at = "execute_create_task"
    /\ \E t \in Unused :
          /\ Parent[t] = None
          /\ Written([task EXCEPT ![t] = [status |-> "TODO", version |-> 1]],
                     [g EXCEPT !.created = t])

ExecuteTaskUpdate ==
    LET table == Bumped(task, Target) IN
    /\ g.at = "execute_task_update" /\ Current
    /\ Written(table, [g EXCEPT !.updated = Target, !.selected = CopyIn(table, Target)])

\* The conditions of the store: see StatusAccepted in TaskStore.
Accepted(t, status) ==
    /\ T!Transition(task[t].status, status, TRUE, TRUE)
    /\ Parent[t] # None => task[Parent[t]].status # "CANCELLED"
    /\ ChildrenOf(t) # {} => (status = "DONE" <=> T!AllDone(task, ChildrenOf(t)))

WithStatus(t, status) ==
    RolledUp([task EXCEPT ![t] = [status |-> status, version |-> @.version + 1]], {t})

ExecuteStatusUpdate ==
    LET table == WithStatus(Target, g.target) IN
    /\ g.at = "execute_status_update" /\ Current /\ Accepted(Target, g.target)
    /\ Written(table, [g EXCEPT !.updated = Target, !.selected = CopyIn(table, Target)])

\* The turn goes on with what the user wanted in the first place.
ExecuteTaskRestore ==
    LET table == WithStatus(Target, "TODO") IN
    /\ g.at = "execute_task_restore" /\ Current /\ Accepted(Target, "TODO")
    /\ Written(table, [g EXCEPT !.updated = Target, !.selected = CopyIn(table, Target),
                                !.action = None, !.decision = None])

ExecuteCreateSubtasksBatch ==
    /\ g.at = "execute_create_subtasks_batch" /\ Current
    /\ task[Target].status # "CANCELLED"
    /\ \E S \in SUBSET {t \in Unused : Parent[t] = Target} :
          LET new == [t \in TaskId |-> IF t \in S THEN [status |-> "TODO", version |-> 1]
                                       ELSE task[t]]
              table == RolledUp(new, S)
          IN  /\ S # {}
              /\ Written(table, [g EXCEPT !.selected = CopyIn(table, Target)])

Deleted(h, S) == [h EXCEPT !.deleted = S, !.selected = None, !.updated = None]

Removed(S) == RolledUp([t \in TaskId |-> IF t \in S THEN Gone ELSE task[t]], S)

ExecuteTaskDelete ==
    /\ g.at = "execute_task_delete" /\ Current /\ ChildrenOf(Target) = {}
    /\ Written(Removed({Target}), Deleted(g, {Target}))

\* All of the batch or nothing.
ExecuteTaskDeleteBatch ==
    LET S == {c.id : c \in g.action.targets} IN
    /\ g.at = "execute_task_delete_batch" /\ Current
    /\ \A t \in S : ChildrenOf(t) = {}
    /\ Written(Removed(S), Deleted(g, S))

Preparing ==
    \/ ParseTask \/ ValidateTask \/ CalculatePriority \/ PrepareConfirmation
    \/ ParseTaskUpdate \/ PrepareTaskUpdate \/ PrepareStatusUpdate \/ PrepareTaskRestore
    \/ LoadDecompositionContext \/ GenerateSubtaskPlan \/ ValidateSubtaskPlan
    \/ PrepareSubtaskConfirmation \/ ParseTaskDelete \/ PrepareTaskDeleteBatch
    \/ PrepareTaskDelete

Executing ==
    \/ ExecutionFails \/ ExecuteCreateTask \/ ExecuteTaskUpdate \/ ExecuteStatusUpdate
    \/ ExecuteTaskRestore \/ ExecuteCreateSubtasksBatch \/ ExecuteTaskDelete
    \/ ExecuteTaskDeleteBatch
=============================================================================
