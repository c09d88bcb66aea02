---------------------------- MODULE TaskGraphProofs ----------------------------
(***************************************************************************)
(* TLAPS proofs of TaskGraph's theorems: how the tasks change under the    *)
(* graph, the nodes that write, the other threads, and what follows from   *)
(* the inductive invariant of GraphStateProofs.                            *)
(***************************************************************************)
EXTENDS GraphNodesProofs

-----------------------------------------------------------------------------
(* How the tasks change.                                                   *)

\* No task comes back, and a task's version grows with each of its changes.
Evolves(old, new) ==
    \A t \in TaskId : old[t] # None =>
        /\ new[t] # None
        /\ new[t] \in TaskRecord =>
             /\ old[t] \in TaskRecord /\ old[t].version <= new[t].version
             /\ old[t].version = new[t].version => old[t].status = new[t].status

\* Tasks whose versions may be beyond the bound.
Unbounded == [TaskId -> [status : Status, version : Nat \ {0}] \cup {None, Gone}]

\* The types of a task's fields.
LEMMA RecordFields ==
    /\ TaskRecord \subseteq [status : Status, version : Nat \ {0}]
    /\ {None, Gone} \cap [status : Status, version : Nat \ {0}] = {}
    /\ \A r \in [status : Status, version : Nat \ {0}] : r.version <= MaxVersion => r \in TaskRecord
<1>1. Version \subseteq Nat \ {0} /\ \A v \in Nat \ {0} : v <= MaxVersion => v \in Version
  BY GraphAssumption DEF Version
<1>2. [status : Status, version : Nat \ {0}] \subseteq [status : Status, version : Nat]
  OBVIOUS
<1>3. {None, Gone} \cap [status : Status, version : Nat] = {}
  BY GraphAssumption
<1> QED BY <1>1, <1>2, <1>3 DEF TaskRecord

\* Tasks that satisfy their invariant have the types.
LEMMA TreeTyped ==
    ASSUME NEW table, Tree(table)
    PROVE  /\ table \in Unbounded
           /\ \A t \in TaskId : table[t] \notin {None, Gone} <=> table[t] \in TaskRecord
BY RecordFields DEF Tree, Unbounded

\* A roll-up keeps which tasks there are, and gives each parent a new version.
LEMMA RollUpKeeps ==
    ASSUME NEW table \in Unbounded, NEW S \in SUBSET TaskId,
           \A t \in S : Parent[t] # None => table[Parent[t]] \notin {None, Gone},
           Bounded(RolledUp(table, S))
    PROVE  LET new == RolledUp(table, S) IN
           /\ new \in [TaskId -> TaskRecord \cup {None, Gone}]
           /\ \A t \in TaskId :
                /\ table[t] \in {None, Gone} => new[t] = table[t]
                /\ table[t] \notin {None, Gone} =>
                     /\ new[t] \in TaskRecord
                     /\ \/ new[t] = table[t]
                        \/ new[t].version = table[t].version + 1 /\ \E x \in S : Parent[x] = t
<1> DEFINE new == RolledUp(table, S)
           parents == {Parent[t] : t \in S} \ {None}
           kids(p) == {x \in TaskId : table[x] \notin {None, Gone} /\ Parent[x] = p}
           done(t) == T!AllDone(table, kids(t))
           rolled(t) == [status  |-> T!RolledStatus(table[t].status, done(t)),
                         version |-> table[t].version + 1]
<1> HIDE DEF done
<1>1. \A t \in TaskId : new[t] = IF t \in parents THEN rolled(t) ELSE table[t]
  BY DEF RolledUp, done
<1>2. DOMAIN new = TaskId /\ new = [t \in TaskId |-> new[t]]
  BY DEF RolledUp
<1> HIDE DEF new
<1>3. ASSUME NEW t \in TaskId, table[t] \in {None, Gone}
      PROVE  new[t] = table[t]
  <2>1. t \notin parents
    BY <1>3
  <2> QED BY <1>1, <2>1
<1>4. ASSUME NEW t \in TaskId, table[t] \notin {None, Gone}
      PROVE  /\ new[t] \in TaskRecord
             /\ \/ new[t] = table[t]
                \/ new[t].version = table[t].version + 1 /\ \E x \in S : Parent[x] = t
  <2>1. table[t] \in [status : Status, version : Nat \ {0}]
    BY <1>4 DEF Unbounded
  <2>2. T!RolledStatus(table[t].status, done(t)) \in Status
    BY <2>1 DEF T!RolledStatus, Status
  <2>3. table[t].version + 1 \in Nat \ {0}
    BY <2>1
  <2>4. rolled(t) \in [status : Status, version : Nat \ {0}]
    BY <2>2, <2>3
  <2>5. new[t] \in [status : Status, version : Nat \ {0}]
    BY <1>1, <2>1, <2>4
  <2>6. new[t].version <= MaxVersion
    BY <2>5, RecordFields DEF Bounded, new
  <2>7. new[t] \in TaskRecord
    BY <2>5, <2>6, RecordFields
  <2>8. CASE t \in parents
    <3>1. new[t] = rolled(t) /\ \E x \in S : Parent[x] = t
      BY <1>1, <2>8
    <3>2. rolled(t).version = table[t].version + 1
      OBVIOUS
    <3> QED BY <2>7, <3>1, <3>2
  <2>9. CASE t \notin parents
    BY <1>1, <2>7, <2>9
  <2> QED BY <2>8, <2>9
<1>5. new \in [TaskId -> TaskRecord \cup {None, Gone}]
  <2>1. \A t \in TaskId : new[t] \in TaskRecord \cup {None, Gone}
    BY <1>3, <1>4
  <2> QED BY <1>2, <2>1
<1> QED BY <1>3, <1>4, <1>5 DEF new

\* Copies remain what they were: an earlier version, or the present one.
LEMMA CopiesKept ==
    ASSUME NEW old, Tree(old), NEW new, Tree(new), Evolves(old, new),
           NEW c \in TaskCopy, CopyOK(old, c)
    PROVE  CopyOK(new, c)
<1>1. c.id \in TaskId /\ c.version \in Nat
  BY GraphAssumption DEF TaskCopy, Version
<1>2. old[c.id] # None /\ new[c.id] # None
  BY <1>1 DEF CopyOK, Evolves
<1>3. CASE new[c.id] \in TaskRecord
  <2>1. /\ old[c.id] \in TaskRecord /\ old[c.id].version <= new[c.id].version
        /\ old[c.id].version = new[c.id].version => old[c.id].status = new[c.id].status
    BY <1>1, <1>2, <1>3 DEF Evolves
  <2>2. /\ c.version <= old[c.id].version
        /\ c.version = old[c.id].version => c.status = old[c.id].status
    BY <2>1 DEF CopyOK
  <2>3. old[c.id].version \in Nat /\ new[c.id].version \in Nat
    BY <1>3, <2>1, RecordFields
  <2>4. /\ c.version <= new[c.id].version
        /\ c.version = new[c.id].version => c.status = new[c.id].status
    BY <1>1, <2>1, <2>2, <2>3
  <2> QED BY <1>2, <2>4 DEF CopyOK
<1> QED BY <1>2, <1>3 DEF CopyOK

\* A graph state stays sound while its tasks change.
LEMMA SoundLater ==
    ASSUME NEW old, Tree(old), NEW new, Tree(new), Evolves(old, new),
           NEW list, NEW h, Sound(old, list, h)
    PROVE  Sound(new, list, h)
<1>1. /\ h.selected \in TaskCopy \cup {None} /\ h.action \in PendingAction \cup {None}
      /\ CopiesOK(old, h)
  BY DEF Sound, Shape, Fields, FieldType
<1>2. h.selected # None => CopyOK(new, h.selected)
  BY <1>1, CopiesKept DEF CopiesOK
<1>3. ASSUME h.action # None, NEW c \in h.action.targets
      PROVE  CopyOK(new, c)
  <2>1. c \in TaskCopy
    BY <1>1, <1>3 DEF PendingAction
  <2> QED BY <1>1, <1>3, <2>1, CopiesKept DEF CopiesOK
<1>4. CopiesOK(new, h)
  BY <1>2, <1>3 DEF CopiesOK
<1> QED BY <1>4 DEF Sound

\* A task gets another status.
LEMMA StatusWritten ==
    ASSUME Tree(task), NEW t \in Live, NEW status \in Status, Bounded(WithStatus(t, status))
    PROVE  LET table == WithStatus(t, status) IN
           Tree(table) /\ Evolves(task, table) /\ table[t] \in TaskRecord
<1> DEFINE old == [task EXCEPT ![t] = [status |-> status, version |-> @.version + 1]]
           table == RolledUp(old, {t})
<1>1. /\ t \in TaskId /\ task[t] \in TaskRecord /\ task \in Unbounded
      /\ \A x \in TaskId : task[x] \notin {None, Gone} <=> task[x] \in TaskRecord
  BY TreeTyped DEF Live
<1>2. \A x \in TaskId : task[x] \in TaskRecord => task[x].version \in Nat \ {0}
  BY RecordFields
<1>3. /\ old \in Unbounded
      /\ \A x \in TaskId \ {t} : old[x] = task[x]
      /\ old[t] \in [status : Status, version : Nat \ {0}] /\ old[t].version = task[t].version + 1
  BY <1>1, <1>2 DEF Unbounded
<1>4. old[t] \notin {None, Gone}
  BY <1>3, RecordFields
<1>5. WithStatus(t, status) = table
  BY DEF WithStatus
<1> HIDE DEF old
<1>6. Parent[t] # None => old[Parent[t]] \notin {None, Gone}
  BY <1>1, <1>3, <1>4, GraphAssumption DEF Tree
<1>7. {t} \in SUBSET TaskId /\ Bounded(RolledUp(old, {t}))
  BY <1>1, <1>5
<1>8. /\ table \in [TaskId -> TaskRecord \cup {None, Gone}]
      /\ \A x \in TaskId :
            /\ old[x] \in {None, Gone} => table[x] = old[x]
            /\ old[x] \notin {None, Gone} =>
                 table[x] \in TaskRecord /\ (table[x] = old[x] \/ table[x].version = old[x].version + 1)
  BY <1>3, <1>6, <1>7, RollUpKeeps
<1> HIDE DEF table
<1>9. \A x \in TaskId : table[x] \in TaskRecord <=> task[x] \in TaskRecord
  BY <1>1, <1>3, <1>4, <1>8, RecordFields
<1>10. Tree(table)
  BY <1>8, <1>9, GraphAssumption DEF Tree
<1>11. ASSUME NEW x \in TaskId, task[x] # None
       PROVE  /\ table[x] # None
              /\ table[x] \in TaskRecord =>
                   /\ task[x] \in TaskRecord /\ task[x].version <= table[x].version
                   /\ task[x].version = table[x].version => task[x].status = table[x].status
  <2>1. table[x] # None
    BY <1>3, <1>4, <1>8, <1>11, RecordFields
  <2>2. ASSUME table[x] \in TaskRecord
        PROVE  /\ task[x] \in TaskRecord /\ task[x].version <= table[x].version
               /\ task[x].version = table[x].version => task[x].status = table[x].status
    <3>1. task[x] \in TaskRecord /\ task[x].version \in Nat \ {0}
      BY <1>2, <1>9, <2>2
    <3>2. CASE x = t
      BY <1>3, <1>4, <1>8, <3>1, <3>2
    <3>3. CASE x # t
      BY <1>1, <1>3, <1>8, <3>1, <3>3
    <3> QED BY <3>2, <3>3
  <2> QED BY <2>1, <2>2
<1>12. Evolves(task, table)
  BY <1>11 DEF Evolves
<1> QED BY <1>1, <1>5, <1>9, <1>10, <1>12

\* A task changes, and stays what it is.
LEMMA UpdateWritten ==
    ASSUME Tree(task), NEW t \in Live, Bounded(Bumped(task, t))
    PROVE  LET table == Bumped(task, t) IN
           Tree(table) /\ Evolves(task, table) /\ table[t] \in TaskRecord
<1> DEFINE table == Bumped(task, t)
<1>1. /\ t \in TaskId /\ task[t] \in TaskRecord /\ task \in Unbounded
      /\ \A x \in TaskId : task[x] \notin {None, Gone} <=> task[x] \in TaskRecord
  BY TreeTyped DEF Live
<1>2. \A x \in TaskId : task[x] \in TaskRecord => task[x].version \in Nat \ {0}
  BY RecordFields
<1>3. /\ table \in Unbounded
      /\ \A x \in TaskId \ {t} : table[x] = task[x]
      /\ table[t] \in [status : Status, version : Nat \ {0}]
      /\ table[t].version = task[t].version + 1 /\ table[t].status = task[t].status
  BY <1>1, <1>2 DEF Unbounded, Bumped
<1> HIDE DEF table
<1>4. table[t] \in TaskRecord
  BY <1>1, <1>3, RecordFields DEF Bounded, table
<1>5. \A x \in TaskId : table[x] \in TaskRecord <=> task[x] \in TaskRecord
  BY <1>1, <1>3, <1>4
<1>6. table \in [TaskId -> TaskRecord \cup {None, Gone}]
  <2>1. \A x \in TaskId : table[x] \in TaskRecord \cup {None, Gone}
    BY <1>1, <1>3, <1>4
  <2> QED BY <1>3, <2>1 DEF Unbounded
<1>7. Tree(table)
  BY <1>5, <1>6, GraphAssumption DEF Tree
<1>8. ASSUME NEW x \in TaskId, task[x] # None
      PROVE  /\ table[x] # None
             /\ table[x] \in TaskRecord =>
                  /\ task[x] \in TaskRecord /\ task[x].version <= table[x].version
                  /\ task[x].version = table[x].version => task[x].status = table[x].status
  <2>1. CASE x = t
    BY <1>1, <1>2, <1>3, <1>4, <2>1, RecordFields
  <2>2. CASE x # t
    BY <1>2, <1>3, <1>8, <2>2
  <2> QED BY <2>1, <2>2
<1>9. Evolves(task, table)
  BY <1>8 DEF Evolves
<1> QED BY <1>4, <1>7, <1>9 DEF table

\* A new task.
LEMMA TaskWritten ==
    ASSUME Tree(task), NEW t \in Unused, Parent[t] = None
    PROVE  LET table == [task EXCEPT ![t] = [status |-> "TODO", version |-> 1]] IN
           Tree(table) /\ Evolves(task, table)
<1> DEFINE table == [task EXCEPT ![t] = [status |-> "TODO", version |-> 1]]
<1>1. t \in TaskId /\ task[t] = None /\ task \in [TaskId -> TaskRecord \cup {None, Gone}]
  BY DEF Unused, Tree
<1>2. [status |-> "TODO", version |-> 1] \in TaskRecord
  BY GraphAssumption DEF TaskRecord, Status, Version
<1>3. /\ table \in [TaskId -> TaskRecord \cup {None, Gone}]
      /\ \A x \in TaskId \ {t} : table[x] = task[x]
      /\ table[t] \in TaskRecord
  BY <1>1, <1>2
<1> HIDE DEF table
<1>4. Tree(table)
  BY <1>1, <1>3, GraphAssumption DEF Tree
<1>5. \A x \in TaskId : task[x] \in TaskRecord => task[x].version \in Nat \ {0}
  BY RecordFields
<1>6. Evolves(task, table)
  BY <1>1, <1>3, <1>5 DEF Evolves
<1> QED BY <1>4, <1>6 DEF table

\* New subtasks of a task.
LEMMA SubtasksWritten ==
    ASSUME Tree(task), NEW p \in Live, NEW S \in SUBSET {t \in Unused : Parent[t] = p},
           NEW table,
           table = RolledUp([t \in TaskId |-> IF t \in S THEN [status |-> "TODO", version |-> 1]
                                              ELSE task[t]], S),
           Bounded(table)
    PROVE  Tree(table) /\ Evolves(task, table) /\ table[p] \in TaskRecord
<1> DEFINE new == [t \in TaskId |-> IF t \in S THEN [status |-> "TODO", version |-> 1]
                                    ELSE task[t]]
<1>1. /\ p \in TaskId /\ task[p] \in TaskRecord /\ task \in Unbounded
      /\ \A x \in TaskId : task[x] \notin {None, Gone} <=> task[x] \in TaskRecord
  BY TreeTyped DEF Live
<1>2. \A x \in TaskId : task[x] \in TaskRecord => task[x].version \in Nat \ {0}
  BY RecordFields
<1>3. S \in SUBSET TaskId /\ \A t \in S : task[t] = None /\ Parent[t] = p
  BY DEF Unused
<1>4. [status |-> "TODO", version |-> 1] \in TaskRecord
  BY GraphAssumption DEF TaskRecord, Status, Version
<1>5. /\ new \in Unbounded
      /\ \A x \in TaskId \ S : new[x] = task[x]
      /\ \A x \in S : new[x] \in TaskRecord
  BY <1>1, <1>3, <1>4, RecordFields DEF Unbounded
<1>6. table = RolledUp(new, S) /\ Bounded(RolledUp(new, S))
  OBVIOUS
<1> HIDE DEF new
<1>7. p \notin S /\ new[p] = task[p]
  BY <1>1, <1>3, <1>5
<1>8. \A t \in S : Parent[t] # None => new[Parent[t]] \notin {None, Gone}
  BY <1>1, <1>3, <1>7
<1>9. /\ table \in [TaskId -> TaskRecord \cup {None, Gone}]
      /\ \A x \in TaskId :
            /\ new[x] \in {None, Gone} => table[x] = new[x]
            /\ new[x] \notin {None, Gone} =>
                 table[x] \in TaskRecord /\ (table[x] = new[x] \/ table[x].version = new[x].version + 1)
  <2>1. /\ new \in Unbounded /\ S \in SUBSET TaskId /\ Bounded(RolledUp(new, S))
        /\ \A t \in S : Parent[t] # None => new[Parent[t]] \notin {None, Gone}
    BY <1>3, <1>5, <1>6, <1>8
  <2>2. table = RolledUp(new, S)
    BY <1>6
  <2> QED BY ONLY <2>1, <2>2, RollUpKeeps
<1>10. \A x \in TaskId : table[x] \in TaskRecord <=> x \in S \/ task[x] \in TaskRecord
  BY <1>1, <1>5, <1>9, RecordFields
<1>11. Tree(table)
  <2>1. ASSUME NEW x \in TaskId, table[x] \in TaskRecord, Parent[x] # None
        PROVE  table[Parent[x]] \in TaskRecord
    BY <1>1, <1>3, <1>10, <2>1, GraphAssumption DEF Tree
  <2> QED BY <1>9, <2>1 DEF Tree
<1>12. ASSUME NEW x \in TaskId, task[x] # None
       PROVE  /\ table[x] # None
              /\ table[x] \in TaskRecord =>
                   /\ task[x] \in TaskRecord /\ task[x].version <= table[x].version
                   /\ task[x].version = table[x].version => task[x].status = table[x].status
  <2>1. new[x] = task[x]
    BY <1>3, <1>5, <1>12
  <2> QED BY <1>1, <1>2, <1>9, <1>12, <2>1, RecordFields
<1>13. Evolves(task, table)
  BY <1>12 DEF Evolves
<1> QED BY <1>1, <1>10, <1>11, <1>13

\* Tasks without subtasks are deleted.
LEMMA DeletionWritten ==
    ASSUME Tree(task), NEW S \in SUBSET Live, \A t \in S : ChildrenOf(t) = {},
           NEW table, table = Removed(S), Bounded(table)
    PROVE  Tree(table) /\ Evolves(task, table)
<1> DEFINE new == [t \in TaskId |-> IF t \in S THEN Gone ELSE task[t]]
<1>1. /\ S \in SUBSET TaskId /\ task \in Unbounded
      /\ \A x \in TaskId : task[x] \notin {None, Gone} <=> task[x] \in TaskRecord
  BY TreeTyped DEF Live
<1>2. \A x \in TaskId : task[x] \in TaskRecord => task[x].version \in Nat \ {0}
  BY RecordFields
<1>3. \A x \in TaskId : task[x] \in TaskRecord /\ Parent[x] # None =>
        Parent[x] \in TaskId \ S /\ task[Parent[x]] \in TaskRecord
  BY <1>1, GraphAssumption DEF Tree, ChildrenOf, Live
<1>4. \A t \in S : task[t] \in TaskRecord
  BY <1>1 DEF Live
<1>5. /\ new \in Unbounded
      /\ \A x \in TaskId \ S : new[x] = task[x]
      /\ \A x \in S : new[x] = Gone
  BY <1>1 DEF Unbounded
<1>6. table = RolledUp(new, S)
  BY DEF Removed
<1> HIDE DEF new
<1>7. \A t \in S : Parent[t] # None => new[Parent[t]] \notin {None, Gone}
  BY <1>1, <1>3, <1>4, <1>5
<1>8. /\ table \in [TaskId -> TaskRecord \cup {None, Gone}]
      /\ \A x \in TaskId :
            /\ new[x] \in {None, Gone} => table[x] = new[x]
            /\ new[x] \notin {None, Gone} =>
                 table[x] \in TaskRecord /\ (table[x] = new[x] \/ table[x].version = new[x].version + 1)
  BY <1>1, <1>5, <1>6, <1>7, RollUpKeeps
<1>9. \A x \in TaskId : table[x] \in TaskRecord <=> x \notin S /\ task[x] \in TaskRecord
  BY <1>1, <1>5, <1>8, RecordFields
<1>10. Tree(table)
  <2>1. ASSUME NEW x \in TaskId, table[x] \in TaskRecord, Parent[x] # None
        PROVE  table[Parent[x]] \in TaskRecord
    BY <1>3, <1>9, <2>1
  <2> QED BY <1>8, <2>1 DEF Tree
<1>11. ASSUME NEW x \in TaskId, task[x] # None
       PROVE  /\ table[x] # None
              /\ table[x] \in TaskRecord =>
                   /\ task[x] \in TaskRecord /\ task[x].version <= table[x].version
                   /\ task[x].version = table[x].version => task[x].status = table[x].status
  <2>1. CASE x \in S
    BY <1>5, <1>8, <1>9, <2>1, GraphAssumption
  <2>2. CASE x \notin S
    BY <1>1, <1>2, <1>5, <1>8, <1>11, <2>2, RecordFields
  <2> QED BY <2>1, <2>2
<1>12. Evolves(task, table)
  BY <1>11 DEF Evolves
<1> QED BY <1>10, <1>12

-----------------------------------------------------------------------------
(* The nodes that write.                                                   *)

\* The fields that a change of a task sets.
Changed == {"updated", "selected", "action", "decision", "error"}

\* The task a write has changed is the one selected.
LEMMA ChangedSound ==
    ASSUME NEW table, NEW list, NEW h, Sound(table, list, h),
           NEW t \in TaskId, table[t] \in TaskRecord, h.created = None,
           NEW k, Shape(k), SameBut(Changed, k, h), k.selected = CopyIn(table, t),
           k.updated \in {None, t}, k.action \in {None, h.action}
    PROVE  Sound(table, list, k) /\ k.selected # None
<1>1. k.selected.id = t /\ k.selected.status = table[t].status
      /\ k.selected.version = table[t].version
  BY DEF CopyIn
<1>2. table[t] # None /\ table[t].version \in Nat
  BY RecordFields
<1>3. CopyOK(table, k.selected)
  BY <1>1, <1>2 DEF CopyOK
<1>4. CopiesOK(table, k)
  BY <1>3 DEF CopiesOK, Sound
<1>5. FocusOK(k)
  BY <1>1 DEF FocusOK, SameBut, Fields, Changed
<1>6. k.selected # None
  <2>1. k.selected \in TaskCopy
    BY <1>2 DEF CopyIn, TaskCopy, TaskRecord
  <2> QED BY <2>1, GraphAssumption
<1> QED BY <1>4, <1>5, <1>6 DEF Sound, ListsOK, TextsOK, SameBut, Fields, Changed

\* What the user confirmed is about the task selected, which is as it was then.
LEMMA TargetIsSelected ==
    ASSUME IInv, Current,
           g.at \in {"execute_task_update", "execute_status_update", "execute_task_restore",
                     "execute_create_subtasks_batch", "execute_task_delete"}
    PROVE  /\ Target \in Live /\ Target \in TaskId /\ Target = g.selected.id
           /\ g.selected # None /\ g.updated \in {None, Target}
<1>1. /\ Sound(task, heard, g) /\ ActionOK(g) /\ g.action.type = Executes(g.at)
  BY DEF IInv, Ready, R!Executing
<1>2. g.action.type \notin {"create_task", "delete_tasks_batch"}
  BY <1>1 DEF Executes
<1>3. /\ g.action.targets # {} /\ g.selected # None
      /\ \A c \in g.action.targets : c.id = g.selected.id
  BY <1>1, <1>2 DEF ActionOK
<1>4. Target \in Live /\ Target = g.selected.id
  BY <1>3 DEF Target, Current
<1> QED BY <1>1, <1>3, <1>4 DEF Live, Sound, FocusOK

\* A write that ends the turn.
LEMMA WritesAndEnds ==
    ASSUME IInv, NEW table, Tree(table), task' = table, UNCHANGED <<scene, heard>>,
           NEW k, Sound(table, heard, k), Once(k), k.error = FALSE, k.at \in R!Executing,
           g' = [k EXCEPT !.at = R!Successor(k)]
    PROVE  IInv'
<1>1. R!Successor(k) = "finalize_turn"
  BY RoutesOfExecution
<1>2. Ready("finalize_turn", k)
  BY DEF Ready, R!Classified, R!Answering, R!Executing, Drafting, Updating, Decomposing,
         Changing
<1>3. "finalize_turn" \in R!Nodes
  BY DEF R!Nodes
<1>4. Sound(table, heard, g') /\ Ready(g'.at, g')
  BY <1>1, <1>2, <1>3, Enters
<1> QED BY <1>4 DEF IInv

\* What an executing node starts from.
LEMMA Executable ==
    ASSUME IInv, g.at \in R!Executing \cup {"execute_task_restore"}
    PROVE  /\ Sound(task, heard, g) /\ Shape(g) /\ Tree(task) /\ Working(g) /\ ActionOK(g)
           /\ g.action.type = Executes(g.at) /\ g.created = None /\ Once(g)
BY DEF IInv, Ready, Sound, Working, Quiet, Once

\* Nothing was written.
LEMMA ExecutionFailsStep ==
    ASSUME IInv, ExecutionFails
    PROVE  IInv'
<1>1. g.at \in R!Executing \cup {"execute_task_restore"} /\ UNCHANGED task /\ Leave(Failed(g))
  BY DEF ExecutionFails, At
<1> QED BY <1>1, Executable, Fails DEF R!Branching, R!Executing

\* The tasks were written, and nobody knows: the reply of the store was lost.
LEMMA ReplyLost ==
    ASSUME IInv, NEW table, Tree(table), Evolves(task, table), task' = table,
           Leave(Failed(g)), g.at \in R!Executing \cup {"execute_task_restore"}
    PROVE  IInv'
<1> DEFINE h == Failed(g)
<1>1. Sound(table, heard, g) /\ Once(g)
  BY Executable, SoundLater
<1>2. Sound(table, heard, h) /\ h.error = TRUE /\ h.at = g.at
  BY <1>1, FailedSound
<1>3. Once(h)
  BY <1>1, FailedSound
<1>4. g' = [h EXCEPT !.at = R!Successor(h)] /\ UNCHANGED <<scene, heard>>
  BY DEF Leave
<1> HIDE DEF h
<1>5. R!Successor(h) = "handle_error"
  BY <1>2, RoutesOfAnswers DEF R!Branching, R!Executing
<1>6. Ready("handle_error", h)
  BY <1>3 DEF Ready, R!Classified, R!Answering, R!Executing, Drafting, Updating, Decomposing,
         Changing
<1>7. Sound(table, heard, g') /\ Ready(g'.at, g')
  BY <1>2, <1>4, <1>5, <1>6, Enters DEF R!Nodes, R!Answering
<1> QED BY <1>4, <1>7 DEF IInv

\* A created task has an id nobody has used.
LEMMA ExecuteCreateTaskStep ==
    ASSUME IInv, ExecuteCreateTask
    PROVE  IInv'
<1>1. PICK t \in Unused :
         /\ Parent[t] = None
         /\ Written([task EXCEPT ![t] = [status |-> "TODO", version |-> 1]],
                    [g EXCEPT !.created = t])
  BY DEF ExecuteCreateTask
<1> DEFINE table == [task EXCEPT ![t] = [status |-> "TODO", version |-> 1]]
           k == [g EXCEPT !.created = t, !.error = FALSE]
<1>2. /\ g.at = "execute_create_task" /\ t \in TaskId
      /\ task' = table /\ UNCHANGED <<scene, heard>>
      /\ Leave(Failed(g)) \/ g' = [k EXCEPT !.at = R!Successor(k)]
  BY <1>1 DEF ExecuteCreateTask, Written, Leave, Unused
<1>3. /\ Sound(task, heard, g) /\ Shape(g) /\ Tree(task) /\ Working(g) /\ Once(g)
      /\ ActionOK(g) /\ g.action.type = "create_task"
  BY <1>2, Executable DEF R!Executing, Executes
<1>4. Tree(table) /\ Evolves(task, table)
  BY <1>1, <1>3, TaskWritten
<1> HIDE DEF table
<1> SUFFICES ASSUME g' = [k EXCEPT !.at = R!Successor(k)]
             PROVE  IInv'
  BY <1>2, <1>4, ReplyLost DEF R!Executing
<1>5. Sound(table, heard, g)
  BY <1>3, <1>4, SoundLater
<1>6. Shape(k)
  <2>1. t \in FieldType["created"] /\ FALSE \in FieldType["error"]
    BY <1>2 DEF FieldType
  <2> QED BY <1>3, <2>1, Put DEF Fields
<1>7. k.created = t /\ k.error = FALSE /\ SameBut({"created", "error"}, k, g)
  BY <1>3, HasFields DEF SameBut, Fields
<1> HIDE DEF k
<1>8. g.updated = None
  BY <1>3 DEF ActionOK
<1>9. Sound(table, heard, k)
  BY <1>5, <1>6, <1>7, <1>8 DEF Sound, CopiesOK, ListsOK, TextsOK, FocusOK, SameBut, Fields
<1>10. Once(k) /\ k.at \in R!Executing
  BY <1>2, <1>3, <1>7 DEF Once, R!Executing, SameBut, Fields
<1> QED BY <1>2, <1>4, <1>7, <1>9, <1>10, WritesAndEnds

\* The task the user confirmed a change of, changed.
LEMMA ChangeWritten ==
    ASSUME IInv, Current, g.at \in {"execute_task_update", "execute_status_update"},
           NEW table, Tree(table), Evolves(task, table), table[Target] \in TaskRecord,
           Written(table, [g EXCEPT !.updated = Target, !.selected = CopyIn(table, Target)])
    PROVE  IInv'
<1> DEFINE k == [g EXCEPT !.updated = Target, !.selected = CopyIn(table, Target), !.error = FALSE]
<1>1. /\ task' = table /\ UNCHANGED <<scene, heard>>
      /\ Leave(Failed(g)) \/ g' = [k EXCEPT !.at = R!Successor(k)]
  BY DEF Written, Leave
<1> SUFFICES ASSUME g' = [k EXCEPT !.at = R!Successor(k)]
             PROVE  IInv'
  BY <1>1, ReplyLost DEF R!Executing
<1>2. Sound(task, heard, g) /\ Shape(g) /\ Tree(task) /\ Working(g) /\ Once(g) /\ g.created = None
  BY Executable DEF R!Executing
<1>3. Target \in TaskId
  BY TargetIsSelected
<1>4. PICK t \in TaskId : t = Target
  BY <1>3
<1>5. Sound(table, heard, g)
  BY <1>2, SoundLater
<1>6. CopyIn(table, t) \in TaskCopy
  BY <1>4 DEF CopyIn, TaskCopy, TaskRecord
<1>7. k = [g EXCEPT !.updated = t, !.selected = CopyIn(table, t), !.error = FALSE]
  BY <1>4
<1> HIDE DEF k
<1>8. Shape(k)
  <2>1. /\ t \in FieldType["updated"] /\ FALSE \in FieldType["error"]
        /\ CopyIn(table, t) \in FieldType["selected"]
    BY <1>6 DEF FieldType
  <2> QED BY <1>2, <1>7, <2>1, Put DEF Fields
<1>9. /\ k.updated = t /\ k.selected = CopyIn(table, t) /\ k.error = FALSE
      /\ k.action = g.action /\ SameBut(Changed, k, g)
  BY <1>2, <1>7, HasFields DEF SameBut, Fields, Changed
<1>10. Sound(table, heard, k)
  BY <1>2, <1>4, <1>5, <1>8, <1>9, ChangedSound
<1>11. Once(k) /\ k.at \in R!Executing
  BY <1>2, <1>9 DEF Once, R!Executing, SameBut, Fields, Changed
<1> QED BY <1>1, <1>9, <1>10, <1>11, WritesAndEnds

\* An update writes the task of the approved action.
LEMMA ExecuteTaskUpdateStep ==
    ASSUME IInv, ExecuteTaskUpdate
    PROVE  IInv'
<1> DEFINE table == Bumped(task, Target)
<1>1. /\ g.at = "execute_task_update" /\ Current
      /\ Written(table, [g EXCEPT !.updated = Target, !.selected = CopyIn(table, Target)])
  BY DEF ExecuteTaskUpdate
<1>2. Tree(task) /\ Target \in Live
  BY <1>1, TargetIsSelected DEF IInv
<1>3. PICK t \in Live : t = Target
  BY <1>2
<1>4. Bounded(Bumped(task, t))
  BY <1>1, <1>3 DEF Written
<1>5. Tree(Bumped(task, t)) /\ Evolves(task, Bumped(task, t)) /\ Bumped(task, t)[t] \in TaskRecord
  BY <1>2, <1>4, UpdateWritten
<1>6. PICK T1 : T1 = table
  OBVIOUS
<1>7. Written(T1, [g EXCEPT !.updated = Target, !.selected = CopyIn(T1, Target)])
  BY <1>1, <1>6 DEF Written, Leave
<1> QED BY <1>1, <1>3, <1>5, <1>6, <1>7, ChangeWritten

\* The store accepts a status only if there is one.
LEMMA AcceptedStatus ==
    ASSUME Tree(task), NEW t \in Live, NEW status, Accepted(t, status)
    PROVE  status \in Status
<1>1. task[t].status \in Status
  BY TreeTyped DEF Live, TaskRecord
<1> QED BY <1>1 DEF Accepted, T!Transition, Status

\* A change of status writes the task of the approved action and its parent.
LEMMA ExecuteStatusUpdateStep ==
    ASSUME IInv, ExecuteStatusUpdate
    PROVE  IInv'
<1> DEFINE table == WithStatus(Target, g.target)
<1>1. /\ g.at = "execute_status_update" /\ Current /\ Accepted(Target, g.target)
      /\ Written(table, [g EXCEPT !.updated = Target, !.selected = CopyIn(table, Target)])
  BY DEF ExecuteStatusUpdate
<1>2. Tree(task) /\ Target \in Live
  BY <1>1, TargetIsSelected DEF IInv
<1>3. PICK t \in Live : t = Target
  BY <1>2
<1>4. PICK status : status = g.target
  OBVIOUS
<1>5. Bounded(WithStatus(t, status)) /\ WithStatus(t, status) = table
  BY <1>1, <1>3, <1>4 DEF Written
<1>6. status \in Status
  <2>1. Accepted(t, status)
    BY <1>1, <1>3, <1>4 DEF Accepted
  <2> QED BY <1>2, <2>1, AcceptedStatus
<1>7. /\ Tree(WithStatus(t, status)) /\ Evolves(task, WithStatus(t, status))
      /\ WithStatus(t, status)[t] \in TaskRecord
  BY <1>2, <1>5, <1>6, StatusWritten
<1>8. PICK T1 : T1 = table
  OBVIOUS
<1>9. Written(T1, [g EXCEPT !.updated = Target, !.selected = CopyIn(T1, Target)])
  BY <1>1, <1>8 DEF Written, Leave
<1> HIDE DEF table
<1> QED BY <1>1, <1>3, <1>5, <1>7, <1>8, <1>9, ChangeWritten

\* After a restore the turn ends, or goes on with the change it was begun for.
LEMMA ExecuteTaskRestoreStep ==
    ASSUME IInv, ExecuteTaskRestore
    PROVE  IInv'
<1>1. /\ g.at = "execute_task_restore" /\ Current /\ Accepted(Target, "TODO")
      /\ Target \in Live
  BY TargetIsSelected DEF ExecuteTaskRestore
<1>2. PICK t \in Live : t = Target
  BY <1>1
<1>3. PICK table : table = WithStatus(t, "TODO")
  OBVIOUS
<1> DEFINE k == [g EXCEPT !.updated = t, !.selected = CopyIn(table, t), !.action = None,
                          !.decision = None, !.error = FALSE]
<1>4. /\ Bounded(table) /\ task' = table /\ UNCHANGED <<scene, heard>>
      /\ Leave(Failed(g)) \/ g' = [k EXCEPT !.at = R!Successor(k)]
  BY <1>2, <1>3 DEF ExecuteTaskRestore, Written, Leave
<1>5. Sound(task, heard, g) /\ Shape(g) /\ Tree(task) /\ Working(g) /\ g.created = None
  BY <1>1, Executable
<1>6. t \in TaskId /\ "TODO" \in Status
  BY DEF Live, Status
<1>7. Tree(table) /\ Evolves(task, table) /\ table[t] \in TaskRecord
  BY <1>3, <1>4, <1>5, <1>6, StatusWritten
<1> SUFFICES ASSUME g' = [k EXCEPT !.at = R!Successor(k)]
             PROVE  IInv'
  BY <1>1, <1>4, <1>7, ReplyLost DEF R!Executing
<1>8. Sound(table, heard, g)
  BY <1>5, <1>7, SoundLater
<1>9. CopyIn(table, t) \in TaskCopy
  BY <1>6, <1>7 DEF CopyIn, TaskCopy, TaskRecord
<1>10. Shape(k)
  <2>1. /\ t \in FieldType["updated"] /\ FALSE \in FieldType["error"]
        /\ CopyIn(table, t) \in FieldType["selected"]
        /\ None \in FieldType["action"] /\ None \in FieldType["decision"]
    BY <1>6, <1>9 DEF FieldType
  <2> QED BY <1>5, <2>1, Put DEF Fields
<1>11. /\ k.updated = t /\ k.selected = CopyIn(table, t) /\ k.error = FALSE
       /\ k.action = None /\ SameBut(Changed, k, g)
  BY <1>5, HasFields DEF SameBut, Fields, Changed
<1> HIDE DEF k
<1>12. Sound(table, heard, k) /\ k.selected # None
  BY <1>5, <1>6, <1>7, <1>8, <1>10, <1>11, ChangedSound
<1>13. Working(k) /\ Once(k) /\ k.at = "execute_task_restore"
  BY <1>1, <1>5, <1>11 DEF Working, Quiet, Once, SameBut, Fields, Changed
<1> DEFINE n == R!Successor(k)
<1>14. \/ n = "finalize_turn"
       \/ /\ n \in {"parse_task_update", "load_decomposition_context", "prepare_status_update"}
          /\ k.intent \in R!WritingIntents
  BY <1>11, <1>13, RoutesOfExecution
<1> HIDE DEF n
<1>15. k.intent \in R!WritingIntents => k.intent # None
  BY GraphAssumption DEF R!WritingIntents, R!ContextIntents, R!Intents
<1>16. Ready(n, k)
  BY <1>11, <1>12, <1>13, <1>14, <1>15 DEF Ready, Drafting, Updating, Decomposing, Changing,
         R!Classified, R!Answering, R!Executing
<1>17. n \in R!Nodes
  BY <1>14 DEF R!Nodes, R!Branching, R!Answering, R!Preparing, R!Executing
<1>18. Sound(table, heard, g') /\ Ready(g'.at, g')
  BY <1>4, <1>12, <1>16, <1>17, Enters DEF n
<1> QED BY <1>4, <1>7, <1>18 DEF IInv

\* The subtasks have ids nobody has used, their parent is the one approved.
LEMMA ExecuteCreateSubtasksBatchStep ==
    ASSUME IInv, ExecuteCreateSubtasksBatch
    PROVE  IInv'
<1>1. /\ g.at = "execute_create_subtasks_batch" /\ Current
      /\ Target \in Live /\ g.updated \in {None, Target}
  BY TargetIsSelected DEF ExecuteCreateSubtasksBatch
<1>2. PICK p \in Live : p = Target
  BY <1>1
<1>3. PICK S \in SUBSET {t \in Unused : Parent[t] = p} :
        LET new == [t \in TaskId |-> IF t \in S THEN [status |-> "TODO", version |-> 1]
                                     ELSE task[t]]
            table == RolledUp(new, S)
        IN  Written(table, [g EXCEPT !.selected = CopyIn(table, p)])
  BY <1>2 DEF ExecuteCreateSubtasksBatch, Written, Leave
<1>4. PICK table :
        table = RolledUp([t \in TaskId |-> IF t \in S THEN [status |-> "TODO", version |-> 1]
                                           ELSE task[t]], S)
  OBVIOUS
<1> DEFINE k == [g EXCEPT !.selected = CopyIn(table, p), !.error = FALSE]
<1>5. /\ Bounded(table) /\ task' = table /\ UNCHANGED <<scene, heard>>
      /\ Leave(Failed(g)) \/ g' = [k EXCEPT !.at = R!Successor(k)]
  BY <1>3, <1>4 DEF Written, Leave
<1>6. /\ Sound(task, heard, g) /\ Shape(g) /\ Tree(task) /\ Working(g) /\ Once(g)
      /\ g.created = None
  BY <1>1, Executable DEF R!Executing
<1>7. Tree(table) /\ Evolves(task, table) /\ table[p] \in TaskRecord
  BY <1>4, <1>5, <1>6, SubtasksWritten
<1> SUFFICES ASSUME g' = [k EXCEPT !.at = R!Successor(k)]
             PROVE  IInv'
  BY <1>1, <1>5, <1>7, ReplyLost DEF R!Executing
<1>8. Sound(table, heard, g)
  BY <1>6, <1>7, SoundLater
<1>9. p \in TaskId /\ CopyIn(table, p) \in TaskCopy
  BY <1>7 DEF CopyIn, TaskCopy, TaskRecord, Live
<1>10. Shape(k)
  <2>1. FALSE \in FieldType["error"] /\ CopyIn(table, p) \in FieldType["selected"]
    BY <1>9 DEF FieldType
  <2> QED BY <1>6, <2>1, Put DEF Fields
<1>11. /\ k.selected = CopyIn(table, p) /\ k.error = FALSE /\ k.action = g.action
       /\ k.updated \in {None, p} /\ SameBut(Changed, k, g)
  BY <1>1, <1>2, <1>6, HasFields DEF SameBut, Fields, Changed
<1> HIDE DEF k
<1>12. Sound(table, heard, k)
  BY <1>6, <1>7, <1>8, <1>9, <1>10, <1>11, ChangedSound
<1>13. Once(k) /\ k.at \in R!Executing
  BY <1>1, <1>6, <1>11 DEF Once, R!Executing, SameBut, Fields, Changed
<1> QED BY <1>5, <1>7, <1>11, <1>12, <1>13, WritesAndEnds

\* The tasks of S are deleted.
LEMMA DeletionEnds ==
    ASSUME IInv, g.at \in {"execute_task_delete", "execute_task_delete_batch"},
           NEW S \in SUBSET Live, \A t \in S : ChildrenOf(t) = {},
           NEW table, table = Removed(S), Written(table, Deleted(g, S))
    PROVE  IInv'
<1> DEFINE k == [g EXCEPT !.deleted = S, !.selected = None, !.updated = None, !.error = FALSE]
<1>1. /\ Bounded(table) /\ task' = table /\ UNCHANGED <<scene, heard>>
      /\ Leave(Failed(g)) \/ g' = [k EXCEPT !.at = R!Successor(k)]
  BY DEF Written, Leave, Deleted
<1>2. Sound(task, heard, g) /\ Shape(g) /\ Tree(task) /\ Once(g) /\ g.created = None
  BY Executable DEF R!Executing
<1>3. Tree(table) /\ Evolves(task, table)
  BY <1>1, <1>2, DeletionWritten
<1> SUFFICES ASSUME g' = [k EXCEPT !.at = R!Successor(k)]
             PROVE  IInv'
  BY <1>1, <1>3, ReplyLost DEF R!Executing
<1>4. Sound(table, heard, g)
  BY <1>2, <1>3, SoundLater
<1>5. Shape(k)
  <2>1. /\ S \in FieldType["deleted"] /\ FALSE \in FieldType["error"]
        /\ None \in FieldType["selected"] /\ None \in FieldType["updated"]
    BY DEF FieldType, Live
  <2> QED BY <1>2, <2>1, Put DEF Fields
<1>6. /\ k.selected = None /\ k.updated = None /\ k.error = FALSE
      /\ SameBut({"deleted", "selected", "updated", "error"}, k, g)
  BY <1>2, HasFields DEF SameBut, Fields
<1> HIDE DEF k
<1>7. Sound(table, heard, k)
  BY <1>4, <1>5, <1>6 DEF Sound, CopiesOK, ListsOK, TextsOK, FocusOK, SameBut, Fields
<1>8. Once(k) /\ k.at \in R!Executing
  BY <1>2, <1>6 DEF Once, R!Executing, SameBut, Fields
<1> QED BY <1>1, <1>3, <1>6, <1>7, <1>8, WritesAndEnds

\* A deletion removes the task of the approved action, which has no subtasks.
LEMMA ExecuteTaskDeleteStep ==
    ASSUME IInv, ExecuteTaskDelete
    PROVE  IInv'
<1>1. /\ g.at = "execute_task_delete" /\ Current /\ ChildrenOf(Target) = {}
      /\ Written(Removed({Target}), Deleted(g, {Target}))
  BY DEF ExecuteTaskDelete
<1>2. Target \in Live
  BY <1>1, TargetIsSelected
<1>3. PICK S \in SUBSET Live : S = {Target}
  BY <1>2
<1>4. PICK table : table = Removed(S)
  OBVIOUS
<1>5. Written(table, Deleted(g, S)) /\ \A t \in S : ChildrenOf(t) = {}
  BY <1>1, <1>3, <1>4 DEF Written, Leave
<1> QED BY <1>1, <1>4, <1>5, DeletionEnds

\* A batch removes the tasks of the approved action, which have no subtasks.
LEMMA ExecuteTaskDeleteBatchStep ==
    ASSUME IInv, ExecuteTaskDeleteBatch
    PROVE  IInv'
<1> DEFINE ids == {c.id : c \in g.action.targets}
<1>1. /\ g.at = "execute_task_delete_batch" /\ Current /\ \A t \in ids : ChildrenOf(t) = {}
      /\ Written(Removed(ids), Deleted(g, ids))
  BY DEF ExecuteTaskDeleteBatch
<1>2. ids \in SUBSET Live
  BY <1>1 DEF Current
<1>3. PICK S \in SUBSET Live : S = ids
  BY <1>2
<1>4. PICK table : table = Removed(S)
  OBVIOUS
<1>5. Written(table, Deleted(g, S)) /\ \A t \in S : ChildrenOf(t) = {}
  BY <1>1, <1>3, <1>4 DEF Written, Leave
<1> QED BY <1>1, <1>4, <1>5, DeletionEnds

-----------------------------------------------------------------------------
(* The beginning of a turn, the clock, and the other threads.              *)

\* A chat begins with the contexts of old and nothing else.
LEMMA InitialBegins ==
    ASSUME NEW m \in Message \cup {[kind |-> "other"]}, NEW old,
           \A f \in {"selection", "deletion", "query", "draft", "update", "focus"} :
               old[f] \in FieldType[f]
    PROVE  LET k == Initial(m, old) IN
           /\ Shape(k) /\ Begun(k) /\ k.intent = None /\ k.at = "route_pending_state"
           /\ k.selection = old.selection /\ k.deletion = old.deletion /\ k.query = old.query
           /\ k.draft = old.draft /\ k.update = old.update /\ k.focus = old.focus
<1> DEFINE k == Initial(m, old)
<1>1. DOMAIN k = Fields
  BY DEF Initial, Fields
<1>2. k = [f \in DOMAIN k |-> k[f]]
  BY DEF Initial
<1>3. /\ k.at \in FieldType["at"] /\ k.msg \in FieldType["msg"]
      /\ k.intent \in FieldType["intent"] /\ k.ref \in FieldType["ref"]
      /\ k.target \in FieldType["target"] /\ k.asks \in FieldType["asks"]
      /\ k.route \in FieldType["route"] /\ k.selRoute \in FieldType["selRoute"]
      /\ k.delRoute \in FieldType["delRoute"]
  <2>1. /\ k.at = "route_pending_state" /\ k.msg = m /\ k.intent = None /\ k.ref = None
        /\ k.target = None /\ k.asks = FALSE /\ k.route = None /\ k.selRoute = None
        /\ k.delRoute = None
    BY DEF Initial
  <2> HIDE DEF k
  <2> QED BY <2>1 DEF FieldType, R!Nodes, R!Branching
<1>4. \A f \in {"selection", "deletion", "query", "draft", "update", "focus"} :
        k[f] \in FieldType[f]
  <2>1. \A f \in {"selection", "deletion", "query", "draft", "update", "focus"} : k[f] = old[f]
    BY DEF Initial
  <2> QED BY <2>1
<1>5. /\ k.inputs \in FieldType["inputs"] /\ k.uInputs \in FieldType["uInputs"]
      /\ k.uMsg \in FieldType["uMsg"] /\ k.dMsg \in FieldType["dMsg"]
      /\ k.needs \in FieldType["needs"] /\ k.patch \in FieldType["patch"]
      /\ k.plan \in FieldType["plan"] /\ k.rParent \in FieldType["rParent"]
      /\ k.candidates \in FieldType["candidates"]
  <2>1. /\ k.inputs = <<>> /\ k.uInputs = <<>> /\ k.uMsg = None /\ k.dMsg = None
        /\ k.needs = FALSE /\ k.patch = FALSE /\ k.plan = None /\ k.rParent = None
        /\ k.candidates = <<>>
    BY DEF Initial
  <2> HIDE DEF k
  <2>2. <<>> \in Seq(MessageText) /\ <<>> \in Seq(ListItem)
    OBVIOUS
  <2>3. /\ FieldType["inputs"] = Seq(MessageText) /\ FieldType["uInputs"] = Seq(MessageText)
        /\ FieldType["candidates"] = Seq(ListItem)
    BY DEF FieldType
  <2>4. /\ None \in FieldType["uMsg"] /\ None \in FieldType["dMsg"]
        /\ FALSE \in FieldType["needs"] /\ FALSE \in FieldType["patch"]
        /\ None \in FieldType["plan"] /\ None \in FieldType["rParent"]
    BY DEF FieldType
  <2> QED BY <2>1, <2>2, <2>3, <2>4
<1>6. k.rRefs \in FieldType["rRefs"]
  <2>1. <<>> \in [{} -> TaskId]
    OBVIOUS
  <2>2. <<>> \in Resolved
    BY <2>1 DEF Resolved
  <2>3. k.rRefs = <<>>
    BY DEF Initial
  <2> QED BY <2>2, <2>3 DEF FieldType
<1>7. /\ k.selected \in FieldType["selected"] /\ k.created \in FieldType["created"]
      /\ k.updated \in FieldType["updated"] /\ k.deleted \in FieldType["deleted"]
      /\ k.results \in FieldType["results"] /\ k.action \in FieldType["action"]
      /\ k.decision \in FieldType["decision"] /\ k.valid \in FieldType["valid"]
      /\ k.missing \in FieldType["missing"] /\ k.error \in FieldType["error"]
  <2>1. /\ k.selected = None /\ k.created = None /\ k.updated = None /\ k.deleted = {}
        /\ k.results = {} /\ k.action = None /\ k.decision = None /\ k.valid = FALSE
        /\ k.missing = FALSE /\ k.error = FALSE
    BY DEF Initial
  <2> HIDE DEF k
  <2> QED BY <2>1 DEF FieldType
<1>8. k.round \in FieldType["round"] /\ k.uRound \in FieldType["uRound"]
  <2>1. k.round = 0 /\ k.uRound = 0
    BY DEF Initial
  <2>2. FieldType["round"] = 0..MaxRounds /\ FieldType["uRound"] = 0..MaxRounds
    BY DEF FieldType
  <2> QED BY <2>1, <2>2, GraphAssumption
<1>9. \A f \in Fields : k[f] \in FieldType[f]
  <2> HIDE DEF k
  <2> QED BY <1>3, <1>4, <1>5, <1>6, <1>7, <1>8 DEF Fields
<1>10. Shape(k)
  BY <1>1, <1>2, <1>9 DEF Shape, Rec
<1>11. /\ Begun(k) /\ k.intent = None /\ k.at = "route_pending_state"
      /\ k.selection = old.selection /\ k.deletion = old.deletion /\ k.query = old.query
      /\ k.draft = old.draft /\ k.update = old.update /\ k.focus = old.focus
  BY DEF Initial, Begun
<1> QED BY <1>10, <1>11

\* A conversation starts between two turns, with no context open.
LEMMA InitEstablishes ==
    Init => IInv
<1> SUFFICES ASSUME Init
             PROVE  IInv
  OBVIOUS
<1> DEFINE h == Initial([kind |-> "other"], NoContexts)
           k == [h EXCEPT !.at = "END"]
<1>1. scene \in Scene /\ task \in Start[scene] /\ g = k /\ heard = <<>>
  BY DEF Init
<1>2. Tree(task)
  BY <1>1, SceneAssumption DEF Tree
<1>3. \A f \in {"selection", "deletion", "query", "draft", "update", "focus"} :
        NoContexts[f] = None /\ NoContexts[f] \in FieldType[f]
  BY DEF NoContexts, FieldType
<1>4. /\ Shape(h) /\ Begun(h)
      /\ h.selection = None /\ h.deletion = None /\ h.query = None
      /\ h.draft = None /\ h.update = None /\ h.focus = None
  BY <1>3, InitialBegins
<1> HIDE DEF h
<1>5. Shape(k)
  BY <1>4, Put DEF Fields, FieldType
<1>6. k.at = "END" /\ SameBut({"at"}, k, h)
  BY <1>4, HasFields DEF SameBut, Fields
<1> HIDE DEF k
<1>7. Begun(k) /\ Quiet(k) /\ k.focus = None
  BY <1>4, <1>6 DEF Begun, Quiet, SameBut, Fields
<1>8. Sound(task, heard, k)
  BY <1>5, <1>7 DEF Sound, CopiesOK, ListsOK, TextsOK, FocusOK, Collected, Begun, Quiet, Ids
<1>9. Ready("END", k)
  BY <1>7 DEF Ready, Once, Quiet, Answered, Drafting, Updating, Decomposing, Changing,
         R!Classified, R!Answering, R!Executing
<1> QED BY <1>1, <1>2, <1>6, <1>8, <1>9 DEF IInv

\* A message begins a turn; what its user has been shown is what was listed last.
LEMMA BeginChatStep ==
    ASSUME IInv, NEW m \in Message, BeginChat(m)
    PROVE  IInv'
<1> DEFINE k == Initial(m, g)
           list == IF g.candidates # <<>> THEN g.candidates
                   ELSE IF g.selection = None /\ g.deletion = None THEN <<>> ELSE heard
<1>1. g.at = "END" /\ g' = k /\ heard' = list /\ UNCHANGED <<scene, task>>
  BY DEF BeginChat
<1>2. Sound(task, heard, g) /\ Once(g) /\ heard \in Seq(ListItem)
  BY <1>1 DEF IInv, Ready
<1>3. \A f \in {"selection", "deletion", "query", "draft", "update", "focus"} :
        g[f] \in FieldType[f]
  BY <1>2 DEF Sound, Shape, Fields
<1>4. /\ Shape(k) /\ Begun(k) /\ k.intent = None /\ k.at = "route_pending_state"
      /\ k.selection = g.selection /\ k.deletion = g.deletion /\ k.query = g.query
      /\ k.draft = g.draft /\ k.update = g.update
  BY <1>3, InitialBegins
<1> HIDE DEF k
<1>5. ListsOK(list, k)
  BY <1>2, <1>4 DEF Sound, ListsOK, Begun, Ids
<1>6. CopiesOK(task, k) /\ TextsOK(k) /\ FocusOK(k)
  BY <1>2, <1>4 DEF Sound, CopiesOK, TextsOK, FocusOK, Collected, Begun
<1>7. Sound(task, list, k)
  BY <1>4, <1>5, <1>6 DEF Sound
<1>8. Once(k)
  BY <1>2, <1>4 DEF Once
<1>9. Ready("route_pending_state", k)
  BY <1>4, <1>8 DEF Ready, Drafting, Updating, Decomposing, Changing, R!Classified,
         R!Answering, R!Executing
<1>10. list \in Seq(ListItem)
  BY <1>2 DEF Sound, Shape, Fields, FieldType
<1> HIDE DEF list
<1> QED BY <1>1, <1>4, <1>7, <1>9, <1>10 DEF IInv

\* What has expired is still what it was about.
LEMMA ExpireStep ==
    ASSUME IInv, Expire
    PROVE  IInv'
<1> DEFINE expired(c) == IF c = None THEN None ELSE [c EXCEPT !.live = FALSE]
           contexts == [g EXCEPT !.selection = expired(@), !.deletion = expired(@),
                                 !.query = expired(@), !.draft = expired(@),
                                 !.update = expired(@)]
           focus == [g EXCEPT !.focus = expired(@)]
<1>1. /\ g.at \in Rest /\ g' \in {contexts, focus} /\ UNCHANGED <<scene, task, heard>>
  BY DEF Expire
<1>2. Sound(task, heard, g) /\ Shape(g) /\ Ready(g.at, g)
  BY DEF IInv, Sound
<1>3. /\ g.selection \in Selection \cup {None} /\ g.deletion \in DeleteSelection \cup {None}
      /\ g.query \in QueryClarification \cup {None} /\ g.draft \in DraftClarification \cup {None}
      /\ g.update \in UpdateClarification \cup {None} /\ g.focus \in Focus \cup {None}
  BY <1>2 DEF Shape, Fields, FieldType
<1>4. /\ expired(g.selection) \in FieldType["selection"]
      /\ expired(g.selection) = None <=> g.selection = None
      /\ g.selection # None =>
           /\ expired(g.selection).items = g.selection.items
           /\ expired(g.selection).operation = g.selection.operation
           /\ expired(g.selection).text = g.selection.text
  BY <1>3, GraphAssumption DEF FieldType, Selection
<1>5. /\ expired(g.deletion) \in FieldType["deletion"]
      /\ expired(g.deletion) = None <=> g.deletion = None
      /\ g.deletion # None => expired(g.deletion).items = g.deletion.items
  BY <1>3, GraphAssumption DEF FieldType, DeleteSelection
<1>6. /\ expired(g.query) \in FieldType["query"]
      /\ expired(g.query) = None <=> g.query = None
  BY <1>3, GraphAssumption DEF FieldType, QueryClarification
<1>7. /\ expired(g.draft) \in FieldType["draft"]
      /\ expired(g.draft) = None <=> g.draft = None
      /\ g.draft # None => /\ expired(g.draft).inputs = g.draft.inputs
                           /\ expired(g.draft).round = g.draft.round
  BY <1>3, GraphAssumption DEF FieldType, DraftClarification
<1>8. /\ expired(g.update) \in FieldType["update"]
      /\ expired(g.update) = None <=> g.update = None
      /\ g.update # None => /\ expired(g.update).inputs = g.update.inputs
                            /\ expired(g.update).round = g.update.round
  BY <1>3, GraphAssumption DEF FieldType, UpdateClarification
<1>9. /\ expired(g.focus) \in FieldType["focus"]
      /\ expired(g.focus) = None <=> g.focus = None
      /\ g.focus # None => expired(g.focus).id = g.focus.id
  BY <1>3, GraphAssumption DEF FieldType, Focus
<1>10. ASSUME NEW k, Shape(k), Sound(task, heard, k), k.at = g.at, g' = k,
              Once(k) = Once(g), Answered(k) = Answered(g), Working(k) = Working(g),
              ActionOK(k) = ActionOK(g)
       PROVE  IInv'
  <2>1. Ready(g.at, k)
    BY <1>1, <1>2, <1>10 DEF Ready, Rest, Drafting, Updating, Decomposing, Changing,
           R!Classified, R!Answering, R!Executing
  <2> QED BY <1>1, <1>10, <2>1 DEF IInv
<1>11. CASE g' = contexts
  <2> DEFINE k == contexts
  <2> HIDE DEF expired
  <2>1. Shape(k)
    BY <1>2, <1>4, <1>5, <1>6, <1>7, <1>8, Put DEF Fields
  <2>2. /\ k.selection = expired(g.selection) /\ k.deletion = expired(g.deletion)
        /\ k.query = expired(g.query) /\ k.draft = expired(g.draft)
        /\ k.update = expired(g.update)
        /\ SameBut({"selection", "deletion", "query", "draft", "update"}, k, g)
    BY <1>2, HasFields DEF SameBut, Fields
  <2> HIDE DEF contexts
  <2>3. Sound(task, heard, k)
    BY <1>2, <1>4, <1>5, <1>7, <1>8, <2>1, <2>2 DEF Sound, CopiesOK, ListsOK, TextsOK,
           FocusOK, SameBut, Fields
  <2>4. /\ Answered(k) = Answered(g) /\ ActionOK(k) = ActionOK(g) /\ k.at = g.at
        /\ k.created = g.created /\ k.deleted = g.deleted /\ k.candidates = g.candidates
    BY <2>2 DEF Answered, ActionOK, SameBut, Fields
  <2>5. /\ (k.selection = None <=> g.selection = None)
        /\ (k.deletion = None <=> g.deletion = None)
        /\ (k.query = None <=> g.query = None) /\ (k.draft = None <=> g.draft = None)
        /\ (k.update = None <=> g.update = None)
    BY <1>4, <1>5, <1>6, <1>7, <1>8, <2>2
  <2>6. Once(k) = Once(g) /\ Quiet(k) = Quiet(g)
    BY <2>5 DEF Once, Quiet
  <2>7. Working(k) = Working(g)
    BY <2>4, <2>6 DEF Working
  <2> QED BY <1>10, <1>11, <2>1, <2>3, <2>4, <2>6, <2>7
<1>12. CASE g' = focus
  <2> DEFINE k == focus
  <2> HIDE DEF expired
  <2>1. Shape(k)
    BY <1>2, <1>9, Put DEF Fields
  <2>2. k.focus = expired(g.focus) /\ SameBut({"focus"}, k, g)
    BY <1>2, HasFields DEF SameBut, Fields
  <2> HIDE DEF focus
  <2>3. Sound(task, heard, k)
    BY <1>2, <2>1, <2>2 DEF Sound, CopiesOK, ListsOK, TextsOK, FocusOK, SameBut, Fields
  <2>4. /\ Once(k) = Once(g) /\ Answered(k) = Answered(g) /\ Working(k) = Working(g)
        /\ ActionOK(k) = ActionOK(g) /\ k.at = g.at
    BY <1>9, <2>2 DEF Once, Answered, Working, Quiet, ActionOK, SameBut, Fields
  <2> QED BY <1>10, <1>12, <2>1, <2>3, <2>4
<1> QED BY <1>1, <1>11, <1>12

\* Other threads change tasks, and this one stays as sound as it was.
LEMMA ElsewhereSound ==
    ASSUME IInv, NEW table, Tree(table), Evolves(task, table), task' = table,
           UNCHANGED <<scene, g, heard>>
    PROVE  IInv'
<1>1. Sound(table, heard, g)
  BY SoundLater DEF IInv
<1> QED BY <1>1 DEF IInv

\* Another thread changes the status of a task: what this one has read is old, not wrong.
LEMMA ElsewhereChangedStep ==
    ASSUME IInv, NEW t \in TaskId, NEW status, ElsewhereChanged(t, status)
    PROVE  IInv'
<1>1. /\ t \in Live /\ Accepted(t, status) /\ Bounded(WithStatus(t, status))
      /\ task' = WithStatus(t, status) /\ UNCHANGED <<scene, g, heard>>
  BY DEF ElsewhereChanged
<1>2. task[t].status \in Status
  BY <1>1, TreeTyped DEF IInv, Live, TaskRecord
<1>3. status \in Status
  BY <1>1, <1>2 DEF Accepted, T!Transition, Status
<1>4. Tree(WithStatus(t, status)) /\ Evolves(task, WithStatus(t, status))
  BY <1>1, <1>3, StatusWritten DEF IInv
<1>5. PICK table : table = WithStatus(t, status)
  OBVIOUS
<1> QED BY <1>1, <1>4, <1>5, ElsewhereSound

\* Another thread deletes a task: what this one has read is old, not wrong.
LEMMA ElsewhereDeletedStep ==
    ASSUME IInv, NEW t \in TaskId, ElsewhereDeleted(t)
    PROVE  IInv'
<1>1. /\ t \in Live /\ ChildrenOf(t) = {} /\ Bounded(Removed({t}))
      /\ task' = Removed({t}) /\ UNCHANGED <<scene, g, heard>>
  BY DEF ElsewhereDeleted
<1>2. PICK table : table = Removed({t})
  OBVIOUS
<1>3. Tree(table) /\ Evolves(task, table)
  BY <1>1, <1>2, DeletionWritten DEF IInv
<1> QED BY <1>1, <1>2, <1>3, ElsewhereSound

-----------------------------------------------------------------------------
(* The invariant.                                                          *)

\* Every step preserves the invariant.
LEMMA NextPreserves ==
    IInv /\ [Next]_vars => IInv'
<1> SUFFICES ASSUME IInv, [Next]_vars
             PROVE  IInv'
  OBVIOUS
<1>1. CASE Reading
  <2>1. CASE RoutePendingState
    BY <2>1, RoutePendingStateStep
  <2>2. CASE ClassifyIntent
    BY <2>2, ClassifyIntentStep
  <2>3. CASE ResolveQueryClarification
    BY <2>3, ResolveQueryClarificationStep
  <2>4. CASE RequestIntentClarification
    BY <2>4, RequestIntentClarificationStep
  <2>5. CASE Respond
    BY <2>5, RespondStep
  <2>6. CASE ResolveContextReference
    BY <2>6, ResolveContextReferenceStep
  <2>7. CASE QueryTaskData
    BY <2>7, QueryTaskDataStep
  <2>8. CASE ResolveTaskReference
    BY <2>8, ResolveTaskReferenceStep
  <2>9. CASE ResolveTaskSelection
    BY <2>9, ResolveTaskSelectionStep
  <2>10. CASE ResolveTaskDeleteSelection
    BY <2>10, ResolveTaskDeleteSelectionStep
  <2>11. CASE PrepareTaskDraftClarification
    BY <2>11, PrepareTaskDraftClarificationStep
  <2>12. CASE ResolveTaskDraftClarification
    BY <2>12, ResolveTaskDraftClarificationStep
  <2>13. CASE PrepareTaskUpdateClarification
    BY <2>13, PrepareTaskUpdateClarificationStep
  <2>14. CASE ResolveTaskUpdateClarification
    BY <2>14, ResolveTaskUpdateClarificationStep
  <2>15. CASE HandleError
    BY <2>15, HandleErrorStep
  <2>16. CASE FinalizeTurn
    BY <2>16, FinalizeTurnStep
  <2> QED BY <1>1, <2>1, <2>2, <2>3, <2>4, <2>5, <2>6, <2>7, <2>8, <2>9, <2>10, <2>11, <2>12,
             <2>13, <2>14, <2>15, <2>16
             DEF Reading
<1>2. CASE Preparing
  <2>1. CASE ParseTask
    BY <2>1, ParseTaskStep
  <2>2. CASE ValidateTask
    BY <2>2, ValidateTaskStep
  <2>3. CASE CalculatePriority
    BY <2>3, CalculatePriorityStep
  <2>4. CASE PrepareConfirmation
    BY <2>4, PrepareConfirmationStep
  <2>5. CASE ParseTaskUpdate
    BY <2>5, ParseTaskUpdateStep
  <2>6. CASE PrepareTaskUpdate
    BY <2>6, PrepareTaskUpdateStep
  <2>7. CASE PrepareStatusUpdate
    BY <2>7, PrepareStatusUpdateStep
  <2>8. CASE PrepareTaskRestore
    BY <2>8, PrepareTaskRestoreStep
  <2>9. CASE LoadDecompositionContext
    BY <2>9, LoadDecompositionContextStep
  <2>10. CASE GenerateSubtaskPlan
    BY <2>10, GenerateSubtaskPlanStep
  <2>11. CASE ValidateSubtaskPlan
    BY <2>11, ValidateSubtaskPlanStep
  <2>12. CASE PrepareSubtaskConfirmation
    BY <2>12, PrepareSubtaskConfirmationStep
  <2>13. CASE ParseTaskDelete
    BY <2>13, ParseTaskDeleteStep
  <2>14. CASE PrepareTaskDeleteBatch
    BY <2>14, PrepareTaskDeleteBatchStep
  <2>15. CASE PrepareTaskDelete
    BY <2>15, PrepareTaskDeleteStep
  <2> QED BY <1>2, <2>1, <2>2, <2>3, <2>4, <2>5, <2>6, <2>7, <2>8, <2>9, <2>10, <2>11, <2>12,
             <2>13, <2>14, <2>15
             DEF Preparing
<1>3. CASE Executing
  <2>1. CASE ExecutionFails
    BY <2>1, ExecutionFailsStep
  <2>2. CASE ExecuteCreateTask
    BY <2>2, ExecuteCreateTaskStep
  <2>3. CASE ExecuteTaskUpdate
    BY <2>3, ExecuteTaskUpdateStep
  <2>4. CASE ExecuteStatusUpdate
    BY <2>4, ExecuteStatusUpdateStep
  <2>5. CASE ExecuteTaskRestore
    BY <2>5, ExecuteTaskRestoreStep
  <2>6. CASE ExecuteCreateSubtasksBatch
    BY <2>6, ExecuteCreateSubtasksBatchStep
  <2>7. CASE ExecuteTaskDelete
    BY <2>7, ExecuteTaskDeleteStep
  <2>8. CASE ExecuteTaskDeleteBatch
    BY <2>8, ExecuteTaskDeleteBatchStep
  <2> QED BY <1>3, <2>1, <2>2, <2>3, <2>4, <2>5, <2>6, <2>7, <2>8 DEF Executing
<1>4. CASE \E m \in Message : BeginChat(m)
  BY <1>4, BeginChatStep
<1>5. CASE \E d \in Decision : Confirm(d)
  BY <1>5, ConfirmStep
<1>6. CASE Expire
  BY <1>6, ExpireStep
<1>7. CASE \E t \in TaskId : ElsewhereDeleted(t) \/ \E s \in Foreign[scene] : ElsewhereChanged(t, s)
  BY <1>7, ElsewhereDeletedStep, ElsewhereChangedStep
<1>8. CASE UNCHANGED vars
  <2>1. scene' = scene /\ task' = task /\ g' = g /\ heard' = heard
    BY <1>8 DEF vars
  <2> QED BY <2>1 DEF IInv
<1> QED BY <1>1, <1>2, <1>3, <1>4, <1>5, <1>6, <1>7, <1>8 DEF Next, Work

\* The tasks, the graph state and the lists shown are what the nodes rely on.
THEOREM InductiveInvariant == Spec => []IInv
BY InitEstablishes, NextPreserves, PTL DEF Spec

-----------------------------------------------------------------------------
(* Theorems about every state.                                             *)

\* Every graph state has the shape of TaskAgentState, whatever the models answer
\* and the other threads do.
THEOREM TypeCorrect == Spec => []TypeOK
<1>1. IInv => TypeOK
  BY ShapeOfState DEF IInv, TypeOK, Tree, Sound
<1> QED BY <1>1, InductiveInvariant, PTL

\* No router ever returns a key that the builder has not declared for its node.
THEOREM RoutesAlwaysDeclared == Spec => []RoutesDeclared
<1>1. IInv => RoutesDeclared
  <2>1. IInv => g.at \in R!Nodes \cup {"END"}
    BY DEF IInv, Sound, Shape, Fields, FieldType
  <2> QED BY <2>1 DEF RoutesDeclared, R!Nodes, R!Branching, R!Preparing, R!Executing,
                 R!Answering
<1> QED BY <1>1, InductiveInvariant, PTL

\* When a turn has ended, at most one context waits for the next message.
THEOREM AlwaysOneContext == Spec => []OneContext
<1>1. IInv => OneContext
  <2> SUFFICES ASSUME IInv, g.at = "END"
               PROVE  Cardinality(Contexts(g)) <= 1
    BY DEF OneContext
  <2>1. Once(g)
    BY DEF IInv, Ready
  <2>2. PICK c : Contexts(g) \subseteq {c}
    BY <2>1 DEF Once, Contexts
  <2>3. IsFiniteSet({c}) /\ Cardinality({c}) = 1
    BY FS_Singleton
  <2> QED BY <2>2, <2>3, FS_Subset, FS_CardinalityType
<1> QED BY <1>1, InductiveInvariant, PTL

\* A clarification keeps at least the request and at most an input for each of its
\* rounds, of which there are never more than configured.
THEOREM InputsAlwaysBounded == Spec => []InputsBounded
<1>1. IInv => InputsBounded
  <2> SUFFICES ASSUME IInv
               PROVE  InputsBounded
    OBVIOUS
  <2>1. /\ g.draft \in DraftClarification \cup {None} /\ g.update \in UpdateClarification \cup {None}
        /\ TextsOK(g)
    BY DEF IInv, Sound, Shape, Fields, FieldType
  <2>2. ASSUME g.draft # None
        PROVE  Len(g.draft.inputs) \in 1..g.draft.round /\ g.draft.round <= MaxRounds
    <3>1. /\ g.draft.inputs \in Seq(MessageText) /\ g.draft.round \in 1..MaxRounds
          /\ g.draft.inputs # <<>> /\ Len(g.draft.inputs) <= g.draft.round
      BY <2>1, <2>2 DEF DraftClarification, TextsOK, Collected
    <3> QED BY <3>1, GraphAssumption
  <2>3. ASSUME g.update # None
        PROVE  Len(g.update.inputs) \in 1..g.update.round /\ g.update.round <= MaxRounds
    <3>1. /\ g.update.inputs \in Seq(MessageText) /\ g.update.round \in 1..MaxRounds
          /\ g.update.inputs # <<>> /\ Len(g.update.inputs) <= g.update.round
      BY <2>1, <2>3 DEF UpdateClarification, TextsOK, Collected
    <3> QED BY <3>1, GraphAssumption
  <2> QED BY <2>2, <2>3 DEF InputsBounded
<1> QED BY <1>1, InductiveInvariant, PTL

\* The parsers and the planner are given the request the turns began with.
THEOREM AlwaysParsesRequest == Spec => []ParsesRequest
<1>1. IInv => ParsesRequest
  <2> SUFFICES ASSUME IInv
               PROVE  ParsesRequest
    OBVIOUS
  <2>1. /\ g.inputs \in Seq(MessageText) /\ g.uInputs \in Seq(MessageText) /\ TextsOK(g)
        /\ Ready(g.at, g)
    BY DEF IInv, Sound, Shape, Fields, FieldType
  <2>2. Text(g) \in MessageText /\ (g.intent # None => Text(g) = "request")
    BY DEF Text, MessageText
  <2>3. ASSUME g.at = "parse_task"
        PROVE  Head(Append(g.inputs, Text(g))) = "request"
    <3>1. CASE g.inputs # <<>>
      <4>1. Head(g.inputs) = "request"
        BY <2>1, <3>1 DEF TextsOK, Collected
      <4> QED BY <2>1, <2>2, <3>1, <4>1
    <3>2. CASE g.inputs = <<>>
      <4>1. Text(g) = "request"
        BY <2>1, <2>2, <2>3, <3>2 DEF Ready
      <4> QED BY <3>2, <4>1
    <3> QED BY <3>1, <3>2
  <2>4. ASSUME g.at = "parse_task_update"
        PROVE  Head(g.uInputs \o <<IF g.uMsg # None THEN g.uMsg ELSE Text(g)>>) = "request"
    <3> DEFINE text == IF g.uMsg # None THEN g.uMsg ELSE Text(g)
    <3>1. CASE g.uInputs # <<>>
      <4>1. Head(g.uInputs) = "request"
        BY <2>1, <3>1 DEF TextsOK, Collected
      <4>2. <<text>> \in Seq({text})
        OBVIOUS
      <4>3. Head(g.uInputs \o <<text>>) = Head(g.uInputs)
        BY <2>1, <3>1, <4>2
      <4> QED BY <4>1, <4>3
    <3>2. CASE g.uInputs = <<>>
      <4>1. text = "request"
        BY <2>1, <2>2, <2>4, <3>2, GraphAssumption DEF Ready, TextsOK, MessageText
      <4>2. Head(<<>> \o <<text>>) = text
        OBVIOUS
      <4> QED BY <3>2, <4>1, <4>2
    <3> QED BY <3>1, <3>2
  <2>5. g.at = "generate_subtask_plan" => g.dMsg = "request"
    BY <2>1 DEF Ready, Decomposing
  <2> QED BY <2>3, <2>4, <2>5 DEF ParsesRequest
<1> QED BY <1>1, InductiveInvariant, PTL

\* "it" is the task of the last turn that had one, never one that the turn knows
\* it has deleted.
THEOREM FocusAlwaysAnswered == Spec => []FocusIsAnswered
<1>1. IInv => FocusIsAnswered
  BY DEF IInv, Ready, Answered, FocusIsAnswered
<1> QED BY <1>1, InductiveInvariant, PTL

\* Whenever candidates are shown, a choice among them is awaited: they are the
\* list of the selection, or some of the list of a deletion's.
THEOREM ChoiceAlwaysPending == Spec => []ChoiceIsPending
<1>1. IInv => ChoiceIsPending
  BY DEF IInv, Sound, ListsOK, ChoiceIsPending
<1> QED BY <1>1, InductiveInvariant, PTL

\* A batch deletion covers each reference of its request exactly once.
THEOREM BatchAlwaysPerReference == Spec => []BatchPerReference
<1>1. IInv => BatchPerReference
  BY DEF IInv, Ready, ActionOK, BatchPerReference
<1> QED BY <1>1, InductiveInvariant, PTL

-----------------------------------------------------------------------------
(* Theorems about every step.                                              *)

\* The place of a task in a list that shows no task twice.
LEMMA VersionShown ==
    ASSUME NEW items \in Seq(ListItem), Distinct(items), NEW i \in DOMAIN items
    PROVE  VersionIn(items, items[i].id) = items[i].version
<1> DEFINE j == CHOOSE j \in DOMAIN items : items[j].id = items[i].id
<1>1. j \in DOMAIN items /\ items[j].id = items[i].id
  OBVIOUS
<1>2. j = i
  BY <1>1 DEF Distinct
<1> QED BY <1>2 DEF VersionIn

\* A number that answers a selection chooses the task the user was shown under it,
\* unchanged since: the list of the selection is the one shown last.  Nothing is
\* said of a deletion's selection, see DeletesShown.
THEOREM AlwaysActsOnShown == Spec => ActsOnShown
<1>1. ASSUME IInv, ResolveTaskSelection, g.msg.kind = "ordinal", g'.selected # None
      PROVE  /\ g.msg.n \in DOMAIN heard
             /\ heard[g.msg.n] = [id |-> g'.selected.id, version |-> g'.selected.version]
  <2> DEFINE n == g.msg.n
  <2>1. /\ g.at = "resolve_task_selection" /\ Sound(task, heard, g) /\ Begun(g)
        /\ g.selection # None /\ Tree(task) /\ heard \in Seq(ListItem)
    BY <1>1 DEF ResolveTaskSelection, At, IInv, Ready, Resuming
  <2>2. g.selected = None /\ DOMAIN g = Fields
    BY <2>1, HasFields DEF Begun, Sound
  <2>3. g.selection.items = heard /\ Distinct(heard)
    BY <2>1 DEF Begun, Sound, ListsOK
  <2>4. g.selection.operation \in R!ContextIntents \cup {"DELETE_TASK"}
    BY <2>1 DEF Sound, Shape, Fields, FieldType, Selection
  <2>5. \A h : Leave(h) => g'.selected = h.selected
    <3> SUFFICES ASSUME NEW h, Leave(h)
                 PROVE  g'.selected = h.selected
      OBVIOUS
    <3> QED BY DEF Leave
  <2>6. PICK t \in Chosen(g.msg, heard) :
           Fresh(t, heard) /\ g' = [Selected(t) EXCEPT !.at = R!Successor(Selected(t))]
    <3>1. Closed(g).selected = None
      BY <2>2 DEF Closed, Fields
    <3> QED BY <1>1, <2>2, <2>3, <3>1 DEF ResolveTaskSelection, NotChosen, Closed, Failed,
                   Leave, Fields
  <2>7. Selected(t).selected \in {Copy(t), None}
    BY <2>2, <2>4 DEF Selected, Closed, Fields, R!ContextIntents
  <2>8. g'.selected = Copy(t)
    BY <1>1, <2>6, <2>7
  <2>9. n \in DOMAIN heard /\ t = heard[n].id
    BY <1>1, <2>6 DEF Chosen
  <2>10. task[t].version = heard[n].version /\ t \in Live
    BY <2>1, <2>3, <2>6, <2>9, VersionShown DEF Fresh
  <2>11. g'.selected.id = t /\ g'.selected.version = task[t].version
    BY <2>8 DEF Copy, CopyIn
  <2>12. heard[n] \in ListItem
    BY <2>1, <2>9
  <2>13. heard[n] = [id |-> heard[n].id, version |-> heard[n].version]
    BY <2>12 DEF ListItem
  <2> QED BY <2>9, <2>10, <2>11, <2>13
<1> QED BY <1>1, InductiveInvariant, PTL DEF ActsOnShown

\* A task that is no parent of S is not touched when the parents are rolled up.
LEMMA RollUpTouches ==
    ASSUME NEW table, NEW S, NEW x \in TaskId, \A t \in S : Parent[t] # x
    PROVE  RolledUp(table, S)[x] = table[x]
BY GraphAssumption DEF RolledUp

\* The copies of a current action are the tasks themselves.
LEMMA CurrentCopies ==
    ASSUME IInv, Current, g.action # None, NEW c \in g.action.targets
    PROVE  c.id \in Live /\ Copy(c.id) = c
<1>1. /\ c.id \in Live /\ task[c.id].version = c.version
  BY DEF Current
<1>2. c \in TaskCopy /\ CopyOK(task, c) /\ Tree(task)
  BY DEF IInv, Sound, Shape, Fields, FieldType, PendingAction, CopiesOK
<1>3. task[c.id] \in TaskRecord
  BY <1>1, <1>2, TreeTyped DEF Live
<1>4. c.status = task[c.id].status
  BY <1>1, <1>2, <1>3 DEF CopyOK
<1>5. c = [id |-> c.id, status |-> c.status, version |-> c.version]
  BY <1>2 DEF TaskCopy
<1> QED BY <1>1, <1>4, <1>5 DEF Copy, CopyIn

\* What a write may change: new tasks, what the user confirmed, and parents of it.
Confirmed(t) ==
    \/ task[t] = None
    \/ Copy(t) \in g.action.targets
    \/ \E c \in g.action.targets : Parent[c.id] = t

\* The action of a write that has one target is about a task as it is.
LEMMA TargetConfirmed ==
    ASSUME IInv, Current,
           g.at \in {"execute_task_update", "execute_status_update", "execute_task_restore",
                     "execute_create_subtasks_batch", "execute_task_delete"}
    PROVE  /\ Copy(Target) \in g.action.targets /\ Target \in Live
           /\ \A t : Parent[Target] = t => \E c \in g.action.targets : Parent[c.id] = t
<1>1. /\ ActionOK(g) /\ g.action.type = Executes(g.at) /\ g.action # None
  BY DEF IInv, Ready, R!Executing, ActionOK
<1>2. g.action.type \notin {"create_task", "delete_tasks_batch"}
  BY <1>1 DEF Executes
<1>3. g.action.targets # {}
  BY <1>1, <1>2 DEF ActionOK
<1>4. PICK c \in g.action.targets : Target = c.id
  BY <1>3 DEF Target
<1>5. c.id \in Live /\ Copy(c.id) = c
  BY <1>1, CurrentCopies
<1> QED BY <1>4, <1>5

\* A node writes only what the user approved, in the versions it was approved for;
\* besides, it creates tasks and rolls up parents.
THEOREM WritesAlwaysApproved == Spec => WritesApproved
<1>1. ASSUME IInv, Executing, task' # task
      PROVE  g.action.status = "approved" /\ \A t \in TaskId : task'[t] # task[t] => Confirmed(t)
  <2>1. g.action.status = "approved"
    <3>1. g.at \in R!Executing \cup {"execute_task_restore"}
      BY <1>1 DEF Executing, ExecutionFails, At, ExecuteCreateTask, ExecuteTaskUpdate,
             ExecuteStatusUpdate, ExecuteTaskRestore, ExecuteCreateSubtasksBatch,
             ExecuteTaskDelete, ExecuteTaskDeleteBatch, R!Executing
    <3> QED BY <1>1, <3>1 DEF IInv, Ready
  <2> SUFFICES ASSUME NEW t \in TaskId, task'[t] # task[t]
               PROVE  Confirmed(t)
    BY <2>1
  <2>2. Tree(task) /\ task = [x \in TaskId |-> task[x]]
    BY <1>1 DEF IInv, Tree
  <2>3. CASE ExecutionFails
    BY <1>1, <2>3 DEF ExecutionFails, At
  <2>4. CASE ExecuteCreateTask
    <3>1. PICK x \in Unused : task' = [task EXCEPT ![x] = [status |-> "TODO", version |-> 1]]
      BY <2>4 DEF ExecuteCreateTask, Written
    <3> QED BY <2>2, <3>1 DEF Confirmed, Unused
  <2>5. CASE ExecuteTaskUpdate
    <3>1. Current /\ g.at = "execute_task_update" /\ task' = Bumped(task, Target)
      BY <2>5 DEF ExecuteTaskUpdate, Written
    <3>2. t = Target
      BY <2>2, <3>1 DEF Bumped
    <3> QED BY <1>1, <3>1, <3>2, TargetConfirmed DEF Confirmed
  <2>6. ASSUME NEW status, task' = WithStatus(Target, status), Current,
               g.at \in {"execute_status_update", "execute_task_restore"}
        PROVE  Confirmed(t)
    <3> DEFINE old == [task EXCEPT ![Target] = [status |-> status, version |-> @.version + 1]]
    <3>1. task' = RolledUp(old, {Target})
      BY <2>6 DEF WithStatus
    <3>2. t # Target => old[t] = task[t]
      BY <2>2
    <3> HIDE DEF old
    <3>3. t = Target \/ Parent[Target] = t
      BY <3>1, <3>2, RollUpTouches
    <3> QED BY <1>1, <2>6, <3>3, TargetConfirmed DEF Confirmed
  <2>7. CASE ExecuteStatusUpdate
    BY <2>6, <2>7 DEF ExecuteStatusUpdate, Written
  <2>8. CASE ExecuteTaskRestore
    BY <2>6, <2>8 DEF ExecuteTaskRestore, Written
  <2>9. CASE ExecuteCreateSubtasksBatch
    <3>1. /\ g.at = "execute_create_subtasks_batch" /\ Current
          /\ \E S \in SUBSET {x \in Unused : Parent[x] = Target} :
                task' = RolledUp([x \in TaskId |->
                                    IF x \in S THEN [status |-> "TODO", version |-> 1]
                                    ELSE task[x]], S)
      BY <2>9 DEF ExecuteCreateSubtasksBatch, Written
    <3>2. PICK S \in SUBSET {x \in Unused : Parent[x] = Target} :
             task' = RolledUp([x \in TaskId |->
                                 IF x \in S THEN [status |-> "TODO", version |-> 1]
                                 ELSE task[x]], S)
      BY <3>1
    <3>3. t \in S \/ t = Target
      BY <3>2, RollUpTouches
    <3>4. t \in S => task[t] = None
      BY DEF Unused
    <3> QED BY <1>1, <3>1, <3>3, <3>4, TargetConfirmed DEF Confirmed
  <2>10. ASSUME NEW S, task' = Removed(S)
         PROVE  t \in S \/ \E x \in S : Parent[x] = t
    BY <2>10, RollUpTouches DEF Removed
  <2>11. CASE ExecuteTaskDelete
    <3>1. Current /\ g.at = "execute_task_delete" /\ task' = Removed({Target})
      BY <2>11 DEF ExecuteTaskDelete, Written
    <3>2. t = Target \/ Parent[Target] = t
      BY <2>10, <3>1
    <3> QED BY <1>1, <3>1, <3>2, TargetConfirmed DEF Confirmed
  <2>12. CASE ExecuteTaskDeleteBatch
    <3>1. /\ Current /\ g.at = "execute_task_delete_batch"
          /\ task' = Removed({c.id : c \in g.action.targets})
      BY <2>12 DEF ExecuteTaskDeleteBatch, Written
    <3>2. g.action # None
      BY <1>1, <3>1 DEF IInv, Ready, R!Executing, ActionOK
    <3>3. PICK c \in g.action.targets : t = c.id \/ Parent[c.id] = t
      BY <2>10, <3>1
    <3> QED BY <1>1, <3>1, <3>2, <3>3, CurrentCopies DEF Confirmed
  <2> QED BY <1>1, <2>3, <2>4, <2>5, <2>7, <2>8, <2>9, <2>11, <2>12 DEF Executing
<1>2. IInv => (Executing /\ task' # task =>
                  /\ g.action.status = "approved"
                  /\ \A t \in TaskId : task'[t] # task[t] =>
                       \/ task[t] = None
                       \/ Copy(t) \in g.action.targets
                       \/ \E c \in g.action.targets : Parent[c.id] = t)
  BY <1>1 DEF Confirmed
<1> QED BY <1>2, InductiveInvariant, PTL DEF WritesApproved
=============================================================================
