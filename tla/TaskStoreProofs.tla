--------------------------- MODULE TaskStoreProofs ---------------------------
(***************************************************************************)
(* TLAPS proofs about TaskStore, for every set of task ids, every supply   *)
(* of idempotency keys and every bound.                                    *)
(***************************************************************************)
EXTENDS TaskStore, FiniteSetTheorems, TLAPS

-----------------------------------------------------------------------------
(* Facts about the roll-up operators.                                      *)

\* A share d of e, in whole percent, is a percentage.
LEMMA ShareBound ==
    ASSUME NEW d \in Nat, NEW e \in Nat \ {0}, d <= e
    PROVE  (d * 100) \div e \in 0..100
<1> DEFINE q == (d * 100) \div e
<1>1. q \in Int /\ e * q <= d * 100 /\ d * 100 < e * q + e
  OBVIOUS
<1>2. q >= 0
  BY <1>1
<1>3. q <= 100
  BY <1>1
<1> QED
  BY <1>1, <1>2, <1>3

\* The progress of a parent with finitely many subtasks is a percentage.
LEMMA ProgressRange ==
    ASSUME NEW table, NEW kids, IsFiniteSet(kids)
    PROVE  Progress(table, kids) \in 0..100
<1> DEFINE E == Effective(table, kids)
           D == DoneAmong(table, kids)
<1>1. CASE E = {}
  BY <1>1 DEF Progress
<1>2. CASE E # {}
  <2>1. E \subseteq kids /\ D \subseteq E
    BY DEF Effective, DoneAmong
  <2>2. IsFiniteSet(E)
    BY <2>1, FS_Subset
  <2>3. Cardinality(D) <= Cardinality(E) /\ IsFiniteSet(D)
    BY <2>1, <2>2, FS_Subset
  <2>4. Cardinality(E) \in Nat /\ Cardinality(D) \in Nat
    BY <2>2, <2>3, FS_CardinalityType
  <2>5. Cardinality(E) # 0
    BY <2>2, <1>2, FS_EmptySet
  <2>6. (Cardinality(D) * 100) \div Cardinality(E) \in 0..100
    BY <2>3, <2>4, <2>5, ShareBound
  <2> QED
    BY <2>6, <1>2 DEF Progress
<1> QED
  BY <1>1, <1>2

\* The roll-up looks at nothing but the statuses of the subtasks.
LEMMA SameStatuses ==
    ASSUME NEW f, NEW g, NEW kids, \A c \in kids : f[c].status = g[c].status
    PROVE  /\ AllDone(f, kids) <=> AllDone(g, kids)
           /\ Progress(f, kids) = Progress(g, kids)
<1>1. Effective(f, kids) = Effective(g, kids)
  BY DEF Effective
<1>2. DoneAmong(f, kids) = DoneAmong(g, kids)
  BY DEF DoneAmong
<1>3. AllDone(f, kids) <=> AllDone(g, kids)
  BY <1>1 DEF AllDone, Effective
<1>4. Progress(f, kids) = Progress(g, kids)
  BY <1>1, <1>2 DEF Progress
<1> QED
  BY <1>3, <1>4

\* What RollUp does to each field of the parent.
LEMMA RollUpFields ==
    ASSUME NEW parent \in TaskRecord, parent.version < MaxVersion,
           NEW table, NEW kids, IsFiniteSet(kids)
    PROVE  LET r == RollUp(parent, table, kids) IN
           /\ r \in TaskRecord
           /\ r.parent = parent.parent
           /\ r.deps = parent.deps
           /\ r.order = parent.order
           /\ r.version = parent.version + 1
           /\ r.progress = Progress(table, kids)
           /\ r.status = RolledStatus(parent.status, AllDone(table, kids))
           /\ (parent.completed <=> parent.status = "DONE")
                => (r.completed <=> r.status = "DONE")
<1> DEFINE rolled == RolledStatus(parent.status, AllDone(table, kids))
           done   == rolled = "DONE" \/ ( /\ parent.completed
                                          /\ rolled # "CANCELLED"
                                          /\ parent.status # "DONE" )
           r      == RollUp(parent, table, kids)
<1>1. parent.status \in Status /\ rolled \in Status
  BY DEF TaskRecord, RolledStatus, Status
<1>2. done \in BOOLEAN
  BY DEF TaskRecord
<1>3. parent.version + 1 \in Version
  BY BoundsAssumption DEF TaskRecord, Version
<1>4. Progress(table, kids) \in 0..100
  BY ProgressRange
<1>5. r = [parent EXCEPT !.status = rolled, !.progress = Progress(table, kids),
                         !.completed = done, !.version = @ + 1]
  BY DEF RollUp
<1>6. /\ r \in TaskRecord
      /\ r.parent = parent.parent /\ r.deps = parent.deps /\ r.order = parent.order
      /\ r.version = parent.version + 1 /\ r.progress = Progress(table, kids)
      /\ r.status = rolled /\ r.completed = done
  BY <1>1, <1>2, <1>3, <1>4, <1>5 DEF TaskRecord
<1>7. (parent.completed <=> parent.status = "DONE") => (done <=> rolled = "DONE")
  BY <1>1 DEF RolledStatus, Status
<1> QED
  BY <1>6, <1>7

-----------------------------------------------------------------------------
(* What the other writers do to the fields of a record.                    *)

LEMMA BumpedFields ==
    ASSUME NEW record \in TaskRecord, record.version < MaxVersion
    PROVE  LET r == Bumped(record) IN
           /\ r \in TaskRecord /\ r # None
           /\ r.parent = record.parent /\ r.deps = record.deps
           /\ r.order = record.order /\ r.status = record.status
           /\ r.progress = record.progress /\ r.completed = record.completed
           /\ r.version = record.version + 1
<1>1. record.version + 1 \in Version
  BY BoundsAssumption DEF TaskRecord, Version
<1>2. Bumped(record) \in TaskRecord
  BY <1>1 DEF Bumped, TaskRecord
<1> QED
  BY <1>2, NoneAssumption DEF Bumped, TaskRecord

LEMMA WithStatusFields ==
    ASSUME NEW record \in TaskRecord, record.version < MaxVersion,
           NEW target \in Status
    PROVE  LET r == WithStatus(record, target) IN
           /\ r \in TaskRecord /\ r # None
           /\ r.parent = record.parent /\ r.deps = record.deps
           /\ r.order = record.order /\ r.status = target
           /\ r.progress = record.progress /\ (r.completed <=> target = "DONE")
           /\ r.version = record.version + 1
<1>1. record.version + 1 \in Version
  BY BoundsAssumption DEF TaskRecord, Version
<1>2. (target = "DONE") \in BOOLEAN
  OBVIOUS
<1>3. WithStatus(record, target) \in TaskRecord
  BY <1>1, <1>2 DEF WithStatus, TaskRecord
<1> QED
  BY <1>3, NoneAssumption DEF WithStatus, TaskRecord

LEMMA DecomposedFields ==
    ASSUME NEW record \in TaskRecord, record.version < MaxVersion,
           NEW table, NEW kids, IsFiniteSet(kids)
    PROVE  LET r == Decomposed(record, table, kids) IN
           /\ r \in TaskRecord /\ r # None
           /\ r.parent = record.parent /\ r.deps = record.deps
           /\ r.order = record.order /\ r.status # "DONE"
           /\ r.status = IF record.status = "DONE" THEN "DOING" ELSE record.status
           /\ r.progress = Progress(table, kids) /\ ~r.completed
           /\ r.version = record.version + 1
<1> DEFINE status == IF record.status = "DONE" THEN "DOING" ELSE record.status
<1>1. record.version + 1 \in Version
  BY BoundsAssumption DEF TaskRecord, Version
<1>2. status \in Status /\ status # "DONE"
  BY DEF TaskRecord, Status
<1>3. Progress(table, kids) \in 0..100
  BY ProgressRange
<1>4. Decomposed(record, table, kids) \in TaskRecord
  BY <1>1, <1>2, <1>3 DEF Decomposed, TaskRecord
<1> QED
  BY <1>2, <1>4, NoneAssumption DEF Decomposed, TaskRecord

\* A new task is a TODO record at version 1.
LEMMA NewTaskFields ==
    ASSUME NEW parent \in TaskId \cup {None}, NEW deps \in SUBSET TaskId,
           NEW order \in Nat
    PROVE  LET r == NewTask(parent, deps, order) IN
           /\ r \in TaskRecord /\ r # None
           /\ r.parent = parent /\ r.deps = deps /\ r.order = order
           /\ r.status = "TODO" /\ ~r.completed
<1>1. NewTask(parent, deps, order) \in TaskRecord
  BY BoundsAssumption DEF NewTask, TaskRecord, Status, Version
<1> QED
  BY <1>1, NoneAssumption DEF NewTask

-----------------------------------------------------------------------------
(* The inductive invariant.  TypeOK alone is not inductive: the progress   *)
(* of a parent is a percentage only because its subtasks are finitely      *)
(* many, and the roll-up writes to live parents only because the tree is   *)
(* intact.                                                                 *)

FiniteFamilies == \A p \in TaskId : IsFiniteSet(children[p])

\* A parent's stored status and progress agree with its subtasks.
FamilyOK(table, p, kids) ==
    kids # {} =>
        /\ table[p].progress = Progress(table, kids)
        /\ table[p].status # "CANCELLED" =>
             (table[p].status = "DONE" <=> AllDone(table, kids))

FamiliesOK == \A p \in Live : FamilyOK(task, p, children[p])

IInv ==
    /\ TypeOK
    /\ FiniteFamilies
    /\ IndexComplete
    /\ TreeIntact
    /\ DepsIntact
    /\ FamiliesOK
    /\ CompletedIffDone

\* A family keeps agreeing when the statuses and the progress stay.
LEMMA FamilySame ==
    ASSUME NEW f, NEW g, NEW p, NEW kids,
           g[p].status = f[p].status, g[p].progress = f[p].progress,
           \A c \in kids : f[c].status = g[c].status,
           FamilyOK(f, p, kids)
    PROVE  FamilyOK(g, p, kids)
<1>1. /\ AllDone(f, kids) <=> AllDone(g, kids)
      /\ Progress(f, kids) = Progress(g, kids)
  BY SameStatuses
<1> QED
  BY <1>1 DEF FamilyOK

\* A family agrees once its parent has been rolled up.
LEMMA FamilyRolled ==
    ASSUME NEW parent \in TaskRecord, parent.version < MaxVersion,
           NEW table, NEW kids, IsFiniteSet(kids),
           NEW g, NEW p, g[p] = RollUp(parent, table, kids),
           \A c \in kids : table[c].status = g[c].status
    PROVE  FamilyOK(g, p, kids)
<1>1. /\ g[p].progress = Progress(table, kids)
      /\ g[p].status = RolledStatus(parent.status, AllDone(table, kids))
  BY RollUpFields
<1>2. /\ AllDone(table, kids) <=> AllDone(g, kids)
      /\ Progress(table, kids) = Progress(g, kids)
  BY SameStatuses
<1>3. RolledStatus(parent.status, AllDone(table, kids)) # "CANCELLED" =>
        (RolledStatus(parent.status, AllDone(table, kids)) = "DONE"
           <=> AllDone(table, kids))
  BY DEF RolledStatus
<1> QED
  BY <1>1, <1>2, <1>3 DEF FamilyOK

\* Live tasks hold records; a task that is not live has no subtasks, and a
\* subtask is neither a root nor a parent.
LEMMA TreeFacts ==
    ASSUME IInv
    PROVE  /\ \A t \in Live : t \in TaskId /\ task[t] \in TaskRecord
           /\ \A t \in TaskId \ Live : children[t] = {}
           /\ \A p \in TaskId : \A c \in children[p] :
                /\ c \in Live /\ task[c].parent = p
                /\ p \in Live /\ task[p].parent = None
                /\ c # p /\ children[c] = {}
<1>1. \A t \in Live : t \in TaskId /\ task[t] \in TaskRecord
  BY DEF IInv, TypeOK, Live
<1>2. \A p \in TaskId : \A c \in children[p] :
        c \in Live /\ task[c].parent = p /\ p # None
  BY NoneAssumption DEF IInv, TreeIntact
<1>3. \A p \in TaskId : \A c \in children[p] : p \in Live /\ task[p].parent = None
  BY <1>2 DEF IInv, TreeIntact
<1>4. \A p \in TaskId : \A c \in children[p] : c # p /\ children[c] = {}
  BY <1>1, <1>2, <1>3
<1> QED
  BY <1>1, <1>2, <1>3, <1>4

LEMMA InitIInv == Init => IInv
<1> SUFFICES ASSUME Init PROVE IInv
  OBVIOUS
<1>1. Live = {}
  BY DEF Init, Live
<1>2. TypeOK
  BY DEF Init, TypeOK
<1>3. FiniteFamilies
  BY FS_EmptySet DEF Init, FiniteFamilies
<1>4. IndexComplete /\ TreeIntact /\ DepsIntact /\ FamiliesOK /\ CompletedIffDone
  BY <1>1 DEF Init, IndexComplete, TreeIntact, DepsIntact, FamiliesOK, CompletedIffDone
<1> QED
  BY <1>2, <1>3, <1>4 DEF IInv

\* The record written under an idempotency key keeps idem well typed.
LEMMA RecordedType ==
    ASSUME idem \in [IdemKey -> SUBSET TaskId], NEW kind, NEW key,
           NEW written \in SUBSET TaskId
    PROVE  Recorded(kind, key, written) \in [IdemKey -> SUBSET TaskId]
BY DEF Recorded

LEMMA CreateIInv ==
    ASSUME IInv, NEW t \in TaskId, NEW key, Create(t, key)
    PROVE  IInv'
<1> DEFINE new == NewTask(None, {}, 0)
<1>1. /\ t \notin Live
      /\ task' = [task EXCEPT ![t] = new]
      /\ userIndex' = userIndex \cup {t}
      /\ idem' = Recorded("create", key, {t})
      /\ children' = children
  BY DEF Create
<1>2. /\ new \in TaskRecord /\ new # None
      /\ new.parent = None /\ new.deps = {} /\ new.status = "TODO"
      /\ ~new.completed
  BY NewTaskFields
<1> HIDE DEF new
<1>3. /\ task'[t] = new
      /\ \A x \in TaskId : x # t => task'[x] = task[x]
  BY <1>1 DEF IInv, TypeOK
<1>4. Live' = Live \cup {t}
  BY <1>2, <1>3 DEF Live
<1>5. TypeOK'
  BY <1>1, <1>2, RecordedType DEF IInv, TypeOK
<1>6. FiniteFamilies'
  BY <1>1 DEF IInv, FiniteFamilies
<1>7. IndexComplete'
  BY <1>1, <1>4 DEF IInv, IndexComplete
<1>8. TreeIntact'
  BY <1>1, <1>2, <1>3, <1>4, NoneAssumption DEF IInv, TreeIntact, Live
<1>9. DepsIntact'
  BY <1>1, <1>2, <1>3, <1>4 DEF IInv, DepsIntact, Live
<1>10. FamiliesOK'
  <2> SUFFICES ASSUME NEW p \in Live' PROVE FamilyOK(task', p, children[p])
    BY <1>1 DEF FamiliesOK
  <2>1. CASE p = t
    BY <2>1, <1>1, TreeFacts DEF FamilyOK
  <2>2. CASE p # t
    <3>1. p \in Live /\ p \in TaskId
      BY <2>2, <1>4 DEF Live
    <3>2. \A c \in children[p] : task'[c] = task[c]
      BY <3>1, <1>1, <1>3, TreeFacts
    <3> QED
      BY <2>2, <3>1, <3>2, <1>3, FamilySame DEF IInv, FamiliesOK
  <2> QED
    BY <2>1, <2>2
<1>11. CompletedIffDone'
  BY <1>2, <1>3, <1>4 DEF IInv, CompletedIffDone, Live
<1> QED
  BY <1>5, <1>6, <1>7, <1>8, <1>9, <1>10, <1>11 DEF IInv

LEMMA UpdateIInv ==
    ASSUME IInv, NEW t \in TaskId, NEW key, Update(t, key)
    PROVE  IInv'
<1> DEFINE new == Bumped(task[t])
<1>1. /\ t \in Live /\ task[t].version < MaxVersion
      /\ task' = [task EXCEPT ![t] = new]
      /\ idem' = Recorded("update", key, {t})
      /\ userIndex' = userIndex /\ children' = children
  BY DEF Update, Bumpable
<1>2. /\ new \in TaskRecord /\ new # None
      /\ new.parent = task[t].parent /\ new.deps = task[t].deps
      /\ new.order = task[t].order /\ new.status = task[t].status
      /\ new.progress = task[t].progress /\ new.completed = task[t].completed
  BY <1>1, TreeFacts, BumpedFields
<1> HIDE DEF new
<1>3. /\ task'[t] = new
      /\ \A x \in TaskId : x # t => task'[x] = task[x]
  BY <1>1 DEF IInv, TypeOK
<1>4. Live' = Live
  BY <1>1, <1>2, <1>3 DEF Live
<1>5. TypeOK'
  BY <1>1, <1>2, RecordedType DEF IInv, TypeOK
<1>6. FiniteFamilies' /\ IndexComplete'
  BY <1>1, <1>4 DEF IInv, FiniteFamilies, IndexComplete
<1>7. TreeIntact'
  BY <1>1, <1>2, <1>3, <1>4 DEF IInv, TreeIntact, Live
<1>8. DepsIntact'
  BY <1>2, <1>3, <1>4 DEF IInv, DepsIntact, Live
<1>9. FamiliesOK'
  <2> SUFFICES ASSUME NEW p \in Live PROVE FamilyOK(task', p, children[p])
    BY <1>1, <1>4 DEF FamiliesOK
  <2>1. \A x \in Live : /\ task'[x].status = task[x].status
                       /\ task'[x].progress = task[x].progress
    BY <1>2, <1>3, TreeFacts
  <2>2. \A c \in children[p] : task[c].status = task'[c].status
    BY <2>1, TreeFacts
  <2> QED
    BY <2>1, <2>2, FamilySame DEF IInv, FamiliesOK
<1>10. CompletedIffDone'
  BY <1>2, <1>3, <1>4 DEF IInv, CompletedIffDone, Live
<1> QED
  BY <1>5, <1>6, <1>7, <1>8, <1>9, <1>10 DEF IInv

LEMMA StatusIInv ==
    ASSUME IInv, NEW t \in TaskId, NEW target \in Status,
           NEW reopen, NEW restore, NEW key,
           UpdateStatus(t, target, reopen, restore, key)
    PROVE  IInv'
<1> DEFINE parent == task[t].parent
           new    == WithStatus(task[t], target)
           table  == [task EXCEPT ![t] = new]
           rolled == RollUp(table[parent], table, children[parent])
<1>1. /\ t \in Live /\ task[t].version < MaxVersion
      /\ StatusAccepted(t, target, reopen, restore)
      /\ parent # None => task[parent].version < MaxVersion
      /\ idem' = Recorded("status", key, {t})
      /\ userIndex' = userIndex /\ children' = children
  BY DEF UpdateStatus, Bumpable
<1>2. task' = IF parent = None THEN table
              ELSE [table EXCEPT ![parent] = rolled]
  BY DEF UpdateStatus
<1>3. /\ new \in TaskRecord /\ new # None
      /\ new.parent = parent /\ new.deps = task[t].deps
      /\ new.order = task[t].order /\ new.status = target
      /\ new.progress = task[t].progress
      /\ new.completed <=> target = "DONE"
  BY <1>1, TreeFacts, WithStatusFields
<1> HIDE DEF new
<1>T. /\ table \in [TaskId -> TaskRecord \cup {None}] /\ table[t] = new
      /\ \A x \in TaskId : x # t => table[x] = task[x]
  BY <1>3 DEF IInv, TypeOK
<1> HIDE DEF table
<1>4. parent # None =>
        /\ parent \in Live /\ parent \in TaskId /\ parent # t
        /\ t \in children[parent] /\ task[parent].parent = None
        /\ children[t] = {}
  BY <1>1, TreeFacts DEF StatusAccepted
<1>5. parent # None =>
        /\ rolled \in TaskRecord /\ rolled # None
        /\ rolled.parent = None /\ rolled.deps = task[parent].deps
        /\ rolled.order = task[parent].order
        /\ rolled.completed <=> rolled.status = "DONE"
  <2> SUFFICES ASSUME parent # None
               PROVE  /\ rolled \in TaskRecord /\ rolled # None
                      /\ rolled.parent = None /\ rolled.deps = task[parent].deps
                      /\ rolled.order = task[parent].order
                      /\ rolled.completed <=> rolled.status = "DONE"
    OBVIOUS
  <2>1. table[parent] = task[parent] /\ task[parent] \in TaskRecord
    BY <1>4, <1>T, TreeFacts
  <2>2. task[parent].completed <=> task[parent].status = "DONE"
    BY <1>4 DEF IInv, CompletedIffDone
  <2>3. IsFiniteSet(children[parent])
    BY <1>4 DEF IInv, FiniteFamilies
  <2> QED
    BY <1>1, <1>4, <2>1, <2>2, <2>3, RollUpFields, NoneAssumption
<1>6. /\ task'[t] = new
      /\ parent # None => task'[parent] = rolled
      /\ \A x \in TaskId : x # t /\ x # parent => task'[x] = task[x]
      /\ \A x \in TaskId : x # parent => task'[x] = table[x]
  BY <1>2, <1>4, <1>T, NoneAssumption
<1> HIDE DEF rolled
<1>7. Live' = Live
  <2> SUFFICES ASSUME NEW x \in TaskId PROVE task'[x] # None <=> task[x] # None
    BY DEF Live
  <2>1. CASE x = t
    BY <2>1, <1>1, <1>3, <1>6 DEF Live
  <2>2. CASE x # t /\ x = parent
    BY <2>2, <1>4, <1>5, <1>6, NoneAssumption DEF Live
  <2>3. CASE x # t /\ x # parent
    BY <2>3, <1>6
  <2> QED
    BY <2>1, <2>2, <2>3
<1>8. TypeOK'
  BY <1>1, <1>2, <1>T, <1>5, RecordedType DEF IInv, TypeOK
<1>9. FiniteFamilies' /\ IndexComplete'
  BY <1>1, <1>7 DEF IInv, FiniteFamilies, IndexComplete
<1>10. \A x \in Live : /\ task'[x].parent = task[x].parent
                     /\ task'[x].deps = task[x].deps
                     /\ task'[x].order = task[x].order
  <2> SUFFICES ASSUME NEW x \in Live
               PROVE  /\ task'[x].parent = task[x].parent
                      /\ task'[x].deps = task[x].deps
                      /\ task'[x].order = task[x].order
    OBVIOUS
  <2>0. x \in TaskId
    BY TreeFacts
  <2>1. CASE x = t
    BY <2>1, <1>3, <1>6
  <2>2. CASE x # t /\ x = parent
    BY <2>0, <2>2, <1>4, <1>5, <1>6, NoneAssumption
  <2>3. CASE x # t /\ x # parent
    BY <2>0, <2>3, <1>6
  <2> QED
    BY <2>1, <2>2, <2>3
<1>11. TreeIntact'
  BY <1>1, <1>7, <1>10, NoneAssumption DEF IInv, TreeIntact
<1>12. DepsIntact'
  BY <1>7, <1>10 DEF IInv, DepsIntact
<1>13. FamiliesOK'
  <2> SUFFICES ASSUME NEW p \in Live PROVE FamilyOK(task', p, children[p])
    BY <1>1, <1>7 DEF FamiliesOK
  <2>0. p \in TaskId /\ task[p] \in TaskRecord /\ FamilyOK(task, p, children[p])
    BY TreeFacts DEF IInv, FamiliesOK
  <2>1. CASE p = parent
    <3>1. \A c \in children[p] : table[c].status = task'[c].status
      BY <2>0, <1>6, <2>1, TreeFacts
    <3>2. table[p] = task[p] /\ IsFiniteSet(children[p]) /\ p # None
      BY <2>0, <2>1, <1>4, <1>T, NoneAssumption DEF IInv, FiniteFamilies
    <3> QED
      BY <2>0, <2>1, <3>1, <3>2, <1>1, <1>6, FamilyRolled DEF rolled
  <2>2. CASE p # parent /\ p = t
    <3>1. CASE children[p] = {}
      BY <3>1 DEF FamilyOK
    <3>2. CASE children[p] # {}
      <4>1. parent = None
        BY <3>2, <2>2, <1>4
      <4>2. target = "DONE" <=> AllDone(task, children[t])
        BY <4>1, <3>2, <2>2, <1>1 DEF StatusAccepted
      <4>3. \A c \in children[t] : task[c].status = task'[c].status
        BY <4>1, <1>6, <2>0, <2>2, TreeFacts, NoneAssumption
      <4>4. /\ AllDone(task, children[t]) <=> AllDone(task', children[t])
            /\ Progress(task, children[t]) = Progress(task', children[t])
        BY <4>3, SameStatuses
      <4> QED
        BY <4>2, <4>4, <2>0, <2>2, <1>3, <1>6 DEF FamilyOK
    <3> QED
      BY <3>1, <3>2
  <2>3. CASE p # parent /\ p # t
    <3>1. \A c \in children[p] : task'[c] = task[c]
      <4> SUFFICES ASSUME NEW c \in children[p] PROVE task'[c] = task[c]
        OBVIOUS
      <4>1. c \in TaskId /\ task[c].parent = p /\ children[c] = {}
        BY <2>0, TreeFacts
      <4>2. c # t
        BY <4>1, <2>3
      <4>3. c # parent
        BY <4>1, <1>4, NoneAssumption
      <4> QED
        BY <4>1, <4>2, <4>3, <1>6
    <3> QED
      BY <3>1, <2>0, <2>3, <1>6, FamilySame
  <2> QED
    BY <2>1, <2>2, <2>3
<1>14. CompletedIffDone'
  <2> SUFFICES ASSUME NEW x \in Live
               PROVE  task'[x].completed <=> task'[x].status = "DONE"
    BY <1>7 DEF CompletedIffDone
  <2>1. CASE x = t
    BY <2>1, <1>3, <1>6
  <2>2. CASE x # t /\ x = parent
    BY <2>2, <1>5, <1>6, TreeFacts, NoneAssumption
  <2>3. CASE x # t /\ x # parent
    BY <2>3, <1>6, TreeFacts DEF IInv, CompletedIffDone
  <2> QED
    BY <2>1, <2>2, <2>3
<1> QED
  BY <1>8, <1>9, <1>11, <1>12, <1>13, <1>14 DEF IInv

LEMMA SubtasksIInv ==
    ASSUME IInv, NEW p \in TaskId, NEW key, CreateSubtasks(p, key)
    PROVE  IInv'
<1>1. PICK S \in SUBSET {t \in TaskId : Fresh(t)} :
        /\ IsFiniteSet(S) /\ Cardinality(S) \in 1..MaxItems
        /\ \E plan \in Plan(S), offset \in {task[c].order : c \in children[p]} \cup {0} :
             /\ PlanAccepted(plan)
             /\ IsOrderOffset(offset, p)
             /\ WriteSubtasks(p, plan, offset)
        /\ idem' = Recorded("batch", key, S)
  BY DEF CreateSubtasks
<1>2. PICK plan \in Plan(S), offset \in {task[c].order : c \in children[p]} \cup {0} :
        PlanAccepted(plan) /\ WriteSubtasks(p, plan, offset)
  BY <1>1
<1> DEFINE sub(t) == NewTask(p, plan[t].deps, offset + plan[t].order)
           table  == [t \in TaskId |-> IF t \in S THEN sub(t) ELSE task[t]]
           kids   == children[p] \cup S
           new    == Decomposed(table[p], table, kids)
<1>3. /\ p \in Live /\ task[p] \in TaskRecord /\ task[p].parent = None
      /\ task[p].version < MaxVersion
  BY TreeFacts DEF CreateSubtasks, Decomposable, Bumpable
<1>4. /\ DOMAIN plan = S /\ S \subseteq TaskId /\ S \cap Live = {} /\ p \notin S
      /\ \A t \in S : plan[t].order \in Nat /\ plan[t].deps \in SUBSET S
      /\ \A t \in S : \A d \in plan[t].deps : plan[d].order < plan[t].order
  BY <1>1, <1>2, <1>3, BoundsAssumption DEF Plan, PlanAccepted
<1>5. offset \in Nat
  BY TreeFacts DEF TaskRecord
<1>6. S # {}
  BY <1>1, FS_EmptySet
<1>7. \A t \in S : /\ sub(t) \in TaskRecord /\ sub(t) # None
                   /\ sub(t).parent = p /\ sub(t).deps = plan[t].deps
                   /\ sub(t).order = offset + plan[t].order
                   /\ sub(t).status = "TODO" /\ ~sub(t).completed
  <2> SUFFICES ASSUME NEW t \in S
               PROVE  /\ sub(t) \in TaskRecord /\ sub(t) # None
                      /\ sub(t).parent = p /\ sub(t).deps = plan[t].deps
                      /\ sub(t).order = offset + plan[t].order
                      /\ sub(t).status = "TODO" /\ ~sub(t).completed
    OBVIOUS
  <2>1. plan[t].deps \in SUBSET TaskId /\ offset + plan[t].order \in Nat
    BY <1>4, <1>5
  <2> QED
    BY <2>1, NewTaskFields
<1> HIDE DEF sub
<1>8. /\ table \in [TaskId -> TaskRecord \cup {None}] /\ table[p] = task[p]
      /\ \A t \in S : table[t] = sub(t)
      /\ \A t \in TaskId \ S : table[t] = task[t]
  BY <1>3, <1>4, <1>7 DEF IInv, TypeOK
<1>9. /\ task' = [table EXCEPT ![p] = new]
      /\ userIndex' = userIndex \cup S
      /\ children' = [children EXCEPT ![p] = kids]
  BY <1>2, <1>4 DEF WriteSubtasks, sub
<1> HIDE DEF table
<1>10. IsFiniteSet(kids)
  BY <1>1, FS_Union DEF IInv, FiniteFamilies
<1>11. /\ new \in TaskRecord /\ new # None
       /\ new.parent = None /\ new.deps = task[p].deps
       /\ new.order = task[p].order /\ new.status # "DONE"
       /\ new.progress = Progress(table, kids) /\ ~new.completed
  BY <1>3, <1>8, <1>10, DecomposedFields
<1> HIDE DEF new
<1>12. /\ task'[p] = new
       /\ \A t \in S : task'[t] = sub(t)
       /\ \A t \in TaskId : t \notin S /\ t # p => task'[t] = task[t]
       /\ children'[p] = kids
       /\ \A t \in TaskId : t # p => children'[t] = children[t]
  BY <1>4, <1>8, <1>9 DEF IInv, TypeOK
<1>13. Live' = Live \cup S
  BY <1>3, <1>4, <1>7, <1>11, <1>12 DEF Live
<1>14. TypeOK'
  BY <1>1, <1>4, <1>8, <1>9, <1>11, RecordedType DEF IInv, TypeOK
<1>15. FiniteFamilies' /\ IndexComplete'
  BY <1>9, <1>10, <1>12, <1>13 DEF IInv, FiniteFamilies, IndexComplete
<1>16. TreeIntact'
  <2>1. \A q \in TaskId : children'[q] = {t \in Live' : task'[t].parent = q}
    <3> SUFFICES ASSUME NEW q \in TaskId
                 PROVE  children'[q] = {t \in Live' : task'[t].parent = q}
      OBVIOUS
    <3>1. children[q] = {t \in Live : task[t].parent = q}
      BY DEF IInv, TreeIntact
    <3>2. \A t \in Live : task'[t].parent = task[t].parent
      BY <1>3, <1>4, <1>11, <1>12, TreeFacts
    <3>3. \A t \in S : task'[t].parent = p
      BY <1>7, <1>12
    <3> QED
      BY <3>1, <3>2, <3>3, <1>12, <1>13
  <2>2. \A t \in Live' : task'[t].parent # None =>
           task'[t].parent \in Live' /\ task'[task'[t].parent].parent = None
    <3> SUFFICES ASSUME NEW t \in Live', task'[t].parent # None
                 PROVE  task'[t].parent \in Live' /\ task'[task'[t].parent].parent = None
      OBVIOUS
    <3>1. CASE t \in S
      BY <3>1, <1>3, <1>7, <1>11, <1>12, <1>13
    <3>2. CASE t \notin S
      <4>1. t \in Live /\ t # p /\ task'[t] = task[t]
        BY <3>2, <1>11, <1>12, <1>13 DEF Live
      <4>2. task[t].parent \in Live /\ task[task[t].parent].parent = None
        BY <4>1 DEF IInv, TreeIntact
      <4> QED
        BY <4>1, <4>2, <1>4, <1>11, <1>12, <1>13 DEF Live
    <3> QED
      BY <3>1, <3>2
  <2> QED
    BY <2>1, <2>2 DEF TreeIntact
<1>17. DepsIntact'
  <2> SUFFICES ASSUME NEW t \in Live', NEW d \in task'[t].deps
               PROVE  /\ d \in Live' /\ task'[t].parent # None
                      /\ task'[d].parent = task'[t].parent
                      /\ task'[d].order < task'[t].order
    BY DEF DepsIntact
  <2>1. CASE t \in S
    <3>1. d \in S /\ plan[d].order < plan[t].order
      BY <2>1, <1>4, <1>7, <1>12
    <3> QED
      BY <3>1, <2>1, <1>3, <1>4, <1>5, <1>7, <1>12, <1>13, NoneAssumption
  <2>2. CASE t \notin S
    <3>1. \A x \in Live : /\ task'[x].parent = task[x].parent
                         /\ task'[x].deps = task[x].deps
                         /\ task'[x].order = task[x].order
      BY <1>3, <1>4, <1>11, <1>12, TreeFacts
    <3>2. t \in Live
      BY <2>2, <1>13
    <3>3. /\ d \in Live /\ task[t].parent # None
          /\ task[d].parent = task[t].parent
          /\ task[d].order < task[t].order
      BY <3>1, <3>2 DEF IInv, DepsIntact
    <3> QED
      BY <3>1, <3>2, <3>3, <1>13
  <2> QED
    BY <2>1, <2>2
<1>18. FamiliesOK'
  <2> SUFFICES ASSUME NEW q \in Live' PROVE FamilyOK(task', q, children'[q])
    BY DEF FamiliesOK
  <2>1. CASE q = p
    <3>1. \A c \in kids : table[c].status = task'[c].status
      BY <1>4, <1>8, <1>12, TreeFacts DEF Live
    <3>2. Progress(table, kids) = Progress(task', kids)
      BY <3>1, SameStatuses
    <3>3. ~AllDone(task', kids)
      <4>1. PICK s \in S : TRUE
        BY <1>6
      <4>2. s \in kids /\ task'[s].status = "TODO"
        BY <1>7, <1>12
      <4> QED
        BY <4>2 DEF AllDone, Effective
    <3> QED
      BY <2>1, <3>2, <3>3, <1>11, <1>12 DEF FamilyOK
  <2>2. CASE q \in S
    <3>1. children'[q] = {}
      BY <2>2, <1>4, <1>12, TreeFacts
    <3> QED
      BY <3>1 DEF FamilyOK
  <2>3. CASE q # p /\ q \notin S
    <3>1. q \in Live /\ q \in TaskId
      BY <2>3, <1>13 DEF Live
    <3>2. \A c \in children[q] : task'[c] = task[c]
      BY <3>1, <2>3, <1>3, <1>4, <1>12, TreeFacts, NoneAssumption DEF Live
    <3> QED
      BY <3>1, <3>2, <2>3, <1>12, FamilySame DEF IInv, FamiliesOK
  <2> QED
    BY <2>1, <2>2, <2>3
<1>19. CompletedIffDone'
  BY <1>7, <1>11, <1>12, <1>13, TreeFacts DEF IInv, CompletedIffDone
<1> QED
  BY <1>14, <1>15, <1>16, <1>17, <1>18, <1>19 DEF IInv

LEMMA DeleteIInv ==
    ASSUME IInv, NEW S \in SUBSET TaskId, NEW kind, NEW key,
           Delete(S, kind, key)
    PROVE  IInv'
<1> DEFINE P         == ParentsOf(S)
           rest(t)   == children[t] \ S
           rolled(t) == RollUp(task[t], task, rest(t))
<1>1. /\ \A t \in S : t \in Live /\ children[t] = {}
      /\ \A p \in P : p \in Live /\ task[p].version < MaxVersion
      /\ \A p \in P : \A c \in children[p] : c \notin S => task[c].deps \cap S = {}
      /\ \A p \in P : {t \in S : task[t].parent = p} \subseteq children[p]
      /\ userIndex' = userIndex \ S
      /\ idem' = Recorded(kind, key, S)
  BY DEF Delete, DeletionAccepted, Bumpable
<1>2. /\ task' = [t \in TaskId |-> IF t \in S THEN None
                                   ELSE IF t \in P THEN rolled(t) ELSE task[t]]
      /\ children' = [t \in TaskId |-> IF t \in S THEN {}
                                       ELSE IF t \in P THEN rest(t)
                                       ELSE children[t]]
  BY DEF Delete
<1>3. /\ P \subseteq Live /\ P \subseteq TaskId
      /\ \A t \in S : task[t].parent # None => task[t].parent \in P
      /\ \A p \in P : \E t \in S : task[t].parent = p /\ t \in children[p]
  BY <1>1 DEF ParentsOf, Live
<1> HIDE DEF P
<1>4. P \cap S = {} /\ \A p \in P : task[p].parent = None
  <2> SUFFICES ASSUME NEW p \in P PROVE p \notin S /\ task[p].parent = None
    OBVIOUS
  <2>1. PICK t \in S : t \in children[p]
    BY <1>3
  <2> QED
    BY <2>1, <1>1, <1>3, TreeFacts
<1>5. \A t \in TaskId : IsFiniteSet(rest(t))
  BY FS_Subset DEF IInv, FiniteFamilies
<1>6. \A p \in P :
        /\ rolled(p) \in TaskRecord /\ rolled(p) # None
        /\ rolled(p).parent = None /\ rolled(p).deps = task[p].deps
        /\ rolled(p).order = task[p].order
        /\ rolled(p).completed <=> rolled(p).status = "DONE"
  <2> SUFFICES ASSUME NEW p \in P
               PROVE  /\ rolled(p) \in TaskRecord /\ rolled(p) # None
                      /\ rolled(p).parent = None /\ rolled(p).deps = task[p].deps
                      /\ rolled(p).order = task[p].order
                      /\ rolled(p).completed <=> rolled(p).status = "DONE"
    OBVIOUS
  <2>1. task[p] \in TaskRecord /\ task[p].version < MaxVersion /\ IsFiniteSet(rest(p))
    BY <1>1, <1>3, <1>5, TreeFacts
  <2>2. task[p].completed <=> task[p].status = "DONE"
    BY <1>3 DEF IInv, CompletedIffDone
  <2> HIDE DEF rest
  <2> QED
    BY <2>1, <2>2, <1>4, RollUpFields, NoneAssumption
<1>7. /\ \A t \in S : task'[t] = None /\ children'[t] = {}
      /\ \A p \in P : task'[p] = rolled(p) /\ children'[p] = rest(p)
      /\ \A t \in TaskId : t \notin S /\ t \notin P =>
            task'[t] = task[t] /\ children'[t] = children[t]
  BY <1>2, <1>3, <1>4
<1> HIDE DEF rolled
<1>8. Live' = Live \ S
  <2> SUFFICES ASSUME NEW t \in TaskId
               PROVE  task'[t] # None <=> task[t] # None /\ t \notin S
    BY DEF Live
  <2>1. CASE t \in S
    BY <2>1, <1>7
  <2>2. CASE t \in P
    BY <2>2, <1>3, <1>4, <1>6, <1>7 DEF Live
  <2>3. CASE t \notin S /\ t \notin P
    BY <2>3, <1>7
  <2> QED
    BY <2>1, <2>2, <2>3
<1>9. TypeOK'
  BY <1>1, <1>2, <1>6, RecordedType DEF IInv, TypeOK
<1>10. FiniteFamilies' /\ IndexComplete'
  <2>1. \A t \in TaskId : IsFiniteSet(children'[t])
    BY <1>5, <1>7, FS_EmptySet DEF IInv, FiniteFamilies
  <2> QED
    BY <2>1, <1>1, <1>8 DEF IInv, FiniteFamilies, IndexComplete
<1>11. \A t \in Live' : /\ t \in Live /\ t \notin S /\ t \in TaskId
                        /\ task'[t].parent = task[t].parent
                        /\ task'[t].deps = task[t].deps
                        /\ task'[t].order = task[t].order
  BY <1>4, <1>6, <1>7, <1>8, TreeFacts
<1>12. \A t \in Live' : task[t].parent # None => task[t].parent \in Live'
  BY <1>1, <1>8, <1>11, TreeFacts DEF IInv, TreeIntact
<1>13. \A p \in TaskId : children'[p] = children[p] \ S
  <2> SUFFICES ASSUME NEW p \in TaskId PROVE children'[p] = children[p] \ S
    OBVIOUS
  <2>1. CASE p \in S \/ p \in P
    BY <2>1, <1>1, <1>7
  <2>2. CASE p \notin S /\ p \notin P
    <3>1. \A c \in children[p] : c \notin S
      BY <2>2, <1>3, TreeFacts, NoneAssumption
    <3> QED
      BY <2>2, <3>1, <1>7
  <2> QED
    BY <2>1, <2>2
<1>14. TreeIntact'
  <2>1. \A p \in TaskId : children'[p] = {t \in Live' : task'[t].parent = p}
    BY <1>8, <1>11, <1>13 DEF IInv, TreeIntact
  <2>2. \A t \in Live' : task'[t].parent # None =>
          task'[t].parent \in Live' /\ task'[task'[t].parent].parent = None
    BY <1>11, <1>12 DEF IInv, TreeIntact
  <2> QED
    BY <2>1, <2>2 DEF TreeIntact
<1>15. DepsIntact'
  <2> SUFFICES ASSUME NEW t \in Live', NEW d \in task'[t].deps
               PROVE  /\ d \in Live' /\ task'[t].parent # None
                      /\ task'[d].parent = task'[t].parent
                      /\ task'[d].order < task'[t].order
    BY DEF DepsIntact
  <2>1. t \in Live /\ t \notin S /\ d \in task[t].deps
    BY <1>11
  <2>2. /\ d \in Live /\ task[t].parent # None
        /\ task[d].parent = task[t].parent
        /\ task[d].order < task[t].order
    BY <2>1 DEF IInv, DepsIntact
  <2>3. d \notin S
    <3> SUFFICES ASSUME d \in S PROVE FALSE
      OBVIOUS
    <3>1. task[t].parent \in P
      BY <2>2, <1>3
    <3>2. t \in children[task[t].parent]
      BY <2>1, <3>1, <1>3 DEF IInv, TreeIntact
    <3> QED
      BY <2>1, <3>1, <3>2, <1>1
  <2> QED
    BY <2>2, <2>3, <1>8, <1>11
<1>16. FamiliesOK'
  <2> SUFFICES ASSUME NEW p \in Live' PROVE FamilyOK(task', p, children'[p])
    BY DEF FamiliesOK
  <2>1. /\ p \in Live /\ p \notin S /\ p \in TaskId
        /\ task[p] \in TaskRecord /\ FamilyOK(task, p, children[p])
    BY <1>11, TreeFacts DEF IInv, FamiliesOK
  <2>2. \A c \in children'[p] : task[c] = task'[c]
    <3> SUFFICES ASSUME NEW c \in children'[p] PROVE task[c] = task'[c]
      OBVIOUS
    <3>1. c \in children[p] /\ c \notin S /\ c \in TaskId /\ task[c].parent = p
      BY <2>1, <1>13, TreeFacts
    <3>2. c \notin P
      BY <3>1, <2>1, <1>4, NoneAssumption
    <3> QED
      BY <3>1, <3>2, <1>7
  <2>3. CASE p \in P
    <3>1. /\ task[p].version < MaxVersion /\ IsFiniteSet(rest(p))
          /\ children'[p] = rest(p) /\ task'[p] = rolled(p)
      BY <2>1, <2>3, <1>1, <1>5, <1>7
    <3> HIDE DEF rest
    <3> QED
      BY <2>1, <2>2, <3>1, FamilyRolled DEF rolled
  <2>4. CASE p \notin P
    BY <2>1, <2>2, <2>4, <1>7, FamilySame
  <2> QED
    BY <2>3, <2>4
<1>17. CompletedIffDone'
  <2> SUFFICES ASSUME NEW t \in Live'
               PROVE  task'[t].completed <=> task'[t].status = "DONE"
    BY DEF CompletedIffDone
  <2>1. CASE t \in P
    BY <2>1, <1>6, <1>7
  <2>2. CASE t \notin P
    BY <2>2, <1>7, <1>11 DEF IInv, CompletedIffDone
  <2> QED
    BY <2>1, <2>2
<1> QED
  BY <1>9, <1>10, <1>14, <1>15, <1>16, <1>17 DEF IInv

LEMMA StutterIInv == IInv /\ UNCHANGED vars => IInv'
<1> SUFFICES ASSUME IInv, UNCHANGED vars PROVE IInv'
  OBVIOUS
<1>1. /\ task' = task /\ userIndex' = userIndex
      /\ children' = children /\ idem' = idem
  BY DEF vars
<1>2. Live' = Live
  BY <1>1 DEF Live
<1>3. (TypeOK /\ FiniteFamilies /\ IndexComplete)'
  BY <1>1, <1>2 DEF IInv, TypeOK, FiniteFamilies, IndexComplete
<1>4. (TreeIntact /\ DepsIntact)'
  BY <1>1, <1>2 DEF IInv, TreeIntact, DepsIntact
<1>5. FamiliesOK'
  <2> SUFFICES ASSUME NEW p \in Live PROVE FamilyOK(task', p, children'[p])
    BY <1>2 DEF FamiliesOK
  <2> QED
    BY <1>1 DEF IInv, FamiliesOK
<1>6. CompletedIffDone'
  BY <1>1, <1>2 DEF IInv, CompletedIffDone
<1> QED
  BY <1>3, <1>4, <1>5, <1>6 DEF IInv

LEMMA NextIInv == IInv /\ [Next]_vars => IInv'
<1> SUFFICES ASSUME IInv, [Next]_vars PROVE IInv'
  OBVIOUS
<1>1. CASE \E t \in TaskId, key \in KeysOf["create"] : Create(t, key)
  BY <1>1, CreateIInv
<1>2. CASE \E p \in TaskId, key \in KeysOf["batch"] : CreateSubtasks(p, key)
  BY <1>2, SubtasksIInv
<1>3. CASE \E t \in TaskId, key \in KeysOf["update"] \cup {None} : Update(t, key)
  BY <1>3, UpdateIInv
<1>4. CASE \E t \in TaskId, target \in Status, reopen, restore \in BOOLEAN,
              key \in KeysOf["status"] \cup {None} :
             UpdateStatus(t, target, reopen, restore, key)
  BY <1>4, StatusIInv
<1>5. CASE \E kind \in {"delete", "delete_batch"} : \E key \in KeysOf[kind] :
             \E S \in SUBSET TaskId : Delete(S, kind, key)
  BY <1>5, DeleteIInv
<1>6. CASE UNCHANGED vars
  BY <1>6, StutterIInv
<1> QED
  BY <1>1, <1>2, <1>3, <1>4, <1>5, <1>6 DEF Next

-----------------------------------------------------------------------------
(* The theorems.                                                           *)

\* The inductive invariant holds in every reachable state of the store.
THEOREM InductiveInvariant == Spec => []IInv
BY InitIInv, NextIInv, PTL DEF Spec

\* Every value the repository commits has the shape of its schema.
THEOREM TypeCorrect == Spec => []TypeOK
<1>1. IInv => TypeOK
  BY DEF IInv
<1> QED
  BY <1>1, InductiveInvariant, PTL

\* No sequence of commits leaves a dead id in the user's index or a task
\* outside it.
THEOREM IndexAlwaysComplete == Spec => []IndexComplete
<1>1. IInv => IndexComplete
  BY DEF IInv
<1> QED
  BY <1>1, InductiveInvariant, PTL

\* Child indexes and parent_id never disagree and no subtask is orphaned.
THEOREM TreeAlwaysIntact == Spec => []TreeIntact
<1>1. IInv => TreeIntact
  BY DEF IInv
<1> QED
  BY <1>1, InductiveInvariant, PTL

\* Dependencies always point to live, earlier siblings.
THEOREM DepsAlwaysIntact == Spec => []DepsIntact
<1>1. IInv => DepsIntact
  BY DEF IInv
<1> QED
  BY <1>1, InductiveInvariant, PTL

\* A parent that is not cancelled is DONE exactly when its subtasks are.
THEOREM ParentDoneByChildren == Spec => []DoneByChildren
<1>1. IInv => DoneByChildren
  BY DEF IInv, FamiliesOK, FamilyOK, DoneByChildren
<1> QED
  BY <1>1, InductiveInvariant, PTL

\* The stored progress of a parent is the one its subtasks give.
THEOREM ProgressAlwaysAgrees == Spec => []ProgressAgrees
<1>1. IInv => ProgressAgrees
  BY DEF IInv, FamiliesOK, FamilyOK, ProgressAgrees
<1> QED
  BY <1>1, InductiveInvariant, PTL

\* completed_at is set exactly on the tasks that are DONE.
THEOREM CompletionStampAgrees == Spec => []CompletedIffDone
<1>1. IInv => CompletedIffDone
  BY DEF IInv
<1> QED
  BY <1>1, InductiveInvariant, PTL

-----------------------------------------------------------------------------
(* Action properties.  Each step rewrites a task that exists before and    *)
(* after it in one of four ways, or leaves it alone.                       *)

Kept(t) == task'[t] = task[t] \/ task[t] = None \/ task'[t] = None

ByUpdate(t) == task'[t] = Bumped(task[t])

ByStatus(t) ==
    \E target \in Status : /\ Transition(task[t].status, target, TRUE, TRUE)
                           /\ task'[t] = WithStatus(task[t], target)

ByBatch(t) ==
    \E table, kids : IsFiniteSet(kids) /\ task'[t] = Decomposed(task[t], table, kids)

ByRollUp(t) ==
    \E table : /\ children[t] # {}
               /\ IsFiniteSet(children'[t])
               /\ \A c \in children'[t] : table[c].status = task'[c].status
               /\ task'[t] = RollUp(task[t], table, children'[t])

Rewritten(t) ==
    \/ Kept(t)
    \/ /\ task[t].version < MaxVersion
       /\ ByUpdate(t) \/ ByStatus(t) \/ ByBatch(t) \/ ByRollUp(t)

LEMMA CreateRewrites ==
    ASSUME IInv, NEW x \in TaskId, NEW key, Create(x, key), NEW t \in TaskId
    PROVE  Rewritten(t)
BY DEF Create, Live, Rewritten, Kept, IInv, TypeOK

LEMMA UpdateRewrites ==
    ASSUME IInv, NEW x \in TaskId, NEW key, Update(x, key), NEW t \in TaskId
    PROVE  Rewritten(t)
BY DEF Update, Bumpable, Rewritten, Kept, ByUpdate, IInv, TypeOK

LEMMA StatusRewrites ==
    ASSUME IInv, NEW x \in TaskId, NEW target \in Status,
           NEW reopen \in BOOLEAN, NEW restore \in BOOLEAN, NEW key,
           UpdateStatus(x, target, reopen, restore, key), NEW t \in TaskId
    PROVE  Rewritten(t)
<1> DEFINE parent == task[x].parent
           new    == WithStatus(task[x], target)
           table  == [task EXCEPT ![x] = new]
           rolled == RollUp(task[parent], table, children[parent])
<1>1. /\ x \in Live /\ task[x].version < MaxVersion
      /\ StatusAccepted(x, target, reopen, restore)
      /\ parent # None => task[parent].version < MaxVersion
      /\ children' = children
  BY DEF UpdateStatus, Bumpable
<1>2. Transition(task[x].status, target, TRUE, TRUE)
  BY <1>1 DEF StatusAccepted, Transition
<1>3. parent # None =>
        /\ parent \in Live /\ parent \in TaskId /\ parent # x
        /\ x \in children[parent]
  BY <1>1, TreeFacts DEF StatusAccepted
<1>4. /\ task'[x] = new
      /\ parent # None => task'[parent] = rolled
      /\ \A y \in TaskId : y # x /\ y # parent => task'[y] = task[y]
      /\ \A y \in TaskId : y # parent => task'[y] = table[y]
  BY <1>3, NoneAssumption DEF UpdateStatus, IInv, TypeOK
<1>5. CASE t = x
  BY <1>1, <1>2, <1>4, <1>5 DEF Rewritten, ByStatus
<1>6. CASE t # x /\ t = parent
  <2>1. parent # None
    BY <1>6, NoneAssumption
  <2>2. \A c \in children'[t] : table[c].status = task'[c].status
    BY <1>1, <1>3, <1>4, <1>6, TreeFacts
  <2>3. IsFiniteSet(children'[t]) /\ children[t] # {}
    BY <2>1, <1>1, <1>3, <1>6 DEF IInv, FiniteFamilies
  <2>4. task'[t] = RollUp(task[t], table, children'[t])
    BY <2>1, <1>1, <1>4, <1>6
  <2> HIDE DEF table
  <2>5. ByRollUp(t)
    BY <2>2, <2>3, <2>4 DEF ByRollUp
  <2> QED
    BY <2>1, <2>5, <1>1, <1>6 DEF Rewritten
<1>7. CASE t # x /\ t # parent
  BY <1>4, <1>7 DEF Rewritten, Kept
<1> QED
  BY <1>5, <1>6, <1>7

LEMMA SubtasksRewrites ==
    ASSUME IInv, NEW p \in TaskId, NEW key, CreateSubtasks(p, key),
           NEW t \in TaskId
    PROVE  Rewritten(t)
<1>1. PICK S \in SUBSET TaskId :
        /\ IsFiniteSet(S)
        /\ \E plan \in Plan(S), offset \in {task[c].order : c \in children[p]} \cup {0} :
             PlanAccepted(plan) /\ WriteSubtasks(p, plan, offset)
  BY DEF CreateSubtasks
<1>2. PICK plan \in Plan(S), offset \in {task[c].order : c \in children[p]} \cup {0} :
        PlanAccepted(plan) /\ WriteSubtasks(p, plan, offset)
  BY <1>1
<1> DEFINE table == [u \in TaskId |->
                       IF u \in S THEN NewTask(p, plan[u].deps, offset + plan[u].order)
                                  ELSE task[u]]
           kids  == children[p] \cup S
<1>3. p \in Live /\ task[p].version < MaxVersion
  BY DEF CreateSubtasks, Decomposable, Bumpable
<1>4. DOMAIN plan = S /\ S \cap Live = {}
  BY <1>2 DEF Plan, PlanAccepted
<1>5. task' = [table EXCEPT ![p] = Decomposed(@, table, kids)]
  BY <1>2, <1>4 DEF WriteSubtasks
<1>6. IsFiniteSet(kids)
  BY <1>1, FS_Union DEF IInv, FiniteFamilies
<1>7. table[p] = task[p]
  BY <1>3, <1>4
<1>8. CASE t = p
  <2>1. task'[t] = Decomposed(task[t], table, kids)
    BY <1>5, <1>7, <1>8
  <2> HIDE DEF table, kids
  <2> QED
    BY <2>1, <1>3, <1>6, <1>8 DEF Rewritten, ByBatch
<1>9. CASE t # p
  BY <1>4, <1>5, <1>9 DEF Rewritten, Kept, Live
<1> QED
  BY <1>8, <1>9

LEMMA DeleteRewrites ==
    ASSUME IInv, NEW S \in SUBSET TaskId, NEW kind, NEW key,
           Delete(S, kind, key), NEW t \in TaskId
    PROVE  Rewritten(t)
<1>1. CASE t \in S \/ t \notin ParentsOf(S)
  BY <1>1 DEF Delete, Rewritten, Kept
<1>2. CASE t \notin S /\ t \in ParentsOf(S)
  <2>1. /\ task[t].version < MaxVersion
        /\ task'[t] = RollUp(task[t], task, children[t] \ S)
        /\ children'[t] = children[t] \ S
    BY <1>2 DEF Delete, Bumpable
  <2>2. PICK s \in S : task[s].parent = t
    BY <1>2 DEF ParentsOf
  <2>3. s \in children[t]
    BY <1>2, <2>2 DEF Delete, DeletionAccepted
  <2>4. IsFiniteSet(children'[t])
    BY <2>1, FS_Subset DEF IInv, FiniteFamilies
  <2>5. \A c \in children'[t] : task[c].status = task'[c].status
    <3> SUFFICES ASSUME NEW c \in children[t], c \notin S
                 PROVE  task[c] = task'[c]
      BY <2>1
    <3>1. c \in TaskId /\ task[c].parent = t /\ children[c] = {}
      BY TreeFacts
    <3>2. c \notin ParentsOf(S)
      BY <3>1 DEF ParentsOf, Delete, DeletionAccepted
    <3> QED
      BY <3>1, <3>2 DEF Delete
  <2>6. ByRollUp(t)
    BY <2>1, <2>3, <2>4, <2>5 DEF ByRollUp
  <2> QED
    BY <2>1, <2>6 DEF Rewritten
<1> QED
  BY <1>1, <1>2

LEMMA NextRewrites ==
    ASSUME IInv, [Next]_vars, NEW t \in TaskId
    PROVE  Rewritten(t)
<1>1. CASE UNCHANGED vars
  BY <1>1 DEF vars, Rewritten, Kept
<1>2. CASE Next
  BY <1>2, CreateRewrites, SubtasksRewrites, UpdateRewrites, StatusRewrites,
     DeleteRewrites DEF Next
<1> QED
  BY <1>1, <1>2

\* Whatever operation rewrites a task, its version grows by exactly one.
THEOREM VersionsGuardContent == Spec => VersionGuardsContent
<1> DEFINE Step == \A t \in TaskId : task[t] # None /\ task'[t] # None =>
                     task'[t] = task[t] \/ task'[t].version = task[t].version + 1
<1>1. IInv /\ [Next]_vars => Step
  <2> SUFFICES ASSUME IInv, [Next]_vars, NEW t \in TaskId,
                      task[t] # None, task'[t] # None, task'[t] # task[t]
               PROVE  task'[t].version = task[t].version + 1
    OBVIOUS
  <2>1. /\ task[t] \in TaskRecord /\ task[t].version < MaxVersion
        /\ ByUpdate(t) \/ ByStatus(t) \/ ByBatch(t) \/ ByRollUp(t)
    BY NextRewrites, TreeFacts DEF Rewritten, Kept, Live
  <2>2. CASE ByUpdate(t)
    BY <2>1, <2>2, BumpedFields DEF ByUpdate
  <2>3. CASE ByStatus(t)
    BY <2>1, <2>3, WithStatusFields DEF ByStatus
  <2>4. CASE ByBatch(t)
    BY <2>1, <2>4, DecomposedFields DEF ByBatch
  <2>5. CASE ByRollUp(t)
    BY <2>1, <2>5, RollUpFields DEF ByRollUp
  <2> QED
    BY <2>1, <2>2, <2>3, <2>4, <2>5
<1> QED
  BY <1>1, InductiveInvariant, PTL DEF Spec, VersionGuardsContent

\* Statuses only move along the table, but for parents that their subtasks
\* complete.
THEOREM StatusMovesLegal == Spec => LegalMoves
<1> DEFINE Step == \A t \in TaskId : task[t] # None /\ task'[t] # None =>
                     \/ Transition(task[t].status, task'[t].status, TRUE, TRUE)
                     \/ /\ children[t] # {}
                        /\ task[t].status \in {"TODO", "BLOCKED"}
                        /\ task'[t].status = "DONE"
                        /\ AllDone(task', children'[t])
<1>1. IInv /\ [Next]_vars => Step
  <2> SUFFICES ASSUME IInv, [Next]_vars, NEW t \in TaskId,
                      task[t] # None, task'[t] # None,
                      ~Transition(task[t].status, task'[t].status, TRUE, TRUE)
               PROVE  /\ children[t] # {}
                      /\ task[t].status \in {"TODO", "BLOCKED"}
                      /\ task'[t].status = "DONE"
                      /\ AllDone(task', children'[t])
    OBVIOUS
  <2>1. task[t] \in TaskRecord
    BY TreeFacts DEF Live
  <2>2. /\ task[t].version < MaxVersion
        /\ ByUpdate(t) \/ ByStatus(t) \/ ByBatch(t) \/ ByRollUp(t)
    BY NextRewrites DEF Rewritten, Kept, Transition
  <2>3. ~ByUpdate(t)
    BY <2>1, <2>2, BumpedFields DEF ByUpdate, Transition
  <2>4. ~ByStatus(t)
    <3>1. \A target \in Status : WithStatus(task[t], target).status = target
      BY <2>1, <2>2, WithStatusFields
    <3> QED
      BY <3>1 DEF ByStatus
  <2>5. ~ByBatch(t)
    BY <2>1, <2>2, DecomposedFields DEF ByBatch, Transition
  <2>6. PICK table : /\ children[t] # {}
                     /\ IsFiniteSet(children'[t])
                     /\ \A c \in children'[t] : table[c].status = task'[c].status
                     /\ task'[t] = RollUp(task[t], table, children'[t])
    BY <2>2, <2>3, <2>4, <2>5 DEF ByRollUp
  <2>7. task'[t].status = RolledStatus(task[t].status, AllDone(table, children'[t]))
    BY <2>1, <2>2, <2>6, RollUpFields
  <2>8. AllDone(table, children'[t]) <=> AllDone(task', children'[t])
    BY <2>6, SameStatuses
  <2>9. /\ task[t].status \in {"TODO", "BLOCKED"}
        /\ task'[t].status = "DONE"
        /\ AllDone(table, children'[t])
    BY <2>1, <2>7 DEF TaskRecord, Status, RolledStatus, Transition
  <2> QED
    BY <2>6, <2>8, <2>9
<1> QED
  BY <1>1, InductiveInvariant, PTL DEF Spec, LegalMoves

=============================================================================
