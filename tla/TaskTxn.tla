------------------------------- MODULE TaskTxn -------------------------------
(***************************************************************************)
(* RedisTaskRepository with concurrent callers, one Redis round trip per   *)
(* step.  Every write operation is a loop of at most Retries attempts:     *)
(* WATCH some keys, read, WATCH the keys the reads led to, read those,     *)
(* compute the new values from what was read, EXEC.  EXEC writes all or    *)
(* nothing, and nothing when a watched key has been written since its      *)
(* WATCH.  The module implements TaskStore.                                *)
(*                                                                         *)
(* Commands that read several keys of one kind in a loop (EXISTS of the    *)
(* generated ids, SISMEMBER and ZRANGE of the targets, GET and ZRANGE of   *)
(* the parents in delete_batch) are one step here.  A call without         *)
(* children to look at skips WATCH and MGET of them; here it makes both    *)
(* steps with no key.                                                      *)
(***************************************************************************)
EXTENDS Integers, FiniteSets

CONSTANTS
    TaskId, None, KeysOf, MaxVersion, MaxItems,  \* as in TaskStore
    Client,    \* concurrent callers: requests, on one or several processes
    Calls,     \* sets of calls they may make, one of them in each behaviour
    Retries    \* transaction_retries

(***************************************************************************)
(* A call is a record with the operation, its idempotency key and its      *)
(* arguments:                                                              *)
(*   create        id       the uuid4 the caller has drawn                 *)
(*   batch         at, plan the parent, with the version the caller        *)
(*                          expects, and a TaskStore!Plan whose ids are    *)
(*                          uuid5 of parent, key and step                  *)
(*   update        at       the task, with the version                     *)
(*   status        at, target, reopen, restore                             *)
(*   delete, delete_batch   at                                             *)
(* "at" maps the targets to the expected versions.                         *)
(***************************************************************************)

VARIABLES
    allowed,   \* the calls clients may make, a parameter
    task, userIndex, children,  \* as in TaskStore
    recorded,  \* recorded[<<kind, key>>]: the call in the idempotency record
    pc,        \* pc[c]: the next round trip of client c
    call,      \* call[c]: the call it is making, None when idle
    attempt,   \* attempt[c]: failed attempts of that call
    watched,   \* watched[c]: keys its connection watches
    dirty,     \* dirty[c]: one of them was written since (CLIENT_DIRTY_CAS)
    seen,      \* seen[c]: what the attempt has read so far
    reply      \* reply[c]: how its last call ended, None while it runs

store   == <<task, userIndex, children, recorded>>
attemptVars == <<watched, dirty, seen>>
vars    == <<allowed, task, userIndex, children, recorded,
             pc, call, attempt, watched, dirty, seen, reply>>

Written(k) ==
    CASE k.op = "create" -> {k.id}
      [] k.op = "batch"  -> DOMAIN k.plan
      [] OTHER           -> DOMAIN k.at

\* The store as TaskStore sees it, and the part of it a client has copied.
Store == INSTANCE TaskStore WITH
    idem <- [ik \in DOMAIN recorded |->
               IF recorded[ik] = None THEN {} ELSE Written(recorded[ik])]

Local(copy) == INSTANCE TaskStore WITH
    task <- copy.task, children <- copy.children,
    userIndex <- copy.index, idem <- [ik \in DOMAIN recorded |-> {}]

\* The calls described above.
IsCall(k) ==
    \/ k \in [op : {"create"}, key : KeysOf["create"], id : TaskId]
    \/ \E p \in TaskId, S \in SUBSET TaskId :
         /\ IsFiniteSet(S) /\ Cardinality(S) \in 1..MaxItems
         /\ k \in [op : {"batch"}, key : KeysOf["batch"], at : [{p} -> Nat],
                   plan : Store!Plan(S)]
    \/ \E t \in TaskId :
         \/ k \in [op : {"update"}, key : KeysOf["update"] \cup {None}, at : [{t} -> Nat]]
         \/ k \in [op : {"status"}, key : KeysOf["status"] \cup {None}, at : [{t} -> Nat],
                   target : Store!Status, reopen : BOOLEAN, restore : BOOLEAN]
         \/ k \in [op : {"delete"}, key : KeysOf["delete"], at : [{t} -> Nat]]
    \/ \E S \in (SUBSET TaskId) \ {{}} :
         k \in [op : {"delete_batch"}, key : KeysOf["delete_batch"], at : [S -> Nat]]

\* Subtasks of different batches never have the same id, nor that of a create.
OwnIds(calls) ==
    \A k, j \in calls : k.op = "batch" =>
        /\ j.op = "create" => j.id \notin DOMAIN k.plan
        /\ j.op = "batch" /\ <<DOMAIN j.at, j.key>> # <<DOMAIN k.at, k.key>> =>
             DOMAIN j.plan \cap DOMAIN k.plan = {}

ASSUME TxnAssumption ==
    /\ None \notin TaskId /\ None \notin Store!TaskRecord
    /\ \A kind \in Store!Kind : None \notin KeysOf[kind]
    /\ {MaxVersion, MaxItems, Retries} \subseteq Nat \ {0}
    /\ \A calls \in Calls : (\A k \in calls : IsCall(k)) /\ None \notin calls /\ OwnIds(calls)

Nothing == [task     |-> [t \in TaskId |-> None],
            children |-> [t \in TaskId |-> {}],
            index    |-> {}]

-----------------------------------------------------------------------------
(* Redis keys.                                                             *)

TaskKey(t)  == <<"task", t>>
KidsKey(t)  == <<"children", t>>
IndexKey    == <<"index", None>>
RecordKey(k) == <<k.op, k.key>>

\* Mutant: the idempotency record is read but not watched.
NoRecord(k) == {}

Record(k) == IF k.key = None THEN {} ELSE {RecordKey(k)}

FirstWatched(k) ==
    Record(k) \cup
    CASE k.op = "create" -> {TaskKey(k.id)}
      [] k.op = "batch"  ->
           {TaskKey(t) : t \in DOMAIN k.at \cup DOMAIN k.plan}
             \cup {KidsKey(p) : p \in DOMAIN k.at}
      [] k.op \in {"update", "status"} -> {TaskKey(t) : t \in DOMAIN k.at}
      [] OTHER ->
           {IndexKey} \cup UNION {{TaskKey(t), KidsKey(t)} : t \in DOMAIN k.at}

\* The parents a call rolls up, and those whose child index it reads.
Parents(c) == {seen[c].task[t].parent : t \in DOMAIN call[c].at} \ {None}

Families(c) ==
    IF call[c].op \in {"delete", "delete_batch"} THEN Parents(c)
    ELSE IF Parents(c) # {} THEN Parents(c)
    ELSE DOMAIN call[c].at

Kids(c) == UNION {seen[c].children[p] : p \in Families(c)}

\* Mutant: the child indexes are watched, the parents are not.
IndexesWatched(c) == {KidsKey(p) : p \in Families(c)}

\* What the second WATCH adds: the parents and the child indexes.
FamilyWatched(c) ==
    {TaskKey(p) : p \in Parents(c)} \cup {KidsKey(p) : p \in Families(c)}

-----------------------------------------------------------------------------
(* A call begins, ends, or is abandoned.                                   *)

Init ==
    /\ allowed \in Calls
    /\ task = [t \in TaskId |-> None]
    /\ userIndex = {}
    /\ children = [t \in TaskId |-> {}]
    /\ recorded = [ik \in Store!IdemKey |-> None]
    /\ pc = [c \in Client |-> "idle"]
    /\ call = [c \in Client |-> None]
    /\ attempt = [c \in Client |-> 0]
    /\ watched = [c \in Client |-> {}]
    /\ dirty = [c \in Client |-> FALSE]
    /\ seen = [c \in Client |-> Nothing]
    /\ reply = [c \in Client |-> None]

\* uuid4 draws an id that no call has drawn before.
Drawn(t) ==
    \/ \E ik \in DOMAIN recorded : recorded[ik] # None /\ ik[1] = "create"
                                   /\ recorded[ik].id = t
    \/ \E c \in Client : pc[c] # "idle" /\ call[c].op = "create" /\ call[c].id = t

Begin(c, k) ==
    /\ pc[c] = "idle"
    /\ k.op = "create" => ~Drawn(k.id)
    /\ pc' = [pc EXCEPT ![c] = "watch"]
    /\ call' = [call EXCEPT ![c] = k]
    /\ attempt' = [attempt EXCEPT ![c] = 0]
    /\ reply' = [reply EXCEPT ![c] = None]
    /\ UNCHANGED <<store, attemptVars>>

Goto(c, next) ==
    /\ pc' = [pc EXCEPT ![c] = next]
    /\ UNCHANGED <<call, attempt, reply>>

\* Leaving the pipeline's context resets the connection: UNWATCH.
Unwatch(c) ==
    /\ watched' = [watched EXCEPT ![c] = {}]
    /\ dirty' = [dirty EXCEPT ![c] = FALSE]
    /\ seen' = [seen EXCEPT ![c] = Nothing]

Answer(c, result) ==
    /\ pc' = [pc EXCEPT ![c] = "idle"]
    /\ reply' = [reply EXCEPT ![c] = result]
    /\ call' = [call EXCEPT ![c] = None]
    /\ attempt' = [attempt EXCEPT ![c] = 0]
    /\ Unwatch(c)

\* Mutant: a verdict that is not "go" is never reported.
ProceedOrHang(c, verdict, next, copy) ==
    /\ verdict = "go"
    /\ Goto(c, next)
    /\ seen' = [seen EXCEPT ![c] = copy]
    /\ UNCHANGED <<watched, dirty, store>>

\* A read step: "go" leads to the next step, any other verdict is the reply.
Proceed(c, verdict, next, copy) ==
    /\ \/ /\ verdict = "go"
          /\ Goto(c, next)
          /\ seen' = [seen EXCEPT ![c] = copy]
          /\ UNCHANGED <<watched, dirty>>
       \/ verdict # "go" /\ Answer(c, verdict)
    /\ UNCHANGED store

\* The request is cancelled or its process dies before EXEC.
Abandon(c) ==
    /\ pc[c] # "idle"
    /\ Answer(c, None)
    /\ UNCHANGED store

-----------------------------------------------------------------------------
(* The reads of an attempt, in the order of the code.                      *)

AddWatch(c, keys) == watched' = [watched EXCEPT ![c] = @ \cup keys]

Watch(c) ==
    /\ pc[c] = "watch"
    /\ AddWatch(c, FirstWatched(call[c]))
    /\ Goto(c, IF call[c].key = None THEN "target" ELSE "record")
    /\ UNCHANGED <<store, dirty, seen>>

\* Is the record about the same input?  create does not compare; update
\* compares the changes but not the expected version.
SameInput(k, r) ==
    CASE k.op = "create" -> TRUE
      [] k.op = "update" -> DOMAIN k.at = DOMAIN r.at
      [] OTHER           -> k = r

ReadRecord(c) ==
    LET k == call[c]
        r == recorded[RecordKey(k)]
        verdict == IF r = None \/ k.op = "create" THEN "go"
                   ELSE IF SameInput(k, r) THEN "replayed" ELSE "input_conflict"
    IN
    /\ pc[c] = "record"
    /\ Proceed(c, verdict, IF r = None THEN "target" ELSE "original", seen[c])

\* create answers a repeated call with the task as it is now.
ReadOriginal(c) ==
    LET original == recorded[RecordKey(call[c])].id IN
    /\ pc[c] = "original"
    /\ Answer(c, IF original \in Store!Live THEN "replayed" ELSE "inconsistent")
    /\ UNCHANGED store

\* EXISTS of the id a create has drawn.
ReadNewId(c) ==
    /\ pc[c] = "target" /\ call[c].op = "create"
    /\ Proceed(c, IF call[c].id \in Store!Live THEN "exists" ELSE "go",
               "exec", seen[c])

\* What the client has copied once it has also read T.
WithTasks(c, T) ==
    [seen[c] EXCEPT !.task = [t \in TaskId |-> IF t \in T THEN task[t] ELSE @[t]]]

TargetVerdict(k) ==
    LET S == DOMAIN k.at IN
    IF ~ S \subseteq Store!Live THEN "not_found"
    ELSE IF k.op = "batch" /\ \E p \in S : task[p].parent # None THEN "refused"
    ELSE IF \E t \in S : task[t].version # k.at[t] THEN "version_conflict"
    ELSE IF k.op = "batch" /\ \E p \in S : task[p].status = "CANCELLED" THEN "refused"
    ELSE "go"

\* GET of the target, MGET of the targets.
ReadTargets(c) ==
    LET k == call[c] IN
    /\ pc[c] = "target" /\ k.op # "create"
    /\ Proceed(c, TargetVerdict(k),
               CASE k.op = "batch"  -> "ids"
                 [] k.op = "update" -> "exec"
                 [] k.op = "status" -> "family"
                 [] OTHER           -> "member",
               WithTasks(c, DOMAIN k.at))

\* create_subtasks_batch: no task with a generated id may exist.
ReadIds(c) ==
    /\ pc[c] = "ids"
    /\ Proceed(c, IF DOMAIN call[c].plan \cap Store!Live = {} THEN "go"
                  ELSE "inconsistent",
               "index", seen[c])

\* Deletion: SISMEMBER of the user's index, then ZRANGE of the targets' children.
ReadMember(c) ==
    LET S == DOMAIN call[c].at IN
    /\ pc[c] = "member"
    /\ Proceed(c, IF S \subseteq userIndex THEN "go" ELSE "inconsistent",
               "leaf", [seen[c] EXCEPT !.index = S])

ReadLeaf(c) ==
    /\ pc[c] = "leaf"
    /\ Proceed(c, IF \A t \in DOMAIN call[c].at : children[t] = {} THEN "go"
                  ELSE "refused",
               IF Parents(c) = {} THEN "exec" ELSE "family", seen[c])

WatchFamily(c) ==
    /\ pc[c] = "family"
    /\ AddWatch(c, FamilyWatched(c))
    /\ Goto(c, IF Parents(c) = {} THEN "index" ELSE "parent")
    /\ UNCHANGED <<store, dirty, seen>>

ReadParents(c) ==
    LET P == Parents(c)
        verdict ==
          IF ~ P \subseteq Store!Live THEN "inconsistent"
          ELSE IF call[c].op = "status" /\ \E p \in P : task[p].status = "CANCELLED"
          THEN "refused"
          ELSE "go"
    IN
    /\ pc[c] = "parent"
    /\ Proceed(c, verdict, "index", WithTasks(c, P))

\* A target is not in the child index that was read of its parent.
Unlisted(c, copy) ==
    /\ call[c].op # "batch"
    /\ \E t \in DOMAIN call[c].at :
         /\ copy.task[t].parent # None
         /\ t \notin copy.children[copy.task[t].parent]

\* ZRANGE of the child indexes; delete checks its target at once.
ReadIndex(c) ==
    LET copy == [seen[c] EXCEPT !.children =
                   [t \in TaskId |-> IF t \in Families(c) THEN children[t] ELSE @[t]]]
    IN
    /\ pc[c] = "index"
    /\ Proceed(c, IF call[c].op = "delete" /\ Unlisted(c, copy) THEN "inconsistent"
                  ELSE "go",
               "watch_kids", copy)

WatchKids(c) ==
    /\ pc[c] = "watch_kids"
    /\ AddWatch(c, {TaskKey(t) : t \in Kids(c)})
    /\ Goto(c, "kids")
    /\ UNCHANGED <<store, dirty, seen>>

\* The rules of the operation, applied to what was read.
Accepted(k, copy) ==
    CASE k.op = "batch"  -> Local(copy)!PlanAccepted(k.plan)
      [] k.op = "status" -> \A t \in DOMAIN k.at :
             Local(copy)!StatusAccepted(t, k.target, k.reopen, k.restore)
      [] OTHER           -> Local(copy)!DeletionAccepted(DOMAIN k.at)

\* MGET of the children, then the checks that need no more reads.
ReadKids(c) ==
    LET copy == WithTasks(c, Kids(c) \ DOMAIN call[c].at) IN
    /\ pc[c] = "kids"
    /\ Proceed(c, IF ~ Kids(c) \subseteq Store!Live \/ Unlisted(c, copy)
                  THEN "inconsistent"
                  ELSE IF Accepted(call[c], copy) THEN "go" ELSE "refused",
               "exec", copy)

-----------------------------------------------------------------------------
(* EXEC.  The values written are computed from the copy, never from the    *)
(* store.                                                                  *)

\* The table with the new records in place of the old ones.
Overlay(new, table) ==
    [t \in DOMAIN new \cup DOMAIN table |-> IF t \in DOMAIN new THEN new[t] ELSE table[t]]

\* Task keys set (or, None, deleted), as a function of the task.
NewTasks(k, copy) ==
    LET S == DOMAIN k.at
        parents == {copy.task[t].parent : t \in S} \ {None}
    IN
    CASE k.op = "create" -> [t \in {k.id} |-> Store!NewTask(None, {}, 0)]
      [] k.op = "batch"  ->
           LET root   == CHOOSE t \in S : TRUE
               orders == {copy.task[t].order : t \in copy.children[root]} \cup {0}
               offset == CHOOSE n \in orders : \A m \in orders : m <= n
               new    == [t \in DOMAIN k.plan |->
                            Store!NewTask(root, k.plan[t].deps, offset + k.plan[t].order)]
           IN  Overlay(new, [p \in S |->
                 Store!Decomposed(copy.task[p], Overlay(new, copy.task),
                                  copy.children[p] \cup DOMAIN k.plan)])
      [] k.op = "update" -> [t \in S |-> Store!Bumped(copy.task[t])]
      [] k.op = "status" ->
           LET new == [t \in S |-> Store!WithStatus(copy.task[t], k.target)]
           IN  Overlay(new, [p \in parents |->
                 Store!RollUp(copy.task[p], Overlay(new, copy.task), copy.children[p])])
      [] OTHER ->
           Overlay([t \in S |-> None], [p \in parents |->
             Store!RollUp(copy.task[p], copy.task, copy.children[p] \ S)])

\* The ids ZADDed to, or ZREMmed from, p's child index.
NewChildren(k, p) ==
    CASE k.op = "batch" -> IF p \in DOMAIN k.at THEN children[p] \cup DOMAIN k.plan
                           ELSE children[p]
      [] k.op \in {"delete", "delete_batch"} ->
           IF p \in DOMAIN k.at THEN {} ELSE children[p] \ DOMAIN k.at
      [] OTHER -> children[p]

NewIndex(k) ==
    CASE k.op \in {"create", "batch"}        -> userIndex \cup Written(k)
      [] k.op \in {"delete", "delete_batch"} -> userIndex \ Written(k)
      [] OTHER                               -> userIndex

\* Keys whose watchers EXEC makes dirty.
Touched(k, written) ==
    Record(k) \cup {TaskKey(t) : t \in written}
      \cup {KidsKey(p) : p \in {q \in TaskId : NewChildren(k, q) # children[q]}}
      \cup (IF NewIndex(k) # userIndex THEN {IndexKey} ELSE {})

\* No task gets a version beyond the bound.
WithinBound(k, written) ==
    \A t \in written \cap Store!Live :
        Store!Bumpable(t) \/ (k.op \in {"delete", "delete_batch"} /\ t \in DOMAIN k.at)

Exec(c) ==
    LET k   == call[c]
        new == NewTasks(k, seen[c])
    IN
    /\ pc[c] = "exec" /\ ~dirty[c]
    /\ WithinBound(k, DOMAIN new)
    /\ task' = [t \in TaskId |-> IF t \in DOMAIN new THEN new[t] ELSE task[t]]
    /\ children' = [p \in TaskId |-> NewChildren(k, p)]
    /\ userIndex' = NewIndex(k)
    /\ recorded' = IF k.key = None THEN recorded
                   ELSE [recorded EXCEPT ![RecordKey(k)] = k]
    /\ pc' = [pc EXCEPT ![c] = "idle"]
    /\ reply' = [reply EXCEPT ![c] = "ok"]
    /\ call' = [call EXCEPT ![c] = None]
    /\ attempt' = [attempt EXCEPT ![c] = 0]
    /\ watched' = [watched EXCEPT ![c] = {}]
    /\ seen' = [seen EXCEPT ![c] = Nothing]
    /\ dirty' = [d \in Client |->
                   d # c /\ (dirty[d] \/ watched[d] \cap Touched(k, DOMAIN new) # {})]

\* Mutant: one attempt too many.
ExecFailsAgain(c) ==
    /\ pc[c] = "exec" /\ dirty[c]
    /\ \/ /\ attempt[c] + 1 <= Retries
          /\ attempt' = [attempt EXCEPT ![c] = @ + 1]
          /\ pc' = [pc EXCEPT ![c] = "watch"]
          /\ Unwatch(c)
          /\ UNCHANGED <<call, reply>>
       \/ attempt[c] + 1 > Retries /\ Answer(c, "concurrent")
    /\ UNCHANGED store

\* EXEC writes nothing: WatchError, the next attempt or the end of the loop.
ExecFails(c) ==
    /\ pc[c] = "exec" /\ dirty[c]
    /\ \/ /\ attempt[c] + 1 < Retries
          /\ attempt' = [attempt EXCEPT ![c] = @ + 1]
          /\ pc' = [pc EXCEPT ![c] = "watch"]
          /\ Unwatch(c)
          /\ UNCHANGED <<call, reply>>
       \/ attempt[c] + 1 >= Retries /\ Answer(c, "concurrent")
    /\ UNCHANGED store

Step(c) ==
    \/ Watch(c) \/ ReadRecord(c) \/ ReadOriginal(c) \/ ReadNewId(c)
    \/ ReadTargets(c) \/ ReadIds(c) \/ ReadMember(c) \/ ReadLeaf(c)
    \/ WatchFamily(c) \/ ReadParents(c) \/ ReadIndex(c) \/ WatchKids(c)
    \/ ReadKids(c) \/ Exec(c) \/ ExecFails(c)

Next ==
    /\ UNCHANGED allowed
    /\ \E c \in Client : Step(c) \/ Abandon(c) \/ \E k \in allowed : Begin(c, k)

Spec == Init /\ [][Next]_vars

\* A coroutine that waits for Redis is resumed: every step of a call is fair.
FairSpec == Spec /\ \A c \in Client : WF_vars(Step(c) /\ UNCHANGED allowed)

-----------------------------------------------------------------------------
(* Properties.                                                             *)

PC == {"idle", "watch", "record", "original", "target", "ids", "member", "leaf",
       "family", "parent", "index", "watch_kids", "kids", "exec"}

Reply == {"ok", "replayed", "input_conflict", "not_found", "version_conflict",
          "exists", "refused", "inconsistent", "concurrent"}

TypeOK ==
    /\ Store!TypeOK
    /\ pc \in [Client -> PC]
    /\ call \in [Client -> allowed \cup {None}]
    /\ attempt \in [Client -> 0..Retries - 1]
    /\ dirty \in [Client -> BOOLEAN]
    /\ \A c \in Client :
         /\ seen[c].task \in [TaskId -> Store!TaskRecord \cup {None}]
         /\ seen[c].children \in [TaskId -> SUBSET TaskId]
         /\ seen[c].index \in SUBSET TaskId
    /\ reply \in [Client -> Reply \cup {None}]

\* The loops of WATCH, reads and EXEC do what the operations of TaskStore do
\* one at a time: the watched keys cover every read a commit depends on.
ImplementsStore == Store!Spec

\* While an attempt is not dirty, everything it has read is still so: the
\* sets it watches, at each point of the loop, cover the values it has copied.
CopiesCurrent ==
    \A c \in Client : ~dirty[c] =>
        /\ \A t \in TaskId : seen[c].task[t] # None => seen[c].task[t] = task[t]
        /\ \A p \in TaskId : seen[c].children[p] # {} => seen[c].children[p] = children[p]
        /\ seen[c].index \subseteq userIndex

\* An idempotency record is final: of several calls with one key at most one
\* ever takes effect.
RecordsFinal ==
    [][\A ik \in DOMAIN recorded :
          recorded[ik] # None => recorded'[ik] = recorded[ik]]_vars

\* Every call ends, with an answer or abandoned.
CallsEnd == \A c \in Client : pc[c] # "idle" ~> pc[c] = "idle"
=============================================================================
