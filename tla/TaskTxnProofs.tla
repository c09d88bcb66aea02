---------------------------- MODULE TaskTxnProofs ----------------------------
(***************************************************************************)
(* TLAPS proofs about TaskTxn, for any number of concurrent callers, any   *)
(* calls and any number of attempts: the loops of WATCH, reads and EXEC    *)
(* implement TaskStore, so that everything TaskStoreProofs proves of       *)
(* operations that run one at a time is true of the interleaved ones.      *)
(*                                                                         *)
(* The argument: a client that has not lost (~dirty) watches every key     *)
(* whose value its later steps rely on, so its copies are current and its  *)
(* verdicts still hold when it commits.                                    *)
(***************************************************************************)
EXTENDS TaskTxn, FiniteSetTheorems, WellFoundedInduction, TLAPS

\* TaskStore with its theorems.
Facts == INSTANCE TaskStoreProofs WITH
    idem <- [ik \in DOMAIN recorded |->
               IF recorded[ik] = None THEN {} ELSE Written(recorded[ik])]

-----------------------------------------------------------------------------
(* The invariant.                                                          *)

\* The round trips of each operation after its record has been read.
Reads(op) ==
    CASE op = "create" -> {"target", "exec"}
      [] op = "batch"  -> {"target", "ids", "index", "watch_kids", "kids", "exec"}
      [] op = "update" -> {"target", "exec"}
      [] op = "status" -> {"target", "family", "parent", "index", "watch_kids", "kids", "exec"}
      [] OTHER         -> {"target", "member", "leaf", "family", "parent", "index",
                           "watch_kids", "kids", "exec"}

Copy == [task : [TaskId -> Store!TaskRecord \cup {None}], children : [TaskId -> SUBSET TaskId],
         index : SUBSET TaskId]

\* What is true of a client whether or not it has already lost.
ClientOK(c) ==
    /\ pc[c] = "idle" => call[c] = None
    /\ pc[c] # "idle" =>
         /\ call[c] \in allowed
         /\ pc[c] \in {"watch", "record", "original"} \cup Reads(call[c].op)
         /\ pc[c] \in {"record", "original"} => call[c].key # None
    /\ pc[c] \in {"idle", "watch"} => watched[c] = {} /\ seen[c] = Nothing /\ ~dirty[c]

Deletes(c) == call[c].op \in {"delete", "delete_batch"}

\* The operations that look at the children of a task.
OfFamily(c) == call[c].op \in {"batch", "status", "delete", "delete_batch"}

\* Redis keys the client has put under WATCH.
Watches(c) ==
    /\ pc[c] \notin {"idle", "watch"} => FirstWatched(call[c]) \subseteq watched[c]
    /\ OfFamily(c) /\ pc[c] \in {"parent", "index", "watch_kids", "kids", "exec"} =>
         FamilyWatched(c) \subseteq watched[c]
    /\ OfFamily(c) /\ pc[c] \in {"kids", "exec"} =>
         \A t \in Kids(c) : TaskKey(t) \in watched[c]

\* What the client has copied is watched, and as it is in the store.
Current(c) ==
    /\ \A t \in TaskId : seen[c].task[t] # None =>
         TaskKey(t) \in watched[c] /\ seen[c].task[t] = task[t]
    /\ \A p \in TaskId : seen[c].children[p] # {} =>
         KidsKey(p) \in watched[c] /\ seen[c].children[p] = children[p]
    /\ seen[c].index # {} => IndexKey \in watched[c]
    /\ seen[c].index \subseteq userIndex

\* What it has found absent still is.
Absent(c) ==
    LET k == call[c] IN
    /\ pc[c] \in Reads(k.op) /\ k.key # None => recorded[RecordKey(k)] = None
    /\ k.op = "create" /\ pc[c] = "exec" => task[k.id] = None
    /\ k.op = "batch" /\ pc[c] \in {"index", "watch_kids", "kids", "exec"} =>
         \A t \in DOMAIN k.plan : task[t] = None
    /\ Deletes(c) /\ pc[c] \in Reads(k.op) \ {"target", "member", "leaf"} =>
         \A t \in DOMAIN k.at : children[t] = {}
    /\ OfFamily(c) /\ pc[c] \in {"watch_kids", "kids", "exec"} =>
         \A p \in Families(c) : seen[c].children[p] = children[p]

\* The verdicts so far, which are about the copies alone.
Checked(c) ==
    LET k == call[c]
        copy == seen[c]
    IN
    /\ k.op # "create" /\ pc[c] \in Reads(k.op) \ {"target"} =>
         \A t \in DOMAIN k.at :
           /\ copy.task[t] # None
           /\ k.op = "batch" => copy.task[t].parent = None /\ copy.task[t].status # "CANCELLED"
    /\ Deletes(c) /\ pc[c] \in Reads(k.op) \ {"target", "member"} => copy.index = DOMAIN k.at
    /\ OfFamily(c) /\ pc[c] \in {"index", "watch_kids", "kids", "exec"} =>
         \A p \in Parents(c) :
           /\ copy.task[p] # None
           /\ k.op = "status" => copy.task[p].status # "CANCELLED"
    /\ OfFamily(c) /\ pc[c] = "exec" /\ (Deletes(c) => Parents(c) # {}) =>
         /\ \A t \in Kids(c) : copy.task[t] # None
         /\ Accepted(k, copy)
         /\ ~Unlisted(c, copy)

\* A client that has not lost knows what it has read.
Knows(c) == ~dirty[c] /\ pc[c] # "idle" => Watches(c) /\ Current(c) /\ Absent(c) /\ Checked(c)

\* An idempotency record is one of a call with that key; no two creates have
\* the same id.
RecordInv ==
    /\ recorded \in [Store!IdemKey -> allowed \cup {None}]
    /\ \A ik \in Store!IdemKey : recorded[ik] # None => RecordKey(recorded[ik]) = ik
    /\ \A c \in Client : pc[c] # "idle" /\ call[c].op = "create" =>
         /\ \A d \in Client : pc[d] # "idle" /\ call[d].op = "create" /\ call[d].id = call[c].id
              => d = c
         /\ \A ik \in Store!IdemKey : recorded[ik] # None /\ ik[1] = "create" =>
              recorded[ik].id # call[c].id

TxnType ==
    /\ allowed \in Calls
    /\ pc \in [Client -> PC]
    /\ call \in [Client -> allowed \cup {None}]
    /\ attempt \in [Client -> 0..Retries - 1]
    /\ watched = [c \in Client |-> watched[c]]
    /\ dirty \in [Client -> BOOLEAN]
    /\ seen \in [Client -> Copy]
    /\ reply \in [Client -> Reply \cup {None}]

IInv ==
    /\ Facts!IInv
    /\ TxnType
    /\ RecordInv
    /\ \A c \in Client : ClientOK(c) /\ Knows(c)

-----------------------------------------------------------------------------
(* The store and its theorems.                                             *)

\* Finite sets are the same in all instances.
LEMMA SameFinite ==
    ASSUME NEW S
    PROVE  /\ (Store!IsFiniteSet(S) <=> IsFiniteSet(S))
           /\ (Facts!IsFiniteSet(S) <=> IsFiniteSet(S))
           /\ Store!Cardinality(S) = Cardinality(S)
           /\ Facts!Cardinality(S) = Cardinality(S)
<1>1. (Store!IsFiniteSet(S) <=> IsFiniteSet(S)) /\ (Facts!IsFiniteSet(S) <=> IsFiniteSet(S))
  BY DEF Store!IsFiniteSet, Facts!IsFiniteSet, IsFiniteSet
<1>2. Store!Cardinality(S) = Cardinality(S)
  BY DEF Store!Cardinality, Cardinality
<1>3. Facts!Cardinality(S) = Cardinality(S)
  BY DEF Facts!Cardinality, Cardinality
<1> QED
  BY <1>1, <1>2, <1>3

LEMMA SameRecords ==
    /\ Store!TaskRecord = Facts!TaskRecord
    /\ Store!Kind = Facts!Kind
    /\ Store!IdemKey = Facts!IdemKey
    /\ Store!Live = Facts!Live
BY DEF Store!TaskRecord, Facts!TaskRecord, Store!Kind, Facts!Kind, Store!IdemKey, Facts!IdemKey,
       Store!Status, Facts!Status, Store!Version, Facts!Version, Store!Live, Facts!Live

LEMMA SameInit == Store!Init <=> Facts!Init
BY DEF Store!Init, Facts!Init, Store!IdemKey, Facts!IdemKey, Store!Kind, Facts!Kind

\* The operations of the store are the same.
LEMMA SameNext == Store!Next <=> Facts!Next
BY DEF Store!Next, Facts!Next, Store!Create, Facts!Create, Store!CreateSubtasks,
       Facts!CreateSubtasks, Store!Update, Facts!Update, Store!UpdateStatus,
       Facts!UpdateStatus, Store!Delete, Facts!Delete, Store!Unrecorded,
       Facts!Unrecorded, Store!Recorded, Facts!Recorded, Store!Fresh, Facts!Fresh,
       Store!Live, Facts!Live, Store!Bumpable, Facts!Bumpable, Store!Bumped,
       Facts!Bumped, Store!NewTask, Facts!NewTask, Store!Plan, Facts!Plan,
       Store!PlanAccepted, Facts!PlanAccepted, Store!IsOrderOffset,
       Facts!IsOrderOffset, Store!WriteSubtasks, Facts!WriteSubtasks,
       Store!Decomposable, Facts!Decomposable, Store!Decomposed, Facts!Decomposed,
       Store!Progress, Facts!Progress, Store!AllDone, Facts!AllDone,
       Store!Effective, Facts!Effective, Store!DoneAmong, Facts!DoneAmong,
       Store!RollUp, Facts!RollUp, Store!RolledStatus, Facts!RolledStatus,
       Store!WithStatus, Facts!WithStatus, Store!StatusAccepted,
       Facts!StatusAccepted, Store!Transition, Facts!Transition, Store!ParentsOf,
       Facts!ParentsOf, Store!DeletionAccepted, Facts!DeletionAccepted,
       Store!IdemKey, Facts!IdemKey, Store!Kind, Facts!Kind, Store!Status,
       Facts!Status, Store!Cardinality, Facts!Cardinality, Store!IsFiniteSet,
       Facts!IsFiniteSet

\* TaskStoreProofs: a step of the store keeps its invariant.
LEMMA StoreKeeps ==
    ASSUME Facts!IInv, Store!Next
    PROVE  Facts!IInv'
<1>1. Facts!Next
  BY SameNext
<1>2. /\ None \notin TaskId /\ None \notin Facts!TaskRecord
      /\ \A kind \in Facts!Kind : None \notin KeysOf[kind]
      /\ MaxVersion \in Nat \ {0} /\ MaxItems \in Nat \ {0}
  BY TxnAssumption, SameRecords
<1> QED
  BY <1>1, <1>2, Facts!NextIInv

LEMMA StoreStutters ==
    ASSUME Facts!IInv, UNCHANGED store
    PROVE  Facts!IInv'
<1>1. /\ None \notin TaskId /\ None \notin Facts!TaskRecord
      /\ \A kind \in Facts!Kind : None \notin KeysOf[kind]
      /\ MaxVersion \in Nat \ {0} /\ MaxItems \in Nat \ {0}
  BY TxnAssumption, SameRecords
<1>2. UNCHANGED Facts!vars
  BY DEF Facts!vars, store, Written
<1> QED
  BY <1>1, <1>2, Facts!NextIInv

LEMMA StoreBegins ==
    ASSUME Store!Init
    PROVE  Facts!IInv
<1>1. /\ None \notin TaskId /\ None \notin Facts!TaskRecord
      /\ \A kind \in Facts!Kind : None \notin KeysOf[kind]
      /\ MaxVersion \in Nat \ {0} /\ MaxItems \in Nat \ {0}
  BY TxnAssumption, SameRecords
<1> QED
  BY <1>1, SameInit, Facts!InitIInv

-----------------------------------------------------------------------------
(* Calls, and the state of one client.                                     *)

\* What a call of each operation is made of.
LEMMA CallFacts ==
    ASSUME NEW k, IsCall(k)
    PROVE  /\ k.op \in Store!Kind
           /\ k.key \in KeysOf[k.op] \cup {None}
           /\ k.op \notin {"update", "status"} => k.key # None
           /\ k.op = "create" => k.id \in TaskId
           /\ k.op # "create" => DOMAIN k.at \subseteq TaskId /\ DOMAIN k.at # {}
           /\ k.op \in {"batch", "update", "status", "delete"} => \E t : DOMAIN k.at = {t}
           /\ k.op = "batch" =>
                /\ DOMAIN k.plan \subseteq TaskId /\ k.plan \in Store!Plan(DOMAIN k.plan)
                /\ IsFiniteSet(DOMAIN k.plan) /\ Cardinality(DOMAIN k.plan) \in 1..MaxItems
           /\ k.op = "status" =>
                k.target \in Store!Status /\ k.reopen \in BOOLEAN /\ k.restore \in BOOLEAN
           /\ k.key # None => RecordKey(k) \in Store!IdemKey
<1>1. CASE k \in [op : {"create"}, key : KeysOf["create"], id : TaskId]
  BY <1>1, TxnAssumption DEF Store!Kind, Store!IdemKey, RecordKey
<1>2. ASSUME NEW p \in TaskId, NEW S \in SUBSET TaskId,
             IsFiniteSet(S) /\ Cardinality(S) \in 1..MaxItems,
             k \in [op : {"batch"}, key : KeysOf["batch"], at : [{p} -> Nat],
                    plan : Store!Plan(S)]
      PROVE  /\ k.op = "batch" /\ k.key \in KeysOf["batch"] /\ k.key # None
             /\ DOMAIN k.at = {p}
             /\ DOMAIN k.plan = S /\ k.plan \in Store!Plan(S)
  BY <1>2, TxnAssumption DEF Store!Kind, Store!Plan
<1>3. ASSUME NEW t \in TaskId,
             \/ k \in [op : {"update"}, key : KeysOf["update"] \cup {None}, at : [{t} -> Nat]]
             \/ k \in [op : {"status"}, key : KeysOf["status"] \cup {None}, at : [{t} -> Nat],
                       target : Store!Status, reopen : BOOLEAN, restore : BOOLEAN]
             \/ k \in [op : {"delete"}, key : KeysOf["delete"], at : [{t} -> Nat]]
      PROVE  /\ k.op \in {"update", "status", "delete"} /\ k.key \in KeysOf[k.op] \cup {None}
             /\ k.op = "delete" => k.key # None
             /\ DOMAIN k.at = {t}
             /\ k.op = "status" =>
                  k.target \in Store!Status /\ k.reopen \in BOOLEAN /\ k.restore \in BOOLEAN
  BY <1>3, TxnAssumption DEF Store!Kind
<1>4. ASSUME NEW S \in (SUBSET TaskId) \ {{}},
             k \in [op : {"delete_batch"}, key : KeysOf["delete_batch"], at : [S -> Nat]]
      PROVE  /\ k.op = "delete_batch" /\ k.key \in KeysOf["delete_batch"] /\ k.key # None
             /\ DOMAIN k.at = S /\ S # {} /\ S \subseteq TaskId
  BY <1>4, TxnAssumption DEF Store!Kind
<1>5. k.op \in Store!Kind /\ k.key \in KeysOf[k.op] =>
        (k.key # None => RecordKey(k) \in Store!IdemKey)
  BY DEF Store!IdemKey, RecordKey
<1>6. \/ k \in [op : {"create"}, key : KeysOf["create"], id : TaskId]
      \/ k.op \in {"batch", "update", "status", "delete", "delete_batch"}
  BY <1>2, <1>3, <1>4 DEF IsCall
<1>7. CASE k.op = "batch"
  <2>1. PICK p \in TaskId, S \in SUBSET TaskId :
          /\ IsFiniteSet(S) /\ Cardinality(S) \in 1..MaxItems
          /\ k \in [op : {"batch"}, key : KeysOf["batch"], at : [{p} -> Nat],
                    plan : Store!Plan(S)]
    BY <1>1, <1>3, <1>4, <1>7 DEF IsCall
  <2> QED
    BY <1>2, <1>5, <1>7, <2>1 DEF Store!Kind
<1>8. CASE k.op \in {"update", "status", "delete"}
  <2>1. PICK t \in TaskId :
          \/ k \in [op : {"update"}, key : KeysOf["update"] \cup {None}, at : [{t} -> Nat]]
          \/ k \in [op : {"status"}, key : KeysOf["status"] \cup {None}, at : [{t} -> Nat],
                    target : Store!Status, reopen : BOOLEAN, restore : BOOLEAN]
          \/ k \in [op : {"delete"}, key : KeysOf["delete"], at : [{t} -> Nat]]
    BY <1>1, <1>2, <1>4, <1>8 DEF IsCall
  <2> QED
    BY <1>3, <1>5, <1>8, <2>1 DEF Store!Kind
<1>9. CASE k.op = "delete_batch"
  <2>1. PICK S \in (SUBSET TaskId) \ {{}} :
          k \in [op : {"delete_batch"}, key : KeysOf["delete_batch"], at : [S -> Nat]]
    BY <1>1, <1>2, <1>3, <1>9 DEF IsCall
  <2> QED
    BY <1>4, <1>5, <1>9, <2>1 DEF Store!Kind
<1> QED
  BY <1>1, <1>6, <1>7, <1>8, <1>9

\* A client whose call and copies of its targets stay has the same families to
\* look at.
LEMMA SameParents ==
    ASSUME NEW c, call'[c] = call[c],
           \A t \in DOMAIN call[c].at : seen'[c].task[t] = seen[c].task[t]
    PROVE  /\ Parents(c)' = Parents(c) /\ Families(c)' = Families(c)
           /\ FamilyWatched(c)' = FamilyWatched(c)
           /\ (OfFamily(c)' <=> OfFamily(c)) /\ (Deletes(c)' <=> Deletes(c))
           /\ FirstWatched(call[c])' = FirstWatched(call[c])
<1>1. Parents(c)' = Parents(c)
  BY DEF Parents
<1>2. Families(c)' = Families(c)
  BY <1>1 DEF Families
<1>3. FamilyWatched(c)' = FamilyWatched(c)
  BY <1>1, <1>2 DEF FamilyWatched, TaskKey, KidsKey
<1>4. (OfFamily(c)' <=> OfFamily(c)) /\ (Deletes(c)' <=> Deletes(c))
  BY DEF OfFamily, Deletes
<1>5. FirstWatched(call[c])' = FirstWatched(call[c])
  BY DEF FirstWatched, Record, RecordKey, TaskKey, KidsKey, IndexKey
<1> QED
  BY <1>1, <1>2, <1>3, <1>4, <1>5

LEMMA SameFamily ==
    ASSUME NEW c, call'[c] = call[c], seen'[c] = seen[c]
    PROVE  /\ Parents(c)' = Parents(c) /\ Families(c)' = Families(c) /\ Kids(c)' = Kids(c)
           /\ FamilyWatched(c)' = FamilyWatched(c)
           /\ (OfFamily(c)' <=> OfFamily(c)) /\ (Deletes(c)' <=> Deletes(c))
           /\ FirstWatched(call[c])' = FirstWatched(call[c])
BY SameParents DEF Kids

\* The verdicts are about the call and the copies, and nothing else.
LEMMA SameVerdict ==
    ASSUME NEW c, NEW k, NEW copy, call'[c] = k, seen'[c] = copy, call[c] = k
    PROVE  /\ Accepted(call[c], seen[c])' <=> Accepted(k, copy)
           /\ Unlisted(c, seen[c])' <=> Unlisted(c, copy)
<1>1. Unlisted(c, seen[c])' <=> Unlisted(c, copy)
  BY DEF Unlisted
<1>2. Accepted(call[c], seen[c])' <=> Accepted(k, copy)
  BY DEF Accepted, Local!PlanAccepted, Local!StatusAccepted, Local!DeletionAccepted,
         Local!Transition, Local!ParentsOf, Local!Live, Local!AllDone, Local!Effective
<1> QED
  BY <1>1, <1>2

\* A client that does nothing, while the store stays, is as it was.
LEMMA OthersKept ==
    ASSUME UNCHANGED <<store, allowed>>, NEW d \in Client, ClientOK(d), Knows(d),
           pc'[d] = pc[d], call'[d] = call[d], watched'[d] = watched[d],
           dirty'[d] = dirty[d], seen'[d] = seen[d]
    PROVE  ClientOK(d)' /\ Knows(d)'
<1> USE DEF store
<1>1. ClientOK(d)'
  BY DEF ClientOK, Reads, Nothing
<1>2. ASSUME Watches(d)
      PROVE  Watches(d)'
  BY <1>2, SameFamily DEF Watches, TaskKey
<1>3. ASSUME Current(d)
      PROVE  Current(d)'
  BY <1>3 DEF Current, TaskKey, KidsKey, IndexKey
<1>4. ASSUME Absent(d)
      PROVE  Absent(d)'
  BY <1>4, SameFamily DEF Absent, Reads, RecordKey
<1>5. ASSUME Checked(d)
      PROVE  Checked(d)'
  BY <1>5, SameFamily, SameVerdict DEF Checked, Reads
<1> QED
  BY <1>1, <1>2, <1>3, <1>4, <1>5 DEF Knows

\* The invariant after a step of c that writes nothing.
LEMMA StepKeeps ==
    ASSUME IInv, UNCHANGED <<store, allowed>>, NEW c \in Client, TxnType',
           \A d \in Client \ {c} :
             /\ pc'[d] = pc[d] /\ call'[d] = call[d] /\ watched'[d] = watched[d]
             /\ dirty'[d] = dirty[d] /\ seen'[d] = seen[d],
           pc'[c] # "idle" => pc[c] # "idle" /\ call'[c] = call[c],
           ClientOK(c)' /\ Knows(c)'
    PROVE  IInv'
<1>1. Facts!IInv'
  BY StoreStutters DEF IInv
<1>2. RecordInv'
  <2>1. /\ recorded' = recorded /\ allowed' = allowed
        /\ \A d \in Client : pc'[d] # "idle" => pc[d] # "idle" /\ call'[d] = call[d]
    BY DEF store
  <2>2. Store!IdemKey' = Store!IdemKey
    BY DEF Store!IdemKey, Store!Kind
  <2> QED
    BY <2>1, <2>2 DEF IInv, RecordInv, RecordKey
<1>3. \A d \in Client : ClientOK(d)' /\ Knows(d)'
  BY OthersKept DEF IInv
<1> QED
  BY <1>1, <1>2, <1>3 DEF IInv

\* A call ends: its client knows nothing and needs nothing.
LEMMA AnswerKeeps ==
    ASSUME IInv, UNCHANGED <<store, allowed>>, NEW c \in Client,
           NEW result \in Reply \cup {None}, Answer(c, result)
    PROVE  IInv'
<1> USE DEF Answer, Unwatch
<1>1. Nothing \in Copy
  BY DEF Nothing, Copy
<1>0. 0 \in 0..Retries - 1
  BY TxnAssumption
<1>2. TxnType'
  BY <1>0, <1>1 DEF IInv, TxnType, PC
<1>3. pc'[c] = "idle" /\ call'[c] = None /\ watched'[c] = {} /\ ~dirty'[c] /\ seen'[c] = Nothing
  BY DEF IInv, TxnType
<1>4. ClientOK(c)' /\ Knows(c)'
  BY <1>3 DEF ClientOK, Knows, Nothing
<1>5. \A d \in Client \ {c} :
        /\ pc'[d] = pc[d] /\ call'[d] = call[d] /\ watched'[d] = watched[d]
        /\ dirty'[d] = dirty[d] /\ seen'[d] = seen[d]
  BY DEF IInv, TxnType
<1> QED
  BY <1>2, <1>3, <1>4, <1>5, StepKeeps

\* A read step keeps the invariant if the client that goes on knows what it
\* has read.
LEMMA ProceedKeeps ==
    ASSUME IInv, UNCHANGED allowed, NEW c \in Client, pc[c] # "idle",
           NEW verdict \in Reply \cup {"go"}, NEW next \in PC, NEW copy \in Copy,
           Proceed(c, verdict, next, copy),
           /\ verdict = "go" /\ pc'[c] = next /\ seen'[c] = copy /\ call'[c] = call[c]
           /\ watched'[c] = watched[c] /\ dirty'[c] = dirty[c]
           => ClientOK(c)' /\ Knows(c)'
    PROVE  IInv'
<1>1. CASE verdict = "go"
  <2> USE <1>1 DEF Proceed, Goto, Reply
  <2>1. TxnType'
    BY DEF IInv, TxnType
  <2>2. /\ pc'[c] = next /\ seen'[c] = copy /\ call'[c] = call[c]
        /\ watched'[c] = watched[c] /\ dirty'[c] = dirty[c]
    BY DEF IInv, TxnType
  <2>3. \A d \in Client \ {c} :
          /\ pc'[d] = pc[d] /\ call'[d] = call[d] /\ watched'[d] = watched[d]
          /\ dirty'[d] = dirty[d] /\ seen'[d] = seen[d]
    BY DEF IInv, TxnType
  <2>4. ClientOK(c)' /\ Knows(c)' /\ UNCHANGED <<store, allowed>>
    BY <2>2
  <2> QED
    BY <2>1, <2>2, <2>3, <2>4, StepKeeps
<1>2. CASE verdict # "go"
  BY <1>2, AnswerKeeps DEF Proceed
<1> QED
  BY <1>1, <1>2

\* The same for the steps that watch more keys.
LEMMA WatchingKeeps ==
    ASSUME IInv, UNCHANGED allowed, NEW c \in Client, pc[c] # "idle",
           NEW keys, NEW next \in PC, AddWatch(c, keys), Goto(c, next),
           UNCHANGED <<store, dirty, seen>>,
           /\ pc'[c] = next /\ seen'[c] = seen[c] /\ call'[c] = call[c]
           /\ watched'[c] = watched[c] \cup keys /\ dirty'[c] = dirty[c]
           => ClientOK(c)' /\ Knows(c)'
    PROVE  IInv'
<1> USE DEF AddWatch, Goto
<1>1. TxnType'
  BY DEF IInv, TxnType
<1>2. /\ pc'[c] = next /\ seen'[c] = seen[c] /\ call'[c] = call[c]
      /\ watched'[c] = watched[c] \cup keys /\ dirty'[c] = dirty[c]
  BY DEF IInv, TxnType
<1>3. \A d \in Client \ {c} :
        /\ pc'[d] = pc[d] /\ call'[d] = call[d] /\ watched'[d] = watched[d]
        /\ dirty'[d] = dirty[d] /\ seen'[d] = seen[d]
  BY DEF IInv, TxnType
<1> QED
  BY <1>1, <1>2, <1>3, StepKeeps

-----------------------------------------------------------------------------
(* The round trips of an attempt, one lemma each.                          *)

\* What a running client has.
LEMMA ClientFacts ==
    ASSUME IInv, NEW c \in Client, pc[c] # "idle"
    PROVE  /\ IsCall(call[c]) /\ call[c] \in allowed /\ call[c] # None
           /\ call[c].op \in {"create", "batch", "update", "status", "delete", "delete_batch"}
           /\ call[c].key # None => RecordKey(call[c]) \in Store!IdemKey
           /\ seen[c] \in Copy /\ ClientOK(c) /\ Knows(c)
           /\ pc[c] \in {"watch", "record", "original"} \cup Reads(call[c].op)
<1>1. call[c] \in allowed /\ allowed \in Calls /\ seen[c] \in Copy /\ ClientOK(c) /\ Knows(c)
  BY DEF IInv, TxnType, ClientOK
<1>2. IsCall(call[c]) /\ call[c] # None
  BY <1>1, TxnAssumption
<1>3. call[c].op \in Store!Kind /\ (call[c].key # None => RecordKey(call[c]) \in Store!IdemKey)
  BY <1>2, CallFacts
<1>4. pc[c] \in {"watch", "record", "original"} \cup Reads(call[c].op)
  BY <1>1 DEF ClientOK
<1> QED
  BY <1>1, <1>2, <1>3, <1>4 DEF Store!Kind

LEMMA BeginIInv ==
    ASSUME IInv, UNCHANGED allowed, NEW c \in Client, NEW k \in allowed, Begin(c, k)
    PROVE  IInv'
<1> USE DEF Begin
<1>0. UNCHANGED <<task, userIndex, children, recorded, watched, dirty, seen>>
  BY DEF store, attemptVars
<1>1. Facts!IInv'
  BY StoreStutters DEF IInv
<1>2. TxnType'
  <2>1. 0 \in 0..Retries - 1
    BY TxnAssumption
  <2> QED
    BY <1>0, <2>1 DEF IInv, TxnType, PC
<1>3. /\ pc'[c] = "watch" /\ call'[c] = k
      /\ \A d \in Client \ {c} : pc'[d] = pc[d] /\ call'[d] = call[d]
  BY DEF IInv, TxnType
<1>4. RecordInv'
  <2>1. recorded' = recorded /\ allowed' = allowed /\ Store!IdemKey' = Store!IdemKey
    BY <1>0 DEF Store!IdemKey, Store!Kind
  <2>2. recorded' \in [Store!IdemKey' -> allowed' \cup {None}]
    BY <2>1 DEF IInv, RecordInv
  <2>3. \A ik \in Store!IdemKey' : recorded'[ik] # None => RecordKey(recorded[ik])' = ik
    BY <2>1 DEF IInv, RecordInv, RecordKey
  <2>4. k.op = "create" =>
          /\ \A ik \in Store!IdemKey : recorded[ik] # None /\ ik[1] = "create" =>
               recorded[ik].id # k.id
          /\ \A d \in Client : pc[d] # "idle" /\ call[d].op = "create" => call[d].id # k.id
    BY DEF Drawn, IInv, RecordInv
  <2>5. ASSUME NEW d \in Client, pc'[d] # "idle", call'[d].op = "create"
        PROVE  /\ \A e \in Client : pc'[e] # "idle" /\ call'[e].op = "create"
                    /\ call'[e].id = call'[d].id => e = d
               /\ \A ik \in Store!IdemKey' : recorded'[ik] # None /\ ik[1] = "create" =>
                    recorded'[ik].id # call'[d].id
    BY <1>3, <2>1, <2>4, <2>5 DEF IInv, RecordInv
  <2> QED
    BY <2>2, <2>3, <2>5 DEF RecordInv
<1>5. ClientOK(c)' /\ Knows(c)'
  <2>1. watched'[c] = {} /\ seen'[c] = Nothing /\ ~dirty'[c] /\ k # None
    BY <1>0, TxnAssumption DEF IInv, TxnType, ClientOK
  <2> QED
    BY <1>3, <2>1 DEF ClientOK, Knows, Watches, Current, Absent, Checked, Reads, Nothing
<1>6. \A d \in Client \ {c} : ClientOK(d)' /\ Knows(d)'
  BY <1>0, <1>3, OthersKept DEF IInv, store
<1> QED
  BY <1>1, <1>2, <1>4, <1>5, <1>6 DEF IInv

LEMMA WatchIInv ==
    ASSUME IInv, UNCHANGED allowed, NEW c \in Client, Watch(c)
    PROVE  IInv'
<1> DEFINE k == call[c]
           next == IF k.key = None THEN "target" ELSE "record"
<1>1. pc[c] = "watch" /\ ClientOK(c) /\ call[c] \in allowed
  BY ClientFacts DEF Watch
<1>2. /\ pc[c] # "idle" /\ next \in PC
      /\ AddWatch(c, FirstWatched(k)) /\ Goto(c, next) /\ UNCHANGED <<store, dirty, seen>>
  BY <1>1 DEF Watch, PC
<1>3. ASSUME pc'[c] = next, seen'[c] = seen[c], call'[c] = call[c],
             watched'[c] = watched[c] \cup FirstWatched(k), dirty'[c] = dirty[c]
      PROVE  ClientOK(c)' /\ Knows(c)'
  <2>1. seen'[c] = Nothing /\ allowed' = allowed
    BY <1>1, <1>3 DEF ClientOK
  <2>2. k.op \in {"create", "batch", "update", "status", "delete", "delete_batch"}
    BY <1>1, ClientFacts
  <2>3. ClientOK(c)'
    BY <1>1, <1>3, <2>1, <2>2 DEF ClientOK, Reads
  <2>4. Watches(c)'
    BY <1>3, SameFamily DEF Watches
  <2>5. Current(c)'
    BY <2>1 DEF Current, Nothing
  <2>6. Absent(c)' /\ Checked(c)'
    BY <1>3, <2>2 DEF Absent, Checked, Reads, Deletes, OfFamily
  <2> QED
    BY <2>3, <2>4, <2>5, <2>6 DEF Knows
<1> QED
  BY <1>2, <1>3, WatchingKeeps

LEMMA ReadRecordIInv ==
    ASSUME IInv, UNCHANGED allowed, NEW c \in Client, ReadRecord(c)
    PROVE  IInv'
<1> DEFINE k == call[c]
           r == recorded[RecordKey(k)]
           verdict == IF r = None \/ k.op = "create" THEN "go"
                      ELSE IF SameInput(k, r) THEN "replayed" ELSE "input_conflict"
           next == IF r = None THEN "target" ELSE "original"
<1>1. pc[c] = "record" /\ ClientOK(c) /\ Knows(c) /\ k \in allowed /\ k.key # None
  BY ClientFacts DEF ReadRecord, ClientOK
<1>2. /\ pc[c] # "idle" /\ verdict \in Reply \cup {"go"} /\ next \in PC /\ seen[c] \in Copy
      /\ Proceed(c, verdict, next, seen[c])
  BY <1>1, ClientFacts DEF ReadRecord, PC, Reply
<1>3. ASSUME verdict = "go", pc'[c] = next, seen'[c] = seen[c], call'[c] = call[c],
             watched'[c] = watched[c], dirty'[c] = dirty[c]
      PROVE  ClientOK(c)' /\ Knows(c)'
  <2>0. UNCHANGED store
    BY <1>2 DEF Proceed
  <2>1. allowed' = allowed
    OBVIOUS
  <2>2. k.op \in {"create", "batch", "update", "status", "delete", "delete_batch"}
    BY <1>1, ClientFacts
  <2>3. ClientOK(c)'
    BY <1>1, <1>3, <2>1, <2>2 DEF ClientOK, Reads
  <2>4. ASSUME Knows(c), ~dirty[c]
        PROVE  Watches(c)'
    BY <1>1, <1>3, <2>4, SameFamily DEF Knows, Watches
  <2>5. ASSUME Knows(c), ~dirty[c]
        PROVE  Current(c)'
    BY <1>1, <1>3, <2>0, <2>5 DEF Knows, Current, TaskKey, KidsKey, IndexKey, store
  <2>6. Absent(c)' /\ Checked(c)'
    BY <1>3, <2>0, <2>2 DEF Absent, Checked, Reads, Deletes, OfFamily, store, RecordKey
  <2> QED
    BY <1>1, <1>3, <2>3, <2>4, <2>5, <2>6 DEF Knows
<1> QED
  BY <1>2, <1>3, ProceedKeeps

LEMMA ReadOriginalIInv ==
    ASSUME IInv, UNCHANGED allowed, NEW c \in Client, ReadOriginal(c)
    PROVE  IInv'
BY AnswerKeeps DEF ReadOriginal, Reply

LEMMA ReadNewIdIInv ==
    ASSUME IInv, UNCHANGED allowed, NEW c \in Client, ReadNewId(c)
    PROVE  IInv'
<1> DEFINE k == call[c]
           verdict == IF k.id \in Store!Live THEN "exists" ELSE "go"
<1>1. pc[c] = "target" /\ k.op = "create" /\ ClientOK(c) /\ Knows(c)
  BY ClientFacts DEF ReadNewId
<1>2. /\ pc[c] # "idle" /\ verdict \in Reply \cup {"go"} /\ "exec" \in PC /\ seen[c] \in Copy
      /\ Proceed(c, verdict, "exec", seen[c])
  BY <1>1, ClientFacts DEF ReadNewId, PC, Reply
<1>3. ASSUME verdict = "go", pc'[c] = "exec", seen'[c] = seen[c], call'[c] = call[c],
             watched'[c] = watched[c], dirty'[c] = dirty[c]
      PROVE  ClientOK(c)' /\ Knows(c)'
  <2>0. UNCHANGED store /\ allowed' = allowed
    BY <1>2 DEF Proceed
  <2>1. task[k.id] = None
    BY <1>1, <1>3, ClientFacts, CallFacts DEF Store!Live
  <2>2. ClientOK(c)'
    BY <1>1, <1>3, <2>0 DEF ClientOK, Reads
  <2>3. ASSUME Knows(c), ~dirty[c]
        PROVE  Watches(c)' /\ Current(c)' /\ Absent(c)' /\ Checked(c)'
    <3>1. Watches(c)'
      BY <1>1, <1>3, <2>3, SameFamily DEF Knows, Watches, OfFamily
    <3>2. Current(c)'
      BY <1>1, <1>3, <2>0, <2>3 DEF Knows, Current, TaskKey, KidsKey, IndexKey, store
    <3>3. Absent(c)' /\ Checked(c)'
      BY <1>1, <1>3, <2>0, <2>1, <2>3
         DEF Knows, Absent, Checked, Reads, Deletes, OfFamily, store, RecordKey
    <3> QED
      BY <3>1, <3>2, <3>3
  <2> QED
    BY <1>1, <1>3, <2>2, <2>3 DEF Knows
<1> QED
  BY <1>2, <1>3, ProceedKeeps

\* The copy after a read of tasks.
LEMMA WithTasksFacts ==
    ASSUME IInv, NEW c \in Client, NEW T
    PROVE  /\ WithTasks(c, T) \in Copy
           /\ \A t \in TaskId :
                WithTasks(c, T).task[t] = IF t \in T THEN task[t] ELSE seen[c].task[t]
           /\ WithTasks(c, T).children = seen[c].children
           /\ WithTasks(c, T).index = seen[c].index
<1>1. seen[c] \in Copy
  BY DEF IInv, TxnType
<1>2. task \in [TaskId -> Store!TaskRecord \cup {None}]
  BY SameRecords DEF IInv, Facts!IInv, Facts!TypeOK
<1> QED
  BY <1>1, <1>2 DEF WithTasks, Copy

LEMMA ReadTargetsIInv ==
    ASSUME IInv, UNCHANGED allowed, NEW c \in Client, ReadTargets(c)
    PROVE  IInv'
<1> DEFINE k == call[c]
           S == DOMAIN k.at
           next == CASE k.op = "batch"  -> "ids"
                     [] k.op = "update" -> "exec"
                     [] k.op = "status" -> "family"
                     [] OTHER           -> "member"
           copy == WithTasks(c, S)
<1>1. pc[c] = "target" /\ k.op # "create" /\ ClientOK(c) /\ Knows(c)
  BY ClientFacts DEF ReadTargets
<1>2. /\ pc[c] # "idle" /\ TargetVerdict(k) \in Reply \cup {"go"} /\ next \in PC
      /\ copy \in Copy /\ Proceed(c, TargetVerdict(k), next, copy)
  BY <1>1, WithTasksFacts DEF ReadTargets, PC, Reply, TargetVerdict
<1>3. ASSUME TargetVerdict(k) = "go", pc'[c] = next, seen'[c] = copy, call'[c] = call[c],
             watched'[c] = watched[c], dirty'[c] = dirty[c]
      PROVE  ClientOK(c)' /\ Knows(c)'
  <2>0. UNCHANGED store /\ allowed' = allowed
    BY <1>2 DEF Proceed
  <2>1. k.op \in {"batch", "update", "status", "delete", "delete_batch"} /\ S \subseteq TaskId
    BY <1>1, ClientFacts, CallFacts
  <2>2. \A t \in S :
          /\ copy.task[t] # None
          /\ k.op = "batch" => copy.task[t].parent = None /\ copy.task[t].status # "CANCELLED"
    BY <1>3, <2>1, WithTasksFacts DEF TargetVerdict, Store!Live
  <2>3. ClientOK(c)'
    BY <1>1, <1>3, <2>0, <2>1 DEF ClientOK, Reads
  <2>4. ASSUME Knows(c), ~dirty[c]
        PROVE  Watches(c)' /\ Current(c)' /\ Absent(c)' /\ Checked(c)'
    <3>0. Watches(c) /\ Current(c) /\ Absent(c) /\ FirstWatched(k) \subseteq watched[c]
      BY <1>1, <2>4 DEF Knows, Watches
    <3>1. Watches(c)'
      <4>1. FirstWatched(k)' = FirstWatched(k)
        BY <1>3 DEF FirstWatched, Record, RecordKey, TaskKey, KidsKey, IndexKey
      <4> QED
        BY <1>3, <2>1, <3>0, <4>1
           DEF Watches, OfFamily, FirstWatched, Record, RecordKey, TaskKey, KidsKey, IndexKey
    <3>2. \A t \in S : TaskKey(t) \in watched[c]
      BY <2>1, <3>0 DEF FirstWatched
    <3>3. Current(c)'
      BY <1>3, <2>0, <3>0, <3>2, WithTasksFacts
         DEF Current, TaskKey, KidsKey, IndexKey, store
    <3>4. Absent(c)'
      BY <1>1, <1>3, <2>0, <2>1, <3>0
         DEF Absent, Reads, Deletes, OfFamily, store, RecordKey
    <3>5. Checked(c)'
      BY <1>3, <2>1, <2>2 DEF Checked, Reads, Deletes, OfFamily
    <3> QED
      BY <3>1, <3>3, <3>4, <3>5
  <2> QED
    BY <1>1, <1>3, <2>3, <2>4 DEF Knows
<1> QED
  BY <1>2, <1>3, ProceedKeeps

LEMMA ReadIdsIInv ==
    ASSUME IInv, UNCHANGED allowed, NEW c \in Client, ReadIds(c)
    PROVE  IInv'
<1> DEFINE k == call[c]
           verdict == IF DOMAIN k.plan \cap Store!Live = {} THEN "go" ELSE "inconsistent"
<1>1. pc[c] = "ids" /\ ClientOK(c) /\ Knows(c)
  BY ClientFacts DEF ReadIds
<1>2. k.op = "batch" /\ DOMAIN k.plan \subseteq TaskId
  BY <1>1, ClientFacts, CallFacts DEF Reads
<1>3. /\ pc[c] # "idle" /\ verdict \in Reply \cup {"go"} /\ "index" \in PC /\ seen[c] \in Copy
      /\ Proceed(c, verdict, "index", seen[c])
  BY <1>1, ClientFacts DEF ReadIds, PC, Reply
<1>4. ASSUME verdict = "go", pc'[c] = "index", seen'[c] = seen[c], call'[c] = call[c],
             watched'[c] = watched[c], dirty'[c] = dirty[c]
      PROVE  ClientOK(c)' /\ Knows(c)'
  <2>0. UNCHANGED store /\ allowed' = allowed
    BY <1>3 DEF Proceed
  <2>1. \A t \in DOMAIN k.plan : task[t] = None
    BY <1>2, <1>4 DEF Store!Live
  <2>2. ClientOK(c)'
    BY <1>1, <1>2, <1>4, <2>0 DEF ClientOK, Reads
  <2>3. ASSUME Knows(c), ~dirty[c]
        PROVE  Watches(c)' /\ Current(c)' /\ Absent(c)' /\ Checked(c)'
    <3>0. /\ Watches(c) /\ Current(c) /\ Absent(c) /\ FirstWatched(k) \subseteq watched[c]
          /\ \A t \in DOMAIN k.at :
               /\ seen[c].task[t] # None
               /\ seen[c].task[t].parent = None /\ seen[c].task[t].status # "CANCELLED"
      BY <1>1, <1>2, <2>3 DEF Knows, Watches, Checked, Reads
    <3>1. Parents(c) = {} /\ Families(c) = DOMAIN k.at
      BY <1>2, <3>0 DEF Parents, Families
    <3>2. FamilyWatched(c) \subseteq watched[c]
      BY <1>2, <3>0, <3>1 DEF FamilyWatched, FirstWatched
    <3>3. Watches(c)'
      BY <1>1, <1>4, <3>0, <3>2, SameFamily DEF Watches
    <3>4. Current(c)'
      BY <1>4, <2>0, <3>0 DEF Current, TaskKey, KidsKey, IndexKey, store
    <3>5. Absent(c)'
      BY <1>1, <1>2, <1>4, <2>0, <2>1, <3>0
         DEF Absent, Reads, Deletes, OfFamily, store, RecordKey
    <3>6. Checked(c)'
      BY <1>2, <1>4, <3>0, <3>1, SameFamily DEF Checked, Reads, Deletes
    <3> QED
      BY <3>3, <3>4, <3>5, <3>6
  <2> QED
    BY <1>1, <1>4, <2>2, <2>3 DEF Knows
<1> QED
  BY <1>3, <1>4, ProceedKeeps

LEMMA ReadMemberIInv ==
    ASSUME IInv, UNCHANGED allowed, NEW c \in Client, ReadMember(c)
    PROVE  IInv'
<1> DEFINE k == call[c]
           S == DOMAIN k.at
           verdict == IF S \subseteq userIndex THEN "go" ELSE "inconsistent"
           copy == [seen[c] EXCEPT !.index = S]
<1>1. pc[c] = "member" /\ ClientOK(c) /\ Knows(c) /\ seen[c] \in Copy
  BY ClientFacts DEF ReadMember
<1>2. k.op \in {"delete", "delete_batch"} /\ S \subseteq TaskId
  BY <1>1, ClientFacts, CallFacts DEF Reads
<1>3. /\ copy \in Copy
      /\ copy.task = seen[c].task /\ copy.children = seen[c].children /\ copy.index = S
  BY <1>1, <1>2 DEF Copy
<1>4. /\ pc[c] # "idle" /\ verdict \in Reply \cup {"go"} /\ "leaf" \in PC
      /\ Proceed(c, verdict, "leaf", copy)
  BY <1>1 DEF ReadMember, PC, Reply
<1>5. ASSUME verdict = "go", pc'[c] = "leaf", seen'[c] = copy, call'[c] = call[c],
             watched'[c] = watched[c], dirty'[c] = dirty[c]
      PROVE  ClientOK(c)' /\ Knows(c)'
  <2>0. UNCHANGED store /\ allowed' = allowed
    BY <1>4 DEF Proceed
  <2>1. S \subseteq userIndex
    BY <1>5
  <2> HIDE DEF copy
  <2>2. ClientOK(c)'
    BY <1>1, <1>2, <1>5, <2>0 DEF ClientOK, Reads
  <2>3. ASSUME Knows(c), ~dirty[c]
        PROVE  Watches(c)' /\ Current(c)' /\ Absent(c)' /\ Checked(c)'
    <3>0. /\ Watches(c) /\ Current(c) /\ Absent(c) /\ Checked(c)
          /\ FirstWatched(k) \subseteq watched[c]
      BY <1>1, <2>3 DEF Knows, Watches
    <3>1. Watches(c)'
      BY <1>1, <1>3, <1>5, <3>0, SameParents DEF Watches
    <3>2. IndexKey \in watched[c]
      BY <1>2, <3>0 DEF FirstWatched
    <3>3. Current(c)'
      BY <1>3, <1>5, <2>0, <2>1, <3>0, <3>2 DEF Current, TaskKey, KidsKey, IndexKey, store
    <3>4. Absent(c)'
      BY <1>1, <1>2, <1>5, <2>0, <3>0
         DEF Absent, Reads, Deletes, OfFamily, store, RecordKey
    <3>5. Checked(c)'
      BY <1>1, <1>2, <1>3, <1>5, <3>0 DEF Checked, Reads, Deletes, OfFamily
    <3> QED
      BY <3>1, <3>3, <3>4, <3>5
  <2> QED
    BY <1>1, <1>5, <2>2, <2>3 DEF Knows
<1> QED
  BY <1>3, <1>4, <1>5, ProceedKeeps

LEMMA ReadLeafIInv ==
    ASSUME IInv, UNCHANGED allowed, NEW c \in Client, ReadLeaf(c)
    PROVE  IInv'
<1> DEFINE k == call[c]
           verdict == IF \A t \in DOMAIN k.at : children[t] = {} THEN "go" ELSE "refused"
           next == IF Parents(c) = {} THEN "exec" ELSE "family"
<1>1. pc[c] = "leaf" /\ ClientOK(c) /\ Knows(c)
  BY ClientFacts DEF ReadLeaf
<1>2. k.op \in {"delete", "delete_batch"}
  BY <1>1, ClientFacts DEF Reads
<1>3. /\ pc[c] # "idle" /\ verdict \in Reply \cup {"go"} /\ next \in PC /\ seen[c] \in Copy
      /\ Proceed(c, verdict, next, seen[c])
  BY <1>1, ClientFacts DEF ReadLeaf, PC, Reply
<1>4. ASSUME verdict = "go", pc'[c] = next, seen'[c] = seen[c], call'[c] = call[c],
             watched'[c] = watched[c], dirty'[c] = dirty[c]
      PROVE  ClientOK(c)' /\ Knows(c)'
  <2>0. UNCHANGED store /\ allowed' = allowed
    BY <1>3 DEF Proceed
  <2>1. \A t \in DOMAIN k.at : children[t] = {}
    BY <1>4
  <2>2. ClientOK(c)'
    BY <1>1, <1>2, <1>4, <2>0 DEF ClientOK, Reads
  <2>3. ASSUME Knows(c), ~dirty[c]
        PROVE  Watches(c)' /\ Current(c)' /\ Absent(c)' /\ Checked(c)'
    <3>0. /\ Watches(c) /\ Current(c) /\ Absent(c) /\ Checked(c)
          /\ FirstWatched(k) \subseteq watched[c]
      BY <1>1, <2>3 DEF Knows, Watches
    <3>1. next = "exec" => Families(c) = {} /\ Kids(c) = {} /\ FamilyWatched(c) = {}
      BY <1>2 DEF Families, Kids, FamilyWatched
    <3>2. Watches(c)'
      BY <1>1, <1>4, <3>0, <3>1, SameFamily DEF Watches
    <3>3. Current(c)'
      BY <1>4, <2>0, <3>0 DEF Current, TaskKey, KidsKey, IndexKey, store
    <3>4. Absent(c)'
      BY <1>1, <1>2, <1>4, <2>0, <2>1, <3>0, <3>1, SameFamily
         DEF Absent, Reads, Deletes, store, RecordKey
    <3>5. Checked(c)'
      BY <1>1, <1>2, <1>4, <3>0, SameFamily DEF Checked, Reads, Deletes
    <3> QED
      BY <3>2, <3>3, <3>4, <3>5
  <2> QED
    BY <1>1, <1>4, <2>2, <2>3 DEF Knows
<1> QED
  BY <1>3, <1>4, ProceedKeeps

LEMMA WatchFamilyIInv ==
    ASSUME IInv, UNCHANGED allowed, NEW c \in Client, WatchFamily(c)
    PROVE  IInv'
<1> DEFINE k == call[c]
           next == IF Parents(c) = {} THEN "index" ELSE "parent"
<1>1. pc[c] = "family" /\ ClientOK(c) /\ Knows(c)
  BY ClientFacts DEF WatchFamily
<1>2. k.op \in {"status", "delete", "delete_batch"}
  BY <1>1, ClientFacts DEF Reads
<1>3. /\ pc[c] # "idle" /\ next \in PC /\ AddWatch(c, FamilyWatched(c)) /\ Goto(c, next)
      /\ UNCHANGED <<store, dirty, seen>>
  BY <1>1 DEF WatchFamily, PC
<1>4. ASSUME pc'[c] = next, seen'[c] = seen[c], call'[c] = call[c],
             watched'[c] = watched[c] \cup FamilyWatched(c), dirty'[c] = dirty[c]
      PROVE  ClientOK(c)' /\ Knows(c)'
  <2>0. UNCHANGED store /\ allowed' = allowed
    BY <1>3
  <2>1. ClientOK(c)'
    BY <1>1, <1>2, <1>4, <2>0 DEF ClientOK, Reads
  <2>2. ASSUME Knows(c), ~dirty[c]
        PROVE  Watches(c)' /\ Current(c)' /\ Absent(c)' /\ Checked(c)'
    <3>0. /\ Watches(c) /\ Current(c) /\ Absent(c) /\ Checked(c)
          /\ FirstWatched(k) \subseteq watched[c]
      BY <1>1, <2>2 DEF Knows, Watches
    <3>1. Watches(c)'
      BY <1>1, <1>4, <3>0, SameFamily DEF Watches
    <3>2. Current(c)'
      BY <1>4, <2>0, <3>0 DEF Current, TaskKey, KidsKey, IndexKey, store
    <3>3. Absent(c)'
      BY <1>1, <1>2, <1>4, <2>0, <3>0, SameFamily DEF Absent, Reads, Deletes, store, RecordKey
    <3>4. Checked(c)'
      BY <1>1, <1>2, <1>4, <3>0, SameFamily DEF Checked, Reads, Deletes
    <3> QED
      BY <3>1, <3>2, <3>3, <3>4
  <2> QED
    BY <1>1, <1>4, <2>1, <2>2 DEF Knows
<1> QED
  BY <1>3, <1>4, WatchingKeeps

LEMMA ReadParentsIInv ==
    ASSUME IInv, UNCHANGED allowed, NEW c \in Client, ReadParents(c)
    PROVE  IInv'
<1> DEFINE k == call[c]
           P == Parents(c)
           verdict ==
             IF ~ P \subseteq Store!Live THEN "inconsistent"
             ELSE IF k.op = "status" /\ \E p \in P : task[p].status = "CANCELLED"
             THEN "refused"
             ELSE "go"
           copy == WithTasks(c, P)
<1>1. pc[c] = "parent" /\ ClientOK(c) /\ Knows(c)
  BY ClientFacts DEF ReadParents
<1>2. /\ k.op \in {"status", "delete", "delete_batch"} /\ DOMAIN k.at \subseteq TaskId
      /\ OfFamily(c)
  BY <1>1, ClientFacts, CallFacts DEF Reads, OfFamily
<1>3. /\ pc[c] # "idle" /\ verdict \in Reply \cup {"go"} /\ "index" \in PC /\ copy \in Copy
      /\ Proceed(c, verdict, "index", copy)
  BY <1>1, WithTasksFacts DEF ReadParents, PC, Reply
<1>4. ASSUME verdict = "go", pc'[c] = "index", seen'[c] = copy, call'[c] = call[c],
             watched'[c] = watched[c], dirty'[c] = dirty[c]
      PROVE  ClientOK(c)' /\ Knows(c)'
  <2>0. UNCHANGED store /\ allowed' = allowed
    BY <1>3 DEF Proceed
  <2>1. /\ P \subseteq TaskId
        /\ \A p \in P : task[p] # None /\ (k.op = "status" => task[p].status # "CANCELLED")
    BY <1>4 DEF Store!Live
  <2>2. /\ \A t \in TaskId : copy.task[t] = IF t \in P THEN task[t] ELSE seen[c].task[t]
        /\ copy.children = seen[c].children /\ copy.index = seen[c].index
    BY WithTasksFacts
  <2> HIDE DEF copy, P
  <2>3. ClientOK(c)'
    BY <1>1, <1>2, <1>4, <2>0 DEF ClientOK, Reads
  <2>4. ASSUME Knows(c), ~dirty[c]
        PROVE  Watches(c)' /\ Current(c)' /\ Absent(c)' /\ Checked(c)'
    <3>0. /\ Watches(c) /\ Current(c) /\ Absent(c) /\ Checked(c)
          /\ FirstWatched(k) \subseteq watched[c] /\ FamilyWatched(c) \subseteq watched[c]
      BY <1>1, <1>2, <2>4 DEF Knows, Watches
    <3>1. \A t \in DOMAIN k.at : copy.task[t] = seen[c].task[t] /\ seen[c].task[t] # None
      BY <1>1, <1>2, <2>2, <3>0 DEF Current, Checked, Reads
    <3>2. /\ Parents(c)' = P /\ Families(c)' = Families(c)
          /\ FamilyWatched(c)' = FamilyWatched(c)
          /\ (OfFamily(c)' <=> OfFamily(c)) /\ (Deletes(c)' <=> Deletes(c))
          /\ FirstWatched(call[c])' = FirstWatched(call[c])
      BY <1>4, <3>1, SameParents DEF P
    <3>3. Watches(c)'
      BY <1>1, <1>4, <3>0, <3>2 DEF Watches
    <3>4. \A p \in P : TaskKey(p) \in watched[c]
      BY <3>0 DEF FamilyWatched, P
    <3>5. Current(c)'
      BY <1>4, <2>0, <2>2, <3>0, <3>4 DEF Current, TaskKey, KidsKey, IndexKey, store
    <3>6. Absent(c)'
      BY <1>1, <1>2, <1>4, <2>0, <3>0, <3>2 DEF Absent, Reads, Deletes, store, RecordKey
    <3>7. Checked(c)'
      BY <1>1, <1>2, <1>4, <2>1, <2>2, <3>0, <3>1, <3>2 DEF Checked, Reads, Deletes
    <3> QED
      BY <3>3, <3>5, <3>6, <3>7
  <2> QED
    BY <1>1, <1>4, <2>3, <2>4 DEF Knows
<1> QED
  BY <1>3, <1>4, ProceedKeeps

LEMMA ReadIndexIInv ==
    ASSUME IInv, UNCHANGED allowed, NEW c \in Client, ReadIndex(c)
    PROVE  IInv'
<1> DEFINE k == call[c]
           F == Families(c)
           kids == [t \in TaskId |-> IF t \in F THEN children[t] ELSE seen[c].children[t]]
           copy == [seen[c] EXCEPT !.children =
                      [t \in TaskId |-> IF t \in F THEN children[t] ELSE @[t]]]
           verdict == IF k.op = "delete" /\ Unlisted(c, copy) THEN "inconsistent" ELSE "go"
<1>1. pc[c] = "index" /\ ClientOK(c) /\ Knows(c) /\ seen[c] \in Copy
  BY ClientFacts DEF ReadIndex
<1>2. /\ k.op \in {"batch", "status", "delete", "delete_batch"} /\ DOMAIN k.at \subseteq TaskId
      /\ OfFamily(c)
  BY <1>1, ClientFacts, CallFacts DEF Reads, OfFamily
<1>3. children \in [TaskId -> SUBSET TaskId]
  BY DEF IInv, Facts!IInv, Facts!TypeOK
<1>4. /\ copy \in Copy
      /\ copy.task = seen[c].task /\ copy.index = seen[c].index
      /\ \A p \in TaskId : copy.children[p] = IF p \in F THEN children[p] ELSE seen[c].children[p]
  BY <1>1, <1>3 DEF Copy
<1>5. /\ pc[c] # "idle" /\ verdict \in Reply \cup {"go"} /\ "watch_kids" \in PC
      /\ Proceed(c, verdict, "watch_kids", copy)
  BY <1>1 DEF ReadIndex, PC, Reply
<1> HIDE DEF copy, F
<1>6. ASSUME verdict = "go", pc'[c] = "watch_kids", seen'[c] = copy, call'[c] = call[c],
             watched'[c] = watched[c], dirty'[c] = dirty[c]
      PROVE  ClientOK(c)' /\ Knows(c)'
  <2>0. UNCHANGED store /\ allowed' = allowed
    BY <1>5 DEF Proceed
  <2>1. ClientOK(c)'
    BY <1>1, <1>2, <1>6, <2>0 DEF ClientOK, Reads
  <2>2. ASSUME Knows(c), ~dirty[c]
        PROVE  Watches(c)' /\ Current(c)' /\ Absent(c)' /\ Checked(c)'
    <3>0. /\ Watches(c) /\ Current(c) /\ Absent(c) /\ Checked(c)
          /\ FirstWatched(k) \subseteq watched[c] /\ FamilyWatched(c) \subseteq watched[c]
      BY <1>1, <1>2, <2>2 DEF Knows, Watches
    <3>1. /\ Parents(c)' = Parents(c) /\ Families(c)' = F
          /\ FamilyWatched(c)' = FamilyWatched(c)
          /\ (OfFamily(c)' <=> OfFamily(c)) /\ (Deletes(c)' <=> Deletes(c))
          /\ FirstWatched(call[c])' = FirstWatched(call[c])
      BY <1>4, <1>6, SameParents DEF F
    <3>2. F \subseteq TaskId
      <4>1. \A t \in DOMAIN k.at : seen[c].task[t] \in Store!TaskRecord
        BY <1>1, <1>2, <3>0 DEF Checked, Reads, Copy
      <4>2. Parents(c) \subseteq TaskId
        BY <4>1 DEF Parents, Store!TaskRecord
      <4> QED
        BY <1>2, <4>2 DEF F, Families
    <3>3. Watches(c)'
      BY <1>1, <1>6, <3>0, <3>1 DEF Watches
    <3>4. \A p \in F : KidsKey(p) \in watched[c]
      BY <3>0 DEF FamilyWatched, F
    <3>5. Current(c)'
      BY <1>4, <1>6, <2>0, <3>0, <3>4 DEF Current, TaskKey, KidsKey, IndexKey, store
    <3>6. Absent(c)'
      BY <1>1, <1>2, <1>4, <1>6, <2>0, <3>0, <3>1, <3>2
         DEF Absent, Reads, Deletes, store, RecordKey
    <3>7. Checked(c)'
      BY <1>1, <1>2, <1>4, <1>6, <3>0, <3>1 DEF Checked, Reads, Deletes
    <3> QED
      BY <3>3, <3>5, <3>6, <3>7
  <2> QED
    BY <1>1, <1>6, <2>1, <2>2 DEF Knows
<1> QED
  BY <1>4, <1>5, <1>6, ProceedKeeps

LEMMA WatchKidsIInv ==
    ASSUME IInv, UNCHANGED allowed, NEW c \in Client, WatchKids(c)
    PROVE  IInv'
<1> DEFINE k == call[c]
           keys == {TaskKey(t) : t \in Kids(c)}
<1>1. pc[c] = "watch_kids" /\ ClientOK(c) /\ Knows(c)
  BY ClientFacts DEF WatchKids
<1>2. k.op \in {"batch", "status", "delete", "delete_batch"}
  BY <1>1, ClientFacts DEF Reads
<1>3. /\ pc[c] # "idle" /\ "kids" \in PC /\ AddWatch(c, keys) /\ Goto(c, "kids")
      /\ UNCHANGED <<store, dirty, seen>>
  BY <1>1 DEF WatchKids, PC
<1>4. ASSUME pc'[c] = "kids", seen'[c] = seen[c], call'[c] = call[c],
             watched'[c] = watched[c] \cup keys, dirty'[c] = dirty[c]
      PROVE  ClientOK(c)' /\ Knows(c)'
  <2>0. UNCHANGED store /\ allowed' = allowed
    BY <1>3
  <2>1. ClientOK(c)'
    BY <1>1, <1>2, <1>4, <2>0 DEF ClientOK, Reads
  <2>2. ASSUME Knows(c), ~dirty[c]
        PROVE  Watches(c)' /\ Current(c)' /\ Absent(c)' /\ Checked(c)'
    <3>0. /\ Watches(c) /\ Current(c) /\ Absent(c) /\ Checked(c)
          /\ FirstWatched(k) \subseteq watched[c]
      BY <1>1, <2>2 DEF Knows, Watches
    <3>1. Watches(c)'
      BY <1>1, <1>4, <3>0, SameFamily DEF Watches, TaskKey
    <3>2. Current(c)'
      BY <1>4, <2>0, <3>0 DEF Current, TaskKey, KidsKey, IndexKey, store
    <3>3. Absent(c)'
      BY <1>1, <1>2, <1>4, <2>0, <3>0, SameFamily DEF Absent, Reads, Deletes, store, RecordKey
    <3>4. Checked(c)'
      BY <1>1, <1>2, <1>4, <3>0, SameFamily DEF Checked, Reads, Deletes
    <3> QED
      BY <3>1, <3>2, <3>3, <3>4
  <2> QED
    BY <1>1, <1>4, <2>1, <2>2 DEF Knows
<1> QED
  BY <1>3, <1>4, WatchingKeeps

LEMMA ReadKidsIInv ==
    ASSUME IInv, UNCHANGED allowed, NEW c \in Client, ReadKids(c)
    PROVE  IInv'
<1> DEFINE k == call[c]
           T == Kids(c) \ DOMAIN k.at
           copy == WithTasks(c, T)
           verdict == IF ~ Kids(c) \subseteq Store!Live \/ Unlisted(c, copy)
                      THEN "inconsistent"
                      ELSE IF Accepted(k, copy) THEN "go" ELSE "refused"
<1>1. pc[c] = "kids" /\ ClientOK(c) /\ Knows(c)
  BY ClientFacts DEF ReadKids
<1>2. /\ k.op \in {"batch", "status", "delete", "delete_batch"} /\ DOMAIN k.at \subseteq TaskId
      /\ OfFamily(c)
  BY <1>1, ClientFacts, CallFacts DEF Reads, OfFamily
<1>3. copy \in Copy
  BY WithTasksFacts
<1>4. /\ \A t \in TaskId : copy.task[t] = IF t \in T THEN task[t] ELSE seen[c].task[t]
      /\ copy.children = seen[c].children /\ copy.index = seen[c].index
  BY WithTasksFacts
<1>5. Proceed(c, verdict, "exec", copy)
  BY DEF ReadKids
<1> HIDE DEF copy
<1>6. verdict \in Reply \cup {"go"} /\ "exec" \in PC /\ pc[c] # "idle"
  BY <1>1 DEF PC, Reply
<1>7. ASSUME verdict = "go", pc'[c] = "exec", seen'[c] = copy, call'[c] = call[c],
             watched'[c] = watched[c], dirty'[c] = dirty[c]
      PROVE  ClientOK(c)' /\ Knows(c)'
  <2>0. UNCHANGED store /\ allowed' = allowed
    BY <1>5 DEF Proceed
  <2>1. /\ Kids(c) \subseteq TaskId /\ \A t \in Kids(c) : task[t] # None
        /\ ~Unlisted(c, copy) /\ Accepted(k, copy)
    BY <1>7 DEF Store!Live
  <2>2. ClientOK(c)'
    BY <1>1, <1>2, <1>7, <2>0 DEF ClientOK, Reads
  <2>3. ASSUME Knows(c), ~dirty[c]
        PROVE  Watches(c)' /\ Current(c)' /\ Absent(c)' /\ Checked(c)'
    <3>0. /\ Watches(c) /\ Current(c) /\ Absent(c) /\ Checked(c)
          /\ FirstWatched(k) \subseteq watched[c] /\ FamilyWatched(c) \subseteq watched[c]
          /\ \A t \in Kids(c) : TaskKey(t) \in watched[c]
      BY <1>1, <1>2, <2>3 DEF Knows, Watches
    <3>1. \A t \in DOMAIN k.at : copy.task[t] = seen[c].task[t] /\ seen[c].task[t] # None
      BY <1>1, <1>2, <1>4, <3>0 DEF Checked, Reads
    <3>2. /\ Parents(c)' = Parents(c) /\ Families(c)' = Families(c)
          /\ FamilyWatched(c)' = FamilyWatched(c)
          /\ (OfFamily(c)' <=> OfFamily(c)) /\ (Deletes(c)' <=> Deletes(c))
          /\ FirstWatched(call[c])' = FirstWatched(call[c])
      BY <1>7, <3>1, SameParents
    <3>3. Kids(c)' = Kids(c)
      BY <1>4, <1>7, <3>2 DEF Kids
    <3>4. Watches(c)'
      BY <1>1, <1>7, <3>0, <3>2, <3>3 DEF Watches, TaskKey
    <3>5. Current(c)'
      BY <1>4, <1>7, <2>0, <3>0 DEF Current, TaskKey, KidsKey, IndexKey, store
    <3>6. Absent(c)'
      BY <1>1, <1>2, <1>4, <1>7, <2>0, <3>0, <3>2 DEF Absent, Reads, Deletes, store, RecordKey
    <3>7. \A t \in TaskId : seen[c].task[t] # None => copy.task[t] = seen[c].task[t]
      BY <1>4, <3>0 DEF Current
    <3>8. \A t \in Kids(c) : copy.task[t] # None
      BY <1>4, <2>1, <3>1
    <3>9. \A q \in Parents(c) :
            /\ copy.task[q] # None
            /\ k.op = "status" => copy.task[q].status # "CANCELLED"
      <4>1. \A q \in Parents(c) :
              /\ seen[c].task[q] # None
              /\ k.op = "status" => seen[c].task[q].status # "CANCELLED"
        BY <1>1, <1>2, <3>0 DEF Checked
      <4>2. Parents(c) \subseteq TaskId
        <5>1. \A t \in DOMAIN k.at : seen[c].task[t] \in Store!TaskRecord
          BY <1>1, <1>2, <3>1, ClientFacts DEF Copy
        <5> QED
          BY <5>1 DEF Parents, Store!TaskRecord
      <4> QED
        BY <3>7, <4>1, <4>2
    <3>10. /\ Accepted(call[c], seen[c])' <=> Accepted(k, copy)
           /\ Unlisted(c, seen[c])' <=> Unlisted(c, copy)
      BY <1>7, SameVerdict
    <3>11. Checked(c)'
      BY <1>1, <1>2, <1>4, <1>7, <2>1, <3>0, <3>1, <3>2, <3>3, <3>8, <3>9, <3>10
         DEF Checked, Reads, Deletes
    <3> QED
      BY <3>4, <3>5, <3>6, <3>11
  <2> QED
    BY <1>1, <1>7, <2>2, <2>3 DEF Knows
<1> QED
  BY <1>3, <1>5, <1>6, <1>7, ProceedKeeps

LEMMA ExecFailsIInv ==
    ASSUME IInv, UNCHANGED allowed, NEW c \in Client, ExecFails(c)
    PROVE  IInv'
<1>1. pc[c] = "exec" /\ call[c] \in allowed /\ UNCHANGED store
  BY ClientFacts DEF ExecFails
<1>2. CASE attempt[c] + 1 >= Retries /\ Answer(c, "concurrent")
  BY <1>1, <1>2, AnswerKeeps DEF Reply
<1>3. CASE /\ attempt[c] + 1 < Retries
           /\ attempt' = [attempt EXCEPT ![c] = @ + 1]
           /\ pc' = [pc EXCEPT ![c] = "watch"]
           /\ Unwatch(c)
           /\ UNCHANGED <<call, reply>>
  <2> USE <1>3 DEF Unwatch
  <2>1. Nothing \in Copy
    BY DEF Nothing, Copy
  <2>2. attempt[c] + 1 \in 0..Retries - 1
    BY TxnAssumption DEF IInv, TxnType
  <2>3. TxnType'
    BY <2>1, <2>2 DEF IInv, TxnType, PC
  <2>4. /\ pc'[c] = "watch" /\ call'[c] = call[c] /\ watched'[c] = {} /\ ~dirty'[c]
        /\ seen'[c] = Nothing
    BY DEF IInv, TxnType
  <2>5. ClientOK(c)' /\ Knows(c)'
    BY <1>1, <2>4 DEF ClientOK, Knows, Watches, Current, Absent, Checked, Reads, Nothing
  <2>6. \A d \in Client \ {c} :
          /\ pc'[d] = pc[d] /\ call'[d] = call[d] /\ watched'[d] = watched[d]
          /\ dirty'[d] = dirty[d] /\ seen'[d] = seen[d]
    BY DEF IInv, TxnType
  <2> QED
    BY <1>1, <2>3, <2>4, <2>5, <2>6, StepKeeps
<1> QED
  BY <1>2, <1>3 DEF ExecFails

LEMMA AbandonIInv ==
    ASSUME IInv, UNCHANGED allowed, NEW c \in Client, Abandon(c)
    PROVE  IInv'
BY AnswerKeeps DEF Abandon

-----------------------------------------------------------------------------
(* EXEC: what it leaves to the others.                                     *)

\* A client that has not lost watches none of the keys that were written.
LEMMA ExecOthers ==
    ASSUME IInv, UNCHANGED allowed, NEW c \in Client, Exec(c), NEW d \in Client \ {c}
    PROVE  ClientOK(d)' /\ Knows(d)'
<1> DEFINE k == call[c]
           W == DOMAIN NewTasks(k, seen[c])
           touched == Touched(k, W)
<1>1. /\ pc'[d] = pc[d] /\ call'[d] = call[d] /\ watched'[d] = watched[d] /\ seen'[d] = seen[d]
      /\ dirty'[d] = (dirty[d] \/ watched[d] \cap touched # {})
      /\ allowed' = allowed
  BY DEF Exec, IInv, TxnType
<1>2. /\ \A t \in TaskId : task'[t] = task[t] \/ t \in W
      /\ \A q \in TaskId : children'[q] = NewChildren(k, q)
      /\ userIndex' = NewIndex(k)
      /\ k.key = None => recorded' = recorded
      /\ \A ik \in Store!IdemKey : recorded'[ik] = recorded[ik] \/ (k.key # None /\ ik = RecordKey(k))
  BY DEF Exec, IInv, RecordInv
<1>3. ClientOK(d) /\ Knows(d)
  BY DEF IInv
<1>4. ClientOK(d)'
  BY <1>1, <1>3 DEF ClientOK, Reads, Nothing
<1>5. ASSUME ~dirty'[d], pc[d] # "idle"
      PROVE  Knows(d)'
  <2>0. ~dirty[d] /\ watched[d] \cap touched = {}
    BY <1>1, <1>5
  <2>1. \A t \in TaskId : TaskKey(t) \in watched[d] => task'[t] = task[t]
    BY <1>2, <2>0 DEF Touched
  <2>2. \A q \in TaskId : KidsKey(q) \in watched[d] => children'[q] = children[q]
    BY <1>2, <2>0 DEF Touched
  <2>3. IndexKey \in watched[d] => userIndex' = userIndex
    BY <1>2, <2>0 DEF Touched
  <2>4. \A ik \in Store!IdemKey : ik \in watched[d] => recorded'[ik] = recorded[ik]
    BY <1>2, <2>0 DEF Touched, Record
  <2>5. Watches(d) /\ Current(d) /\ Absent(d) /\ Checked(d)
    BY <1>3, <1>5, <2>0 DEF Knows
  <2>6. IsCall(call[d]) /\ (call[d].key # None => RecordKey(call[d]) \in Store!IdemKey)
    BY <1>5, ClientFacts
  <2>7. Watches(d)'
    BY <1>1, <2>5, SameFamily DEF Watches, TaskKey
  <2>8. Current(d)'
    BY <1>1, <2>1, <2>2, <2>3, <2>5 DEF Current, TaskKey, KidsKey, IndexKey
  <2>9. Checked(d)'
    BY <1>1, <2>5, SameFamily, SameVerdict DEF Checked, Reads
  <2>10. Absent(d)'
    <3> DEFINE j == call[d]
    <3>1. pc[d] \in Reads(j.op) => FirstWatched(j) \subseteq watched[d]
      BY <1>5, <2>5 DEF Watches, Reads
    <3>2. pc[d] \in Reads(j.op) /\ j.key # None => recorded'[RecordKey(j)] = None
      <4>1. j.key # None => RecordKey(j) \in FirstWatched(j)
        BY DEF FirstWatched, Record
      <4> QED
        BY <2>4, <2>5, <2>6, <3>1, <4>1 DEF Absent
    <3>3. j.op = "create" /\ pc[d] = "exec" => task'[j.id] = None
      <4>1. j.op = "create" => j.id \in TaskId /\ TaskKey(j.id) \in FirstWatched(j)
        BY <2>6, CallFacts DEF FirstWatched
      <4> QED
        BY <2>1, <2>5, <3>1, <4>1 DEF Absent, Reads
    <3>4. j.op = "batch" /\ pc[d] \in {"index", "watch_kids", "kids", "exec"} =>
            \A t \in DOMAIN j.plan : task'[t] = None
      <4>1. j.op = "batch" => \A t \in DOMAIN j.plan : t \in TaskId /\ TaskKey(t) \in FirstWatched(j)
        BY <2>6, CallFacts DEF FirstWatched
      <4> QED
        BY <2>1, <2>5, <3>1, <4>1 DEF Absent, Reads
    <3>5. Deletes(d) /\ pc[d] \in Reads(j.op) \ {"target", "member", "leaf"} =>
            \A t \in DOMAIN j.at : children'[t] = {}
      <4>1. Deletes(d) => \A t \in DOMAIN j.at : t \in TaskId /\ KidsKey(t) \in FirstWatched(j)
        BY <2>6, CallFacts DEF FirstWatched, Deletes
      <4> QED
        BY <2>2, <2>5, <3>1, <4>1 DEF Absent
    <3>6. OfFamily(d) /\ pc[d] \in {"watch_kids", "kids", "exec"} =>
            \A q \in Families(d) : seen[d].children[q] = children'[q]
      <4>1. ASSUME OfFamily(d), pc[d] \in {"watch_kids", "kids", "exec"}
            PROVE  \A q \in Families(d) : KidsKey(q) \in watched[d] /\ q \in TaskId
        <5>1. \A q \in Families(d) : KidsKey(q) \in watched[d]
          BY <2>5, <4>1 DEF Watches, FamilyWatched
        <5>2. \A t \in DOMAIN j.at : t \in TaskId /\ seen[d].task[t] \in Store!TaskRecord
          BY <1>5, <2>5, <2>6, <4>1, ClientFacts, CallFacts DEF Checked, Reads, OfFamily, Copy
        <5>3. Families(d) \subseteq TaskId
          BY <5>2 DEF Families, Parents, Store!TaskRecord
        <5> QED
          BY <5>1, <5>3
      <4> QED
        BY <2>2, <2>5, <4>1 DEF Absent
    <3> HIDE DEF j
    <3>7. call'[d] = j /\ pc'[d] = pc[d] /\ seen'[d] = seen[d]
      BY <1>1 DEF j
    <3>8. (Deletes(d)' <=> Deletes(d)) /\ (OfFamily(d)' <=> OfFamily(d))
          /\ Families(d)' = Families(d)
      BY <1>1, SameFamily
    <3> QED
      BY <3>2, <3>3, <3>4, <3>5, <3>6, <3>7, <3>8 DEF Absent, Reads, RecordKey
  <2> QED
    BY <2>7, <2>8, <2>9, <2>10 DEF Knows
<1> QED
  BY <1>1, <1>4, <1>5 DEF Knows

\* The types and the records after EXEC.
LEMMA ExecRecords ==
    ASSUME IInv, UNCHANGED allowed, NEW c \in Client, Exec(c)
    PROVE  TxnType' /\ RecordInv' /\ ClientOK(c)' /\ Knows(c)'
<1> DEFINE k == call[c]
<1>1. k \in allowed /\ (k.key # None => RecordKey(k) \in Store!IdemKey) /\ pc[c] = "exec"
  BY ClientFacts DEF Exec
<1>2. Nothing \in Copy /\ 0 \in 0..Retries - 1
  BY TxnAssumption DEF Nothing, Copy
<1>3. TxnType'
  <2>1. dirty' \in [Client -> BOOLEAN]
    <3>1. \A d \in Client : (d # c /\ (dirty[d] \/ watched[d] \cap
             Touched(k, DOMAIN NewTasks(k, seen[c])) # {})) \in BOOLEAN
      BY DEF IInv, TxnType
    <3> QED
      BY <3>1 DEF Exec
  <2>2. /\ allowed' = allowed
        /\ pc' = [pc EXCEPT ![c] = "idle"] /\ reply' = [reply EXCEPT ![c] = "ok"]
        /\ call' = [call EXCEPT ![c] = None] /\ attempt' = [attempt EXCEPT ![c] = 0]
        /\ watched' = [watched EXCEPT ![c] = {}] /\ seen' = [seen EXCEPT ![c] = Nothing]
    BY DEF Exec
  <2> QED
    BY <1>2, <2>1, <2>2 DEF IInv, TxnType, PC, Reply
<1>4. /\ pc'[c] = "idle" /\ call'[c] = None /\ watched'[c] = {} /\ ~dirty'[c] /\ seen'[c] = Nothing
      /\ \A d \in Client \ {c} : pc'[d] = pc[d] /\ call'[d] = call[d]
  BY DEF Exec, IInv, TxnType
<1>5. ClientOK(c)' /\ Knows(c)'
  BY <1>4 DEF ClientOK, Knows, Nothing
<1>6. RecordInv'
  <2>1. allowed' = allowed /\ Store!IdemKey' = Store!IdemKey
    BY DEF Store!IdemKey, Store!Kind
  <2>2. /\ recorded' \in [Store!IdemKey -> allowed \cup {None}]
        /\ \A ik \in Store!IdemKey :
             recorded'[ik] = recorded[ik] \/ (recorded'[ik] = k /\ ik = RecordKey(k))
    BY <1>1 DEF Exec, IInv, RecordInv
  <2>3. \A ik \in Store!IdemKey : recorded'[ik] # None => RecordKey(recorded[ik])' = ik
    BY <2>2 DEF IInv, RecordInv, RecordKey
  <2>4. ASSUME NEW d \in Client, pc'[d] # "idle", call'[d].op = "create"
        PROVE  /\ \A e \in Client : pc'[e] # "idle" /\ call'[e].op = "create"
                    /\ call'[e].id = call'[d].id => e = d
               /\ \A ik \in Store!IdemKey : recorded'[ik] # None /\ ik[1] = "create" =>
                    recorded'[ik].id # call'[d].id
    <3>1. d # c /\ pc[d] # "idle" /\ call'[d] = call[d] /\ call[d].op = "create"
      BY <1>4, <2>4
    <3>2. k.op = "create" => k.id # call[d].id
      BY <1>1, <3>1 DEF IInv, RecordInv
    <3>3. RecordKey(k)[1] = k.op
      BY DEF RecordKey
    <3> QED
      BY <1>4, <2>2, <3>1, <3>2, <3>3 DEF IInv, RecordInv
  <2> QED
    BY <2>1, <2>2, <2>3, <2>4 DEF RecordInv
<1> QED
  BY <1>3, <1>5, <1>6

-----------------------------------------------------------------------------
(* EXEC is a step of the store.                                            *)

\* The tasks the recorded calls wrote, as TaskStore keeps them.
Effects == [ik \in DOMAIN recorded |->
              IF recorded[ik] = None THEN {} ELSE Written(recorded[ik])]

\* What a client knows when it commits.
LEMMA ExecKnows ==
    ASSUME IInv, NEW c \in Client, pc[c] = "exec", ~dirty[c]
    PROVE  /\ IsCall(call[c]) /\ call[c] \in allowed /\ call[c] # None
           /\ Current(c) /\ Absent(c) /\ Checked(c)
           /\ Facts!IInv /\ seen[c] \in Copy
           /\ call[c].key # None =>
                recorded[RecordKey(call[c])] = None /\ RecordKey(call[c]) \in Store!IdemKey
BY ClientFacts DEF IInv, Knows, Absent, Reads

\* The call is the first with its key, and is recorded as such.
LEMMA ExecRecorded ==
    ASSUME IInv, NEW c \in Client, Exec(c)
    PROVE  /\ Store!Unrecorded(call[c].op, call[c].key)
           /\ Effects' = Store!Recorded(call[c].op, call[c].key, Written(call[c]))
<1> DEFINE k == call[c]
<1>1. /\ k # None /\ DOMAIN recorded = Store!IdemKey
      /\ k.key # None => recorded[RecordKey(k)] = None /\ RecordKey(k) \in Store!IdemKey
  BY ExecKnows DEF Exec, IInv, RecordInv
<1>2. Store!Unrecorded(k.op, k.key)
  BY <1>1 DEF Store!Unrecorded, RecordKey
<1>3. CASE k.key = None
  BY <1>2, <1>3 DEF Exec, Effects, Store!Recorded, Written
<1>4. CASE k.key # None
  <2>1. recorded' = [recorded EXCEPT ![RecordKey(k)] = k]
    BY <1>4 DEF Exec
  <2>2. Effects' = [ik \in DOMAIN recorded' |->
                      IF recorded'[ik] = None THEN {} ELSE Written(recorded'[ik])]
    BY DEF Effects, Written
  <2>3. Effects' = [Effects EXCEPT ![RecordKey(k)] = Written(k)]
    BY <1>1, <1>4, <2>1, <2>2, Zenon DEF Effects
  <2> QED
    BY <1>2, <1>4, <2>3, Zenon DEF Store!Recorded, Effects, RecordKey
<1> QED
  BY <1>2, <1>3, <1>4

\* A recorded call: a call of that kind and with that key.
LEMMA RecordedCall ==
    ASSUME IInv, NEW ik \in Store!IdemKey, recorded[ik] # None
    PROVE  /\ recorded[ik] \in allowed /\ IsCall(recorded[ik])
           /\ RecordKey(recorded[ik]) = ik /\ recorded[ik].op = ik[1]
           /\ Effects[ik] = Written(recorded[ik])
<1>1. /\ recorded[ik] \in allowed /\ RecordKey(recorded[ik]) = ik
      /\ allowed \in Calls /\ DOMAIN recorded = Store!IdemKey
  BY DEF IInv, RecordInv, TxnType
<1>2. IsCall(recorded[ik])
  BY <1>1, TxnAssumption
<1>3. recorded[ik].op = ik[1]
  BY <1>1 DEF RecordKey
<1>4. Effects[ik] = Written(recorded[ik])
  BY <1>1 DEF Effects
<1> QED
  BY <1>1, <1>2, <1>3, <1>4

\* The ids of a create or of a batch have been written by no call.
LEMMA ExecFresh ==
    ASSUME IInv, NEW c \in Client, pc[c] = "exec", ~dirty[c],
           call[c].op \in {"create", "batch"}, NEW t \in Written(call[c])
    PROVE  Store!Fresh(t)
<1> DEFINE k == call[c]
<1>1. /\ k \in allowed /\ IsCall(k) /\ k.key # None
      /\ recorded[RecordKey(k)] = None /\ allowed \in Calls
  BY ExecKnows, CallFacts DEF IInv, TxnType
<1>2. OwnIds(allowed)
  BY <1>1, TxnAssumption
<1>3. ASSUME NEW ik \in Store!IdemKey, ik[1] \in {"create", "batch"}, recorded[ik] # None
      PROVE  t \notin Written(recorded[ik])
  <2> DEFINE r == recorded[ik]
  <2>1. r \in allowed /\ IsCall(r) /\ RecordKey(r) = ik /\ r.op = ik[1]
    BY <1>3, RecordedCall
  <2>2. CASE k.op = "create" /\ r.op = "create"
    <3>1. r.id # k.id
      BY <1>3, <2>1, <2>2 DEF IInv, RecordInv
    <3> QED
      BY <2>2, <3>1 DEF Written
  <2>3. CASE k.op = "create" /\ r.op = "batch"
    BY <1>1, <1>2, <2>1, <2>3 DEF OwnIds, Written
  <2>4. CASE k.op = "batch" /\ r.op = "create"
    BY <1>1, <1>2, <2>1, <2>4 DEF OwnIds, Written
  <2>5. CASE k.op = "batch" /\ r.op = "batch"
    <3>1. r.key # k.key
      BY <1>1, <1>3, <2>1, <2>5 DEF RecordKey
    <3>2. DOMAIN r.plan \cap DOMAIN k.plan = {}
      BY <1>1, <1>2, <2>1, <2>5, <3>1 DEF OwnIds
    <3> QED
      BY <2>5, <3>2 DEF Written
  <2> QED
    BY <1>3, <2>1, <2>2, <2>3, <2>4, <2>5
<1>4. ASSUME NEW ik \in Store!IdemKey, ik[1] \in {"create", "batch"}
      PROVE  t \notin Effects[ik]
  BY <1>3, <1>4 DEF Effects, IInv, RecordInv
<1> QED
  BY <1>4 DEF Store!Fresh, Effects

LEMMA CreateCommits ==
    ASSUME IInv, NEW c \in Client, Exec(c), call[c].op = "create"
    PROVE  Store!Next
<1> DEFINE k == call[c]
<1>1. /\ k.id \in TaskId /\ k.key \in KeysOf["create"] /\ task[k.id] = None
      /\ children \in [TaskId -> SUBSET TaskId] /\ DOMAIN task = TaskId
  BY ExecKnows, CallFacts DEF Exec, Absent, Facts!IInv, Facts!TypeOK
<1>2. PICK t \in TaskId, key \in KeysOf["create"] : t = k.id /\ key = k.key
  BY <1>1
<1>3. Store!Fresh(t) /\ Store!Unrecorded("create", key)
  BY <1>2, ExecFresh, ExecRecorded DEF Exec, Written
<1>4. Effects' = Store!Recorded("create", key, {t})
  BY <1>2, ExecRecorded DEF Written
<1>5. task' = [task EXCEPT ![t] = Store!NewTask(None, {}, 0)]
  BY <1>1, <1>2 DEF Exec, NewTasks
<1>6. userIndex' = userIndex \cup {t} /\ children' = children
  BY <1>1, <1>2 DEF Exec, NewIndex, NewChildren, Written
<1>7. Store!Create(t, key)
  BY <1>1, <1>2, <1>3, <1>4, <1>5, <1>6 DEF Store!Create, Store!Live, Effects
<1> QED
  BY <1>7 DEF Store!Next

LEMMA UpdateCommits ==
    ASSUME IInv, NEW c \in Client, Exec(c), call[c].op = "update"
    PROVE  Store!Next
<1> DEFINE k == call[c]
<1>1. /\ k.key \in KeysOf["update"] \cup {None} /\ DOMAIN k.at \subseteq TaskId
      /\ \E t : DOMAIN k.at = {t}
      /\ children \in [TaskId -> SUBSET TaskId] /\ DOMAIN task = TaskId
  BY ExecKnows, CallFacts DEF Exec, Facts!IInv, Facts!TypeOK
<1>2. PICK t \in TaskId, key \in KeysOf["update"] \cup {None} : DOMAIN k.at = {t} /\ key = k.key
  BY <1>1
<1>3. seen[c].task[t] = task[t] /\ task[t] # None
  BY <1>2, ExecKnows DEF Exec, Current, Checked, Reads
<1>4. Effects' = Store!Recorded("update", key, {t}) /\ Store!Unrecorded("update", key)
  BY <1>2, ExecRecorded DEF Written
<1>5. DOMAIN NewTasks(k, seen[c]) = {t} /\ NewTasks(k, seen[c])[t] = Store!Bumped(task[t])
  BY <1>2, <1>3 DEF NewTasks
<1>6. task' = [task EXCEPT ![t] = Store!Bumped(@)]
  BY <1>1, <1>5 DEF Exec
<1>7. userIndex' = userIndex /\ children' = children
  BY <1>1 DEF Exec, NewIndex, NewChildren
<1>8. Store!Bumpable(t)
  BY <1>3, <1>5 DEF Exec, WithinBound, Store!Live
<1>9. Store!Update(t, key)
  BY <1>3, <1>4, <1>6, <1>7, <1>8 DEF Store!Update, Store!Live, Effects
<1> QED
  BY <1>9 DEF Store!Next

\* The roll-up and the decomposition look at the statuses of the children.
LEMMA SameRollUp ==
    ASSUME NEW f, NEW g, NEW kids, \A q \in kids : f[q].status = g[q].status, NEW parent
    PROVE  /\ Store!RollUp(parent, f, kids) = Store!RollUp(parent, g, kids)
           /\ Store!Decomposed(parent, f, kids) = Store!Decomposed(parent, g, kids)
<1>1. Store!Effective(f, kids) = Store!Effective(g, kids)
  BY DEF Store!Effective
<1>2. Store!DoneAmong(f, kids) = Store!DoneAmong(g, kids)
  BY DEF Store!DoneAmong
<1>3. Store!AllDone(f, kids) = Store!AllDone(g, kids)
  BY <1>1 DEF Store!AllDone, Store!Effective
<1>4. Store!Progress(f, kids) = Store!Progress(g, kids)
  BY <1>1, <1>2 DEF Store!Progress
<1> QED
  BY <1>3, <1>4 DEF Store!RollUp, Store!Decomposed

\* A copy of the children is rolled up like the children.
LEMMA SameAllDone ==
    ASSUME NEW copy, NEW kids, \A q \in kids : copy.task[q] = task[q]
    PROVE  Local(copy)!AllDone(copy.task, kids) = Store!AllDone(task, kids)
BY DEF Local!AllDone, Store!AllDone, Local!Effective, Store!Effective

\* At EXEC the copies of the targets, of their parents and of their siblings
\* are the tasks in the store.
LEMMA ExecCopies ==
    ASSUME IInv, NEW c \in Client, pc[c] = "exec", ~dirty[c], OfFamily(c)
    PROVE  /\ DOMAIN call[c].at \subseteq TaskId
           /\ \A t \in DOMAIN call[c].at : seen[c].task[t] = task[t] /\ task[t] # None
           /\ Parents(c) = Store!ParentsOf(DOMAIN call[c].at)
           /\ \A p \in Parents(c) :
                /\ p \in TaskId /\ seen[c].task[p] = task[p] /\ task[p] # None
                /\ call[c].op = "status" => task[p].status # "CANCELLED"
           /\ \A p \in Families(c) : p \in TaskId /\ seen[c].children[p] = children[p]
           /\ Kids(c) = UNION {children[p] : p \in Families(c)}
           /\ (Deletes(c) => Parents(c) # {}) =>
                /\ \A t \in Kids(c) : t \in TaskId /\ seen[c].task[t] = task[t] /\ task[t] # None
                /\ Accepted(call[c], seen[c])
                /\ ~Unlisted(c, seen[c])
<1> DEFINE k == call[c]
           copy == seen[c]
<1>1. /\ IsCall(k) /\ Current(c) /\ Absent(c) /\ Checked(c) /\ copy \in Copy
      /\ k.op \in {"batch", "status", "delete", "delete_batch"}
      /\ children \in [TaskId -> SUBSET TaskId]
  BY ExecKnows DEF OfFamily, Facts!IInv, Facts!TypeOK
<1>2. DOMAIN k.at \subseteq TaskId
  BY <1>1, CallFacts
<1>3. \A t \in DOMAIN k.at : copy.task[t] = task[t] /\ task[t] # None
  BY <1>1, <1>2 DEF Checked, Current, Reads
<1>4. Parents(c) = Store!ParentsOf(DOMAIN k.at)
  BY <1>3 DEF Parents, Store!ParentsOf
<1>5. Parents(c) \subseteq TaskId
  <2>1. \A t \in DOMAIN k.at : copy.task[t] \in Store!TaskRecord
    BY <1>1, <1>2, <1>3 DEF Copy
  <2> QED
    BY <2>1 DEF Parents, Store!TaskRecord
<1>6. \A p \in Parents(c) :
        /\ copy.task[p] = task[p] /\ task[p] # None
        /\ k.op = "status" => task[p].status # "CANCELLED"
  BY <1>1, <1>5 DEF Checked, Current
<1>7. Families(c) \subseteq TaskId
  BY <1>2, <1>5 DEF Families
<1>8. \A p \in Families(c) : copy.children[p] = children[p]
  BY <1>1 DEF Absent
<1>9. Kids(c) = UNION {children[p] : p \in Families(c)}
  BY <1>8 DEF Kids
<1>10. Kids(c) \subseteq TaskId
  BY <1>1, <1>7, <1>9
<1>11. ASSUME Deletes(c) => Parents(c) # {}
       PROVE  /\ \A t \in Kids(c) : copy.task[t] = task[t] /\ task[t] # None
              /\ Accepted(k, copy) /\ ~Unlisted(c, copy)
  <2>1. (\A t \in Kids(c) : copy.task[t] # None) /\ Accepted(k, copy) /\ ~Unlisted(c, copy)
    BY <1>1, <1>11 DEF Checked
  <2> QED
    BY <1>1, <1>10, <2>1 DEF Current
<1> HIDE DEF k, copy
<1>12. \A t \in Kids(c) : t \in TaskId
  BY <1>10
<1> QED
  BY <1>2, <1>3, <1>4, <1>5, <1>6, <1>7, <1>8, <1>9, <1>11, <1>12 DEF k, copy

LEMMA StatusCommits ==
    ASSUME IInv, NEW c \in Client, Exec(c), call[c].op = "status"
    PROVE  Store!Next
<1> DEFINE k == call[c]
           copy == seen[c]
<1>1. /\ k.key \in KeysOf["status"] \cup {None} /\ DOMAIN k.at \subseteq TaskId
      /\ \E t : DOMAIN k.at = {t}
      /\ k.target \in Store!Status /\ k.reopen \in BOOLEAN /\ k.restore \in BOOLEAN
      /\ children \in [TaskId -> SUBSET TaskId] /\ DOMAIN task = TaskId
      /\ copy \in Copy /\ OfFamily(c) /\ ~Deletes(c)
  BY ExecKnows, CallFacts DEF Exec, Facts!IInv, Facts!TypeOK, OfFamily, Deletes
<1>2. PICK t \in TaskId, key \in KeysOf["status"] \cup {None}, target \in Store!Status,
           reopen \in BOOLEAN, restore \in BOOLEAN :
             /\ DOMAIN k.at = {t} /\ key = k.key /\ target = k.target
             /\ reopen = k.reopen /\ restore = k.restore
  BY <1>1
<1> DEFINE parent == task[t].parent
           table == [task EXCEPT ![t] = Store!WithStatus(@, target)]
           new == NewTasks(k, copy)
<1>3. /\ copy.task[t] = task[t] /\ task[t] # None
      /\ Parents(c) = {parent} \ {None}
      /\ \A p \in Parents(c) : copy.task[p] = task[p] /\ task[p] # None /\ p \in TaskId
                               /\ task[p].status # "CANCELLED"
      /\ \A p \in Families(c) : p \in TaskId /\ copy.children[p] = children[p]
      /\ Kids(c) = UNION {children[p] : p \in Families(c)}
      /\ \A q \in Kids(c) : q \in TaskId /\ copy.task[q] = task[q] /\ task[q] # None
      /\ Accepted(k, copy) /\ ~Unlisted(c, copy)
  BY <1>1, <1>2, ExecCopies DEF Exec, Store!ParentsOf
<1>4. Families(c) = {IF parent = None THEN t ELSE parent}
  BY <1>1, <1>2, <1>3 DEF Families
<1>5. parent # t
  <2>1. None \notin TaskId
    BY TxnAssumption
  <2> QED
    BY <1>3, <2>1 DEF IInv, Facts!IInv, Facts!TreeIntact, Facts!Live
<1>6. Store!StatusAccepted(t, target, reopen, restore)
  <2> DEFINE kids == children[IF parent = None THEN t ELSE parent]
  <2>1. Local(copy)!StatusAccepted(t, target, reopen, restore)
    BY <1>1, <1>2, <1>3 DEF Accepted
  <2>2. /\ copy.children[IF parent = None THEN t ELSE parent] = kids
        /\ \A q \in kids : q \in TaskId /\ copy.task[q] = task[q] /\ task[q] # None
    BY <1>3, <1>4
  <2>3. Local(copy)!AllDone(copy.task, kids) = Store!AllDone(task, kids)
    BY <2>2, SameAllDone
  <2>4. Store!Transition(task[t].status, target, reopen, restore)
    BY <1>3, <2>1 DEF Local!StatusAccepted, Local!Transition, Store!Transition
  <2>5. parent # None => t \in kids
    BY <1>2, <1>3, <1>4, <2>2, <1>1 DEF Unlisted
  <2>6. parent = None /\ kids # {} => (target = "DONE" <=> Store!AllDone(task, kids))
    BY <1>3, <2>1, <2>2, <2>3 DEF Local!StatusAccepted
  <2>7. kids \subseteq Store!Live
    BY <2>2 DEF Store!Live
  <2>8. parent # None => parent \in Store!Live /\ task[parent].status # "CANCELLED"
    BY <1>3 DEF Store!Live
  <2> QED
    BY <2>4, <2>5, <2>6, <2>7, <2>8 DEF Store!StatusAccepted
<1>7. /\ DOMAIN new = {t} \cup Parents(c)
      /\ new[t] = Store!WithStatus(task[t], target)
      /\ parent # None => new[parent] = Store!RollUp(task[parent], table, children[parent])
  <2> DEFINE first == [u \in {t} |-> Store!WithStatus(copy.task[u], target)]
             rolled == [p \in Parents(c) |->
                          Store!RollUp(copy.task[p], Overlay(first, copy.task), copy.children[p])]
  <2>1. new = Overlay(first, rolled)
    BY <1>1, <1>2 DEF NewTasks, Parents
  <2>2. ASSUME parent # None
        PROVE  rolled[parent] = Store!RollUp(task[parent], table, children[parent])
    <3>1. /\ copy.task[parent] = task[parent] /\ copy.children[parent] = children[parent]
          /\ parent \in Parents(c)
      BY <1>3, <1>4, <2>2
    <3> DEFINE over == Overlay(first, copy.task)
    <3>2. \A q \in children[parent] : over[q].status = table[q].status
      BY <1>1, <1>3, <1>4, <2>2 DEF Overlay, Copy
    <3>3. rolled[parent] = Store!RollUp(task[parent], over, children[parent])
      BY <3>1
    <3> HIDE DEF over, table, parent
    <3>4. Store!RollUp(task[parent], over, children[parent])
            = Store!RollUp(task[parent], table, children[parent])
      BY <3>2, SameRollUp
    <3> QED
      BY <3>3, <3>4
  <2> QED
    BY <1>3, <1>5, <2>1, <2>2 DEF Overlay
<1>8. Store!Bumpable(t) /\ (parent # None => Store!Bumpable(parent))
  <2>1. WithinBound(k, DOMAIN new)
    BY DEF Exec
  <2> QED
    BY <1>1, <1>3, <1>7, <2>1 DEF WithinBound, Store!Live
<1>9. task' = IF parent = None THEN table
              ELSE [table EXCEPT ![parent] = Store!RollUp(@, table, children[parent])]
  <2>1. task' = [u \in TaskId |-> IF u \in DOMAIN new THEN new[u] ELSE task[u]]
    BY DEF Exec
  <2> HIDE DEF new
  <2>2. table[parent] = task[parent] /\ DOMAIN table = TaskId
    BY <1>1, <1>5
  <2>3. CASE parent = None
    BY <1>1, <1>3, <1>7, <2>1, <2>3
  <2>4. CASE parent # None
    BY <1>1, <1>3, <1>5, <1>7, <2>1, <2>2, <2>4
  <2> QED
    BY <2>3, <2>4
<1>10. userIndex' = userIndex /\ children' = children
  BY <1>1 DEF Exec, NewIndex, NewChildren
<1>11. Effects' = Store!Recorded("status", key, {t}) /\ Store!Unrecorded("status", key)
  BY <1>2, ExecRecorded DEF Written
<1>12. Store!UpdateStatus(t, target, reopen, restore, key)
  BY <1>3, <1>6, <1>8, <1>9, <1>10, <1>11 DEF Store!UpdateStatus, Store!Live, Effects
<1> QED
  BY <1>12 DEF Store!Next

LEMMA DeleteCommits ==
    ASSUME IInv, NEW c \in Client, Exec(c), call[c].op \in {"delete", "delete_batch"}
    PROVE  Store!Next
<1> DEFINE k == call[c]
           copy == seen[c]
<1>1. /\ k.key \in KeysOf[k.op] /\ DOMAIN k.at \subseteq TaskId /\ DOMAIN k.at # {}
      /\ k.op = "delete" => \E t : DOMAIN k.at = {t}
      /\ children \in [TaskId -> SUBSET TaskId] /\ DOMAIN task = TaskId
      /\ OfFamily(c) /\ Deletes(c)
  BY ExecKnows, CallFacts DEF Exec, Facts!IInv, Facts!TypeOK, OfFamily, Deletes
<1>2. PICK S \in SUBSET TaskId, kind \in {"delete", "delete_batch"} :
        S = DOMAIN k.at /\ kind = k.op
  BY <1>1
<1>3. PICK key \in KeysOf[kind] : key = k.key
  BY <1>1, <1>2
<1> DEFINE P == Store!ParentsOf(S)
           new == NewTasks(k, copy)
<1>4. /\ \A t \in S : copy.task[t] = task[t] /\ task[t] # None
      /\ Parents(c) = P /\ Families(c) = P
      /\ \A p \in P : copy.task[p] = task[p] /\ task[p] # None /\ p \in TaskId
                      /\ copy.children[p] = children[p]
      /\ Kids(c) = UNION {children[p] : p \in P}
      /\ P # {} =>
           /\ \A q \in Kids(c) : q \in TaskId /\ copy.task[q] = task[q] /\ task[q] # None
           /\ Accepted(k, copy) /\ ~Unlisted(c, copy)
  <2>1. Families(c) = Parents(c)
    BY <1>1 DEF Families, Deletes
  <2> QED
    BY <1>1, <1>2, <2>1, ExecCopies DEF Exec
<1>5. S \subseteq userIndex /\ \A t \in S : children[t] = {}
  BY <1>1, <1>2, ExecKnows DEF Exec, Checked, Current, Absent, Deletes, Reads
<1>6. \A p \in TaskId : children[p] = {t \in TaskId : task[t] # None /\ task[t].parent = p}
  BY DEF IInv, Facts!IInv, Facts!TreeIntact, Facts!Live
<1>7. Store!DeletionAccepted(S)
  <2>1. ASSUME NEW p \in P
        PROVE  /\ p \in Store!Live /\ children[p] \subseteq Store!Live
               /\ {t \in S : task[t].parent = p} \subseteq children[p]
               /\ \A q \in children[p] : task[q].parent = p /\ (q \notin S => task[q].deps \cap S = {})
    <3>1. Local(copy)!DeletionAccepted(S)
      BY <1>1, <1>2, <1>4, <2>1 DEF Accepted, Deletes
    <3>2. p \in Local(copy)!ParentsOf(S)
      BY <1>4, <2>1 DEF Store!ParentsOf, Local!ParentsOf
    <3>3. \A q \in children[p] : q \in TaskId /\ copy.task[q] = task[q] /\ task[q] # None
      BY <1>4, <2>1
    <3>4. \A q \in children[p] : q \notin S => task[q].deps \cap S = {}
      BY <1>4, <2>1, <3>1, <3>2, <3>3 DEF Local!DeletionAccepted
    <3> QED
      BY <1>4, <1>6, <2>1, <3>3, <3>4 DEF Store!Live
  <2> QED
    BY <1>5, <2>1 DEF Store!DeletionAccepted
<1>8. P \cap S = {}
  <2>1. \A t \in S : task[t].parent \in TaskId => t \in children[task[t].parent]
    BY <1>4, <1>6
  <2> QED
    BY <1>4, <1>5, <2>1 DEF Store!ParentsOf
<1>9. /\ DOMAIN new = S \cup P
      /\ \A t \in S : new[t] = None
      /\ \A p \in P : new[p] = Store!RollUp(task[p], task, children[p] \ S)
  <2> DEFINE gone == [t \in S |-> None]
             rolled == [p \in P |->
                          Store!RollUp(copy.task[p], copy.task, copy.children[p] \ S)]
  <2>1. P = {copy.task[t].parent : t \in S} \ {None}
    BY <1>4 DEF Store!ParentsOf
  <2>2. new = Overlay(gone, rolled)
    <3>1. k.op \notin {"create", "batch", "update", "status"}
      BY <1>1 DEF Deletes
    <3> QED
      BY <1>2, <2>1, <3>1 DEF NewTasks
  <2>3. ASSUME NEW p \in P
        PROVE  rolled[p] = Store!RollUp(task[p], task, children[p] \ S)
    <3> DEFINE table == copy.task
               kids == children[p] \ S
    <3>1. rolled[p] = Store!RollUp(task[p], table, kids)
      BY <1>4, <2>3
    <3>2. \A q \in kids : table[q].status = task[q].status
      BY <1>4, <2>3
    <3> HIDE DEF table, kids
    <3>3. Store!RollUp(task[p], table, kids) = Store!RollUp(task[p], task, kids)
      BY <3>2, SameRollUp
    <3> QED
      BY <3>1, <3>3 DEF kids
  <2> QED
    BY <1>8, <2>2, <2>3 DEF Overlay
<1>10. \A p \in P : Store!Bumpable(p)
  BY <1>2, <1>4, <1>8, <1>9 DEF Exec, WithinBound, Store!Live
<1>11. task' = [t \in TaskId |->
                  IF t \in S THEN None
                  ELSE IF t \in P THEN Store!RollUp(task[t], task, children[t] \ S)
                  ELSE task[t]]
  <2>1. task' = [t \in TaskId |-> IF t \in DOMAIN new THEN new[t] ELSE task[t]]
    BY DEF Exec
  <2> HIDE DEF new, P
  <2> QED
    BY <1>9, <2>1
<1>12. userIndex' = userIndex \ S
  BY <1>1, <1>2 DEF Exec, NewIndex, Written, Deletes
<1>13. children' = [t \in TaskId |->
                      IF t \in S THEN {} ELSE IF t \in P THEN children[t] \ S ELSE children[t]]
  <2>0. None \notin TaskId
    BY TxnAssumption
  <2>1. \A t \in TaskId : t \notin P => children[t] \ S = children[t]
    BY <1>6, <2>0 DEF Store!ParentsOf
  <2>2. \A t \in TaskId : NewChildren(k, t) = IF t \in S THEN {} ELSE children[t] \ S
    BY <1>1, <1>2 DEF NewChildren, Deletes
  <2>3. children' = [t \in TaskId |-> NewChildren(k, t)]
    BY DEF Exec
  <2> HIDE DEF P
  <2> QED
    BY <2>1, <2>2, <2>3
<1>14. Effects' = Store!Recorded(kind, key, S) /\ Store!Unrecorded(kind, key)
  BY <1>1, <1>2, <1>3, ExecRecorded DEF Written, Deletes
<1>15. IF kind = "delete" THEN Store!Cardinality(S) = 1 ELSE S # {}
  <2>1. kind = "delete" => Cardinality(S) = 1
    BY <1>1, <1>2, FS_Singleton
  <2> QED
    BY <1>1, <1>2, <2>1, SameFinite
<1>16. Store!Delete(S, kind, key)
  <2>1. S \subseteq Store!Live
    BY <1>4 DEF Store!Live
  <2> QED
    BY <1>7, <1>10, <1>11, <1>12, <1>13, <1>14, <1>15, <2>1 DEF Store!Delete, Effects
<1> QED
  BY <1>16 DEF Store!Next

\* A finite set of natural numbers that is not empty has a largest element: a
\* smallest set without one would have it after losing an element.
LEMMA GreatestNumber ==
    ASSUME NEW N \in SUBSET Nat, IsFiniteSet(N), N # {}
    PROVE  \E n \in N : \A m \in N : m <= n
<1> DEFINE Greatest(M) == \E n \in M : \A m \in M : m <= n
           Wrong == {n \in Nat : \E M \in SUBSET N :
                       M # {} /\ Cardinality(M) = n /\ ~Greatest(M)}
           R == {p \in Nat \X Nat : p[1] < p[2]}
<1>1. SUFFICES ASSUME ~Greatest(N)
               PROVE  FALSE
  OBVIOUS
<1>2. Cardinality(N) \in Wrong
  BY <1>1, FS_CardinalityType
<1>3. PICK n \in Wrong : \A m \in Wrong : <<m, n>> \notin R
  <2>1. IsWellFoundedOn(R, Nat)
    BY NatLessThanWellFounded DEF OpToRel
  <2>2. Wrong \subseteq Nat /\ Wrong # {}
    BY <1>2
  <2> HIDE DEF R, Wrong
  <2> QED
    BY <2>1, <2>2, WFMin
<1>4. PICK M \in SUBSET N : M # {} /\ Cardinality(M) = n /\ ~Greatest(M)
  OBVIOUS
<1>5. PICK x : x \in M
  BY <1>4
<1> DEFINE rest == M \ {x}
<1>6. IsFiniteSet(M) /\ IsFiniteSet(rest) /\ Cardinality(rest) = n - 1 /\ n - 1 \in Nat
  <2>1. IsFiniteSet(M)
    BY FS_Subset
  <2>2. IsFiniteSet(rest) /\ Cardinality(rest) = n - 1
    BY <1>4, <1>5, <2>1, FS_RemoveElement
  <2> QED
    BY <2>1, <2>2, FS_CardinalityType
<1>7. n - 1 \notin Wrong
  <2>1. n \in Nat
    OBVIOUS
  <2>2. <<n - 1, n>> \in R
    BY <1>6, <2>1
  <2> HIDE DEF R, Wrong, rest
  <2> QED
    BY <1>3, <2>2
<1>8. CASE rest = {}
  BY <1>4, <1>5, <1>8
<1>9. CASE rest # {}
  <2>1. PICK y \in rest : \A m \in rest : m <= y
    BY <1>6, <1>7, <1>9
  <2>2. x \in Nat /\ y \in Nat /\ M \subseteq Nat /\ M = rest \cup {x}
    BY <1>5, <2>1
  <2>3. Greatest(M)
    <3> HIDE DEF rest
    <3>1. CASE x <= y
      BY <2>1, <2>2, <3>1
    <3>2. CASE y < x
      BY <2>1, <2>2, <3>2
    <3> QED
      BY <2>2, <3>1, <3>2
  <2> QED
    BY <1>4, <2>3
<1> QED
  BY <1>8, <1>9

\* The orders of finitely many tasks, with 0, have a largest one.
LEMMA GreatestOrder ==
    ASSUME NEW kids, IsFiniteSet(kids), NEW table, \A q \in kids : table[q].order \in Nat
    PROVE  LET orders == {table[q].order : q \in kids} \cup {0} IN
           \E n \in orders : \A m \in orders : m <= n
<1> DEFINE used == {table[q].order : q \in kids}
           f == [q \in kids |-> table[q].order]
           orders == used \cup {0}
<1>1. f \in Surjection(kids, used)
  BY DEF Surjection
<1>2. IsFiniteSet(used)
  <2> HIDE DEF f, used
  <2> QED
    BY <1>1, FS_Surjection
<1>3. IsFiniteSet(orders)
  <2> HIDE DEF used
  <2> QED
    BY <1>2, FS_AddElement
<1>4. orders \in SUBSET Nat /\ orders # {}
  OBVIOUS
<1> HIDE DEF orders
<1>5. \E n \in orders : \A m \in orders : m <= n
  BY <1>3, <1>4, GreatestNumber
<1> QED
  BY <1>5 DEF orders

LEMMA BatchCommits ==
    ASSUME IInv, NEW c \in Client, Exec(c), call[c].op = "batch"
    PROVE  Store!Next
<1> DEFINE k == call[c]
           copy == seen[c]
<1>1. /\ k.key \in KeysOf["batch"] /\ DOMAIN k.at \subseteq TaskId
      /\ \E t : DOMAIN k.at = {t}
      /\ DOMAIN k.plan \subseteq TaskId /\ k.plan \in Store!Plan(DOMAIN k.plan)
      /\ IsFiniteSet(DOMAIN k.plan) /\ Cardinality(DOMAIN k.plan) \in 1..MaxItems
      /\ children \in [TaskId -> SUBSET TaskId] /\ DOMAIN task = TaskId
      /\ copy \in Copy /\ OfFamily(c) /\ ~Deletes(c) /\ Absent(c) /\ Checked(c)
  BY ExecKnows, CallFacts DEF Exec, Facts!IInv, Facts!TypeOK, OfFamily, Deletes
<1>2. PICK root \in TaskId, key \in KeysOf["batch"], S \in SUBSET TaskId,
           plan \in Store!Plan(DOMAIN k.plan) :
             DOMAIN k.at = {root} /\ key = k.key /\ S = DOMAIN k.plan /\ plan = k.plan
  BY <1>1
<1> DEFINE new == NewTasks(k, copy)
           kids == children[root]
           orders == {task[q].order : q \in kids} \cup {0}
<1>3. /\ copy.task[root] = task[root] /\ task[root] # None
      /\ task[root].parent = None /\ task[root].status # "CANCELLED"
      /\ Parents(c) = {} /\ Families(c) = {root} /\ Kids(c) = kids
      /\ copy.children[root] = kids
      /\ \A q \in kids : q \in TaskId /\ copy.task[q] = task[q] /\ task[q] # None
      /\ Accepted(k, copy)
  <2>1. /\ copy.task[root] = task[root] /\ task[root] # None
        /\ copy.task[root].parent = None /\ copy.task[root].status # "CANCELLED"
        /\ Parents(c) = Store!ParentsOf({root})
    BY <1>1, <1>2, ExecCopies DEF Exec, Checked, Reads
  <2>2. Parents(c) = {}
    BY <2>1 DEF Store!ParentsOf
  <2>3. Families(c) = {root}
    BY <1>1, <1>2, <2>2 DEF Families, Deletes
  <2>4. copy.children[root] = kids /\ Kids(c) = UNION {children[p] : p \in {root}}
    BY <1>1, <2>3, ExecCopies DEF Exec
  <2>5. Kids(c) = kids
    BY <2>4
  <2>6. Accepted(k, copy) /\ \A q \in Kids(c) : q \in TaskId /\ copy.task[q] = task[q] /\ task[q] # None
    BY <1>1, ExecCopies DEF Exec
  <2> HIDE DEF kids, copy, k
  <2> QED
    BY <2>1, <2>2, <2>3, <2>4, <2>5, <2>6
<1>4. \A t \in S : task[t] = None /\ Store!Fresh(t)
  <2>1. \A t \in S : task[t] = None
    BY <1>1, <1>2 DEF Exec, Absent
  <2>2. \A t \in S : Store!Fresh(t)
    BY <1>2, ExecFresh DEF Exec, Written
  <2> QED
    BY <2>1, <2>2
<1>5. root \notin S /\ kids \cap S = {}
  BY <1>3, <1>4
<1>6. Store!PlanAccepted(plan)
  <2>1. Local(copy)!PlanAccepted(plan)
    BY <1>2, <1>3 DEF Accepted
  <2>2. S \cap Store!Live = {} /\ DOMAIN plan = S
    BY <1>2, <1>4 DEF Store!Live
  <2> QED
    BY <2>1, <2>2 DEF Local!PlanAccepted, Store!PlanAccepted
<1>7. PICK offset \in orders : \A m \in orders : m <= offset
  <2>1. IsFiniteSet(kids)
    BY SameFinite DEF IInv, Facts!IInv, Facts!FiniteFamilies
  <2>2. \A q \in kids : task[q].order \in Nat
    <3>1. \A q \in kids : task[q] \in Store!TaskRecord
      BY <1>3, SameRecords DEF IInv, Facts!IInv, Facts!TypeOK
    <3> QED
      BY <3>1 DEF Store!TaskRecord
  <2> QED
    BY <2>1, <2>2, GreatestOrder
<1>8. offset = CHOOSE n \in orders : \A m \in orders : m <= n
  <2>1. orders \subseteq Nat
    <3>1. \A q \in kids : task[q] \in Store!TaskRecord
      BY <1>3, SameRecords DEF IInv, Facts!IInv, Facts!TypeOK
    <3> QED
      BY <3>1 DEF Store!TaskRecord
  <2> HIDE DEF orders
  <2>2. \A n \in orders : (\A m \in orders : m <= n) => n = offset
    BY <1>7, <2>1
  <2> QED
    BY <1>7, <2>2
<1> DEFINE table == [t \in TaskId |->
                       IF t \in S THEN Store!NewTask(root, plan[t].deps, offset + plan[t].order)
                                  ELSE task[t]]
<1>9. /\ DOMAIN new = S \cup {root}
      /\ \A t \in S : new[t] = Store!NewTask(root, plan[t].deps, offset + plan[t].order)
      /\ new[root] = Store!Decomposed(task[root], table, kids \cup S)
  <2> DEFINE first == [t \in S |-> Store!NewTask(root, plan[t].deps, offset + plan[t].order)]
             over == Overlay(first, copy.task)
             rolled == [p \in {root} |->
                          Store!Decomposed(copy.task[p], over, copy.children[p] \cup S)]
  <2>1. new = Overlay(first, rolled)
    <3> DEFINE parent == CHOOSE t \in DOMAIN k.at : TRUE
               present == {copy.task[t].order : t \in copy.children[parent]} \cup {0}
               last == CHOOSE n \in present : \A m \in present : m <= n
               added == [t \in DOMAIN k.plan |->
                           Store!NewTask(parent, k.plan[t].deps, last + k.plan[t].order)]
    <3>1. new = Overlay(added, [p \in DOMAIN k.at |->
                  Store!Decomposed(copy.task[p], Overlay(added, copy.task),
                                   copy.children[p] \cup DOMAIN k.plan)])
      BY DEF NewTasks
    <3>2. parent = root
      BY <1>2
    <3> HIDE DEF parent
    <3>3. present = orders
      BY <1>3, <3>2
    <3> HIDE DEF present, orders
    <3>4. last = offset
      BY <1>8, <3>3
    <3> HIDE DEF last
    <3>5. added = first
      BY <1>2, <3>2, <3>4
    <3> HIDE DEF added, first, new
    <3> QED
      BY <1>2, <3>1, <3>5
  <2>2. Store!Decomposed(task[root], over, kids \cup S)
          = Store!Decomposed(task[root], table, kids \cup S)
    <3>1. \A q \in kids \cup S : over[q].status = table[q].status
      BY <1>1, <1>3, <1>5 DEF Overlay, Copy
    <3> HIDE DEF over, table, kids
    <3> QED
      BY <3>1, SameRollUp
  <2>3. rolled[root] = Store!Decomposed(task[root], table, kids \cup S)
    BY <1>3, <2>2
  <2> QED
    BY <1>5, <2>1, <2>3 DEF Overlay
<1>10. task' = [table EXCEPT ![root] = Store!Decomposed(@, table, children[root] \cup S)]
  <2>1. task' = [t \in TaskId |-> IF t \in DOMAIN new THEN new[t] ELSE task[t]]
    BY DEF Exec
  <2>2. table[root] = task[root]
    BY <1>5
  <2> HIDE DEF new
  <2> QED
    BY <1>9, <2>1, <2>2
<1>11. userIndex' = userIndex \cup S /\ children' = [children EXCEPT ![root] = @ \cup S]
  <2>1. userIndex' = userIndex \cup S
    BY <1>2 DEF Exec, NewIndex, Written
  <2>2. \A t \in TaskId : NewChildren(k, t) = IF t = root THEN children[t] \cup S ELSE children[t]
    BY <1>2 DEF NewChildren
  <2>3. children' = [t \in TaskId |-> NewChildren(k, t)]
    BY DEF Exec
  <2> QED
    BY <1>1, <2>1, <2>2, <2>3
<1>12. Effects' = Store!Recorded("batch", key, S) /\ Store!Unrecorded("batch", key)
  BY <1>2, ExecRecorded DEF Written
<1>13. Store!Decomposable(root) /\ Store!Bumpable(root)
  <2>1. WithinBound(k, DOMAIN new) /\ kids \subseteq Store!Live /\ root \in Store!Live
    BY <1>3 DEF Exec, Store!Live
  <2>2. Store!Bumpable(root)
    BY <1>9, <2>1 DEF WithinBound
  <2> QED
    BY <1>3, <2>1, <2>2 DEF Store!Decomposable
<1>14. Store!WriteSubtasks(root, plan, offset)
  <2>1. DOMAIN plan = S
    BY <1>2
  <2> QED
    BY <1>10, <1>11, <2>1 DEF Store!WriteSubtasks
<1>15. /\ S \in SUBSET {t \in TaskId : Store!Fresh(t)}
       /\ Store!IsFiniteSet(S) /\ Store!Cardinality(S) \in 1..MaxItems
       /\ plan \in Store!Plan(S) /\ Store!IsOrderOffset(offset, root)
  BY <1>1, <1>2, <1>4, <1>7, SameFinite DEF Store!IsOrderOffset
<1>16. Store!CreateSubtasks(root, key)
  BY <1>6, <1>7, <1>12, <1>13, <1>14, <1>15 DEF Store!CreateSubtasks, Effects
<1> QED
  BY <1>16 DEF Store!Next

\* Every commit is a step of the store.
LEMMA ExecCommits ==
    ASSUME IInv, NEW c \in Client, Exec(c)
    PROVE  Store!Next
BY ClientFacts, CreateCommits, BatchCommits, UpdateCommits, StatusCommits, DeleteCommits
   DEF Exec

-----------------------------------------------------------------------------
(* The theorems.                                                           *)

LEMMA InitIInv == Init => IInv
<1> SUFFICES ASSUME Init
             PROVE  IInv
  OBVIOUS
<1>1. Facts!IInv
  <2>1. [ik \in DOMAIN recorded |-> IF recorded[ik] = None THEN {} ELSE Written(recorded[ik])]
          = [ik \in Store!IdemKey |-> {}]
    BY DEF Init
  <2>2. Store!Init
    BY <2>1 DEF Init, Store!Init
  <2> QED
    BY <2>2, StoreBegins
<1>2. TxnType
  <2>1. Nothing \in Copy /\ 0 \in 0..Retries - 1
    BY TxnAssumption DEF Nothing, Copy
  <2> QED
    BY <2>1 DEF Init, TxnType, PC, Reply
<1>3. RecordInv
  BY DEF Init, RecordInv
<1>4. \A c \in Client : ClientOK(c) /\ Knows(c)
  BY DEF Init, ClientOK, Knows
<1> QED
  BY <1>1, <1>2, <1>3, <1>4 DEF IInv

LEMMA ExecIInv ==
    ASSUME IInv, UNCHANGED allowed, NEW c \in Client, Exec(c)
    PROVE  IInv'
<1>1. Facts!IInv'
  BY ExecCommits, StoreKeeps DEF IInv
<1>2. TxnType' /\ RecordInv' /\ \A d \in Client : ClientOK(d)' /\ Knows(d)'
  BY ExecRecords, ExecOthers
<1> QED
  BY <1>1, <1>2 DEF IInv

LEMMA StutterIInv == IInv /\ UNCHANGED vars => IInv'
<1> SUFFICES ASSUME IInv, UNCHANGED vars
             PROVE  IInv'
  OBVIOUS
<1> USE DEF vars
<1>1. Facts!IInv'
  BY StoreStutters DEF IInv, store
<1>2. TxnType'
  BY DEF IInv, TxnType
<1>3. RecordInv'
  <2>1. Store!IdemKey' = Store!IdemKey
    BY DEF Store!IdemKey, Store!Kind
  <2> QED
    BY <2>1 DEF IInv, RecordInv, RecordKey
<1>4. \A d \in Client : ClientOK(d)' /\ Knows(d)'
  BY OthersKept DEF IInv, store
<1> QED
  BY <1>1, <1>2, <1>3, <1>4 DEF IInv

LEMMA NextIInv == IInv /\ [Next]_vars => IInv'
<1> SUFFICES ASSUME IInv, Next
             PROVE  IInv'
  BY StutterIInv
<1>1. UNCHANGED allowed
  BY DEF Next
<1>2. PICK c \in Client : Step(c) \/ Abandon(c) \/ \E k \in allowed : Begin(c, k)
  BY DEF Next
<1>3. CASE Step(c)
  BY <1>1, <1>3, WatchIInv, ReadRecordIInv, ReadOriginalIInv, ReadNewIdIInv, ReadTargetsIInv,
     ReadIdsIInv, ReadMemberIInv, ReadLeafIInv, WatchFamilyIInv, ReadParentsIInv, ReadIndexIInv,
     WatchKidsIInv, ReadKidsIInv, ExecIInv, ExecFailsIInv
     DEF Step
<1>4. CASE Abandon(c)
  BY <1>1, <1>4, AbandonIInv
<1>5. CASE \E k \in allowed : Begin(c, k)
  BY <1>1, <1>5, BeginIInv
<1> QED
  BY <1>2, <1>3, <1>4, <1>5

\* The strengthened invariant holds in every reachable state.
THEOREM InductiveInvariant == Spec => []IInv
BY InitIInv, NextIInv, PTL DEF Spec

\* Every variable has its type, whatever the clients do at once.
THEOREM TypeCorrect == Spec => []TypeOK
<1>1. IInv => TypeOK
  <2> SUFFICES ASSUME IInv
               PROVE  TypeOK
    OBVIOUS
  <2>1. Store!TypeOK
    BY SameRecords DEF IInv, Facts!IInv, Facts!TypeOK, Store!TypeOK
  <2>2. \A c \in Client : seen[c] \in Copy
    BY DEF IInv, TxnType
  <2> QED
    BY <2>1, <2>2 DEF IInv, TxnType, TypeOK, Copy
<1> QED
  BY <1>1, InductiveInvariant, PTL

\* While no watched key has been written, all an attempt has read is still so.
THEOREM CopiesAlwaysCurrent == Spec => []CopiesCurrent
<1>1. IInv => CopiesCurrent
  <2> SUFFICES ASSUME IInv, NEW c \in Client, ~dirty[c]
               PROVE  /\ \A t \in TaskId : seen[c].task[t] # None => seen[c].task[t] = task[t]
                      /\ \A p \in TaskId : seen[c].children[p] # {} =>
                           seen[c].children[p] = children[p]
                      /\ seen[c].index \subseteq userIndex
    BY DEF CopiesCurrent
  <2>1. CASE pc[c] = "idle"
    BY <2>1 DEF IInv, ClientOK, Nothing
  <2>2. CASE pc[c] # "idle"
    BY <2>2 DEF IInv, Knows, Current
  <2> QED
    BY <2>1, <2>2
<1> QED
  BY <1>1, InductiveInvariant, PTL

\* The steps before EXEC, and the failed ones, write nothing.
LEMMA StepStore == [Next]_vars => UNCHANGED store \/ \E c \in Client : Exec(c)
<1> SUFFICES ASSUME [Next]_vars
             PROVE  UNCHANGED store \/ \E c \in Client : Exec(c)
  OBVIOUS
<1>1. CASE UNCHANGED vars
  BY <1>1 DEF vars, store
<1>2. ASSUME NEW c \in Client, Step(c) \/ Abandon(c) \/ \E k \in allowed : Begin(c, k)
      PROVE  UNCHANGED store \/ Exec(c)
  BY <1>2
     DEF Step, Watch, ReadRecord, ReadOriginal, ReadNewId, ReadTargets, ReadIds, ReadMember,
         ReadLeaf, WatchFamily, ReadParents, ReadIndex, WatchKids, ReadKids, ExecFails,
         Abandon, Begin, Proceed
<1> QED
  BY <1>1, <1>2 DEF Next

\* An idempotency record is never overwritten or lost, so of all calls with
\* one key at most one takes effect.
THEOREM RecordsAlwaysFinal == Spec => RecordsFinal
<1>1. IInv /\ [Next]_vars =>
        [\A ik \in DOMAIN recorded : recorded[ik] # None => recorded'[ik] = recorded[ik]]_vars
  <2> SUFFICES ASSUME IInv, [Next]_vars, NEW ik \in DOMAIN recorded, recorded[ik] # None
               PROVE  recorded'[ik] = recorded[ik]
    OBVIOUS
  <2>1. CASE UNCHANGED store
    BY <2>1 DEF store
  <2>2. ASSUME NEW c \in Client, Exec(c)
        PROVE  recorded'[ik] = recorded[ik]
    <3>1. call[c].key # None => recorded[RecordKey(call[c])] = None
      BY <2>2, ExecKnows DEF Exec
    <3> QED
      BY <2>2, <3>1 DEF Exec
  <2> QED
    BY <2>1, <2>2, StepStore
<1> QED
  BY <1>1, InductiveInvariant, PTL DEF Spec, RecordsFinal

\* The loops of WATCH, reads and EXEC implement the operations of TaskStore:
\* no interleaving of any number of requests loses an update, writes from
\* stale reads or repeats a recorded call.
THEOREM TxnImplementsStore == Spec => ImplementsStore
<1>1. Init => Store!Init
  BY DEF Init, Store!Init
<1>2. IInv /\ [Next]_vars => [Store!Next]_(Store!vars)
  <2> SUFFICES ASSUME IInv, [Next]_vars
               PROVE  Store!Next \/ UNCHANGED Store!vars
    OBVIOUS
  <2>1. CASE UNCHANGED store
    BY <2>1 DEF store, Store!vars, Written
  <2>2. CASE \E c \in Client : Exec(c)
    BY <2>2, ExecCommits
  <2> QED
    BY <2>1, <2>2, StepStore
<1> QED
  BY <1>1, <1>2, InductiveInvariant, PTL DEF Spec, ImplementsStore, Store!Spec
=============================================================================
