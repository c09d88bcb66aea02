----------------------------- MODULE AgentThread -----------------------------
(***************************************************************************)
(* One conversation thread of the agent: TaskAgentService.chat and         *)
(* .confirm (app/services/agent.py) and the graph of app/graph that they   *)
(* run or resume, for concurrent requests on any number of processes.      *)
(*                                                                         *)
(* A request reads the thread's latest checkpoint, decides from it whether *)
(* it may proceed, and runs the graph node by node.  LangGraph submits a   *)
(* checkpoint after every node and goes on without waiting for it; nothing *)
(* locks the thread, and the checkpoint written last is the latest one.    *)
(*                                                                         *)
(* Nodes between which no shared state is touched are one step here: from  *)
(* route_pending_state to prepare_* ("plan"), and handle_error with        *)
(* finalize_turn ("finish").  What the language model makes of a message   *)
(* is a free choice.  Messages of the thread are about one root task or    *)
(* create new ones; a tool call is one step (TaskTxn                       *)
(* shows that it may be).  Left out: batches of subtasks and of deletions, *)
(* which are confirmed like a creation and a deletion; clarifications and  *)
(* selections, which end a turn; traces and history; the writes LangGraph  *)
(* saves per node next to a checkpoint, which can only spare it a node's   *)
(* second run.                                                             *)
(***************************************************************************)
EXTENDS Integers, Sequences, FiniteSets

CONSTANTS
    Client,      \* concurrent requests
    ChatId,      \* request ids of chat requests; a client never reuses one
    None,        \* no task, no intent, no checkpoint
    Start,       \* the states the task may be in at the start
    Setting,     \* what may happen in a behaviour, a set of records:
                 \*   intent    what messages may mean: [kind, target]
                 \*   decision  answers the user gives to a card
                 \*   faults    what may go wrong, among "crash" and "raise"
                 \*   confirms  bound: confirmations sent in all
    Content,     \* what a parser may make of a message or of an edit
    MaxVersion,  \* bound: nobody else raises the task's version beyond it
    MaxRound     \* bound: no edit or regeneration from this round on

VARIABLES
    setting,     \* what may happen, a parameter
    task,        \* the task messages are about: [status, version], or None
    recorded,    \* recorded[key]: the repository's idempotency records
    checkpoint,  \* the thread's latest checkpoint, a graph state, or None
    pc,          \* pc[c]: where request c is, "idle" without one
    request,     \* request[c]: what the client sent
    graph,       \* graph[c]: the graph state in memory of c's ainvoke
    unsaved,     \* unsaved[c]: submitted checkpoints, the oldest first
    sent,        \* the chat ids used
    confirms,    \* how many confirmations were sent
    shown, asked, done  \* ghosts of Confirmation: what users saw, sent, caused

store  == <<task, recorded>>
ghosts == <<sent, confirms, shown, asked, done>>
vars   == <<setting, task, recorded, checkpoint, pc, request, graph, unsaved,
            sent, confirms, shown, asked, done>>

(***************************************************************************)
(* A pending action: [type, request, round, target, content, from,         *)
(* version], with the task's status and version it was prepared for.       *)
(*                                                                         *)
(* A graph state: [next, request, round, intent, draft, pending, review,   *)
(* handled, selected, error].  next names the node to run, "confirm" waits *)
(* for the user, "end" ends the turn; draft is the content of an edit,     *)
(* review is confirmation_status, handled is last_handled_action_id, error *)
(* says whether an error is set.                                           *)
(***************************************************************************)

T == INSTANCE TaskStore WITH
    TaskId <- {}, KeysOf <- <<>>, MaxItems <- 1,
    userIndex <- {}, children <- <<>>, idem <- <<>>

Task == [status : T!Status, version : Nat]

\* What a message may ask for.
Intent ==
    [kind : {"create", "update", "delete"}, target : {None}]
      \cup [kind : {"status"}, target : T!Status]

ASSUME ThreadAssumption ==
    /\ Start \subseteq Task \cup {None}
    /\ None \notin Task \cup Intent \cup T!Status
    /\ \A s \in Setting :
         /\ s.intent \subseteq Intent
         /\ s.decision \subseteq {"approve", "reject", "edit", "regenerate"}
         /\ s.faults \subseteq {"crash", "raise"} /\ s.confirms \in Nat
    /\ {MaxVersion, MaxRound} \subseteq Nat /\ MaxRound >= 2

\* No pending action, and the id of none.
NoAction == [type |-> "none"]
NoId     == <<>>

\* The uuid5 of an action: request, type and round, but not what it does.
Id(a) == <<a.request, a.type, a.round>>

\* The idempotency key: type and request, not the round.
Key(a) == <<a.type, a.request>>

\* The task is still the one the action was prepared for.
Fits(a, before) ==
    \/ a.type = "create_task"
    \/ before # None /\ before.version = a.version /\ before.status = a.from

\* The input chat gives the graph: nothing of earlier turns survives in it.
Initial(id) ==
    [next |-> "plan", request |-> id, round |-> 0, intent |-> None, draft |-> None,
     pending |-> NoAction, review |-> None, handled |-> NoId, selected |-> None,
     error |-> FALSE]

Init ==
    /\ setting \in Setting
    /\ task \in Start
    /\ recorded = <<>>
    /\ checkpoint = None
    /\ pc = [c \in Client |-> "idle"]
    /\ request = [c \in Client |-> None]
    /\ graph = [c \in Client |-> None]
    /\ unsaved = [c \in Client |-> <<>>]
    /\ sent = {} /\ confirms = 0 /\ shown = {} /\ asked = {} /\ done = <<>>

-----------------------------------------------------------------------------
(* Requests, up to the invocation of the graph.                            *)

Begin(c, r) ==
    /\ pc[c] = "idle"
    /\ pc' = [pc EXCEPT ![c] = "read"]
    /\ request' = [request EXCEPT ![c] = r]
    /\ UNCHANGED <<store, checkpoint, graph, unsaved, shown, done>>

BeginChat(c, id) ==
    /\ id \notin sent
    /\ sent' = sent \cup {id}
    /\ Begin(c, [kind |-> "chat", id |-> id])
    /\ UNCHANGED <<confirms, asked>>

\* The answer to a confirmation card.
BeginConfirm(c, a, d) ==
    /\ confirms < setting.confirms
    /\ confirms' = confirms + 1
    /\ d \in {"edit", "regenerate"} => a.round < MaxRound
    /\ asked' = asked \cup {<<a, d>>}
    /\ Begin(c, [kind |-> "confirm", action |-> a, decision |-> d])
    /\ UNCHANGED sent

Goto(c, place) == pc' = [pc EXCEPT ![c] = place]

\* The request ends with an answer.
Answer(c) ==
    /\ Goto(c, "idle")
    /\ request' = [request EXCEPT ![c] = None]
    /\ graph' = [graph EXCEPT ![c] = None]
    /\ UNCHANGED <<store, checkpoint, unsaved, sent, confirms, asked, done>>

\* 409, or 500 for an exception.
Refuse(c) == Answer(c) /\ UNCHANGED shown

Awaiting(g) == g.next # "end"

\* The answer carries the pending action of a thread that waits: the card.
Respond(c, g) ==
    /\ Answer(c)
    /\ shown' = IF Awaiting(g) /\ g.pending # NoAction
                THEN shown \cup {g.pending} ELSE shown

GoOn(c) ==
    /\ Goto(c, "invoke")
    /\ UNCHANGED <<store, checkpoint, request, graph, unsaved, ghosts>>

\* chat: aget_state, and 409 while a node is still to run.
ReadForChat(c) ==
    /\ pc[c] = "read" /\ request[c].kind = "chat"
    /\ \/ (checkpoint # None => ~Awaiting(checkpoint)) /\ GoOn(c)
       \/ checkpoint # None /\ Awaiting(checkpoint) /\ Refuse(c)

\* confirm: aget_state and the checks made on it.  A card has been shown, so
\* there is a checkpoint.
ReadForConfirm(c) ==
    LET id == Id(request[c].action)
        handled == checkpoint.handled = id
    IN
    /\ pc[c] = "read" /\ request[c].kind = "confirm"
    /\ CASE handled -> Respond(c, checkpoint)
         [] ~handled /\ ~Awaiting(checkpoint) -> Refuse(c)
         [] ~handled /\ Awaiting(checkpoint) /\ checkpoint.pending = NoAction ->
              Refuse(c)
         [] ~handled /\ Awaiting(checkpoint) /\ checkpoint.pending # NoAction ->
              IF Id(checkpoint.pending) = id THEN GoOn(c) ELSE Refuse(c)

-----------------------------------------------------------------------------
(* The graph.                                                              *)

\* A node ends: its state is submitted as a checkpoint; the run stops at an
\* interrupt and at the end.
Step(c, g) ==
    /\ graph' = [graph EXCEPT ![c] = g]
    /\ unsaved' = [unsaved EXCEPT ![c] = Append(@, g)]
    /\ Goto(c, IF g.next \in {"confirm", "end"} THEN "flush" ELSE "run")
    /\ UNCHANGED <<checkpoint, request, ghosts>>

\* ainvoke with an input: it starts anew, whatever the checkpoint holds by now.
InvokeChat(c) ==
    /\ pc[c] = "invoke" /\ request[c].kind = "chat"
    /\ Step(c, Initial(request[c].id))
    /\ UNCHANGED store

\* ainvoke with Command(resume, update): it resumes the checkpoint as it is
\* now, which may be another one than confirm has checked, and runs the node
\* that is next there; after the end there is none.
InvokeConfirm(c) ==
    LET decision == request[c].decision
        g == [checkpoint EXCEPT !.request = <<Id(request[c].action), decision>>,
                                !.error = FALSE]
    IN
    /\ pc[c] = "invoke" /\ request[c].kind = "confirm"
    /\ checkpoint' = g
    /\ graph' = [graph EXCEPT ![c] = g]
    /\ Goto(c, CASE g.next = "end" -> "flush"
                 [] g.next = "confirm" -> "decide"
                 [] OTHER -> "run")
    /\ UNCHANGED <<store, request, unsaved, ghosts>>

Running(c, node) == pc[c] = "run" /\ graph[c].next = node

\* Mutant: prepare_* is followed by the interrupt even without an action.
EndedUnchecked(g, error) ==
    [g EXCEPT !.next = IF error THEN "finish" ELSE "confirm", !.error = error]

\* To finalize_turn, with or without an error to report.
Ended(g, error) == [g EXCEPT !.next = "finish", !.error = error]

\* prepare_*: a pending action in the next round, and the interrupt.
Prepared(g, type, target, content, t) ==
    [g EXCEPT
       !.next = "confirm", !.round = @ + 1, !.review = "pending", !.error = FALSE,
       !.selected = t,
       !.pending = [type |-> type, request |-> g.request, round |-> g.round + 1,
                    target |-> target, content |-> content,
                    from    |-> IF type = "create_task" THEN None ELSE t.status,
                    version |-> IF type = "create_task" THEN 0 ELSE t.version]]

\* The nodes from the resolved task t to the interrupt.
Planned(g, t, content) ==
    LET kind == g.intent.kind
        target == g.intent.target
    IN
    CASE kind = "create" -> Prepared(g, "create_task", None, content, None)
      [] kind # "create" /\ t = None -> Ended(g, FALSE)
      [] kind = "delete" /\ t # None -> Prepared(g, "delete_task", None, None, t)
      [] kind \in {"update", "status"} /\ t # None ->
           CASE t.status = "CANCELLED" /\ target # "CANCELLED" ->
                  Prepared(g, "restore_task", "TODO", None, t)
             [] t.status # "CANCELLED" /\ kind = "update" ->
                  Prepared(g, "update_task", None, content, t)
             [] t.status = target -> Ended(g, FALSE)
             [] t.status # "CANCELLED" /\ kind = "status" /\ t.status # target ->
                  IF T!Transition(t.status, target, TRUE, FALSE)
                  THEN Prepared(g, "update_task_status", target, None, t)
                  ELSE Ended(g, TRUE)

\* A message, the intent to go on with after a restore, or a revised draft.
\* Any of the nodes may end the turn without an action: a question, no or
\* several matches, an error.
Plan(c) ==
    LET g == graph[c] IN
    /\ Running(c, "plan")
    /\ \/ \E error \in BOOLEAN : Step(c, Ended(g, error))
       \/ \E intent \in IF g.intent = None THEN setting.intent ELSE {g.intent},
              content \in IF g.draft = None THEN Content ELSE {g.draft} :
            Step(c, Planned([g EXCEPT !.intent = intent],
                            IF g.selected = None THEN task ELSE g.selected,
                            content))
    /\ UNCHANGED store

\* Mutant: the action id of the decision is not compared.
DecideAny(c) ==
    LET g == graph[c]
        decision == request[c].decision
    IN
    /\ pc[c] = "decide"
    /\ Step(c, IF decision = "approve"
               THEN [g EXCEPT !.next = "execute", !.handled = Id(g.pending), !.review = "approved"]
               ELSE [g EXCEPT !.next = "finish", !.handled = Id(g.pending), !.review = "rejected"])
    /\ UNCHANGED store

\* request_confirmation, when it is resumed with the client's decision.
Decide(c) ==
    LET g == graph[c]
        decision == request[c].decision
        decided(node, review) ==
            [g EXCEPT !.next = node, !.review = review, !.handled = Id(g.pending)]
    IN
    /\ pc[c] = "decide"
    /\ \/ /\ \/ Id(request[c].action) # Id(g.pending)
             \/ decision \in {"edit", "regenerate"} /\ g.pending.type # "create_task"
          /\ Step(c, Ended(g, TRUE))
       \/ /\ Id(request[c].action) = Id(g.pending)
          /\ \/ decision = "approve" /\ Step(c, decided("execute", "approved"))
             \/ decision = "reject"  /\ Step(c, decided("finish", "rejected"))
             \/ decision \in {"edit", "regenerate"} /\ g.pending.type = "create_task"
                   /\ \E draft \in IF decision = "edit" THEN Content ELSE {None} :
                        Step(c, [decided("plan", "cancelled") EXCEPT !.draft = draft])
    /\ UNCHANGED store

\* Mutant: the repository compares no version.
AcceptsAny(a) == a.type = "create_task" \/ task # None

\* The repository's checks: version, and for statuses the transition.
Accepts(a) ==
    \/ a.type = "create_task"
    \/ /\ task # None /\ task.version = a.version
       /\ a.target # None => T!Transition(task.status, a.target, TRUE, TRUE)

\* The task after the action.
After(a) ==
    CASE a.type = "create_task" -> task
      [] a.type = "delete_task" -> None
      [] a.type = "update_task" -> [task EXCEPT !.version = @ + 1]
      [] OTHER -> [status |-> a.target, version |-> task.version + 1]

\* Mutant: no call finds a record of its key.
NeverRecorded(a) == FALSE

\* The repository has a record for the action's key.
IsRecorded(a) == Key(a) \in DOMAIN recorded

\* What the repository compares before it replays a record.
SameInput(a, b) ==
    CASE a.type = "create_task" -> TRUE
      [] a.type = "update_task" -> a.content = b.content
      [] OTHER -> a.target = b.target /\ a.version = b.version

\* Mutant: after a restore the graph waits again for the answer it has had.
ExecutedSuspended(g, result) ==
    [g EXCEPT !.next = IF g.pending.type = "restore_task" THEN "confirm" ELSE "finish",
              !.selected = result]

\* After a restore the graph goes on with the intent; other tools end the turn.
Executed(g, result) ==
    IF g.pending.type = "restore_task"
    THEN [g EXCEPT !.next = "plan", !.pending = NoAction, !.review = None, !.selected = result]
    ELSE [g EXCEPT !.next = "finish", !.selected = result]

\* execute_*: the tool call, once pending_action is approved.  Every exception
\* becomes an error of the turn, also one that is raised after the commit.
Execute(c) ==
    LET g == graph[c]
        a == g.pending
    IN
    /\ Running(c, "execute")
    /\ \/ /\ ~IsRecorded(a) /\ Accepts(a)
          /\ task' = After(a)
          /\ recorded' = [k \in DOMAIN recorded \cup {Key(a)} |->
                            IF k = Key(a) THEN [action |-> a, result |-> After(a)]
                            ELSE recorded[k]]
          /\ done' = Append(done, [action |-> a, before |-> task])
          /\ \E next \in {Executed(g, After(a)), Ended(g, TRUE)} :
                /\ graph' = [graph EXCEPT ![c] = next]
                /\ unsaved' = [unsaved EXCEPT ![c] = Append(@, next)]
          /\ UNCHANGED <<checkpoint, pc, request, sent, confirms, shown, asked>>
       \/ /\ IsRecorded(a) /\ SameInput(a, recorded[Key(a)].action)
          /\ Step(c, Executed(g, recorded[Key(a)].result))
          /\ UNCHANGED store
       \/ /\ Step(c, Ended(g, TRUE))
          /\ UNCHANGED store

\* handle_error and finalize_turn.
Finish(c) ==
    /\ Running(c, "finish")
    /\ Step(c, [graph[c] EXCEPT !.next = "end"])
    /\ UNCHANGED store

\* Mutant: the request waits until its own checkpoint is the latest one.
ReturnOwn(c) ==
    /\ pc[c] = "flush" /\ unsaved[c] = <<>> /\ checkpoint = graph[c]
    /\ Respond(c, checkpoint)

\* ainvoke has ended and its checkpoints are saved: _current_response reads
\* the latest one, which another request may have saved.
Return(c) ==
    /\ pc[c] = "flush" /\ unsaved[c] = <<>>
    /\ Respond(c, checkpoint)

\* A submitted checkpoint is written.
Save(c) ==
    /\ unsaved[c] # <<>>
    /\ checkpoint' = Head(unsaved[c])
    /\ unsaved' = [unsaved EXCEPT ![c] = Tail(@)]
    /\ UNCHANGED <<store, pc, request, graph, ghosts>>

-----------------------------------------------------------------------------
(* Faults, and the rest of the world.                                      *)

\* The process dies, and with it what it had not yet written.
Crash(c) ==
    /\ "crash" \in setting.faults /\ pc[c] # "idle"
    /\ Goto(c, "idle")
    /\ request' = [request EXCEPT ![c] = None]
    /\ graph' = [graph EXCEPT ![c] = None]
    /\ unsaved' = [unsaved EXCEPT ![c] = <<>>]
    /\ UNCHANGED <<store, checkpoint, ghosts>>

\* A node raises: classify_intent does for a timezone ZoneInfo does not know,
\* which the request schema lets through.  The checkpoints submitted before
\* are still written; the exception leaves the node as the next one to run.
Raise(c) ==
    /\ "raise" \in setting.faults
    /\ Running(c, "plan") /\ graph[c].intent = None
    /\ Goto(c, "raised")
    /\ UNCHANGED <<store, checkpoint, request, graph, unsaved, ghosts>>

ReturnError(c) ==
    /\ pc[c] = "raised" /\ unsaved[c] = <<>>
    /\ Refuse(c)

\* Another conversation changes or deletes the task.
Elsewhere ==
    /\ task # None /\ task.version < MaxVersion
    /\ \/ \E status \in T!Status :
            /\ T!Transition(task.status, status, TRUE, TRUE)
            /\ task' = [status |-> status, version |-> task.version + 1]
       \/ task' = None
    /\ UNCHANGED <<recorded, checkpoint, pc, request, graph, unsaved, ghosts>>

Work(c) ==
    \/ ReadForChat(c)  \/ ReadForConfirm(c)
    \/ InvokeChat(c)   \/ InvokeConfirm(c)
    \/ Plan(c)         \/ Decide(c)
    \/ Execute(c)      \/ Finish(c)
    \/ Return(c)       \/ ReturnError(c)

Next ==
    /\ UNCHANGED setting
    /\ \/ \E c \in Client :
            \/ \E id \in ChatId : BeginChat(c, id)
            \/ \E a \in shown, d \in setting.decision : BeginConfirm(c, a, d)
            \/ Work(c) \/ Save(c) \/ Crash(c) \/ Raise(c)
       \/ Elsewhere

Spec == Init /\ [][Next]_vars

\* Coroutines are resumed when what they wait for is there, and writes of
\* checkpoints are carried out; nobody has to send a request.
FairSpec ==
    Spec /\ \A c \in Client : /\ WF_vars(Work(c) /\ UNCHANGED setting)
                             /\ WF_vars(Save(c) /\ UNCHANGED setting)

-----------------------------------------------------------------------------
(* Properties.                                                             *)

Types == {"create_task", "update_task", "update_task_status", "delete_task", "restore_task"}

\* The shape of a graph state, as far as it does not depend on its ids.
IsGraph(g) ==
    /\ g.next \in {"plan", "confirm", "execute", "finish", "end"}
    /\ g.error \in BOOLEAN /\ g.round \in 0..MaxRound
    /\ g.intent \in setting.intent \cup {None} /\ g.draft \in Content \cup {None}
    /\ g.review \in {None, "pending", "approved", "rejected", "cancelled"}
    /\ g.next \in {"confirm", "execute"} => g.pending # NoAction
    /\ g.pending # NoAction => g.pending.type \in Types /\ g.pending.round \in 1..g.round

\* The type invariant: a graph state that waits for an answer or executes has
\* a pending action, so PendingAction.model_validate does not raise there.
TypeOK ==
    /\ task \in Task \cup {None}
    /\ checkpoint # None => IsGraph(checkpoint)
    /\ \A c \in Client :
         /\ pc[c] \in {"idle", "read", "invoke", "run", "decide", "flush", "raised"}
         /\ pc[c] \in {"run", "decide", "flush"} => IsGraph(graph[c])
         /\ \A i \in DOMAIN unsaved[c] : IsGraph(unsaved[c][i])
    /\ \A a \in shown : a.type \in Types

C == INSTANCE Confirmation

\* Whatever races, is repeated or dies: what is executed has the id of a card
\* that was shown and approved, no id is executed twice, and every execution
\* meets the task as it was when the action was prepared.
ImplementsConfirmation == C!Spec

Quiet == \A c \in Client : pc[c] = "idle" /\ unsaved[c] = <<>>

\* Between requests the thread can always be gone on with: it waits for no
\* node, or for the answer to an action that has not been answered yet.
ThreadResponsive ==
    Quiet /\ checkpoint # None /\ Awaiting(checkpoint) =>
        /\ checkpoint.next = "confirm"
        /\ checkpoint.handled # Id(checkpoint.pending)

\* So it is as long as no process dies and no node raises, also after requests
\* that ran at the same time.
ResponsiveUnlessFaulty == setting.faults = {} => ThreadResponsive

\* Every request is answered (agent.py), under FairSpec.
RequestsEnd == \A c \in Client : pc[c] # "idle" ~> pc[c] = "idle"

\* What is executed is what the user approved, content and all.
ExecutedAsApproved ==
    \A i \in DOMAIN done : <<done[i].action, "approve">> \in asked
=============================================================================
