# Verification of the WekToDo agent service

WekToDo is a to-do service that is driven by chat. A FastAPI service
(`src/agent-service`) runs a LangGraph state machine per conversation thread;
write operations are shown to the user, confirmed, and then executed on tasks
that are stored in Redis. This directory holds TLA+ models of the parts that
decide whether the user's tasks stay right, the TLC runs that check the models
and the TLAPS proofs about them. Line numbers refer to files of `src/`;
`redis_task.py` is `src/agent-service/app/repositories/redis_task.py`.

## 1. Inventory

| Component | State | Operations | Hard behaviour | What makes it correct |
|---|---|---|---|---|
| Task repository (`repositories/redis_task.py`, `services/task_state.py`, `schemas/task.py`) | one JSON per task, a set of ids per user, a sorted set of children per parent, one record per idempotency key | `create`, `create_subtasks_batch`, `update`, `update_status_with_rollup`, `delete`, `delete_batch`; `get`, `list_children`, `list_tasks` | optimistic transactions (WATCH, reads, EXEC, at most three attempts) of concurrent requests; roll-up of subtasks into their parent; repeated calls | indexes and parent links agree; a parent's status and progress follow its subtasks; no interleaving loses an update; one key, one effect |
| Task tools (`tools/task_tools.py`) | none | validate arguments, pass expected versions and keys on, audit the call | retry of a call whose answer was lost | same key for the same confirmed action |
| Agent service (`services/agent.py`, `api/agent.py`) | none of its own; reads and resumes the checkpoint of a thread | `chat`, `confirm`, history and trace queries | two requests on one thread; a confirmation sent twice; a death between two graph nodes | an action that was not approved is never executed, an approved one at most once |
| Agent graph (`graph/`) | the checkpoint: pending action, last handled action, results, focus | 41 nodes from `route_pending_state` to `finalize_turn`, routers between them, interrupt at `request_confirmation` | confirmations wait while tasks change; restore first, then the original intent; cycles | what is executed is what was shown; every turn ends; a router's key is declared |
| Pending contexts (`graph/nodes/route_pending_state.py`, `services/pending_operation.py`, `services/task_selection.py`, clarification nodes) | clarifications, selections, drafts, rounds, expiry in the checkpoint | open, answer, replace, cancel, expire | contexts survive turns and may claim a later message | at most the right context answers; rounds are bounded |
| Conversation history (`repositories/redis_conversation.py`) | list of messages, metadata, index of conversations, one key per operation | `append_exchange`, `get_history` | retry of an append; trimming at the limit; failure after the graph has committed | one exchange per operation, messages in pairs |
| Observability (`services/observability.py`, `repositories/redis_observability.py`) | traces, events, tool logs | start/finish trace, record event, start/finish tool | the audit record must precede the write; sequence numbers across processes | no write without an audit record |
| Plan validation, query plans, priority (`services/subtask_plan.py`, `task_query_plan.py`, `priority.py`) | none | pure functions | boundaries | results within their documented ranges |
| Everything else: matching, error mapping, language-model calls, wiring, evaluation, frontend | none that matters here | | | inputs of the models above, or not modelled (section 12) |

How they interact: the API calls the agent service; the service reads the
thread's checkpoint and runs or resumes the graph; graph nodes call task tools;
tools write an audit record and call the repository; the repository talks to
Redis; afterwards the service appends the exchange to the history and closes
the trace. Requests run as coroutines on one or several processes, nothing
locks a thread or a user, so all state shared between requests is in Redis:
tasks, checkpoints, history, traces.

`PROJECT.json` lists under `hazards` each place where this is hard to test,
with the properties that cover it, or the reason why none does.

## 2. Plan

Done:

1. `TaskStore`: the committed effect of every write operation, one action each.
2. `TaskTxn`: the same operations as loops of round trips of concurrent
   clients, which implement `TaskStore`.
3. `TaskStoreProofs`: the invariants of `TaskStore` for all constants.
4. `AgentThread`: chat and confirm of one thread, the checkpoint, the pending
   action, crashes and exceptions, over a task with a version and idempotency
   records; `Confirmation`: what it promises.
5. `GraphRoutes`, `GraphState`, `GraphContexts`, `GraphWrites`, `TaskGraph`: the
   turns of a conversation, every node and router, with the contexts that stay
   open over turns.
6. `ConversationHistory`: the appends of concurrent requests and the reading of
   the history; `ExchangeLog`: what it promises.
7. `AgentRecords`: traces, events, tool audit and exchanges of requests, over
   `ConversationHistory`, with failing writes and dying processes.

8. `TaskTxnProofs`, `ConversationHistoryProofs`, `AgentRecordsProofs`,
   `AgentThreadProofs`: every safety property of these modules for all constants,
   and that each implements its abstract specification.
9. `GraphStateProofs`, `GraphNodesProofs`, `TaskGraphProofs`: every safety property
   of `TaskGraph`, for all constants.

Next, in this order:

10. `Plans`: plan validation, query plans and priority as operators, checked
    against reference definitions over bounded inputs.
11. Larger instances: two families in `TaskStore`.

## 3. TaskStore

One user is enough: every Redis key contains the tenant and the user, so users
share no key.

| Variable | Redis |
|---|---|
| `task[t]` | the JSON at the task key, with the fields rules depend on: parent, status, progress, whether `completed_at` is set, version, dependencies, order |
| `userIndex` | the set of the user's task ids |
| `children[t]` | the members of the sorted set of `t`'s children (its scores equal `order`) |
| `idem[<<kind, key>>]` | the tasks the recorded call wrote |

Each of `Create`, `CreateSubtasks`, `Update`, `UpdateStatus`, `Delete` is the
whole write of an operation: the guard collects its checks, the primed
variables are what its MULTI/EXEC block writes. `Delete` is both `delete` (one
target) and `delete_batch`, which differ in nothing but the number of targets
and the namespace of their keys. `RollUp` is what deletions and status changes
do to a parent, `Decomposed` is what a new batch does to it. The two differ in
the code, and the model keeps the differences. A call that is refused or
answered from a record changes nothing and is a stuttering step; so a step has
an expected version that equals the stored one.

Texts, dates and priorities are left out: they decide only some refusals of
`create_subtasks_batch` (equal titles, late deadlines), and a refusal is a
stuttering step anyway, so the model allows a few more batches than the code.

Properties:

- `IndexComplete`, `TreeIntact`, `DepsIntact`: the four kinds of keys agree.
- `DoneByChildren`, `ProgressAgrees`, `CompletedIffDone`: derived fields agree
  with what they are derived from, though four operations maintain them.
- `LegalMoves`: statuses follow the transition table except where subtasks pull
  a parent; `VersionGuardsContent`: equal versions mean equal contents, which is
  what every optimistic check in the service relies on.

## 4. TaskTxn

Clients are requests. A step of a client is one round trip: WATCH, a read, or
EXEC. `watched[c]` is the set of keys it watches, `dirty[c]` the server's mark
that one of them was written, `seen[c]` what it has read in this attempt. EXEC
computes what it writes from `seen[c]` with the operators of `TaskStore`, never
from the current store, and writes nothing when the mark is set. The order of
steps is the code's:

| `pc` | Round trip |
|---|---|
| `watch` | WATCH of the keys known from the arguments |
| `record`, `original` | GET of the idempotency record; `create` then GETs the original task |
| `target` | GET or MGET of the targets, EXISTS for `create` |
| `ids` | `create_subtasks_batch`: EXISTS of the generated ids |
| `member`, `leaf` | deletion: SISMEMBER, then ZRANGE of the targets' children |
| `family` | WATCH of parents and child indexes |
| `parent`, `index` | GET of the parents, ZRANGE of the child indexes |
| `watch_kids`, `kids` | WATCH and MGET of the children |
| `exec` | MULTI ... EXEC |

`Abandon` is a cancelled request or a dead process: EXEC is atomic, so all that
is lost is the attempt.

Simplifications: reads of several keys of one kind in a Python loop are one
step; calls without children to look at make the two `kids` steps with no key.
Both only shorten the loop, between commands that are covered by the same WATCH.

A behaviour belongs to one set of calls, `allowed`, of which clients may make any
at any time and more than once. `TxnAssumption` says that calls are well-formed
(`IsCall`: what the repository's interface takes) and that the ids of a batch
are its own (`OwnIds`: the code derives them as uuid5 of parent, key and step, so
two batches share an id only if they are one call). EXEC has the guard
`MaxVersion`, which bounds versions as in `TaskStore`.

Properties: `ImplementsStore` (`TaskStore!Spec` under the mapping that turns
records into the ids they wrote), `CopiesCurrent` (while no watched key was
written, everything read is still so: the watch sets cover the reads),
`RecordsFinal`, and `CallsEnd` under fairness.

## 5. AgentThread

One thread is enough: its checkpoint is addressed by user and thread id, and
what other threads do to the task is `Elsewhere`. A client is a request: a
`chat` with a fresh request id, or the answer to a card that has been shown.

| Variable | Code |
|---|---|
| `checkpoint` | the thread's latest checkpoint, reduced to what `chat`, `confirm` and the routing functions read |
| `pc`, `request`, `graph` | where a coroutine is, its request, the graph state of its `ainvoke` |
| `unsaved` | checkpoints LangGraph has submitted and not yet written |
| `task`, `recorded` | the task the messages are about, and the repository's idempotency records |
| `shown`, `asked`, `done` | history for the properties: cards shown, answers sent, calls that took effect |

`ReadForChat` and `ReadForConfirm` are the checks both handlers make on a
checkpoint they have read; `InvokeChat` and `InvokeConfirm` start from the
checkpoint as it is by then. That gap is what the races live on. Then the graph
runs: `Plan` (from `route_pending_state` to `prepare_*`), `Decide`
(`request_confirmation` after its interrupt), `Execute` (`execute_*`), `Finish`
(`handle_error`, `finalize_turn`). `Return` waits for the checkpoints to be
written and answers from the latest one. An action's id is made of request id,
type and round, its idempotency key of type and request id, as in the code; the
request id of a confirmation is made of the card's id and the decision
(`services/agent.py:196`).

What is taken from LangGraph (external, `langgraph>=1.0`, default durability): a
checkpoint is submitted after every superstep and written in the background in
order; the end of `ainvoke` waits for these writes; an input starts the graph
anew; `Command(resume)` goes on with the nodes that are next in the latest
checkpoint, and hands the decision to an interrupt only there; the checkpoint
written last is the latest. The findings do not depend on the last point: they
are found as well when requests wait for each other's writes.

Left out: batches (confirmed like the single operations), clarifications and
selections (a turn that ends without an action, see `TaskGraph`), traces and
history (see `AgentRecords`), texts.
`Content` stands for what a parser or a user puts into a draft or a patch, two
values where it matters. `NoAction` and `NoId` are the `None` a chat puts into
`pending_action` and `last_handled_action_id`; `ThreadAssumption` says that the
settings ask for what the code knows and that `None` is no value of a kind.

A behaviour belongs to one `setting`, which bounds what is asked of the thread:
the intents, the decisions, the faults (`crash`, `raise`) and the number of
confirmations. One run covers several settings.

`Confirmation` is the abstract promise: actions are shown, decisions on shown
actions arrive, and a step of `done` is an action whose id was shown and
approved, was not executed before, and finds the task in the status and version
the action was prepared for. It speaks of the id, not of the action, because two
actions may have one id (section 11): `ExecutedAsApproved`, which says that what
was shown is what is executed, is false.
`ImplementsConfirmation` is refinement of `Confirmation`. `ThreadResponsive` says that between requests the thread is
idle or waits for an answer somebody can still give, `ResponsiveUnlessFaulty`
that only crashes and exceptions can make it otherwise.

## 6. TaskGraph

One conversation, turn after turn and node by node. `g` is the graph state
(`graph/state.py`), in memory during a turn and in the checkpoint between turns;
its type is `TaskAgentState`, whose contexts are records named after the
schemas. `task` is what the nodes read of the store: status and version of each
task, not yet used, or gone. Tasks are a set, and `Order` says where each stands
in a list (`_stable_task_key`). `GraphAssumption` collects what is assumed of the
constants: `None` and `Gone` are values of their own, and at most 8 rounds
(`user_inputs` holds no more). `SceneAssumption` says that a scene starts with
each subtask's parent in the store (`TreeIntact`, proved of `TaskStore`), and that
what a model returns satisfies the schemas of the intent and of the deletion plan.

| Module | Code |
|---|---|
| `GraphRoutes` | the routers of `graph/routing.py` and the edges and declared keys of `graph/builder.py`; `Successor` is what LangGraph makes of them |
| `GraphState` | the state, the input of a chat, how a reference or a number finds tasks in a list |
| `GraphContexts` | the nodes that start a turn, answer or repeat an open question, classify the message and find the task; `finalize_turn` |
| `GraphWrites` | the nodes that understand a change, prepare it, wait for the confirmation and execute it |
| `TaskGraph` | their composition with the user, the clock and other threads; the properties |

A node is one step, because only the node that executes writes to the store, and
the store is protected by `TaskTxn`. Between two nodes other threads change and
delete tasks, within `Foreign`. What a language model returns is a free choice of
the requests and deletions of the behaviour's `scene`; messages are kinds
(`cancel`, `new`, an ordinal, a name, ...), as the nodes that answer a context
tell them apart. `Contexts` is what a turn may leave open. `heard` is a ghost: the
numbered list the user saw last. A node that executes may fail without having
written (`ExecutionFails`), or after it has, when the reply of the store is lost
(`Written`): the turn then ends with an error and does not know what it did.

Properties: `RoutesDeclared` (no state makes a router return a key its node has
not declared), `OneContext`, `ChoiceIsPending` (a list on the screen is the list
an ordinary selection checks the answer against; that of a deletion contains its
tasks, and no more is promised), `ActsOnShown` (a number that answers an ordinary
selection, in `ResolveTaskSelection`, chooses what was shown under it, unchanged
since; of a deletion's selection this is false, see `graph_delete`),
`InputsBounded` (clarifications over turns end),
`ParsesRequest` (the parser gets the request, not the answer that chose a task),
`FocusIsAnswered` ("it" is the task of the turn, never one it knows it deleted),
`BatchPerReference` (nothing that was named is dropped or counted twice),
`WritesApproved` (only approved actions write, only to their targets in the
versions they were prepared for, and to parents by roll-up), `TurnEnds`.

Left out: contents of drafts, patches and plans, times, texts, and the order of
candidates beyond a fixed one. A query's filters may keep any tasks.

## 7. ConversationHistory and AgentRecords

`ConversationHistory` has `append_exchange` as a loop of round trips
(`watch`, `exists`, `get`, `exec`; at most `Attempts` times) of each client, with
`writer[c].dirty` as the server's mark, trimming at `MaxMessages`, the expiry of
operation keys and Redis errors at every round trip. `get_history` is two reads
of a pipeline that is no transaction. `ExchangeLog` is what callers may rely on:
a log of exchanges, the latest kept, all of them counted, no operation logged
twice while its key lives. `ImplementsLog` is refinement of it under the mapping
that pairs messages.

`AgentRecords` runs requests: `StartTrace`, then nodes that record their events
and may call a tool, `FinishTrace`, and the append of the exchange when the
request is answered. A tool call is `StartAudit`, `ListAudit` (the two commands of
`start_tool_execution`), `RunTool`, `FinishAudit`. Every write may fail before
or after Redis has carried it out, and a process may die anywhere; `faults`
counts both. What the code does then is in `Following` and `Open`: failures of
traces, events and history are logged and ignored, a failure of the audit's
start stops the tool, one of its end does not. After a tool's error further nodes
run, `handle_error` and `finalize_turn`, which call no tool but record events.

Properties: `EffectsAudited` (no tool has an effect that the audit of its trace
does not show), `AuditTruthful` (no write that returned is recorded as failed),
`EventsOrdered`, `FinishedFrozen` (nothing is added to a finished trace),
`TraceTruthful` (a finished trace says how the request ended),
`ExchangesAnswered` (the history holds answered requests only), `ExchangesWhole`,
`HistoryWhole` (a reading lacks only what the limit removed), `RequestsEnd`.
`CHANGELOG.md:38` and the line after it promise the first two.

Left out: contents and TTLs, the index of a user's conversations and the other
indexes that nothing decides on, the readers of a trace. A node that calls two
tools counts as two nodes.

## 8. Runs

| Run | Instance | Shows |
|---|---|---|
| `store_family` | 3 tasks, 1 create key, 2 batch keys, 1 key per deletion; versions to 8 | all properties of `TaskStore` on one family that is decomposed twice |
| `txn_races` | 2 clients: siblings completed while the parent is edited; deletions against decomposition, status change, cancellation | `TypeOK`, `CopiesCurrent`, `ImplementsStore` |
| `txn_duplicates` | 2 clients, equal keys with equal and with other inputs, fairness | `RecordsFinal`, `CallsEnd` |
| `thread_requests` | 2 requests at a time, 1 message, a cancelled task or not; three settings: 4 confirmations with crashes, 3 with edits and all intents, 2 with exceptions | `TypeOK`, `ImplementsConfirmation`, `ResponsiveUnlessFaulty` |
| `thread_ends` | 2 requests at a time, exceptions, fairness | `RequestsEnd`: each is answered, though maybe from a checkpoint another one wrote |
| `graph_turns` | 4 tasks, three scenes, fairness | the properties of section 6 |
| `records` | five settings: 2 concurrent requests with a fault, or with a reader; 3 requests in a row with a reader; 1 request with 2 nodes and 2 faults, or with 3 nodes and 1 fault; fairness | the properties of section 7 |
| `store_restorable`, `thread_raised`, `thread_shown`, `graph_restore`, `graph_delete` | | the findings of section 11 |

Bounds. `MaxVersion` is the only bound on histories in `TaskStore`: a task can
be written 7 times in the family instance, enough to complete, reopen, cancel,
restore and delete around a parent that is decomposed again; the same
properties are proved without the bounds of the instance. `MaxItems` is 2 (10
in the code): dependencies, mixed statuses and partial deletions need two.
Once a task's version reaches the bound it accepts no write, so `MC_TaskStore`
may stop and its runs do not check deadlock. In `TaskTxn` `MaxVersion` is
never reached: a call names the versions it expects, so each takes effect at
most once and the sets of calls bound the store; `Retries` is 3 as in the code, and
other clients' commits can exhaust it.
In `AgentThread` the number of messages (`ChatId`), of confirmations (in
`Setting`), of versions others add (`MaxVersion`) and of rounds in which a
draft may be revised (`MaxRound`) are bounded: two requests can be anywhere in
the code at once, a repetition can meet every stage of the first call, and a
third or fourth confirmation meets what the race left behind. A thread that
nobody writes to any more may stop, so these runs do not check deadlock. Edits
at once with several drafts execute what was not shown (`thread_shown`), and so
do three requests at once on two messages (section 11); the passing run has the
rest of the protocol, and the proof has all of it.
In `TaskGraph` the number of turns is not bounded: contexts are bounded by the
code. `MaxVersion` 3 lets a task change twice under the conversation, `MaxRounds`
is 2 (4 by default in the code), `MaxBatch` 2 (of 50). The scenes have what each kind of context
needs: a creation from nothing, with clarifications; changes of a cancelled
parent and its subtask, with selections, restores and decomposition; deletions
with ambiguous references, one or several (`delete_all_matches`), where two
subtasks have one title and a parent blocks its deletion. Without an open context messages do not differ, so any
stands for all.
In `AgentRecords` `MaxMessages` is 2 (200 in the code), so that the second
exchange trims the first; `Attempts` is 2 (3 in the code), which a concurrent
append and an expiry exhaust; `MaxEvents` 4 cuts the events of two nodes; with 3
nodes a failed tool is followed by `handle_error` and `finalize_turn`. When
all requests have been made the system stops, so deadlock is not checked.
Clients (and, in `MC_TaskStore`, tasks) are symmetric; no run with symmetry
checks liveness.

Fairness. `FairSpec` has weak fairness of each client's next step: a coroutine
that waits for a reply of Redis is resumed by the event loop when it arrives,
and no other client can disable its step. New calls and abandonment are not
fair. In `AgentThread` a request's next step and the writing of its checkpoints
are fair: the first for the same reason (calls of the language model have a
timeout), the second because LangGraph awaits them; new requests, crashes and
exceptions are not. In `TaskGraph` the nodes of an accepted turn are fair
(LangGraph runs the next one until the graph ends or interrupts), the user, the
clock and other threads are not.

## 9. Proofs

Each component has its theorems in a module of its own. All hold for any number
of clients, any tasks, calls and messages, and any bounds; the runs check the
same statements on small instances. Every proof has the same form: an inductive
invariant `IInv`, one lemma per action that it is preserved, and theorems that
follow from it.

**`TaskStoreProofs`** proves each property of `TaskStore` the family run checks:
`TypeCorrect`, `IndexAlwaysComplete`, `TreeAlwaysIntact`, `DepsAlwaysIntact`,
`ParentDoneByChildren`, `ProgressAlwaysAgrees`, `CompletionStampAgrees`, and the
action properties `VersionsGuardContent` and `StatusMovesLegal`. Assumed is that
`None` is neither a task id nor a task record nor a key, and that the bounds are
positive. `IInv` conjoins the type invariant, the structural properties, the
derived-field properties and the fact that families are finite. None of the
derived-field properties is inductive alone: `DoneByChildren` after a status
change needs `TreeIntact`, to know that the updated task is counted in exactly
its parent's family and that a subtask has no children of its own; `DepsIntact`
after a deletion needs it to know that only siblings can depend on a target;
`ProgressAgrees` needs finiteness for cardinalities, and its range
(`ProgressRange`) is what keeps `TypeOK`. Two lemmas on families carry most of
the proofs: a family in which nothing changed keeps its properties
(`FamilySame`), and one whose parent was rolled up acquires them
(`FamilyRolled`). The action properties follow from what each action may do to
one task (`...Rewrites`).

**`TaskTxnProofs`** proves `TypeCorrect`, `CopiesAlwaysCurrent`,
`RecordsAlwaysFinal` and `TxnImplementsStore`, under `TxnAssumption` (section 4).
`CopiesCurrent` is not inductive: it says nothing of keys that were read as
absent, of verdicts reached from earlier reads, or of which keys are watched.
The invariant says for each client and place of its loop which keys it watches
(`Watches`), that its copies are those of watched keys and equal the store as
long as it is not marked (`Current`), and that what it has decided from them
still holds (the verdicts, place by place). A commit of another client touches
every key whose value it changes (`Touched`), so it either marks the client or
leaves all of this alone. At `exec` the current copies make the guard and the
effect of the operation in `TaskStore` those computed from the copies, and the
step refines it. The invariants of `TaskStore` are needed on the way (a parent
found through a child is the one whose family is watched); they come from
`TaskStoreProofs`, instantiated under the refinement mapping.

**`ConversationHistoryProofs`** has no theorem about a specification, because the
module has none; it shows that each step of the history preserves `HistoryInv`
and is a step of `ExchangeLog`. `HistoryInv` says of the list that it consists of
whole exchanges, as many as the metadata counts up to the limit; of an append
that is not marked that its operation is not recorded and its copy of the
metadata is current; of a reading that the count it has seen is no higher than
the one by now. Assumed is that the limit of the list is even, as the settings
demand.

**`AgentRecordsProofs`** extends it to the whole module: `TypeCorrect`,
`EffectsAlwaysAudited`, `AuditAlwaysTruthful`, `EventsAlwaysOrdered`,
`TraceAlwaysTruthful`, `ExchangesAlwaysAnswered`, `ExchangesAlwaysWhole`,
`HistoryAlwaysWhole`, the refinement `HistoryImplementsLog` and the action
property `FinishedTracesFrozen`. `IInv` has a part for each kind of record,
each of which says what is in it at each place of the request that writes it:
`RunInv` (a request has one client), `AuditInv`, `TraceInv`, `EventsInv`,
`ExchangeInv`. That a finished trace is frozen needs `RunInv` and `TraceInv`
together: the only client that could write to it is past its last write.

**`AgentThreadProofs`** proves `TypeCorrect`, `AlwaysResponsiveUnlessFaulty` and
`AgentImplementsConfirmation`, under `ThreadAssumption`. Requests race for the
checkpoint, so an invariant that followed a request would have to know what all
the others have submitted. It does not: every graph state of the thread, be it
the checkpoint, in the memory of a request or still to be written, is sound on
its own (`Good`): it has the shape its next node needs, an action that is
executed was approved under its id, and the version an action was prepared for
was the task's at some time. Which of these states is resumed, and in which
order they become the checkpoint, does not matter then. What is left is to show
that an execution under an id that is already done changes nothing: the version
a first execution has raised, or the record it has left, refuses or answers the
second. The strengthened invariant was checked with TLC before it was proved, and
its counterexamples are how the third divergence at the end of section 11 was
found.

**`TaskGraphProofs`** proves `TypeCorrect`, `RoutesAlwaysDeclared`,
`AlwaysOneContext`, `InputsAlwaysBounded`, `AlwaysParsesRequest`,
`FocusAlwaysAnswered`, `ChoiceAlwaysPending`, `BatchAlwaysPerReference`, and the
action properties `AlwaysActsOnShown` and `WritesAlwaysApproved`, under
`GraphAssumption` and `SceneAssumption`: for any scenes, tasks and numbers of
turns. The properties speak of few places (a turn's end, a parser, an
execution), but each depends on what all nodes on the way there have done, so
none is inductive. The invariant, in `GraphStateProofs`, has three parts.

- `Tree` of the tasks: types, and the parent of a task that exists does too.
- `Sound` of the graph state, wherever it is. Its fields have their types; a copy
  of a task is of this version or of an older one, and in this version it agrees
  (`CopiesOK`); the open selection is the list shown last (`ListsOK`); collected
  inputs begin with the request and grow by at most one per round (`TextsOK`);
  what a turn has written is about one task (`FocusOK`).
- `Ready`, node by node: what the node relies on when it starts. The nodes
  that answer a context have it and no other; those that prepare an operation
  have a task or inputs and no open context; those that execute have an approved
  action of their own type; the end of a turn has at most one context.

The proof of a node then has two halves: what it writes is sound, and the
successor its router chooses is ready. `GraphStateProofs` proves where each router
leads from which state (`Routes...`) and puts the halves together (`Enters`,
`Left`, `Finishes`, `Fails`; `ReplyLost` for a write nobody knows of). `GraphNodesProofs` has the nodes that do not write to
the store, `TaskGraphProofs` those that do, and the users, clocks and threads
that act between two nodes. For these it shows that the tasks only evolve
(`Evolves`: no id returns to unused, a version grows with every change), which
is all a copy needs to stay sound. `RoutesAlwaysDeclared` follows because `Successor` sends an undeclared
key to a node that is not in the graph. `WritesAlwaysApproved` needs the copies:
the version the executing tool compares is the one of the copy the user approved, so
status and version are those that were approved.
`Ready` and `Sound` were checked with TLC on `graph_turns` before they were
proved.

Model-checked only: liveness under fairness (`CallsEnd`, `RequestsEnd` of both
modules, `TurnEnds`), which is out of reach of the prover.

## 10. What the checks show

Committed histories keep the store consistent, and the optimistic loops add no
behaviour to them, for any number of concurrent requests: so everything that is
proved of `TaskStore` is true of the interleaved operations. The three rounds of
WATCH cover the reads, including the child that is found only through
the parent's index. Dropping the parents from the second WATCH breaks the
refinement (mutant `IndexesWatched`). Dropping the third WATCH, of the children,
does not: every write that changes what a roll-up reads of a child also writes
the child's parent, which is watched already.

The confirmation protocol keeps its promise for any number of requests, under
races of approvals, crashes and restores, because the repository backs it: the idempotency key makes a second
execution of a creation harmless, the expected version one of everything else,
and the comparison of ids in `request_confirmation` stops a decision that
reaches another card. Each of the three is needed (mutants `NeverRecorded`,
`AcceptsAny`, `DecideAny`). What it does not keep apart is two actions that were
prepared under one id, and what it tells the loser of a race. An approval is of
an id, and every property that speaks of more than the id is false.

The contexts of a conversation keep apart because every node that opens one
closes the others or is reached only when none is open, and because an answer is
looked up by id and version in the list that was saved (mutants `NotChosenKept`,
`ChosenFromLive`). The deletion's selection is the one that does not renew its
list. Audit comes before effect whichever write fails, because
`start_tool_execution` is the only failure of observability that a tool does not
survive (mutant `AuditFailureIgnored`); that the end of a trace is one event
followed by one write, and nothing else, is what freezes it.

## 11. Findings

- **A cancelled parent that cannot be restored** (`store_restorable`). If all
  its effective subtasks are DONE, restoring it to TODO is refused
  (`redis_task.py:1379`), no other transition leaves CANCELLED, and its subtasks
  cannot be changed under it. `README.md:88` promises the restore.
- **A thread that refuses everything** (`thread_raised`). An exception in a node,
  for instance a timezone `ZoneInfo` does not know, leaves the thread with a next
  node that no request runs again. `chat` answers 409 "waiting for confirmation"
  to every message, and there is no card to answer. A crash between two nodes
  leaves such a node as well (`Crash` in `AgentThread`).
- **Two drafts under one id** (`thread_shown`). Action ids do not depend on the
  payload. Two revisions of one card at the same time produce two drafts with
  one id, and approving the one on the screen can execute the other.
- **A restore that is the end** (`graph_restore`). A cancelled task chosen from a
  list is restored, and then `route_after_restore_execution` (`routing.py:358`)
  looks at the intent of the turn. A turn that answered a selection has none: the
  change the user wanted is dropped, where `README.md:88` promises that it goes on
  by itself.
- **A number of another list** (`graph_delete`). When a candidate of a deletion
  has disappeared and the answer is not understood, the remaining candidates are
  shown with new numbers (`resolve_task_delete_selection.py:87`), but the saved
  list is the old one: "1" then means another task than the one on the screen.
  A confirmation still stands between this and the deletion.

Three things the models show and no run states as a property.

- The same batch executed twice at once can be answered with a version conflict
  (`redis_task.py:231`) instead of the recorded batch that
  `docs/PROJECT_TASK_BOOK.md:536` promises, because errors are raised from reads
  that EXEC would have rejected. No data is harmed.
- Of an approval and a rejection of one card at the same time both can be
  answered, so that the user reads "已取消创建任务。" for a task that was created.
  What is executed was approved.
- `confirm` checks the checkpoint it has read and resumes the one that is the
  latest by then (`services/agent.py:251`). Two equal confirmations of a card,
  both past their check when another message starts a new turn, both run the
  nodes of that turn, under one request id (`services/agent.py:196`). If the task
  changes between them they prepare two actions with one id, for two versions;
  the user approves the first and the second is executed. `ExecutedAsApproved` is
  violated by it with three clients, two messages, one deletion and approvals
  only; the confirmed version is compared, but it is not the one that was shown.

## 12. Not modelled

`PROJECT.json` has the full list with reasons. Language-model calls and schema
validation of their answers are free inputs of the graph. The normalisation and
scoring of strings in `matching/`, the wording of answers in `task_response.py`,
the table in `error_mapping.py`, configuration and clients, the offline
evaluation and the frontend keep no state that a property is about. The
read-only calls of the repository and the readers of traces change nothing; a
read of an index and then of tasks without WATCH is a listed hazard. Times are
reduced to what expires. Plan validation, query plans and priority are pure
functions and remain to be stated (section 2).
