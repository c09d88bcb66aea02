----------------------------- MODULE AgentRecords -----------------------------
(***************************************************************************)
(* What the agent writes down about its requests: the trace of a request   *)
(* with the events of its nodes, the audit record of every tool call, and  *)
(* the exchange in the history of the conversation.  TaskAgentService.chat *)
(* and .confirm, ObservabilityService and RedisObservabilityRepository,    *)
(* one Redis round trip per step; ConversationHistory appends the exchange.*)
(*                                                                         *)
(* Every write may fail, before or after Redis has carried it out, and     *)
(* every process may die.  The graph is any sequence of nodes of which     *)
(* each calls at most one tool; AgentThread and TaskGraph say more of it.  *)
(* A request has a trace of its own, and only its process writes there.    *)
(* Left out: the contents of events and records, model calls (events like  *)
(* those of a node), TTLs, and the readers of a trace.                     *)
(***************************************************************************)
EXTENDS ConversationHistory

CONSTANTS
    MaxRequests,  \* bound: requests in all, which are numbered
    MaxNodes,     \* bound: nodes of a run
    MaxEvents,    \* trace_max_events
    Setting       \* bounds of a behaviour, a set of records: the clients, and
                  \* the most requests, nodes of a run and faults, and whether
                  \* somebody reads the history

\* The places, ends and statuses of a request, its trace and its tool calls.
Text ==
    {"trace", "REQUEST_STARTED", "opened", "next", "NODE_STARTED", "node", "audit", "list",
     "TOOL_STARTED", "operation", "audit_finish", "TOOL_COMPLETED", "NODE_COMPLETED",
     "REQUEST_COMPLETED", "finish", "respond", "append",
     "completed", "awaiting", "error", "refused", "raised", "crashed", "unreadable",
     "RUNNING", "SUCCEEDED", "INTERRUPTED", "FAILED", "STARTED"}

ASSUME RecordsAssumption ==
    /\ {MaxRequests, MaxNodes, MaxEvents} \subseteq Nat
    /\ \A s \in Setting :
         /\ s.clients \subseteq Client /\ s.faults \in Nat /\ s.reads \in BOOLEAN
         /\ s.requests \in 0..MaxRequests /\ s.nodes \in 0..MaxNodes
    /\ None \notin Text
    /\ None \notin [request : 1..MaxRequests, op : Operation, at : Text,
                    node : 0..MaxNodes, end : Text \cup {None}]

VARIABLES
    setting,  \* the bounds of this behaviour, a parameter
    run,      \* run[c]: the request of c, [request, op, at, node, end], or None
    begun,    \* the number of requests begun
    trace,    \* trace[r]: the status in the trace record of request r, or None
    events,   \* events[r]: the stored events, [number, type, node]
    numbers,  \* numbers[r]: _event_sequences, in the memory of r's process
    audit,    \* audit[k]: the status in the audit record of tool call k, or None;
              \* <<r, n>> is the call of the n-th node of request r
    listed,   \* tool calls in the index of their trace
    effects,  \* ghost: tool calls whose operation took effect
    returned, \* ghost: tool calls whose operation returned
    outcome,  \* ghost: outcome[r]: how request r ended, or None
    faults    \* failed writes and crashes so far

traceVars == <<begun, trace, events, numbers>>
auditVars == <<audit, listed, effects, returned>>
vars == <<setting, messages, record, keys, writer, reader, run, begun, trace, events, numbers,
          audit, listed, effects, returned, outcome, faults>>

Request == 1..MaxRequests

ToolCall == Request \X (1..MaxNodes)

Init ==
    /\ setting \in Setting
    /\ HistoryInit
    /\ run = [c \in Client |-> None]
    /\ begun = 0
    /\ trace = [r \in Request |-> None]
    /\ events = [r \in Request |-> {}]
    /\ numbers = [r \in Request |-> 0]
    /\ audit = [k \in ToolCall |-> None]
    /\ listed = {} /\ effects = {} /\ returned = {}
    /\ outcome = [r \in Request |-> None]
    /\ faults = 0

\* How requests end that answer the client, and what the trace says of them.
Answers == {"completed", "awaiting", "error"}

Finished == {"SUCCEEDED", "INTERRUPTED", "FAILED"}

StatusOf(end) ==
    CASE end = "completed" -> "SUCCEEDED"
      [] end = "awaiting"  -> "INTERRUPTED"
      [] OTHER             -> "FAILED"

\* The INTERRUPTED event of an awaiting request is a REQUEST_COMPLETED here.
EventType ==
    {"REQUEST_STARTED", "NODE_STARTED", "TOOL_STARTED", "TOOL_COMPLETED",
     "NODE_COMPLETED", "REQUEST_COMPLETED"}

-----------------------------------------------------------------------------
(* The steps of a request, one after the other.                            *)

\* chat or confirm has read the thread's checkpoint.
Begin(c, op) ==
    /\ run[c] = None /\ begun < setting.requests
    /\ begun' = begun + 1
    /\ run' = [run EXCEPT ![c] = [request |-> begun + 1, op |-> op, at |-> "trace",
                                  node |-> 0, end |-> None]]
    /\ UNCHANGED <<historyVars, trace, events, numbers, auditVars, outcome, faults>>

\* Mutant: the trace is closed before its last event is recorded.
FollowingEarly ==
    [trace             |-> "REQUEST_STARTED", REQUEST_STARTED |-> "opened",
     NODE_STARTED      |-> "node",
     audit             |-> "list",            list            |-> "TOOL_STARTED",
     TOOL_STARTED      |-> "operation",       audit_finish    |-> "TOOL_COMPLETED",
     TOOL_COMPLETED    |-> "NODE_COMPLETED",  NODE_COMPLETED  |-> "next",
     ended             |-> "finish",          finish          |-> "REQUEST_COMPLETED",
     REQUEST_COMPLETED |-> "respond"]

\* The place after a write that was carried out, and after the run has ended.
Following ==
    [trace             |-> "REQUEST_STARTED", REQUEST_STARTED |-> "opened",
     NODE_STARTED      |-> "node",
     audit             |-> "list",            list            |-> "TOOL_STARTED",
     TOOL_STARTED      |-> "operation",       audit_finish    |-> "TOOL_COMPLETED",
     TOOL_COMPLETED    |-> "NODE_COMPLETED",  NODE_COMPLETED  |-> "next",
     ended             |-> "REQUEST_COMPLETED",
     REQUEST_COMPLETED |-> "finish",          finish          |-> "respond"]

At(c, place) == run[c] # None /\ run[c].at = place

Call(c) == <<run[c].request, run[c].node>>

Goto(c, place) == run' = [run EXCEPT ![c].at = place]

GoOn(c) == Goto(c, Following[run[c].at])

EndWith(c, place, end) == run' = [run EXCEPT ![c].at = place, ![c].end = end]

Ends(c, end) ==
    /\ run' = [run EXCEPT ![c] = None]
    /\ outcome' = [outcome EXCEPT ![run[c].request] = end]

Fault == faults < setting.faults /\ faults' = faults + 1

\* start_trace: the record, and the user's index.  An error is logged.
StartTrace(c) ==
    LET stored == [trace EXCEPT ![run[c].request] = "RUNNING"] IN
    /\ At(c, "trace")
    /\ \/ trace' = stored /\ GoOn(c) /\ UNCHANGED faults
       \/ trace' \in {trace, stored} /\ Goto(c, "opened") /\ Fault
    /\ UNCHANGED <<historyVars, begun, events, numbers, auditVars, outcome>>

\* Mutant: the number is that of the events stored.
NumberedByStored(r) == Cardinality(events[r])

\* _next_sequence: events are counted in memory, whether they are stored or not.
Numbered(r) == numbers[r] + 1

\* Mutant: one event too many is kept.
LatestAndOne(S) ==
    {e \in S : Cardinality({f \in S : f.number > e.number}) <= MaxEvents}

\* ZADD, then ZREMRANGEBYRANK of all but the latest.
Latest(S) ==
    {e \in S : Cardinality({f \in S : f.number >= e.number}) <= MaxEvents}

\* record_event: an event that cannot be stored is logged.
RecordEvent(c, type) ==
    LET r == run[c].request
        event == [number |-> Numbered(r), type |-> type, node |-> run[c].node]
    IN
    /\ At(c, type)
    /\ numbers' = [numbers EXCEPT ![r] = Numbered(r)]
    /\ \/ events' = [events EXCEPT ![r] = Latest(@ \cup {event})] /\ UNCHANGED faults
       \/ UNCHANGED events /\ Fault
    /\ GoOn(c)
    /\ UNCHANGED <<historyVars, begun, trace, auditVars, outcome>>

\* Mutant: a conflict leaves the request without closing its trace.
OpenRefusing(c) ==
    /\ At(c, "opened")
    /\ \/ \E end \in Answers : EndWith(c, Following["ended"], end) /\ UNCHANGED outcome
       \/ Ends(c, "refused")
       \/ Goto(c, "next") /\ UNCHANGED outcome
    /\ UNCHANGED <<historyVars, traceVars, auditVars, faults>>

\* Before the graph: a conflict, a repeated confirmation that is answered from
\* the checkpoint, or the graph runs.
Open(c) ==
    /\ At(c, "opened")
    /\ \/ \E end \in Answers \cup {"refused"} : EndWith(c, Following["ended"], end)
       \/ Goto(c, "next")
    /\ UNCHANGED <<historyVars, traceVars, auditVars, outcome, faults>>

\* The next node, or the end of the run.  A tool's error is answered by further
\* nodes, handle_error and finalize_turn, unless the bound cuts them off.
Proceed(c) ==
    /\ At(c, "next")
    /\ \/ /\ run[c].end \in {None, "error"} /\ run[c].node < setting.nodes
          /\ run' = [run EXCEPT ![c].at = "NODE_STARTED", ![c].node = @ + 1]
       \/ /\ run[c].end = None
          /\ \E end \in Answers : EndWith(c, Following["ended"], end)
       \/ run[c].end # None /\ Goto(c, Following["ended"])
    /\ UNCHANGED <<historyVars, traceVars, auditVars, outcome, faults>>

\* A node calls a tool, returns or raises; the nodes after an error call none.
Node(c) ==
    /\ At(c, "node")
    /\ \/ run[c].end = None /\ Goto(c, "audit")
       \/ Goto(c, "NODE_COMPLETED")
       \/ EndWith(c, "NODE_COMPLETED", "raised")
    /\ UNCHANGED <<historyVars, traceVars, auditVars, outcome, faults>>

-----------------------------------------------------------------------------
(* execute_tool.                                                           *)

\* Mutant: a tool whose audit record could not be stored runs all the same.
AuditFailureIgnored(c) == GoOn(c)

\* ToolAuditPersistenceError, which the node turns into an error of the turn.
AuditFailure(c) == EndWith(c, "NODE_COMPLETED", "error")

\* start_tool_execution: the record, then the index of the trace.
StartAudit(c) ==
    LET stored == [audit EXCEPT ![Call(c)] = "STARTED"] IN
    /\ At(c, "audit")
    /\ \/ audit' = stored /\ GoOn(c) /\ UNCHANGED faults
       \/ audit' \in {audit, stored} /\ AuditFailure(c) /\ Fault
    /\ UNCHANGED <<historyVars, traceVars, listed, effects, returned, outcome>>

ListAudit(c) ==
    LET stored == listed \cup {Call(c)} IN
    /\ At(c, "list")
    /\ \/ listed' = stored /\ GoOn(c) /\ UNCHANGED faults
       \/ listed' \in {listed, stored} /\ AuditFailure(c) /\ Fault
    /\ UNCHANGED <<historyVars, traceVars, audit, effects, returned, outcome>>

\* The tool: it is refused, takes effect, or takes effect and raises.
RunTool(c) ==
    /\ At(c, "operation")
    /\ \/ /\ Goto(c, "audit_finish")
          /\ effects' = effects \cup {Call(c)} /\ returned' = returned \cup {Call(c)}
          /\ UNCHANGED faults
       \/ /\ EndWith(c, "audit_finish", "error")
          /\ UNCHANGED <<effects, returned, faults>>
       \/ /\ EndWith(c, "audit_finish", "error")
          /\ effects' = effects \cup {Call(c)} /\ UNCHANGED returned
          /\ Fault
    /\ UNCHANGED <<historyVars, traceVars, audit, listed, outcome>>

\* Mutant: the record is finished as a success whatever the tool has done.
ToolStatusAssumed(c) == "SUCCEEDED"

ToolStatus(c) == IF run[c].end = "error" THEN "FAILED" ELSE "SUCCEEDED"

\* finish_tool_execution: SET XX.  An error is logged, the result stands.
FinishAudit(c) ==
    LET stored == [audit EXCEPT ![Call(c)] = ToolStatus(c)] IN
    /\ At(c, "audit_finish")
    /\ \/ audit' = stored /\ UNCHANGED faults
       \/ audit' \in {audit, stored} /\ Fault
    /\ GoOn(c)
    /\ UNCHANGED <<historyVars, traceVars, listed, effects, returned, outcome>>

-----------------------------------------------------------------------------
(* The end of a request.                                                   *)

\* finish_trace: SET XX, so a record that was never stored stays missing; the
\* numbers are forgotten.  An error is logged.
FinishTrace(c) ==
    LET r == run[c].request
        stored == IF trace[r] = None THEN trace
                  ELSE [trace EXCEPT ![r] = StatusOf(run[c].end)]
    IN
    /\ At(c, "finish")
    /\ \/ trace' = stored /\ UNCHANGED faults
       \/ trace' \in {trace, stored} /\ Fault
    /\ numbers' = [numbers EXCEPT ![r] = 0]
    /\ GoOn(c)
    /\ UNCHANGED <<historyVars, begun, events, auditVars, outcome>>

\* Mutant: every request is recorded, also one that was refused.
RecordExchangeAlways(c) ==
    /\ At(c, "respond")
    /\ Goto(c, "append") /\ BeginAppend(c, run[c].op, run[c].request)
    /\ UNCHANGED <<outcome, traceVars, auditVars, faults>>

\* _record_exchange, for a request that has a response.
RecordExchange(c) ==
    /\ At(c, "respond")
    /\ \/ /\ run[c].end \in Answers
          /\ Goto(c, "append") /\ BeginAppend(c, run[c].op, run[c].request)
          /\ UNCHANGED outcome
       \/ /\ run[c].end \notin Answers
          /\ Ends(c, run[c].end) /\ UNCHANGED historyVars
    /\ UNCHANGED <<traceVars, auditVars, faults>>

\* Mutant: the response waits until the exchange is in the history.
ReturnRecorded(c) ==
    /\ At(c, "append") /\ writer[c] = None
    /\ \E i \in DOMAIN messages : messages[i].request = run[c].request
    /\ Ends(c, run[c].end)
    /\ UNCHANGED <<historyVars, traceVars, auditVars, faults>>

\* The response is returned when the append has ended, however it has.
Return(c) ==
    /\ At(c, "append") /\ writer[c] = None
    /\ Ends(c, run[c].end)
    /\ UNCHANGED <<historyVars, traceVars, auditVars, faults>>

\* confirm raises when the checkpoint has no pending action to validate; the
\* trace is not finished then.
Unreadable(c) ==
    /\ At(c, "opened")
    /\ Ends(c, "unreadable")
    /\ UNCHANGED <<historyVars, traceVars, auditVars, faults>>

\* The process dies, or the request is cancelled.
Crash(c) ==
    /\ run[c] # None /\ Fault
    /\ Ends(c, "crashed")
    /\ writer' = [writer EXCEPT ![c] = None]
    /\ UNCHANGED <<messages, record, keys, reader, traceVars, auditVars>>

Appends(c) ==
    /\ \/ AppendExchange(c) /\ UNCHANGED faults
       \/ AppendFails(c) /\ Fault
    /\ UNCHANGED <<run, traceVars, auditVars, outcome>>

Step(c) ==
    \/ StartTrace(c) \/ Open(c) \/ Proceed(c) \/ Node(c) \/ Unreadable(c)
    \/ \E type \in EventType : RecordEvent(c, type)
    \/ StartAudit(c) \/ ListAudit(c) \/ RunTool(c) \/ FinishAudit(c)
    \/ FinishTrace(c) \/ RecordExchange(c) \/ Appends(c) \/ Return(c)

\* Time passes, and somebody reads the history.
Besides ==
    /\ \/ setting.reads /\ GetHistory
       \/ \E op \in Operation : ExpireOperation(op)
    /\ UNCHANGED <<run, traceVars, auditVars, outcome, faults>>

Next ==
    /\ UNCHANGED setting
    /\ \/ \E c \in setting.clients :
            Step(c) \/ Crash(c) \/ \E op \in Operation : Begin(c, op)
       \/ Besides

Spec == Init /\ [][Next]_vars

\* A coroutine that waits for Redis is resumed; nobody has to send a request.
FairSpec == Spec /\ \A c \in Client : WF_vars(Step(c) /\ UNCHANGED setting)

-----------------------------------------------------------------------------
(* Properties; those of the history are in ConversationHistory.            *)

TypeOK ==
    /\ \A i \in DOMAIN messages :
         messages[i] \in [op : Operation, request : Request, role : {"user", "assistant"}]
    /\ keys \subseteq Operation
    /\ trace \in [Request -> Finished \cup {"RUNNING", None}]
    /\ audit \in [ToolCall -> {"STARTED", "SUCCEEDED", "FAILED", None}]
    /\ \A r \in Request : Cardinality(events[r]) <= MaxEvents
    /\ \A c \in Client : writer[c] # None => At(c, "append") /\ writer[c].attempt \in 1..Attempts

\* A tool has an effect only when its call can be found in the audit of its
\* trace, whichever write failed and wherever the process died.
EffectsAudited == \A k \in effects : audit[k] # None /\ k \in listed

\* The audit does not make a success of a failure, nor a failure of a success:
\* a call that returned is never recorded as failed.
AuditTruthful ==
    \A k \in ToolCall :
        /\ audit[k] = "SUCCEEDED" => k \in returned
        /\ k \in returned => audit[k] \in {"STARTED", "SUCCEEDED"}

\* The numbers of a trace's events are different and tell their order: a
\* request starts first and completes last, a tool starts before it completes.
EventsOrdered ==
    \A r \in Request : \A e, f \in events[r] :
        /\ e.number = f.number => e = f
        /\ e.type = "REQUEST_STARTED"   => e.number <= f.number
        /\ e.type = "REQUEST_COMPLETED" => e.number >= f.number
        /\ e.type = "TOOL_STARTED" /\ f.type = "TOOL_COMPLETED" /\ e.node = f.node =>
             e.number < f.number

\* A trace that is read as finished is complete: nothing is added to its events
\* or to its tool calls, and its status is never revised.
FinishedFrozen ==
    [][\A r \in Request : trace[r] \in Finished =>
          /\ trace'[r] = trace[r] /\ events'[r] = events[r]
          /\ \A n \in 1..MaxNodes : audit'[<<r, n>>] = audit[<<r, n>>]]_vars

\* A finished trace says how the request ended, and when no write has failed
\* every request but an unreadable one has a finished trace.
TraceTruthful ==
    \A r \in Request : outcome[r] # None =>
        /\ trace[r] \in Finished /\ outcome[r] # "crashed" => trace[r] = StatusOf(outcome[r])
        /\ faults = 0 /\ outcome[r] # "unreadable" => trace[r] \in Finished

\* The history holds only exchanges whose request was answered; when no write
\* has failed their traces are finished by then.
ExchangesAnswered ==
    \A i \in DOMAIN messages :
        LET r == messages[i].request IN
        /\ outcome[r] \in Answers \cup {None, "crashed"}
        /\ faults = 0 => trace[r] \in Finished

\* Whatever fails in traces, audit or history, every request ends.
RequestsEnd == \A c \in Client : run[c] # None ~> run[c] = None
=============================================================================
