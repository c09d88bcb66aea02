--------------------------- MODULE AgentRecordsProofs ---------------------------
(***************************************************************************)
(* TLAPS proofs about AgentRecords, for any number of clients, requests,   *)
(* nodes, events and faults.  The invariant is the conjunction of what is  *)
(* true of each kind of record at each place of a request:                 *)
(*   - RunInv      who runs which request, and what a place says of it;    *)
(*   - AuditInv    the audit records of tool calls;                        *)
(*   - TraceInv    the trace records;                                      *)
(*   - EventsInv   the events of a trace and their numbers;                *)
(*   - ExchangeInv the exchanges in the history and the appends.           *)
(***************************************************************************)
EXTENDS AgentRecords, ConversationHistoryProofs, FiniteSetTheorems, WellFoundedInduction

\* The places of a request, in the order of the code.
ToolPlace == {"audit", "list", "TOOL_STARTED", "operation", "audit_finish", "TOOL_COMPLETED"}

NodePlace == {"NODE_STARTED", "node", "NODE_COMPLETED"} \cup ToolPlace

Place ==
    {"trace", "REQUEST_STARTED", "opened", "next", "REQUEST_COMPLETED", "finish",
     "respond", "append"} \cup NodePlace

End == Answers \cup {"refused", "raised"}

RunRecord ==
    [request : Request, op : Operation, at : Place, node : 0..MaxNodes, end : End \cup {None}]

\* Before the graph, and until a tool has run, a request cannot have ended.
Running == {"trace", "REQUEST_STARTED", "opened", "audit", "list", "TOOL_STARTED",
            "operation"}

\* After the graph it has.
Closing == {"REQUEST_COMPLETED", "finish", "respond"}

\* Every running request is one that has begun and not ended, and belongs to
\* one client.
RunInv ==
    /\ setting \in Setting
    /\ begun \in 0..MaxRequests /\ faults \in Nat
    /\ run \in [Client -> RunRecord \cup {None}]
    /\ outcome \in [Request -> End \cup {"crashed", "unreadable", None}]
    /\ \A r \in Request : r > begun => outcome[r] = None
    /\ \A c \in Client : run[c] # None =>
         /\ run[c].request <= begun
         /\ outcome[run[c].request] = None
         /\ run[c].at \in NodePlace => run[c].node > 0
         /\ run[c].at \in Running => run[c].end = None
         /\ run[c].at \in Closing => run[c].end # None
         /\ run[c].at = "audit_finish" => run[c].end \in {None, "error"}
         /\ run[c].at = "append" => run[c].end \in Answers
    /\ \A c, d \in Client :
         run[c] # None /\ run[d] # None /\ run[c].request = run[d].request => c = d

\* What is audited of the calls of the request of c.
AuditAt(c) ==
    LET at == run[c].at IN
    /\ \A n \in 1..MaxNodes : n > run[c].node => audit[<<run[c].request, n>>] = None
    /\ at \in {"NODE_STARTED", "node", "audit"} => audit[Call(c)] = None
    /\ at \in {"list", "TOOL_STARTED", "operation", "audit_finish"} => audit[Call(c)] = "STARTED"
    /\ at \in {"list", "TOOL_STARTED", "operation"} => Call(c) \notin returned
    /\ at \in {"TOOL_STARTED", "operation", "audit_finish"} => Call(c) \in listed
    /\ at = "audit_finish" => (run[c].end = None <=> Call(c) \in returned)

\* The audit of a tool call tells what has happened to it: nothing before its
\* node, then the record, the index, the operation, the result.
AuditInv ==
    /\ audit \in [ToolCall -> {"STARTED", "SUCCEEDED", "FAILED", None}]
    /\ returned \subseteq effects /\ effects \subseteq ToolCall
    /\ EffectsAudited
    /\ AuditTruthful
    /\ \A r \in Request, n \in 1..MaxNodes : r > begun => audit[<<r, n>>] = None
    /\ \A c \in Client : run[c] # None => AuditAt(c)

\* What the trace of the request of c says.
TraceAt(c) ==
    LET t == trace[run[c].request] IN
    /\ run[c].at \notin {"respond", "append"} => t \notin Finished
    /\ run[c].at \notin {"trace", "respond", "append"} /\ faults = 0 => t = "RUNNING"
    /\ run[c].at \in {"respond", "append"} =>
         /\ t \in Finished => t = StatusOf(run[c].end)
         /\ faults = 0 => t \in Finished

\* The trace of a request is finished by its last write and not before.
TraceInv ==
    /\ trace \in [Request -> Finished \cup {"RUNNING", None}]
    /\ \A r \in Request : r > begun => trace[r] = None
    /\ TraceTruthful
    /\ \A c \in Client : run[c] # None => TraceAt(c)

Event == [number : Nat \ {0}, type : EventType, node : 0..MaxNodes]

\* The events of the request of c.
EventsAt(c) ==
    LET r == run[c].request IN
    /\ run[c].at \in {"trace", "REQUEST_STARTED"} => events[r] = {} /\ numbers[r] = 0
    /\ \A e \in events[r] :
         /\ run[c].at \notin {"respond", "append"} => e.number <= numbers[r]
         /\ run[c].at \notin {"finish", "respond", "append"} => e.type # "REQUEST_COMPLETED"
         /\ e.type = "TOOL_COMPLETED" =>
              /\ e.node <= run[c].node
              /\ run[c].at \in NodePlace \ {"NODE_COMPLETED"} => e.node < run[c].node

\* The events of a trace are numbered as EventsOrdered says.
Ordered(S) ==
    \A e, f \in S :
        /\ e.number = f.number => e = f
        /\ e.type = "REQUEST_STARTED"   => e.number <= f.number
        /\ e.type = "REQUEST_COMPLETED" => e.number >= f.number
        /\ e.type = "TOOL_STARTED" /\ f.type = "TOOL_COMPLETED" /\ e.node = f.node =>
             e.number < f.number

\* The numbers of a running request are those of its events or later ones; what
\* comes first or last has not been recorded before its place.
EventsInv ==
    /\ events \in [Request -> SUBSET Event]
    /\ numbers \in [Request -> Nat]
    /\ \A r \in Request : IsFiniteSet(events[r]) /\ Cardinality(events[r]) <= MaxEvents
    /\ \A r \in Request : r > begun => events[r] = {} /\ numbers[r] = 0
    /\ \A r \in Request : Ordered(events[r])
    /\ \A r \in Request : \A e \in events[r] : e.type = "REQUEST_STARTED" => e.number = 1
    /\ \A c \in Client : run[c] # None => EventsAt(c)

\* The requests the history knows.
Recorded == {messages[i].request : i \in DOMAIN messages}

\* An append is that of a request which has an answer and a finished trace.
ExchangeInv ==
    /\ HistoryInv(Request)
    /\ \A c \in Client : writer[c] # None =>
         At(c, "append") /\ writer[c].request = run[c].request
    /\ \A r \in Recorded :
         /\ r <= begun
         /\ outcome[r] \in Answers \cup {None, "crashed"}
         /\ faults = 0 => trace[r] \in Finished
         /\ \A c \in Client : run[c] # None /\ run[c].request = r => run[c].at = "append"

IInv == RunInv /\ AuditInv /\ TraceInv /\ EventsInv /\ ExchangeInv

-----------------------------------------------------------------------------
(* The invariant at the beginning, and the control flow.                   *)

LEMMA FollowingPlaces ==
    /\ Following["trace"] = "REQUEST_STARTED"
    /\ Following["REQUEST_STARTED"] = "opened"
    /\ Following["NODE_STARTED"] = "node"
    /\ Following["audit"] = "list"
    /\ Following["list"] = "TOOL_STARTED"
    /\ Following["TOOL_STARTED"] = "operation"
    /\ Following["audit_finish"] = "TOOL_COMPLETED"
    /\ Following["TOOL_COMPLETED"] = "NODE_COMPLETED"
    /\ Following["NODE_COMPLETED"] = "next"
    /\ Following["ended"] = "REQUEST_COMPLETED"
    /\ Following["REQUEST_COMPLETED"] = "finish"
    /\ Following["finish"] = "respond"
BY DEF Following

\* None is none of the texts the records hold.
LEMMA NoneIsNoText ==
    /\ None \notin End \cup Finished \cup Place
    /\ None \notin {"STARTED", "RUNNING", "crashed", "unreadable"}
    /\ None \notin RunRecord
<1>1. End \subseteq Text /\ Finished \subseteq Text /\ Place \subseteq Text
  BY DEF Text, End, Answers, Finished, Place, NodePlace, ToolPlace
<1>2. None \notin End \cup Finished \cup Place
  BY <1>1, RecordsAssumption
<1>3. None \notin {"STARTED", "RUNNING", "crashed", "unreadable"}
  BY RecordsAssumption DEF Text
<1>4. RunRecord \subseteq [request : 1..MaxRequests, op : Operation, at : Text,
                          node : 0..MaxNodes, end : Text \cup {None}]
  BY <1>1 DEF RunRecord, Request
<1> QED
  BY <1>2, <1>3, <1>4, RecordsAssumption

LEMMA RunInitially == Init => RunInv
BY RecordsAssumption DEF Init, RunInv, Request

\* A running request goes to another place, with or without an end.
LEMMA RunMoves ==
    ASSUME RunInv, UNCHANGED <<setting, begun, outcome>>, faults' \in Nat,
           NEW c \in Client, run[c] # None, NEW place \in Place,
           NEW node \in 0..MaxNodes, NEW end \in End \cup {None},
           run' = [run EXCEPT ![c] = [@ EXCEPT !.at = place, !.node = node, !.end = end]],
           place \in NodePlace => node > 0,
           place \in Running => end = None,
           place \in Closing => end # None,
           place = "audit_finish" => end \in {None, "error"},
           place = "append" => end \in Answers
    PROVE  RunInv'
<1> DEFINE w == [run[c] EXCEPT !.at = place, !.node = node, !.end = end]
<1>1. run[c] \in RunRecord
  BY DEF RunInv
<1>2. /\ w \in RunRecord /\ w # None /\ w.request = run[c].request
      /\ w.at = place /\ w.node = node /\ w.end = end
  BY <1>1, NoneIsNoText DEF RunRecord
<1>3. run' = [run EXCEPT ![c] = w] /\ run'[c] = w
      /\ \A d \in Client : d # c => run'[d] = run[d]
  BY DEF RunInv
<1> HIDE DEF w
<1>4. run' \in [Client -> RunRecord \cup {None}]
  BY <1>2, <1>3 DEF RunInv
<1>5. \A d \in Client : run'[d] # None => run[d] # None /\ run'[d].request = run[d].request
  BY <1>2, <1>3
<1>6. ASSUME NEW d \in Client, run'[d] # None
      PROVE  /\ run'[d].request <= begun
             /\ outcome[run'[d].request] = None
             /\ run'[d].at \in NodePlace => run'[d].node > 0
             /\ run'[d].at \in Running => run'[d].end = None
             /\ run'[d].at \in Closing => run'[d].end # None
             /\ run'[d].at = "audit_finish" => run'[d].end \in {None, "error"}
             /\ run'[d].at = "append" => run'[d].end \in Answers
  <2>1. CASE d = c
    BY <1>2, <1>3, <2>1 DEF RunInv
  <2>2. CASE d # c
    BY <1>3, <1>6, <2>2 DEF RunInv
  <2> QED
    BY <2>1, <2>2
<1> QED
  BY <1>4, <1>5, <1>6 DEF RunInv

LEMMA GotoRun ==
    ASSUME RunInv, UNCHANGED <<setting, begun, outcome>>, faults' \in Nat,
           NEW c \in Client, run[c] # None, NEW place \in Place, Goto(c, place),
           place \in NodePlace => run[c].node > 0,
           place \in Running => run[c].end = None,
           place \in Closing => run[c].end # None,
           place = "audit_finish" => run[c].end \in {None, "error"},
           place = "append" => run[c].end \in Answers
    PROVE  RunInv'
<1>1. run[c] \in RunRecord
  BY DEF RunInv
<1>2. run' = [run EXCEPT ![c] = [@ EXCEPT !.at = place, !.node = run[c].node,
                                          !.end = run[c].end]]
  BY <1>1 DEF Goto, RunRecord
<1>3. run[c].node \in 0..MaxNodes /\ run[c].end \in End \cup {None}
  BY <1>1 DEF RunRecord
<1> QED
  BY <1>2, <1>3, RunMoves

LEMMA EndWithRun ==
    ASSUME RunInv, UNCHANGED <<setting, begun, outcome>>, faults' \in Nat,
           NEW c \in Client, run[c] # None, NEW place \in Place, NEW end \in End,
           EndWith(c, place, end),
           place \in NodePlace => run[c].node > 0,
           place \notin Running,
           place = "audit_finish" => end = "error",
           place = "append" => end \in Answers
    PROVE  RunInv'
<1>1. run[c] \in RunRecord
  BY DEF RunInv
<1>2. run' = [run EXCEPT ![c] = [@ EXCEPT !.at = place, !.node = run[c].node, !.end = end]]
  BY <1>1 DEF EndWith, RunRecord
<1>3. run[c].node \in 0..MaxNodes
  BY <1>1 DEF RunRecord
<1> QED
  BY <1>2, <1>3, RunMoves, NoneIsNoText

\* A request ends, and its client runs none any more.
LEMMA EndsRun ==
    ASSUME RunInv, UNCHANGED <<setting, begun>>, faults' \in Nat,
           NEW c \in Client, run[c] # None,
           NEW end \in End \cup {"crashed", "unreadable"}, Ends(c, end)
    PROVE  RunInv'
<1>1. /\ run' = [run EXCEPT ![c] = None]
      /\ outcome' = [outcome EXCEPT ![run[c].request] = end]
      /\ run[c].request \in Request /\ run[c].request <= begun
  BY DEF RunInv, Ends, RunRecord
<1>2. run' \in [Client -> RunRecord \cup {None}]
  BY <1>1 DEF RunInv
<1>3. outcome' \in [Request -> End \cup {"crashed", "unreadable", None}]
  BY <1>1 DEF RunInv
<1>4. \A d \in Client : run'[d] # None => d # c /\ run'[d] = run[d]
  BY <1>1 DEF RunInv
<1>5. \A d \in Client : run'[d] # None => outcome'[run'[d].request] = None
  BY <1>1, <1>4 DEF RunInv, RunRecord
<1>6. \A r \in Request : r > begun => outcome'[r] = None
  BY <1>1 DEF RunInv, Request
<1> QED
  BY <1>2, <1>3, <1>4, <1>5, <1>6 DEF RunInv

\* Clients are different from each other by their requests.
LEMMA BeginRun ==
    ASSUME RunInv, setting' = setting, NEW c \in Client, NEW op \in Operation, Begin(c, op)
    PROVE  RunInv'
<1> USE NoneIsNoText
<1> DEFINE new == [request |-> begun + 1, op |-> op, at |-> "trace", node |-> 0, end |-> None]
<1>1. begun + 1 \in Request /\ begun' = begun + 1 /\ begun' \in 0..MaxRequests
  BY RecordsAssumption DEF RunInv, Begin, Request
<1>2. new \in RunRecord /\ run' = [run EXCEPT ![c] = new] /\ UNCHANGED <<outcome, faults>>
  BY <1>1, RecordsAssumption DEF Begin, RunRecord, Place
<1> QED
  BY <1>1, <1>2 DEF RunInv, NodePlace, ToolPlace, Closing, RunRecord, Request

LEMMA FaultCounted ==
    ASSUME RunInv, UNCHANGED faults \/ Fault
    PROVE  faults' \in Nat /\ faults' >= faults
BY DEF RunInv, Fault

LEMMA StepRun ==
    ASSUME RunInv, UNCHANGED setting, NEW c \in Client, Step(c) \/ Crash(c)
    PROVE  RunInv'
<1> USE FollowingPlaces, FaultCounted DEF traceVars
<1> DEFINE w == run[c]
<1>1. CASE StartTrace(c)
  BY <1>1, GotoRun DEF StartTrace, At, GoOn, RunInv, Place, NodePlace, ToolPlace, Running, Closing
<1>2. CASE Open(c)
  <2> USE <1>2 DEF Open, At, Place, NodePlace, ToolPlace, Running, Closing
  <2>1. ASSUME NEW end \in Answers \cup {"refused"}, EndWith(c, "REQUEST_COMPLETED", end)
        PROVE  RunInv'
    BY <2>1, EndWithRun DEF RunInv, End
  <2>2. CASE Goto(c, "next")
    BY <2>2, GotoRun DEF RunInv
  <2> QED
    BY <2>1, <2>2
<1>3. CASE Proceed(c)
  <2> USE <1>3 DEF Proceed, At, Place, NodePlace, ToolPlace, Running, Closing
  <2>1. CASE /\ w.node < setting.nodes
             /\ run' = [run EXCEPT ![c].at = "NODE_STARTED", ![c].node = @ + 1]
    <3>1. w \in RunRecord /\ w.node + 1 \in 0..MaxNodes /\ w.node + 1 > 0
      BY <2>1, RecordsAssumption DEF RunInv, RunRecord
    <3>2. [w EXCEPT !.at = "NODE_STARTED", !.node = w.node + 1]
          = [w EXCEPT !.at = "NODE_STARTED", !.node = w.node + 1, !.end = w.end]
      BY <2>1, <3>1 DEF RunRecord
    <3>3. run' = [run EXCEPT ![c] = [@ EXCEPT !.at = "NODE_STARTED", !.node = w.node + 1,
                                              !.end = w.end]]
      BY <2>1, <3>2, Zenon
    <3>4. UNCHANGED <<setting, begun, outcome>> /\ faults' \in Nat /\ run[c] # None
      BY DEF RunInv
    <3>5. "NODE_STARTED" \in Place \ (Running \cup Closing)
      OBVIOUS
    <3>6. w.end \in End \cup {None}
      BY <3>1 DEF RunRecord
    <3> HIDE DEF Place, NodePlace, Running, Closing, w
    <3> QED
      BY ONLY RunInv, <3>1, <3>3, <3>4, <3>5, <3>6, RunMoves
  <2>2. ASSUME NEW end \in Answers, EndWith(c, "REQUEST_COMPLETED", end)
        PROVE  RunInv'
    BY <2>2, EndWithRun DEF RunInv, End
  <2>3. CASE w.end # None /\ Goto(c, "REQUEST_COMPLETED")
    BY <2>3, GotoRun DEF RunInv
  <2> QED
    BY <2>1, <2>2, <2>3
<1>4. CASE Node(c)
  <2> USE <1>4 DEF Node, At, Place, NodePlace, ToolPlace, Running, Closing
  <2>1. CASE w.end = None /\ Goto(c, "audit")
    BY <2>1, GotoRun DEF RunInv
  <2>2. CASE Goto(c, "NODE_COMPLETED")
    BY <2>2, GotoRun DEF RunInv
  <2>3. CASE EndWith(c, "NODE_COMPLETED", "raised")
    BY <2>3, EndWithRun DEF RunInv, End
  <2> QED
    BY <2>1, <2>2, <2>3
<1>5. CASE Unreadable(c)
  BY <1>5, EndsRun DEF Unreadable, At, RunInv
<1>6. ASSUME NEW type \in EventType, RecordEvent(c, type)
      PROVE  RunInv'
  BY <1>6, GotoRun
  DEF RecordEvent, EventType, At, GoOn, RunInv, Place, NodePlace, ToolPlace, Running, Closing
<1>7. CASE StartAudit(c) \/ ListAudit(c)
  <2> USE <1>7 DEF StartAudit, ListAudit, AuditFailure, At, Place, NodePlace, ToolPlace, Running, Closing
  <2>1. CASE GoOn(c)
    BY <2>1, GotoRun DEF RunInv, GoOn
  <2>2. CASE EndWith(c, "NODE_COMPLETED", "error")
    BY <2>2, EndWithRun DEF RunInv, End, Answers
  <2> QED
    BY <2>1, <2>2
<1>8. CASE RunTool(c)
  <2> USE <1>8 DEF RunTool, At, Place, NodePlace, ToolPlace, Running, Closing
  <2>1. CASE Goto(c, "audit_finish")
    BY <2>1, GotoRun DEF RunInv
  <2>2. CASE EndWith(c, "audit_finish", "error")
    BY <2>2, EndWithRun DEF RunInv, End, Answers
  <2> QED
    BY <2>1, <2>2
<1>9. CASE FinishAudit(c)
  BY <1>9, GotoRun DEF FinishAudit, At, GoOn, RunInv, Place, NodePlace, ToolPlace, Running, Closing
<1>10. CASE FinishTrace(c)
  BY <1>10, GotoRun DEF FinishTrace, At, GoOn, RunInv, Place, NodePlace, ToolPlace, Running, Closing
<1>11. CASE RecordExchange(c)
  <2> USE <1>11 DEF RecordExchange, At, Place, NodePlace, ToolPlace, Running, Closing
  <2>1. CASE w.end \in Answers /\ Goto(c, "append") /\ UNCHANGED outcome
    BY <2>1, GotoRun DEF RunInv
  <2>2. CASE w.end \notin Answers /\ Ends(c, w.end)
    BY <2>2, EndsRun DEF RunInv, RunRecord
  <2> QED
    BY <2>1, <2>2
<1>12. CASE Appends(c)
  BY <1>12 DEF Appends, RunInv
<1>13. CASE Return(c)
  BY <1>13, EndsRun DEF Return, At, RunInv, End
<1>14. CASE Crash(c)
  BY <1>14, EndsRun DEF Crash
<1> QED
  BY <1>1, <1>2, <1>3, <1>4, <1>5, <1>6, <1>7, <1>8, <1>9, <1>10, <1>11, <1>12, <1>13, <1>14
  DEF Step

\* What Goto and EndWith make of a request.
LEMMA EndsAt ==
    ASSUME RunInv, NEW c \in Client, run[c] # None, NEW place, NEW end, EndWith(c, place, end)
    PROVE  /\ run'[c].at = place /\ run'[c].request = run[c].request
           /\ run'[c].node = run[c].node /\ run'[c].end = end
BY DEF RunInv, RunRecord, EndWith

LEMMA MovedTo ==
    ASSUME RunInv, NEW c \in Client, run[c] # None, NEW place
    PROVE  /\ run[c] \in RunRecord
           /\ Goto(c, place) =>
                /\ run'[c] = [run[c] EXCEPT !.at = place]
                /\ run'[c].at = place /\ run'[c].request = run[c].request
                /\ run'[c].node = run[c].node /\ run'[c].end = run[c].end
BY DEF RunInv, RunRecord, Goto

\* A step of a client leaves the requests of the others alone.
LEMMA OthersStay ==
    ASSUME RunInv, NEW c \in Client,
           Step(c) \/ Crash(c) \/ \E op \in Operation : Begin(c, op)
    PROVE  \A d \in Client \ {c} : run'[d] = run[d]
BY DEF Step, StartTrace, Open, Proceed, Node, Unreadable, RecordEvent, StartAudit, ListAudit,
       RunTool, FinishAudit, FinishTrace, RecordExchange, Appends, Return, Crash, Begin,
       GoOn, Goto, EndWith, Ends, AuditFailure, RunInv

-----------------------------------------------------------------------------
(* The audit.                                                              *)

LEMMA AuditInitially == Init => AuditInv
BY NoneIsNoText DEF Init, AuditInv, AuditAt, EffectsAudited, AuditTruthful, ToolCall, Finished

\* A step that writes at most the audit of the call of c.
LEMMA AuditWritten ==
    ASSUME RunInv, AuditInv, NEW c \in Client, run[c] # None, begun' = begun,
           \A d \in Client \ {c} : run'[d] = run[d],
           Call(c) \in ToolCall,
           NEW status \in {"STARTED", "SUCCEEDED", "FAILED", None},
           audit' = [audit EXCEPT ![Call(c)] = status],
           listed \subseteq listed', listed' \subseteq listed \cup {Call(c)},
           effects \subseteq effects', effects' \subseteq effects \cup {Call(c)},
           returned \subseteq returned', returned' \subseteq returned \cup {Call(c)},
           Call(c) \in returned' => Call(c) \in effects',
           Call(c) \in effects' => status # None /\ Call(c) \in listed',
           status = "SUCCEEDED" => Call(c) \in returned',
           Call(c) \in returned' => status \in {"STARTED", "SUCCEEDED"},
           run'[c] # None => AuditAt(c)'
    PROVE  AuditInv'
<1> DEFINE k == Call(c)
<1>1. run[c].request \in Request /\ run[c].request <= begun
  BY DEF RunInv, RunRecord
<1>2. audit' \in [ToolCall -> {"STARTED", "SUCCEEDED", "FAILED", None}]
  BY DEF AuditInv
<1>3. audit'[k] = status /\ \A j \in ToolCall : j # k => audit'[j] = audit[j]
  BY DEF AuditInv
<1>4. returned' \subseteq effects' /\ effects' \subseteq ToolCall
  BY DEF AuditInv
<1>5. EffectsAudited'
  BY <1>3, <1>4 DEF AuditInv, EffectsAudited
<1>6. AuditTruthful'
  BY <1>3 DEF AuditInv, AuditTruthful
<1>7. \A r \in Request, n \in 1..MaxNodes : r > begun => audit'[<<r, n>>] = None
  <2> SUFFICES ASSUME NEW r \in Request, NEW n \in 1..MaxNodes, r > begun
               PROVE  audit'[<<r, n>>] = None
    OBVIOUS
  <2>1. <<r, n>> \in ToolCall /\ r # run[c].request
    BY <1>1 DEF ToolCall, Request, RunInv
  <2>2. audit'[<<r, n>>] = audit[<<r, n>>]
    BY <1>3, <2>1 DEF Call
  <2> QED
    BY <2>2 DEF AuditInv
<1>8. ASSUME NEW d \in Client, d # c, run'[d] # None
      PROVE  AuditAt(d)'
  <2>1. run'[d] = run[d] /\ run[d] \in RunRecord /\ run[d].request # run[c].request
    BY <1>8 DEF RunInv
  <2>2. Call(d)' = Call(d) /\ Call(d) # k
    BY <2>1 DEF Call
  <2>3. \A n \in 1..MaxNodes : audit'[<<run[d].request, n>>] = audit[<<run[d].request, n>>]
    BY <1>3, <2>1 DEF Call, ToolCall, RunRecord
  <2>4. run[d].at \in NodePlace => audit'[Call(d)] = audit[Call(d)]
    BY <1>8, <2>1, <2>3 DEF Call, RunInv, RunRecord
  <2>5. AuditAt(d)
    BY <1>8, <2>1 DEF AuditInv
  <2> QED
    BY <2>1, <2>2, <2>3, <2>4, <2>5 DEF AuditAt, NodePlace, ToolPlace
<1> QED
  BY <1>2, <1>4, <1>5, <1>6, <1>7, <1>8 DEF AuditInv

\* A step that writes nothing of the audit.
LEMMA AuditKept ==
    ASSUME RunInv, AuditInv, UNCHANGED auditVars, NEW c \in Client, begun' = begun,
           \A d \in Client \ {c} : run'[d] = run[d],
           run'[c] # None => AuditAt(c)'
    PROVE  AuditInv'
<1>1. ASSUME NEW d \in Client, d # c, run'[d] # None
      PROVE  AuditAt(d)'
  BY <1>1 DEF AuditInv, AuditAt, Call, auditVars
<1> QED
  BY <1>1 DEF AuditInv, EffectsAudited, AuditTruthful, auditVars

\* The call of a request that is at its node.
LEMMA CallIsToolCall ==
    ASSUME RunInv, NEW c \in Client, run[c] # None, run[c].at \in NodePlace
    PROVE  /\ Call(c) \in ToolCall
           /\ run[c].node \in 1..MaxNodes
BY DEF RunInv, RunRecord, Call, ToolCall

LEMMA BeginAudit ==
    ASSUME RunInv, AuditInv, NEW c \in Client, NEW op \in Operation, setting' = setting,
           Begin(c, op)
    PROVE  AuditInv'
<1>1. begun + 1 \in Request /\ begun' = begun + 1 /\ UNCHANGED auditVars
  BY RecordsAssumption DEF RunInv, Begin, Request
<1>2. \A d \in Client \ {c} : run'[d] = run[d]
  BY OthersStay
<1>3. /\ run'[c].request = begun + 1 /\ run'[c].at = "trace"
  BY DEF Begin, RunInv
<1>4. \A n \in 1..MaxNodes : audit[<<begun + 1, n>>] = None
  BY <1>1 DEF AuditInv, RunInv
<1>5. AuditAt(c)'
  BY <1>1, <1>3, <1>4 DEF AuditAt, auditVars
<1>6. ASSUME NEW d \in Client, d # c, run'[d] # None
      PROVE  AuditAt(d)'
  BY <1>1, <1>2, <1>6 DEF AuditInv, AuditAt, Call, auditVars
<1>7. \A r \in Request, n \in 1..MaxNodes : r > begun + 1 => audit[<<r, n>>] = None
  BY DEF AuditInv, RunInv, Request
<1> QED
  BY <1>1, <1>5, <1>6, <1>7 DEF AuditInv, EffectsAudited, AuditTruthful, auditVars

\* Nobody writes the audit of a request outside its nodes, or in them but by
\* execute_tool.
LEMMA QuietAudit ==
    ASSUME RunInv, AuditInv, UNCHANGED <<auditVars, begun>>, NEW c \in Client, run[c] # None,
           \A d \in Client \ {c} : run'[d] = run[d],
           run'[c] # None =>
             /\ run'[c].request = run[c].request /\ run'[c].node = run[c].node
             /\ \/ run'[c].at \notin {"NODE_STARTED", "node", "audit", "list", "TOOL_STARTED",
                                     "operation", "audit_finish"}
                \/ run[c].at = "NODE_STARTED" /\ run'[c].at = "node"
                \/ run[c].at = "node" /\ run'[c].at = "audit"
                \/ run[c].at = "TOOL_STARTED" /\ run'[c].at = "operation"
    PROVE  AuditInv'
<1>1. AuditAt(c)
  BY DEF AuditInv
<1>2. run'[c] # None => AuditAt(c)'
  BY <1>1 DEF AuditAt, Call, auditVars
<1> QED
  BY <1>2, AuditKept DEF auditVars

LEMMA StartAuditAudit ==
    ASSUME RunInv, AuditInv, NEW c \in Client, StartAudit(c)
    PROVE  AuditInv'
<1>1. /\ run[c] # None /\ run[c].at = "audit" /\ Call(c) \in ToolCall /\ begun' = begun
      /\ \A d \in Client \ {c} : run'[d] = run[d]
      /\ UNCHANGED <<listed, effects, returned>>
  BY CallIsToolCall, OthersStay
  DEF StartAudit, At, Step, traceVars, NodePlace, ToolPlace
<1>2. audit[Call(c)] = None /\ AuditAt(c) /\ Call(c) \notin effects /\ Call(c) \notin returned
  BY <1>1 DEF AuditInv, AuditAt, EffectsAudited
<1>3. CASE audit' = [audit EXCEPT ![Call(c)] = "STARTED"]
  <2>1. /\ run'[c].request = run[c].request /\ run'[c].node = run[c].node
        /\ run'[c].at \in {"list", "NODE_COMPLETED"}
    BY <1>1, MovedTo, EndsAt, FollowingPlaces DEF StartAudit, GoOn, AuditFailure
  <2>2. audit'[Call(c)] = "STARTED"
        /\ \A n \in 1..MaxNodes : n # run[c].node =>
             audit'[<<run[c].request, n>>] = audit[<<run[c].request, n>>]
    BY <1>1, <1>3 DEF AuditInv, Call, ToolCall, RunInv, RunRecord
  <2>3. AuditAt(c)'
    BY <1>1, <1>2, <2>1, <2>2, CallIsToolCall DEF AuditAt, Call, NodePlace, ToolPlace
  <2>4. /\ listed' = listed /\ effects' = effects /\ returned' = returned
        /\ Call(c) \notin effects' /\ Call(c) \notin returned' /\ "STARTED" # None
    BY <1>1, <1>2, NoneIsNoText
  <2> QED
    BY ONLY RunInv, AuditInv, c \in Client, <1>1, <1>3, <2>3, <2>4, AuditWritten
<1>4. CASE audit' = audit
  <2>1. \/ audit' = [audit EXCEPT ![Call(c)] = "STARTED"]
        \/ EndWith(c, "NODE_COMPLETED", "error")
    BY DEF StartAudit, AuditFailure
  <2>2. CASE EndWith(c, "NODE_COMPLETED", "error")
    <3>1. /\ run'[c].request = run[c].request /\ run'[c].node = run[c].node
          /\ run'[c].at = "NODE_COMPLETED"
      BY <1>1, <2>2, EndsAt
    <3>2. UNCHANGED <<auditVars, begun>>
      BY <1>1, <1>4 DEF auditVars
    <3> QED
      BY <1>1, <3>1, <3>2, QuietAudit
  <2> QED
    BY <1>3, <2>1, <2>2
<1> QED
  BY <1>3, <1>4 DEF StartAudit

LEMMA ListAuditAudit ==
    ASSUME RunInv, AuditInv, NEW c \in Client, ListAudit(c)
    PROVE  AuditInv'
<1>1. /\ run[c] # None /\ run[c].at = "list" /\ Call(c) \in ToolCall /\ begun' = begun
      /\ \A d \in Client \ {c} : run'[d] = run[d]
      /\ UNCHANGED <<audit, effects, returned>>
  BY CallIsToolCall, OthersStay
  DEF ListAudit, At, Step, traceVars, NodePlace, ToolPlace
<1>2. audit[Call(c)] = "STARTED" /\ AuditAt(c) /\ Call(c) \notin returned
  BY <1>1 DEF AuditInv, AuditAt
<1>3. audit' = [audit EXCEPT ![Call(c)] = "STARTED"]
  BY <1>1, <1>2 DEF AuditInv
<1>4. listed \subseteq listed' /\ listed' \subseteq listed \cup {Call(c)}
  BY DEF ListAudit
<1>5. /\ run'[c].request = run[c].request /\ run'[c].node = run[c].node
      /\ \/ run'[c].at = "TOOL_STARTED" /\ listed' = listed \cup {Call(c)}
         \/ run'[c].at = "NODE_COMPLETED"
  BY <1>1, MovedTo, EndsAt, FollowingPlaces DEF ListAudit, GoOn, AuditFailure
<1>6. AuditAt(c)'
  BY <1>1, <1>2, <1>5 DEF AuditAt, Call
<1>7. Call(c) \in effects => Call(c) \in listed
  BY DEF AuditInv, EffectsAudited
<1> QED
  BY <1>1, <1>2, <1>3, <1>4, <1>6, <1>7, AuditWritten, NoneIsNoText

LEMMA RunToolAudit ==
    ASSUME RunInv, AuditInv, NEW c \in Client, RunTool(c)
    PROVE  AuditInv'
<1>1. /\ run[c] # None /\ run[c].at = "operation" /\ Call(c) \in ToolCall /\ begun' = begun
      /\ \A d \in Client \ {c} : run'[d] = run[d]
      /\ UNCHANGED <<audit, listed>> /\ run[c].end = None
  BY CallIsToolCall, OthersStay
  DEF RunTool, At, Step, traceVars, NodePlace, ToolPlace, RunInv, Running
<1>2. /\ audit[Call(c)] = "STARTED" /\ AuditAt(c) /\ Call(c) \notin returned
      /\ Call(c) \in listed
  BY <1>1 DEF AuditInv, AuditAt
<1>3. audit' = [audit EXCEPT ![Call(c)] = "STARTED"]
  BY <1>1, <1>2 DEF AuditInv
<1>4. /\ run'[c].request = run[c].request /\ run'[c].node = run[c].node
      /\ run'[c].at = "audit_finish"
      /\ \/ /\ run'[c].end = None /\ effects' = effects \cup {Call(c)}
            /\ returned' = returned \cup {Call(c)}
         \/ /\ run'[c].end = "error" /\ UNCHANGED returned
            /\ effects' \in {effects, effects \cup {Call(c)}}
  <2>1. CASE Goto(c, "audit_finish") /\ effects' = effects \cup {Call(c)}
             /\ returned' = returned \cup {Call(c)}
    BY <1>1, <2>1, MovedTo
  <2>2. CASE EndWith(c, "audit_finish", "error") /\ UNCHANGED returned
             /\ effects' \in {effects, effects \cup {Call(c)}}
    <3>1. /\ run'[c].request = run[c].request /\ run'[c].node = run[c].node
          /\ run'[c].at = "audit_finish" /\ run'[c].end = "error"
      BY <1>1, <2>2, EndsAt
    <3> QED
      BY <2>2, <3>1
  <2> QED
    BY <2>1, <2>2 DEF RunTool
<1>5. AuditAt(c)'
  BY <1>1, <1>2, <1>4, NoneIsNoText DEF AuditAt, Call, End, Answers
<1>6. Call(c) \in returned' => Call(c) \in effects'
  BY <1>4 DEF AuditInv
<1> QED
  BY <1>1, <1>2, <1>3, <1>4, <1>5, <1>6, AuditWritten, NoneIsNoText

LEMMA FinishAuditAudit ==
    ASSUME RunInv, AuditInv, NEW c \in Client, FinishAudit(c)
    PROVE  AuditInv'
<1>1. /\ run[c] # None /\ run[c].at = "audit_finish" /\ Call(c) \in ToolCall /\ begun' = begun
      /\ \A d \in Client \ {c} : run'[d] = run[d]
      /\ UNCHANGED <<listed, effects, returned>> /\ run[c].end \in {None, "error"}
  BY CallIsToolCall, OthersStay
  DEF FinishAudit, At, Step, traceVars, NodePlace, ToolPlace, RunInv
<1>2. /\ audit[Call(c)] = "STARTED" /\ AuditAt(c) /\ Call(c) \in listed
      /\ run[c].end = None <=> Call(c) \in returned
  BY <1>1 DEF AuditInv, AuditAt
<1>3. /\ run'[c].request = run[c].request /\ run'[c].node = run[c].node
      /\ run'[c].at = "TOOL_COMPLETED"
  BY <1>1, MovedTo, FollowingPlaces DEF FinishAudit, GoOn
<1>4. PICK status \in {"STARTED", ToolStatus(c)} : audit' = [audit EXCEPT ![Call(c)] = status]
  BY <1>1, <1>2 DEF FinishAudit, AuditInv
<1>5. /\ status \in {"STARTED", "SUCCEEDED", "FAILED"}
      /\ status = "SUCCEEDED" => Call(c) \in returned
      /\ Call(c) \in returned => status \in {"STARTED", "SUCCEEDED"}
  BY <1>1, <1>2, NoneIsNoText DEF ToolStatus, End, Answers
<1>6. AuditAt(c)'
  <2>1. \A n \in 1..MaxNodes : n # run[c].node =>
          audit'[<<run[c].request, n>>] = audit[<<run[c].request, n>>]
    BY <1>1, <1>4 DEF AuditInv, Call, ToolCall, RunInv, RunRecord
  <2> QED
    BY <1>1, <1>2, <1>3, <2>1, CallIsToolCall DEF AuditAt, NodePlace, ToolPlace
<1>7. Call(c) \in returned => Call(c) \in effects
  BY DEF AuditInv
<1>8. status # None
  BY <1>5, NoneIsNoText DEF Finished
<1> QED
  BY <1>1, <1>2, <1>4, <1>5, <1>6, <1>7, <1>8, AuditWritten

LEMMA StepAudit ==
    ASSUME RunInv, AuditInv, NEW c \in Client, Step(c) \/ Crash(c)
    PROVE  AuditInv'
<1>1. \A d \in Client \ {c} : run'[d] = run[d]
  BY OthersStay
<1> DEFINE Quiet == {"NODE_STARTED", "node", "audit", "list", "TOOL_STARTED", "operation",
                     "audit_finish"}
<1>2. ASSUME run[c] # None, UNCHANGED <<auditVars, begun>>, NEW place, Goto(c, place),
             \/ place \notin Quiet
             \/ run[c].at = "NODE_STARTED" /\ place = "node"
             \/ run[c].at = "node" /\ place = "audit"
             \/ run[c].at = "TOOL_STARTED" /\ place = "operation"
      PROVE  AuditInv'
  BY <1>1, <1>2, MovedTo, QuietAudit
<1>3. ASSUME run[c] # None, UNCHANGED <<auditVars, begun>>, NEW place, NEW end,
             EndWith(c, place, end), place \notin Quiet
      PROVE  AuditInv'
  BY <1>1, <1>3, EndsAt, QuietAudit
<1>4. ASSUME run[c] # None, UNCHANGED <<auditVars, begun>>, run'[c] = None
      PROVE  AuditInv'
  BY <1>1, <1>4, QuietAudit
<1> HIDE DEF Quiet
<1> USE DEF traceVars
<1>5. CASE StartTrace(c)
  BY <1>2, <1>5, FollowingPlaces DEF StartTrace, At, GoOn, Quiet
<1>6. CASE Open(c)
  BY <1>2, <1>3, <1>6, FollowingPlaces DEF Open, At, Quiet
<1>7. CASE Proceed(c)
  <2>1. CASE /\ run[c].node < setting.nodes
             /\ run' = [run EXCEPT ![c].at = "NODE_STARTED", ![c].node = @ + 1]
    <3>1. /\ run[c] # None /\ run[c] \in RunRecord
          /\ run[c].node + 1 \in 1..MaxNodes /\ UNCHANGED <<auditVars, begun>>
      BY <1>7, <2>1, RecordsAssumption DEF Proceed, At, RunInv, RunRecord
    <3>2. /\ run'[c].request = run[c].request /\ run'[c].node = run[c].node + 1
          /\ run'[c].at = "NODE_STARTED"
      BY <2>1, <3>1 DEF RunInv, RunRecord
    <3>3. \A n \in 1..MaxNodes : n > run[c].node => audit[<<run[c].request, n>>] = None
      BY <3>1 DEF AuditInv, AuditAt
    <3>4. AuditAt(c)'
      BY <3>1, <3>2, <3>3 DEF AuditAt, Call, auditVars, RunRecord
    <3> QED
      BY <1>1, <3>1, <3>4, AuditKept
  <2>2. ASSUME NEW end \in Answers, EndWith(c, "REQUEST_COMPLETED", end)
        PROVE  AuditInv'
    BY <1>3, <1>7, <2>2 DEF Proceed, At, Quiet
  <2>3. CASE Goto(c, "REQUEST_COMPLETED")
    BY <1>2, <1>7, <2>3 DEF Proceed, At, Quiet
  <2> QED
    BY <1>7, <2>1, <2>2, <2>3, FollowingPlaces DEF Proceed
<1>8. CASE Node(c)
  <2>1. run[c] # None /\ run[c].at = "node" /\ UNCHANGED <<auditVars, begun>>
    BY <1>8 DEF Node, At
  <2>2. CASE EndWith(c, "NODE_COMPLETED", "raised")
    <3>1. "NODE_COMPLETED" \notin Quiet
      BY DEF Quiet
    <3> QED
      BY <1>3, <2>1, <2>2, <3>1
  <2>3. CASE Goto(c, "audit") \/ Goto(c, "NODE_COMPLETED")
    BY <1>2, <2>1, <2>3 DEF Quiet
  <2> QED
    BY <1>8, <2>2, <2>3 DEF Node
<1>9. CASE Unreadable(c) \/ Return(c)
  BY <1>4, <1>9 DEF Unreadable, Return, At, Ends, RunInv
<1>10. ASSUME NEW type \in EventType, RecordEvent(c, type)
       PROVE  AuditInv'
  BY <1>2, <1>10, FollowingPlaces DEF RecordEvent, EventType, At, GoOn, Quiet
<1>11. CASE StartAudit(c) \/ ListAudit(c) \/ RunTool(c) \/ FinishAudit(c)
  BY <1>11, StartAuditAudit, ListAuditAudit, RunToolAudit, FinishAuditAudit
<1>12. CASE FinishTrace(c)
  BY <1>2, <1>12, FollowingPlaces DEF FinishTrace, At, GoOn, Quiet
<1>13. CASE RecordExchange(c)
  BY <1>2, <1>4, <1>13 DEF RecordExchange, At, Ends, RunInv, Quiet
<1>14. CASE Appends(c)
  BY <1>14 DEF Appends, AuditInv, AuditAt, Call, EffectsAudited, AuditTruthful, auditVars
<1>15. CASE Crash(c)
  BY <1>4, <1>15 DEF Crash, Ends, RunInv
<1> QED
  BY <1>5, <1>6, <1>7, <1>8, <1>9, <1>10, <1>11, <1>12, <1>13, <1>14, <1>15 DEF Step

-----------------------------------------------------------------------------
(* The trace.                                                              *)

LEMMA TraceInitially == Init => TraceInv
BY DEF Init, TraceInv, TraceTruthful

\* A step that writes at most the trace of the request of c, and ends at most
\* that request.
LEMMA TraceWritten ==
    ASSUME RunInv, TraceInv, NEW c \in Client, run[c] # None, begun' = begun,
           \A d \in Client \ {c} : run'[d] = run[d],
           UNCHANGED faults \/ Fault,
           NEW status \in Finished \cup {"RUNNING", None},
           trace' = [trace EXCEPT ![run[c].request] = status],
           \A r \in Request : r # run[c].request => outcome'[r] = outcome[r],
           outcome'[run[c].request] # None =>
             /\ status \in Finished /\ outcome'[run[c].request] # "crashed" =>
                  status = StatusOf(outcome'[run[c].request])
             /\ faults' = 0 /\ outcome'[run[c].request] # "unreadable" => status \in Finished,
           run'[c] # None => TraceAt(c)'
    PROVE  TraceInv'
<1>1. /\ run[c].request \in Request /\ run[c].request <= begun
      /\ faults' = 0 => faults = 0
  BY FaultCounted DEF RunInv, RunRecord
<1>2. /\ trace' \in [Request -> Finished \cup {"RUNNING", None}]
      /\ trace'[run[c].request] = status
      /\ \A r \in Request : r # run[c].request => trace'[r] = trace[r]
  BY <1>1 DEF TraceInv
<1>3. \A r \in Request : r > begun => trace'[r] = None
  BY <1>1, <1>2 DEF TraceInv, RunInv, Request
<1>4. TraceTruthful'
  BY <1>1, <1>2 DEF TraceInv, TraceTruthful
<1>5. ASSUME NEW d \in Client, d # c, run'[d] # None
      PROVE  TraceAt(d)'
  <2>1. run'[d] = run[d] /\ run[d].request # run[c].request /\ run[d].request \in Request
    BY <1>5 DEF RunInv, RunRecord
  <2>2. TraceAt(d) /\ trace'[run[d].request] = trace[run[d].request]
    BY <1>2, <1>5, <2>1 DEF TraceInv
  <2> QED
    BY <1>1, <2>1, <2>2 DEF TraceAt
<1> QED
  BY <1>2, <1>3, <1>4, <1>5 DEF TraceInv

\* A step that writes no trace and ends no request.
LEMMA TraceKept ==
    ASSUME RunInv, TraceInv, NEW c \in Client, run[c] # None, begun' = begun,
           \A d \in Client \ {c} : run'[d] = run[d],
           UNCHANGED faults \/ Fault, UNCHANGED <<trace, outcome>>,
           run'[c] # None =>
             /\ run'[c].request = run[c].request
             /\ run[c].at = "trace" => run'[c].at = "trace"
             /\ run'[c].at \in {"respond", "append"} <=> run[c].at \in {"respond", "append"}
             /\ run[c].at \in {"respond", "append"} => run'[c].end = run[c].end
    PROVE  TraceInv'
<1>1. run[c].request \in Request /\ (faults' = 0 => faults = 0)
  BY FaultCounted DEF RunInv, RunRecord
<1>2. trace' = [trace EXCEPT ![run[c].request] = trace[run[c].request]]
      /\ trace[run[c].request] \in Finished \cup {"RUNNING", None}
  BY <1>1 DEF TraceInv
<1>3. TraceAt(c)
  BY DEF TraceInv
<1>4. run'[c] # None => TraceAt(c)'
  BY <1>1, <1>3 DEF TraceAt
<1>5. outcome'[run[c].request] = None
  BY DEF RunInv
<1> QED
  BY <1>2, <1>4, <1>5, TraceWritten

LEMMA BeginTrace ==
    ASSUME RunInv, TraceInv, NEW c \in Client, NEW op \in Operation, setting' = setting,
           Begin(c, op)
    PROVE  TraceInv'
<1>1. /\ begun + 1 \in Request /\ begun' = begun + 1 /\ begun \in Nat
      /\ UNCHANGED <<trace, outcome, faults>>
  BY RecordsAssumption DEF RunInv, Begin, Request
<1>2. \A d \in Client \ {c} : run'[d] = run[d]
  BY OthersStay
<1>3. run'[c].request = begun + 1 /\ run'[c].at = "trace"
  BY DEF Begin, RunInv
<1>4. trace[begun + 1] = None
  BY <1>1 DEF TraceInv
<1>5. TraceAt(c)'
  BY <1>1, <1>3, <1>4, NoneIsNoText DEF TraceAt
<1>6. ASSUME NEW d \in Client, d # c, run'[d] # None
      PROVE  TraceAt(d)'
  BY <1>1, <1>2, <1>6 DEF TraceInv, TraceAt
<1>7. \A r \in Request : r > begun + 1 => trace[r] = None
  BY <1>1 DEF TraceInv, Request
<1> QED
  BY <1>1, <1>5, <1>6, <1>7 DEF TraceInv, TraceTruthful

LEMMA StartTraceTrace ==
    ASSUME RunInv, TraceInv, NEW c \in Client, StartTrace(c)
    PROVE  TraceInv'
<1> DEFINE r == run[c].request
<1>1. /\ run[c] # None /\ run[c].at = "trace" /\ r \in Request
      /\ UNCHANGED <<begun, outcome>> /\ outcome[r] = None
      /\ UNCHANGED faults \/ Fault
      /\ \A d \in Client \ {c} : run'[d] = run[d]
  BY OthersStay DEF StartTrace, Step, At, RunInv, RunRecord
<1>2. TraceAt(c)
  BY <1>1 DEF TraceInv
<1>3. PICK status \in {"RUNNING", trace[r]} :
         /\ trace' = [trace EXCEPT ![r] = status]
         /\ faults' = 0 => status = "RUNNING"
  <2>1. trace' = trace => trace' = [trace EXCEPT ![r] = trace[r]]
    BY <1>1 DEF TraceInv
  <2>2. Fault => faults' # 0
    BY DEF Fault, RunInv
  <2> QED
    BY <2>1, <2>2 DEF StartTrace
<1>4. status \in {"RUNNING", None} /\ trace'[r] = status
  BY <1>1, <1>2, <1>3 DEF TraceAt, TraceInv
<1>5. run'[c].request = r /\ run'[c].at \in {"REQUEST_STARTED", "opened"}
  BY <1>1, MovedTo, FollowingPlaces DEF StartTrace, GoOn
<1>6. TraceAt(c)'
  BY <1>3, <1>4, <1>5, NoneIsNoText DEF TraceAt, Finished
<1> HIDE DEF r
<1> QED
  BY <1>1, <1>3, <1>4, <1>6, TraceWritten DEF r

LEMMA FinishTraceTrace ==
    ASSUME RunInv, TraceInv, NEW c \in Client, FinishTrace(c)
    PROVE  TraceInv'
<1> DEFINE r == run[c].request
           final == StatusOf(run[c].end)
<1>1. /\ run[c] # None /\ run[c].at = "finish" /\ r \in Request
      /\ UNCHANGED <<begun, outcome>> /\ outcome[r] = None
      /\ UNCHANGED faults \/ Fault
      /\ \A d \in Client \ {c} : run'[d] = run[d]
  BY OthersStay DEF FinishTrace, Step, At, RunInv, RunRecord
<1>2. TraceAt(c) /\ trace[r] \in {"RUNNING", None} /\ (faults = 0 => trace[r] = "RUNNING")
  BY <1>1 DEF TraceInv, TraceAt
<1>3. final \in Finished
  BY DEF StatusOf, Finished
<1>4. PICK status \in {final, trace[r]} :
         /\ trace' = [trace EXCEPT ![r] = status]
         /\ faults' = 0 => status = final
  <2>1. trace' = trace => trace' = [trace EXCEPT ![r] = trace[r]]
    BY <1>1 DEF TraceInv
  <2>2. Fault => faults' # 0
    BY DEF Fault, RunInv
  <2>3. CASE trace[r] = None
    BY <1>2, <2>1, <2>2, <2>3, NoneIsNoText DEF FinishTrace
  <2>4. CASE trace[r] # None
    BY <2>1, <2>2, <2>4 DEF FinishTrace
  <2> QED
    BY <2>3, <2>4
<1>5. trace'[r] = status /\ status \in Finished \cup {"RUNNING", None}
      /\ (status \in Finished => status = final)
  BY <1>1, <1>2, <1>3, <1>4, NoneIsNoText DEF TraceInv, Finished
<1>6. run'[c].request = r /\ run'[c].at = "respond" /\ run'[c].end = run[c].end
  BY <1>1, MovedTo, FollowingPlaces DEF FinishTrace, GoOn
<1>7. TraceAt(c)'
  BY <1>3, <1>4, <1>5, <1>6 DEF TraceAt
<1> HIDE DEF r, final
<1> QED
  BY <1>1, <1>4, <1>5, <1>7, TraceWritten DEF r

\* The end of a request, whichever it is.
LEMMA EndsTrace ==
    ASSUME RunInv, TraceInv, NEW c \in Client, run[c] # None, begun' = begun,
           \A d \in Client \ {c} : run'[d] = run[d],
           UNCHANGED faults \/ Fault, UNCHANGED trace, NEW end, Ends(c, end),
           \/ end = "crashed" /\ Fault
           \/ end = "unreadable" /\ run[c].at = "opened"
           \/ end = run[c].end /\ run[c].at \in {"respond", "append"}
    PROVE  TraceInv'
<1> DEFINE r == run[c].request
<1>1. r \in Request /\ (faults' = 0 => faults = 0) /\ (Fault => faults' # 0)
  BY FaultCounted DEF RunInv, RunRecord, Fault
<1>2. trace' = [trace EXCEPT ![r] = trace[r]] /\ trace[r] \in Finished \cup {"RUNNING", None}
  BY <1>1 DEF TraceInv
<1>3. TraceAt(c)
  BY DEF TraceInv
<1>4. /\ outcome'[r] = end /\ run'[c] = None
      /\ \A q \in Request : q # r => outcome'[q] = outcome[q]
  BY <1>1 DEF Ends, RunInv
<1>5. /\ trace[r] \in Finished /\ end # "crashed" => trace[r] = StatusOf(end)
      /\ faults' = 0 /\ end # "unreadable" => trace[r] \in Finished
  BY <1>1, <1>3 DEF TraceAt
<1> HIDE DEF r
<1> QED
  BY <1>2, <1>4, <1>5, TraceWritten DEF r

LEMMA StepTrace ==
    ASSUME RunInv, TraceInv, NEW c \in Client, Step(c) \/ Crash(c)
    PROVE  TraceInv'
<1>1. \A d \in Client \ {c} : run'[d] = run[d]
  BY OthersStay
<1> DEFINE Kept == UNCHANGED <<begun, trace, outcome>> /\ (UNCHANGED faults \/ Fault)
           Late == {"respond", "append"}
<1>2. ASSUME run[c] # None, Kept, NEW place, Goto(c, place), run[c].at # "trace",
             place \in Late <=> run[c].at \in Late
      PROVE  TraceInv'
  BY <1>1, <1>2, MovedTo, TraceKept
<1>3. ASSUME run[c] # None, Kept, NEW place, NEW end, EndWith(c, place, end),
             run[c].at \notin Late \cup {"trace"}, place \notin Late
      PROVE  TraceInv'
  BY <1>1, <1>3, EndsAt, TraceKept
<1> HIDE DEF Late
<1> USE DEF traceVars
<1>4. CASE StartTrace(c)
  BY <1>4, StartTraceTrace
<1>5. CASE Open(c)
  BY <1>2, <1>3, <1>5, FollowingPlaces DEF Open, At, Late
<1>6. CASE Proceed(c)
  <2>1. run[c] # None /\ run[c].at = "next" /\ Kept
    BY <1>6 DEF Proceed, At
  <2>2. CASE run' = [run EXCEPT ![c].at = "NODE_STARTED", ![c].node = @ + 1]
    <3>1. run'[c].request = run[c].request /\ run'[c].at = "NODE_STARTED"
      BY <2>1, <2>2 DEF RunInv, RunRecord
    <3> QED
      BY <1>1, <2>1, <3>1, TraceKept
  <2>3. ASSUME NEW end \in Answers, EndWith(c, "REQUEST_COMPLETED", end)
        PROVE  TraceInv'
    BY <1>3, <2>1, <2>3 DEF Late
  <2>4. CASE Goto(c, "REQUEST_COMPLETED")
    BY <1>2, <2>1, <2>4 DEF Late
  <2> QED
    BY <1>6, <2>2, <2>3, <2>4, FollowingPlaces DEF Proceed
<1>7. CASE Node(c)
  <2>1. run[c] # None /\ run[c].at = "node" /\ Kept
    BY <1>7 DEF Node, At
  <2>2. CASE EndWith(c, "NODE_COMPLETED", "raised")
    <3>1. "NODE_COMPLETED" \notin Late /\ run[c].at \notin Late \cup {"trace"}
      BY <2>1 DEF Late
    <3> QED
      BY <1>3, <2>1, <2>2, <3>1
  <2>3. CASE Goto(c, "audit") \/ Goto(c, "NODE_COMPLETED")
    BY <1>2, <2>1, <2>3 DEF Late
  <2> QED
    BY <1>7, <2>2, <2>3 DEF Node
<1>8. CASE Unreadable(c)
  BY <1>1, <1>8, EndsTrace DEF Unreadable, At
<1>9. ASSUME NEW type \in EventType, RecordEvent(c, type)
      PROVE  TraceInv'
  BY <1>2, <1>9, FollowingPlaces DEF RecordEvent, EventType, At, GoOn, Late
<1>10. CASE StartAudit(c) \/ ListAudit(c)
  <2>1. run[c] # None /\ run[c].at \in {"audit", "list"} /\ Kept
    BY <1>10 DEF StartAudit, ListAudit, At
  <2>2. CASE GoOn(c)
    BY <1>2, <2>1, <2>2, FollowingPlaces DEF GoOn, Late
  <2>3. CASE EndWith(c, "NODE_COMPLETED", "error")
    <3>1. "NODE_COMPLETED" \notin Late /\ run[c].at \notin Late \cup {"trace"}
      BY <2>1 DEF Late
    <3> QED
      BY <1>3, <2>1, <2>3, <3>1
  <2> QED
    BY <1>10, <2>2, <2>3 DEF StartAudit, ListAudit, AuditFailure
<1>11. CASE RunTool(c)
  <2>1. run[c] # None /\ run[c].at = "operation" /\ Kept
    BY <1>11 DEF RunTool, At
  <2>2. CASE Goto(c, "audit_finish")
    BY <1>2, <2>1, <2>2 DEF Late
  <2>3. CASE EndWith(c, "audit_finish", "error")
    <3>1. "audit_finish" \notin Late /\ run[c].at \notin Late \cup {"trace"}
      BY <2>1 DEF Late
    <3> QED
      BY <1>3, <2>1, <2>3, <3>1
  <2> QED
    BY <1>11, <2>2, <2>3 DEF RunTool
<1>12. CASE FinishAudit(c)
  BY <1>2, <1>12, FollowingPlaces DEF FinishAudit, At, GoOn, Late
<1>13. CASE FinishTrace(c)
  BY <1>13, FinishTraceTrace
<1>14. CASE RecordExchange(c)
  <2>1. CASE Goto(c, "append") /\ UNCHANGED outcome
    BY <1>2, <1>14, <2>1 DEF RecordExchange, At, Late
  <2>2. CASE Ends(c, run[c].end)
    BY <1>1, <1>14, <2>2, EndsTrace DEF RecordExchange, At
  <2> QED
    BY <1>14, <2>1, <2>2 DEF RecordExchange
<1>15. CASE Return(c)
  BY <1>1, <1>15, EndsTrace DEF Return, At
<1>16. CASE Appends(c)
  <2>1. UNCHANGED <<run, begun, trace, outcome>> /\ (faults' = 0 => faults = 0)
    BY <1>16, FaultCounted DEF Appends, RunInv
  <2> QED
    BY <2>1 DEF TraceInv, TraceTruthful, TraceAt
<1>17. CASE Crash(c)
  BY <1>1, <1>17, EndsTrace DEF Crash
<1> QED
  BY <1>4, <1>5, <1>6, <1>7, <1>8, <1>9, <1>10, <1>11, <1>12, <1>13, <1>14, <1>15, <1>16,
     <1>17 DEF Step

-----------------------------------------------------------------------------
(* The events.                                                             *)

\* A set of natural numbers that is not empty has a least element.
LEMMA LeastNumber ==
    ASSUME NEW N, N \subseteq Nat, N # {}
    PROVE  \E m \in N : \A n \in N : m <= n
<1> DEFINE R == {p \in Nat \X Nat : p[1] < p[2]}
<1>1. IsWellFoundedOn(R, Nat)
  BY NatLessThanWellFounded DEF OpToRel
<1>2. PICK m \in N : \A n \in N : <<n, m>> \notin R
  <2> HIDE DEF R
  <2> QED
    BY <1>1, WFMin
<1>3. ASSUME NEW n \in N
      PROVE  m <= n
  <2>1. n < m => <<n, m>> \in R
    OBVIOUS
  <2> QED
    BY <1>2, <2>1
<1> QED
  BY <1>3

\* ZREMRANGEBYRANK leaves at most trace_max_events events.
LEMMA LatestBounded ==
    ASSUME NEW S \in SUBSET Event, IsFiniteSet(S)
    PROVE  /\ Latest(S) \subseteq S
           /\ IsFiniteSet(Latest(S))
           /\ Cardinality(Latest(S)) <= MaxEvents
<1> DEFINE L == Latest(S)
           N == {e.number : e \in L}
<1>1. L \subseteq S /\ IsFiniteSet(L)
  <2>1. L \subseteq S
    BY DEF Latest
  <2> QED
    BY <2>1, FS_Subset
<1>2. CASE L = {}
  BY <1>1, <1>2, FS_EmptySet, RecordsAssumption
<1>3. CASE L # {}
  <2>1. N \subseteq Nat /\ N # {}
    BY <1>1, <1>3 DEF Event
  <2>2. PICK e \in L : \A f \in L : e.number <= f.number
    <3>1. PICK m \in N : \A n \in N : m <= n
      BY ONLY <2>1, LeastNumber
    <3> QED
      BY <3>1
  <2> DEFINE above == {f \in S : f.number >= e.number}
  <2>3. Cardinality(above) <= MaxEvents
    BY <2>2 DEF Latest
  <2>4. L \subseteq above
    BY <1>1, <2>2 DEF Event
  <2>5. IsFiniteSet(above)
    BY FS_Subset
  <2>6. Cardinality(L) <= Cardinality(above)
    BY <2>4, <2>5, FS_Subset
  <2>7. Cardinality(L) \in Nat /\ Cardinality(above) \in Nat
    BY <1>1, <2>5, FS_CardinalityType
  <2> QED
    BY <1>1, <2>3, <2>6, <2>7, RecordsAssumption
<1> QED
  BY <1>2, <1>3

LEMMA EventsInitially == Init => EventsInv
<1> SUFFICES ASSUME Init
             PROVE  EventsInv
  OBVIOUS
<1>1. IsFiniteSet({}) /\ Cardinality({}) <= MaxEvents
  BY FS_EmptySet, RecordsAssumption
<1> QED
  BY <1>1 DEF Init, EventsInv, Ordered

\* A step that records nothing.
LEMMA EventsKept ==
    ASSUME RunInv, EventsInv, NEW c \in Client, run[c] # None,
           UNCHANGED <<begun, events>>,
           \A d \in Client \ {c} : run'[d] = run[d],
           numbers' \in [Request -> Nat],
           \A r \in Request : r # run[c].request => numbers'[r] = numbers[r],
           run'[c] # None => EventsAt(c)'
    PROVE  EventsInv'
<1>1. run[c].request \in Request /\ run[c].request <= begun
  BY DEF RunInv, RunRecord
<1>2. \A r \in Request : r > begun => numbers'[r] = 0
  BY <1>1 DEF EventsInv, RunInv, Request
<1>3. ASSUME NEW d \in Client, d # c, run'[d] # None
      PROVE  EventsAt(d)'
  <2>1. run'[d] = run[d] /\ run[d].request # run[c].request /\ run[d].request \in Request
    BY <1>3 DEF RunInv, RunRecord
  <2>2. EventsAt(d) /\ numbers'[run[d].request] = numbers[run[d].request]
    BY <1>3, <2>1 DEF EventsInv
  <2> QED
    BY <2>1, <2>2 DEF EventsAt
<1> QED
  BY <1>2, <1>3 DEF EventsInv

\* The places of a node before its last event.
InNode == NodePlace \ {"NODE_COMPLETED"}

LEMMA QuietEvents ==
    ASSUME RunInv, EventsInv, NEW c \in Client, run[c] # None,
           UNCHANGED <<begun, events, numbers>>,
           \A d \in Client \ {c} : run'[d] = run[d],
           run'[c] # None =>
             /\ run'[c].request = run[c].request
             /\ run'[c].at \in {"trace", "REQUEST_STARTED"} => run[c].at = "trace"
             /\ run[c].at \in {"respond", "append"} => run'[c].at \in {"respond", "append"}
             /\ run[c].at \in {"finish", "respond", "append"} =>
                  run'[c].at \in {"respond", "append"}
             /\ \/ run'[c].node = run[c].node /\ (run'[c].at \in InNode => run[c].at \in InNode)
                \/ run'[c].node = run[c].node + 1
    PROVE  EventsInv'
<1>1. EventsAt(c) /\ run[c].request \in Request /\ run[c].node \in Nat
  BY RecordsAssumption DEF EventsInv, RunInv, RunRecord
<1>2. \A e \in events[run[c].request] : e.node \in Nat
  BY <1>1, RecordsAssumption DEF EventsInv, Event
<1>3. run'[c] # None => EventsAt(c)'
  BY <1>1, <1>2 DEF EventsAt, InNode
<1>4. numbers' \in [Request -> Nat] /\ \A r \in Request : numbers'[r] = numbers[r]
  BY DEF EventsInv
<1> QED
  BY <1>3, <1>4, EventsKept

LEMMA BeginEvents ==
    ASSUME RunInv, EventsInv, NEW c \in Client, NEW op \in Operation, setting' = setting,
           Begin(c, op)
    PROVE  EventsInv'
<1>1. /\ begun + 1 \in Request /\ begun' = begun + 1 /\ begun \in Nat
      /\ UNCHANGED <<events, numbers>>
  BY RecordsAssumption DEF RunInv, Begin, Request
<1>2. \A d \in Client \ {c} : run'[d] = run[d]
  BY OthersStay
<1>3. run'[c].request = begun + 1 /\ run'[c].at = "trace"
  BY DEF Begin, RunInv
<1>4. events[begun + 1] = {} /\ numbers[begun + 1] = 0
  BY <1>1 DEF EventsInv
<1>5. EventsAt(c)'
  BY <1>1, <1>3, <1>4 DEF EventsAt
<1>6. ASSUME NEW d \in Client, d # c, run'[d] # None
      PROVE  EventsAt(d)'
  BY <1>1, <1>2, <1>6 DEF EventsInv, EventsAt
<1>7. \A r \in Request : r > begun + 1 => events[r] = {} /\ numbers[r] = 0
  BY <1>1 DEF EventsInv, Request
<1> QED
  BY <1>1, <1>5, <1>6, <1>7 DEF EventsInv

\* finish_trace forgets the numbers, after which no event is recorded.
LEMMA FinishTraceEvents ==
    ASSUME RunInv, EventsInv, NEW c \in Client, FinishTrace(c)
    PROVE  EventsInv'
<1>1. /\ run[c] # None /\ run[c].at = "finish" /\ run[c].request \in Request
      /\ UNCHANGED <<begun, events>>
      /\ numbers' = [numbers EXCEPT ![run[c].request] = 0]
      /\ \A d \in Client \ {c} : run'[d] = run[d]
  BY OthersStay DEF FinishTrace, Step, At, RunInv, RunRecord
<1>2. /\ run'[c].request = run[c].request /\ run'[c].at = "respond"
      /\ run'[c].node = run[c].node
  BY <1>1, MovedTo, FollowingPlaces DEF FinishTrace, GoOn
<1>3. EventsAt(c)
  BY <1>1 DEF EventsInv
<1>4. EventsAt(c)'
  BY <1>1, <1>2, <1>3 DEF EventsAt, NodePlace, ToolPlace
<1>5. numbers' \in [Request -> Nat]
      /\ \A r \in Request : r # run[c].request => numbers'[r] = numbers[r]
  BY <1>1 DEF EventsInv
<1> QED
  BY <1>1, <1>4, <1>5, EventsKept

\* A recorded event is numbered after all others, and none is recorded that
\* has to come before one of them.
LEMMA RecordEventEvents ==
    ASSUME RunInv, EventsInv, NEW c \in Client, NEW type \in EventType, RecordEvent(c, type)
    PROVE  EventsInv'
<1> DEFINE r == run[c].request
           event == [number |-> Numbered(r), type |-> type, node |-> run[c].node]
           S == events[r] \cup {event}
<1>1. /\ run[c] # None /\ run[c].at = type /\ r \in Request /\ r <= begun /\ begun' = begun
      /\ run[c].node \in 0..MaxNodes
      /\ numbers' = [numbers EXCEPT ![r] = Numbered(r)]
      /\ \/ events' = [events EXCEPT ![r] = Latest(S)]
         \/ events' = events
      /\ \A d \in Client \ {c} : run'[d] = run[d]
  BY OthersStay DEF RecordEvent, Step, At, RunInv, RunRecord
<1>2. numbers[r] \in Nat /\ Numbered(r) = numbers[r] + 1 /\ event \in Event
  BY <1>1 DEF EventsInv, Numbered, Event
<1>3. /\ events[r] \subseteq Event /\ IsFiniteSet(events[r])
      /\ Cardinality(events[r]) <= MaxEvents /\ Ordered(events[r])
      /\ EventsAt(c)
  BY <1>1 DEF EventsInv
<1>4. \A e \in events[r] :
        /\ e.number \in Nat /\ e.number <= numbers[r] /\ e.node \in Nat
        /\ e.type # "REQUEST_COMPLETED"
        /\ e.type = "REQUEST_STARTED" => e.number = 1
        /\ e.type = "TOOL_COMPLETED" =>
             /\ e.node <= run[c].node
             /\ run[c].at \in InNode => e.node < run[c].node
  <2>1. run[c].at \notin {"finish", "respond", "append"}
    BY <1>1 DEF EventType
  <2>2. \A e \in events[r] : e.number \in Nat /\ e.node \in Nat
    BY <1>3, RecordsAssumption DEF Event
  <2>3. \A e \in events[r] : e.type = "REQUEST_STARTED" => e.number = 1
    BY <1>1 DEF EventsInv
  <2> QED
    BY <1>3, <2>1, <2>2, <2>3 DEF EventsAt, InNode
<1>5. type = "REQUEST_STARTED" => events[r] = {} /\ numbers[r] = 0
  BY <1>1, <1>3 DEF EventsAt
<1>6. /\ event.number = numbers[r] + 1 /\ event.type = type /\ event.node = run[c].node
      /\ run[c].node \in Nat
  BY <1>1, <1>2, RecordsAssumption
<1> HIDE DEF r, event
<1>7. Ordered(S)
  <2> SUFFICES ASSUME NEW e \in S, NEW f \in S
               PROVE  /\ e.number = f.number => e = f
                      /\ e.type = "REQUEST_STARTED"   => e.number <= f.number
                      /\ e.type = "REQUEST_COMPLETED" => e.number >= f.number
                      /\ e.type = "TOOL_STARTED" /\ f.type = "TOOL_COMPLETED" /\ e.node = f.node =>
                           e.number < f.number
    BY DEF Ordered
  <2>1. CASE e \in events[r] /\ f \in events[r]
    BY <1>3, <2>1 DEF Ordered
  <2>2. CASE e = event /\ f \in events[r]
    BY <1>1, <1>2, <1>4, <1>5, <1>6, <2>2 DEF InNode, NodePlace, ToolPlace
  <2>3. CASE e \in events[r] /\ f = event
    BY <1>2, <1>4, <1>6, <2>3
  <2>4. CASE e = event /\ f = event
    BY <1>2, <1>6, <2>4
  <2> QED
    BY <2>1, <2>2, <2>3, <2>4
<1>8. /\ Latest(S) \subseteq S /\ IsFiniteSet(Latest(S)) /\ Cardinality(Latest(S)) <= MaxEvents
  <2>1. IsFiniteSet(S) /\ S \in SUBSET Event
    BY <1>2, <1>3, FS_AddElement
  <2> QED
    BY <2>1, LatestBounded
<1> HIDE DEF S
<1>9. /\ events' \in [Request -> SUBSET Event] /\ numbers' \in [Request -> Nat]
      /\ events'[r] \subseteq S /\ numbers'[r] = numbers[r] + 1
      /\ IsFiniteSet(events'[r]) /\ Cardinality(events'[r]) <= MaxEvents
      /\ \A q \in Request : q # r => events'[q] = events[q] /\ numbers'[q] = numbers[q]
  <2>1. S \subseteq Event /\ events[r] \subseteq S
    BY <1>2, <1>3 DEF S
  <2> QED
    BY <1>1, <1>2, <1>3, <1>8, <2>1 DEF EventsInv
<1>10. Ordered(events'[r])
  BY <1>7, <1>9 DEF Ordered
<1>11. \A e \in events'[r] : e.type = "REQUEST_STARTED" => e.number = 1
  BY <1>4, <1>5, <1>6, <1>9 DEF S
<1>12. EventsAt(c)'
  <2>1. /\ run'[c].request = r /\ run'[c].node = run[c].node
        /\ run'[c].at = Following[type]
    BY <1>1, MovedTo DEF RecordEvent, GoOn, r
  <2>2. run'[c].at \in {"opened", "node", "operation", "NODE_COMPLETED", "next", "finish"}
        /\ (type = "REQUEST_COMPLETED" => run'[c].at = "finish")
        /\ (type = "TOOL_COMPLETED" => run'[c].at = "NODE_COMPLETED")
        /\ (run'[c].at \in InNode => run[c].at \in InNode)
    BY <1>1, <2>1, FollowingPlaces DEF EventType, InNode, NodePlace, ToolPlace
  <2>3. ASSUME NEW e \in S
        PROVE  /\ e.number <= numbers[r] + 1
               /\ run'[c].at # "finish" => e.type # "REQUEST_COMPLETED"
               /\ e.type = "TOOL_COMPLETED" =>
                    /\ e.node <= run[c].node
                    /\ run'[c].at \in InNode => e.node < run[c].node
    <3>1. CASE e \in events[r]
      BY <1>2, <1>4, <2>2, <3>1
    <3>2. CASE e = event
      BY <1>2, <1>6, <2>2, <3>2 DEF InNode
    <3> QED
      BY <3>1, <3>2 DEF S
  <2> QED
    BY <1>9, <2>1, <2>2, <2>3 DEF EventsAt, InNode
<1>13. ASSUME NEW d \in Client, d # c, run'[d] # None
       PROVE  EventsAt(d)'
  <2>1. run'[d] = run[d] /\ run[d].request # r /\ run[d].request \in Request
    BY <1>1, <1>13 DEF RunInv, RunRecord, r
  <2>2. EventsAt(d)
    BY <1>13, <2>1 DEF EventsInv
  <2> QED
    BY <1>9, <2>1, <2>2 DEF EventsAt
<1>14. \A q \in Request : q > begun => events'[q] = {} /\ numbers'[q] = 0
  BY <1>1, <1>9 DEF EventsInv, RunInv, Request
<1> QED
  BY <1>1, <1>9, <1>10, <1>11, <1>12, <1>13, <1>14 DEF EventsInv

LEMMA StepEvents ==
    ASSUME RunInv, EventsInv, NEW c \in Client, Step(c) \/ Crash(c)
    PROVE  EventsInv'
<1>1. \A d \in Client \ {c} : run'[d] = run[d]
  BY OthersStay
<1> DEFINE Kept == UNCHANGED <<begun, events, numbers>>
           Quiet(from, to) ==
             /\ to \in {"trace", "REQUEST_STARTED"} => from = "trace"
             /\ from \in {"respond", "append"} => to \in {"respond", "append"}
             /\ from \in {"finish", "respond", "append"} => to \in {"respond", "append"}
             /\ to \in InNode => from \in InNode
<1>2. ASSUME run[c] # None, Kept, NEW place, Goto(c, place), Quiet(run[c].at, place)
      PROVE  EventsInv'
  BY <1>1, <1>2, MovedTo, QuietEvents
<1>3. ASSUME run[c] # None, Kept, NEW place, NEW end, EndWith(c, place, end),
             Quiet(run[c].at, place)
      PROVE  EventsInv'
  BY <1>1, <1>3, EndsAt, QuietEvents
<1>4. ASSUME run[c] # None, Kept, run'[c] = None
      PROVE  EventsInv'
  BY <1>1, <1>4, QuietEvents
<1> HIDE DEF Quiet
<1> USE DEF traceVars
<1>5. CASE StartTrace(c)
  BY <1>2, <1>5, FollowingPlaces
  DEF StartTrace, At, GoOn, Quiet, InNode, NodePlace, ToolPlace
<1>6. CASE Open(c)
  BY <1>2, <1>3, <1>6, FollowingPlaces DEF Open, At, Quiet, InNode, NodePlace, ToolPlace
<1>7. CASE Proceed(c)
  <2>1. run[c] # None /\ run[c].at = "next" /\ Kept
    BY <1>7 DEF Proceed, At
  <2>2. CASE run' = [run EXCEPT ![c].at = "NODE_STARTED", ![c].node = @ + 1]
    <3>1. /\ run'[c].request = run[c].request /\ run'[c].at = "NODE_STARTED"
          /\ run'[c].node = run[c].node + 1
      BY <2>1, <2>2 DEF RunInv, RunRecord
    <3> QED
      BY <1>1, <2>1, <3>1, QuietEvents
  <2>3. ASSUME NEW end \in Answers, EndWith(c, "REQUEST_COMPLETED", end)
        PROVE  EventsInv'
    BY <1>3, <2>1, <2>3 DEF Quiet, InNode, NodePlace, ToolPlace
  <2>4. CASE Goto(c, "REQUEST_COMPLETED")
    BY <1>2, <2>1, <2>4 DEF Quiet, InNode, NodePlace, ToolPlace
  <2> QED
    BY <1>7, <2>2, <2>3, <2>4, FollowingPlaces DEF Proceed
<1>8. CASE Node(c)
  <2>1. run[c] # None /\ run[c].at = "node" /\ Kept
    BY <1>8 DEF Node, At
  <2>2. CASE EndWith(c, "NODE_COMPLETED", "raised")
    <3>1. Quiet(run[c].at, "NODE_COMPLETED")
      BY <2>1 DEF Quiet, InNode, NodePlace, ToolPlace
    <3> QED
      BY <1>3, <2>1, <2>2, <3>1
  <2>3. CASE Goto(c, "audit") \/ Goto(c, "NODE_COMPLETED")
    BY <1>2, <2>1, <2>3 DEF Quiet, InNode, NodePlace, ToolPlace
  <2> QED
    BY <1>8, <2>2, <2>3 DEF Node
<1>9. CASE Unreadable(c) \/ Return(c)
  BY <1>4, <1>9 DEF Unreadable, Return, At, Ends, RunInv
<1>10. ASSUME NEW type \in EventType, RecordEvent(c, type)
       PROVE  EventsInv'
  BY <1>10, RecordEventEvents
<1>11. CASE StartAudit(c) \/ ListAudit(c)
  <2>1. run[c] # None /\ run[c].at \in {"audit", "list"} /\ Kept
    BY <1>11 DEF StartAudit, ListAudit, At
  <2>2. CASE GoOn(c)
    BY <1>2, <2>1, <2>2, FollowingPlaces DEF GoOn, Quiet, InNode, NodePlace, ToolPlace
  <2>3. CASE EndWith(c, "NODE_COMPLETED", "error")
    <3>1. Quiet(run[c].at, "NODE_COMPLETED")
      BY <2>1 DEF Quiet, InNode, NodePlace, ToolPlace
    <3> QED
      BY <1>3, <2>1, <2>3, <3>1
  <2> QED
    BY <1>11, <2>2, <2>3 DEF StartAudit, ListAudit, AuditFailure
<1>12. CASE RunTool(c)
  <2>1. run[c] # None /\ run[c].at = "operation" /\ Kept
    BY <1>12 DEF RunTool, At
  <2>2. CASE Goto(c, "audit_finish")
    BY <1>2, <2>1, <2>2 DEF Quiet, InNode, NodePlace, ToolPlace
  <2>3. CASE EndWith(c, "audit_finish", "error")
    <3>1. Quiet(run[c].at, "audit_finish")
      BY <2>1 DEF Quiet, InNode, NodePlace, ToolPlace
    <3> QED
      BY <1>3, <2>1, <2>3, <3>1
  <2> QED
    BY <1>12, <2>2, <2>3 DEF RunTool
<1>13. CASE FinishAudit(c)
  BY <1>2, <1>13, FollowingPlaces DEF FinishAudit, At, GoOn, Quiet, InNode, NodePlace, ToolPlace
<1>14. CASE FinishTrace(c)
  BY <1>14, FinishTraceEvents
<1>15. CASE RecordExchange(c)
  BY <1>2, <1>4, <1>15
  DEF RecordExchange, At, Ends, RunInv, Quiet, InNode, NodePlace, ToolPlace
<1>16. CASE Appends(c)
  <2>1. UNCHANGED <<run, begun, events, numbers>>
    BY <1>16 DEF Appends
  <2> QED
    BY <2>1 DEF EventsInv, EventsAt
<1>17. CASE Crash(c)
  BY <1>4, <1>17 DEF Crash, Ends, RunInv
<1> QED
  BY <1>5, <1>6, <1>7, <1>8, <1>9, <1>10, <1>11, <1>12, <1>13, <1>14, <1>15, <1>16, <1>17
  DEF Step

-----------------------------------------------------------------------------
(* The exchanges.                                                          *)

LEMMA ExchangeInitially == Init => ExchangeInv
BY HistoryInitially, EmptySeq DEF Init, ExchangeInv, Recorded, HistoryInit

\* Steps outside the history leave it alone; those of an append are steps of
\* the history.
LEMMA HistoryMoves ==
    ASSUME RunInv, ExchangeInv, Next
    PROVE  [HistoryStep(Request)]_historyVars
<1>1. ASSUME NEW c \in Client, RecordExchange(c)
      PROVE  [HistoryStep(Request)]_historyVars
  <2>1. run[c] # None => run[c].op \in Operation /\ run[c].request \in Request
    BY DEF RunInv, RunRecord
  <2> QED
    BY <1>1, <2>1 DEF RecordExchange, At, HistoryStep
<1>2. ASSUME NEW c \in Client, Appends(c)
      PROVE  HistoryStep(Request)
  BY <1>2 DEF Appends, AppendFails, DropAppend, HistoryStep
<1>3. ASSUME NEW c \in Client, Crash(c)
      PROVE  HistoryStep(Request)
  BY <1>3 DEF Crash, DropAppend, EndAppend, HistoryStep
<1>4. ASSUME NEW c \in Client,
             \/ Step(c) /\ ~RecordExchange(c) /\ ~Appends(c)
             \/ \E op \in Operation : Begin(c, op)
      PROVE  UNCHANGED historyVars
  BY <1>4
  DEF Step, StartTrace, Open, Proceed, Node, Unreadable, RecordEvent, StartAudit, ListAudit,
      RunTool, FinishAudit, FinishTrace, Return, Begin
<1>5. CASE Besides
  BY <1>5 DEF Besides, HistoryStep
<1>6. setting.clients \subseteq Client
  BY RecordsAssumption DEF RunInv
<1> QED
  BY <1>1, <1>2, <1>3, <1>4, <1>5, <1>6 DEF Next

LEMMA RecordedRequests ==
    ASSUME HistoryInv(Request)
    PROVE  Recorded \subseteq Request
<1>1. messages \in Seq(Message(Request)) /\ DOMAIN messages = 1..Len(messages)
  BY LenProperties DEF HistoryInv, ListInv
<1>2. \A i \in DOMAIN messages : messages[i] \in Message(Request)
  BY <1>1, ElementOfSeq
<1> QED
  BY <1>2 DEF Recorded, Message

\* Steps of a request that is not at its append.
LEMMA BeforeAppend ==
    ASSUME RunInv, TraceInv, NEW c \in Client, Step(c), ~Appends(c), ~Return(c)
    PROVE  /\ run[c] # None /\ run[c].at # "append"
           /\ run'[c] # None => run'[c].request = run[c].request
           /\ UNCHANGED <<messages, begun>> /\ (UNCHANGED faults \/ Fault)
           /\ \A r \in Request : r # run[c].request =>
                outcome'[r] = outcome[r] /\ trace'[r] = trace[r]
           /\ UNCHANGED writer \/ RecordExchange(c)
<1> DEFINE Elsewhere ==
             /\ UNCHANGED <<messages, begun>> /\ (UNCHANGED faults \/ Fault)
             /\ \A r \in Request : r # run[c].request =>
                  outcome'[r] = outcome[r] /\ trace'[r] = trace[r]
             /\ UNCHANGED writer \/ RecordExchange(c)
<1>1. run[c] # None /\ run[c].at # "append"
  BY DEF Step, StartTrace, Open, Proceed, Node, Unreadable, RecordEvent, EventType, StartAudit,
         ListAudit, RunTool, FinishAudit, FinishTrace, RecordExchange, At
<1>2. run[c] \in RunRecord
  BY <1>1 DEF RunInv
<1>3. run'[c] # None => run'[c].request = run[c].request
  <2>1. ASSUME NEW place, Goto(c, place)
        PROVE  run'[c].request = run[c].request
    BY <1>1, <2>1, MovedTo
  <2>2. ASSUME NEW place, NEW end, EndWith(c, place, end)
        PROVE  run'[c].request = run[c].request
    BY <1>1, <2>2, EndsAt
  <2>3. ASSUME NEW end, Ends(c, end)
        PROVE  run'[c] = None
    BY <2>3 DEF RunInv, Ends
  <2>4. run' = [run EXCEPT ![c].at = "NODE_STARTED", ![c].node = @ + 1] =>
          run'[c].request = run[c].request
    BY <1>1, <1>2 DEF RunInv, RunRecord
  <2>5. CASE StartTrace(c) \/ FinishTrace(c) \/ FinishAudit(c)
    BY <2>1, <2>5 DEF StartTrace, FinishTrace, FinishAudit, GoOn
  <2>6. CASE Open(c) \/ Proceed(c)
    BY <2>1, <2>2, <2>4, <2>6 DEF Open, Proceed
  <2>7. CASE Node(c)
    BY <2>1, <2>2, <2>7 DEF Node
  <2>8. CASE StartAudit(c) \/ ListAudit(c)
    BY <2>1, <2>2, <2>8 DEF StartAudit, ListAudit, GoOn, AuditFailure
  <2>9. CASE RunTool(c)
    BY <2>1, <2>2, <2>9 DEF RunTool
  <2>10. CASE \E type \in EventType : RecordEvent(c, type)
    BY <2>1, <2>10 DEF RecordEvent, GoOn
  <2>11. CASE Unreadable(c) \/ RecordExchange(c)
    BY <2>1, <2>3, <2>11 DEF Unreadable, RecordExchange
  <2> QED
    BY <2>5, <2>6, <2>7, <2>8, <2>9, <2>10, <2>11 DEF Step
<1> USE DEF historyVars, traceVars
<1>4. ASSUME StartTrace(c) \/ FinishTrace(c)
      PROVE  Elsewhere
  <2>1. DOMAIN trace = Request
    BY DEF TraceInv
  <2> QED
    BY <1>4, <2>1 DEF StartTrace, FinishTrace
<1> DOMAIN outcome = Request
  BY DEF RunInv
<1>5. ASSUME Open(c) \/ Proceed(c) \/ Node(c) \/ Unreadable(c)
      PROVE  Elsewhere
  BY <1>5 DEF Open, Proceed, Node, Unreadable, Ends
<1>6. ASSUME \/ \E type \in EventType : RecordEvent(c, type)
             \/ StartAudit(c) \/ ListAudit(c) \/ RunTool(c) \/ FinishAudit(c)
      PROVE  Elsewhere
  BY <1>6 DEF RecordEvent, StartAudit, ListAudit, RunTool, FinishAudit
<1>7. ASSUME RecordExchange(c)
      PROVE  Elsewhere
  BY <1>7 DEF RecordExchange, BeginAppend, Ends
<1>8. Elsewhere
  BY <1>4, <1>5, <1>6, <1>7 DEF Step
<1> QED
  BY <1>1, <1>3, <1>8

\* Such a step cannot disturb what is recorded, because its request is not.
LEMMA ExchangesKept ==
    ASSUME RunInv, TraceInv, ExchangeInv, HistoryInv(Request)', NEW c \in Client,
           Step(c), ~Appends(c), ~Return(c)
    PROVE  ExchangeInv'
<1>1. /\ run[c] # None /\ run[c].at # "append"
      /\ run'[c] # None => run'[c].request = run[c].request
      /\ UNCHANGED <<messages, begun>> /\ (UNCHANGED faults \/ Fault)
      /\ \A r \in Request : r # run[c].request =>
           outcome'[r] = outcome[r] /\ trace'[r] = trace[r]
      /\ UNCHANGED writer \/ RecordExchange(c)
      /\ \A d \in Client \ {c} : run'[d] = run[d]
      /\ faults' = 0 => faults = 0
  BY BeforeAppend, OthersStay, FaultCounted DEF RunInv
<1>2. run[c].request \notin Recorded /\ Recorded' = Recorded
  BY <1>1 DEF ExchangeInv, Recorded
<1>3. Recorded \subseteq Request
  BY RecordedRequests DEF ExchangeInv
<1>4. \A d \in Client : writer'[d] # None =>
        At(d, "append")' /\ writer'[d].request = run'[d].request
  <2>1. CASE UNCHANGED writer
    BY <1>1, <2>1 DEF ExchangeInv, At
  <2>2. CASE RecordExchange(c) /\ ~UNCHANGED writer
    <3>1. Goto(c, "append") /\ BeginAppend(c, run[c].op, run[c].request)
      BY <2>2 DEF RecordExchange, historyVars
    <3>2. run'[c].at = "append" /\ run'[c].request = run[c].request /\ run'[c] # None
      <4>1. /\ run'[c] = [run[c] EXCEPT !.at = "append"] /\ run[c] \in RunRecord
            /\ run'[c].at = "append" /\ run'[c].request = run[c].request
        BY <1>1, <3>1, MovedTo
      <4>2. run'[c] \in RunRecord
        BY <4>1 DEF RunRecord, Place
      <4> QED
        BY <4>1, <4>2, NoneIsNoText
    <3>3. /\ writer'[c].request = run[c].request
          /\ \A d \in Client : d # c => writer'[d] = writer[d]
      BY <3>1 DEF BeginAppend, ExchangeInv, HistoryInv, WriterInv
    <3> QED
      BY <1>1, <3>2, <3>3 DEF ExchangeInv, At
  <2> QED
    BY <1>1, <2>1, <2>2
<1>5. ASSUME NEW r \in Recorded
      PROVE  /\ r <= begun'
             /\ outcome'[r] \in Answers \cup {None, "crashed"}
             /\ faults' = 0 => trace'[r] \in Finished
             /\ \A d \in Client : run'[d] # None /\ run'[d].request = r => run'[d].at = "append"
  <2>1. r # run[c].request /\ r \in Request
    BY <1>2, <1>3
  <2> QED
    BY <1>1, <2>1 DEF ExchangeInv
<1> QED
  BY <1>2, <1>4, <1>5 DEF ExchangeInv

LEMMA BeginExchange ==
    ASSUME RunInv, ExchangeInv, HistoryInv(Request)', NEW c \in Client,
           NEW op \in Operation, Begin(c, op)
    PROVE  ExchangeInv'
<1>1. /\ run[c] = None /\ begun' = begun + 1 /\ begun \in Nat
      /\ UNCHANGED <<messages, writer, outcome, trace, faults>>
      /\ \A d \in Client \ {c} : run'[d] = run[d]
      /\ run'[c].request = begun + 1
  BY OthersStay DEF Begin, RunInv, historyVars
<1>2. Recorded' = Recorded /\ \A r \in Recorded : r \in Request /\ r <= begun
  BY <1>1, RecordedRequests DEF ExchangeInv, Recorded
<1>3. \A d \in Client : writer'[d] # None => d # c
  BY <1>1 DEF ExchangeInv, At
<1>4. \A r \in Recorded : r <= begun + 1 /\ r # begun + 1
  BY <1>1, <1>2 DEF Request
<1> QED
  BY <1>1, <1>2, <1>3, <1>4 DEF ExchangeInv, At

\* The request returns or dies: its append, if it had one, is over.
LEMMA EndsExchange ==
    ASSUME RunInv, ExchangeInv, HistoryInv(Request)', NEW c \in Client,
           Return(c) \/ Crash(c)
    PROVE  ExchangeInv'
<1> DEFINE r == run[c].request
<1>1. /\ run[c] # None /\ UNCHANGED <<messages, begun, trace>> /\ writer'[c] = None
      /\ \A d \in Client \ {c} : run'[d] = run[d] /\ writer'[d] = writer[d]
      /\ UNCHANGED faults \/ Fault
      /\ run'[c] = None
      /\ \A q \in Request : q # r => outcome'[q] = outcome[q]
      /\ outcome'[r] \in Answers \cup {"crashed"}
  <2>1. run[c] # None /\ \A d \in Client \ {c} : run'[d] = run[d]
    BY OthersStay DEF Return, Crash, At, Step
  <2>2. r \in Request /\ (run[c].at = "append" => run[c].end \in Answers)
    BY <2>1 DEF RunInv, RunRecord
  <2>3. /\ UNCHANGED <<messages, begun, trace>> /\ (UNCHANGED faults \/ Fault)
        /\ writer'[c] = None /\ \A d \in Client \ {c} : writer'[d] = writer[d]
    BY DEF Return, Crash, historyVars, traceVars, ExchangeInv, HistoryInv, WriterInv
  <2>4. PICK end \in Answers \cup {"crashed"} : Ends(c, end)
    BY <2>2 DEF Return, Crash, At
  <2>5. run'[c] = None /\ outcome'[r] = end /\ \A q \in Request : q # r => outcome'[q] = outcome[q]
    BY <2>2, <2>4 DEF Ends, RunInv
  <2> QED
    BY <2>1, <2>3, <2>4, <2>5
<1>2. Recorded' = Recorded /\ Recorded \subseteq Request
  BY <1>1, RecordedRequests DEF ExchangeInv, Recorded
<1>3. faults' = 0 => faults = 0
  BY <1>1, FaultCounted DEF RunInv
<1> HIDE DEF r
<1>4. \A d \in Client : writer'[d] # None =>
        At(d, "append")' /\ writer'[d].request = run'[d].request
  BY <1>1 DEF ExchangeInv, At
<1>5. ASSUME NEW q \in Recorded
      PROVE  /\ q <= begun'
             /\ outcome'[q] \in Answers \cup {None, "crashed"}
             /\ faults' = 0 => trace'[q] \in Finished
             /\ \A d \in Client : run'[d] # None /\ run'[d].request = q => run'[d].at = "append"
  <2>1. outcome'[q] \in Answers \cup {None, "crashed"}
    BY <1>1, <1>2 DEF ExchangeInv
  <2> QED
    BY <1>1, <1>3, <2>1 DEF ExchangeInv
<1> QED
  BY <1>2, <1>4, <1>5 DEF ExchangeInv

\* What a step of an append, a reading or an expiry makes of the appends.
LEMMA WritersStay ==
    ASSUME HistoryInv(Request),
           \/ \E c \in Client : AppendExchange(c) \/ AppendFails(c)
           \/ GetHistory
           \/ \E op \in Operation : ExpireOperation(op)
    PROVE  \A d \in Client : writer'[d] # None =>
             writer[d] # None /\ writer'[d].request = writer[d].request
<1>1. writer \in [Client -> AppendRecord(Request) \cup {None}]
  BY DEF HistoryInv, WriterInv
<1>2. CASE GetHistory
  BY <1>2 DEF GetHistory
<1>3. ASSUME NEW op \in Operation, ExpireOperation(op), NEW d \in Client, writer'[d] # None
      PROVE  writer[d] # None /\ writer'[d].request = writer[d].request
  BY <1>1, <1>3 DEF ExpireOperation, AppendRecord
<1>4. ASSUME NEW c \in Client, NEW d \in Client, writer'[d] # None,
             AppendFails(c) \/ WatchExchange(c) \/ CheckOperation(c) \/ ReadRecord(c)
             \/ ExecExchangeFails(c)
      PROVE  writer[d] # None /\ writer'[d].request = writer[d].request
  BY <1>1, <1>4
  DEF AppendFails, WatchExchange, CheckOperation, ReadRecord, ExecExchangeFails, EndAppend,
      Appending, AppendRecord
<1>5. ASSUME NEW c \in Client, NEW d \in Client, writer'[d] # None, ExecExchange(c)
      PROVE  writer[d] # None /\ writer'[d].request = writer[d].request
  BY <1>1, <1>5 DEF ExecExchange, DirtiedBy, AppendRecord
<1> QED
  BY <1>2, <1>3, <1>4, <1>5 DEF AppendExchange

\* A commit records the exchange of a request that has an answer, and a
\* finished trace unless a write has failed.
LEMMA AppendsExchange ==
    ASSUME RunInv, TraceInv, ExchangeInv, HistoryInv(Request)',
           (\E c \in Client : Appends(c)) \/ Besides
    PROVE  ExchangeInv'
<1>1. UNCHANGED <<run, begun, trace, outcome>> /\ (UNCHANGED faults \/ Fault)
  BY DEF Appends, Besides, traceVars
<1>2. faults' = 0 => faults = 0
  BY <1>1, FaultCounted DEF RunInv
<1>3. HistoryInv(Request)
  BY DEF ExchangeInv
<1>4. \A d \in Client : writer'[d] # None =>
             writer[d] # None /\ writer'[d].request = writer[d].request
  BY <1>3, WritersStay DEF Appends, Besides
<1>5. \A d \in Client : writer'[d] # None =>
        At(d, "append")' /\ writer'[d].request = run'[d].request
  BY <1>1, <1>4 DEF ExchangeInv, At
<1>6. ASSUME NEW r \in Recorded'
      PROVE  \/ r \in Recorded
             \/ \E c \in Client : run[c] # None /\ run[c].at = "append" /\ r = run[c].request
  <2>1. CASE UNCHANGED messages
    BY <1>6, <2>1 DEF Recorded
  <2>2. ASSUME NEW c \in Client, ExecExchange(c)
        PROVE  \/ r \in Recorded
               \/ run[c] # None /\ run[c].at = "append" /\ r = run[c].request
    <3> DEFINE w == writer[c]
    <3>1. /\ w.op \in Operation /\ w.request \in Request
          /\ Len(messages) % 2 = 0 /\ Len(messages) <= MaxMessages
          /\ messages' = Trimmed(messages \o Exchange(w.op, w.request))
          /\ messages \in Seq(Message(Request))
      BY <1>3, <2>2, ExecKnows DEF HistoryInv, ListInv
    <3>2. run[c] # None /\ run[c].at = "append" /\ w.request = run[c].request
      BY <2>2 DEF ExchangeInv, ExecExchange, Appending, At
    <3> HIDE DEF w
    <3>3. \A i \in DOMAIN messages' : messages'[i].request = w.request
             \/ \E j \in DOMAIN messages : messages'[i] = messages[j]
      BY <3>1, TrimmedMessages
    <3> QED
      BY <1>6, <3>2, <3>3 DEF Recorded
  <2>3. UNCHANGED messages \/ \E c \in Client : ExecExchange(c)
    BY DEF Appends, AppendFails, AppendExchange, WatchExchange, CheckOperation, ReadRecord,
           ExecExchangeFails, Besides, GetHistory, ExpireOperation
  <2> QED
    BY <2>1, <2>2, <2>3
<1>7. ASSUME NEW r \in Recorded'
      PROVE  /\ r <= begun'
             /\ outcome'[r] \in Answers \cup {None, "crashed"}
             /\ faults' = 0 => trace'[r] \in Finished
             /\ \A d \in Client : run'[d] # None /\ run'[d].request = r => run'[d].at = "append"
  <2>1. CASE r \in Recorded
    BY <1>1, <1>2, <2>1 DEF ExchangeInv
  <2>2. ASSUME NEW c \in Client, run[c] # None, run[c].at = "append", r = run[c].request
        PROVE  /\ r <= begun
               /\ outcome[r] = None
               /\ faults = 0 => trace[r] \in Finished
               /\ \A d \in Client : run[d] # None /\ run[d].request = r => run[d].at = "append"
    BY <2>2 DEF RunInv, TraceInv, TraceAt
  <2> QED
    BY <1>1, <1>2, <1>6, <2>1, <2>2
<1> QED
  BY <1>5, <1>7 DEF ExchangeInv

-----------------------------------------------------------------------------
(* The invariant is inductive.                                             *)

LEMMA InitIInv == Init => IInv
BY RunInitially, AuditInitially, TraceInitially, EventsInitially, ExchangeInitially DEF IInv

\* A step that leaves the requests and all their records alone.
LEMMA AsideIInv ==
    ASSUME IInv, UNCHANGED <<setting, run, traceVars, auditVars, outcome>>,
           UNCHANGED faults \/ Fault
    PROVE  RunInv' /\ AuditInv' /\ TraceInv' /\ EventsInv'
<1>1. faults' \in Nat /\ (faults' = 0 => faults = 0)
  BY FaultCounted DEF IInv, RunInv
<1>2. RunInv'
  BY <1>1 DEF IInv, RunInv, traceVars
<1>3. AuditInv'
  BY DEF IInv, AuditInv, AuditAt, Call, EffectsAudited, AuditTruthful, auditVars, traceVars
<1>4. TraceInv'
  BY <1>1 DEF IInv, TraceInv, TraceAt, TraceTruthful, traceVars
<1>5. EventsInv'
  BY DEF IInv, EventsInv, EventsAt, traceVars
<1> QED
  BY <1>2, <1>3, <1>4, <1>5

LEMMA StutterIInv == IInv /\ UNCHANGED vars => IInv'
<1> SUFFICES ASSUME IInv, UNCHANGED vars
             PROVE  IInv'
  OBVIOUS
<1>1. RunInv' /\ AuditInv' /\ TraceInv' /\ EventsInv'
  BY AsideIInv DEF vars, traceVars, auditVars
<1>2. HistoryInv(Request)'
  BY HistoryStepInv DEF IInv, ExchangeInv, vars, historyVars
<1>3. ExchangeInv'
  BY <1>2 DEF IInv, ExchangeInv, Recorded, At, vars
<1> QED
  BY <1>1, <1>3 DEF IInv

LEMMA NextIInv == IInv /\ [Next]_vars => IInv'
<1> SUFFICES ASSUME IInv, Next
             PROVE  IInv'
  BY StutterIInv
<1>1. RunInv /\ AuditInv /\ TraceInv /\ EventsInv /\ ExchangeInv
  BY DEF IInv
<1>2. UNCHANGED setting /\ setting.clients \subseteq Client
  BY <1>1, RecordsAssumption DEF Next, RunInv
<1>3. HistoryInv(Request)'
  BY <1>1, HistoryMoves, HistoryStepInv DEF ExchangeInv
<1>4. ASSUME NEW c \in Client, Step(c)
      PROVE  IInv'
  <2>1. RunInv' /\ AuditInv' /\ TraceInv' /\ EventsInv'
    BY <1>1, <1>2, <1>4, StepRun, StepAudit, StepTrace, StepEvents
  <2>2. ExchangeInv'
    BY <1>1, <1>3, <1>4, ExchangesKept, AppendsExchange, EndsExchange
  <2> QED
    BY <2>1, <2>2 DEF IInv
<1>5. ASSUME NEW c \in Client, Crash(c)
      PROVE  IInv'
  <2>1. RunInv' /\ AuditInv' /\ TraceInv' /\ EventsInv'
    BY <1>1, <1>2, <1>5, StepRun, StepAudit, StepTrace, StepEvents
  <2>2. ExchangeInv'
    BY <1>1, <1>3, <1>5, EndsExchange
  <2> QED
    BY <2>1, <2>2 DEF IInv
<1>6. ASSUME NEW c \in Client, NEW op \in Operation, Begin(c, op)
      PROVE  IInv'
  <2>1. RunInv' /\ AuditInv' /\ TraceInv' /\ EventsInv'
    BY <1>1, <1>2, <1>6, BeginRun, BeginAudit, BeginTrace, BeginEvents
  <2>2. ExchangeInv'
    BY <1>1, <1>3, <1>6, BeginExchange
  <2> QED
    BY <2>1, <2>2 DEF IInv
<1>7. CASE Besides
  <2>1. RunInv' /\ AuditInv' /\ TraceInv' /\ EventsInv'
    BY <1>2, <1>7, AsideIInv DEF Besides
  <2>2. ExchangeInv'
    BY <1>1, <1>3, <1>7, AppendsExchange
  <2> QED
    BY <2>1, <2>2 DEF IInv
<1> QED
  BY <1>2, <1>4, <1>5, <1>6, <1>7 DEF Next

-----------------------------------------------------------------------------
(* Theorems.                                                               *)

\* The inductive invariant holds in every reachable state of the records.
THEOREM InductiveInvariant == Spec => []IInv
BY InitIInv, NextIInv, PTL DEF Spec

\* Every stored value has its shape, a trace keeps at most trace_max_events
\* events, and an append is that of a request which waits for it.
THEOREM TypeCorrect == Spec => []TypeOK
<1>1. IInv => TypeOK
  <2> SUFFICES ASSUME IInv
               PROVE  TypeOK
    OBVIOUS
  <2>1. \A i \in DOMAIN messages : messages[i] \in Message(Request)
    <3>1. messages \in Seq(Message(Request)) /\ DOMAIN messages = 1..Len(messages)
      BY LenProperties DEF IInv, ExchangeInv, HistoryInv, ListInv
    <3> QED
      BY <3>1, ElementOfSeq
  <2>2. keys \subseteq Operation
    BY DEF IInv, ExchangeInv, HistoryInv, ListInv
  <2>3. \A c \in Client : writer[c] # None => At(c, "append") /\ writer[c].attempt \in 1..Attempts
    BY DEF IInv, ExchangeInv, HistoryInv, WriterInv, AppendRecord
  <2> QED
    BY <2>1, <2>2, <2>3 DEF IInv, AuditInv, TraceInv, EventsInv, TypeOK, Message
<1> QED
  BY <1>1, InductiveInvariant, PTL

\* Whichever write fails and wherever a process dies, a tool has had no effect
\* that the audit of its trace does not name.
THEOREM EffectsAlwaysAudited == Spec => []EffectsAudited
<1>1. IInv => EffectsAudited
  BY DEF IInv, AuditInv
<1> QED
  BY <1>1, InductiveInvariant, PTL

\* The audit calls no failed tool call a success, and no successful one a
\* failure.
THEOREM AuditAlwaysTruthful == Spec => []AuditTruthful
<1>1. IInv => AuditTruthful
  BY DEF IInv, AuditInv
<1> QED
  BY <1>1, InductiveInvariant, PTL

\* The events that are kept have different numbers, and the numbers tell their
\* order, though events are lost and the oldest ones removed.
THEOREM EventsAlwaysOrdered == Spec => []EventsOrdered
<1>1. IInv => EventsOrdered
  BY DEF IInv, EventsInv, Ordered, EventsOrdered
<1> QED
  BY <1>1, InductiveInvariant, PTL

\* A finished trace says how its request ended; without faults there is one.
THEOREM TraceAlwaysTruthful == Spec => []TraceTruthful
<1>1. IInv => TraceTruthful
  BY DEF IInv, TraceInv
<1> QED
  BY <1>1, InductiveInvariant, PTL

\* The history holds only exchanges of requests that were answered.
THEOREM ExchangesAlwaysAnswered == Spec => []ExchangesAnswered
<1>1. IInv => ExchangesAnswered
  BY DEF IInv, ExchangeInv, Recorded, ExchangesAnswered
<1> QED
  BY <1>1, InductiveInvariant, PTL

\* The list is made of whole exchanges, however appends of concurrent requests
\* overlap, fail or are repeated.
THEOREM ExchangesAlwaysWhole == Spec => []ExchangesWhole
<1>1. IInv => ExchangesWhole
  BY DEF IInv, ExchangeInv, HistoryInv, ListInv, ExchangesWhole
<1> QED
  BY <1>1, InductiveInvariant, PTL

\* A reading of the history lacks nothing that its metadata counts.
THEOREM HistoryAlwaysWhole == Spec => []HistoryWhole
<1>1. IInv => HistoryWhole
  BY DEF IInv, ExchangeInv, HistoryInv, ReaderInv
<1> QED
  BY <1>1, InductiveInvariant, PTL

\* append_exchange implements the log it promises: each of its commits logs one
\* exchange, once while its operation key lives, and all other steps of the
\* system leave the log alone or forget a key.
THEOREM HistoryImplementsLog == Spec => ImplementsLog
<1>1. Init => Promised!Init
  BY LogInitially DEF Init
<1>2. IInv /\ [Next]_vars =>
        [Promised!Next]_<<Exchanges, IF record = None THEN 0 ELSE record.count \div 2, keys>>
  <2> SUFFICES ASSUME IInv, [Next]_vars
               PROVE  [Promised!Next]_<<Exchanges,
                         IF record = None THEN 0 ELSE record.count \div 2, keys>>
    OBVIOUS
  <2>1. [HistoryStep(Request)]_historyVars
    BY HistoryMoves DEF IInv, vars, historyVars
  <2> QED
    BY <2>1, HistoryStepLogs DEF IInv, ExchangeInv
<1> QED
  BY <1>1, <1>2, InductiveInvariant, PTL DEF Spec, ImplementsLog, Promised!Spec

-----------------------------------------------------------------------------
(* The action property.                                                    *)

Unwritten(r) ==
    /\ trace'[r] = trace[r] /\ events'[r] = events[r]
    /\ \A n \in 1..MaxNodes : audit'[<<r, n>>] = audit[<<r, n>>]

\* A step of a request writes its own trace, events and audit records, and
\* these only before it responds.
LEMMA StepWrites ==
    ASSUME RunInv, AuditInv, TraceInv, EventsInv, NEW c \in Client, Step(c), NEW r \in Request
    PROVE  Unwritten(r) \/ (/\ run[c] # None /\ run[c].request = r
                            /\ run[c].at \notin {"respond", "append"})
<1> USE DEF traceVars, auditVars, Unwritten
<1>1. run[c] # None => run[c] \in RunRecord
  BY DEF RunInv
<1>2. DOMAIN trace = Request /\ DOMAIN events = Request /\ DOMAIN audit = ToolCall
  BY DEF AuditInv, TraceInv, EventsInv
<1>3. CASE StartTrace(c)
  BY <1>2, <1>3 DEF StartTrace, At
<1>4. CASE FinishTrace(c)
  BY <1>2, <1>4 DEF FinishTrace, At
<1>5. ASSUME NEW type \in EventType, RecordEvent(c, type)
      PROVE  Unwritten(r) \/ (/\ run[c] # None /\ run[c].request = r
                              /\ run[c].at \notin {"respond", "append"})
  <2>1. run[c] # None /\ run[c].at \notin {"respond", "append"}
    BY <1>5 DEF RecordEvent, At, EventType
  <2>2. run[c].request # r => events'[r] = events[r]
    BY <1>2, <1>5 DEF RecordEvent
  <2> QED
    BY <1>5, <2>1, <2>2 DEF RecordEvent
<1>6. CASE StartAudit(c) \/ FinishAudit(c)
  <2>1. run[c] # None /\ run[c].at \notin {"respond", "append"}
    BY <1>6 DEF StartAudit, FinishAudit, At
  <2>2. \A n \in 1..MaxNodes : run[c].request # r => audit'[<<r, n>>] = audit[<<r, n>>]
    <3> SUFFICES ASSUME NEW n \in 1..MaxNodes, run[c].request # r
                 PROVE  audit'[<<r, n>>] = audit[<<r, n>>]
      OBVIOUS
    <3>1. <<r, n>> \in ToolCall /\ <<r, n>> # Call(c)
      BY DEF ToolCall, Call
    <3> QED
      BY <1>2, <1>6, <3>1 DEF StartAudit, FinishAudit
  <2> QED
    BY <1>6, <2>1, <2>2 DEF StartAudit, FinishAudit
<1>7. CASE \/ Open(c) \/ Proceed(c) \/ Node(c) \/ Unreadable(c) \/ ListAudit(c) \/ RunTool(c)
           \/ RecordExchange(c) \/ Appends(c) \/ Return(c)
  BY <1>7
  DEF Open, Proceed, Node, Unreadable, ListAudit, RunTool, RecordExchange, Appends, Return
<1> QED
  BY <1>3, <1>4, <1>5, <1>6, <1>7 DEF Step

\* Once a trace is read as finished neither its status nor its events nor the
\* audit of its tool calls change.
THEOREM FinishedTracesFrozen == Spec => FinishedFrozen
<1> DEFINE Frozen == \A r \in Request : trace[r] \in Finished =>
                       /\ trace'[r] = trace[r] /\ events'[r] = events[r]
                       /\ \A n \in 1..MaxNodes : audit'[<<r, n>>] = audit[<<r, n>>]
<1>1. IInv /\ [Next]_vars => Frozen
  <2> SUFFICES ASSUME IInv, [Next]_vars, NEW r \in Request, trace[r] \in Finished
               PROVE  Unwritten(r)
    BY DEF Unwritten
  <2>1. CASE UNCHANGED <<traceVars, auditVars>>
    BY <2>1 DEF Unwritten, traceVars, auditVars
  <2>2. ASSUME NEW c \in Client, Step(c)
        PROVE  Unwritten(r)
    BY <2>2, StepWrites DEF IInv, TraceInv, TraceAt
  <2>3. ASSUME NEW c \in Client, Crash(c) \/ \E op \in Operation : Begin(c, op)
        PROVE  UNCHANGED <<trace, events, audit>>
    BY <2>3 DEF Crash, Begin, traceVars, auditVars
  <2>4. setting.clients \subseteq Client
    BY RecordsAssumption DEF IInv, RunInv
  <2>5. UNCHANGED vars \/ Besides => UNCHANGED <<traceVars, auditVars>>
    BY DEF vars, traceVars, auditVars, Besides
  <2> QED
    BY <2>1, <2>2, <2>3, <2>4, <2>5 DEF Next, Unwritten
<1> QED
  BY <1>1, InductiveInvariant, PTL DEF Spec, FinishedFrozen
=============================================================================
