------------------------------ MODULE TaskGraph ------------------------------
(***************************************************************************)
(* One conversation: the turns of a thread, node by node.                  *)
(*                                                                         *)
(* A chat message starts a turn; a turn may leave behind one open context  *)
(* (a selection, a deletion's selection, or the clarification of a query,  *)
(* of a draft or of an update) that a later message may answer, and the    *)
(* task the conversation is about (the focus).  A write waits for a        *)
(* confirmation.  Between any two nodes another thread may change or       *)
(* delete tasks, and contexts expire.                                      *)
(*                                                                         *)
(* Requests of the thread follow each other here; AgentThread has them at  *)
(* once, with checkpoints, action ids and exceptions that leave a node.    *)
(* A node is one step: what it reads it reads at one moment.  A tool does  *)
(* what TaskStore says or fails.  What a language model answers is a free  *)
(* choice; the filters of a query may keep any tasks, and any task may be  *)
(* depended on by another one.  Left out: texts, priorities, dates.        *)
(***************************************************************************)
EXTENDS GraphContexts, GraphWrites

\* The nodes at which a request to the agent has been answered.
Rest == {"END", "request_confirmation"}

\* AgentService.chat: refused while an action waits.  Only an open context
\* tells messages apart, so without one any message stands for all.
BeginChat(m) ==
    /\ g.at = "END"
    /\ Contexts(g) = {} => m.kind = "other"
    /\ g' = Initial(m, g)
    /\ heard' = IF g.candidates # <<>> THEN g.candidates
                ELSE IF g.selection = None /\ g.deletion = None THEN <<>> ELSE heard
    /\ UNCHANGED <<scene, task>>

\* Contexts and focus expire with the clock.
Expire ==
    LET expired(c) == IF c = None THEN None ELSE [c EXCEPT !.live = FALSE] IN
    /\ g.at \in Rest
    /\ \/ /\ Contexts(g) # {}
          /\ g' = [g EXCEPT !.selection = expired(@), !.deletion = expired(@),
                            !.query = expired(@), !.draft = expired(@),
                            !.update = expired(@)]
       \/ g' = [g EXCEPT !.focus = expired(@)]
    /\ UNCHANGED <<scene, task, heard>>

\* Requests of other threads, or of the task pages.
ElsewhereChanged(t, status) ==
    /\ t \in Live /\ Accepted(t, status)
    /\ LET table == WithStatus(t, status) IN Bounded(table) /\ task' = table
    /\ UNCHANGED <<scene, g, heard>>

ElsewhereDeleted(t) ==
    /\ t \in Live /\ ChildrenOf(t) = {}
    /\ LET table == Removed({t}) IN Bounded(table) /\ task' = table
    /\ UNCHANGED <<scene, g, heard>>

Work == Reading \/ Preparing \/ Executing

Next ==
    \/ Work
    \/ \E m \in Message : BeginChat(m)
    \/ \E d \in Decision : Confirm(d)
    \/ Expire
    \/ \E t \in TaskId : ElsewhereDeleted(t) \/ \E s \in Foreign[scene] : ElsewhereChanged(t, s)

Spec == Init /\ [][Next]_vars

\* A request that was accepted is carried through: LangGraph runs the next
\* node until the graph ends or interrupts.
FairSpec == Spec /\ WF_vars(Work)

-----------------------------------------------------------------------------
(* Properties.                                                             *)

\* The graph state has the shape of TaskAgentState.
TypeOK ==
    /\ scene \in Scene
    /\ task \in [TaskId -> TaskRecord \cup {None, Gone}]
    /\ g \in TaskAgentState
    /\ heard \in Seq(ListItem)

\* Whatever the state a node leaves, its router returns a key the builder has
\* declared for it; LangGraph fails the request otherwise.
RoutesDeclared == g.at # "undeclared"

\* At most one context waits for the next message, so the priorities of
\* route_pending_state never have to throw away a question just asked.
OneContext == g.at = "END" => Cardinality(Contexts(g)) <= 1

\* A number that answers a selection chooses the task that had this number in
\* the last list the user was shown, unchanged since.  A deletion's selection
\* is another node, see DeletesShown.
ActsOnShown ==
    [][ResolveTaskSelection /\ g.msg.kind = "ordinal" /\ g'.selected # None =>
          /\ g.msg.n \in DOMAIN heard
          /\ heard[g.msg.n] = [id |-> g'.selected.id, version |-> g'.selected.version]]_vars

\* The clarifications of a draft and of an update end: they keep one input a
\* round, and never more rounds than configured.
InputsBounded ==
    /\ g.draft # None => Len(g.draft.inputs) \in 1..g.draft.round
    /\ g.update # None => Len(g.update.inputs) \in 1..g.update.round
    /\ \A c \in {g.draft, g.update} \ {None} : c.round <= MaxRounds

\* The parsers and the planner see the request the turn, or the turns, began
\* with, never only the answer that chose a task or filled in a field.
ParsesRequest ==
    /\ g.at = "parse_task" =>
         Head(Append(g.inputs, Text(g))) = "request"
    /\ g.at = "parse_task_update" =>
         Head(g.uInputs \o <<IF g.uMsg # None THEN g.uMsg ELSE Text(g)>>) = "request"
    /\ g.at = "generate_subtask_plan" => g.dMsg = "request"

\* After a turn that created, changed or found one task, "it" is this task; it
\* is never a task the turn knows it has deleted.
FocusIsAnswered ==
    g.at = "END" /\ g.focus # None =>
        /\ g.focus.id \notin g.deleted
        /\ \A t \in {g.created, g.updated} \ {None} : g.focus.id = t
        /\ g.selected # None /\ g.created = None => g.focus.id = g.selected.id

\* Candidates are shown only while a choice among them is awaited: they are
\* the list the choice will be checked against or, for a deletion, some of it.
ChoiceIsPending ==
    g.at = "END" /\ g.candidates # <<>> =>
        \/ g.selection # None /\ g.selection.items = g.candidates
        \/ g.deletion # None /\ Ids(g.candidates) \subseteq Ids(g.deletion.items)

\* A batch deletion that names tasks and has no keywords has one target for
\* each reference: nothing named is silently left out or counted twice.
BatchPerReference ==
    (/\ g.at = "request_confirmation" /\ g.action.type = "delete_tasks_batch"
     /\ g.plan.refs # <<>> /\ ~g.plan.keywords)
    => Cardinality(g.action.targets) = Len(g.plan.refs)

\* A node writes only the tasks of an action the user approved, in the versions
\* the action was prepared for; besides, it creates tasks and rolls up parents.
WritesApproved ==
    [][Executing /\ task' # task =>
          /\ g.action.status = "approved"
          /\ \A t \in TaskId : task'[t] # task[t] =>
               \/ task[t] = None
               \/ Copy(t) \in g.action.targets
               \/ \E c \in g.action.targets : Parent[c.id] = t]_vars

\* Every request is answered: the turn ends or waits for a confirmation.
TurnEnds == (g.at \notin Rest) ~> (g.at \in Rest)

-----------------------------------------------------------------------------
(* What the documents say and the code does not do.                        *)

\* A restored task's turn goes on with the request it was restored for.
RestoreContinues ==
    [][ExecuteTaskRestore => g'.at # "finalize_turn"]_vars

\* A number chooses from the list last shown, in a deletion too.
DeletesShown ==
    [][(/\ ResolveTaskDeleteSelection /\ g.msg.kind = "ordinal" /\ g'.selRoute = "resume"
        /\ g.deletion.kind = "task_reference")
       => /\ g.msg.n \in DOMAIN heard
          /\ heard[g.msg.n].id = g'.rRefs[g.deletion.reference]]_vars
=============================================================================
