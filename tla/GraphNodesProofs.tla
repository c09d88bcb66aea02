---------------------------- MODULE GraphNodesProofs ----------------------------
(***************************************************************************)
(* TLAPS proofs about the nodes of the agent's graph: each of those that   *)
(* read, ask or prepare leaves a state that is sound, and in which its     *)
(* successor may start.  The nodes that write are in TaskGraphProofs.      *)
(***************************************************************************)
EXTENDS GraphStateProofs, WellFoundedInduction

-----------------------------------------------------------------------------
(* What the nodes read.                                                    *)

\* A task is read as it is.
LEMMA CopyIsOK ==
    ASSUME Tree(task), NEW t \in Live
    PROVE  Copy(t) \in TaskCopy /\ CopyOK(task, Copy(t)) /\ Copy(t).id = t /\ Copy(t) # None
<1>1. t \in TaskId /\ task[t] \in TaskRecord /\ task[t] # None
  BY DEF Tree, Live
<1>2. /\ Copy(t).id = t /\ Copy(t).status = task[t].status /\ Copy(t).version = task[t].version
      /\ Copy(t) \in TaskCopy
  BY <1>1 DEF Copy, CopyIn, TaskCopy, TaskRecord
<1>3. CopyOK(task, Copy(t))
  <2>1. task[t].version \in Int
    BY <1>1, GraphAssumption DEF TaskRecord, Version
  <2> QED BY <1>1, <1>2, <2>1 DEF CopyOK
<1>4. None \notin TaskCopy
  BY GraphAssumption
<1> QED BY <1>2, <1>3, <1>4

\* A set of positions has a first one.
LEMMA FirstPlace ==
    ASSUME NEW S \in SUBSET Nat, S # {}
    PROVE  (CHOOSE i \in S : \A j \in S : i <= j) \in S
<1> DEFINE less == OpToRel(<, Nat)
<1>1. IsWellFoundedOn(less, Nat)
  BY NatLessThanWellFounded
<1> HIDE DEF less
<1>2. PICK i \in S : \A j \in S : ~(<<j, i>> \in less)
  BY <1>1, WFMin
<1>3. \A j \in S : i <= j
  <2> SUFFICES ASSUME NEW j \in S, ~(i <= j)
               PROVE  FALSE
    OBVIOUS
  <2>1. j < i /\ i \in Nat /\ j \in Nat
    OBVIOUS
  <2>2. <<j, i>> \in less
    BY <2>1 DEF less, OpToRel
  <2> QED BY <1>2, <2>2
<1> QED BY <1>3

\* Of every task one copy.
LEMMA CopiesCounted ==
    ASSUME Tree(task), NEW S \in SUBSET Live
    PROVE  /\ {Copy(t) : t \in S} \in SUBSET TaskCopy
           /\ \A c \in {Copy(t) : t \in S} : CopyOK(task, c)
           /\ Cardinality({Copy(t) : t \in S}) = Cardinality(S)
           /\ S # {} => {Copy(t) : t \in S} # {}
<1> DEFINE copies == {Copy(t) : t \in S}
           copy == [t \in S |-> Copy(t)]
<1>1. \A t \in S : Copy(t) \in TaskCopy /\ CopyOK(task, Copy(t)) /\ Copy(t).id = t
  BY CopyIsOK
<1>2. S \in SUBSET TaskId
  BY DEF Live
<1>3. copy \in Surjection(S, copies)
  BY DEF Surjection
<1>4. copy \in Injection(S, copies)
  BY <1>1 DEF Injection, IsInjective
<1>5. Cardinality(copies) = Cardinality(S)
  BY <1>2, <1>3, <1>4, TasksFinite, FS_Surjection
<1> QED BY <1>1, <1>5

-----------------------------------------------------------------------------
(* The start of a turn.                                                    *)

\* The context that takes the message is the one that is open.
LEMMA Taken ==
    ASSUME IInv, UNCHANGED <<scene, task, heard>>, g.at = "route_pending_state",
           NEW h, Shape(h), SameBut({"route", "query", "draft", "update"}, h, g),
           h.query \in {None, g.query}, h.draft \in {None, g.draft},
           h.update \in {None, g.update},
           \/ h.route = "delete_selection" /\ h.deletion # None
           \/ h.route = "selection" /\ h.selection # None
           \/ h.route = "task_update_clarification" /\ h.update # None
           \/ h.route = "task_draft_clarification" /\ h.draft # None
           \/ h.route = "clarification" /\ h.query # None
           \/ h.route = "classify" /\ Quiet(h),
           g' = [h EXCEPT !.at = R!Successor(h)]
    PROVE  IInv'
<1>1. Sound(task, heard, g) /\ Begun(g) /\ g.intent = None /\ Once(g)
  BY DEF IInv, Ready
<1>2. Sound(task, heard, h)
  BY <1>1 DEF Sound, CopiesOK, ListsOK, TextsOK, FocusOK, SameBut, Fields
<1>3. Begun(h) /\ h.intent = None /\ Once(h) /\ h.at = "route_pending_state"
  BY <1>1 DEF Begun, Once, SameBut, Fields
<1>4. CASE h.route = "delete_selection" /\ h.deletion # None
  <2>1. R!Successor(h) = "resolve_task_delete_selection"
    BY <1>3, <1>4, RoutesOfPending
  <2>2. Ready("resolve_task_delete_selection", h)
    BY <1>3, <1>4 DEF Ready, Working, Quiet, Drafting, Updating, Decomposing, Changing,
           R!Classified, R!Answering, R!Executing, SameBut, Fields, Resuming
  <2> QED BY <1>2, <2>1, <2>2, Left DEF R!Nodes, R!Branching, R!Answering, R!Preparing,
                 R!Executing
<1>5. CASE h.route = "selection" /\ h.selection # None
  <2>1. R!Successor(h) = "resolve_task_selection"
    BY <1>3, <1>5, RoutesOfPending
  <2>2. Ready("resolve_task_selection", h)
    BY <1>3, <1>5 DEF Ready, Working, Quiet, Drafting, Updating, Decomposing, Changing,
           R!Classified, R!Answering, R!Executing, SameBut, Fields, Resuming
  <2> QED BY <1>2, <2>1, <2>2, Left DEF R!Nodes, R!Branching, R!Answering, R!Preparing,
                 R!Executing
<1>6. CASE h.route = "task_update_clarification" /\ h.update # None
  <2>1. R!Successor(h) = "resolve_task_update_clarification"
    BY <1>3, <1>6, RoutesOfPending
  <2>2. Ready("resolve_task_update_clarification", h)
    BY <1>3, <1>6 DEF Ready, Working, Quiet, Drafting, Updating, Decomposing, Changing,
           R!Classified, R!Answering, R!Executing, SameBut, Fields, Resuming
  <2> QED BY <1>2, <2>1, <2>2, Left DEF R!Nodes, R!Branching, R!Answering, R!Preparing,
                 R!Executing
<1>7. CASE h.route = "task_draft_clarification" /\ h.draft # None
  <2>1. R!Successor(h) = "resolve_task_draft_clarification"
    BY <1>3, <1>7, RoutesOfPending
  <2>2. Ready("resolve_task_draft_clarification", h)
    BY <1>3, <1>7 DEF Ready, Working, Quiet, Drafting, Updating, Decomposing, Changing,
           R!Classified, R!Answering, R!Executing, SameBut, Fields, Resuming
  <2> QED BY <1>2, <2>1, <2>2, Left DEF R!Nodes, R!Branching, R!Answering, R!Preparing,
                 R!Executing
<1>8. CASE h.route = "clarification" /\ h.query # None
  <2>1. R!Successor(h) = "resolve_query_clarification"
    BY <1>3, <1>8, RoutesOfPending
  <2>2. Ready("resolve_query_clarification", h)
    BY <1>3, <1>8 DEF Ready, Working, Quiet, Drafting, Updating, Decomposing, Changing,
           R!Classified, R!Answering, R!Executing, SameBut, Fields, Resuming
  <2> QED BY <1>2, <2>1, <2>2, Left DEF R!Nodes, R!Branching, R!Answering, R!Preparing,
                 R!Executing
<1>9. CASE h.route = "classify" /\ Quiet(h)
  <2>1. R!Successor(h) = "classify_intent"
    BY <1>3, <1>9, RoutesOfPending
  <2>2. Ready("classify_intent", h)
    BY <1>3, <1>9 DEF Ready, Working, Quiet, Drafting, Updating, Decomposing, Changing,
           R!Classified, R!Answering, R!Executing, SameBut, Fields
  <2> QED BY <1>2, <2>1, <2>2, Left DEF R!Nodes, R!Branching, R!Answering, R!Preparing,
                 R!Executing
<1> QED BY <1>4, <1>5, <1>6, <1>7, <1>8, <1>9

\* An open context claims the message, or it goes to the classifier with all closed.
LEMMA RoutePendingStateStep ==
    ASSUME IInv, RoutePendingState
    PROVE  IInv'
<1> DEFINE h1 == [g EXCEPT !.route = "delete_selection", !.draft = None, !.update = None]
           h2 == [g EXCEPT !.route = "selection", !.query = None, !.draft = None,
                           !.update = None]
           h3 == [g EXCEPT !.route = "task_update_clarification", !.query = None,
                           !.draft = None]
           h4 == [g EXCEPT !.route = "task_draft_clarification", !.query = None]
           h5 == [g EXCEPT !.route = "clarification"]
           h6 == [g EXCEPT !.route = "classify"]
<1>1. /\ g.at = "route_pending_state" /\ UNCHANGED task
      /\ \/ g.deletion # None /\ Leave(h1)
         \/ g.selection # None /\ Leave(h2)
         \/ g.update # None /\ Leave(h3)
         \/ g.draft # None /\ Leave(h4)
         \/ g.query # None /\ Leave(h5)
         \/ Quiet(g) /\ Leave(h6)
  BY DEF RoutePendingState, At, Contexts, Quiet
<1>2. Shape(g)
  BY DEF IInv, Sound
<1>3. CASE g.deletion # None /\ Leave(h1)
  <2>1. Shape(h1)
    BY <1>2, Put DEF Sound, Fields, FieldType
  <2>2. /\ h1.route = "delete_selection" /\ h1.draft = None /\ h1.update = None
        /\ h1.query = g.query /\ h1.deletion = g.deletion
        /\ SameBut({"route", "query", "draft", "update"}, h1, g)
    BY <1>2, HasFields DEF SameBut, Fields
  <2>3. UNCHANGED <<scene, task, heard>> /\ g' = [h1 EXCEPT !.at = R!Successor(h1)]
    BY <1>1, <1>3 DEF Leave
  <2> HIDE DEF h1
  <2> QED BY <1>1, <1>3, <2>1, <2>2, <2>3, Taken
<1>4. CASE g.selection # None /\ Leave(h2)
  <2>1. Shape(h2)
    BY <1>2, Put DEF Sound, Fields, FieldType
  <2>2. /\ h2.route = "selection" /\ h2.draft = None /\ h2.update = None
        /\ h2.query = None /\ h2.selection = g.selection
        /\ SameBut({"route", "query", "draft", "update"}, h2, g)
    BY <1>2, HasFields DEF SameBut, Fields
  <2>3. UNCHANGED <<scene, task, heard>> /\ g' = [h2 EXCEPT !.at = R!Successor(h2)]
    BY <1>1, <1>4 DEF Leave
  <2> HIDE DEF h2
  <2> QED BY <1>1, <1>4, <2>1, <2>2, <2>3, Taken
<1>5. CASE g.update # None /\ Leave(h3)
  <2>1. Shape(h3)
    BY <1>2, Put DEF Sound, Fields, FieldType
  <2>2. /\ h3.route = "task_update_clarification" /\ h3.draft = None
        /\ h3.update = g.update /\ h3.query = None
        /\ SameBut({"route", "query", "draft", "update"}, h3, g)
    BY <1>2, HasFields DEF SameBut, Fields
  <2>3. UNCHANGED <<scene, task, heard>> /\ g' = [h3 EXCEPT !.at = R!Successor(h3)]
    BY <1>1, <1>5 DEF Leave
  <2> HIDE DEF h3
  <2> QED BY <1>1, <1>5, <2>1, <2>2, <2>3, Taken
<1>6. CASE g.draft # None /\ Leave(h4)
  <2>1. Shape(h4)
    BY <1>2, Put DEF Sound, Fields, FieldType
  <2>2. /\ h4.route = "task_draft_clarification" /\ h4.draft = g.draft
        /\ h4.update = g.update /\ h4.query = None
        /\ SameBut({"route", "query", "draft", "update"}, h4, g)
    BY <1>2, HasFields DEF SameBut, Fields
  <2>3. UNCHANGED <<scene, task, heard>> /\ g' = [h4 EXCEPT !.at = R!Successor(h4)]
    BY <1>1, <1>6 DEF Leave
  <2> HIDE DEF h4
  <2> QED BY <1>1, <1>6, <2>1, <2>2, <2>3, Taken
<1>7. CASE g.query # None /\ Leave(h5)
  <2>1. Shape(h5)
    BY <1>2, Put DEF Sound, Fields, FieldType
  <2>2. /\ h5.route = "clarification" /\ h5.draft = g.draft
        /\ h5.update = g.update /\ h5.query = g.query
        /\ SameBut({"route", "query", "draft", "update"}, h5, g)
    BY <1>2, HasFields DEF SameBut, Fields
  <2>3. UNCHANGED <<scene, task, heard>> /\ g' = [h5 EXCEPT !.at = R!Successor(h5)]
    BY <1>1, <1>7 DEF Leave
  <2> HIDE DEF h5
  <2> QED BY <1>1, <1>7, <2>1, <2>2, <2>3, Taken
<1>8. CASE Quiet(g) /\ Leave(h6)
  <2>1. Shape(h6)
    BY <1>2, Put DEF Sound, Fields, FieldType
  <2>2. /\ h6.route = "classify" /\ h6.draft = g.draft
        /\ h6.update = g.update /\ h6.query = g.query
        /\ h6.selection = g.selection /\ h6.deletion = g.deletion
        /\ SameBut({"route", "query", "draft", "update"}, h6, g)
    BY <1>2, HasFields DEF SameBut, Fields
  <2>3. UNCHANGED <<scene, task, heard>> /\ g' = [h6 EXCEPT !.at = R!Successor(h6)]
    BY <1>1, <1>8 DEF Leave
  <2> HIDE DEF h6
  <2>4. Quiet(h6)
    BY <1>8, <2>2 DEF Quiet
  <2> QED BY <1>1, <2>1, <2>2, <2>3, <2>4, Taken
<1> QED BY <1>1, <1>3, <1>4, <1>5, <1>6, <1>7, <1>8

\* What the intent service makes of a message.
Understood == {"intent", "ref", "target", "asks", "error"}

\* Classification writes the fields of Understood and no other.
LEMMA ClassifiedFields ==
    ASSUME NEW h, Shape(h), NEW r, r \in Request[scene], scene \in Scene
    PROVE  /\ Shape(Classified(h, r)) /\ SameBut(Understood, Classified(h, r), h)
           /\ Classified(h, r).intent \in R!Intents /\ Classified(h, r).intent # None
<1> DEFINE k == Classified(h, r)
<1>1. /\ r.intent \in R!Intents /\ r.asks \in BOOLEAN
      /\ r.ref \in Reference \cup {None, "it"} /\ r.target \in Status \cup {None}
  BY SceneAssumption
<1>2. Shape(k)
  BY <1>1, Put DEF Classified, Fields, FieldType
<1>3. k.intent = r.intent /\ SameBut(Understood, k, h)
  BY HasFields DEF Classified, SameBut, Fields, Understood
<1>4. None \notin R!Intents
  BY GraphAssumption
<1> QED BY <1>1, <1>2, <1>3, <1>4

\* A classified message is no error.
LEMMA ClassifiedWell ==
    ASSUME NEW h, Shape(h), NEW r
    PROVE  Classified(h, r).error = FALSE
BY HasFields DEF Classified, Fields

\* A classified message goes where its intent is handled.
LEMMA Classifies ==
    ASSUME IInv, UNCHANGED <<scene, task, heard>>,
           NEW k, Sound(task, heard, k), k.error = FALSE, Begun(k), Quiet(k), k.intent # None,
           \/ k.at = "classify_intent"
           \/ k.at = "resolve_query_clarification" /\ k.route = "classified",
           g' = [k EXCEPT !.at = R!Successor(k)]
    PROVE  IInv'
<1>1. k.asks \in BOOLEAN
  BY DEF Sound, Shape, Fields, FieldType
<1> DEFINE n == R!Successor(k)
<1>2. /\ n \in R!Classified \ {"respond_feature_unavailable"}
      /\ n = "query_task_data" => k.intent = "QUERY_TASKS"
      /\ n = "resolve_task_reference" => k.intent \in R!WritingIntents
      /\ n = "parse_task_delete" => k.intent = "DELETE_TASK"
      /\ n = "resolve_context_reference" => k.intent \in R!ContextIntents
  BY <1>1, RoutesOfIntents
<1>3. Working(k) /\ k.updated = None /\ k.selected = None /\ Once(k)
  BY DEF Working, Quiet, Begun, Once
<1> HIDE DEF n
<1>4. Ready(n, k)
  BY <1>2, <1>3 DEF Ready, Drafting, Updating, Decomposing, Changing, R!Classified,
         R!Answering, R!Executing
<1>5. n \in R!Nodes
  BY <1>2 DEF R!Classified, R!Nodes, R!Branching, R!Answering, R!Preparing, R!Executing
<1> QED BY <1>4, <1>5, Left DEF n

\* A classified message is handled at a node where nothing is selected or asked yet.
LEMMA ClassifyIntentStep ==
    ASSUME IInv, ClassifyIntent
    PROVE  IInv'
<1>1. PICK r \in Request[scene] : Leave(Classified(g, r))
  BY DEF ClassifyIntent
<1> DEFINE k == Classified(g, r)
<1>2. g.at = "classify_intent" /\ UNCHANGED task
  BY DEF ClassifyIntent, At
<1>3. Sound(task, heard, g) /\ Begun(g) /\ Quiet(g) /\ scene \in Scene
  BY <1>2 DEF IInv, Ready
<1>4. k.error = FALSE
  BY <1>3, ClassifiedWell DEF Sound
<1>5. Shape(k) /\ SameBut(Understood, k, g) /\ k.intent # None
  BY <1>1, <1>3, ClassifiedFields DEF Sound
<1>6. UNCHANGED <<scene, task, heard>> /\ g' = [k EXCEPT !.at = R!Successor(k)]
  BY <1>1, <1>2 DEF Leave
<1> HIDE DEF k
<1>7. Sound(task, heard, k)
  BY <1>3, <1>5 DEF Sound, CopiesOK, ListsOK, TextsOK, FocusOK, SameBut, Fields, Understood
<1>8. Begun(k) /\ Quiet(k) /\ k.at = "classify_intent"
  BY <1>2, <1>3, <1>4, <1>5 DEF Begun, Quiet, SameBut, Fields, Understood
<1> QED BY <1>4, <1>5, <1>6, <1>7, <1>8, Classifies

\* The answer completes the query, asks again, gives it up or is a new request.
LEMMA ResolveQueryClarificationStep ==
    ASSUME IInv, ResolveQueryClarification
    PROVE  IInv'
<1> DEFINE closed == [g EXCEPT !.query = None]
           anew == [closed EXCEPT !.route = "classify"]
           given == [closed EXCEPT !.route = "handled", !.asks = FALSE, !.error = FALSE]
           again == [g EXCEPT !.route = "handled", !.error = FALSE]
           complete(r) == [Classified(closed, r) EXCEPT !.route = "classified"]
           incomplete(r) == [Classified(g, r) EXCEPT !.route = "handled"]
<1>1. /\ g.at = "resolve_query_clarification" /\ UNCHANGED task
      /\ \/ Leave(anew) \/ Leave(given) \/ Leave(again)
         \/ \E r \in Request[scene] : Leave(complete(r)) \/ Leave(incomplete(r))
  BY DEF ResolveQueryClarification, At
<1>2. /\ Sound(task, heard, g) /\ Begun(g) /\ Once(g) /\ g.query # None
      /\ scene \in Scene
  BY <1>1 DEF IInv, Ready, Resuming
<1>3. /\ Shape(closed) /\ closed.query = None /\ SameBut({"query"}, closed, g)
  BY <1>2, Put, HasFields DEF Sound, Fields, FieldType, SameBut
<1> HIDE DEF closed
<1>4. Begun(closed) /\ Quiet(closed) /\ Once(closed) /\ closed.at = g.at /\ closed.error = FALSE
  BY <1>2, <1>3 DEF Begun, Quiet, Once, SameBut, Fields
<1>5. Sound(task, heard, closed)
  BY <1>2, <1>3 DEF Sound, CopiesOK, ListsOK, TextsOK, FocusOK, SameBut, Fields
<1>6. CASE Leave(anew)
  <2>1. Shape(anew)
    BY <1>3, Put DEF Sound, Fields, FieldType
  <2>2. anew.route = "classify" /\ SameBut({"route"}, anew, closed)
    BY <1>3, HasFields DEF SameBut, Fields
  <2> HIDE DEF anew
  <2>3. Sound(task, heard, anew)
    BY <1>5, <2>1, <2>2 DEF Sound, CopiesOK, ListsOK, TextsOK, FocusOK, SameBut, Fields
  <2>4. Begun(anew) /\ Quiet(anew) /\ anew.at = g.at /\ anew.error = FALSE
    BY <1>4, <2>2 DEF Begun, Quiet, SameBut, Fields
  <2>5. R!Successor(anew) = "classify_intent"
    BY <1>1, <2>2, <2>4, RoutesOfClarifications
  <2>6. Ready("classify_intent", anew)
    BY <2>4 DEF Ready, Working, Quiet, Drafting, Updating, Decomposing, Changing,
           R!Classified, R!Answering, R!Executing, SameBut, Fields
  <2> QED BY <1>1, <1>6, <2>3, <2>5, <2>6, Left DEF Leave, R!Nodes, R!Branching, R!Answering,
                 R!Preparing, R!Executing
<1>7. CASE Leave(given)
  <2>1. Shape(given)
    BY <1>3, Put DEF Sound, Fields, FieldType
  <2>2. /\ given.route = "handled" /\ given.error = FALSE
        /\ SameBut({"route", "asks", "error"}, given, closed)
    BY <1>3, HasFields DEF SameBut, Fields
  <2> HIDE DEF given
  <2>3. Sound(task, heard, given)
    BY <1>5, <2>1, <2>2 DEF Sound, CopiesOK, ListsOK, TextsOK, FocusOK, SameBut, Fields
  <2>4. Once(given) /\ given.at = g.at
    BY <1>4, <2>2 DEF Once, SameBut, Fields
  <2>5. R!Successor(given) = "finalize_turn"
    BY <1>1, <2>2, <2>4, RoutesOfClarifications
  <2> QED BY <1>1, <1>7, <2>3, <2>4, <2>5, Finishes DEF Leave
<1>8. CASE Leave(again)
  <2>1. Shape(again)
    BY <1>2, Put DEF Sound, Fields, FieldType
  <2>2. /\ again.route = "handled" /\ again.error = FALSE
        /\ SameBut({"route", "error"}, again, g)
    BY <1>2, HasFields DEF Sound, SameBut, Fields
  <2> HIDE DEF again
  <2>3. Sound(task, heard, again)
    BY <1>2, <2>1, <2>2 DEF Sound, CopiesOK, ListsOK, TextsOK, FocusOK, SameBut, Fields
  <2>4. Once(again) /\ again.at = g.at
    BY <1>2, <2>2 DEF Once, SameBut, Fields
  <2>5. R!Successor(again) = "finalize_turn"
    BY <1>1, <2>2, <2>4, RoutesOfClarifications
  <2> QED BY <1>1, <1>8, <2>3, <2>4, <2>5, Finishes DEF Leave
<1>9. ASSUME NEW r \in Request[scene], Leave(complete(r))
      PROVE  IInv'
  <2> DEFINE h == Classified(closed, r)
             k == complete(r)
  <2>1. h.error = FALSE
    BY <1>3, ClassifiedWell
  <2>2. Shape(h) /\ SameBut(Understood, h, closed) /\ h.intent # None
    BY <1>2, <1>3, ClassifiedFields
  <2>3. k = [h EXCEPT !.route = "classified"]
    OBVIOUS
  <2> HIDE DEF h, k
  <2>4. Shape(k)
    BY <2>2, <2>3, Put DEF Fields, FieldType
  <2>5. k.route = "classified" /\ SameBut({"route"}, k, h)
    BY <2>2, <2>3, HasFields DEF SameBut, Fields
  <2>6. SameBut(Understood \cup {"route"}, k, closed)
    BY <2>2, <2>5 DEF SameBut, Fields, Understood
  <2>7. Sound(task, heard, k)
    BY <1>5, <2>4, <2>6 DEF Sound, CopiesOK, ListsOK, TextsOK, FocusOK, SameBut, Fields,
           Understood
  <2>8. k.error = FALSE /\ k.intent # None
    BY <2>1, <2>2, <2>5 DEF SameBut, Fields
  <2>9. Begun(k) /\ Quiet(k) /\ k.at = "resolve_query_clarification"
    BY <1>1, <1>4, <2>6, <2>8 DEF Begun, Quiet, SameBut, Fields, Understood
  <2>10. UNCHANGED <<scene, task, heard>> /\ g' = [k EXCEPT !.at = R!Successor(k)]
    BY <1>1, <1>9 DEF Leave, k
  <2> QED BY <2>5, <2>7, <2>8, <2>9, <2>10, Classifies
<1>10. ASSUME NEW r \in Request[scene], Leave(incomplete(r))
       PROVE  IInv'
  <2> DEFINE h == Classified(g, r)
             k == incomplete(r)
  <2>1. h.error = FALSE
    BY <1>2, ClassifiedWell DEF Sound
  <2>2. Shape(h) /\ SameBut(Understood, h, g)
    BY <1>2, ClassifiedFields DEF Sound
  <2>3. k = [h EXCEPT !.route = "handled"]
    OBVIOUS
  <2> HIDE DEF h, k
  <2>4. Shape(k)
    BY <2>2, <2>3, Put DEF Fields, FieldType
  <2>5. k.route = "handled" /\ SameBut({"route"}, k, h)
    BY <2>2, <2>3, HasFields DEF SameBut, Fields
  <2>6. SameBut(Understood \cup {"route"}, k, g)
    BY <2>2, <2>5 DEF SameBut, Fields, Understood
  <2>7. Sound(task, heard, k)
    BY <1>2, <2>4, <2>6 DEF Sound, CopiesOK, ListsOK, TextsOK, FocusOK, SameBut, Fields,
           Understood
  <2>8. k.error = FALSE
    BY <2>1, <2>5 DEF SameBut, Fields
  <2>9. Once(k) /\ k.at = "resolve_query_clarification"
    BY <1>1, <1>2, <2>6 DEF Once, SameBut, Fields, Understood
  <2>10. R!Successor(k) = "finalize_turn"
    BY <2>5, <2>8, <2>9, RoutesOfClarifications
  <2>11. UNCHANGED <<scene, task, heard>> /\ g' = [k EXCEPT !.at = R!Successor(k)]
    BY <1>1, <1>10 DEF Leave, k
  <2> QED BY <2>7, <2>9, <2>10, <2>11, Finishes
<1> QED BY <1>1, <1>6, <1>7, <1>8, <1>9, <1>10

\* What a query lacks is asked for.
LEMMA RequestIntentClarificationStep ==
    ASSUME IInv, RequestIntentClarification
    PROVE  IInv'
<1> DEFINE query == IF g.intent = "QUERY_TASKS" THEN [live |-> TRUE] ELSE None
           h == [g EXCEPT !.query = query, !.error = FALSE]
<1>1. g.at = "request_intent_clarification" /\ UNCHANGED task /\ Leave(h)
  BY DEF RequestIntentClarification, At
<1>2. Sound(task, heard, g) /\ Quiet(g)
  BY <1>1 DEF IInv, Ready, R!Classified
<1>3. query \in QueryClarification \cup {None}
  BY DEF QueryClarification
<1> HIDE DEF query
<1>4. Shape(h)
  BY <1>2, <1>3, Put DEF Sound, Fields, FieldType
<1>5. h.query = query /\ SameBut({"query", "error"}, h, g)
  BY <1>2, HasFields DEF Sound, SameBut, Fields
<1> HIDE DEF h
<1>6. Sound(task, heard, h) /\ Once(h)
  BY <1>2, <1>4, <1>5 DEF Sound, CopiesOK, ListsOK, TextsOK, FocusOK, SameBut, Fields, Quiet,
         Once
<1>7. R!Successor(h) = "finalize_turn"
  BY <1>1, <1>5, RoutesOfAnswers DEF SameBut, Fields, R!Answering
<1> QED BY <1>1, <1>6, <1>7, Finishes DEF Leave

\* An answer without a task ends the turn.
LEMMA RespondStep ==
    ASSUME IInv, Respond
    PROVE  IInv'
<1> DEFINE h == [g EXCEPT !.error = FALSE]
<1>1. /\ g.at \in {"respond_to_general_chat", "respond_unknown_intent"}
      /\ UNCHANGED task /\ Leave(h)
  BY DEF Respond, At
<1>2. Sound(task, heard, g) /\ Quiet(g)
  BY <1>1 DEF IInv, Ready, R!Classified
<1>3. Sound(task, heard, h) /\ SameBut({"error"}, h, g)
  BY <1>2, Cleared
<1> HIDE DEF h
<1>4. Once(h)
  BY <1>2, <1>3 DEF Quiet, Once, SameBut, Fields
<1>5. R!Successor(h) = "finalize_turn"
  BY <1>1, <1>3, RoutesOfAnswers DEF SameBut, Fields, R!Answering
<1> QED BY <1>1, <1>3, <1>4, <1>5, Finishes DEF Leave

\* An error ends the turn.
LEMMA HandleErrorStep ==
    ASSUME IInv, HandleError
    PROVE  IInv'
<1>1. g.at = "handle_error" /\ UNCHANGED task /\ Leave(Failed(g))
  BY DEF HandleError, At
<1>2. Once(g)
  BY <1>1 DEF IInv, Ready, R!Answering
<1> QED BY <1>1, <1>2, Fails DEF R!Answering

\* "it" becomes the task in focus, or a question.
LEMMA ResolveContextReferenceStep ==
    ASSUME IInv, ResolveContextReference
    PROVE  IInv'
<1> DEFINE known == [g EXCEPT !.ref = g.focus.id, !.asks = FALSE, !.error = FALSE]
           asked == [g EXCEPT !.focus = None, !.ref = None, !.asks = TRUE, !.error = FALSE]
<1>1. /\ g.at = "resolve_context_reference" /\ UNCHANGED task
      /\ \/ g.focus # None /\ Leave(known)
         \/ Leave(asked)
  BY DEF ResolveContextReference, At
<1>2. /\ Sound(task, heard, g) /\ Begun(g) /\ Quiet(g)
      /\ g.intent \in {"QUERY_TASKS"} \cup R!WritingIntents
  BY <1>1 DEF IInv, Ready, R!Classified, R!WritingIntents
<1>3. CASE g.focus # None /\ Leave(known)
  <2>1. g.focus \in Focus /\ g.focus.id \in Reference
    BY <1>2, <1>3 DEF Sound, Shape, Fields, FieldType, Focus, Reference
  <2>2. Shape(known)
    BY <1>2, <2>1, Put DEF Sound, Fields, FieldType
  <2>3. /\ known.asks = FALSE /\ known.error = FALSE
        /\ SameBut({"ref", "asks", "error"}, known, g)
    BY <1>2, HasFields DEF Sound, SameBut, Fields
  <2> HIDE DEF known
  <2>4. Sound(task, heard, known)
    BY <1>2, <2>2, <2>3 DEF Sound, CopiesOK, ListsOK, TextsOK, FocusOK, SameBut, Fields
  <2>5. /\ Begun(known) /\ Quiet(known)
        /\ known.at = "resolve_context_reference" /\ known.intent = g.intent
    BY <1>1, <1>2, <2>3 DEF Begun, Quiet, SameBut, Fields
  <2>6. \/ R!Successor(known) = "query_task_data" /\ known.intent = "QUERY_TASKS"
        \/ /\ R!Successor(known) = "resolve_task_reference"
           /\ known.intent \in R!WritingIntents
    BY <1>2, <2>3, <2>5, RoutesOfFocus
  <2>7. Ready(R!Successor(known), known)
    BY <2>5, <2>6 DEF Ready, Working, Quiet, Drafting, Updating, Decomposing, Changing,
           R!Classified, R!Answering, R!Executing, SameBut, Fields
  <2>8. R!Successor(known) \in R!Nodes
    BY <2>6 DEF R!Nodes, R!Branching, R!Answering, R!Preparing, R!Executing
  <2> QED BY <1>1, <1>3, <2>4, <2>7, <2>8, Left DEF Leave
<1>4. CASE Leave(asked)
  <2>1. Shape(asked)
    BY <1>2, Put DEF Sound, Fields, FieldType
  <2>2. /\ asked.focus = None /\ asked.asks = TRUE /\ asked.error = FALSE
        /\ SameBut({"focus", "ref", "asks", "error"}, asked, g)
    BY <1>2, HasFields DEF Sound, SameBut, Fields
  <2> HIDE DEF asked
  <2>3. Sound(task, heard, asked)
    BY <1>2, <2>1, <2>2 DEF Sound, CopiesOK, ListsOK, TextsOK, FocusOK, SameBut, Fields
  <2>4. Begun(asked) /\ Quiet(asked) /\ Once(asked) /\ asked.at = "resolve_context_reference"
    BY <1>1, <1>2, <2>2 DEF Begun, Quiet, Once, SameBut, Fields
  <2>5. R!Successor(asked) = "request_intent_clarification"
    BY <2>2, <2>4, RoutesOfFocus
  <2>6. Ready("request_intent_clarification", asked)
    BY <2>4 DEF Ready, Working, Quiet, Drafting, Updating, Decomposing, Changing,
           R!Classified, R!Answering, R!Executing, SameBut, Fields
  <2> QED BY <1>1, <1>4, <2>3, <2>5, <2>6, Left DEF Leave, R!Nodes, R!Branching, R!Answering,
                 R!Preparing, R!Executing
<1> QED BY <1>1, <1>3, <1>4

-----------------------------------------------------------------------------
(* Finding a task, and asking which one is meant.                          *)

\* A match is one of the tasks it was looked for in.
LEMMA MatchingFinds ==
    ASSUME NEW r, NEW S
    PROVE  Matching(r, S) \subseteq S
BY DEF Matching

\* The fields that Found sets.
Matched == {"selected", "selection", "candidates", "error"}

\* A match selects one task, or asks which one with the list it shows.
LEMMA FoundFields ==
    ASSUME Tree(task), NEW h, Shape(h), NEW found \in SUBSET Live,
           NEW pending \in Selection, NEW k, k = Found(h, found, pending)
    PROVE  /\ Shape(k) /\ SameBut(Matched, k, h)
           /\ \/ /\ k.selection = None /\ k.candidates = <<>>
                 /\ k.selected = None \/ (k.selected \in TaskCopy /\ CopyOK(task, k.selected))
              \/ /\ k.selection = pending /\ k.candidates = Items(found)
                 /\ Items(found) # <<>> /\ Distinct(Items(found)) /\ k.selected = None
<1> DEFINE one == Cardinality(found) = 1
           several == Cardinality(found) > 1
           selected == IF one THEN Copy(CHOOSE t \in found : TRUE) ELSE None
           selection == IF several THEN pending ELSE None
           candidates == IF several THEN Items(found) ELSE <<>>
<1>1. k = [h EXCEPT !.selected = selected, !.selection = selection,
                    !.candidates = candidates, !.error = FALSE]
  BY DEF Found
<1>2. task \in [TaskId -> TaskRecord \cup {None, Gone}]
  BY DEF Tree
<1>3. /\ Items(found) \in Seq(ListItem) /\ Distinct(Items(found))
      /\ found # {} => Items(found) # <<>>
  BY <1>2, ListItems
<1>4. Cardinality({}) = 0
  BY FS_EmptySet
<1>5. one => selected \in TaskCopy /\ CopyOK(task, selected)
  BY <1>4, CopyIsOK
<1>6. several => ~one /\ found # {}
  BY <1>4
<1>7. /\ selected \in TaskCopy \cup {None} /\ selection \in Selection \cup {None}
      /\ candidates \in Seq(ListItem)
  BY <1>3, <1>5
<1>8. \/ /\ selection = None /\ candidates = <<>>
         /\ selected = None \/ (selected \in TaskCopy /\ CopyOK(task, selected))
      \/ /\ selection = pending /\ candidates = Items(found)
         /\ Items(found) # <<>> /\ Distinct(Items(found)) /\ selected = None
  BY <1>3, <1>5, <1>6
<1> HIDE DEF selected, selection, candidates, one, several
<1>9. Shape(k)
  BY <1>1, <1>7, Put DEF Fields, FieldType
<1>10. /\ k.selected = selected /\ k.selection = selection /\ k.candidates = candidates
       /\ SameBut(Matched, k, h)
  BY <1>1, HasFields DEF SameBut, Fields, Matched
<1> QED BY <1>8, <1>9, <1>10

\* A task that was looked for is no error, found or not.
LEMMA FoundWell ==
    ASSUME NEW h, Shape(h), NEW found, NEW pending
    PROVE  Found(h, found, pending).error = FALSE
BY HasFields DEF Found, Fields

\* A query shows what it kept, or the one task that was meant.
LEMMA QueryTaskDataStep ==
    ASSUME IInv, QueryTaskData
    PROVE  IInv'
<1> DEFINE all(kept) == [g EXCEPT !.results = kept, !.candidates = <<>>, !.selected = None,
                                  !.selection = None, !.error = FALSE]
           found(kept) == Matching(g.ref, kept)
           pending(kept) == [live |-> TRUE, operation |-> "QUERY_TASKS",
                             items |-> Items(found(kept)), target |-> None, text |-> None]
           of(kept) == Found(g, found(kept), pending(kept))
           results(kept) == IF Cardinality(found(kept)) = 1 THEN found(kept) ELSE {}
<1>1. /\ g.at = "query_task_data" /\ UNCHANGED task
      /\ \/ Leave(Failed(g))
         \/ \E kept \in SUBSET Live :
               Leave(all(kept)) \/ Leave([of(kept) EXCEPT !.results = results(kept)])
  BY DEF QueryTaskData, At
<1>2. Sound(task, heard, g) /\ Begun(g) /\ Quiet(g) /\ Tree(task)
  BY <1>1 DEF IInv, Ready, R!Classified
<1>3. CASE Leave(Failed(g))
  BY <1>1, <1>2, <1>3, Fails DEF Quiet, Once, R!Branching
<1>4. ASSUME NEW kept \in SUBSET Live, Leave(all(kept))
      PROVE  IInv'
  <2> DEFINE k == all(kept)
  <2>1. kept \in SUBSET TaskId
    BY DEF Live
  <2>2. Shape(k)
    <3>1. /\ kept \in FieldType["results"] /\ <<>> \in FieldType["candidates"]
          /\ None \in FieldType["selected"] /\ None \in FieldType["selection"]
          /\ FALSE \in FieldType["error"]
      BY <2>1 DEF FieldType
    <3> QED BY <1>2, <3>1, Put DEF Sound, Fields
  <2>3. /\ k.candidates = <<>> /\ k.selected = None /\ k.selection = None /\ k.error = FALSE
        /\ SameBut({"results", "candidates", "selected", "selection", "error"}, k, g)
    BY <1>2, HasFields DEF Sound, SameBut, Fields
  <2>4. g' = [k EXCEPT !.at = R!Successor(k)] /\ UNCHANGED <<scene, task, heard>>
    BY <1>1, <1>4 DEF Leave
  <2> HIDE DEF k
  <2>5. Sound(task, heard, k) /\ Once(k) /\ k.at = "query_task_data"
    BY <1>1, <1>2, <2>2, <2>3 DEF Sound, CopiesOK, ListsOK, TextsOK, FocusOK, SameBut, Fields,
           Begun, Quiet, Once
  <2>6. R!Successor(k) = "finalize_turn"
    BY <2>3, <2>5, RoutesOfReferences
  <2> QED BY <2>4, <2>5, <2>6, Finishes
<1>5. ASSUME NEW kept \in SUBSET Live, Leave([of(kept) EXCEPT !.results = results(kept)])
      PROVE  IInv'
  <2> DEFINE h == of(kept)
             k == [h EXCEPT !.results = results(kept)]
  <2>1. found(kept) \in SUBSET Live /\ found(kept) \in SUBSET TaskId
    BY MatchingFinds DEF Live
  <2>2. Items(found(kept)) \in Seq(ListItem)
    BY <1>2, <2>1, ListItems DEF Tree
  <2>3. /\ pending(kept) \in Selection /\ pending(kept).items = Items(found(kept))
        /\ pending(kept).operation = "QUERY_TASKS"
    BY <2>2 DEF Selection, R!ContextIntents
  <2>4. pending(kept) # None
    BY <2>3, GraphAssumption
  <2>5. h.error = FALSE
    BY <1>2, FoundWell DEF Sound
  <2> HIDE DEF found, pending
  <2>6. /\ Shape(h) /\ SameBut(Matched, h, g)
        /\ \/ /\ h.selection = None /\ h.candidates = <<>>
              /\ h.selected = None \/ (h.selected \in TaskCopy /\ CopyOK(task, h.selected))
           \/ /\ h.selection = pending(kept) /\ h.candidates = Items(found(kept))
              /\ Items(found(kept)) # <<>> /\ Distinct(Items(found(kept)))
              /\ h.selected = None
    BY <1>2, <2>1, <2>3, FoundFields DEF Sound
  <2> HIDE DEF of
  <2>7. results(kept) \in SUBSET TaskId
    BY <2>1
  <2> HIDE DEF results
  <2>8. Shape(k)
    BY <2>6, <2>7, Put DEF Fields, FieldType
  <2>9. SameBut({"results"}, k, h)
    BY <2>6, HasFields DEF SameBut, Fields
  <2>10. g' = [k EXCEPT !.at = R!Successor(k)] /\ UNCHANGED <<scene, task, heard>>
    BY <1>1, <1>5 DEF Leave
  <2> HIDE DEF h, k
  <2>11. SameBut(Matched \cup {"results"}, k, g)
    BY <2>6, <2>9 DEF SameBut, Fields, Matched
  <2>12. /\ k.selection = h.selection /\ k.candidates = h.candidates /\ k.error = FALSE
         /\ k.selected = h.selected
    BY <2>5, <2>9 DEF SameBut, Fields
  <2>13. Once(k) /\ k.at = "query_task_data"
    BY <1>1, <1>2, <2>11 DEF Quiet, Once, SameBut, Fields, Matched
  <2>14. Sound(task, heard, k)
    BY <1>2, <2>3, <2>4, <2>6, <2>8, <2>11, <2>12 DEF Sound, CopiesOK, ListsOK, TextsOK,
           FocusOK, SameBut, Fields, Begun, Quiet, Matched
  <2>15. R!Successor(k) = "finalize_turn"
    BY <2>12, <2>13, RoutesOfReferences
  <2> QED BY <2>10, <2>13, <2>14, <2>15, Finishes
<1> QED BY <1>1, <1>3, <1>4, <1>5

\* The task a write is about is selected, or asked for.
LEMMA ResolveTaskReferenceStep ==
    ASSUME IInv, ResolveTaskReference
    PROVE  IInv'
<1> DEFINE found == Matching(g.ref, Live)
           target == IF g.intent = "UPDATE_TASK_STATUS" THEN g.target ELSE None
           text == IF g.intent \in {"UPDATE_TASK", "DECOMPOSE_TASK"} THEN Text(g) ELSE None
           pending == [live |-> TRUE, operation |-> g.intent, items |-> Items(found),
                       target |-> target, text |-> text]
           k == Found(g, found, pending)
<1>1. /\ g.at = "resolve_task_reference" /\ UNCHANGED task
      /\ Leave(Failed(g)) \/ Leave(k)
  BY DEF ResolveTaskReference, At
<1>2. /\ Sound(task, heard, g) /\ Begun(g) /\ Quiet(g) /\ Tree(task)
      /\ g.intent \in R!WritingIntents \cup {"DELETE_TASK"}
  BY <1>1 DEF IInv, Ready, R!Classified
<1>3. CASE Leave(Failed(g))
  BY <1>1, <1>2, <1>3, Fails DEF Quiet, Once, R!Branching
<1>4. CASE Leave(k)
  <2>1. found \in SUBSET Live
    BY MatchingFinds
  <2>2. Items(found) \in Seq(ListItem)
    BY <1>2, <2>1, ListItems DEF Tree
  <2>3. g.intent # None /\ g.intent \in R!ContextIntents \cup {"DELETE_TASK"}
    BY <1>2, GraphAssumption DEF R!WritingIntents, R!ContextIntents, R!Intents
  <2>4. target \in Status \cup {None} /\ text \in MessageText \cup {None}
    BY <1>2 DEF Sound, Shape, Fields, FieldType, Text, MessageText
  <2>5. g.intent \in {"UPDATE_TASK", "DECOMPOSE_TASK"} => text = "request"
    BY <2>3 DEF Text
  <2> HIDE DEF target, text
  <2>6. /\ pending \in Selection /\ pending.items = Items(found)
        /\ pending.operation = g.intent /\ pending.text = text
    BY <2>2, <2>3, <2>4 DEF Selection
  <2>7. pending # None
    BY <2>6, GraphAssumption
  <2> HIDE DEF pending, found
  <2>8. k.error = FALSE
    BY <1>2, FoundWell DEF Sound
  <2>9. /\ Shape(k) /\ SameBut(Matched, k, g)
        /\ \/ /\ k.selection = None /\ k.candidates = <<>>
              /\ k.selected = None \/ (k.selected \in TaskCopy /\ CopyOK(task, k.selected))
           \/ /\ k.selection = pending /\ k.candidates = Items(found)
              /\ Items(found) # <<>> /\ Distinct(Items(found)) /\ k.selected = None
    BY <1>2, <2>1, <2>6, FoundFields DEF Sound
  <2>10. g' = [k EXCEPT !.at = R!Successor(k)] /\ UNCHANGED <<scene, task, heard>>
    BY <1>1, <1>4 DEF Leave
  <2> HIDE DEF k
  <2>11. Sound(task, heard, k)
    BY <1>2, <2>5, <2>6, <2>7, <2>9 DEF Sound, CopiesOK, ListsOK, TextsOK, FocusOK, SameBut,
           Fields, Begun, Quiet, Matched
  <2>12. k.at = "resolve_task_reference" /\ Once(k) /\ k.intent = g.intent
    BY <1>1, <1>2, <2>9 DEF Quiet, Once, SameBut, Fields, Matched
  <2>13. CASE k.selected = None
    <3>1. R!Successor(k) = "finalize_turn"
      BY <2>8, <2>12, <2>13, RoutesOfReferences
    <3> QED BY <2>10, <2>11, <2>12, <3>1, Finishes
  <2>14. CASE k.selected # None
    <3> DEFINE n == R!Successor(k)
    <3>1. n \in {"prepare_status_update", "prepare_task_restore", "prepare_task_delete",
                 "parse_task_update", "load_decomposition_context"}
      BY <2>8, <2>12, <2>14, RoutesOfReferences
    <3>2. Working(k) /\ k.action = None
      BY <1>2, <2>9, <2>14 DEF Working, Quiet, Begun, SameBut, Fields, Matched
    <3> HIDE DEF n
    <3>3. Ready(n, k)
      BY <2>3, <2>12, <2>14, <3>1, <3>2 DEF Ready, Drafting, Updating, Decomposing, Changing,
             R!Classified, R!Answering, R!Executing
    <3>4. n \in R!Nodes
      BY <3>1 DEF R!Nodes, R!Branching, R!Answering, R!Preparing, R!Executing
    <3> QED BY <2>10, <2>11, <3>3, <3>4, Left DEF n
  <2> QED BY <2>13, <2>14
<1> QED BY <1>1, <1>3, <1>4

-----------------------------------------------------------------------------
(* Resuming a selection.                                                   *)

\* The selection is closed; nothing else of the message has happened yet.
LEMMA ClosedQuietly ==
    ASSUME Sound(task, heard, g), Begun(g), Once(g), g.selection # None
    PROVE  /\ Sound(task, heard, Closed(g)) /\ Begun(Closed(g)) /\ Quiet(Closed(g))
           /\ Closed(g).at = g.at
<1> DEFINE k == Closed(g)
<1>1. Shape(k)
  <2>1. /\ None \in FieldType["selection"] /\ <<>> \in FieldType["candidates"]
        /\ FALSE \in FieldType["error"]
    BY DEF FieldType
  <2> QED BY <2>1, Put DEF Closed, Sound, Fields
<1>2. /\ k.selection = None /\ k.candidates = <<>> /\ k.error = FALSE
      /\ SameBut({"selection", "candidates", "error"}, k, g)
  BY HasFields DEF Closed, Sound, SameBut, Fields
<1> HIDE DEF k
<1>3. Sound(task, heard, k)
  BY <1>1, <1>2 DEF Sound, CopiesOK, ListsOK, TextsOK, FocusOK, SameBut, Fields, Once, Quiet
<1>4. Begun(k) /\ Quiet(k) /\ k.at = g.at
  BY <1>2 DEF Begun, Once, Quiet, SameBut, Fields
<1> QED BY <1>3, <1>4 DEF k

\* The operation goes on with the task that was chosen.
LEMMA Resumes ==
    ASSUME IInv, UNCHANGED <<scene, task, heard>>, NEW k, Sound(task, heard, k),
           k.error = FALSE, k.at = "resolve_task_selection",
           Working(k), k.selected # None, k.action = None,
           \/ k.route \in {"selected_update", "selected_deletion"}
           \/ k.route = "selected_attribute_update" /\ k.uMsg = "request"
           \/ k.route = "selected_decomposition" /\ k.dMsg = "request",
           g' = [k EXCEPT !.at = R!Successor(k)]
    PROVE  IInv'
<1> DEFINE n == R!Successor(k)
<1>1. \/ n \in Changing
      \/ n = "parse_task_update" /\ k.uMsg = "request"
      \/ n = "load_decomposition_context" /\ k.dMsg = "request"
  BY RoutesOfSelection DEF Changing
<1> HIDE DEF n
<1>2. Ready(n, k)
  BY <1>1 DEF Ready, Drafting, Updating, Decomposing, Changing, R!Classified, R!Answering,
         R!Executing
<1>3. n \in R!Nodes
  BY <1>1 DEF Changing, R!Nodes, R!Branching, R!Answering, R!Preparing, R!Executing
<1> QED BY <1>2, <1>3, Left DEF n

\* A message that chooses nothing, or no longer anything, ends the turn or starts it anew.
LEMMA NothingSelected ==
    ASSUME IInv, UNCHANGED <<scene, task, heard>>, g.at = "resolve_task_selection",
           NEW k, k = [Closed(g) EXCEPT !.route = k.route], k.route \in {"classify", "handled"},
           g' = [k EXCEPT !.at = R!Successor(k)]
    PROVE  IInv'
<1>1. Sound(task, heard, g) /\ Begun(g) /\ Once(g) /\ g.selection # None
  BY DEF IInv, Ready, Resuming
<1> DEFINE c == Closed(g)
<1>2. Sound(task, heard, c) /\ Begun(c) /\ Quiet(c) /\ c.at = g.at
  BY <1>1, ClosedQuietly
<1> DEFINE r == k.route
<1>3. k = [c EXCEPT !.route = r] /\ r \in FieldType["route"]
  BY DEF FieldType
<1> HIDE DEF c, r
<1>4. Shape(k)
  BY <1>2, <1>3, Put DEF Sound, Fields
<1>5. SameBut({"route"}, k, c)
  BY <1>2, <1>3, HasFields DEF Sound, SameBut, Fields
<1>6. Sound(task, heard, k)
  BY <1>2, <1>4, <1>5 DEF Sound, CopiesOK, ListsOK, TextsOK, FocusOK, SameBut, Fields
<1>7. Begun(k) /\ Quiet(k) /\ Once(k) /\ k.at = "resolve_task_selection"
  BY <1>2, <1>5 DEF Begun, Quiet, Once, SameBut, Fields
<1>8. k.error = FALSE
  BY <1>7 DEF Begun
<1>9. CASE k.route = "classify"
  <2>1. R!Successor(k) = "classify_intent"
    BY <1>7, <1>8, <1>9, RoutesOfLists
  <2>2. Ready("classify_intent", k)
    BY <1>7 DEF Ready, Working, Quiet, Drafting, Updating, Decomposing, Changing,
           R!Classified, R!Answering, R!Executing, SameBut, Fields
  <2> QED BY <1>6, <2>1, <2>2, Left DEF R!Nodes, R!Branching, R!Answering, R!Preparing,
                 R!Executing
<1>10. CASE k.route = "handled"
  <2>1. R!Successor(k) = "finalize_turn"
    BY <1>7, <1>8, <1>10, RoutesOfLists
  <2> QED BY <1>6, <1>7, <2>1, Finishes
<1> QED BY <1>9, <1>10

\* The list of what is left is shown, and kept.
LEMMA SelectionAskedAgain ==
    ASSUME IInv, UNCHANGED task, g.at = "resolve_task_selection",
           NEW left, left = Available(g.selection.items), left # {},
           Leave([g EXCEPT !.selection.items = Items(left), !.candidates = Items(left),
                           !.route = "handled", !.error = FALSE])
    PROVE  IInv'
<1> DEFINE items == Items(left)
           selection == [g.selection EXCEPT !.items = items]
           k == [g EXCEPT !.selection = selection, !.candidates = items,
                          !.route = "handled", !.error = FALSE]
<1>1. Sound(task, heard, g) /\ Begun(g) /\ Once(g) /\ g.selection # None /\ Tree(task)
  BY DEF IInv, Ready, Resuming
<1>2. items \in Seq(ListItem) /\ Distinct(items) /\ items # <<>>
  BY <1>1, ListItems DEF Available, Tree
<1> HIDE DEF items
<1>3. g.selection \in Selection
  BY <1>1 DEF Sound, Shape, Fields, FieldType
<1>4. /\ selection \in Selection /\ selection.items = items
      /\ selection.operation = g.selection.operation /\ selection.text = g.selection.text
  BY <1>2, <1>3 DEF Selection
<1>5. selection # None
  BY <1>4, GraphAssumption
<1>6. UNCHANGED <<scene, task, heard>> /\ g' = [k EXCEPT !.at = R!Successor(k)]
  BY DEF Leave, items
<1> HIDE DEF selection
<1>7. Shape(k)
  BY <1>1, <1>2, <1>4, Put DEF Sound, Fields, FieldType
<1>8. /\ k.selection = selection /\ k.candidates = items /\ k.route = "handled"
      /\ k.error = FALSE /\ SameBut({"selection", "candidates", "route", "error"}, k, g)
  BY <1>1, HasFields DEF Sound, SameBut, Fields
<1> HIDE DEF k
<1>9. Once(k) /\ k.at = "resolve_task_selection"
  BY <1>1, <1>8 DEF Once, SameBut, Fields
<1>10. g.deletion = None
  BY <1>1 DEF Once
<1>11. Sound(task, heard, k)
  BY <1>1, <1>2, <1>4, <1>5, <1>7, <1>8, <1>10 DEF Sound, CopiesOK, ListsOK, TextsOK, FocusOK,
         SameBut, Fields
<1>12. R!Successor(k) = "finalize_turn"
  BY <1>8, <1>9, RoutesOfLists
<1> QED BY <1>6, <1>9, <1>11, <1>12, Finishes

\* The task that was chosen, with the state the operation goes on in.
LEMMA SelectedStep ==
    ASSUME IInv, UNCHANGED task, g.at = "resolve_task_selection", NEW t \in Live,
           Leave(Selected(t))
    PROVE  IInv'
<1> DEFINE c == Closed(g)
           h == [c EXCEPT !.selected = Copy(t)]
           operation == g.selection.operation
           text == g.selection.text
           target == g.selection.target
<1>1. Sound(task, heard, g) /\ Begun(g) /\ Once(g) /\ g.selection # None /\ Tree(task)
  BY DEF IInv, Ready, Resuming
<1>2. /\ operation \in R!ContextIntents \cup {"DELETE_TASK"} /\ target \in Status \cup {None}
      /\ operation \in {"UPDATE_TASK", "DECOMPOSE_TASK"} => text = "request"
  BY <1>1 DEF Sound, Shape, Fields, FieldType, Selection, TextsOK
<1>3. Sound(task, heard, c) /\ Begun(c) /\ Quiet(c) /\ c.at = g.at
  BY <1>1, ClosedQuietly
<1>4. /\ Copy(t) \in TaskCopy /\ CopyOK(task, Copy(t)) /\ Copy(t) # None
      /\ t \in TaskId
  BY <1>1, CopyIsOK DEF Live
<1>5. UNCHANGED <<scene, task, heard>>
  BY DEF Leave
<1>6. \/ operation = "QUERY_TASKS" /\ Leave([h EXCEPT !.results = {t}, !.route = "handled"])
      \/ /\ operation = "UPDATE_TASK"
         /\ Leave([h EXCEPT !.uMsg = text, !.route = "selected_attribute_update"])
      \/ /\ operation = "DECOMPOSE_TASK"
         /\ Leave([h EXCEPT !.dMsg = text, !.route = "selected_decomposition"])
      \/ Leave([h EXCEPT !.route = "selected_deletion"])
      \/ Leave([h EXCEPT !.target = target, !.route = "selected_update"])
      \/ Leave([c EXCEPT !.route = "handled"])
  BY <1>2 DEF Selected, R!ContextIntents
<1> HIDE DEF c, operation, text, target
<1>7. Shape(h)
  BY <1>3, <1>4, Put DEF Sound, Fields, FieldType
<1>8. h.selected = Copy(t) /\ SameBut({"selected"}, h, c)
  BY <1>3, HasFields DEF Sound, SameBut, Fields
<1> HIDE DEF h
<1>9. Sound(task, heard, h)
  BY <1>3, <1>4, <1>7, <1>8 DEF Sound, CopiesOK, ListsOK, TextsOK, FocusOK, SameBut, Fields,
         Begun
<1>10. /\ Working(h) /\ h.selected # None /\ h.action = None /\ h.error = FALSE
       /\ h.at = "resolve_task_selection"
  BY <1>3, <1>4, <1>8 DEF Working, Quiet, Begun, SameBut, Fields
<1>11. CASE operation = "QUERY_TASKS" /\ Leave([h EXCEPT !.results = {t}, !.route = "handled"])
  <2> DEFINE k == [h EXCEPT !.results = {t}, !.route = "handled"]
  <2>1. Shape(k)
    <3>1. {t} \in FieldType["results"] /\ "handled" \in FieldType["route"]
      BY <1>4 DEF FieldType
    <3> QED BY <1>7, <3>1, Put DEF Fields
  <2>2. k.route = "handled" /\ SameBut({"results", "route"}, k, h)
    BY <1>7, HasFields DEF SameBut, Fields
  <2>3. g' = [k EXCEPT !.at = R!Successor(k)]
    BY <1>11 DEF Leave
  <2> HIDE DEF k
  <2>4. Sound(task, heard, k)
    BY <1>9, <2>1, <2>2 DEF Sound, CopiesOK, ListsOK, TextsOK, FocusOK, SameBut, Fields
  <2>5. Once(k) /\ k.error = FALSE /\ k.at = "resolve_task_selection"
    BY <1>10, <2>2 DEF Working, Quiet, Once, SameBut, Fields
  <2>6. R!Successor(k) = "finalize_turn"
    BY <2>2, <2>5, RoutesOfLists
  <2> QED BY <1>5, <2>3, <2>4, <2>5, <2>6, Finishes
<1>12. CASE /\ operation = "UPDATE_TASK"
            /\ Leave([h EXCEPT !.uMsg = text, !.route = "selected_attribute_update"])
  <2> DEFINE k == [h EXCEPT !.uMsg = "request", !.route = "selected_attribute_update"]
  <2>1. Shape(k)
    BY <1>7, Put DEF Fields, FieldType, MessageText
  <2>2. /\ k.uMsg = "request" /\ k.route = "selected_attribute_update"
        /\ SameBut({"uMsg", "route"}, k, h)
    BY <1>7, HasFields DEF SameBut, Fields
  <2>3. g' = [k EXCEPT !.at = R!Successor(k)]
    BY <1>2, <1>12 DEF Leave, operation, text
  <2> HIDE DEF k
  <2>4. Sound(task, heard, k)
    BY <1>9, <2>1, <2>2 DEF Sound, CopiesOK, ListsOK, TextsOK, FocusOK, SameBut, Fields
  <2>5. /\ Working(k) /\ k.selected # None /\ k.action = None /\ k.error = FALSE
        /\ k.at = "resolve_task_selection"
    BY <1>10, <2>2 DEF Working, Quiet, SameBut, Fields
  <2> QED BY <1>5, <2>2, <2>3, <2>4, <2>5, Resumes
<1>13. CASE /\ operation = "DECOMPOSE_TASK"
            /\ Leave([h EXCEPT !.dMsg = text, !.route = "selected_decomposition"])
  <2> DEFINE k == [h EXCEPT !.dMsg = "request", !.route = "selected_decomposition"]
  <2>1. Shape(k)
    BY <1>7, Put DEF Fields, FieldType, MessageText
  <2>2. /\ k.dMsg = "request" /\ k.route = "selected_decomposition"
        /\ SameBut({"dMsg", "route"}, k, h)
    BY <1>7, HasFields DEF SameBut, Fields
  <2>3. g' = [k EXCEPT !.at = R!Successor(k)]
    BY <1>2, <1>13 DEF Leave, operation, text
  <2> HIDE DEF k
  <2>4. Sound(task, heard, k)
    BY <1>9, <2>1, <2>2 DEF Sound, CopiesOK, ListsOK, TextsOK, FocusOK, SameBut, Fields
  <2>5. /\ Working(k) /\ k.selected # None /\ k.action = None /\ k.error = FALSE
        /\ k.at = "resolve_task_selection"
    BY <1>10, <2>2 DEF Working, Quiet, SameBut, Fields
  <2> QED BY <1>5, <2>2, <2>3, <2>4, <2>5, Resumes
<1>14. CASE Leave([h EXCEPT !.route = "selected_deletion"])
  <2> DEFINE k == [h EXCEPT !.route = "selected_deletion"]
  <2>1. Shape(k)
    BY <1>7, Put DEF Fields, FieldType
  <2>2. k.route = "selected_deletion" /\ SameBut({"route"}, k, h)
    BY <1>7, HasFields DEF SameBut, Fields
  <2>3. g' = [k EXCEPT !.at = R!Successor(k)]
    BY <1>14 DEF Leave
  <2> HIDE DEF k
  <2>4. Sound(task, heard, k)
    BY <1>9, <2>1, <2>2 DEF Sound, CopiesOK, ListsOK, TextsOK, FocusOK, SameBut, Fields
  <2>5. /\ Working(k) /\ k.selected # None /\ k.action = None /\ k.error = FALSE
        /\ k.at = "resolve_task_selection"
    BY <1>10, <2>2 DEF Working, Quiet, SameBut, Fields
  <2> QED BY <1>5, <2>2, <2>3, <2>4, <2>5, Resumes
<1>15. CASE Leave([h EXCEPT !.target = target, !.route = "selected_update"])
  <2> DEFINE k == [h EXCEPT !.target = target, !.route = "selected_update"]
  <2>1. Shape(k)
    <3>1. target \in FieldType["target"] /\ "selected_update" \in FieldType["route"]
      BY <1>2 DEF FieldType, target
    <3> QED BY <1>7, <3>1, Put DEF Fields
  <2>2. k.route = "selected_update" /\ SameBut({"target", "route"}, k, h)
    BY <1>7, HasFields DEF SameBut, Fields
  <2>3. g' = [k EXCEPT !.at = R!Successor(k)]
    BY <1>15 DEF Leave
  <2> HIDE DEF k
  <2>4. Sound(task, heard, k)
    BY <1>9, <2>1, <2>2 DEF Sound, CopiesOK, ListsOK, TextsOK, FocusOK, SameBut, Fields
  <2>5. /\ Working(k) /\ k.selected # None /\ k.action = None /\ k.error = FALSE
        /\ k.at = "resolve_task_selection"
    BY <1>10, <2>2 DEF Working, Quiet, SameBut, Fields
  <2> QED BY <1>5, <2>2, <2>3, <2>4, <2>5, Resumes
<1>16. CASE Leave([c EXCEPT !.route = "handled"])
  <2> DEFINE k == [c EXCEPT !.route = "handled"]
  <2>1. k.route = "handled"
    BY <1>3, HasFields DEF Sound, Fields
  <2>2. k = [Closed(g) EXCEPT !.route = k.route]
    BY <2>1 DEF c
  <2>3. g' = [k EXCEPT !.at = R!Successor(k)]
    BY <1>16 DEF Leave
  <2> HIDE DEF k
  <2> QED BY <1>5, <2>1, <2>2, <2>3, NothingSelected
<1> QED BY <1>6, <1>11, <1>12, <1>13, <1>14, <1>15, <1>16

\* A choice is of a task of the saved list that is as it was shown, or it asks again.
LEMMA ResolveTaskSelectionStep ==
    ASSUME IInv, ResolveTaskSelection
    PROVE  IInv'
<1> DEFINE left == Available(g.selection.items)
           anew == [g EXCEPT !.selection = None, !.candidates = <<>>, !.route = "classify"]
           given == [Closed(g) EXCEPT !.route = "handled"]
<1>1. /\ g.at = "resolve_task_selection" /\ UNCHANGED task
      /\ \/ Leave(anew) \/ Leave(given) \/ Leave(Failed(g))
         \/ /\ left # {}
            /\ Leave([g EXCEPT !.selection.items = Items(left), !.candidates = Items(left),
                               !.route = "handled", !.error = FALSE])
         \/ \E t \in Live : Leave(Selected(t))
  BY DEF ResolveTaskSelection, NotChosen, Fresh, At
<1>2. Sound(task, heard, g) /\ Begun(g) /\ Once(g) /\ g.selection # None
  BY <1>1 DEF IInv, Ready, Resuming
<1>3. UNCHANGED <<scene, task, heard>>
  BY <1>1 DEF Leave
<1>4. CASE Leave(anew)
  <2>1. anew.route = "classify"
    BY <1>2, HasFields DEF Sound, Fields
  <2>2. anew = [Closed(g) EXCEPT !.route = "classify"]
    <3>1. g.error = FALSE
      BY <1>2 DEF Begun
    <3>2. DOMAIN g = Fields /\ g = [f \in Fields |-> g[f]]
      BY <1>2 DEF Sound, Shape, Rec
    <3> QED BY <3>1, <3>2 DEF Closed, Fields
  <2>3. g' = [anew EXCEPT !.at = R!Successor(anew)]
    BY <1>4 DEF Leave
  <2> HIDE DEF anew
  <2> QED BY <1>1, <1>3, <2>1, <2>2, <2>3, NothingSelected
<1>5. CASE Leave(given)
  <2>1. given.route = "handled"
    BY <1>2, HasFields, ClosedQuietly DEF Sound, Fields
  <2>2. given = [Closed(g) EXCEPT !.route = "handled"]
    OBVIOUS
  <2>3. g' = [given EXCEPT !.at = R!Successor(given)]
    BY <1>5 DEF Leave
  <2> HIDE DEF given
  <2> QED BY <1>1, <1>3, <2>1, <2>2, <2>3, NothingSelected
<1>6. CASE Leave(Failed(g))
  BY <1>1, <1>2, <1>6, Fails DEF R!Branching
<1>7. CASE /\ left # {}
           /\ Leave([g EXCEPT !.selection.items = Items(left), !.candidates = Items(left),
                              !.route = "handled", !.error = FALSE])
  BY <1>1, <1>7, SelectionAskedAgain
<1>8. CASE \E t \in Live : Leave(Selected(t))
  BY <1>1, <1>8, SelectedStep
<1> QED BY <1>1, <1>4, <1>5, <1>6, <1>7, <1>8

\* The answer to the list of a deletion: the deletion goes on, or is given up.
LEMMA ResolveTaskDeleteSelectionStep ==
    ASSUME IInv, ResolveTaskDeleteSelection
    PROVE  IInv'
<1> DEFINE pending == g.deletion
           closed == [g EXCEPT !.deletion = None, !.candidates = <<>>, !.error = FALSE]
           left == Available(pending.items)
           ended(r) == [closed EXCEPT !.selRoute = r]
           again == [g EXCEPT !.candidates = Items(left), !.selRoute = "end", !.error = FALSE]
           rParent(t) == IF pending.kind = "parent" THEN t ELSE pending.rParent
           rRefs(t) == IF pending.kind = "parent" THEN pending.rRefs
                       ELSE WithReference(pending, t)
           resumed(t) == [closed EXCEPT !.plan = pending.plan, !.delRoute = "batch",
                              !.selRoute = "resume", !.rParent = rParent(t),
                              !.rRefs = rRefs(t)]
<1>1. /\ g.at = "resolve_task_delete_selection" /\ UNCHANGED task
      /\ \/ \E r \in {"end", "classify"} : Leave(ended(r))
         \/ Leave(again)
         \/ \E t \in Live : Leave(resumed(t))
  BY DEF ResolveTaskDeleteSelection, Fresh, At
<1>2. /\ Sound(task, heard, g) /\ Begun(g) /\ Once(g) /\ pending # None /\ Tree(task)
      /\ UNCHANGED <<scene, task, heard>>
  BY <1>1 DEF IInv, Ready, Resuming, Leave
<1>3. pending \in DeleteSelection
  BY <1>2 DEF Sound, Shape, Fields, FieldType
<1>4. Shape(closed)
  <2>1. /\ None \in FieldType["deletion"] /\ <<>> \in FieldType["candidates"]
        /\ FALSE \in FieldType["error"]
    BY DEF FieldType
  <2> QED BY <1>2, <2>1, Put DEF Sound, Fields
<1>5. /\ closed.deletion = None /\ closed.candidates = <<>> /\ closed.error = FALSE
      /\ SameBut({"deletion", "candidates", "error"}, closed, g)
  BY <1>2, HasFields DEF Sound, SameBut, Fields
<1> HIDE DEF closed, pending
<1>6. Sound(task, heard, closed)
  BY <1>2, <1>4, <1>5 DEF Sound, CopiesOK, ListsOK, TextsOK, FocusOK, SameBut, Fields, Once,
         pending
<1>7. Begun(closed) /\ Quiet(closed) /\ closed.at = "resolve_task_delete_selection"
  BY <1>1, <1>2, <1>5 DEF Begun, Once, Quiet, SameBut, Fields, pending
<1>8. ASSUME NEW r \in {"end", "classify"}, Leave(ended(r))
      PROVE  IInv'
  <2> DEFINE k == ended(r)
  <2>1. Shape(k)
    BY <1>4, Put DEF Fields, FieldType
  <2>2. k.selRoute = r /\ SameBut({"selRoute"}, k, closed)
    BY <1>4, HasFields DEF SameBut, Fields
  <2>3. g' = [k EXCEPT !.at = R!Successor(k)]
    BY <1>8 DEF Leave
  <2> HIDE DEF k
  <2>4. Sound(task, heard, k)
    BY <1>6, <2>1, <2>2 DEF Sound, CopiesOK, ListsOK, TextsOK, FocusOK, SameBut, Fields
  <2>5. /\ Begun(k) /\ Quiet(k) /\ Once(k) /\ k.at = "resolve_task_delete_selection"
        /\ k.error = FALSE
    BY <1>7, <2>2 DEF Begun, Quiet, Once, SameBut, Fields
  <2>6. CASE r = "end"
    <3>1. R!Successor(k) = "finalize_turn"
      BY <2>2, <2>5, <2>6, RoutesOfLists
    <3> QED BY <1>2, <2>3, <2>4, <2>5, <3>1, Finishes
  <2>7. CASE r = "classify"
    <3>1. R!Successor(k) = "classify_intent"
      BY <2>2, <2>5, <2>7, RoutesOfLists
    <3>2. Ready("classify_intent", k)
      BY <2>5 DEF Ready, Working, Quiet, Drafting, Updating, Decomposing, Changing,
             R!Classified, R!Answering, R!Executing, SameBut, Fields
    <3> QED BY <1>2, <2>3, <2>4, <3>1, <3>2, Left DEF R!Nodes, R!Branching, R!Answering,
                   R!Preparing, R!Executing
  <2> QED BY <2>6, <2>7
<1>9. CASE Leave(again)
  <2>1. Items(left) \in Seq(ListItem) /\ Ids(Items(left)) \subseteq Ids(g.deletion.items)
    BY <1>2, ListItems DEF Available, Tree, pending
  <2> HIDE DEF left
  <2>2. Shape(again)
    BY <1>2, <2>1, Put DEF Sound, Fields, FieldType
  <2>3. /\ again.candidates = Items(left) /\ again.selRoute = "end" /\ again.error = FALSE
        /\ SameBut({"candidates", "selRoute", "error"}, again, g)
    BY <1>2, HasFields DEF Sound, SameBut, Fields
  <2> HIDE DEF again
  <2>4. g.selection = None
    BY <1>2 DEF Once, pending
  <2>5. Sound(task, heard, again)
    BY <1>2, <2>1, <2>2, <2>3, <2>4 DEF Sound, CopiesOK, ListsOK, TextsOK, FocusOK, SameBut,
           Fields, pending
  <2>6. Once(again) /\ again.at = "resolve_task_delete_selection"
    BY <1>1, <1>2, <2>3 DEF Once, SameBut, Fields
  <2>7. R!Successor(again) = "finalize_turn"
    BY <2>3, <2>6, RoutesOfLists
  <2> QED BY <1>2, <1>9, <2>5, <2>6, <2>7, Finishes DEF Leave
<1>10. ASSUME NEW t \in Live, Leave(resumed(t))
       PROVE  IInv'
  <2> DEFINE k == resumed(t)
  <2>1. t \in TaskId
    BY DEF Live
  <2>2. pending.plan \in Plan /\ rParent(t) \in TaskId \cup {None}
    BY <1>3, <2>1 DEF DeleteSelection
  <2>3. rRefs(t) \in Resolved
    <3>1. PICK D \in SUBSET (Reference \cup {None}) : pending.rRefs \in [D -> TaskId]
      BY <1>3 DEF DeleteSelection, Resolved
    <3>2. D \cup {pending.reference} \in SUBSET (Reference \cup {None})
      BY <1>3 DEF DeleteSelection
    <3>3. WithReference(pending, t) \in [D \cup {pending.reference} -> TaskId]
      BY <2>1, <3>1 DEF WithReference
    <3> QED BY <3>1, <3>2, <3>3 DEF Resolved
  <2> HIDE DEF rParent, rRefs
  <2>4. Shape(k)
    <3>1. /\ pending.plan \in FieldType["plan"] /\ "batch" \in FieldType["delRoute"]
          /\ "resume" \in FieldType["selRoute"] /\ rParent(t) \in FieldType["rParent"]
          /\ rRefs(t) \in FieldType["rRefs"]
      BY <2>2, <2>3 DEF FieldType
    <3> QED BY <1>4, <3>1, Put DEF Fields
  <2>5. /\ k.plan = pending.plan /\ k.selRoute = "resume"
        /\ SameBut({"plan", "delRoute", "selRoute", "rParent", "rRefs"}, k, closed)
    BY <1>4, HasFields DEF SameBut, Fields
  <2>6. g' = [k EXCEPT !.at = R!Successor(k)]
    BY <1>10 DEF Leave
  <2> HIDE DEF k
  <2>7. Sound(task, heard, k)
    BY <1>6, <2>4, <2>5 DEF Sound, CopiesOK, ListsOK, TextsOK, FocusOK, SameBut, Fields
  <2>8. Begun(k) /\ Quiet(k) /\ k.at = "resolve_task_delete_selection" /\ k.error = FALSE
    BY <1>7, <2>5 DEF Begun, Quiet, SameBut, Fields
  <2>9. R!Successor(k) = "prepare_task_delete_batch"
    BY <2>5, <2>8, RoutesOfLists
  <2>10. Ready("prepare_task_delete_batch", k)
    BY <2>2, <2>5, <2>8 DEF Ready, Working, Quiet, Drafting, Updating, Decomposing, Changing,
           R!Classified, R!Answering, R!Executing, SameBut, Fields, Begun
  <2> QED BY <1>2, <2>6, <2>7, <2>9, <2>10, Left DEF R!Nodes, R!Branching, R!Answering,
                 R!Preparing, R!Executing
<1> QED BY <1>1, <1>8, <1>9, <1>10

\* The turn's task comes into focus.
LEMMA FinalizeTurnStep ==
    ASSUME IInv, FinalizeTurn
    PROVE  IInv'
<1> DEFINE next == NextFocus(g)
           focus == IF next = None THEN None ELSE [live |-> TRUE, id |-> next]
           k == [g EXCEPT !.focus = focus]
<1>1. g.at = "finalize_turn" /\ Leave(k)
  BY DEF FinalizeTurn, At
<1>2. Sound(task, heard, g) /\ Once(g) /\ UNCHANGED <<scene, task, heard>>
  BY <1>1 DEF IInv, Ready, FinalizeTurn, At, Leave
<1>3. /\ g.created \in TaskId \cup {None} /\ g.updated \in TaskId \cup {None}
      /\ g.selected \in TaskCopy \cup {None} /\ g.results \in SUBSET TaskId
      /\ g.focus \in Focus \cup {None}
  BY <1>2 DEF Sound, Shape, Fields, FieldType
<1>4. /\ g.created = None \/ g.updated = None
      /\ g.updated # None /\ g.selected # None => g.updated = g.selected.id
  BY <1>2 DEF Sound, FocusOK
<1>5. Cardinality({}) = 0
  BY FS_EmptySet
<1>6. next \in TaskId \cup {None}
  BY <1>3, <1>5 DEF NextFocus, TaskCopy, Focus
<1>7. /\ g.deleted # {} => next = None
      /\ g.deleted = {} /\ g.created # None => next = g.created
      /\ g.deleted = {} /\ g.created = None /\ g.updated # None => next = g.updated
      /\ g.deleted = {} /\ g.created = None /\ g.updated = None /\ g.selected # None =>
           next = g.selected.id
  BY DEF NextFocus
<1> HIDE DEF next
<1>8. /\ focus \in Focus \cup {None}
      /\ focus # None => focus.id = next /\ next # None
  BY <1>6 DEF Focus
<1> HIDE DEF focus
<1>9. Shape(k)
  BY <1>2, <1>8, Put DEF Sound, Fields, FieldType
<1>10. k.focus = focus /\ SameBut({"focus"}, k, g)
  BY <1>2, HasFields DEF Sound, SameBut, Fields
<1>11. g' = [k EXCEPT !.at = R!Successor(k)]
  BY <1>1 DEF Leave
<1> HIDE DEF k
<1>12. Sound(task, heard, k) /\ Once(k) /\ k.at = "finalize_turn"
  BY <1>1, <1>2, <1>9, <1>10 DEF Sound, CopiesOK, ListsOK, TextsOK, FocusOK, SameBut, Fields,
         Once
<1>13. Answered(k)
  BY <1>4, <1>7, <1>8, <1>10 DEF Answered, SameBut, Fields
<1>14. R!Successor(k) = "END"
  BY <1>12, RoutesOfAnswers
<1>15. Ready("END", k)
  BY <1>12, <1>13 DEF Ready, Working, Quiet, Drafting, Updating, Decomposing, Changing,
         R!Classified, R!Answering, R!Executing, SameBut, Fields
<1> QED BY <1>2, <1>11, <1>12, <1>14, <1>15, Left

-----------------------------------------------------------------------------
(* Collecting the fields of a draft, or of a change, over several turns.   *)

\* One more input: the request stays the first.
LEMMA OneMoreInput ==
    ASSUME NEW inputs \in Seq(MessageText), NEW max \in Nat, Collected(inputs, max),
           inputs # <<>>
    PROVE  LET all == Append(inputs, "reply") IN
           all \in Seq(MessageText) /\ all # <<>> /\ Collected(all, max + 1)
<1> DEFINE all == Append(inputs, "reply")
<1>1. "reply" \in MessageText
  BY DEF MessageText
<1>2. all \in Seq(MessageText) /\ Len(all) = Len(inputs) + 1
  BY <1>1
<1>3. Len(inputs) >= 1 /\ Len(inputs) \in Nat
  OBVIOUS
<1>4. all[1] = inputs[1]
  BY <1>1, <1>3
<1>5. Head(all) = Head(inputs)
  BY <1>2, <1>3, <1>4
<1> QED BY <1>2, <1>3, <1>5 DEF Collected

\* Rounds count from one to the number configured.
LEMMA NextRound ==
    ASSUME NEW n \in 0..MaxRounds, n + 1 <= MaxRounds
    PROVE  n + 1 \in 0..MaxRounds /\ n + 1 \in 1..MaxRounds
BY GraphAssumption

\* The missing fields of a draft are asked for, as often as configured.
LEMMA PrepareTaskDraftClarificationStep ==
    ASSUME IInv, PrepareTaskDraftClarification
    PROVE  IInv'
<1> DEFINE round == g.round + 1
           draft == [live |-> TRUE, inputs |-> g.inputs, round |-> round]
           given == [g EXCEPT !.draft = None, !.inputs = <<>>, !.round = 0, !.error = FALSE]
           asked == [g EXCEPT !.draft = draft, !.round = round, !.error = FALSE]
<1>1. /\ g.at = "prepare_task_draft_clarification" /\ UNCHANGED task
      /\ Leave(given) \/ (round <= MaxRounds /\ Leave(asked))
  BY DEF PrepareTaskDraftClarification, NoDraft, At
<1>2. /\ Sound(task, heard, g) /\ Working(g) /\ g.inputs # <<>>
      /\ UNCHANGED <<scene, task, heard>>
  BY <1>1 DEF IInv, Ready, Drafting, Leave
<1>3. g.round \in 0..MaxRounds /\ g.inputs \in Seq(MessageText)
  <2>1. g.round \in FieldType["round"] /\ g.inputs \in FieldType["inputs"]
    BY <1>2 DEF Sound, Shape, Fields
  <2> QED BY <2>1 DEF FieldType
<1>4. CASE Leave(given)
  <2>1. Shape(given)
    <3>1. 0 \in 0..MaxRounds
      BY GraphAssumption
    <3>2. /\ None \in FieldType["draft"] /\ <<>> \in FieldType["inputs"]
          /\ FALSE \in FieldType["error"]
      BY DEF FieldType
    <3>3. 0 \in FieldType["round"]
      BY <3>1 DEF FieldType
    <3> QED BY <1>2, <3>2, <3>3, Put DEF Sound, Fields
  <2>2. /\ given.draft = None /\ given.inputs = <<>> /\ given.error = FALSE
        /\ SameBut({"draft", "inputs", "round", "error"}, given, g)
    BY <1>2, HasFields DEF Sound, SameBut, Fields
  <2> HIDE DEF given
  <2>3. Sound(task, heard, given)
    BY <1>2, <2>1, <2>2 DEF Sound, CopiesOK, ListsOK, TextsOK, FocusOK, SameBut, Fields,
           Collected
  <2>4. Once(given) /\ given.at = "prepare_task_draft_clarification"
    BY <1>1, <1>2, <2>2 DEF Working, Quiet, Once, SameBut, Fields
  <2>5. R!Successor(given) = "finalize_turn"
    BY <2>2, <2>4, RoutesOfDrafts
  <2> QED BY <1>2, <1>4, <2>3, <2>4, <2>5, Finishes DEF Leave
<1>5. CASE round <= MaxRounds /\ Leave(asked)
  <2>1. round \in 0..MaxRounds /\ round \in 1..MaxRounds /\ round = g.round + 1
    BY <1>3, <1>5, NextRound
  <2>2. Collected(g.inputs, round) /\ Collected(g.inputs, round + 1)
    BY <1>2, <1>3, <2>1 DEF Sound, TextsOK, Collected
  <2> HIDE DEF round
  <2>3. draft \in DraftClarification /\ draft.inputs = g.inputs /\ draft.round = round
    BY <1>3, <2>1 DEF DraftClarification
  <2> HIDE DEF draft
  <2>4. Shape(asked)
    <3>1. draft \in FieldType["draft"] /\ FALSE \in FieldType["error"]
      BY <2>3 DEF FieldType
    <3>2. round \in FieldType["round"]
      BY <2>1 DEF FieldType
    <3> QED BY <1>2, <3>1, <3>2, Put DEF Sound, Fields
  <2>5. /\ asked.draft = draft /\ asked.round = round /\ asked.error = FALSE
        /\ SameBut({"draft", "round", "error"}, asked, g)
    BY <1>2, HasFields DEF Sound, SameBut, Fields
  <2> HIDE DEF asked
  <2>6. Sound(task, heard, asked)
    BY <1>2, <2>2, <2>3, <2>4, <2>5 DEF Sound, CopiesOK, ListsOK, TextsOK, FocusOK, SameBut,
           Fields
  <2>7. Once(asked) /\ asked.at = "prepare_task_draft_clarification"
    BY <1>1, <1>2, <2>5 DEF Working, Quiet, Once, SameBut, Fields
  <2>8. R!Successor(asked) = "finalize_turn"
    BY <2>5, <2>7, RoutesOfDrafts
  <2> QED BY <1>2, <1>5, <2>6, <2>7, <2>8, Finishes DEF Leave
<1> QED BY <1>1, <1>4, <1>5

\* The answer is one more input of the draft, or the draft is given up.
LEMMA ResolveTaskDraftClarificationStep ==
    ASSUME IInv, ResolveTaskDraftClarification
    PROVE  IInv'
<1> DEFINE pending == g.draft
           inputs == Append(pending.inputs, "reply")
           given(r) == [g EXCEPT !.draft = None, !.inputs = <<>>, !.round = 0, !.route = r]
           resumed == [g EXCEPT !.draft = None, !.inputs = inputs, !.round = pending.round,
                                !.route = "draft_resume"]
<1>1. /\ g.at = "resolve_task_draft_clarification" /\ UNCHANGED task
      /\ (\E r \in {"classify", "handled"} : Leave(given(r))) \/ Leave(resumed)
  BY DEF ResolveTaskDraftClarification, NoDraft, At
<1>2. /\ Sound(task, heard, g) /\ Begun(g) /\ Once(g) /\ pending # None
      /\ UNCHANGED <<scene, task, heard>>
  BY <1>1 DEF IInv, Ready, Resuming, Leave
<1>3. /\ pending \in DraftClarification /\ pending.inputs # <<>>
      /\ Collected(pending.inputs, pending.round)
  BY <1>2 DEF Sound, Shape, Fields, FieldType, TextsOK
<1>4. pending.round \in 1..MaxRounds /\ pending.inputs \in Seq(MessageText)
  BY <1>3 DEF DraftClarification
<1>5. pending.round \in 0..MaxRounds /\ pending.round \in Nat
  BY <1>4, GraphAssumption
<1>6. /\ g.selection = None /\ g.deletion = None /\ g.query = None /\ g.update = None
      /\ g.error = FALSE
  BY <1>2 DEF Once, Begun
<1>7. ASSUME NEW r \in {"classify", "handled"}, Leave(given(r))
      PROVE  IInv'
  <2> DEFINE k == given(r)
  <2>1. Shape(k)
    <3>1. 0 \in 0..MaxRounds
      BY GraphAssumption
    <3>2. /\ None \in FieldType["draft"] /\ <<>> \in FieldType["inputs"]
          /\ r \in FieldType["route"]
      BY DEF FieldType
    <3>3. 0 \in FieldType["round"]
      BY <3>1 DEF FieldType
    <3> QED BY <1>2, <3>2, <3>3, Put DEF Sound, Fields
  <2>2. /\ k.draft = None /\ k.inputs = <<>> /\ k.round = 0 /\ k.route = r
        /\ SameBut({"draft", "inputs", "round", "route"}, k, g)
    BY <1>2, HasFields DEF Sound, SameBut, Fields
  <2>3. g' = [k EXCEPT !.at = R!Successor(k)]
    BY <1>7 DEF Leave
  <2> HIDE DEF k
  <2>4. Sound(task, heard, k)
    BY <1>2, <2>1, <2>2 DEF Sound, CopiesOK, ListsOK, TextsOK, FocusOK, SameBut, Fields,
           Collected
  <2>5. /\ Begun(k) /\ Quiet(k) /\ Once(k) /\ k.at = "resolve_task_draft_clarification"
        /\ k.error = FALSE
    BY <1>1, <1>2, <1>6, <2>2 DEF Begun, Quiet, Once, SameBut, Fields
  <2>6. CASE r = "handled"
    <3>1. R!Successor(k) = "finalize_turn"
      BY <2>2, <2>5, <2>6, RoutesOfClarifications
    <3> QED BY <1>2, <2>3, <2>4, <2>5, <3>1, Finishes
  <2>7. CASE r = "classify"
    <3>1. R!Successor(k) = "classify_intent"
      BY <2>2, <2>5, <2>7, RoutesOfClarifications
    <3>2. Ready("classify_intent", k)
      BY <2>5 DEF Ready, Working, Quiet, Drafting, Updating, Decomposing, Changing,
             R!Classified, R!Answering, R!Executing, SameBut, Fields
    <3> QED BY <1>2, <2>3, <2>4, <3>1, <3>2, Left DEF R!Nodes, R!Branching, R!Answering,
                   R!Preparing, R!Executing
  <2> QED BY <2>6, <2>7
<1>8. CASE Leave(resumed)
  <2>1. inputs \in Seq(MessageText) /\ inputs # <<>> /\ Collected(inputs, pending.round + 1)
    BY <1>3, <1>4, <1>5, OneMoreInput
  <2> HIDE DEF inputs, pending
  <2>2. Shape(resumed)
    <3>1. /\ None \in FieldType["draft"] /\ inputs \in FieldType["inputs"]
          /\ "draft_resume" \in FieldType["route"]
      BY <2>1 DEF FieldType
    <3>2. pending.round \in FieldType["round"]
      BY <1>5 DEF FieldType
    <3> QED BY <1>2, <3>1, <3>2, Put DEF Sound, Fields
  <2>3. /\ resumed.draft = None /\ resumed.inputs = inputs /\ resumed.round = pending.round
        /\ resumed.route = "draft_resume"
        /\ SameBut({"draft", "inputs", "round", "route"}, resumed, g)
    BY <1>2, HasFields DEF Sound, SameBut, Fields
  <2> HIDE DEF resumed
  <2>4. Sound(task, heard, resumed)
    BY <1>2, <2>1, <2>2, <2>3 DEF Sound, CopiesOK, ListsOK, TextsOK, FocusOK, SameBut, Fields
  <2>5. /\ Working(resumed) /\ resumed.updated = None /\ resumed.selected = None
        /\ resumed.inputs # <<>> /\ resumed.error = FALSE
        /\ resumed.at = "resolve_task_draft_clarification"
    BY <1>1, <1>2, <1>6, <2>1, <2>3 DEF Working, Begun, Quiet, SameBut, Fields
  <2>6. R!Successor(resumed) = "parse_task"
    BY <2>3, <2>5, RoutesOfClarifications
  <2>7. Ready("parse_task", resumed)
    BY <2>5 DEF Ready, Working, Quiet, Drafting, Updating, Decomposing, Changing,
           R!Classified, R!Answering, R!Executing, SameBut, Fields
  <2> QED BY <1>2, <1>8, <2>4, <2>6, <2>7, Left DEF Leave, R!Nodes, R!Branching, R!Answering,
                 R!Preparing, R!Executing
<1> QED BY <1>1, <1>7, <1>8

\* What a change lacks is asked for, as often as configured.
LEMMA PrepareTaskUpdateClarificationStep ==
    ASSUME IInv, PrepareTaskUpdateClarification
    PROVE  IInv'
<1> DEFINE round == g.uRound + 1
           update == [live |-> TRUE, inputs |-> g.uInputs, round |-> round,
                      id |-> g.selected.id, version |-> g.selected.version]
           given == [g EXCEPT !.update = None, !.uInputs = <<>>, !.uRound = 0,
                              !.needs = FALSE, !.patch = FALSE, !.error = FALSE]
           asked == [g EXCEPT !.update = update, !.uInputs = g.uInputs, !.uRound = round,
                              !.error = FALSE]
<1>1. g.at = "prepare_task_update_clarification" /\ UNCHANGED task
  BY DEF PrepareTaskUpdateClarification, At
<1>2. /\ Sound(task, heard, g) /\ Working(g) /\ g.uInputs # <<>> /\ g.selected # None
      /\ UNCHANGED <<scene, task, heard>>
  BY <1>1 DEF IInv, Ready, Updating, PrepareTaskUpdateClarification, Leave
<1>3. Leave(Failed(g)) \/ Leave(given) \/ (round <= MaxRounds /\ Leave(asked))
  BY <1>2 DEF PrepareTaskUpdateClarification, NoUpdate
<1>4. /\ g.uRound \in 0..MaxRounds /\ g.uInputs \in Seq(MessageText)
      /\ g.selected.id \in TaskId /\ g.selected.version \in Version
  <2>1. /\ g.uRound \in FieldType["uRound"] /\ g.uInputs \in FieldType["uInputs"]
        /\ g.selected \in FieldType["selected"]
    BY <1>2 DEF Sound, Shape, Fields
  <2>2. g.uRound \in 0..MaxRounds
    BY <2>1 DEF FieldType
  <2>3. g.uInputs \in Seq(MessageText) /\ g.selected \in TaskCopy
    BY <1>2, <2>1 DEF FieldType
  <2> QED BY <2>2, <2>3 DEF TaskCopy
<1>5. CASE Leave(given)
  <2>1. Shape(given)
    <3>1. 0 \in 0..MaxRounds
      BY GraphAssumption
    <3>2. /\ None \in FieldType["update"] /\ <<>> \in FieldType["uInputs"]
          /\ FALSE \in FieldType["error"] /\ FALSE \in FieldType["needs"]
          /\ FALSE \in FieldType["patch"]
      BY DEF FieldType
    <3>3. 0 \in FieldType["uRound"]
      BY <3>1 DEF FieldType
    <3> QED BY <1>2, <3>2, <3>3, Put DEF Sound, Fields
  <2>2. /\ given.update = None /\ given.uInputs = <<>> /\ given.error = FALSE
        /\ SameBut({"update", "uInputs", "uRound", "needs", "patch", "error"}, given, g)
    BY <1>2, HasFields DEF Sound, SameBut, Fields
  <2> HIDE DEF given
  <2>3. Sound(task, heard, given)
    BY <1>2, <2>1, <2>2 DEF Sound, CopiesOK, ListsOK, TextsOK, FocusOK, SameBut, Fields,
           Collected
  <2>4. Once(given) /\ given.at = "prepare_task_update_clarification"
    BY <1>1, <1>2, <2>2 DEF Working, Quiet, Once, SameBut, Fields
  <2>5. R!Successor(given) = "finalize_turn"
    BY <2>2, <2>4, RoutesOfParsing
  <2> QED BY <1>2, <1>5, <2>3, <2>4, <2>5, Finishes DEF Leave
<1>6. CASE round <= MaxRounds /\ Leave(asked)
  <2>1. round \in 0..MaxRounds /\ round \in 1..MaxRounds /\ round = g.uRound + 1
    BY <1>4, <1>6, NextRound
  <2>2. Collected(g.uInputs, round) /\ Collected(g.uInputs, round + 1)
    BY <1>2, <1>4, <2>1 DEF Sound, TextsOK, Collected
  <2> HIDE DEF round
  <2>3. update \in UpdateClarification /\ update.inputs = g.uInputs /\ update.round = round
    BY <1>4, <2>1 DEF UpdateClarification
  <2> HIDE DEF update
  <2>4. Shape(asked)
    <3>1. /\ update \in FieldType["update"] /\ FALSE \in FieldType["error"]
          /\ g.uInputs \in FieldType["uInputs"]
      BY <1>4, <2>3 DEF FieldType
    <3>2. round \in FieldType["uRound"]
      BY <2>1 DEF FieldType
    <3> QED BY <1>2, <3>1, <3>2, Put DEF Sound, Fields
  <2>5. /\ asked.update = update /\ asked.uInputs = g.uInputs /\ asked.uRound = round
        /\ asked.error = FALSE
        /\ SameBut({"update", "uInputs", "uRound", "error"}, asked, g)
    BY <1>2, HasFields DEF Sound, SameBut, Fields
  <2> HIDE DEF asked
  <2>6. Sound(task, heard, asked)
    BY <1>2, <2>2, <2>3, <2>4, <2>5 DEF Sound, CopiesOK, ListsOK, TextsOK, FocusOK, SameBut,
           Fields
  <2>7. Once(asked) /\ asked.at = "prepare_task_update_clarification"
    BY <1>1, <1>2, <2>5 DEF Working, Quiet, Once, SameBut, Fields
  <2>8. R!Successor(asked) = "finalize_turn"
    BY <2>5, <2>7, RoutesOfParsing
  <2> QED BY <1>2, <1>6, <2>6, <2>7, <2>8, Finishes DEF Leave
<1>7. CASE Leave(Failed(g))
  BY <1>1, <1>2, <1>7, Fails DEF Working, Quiet, Once, R!Branching
<1> QED BY <1>3, <1>5, <1>6, <1>7

\* The answer is one more input of the change, or the change is given up.
LEMMA ResolveTaskUpdateClarificationStep ==
    ASSUME IInv, ResolveTaskUpdateClarification
    PROVE  IInv'
<1> DEFINE pending == g.update
           inputs == Append(pending.inputs, "reply")
           given(r) == [g EXCEPT !.update = None, !.uInputs = <<>>, !.uRound = 0, !.route = r]
           resumed == [g EXCEPT !.update = None, !.uInputs = inputs,
                                !.uRound = pending.round, !.selected = Copy(pending.id),
                                !.needs = TRUE, !.patch = FALSE, !.uMsg = None,
                                !.route = "task_update_resume"]
<1>1. /\ g.at = "resolve_task_update_clarification" /\ UNCHANGED task
      /\ \/ \E r \in {"classify", "handled"} : Leave(given(r))
         \/ Leave(Failed(g))
         \/ pending.id \in Live /\ Leave(resumed)
  BY DEF ResolveTaskUpdateClarification, NoUpdate, At
<1>2. /\ Sound(task, heard, g) /\ Begun(g) /\ Once(g) /\ pending # None /\ Tree(task)
      /\ UNCHANGED <<scene, task, heard>>
  BY <1>1 DEF IInv, Ready, Resuming, Leave
<1>3. /\ pending \in UpdateClarification /\ pending.inputs # <<>>
      /\ Collected(pending.inputs, pending.round)
  BY <1>2 DEF Sound, Shape, Fields, FieldType, TextsOK
<1>4. pending.round \in 1..MaxRounds /\ pending.inputs \in Seq(MessageText)
  BY <1>3 DEF UpdateClarification
<1>5. pending.round \in 0..MaxRounds /\ pending.round \in Nat
  BY <1>4, GraphAssumption
<1>6. /\ g.selection = None /\ g.deletion = None /\ g.query = None /\ g.draft = None
      /\ g.error = FALSE
  BY <1>2 DEF Once, Begun
<1>7. ASSUME NEW r \in {"classify", "handled"}, Leave(given(r))
      PROVE  IInv'
  <2> DEFINE k == given(r)
  <2>1. Shape(k)
    <3>1. 0 \in 0..MaxRounds
      BY GraphAssumption
    <3>2. /\ None \in FieldType["update"] /\ <<>> \in FieldType["uInputs"]
          /\ r \in FieldType["route"]
      BY DEF FieldType
    <3>3. 0 \in FieldType["uRound"]
      BY <3>1 DEF FieldType
    <3> QED BY <1>2, <3>2, <3>3, Put DEF Sound, Fields
  <2>2. /\ k.update = None /\ k.uInputs = <<>> /\ k.uRound = 0 /\ k.route = r
        /\ SameBut({"update", "uInputs", "uRound", "route"}, k, g)
    BY <1>2, HasFields DEF Sound, SameBut, Fields
  <2>3. g' = [k EXCEPT !.at = R!Successor(k)]
    BY <1>7 DEF Leave
  <2> HIDE DEF k
  <2>4. Sound(task, heard, k)
    BY <1>2, <2>1, <2>2 DEF Sound, CopiesOK, ListsOK, TextsOK, FocusOK, SameBut, Fields,
           Collected
  <2>5. /\ Begun(k) /\ Quiet(k) /\ Once(k) /\ k.at = "resolve_task_update_clarification"
        /\ k.error = FALSE
    BY <1>1, <1>2, <1>6, <2>2 DEF Begun, Quiet, Once, SameBut, Fields
  <2>6. CASE r = "handled"
    <3>1. R!Successor(k) = "finalize_turn"
      BY <2>2, <2>5, <2>6, RoutesOfClarifications
    <3> QED BY <1>2, <2>3, <2>4, <2>5, <3>1, Finishes
  <2>7. CASE r = "classify"
    <3>1. R!Successor(k) = "classify_intent"
      BY <2>2, <2>5, <2>7, RoutesOfClarifications
    <3>2. Ready("classify_intent", k)
      BY <2>5 DEF Ready, Working, Quiet, Drafting, Updating, Decomposing, Changing,
             R!Classified, R!Answering, R!Executing, SameBut, Fields
    <3> QED BY <1>2, <2>3, <2>4, <3>1, <3>2, Left DEF R!Nodes, R!Branching, R!Answering,
                   R!Preparing, R!Executing
  <2> QED BY <2>6, <2>7
<1>8. CASE Leave(Failed(g))
  BY <1>1, <1>2, <1>8, Fails DEF R!Branching
<1>9. CASE pending.id \in Live /\ Leave(resumed)
  <2> DEFINE copy == Copy(pending.id)
  <2>1. inputs \in Seq(MessageText) /\ inputs # <<>> /\ Collected(inputs, pending.round + 1)
    BY <1>3, <1>4, <1>5, OneMoreInput
  <2>2. copy \in TaskCopy /\ CopyOK(task, copy) /\ copy # None
    BY <1>2, <1>9, CopyIsOK
  <2> HIDE DEF inputs, pending
  <2>3. Shape(resumed)
    <3>1. /\ None \in FieldType["update"] /\ inputs \in FieldType["uInputs"]
          /\ copy \in FieldType["selected"] /\ TRUE \in FieldType["needs"]
          /\ FALSE \in FieldType["patch"] /\ None \in FieldType["uMsg"]
          /\ "task_update_resume" \in FieldType["route"]
      BY <2>1, <2>2 DEF FieldType
    <3>2. pending.round \in FieldType["uRound"]
      BY <1>5 DEF FieldType
    <3> QED BY <1>2, <3>1, <3>2, Put DEF Sound, Fields
  <2>4. /\ resumed.update = None /\ resumed.uInputs = inputs /\ resumed.uRound = pending.round
        /\ resumed.selected = copy /\ resumed.uMsg = None
        /\ resumed.route = "task_update_resume"
        /\ SameBut({"update", "uInputs", "uRound", "selected", "needs", "patch", "uMsg",
                    "route"}, resumed, g)
    BY <1>2, HasFields DEF Sound, SameBut, Fields
  <2> HIDE DEF resumed, copy
  <2>5. Sound(task, heard, resumed)
    BY <1>2, <2>1, <2>2, <2>3, <2>4 DEF Sound, CopiesOK, ListsOK, TextsOK, FocusOK, SameBut,
           Fields, Begun
  <2>6. /\ Working(resumed) /\ resumed.action = None /\ resumed.selected # None
        /\ resumed.uInputs # <<>> /\ resumed.error = FALSE
        /\ resumed.at = "resolve_task_update_clarification"
    BY <1>1, <1>2, <1>6, <2>1, <2>2, <2>4 DEF Working, Begun, Quiet, SameBut, Fields
  <2>7. R!Successor(resumed) = "parse_task_update"
    BY <2>4, <2>6, RoutesOfClarifications
  <2>8. Ready("parse_task_update", resumed)
    BY <2>6 DEF Ready, Working, Quiet, Drafting, Updating, Decomposing, Changing,
           R!Classified, R!Answering, R!Executing, SameBut, Fields
  <2> QED BY <1>2, <1>9, <2>5, <2>7, <2>8, Left DEF Leave, R!Nodes, R!Branching, R!Answering,
                 R!Preparing, R!Executing
<1> QED BY <1>1, <1>7, <1>8, <1>9

-----------------------------------------------------------------------------
(* Preparing an action.                                                    *)

\* parse_task collects the request, or leaves the inputs it was resumed with.
LEMMA ParseTaskStep ==
    ASSUME IInv, ParseTask
    PROVE  IInv'
<1> DEFINE inputs == IF g.inputs = <<>> THEN <<Text(g)>> ELSE g.inputs
           h == [g EXCEPT !.inputs = inputs, !.error = FALSE]
<1>1. /\ g.at = "parse_task" /\ UNCHANGED task
      /\ Leave(Failed(g)) \/ Leave(h)
  BY DEF ParseTask, At
<1>2. /\ Sound(task, heard, g) /\ Working(g) /\ g.updated = None /\ g.selected = None
      /\ g.inputs # <<>> \/ g.intent # None
  BY <1>1 DEF IInv, Ready, Drafting
<1>3. CASE Leave(Failed(g))
  BY <1>1, <1>2, <1>3, Fails DEF Working, Quiet, Once, R!Branching
<1>4. CASE Leave(h)
  <2>1. inputs \in Seq(MessageText) /\ Collected(inputs, g.round + 1) /\ inputs # <<>>
    <3>1. g.inputs \in Seq(MessageText) /\ g.round \in Nat
      BY <1>2, GraphAssumption DEF Sound, Shape, SameBut, Fields, FieldType
    <3>2. Collected(g.inputs, g.round + 1) /\ (g.inputs = <<>> => Text(g) = "request")
      BY <1>2 DEF Sound, TextsOK, Text
    <3> QED BY <3>1, <3>2, FirstInput DEF Collected
  <2> HIDE DEF inputs
  <2>2. Shape(h)
    BY <1>2, <2>1, Put DEF Sound, Fields, FieldType
  <2>3. /\ h.inputs = inputs /\ h.error = FALSE
        /\ SameBut({"inputs", "error"}, h, g)
    BY <1>2, HasFields DEF Sound, SameBut, Fields
  <2> HIDE DEF h
  <2>4. Sound(task, heard, h)
    BY <1>2, <2>1, <2>2, <2>3 DEF Sound, CopiesOK, ListsOK, TextsOK, FocusOK, SameBut, Fields
  <2>5. R!Successor(h) = "validate_task"
    BY <1>1, <2>3, RoutesOfDrafts DEF SameBut, Fields
  <2>6. Ready("validate_task", h)
    BY <1>2, <2>1, <2>3 DEF Ready, Working, Quiet, Drafting, Updating, Decomposing, Changing,
           R!Classified, R!Answering, R!Executing, SameBut, Fields
  <2> QED BY <1>1, <1>4, <2>4, <2>5, <2>6, Left DEF Leave, R!Nodes, R!Branching, R!Answering,
                 R!Preparing, R!Executing
<1> QED BY <1>1, <1>3, <1>4

\* A draft that is not complete is asked about.
LEMMA ValidateTaskStep ==
    ASSUME IInv, ValidateTask
    PROVE  IInv'
<1> DEFINE e == [Failed(g) EXCEPT !.valid = FALSE]
           h(b) == [g EXCEPT !.valid = b, !.missing = ~b, !.error = FALSE]
<1>1. /\ g.at = "validate_task" /\ UNCHANGED task
      /\ Leave(e) \/ \E b \in BOOLEAN : Leave(h(b))
  BY DEF ValidateTask, At
<1>2. /\ Sound(task, heard, g) /\ Working(g) /\ g.updated = None /\ g.selected = None
      /\ g.inputs # <<>>
  BY <1>1 DEF IInv, Ready, Drafting
<1>3. CASE Leave(e)
  <2>1. Shape(e)
    BY <1>2, Put DEF Sound, Fields, FieldType, Failed
  <2>2. e.error = TRUE /\ SameBut({"valid", "error"}, e, g)
    BY <1>2, HasFields DEF Sound, SameBut, Fields, Failed
  <2> HIDE DEF e
  <2>3. Sound(task, heard, e)
    BY <1>2, <2>1, <2>2 DEF Sound, CopiesOK, ListsOK, TextsOK, FocusOK, SameBut, Fields
  <2>4. Once(e) /\ e.at \in R!Branching \ {"route_pending_state"}
    BY <1>1, <1>2, <2>2 DEF Working, Quiet, Once, SameBut, Fields, R!Branching
  <2>5. R!Successor(e) = "handle_error"
    BY <2>2, <2>4, RoutesOfAnswers
  <2> QED BY <1>1, <1>3, <2>3, <2>4, <2>5, Finishes DEF Leave
<1>4. CASE \E b \in BOOLEAN : Leave(h(b))
  <2>1. PICK b \in BOOLEAN : Leave(h(b))
    BY <1>4
  <2> DEFINE k == h(b)
  <2>2. Shape(k)
    BY <1>2, Put DEF Sound, Fields, FieldType
  <2>3. /\ k.valid = b /\ k.missing = ~b /\ k.error = FALSE
        /\ SameBut({"valid", "missing", "error"}, k, g)
    BY <1>2, HasFields DEF Sound, SameBut, Fields
  <2>4. g' = [k EXCEPT !.at = R!Successor(k)] /\ UNCHANGED <<scene, task, heard>>
    BY <1>1, <2>1 DEF Leave
  <2> HIDE DEF k
  <2>5. Sound(task, heard, k)
    BY <1>2, <2>2, <2>3 DEF Sound, CopiesOK, ListsOK, TextsOK, FocusOK, SameBut, Fields
  <2>6. R!Successor(k) \in {"calculate_priority", "prepare_task_draft_clarification"}
    BY <1>1, <2>3, RoutesOfDrafts DEF SameBut, Fields
  <2>7. \A n \in {"calculate_priority", "prepare_task_draft_clarification"} : Ready(n, k)
    BY <1>2, <2>3 DEF Ready, Working, Quiet, Drafting, Updating, Decomposing, Changing,
           R!Classified, R!Answering, R!Executing, SameBut, Fields
  <2> QED BY <2>4, <2>5, <2>6, <2>7, Left DEF R!Nodes, R!Branching, R!Answering, R!Preparing,
                 R!Executing
<1> QED BY <1>1, <1>3, <1>4

\* The fields that Prepared sets.
Asked == {"action", "decision", "error"}

\* A new action waits for the user.
LEMMA PreparedFields ==
    ASSUME NEW h, Shape(h), NEW type \in ActionType, NEW targets \in SUBSET TaskCopy,
           NEW k, k = Prepared(h, type, targets)
    PROVE  /\ Shape(k)
           /\ k.action # None /\ k.action.type = type /\ k.action.targets = targets
           /\ SameBut(Asked, k, h)
<1> DEFINE action == [type |-> type, targets |-> targets, status |-> "pending"]
<1>1. action \in PendingAction /\ action # None
  BY GraphAssumption DEF PendingAction
<1>2. action.type = type /\ action.targets = targets
  OBVIOUS
<1>3. k = [h EXCEPT !.action = action, !.decision = None, !.error = FALSE]
  BY DEF Prepared
<1> HIDE DEF action
<1>4. Shape(k)
  BY <1>1, <1>3, Put DEF Fields, FieldType
<1>5. /\ k.action = action /\ k.error = FALSE
      /\ SameBut(Asked, k, h)
  BY <1>3, HasFields DEF SameBut, Fields, Asked
<1> QED BY <1>1, <1>2, <1>4, <1>5

\* A prepared action is no error.
LEMMA PreparedWell ==
    ASSUME NEW h, Shape(h), NEW type, NEW targets
    PROVE  Prepared(h, type, targets).error = FALSE
BY HasFields DEF Prepared, Fields

\* It is as sound as the state it was prepared in.
LEMMA PreparedSound ==
    ASSUME NEW table, NEW list, NEW h, Sound(table, list, h), NEW type \in ActionType,
           NEW targets \in SUBSET TaskCopy, \A c \in targets : CopyOK(table, c),
           NEW k, k = Prepared(h, type, targets)
    PROVE  Sound(table, list, k)
<1>1. Shape(k) /\ k.action.targets = targets /\ SameBut(Asked, k, h)
  BY PreparedFields DEF Sound
<1> QED BY <1>1 DEF Sound, CopiesOK, ListsOK, TextsOK, FocusOK, SameBut, Fields, Asked

\* An action is put to the user.
LEMMA Asks ==
    ASSUME IInv, UNCHANGED <<scene, task, heard>>, NEW k, Sound(task, heard, k),
           k.error = FALSE, k.at \in R!Preparing \cup {"prepare_confirmation"},
           Working(k), ActionOK(k), g' = [k EXCEPT !.at = R!Successor(k)]
    PROVE  IInv'
<1>1. R!Successor(k) = "request_confirmation"
  BY RoutesOfPreparation DEF ActionOK
<1>2. Ready("request_confirmation", k)
  BY DEF Ready, Drafting, Updating, Decomposing, Changing, R!Classified, R!Answering,
         R!Executing
<1> QED BY <1>1, <1>2, Left DEF R!Nodes, R!Branching, R!Answering, R!Preparing, R!Executing

\* An operation on the task selected is put to the user.
LEMMA AsksSelected ==
    ASSUME IInv, UNCHANGED task, NEW type, Leave(Prepared(g, type, {g.selected})),
           type \in ActionType \ {"create_task", "delete_tasks_batch"},
           g.at \in R!Preparing, Working(g), g.selected # None,
           type = "create_subtasks_batch" => g.dMsg = "request"
    PROVE  IInv'
<1> DEFINE k == Prepared(g, type, {g.selected})
<1>1. Sound(task, heard, g)
  BY DEF IInv
<1>2. {g.selected} \in SUBSET TaskCopy /\ \A c \in {g.selected} : CopyOK(task, c)
  BY <1>1 DEF Sound, Shape, SameBut, Fields, FieldType, CopiesOK
<1>3. Sound(task, heard, k)
  BY <1>1, <1>2, PreparedSound
<1>4. k.error = FALSE
  BY <1>1, PreparedWell DEF Sound
<1>5. /\ k.action # None /\ k.action.type = type /\ k.action.targets = {g.selected}
      /\ SameBut(Asked, k, g)
  BY <1>1, <1>2, PreparedFields DEF Sound
<1>6. g' = [k EXCEPT !.at = R!Successor(k)] /\ UNCHANGED <<scene, task, heard>>
  BY DEF Leave
<1> HIDE DEF k
<1>7. Working(k) /\ ActionOK(k) /\ k.at \in R!Preparing
  BY <1>5 DEF Working, Quiet, ActionOK, SameBut, Fields, Asked
<1> QED BY <1>3, <1>4, <1>6, <1>7, Asks

\* The creation that is put to the user has no task to be compared with.
LEMMA PrepareConfirmationStep ==
    ASSUME IInv, PrepareConfirmation
    PROVE  IInv'
<1> DEFINE k == Prepared(g, "create_task", {})
<1>1. /\ g.at = "prepare_confirmation" /\ UNCHANGED task
      /\ Leave(Failed(g)) \/ Leave(k)
  BY DEF PrepareConfirmation, At
<1>2. /\ Sound(task, heard, g) /\ Working(g) /\ g.updated = None /\ g.selected = None
      /\ g.inputs # <<>>
  BY <1>1 DEF IInv, Ready, Drafting
<1>3. CASE Leave(Failed(g))
  BY <1>1, <1>2, <1>3, Fails DEF Working, Quiet, Once, R!Branching
<1>4. CASE Leave(k)
  <2>1. /\ {} \in SUBSET TaskCopy /\ \A c \in {} : CopyOK(task, c)
        /\ "create_task" \in ActionType
    BY DEF ActionType
  <2>2. Sound(task, heard, k)
    BY <1>2, <2>1, PreparedSound
  <2>3. k.error = FALSE
    BY <1>2, PreparedWell DEF Sound
  <2>4. /\ k.action # None /\ k.action.type = "create_task" /\ k.action.targets = {}
        /\ SameBut(Asked, k, g)
    BY <1>2, <2>1, PreparedFields DEF Sound
  <2>5. g' = [k EXCEPT !.at = R!Successor(k)] /\ UNCHANGED <<scene, task, heard>>
    BY <1>1, <1>4 DEF Leave
  <2> HIDE DEF k
  <2>6. Working(k) /\ ActionOK(k) /\ k.at = "prepare_confirmation"
    BY <1>1, <1>2, <2>4 DEF Working, Quiet, ActionOK, SameBut, Fields, Asked
  <2> QED BY <2>2, <2>3, <2>5, <2>6, Asks
<1> QED BY <1>1, <1>3, <1>4

\* The update that is put to the user is of the task selected.
LEMMA PrepareTaskUpdateStep ==
    ASSUME IInv, PrepareTaskUpdate
    PROVE  IInv'
<1>1. /\ g.at = "prepare_task_update" /\ UNCHANGED task
      /\ Leave(Failed(g)) \/ Leave(Prepared(g, "update_task", {g.selected}))
  BY DEF PrepareTaskUpdate, At
<1>2. Working(g) /\ g.selected # None
  BY <1>1 DEF IInv, Ready, Updating
<1>3. CASE Leave(Failed(g))
  BY <1>1, <1>2, <1>3, Fails DEF Working, Quiet, Once, R!Branching, R!Preparing
<1>4. CASE Leave(Prepared(g, "update_task", {g.selected}))
  BY <1>1, <1>2, <1>4, AsksSelected DEF R!Preparing, ActionType
<1> QED BY <1>1, <1>3, <1>4

\* The restore that is put to the user is of the task selected.
LEMMA PrepareTaskRestoreStep ==
    ASSUME IInv, PrepareTaskRestore
    PROVE  IInv'
<1>1. /\ g.at = "prepare_task_restore" /\ UNCHANGED task
      /\ Leave(Failed(g)) \/ Leave(Prepared(g, "restore_task", {g.selected}))
  BY DEF PrepareTaskRestore, At
<1>2. Working(g) /\ g.selected # None
  BY <1>1 DEF IInv, Ready, Changing
<1>3. CASE Leave(Failed(g))
  BY <1>1, <1>2, <1>3, Fails DEF Working, Quiet, Once, R!Branching, R!Preparing
<1>4. CASE Leave(Prepared(g, "restore_task", {g.selected}))
  BY <1>1, <1>2, <1>4, AsksSelected DEF R!Preparing, ActionType
<1> QED BY <1>1, <1>3, <1>4

\* The subtasks that are put to the user are of the task selected.
LEMMA PrepareSubtaskConfirmationStep ==
    ASSUME IInv, PrepareSubtaskConfirmation
    PROVE  IInv'
<1>1. /\ g.at = "prepare_subtask_confirmation" /\ UNCHANGED task
      /\ Leave(Failed(g)) \/ Leave(Prepared(g, "create_subtasks_batch", {g.selected}))
  BY DEF PrepareSubtaskConfirmation, At
<1>2. Working(g) /\ g.selected # None /\ g.dMsg = "request"
  BY <1>1 DEF IInv, Ready, Decomposing
<1>3. CASE Leave(Failed(g))
  BY <1>1, <1>2, <1>3, Fails DEF Working, Quiet, Once, R!Branching, R!Preparing
<1>4. CASE Leave(Prepared(g, "create_subtasks_batch", {g.selected}))
  BY <1>1, <1>2, <1>4, AsksSelected DEF R!Preparing, ActionType
<1> QED BY <1>1, <1>3, <1>4

\* A task that has the status already is the turn's result.
LEMMA PrepareStatusUpdateStep ==
    ASSUME IInv, PrepareStatusUpdate
    PROVE  IInv'
<1> DEFINE h == [g EXCEPT !.updated = g.selected.id, !.error = FALSE]
<1>1. /\ g.at = "prepare_status_update" /\ UNCHANGED task
      /\ \/ Leave(Failed(g)) \/ Leave(h)
         \/ Leave(Prepared(g, "update_task_status", {g.selected}))
  BY DEF PrepareStatusUpdate, At
<1>2. Sound(task, heard, g) /\ Working(g) /\ g.selected # None /\ g.action = None
  BY <1>1 DEF IInv, Ready, Changing
<1>3. CASE Leave(Failed(g))
  BY <1>1, <1>2, <1>3, Fails DEF Working, Quiet, Once, R!Branching, R!Preparing
<1>4. CASE Leave(Prepared(g, "update_task_status", {g.selected}))
  BY <1>1, <1>2, <1>4, AsksSelected DEF R!Preparing, ActionType
<1>5. CASE Leave(h)
  <2>1. g.selected \in TaskCopy /\ g.selected.id \in TaskId
    BY <1>2 DEF Sound, Shape, SameBut, Fields, FieldType, TaskCopy
  <2>2. Shape(h)
    BY <1>2, <2>1, Put DEF Sound, Fields, FieldType
  <2>3. /\ h.updated = g.selected.id /\ h.error = FALSE
        /\ SameBut({"updated", "error"}, h, g)
    BY <1>2, HasFields DEF Sound, SameBut, Fields
  <2> HIDE DEF h
  <2>4. Sound(task, heard, h) /\ Once(h)
    BY <1>2, <2>2, <2>3 DEF Sound, CopiesOK, ListsOK, TextsOK, FocusOK, SameBut, Fields,
           Working, Quiet, Once
  <2>5. R!Successor(h) = "finalize_turn"
    BY <1>1, <1>2, <2>3, RoutesOfPreparation DEF R!Preparing, SameBut, Fields
  <2> QED BY <1>1, <1>5, <2>4, <2>5, Finishes DEF Leave
<1> QED BY <1>1, <1>3, <1>4, <1>5

\* The change is understood, or the question what to change is put.
LEMMA ParseTaskUpdateStep ==
    ASSUME IInv, ParseTaskUpdate
    PROVE  IInv'
<1> DEFINE text == IF g.uMsg # None THEN g.uMsg ELSE Text(g)
           inputs == IF g.uInputs # <<>> THEN g.uInputs ELSE <<text>>
           asked == [g EXCEPT !.uInputs = inputs, !.needs = TRUE, !.patch = FALSE,
                              !.error = FALSE]
           given == [g EXCEPT !.uInputs = inputs, !.needs = FALSE, !.patch = TRUE,
                              !.update = None, !.error = FALSE]
<1>1. /\ g.at = "parse_task_update" /\ UNCHANGED task
      /\ Leave(Failed(g)) \/ Leave(asked) \/ Leave(given)
  BY DEF ParseTaskUpdate, At
<1>2. /\ Sound(task, heard, g) /\ Working(g) /\ g.selected # None /\ g.action = None
      /\ g.uInputs # <<>> \/ g.uMsg = "request" \/ g.intent # None
  BY <1>1 DEF IInv, Ready, Updating
<1>3. CASE Leave(Failed(g))
  BY <1>1, <1>2, <1>3, Fails DEF Working, Quiet, Once, R!Branching, R!Preparing
<1>4. inputs \in Seq(MessageText) /\ Collected(inputs, g.uRound + 1) /\ inputs # <<>>
  <2>1. g.uInputs \in Seq(MessageText) /\ g.uRound \in Nat
    BY <1>2, GraphAssumption DEF Sound, Shape, SameBut, Fields, FieldType
  <2>2. Collected(g.uInputs, g.uRound + 1) /\ g.uMsg \in {"request", None}
    BY <1>2 DEF Sound, TextsOK
  <2>3. g.uInputs = <<>> => text = "request"
    BY <1>2, <2>2, GraphAssumption DEF Text, MessageText
  <2> HIDE DEF text
  <2> QED BY <2>1, <2>2, <2>3, FirstInput DEF Collected
<1> HIDE DEF inputs
<1>5. CASE Leave(asked)
  <2>1. Shape(asked)
    BY <1>2, <1>4, Put DEF Sound, Fields, FieldType
  <2>2. /\ asked.uInputs = inputs /\ asked.needs = TRUE /\ asked.error = FALSE
        /\ SameBut({"uInputs", "needs", "patch", "error"}, asked, g)
    BY <1>2, HasFields DEF Sound, SameBut, Fields
  <2> HIDE DEF asked
  <2>3. Sound(task, heard, asked)
    BY <1>2, <1>4, <2>1, <2>2 DEF Sound, CopiesOK, ListsOK, TextsOK, FocusOK, SameBut, Fields
  <2>4. R!Successor(asked) = "prepare_task_update_clarification"
    BY <1>1, <2>2, RoutesOfParsing DEF SameBut, Fields, Asked
  <2>5. Ready("prepare_task_update_clarification", asked)
    BY <1>2, <1>4, <2>2 DEF Ready, Working, Quiet, Drafting, Updating, Decomposing, Changing,
           R!Classified, R!Answering, R!Executing, SameBut, Fields
  <2> QED BY <1>1, <1>5, <2>3, <2>4, <2>5, Left DEF Leave, R!Nodes, R!Branching, R!Answering,
                 R!Preparing, R!Executing
<1>6. CASE Leave(given)
  <2>1. Shape(given)
    BY <1>2, <1>4, Put DEF Sound, Fields, FieldType
  <2>2. /\ given.uInputs = inputs /\ given.needs = FALSE /\ given.patch = TRUE
        /\ given.update = None /\ given.error = FALSE
        /\ SameBut({"uInputs", "needs", "patch", "update", "error"}, given, g)
    BY <1>2, HasFields DEF Sound, SameBut, Fields
  <2> HIDE DEF given
  <2>3. Sound(task, heard, given)
    BY <1>2, <1>4, <2>1, <2>2 DEF Sound, CopiesOK, ListsOK, TextsOK, FocusOK, SameBut, Fields
  <2>4. R!Successor(given) = "prepare_task_update"
    BY <1>1, <2>2, RoutesOfParsing DEF SameBut, Fields, Asked
  <2>5. Ready("prepare_task_update", given)
    BY <1>2, <1>4, <2>2 DEF Ready, Working, Quiet, Drafting, Updating, Decomposing, Changing,
           R!Classified, R!Answering, R!Executing, SameBut, Fields
  <2> QED BY <1>1, <1>6, <2>3, <2>4, <2>5, Left DEF Leave, R!Nodes, R!Branching, R!Answering,
                 R!Preparing, R!Executing
<1> QED BY <1>1, <1>3, <1>5, <1>6

\* A draft or a plan goes on to the next node of its chain.
LEMMA CalculatePriorityStep ==
    ASSUME IInv, CalculatePriority
    PROVE  IInv'
<1> DEFINE h == [g EXCEPT !.error = FALSE]
<1>1. /\ g.at = "calculate_priority" /\ UNCHANGED task
      /\ Leave(Failed(g)) \/ Leave(h)
  BY DEF CalculatePriority, At
<1>2. /\ Sound(task, heard, g) /\ Working(g) /\ g.updated = None /\ g.selected = None
      /\ g.inputs # <<>>
  BY <1>1 DEF IInv, Ready, Drafting
<1>3. CASE Leave(Failed(g))
  BY <1>1, <1>2, <1>3, Fails DEF Working, Quiet, Once, R!Branching
<1>4. CASE Leave(h)
  <2>1. /\ Sound(task, heard, h) /\ h.error = FALSE
        /\ SameBut({"error"}, h, g)
    BY <1>2, Cleared
  <2> HIDE DEF h
  <2>2. R!Successor(h) = "prepare_confirmation"
    BY <1>1, <2>1, RoutesOfDrafts DEF SameBut, Fields
  <2>3. Ready("prepare_confirmation", h)
    BY <1>2, <2>1 DEF Ready, Working, Quiet, Drafting, Updating, Decomposing, Changing,
           R!Classified, R!Answering, R!Executing, SameBut, Fields
  <2> QED BY <1>1, <1>4, <2>1, <2>2, <2>3, Left DEF Leave, R!Nodes, R!Branching, R!Answering,
                 R!Preparing, R!Executing
<1> QED BY <1>1, <1>3, <1>4

\* A plan is generated for the parent that was loaded.
LEMMA GenerateSubtaskPlanStep ==
    ASSUME IInv, GenerateSubtaskPlan
    PROVE  IInv'
<1> DEFINE h == [g EXCEPT !.error = FALSE]
<1>1. /\ g.at = "generate_subtask_plan" /\ UNCHANGED task
      /\ Leave(Failed(g)) \/ Leave(h)
  BY DEF GenerateSubtaskPlan, At
<1>2. Sound(task, heard, g) /\ Working(g) /\ g.selected # None /\ g.dMsg = "request"
  BY <1>1 DEF IInv, Ready, Decomposing
<1>3. CASE Leave(Failed(g))
  BY <1>1, <1>2, <1>3, Fails DEF Working, Quiet, Once, R!Branching
<1>4. CASE Leave(h)
  <2>1. /\ Sound(task, heard, h) /\ h.error = FALSE
        /\ SameBut({"error"}, h, g)
    BY <1>2, Cleared
  <2> HIDE DEF h
  <2>2. R!Successor(h) = "validate_subtask_plan"
    BY <1>1, <2>1, RoutesOfDrafts DEF SameBut, Fields
  <2>3. Ready("validate_subtask_plan", h)
    BY <1>2, <2>1 DEF Ready, Working, Quiet, Drafting, Updating, Decomposing, Changing,
           R!Classified, R!Answering, R!Executing, SameBut, Fields
  <2> QED BY <1>1, <1>4, <2>1, <2>2, <2>3, Left DEF Leave, R!Nodes, R!Branching, R!Answering,
                 R!Preparing, R!Executing
<1> QED BY <1>1, <1>3, <1>4

\* A plan is validated for the parent that was loaded.
LEMMA ValidateSubtaskPlanStep ==
    ASSUME IInv, ValidateSubtaskPlan
    PROVE  IInv'
<1> DEFINE h == [g EXCEPT !.error = FALSE]
<1>1. /\ g.at = "validate_subtask_plan" /\ UNCHANGED task
      /\ Leave(Failed(g)) \/ Leave(h)
  BY DEF ValidateSubtaskPlan, At
<1>2. Sound(task, heard, g) /\ Working(g) /\ g.selected # None /\ g.dMsg = "request"
  BY <1>1 DEF IInv, Ready, Decomposing
<1>3. CASE Leave(Failed(g))
  BY <1>1, <1>2, <1>3, Fails DEF Working, Quiet, Once, R!Branching
<1>4. CASE Leave(h)
  <2>1. /\ Sound(task, heard, h) /\ h.error = FALSE
        /\ SameBut({"error"}, h, g)
    BY <1>2, Cleared
  <2> HIDE DEF h
  <2>2. R!Successor(h) = "prepare_subtask_confirmation"
    BY <1>1, <2>1, RoutesOfDrafts DEF SameBut, Fields
  <2>3. Ready("prepare_subtask_confirmation", h)
    BY <1>2, <2>1 DEF Ready, Working, Quiet, Drafting, Updating, Decomposing, Changing,
           R!Classified, R!Answering, R!Executing, SameBut, Fields
  <2> QED BY <1>1, <1>4, <2>1, <2>2, <2>3, Left DEF Leave, R!Nodes, R!Branching, R!Answering,
                 R!Preparing, R!Executing
<1> QED BY <1>1, <1>3, <1>4

\* The parent is read again, and the request is kept for the planner.
LEMMA LoadDecompositionContextStep ==
    ASSUME IInv, LoadDecompositionContext
    PROVE  IInv'
<1> DEFINE chosen == g.selected.id
           dMsg == IF g.dMsg # None THEN g.dMsg ELSE Text(g)
           h == [g EXCEPT !.selected = Copy(chosen), !.error = FALSE, !.dMsg = dMsg]
<1>1. /\ g.at = "load_decomposition_context" /\ UNCHANGED task
      /\ Leave(Failed(g)) \/ (chosen \in Live /\ Leave(h))
  BY DEF LoadDecompositionContext, At
<1>2. /\ Sound(task, heard, g) /\ Working(g) /\ g.selected # None /\ g.action = None
      /\ g.dMsg = "request" \/ g.intent # None
      /\ Tree(task)
  BY <1>1 DEF IInv, Ready, Decomposing
<1>3. CASE Leave(Failed(g))
  BY <1>1, <1>2, <1>3, Fails DEF Working, Quiet, Once, R!Branching
<1>4. CASE chosen \in Live /\ Leave(h)
  <2>1. dMsg = "request"
    <3>1. g.dMsg \in {"request", None}
      BY <1>2 DEF Sound, TextsOK
    <3> QED BY <1>2, <3>1, GraphAssumption DEF Text, MessageText
  <2>2. /\ Copy(chosen) \in TaskCopy /\ Copy(chosen) # None /\ CopyOK(task, Copy(chosen))
        /\ Copy(chosen).id = g.selected.id
    BY <1>2, <1>4, CopyIsOK
  <2> HIDE DEF dMsg, chosen
  <2>3. Shape(h)
    BY <1>2, <2>1, <2>2, Put DEF Sound, Fields, FieldType, MessageText
  <2>4. /\ h.selected = Copy(chosen) /\ h.error = FALSE /\ h.dMsg = "request"
        /\ SameBut({"selected", "error", "dMsg"}, h, g)
    BY <1>2, <2>1, HasFields DEF Sound, SameBut, Fields
  <2> HIDE DEF h
  <2>5. Sound(task, heard, h)
    BY <1>2, <2>2, <2>3, <2>4 DEF Sound, CopiesOK, ListsOK, TextsOK, FocusOK, SameBut, Fields
  <2>6. R!Successor(h) = "generate_subtask_plan"
    BY <1>1, <2>4, RoutesOfDrafts DEF SameBut, Fields
  <2>7. Ready("generate_subtask_plan", h)
    BY <1>2, <2>2, <2>4 DEF Ready, Working, Quiet, Drafting, Updating, Decomposing, Changing,
           R!Classified, R!Answering, R!Executing, SameBut, Fields
  <2> QED BY <1>1, <1>4, <2>5, <2>6, <2>7, Left DEF Leave, R!Nodes, R!Branching, R!Answering,
                 R!Preparing, R!Executing
<1> QED BY <1>1, <1>3, <1>4

-----------------------------------------------------------------------------
(* A deletion, and the confirmation.                                       *)

\* A deletion is understood: one task, a batch, or a question.
LEMMA ParseTaskDeleteStep ==
    ASSUME IInv, ParseTaskDelete
    PROVE  IInv'
<1> DEFINE ref(D) == IF Single(D) THEN Head(D.refs) ELSE None
           route(D) == IF D.asks THEN "clarification"
                       ELSE IF Single(D) THEN "single" ELSE "batch"
           h(D) == [g EXCEPT !.plan = D, !.error = FALSE, !.ref = ref(D), !.delRoute = route(D)]
<1>1. /\ g.at = "parse_task_delete" /\ UNCHANGED task
      /\ Leave(Failed(g)) \/ \E D \in Deletion[scene] : Leave(h(D))
  BY DEF ParseTaskDelete, At
<1>2. /\ Sound(task, heard, g) /\ Begun(g) /\ Quiet(g) /\ g.intent = "DELETE_TASK"
      /\ scene \in Scene /\ UNCHANGED <<scene, task, heard>>
  BY <1>1 DEF IInv, Ready, R!Classified, Leave
<1>3. CASE Leave(Failed(g))
  BY <1>1, <1>2, <1>3, Fails DEF Quiet, Once, R!Branching
<1>4. ASSUME NEW D \in Deletion[scene], Leave(h(D))
      PROVE  IInv'
  <2> DEFINE k == h(D)
  <2>1. D \in Plan /\ D.refs \in Seq(Reference)
    BY <1>2, SceneAssumption DEF Plan
  <2>2. ref(D) \in Reference \cup {None}
    BY <2>1 DEF Single
  <2>3. route(D) \in {"clarification", "single", "batch"}
    OBVIOUS
  <2> HIDE DEF ref, route
  <2>4. Shape(k)
    <3>1. /\ D \in FieldType["plan"] /\ FALSE \in FieldType["error"]
          /\ ref(D) \in FieldType["ref"] /\ route(D) \in FieldType["delRoute"]
      BY <2>1, <2>2, <2>3 DEF FieldType
    <3> QED BY <1>2, <3>1, Put DEF Sound, Fields
  <2>5. /\ k.plan = D /\ k.delRoute = route(D) /\ k.error = FALSE
        /\ SameBut({"plan", "error", "ref", "delRoute"}, k, g)
    BY <1>2, HasFields DEF Sound, SameBut, Fields
  <2>6. g' = [k EXCEPT !.at = R!Successor(k)]
    BY <1>4 DEF Leave
  <2> HIDE DEF k
  <2>7. Sound(task, heard, k)
    BY <1>2, <2>4, <2>5 DEF Sound, CopiesOK, ListsOK, TextsOK, FocusOK, SameBut, Fields
  <2>8. /\ Begun(k) /\ Quiet(k) /\ Once(k) /\ k.at = "parse_task_delete"
        /\ k.intent = "DELETE_TASK"
    BY <1>1, <1>2, <2>5 DEF Begun, Quiet, Once, SameBut, Fields
  <2>9. R!Successor(k) \in {"finalize_turn", "resolve_task_reference",
                            "prepare_task_delete_batch"}
    BY <2>3, <2>5, <2>8, RoutesOfParsing
  <2>10. \A n \in {"finalize_turn", "resolve_task_reference", "prepare_task_delete_batch"} :
           Ready(n, k)
    BY <2>1, <2>5, <2>8 DEF Ready, Working, Quiet, Drafting, Updating, Decomposing, Changing,
           R!Classified, R!Answering, R!Executing, SameBut, Fields, Begun
  <2> QED BY <1>2, <2>6, <2>7, <2>9, <2>10, Left DEF R!Nodes, R!Branching, R!Answering,
                 R!Preparing, R!Executing
<1> QED BY <1>1, <1>3, <1>4

\* A task that may not be deleted is not put to the user.
LEMMA PrepareTaskDeleteStep ==
    ASSUME IInv, PrepareTaskDelete
    PROVE  IInv'
<1> DEFINE h == [g EXCEPT !.error = FALSE]
<1>1. /\ g.at = "prepare_task_delete" /\ UNCHANGED task
      /\ \/ Leave(Failed(g)) \/ Leave(h)
         \/ Leave(Prepared(g, "delete_task", {g.selected}))
  BY DEF PrepareTaskDelete, At
<1>2. Sound(task, heard, g) /\ Working(g) /\ g.selected # None /\ g.action = None
  BY <1>1 DEF IInv, Ready, Changing
<1>3. CASE Leave(Failed(g))
  BY <1>1, <1>2, <1>3, Fails DEF Working, Quiet, Once, R!Branching, R!Preparing
<1>4. CASE Leave(Prepared(g, "delete_task", {g.selected}))
  BY <1>1, <1>2, <1>4, AsksSelected DEF R!Preparing, ActionType
<1>5. CASE Leave(h)
  <2>1. /\ Sound(task, heard, h) /\ h.error = FALSE /\ SameBut({"error"}, h, g)
    BY <1>2, Cleared
  <2> HIDE DEF h
  <2>2. /\ Once(h) /\ h.action = None /\ h.at = "prepare_task_delete"
    BY <1>1, <1>2, <2>1 DEF Working, Quiet, Once, SameBut, Fields
  <2>3. R!Successor(h) = "finalize_turn"
    BY <2>1, <2>2, RoutesOfPreparation DEF R!Preparing
  <2> QED BY <1>1, <1>5, <2>1, <2>2, <2>3, Finishes DEF Leave
<1> QED BY <1>1, <1>3, <1>4, <1>5

\* The user decides on the action.
LEMMA ConfirmStep ==
    ASSUME IInv, NEW d \in Decision, Confirm(d)
    PROVE  IInv'
<1> DEFINE status == CASE d = "approve" -> "approved"
                       [] d = "reject"  -> "rejected"
                       [] OTHER         -> "cancelled"
           action == [g.action EXCEPT !.status = status]
           k == [g EXCEPT !.decision = d, !.error = FALSE, !.action = action]
<1>1. /\ g.at = "request_confirmation" /\ UNCHANGED task
      /\ \/ /\ d \in {"approve", "reject"} \/ g.action.type \in Generated
            /\ Leave(k)
         \/ Leave(Failed(g))
  BY DEF Confirm, At
<1>2. Sound(task, heard, g) /\ Working(g) /\ ActionOK(g) /\ UNCHANGED <<scene, task, heard>>
  BY <1>1 DEF IInv, Ready, Leave
<1>3. CASE Leave(Failed(g))
  BY <1>1, <1>2, <1>3, Fails DEF Working, Quiet, Once, R!Branching
<1>4. CASE (d \in {"approve", "reject"} \/ g.action.type \in Generated) /\ Leave(k)
  <2>1. g.action \in PendingAction
    BY <1>2 DEF ActionOK, Sound, Shape, Fields, FieldType
  <2>2. /\ action \in PendingAction /\ action.type = g.action.type
        /\ action.targets = g.action.targets
        /\ d = "approve" => action.status = "approved"
    BY <2>1 DEF PendingAction
  <2>3. action # None /\ action.type \in ActionType
    BY <2>2, GraphAssumption DEF PendingAction
  <2> HIDE DEF action
  <2>4. Shape(k)
    <3>1. /\ d \in FieldType["decision"] /\ FALSE \in FieldType["error"]
          /\ action \in FieldType["action"]
      BY <2>2 DEF FieldType, Decision
    <3> QED BY <1>2, <3>1, Put DEF Sound, Fields
  <2>5. /\ k.decision = d /\ k.error = FALSE /\ k.action = action
        /\ SameBut(Asked, k, g)
    BY <1>2, HasFields DEF Sound, SameBut, Fields, Asked
  <2>6. g' = [k EXCEPT !.at = R!Successor(k)]
    BY <1>4 DEF Leave
  <2> HIDE DEF k
  <2>7. Sound(task, heard, k)
    BY <1>2, <2>2, <2>4, <2>5 DEF Sound, CopiesOK, ListsOK, TextsOK, FocusOK, SameBut, Fields,
           Asked, ActionOK
  <2>8. /\ Working(k) /\ Once(k) /\ k.at = "request_confirmation"
        /\ k.updated = g.updated /\ k.selected = g.selected /\ k.inputs = g.inputs
        /\ k.dMsg = g.dMsg /\ k.plan = g.plan
    BY <1>1, <1>2, <2>5 DEF Working, Quiet, Once, SameBut, Fields, Asked
  <2>9. ActionOK(k)
    BY <1>2, <2>2, <2>3, <2>5, <2>8 DEF ActionOK
  <2>10. CASE d = "reject"
    <3>1. R!Successor(k) = "finalize_turn"
      BY <2>3, <2>5, <2>8, <2>10, RoutesOfConfirmation
    <3> QED BY <1>2, <2>6, <2>7, <2>8, <3>1, Finishes
  <2>11. CASE d = "approve"
    <3> DEFINE n == R!Successor(k)
    <3>1. n \in R!Executing \cup {"execute_task_restore"} /\ k.action.type = Executes(n)
      BY <2>3, <2>5, <2>8, <2>11, RoutesOfConfirmation
    <3> HIDE DEF n
    <3>2. k.action.status = "approved"
      BY <2>2, <2>5, <2>11
    <3>3. Ready(n, k)
      BY <2>8, <2>9, <3>1, <3>2 DEF Ready, Drafting, Updating, Decomposing, Changing,
             R!Classified, R!Answering, R!Executing
    <3>4. n \in R!Nodes
      BY <3>1 DEF R!Nodes, R!Branching, R!Answering, R!Preparing, R!Executing
    <3> QED BY <1>2, <2>6, <2>7, <3>3, <3>4, Left DEF n
  <2>12. CASE d \in {"edit", "regenerate"}
    <3> DEFINE n == R!Successor(k)
    <3>1. \/ k.action.type = "create_subtasks_batch"
          \/ k.action.type = "create_task"
      BY <1>4, <2>2, <2>5, <2>12 DEF Generated
    <3>2. \/ /\ n \in {"validate_subtask_plan", "generate_subtask_plan"}
             /\ k.action.type = "create_subtasks_batch"
          \/ n \in {"validate_task", "parse_task"} /\ k.action.type = "create_task"
      BY <2>3, <2>5, <2>8, <2>12, <3>1, RoutesOfConfirmation
    <3>3. \/ /\ n \in {"validate_subtask_plan", "generate_subtask_plan"}
             /\ k.dMsg = "request" /\ k.selected # None
          \/ /\ n \in {"validate_task", "parse_task"}
             /\ k.inputs # <<>> /\ k.updated = None /\ k.selected = None
      BY <2>9, <3>2 DEF ActionOK
    <3> HIDE DEF n
    <3>4. Ready(n, k)
      BY <2>8, <3>3 DEF Ready, Drafting, Updating, Decomposing, Changing, R!Classified,
             R!Answering, R!Executing
    <3>5. n \in R!Nodes
      BY <3>3 DEF R!Nodes, R!Branching, R!Answering, R!Preparing, R!Executing
    <3> QED BY <1>2, <2>6, <2>7, <3>4, <3>5, Left DEF n
  <2> QED BY <2>10, <2>11, <2>12 DEF Decision
<1> QED BY <1>1, <1>3, <1>4

\* A plan is one of those the deletion parser may make.
LEMMA PlanFields ==
    ASSUME NEW D \in Plan
    PROVE  D.refs \in Seq(Reference) /\ D.parent \in Reference \cup {None}
BY SceneAssumption DEF Plan

\* The batch with the root its scope was found to mean.
Scoped(h, p) == [h EXCEPT !.rParent = p]

\* What the preparation of a batch relies on, in the scope too.
LEMMA ScopedFields ==
    ASSUME IInv, g.at = "prepare_task_delete_batch", NEW p \in TaskId \cup {None}
    PROVE  /\ Sound(task, heard, Scoped(g, p)) /\ SameBut({"rParent"}, Scoped(g, p), g)
           /\ Working(Scoped(g, p)) /\ Scoped(g, p).plan \in Plan
           /\ Scoped(g, p).action = None /\ Scoped(g, p).rParent = p
           /\ Scoped(g, p).rRefs \in Resolved
           /\ Scoped(g, p).selected = None /\ Scoped(g, p).updated = None
           /\ Scoped(g, p).at = "prepare_task_delete_batch"
<1> DEFINE k == Scoped(g, p)
<1>1. /\ Sound(task, heard, g) /\ Working(g) /\ g.plan \in Plan /\ g.action = None
      /\ g.selected = None /\ g.updated = None
  BY DEF IInv, Ready
<1>2. Shape(k)
  BY <1>1, Put DEF Sound, Fields, FieldType, Scoped
<1>3. k.rParent = p /\ SameBut({"rParent"}, k, g)
  BY <1>1, HasFields DEF Scoped, Sound, SameBut, Fields
<1> HIDE DEF k
<1>4. Sound(task, heard, k)
  BY <1>1, <1>2, <1>3 DEF Sound, CopiesOK, ListsOK, TextsOK, FocusOK, SameBut, Fields
<1>5. /\ Working(k) /\ k.plan = g.plan /\ k.action = None /\ k.rRefs \in Resolved
      /\ k.selected = None /\ k.updated = None /\ k.at = "prepare_task_delete_batch"
  BY <1>1, <1>2, <1>3 DEF Shape, FieldType, Working, Quiet, SameBut, Fields
<1> QED BY <1>1, <1>3, <1>4, <1>5 DEF k

\* A batch that cannot be prepared is not put to the user.
LEMMA BatchGivenUp ==
    ASSUME IInv, UNCHANGED <<scene, task, heard>>, g.at = "prepare_task_delete_batch",
           NEW k, k \in {NoPlan(g), [g EXCEPT !.error = FALSE]},
           g' = [k EXCEPT !.at = R!Successor(k)]
    PROVE  IInv'
<1>1. Sound(task, heard, g) /\ Working(g) /\ g.action = None
  BY DEF IInv, Ready
<1>2. Shape(k)
  <2>1. /\ FALSE \in FieldType["error"] /\ None \in FieldType["deletion"]
        /\ <<>> \in FieldType["candidates"]
    BY DEF FieldType
  <2>2. Shape(NoPlan(g))
    BY <1>1, <2>1, Put DEF NoPlan, Sound, Fields
  <2>3. Shape([g EXCEPT !.error = FALSE])
    BY <1>1, <2>1, Put DEF Sound, Fields
  <2> QED BY <2>2, <2>3
<1>3. /\ k.error = FALSE /\ SameBut({"deletion", "candidates", "error"}, k, g)
      /\ k.deletion = None /\ k.candidates = <<>>
  BY <1>1, HasFields DEF NoPlan, Sound, Working, Quiet, SameBut, Fields
<1>4. Sound(task, heard, k)
  BY <1>1, <1>2, <1>3 DEF Sound, CopiesOK, ListsOK, TextsOK, FocusOK, SameBut, Fields,
         Working, Quiet
<1>5. Once(k) /\ k.action = None /\ k.at = "prepare_task_delete_batch"
  BY <1>1, <1>3 DEF Working, Quiet, Once, SameBut, Fields
<1>6. R!Successor(k) = "finalize_turn"
  BY <1>3, <1>5, RoutesOfPreparation DEF R!Preparing
<1> QED BY <1>4, <1>5, <1>6, Finishes

\* The user is asked which task a reference of the batch means.
LEMMA BatchAsks ==
    ASSUME IInv, UNCHANGED <<scene, task, heard>>, g.at = "prepare_task_delete_batch",
           NEW p \in TaskId \cup {None}, NEW kind \in {"parent", "task_reference"},
           NEW reference \in Reference \cup {None}, NEW found \in SUBSET Live,
           NEW k, k = AskWhich(Scoped(g, p), kind, reference, found),
           g' = [k EXCEPT !.at = R!Successor(k)]
    PROVE  IInv'
<1> DEFINE h == Scoped(g, p)
           deletion == [live |-> TRUE, plan |-> h.plan, kind |-> kind,
                        reference |-> reference, items |-> Items(found),
                        rParent |-> IF kind = "parent" THEN None ELSE h.rParent,
                        rRefs |-> h.rRefs]
<1>1. /\ Sound(task, heard, h) /\ Working(h) /\ h.plan \in Plan /\ h.action = None
      /\ h.rParent \in TaskId \cup {None} /\ h.rRefs \in Resolved
      /\ h.at = "prepare_task_delete_batch"
  BY ScopedFields
<1>2. Items(found) \in Seq(ListItem)
  BY ListItems DEF IInv, Tree
<1>3. k = [h EXCEPT !.deletion = deletion, !.candidates = Items(found), !.error = FALSE]
  BY DEF AskWhich
<1> HIDE DEF h
<1>4. deletion \in DeleteSelection /\ deletion.items = Items(found)
  BY <1>1, <1>2 DEF DeleteSelection
<1> HIDE DEF deletion
<1>5. Shape(k)
  BY <1>1, <1>2, <1>3, <1>4, Put DEF Sound, Fields, FieldType
<1>6. /\ k.deletion = deletion /\ k.candidates = Items(found) /\ k.error = FALSE
      /\ SameBut({"deletion", "candidates", "error"}, k, h)
  BY <1>1, <1>3, HasFields DEF Sound, SameBut, Fields
<1>7. k.selection = None
  BY <1>1, <1>6 DEF Working, Quiet, SameBut, Fields
<1>8. deletion # None
  BY <1>4, GraphAssumption
<1>9. Sound(task, heard, k)
  BY <1>1, <1>4, <1>5, <1>6, <1>7, <1>8 DEF Sound, CopiesOK, ListsOK, TextsOK, FocusOK,
         SameBut, Fields
<1>10. Once(k) /\ k.action = None /\ k.at = "prepare_task_delete_batch"
  BY <1>1, <1>6 DEF Working, Quiet, Once, SameBut, Fields
<1>11. R!Successor(k) = "finalize_turn"
  BY <1>6, <1>10, RoutesOfPreparation DEF R!Preparing
<1> QED BY <1>9, <1>10, <1>11, Finishes

\* A batch is put to the user: all that was named, in the versions read.
LEMMA BatchPrepared ==
    ASSUME IInv, UNCHANGED <<scene, task, heard>>, g.at = "prepare_task_delete_batch",
           NEW p \in TaskId \cup {None}, NEW picked \in SUBSET Live, picked # {},
           g.plan.refs # <<>> /\ ~g.plan.keywords => Cardinality(picked) = Len(g.plan.refs),
           NEW k, k = Prepared(NoPlan(Scoped(g, p)), "delete_tasks_batch",
                               {Copy(t) : t \in picked}),
           g' = [k EXCEPT !.at = R!Successor(k)]
    PROVE  IInv'
<1> DEFINE h == Scoped(g, p)
           n == NoPlan(h)
           targets == {Copy(t) : t \in picked}
<1>1. /\ Sound(task, heard, h) /\ Working(h) /\ SameBut({"rParent"}, h, g)
      /\ h.at = "prepare_task_delete_batch"
  BY ScopedFields
<1>2. Tree(task)
  BY DEF IInv
<1>3. /\ targets \in SUBSET TaskCopy /\ \A c \in targets : CopyOK(task, c)
      /\ Cardinality(targets) = Cardinality(picked) /\ targets # {}
  BY <1>2, CopiesCounted
<1>4. k = Prepared(n, "delete_tasks_batch", targets)
  OBVIOUS
<1> HIDE DEF h, targets
<1>5. Shape(n)
  <2>1. /\ FALSE \in FieldType["error"] /\ None \in FieldType["deletion"]
        /\ <<>> \in FieldType["candidates"]
    BY DEF FieldType
  <2> QED BY <1>1, <2>1, Put DEF NoPlan, Sound, Fields
<1>6. /\ n.deletion = None /\ n.candidates = <<>>
      /\ SameBut({"deletion", "candidates", "error"}, n, h)
  BY <1>1, HasFields DEF NoPlan, Sound, SameBut, Fields
<1> HIDE DEF n
<1>7. Sound(task, heard, n)
  BY <1>1, <1>5, <1>6 DEF Sound, CopiesOK, ListsOK, TextsOK, FocusOK, SameBut, Fields,
         Working, Quiet
<1>8. /\ Working(n) /\ n.plan = g.plan /\ n.at = "prepare_task_delete_batch"
  BY <1>1, <1>6 DEF Working, Quiet, SameBut, Fields
<1>9. "delete_tasks_batch" \in ActionType
  BY DEF ActionType
<1>10. Sound(task, heard, k)
  BY <1>3, <1>4, <1>7, <1>9, PreparedSound
<1>11. k.error = FALSE
  BY <1>4, <1>5, PreparedWell
<1>12. /\ k.action # None /\ k.action.type = "delete_tasks_batch"
       /\ k.action.targets = targets /\ SameBut(Asked, k, n)
  BY <1>3, <1>4, <1>5, <1>9, PreparedFields
<1>13. Working(k) /\ k.plan = g.plan /\ k.at = "prepare_task_delete_batch"
  BY <1>8, <1>12 DEF Working, Quiet, SameBut, Fields, Asked
<1>14. ActionOK(k)
  BY <1>3, <1>12, <1>13 DEF ActionOK
<1> QED BY <1>10, <1>11, <1>13, <1>14, Asks DEF R!Preparing

\* The tasks the filters leave of those picked, or the reason why not.
LEMMA BatchFiltered ==
    ASSUME IInv, UNCHANGED <<scene, task, heard>>, g.at = "prepare_task_delete_batch",
           NEW p \in TaskId \cup {None}, NEW picked \in SUBSET Live,
           g.plan.refs # <<>> => Cardinality(picked) = Len(g.plan.refs),
           \/ LET k == [g EXCEPT !.error = FALSE] IN g' = [k EXCEPT !.at = R!Successor(k)]
           \/ \E left \in SUBSET picked :
                 /\ g.plan.keywords \/ left = picked
                 /\ Cardinality(left) \in 1..MaxBatch
                 /\ LET k == Prepared(NoPlan(Scoped(g, p)), "delete_tasks_batch",
                                      {Copy(t) : t \in left})
                    IN  g' = [k EXCEPT !.at = R!Successor(k)]
    PROVE  IInv'
<1>1. CASE LET k == [g EXCEPT !.error = FALSE] IN g' = [k EXCEPT !.at = R!Successor(k)]
  BY <1>1, BatchGivenUp
<1>2. CASE \E left \in SUBSET picked :
              /\ g.plan.keywords \/ left = picked
              /\ Cardinality(left) \in 1..MaxBatch
              /\ LET k == Prepared(NoPlan(Scoped(g, p)), "delete_tasks_batch",
                                   {Copy(t) : t \in left})
                 IN  g' = [k EXCEPT !.at = R!Successor(k)]
  <2>1. PICK left \in SUBSET picked :
           /\ g.plan.keywords \/ left = picked
           /\ Cardinality(left) \in 1..MaxBatch
           /\ LET k == Prepared(NoPlan(Scoped(g, p)), "delete_tasks_batch",
                                {Copy(t) : t \in left})
              IN  g' = [k EXCEPT !.at = R!Successor(k)]
    BY <1>2
  <2>2. left # {} /\ left \in SUBSET Live
    <3>2. Cardinality({}) = 0
      BY FS_EmptySet
    <3>3. left = {} => Cardinality(left) = 0
      BY <3>2
    <3>4. Cardinality(left) \in 1..MaxBatch /\ MaxBatch \in Nat
      BY <2>1, GraphAssumption
    <3>5. Cardinality(left) # 0
      BY <3>4
    <3> QED BY <3>3, <3>5
  <2>3. g.plan.refs # <<>> /\ ~g.plan.keywords => Cardinality(left) = Len(g.plan.refs)
    BY <2>1
  <2> QED BY <2>1, <2>2, <2>3, BatchPrepared
<1> QED BY <1>1, <1>2

\* The tasks named: each reference means one, and no two the same.
LEMMA BatchPicked ==
    ASSUME IInv, UNCHANGED task, g.at = "prepare_task_delete_batch",
           NEW p \in TaskId \cup {None}, NEW kept \in SUBSET Live,
           PickReferenced(Scoped(g, p), kept)
    PROVE  IInv'
<1> DEFINE refs == g.plan.refs
           meant(i) == Referenced(refs[i], kept)
           several == {i \in DOMAIN refs : Cardinality(meant(i)) > 1}
           picked == UNION {meant(i) : i \in DOMAIN refs}
           first == CHOOSE i \in several : \A j \in several : i <= j
           asked == AskWhich(Scoped(g, p), "task_reference", refs[first], meant(first))
<1>1. \/ g' = [NoPlan(g) EXCEPT !.at = R!Successor(NoPlan(g))]
      \/ several # {} /\ g' = [asked EXCEPT !.at = R!Successor(asked)]
      \/ /\ Cardinality(picked) = Len(refs)
         /\ \/ LET k == [g EXCEPT !.error = FALSE] IN g' = [k EXCEPT !.at = R!Successor(k)]
            \/ \E left \in SUBSET picked :
                  /\ g.plan.keywords \/ left = picked
                  /\ Cardinality(left) \in 1..MaxBatch
                  /\ LET k == Prepared(NoPlan(Scoped(g, p)), "delete_tasks_batch",
                                       {Copy(t) : t \in left})
                     IN  g' = [k EXCEPT !.at = R!Successor(k)]
  BY DEF PickReferenced, Filtered, PlanFor, Leave
<1>2. UNCHANGED <<scene, task, heard>>
  BY DEF PickReferenced, Filtered, PlanFor, Leave
<1>3. refs \in Seq(Reference)
  BY PlanFields DEF IInv, Ready
<1>4. \A i \in DOMAIN refs : meant(i) \in SUBSET Live
  BY DEF Referenced, Explicit
<1>5. CASE g' = [NoPlan(g) EXCEPT !.at = R!Successor(NoPlan(g))]
  BY <1>2, <1>5, BatchGivenUp
<1>6. CASE several # {} /\ g' = [asked EXCEPT !.at = R!Successor(asked)]
  <2>1. several \in SUBSET Nat
    BY <1>3
  <2>2. first \in several
    BY <1>6, <2>1, FirstPlace
  <2>3. first \in DOMAIN refs
    BY <2>2
  <2> HIDE DEF first
  <2>4. refs[first] \in Reference
    BY <1>3, <2>3
  <2>5. meant(first) \in SUBSET Live
    BY <1>4, <2>3
  <2>6. g' = [asked EXCEPT !.at = R!Successor(asked)]
    BY <1>6
  <2> HIDE DEF meant, refs
  <2> QED BY <1>2, <2>4, <2>5, <2>6, BatchAsks
<1>7. CASE /\ Cardinality(picked) = Len(refs)
           /\ \/ LET k == [g EXCEPT !.error = FALSE] IN g' = [k EXCEPT !.at = R!Successor(k)]
              \/ \E left \in SUBSET picked :
                    /\ g.plan.keywords \/ left = picked
                    /\ Cardinality(left) \in 1..MaxBatch
                    /\ LET k == Prepared(NoPlan(Scoped(g, p)), "delete_tasks_batch",
                                         {Copy(t) : t \in left})
                       IN  g' = [k EXCEPT !.at = R!Successor(k)]
  <2>1. picked \in SUBSET Live
    BY <1>4
  <2> HIDE DEF picked
  <2> QED BY <1>2, <1>7, <2>1, BatchFiltered
<1> QED BY <1>1, <1>5, <1>6, <1>7

\* A deletion finds its tasks among those that exist, or asks which are meant.
LEMMA PrepareTaskDeleteBatchStep ==
    ASSUME IInv, PrepareTaskDeleteBatch
    PROVE  IInv'
<1> DEFINE scoped == g.plan.scope = "DIRECT_CHILDREN"
           scope == IF scoped THEN UNION {ChildrenOf(x) : x \in ScopeParents} ELSE Live
           root == IF scoped THEN CHOOSE x \in ScopeParents : TRUE ELSE g.rParent
           h == IF scoped THEN [g EXCEPT !.rParent = CHOOSE x \in ScopeParents : TRUE] ELSE g
           which == AskWhich(g, "parent", g.plan.parent, ScopeParents)
<1>1. g.at = "prepare_task_delete_batch" /\ UNCHANGED task
  BY DEF PrepareTaskDeleteBatch, At
<1>2. /\ Sound(task, heard, g) /\ Working(g) /\ g.plan \in Plan
  BY <1>1 DEF IInv, Ready
<1>3. ScopeParents \in SUBSET Live /\ ScopeParents \in SUBSET TaskId
  BY MatchingFinds DEF ScopeParents, Live
<1>4. g.rParent \in TaskId \cup {None}
  BY <1>2 DEF Sound, Shape, Fields, FieldType
<1>5. g = Scoped(g, g.rParent)
  BY <1>2 DEF Scoped, Sound, Shape, Rec, Fields
<1>6. CASE Leave(Failed(g))
  BY <1>1, <1>2, <1>6, Fails DEF Working, Quiet, Once, R!Branching, R!Preparing
<1>7. CASE Leave(NoPlan(g))
  BY <1>1, <1>7, BatchGivenUp DEF Leave
<1>8. CASE Leave(which)
  <2>1. which = AskWhich(Scoped(g, g.rParent), "parent", g.plan.parent, ScopeParents)
    BY <1>5
  <2>2. g' = [which EXCEPT !.at = R!Successor(which)] /\ UNCHANGED <<scene, task, heard>>
    BY <1>1, <1>8 DEF Leave
  <2>3. g.plan.parent \in Reference \cup {None}
    BY <1>2, PlanFields
  <2> HIDE DEF which
  <2> QED BY <1>1, <1>3, <1>4, <2>1, <2>2, <2>3, BatchAsks
<1>9. ASSUME scoped => Cardinality(ScopeParents) = 1,
             NEW kept \in SUBSET scope,
             \/ g.plan.refs # <<>> /\ PickReferenced(h, kept)
             \/ g.plan.refs = <<>> /\ Filtered(h, kept)
      PROVE  IInv'
  <2>1. root \in TaskId \cup {None} /\ h = Scoped(g, root)
    <3>1. scoped => ScopeParents # {}
      BY <1>9, FS_EmptySet
    <3> QED BY <1>3, <1>4, <1>5, <3>1 DEF Scoped
  <2>2. kept \in SUBSET Live
    BY DEF ChildrenOf
  <2>3. PICK p \in TaskId \cup {None} : p = root
    BY <2>1
  <2> HIDE DEF root, scope
  <2>4. CASE g.plan.refs # <<>> /\ PickReferenced(h, kept)
    <3>1. PickReferenced(Scoped(g, p), kept)
      BY <2>1, <2>3, <2>4 DEF PickReferenced, Filtered, PlanFor, Leave
    <3> QED BY <1>1, <2>2, <3>1, BatchPicked
  <2>5. CASE g.plan.refs = <<>> /\ Filtered(h, kept)
    <3>1. UNCHANGED <<scene, task, heard>>
      BY <1>1, <2>5 DEF Filtered, PlanFor, Leave
    <3>2. \/ LET k == [g EXCEPT !.error = FALSE] IN g' = [k EXCEPT !.at = R!Successor(k)]
          \/ \E left \in SUBSET kept :
                /\ g.plan.keywords \/ left = kept
                /\ Cardinality(left) \in 1..MaxBatch
                /\ LET k == Prepared(NoPlan(Scoped(g, p)), "delete_tasks_batch",
                                     {Copy(t) : t \in left})
                   IN  g' = [k EXCEPT !.at = R!Successor(k)]
      BY <2>1, <2>3, <2>5 DEF Filtered, PlanFor, Leave
    <3> QED BY <1>1, <2>2, <2>5, <3>1, <3>2, BatchFiltered
  <2> QED BY <1>9, <2>4, <2>5
<1>10. \/ Leave(Failed(g)) \/ Leave(NoPlan(g)) \/ Leave(which)
       \/ /\ scoped => Cardinality(ScopeParents) = 1
          /\ \E kept \in SUBSET scope :
                \/ g.plan.refs # <<>> /\ PickReferenced(h, kept)
                \/ g.plan.refs = <<>> /\ Filtered(h, kept)
  BY DEF PrepareTaskDeleteBatch
<1> QED BY <1>6, <1>7, <1>8, <1>9, <1>10
=============================================================================
