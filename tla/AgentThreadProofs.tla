------------------------- MODULE AgentThreadProofs -------------------------
(***************************************************************************)
(* TLAPS proofs about AgentThread, for any number of requests and          *)
(* messages, any drafts and any faults: the agent implements Confirmation, *)
(* and without faults no thread gets stuck.                                *)
(*                                                                         *)
(* The argument: every graph state of the thread, whether it is the        *)
(* checkpoint, in the memory of a request or still to be written, is sound *)
(* on its own (Good).  Whichever of them a request resumes, and in which   *)
(* order they become the checkpoint, does not matter then.                 *)
(***************************************************************************)
EXTENDS AgentThread, SequenceTheorems, TLAPS

-----------------------------------------------------------------------------
(* Sequences of anything.                                                  *)

IsSeq(s) == s \in Seq({s[i] : i \in DOMAIN s})

\* The empty sequence is one.
LEMMA EmptyIsSeq == IsSeq(<<>>) /\ DOMAIN <<>> = {} /\ Len(<<>>) = 0
BY DEF IsSeq

\* What a sequence is made of.
LEMMA SeqParts ==
    ASSUME NEW s, IsSeq(s)
    PROVE  /\ Len(s) \in Nat /\ DOMAIN s = 1..Len(s)
           /\ s # <<>> => Len(s) > 0 /\ Head(s) = s[1]
BY DEF IsSeq

\* A sequence with an element more.
LEMMA AppendIsSeq ==
    ASSUME NEW s, NEW e, IsSeq(s)
    PROVE  /\ IsSeq(Append(s, e)) /\ Append(s, e) # <<>>
           /\ Len(Append(s, e)) = Len(s) + 1 /\ DOMAIN Append(s, e) = 1..(Len(s) + 1)
           /\ \A i \in DOMAIN s : Append(s, e)[i] = s[i]
           /\ Append(s, e)[Len(s) + 1] = e /\ Append(s, e)[Len(Append(s, e))] = e
<1> DEFINE S == {s[i] : i \in DOMAIN s} \cup {e}
           n == Append(s, e)
<1>1. s \in Seq(S)
  <2>1. Len(s) \in Nat /\ DOMAIN s = 1..Len(s)
    BY SeqParts
  <2>2. s \in Seq({s[i] : i \in DOMAIN s})
    BY DEF IsSeq
  <2> QED BY <2>1, <2>2
<1>2. /\ n \in Seq(S) /\ Len(n) = Len(s) + 1
      /\ \A i \in 1..Len(s) : n[i] = s[i]
      /\ n[Len(s) + 1] = e
  BY <1>1
<1>3. Len(s) \in Nat /\ DOMAIN s = 1..Len(s)
  BY SeqParts
<1>4. DOMAIN n = 1..(Len(s) + 1)
  BY <1>2, <1>3
<1> HIDE DEF n
<1>5. n \in Seq({n[i] : i \in DOMAIN n})
  BY <1>2, <1>3, <1>4
<1> QED BY <1>2, <1>3, <1>4, <1>5 DEF IsSeq, n

\* The elements of the longer sequence are those of the shorter one and the new one.
LEMMA AppendParts ==
    ASSUME NEW s, NEW e, IsSeq(s)
    PROVE  \A i \in DOMAIN Append(s, e) :
             \/ Append(s, e)[i] = e
             \/ i \in DOMAIN s /\ Append(s, e)[i] = s[i]
<1>1. Len(s) \in Nat /\ DOMAIN s = 1..Len(s)
  BY SeqParts
<1>2. /\ DOMAIN Append(s, e) = 1..(Len(s) + 1)
      /\ \A i \in DOMAIN s : Append(s, e)[i] = s[i]
      /\ Append(s, e)[Len(s) + 1] = e
  BY AppendIsSeq
<1>3. \A i \in 1..(Len(s) + 1) : i \in 1..Len(s) \/ i = Len(s) + 1
  BY <1>1
<1> QED BY <1>1, <1>2, <1>3

\* A sequence without its first element.
LEMMA TailIsSeq ==
    ASSUME NEW s, IsSeq(s), s # <<>>
    PROVE  /\ IsSeq(Tail(s)) /\ Len(Tail(s)) = Len(s) - 1
           /\ Len(s) > 1 <=> Tail(s) # <<>>
           /\ \A i \in DOMAIN Tail(s) : i + 1 \in DOMAIN s /\ Tail(s)[i] = s[i + 1]
<1> DEFINE S == {s[i] : i \in DOMAIN s}
           n == Tail(s)
<1>1. s \in Seq(S) /\ Len(s) \in Nat /\ DOMAIN s = 1..Len(s) /\ Len(s) > 0
  BY SeqParts DEF IsSeq
<1> HIDE DEF S
<1>2. n \in Seq(S) /\ Len(n) = Len(s) - 1 /\ \A i \in 1..Len(n) : n[i] = s[i + 1]
  BY <1>1
<1>3. Len(n) \in Nat /\ DOMAIN n = 1..Len(n)
  BY <1>1, <1>2
<1> HIDE DEF n
<1>4. Len(s) > 1 <=> n # <<>>
  <2>1. n = <<>> <=> Len(n) = 0
    BY <1>2
  <2> QED BY <1>1, <1>2, <1>3, <2>1
<1>5. \A i \in DOMAIN n : i + 1 \in DOMAIN s /\ n[i] = s[i + 1]
  BY <1>1, <1>2, <1>3
<1>6. n \in Seq({n[i] : i \in DOMAIN n})
  <2>1. n = [i \in 1..Len(n) |-> n[i]]
    BY <1>2
  <2> QED BY <1>3, <2>1
<1> QED BY <1>2, <1>4, <1>5, <1>6 DEF IsSeq, n

-----------------------------------------------------------------------------
(* The invariant.  Good(g, s, t, A): g is sound when s is the setting, t    *)
(* the task and A what was asked.                                          *)

\* t is None, or a state the task has had if it is now in state "now".
Past(t, now) ==
    /\ t \in Task \cup {None}
    /\ t = None \/ now = None \/ t = now \/ t.version < now.version

\* The ways the task may change: it never comes back, and versions grow.
Moves(t, later) ==
    later = t \/ later = None \/ (t # None /\ t.version < later.version)

Fields == {"next", "request", "round", "intent", "draft", "pending", "review", "handled",
           "selected", "error"}

Shape(g, s) ==
    /\ g = [f \in Fields |-> g[f]]
    /\ g.next \in {"plan", "confirm", "execute", "finish", "end"}
    /\ g.error \in BOOLEAN /\ g.round \in 0..MaxRound
    /\ g.intent \in s.intent \cup {None} /\ g.draft \in Content \cup {None}
    /\ g.review \in {None, "pending", "approved", "rejected", "cancelled"}
    /\ g.pending # NoAction => g.pending.type \in Types /\ g.pending.round \in 1..g.round

\* An action that waits or is executed: prepared in this round, for a state
\* the task has had; a restore comes first, a creation stays one.
Waiting(g, t) ==
    LET a == g.pending IN
    /\ a # NoAction /\ a.round = g.round /\ g.intent # None
    /\ a.type # "create_task" =>
         LET from == [status |-> a.from, version |-> a.version] IN from \in Task /\ Past(from, t)
    /\ a.type = "create_task" => g.intent.kind = "create"
    /\ a.type = "restore_task" => g.round = 1 /\ a.target = "TODO"
    /\ a.type = "update_task_status" => a.target \in T!Status

\* A later round of a turn is left for planning: a draft is revised, or the
\* task has been restored.
Again(g) ==
    /\ g.round < MaxRound /\ g.intent # None
    /\ g.intent.kind = "create" \/ (g.selected # None /\ g.selected.status # "CANCELLED")

\* The action handled last is one of this or an earlier round.
Handled(g) ==
    g.handled # NoId =>
        g.handled[3] \in 0..(IF g.next = "confirm" THEN g.round - 1 ELSE g.round)

Approved(g, A) == \E pair \in A : Id(pair[1]) = Id(g.pending) /\ pair[2] = "approve"

Good(g, s, t, A) ==
    /\ Shape(g, s) /\ Handled(g) /\ Past(g.selected, t)
    /\ g.next \in {"confirm", "execute"} => Waiting(g, t)
    /\ g.next = "execute" => Approved(g, A)
    /\ g.next = "plan" /\ g.round > 0 => Again(g)

Sound(g) == Good(g, setting, task, asked)

StoreInv ==
    /\ setting \in Setting /\ task \in Task \cup {None}
    /\ \A k \in DOMAIN recorded :
         /\ Key(recorded[k].action) = k /\ Past(recorded[k].result, task)
         /\ recorded[k].action.type = "restore_task" =>
              recorded[k].result # None /\ recorded[k].result.status = "TODO"
    /\ IsSeq(done) /\ \A i \in DOMAIN done : Key(done[i].action) \in DOMAIN recorded

CheckpointInv ==
    /\ checkpoint # None \/ shown # {} => Sound(checkpoint)
    /\ \A a \in shown : a.type \in Types

\* The request a client makes, while it runs.
RequestInv(c) ==
    /\ request[c].kind \in {"chat", "confirm"}
    /\ request[c].kind = "confirm" =>
         /\ <<request[c].action, request[c].decision>> \in asked
         /\ request[c].decision \in {"approve", "reject", "edit", "regenerate"}
         /\ request[c].decision \in {"edit", "regenerate"} => request[c].action.round < MaxRound
         /\ Sound(checkpoint)

ClientInv(c) ==
    /\ pc[c] \in {"idle", "read", "invoke", "run", "decide", "flush", "raised"}
    /\ pc[c] # "idle" => RequestInv(c)
    /\ pc[c] \in {"run", "decide", "flush"} => Sound(graph[c])
    /\ pc[c] = "decide" => graph[c].next = "confirm" /\ request[c].kind = "confirm"
    /\ IsSeq(unsaved[c]) /\ \A i \in DOMAIN unsaved[c] : Sound(unsaved[c][i])
    /\ pc[c] \in {"idle", "read", "invoke", "decide"} => unsaved[c] = <<>>
    /\ pc[c] = "flush" /\ unsaved[c] = <<>> => Sound(checkpoint)

\* Without faults a state that somebody has to go on with has somebody.
ProgressInv ==
    setting.faults = {} =>
        /\ \A c \in Client :
             /\ pc[c] # "raised"
             /\ pc[c] = "flush" /\ unsaved[c] # <<>> =>
                  unsaved[c][Len(unsaved[c])].next \in {"confirm", "end"}
        /\ \/ checkpoint = None \/ checkpoint.next \in {"confirm", "end"}
           \/ \E c \in Client : pc[c] \in {"run", "decide"} \/ unsaved[c] # <<>>

Functions ==
    /\ pc = [c \in Client |-> pc[c]] /\ request = [c \in Client |-> request[c]]
    /\ graph = [c \in Client |-> graph[c]] /\ unsaved = [c \in Client |-> unsaved[c]]

IInv ==
    /\ Functions /\ StoreInv /\ CheckpointInv
    /\ \A c \in Client : ClientInv(c)
    /\ ProgressInv

-----------------------------------------------------------------------------
(* Graph states.                                                           *)

\* What the task has been it has been, whatever happens to it.
LEMMA PastLater ==
    ASSUME NEW x, NEW t \in Task \cup {None}, NEW later \in Task \cup {None},
           Past(x, t), Moves(t, later)
    PROVE  Past(x, later)
<1>1. None \notin Task
  BY ThreadAssumption
<1>2. \A y \in Task : y.version \in Nat
  BY DEF Task
<1> QED BY <1>1, <1>2 DEF Past, Moves

\* A sound state stays sound when the task changes and more is asked.
LEMMA GoodLater ==
    ASSUME NEW g, NEW s, NEW A, NEW B,
           NEW t \in Task \cup {None}, NEW later \in Task \cup {None},
           Good(g, s, t, A), Moves(t, later), A \subseteq B
    PROVE  Good(g, s, later, B)
<1>1. \A x : Past(x, t) => Past(x, later)
  BY PastLater
<1>2. Waiting(g, t) => Waiting(g, later)
  BY <1>1 DEF Waiting
<1>3. Approved(g, A) => Approved(g, B)
  BY DEF Approved
<1> QED BY <1>1, <1>2, <1>3 DEF Good

\* The input of a chat is sound.
LEMMA GoodInitial ==
    ASSUME NEW id, NEW s, NEW t, NEW A
    PROVE  Good(Initial(id), s, t, A)
BY ThreadAssumption DEF Good, Shape, Fields, Handled, Past, Initial, NoAction, NoId

\* A turn may be ended from every sound state.
LEMMA GoodEnded ==
    ASSUME NEW g, NEW s, NEW t, NEW A, Good(g, s, t, A), NEW node \in {"finish", "end"},
           NEW error \in BOOLEAN
    PROVE  Good([g EXCEPT !.next = node, !.error = error], s, t, A)
<1> DEFINE h == [g EXCEPT !.next = node, !.error = error]
<1>1. /\ h = [f \in Fields |-> h[f]] /\ h.next = node /\ h.error = error
      /\ h.round = g.round /\ h.intent = g.intent /\ h.draft = g.draft
      /\ h.pending = g.pending /\ h.review = g.review /\ h.handled = g.handled
      /\ h.selected = g.selected
  BY DEF Good, Shape, Fields
<1> HIDE DEF h
<1>2. Handled(h)
  BY <1>1 DEF Good, Shape, Handled
<1>3. Shape(h, s)
  BY <1>1 DEF Good, Shape
<1> QED BY <1>1, <1>2, <1>3 DEF Good, h

\* A confirmation resumes a sound state as a sound state.
LEMMA GoodResumed ==
    ASSUME NEW g, NEW s, NEW t, NEW A, Good(g, s, t, A), NEW id
    PROVE  Good([g EXCEPT !.request = id, !.error = FALSE], s, t, A)
<1> DEFINE h == [g EXCEPT !.request = id, !.error = FALSE]
<1>1. /\ h = [f \in Fields |-> h[f]] /\ h.next = g.next /\ h.error = FALSE
      /\ h.round = g.round /\ h.intent = g.intent /\ h.draft = g.draft
      /\ h.pending = g.pending /\ h.review = g.review /\ h.handled = g.handled
      /\ h.selected = g.selected
  BY DEF Good, Shape, Fields
<1> HIDE DEF h
<1>2. Handled(h)
  BY <1>1 DEF Handled, Good
<1>3. Shape(h, s)
  BY <1>1 DEF Good, Shape
<1>4. (Waiting(g, t) => Waiting(h, t)) /\ (Approved(g, A) => Approved(h, A)) /\ (Again(g) => Again(h))
  BY <1>1 DEF Waiting, Approved, Again
<1> QED BY <1>1, <1>2, <1>3, <1>4 DEF Good, h

\* prepare_* leaves a sound state: its action belongs to the next round.
LEMMA GoodPrepared ==
    ASSUME NEW g, NEW s, NEW t, NEW A, Shape(g, s), g.round < MaxRound, g.intent # None,
           g.handled = NoId \/ g.handled[3] \in 0..g.round,
           NEW type \in Types, NEW target, NEW content, NEW x, Past(x, t),
           type # "create_task" => x # None,
           type = "create_task" => g.intent.kind = "create",
           type = "restore_task" => g.round = 0 /\ target = "TODO",
           type = "update_task_status" => target \in T!Status
    PROVE  Good(Prepared(g, type, target, content, x), s, t, A)
<1> DEFINE h == Prepared(g, type, target, content, x)
           a == [type |-> type, request |-> g.request, round |-> g.round + 1,
                 target |-> target, content |-> content,
                 from    |-> IF type = "create_task" THEN None ELSE x.status,
                 version |-> IF type = "create_task" THEN 0 ELSE x.version]
<1>1. /\ h = [f \in Fields |-> h[f]] /\ h.next = "confirm" /\ h.error = FALSE
      /\ h.round = g.round + 1 /\ h.intent = g.intent /\ h.draft = g.draft
      /\ h.pending = a /\ h.review = "pending" /\ h.handled = g.handled
      /\ h.selected = x
  BY DEF Shape, Fields, Prepared
<1>2. a # NoAction
  <2>1. a.type # NoAction.type
    BY DEF NoAction, Types
  <2> QED BY <2>1
<1>3. g.round \in Nat /\ MaxRound \in Nat
  BY ThreadAssumption DEF Shape
<1>4. type # "create_task" => x \in Task /\ [status |-> x.status, version |-> x.version] = x
  BY DEF Past, Task
<1>5. /\ a.type = type /\ a.round = g.round + 1 /\ a.target = target
      /\ type # "create_task" => a.from = x.status /\ a.version = x.version
  OBVIOUS
<1> HIDE DEF h, a
<1>6. Shape(h, s)
  <2>1. h.round \in 0..MaxRound /\ a.round \in 1..h.round
    BY <1>1, <1>3, <1>5
  <2>2. h.intent \in s.intent \cup {None} /\ h.draft \in Content \cup {None}
    BY <1>1 DEF Shape
  <2> QED BY <1>1, <1>5, <2>1, <2>2 DEF Shape
<1>7. Handled(h)
  BY <1>1, <1>3 DEF Handled
<1>8. Waiting(h, t)
  BY <1>1, <1>2, <1>3, <1>4, <1>5 DEF Waiting
<1> QED BY <1>1, <1>6, <1>7, <1>8 DEF Good, h

\* The nodes from the resolved task to the interrupt leave a sound state.
LEMMA GoodPlanned ==
    ASSUME NEW g, NEW s \in Setting, NEW t \in Task \cup {None}, NEW A, Good(g, s, t, A),
           g.next = "plan", NEW intent \in IF g.intent = None THEN s.intent ELSE {g.intent},
           NEW content
    PROVE  Good(Planned([g EXCEPT !.intent = intent],
                        IF g.selected = None THEN t ELSE g.selected, content), s, t, A)
<1> DEFINE h == [g EXCEPT !.intent = intent]
           x == IF g.selected = None THEN t ELSE g.selected
           p == Planned(h, x, content)
           kind == intent.kind
           target == intent.target
<1>1. /\ h = [f \in Fields |-> h[f]] /\ h.next = "plan" /\ h.error = g.error
      /\ h.round = g.round /\ h.intent = intent /\ h.draft = g.draft
      /\ h.pending = g.pending /\ h.review = g.review /\ h.handled = g.handled
      /\ h.selected = g.selected
  BY DEF Good, Shape, Fields
<1>2. intent \in Intent /\ intent \in s.intent /\ intent # None
  BY ThreadAssumption DEF Good, Shape
<1>3. /\ kind \in {"create", "update", "delete"} => target = None
      /\ kind \in {"create", "update", "delete", "status"}
      /\ kind = "status" => target \in T!Status
  BY <1>2 DEF Intent
<1>4. Past(x, t)
  BY DEF Good, Past
<1>5. g.round < MaxRound
  BY ThreadAssumption DEF Good, Shape, Again
<1>6. kind # "create" /\ x # None /\ x.status = "CANCELLED" => g.round = 0
  BY <1>2 DEF Good, Again, Shape
<1> HIDE DEF h, x, p, kind, target
<1>7. Shape(h, s) /\ (h.handled = NoId \/ h.handled[3] \in 0..h.round)
  BY <1>1, <1>2 DEF Good, Shape, Handled
<1>8. Good(h, s, t, A) 
  BY <1>1, <1>2, <1>7 DEF Good, Handled, Again
<1>9. ASSUME p = Ended(h, FALSE) \/ p = Ended(h, TRUE)
      PROVE  Good(p, s, t, A)
  <2>1. \A error \in BOOLEAN : Good([h EXCEPT !.next = "finish", !.error = error], s, t, A)
    BY <1>8, GoodEnded
  <2> QED BY <1>9, <2>1 DEF Ended
<1>10. CASE kind = "create"
  <2>1. p = Prepared(h, "create_task", None, content, None)
    BY <1>1, <1>10 DEF p, Planned, kind
  <2>2. Past(None, t)
    BY DEF Past
  <2>3. Good(Prepared(h, "create_task", None, content, None), s, t, A)
    BY <1>1, <1>2, <1>5, <1>7, <1>10, <2>2, GoodPrepared DEF Types, kind
  <2> QED BY <2>1, <2>3 DEF p, h, x
<1>11. CASE kind # "create" /\ x = None
  <2>1. p = Ended(h, FALSE)
    BY <1>1, <1>11 DEF p, Planned, kind
  <2> QED BY <1>9, <2>1 DEF p, h, x
<1>12. CASE kind = "delete" /\ x # None
  <2>1. p = Prepared(h, "delete_task", None, None, x)
    BY <1>1, <1>12 DEF p, Planned, kind
  <2>2. Good(Prepared(h, "delete_task", None, None, x), s, t, A)
    BY <1>1, <1>2, <1>4, <1>5, <1>7, <1>12, GoodPrepared DEF Types, kind
  <2> QED BY <2>1, <2>2 DEF p, h, x
<1>13. CASE kind \in {"update", "status"} /\ x # None
  <2> DEFINE q == CASE x.status = "CANCELLED" /\ target # "CANCELLED" ->
                         Prepared(h, "restore_task", "TODO", None, x)
                    [] x.status # "CANCELLED" /\ kind = "update" ->
                         Prepared(h, "update_task", None, content, x)
                    [] x.status = target -> Ended(h, FALSE)
                    [] x.status # "CANCELLED" /\ kind = "status" /\ x.status # target ->
                         IF T!Transition(x.status, target, TRUE, FALSE)
                         THEN Prepared(h, "update_task_status", target, None, x)
                         ELSE Ended(h, TRUE)
  <2>1. p = q
    BY <1>1, <1>13 DEF p, Planned, kind, target
  <2>2. kind = "update" => target # "CANCELLED" /\ target # x.status
    <3>1. x.status \in T!Status /\ "CANCELLED" \in T!Status
      BY <1>4, <1>13 DEF Past, Task, T!Status
    <3> QED BY <1>3, <3>1, ThreadAssumption
  <2>3. CASE x.status = "CANCELLED" /\ target # "CANCELLED"
    <3>1. q = Prepared(h, "restore_task", "TODO", None, x)
      BY <2>3
    <3>2. Good(Prepared(h, "restore_task", "TODO", None, x), s, t, A)
      BY <1>1, <1>2, <1>4, <1>5, <1>6, <1>7, <1>13, <2>3, GoodPrepared DEF Types
    <3> QED BY <2>1, <3>1, <3>2 DEF p, h, x
  <2>4. CASE x.status # "CANCELLED" /\ kind = "update"
    <3>1. q = Prepared(h, "update_task", None, content, x)
      BY <2>2, <2>4
    <3>2. Good(Prepared(h, "update_task", None, content, x), s, t, A)
      BY <1>1, <1>2, <1>4, <1>5, <1>7, <1>13, GoodPrepared DEF Types
    <3> QED BY <2>1, <3>1, <3>2 DEF p, h, x
  <2>5. CASE x.status = target
    <3>1. q = Ended(h, FALSE)
      BY <2>2, <2>5
    <3> QED BY <1>9, <2>1, <3>1 DEF p, h, x
  <2>6. CASE x.status # "CANCELLED" /\ kind = "status" /\ x.status # target
    <3> DEFINE moved == Prepared(h, "update_task_status", target, None, x)
    <3>1. q = IF T!Transition(x.status, target, TRUE, FALSE) THEN moved ELSE Ended(h, TRUE)
      BY <2>6
    <3>2. Good(moved, s, t, A)
      BY <1>1, <1>2, <1>3, <1>4, <1>5, <1>7, <1>13, <2>6, GoodPrepared DEF Types
    <3> HIDE DEF moved, q
    <3>3. q = moved \/ q = Ended(h, TRUE)
      BY <3>1
    <3> QED BY <1>9, <2>1, <3>2, <3>3 DEF p, h, x
  <2> QED BY <1>13, <2>2, <2>3, <2>4, <2>5, <2>6
<1> QED BY <1>3, <1>10, <1>11, <1>12, <1>13

\* finalize_turn leaves a sound state.
LEMMA GoodFinished ==
    ASSUME NEW g, NEW s, NEW t, NEW A, Good(g, s, t, A)
    PROVE  Good([g EXCEPT !.next = "end"], s, t, A)
<1> DEFINE h == [g EXCEPT !.next = "end"]
<1>1. /\ h = [f \in Fields |-> h[f]] /\ h.next = "end" /\ h.error = g.error
      /\ h.round = g.round /\ h.intent = g.intent /\ h.draft = g.draft
      /\ h.pending = g.pending /\ h.review = g.review /\ h.handled = g.handled
      /\ h.selected = g.selected
  BY DEF Good, Shape, Fields
<1> HIDE DEF h
<1>2. Handled(h)
  BY <1>1 DEF Good, Shape, Handled
<1>3. Shape(h, s)
  BY <1>1 DEF Good, Shape
<1> QED BY <1>1, <1>2, <1>3 DEF Good, h

\* What request_confirmation makes of the answer to its card.
Decided(g, node, review) ==
    [g EXCEPT !.next = node, !.review = review, !.handled = Id(g.pending)]

\* A card that is approved or rejected leaves a sound state.
LEMMA GoodDecided ==
    ASSUME NEW g, NEW s, NEW t, NEW A, Good(g, s, t, A), g.next = "confirm",
           NEW node \in {"execute", "finish"}, NEW review \in {"approved", "rejected"},
           node = "execute" => Approved(g, A)
    PROVE  Good(Decided(g, node, review), s, t, A)
<1> DEFINE h == Decided(g, node, review)
<1>1. /\ h = [f \in Fields |-> h[f]] /\ h.next = node /\ h.error = g.error
      /\ h.round = g.round /\ h.intent = g.intent /\ h.draft = g.draft
      /\ h.pending = g.pending /\ h.review = review /\ h.handled = Id(g.pending)
      /\ h.selected = g.selected
  BY DEF Good, Shape, Fields, Decided
<1> HIDE DEF h
<1>2. Waiting(g, t) /\ g.pending.round = g.round
  BY DEF Good, Waiting
<1>3. Handled(h)
  <2>1. h.handled[3] = g.round /\ g.round \in Nat
    BY <1>1, <1>2, ThreadAssumption DEF Id, Good, Shape
  <2> QED BY <1>1, <2>1 DEF Handled
<1>4. Shape(h, s)
  BY <1>1 DEF Good, Shape
<1>5. Waiting(h, t) /\ (node = "execute" => Approved(h, A))
  BY <1>1, <1>2 DEF Waiting, Approved
<1> QED BY <1>1, <1>3, <1>4, <1>5 DEF Good, h

\* A draft that is to be revised leaves a sound state.
LEMMA GoodRevised ==
    ASSUME NEW g, NEW s, NEW t, NEW A, Good(g, s, t, A), g.next = "confirm",
           g.pending.type = "create_task", g.pending.round < MaxRound,
           NEW draft \in Content \cup {None}
    PROVE  Good([Decided(g, "plan", "cancelled") EXCEPT !.draft = draft], s, t, A)
<1> DEFINE h == [Decided(g, "plan", "cancelled") EXCEPT !.draft = draft]
<1>1. /\ h = [f \in Fields |-> h[f]] /\ h.next = "plan" /\ h.error = g.error
      /\ h.round = g.round /\ h.intent = g.intent /\ h.draft = draft
      /\ h.pending = g.pending /\ h.review = "cancelled" /\ h.handled = Id(g.pending)
      /\ h.selected = g.selected
  BY DEF Good, Shape, Fields, Decided
<1> HIDE DEF h
<1>2. Waiting(g, t) /\ g.pending.round = g.round
  BY DEF Good, Waiting
<1>3. Handled(h)
  <2>1. h.handled[3] = g.round /\ g.round \in Nat
    BY <1>1, <1>2, ThreadAssumption DEF Id, Good, Shape
  <2> QED BY <1>1, <2>1 DEF Handled
<1>4. Shape(h, s)
  BY <1>1 DEF Good, Shape
<1>5. Again(h)
  BY <1>1, <1>2 DEF Waiting, Again
<1> QED BY <1>1, <1>3, <1>4, <1>5 DEF Good, h

\* An executed action leaves a sound state: a restored task is not cancelled.
LEMMA GoodExecuted ==
    ASSUME NEW g, NEW s, NEW t, NEW A, Good(g, s, t, A), g.next = "execute",
           NEW result, Past(result, t),
           g.pending.type = "restore_task" => result # None /\ result.status = "TODO"
    PROVE  Good(Executed(g, result), s, t, A)
<1> DEFINE h == Executed(g, result)
           restored == g.pending.type = "restore_task"
<1>1. /\ h = [f \in Fields |-> h[f]]
      /\ h.next = IF restored THEN "plan" ELSE "finish"
      /\ h.error = g.error /\ h.round = g.round /\ h.intent = g.intent /\ h.draft = g.draft
      /\ h.pending = IF restored THEN NoAction ELSE g.pending
      /\ h.review = IF restored THEN None ELSE g.review
      /\ h.handled = g.handled /\ h.selected = result
  <2>1. CASE restored
    BY <2>1 DEF Good, Shape, Fields, Executed
  <2>2. CASE ~restored
    BY <2>2 DEF Good, Shape, Fields, Executed
  <2> QED BY <2>1, <2>2
<1>2. Waiting(g, t)
  BY DEF Good
<1> HIDE DEF h
<1>3. Handled(h)
  BY <1>1 DEF Good, Shape, Handled
<1>4. Shape(h, s)
  BY <1>1 DEF Good, Shape
<1>5. restored => Again(h)
  BY <1>1, <1>2, ThreadAssumption DEF Again, Waiting
<1> QED BY <1>1, <1>3, <1>4, <1>5 DEF Good, h

-----------------------------------------------------------------------------
(* Steps.                                                                  *)

\* The invariant holds initially.
LEMMA InitIInv == Init => IInv
<1> SUFFICES ASSUME Init
             PROVE  IInv
  OBVIOUS
<1>1. Functions
  BY DEF Init, Functions
<1>2. StoreInv
  BY EmptyIsSeq, ThreadAssumption DEF Init, StoreInv
<1>3. CheckpointInv
  BY DEF Init, CheckpointInv
<1>4. \A c \in Client : ClientInv(c)
  BY EmptyIsSeq DEF Init, ClientInv
<1>5. ProgressInv
  BY DEF Init, ProgressInv
<1> QED BY <1>1, <1>2, <1>3, <1>4, <1>5 DEF IInv

\* What a step may do to the task and to what was asked.
Onward ==
    /\ setting' = setting /\ task' \in Task \cup {None} /\ Moves(task, task')
    /\ asked \subseteq asked'

\* A step that leaves the task alone goes onward.
LEMMA StillOnward ==
    ASSUME IInv, setting' = setting, task' = task, asked \subseteq asked'
    PROVE  Onward
BY DEF IInv, StoreInv, Onward, Moves

\* Sound states stay sound.
LEMMA SoundLater ==
    ASSUME IInv, Onward, NEW g, Sound(g)
    PROVE  Good(g, setting', task', asked')
BY GoodLater DEF IInv, StoreInv, Onward, Sound

\* A client that does not move keeps its invariant.
LEMMA OtherKept ==
    ASSUME IInv, Onward, NEW d \in Client,
           pc'[d] = pc[d], request'[d] = request[d], graph'[d] = graph[d],
           unsaved'[d] = unsaved[d], checkpoint' = checkpoint \/ Sound(checkpoint)'
    PROVE  ClientInv(d)'
<1>1. ClientInv(d)
  BY DEF IInv
<1>2. Sound(checkpoint) => Sound(checkpoint)'
  BY SoundLater DEF Sound
<1>3. pc'[d] # "idle" => RequestInv(d)'
  BY <1>1, <1>2 DEF ClientInv, RequestInv, Onward
<1>4. pc'[d] \in {"run", "decide", "flush"} => Sound(graph[d])'
  BY <1>1, SoundLater DEF ClientInv, Sound
<1>5. \A i \in DOMAIN unsaved'[d] : Sound(unsaved[d][i])'
  BY <1>1, SoundLater DEF ClientInv, Sound
<1> QED BY <1>1, <1>2, <1>3, <1>4, <1>5 DEF ClientInv

\* The store's part of the invariant, when no operation is executed.
LEMMA StoreKept ==
    ASSUME IInv, Onward, UNCHANGED <<recorded, done>>
    PROVE  StoreInv'
<1>1. \A k \in DOMAIN recorded : Past(recorded[k].result, task')
  BY PastLater DEF IInv, StoreInv, Onward
<1> QED BY <1>1 DEF IInv, StoreInv, Onward

\* The thread's part of the invariant, when no card is shown.
LEMMA CheckpointKept ==
    ASSUME IInv, Onward, shown' = shown, checkpoint' = checkpoint \/ Sound(checkpoint)'
    PROVE  CheckpointInv'
<1>1. Sound(checkpoint) => Good(checkpoint, setting', task', asked')
  BY SoundLater
<1> QED BY <1>1 DEF IInv, CheckpointInv, Sound

\* A node that ends in a sound state keeps the invariant.
LEMMA StepIInv ==
    ASSUME IInv, NEW c \in Client, NEW g, Sound(g), pc[c] \in {"invoke", "run", "decide"},
           Step(c, g), UNCHANGED <<setting, store>>
    PROVE  IInv'
<1> USE DEF Step, Goto, ghosts, store
<1>1. Onward
  BY StillOnward
<1>2. Functions /\ ClientInv(c) /\ ProgressInv
  BY DEF IInv
<1>3. Functions'
  BY <1>2 DEF Functions
<1>4. StoreInv' /\ CheckpointInv'
  BY <1>1, StoreKept, CheckpointKept
<1>5. /\ pc'[c] = IF g.next \in {"confirm", "end"} THEN "flush" ELSE "run"
      /\ graph'[c] = g /\ unsaved'[c] = Append(unsaved[c], g) /\ request'[c] = request[c]
  BY <1>2 DEF Functions
<1>6. /\ IsSeq(unsaved'[c]) /\ unsaved'[c] # <<>>
      /\ \A i \in DOMAIN unsaved'[c] : unsaved'[c][i] = g \/
           (i \in DOMAIN unsaved[c] /\ unsaved'[c][i] = unsaved[c][i])
      /\ unsaved'[c][Len(unsaved'[c])] = g
  <2>1. IsSeq(unsaved[c])
    BY <1>2 DEF ClientInv
  <2>2. /\ IsSeq(Append(unsaved[c], g)) /\ Append(unsaved[c], g) # <<>>
        /\ Append(unsaved[c], g)[Len(Append(unsaved[c], g))] = g
    BY <2>1, AppendIsSeq
  <2> QED BY <1>5, <2>1, <2>2, AppendParts
<1>7. ClientInv(c)'
  <2>1. RequestInv(c)'
    <3>1. RequestInv(c)
      BY <1>2 DEF ClientInv
    <3>2. Sound(checkpoint) => Sound(checkpoint)'
      BY DEF Sound
    <3> QED BY <1>1, <1>5, <3>1, <3>2 DEF RequestInv, Onward
  <2>2. Sound(graph[c])'
    BY <1>5 DEF Sound
  <2>3. \A i \in DOMAIN unsaved'[c] : Sound(unsaved[c][i])'
    BY <1>2, <1>6 DEF ClientInv, Sound
  <2> QED BY <1>5, <1>6, <2>1, <2>2, <2>3 DEF ClientInv
<1>8. \A d \in Client \ {c} :
        pc'[d] = pc[d] /\ request'[d] = request[d] /\ graph'[d] = graph[d] /\ unsaved'[d] = unsaved[d]
  BY <1>2 DEF Functions
<1>9. \A d \in Client \ {c} : ClientInv(d)'
  BY <1>1, <1>8, OtherKept
<1>10. ProgressInv'
  BY <1>2, <1>5, <1>6, <1>8 DEF ProgressInv
<1> QED BY <1>3, <1>4, <1>7, <1>9, <1>10 DEF IInv

\* A request that is answered keeps the invariant.
LEMMA AnswerIInv ==
    ASSUME IInv, NEW c \in Client, pc[c] \in {"read", "flush", "raised"}, unsaved[c] = <<>>,
           Answer(c), setting' = setting,
           \/ shown' = shown
           \/ Sound(checkpoint) /\ checkpoint.pending # NoAction
              /\ shown' = shown \cup {checkpoint.pending}
    PROVE  IInv'
<1> USE DEF Answer, Goto, store
<1>1. Onward
  BY StillOnward
<1>2. Functions /\ ClientInv(c) /\ ProgressInv
  BY DEF IInv
<1>3. Functions'
  BY <1>2 DEF Functions
<1>4. StoreInv'
  BY <1>1, StoreKept
<1>5. CheckpointInv'
  <2>1. CASE shown' = shown
    BY <1>1, <2>1, CheckpointKept
  <2>2. CASE Sound(checkpoint) /\ checkpoint.pending # NoAction
             /\ shown' = shown \cup {checkpoint.pending}
    <3>1. Sound(checkpoint)'
      BY <2>2 DEF Sound
    <3>2. checkpoint.pending.type \in Types
      BY <2>2 DEF Sound, Good, Shape
    <3> QED BY <2>2, <3>1, <3>2 DEF IInv, CheckpointInv
  <2> QED BY <2>1, <2>2
<1>6. pc'[c] = "idle" /\ unsaved'[c] = <<>>
  BY <1>2 DEF Functions
<1>7. ClientInv(c)'
  BY <1>6, EmptyIsSeq DEF ClientInv
<1>8. \A d \in Client \ {c} :
        pc'[d] = pc[d] /\ request'[d] = request[d] /\ graph'[d] = graph[d] /\ unsaved'[d] = unsaved[d]
  BY <1>2 DEF Functions
<1>9. \A d \in Client \ {c} : ClientInv(d)'
  BY <1>1, <1>8, OtherKept
<1>10. ProgressInv'
  BY <1>2, <1>6, <1>8 DEF ProgressInv
<1> QED BY <1>3, <1>4, <1>5, <1>7, <1>9, <1>10 DEF IInv

\* A request that is sent keeps the invariant: one that answers a card finds
\* a checkpoint, for the card has been shown.
LEMMA BeginIInv ==
    ASSUME IInv, NEW c \in Client, NEW r, Begin(c, r), setting' = setting, asked \subseteq asked',
           \/ r.kind = "chat"
           \/ /\ r.kind = "confirm" /\ <<r.action, r.decision>> \in asked' /\ shown # {}
              /\ r.decision \in {"approve", "reject", "edit", "regenerate"}
              /\ r.decision \in {"edit", "regenerate"} => r.action.round < MaxRound
    PROVE  IInv'
<1> USE DEF Begin, store
<1>1. Onward
  BY StillOnward
<1>2. Functions /\ ClientInv(c) /\ ProgressInv /\ CheckpointInv
  BY DEF IInv
<1>3. Functions'
  BY <1>2 DEF Functions
<1>4. StoreInv' /\ CheckpointInv'
  BY <1>1, StoreKept, CheckpointKept
<1>5. pc'[c] = "read" /\ unsaved'[c] = <<>> /\ request'[c] = r
  BY <1>2 DEF Functions, ClientInv
<1>6. ClientInv(c)'
  <2>1. shown # {} => Sound(checkpoint)'
    BY <1>4 DEF CheckpointInv
  <2>2. RequestInv(c)'
    BY <1>5, <2>1 DEF RequestInv
  <2> QED BY <1>5, <2>2, EmptyIsSeq DEF ClientInv
<1>7. \A d \in Client \ {c} :
        pc'[d] = pc[d] /\ request'[d] = request[d] /\ graph'[d] = graph[d] /\ unsaved'[d] = unsaved[d]
  BY <1>2 DEF Functions
<1>8. \A d \in Client \ {c} : ClientInv(d)'
  BY <1>1, <1>7, OtherKept
<1>9. ProgressInv'
  BY <1>2, <1>5, <1>7 DEF ProgressInv
<1> QED BY <1>3, <1>4, <1>6, <1>8, <1>9 DEF IInv

\* A step that only takes a request elsewhere in the code keeps the invariant.
LEMMA GotoIInv ==
    ASSUME IInv, NEW c \in Client, NEW place, Goto(c, place), setting' = setting,
           UNCHANGED <<store, checkpoint, request, graph, unsaved, ghosts>>,
           \/ pc[c] = "read" /\ place = "invoke"
           \/ pc[c] = "run" /\ place = "raised" /\ setting.faults # {}
    PROVE  IInv'
<1> USE DEF Goto, store, ghosts
<1>1. Onward
  BY StillOnward
<1>2. Functions /\ ClientInv(c) /\ ProgressInv
  BY DEF IInv
<1>3. Functions'
  BY <1>2 DEF Functions
<1>4. StoreInv' /\ CheckpointInv'
  BY <1>1, StoreKept, CheckpointKept
<1>5. pc'[c] = place
  BY <1>2 DEF Functions
<1>6. ClientInv(c)'
  <2>1. Sound(checkpoint) => Sound(checkpoint)'
    BY DEF Sound
  <2>2. RequestInv(c)'
    BY <1>1, <1>2, <2>1 DEF ClientInv, RequestInv, Onward
  <2>3. \A i \in DOMAIN unsaved'[c] : Sound(unsaved[c][i])'
    BY <1>2 DEF ClientInv, Sound
  <2> QED BY <1>2, <1>5, <2>2, <2>3 DEF ClientInv
<1>7. \A d \in Client \ {c} :
        pc'[d] = pc[d] /\ request'[d] = request[d] /\ graph'[d] = graph[d] /\ unsaved'[d] = unsaved[d]
  BY <1>2 DEF Functions
<1>8. \A d \in Client \ {c} : ClientInv(d)'
  BY <1>1, <1>7, OtherKept
<1>9. ProgressInv'
  BY <1>2, <1>5, <1>7 DEF ProgressInv
<1> QED BY <1>3, <1>4, <1>6, <1>8, <1>9 DEF IInv

\* The checks chat and confirm make on the checkpoint keep the invariant.
LEMMA ReadIInv ==
    ASSUME IInv, NEW c \in Client, ReadForChat(c) \/ ReadForConfirm(c), setting' = setting
    PROVE  IInv'
<1>1. pc[c] = "read" /\ ClientInv(c) /\ unsaved[c] = <<>>
  BY DEF ReadForChat, ReadForConfirm, IInv, ClientInv
<1>2. \/ GoOn(c) \/ Refuse(c)
      \/ Respond(c, checkpoint) /\ request[c].kind = "confirm"
  <2>1. CASE ReadForChat(c)
    BY <2>1 DEF ReadForChat
  <2>2. CASE ReadForConfirm(c)
    BY <2>2 DEF ReadForConfirm
  <2> QED BY <2>1, <2>2
<1>3. CASE GoOn(c)
  BY <1>1, <1>3, GotoIInv DEF GoOn
<1>4. CASE Refuse(c)
  BY <1>1, <1>4, AnswerIInv DEF Refuse
<1>5. CASE Respond(c, checkpoint) /\ request[c].kind = "confirm"
  <2>1. Sound(checkpoint)
    BY <1>1, <1>5 DEF ClientInv, RequestInv
  <2> QED BY <1>1, <1>5, <2>1, AnswerIInv DEF Respond
<1> QED BY <1>2, <1>3, <1>4, <1>5

\* The ends of a request keep the invariant.
LEMMA ReturnIInv ==
    ASSUME IInv, NEW c \in Client, Return(c) \/ ReturnError(c), setting' = setting
    PROVE  IInv'
<1>1. CASE Return(c)
  <2>1. pc[c] = "flush" /\ unsaved[c] = <<>> /\ Sound(checkpoint)
    BY <1>1 DEF Return, IInv, ClientInv
  <2> QED BY <1>1, <2>1, AnswerIInv DEF Return, Respond
<1>2. CASE ReturnError(c)
  BY <1>2, AnswerIInv DEF ReturnError, Refuse
<1> QED BY <1>1, <1>2

\* The input of a chat keeps the invariant.
LEMMA InvokeChatIInv ==
    ASSUME IInv, NEW c \in Client, InvokeChat(c), setting' = setting
    PROVE  IInv'
<1>1. PICK g : g = Initial(request[c].id)
  OBVIOUS
<1>2. Sound(g)
  BY <1>1, GoodInitial DEF Sound
<1>3. Step(c, g) /\ pc[c] = "invoke" /\ UNCHANGED <<setting, store>>
  BY <1>1 DEF InvokeChat, Step
<1> QED BY <1>2, <1>3, StepIInv

\* The resumption of a checkpoint keeps the invariant, whichever it is by now.
LEMMA InvokeConfirmIInv ==
    ASSUME IInv, NEW c \in Client, InvokeConfirm(c), setting' = setting
    PROVE  IInv'
<1> USE DEF Goto, store, ghosts
<1>1. Onward
  BY StillOnward DEF InvokeConfirm
<1>2. Functions /\ ClientInv(c) /\ ProgressInv
  BY DEF IInv
<1>3. PICK g : g = [checkpoint EXCEPT
                      !.request = <<Id(request[c].action), request[c].decision>>,
                      !.error = FALSE]
  OBVIOUS
<1>4. Sound(g) /\ Sound(checkpoint)
  <2>1. Sound(checkpoint)
    BY <1>2 DEF InvokeConfirm, ClientInv, RequestInv
  <2> QED BY <1>3, <2>1, GoodResumed DEF Sound
<1>5. checkpoint' = g /\ graph'[c] = g /\ Sound(g)'
  BY <1>2, <1>3, <1>4 DEF InvokeConfirm, Functions, Sound
<1>6. Functions'
  BY <1>2 DEF InvokeConfirm, Functions
<1>7. StoreInv' /\ CheckpointInv'
  BY <1>1, <1>5, StoreKept, CheckpointKept DEF InvokeConfirm, Sound
<1>8. /\ pc[c] = "invoke" /\ request[c].kind = "confirm" /\ unsaved[c] = <<>>
      /\ request' = request /\ unsaved' = unsaved /\ g.next \in {"plan", "confirm", "execute", "finish", "end"}
      /\ pc'[c] = IF g.next = "end" THEN "flush" ELSE IF g.next = "confirm" THEN "decide" ELSE "run"
  BY <1>2, <1>3, <1>4 DEF InvokeConfirm, ClientInv, Functions, Sound, Good, Shape
<1>9. ClientInv(c)'
  <2>1. Sound(checkpoint)' /\ Sound(graph[c])'
    BY <1>5 DEF Sound
  <2>2. RequestInv(c)'
    BY <1>1, <1>2, <1>8, <2>1 DEF ClientInv, RequestInv, Onward
  <2> QED BY <1>5, <1>8, <2>1, <2>2, EmptyIsSeq DEF ClientInv
<1>10. \A d \in Client \ {c} :
        pc'[d] = pc[d] /\ request'[d] = request[d] /\ graph'[d] = graph[d] /\ unsaved'[d] = unsaved[d]
  BY <1>2 DEF InvokeConfirm, Functions
<1>11. \A d \in Client \ {c} : ClientInv(d)'
  BY <1>1, <1>5, <1>10, OtherKept DEF Sound
<1>12. ProgressInv'
  BY <1>2, <1>5, <1>8, <1>10 DEF InvokeConfirm, ProgressInv
<1> QED BY <1>6, <1>7, <1>9, <1>11, <1>12 DEF IInv

\* The nodes up to the interrupt keep the invariant.
LEMMA PlanIInv ==
    ASSUME IInv, NEW c \in Client, Plan(c), setting' = setting
    PROVE  IInv'
<1>1. pc[c] = "run" /\ graph[c].next = "plan" /\ Sound(graph[c]) /\ UNCHANGED <<setting, store>>
  BY DEF Plan, Running, IInv, ClientInv
<1>2. CASE \E error \in BOOLEAN : Step(c, Ended(graph[c], error))
  <2>1. PICK error \in BOOLEAN : Step(c, Ended(graph[c], error))
    BY <1>2
  <2>2. PICK g : g = Ended(graph[c], error)
    OBVIOUS
  <2>3. Step(c, g)
    BY <2>1, <2>2 DEF Step
  <2>4. Sound(g)
    BY <1>1, <2>2, GoodEnded DEF Sound, Ended
  <2> QED BY <1>1, <2>3, <2>4, StepIInv
<1>3. ASSUME NEW intent \in IF graph[c].intent = None THEN setting.intent ELSE {graph[c].intent},
             NEW content,
             Step(c, Planned([graph[c] EXCEPT !.intent = intent],
                             IF graph[c].selected = None THEN task ELSE graph[c].selected,
                             content))
      PROVE  IInv'
  <2>1. PICK g : g = Planned([graph[c] EXCEPT !.intent = intent],
                             IF graph[c].selected = None THEN task ELSE graph[c].selected,
                             content)
    OBVIOUS
  <2>2. Step(c, g)
    BY <1>3, <2>1 DEF Step
  <2>3. setting \in Setting /\ task \in Task \cup {None}
    BY DEF IInv, StoreInv
  <2>4. Sound(g)
    BY <1>1, <2>1, <2>3, GoodPlanned DEF Sound
  <2> QED BY <1>1, <2>2, <2>4, StepIInv
<1> QED BY <1>2, <1>3 DEF Plan

\* The end of an interrupt keeps the invariant.
LEMMA DecideIInv ==
    ASSUME IInv, NEW c \in Client, Decide(c), setting' = setting
    PROVE  IInv'
<1> DEFINE decision == request[c].decision
           action == request[c].action
<1>1. /\ pc[c] = "decide" /\ graph[c].next = "confirm" /\ Sound(graph[c])
      /\ UNCHANGED <<setting, store>> /\ RequestInv(c) /\ request[c].kind = "confirm"
  BY DEF Decide, IInv, ClientInv
<1>2. CASE Step(c, Ended(graph[c], TRUE))
  <2>1. PICK g : g = Ended(graph[c], TRUE)
    OBVIOUS
  <2>2. Step(c, g)
    BY <1>2, <2>1 DEF Step
  <2>3. Sound(g)
    BY <1>1, <2>1, GoodEnded DEF Sound, Ended
  <2> QED BY <1>1, <2>2, <2>3, StepIInv
<1>3. CASE Id(action) = Id(graph[c].pending) /\ decision = "approve"
           /\ Step(c, Decided(graph[c], "execute", "approved"))
  <2>1. PICK g : g = Decided(graph[c], "execute", "approved")
    OBVIOUS
  <2>2. Step(c, g)
    BY <1>3, <2>1 DEF Step
  <2>3. Approved(graph[c], asked)
    <3>1. <<action, "approve">> \in asked
      BY <1>1, <1>3 DEF RequestInv
    <3>2. <<action, "approve">>[1] = action /\ <<action, "approve">>[2] = "approve"
      OBVIOUS
    <3> HIDE DEF action, decision
    <3> QED BY <1>3, <3>1, <3>2 DEF Approved
  <2>4. Sound(g)
    BY <1>1, <2>1, <2>3, GoodDecided DEF Sound
  <2> QED BY <1>1, <2>2, <2>4, StepIInv
<1>4. CASE Step(c, Decided(graph[c], "finish", "rejected"))
  <2>1. PICK g : g = Decided(graph[c], "finish", "rejected")
    OBVIOUS
  <2>2. Step(c, g)
    BY <1>4, <2>1 DEF Step
  <2>3. Sound(g)
    BY <1>1, <2>1, GoodDecided DEF Sound
  <2> QED BY <1>1, <2>2, <2>3, StepIInv
<1>5. ASSUME NEW draft \in Content \cup {None}, Id(action) = Id(graph[c].pending),
             decision \in {"edit", "regenerate"}, graph[c].pending.type = "create_task",
             Step(c, [Decided(graph[c], "plan", "cancelled") EXCEPT !.draft = draft])
      PROVE  IInv'
  <2>1. PICK g : g = [Decided(graph[c], "plan", "cancelled") EXCEPT !.draft = draft]
    OBVIOUS
  <2>2. Step(c, g)
    BY <1>5, <2>1 DEF Step
  <2>3. graph[c].pending.round < MaxRound
    BY <1>1, <1>5 DEF RequestInv, Id
  <2>4. Sound(g)
    BY <1>1, <1>5, <2>1, <2>3, GoodRevised DEF Sound
  <2> QED BY <1>1, <2>2, <2>4, StepIInv
<1> QED BY <1>2, <1>3, <1>4, <1>5 DEF Decide, Decided

\* The end of a turn keeps the invariant.
LEMMA FinishIInv ==
    ASSUME IInv, NEW c \in Client, Finish(c), setting' = setting
    PROVE  IInv'
<1>1. PICK g : g = [graph[c] EXCEPT !.next = "end"]
  OBVIOUS
<1>2. pc[c] = "run" /\ Sound(graph[c]) /\ UNCHANGED <<setting, store>>
  BY DEF Finish, Running, IInv, ClientInv
<1>3. Sound(g)
  BY <1>1, <1>2, GoodFinished DEF Sound
<1>4. Step(c, g)
  BY <1>1 DEF Finish, Step
<1> QED BY <1>2, <1>3, <1>4, StepIInv

\* An action that is executed takes the task onward.
LEMMA AfterOnward ==
    ASSUME IInv, NEW a, a.type \in Types, Accepts(a),
           a.type = "restore_task" => a.target = "TODO",
           a.type = "update_task_status" => a.target \in T!Status
    PROVE  /\ After(a) \in Task \cup {None} /\ Moves(task, After(a))
           /\ a.type = "restore_task" => After(a) # None /\ After(a).status = "TODO"
<1>1. task \in Task \cup {None} /\ None \notin Task
  BY ThreadAssumption DEF IInv, StoreInv
<1>2. a.type # "create_task" => task \in Task /\ task.version \in Nat /\ task.status \in T!Status
  BY <1>1 DEF Accepts, Task
<1>3. CASE a.type = "create_task"
  BY <1>1, <1>3 DEF After, Moves
<1>4. CASE a.type = "delete_task"
  BY <1>4 DEF After, Moves
<1>5. CASE a.type = "update_task"
  <2>1. After(a) = [task EXCEPT !.version = @ + 1]
    BY <1>5 DEF After
  <2>2. After(a) \in Task /\ After(a).version = task.version + 1
    BY <1>2, <1>5, <2>1 DEF Task
  <2> QED BY <1>1, <1>2, <1>5, <2>2 DEF Moves
<1>6. CASE a.type \in {"update_task_status", "restore_task"}
  <2>1. After(a) = [status |-> a.target, version |-> task.version + 1]
    BY <1>6 DEF After
  <2>2. a.target \in T!Status
    BY <1>6 DEF T!Status
  <2>3. After(a) \in Task /\ After(a).version = task.version + 1 /\ After(a).status = a.target
    BY <1>2, <1>6, <2>1, <2>2 DEF Task
  <2> QED BY <1>1, <1>2, <1>6, <2>3 DEF Moves
<1> QED BY <1>3, <1>4, <1>5, <1>6 DEF Types

\* The tool call for a takes effect; its request goes on in the state next.
Effect(c, a, result, next) ==
    /\ Running(c, "execute") /\ a = graph[c].pending /\ Accepts(a)
    /\ result = After(a) /\ task' = result /\ setting' = setting
    /\ next = Executed(graph[c], result) \/ next = Ended(graph[c], TRUE)
    /\ recorded' = [k \in DOMAIN recorded \cup {Key(a)} |->
                      IF k = Key(a) THEN [action |-> a, result |-> result] ELSE recorded[k]]
    /\ done' = Append(done, [action |-> a, before |-> task])
    /\ graph' = [graph EXCEPT ![c] = next]
    /\ unsaved' = [unsaved EXCEPT ![c] = Append(unsaved[c], next)]
    /\ UNCHANGED <<checkpoint, pc, request, sent, confirms, shown, asked>>

\* It keeps the invariant.
LEMMA EffectIInv ==
    ASSUME IInv, NEW c \in Client, NEW a, NEW result, NEW next, Effect(c, a, result, next)
    PROVE  IInv'
<1> USE DEF Effect
<1>1. Functions /\ ClientInv(c) /\ ProgressInv /\ StoreInv
  BY DEF IInv
<1>2. pc[c] = "run" /\ Sound(graph[c]) /\ graph[c].next = "execute"
  BY <1>1 DEF Running, ClientInv
<1>3. /\ a.type \in Types
      /\ a.type = "restore_task" => a.target = "TODO"
      /\ a.type = "update_task_status" => a.target \in T!Status
  BY <1>2 DEF Sound, Good, Waiting, Shape
<1>4. /\ result \in Task \cup {None} /\ Moves(task, result)
      /\ a.type = "restore_task" => result # None /\ result.status = "TODO"
  BY <1>3, AfterOnward
<1>5. Onward
  BY <1>4 DEF Onward
<1>6. Past(result, result)
  BY <1>4 DEF Past
<1>7. Good(graph[c], setting', task', asked')
  BY <1>2, <1>5, SoundLater
<1>8. Good(next, setting', task', asked')
  <2>1. CASE next = Executed(graph[c], result)
    BY <1>2, <1>4, <1>6, <1>7, <2>1, GoodExecuted
  <2>2. CASE next = Ended(graph[c], TRUE)
    BY <1>7, <2>2, GoodEnded DEF Ended
  <2> QED BY <2>1, <2>2
<1>9. Functions'
  BY <1>1 DEF Functions
<1>10. StoreInv'
  <2>1. task' \in Task \cup {None} /\ setting' \in Setting
    BY <1>1, <1>4 DEF StoreInv
  <2>2. \A k \in DOMAIN recorded' :
         /\ Key(recorded'[k].action) = k /\ Past(recorded'[k].result, task')
         /\ recorded'[k].action.type = "restore_task" =>
              recorded'[k].result # None /\ recorded'[k].result.status = "TODO"
    <3> SUFFICES ASSUME NEW k \in DOMAIN recorded'
                 PROVE  /\ Key(recorded'[k].action) = k /\ Past(recorded'[k].result, task')
                        /\ recorded'[k].action.type = "restore_task" =>
                             recorded'[k].result # None /\ recorded'[k].result.status = "TODO"
      OBVIOUS
    <3>1. CASE k = Key(a)
      <4>1. recorded'[k].action = a /\ recorded'[k].result = result
        BY <3>1
      <4> QED BY <1>4, <1>6, <3>1, <4>1
    <3>2. CASE k # Key(a)
      <4>1. k \in DOMAIN recorded /\ recorded'[k] = recorded[k]
        BY <3>2
      <4>2. Past(recorded[k].result, task')
        BY <1>1, <1>5, <4>1, PastLater DEF StoreInv, Onward
      <4> QED BY <1>1, <4>1, <4>2 DEF StoreInv
    <3> QED BY <3>1, <3>2
  <2> DEFINE e == [action |-> a, before |-> task]
  <2>3. IsSeq(done') /\ \A i \in DOMAIN done' :
          done'[i] = e \/ (i \in DOMAIN done /\ done'[i] = done[i])
    <3>1. done' = Append(done, e) /\ IsSeq(done)
      BY <1>1 DEF StoreInv
    <3> HIDE DEF e
    <3> QED BY <3>1, AppendIsSeq, AppendParts
  <2>4. \A i \in DOMAIN done' : Key(done'[i].action) \in DOMAIN recorded'
    <3>1. DOMAIN recorded' = DOMAIN recorded \cup {Key(a)} /\ e.action = a
      OBVIOUS
    <3> HIDE DEF e
    <3> QED BY <1>1, <2>3, <3>1 DEF StoreInv
  <2> QED BY <2>1, <2>2, <2>3, <2>4 DEF StoreInv
<1>11. CheckpointInv'
  BY <1>5, CheckpointKept
<1>12. pc'[c] = "run" /\ graph'[c] = next /\ unsaved'[c] = Append(unsaved[c], next)
  BY <1>1, <1>2 DEF Functions
<1>13. /\ IsSeq(unsaved'[c]) /\ unsaved'[c] # <<>>
       /\ \A i \in DOMAIN unsaved'[c] : unsaved'[c][i] = next \/
            (i \in DOMAIN unsaved[c] /\ unsaved'[c][i] = unsaved[c][i])
  <2>1. IsSeq(unsaved[c])
    BY <1>1 DEF ClientInv
  <2> QED BY <1>12, <2>1, AppendIsSeq, AppendParts
<1>14. ClientInv(c)'
  <2>1. RequestInv(c)'
    <3>1. Sound(checkpoint) => Sound(checkpoint)'
      BY <1>5, SoundLater DEF Sound
    <3> QED BY <1>1, <1>2, <1>5, <3>1 DEF ClientInv, RequestInv, Onward
  <2>2. \A i \in DOMAIN unsaved'[c] : Sound(unsaved[c][i])'
    BY <1>1, <1>5, <1>8, <1>13, SoundLater DEF ClientInv, Sound
  <2> QED BY <1>8, <1>12, <1>13, <2>1, <2>2 DEF ClientInv, Sound
<1>15. \A d \in Client \ {c} :
        pc'[d] = pc[d] /\ request'[d] = request[d] /\ graph'[d] = graph[d] /\ unsaved'[d] = unsaved[d]
  BY <1>1 DEF Functions
<1>16. \A d \in Client \ {c} : ClientInv(d)'
  BY <1>5, <1>15, OtherKept
<1>17. ProgressInv'
  BY <1>1, <1>12, <1>13, <1>15 DEF ProgressInv
<1> QED BY <1>9, <1>10, <1>11, <1>14, <1>16, <1>17 DEF IInv

\* The execution of an action keeps the invariant, also when it is answered from
\* a record or fails.
LEMMA ExecuteIInv ==
    ASSUME IInv, NEW c \in Client, Execute(c), setting' = setting
    PROVE  IInv'
<1> DEFINE a == graph[c].pending
<1>1. Running(c, "execute") /\ pc[c] = "run" /\ Sound(graph[c]) /\ graph[c].next = "execute"
  BY DEF Execute, Running, IInv, ClientInv
<1>2. CASE /\ ~IsRecorded(a) /\ Accepts(a) /\ task' = After(a)
           /\ recorded' = [k \in DOMAIN recorded \cup {Key(a)} |->
                            IF k = Key(a) THEN [action |-> a, result |-> After(a)]
                            ELSE recorded[k]]
           /\ done' = Append(done, [action |-> a, before |-> task])
           /\ \E next \in {Executed(graph[c], After(a)), Ended(graph[c], TRUE)} :
                 /\ graph' = [graph EXCEPT ![c] = next]
                 /\ unsaved' = [unsaved EXCEPT ![c] = Append(@, next)]
           /\ UNCHANGED <<checkpoint, pc, request, sent, confirms, shown, asked>>
  <2>1. PICK b : b = graph[c].pending
    OBVIOUS
  <2>2. PICK result : result = After(graph[c].pending)
    OBVIOUS
  <2>3. PICK next \in {Executed(graph[c], After(a)), Ended(graph[c], TRUE)} :
           /\ graph' = [graph EXCEPT ![c] = next]
           /\ unsaved' = [unsaved EXCEPT ![c] = Append(unsaved[c], next)]
    BY <1>2
  <2>4. Accepts(b) /\ result = After(b)
    BY <1>2, <2>1, <2>2
  <2>5. /\ recorded' = [k \in DOMAIN recorded \cup {Key(b)} |->
                           IF k = Key(b) THEN [action |-> b, result |-> result] ELSE recorded[k]]
        /\ done' = Append(done, [action |-> b, before |-> task]) /\ task' = result
    BY <1>2, <2>1, <2>2
  <2>6. next = Executed(graph[c], result) \/ next = Ended(graph[c], TRUE)
    BY <2>2, <2>3
  <2>7. Effect(c, b, result, next)
    BY <1>1, <1>2, <2>1, <2>3, <2>4, <2>5, <2>6 DEF Effect
  <2> QED BY <2>7, EffectIInv
<1>3. CASE /\ IsRecorded(a) /\ UNCHANGED store
           /\ Step(c, Executed(graph[c], recorded[Key(a)].result))
  <2> DEFINE r == recorded[Key(a)]
  <2>1. PICK g : g = Executed(graph[c], r.result)
    OBVIOUS
  <2>2. Step(c, g)
    BY <1>3, <2>1 DEF Step
  <2>3. /\ Key(r.action) = Key(a) /\ Past(r.result, task)
        /\ r.action.type = "restore_task" => r.result # None /\ r.result.status = "TODO"
    BY <1>3 DEF IsRecorded, IInv, StoreInv
  <2>4. r.action.type = a.type
    BY <2>3 DEF Key
  <2>5. Sound(g)
    BY <1>1, <2>1, <2>3, <2>4, GoodExecuted DEF Sound
  <2> QED BY <1>1, <1>3, <2>2, <2>5, StepIInv
<1>4. CASE Step(c, Ended(graph[c], TRUE)) /\ UNCHANGED store
  <2>1. PICK g : g = Ended(graph[c], TRUE)
    OBVIOUS
  <2>2. Step(c, g)
    BY <1>4, <2>1 DEF Step
  <2>3. Sound(g)
    BY <1>1, <2>1, GoodEnded DEF Sound, Ended
  <2> QED BY <1>1, <1>4, <2>2, <2>3, StepIInv
<1> QED BY <1>2, <1>3, <1>4 DEF Execute

\* A checkpoint that is written keeps the invariant: whichever it replaces, it
\* is sound, and the last one of a run needs nobody to go on.
LEMMA SaveIInv ==
    ASSUME IInv, NEW c \in Client, Save(c), setting' = setting
    PROVE  IInv'
<1> USE DEF Save, store, ghosts
<1>1. Onward
  BY StillOnward
<1>2. Functions /\ ClientInv(c) /\ ProgressInv /\ IsSeq(unsaved[c])
  BY DEF IInv, ClientInv
<1>3. Functions'
  BY <1>2 DEF Functions
<1>4. /\ Len(unsaved[c]) > 0 /\ Len(unsaved[c]) \in Nat /\ DOMAIN unsaved[c] = 1..Len(unsaved[c])
      /\ Head(unsaved[c]) = unsaved[c][1]
  BY <1>2, SeqParts
<1>5. /\ unsaved'[c] = Tail(unsaved[c]) /\ checkpoint' = unsaved[c][1]
      /\ pc'[c] = pc[c] /\ request'[c] = request[c] /\ graph'[c] = graph[c]
  BY <1>2, <1>4 DEF Functions
<1>6. /\ IsSeq(unsaved'[c]) /\ Len(unsaved'[c]) = Len(unsaved[c]) - 1
      /\ Len(unsaved[c]) > 1 <=> unsaved'[c] # <<>>
      /\ \A i \in DOMAIN unsaved'[c] : i + 1 \in DOMAIN unsaved[c] /\ unsaved'[c][i] = unsaved[c][i + 1]
  BY <1>2, <1>5, TailIsSeq
<1>7. Sound(checkpoint)'
  BY <1>2, <1>4, <1>5 DEF ClientInv, Sound
<1>8. StoreInv' /\ CheckpointInv'
  BY <1>1, <1>7, StoreKept, CheckpointKept
<1>9. ClientInv(c)'
  <2>1. pc'[c] # "idle" => RequestInv(c)'
    BY <1>1, <1>2, <1>5, <1>7 DEF ClientInv, RequestInv, Onward
  <2>2. \A i \in DOMAIN unsaved'[c] : Sound(unsaved[c][i])'
    BY <1>2, <1>6 DEF ClientInv, Sound
  <2>3. pc'[c] \in {"run", "decide", "flush"} => Sound(graph[c])'
    BY <1>2, <1>5 DEF ClientInv, Sound
  <2> QED BY <1>2, <1>5, <1>6, <1>7, <2>1, <2>2, <2>3 DEF ClientInv
<1>10. \A d \in Client \ {c} :
        pc'[d] = pc[d] /\ request'[d] = request[d] /\ graph'[d] = graph[d] /\ unsaved'[d] = unsaved[d]
  BY <1>2 DEF Functions
<1>11. \A d \in Client \ {c} : ClientInv(d)'
  BY <1>1, <1>7, <1>10, OtherKept
<1>12. ProgressInv'
  <2> SUFFICES ASSUME setting.faults = {}
               PROVE  ProgressInv'
    BY DEF ProgressInv
  <2>1. unsaved'[c] # <<>> => unsaved'[c][Len(unsaved'[c])] = unsaved[c][Len(unsaved[c])]
    <3> SUFFICES ASSUME unsaved'[c] # <<>>
                 PROVE  unsaved'[c][Len(unsaved'[c])] = unsaved[c][Len(unsaved[c])]
      OBVIOUS
    <3>1. Len(unsaved'[c]) \in DOMAIN unsaved'[c] /\ Len(unsaved'[c]) + 1 = Len(unsaved[c])
      BY <1>4, <1>6, SeqParts
    <3> QED BY <1>6, <3>1
  <2>2. unsaved'[c] = <<>> /\ pc[c] = "flush" => checkpoint'.next \in {"confirm", "end"}
    BY <1>2, <1>4, <1>5, <1>6 DEF ProgressInv
  <2>3. pc[c] \in {"run", "flush"}
    BY <1>2 DEF ClientInv, ProgressInv
  <2>4. \A d \in Client :
          /\ pc'[d] # "raised"
          /\ pc'[d] = "flush" /\ unsaved'[d] # <<>> =>
               unsaved'[d][Len(unsaved'[d])].next \in {"confirm", "end"}
    BY <1>2, <1>5, <1>10, <2>1 DEF ProgressInv
  <2>5. \/ checkpoint'.next \in {"confirm", "end"}
        \/ pc'[c] \in {"run", "decide"} \/ unsaved'[c] # <<>>
    BY <1>5, <2>2, <2>3
  <2> QED BY <2>4, <2>5 DEF ProgressInv
<1> QED BY <1>3, <1>8, <1>9, <1>11, <1>12 DEF IInv

\* The death of a process keeps the invariant.
LEMMA CrashIInv ==
    ASSUME IInv, NEW c \in Client, Crash(c), setting' = setting
    PROVE  IInv'
<1> USE DEF Crash, Goto, store, ghosts
<1>1. Onward
  BY StillOnward
<1>2. Functions /\ ClientInv(c)
  BY DEF IInv
<1>3. Functions'
  BY <1>2 DEF Functions
<1>4. StoreInv' /\ CheckpointInv'
  BY <1>1, StoreKept, CheckpointKept
<1>5. pc'[c] = "idle" /\ unsaved'[c] = <<>>
  BY <1>2 DEF Functions
<1>6. ClientInv(c)'
  BY <1>5, EmptyIsSeq DEF ClientInv
<1>7. \A d \in Client \ {c} :
        pc'[d] = pc[d] /\ request'[d] = request[d] /\ graph'[d] = graph[d] /\ unsaved'[d] = unsaved[d]
  BY <1>2 DEF Functions
<1>8. \A d \in Client \ {c} : ClientInv(d)'
  BY <1>1, <1>7, OtherKept
<1>9. ProgressInv'
  BY DEF ProgressInv
<1> QED BY <1>3, <1>4, <1>6, <1>8, <1>9 DEF IInv

\* What others do to the task keeps the invariant.
LEMMA ElsewhereIInv ==
    ASSUME IInv, Elsewhere, setting' = setting
    PROVE  IInv'
<1> USE DEF ghosts
<1>1. task \in Task /\ task # None
  BY DEF Elsewhere, IInv, StoreInv
<1>2. Onward
  <2>1. CASE task' = None
    BY <1>1, <2>1 DEF Elsewhere, Onward, Moves
  <2>2. ASSUME NEW status \in T!Status, task' = [status |-> status, version |-> task.version + 1]
        PROVE  Onward
    <3>1. task' \in Task /\ task.version < task'.version
      BY <1>1, <2>2 DEF Task
    <3> QED BY <1>1, <3>1 DEF Elsewhere, Onward, Moves
  <2> QED BY <2>1, <2>2 DEF Elsewhere
<1>3. StoreInv' /\ CheckpointInv'
  BY <1>2, StoreKept, CheckpointKept DEF Elsewhere
<1>4. \A d \in Client : ClientInv(d)'
  BY <1>2, OtherKept DEF Elsewhere
<1>5. Functions' /\ ProgressInv'
  BY DEF Elsewhere, IInv, Functions, ProgressInv
<1> QED BY <1>3, <1>4, <1>5 DEF IInv

\* Every step keeps the invariant.
LEMMA NextIInv == IInv /\ [Next]_vars => IInv'
<1> SUFFICES ASSUME IInv, [Next]_vars
             PROVE  IInv'
  OBVIOUS
<1>1. CASE UNCHANGED vars
  BY <1>1 DEF vars, IInv, Functions, StoreInv, CheckpointInv, ClientInv, RequestInv,
              ProgressInv, Sound
<1>2. ASSUME Next
      PROVE  IInv'
  <2>1. setting' = setting
    BY <1>2 DEF Next
  <2>2. ASSUME NEW c \in Client, NEW id \in ChatId, BeginChat(c, id)
        PROVE  IInv'
    BY <2>1, <2>2, BeginIInv DEF BeginChat
  <2>3. ASSUME NEW c \in Client, NEW a \in shown, NEW d \in setting.decision,
               BeginConfirm(c, a, d)
        PROVE  IInv'
    <3>1. d \in {"approve", "reject", "edit", "regenerate"}
      BY ThreadAssumption DEF IInv, StoreInv
    <3>2. PICK r : r = [kind |-> "confirm", action |-> a, decision |-> d]
      OBVIOUS
    <3>3. Begin(c, r) /\ r.kind = "confirm" /\ r.action = a /\ r.decision = d
      BY <2>3, <3>2 DEF BeginConfirm
    <3> QED BY <2>1, <2>3, <3>1, <3>3, BeginIInv DEF BeginConfirm
  <2>4. ASSUME NEW c \in Client, Work(c)
        PROVE  IInv'
    BY <2>1, <2>4, ReadIInv, InvokeChatIInv, InvokeConfirmIInv, PlanIInv, DecideIInv,
       ExecuteIInv, FinishIInv, ReturnIInv DEF Work
  <2>5. ASSUME NEW c \in Client, Raise(c)
        PROVE  IInv'
    BY <2>1, <2>5, GotoIInv DEF Raise, Running
  <2> QED BY <1>2, <2>1, <2>2, <2>3, <2>4, <2>5, SaveIInv, CrashIInv, ElsewhereIInv DEF Next
<1> QED BY <1>1, <1>2

\* The inductive invariant holds in every reachable state.
THEOREM InductiveInvariant == Spec => []IInv
BY InitIInv, NextIInv, PTL DEF Spec

-----------------------------------------------------------------------------
(* Theorems.                                                               *)

\* Every graph state of a thread has the shape its nodes rely on: one that waits
\* for an answer or executes has an action, whatever requests race.
THEOREM TypeCorrect == Spec => []TypeOK
<1>1. IInv => TypeOK
  <2> SUFFICES ASSUME IInv
               PROVE  TypeOK
    OBVIOUS
  <2>1. \A g : Sound(g) => IsGraph(g)
    BY DEF Sound, Good, Shape, Waiting, IsGraph
  <2> QED BY <2>1 DEF IInv, StoreInv, CheckpointInv, ClientInv, TypeOK
<1> QED BY <1>1, InductiveInvariant, PTL

\* Without crashes and exceptions no thread ever gets stuck, however many requests
\* run on it at once: when they have ended, it waits for nothing or for an answer
\* that can be given.
THEOREM AlwaysResponsiveUnlessFaulty == Spec => []ResponsiveUnlessFaulty
<1>1. IInv => ResponsiveUnlessFaulty
  <2> SUFFICES ASSUME IInv, setting.faults = {}, Quiet, checkpoint # None, Awaiting(checkpoint)
               PROVE  /\ checkpoint.next = "confirm"
                      /\ checkpoint.handled # Id(checkpoint.pending)
    BY DEF ResponsiveUnlessFaulty, ThreadResponsive
  <2>1. checkpoint.next = "confirm"
    BY DEF IInv, ProgressInv, Quiet, Awaiting
  <2>2. /\ checkpoint.pending.round = checkpoint.round /\ checkpoint.round \in Nat
        /\ checkpoint.handled # NoId => checkpoint.handled[3] \in 0..(checkpoint.round - 1)
    BY <2>1, ThreadAssumption DEF IInv, CheckpointInv, Sound, Good, Shape, Waiting, Handled
  <2>3. Id(checkpoint.pending)[3] = checkpoint.pending.round /\ Id(checkpoint.pending) # NoId
    <3>1. DOMAIN Id(checkpoint.pending) # DOMAIN NoId
      BY DEF Id, NoId
    <3> QED BY <3>1 DEF Id
  <2>4. checkpoint.round \notin 0..(checkpoint.round - 1)
    BY <2>2
  <2> QED BY <2>1, <2>2, <2>3, <2>4
<1> QED BY <1>1, InductiveInvariant, PTL

\* An execution is one Confirmation allows: the card of that id has been approved,
\* no action of the id was executed before, and the task is as it was.
LEMMA EffectPromised ==
    ASSUME IInv, NEW c \in Client, NEW a, NEW result, NEW next, Effect(c, a, result, next),
           ~IsRecorded(a)
    PROVE  C!Execute
<1> DEFINE e == [action |-> a, before |-> task]
<1>1. Sound(graph[c]) /\ graph[c].next = "execute" /\ graph[c].pending = a
  BY DEF IInv, ClientInv, Effect, Running
<1>2. Approved(graph[c], asked) /\ Waiting(graph[c], task)
  BY <1>1 DEF Sound, Good
<1>3. \E pair \in asked : Id(pair[1]) = Id(a) /\ pair[2] = "approve"
  BY <1>1, <1>2 DEF Approved
<1>4. Fits(a, task)
  <2> SUFFICES ASSUME a.type # "create_task"
               PROVE  task # None /\ task.version = a.version /\ task.status = a.from
    BY DEF Fits
  <2>1. task # None /\ task.version = a.version
    BY DEF Effect, Accepts
  <2> DEFINE from == [status |-> a.from, version |-> a.version]
  <2>2. from \in Task /\ Past(from, task)
    BY <1>1, <1>2 DEF Waiting
  <2>3. from.version = a.version /\ from.status = a.from /\ a.version \in Nat /\ from # None
    BY <2>2, ThreadAssumption DEF Task
  <2> HIDE DEF from
  <2>4. from = task
    BY <2>1, <2>2, <2>3 DEF Past
  <2> QED BY <2>1, <2>3, <2>4
<1>5. \A i \in DOMAIN done : Id(done[i].action) # Id(a)
  <2>1. \A b : Id(b) = Id(a) => Key(b) = Key(a)
    BY DEF Id, Key
  <2> QED BY <2>1 DEF IInv, StoreInv, IsRecorded
<1>6. done' = Append(done, e) /\ UNCHANGED <<shown, asked>>
  BY DEF Effect
<1>7. e.action = a /\ e.before = task
  OBVIOUS
<1>8. C!Executed(e)
  BY <1>3, <1>4, <1>5, <1>7 DEF C!Executed
<1> HIDE DEF e
<1>9. Len(done') = Len(done) + 1 /\ done'[Len(done')] = e
  BY <1>6, AppendIsSeq DEF IInv, StoreInv
<1> QED BY <1>6, <1>8, <1>9 DEF C!Execute

\* The agent implements Confirmation, for any number of requests and messages,
\* with crashes, exceptions and repetitions.
THEOREM AgentImplementsConfirmation == Spec => ImplementsConfirmation
<1>1. Init => C!Init
  BY DEF Init, C!Init
<1>2. IInv /\ [Next]_vars => [C!Next]_(C!vars)
  <2> SUFFICES ASSUME IInv, [Next]_vars
               PROVE  [C!Next]_(C!vars)
    OBVIOUS
  <2> USE DEF C!vars, store, ghosts
  <2>1. ASSUME shown \subseteq shown', UNCHANGED <<asked, done>>
        PROVE  [C!Next]_(C!vars)
    BY <2>1 DEF C!Next, C!Show
  <2>2. CASE UNCHANGED vars
    BY <2>2 DEF vars
  <2>3. ASSUME NEW c \in Client, NEW id \in ChatId, BeginChat(c, id)
        PROVE  [C!Next]_(C!vars)
    BY <2>1, <2>3 DEF BeginChat, Begin
  <2>4. ASSUME NEW c \in Client, NEW a \in shown, NEW d, BeginConfirm(c, a, d)
        PROVE  [C!Next]_(C!vars)
    <3>1. asked' = asked \cup {<<a, d>>} /\ UNCHANGED <<shown, done>>
      BY <2>4 DEF BeginConfirm, Begin
    <3>2. \A pair \in asked' \ asked : pair[1] \in shown
      BY <3>1
    <3> QED BY <3>1, <3>2 DEF C!Next, C!Ask
  <2>5. ASSUME NEW c \in Client, Execute(c), setting' = setting
        PROVE  [C!Next]_(C!vars)
    <3> DEFINE a == graph[c].pending
    <3>1. CASE /\ ~IsRecorded(a) /\ Accepts(a) /\ task' = After(a)
               /\ recorded' = [k \in DOMAIN recorded \cup {Key(a)} |->
                                IF k = Key(a) THEN [action |-> a, result |-> After(a)]
                                ELSE recorded[k]]
               /\ done' = Append(done, [action |-> a, before |-> task])
               /\ \E next \in {Executed(graph[c], After(a)), Ended(graph[c], TRUE)} :
                     /\ graph' = [graph EXCEPT ![c] = next]
                     /\ unsaved' = [unsaved EXCEPT ![c] = Append(@, next)]
               /\ UNCHANGED <<checkpoint, pc, request, sent, confirms, shown, asked>>
      <4>1. PICK next \in {Executed(graph[c], After(a)), Ended(graph[c], TRUE)} :
               /\ graph' = [graph EXCEPT ![c] = next]
               /\ unsaved' = [unsaved EXCEPT ![c] = Append(unsaved[c], next)]
        BY <3>1
      <4>2. PICK b : b = graph[c].pending
        OBVIOUS
      <4>3. PICK result : result = After(graph[c].pending)
        OBVIOUS
      <4>4. Running(c, "execute")
        BY <2>5 DEF Execute
      <4>5. Effect(c, b, result, next) /\ ~IsRecorded(b)
        BY <2>5, <3>1, <4>1, <4>2, <4>3, <4>4 DEF Effect
      <4> QED BY <4>5, EffectPromised DEF C!Next
    <3>2. CASE UNCHANGED <<shown, asked, done>>
      BY <2>1, <3>2
    <3> QED BY <2>5, <3>1, <3>2 DEF Execute, Step
  <2>6. ASSUME NEW c \in Client, Work(c), setting' = setting
        PROVE  [C!Next]_(C!vars)
    <3>1. CASE ReadForChat(c) \/ ReadForConfirm(c)
      <4>1. \/ GoOn(c) \/ Refuse(c)
            \/ Respond(c, checkpoint)
        BY <3>1 DEF ReadForChat, ReadForConfirm
      <4> QED BY <2>1, <4>1 DEF GoOn, Refuse, Respond, Answer
    <3>2. CASE InvokeChat(c) \/ InvokeConfirm(c) \/ Plan(c) \/ Decide(c) \/ Finish(c)
      BY <2>1, <3>2 DEF InvokeChat, InvokeConfirm, Plan, Decide, Finish, Step
    <3>3. CASE Return(c) \/ ReturnError(c)
      BY <2>1, <3>3 DEF Return, ReturnError, Refuse, Respond, Answer
    <3> QED BY <2>5, <2>6, <3>1, <3>2, <3>3 DEF Work
  <2>7. ASSUME NEW c \in Client, Save(c) \/ Crash(c) \/ Raise(c)
        PROVE  [C!Next]_(C!vars)
    BY <2>1, <2>7 DEF Save, Crash, Raise
  <2>8. CASE Elsewhere
    BY <2>1, <2>8 DEF Elsewhere
  <2> QED BY <2>2, <2>3, <2>4, <2>6, <2>7, <2>8 DEF Next
<1> QED BY <1>1, <1>2, InductiveInvariant, PTL DEF Spec, ImplementsConfirmation, C!Spec
=============================================================================
