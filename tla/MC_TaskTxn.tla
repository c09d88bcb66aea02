----------------------------- MODULE MC_TaskTxn -----------------------------
(* Small instances of TaskTxn: which calls the clients may make, each of     *)
(* them any number of times.  An expected version lets a call take effect    *)
(* at most once, so these sets also bound the versions.                      *)
EXTENDS TaskTxn, TLC

CONSTANTS p, q, x, y, a, b, c1, b1, b2, s1, u1, d1, e1

MCKeys ==
    [kind \in {"create", "batch", "status", "update", "delete", "delete_batch"} |->
       CASE kind = "create" -> {c1}
         [] kind = "batch"  -> {b1, b2}
         [] kind = "status" -> {s1}
         [] kind = "update" -> {u1}
         [] kind = "delete" -> {d1}
         [] OTHER           -> {e1}]

CreateCall(id) == [op |-> "create", key |-> c1, id |-> id]

BatchCall(v, plan, key) == [op |-> "batch", key |-> key, at |-> p :> v, plan |-> plan]

StatusCall(t, v, target, key) ==
    [op |-> "status", key |-> key, at |-> t :> v, target |-> target,
     reopen |-> TRUE, restore |-> TRUE]

UpdateCall(t, v, key) == [op |-> "update", key |-> key, at |-> t :> v]

DeleteCall(t, v) == [op |-> "delete", key |-> d1, at |-> t :> v]

DeleteBatchCall(at) == [op |-> "delete_batch", key |-> e1, at |-> at]

TwoSteps == x :> [order |-> 1, deps |-> {}] @@ y :> [order |-> 2, deps |-> {}]

OneStep  == x :> [order |-> 1, deps |-> {}]

Decomposed == {CreateCall(p), BatchCall(1, TwoSteps, b1)}

\* Two subtasks are completed while their parent is edited.
CompletionCalls ==
    Decomposed
    \cup {UpdateCall(p, 2, None)}
    \cup {StatusCall(t, 1, "DOING", None) : t \in {x, y}}
    \cup {StatusCall(t, 2, "DONE", None) : t \in {x, y}}

\* Deletion of subtasks, and of a parent that is being decomposed.
DeletionCalls ==
    Decomposed
    \cup {DeleteCall(p, 1), DeleteCall(y, 1), DeleteBatchCall(x :> 1 @@ y :> 1),
          StatusCall(x, 1, "DOING", None), StatusCall(p, 2, "CANCELLED", None)}

\* Repeated calls: with the same input, and with another input.
DuplicateCalls ==
    {CreateCall(t) : t \in {p, q}}
    \cup {BatchCall(1, plan, b1) : plan \in {OneStep, TwoSteps}}
    \cup {StatusCall(x, v, "DOING", s1) : v \in {1, 2}}
    \cup {UpdateCall(x, v, u1) : v \in {1, 2}}

Races == {CompletionCalls, DeletionCalls}

Duplicates == {DuplicateCalls}

Symmetry == Permutations({a, b})
=============================================================================
