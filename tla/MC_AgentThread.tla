--------------------------- MODULE MC_AgentThread ---------------------------
(* Small instances of AgentThread: what may happen in them.                 *)
EXTENDS AgentThread, TLC

Create == [kind |-> "create", target |-> None]
Update == [kind |-> "update", target |-> None]
Delete == [kind |-> "delete", target |-> None]
Starting == [kind |-> "status", target |-> "DOING"]

Repeatable == {Create, Delete, Starting}

Todo == [status |-> "TODO", version |-> 1]

Cancelled == [status |-> "CANCELLED", version |-> 2]

FromTodo == {Todo}

FromBoth == {Todo, Cancelled}

All == {Create, Update, Delete, Starting}

Creations == {Create}

S(means, answers, fails, n) ==
    [intent |-> means, decision |-> answers, faults |-> fails, confirms |-> n]

\* Races and crashes; edits without faults; nodes that raise.
Settings ==
    {S(Repeatable, {"approve", "reject"}, {"crash"}, 4),
     S(All, {"approve", "reject", "edit"}, {}, 3),
     S(Creations, {"approve", "reject", "edit"}, {"raise"}, 2)}

Ending == {S(Repeatable, {"approve", "reject", "edit"}, {"raise"}, 2)}

Raising == {S(Creations, {"approve"}, {"raise"}, 2)}

Regenerating == {S(Creations, {"approve", "regenerate"}, {}, 3)}

Symmetry == Permutations(Client)
=============================================================================
