----------------------------- MODULE MC_TaskGraph -----------------------------
(***************************************************************************)
(* TaskGraph for TLC: a parent p with subtasks x and y of one title, and a *)
(* root q.                                                                 *)
(***************************************************************************)
EXTENDS TaskGraph, TLC

CONSTANTS p, x, y, q

Tasks == {p, x, y, q}

Shown == p :> 1 @@ x :> 2 @@ y :> 3 @@ q :> 4

Family == p :> None @@ x :> p @@ y :> p @@ q :> None

References == {"parent", "part", "root"}

Titles == "parent" :> {p} @@ "part" :> {x, y} @@ "root" :> {}

Parts == "parent" :> {p} @@ "part" :> {x, y} @@ "root" :> {p, q}

At1(status) == [status |-> status, version |-> 1]

Messages ==
    {[kind |-> k] : k \in {"cancel", "new", "marked", "other"}}
    \cup {[kind |-> "ordinal", n |-> n] : n \in 1..2}
    \cup {[kind |-> "name", ref |-> r] : r \in {"part"}}

A(intent, ref, target, asks) ==
    [intent |-> intent, ref |-> ref, target |-> target, asks |-> asks]

\* The schema wants delete_all_matches for several references.
D(scope, parent, refs, keywords) ==
    [asks |-> FALSE, all |-> Len(refs) > 1, scope |-> scope, parent |-> parent,
     refs |-> refs, query |-> FALSE, keywords |-> keywords]

Scenes == {"create", "change", "delete"}

Family4(sx, sy, sq) == p :> At1("DOING") @@ x :> sx @@ y :> sy @@ q :> sq

Stores ==
    [create |-> {Family4(None, None, None)},
     change |-> {Family4(At1("CANCELLED"), At1("TODO"), None)},
     delete |-> {Family4(At1("TODO"), At1("DONE"), At1("TODO"))}]

Others == [create |-> {"CANCELLED"}, change |-> {"CANCELLED"}, delete |-> {}]

Requests ==
    [create |->
       {A("CREATE_TASK", None, None, FALSE), A("GENERAL_CHAT", None, None, FALSE),
        A("UNKNOWN", None, None, FALSE), A("QUERY_TASKS", None, None, TRUE),
        A("QUERY_TASKS", None, None, FALSE), A("DECOMPOSE_TASK", "parent", None, FALSE)},
     change |->
       {A("QUERY_TASKS", "part", None, FALSE), A("UPDATE_TASK_STATUS", "part", "DOING", FALSE),
        A("UPDATE_TASK", "part", None, FALSE),
        A("UPDATE_TASK_STATUS", "it", "CANCELLED", FALSE), A("DECOMPOSE_TASK", "it", None, FALSE)},
     delete |->
       {A("DELETE_TASK", None, None, FALSE), A("QUERY_TASKS", "part", None, FALSE)}]

Deletions ==
    [create |-> {}, change |-> {},
     delete |->
       {D("ALL_TASKS", None, <<"part", x>>, FALSE), D("ALL_TASKS", None, <<"part">>, FALSE),
        D("ALL_TASKS", None, <<"part", "parent">>, FALSE),
        D("DIRECT_CHILDREN", "root", <<>>, TRUE),
        [D("ALL_TASKS", None, <<"part">>, FALSE) EXCEPT !.all = TRUE],
        [D("ALL_TASKS", None, <<>>, FALSE) EXCEPT !.asks = TRUE]}]
=============================================================================
