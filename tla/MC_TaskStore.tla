---------------------------- MODULE MC_TaskStore ----------------------------
(* A small instance of TaskStore.  The update and status keys are left out   *)
(* (the repository takes them as optional), so that status changes are       *)
(* bounded by MaxVersion and not by the supply of keys.                      *)
EXTENDS TaskStore, TLC

CONSTANTS c1, b1, b2, d1, e1

\* One root decomposed twice, single and batch deletion.
FamilyKeys ==
    [kind \in Kind |->
       CASE kind = "create"       -> {c1}
         [] kind = "batch"        -> {b1, b2}
         [] kind = "delete"       -> {d1}
         [] kind = "delete_batch" -> {e1}
         [] OTHER                 -> {}]

Symmetry == Permutations(TaskId)
=============================================================================
