---------------------------- MODULE Confirmation ----------------------------
(***************************************************************************)
(* What the agent promises about write operations: an action is shown to   *)
(* the user, the user approves it, and then an action of that id may       *)
(* change the store, once, and only if the task is still the one it was    *)
(* prepared for.  It promises no more than the id: AgentThread may prepare *)
(* two actions under one (see ExecutedAsApproved there).  The abstract     *)
(* specification that AgentThread implements (AgentThreadProofs).          *)
(***************************************************************************)
EXTENDS Integers, Sequences

CONSTANTS
    Id(_),         \* the id of an action
    Fits(_, _)     \* Fits(a, before): a was prepared for a task in that state

VARIABLES
    shown,   \* the actions put before the user
    asked,   \* asked: the pairs <<action, decision>> the user has sent
    done     \* what was executed, in order: [action, before]

vars == <<shown, asked, done>>

Init == shown = {} /\ asked = {} /\ done = <<>>

Show == shown \subseteq shown' /\ UNCHANGED <<asked, done>>

Ask ==
    /\ asked \subseteq asked'
    /\ \A pair \in asked' \ asked : pair[1] \in shown
    /\ UNCHANGED <<shown, done>>

Executed(e) ==
    /\ \E pair \in asked : Id(pair[1]) = Id(e.action) /\ pair[2] = "approve"
    /\ Fits(e.action, e.before)
    /\ \A i \in DOMAIN done : Id(done[i].action) # Id(e.action)

Execute ==
    /\ Len(done') = Len(done) + 1
    /\ done' = Append(done, done'[Len(done')])
    /\ Executed(done'[Len(done')])
    /\ UNCHANGED <<shown, asked>>

Next == Show \/ Ask \/ Execute

Spec == Init /\ [][Next]_vars
=============================================================================
