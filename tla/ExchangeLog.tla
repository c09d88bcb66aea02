----------------------------- MODULE ExchangeLog -----------------------------
(***************************************************************************)
(* What the history of a conversation promises: a log of exchanges of      *)
(* which the latest are kept and all are counted; an operation that is     *)
(* repeated while its key lives is not logged again.                       *)
(***************************************************************************)
EXTENDS Naturals, Sequences

CONSTANT Capacity  \* the exchanges kept

VARIABLES
    log,    \* the exchanges kept, oldest first: [op, request]
    total,  \* how many there have been
    keys    \* operations that would be recognised as repeated

Init == log = <<>> /\ total = 0 /\ keys = {}

Latest(s) == IF Len(s) > Capacity THEN Tail(s) ELSE s

Record(exchange) ==
    /\ exchange.op \notin keys
    /\ log' = Latest(Append(log, exchange))
    /\ total' = total + 1
    /\ keys' = keys \cup {exchange.op}

Forget(op) ==
    /\ keys' = keys \ {op}
    /\ UNCHANGED <<log, total>>

\* Operations and requests are those of the step itself.
Next ==
    \/ \E op \in keys : Forget(op)
    \/ Len(log') > 0 /\ Record(log'[Len(log')])

Spec == Init /\ [][Next]_<<log, total, keys>>
=============================================================================
