------------------------- MODULE ConversationHistory -------------------------
(***************************************************************************)
(* RedisConversationRepository, for one conversation: append_exchange by   *)
(* concurrent requests, one Redis round trip per step, and get_history.    *)
(* WATCH, EXEC and its failure are those of TaskTxn.  Left out: texts,     *)
(* responses, and the scope every key and record carries.                  *)
(***************************************************************************)
EXTENDS Integers, Sequences, FiniteSets

CONSTANTS
    Client,       \* concurrent requests
    Operation,    \* operation ids: chat:<request id>, confirm:<action>:<answer>
    None,         \* no record, no append in progress
    MaxMessages,  \* max_messages
    Attempts      \* transaction_retries

ASSUME HistoryAssumption ==
    /\ MaxMessages \in Nat /\ MaxMessages >= 2 /\ MaxMessages % 2 = 0
    /\ Attempts \in Nat \ {0}
    /\ None \notin [count : Nat, title : Operation]

VARIABLES
    messages,  \* the list: [op, request, role]
    record,    \* the metadata: [count, title], or None
    keys,      \* the operation keys that have not expired
    writer,    \* writer[c]: the append of c, [op, request, at, attempt, dirty, copy]
    reader     \* a get_history: [step, record, messages]

historyVars == <<messages, record, keys, writer, reader>>

HistoryInit ==
    /\ messages = <<>> /\ record = None /\ keys = {}
    /\ writer = [c \in Client |-> None]
    /\ reader = [step |-> 1, record |-> None, messages |-> <<>>]

-----------------------------------------------------------------------------
(* append_exchange.                                                        *)

BeginAppend(c, op, request) ==
    /\ writer' = [writer EXCEPT ![c] =
                    [op |-> op, request |-> request, at |-> "watch", attempt |-> 1,
                     dirty |-> FALSE, copy |-> None]]
    /\ UNCHANGED <<messages, record, keys, reader>>

Appending(c, at) == writer[c] # None /\ writer[c].at = at

EndAppend(c) == writer' = [writer EXCEPT ![c] = None]

\* WATCH of the operation key and of the metadata.
WatchExchange(c) ==
    /\ Appending(c, "watch")
    /\ writer' = [writer EXCEPT ![c].at = "exists", ![c].dirty = FALSE]
    /\ UNCHANGED <<messages, record, keys, reader>>

\* EXISTS: a repeated operation is not recorded again.
CheckOperation(c) ==
    /\ Appending(c, "exists")
    /\ \/ writer[c].op \in keys /\ EndAppend(c)
       \/ /\ writer[c].op \notin keys
          /\ writer' = [writer EXCEPT ![c].at = "get"]
    /\ UNCHANGED <<messages, record, keys, reader>>

ReadRecord(c) ==
    /\ Appending(c, "get")
    /\ writer' = [writer EXCEPT ![c].at = "exec", ![c].copy = record]
    /\ UNCHANGED <<messages, record, keys, reader>>

\* The metadata with one more exchange; the first one gives the title.
Counted(copy, op) ==
    IF copy = None THEN [count |-> 2, title |-> op] ELSE [copy EXCEPT !.count = @ + 2]

\* Mutant: LTRIM keeps one message too many.
TrimmedLate(s) ==
    SubSeq(s, IF Len(s) > MaxMessages + 1 THEN Len(s) - MaxMessages ELSE 1, Len(s))

\* LTRIM.
Trimmed(s) == SubSeq(s, IF Len(s) > MaxMessages THEN Len(s) - MaxMessages + 1 ELSE 1, Len(s))

Exchange(op, request) ==
    <<[op |-> op, request |-> request, role |-> "user"],
      [op |-> op, request |-> request, role |-> "assistant"]>>

\* Mutant: the operation key is watched, the metadata is not.
DirtiedByOperation(c) ==
    [d \in Client |->
       IF d = c THEN None
       ELSE IF writer[d] # None /\ writer[d].at # "watch" /\ writer[d].op = writer[c].op
       THEN [writer[d] EXCEPT !.dirty = TRUE] ELSE writer[d]]

\* The metadata is written: everybody who watches it has lost.
DirtiedBy(c) ==
    [d \in Client |->
       IF d = c THEN None
       ELSE IF writer[d] # None /\ writer[d].at # "watch"
       THEN [writer[d] EXCEPT !.dirty = TRUE] ELSE writer[d]]

\* RPUSH, LTRIM, SET, ZADD of the user's conversations, SET EX, in one EXEC.
ExecExchange(c) ==
    LET w == writer[c] IN
    /\ Appending(c, "exec") /\ ~w.dirty
    /\ messages' = Trimmed(messages \o Exchange(w.op, w.request))
    /\ record' = Counted(w.copy, w.op)
    /\ keys' = keys \cup {w.op}
    /\ writer' = DirtiedBy(c)
    /\ UNCHANGED reader

\* WatchError: the next attempt, or ConversationRepositoryConcurrencyError.
ExecExchangeFails(c) ==
    /\ Appending(c, "exec") /\ writer[c].dirty
    /\ IF writer[c].attempt < Attempts
       THEN writer' = [writer EXCEPT ![c].at = "watch", ![c].attempt = @ + 1]
       ELSE EndAppend(c)
    /\ UNCHANGED <<messages, record, keys, reader>>

\* A Redis error at any round trip; _record_exchange logs it.
AppendFails(c) ==
    /\ writer[c] # None
    /\ EndAppend(c)
    /\ UNCHANGED <<messages, record, keys, reader>>

AppendExchange(c) ==
    \/ WatchExchange(c) \/ CheckOperation(c) \/ ReadRecord(c)
    \/ ExecExchange(c)  \/ ExecExchangeFails(c)

\* An operation key expires, which its watchers notice.
ExpireOperation(op) ==
    /\ op \in keys
    /\ keys' = keys \ {op}
    /\ writer' = [d \in Client |->
                    IF writer[d] # None /\ writer[d].at # "watch" /\ writer[d].op = op
                    THEN [writer[d] EXCEPT !.dirty = TRUE] ELSE writer[d]]
    /\ UNCHANGED <<messages, record, reader>>

-----------------------------------------------------------------------------
(* get_history: GET and LRANGE in a pipeline that is no transaction.       *)

\* Mutant: the list is read before the metadata.
ReadOrderReversed == <<"messages", "record">>

ReadOrder == <<"record", "messages">>

\* A reading at any moment; it changes nothing, so one is enough.
GetHistory ==
    /\ reader.step < 3
    /\ reader' = IF ReadOrder[reader.step] = "record"
                 THEN [reader EXCEPT !.step = @ + 1, !.record = record]
                 ELSE [reader EXCEPT !.step = @ + 1, !.messages = messages]
    /\ UNCHANGED <<messages, record, keys, writer>>

-----------------------------------------------------------------------------
(* Properties.                                                             *)

Whole(s) ==
    \A i \in DOMAIN s : i % 2 = 1 =>
        i < Len(s) /\ <<s[i], s[i + 1]>> = Exchange(s[i].op, s[i].request)

\* However requests overlap and whatever fails, the list consists of whole
\* exchanges: a question and the answer of the same request, next to each other.
ExchangesWhole == Whole(messages)

\* The exchanges in the list.
Exchanges ==
    [i \in 1..Len(messages) \div 2 |->
        [op |-> messages[2 * i].op, request |-> messages[2 * i].request]]

Promised == INSTANCE ExchangeLog WITH
    Capacity <- MaxMessages \div 2,
    log <- Exchanges,
    total <- IF record = None THEN 0 ELSE record.count \div 2

\* append_exchange logs an exchange at most once while its key lives, counts
\* every one and keeps the latest: the loop of WATCH, reads and EXEC is as good
\* as one step of ExchangeLog.
ImplementsLog == Promised!Spec

\* What get_history returns lacks nothing its metadata counts, but what the
\* limit has removed; it is made of whole exchanges.
HistoryWhole ==
    reader.step = 3 =>
        /\ Whole(reader.messages)
        /\ reader.record # None =>
             Len(reader.messages) >= IF reader.record.count < MaxMessages
                                     THEN reader.record.count ELSE MaxMessages
=============================================================================
