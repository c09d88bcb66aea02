----------------------- MODULE ConversationHistoryProofs -----------------------
(***************************************************************************)
(* TLAPS proofs about ConversationHistory, for any set of concurrent       *)
(* requests, any limit of the list and any number of attempts.  The module *)
(* has no specification of its own: what is proved here is that every step *)
(* of the history preserves HistoryInv and is a step of ExchangeLog, which *)
(* AgentRecordsProofs turns into theorems about its specification.         *)
(***************************************************************************)
EXTENDS ConversationHistory, SequenceTheorems, TLAPS

\* A message of the list, of a request in Req.
Message(Req) == [op : Operation, request : Req, role : {"user", "assistant"}]

Metadata == [count : Nat, title : Operation] \cup {None}

AppendRecord(Req) ==
    [op : Operation, request : Req, at : {"watch", "exists", "get", "exec"},
     attempt : 1..Attempts, dirty : BOOLEAN, copy : Metadata]

\* The list consists of whole exchanges, and its length is what the metadata
\* counts, up to the limit.
ListInv(Req) ==
    /\ messages \in Seq(Message(Req))
    /\ Len(messages) % 2 = 0
    /\ Whole(messages)
    /\ record \in Metadata
    /\ keys \subseteq Operation
    /\ record = None => Len(messages) = 0
    /\ record # None =>
         /\ record.count % 2 = 0 /\ record.count > 0
         /\ Len(messages) = IF record.count < MaxMessages THEN record.count ELSE MaxMessages

\* What an append knows that no commit has invalidated: its operation is not
\* recorded, and its copy of the metadata is current.
WriterInv(Req) ==
    /\ writer \in [Client -> AppendRecord(Req) \cup {None}]
    /\ \A c \in Client : writer[c] # None /\ ~writer[c].dirty =>
         /\ writer[c].at \in {"get", "exec"} => writer[c].op \notin keys
         /\ writer[c].at = "exec" => writer[c].copy = record

\* What a reading has seen stays true of the list it is about to read, or true
\* of the one it has read.
ReaderInv ==
    /\ reader.step \in 1..3
    /\ reader = [step |-> reader.step, record |-> reader.record, messages |-> reader.messages]
    /\ reader.record \in Metadata
    /\ reader.step = 2 /\ reader.record # None =>
         record # None /\ reader.record.count <= record.count
    /\ HistoryWhole

HistoryInv(Req) == ListInv(Req) /\ WriterInv(Req) /\ ReaderInv

\* A step of the history: an append begins, goes on or is dropped, the history
\* is read, an operation key expires.
DropAppend(c) == EndAppend(c) /\ UNCHANGED <<messages, record, keys, reader>>

HistoryStep(Req) ==
    \/ \E c \in Client, op \in Operation, request \in Req : BeginAppend(c, op, request)
    \/ \E c \in Client : AppendExchange(c) \/ DropAppend(c)
    \/ GetHistory
    \/ \E op \in Operation : ExpireOperation(op)

-----------------------------------------------------------------------------
(* Facts about lists of exchanges.                                         *)

\* The two messages of an exchange.
LEMMA ExchangeType ==
    ASSUME NEW Req, NEW op \in Operation, NEW request \in Req
    PROVE  /\ Exchange(op, request) \in Seq(Message(Req))
           /\ Len(Exchange(op, request)) = 2
           /\ Exchange(op, request)[1] = [op |-> op, request |-> request, role |-> "user"]
           /\ Exchange(op, request)[2] = [op |-> op, request |-> request, role |-> "assistant"]
BY DEF Exchange, Message

\* RPUSH of an exchange: what the longer list consists of.
LEMMA Pushed ==
    ASSUME NEW Req, NEW s \in Seq(Message(Req)), NEW op \in Operation, NEW request \in Req
    PROVE  LET p == s \o Exchange(op, request) IN
           /\ p \in Seq(Message(Req))
           /\ Len(p) = Len(s) + 2
           /\ \A i \in 1..Len(s) : p[i] = s[i]
           /\ p[Len(s) + 1] = [op |-> op, request |-> request, role |-> "user"]
           /\ p[Len(s) + 2] = [op |-> op, request |-> request, role |-> "assistant"]
<1> DEFINE x == Exchange(op, request)
           p == s \o x
<1>1. /\ x \in Seq(Message(Req)) /\ Len(x) = 2
      /\ x[1] = [op |-> op, request |-> request, role |-> "user"]
      /\ x[2] = [op |-> op, request |-> request, role |-> "assistant"]
  BY ExchangeType
<1>2. Len(s) \in Nat
  BY LenProperties
<1> HIDE DEF x
<1>3. /\ p \in Seq(Message(Req)) /\ Len(p) = Len(s) + 2
      /\ \A i \in 1..Len(s) + 2 : p[i] = IF i <= Len(s) THEN s[i] ELSE x[i - Len(s)]
  <2>1. /\ p \in Seq(Message(Req)) /\ Len(p) = Len(s) + Len(x)
        /\ \A i \in 1..Len(s) + Len(x) : p[i] = IF i <= Len(s) THEN s[i] ELSE x[i - Len(s)]
    BY <1>1, ConcatProperties, Zenon
  <2> QED
    BY <1>1, <2>1, Zenon
<1>4. \A i \in 1..Len(s) : p[i] = s[i]
  BY <1>2, <1>3
<1>5. p[Len(s) + 1] = x[1] /\ p[Len(s) + 2] = x[2]
  BY <1>2, <1>3
<1> QED
  BY <1>1, <1>3, <1>4, <1>5 DEF x

\* RPUSH and LTRIM: with room for it the exchange is added, without room the
\* oldest exchange makes place for it.
LEMMA TrimmedPush ==
    ASSUME NEW Req, NEW s \in Seq(Message(Req)), Len(s) % 2 = 0, Len(s) <= MaxMessages,
           NEW op \in Operation, NEW request \in Req
    PROVE  LET t == Trimmed(s \o Exchange(op, request))
               shift == IF Len(s) = MaxMessages THEN 2 ELSE 0
           IN
           /\ t \in Seq(Message(Req))
           /\ Len(t) = Len(s) + 2 - shift
           /\ \A i \in 1..Len(s) - shift : t[i] = s[i + shift]
           /\ t[Len(t) - 1] = [op |-> op, request |-> request, role |-> "user"]
           /\ t[Len(t)] = [op |-> op, request |-> request, role |-> "assistant"]
<1> DEFINE p == s \o Exchange(op, request)
           shift == IF Len(s) = MaxMessages THEN 2 ELSE 0
           t == SubSeq(p, shift + 1, Len(p))
<1>1. /\ p \in Seq(Message(Req)) /\ Len(p) = Len(s) + 2
      /\ \A i \in 1..Len(s) : p[i] = s[i]
      /\ p[Len(s) + 1] = [op |-> op, request |-> request, role |-> "user"]
      /\ p[Len(s) + 2] = [op |-> op, request |-> request, role |-> "assistant"]
  BY Pushed
<1>2. Len(s) \in Nat /\ shift \in {0, 2} /\ shift <= Len(s)
  BY LenProperties, HistoryAssumption
<1> HIDE DEF p
<1>3. Trimmed(p) = t
  <2>1. (IF Len(p) > MaxMessages THEN Len(p) - MaxMessages + 1 ELSE 1) = shift + 1
    BY <1>1, <1>2, HistoryAssumption
  <2> QED
    BY <2>1, Zenon DEF Trimmed
<1>4. \A i \in (shift + 1)..Len(p) : p[i] \in Message(Req)
  BY <1>1, <1>2, ElementOfSeq
<1>5. /\ t \in Seq(Message(Req))
      /\ Len(t) = Len(s) + 2 - shift
      /\ \A i \in 1..Len(s) + 2 - shift : t[i] = p[i + shift]
  <2> HIDE DEF shift
  <2>1. shift + 1 \in Int /\ Len(p) \in Int /\ Len(p) - (shift + 1) + 1 = Len(s) + 2 - shift
    BY <1>1, <1>2
  <2>2. /\ t \in Seq(Message(Req))
        /\ Len(t) = IF shift + 1 <= Len(p) THEN Len(p) - (shift + 1) + 1 ELSE 0
        /\ \A i \in 1..Len(p) - (shift + 1) + 1 : t[i] = p[shift + 1 + i - 1]
    BY ONLY <1>4, <2>1, SubSeqProperties
  <2>3. shift + 1 <= Len(p)
    BY <1>1, <1>2
  <2>4. \A i \in 1..Len(s) + 2 - shift : shift + 1 + i - 1 = i + shift
    BY <1>2
  <2> QED
    BY <2>1, <2>2, <2>3, <2>4
<1> HIDE DEF t, shift
<1>6. \A i \in 1..Len(s) - shift : t[i] = s[i + shift]
  BY <1>1, <1>2, <1>5
<1>7. /\ t[Len(t) - 1] = [op |-> op, request |-> request, role |-> "user"]
      /\ t[Len(t)] = [op |-> op, request |-> request, role |-> "assistant"]
  <2>1. /\ Len(t) - 1 \in 1..Len(s) + 2 - shift /\ Len(t) - 1 + shift = Len(s) + 1
        /\ Len(t) \in 1..Len(s) + 2 - shift /\ Len(t) + shift = Len(s) + 2
    BY <1>2, <1>5
  <2>2. t[Len(t) - 1] = p[Len(s) + 1] /\ t[Len(t)] = p[Len(s) + 2]
    BY ONLY <1>5, <2>1, Zenon
  <2> QED
    BY <1>1, <2>2, Zenon
<1> QED
  BY <1>3, <1>5, <1>6, <1>7 DEF p, shift

\* The messages of the trimmed list are old ones, or those of the exchange.
LEMMA TrimmedMessages ==
    ASSUME NEW Req, NEW s \in Seq(Message(Req)), Len(s) % 2 = 0, Len(s) <= MaxMessages,
           NEW op \in Operation, NEW request \in Req
    PROVE  LET t == Trimmed(s \o Exchange(op, request)) IN
           \A i \in DOMAIN t : t[i].request = request \/ \E j \in DOMAIN s : t[i] = s[j]
<1> DEFINE t == Trimmed(s \o Exchange(op, request))
           shift == IF Len(s) = MaxMessages THEN 2 ELSE 0
<1>1. /\ t \in Seq(Message(Req))
      /\ Len(t) = Len(s) + 2 - shift
      /\ \A i \in 1..Len(s) - shift : t[i] = s[i + shift]
      /\ t[Len(t) - 1] = [op |-> op, request |-> request, role |-> "user"]
      /\ t[Len(t)] = [op |-> op, request |-> request, role |-> "assistant"]
  BY TrimmedPush
<1>2. Len(s) \in Nat /\ shift \in {0, 2} /\ shift <= Len(s) /\ DOMAIN s = 1..Len(s)
  BY LenProperties, HistoryAssumption
<1> HIDE DEF t, shift
<1>3. DOMAIN t = 1..Len(t)
  BY <1>1, LenProperties
<1>4. ASSUME NEW i \in DOMAIN t
      PROVE  t[i].request = request \/ \E j \in DOMAIN s : t[i] = s[j]
  <2>1. i \in Int /\ (i \in 1..Len(s) - shift \/ i = Len(t) - 1 \/ i = Len(t))
    <3>1. Len(t) = Len(s) + 2 - shift
      BY <1>1
    <3> QED
      BY ONLY <1>2, <1>3, <1>4, <3>1
  <2>2. CASE i \in 1..Len(s) - shift
    <3>1. i + shift \in DOMAIN s
      BY ONLY <1>2, <2>1, <2>2
    <3>2. t[i] = s[i + shift]
      BY <1>1, <2>2
    <3> QED
      BY <3>1, <3>2
  <2>3. CASE i = Len(t) - 1 \/ i = Len(t)
    BY <1>1, <2>3
  <2> QED
    BY <2>1, <2>2, <2>3
<1> QED
  BY <1>4 DEF t

\* Whole lists stay whole when a whole exchange is pushed and the list trimmed.
LEMMA WholePush ==
    ASSUME NEW Req, NEW s \in Seq(Message(Req)), Len(s) % 2 = 0, Len(s) <= MaxMessages,
           Whole(s), NEW op \in Operation, NEW request \in Req
    PROVE  Whole(Trimmed(s \o Exchange(op, request)))
<1> DEFINE t == Trimmed(s \o Exchange(op, request))
           shift == IF Len(s) = MaxMessages THEN 2 ELSE 0
<1>1. /\ t \in Seq(Message(Req))
      /\ Len(t) = Len(s) + 2 - shift
      /\ \A i \in 1..Len(s) - shift : t[i] = s[i + shift]
      /\ t[Len(t) - 1] = [op |-> op, request |-> request, role |-> "user"]
      /\ t[Len(t)] = [op |-> op, request |-> request, role |-> "assistant"]
  BY TrimmedPush
<1>2. Len(s) \in Nat /\ shift \in {0, 2} /\ shift <= Len(s) /\ DOMAIN s = 1..Len(s)
  BY LenProperties, HistoryAssumption
<1> HIDE DEF t, shift
<1>3. DOMAIN t = 1..Len(t)
  BY <1>1, LenProperties
<1>4. Len(t) = Len(s) + 2 - shift
  BY <1>1
<1> SUFFICES ASSUME NEW i \in 1..Len(t), i % 2 = 1
             PROVE  i < Len(t) /\ <<t[i], t[i + 1]>> = Exchange(t[i].op, t[i].request)
  BY <1>3 DEF Whole, t
<1>5. CASE i <= Len(s) - shift
  <2>1. i + shift \in DOMAIN s /\ (i + shift) % 2 = 1 /\ i \in 1..Len(s) - shift
    BY ONLY <1>2, <1>4, <1>5, i \in 1..Len(t), i % 2 = 1
  <2>2. /\ i + shift < Len(s)
        /\ <<s[i + shift], s[i + shift + 1]>>
             = Exchange(s[i + shift].op, s[i + shift].request)
    BY <2>1 DEF Whole
  <2>3. i + 1 \in 1..Len(s) - shift /\ i + 1 + shift = i + shift + 1
    BY <1>2, <2>1, <2>2
  <2>4. t[i] = s[i + shift] /\ t[i + 1] = s[i + shift + 1]
    BY <1>1, <2>1, <2>3
  <2>5. i < Len(t)
    BY ONLY <1>2, <1>4, <2>1
  <2> QED
    BY ONLY <2>2, <2>4, <2>5
<1>6. CASE i > Len(s) - shift
  <2>1. i = Len(t) - 1 /\ i + 1 = Len(t)
    BY ONLY <1>2, <1>4, <1>6, Len(s) % 2 = 0, i \in 1..Len(t), i % 2 = 1
  <2>2. /\ t[i] = [op |-> op, request |-> request, role |-> "user"]
        /\ t[i + 1] = [op |-> op, request |-> request, role |-> "assistant"]
    BY <1>1, <2>1
  <2>3. <<t[i], t[i + 1]>> = Exchange(t[i].op, t[i].request)
    BY <2>2 DEF Exchange
  <2> QED
    BY <1>2, <1>4, <2>1, <2>3
<1> QED
  BY <1>2, <1>4, <1>5, <1>6

-----------------------------------------------------------------------------
(* Every step preserves HistoryInv.                                        *)

LEMMA HistoryInitially ==
    ASSUME NEW Req, HistoryInit
    PROVE  HistoryInv(Req)
<1> USE DEF HistoryInit
<1>1. ListInv(Req)
  BY EmptySeq DEF ListInv, Whole, Metadata
<1>2. WriterInv(Req)
  BY DEF WriterInv
<1>3. ReaderInv
  BY DEF ReaderInv, Metadata, HistoryWhole
<1> QED
  BY <1>1, <1>2, <1>3 DEF HistoryInv

\* A step that touches only the appends.
LEMMA AppendsOnly ==
    ASSUME NEW Req, HistoryInv(Req), UNCHANGED <<messages, record, keys, reader>>,
           WriterInv(Req)'
    PROVE  HistoryInv(Req)'
<1>1. ListInv(Req)'
  BY DEF HistoryInv, ListInv, Whole
<1>2. ReaderInv'
  BY DEF HistoryInv, ReaderInv, HistoryWhole, Whole
<1> QED
  BY <1>1, <1>2 DEF HistoryInv

LEMMA BeginAppendInv ==
    ASSUME NEW Req, HistoryInv(Req), NEW c \in Client, NEW op \in Operation,
           NEW request \in Req, BeginAppend(c, op, request)
    PROVE  HistoryInv(Req)'
<1>1. WriterInv(Req)'
  BY HistoryAssumption DEF HistoryInv, WriterInv, BeginAppend, AppendRecord, Metadata
<1> QED
  BY <1>1, AppendsOnly DEF BeginAppend

LEMMA DropAppendInv ==
    ASSUME NEW Req, HistoryInv(Req), NEW c \in Client, DropAppend(c)
    PROVE  HistoryInv(Req)'
<1>1. WriterInv(Req)'
  BY DEF HistoryInv, WriterInv, DropAppend, EndAppend
<1> QED
  BY <1>1, AppendsOnly DEF DropAppend

LEMMA WatchExchangeInv ==
    ASSUME NEW Req, HistoryInv(Req), NEW c \in Client, WatchExchange(c)
    PROVE  HistoryInv(Req)'
<1>1. WriterInv(Req)'
  BY DEF HistoryInv, WriterInv, WatchExchange, Appending, AppendRecord
<1> QED
  BY <1>1, AppendsOnly DEF WatchExchange

LEMMA CheckOperationInv ==
    ASSUME NEW Req, HistoryInv(Req), NEW c \in Client, CheckOperation(c)
    PROVE  HistoryInv(Req)'
<1>1. WriterInv(Req)'
  <2>1. CASE EndAppend(c)
    BY <2>1 DEF HistoryInv, WriterInv, CheckOperation, EndAppend
  <2>2. CASE writer[c].op \notin keys /\ writer' = [writer EXCEPT ![c].at = "get"]
    BY <2>2 DEF HistoryInv, WriterInv, CheckOperation, Appending, AppendRecord
  <2> QED
    BY <2>1, <2>2 DEF CheckOperation
<1> QED
  BY <1>1, AppendsOnly DEF CheckOperation

LEMMA ReadRecordInv ==
    ASSUME NEW Req, HistoryInv(Req), NEW c \in Client, ReadRecord(c)
    PROVE  HistoryInv(Req)'
<1>1. WriterInv(Req)'
  BY DEF HistoryInv, ListInv, WriterInv, ReadRecord, Appending, AppendRecord
<1> QED
  BY <1>1, AppendsOnly DEF ReadRecord

LEMMA ExecExchangeFailsInv ==
    ASSUME NEW Req, HistoryInv(Req), NEW c \in Client, ExecExchangeFails(c)
    PROVE  HistoryInv(Req)'
<1>1. WriterInv(Req)'
  <2>1. CASE /\ writer[c].attempt < Attempts
             /\ writer' = [writer EXCEPT ![c].at = "watch", ![c].attempt = @ + 1]
    BY <2>1, HistoryAssumption
    DEF HistoryInv, WriterInv, ExecExchangeFails, Appending, AppendRecord
  <2>2. CASE EndAppend(c)
    BY <2>2 DEF HistoryInv, WriterInv, ExecExchangeFails, EndAppend
  <2> QED
    BY <2>1, <2>2 DEF ExecExchangeFails
<1> QED
  BY <1>1, AppendsOnly DEF ExecExchangeFails

\* A key that expires: its watchers are dirty, and nobody else knew of it.
LEMMA ExpireOperationInv ==
    ASSUME NEW Req, HistoryInv(Req), NEW op \in Operation, ExpireOperation(op)
    PROVE  HistoryInv(Req)'
<1>1. ListInv(Req)'
  BY DEF HistoryInv, ListInv, ExpireOperation, Whole
<1>2. WriterInv(Req)'
  BY DEF HistoryInv, WriterInv, ExpireOperation, AppendRecord
<1>3. ReaderInv'
  BY DEF HistoryInv, ReaderInv, ExpireOperation, HistoryWhole, Whole
<1> QED
  BY <1>1, <1>2, <1>3 DEF HistoryInv

\* get_history: between its two reads the count can only grow, and the list
\* with it up to the limit.
LEMMA GetHistoryInv ==
    ASSUME NEW Req, HistoryInv(Req), GetHistory
    PROVE  HistoryInv(Req)'
<1>1. ListInv(Req)'
  BY DEF HistoryInv, ListInv, GetHistory, Whole
<1>2. WriterInv(Req)'
  BY DEF HistoryInv, WriterInv, GetHistory
<1>3. ReaderInv'
  <2>1. CASE reader.step = 1
    <3>1. reader' = [reader EXCEPT !.step = 2, !.record = record]
      BY <2>1 DEF GetHistory, ReadOrder
    <3>2. /\ reader' = [step |-> 2, record |-> record, messages |-> reader.messages]
          /\ record' = record
      BY <3>1 DEF HistoryInv, ReaderInv, GetHistory
    <3> QED
      BY <3>2 DEF HistoryInv, ListInv, ReaderInv, Metadata, HistoryWhole
  <2>2. CASE reader.step = 2
    <3>1. reader' = [reader EXCEPT !.step = 3, !.messages = messages]
      BY <2>2 DEF GetHistory, ReadOrder
    <3>2. /\ reader' = [step |-> 3, record |-> reader.record, messages |-> messages]
          /\ record' = record
      BY <3>1 DEF HistoryInv, ReaderInv, GetHistory
    <3>3. Whole(reader'.messages)
      BY <3>2 DEF HistoryInv, ListInv
    <3>4. reader.record # None =>
            Len(messages) >= IF reader.record.count < MaxMessages
                             THEN reader.record.count ELSE MaxMessages
      BY <2>2, HistoryAssumption DEF HistoryInv, ListInv, ReaderInv, Metadata
    <3>5. HistoryWhole'
      BY <3>2, <3>3, <3>4 DEF HistoryWhole, Whole
    <3> QED
      BY <3>2, <3>5 DEF HistoryInv, ReaderInv
  <2> QED
    BY <2>1, <2>2 DEF HistoryInv, ReaderInv, GetHistory
<1> QED
  BY <1>1, <1>2, <1>3 DEF HistoryInv

\* What the commit of a client knows: nothing its append has read has changed.
LEMMA ExecKnows ==
    ASSUME NEW Req, HistoryInv(Req), NEW c \in Client, ExecExchange(c)
    PROVE  /\ writer[c].op \in Operation /\ writer[c].request \in Req
           /\ writer[c].op \notin keys
           /\ Len(messages) % 2 = 0 /\ Len(messages) <= MaxMessages /\ Len(messages) \in Nat
           /\ messages' = Trimmed(messages \o Exchange(writer[c].op, writer[c].request))
           /\ record' = Counted(record, writer[c].op)
           /\ keys' = keys \cup {writer[c].op}
<1>1. writer[c] \in AppendRecord(Req) /\ writer[c].at = "exec" /\ ~writer[c].dirty
  BY DEF HistoryInv, WriterInv, ExecExchange, Appending
<1>2. writer[c].op \notin keys /\ writer[c].copy = record
  BY <1>1 DEF HistoryInv, WriterInv, ExecExchange, Appending
<1>3. Len(messages) % 2 = 0 /\ Len(messages) <= MaxMessages /\ Len(messages) \in Nat
  BY HistoryAssumption, LenProperties DEF HistoryInv, ListInv, Metadata
<1> QED
  BY <1>1, <1>2, <1>3 DEF ExecExchange, AppendRecord

\* The metadata after one more exchange.
LEMMA CountedOnce ==
    ASSUME NEW copy \in Metadata, NEW op \in Operation
    PROVE  /\ Counted(copy, op) \in Metadata
           /\ Counted(copy, op) # None
           /\ Counted(copy, op).count = IF copy = None THEN 2 ELSE copy.count + 2
BY HistoryAssumption DEF Metadata, Counted

LEMMA ExecExchangeInv ==
    ASSUME NEW Req, HistoryInv(Req), NEW c \in Client, ExecExchange(c)
    PROVE  HistoryInv(Req)'
<1> DEFINE op == writer[c].op
           request == writer[c].request
           shift == IF Len(messages) = MaxMessages THEN 2 ELSE 0
<1>1. /\ op \in Operation /\ request \in Req
      /\ Len(messages) % 2 = 0 /\ Len(messages) <= MaxMessages /\ Len(messages) \in Nat
      /\ messages' = Trimmed(messages \o Exchange(op, request))
      /\ record' = Counted(record, op)
      /\ keys' = keys \cup {op}
      /\ messages \in Seq(Message(Req)) /\ Whole(messages)
      /\ record \in Metadata
  BY ExecKnows DEF HistoryInv, ListInv
<1> HIDE DEF op, request
<1>2. /\ messages' \in Seq(Message(Req))
      /\ Len(messages') = Len(messages) + 2 - shift
      /\ Whole(messages')
  BY <1>1, TrimmedPush, WholePush
<1>3. /\ record' \in Metadata /\ record' # None
      /\ record'.count = IF record = None THEN 2 ELSE record.count + 2
  BY <1>1, CountedOnce
<1>4. ListInv(Req)'
  <2>1. record # None => record.count \in Nat
    BY <1>1 DEF Metadata
  <2>2. record'.count % 2 = 0 /\ record'.count > 0
    BY <1>3, <2>1 DEF HistoryInv, ListInv
  <2>3. Len(messages') % 2 = 0
    BY <1>1, <1>2
  <2>4. Len(messages') = IF record'.count < MaxMessages THEN record'.count ELSE MaxMessages
    BY <1>1, <1>2, <1>3, <2>1, HistoryAssumption DEF HistoryInv, ListInv
  <2>5. keys' \subseteq Operation
    BY <1>1 DEF HistoryInv, ListInv
  <2> QED
    BY <1>2, <1>3, <2>2, <2>3, <2>4, <2>5 DEF ListInv, Whole
<1>5. WriterInv(Req)'
  BY DEF HistoryInv, WriterInv, ExecExchange, DirtiedBy, AppendRecord
<1>6. ReaderInv'
  <2>1. reader' = reader
    BY DEF ExecExchange
  <2>2. reader.step = 2 /\ reader.record # None => reader.record.count <= record'.count
    BY <1>1, <1>3 DEF HistoryInv, ReaderInv, Metadata
  <2> QED
    BY <1>3, <2>1, <2>2 DEF HistoryInv, ReaderInv, HistoryWhole, Whole
<1> QED
  BY <1>4, <1>5, <1>6 DEF HistoryInv

LEMMA HistoryStepInv ==
    ASSUME NEW Req, HistoryInv(Req), [HistoryStep(Req)]_historyVars
    PROVE  HistoryInv(Req)'
<1>1. CASE UNCHANGED historyVars
  <2>1. WriterInv(Req)'
    BY <1>1 DEF HistoryInv, WriterInv, historyVars
  <2> QED
    BY <1>1, <2>1, AppendsOnly DEF historyVars
<1>2. ASSUME NEW c \in Client, NEW op \in Operation, NEW request \in Req,
             BeginAppend(c, op, request)
      PROVE  HistoryInv(Req)'
  BY <1>2, BeginAppendInv
<1>3. ASSUME NEW c \in Client, AppendExchange(c)
      PROVE  HistoryInv(Req)'
  BY <1>3, WatchExchangeInv, CheckOperationInv, ReadRecordInv, ExecExchangeInv,
     ExecExchangeFailsInv DEF AppendExchange
<1>4. ASSUME NEW c \in Client, DropAppend(c)
      PROVE  HistoryInv(Req)'
  BY <1>4, DropAppendInv
<1>5. ASSUME NEW op \in Operation, ExpireOperation(op)
      PROVE  HistoryInv(Req)'
  BY <1>5, ExpireOperationInv
<1>6. CASE GetHistory
  BY <1>6, GetHistoryInv
<1> QED
  BY <1>1, <1>2, <1>3, <1>4, <1>5, <1>6 DEF HistoryStep

-----------------------------------------------------------------------------
(* The history implements ExchangeLog.                                     *)

LEMMA LogInitially ==
    ASSUME HistoryInit
    PROVE  Promised!Init
BY DEF HistoryInit, Promised!Init, Exchanges

\* A commit logs one exchange; without room for it the oldest one is dropped.
LEMMA ExecLogs ==
    ASSUME NEW Req, HistoryInv(Req), NEW c \in Client, ExecExchange(c)
    PROVE  LET e == [op |-> writer[c].op, request |-> writer[c].request] IN
           /\ Exchanges' = Promised!Latest(Append(Exchanges, e))
           /\ Len(Exchanges') > 0 /\ Exchanges'[Len(Exchanges')] = e
<1> DEFINE op == writer[c].op
           request == writer[c].request
           e == [op |-> op, request |-> request]
           m == Len(messages) \div 2
           h == MaxMessages \div 2
           drop == IF Len(messages) = MaxMessages THEN 1 ELSE 0
           shift == IF Len(messages) = MaxMessages THEN 2 ELSE 0
           t == messages'
           E == [op : Operation, request : Req]
           longer == Append(Exchanges, e)
           goal == [i \in 1..m + 1 - drop |-> [op |-> t[2 * i].op, request |-> t[2 * i].request]]
<1>1. /\ op \in Operation /\ request \in Req
      /\ Len(messages) % 2 = 0 /\ Len(messages) <= MaxMessages /\ Len(messages) \in Nat
      /\ t = Trimmed(messages \o Exchange(op, request))
      /\ messages \in Seq(Message(Req))
  BY ExecKnows DEF HistoryInv, ListInv
<1> HIDE DEF op, request, t
<1>2. /\ Len(t) = Len(messages) + 2 - shift
      /\ \A i \in 1..Len(messages) - shift : t[i] = messages[i + shift]
      /\ t[Len(t)] = [op |-> op, request |-> request, role |-> "assistant"]
  <2> HIDE DEF e, m, h, drop, E, longer, goal
  <2>1. LET u == Trimmed(messages \o Exchange(op, request))
            k == IF Len(messages) = MaxMessages THEN 2 ELSE 0
        IN /\ u \in Seq(Message(Req))
           /\ Len(u) = Len(messages) + 2 - k
           /\ \A i \in 1..Len(messages) - k : u[i] = messages[i + k]
           /\ u[Len(u) - 1] = [op |-> op, request |-> request, role |-> "user"]
           /\ u[Len(u)] = [op |-> op, request |-> request, role |-> "assistant"]
    BY ONLY <1>1, TrimmedPush, Zenon
  <2> QED
    BY <1>1, <2>1, Zenon
<1>3. /\ m \in Nat /\ Len(messages) = 2 * m
      /\ h \in Nat /\ h > 0 /\ MaxMessages = 2 * h
      /\ drop \in {0, 1} /\ shift = 2 * drop /\ (drop = 1 <=> m = h)
      /\ m <= h
  BY <1>1, HistoryAssumption
<1>4. Len(t) = 2 * (m + 1 - drop) /\ Len(t) \div 2 = m + 1 - drop
  <2> HIDE DEF m, h, drop, shift
  <2> QED
    BY <1>2, <1>3
<1>5. \A i \in 1..m : messages[2 * i] \in Message(Req)
  <2>1. \A i \in 1..m : 2 * i \in 1..Len(messages)
    BY <1>3
  <2> QED
    BY <1>1, <2>1, ElementOfSeq
<1> HIDE DEF h, drop, shift
<1>6. Exchanges = [i \in 1..m |-> [op |-> messages[2 * i].op, request |-> messages[2 * i].request]]
  BY DEF Exchanges
<1>7. Exchanges' = goal
  BY <1>4 DEF Exchanges, t
<1> HIDE DEF m
<1>8. Exchanges \in Seq(E) /\ Len(Exchanges) = m
  <2>1. \A i \in 1..m :
          [op |-> messages[2 * i].op, request |-> messages[2 * i].request] \in E
    BY <1>5 DEF Message
  <2>2. Exchanges \in [1..m -> E]
    BY <1>6, <2>1
  <2>3. Exchanges \in Seq(E)
    <3>1. m \in Nat
      BY <1>3
    <3> QED
      BY <2>2, <3>1, SeqDef
  <2> QED
    BY <1>3, <2>2, <2>3, LenProperties
<1>9. e \in E
  BY <1>1
<1> HIDE DEF E
<1>10. /\ longer \in Seq(E) /\ Len(longer) = m + 1 /\ longer # <<>>
       /\ \A i \in 1..m : longer[i] = Exchanges[i]
       /\ longer[m + 1] = e
  BY <1>8, <1>9, AppendProperties
<1> HIDE DEF longer
<1>11. Promised!Latest(longer) = IF drop = 1 THEN Tail(longer) ELSE longer
  BY <1>3, <1>10 DEF Promised!Latest, h
<1>12. /\ Promised!Latest(longer) \in Seq(E)
       /\ Len(Promised!Latest(longer)) = m + 1 - drop
       /\ \A i \in 1..m + 1 - drop : Promised!Latest(longer)[i] = longer[i + drop]
  <2>1. CASE drop = 0
    BY <1>3, <1>10, <1>11, <2>1
  <2>2. CASE drop = 1
    BY <1>3, <1>10, <1>11, <2>2, HeadTailProperties
  <2> QED
    BY <1>3, <2>1, <2>2
<1>13. \A i \in 1..m + 1 - drop : goal[i] = longer[i + drop]
  <2> SUFFICES ASSUME NEW i \in 1..m + 1 - drop
               PROVE  [op |-> t[2 * i].op, request |-> t[2 * i].request] = longer[i + drop]
    OBVIOUS
  <2>1. CASE i + drop = m + 1
    <3>1. 2 * i = Len(t)
      BY <1>3, <1>4, <2>1
    <3> QED
      BY <1>2, <1>10, <2>1, <3>1 DEF e
  <2>2. CASE i + drop <= m
    <3>1. /\ 2 * i \in 1..Len(messages) - shift /\ 2 * i + shift = 2 * (i + drop)
          /\ i + drop \in 1..m
      BY <1>3, <2>2
    <3>2. t[2 * i] = messages[2 * (i + drop)]
      BY <1>2, <3>1
    <3>3. longer[i + drop] = Exchanges[i + drop]
      BY <1>10, <3>1
    <3> QED
      BY <1>6, <3>1, <3>2, <3>3
  <2> QED
    BY <1>3, <2>1, <2>2
<1>14. goal \in Seq(E) /\ Len(goal) = m + 1 - drop
  <2>1. m + 1 - drop \in Nat
    BY <1>3
  <2>2. \A i \in 1..m + 1 - drop : goal[i] \in E
    BY <1>12, <1>13, ElementOfSeq
  <2>3. goal \in [1..m + 1 - drop -> E]
    BY <2>2
  <2>4. goal \in Seq(E)
    BY <2>1, <2>3, SeqDef
  <2> QED
    BY <2>1, <2>3, <2>4, LenProperties
<1>15. goal = Promised!Latest(longer)
  <2> HIDE DEF goal
  <2> QED
    BY <1>12, <1>13, <1>14, SeqEqual
<1>16. Len(Exchanges') > 0 /\ Exchanges'[Len(Exchanges')] = e
  <2> HIDE DEF goal
  <2>1. m + 1 - drop \in 1..m + 1 - drop /\ m + 1 - drop + drop = m + 1
    BY <1>3, HistoryAssumption
  <2> QED
    BY <1>7, <1>10, <1>12, <1>15, <2>1
<1> QED
  BY <1>7, <1>15, <1>16 DEF longer, e, op, request

\* Every step of the history is a step of the log, or none.
LEMMA HistoryStepLogs ==
    ASSUME NEW Req, HistoryInv(Req), [HistoryStep(Req)]_historyVars
    PROVE  [Promised!Next]_<<Exchanges, IF record = None THEN 0 ELSE record.count \div 2, keys>>
<1> DEFINE total == IF record = None THEN 0 ELSE record.count \div 2
           logVars == <<Exchanges, total, keys>>
<1>1. ASSUME UNCHANGED <<messages, record>>
      PROVE  UNCHANGED <<Exchanges, total>>
  BY <1>1 DEF Exchanges
<1>2. ASSUME UNCHANGED <<messages, record, keys>>
      PROVE  UNCHANGED logVars
  BY <1>1, <1>2
<1>3. ASSUME NEW c \in Client, ExecExchange(c)
      PROVE  Promised!Next
  <2> DEFINE e == [op |-> writer[c].op, request |-> writer[c].request]
  <2>1. /\ Exchanges' = Promised!Latest(Append(Exchanges, e))
        /\ Len(Exchanges') > 0 /\ Exchanges'[Len(Exchanges')] = e
    BY <1>3, ExecLogs
  <2>2. e.op \notin keys /\ keys' = keys \cup {e.op} /\ record' = Counted(record, e.op)
    BY <1>3, ExecKnows
  <2>3. total' = total + 1
    <3>1. record \in Metadata /\ writer[c].op \in Operation
      BY <1>3, ExecKnows DEF HistoryInv, ListInv
    <3>2. record' # None /\ record'.count = IF record = None THEN 2 ELSE record.count + 2
      BY <2>2, <3>1, CountedOnce
    <3>3. record # None => record.count \in Nat
      BY <3>1 DEF Metadata
    <3> QED
      BY <3>2, <3>3
  <2> HIDE DEF e, total
  <2>4. Promised!Record(e)
    BY <2>1, <2>2, <2>3 DEF Promised!Record, total
  <2> QED
    BY <2>1, <2>4 DEF Promised!Next
<1>4. ASSUME NEW op \in Operation, ExpireOperation(op)
      PROVE  Promised!Next
  <2>1. op \in keys /\ keys' = keys \ {op} /\ UNCHANGED <<Exchanges, total>>
    BY <1>1, <1>4 DEF ExpireOperation
  <2>2. Promised!Forget(op)
    BY <2>1 DEF Promised!Forget
  <2> QED
    BY <2>1, <2>2 DEF Promised!Next
<1>5. ASSUME NEW c \in Client, AppendExchange(c), ~ExecExchange(c)
      PROVE  UNCHANGED logVars
  BY <1>2, <1>5
  DEF AppendExchange, WatchExchange, CheckOperation, ReadRecord, ExecExchangeFails
<1>6. ASSUME NEW c \in Client, NEW op \in Operation, NEW request \in Req,
             BeginAppend(c, op, request)
      PROVE  UNCHANGED logVars
  BY <1>2, <1>6 DEF BeginAppend
<1>7. ASSUME NEW c \in Client, DropAppend(c)
      PROVE  UNCHANGED logVars
  BY <1>2, <1>7 DEF DropAppend
<1>8. CASE GetHistory \/ UNCHANGED historyVars
  BY <1>2, <1>8 DEF GetHistory, historyVars
<1> QED
  BY <1>3, <1>4, <1>5, <1>6, <1>7, <1>8 DEF HistoryStep
=============================================================================
