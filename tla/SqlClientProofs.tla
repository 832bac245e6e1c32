--------------------------- MODULE SqlClientProofs ---------------------------
(***************************************************************************)
(* Proofs about SqlClient, for any number of calls, statements and faults. *)
(*                                                                         *)
(* Messages and answers travel one way, in order, through inbox and then   *)
(* outbox.  The invariant says what may follow what on that way, what the  *)
(* stage of a call says about its messages, and what the engine's open     *)
(* transaction says about both.                                            *)
(***************************************************************************)
EXTENDS SqlClient, SequenceTheorems, FunctionTheorems, FiniteSetTheorems, TLAPS

Increasing(s) == \A m, n \in DOMAIN s : m < n => s[m] < s[n]

(* Messages that start a call, and those that steer a transaction. *)
Begins(m)   == m.op \in {"plain", "begin"}
Controls(m) == m.op \in {"begin", "commit", "rollback"} /\ m.id # null

(* What may travel before what: the messages of close() are the last ones,
   nothing is sent behind a BEGIN until it is answered, calls are sent in the
   order they were made, and a transaction is steered by one message at a time. *)
Precedes(a, b) ==
    /\ a.id # null
    /\ a.op = "begin" => b.id = null
    /\ Begins(a) /\ Begins(b) => a.id < b.id
    /\ ~(Controls(a) /\ Controls(b))

Ordered(s) == \A m, n \in DOMAIN s : m < n => Precedes(s[m], s[n])

ChannelsOrdered ==
    /\ Ordered(inbox) /\ Ordered(outbox)
    /\ \A r \in Range(outbox), m \in Range(inbox) : Precedes(r, m)

(* What a message under way says of the call it belongs to. *)
Belongs(m) ==
    /\ m.id = null => closed /\ m.op \in {"rollback", "close"}
    /\ m.op = "close" => m.id = null
    /\ m.id # null =>
        /\ m.op = "plain" => stage[m.id] = "posted"
        /\ m.op = "begin" => stage[m.id] = "beginning"
        /\ m.op = "commit" => stage[m.id] = "committing"
        /\ m.op = "rollback" => stage[m.id] = "rolling"
        /\ m.op = "statement" => kind[m.id] = "tx"

MessagesBelong ==
    /\ \A m \in Range(inbox) : Belongs(m)
    /\ \A r \in Range(outbox) : Belongs(r)

(* And the other way round: a call waits for an answer that is under way. *)
AwaitedOp(st) ==
    CASE st = "posted"     -> "plain"
      [] st = "beginning"  -> "begin"
      [] st = "committing" -> "commit"
      [] st = "rolling"    -> "rollback"

Under(op, i) ==
    \/ \E m \in Range(inbox) : m.op = op /\ m.id = i
    \/ \E r \in Range(outbox) : r.op = op /\ r.id = i

AnswersCome == \A i \in Pending : Under(AwaitedOp(stage[i]), i)

(* The stages of a call.  Only the transaction the line follows is active, and
   close() leaves none whose callback it would have to wait for. *)
CallsKept ==
    /\ \A i \in Calls :
        /\ kind[i] = null <=> made < i
        /\ stage[i] = "none" <=> made < i
        /\ stage[i] = "settled" <=> outcome[i] # "none"
        /\ stage[i] = "posted" => kind[i] = "plain"
        /\ stage[i] \in Active => kind[i] = "tx" /\ i = cur
        /\ closedTx[i] => closed
        /\ stage[i] \in Active /\ closed => closedTx[i] /\ stage[i] # "working"
        /\ stage[i] = "line" /\ closed => kind[i] = "tx"
    /\ cur # null => kind[cur] = "tx" /\ stage[cur] \in Active \cup {"settled"}

(* The line: in order, behind all that has been sent. *)
LineKept ==
    /\ Increasing(line)
    /\ cur = null /\ line # <<>> => kind[line[1]] = "tx"
    /\ \A i \in Range(line) :
        /\ i <= made
        /\ stage[i] = "line" \/ (closed /\ kind[i] = "plain" /\ stage[i] = "settled")
        /\ \A j \in Range(ran) : j < i
        /\ \A m \in Range(inbox) \cup Range(outbox) : Begins(m) => m.id < i

RanKept ==
    /\ Increasing(ran)
    /\ \A j \in Range(ran) : j <= made
    /\ \A j \in Range(ran), m \in Range(inbox) : Begins(m) => j < m.id

(* Every statement SQLite has run was sent. *)
StatementsIn(s, i) == {n \in DOMAIN s : s[n].op = "statement" /\ s[n].id = i}

WrittenWasPosted ==
    \A i \in Calls : written[i] + Cardinality(StatementsIn(inbox, i)) <= posted[i]

(* The open transaction is that of the last call SQLite started.  It holds what
   that call has written, and only its own messages are on their way to it. *)
Owner == ran[Len(ran)]

TransactionKept ==
    engine.tx # null =>
        /\ engine.interactive /\ ran # <<>>
        /\ kind[Owner] = "tx"
        /\ \A n \in DOMAIN engine.tx : engine.tx[n] = Owner
        /\ Len(engine.tx) = written[Owner]
        /\ outcome[Owner] # "ok" /\ Owner \notin Range(engine.log)
        /\ closed \/ (cur = Owner /\ stage[Owner] \in Active)
        /\ \A m \in Range(inbox) : m.id = null \/ (m.id = Owner /\ ~Begins(m))
        /\ \A r \in Range(outbox) : r.op # "rollback" /\ ~(r.op = "commit" /\ r.ok)

Committed(r, i) == r.op = "commit" /\ r.id = i /\ r.ok

(* What is in the log was started, is whole, and is being reported. *)
LogKept ==
    \A i \in Calls :
        /\ i \in Range(engine.log) \/ written[i] > 0 => i \in Range(ran)
        /\ kind[i] = "tx" /\ i \in Range(engine.log) =>
              outcome[i] = "ok" \/ crashed \/ \E r \in Range(outbox) : Committed(r, i)
        /\ kind[i] = "tx" /\ outcome[i] = "ok" => Count(i) = written[i]
        /\ \A r \in Range(outbox) : Committed(r, i) => Count(i) = written[i]

(* The end of the connection. *)
EndKept ==
    /\ \A r \in Range(outbox) : r.op = "close" => ~engine.open /\ engine.tx = null
    /\ terminal => /\ ~engine.open /\ engine.tx = null
                   /\ inbox = <<>> /\ outbox = <<>> /\ Pending = {}
    /\ closing = "done" => terminal
    /\ \A i \in Calls : outcome[i] # "dropped"

SqlSound ==
    /\ SqlTypeOK
    /\ ChannelsOrdered /\ MessagesBelong /\ AnswersCome
    /\ CallsKept /\ LineKept /\ RanKept /\ WrittenWasPosted
    /\ TransactionKept /\ LogKept /\ EndKept

-----------------------------------------------------------------------------
(* Sequences.                                                              *)

(* The elements of a sequence that grows at its end. *)
LEMMA RangeOfAppend ==
    ASSUME NEW S, NEW s \in Seq(S), NEW x
    PROVE  Range(Append(s, x)) = Range(s) \cup {x}
<1> DEFINE t == Append(s, x)
<1>1. /\ DOMAIN t = 1 .. Len(s) + 1 /\ DOMAIN s = 1 .. Len(s) /\ Len(s) \in Nat
      /\ \A n \in 1 .. Len(s) : t[n] = s[n]
      /\ t[Len(s) + 1] = x
  OBVIOUS
<1> HIDE DEF t
<1> QED
  BY <1>1 DEF Range

(* The elements of a sequence that loses its head. *)
LEMMA RangeOfTail ==
    ASSUME NEW S, NEW s \in Seq(S), s # <<>>
    PROVE  /\ Head(s) \in S /\ Tail(s) \in Seq(S) /\ Head(s) = s[1]
           /\ Range(s) = {Head(s)} \cup Range(Tail(s))
<1> DEFINE t == Tail(s)
<1>1. /\ Len(s) \in Nat \ {0} /\ DOMAIN s = 1 .. Len(s) /\ DOMAIN t = 1 .. Len(s) - 1
      /\ \A n \in 1 .. Len(s) - 1 : t[n] = s[n + 1]
      /\ Head(s) = s[1] /\ s[1] \in S /\ t \in Seq(S)
  OBVIOUS
<1> HIDE DEF t
<1>2. ASSUME NEW n \in DOMAIN s, n # 1 PROVE s[n] \in Range(t)
  <2>1. n - 1 \in DOMAIN t /\ t[n - 1] = s[n]
    BY <1>1, <1>2
  <2> QED
    BY <2>1 DEF Range
<1>3. ASSUME NEW n \in DOMAIN t PROVE t[n] \in Range(s)
  <2>1. n + 1 \in DOMAIN s /\ s[n + 1] = t[n]
    BY <1>1, <1>3
  <2> QED
    BY <2>1 DEF Range
<1>4. Range(s) \subseteq {Head(s)} \cup Range(t)
  BY <1>1, <1>2 DEF Range
<1>5. Head(s) \in Range(s) /\ Range(t) \subseteq Range(s)
  BY <1>1, <1>3 DEF Range
<1> QED
  BY <1>1, <1>4, <1>5 DEF t

(* An order holds of a longer sequence if it holds of what is added. *)
LEMMA OrderedAppend ==
    ASSUME NEW S, NEW s \in Seq(S), NEW x, Ordered(s),
           \A a \in Range(s) : Precedes(a, x)
    PROVE  Ordered(Append(s, x))
<1> DEFINE t == Append(s, x)
<1>1. /\ DOMAIN t = 1 .. Len(s) + 1 /\ DOMAIN s = 1 .. Len(s) /\ Len(s) \in Nat
      /\ \A n \in 1 .. Len(s) : t[n] = s[n]
      /\ t[Len(s) + 1] = x
  OBVIOUS
<1>2. \A n \in DOMAIN s : Precedes(s[n], x)
  BY DEF Range
<1> HIDE DEF t
<1> QED
  BY <1>1, <1>2 DEF Ordered

(* What is left of an ordered sequence is ordered, and its head precedes it. *)
LEMMA OrderedTail ==
    ASSUME NEW S, NEW s \in Seq(S), s # <<>>, Ordered(s)
    PROVE  /\ Ordered(Tail(s))
           /\ \A b \in Range(Tail(s)) : Precedes(Head(s), b)
<1> DEFINE t == Tail(s)
<1>1. /\ Len(s) \in Nat \ {0} /\ DOMAIN s = 1 .. Len(s) /\ DOMAIN t = 1 .. Len(s) - 1
      /\ \A n \in 1 .. Len(s) - 1 : t[n] = s[n + 1]
      /\ Head(s) = s[1]
  OBVIOUS
<1> HIDE DEF t
<1>2. Ordered(t)
  BY <1>1 DEF Ordered
<1>3. ASSUME NEW n \in DOMAIN t PROVE Precedes(Head(s), t[n])
  BY <1>1 DEF Ordered
<1>4. \A b \in Range(t) : Precedes(Head(s), b)
  BY <1>3 DEF Range
<1> QED
  BY <1>2, <1>4 DEF t

(* Two ordered sequences, one behind the other. *)
LEMMA OrderedConcat ==
    ASSUME NEW S, NEW s \in Seq(S), NEW t \in Seq(S), Ordered(s), Ordered(t),
           \A a \in Range(s), b \in Range(t) : Precedes(a, b)
    PROVE  Ordered(s \o t)
<1> DEFINE u == s \o t
<1>1. /\ DOMAIN u = 1 .. Len(s) + Len(t) /\ Len(s) \in Nat /\ Len(t) \in Nat
      /\ DOMAIN s = 1 .. Len(s) /\ DOMAIN t = 1 .. Len(t)
      /\ \A n \in 1 .. Len(s) : u[n] = s[n]
      /\ \A n \in Len(s) + 1 .. Len(s) + Len(t) : u[n] = t[n - Len(s)]
  OBVIOUS
<1> HIDE DEF u
<1>2. ASSUME NEW m \in DOMAIN u, NEW n \in DOMAIN u, m < n PROVE Precedes(u[m], u[n])
  <2>1. CASE n <= Len(s)
    BY <1>1, <1>2, <2>1 DEF Ordered
  <2>2. CASE m > Len(s)
    <3>1. /\ m - Len(s) \in DOMAIN t /\ n - Len(s) \in DOMAIN t /\ m - Len(s) < n - Len(s)
          /\ u[m] = t[m - Len(s)] /\ u[n] = t[n - Len(s)]
      BY <1>1, <1>2, <2>2
    <3> QED
      BY <3>1 DEF Ordered
  <2>3. CASE m <= Len(s) /\ n > Len(s)
    <3>1. /\ m \in DOMAIN s /\ n - Len(s) \in DOMAIN t
          /\ u[m] = s[m] /\ u[n] = t[n - Len(s)]
      BY <1>1, <1>2, <2>3
    <3> QED
      BY <3>1 DEF Range
  <2> QED
    BY <1>1, <2>1, <2>2, <2>3
<1>3. Ordered(u)
  BY <1>2 DEF Ordered
<1> QED
  BY <1>3 DEF u

(* An increasing sequence that grows by a larger number. *)
LEMMA IncreasingAppend ==
    ASSUME NEW S \in SUBSET Nat, NEW s \in Seq(S), NEW x \in Nat, Increasing(s),
           \A a \in Range(s) : a < x
    PROVE  Increasing(Append(s, x))
<1> DEFINE t == Append(s, x)
<1>1. /\ DOMAIN t = 1 .. Len(s) + 1 /\ DOMAIN s = 1 .. Len(s) /\ Len(s) \in Nat
      /\ \A n \in 1 .. Len(s) : t[n] = s[n]
      /\ t[Len(s) + 1] = x
  OBVIOUS
<1>2. \A n \in DOMAIN s : s[n] < x
  BY DEF Range
<1> HIDE DEF t
<1> QED
  BY <1>1, <1>2 DEF Increasing

(* Statements of a call among one message more. *)
LEMMA StatementsOfAppend ==
    ASSUME NEW S, NEW s \in Seq(S), NEW x, NEW i
    PROVE  /\ IsFiniteSet(StatementsIn(s, i)) /\ Cardinality(StatementsIn(s, i)) \in Nat
           /\ Cardinality(StatementsIn(Append(s, x), i)) =
                Cardinality(StatementsIn(s, i)) + IF x.op = "statement" /\ x.id = i THEN 1 ELSE 0
<1> DEFINE t == Append(s, x)
           A == StatementsIn(s, i)
           B == StatementsIn(t, i)
           k == Len(s) + 1
<1>1. /\ DOMAIN t = 1 .. Len(s) + 1 /\ DOMAIN s = 1 .. Len(s) /\ Len(s) \in Nat
      /\ \A n \in 1 .. Len(s) : t[n] = s[n]
      /\ t[Len(s) + 1] = x
  OBVIOUS
<1> HIDE DEF t
<1>2. A \subseteq 1 .. Len(s)
  BY <1>1 DEF StatementsIn
<1>3. IsFiniteSet(A) /\ Cardinality(A) \in Nat
  <2> HIDE DEF A
  <2>1. IsFiniteSet(1 .. Len(s))
    BY <1>1, FS_Interval
  <2> QED
    BY <1>2, <2>1, FS_Subset, FS_CardinalityType
<1>4. CASE x.op = "statement" /\ x.id = i
  <2>1. B = A \cup {k} /\ k \notin A
    BY <1>1, <1>4 DEF StatementsIn
  <2> HIDE DEF A, B, k
  <2> QED
    BY <1>3, <1>4, <2>1, FS_AddElement DEF t, A, B
<1>5. CASE ~(x.op = "statement" /\ x.id = i)
  <2>1. B = A
    BY <1>1, <1>5 DEF StatementsIn
  <2> QED
    BY <1>3, <1>5, <2>1 DEF t
<1> QED
  BY <1>3, <1>4, <1>5

(* Statements of a call among one message less. *)
LEMMA StatementsOfTail ==
    ASSUME NEW S, NEW s \in Seq(S), s # <<>>, NEW i
    PROVE  /\ Cardinality(StatementsIn(Tail(s), i)) \in Nat
           /\ Cardinality(StatementsIn(s, i)) =
                Cardinality(StatementsIn(Tail(s), i))
                + IF Head(s).op = "statement" /\ Head(s).id = i THEN 1 ELSE 0
<1> DEFINE t == Tail(s)
           A == StatementsIn(s, i)
           B == StatementsIn(t, i)
           C == A \ {1}
           f == [n \in B |-> n + 1]
<1>1. /\ Len(s) \in Nat \ {0} /\ DOMAIN s = 1 .. Len(s) /\ DOMAIN t = 1 .. Len(s) - 1
      /\ \A n \in 1 .. Len(s) - 1 : t[n] = s[n + 1]
      /\ Head(s) = s[1]
  OBVIOUS
<1> HIDE DEF t
<1>2. /\ A \subseteq 1 .. Len(s) /\ B \subseteq 1 .. Len(s)
      /\ \A n \in B : n \in Nat /\ n + 1 \in C
      /\ \A n \in C : n - 1 \in B
  BY <1>1 DEF StatementsIn
<1>3. IsFiniteSet(A) /\ IsFiniteSet(B) /\ Cardinality(B) \in Nat /\ IsFiniteSet(C)
  <2> HIDE DEF A, B
  <2>1. IsFiniteSet(1 .. Len(s))
    BY <1>1, FS_Interval
  <2>2. C \subseteq A
    OBVIOUS
  <2> QED
    BY <1>2, <2>1, <2>2, FS_Subset, FS_CardinalityType
<1>4. Cardinality(B) = Cardinality(C)
  <2>1. f \in Bijection(B, C)
    <3> HIDE DEF A, B, C
    <3>1. f \in [B -> C] /\ \A n \in B : f[n] = n + 1
      BY <1>2
    <3>2. \A m, n \in B : f[m] = f[n] => m = n
      BY <1>2, <3>1
    <3>3. \A c \in C : \E n \in B : f[n] = c
      <4>1. ASSUME NEW c \in C PROVE \E n \in B : f[n] = c
        <5>1. c - 1 \in B /\ c \in Int
          BY <1>1, <1>2 DEF C
        <5>2. f[c - 1] = c
          BY <3>1, <5>1
        <5> QED
          BY <5>1, <5>2
      <4> QED
        BY <4>1
    <3> HIDE DEF f
    <3> QED
      BY <3>1, <3>2, <3>3, Fun_IsBij
  <2> HIDE DEF A, B, C, f
  <2>2. ExistsBijection(B, C)
    BY <2>1 DEF ExistsBijection
  <2> QED
    BY <1>3, <2>2, FS_Bijection
<1>5. 1 \in A <=> Head(s).op = "statement" /\ Head(s).id = i
  BY <1>1 DEF StatementsIn
<1>6. ASSUME 1 \in A PROVE Cardinality(A) = Cardinality(B) + 1
  <2> HIDE DEF A, B
  <2>1. Cardinality(A \ {1}) = Cardinality(A) - 1 /\ Cardinality(A) \in Nat
    BY <1>3, <1>6, FS_RemoveElement, FS_CardinalityType
  <2> QED
    BY <1>3, <1>4, <1>6, <2>1
<1>7. ASSUME 1 \notin A PROVE Cardinality(A) = Cardinality(B)
  <2>1. C = A
    BY <1>7
  <2> QED
    BY <1>3, <1>4, <1>7, <2>1
<1> HIDE DEF A, B, C, f
<1>8. Cardinality(A) = Cardinality(B) + IF Head(s).op = "statement" /\ Head(s).id = i THEN 1 ELSE 0
  <2>1. CASE 1 \in A
    <3>1. Head(s).op = "statement" /\ Head(s).id = i
      BY <1>5, <2>1
    <3> QED
      BY <1>6, <2>1, <3>1
  <2>2. CASE 1 \notin A
    <3>1. ~(Head(s).op = "statement" /\ Head(s).id = i)
      BY <1>5, <2>2
    <3> QED
      BY <1>3, <1>7, <2>2, <3>1
  <2> QED
    BY <2>1, <2>2
<1> QED
  BY <1>3, <1>8 DEF t, A, B

-----------------------------------------------------------------------------
(* The channels.                                                           *)

(* A message that is sent behind all others. *)
LEMMA SendKeeps ==
    ASSUME SqlTypeOK, ChannelsOrdered, NEW m \in Messages,
           \A x \in Range(inbox) : Precedes(x, m),
           \A x \in Range(outbox) : Precedes(x, m),
           inbox' = Append(inbox, m), outbox' = outbox
    PROVE  /\ ChannelsOrdered'
           /\ Range(inbox') = Range(inbox) \cup {m}
           /\ inbox' \in Seq(Messages)
<1>1. inbox \in Seq(Messages)
  BY DEF SqlTypeOK
<1>2. Range(inbox') = Range(inbox) \cup {m} /\ inbox' \in Seq(Messages)
  BY <1>1, RangeOfAppend
<1>3. Ordered(inbox')
  BY <1>1, OrderedAppend DEF ChannelsOrdered
<1> QED
  BY <1>2, <1>3 DEF ChannelsOrdered

(* The answer at the head of outbox precedes all that is under way. *)
LEMMA ReplyIsFirst ==
    ASSUME SqlTypeOK, ChannelsOrdered, outbox # <<>>
    PROVE  /\ Reply \in Replies /\ Tail(outbox) \in Seq(Replies)
           /\ Range(outbox) = {Reply} \cup Range(Tail(outbox))
           /\ Ordered(Tail(outbox))
           /\ \A x \in Range(inbox) : Precedes(Reply, x)
           /\ \A x \in Range(Tail(outbox)) : Precedes(Reply, x)
<1>1. outbox \in Seq(Replies) /\ Ordered(outbox)
  BY DEF SqlTypeOK, ChannelsOrdered
<1>2. /\ Reply \in Replies /\ Tail(outbox) \in Seq(Replies)
      /\ Range(outbox) = {Reply} \cup Range(Tail(outbox))
  BY <1>1, RangeOfTail DEF Reply
<1>3. Ordered(Tail(outbox)) /\ \A x \in Range(Tail(outbox)) : Precedes(Reply, x)
  BY <1>1, OrderedTail DEF Reply
<1> QED
  BY <1>2, <1>3 DEF ChannelsOrdered

(* So does the message at the head of inbox, but for the answers before it. *)
LEMMA RequestIsFirst ==
    ASSUME SqlTypeOK, ChannelsOrdered, inbox # <<>>
    PROVE  /\ Request \in Messages /\ Tail(inbox) \in Seq(Messages)
           /\ Range(inbox) = {Request} \cup Range(Tail(inbox))
           /\ Ordered(Tail(inbox))
           /\ \A x \in Range(Tail(inbox)) : Precedes(Request, x)
           /\ \A x \in Range(outbox) : Precedes(x, Request)
<1>1. inbox \in Seq(Messages) /\ Ordered(inbox)
  BY DEF SqlTypeOK, ChannelsOrdered
<1>2. /\ Request \in Messages /\ Tail(inbox) \in Seq(Messages)
      /\ Range(inbox) = {Request} \cup Range(Tail(inbox))
  BY <1>1, RangeOfTail DEF Request
<1>3. Ordered(Tail(inbox)) /\ \A x \in Range(Tail(inbox)) : Precedes(Request, x)
  BY <1>1, OrderedTail DEF Request
<1> QED
  BY <1>2, <1>3 DEF ChannelsOrdered

(* An answer is taken and nothing is sent. *)
LEMMA TakeKeeps ==
    ASSUME SqlTypeOK, ChannelsOrdered, outbox # <<>>,
           outbox' = Tail(outbox), inbox' = inbox
    PROVE  ChannelsOrdered'
BY ReplyIsFirst DEF ChannelsOrdered

(* An answer is taken and something is sent, which is the last thing under way. *)
LEMMA TakeAndSendKeeps ==
    ASSUME SqlTypeOK, ChannelsOrdered, outbox # <<>>, NEW m \in Messages,
           \A x \in Range(inbox) : Precedes(x, m),
           \A x \in Range(Tail(outbox)) : Precedes(x, m),
           outbox' = Tail(outbox), inbox' = Append(inbox, m)
    PROVE  /\ ChannelsOrdered'
           /\ Range(inbox') = Range(inbox) \cup {m}
           /\ inbox' \in Seq(Messages)
<1>1. inbox \in Seq(Messages)
  BY DEF SqlTypeOK
<1>2. Range(inbox') = Range(inbox) \cup {m} /\ inbox' \in Seq(Messages)
  BY <1>1, RangeOfAppend
<1>3. Ordered(inbox')
  BY <1>1, OrderedAppend DEF ChannelsOrdered
<1> QED
  BY <1>2, <1>3, ReplyIsFirst DEF ChannelsOrdered

(* The Worker answers a message: it goes from the head of one channel to the
   end of the other, and keeps its place among all that is under way. *)
LEMMA AnswerKeeps ==
    ASSUME SqlTypeOK, ChannelsOrdered, inbox # <<>>, NEW ok \in BOOLEAN, Answer(ok)
    PROVE  LET r == [op |-> Request.op, id |-> Request.id, ok |-> ok]
           IN  /\ ChannelsOrdered'
               /\ Range(inbox) = {Request} \cup Range(inbox')
               /\ Range(outbox') = Range(outbox) \cup {r}
               /\ inbox' \in Seq(Messages) /\ outbox' \in Seq(Replies)
               /\ Request \in Messages
<1> DEFINE r == [op |-> Request.op, id |-> Request.id, ok |-> ok]
<1>1. /\ Request \in Messages /\ inbox' \in Seq(Messages)
      /\ Range(inbox) = {Request} \cup Range(inbox')
      /\ Ordered(inbox')
      /\ \A x \in Range(inbox') : Precedes(Request, x)
      /\ \A x \in Range(outbox) : Precedes(x, Request)
  BY RequestIsFirst DEF Answer
<1>2. r \in Replies /\ r.op = Request.op /\ r.id = Request.id
  BY <1>1 DEF Messages, Replies
<1> HIDE DEF r
<1>3. outbox \in Seq(Replies) /\ outbox' = Append(outbox, r)
  BY DEF SqlTypeOK, Answer, r
<1>4. Range(outbox') = Range(outbox) \cup {r} /\ outbox' \in Seq(Replies)
  BY <1>2, <1>3, RangeOfAppend
<1>5. \A x \in Range(outbox) : Precedes(x, r)
  BY <1>1, <1>2 DEF Precedes, Begins, Controls
<1>6. \A x \in Range(inbox') : Precedes(r, x)
  BY <1>1, <1>2 DEF Precedes, Begins, Controls
<1>7. Ordered(outbox')
  BY <1>3, <1>5, OrderedAppend DEF ChannelsOrdered
<1>8. \A x \in Range(outbox'), y \in Range(inbox') : Precedes(x, y)
  BY <1>1, <1>4, <1>6 DEF ChannelsOrdered
<1>9. ChannelsOrdered'
  BY <1>1, <1>7, <1>8 DEF ChannelsOrdered
<1> QED
  BY <1>1, <1>4, <1>9 DEF r

(* Only statements count as statements. *)
LEMMA CountKeeps ==
    ASSUME SqlTypeOK, WrittenWasPosted, NEW m, m.op # "statement",
           inbox' = Append(inbox, m), posted' = posted, written' = written
    PROVE  WrittenWasPosted'
<1>1. inbox \in Seq(Messages)
  BY DEF SqlTypeOK
<1>2. ASSUME NEW i \in Calls
      PROVE  Cardinality(StatementsIn(inbox', i)) = Cardinality(StatementsIn(inbox, i))
  BY <1>1, StatementsOfAppend
<1> QED
  BY <1>2 DEF WrittenWasPosted

(* What is under way says where its call is. *)
LEMMA UnderWay ==
    ASSUME SqlSound, NEW x \in Range(inbox) \cup Range(outbox)
    PROVE  /\ x.op \in Ops /\ x.id \in Calls \cup {null}
           /\ x.id = null => closed /\ x.op \in {"rollback", "close"}
           /\ x.op = "close" => x.id = null
           /\ x.op = "plain" => stage[x.id] = "posted" /\ kind[x.id] = "plain"
           /\ x.op = "begin" => x.id = cur /\ stage[cur] = "beginning"
           /\ x.op = "commit" => x.id = cur /\ stage[cur] = "committing"
           /\ x.op = "rollback" /\ x.id # null => x.id = cur /\ stage[cur] = "rolling"
           /\ x.op = "statement" => kind[x.id] = "tx"
           /\ x.id # null => x.id <= made
<1>1. inbox \in Seq(Messages) /\ outbox \in Seq(Replies)
  BY DEF SqlSound, SqlTypeOK
<1>2. x.op \in Ops /\ x.id \in Calls \cup {null}
  <2>1. CASE x \in Range(inbox)
    <3>1. PICK n \in DOMAIN inbox : x = inbox[n]
      BY <2>1 DEF Range
    <3>2. inbox[n] \in Messages
      BY <1>1
    <3> QED
      BY <3>1, <3>2 DEF Messages
  <2>2. CASE x \in Range(outbox)
    <3>1. PICK n \in DOMAIN outbox : x = outbox[n]
      BY <2>2 DEF Range
    <3>2. outbox[n] \in Replies
      BY <1>1
    <3> QED
      BY <3>1, <3>2 DEF Replies
  <2> QED
    BY <2>1, <2>2
<1>3. Belongs(x) /\ CallsKept
  BY DEF SqlSound, MessagesBelong
<1>4. null \notin Calls /\ made \in Nat /\ \A i \in Calls : i \in Nat
  BY SqlClientAssumption DEF Calls, SqlSound, SqlTypeOK
<1>5. \A i \in Calls : stage[i] \in Active => i = cur
  BY <1>3 DEF CallsKept
<1>6. \A i \in Calls : stage[i] = "posted" => kind[i] = "plain"
  BY <1>3 DEF CallsKept
<1>7. x.id # null => x.op # "close" /\ x.id \in Calls
  BY <1>2, <1>3 DEF Belongs
<1>8. x.id # null => x.id <= made
  <2> SUFFICES ASSUME x.id # null PROVE x.id <= made
    OBVIOUS
  <2>1. stage[x.id] # "none" \/ kind[x.id] # null
    BY <1>2, <1>3, <1>7, SqlClientAssumption DEF Belongs, Ops
  <2>2. ~(made < x.id)
    BY <1>3, <1>7, <2>1 DEF CallsKept
  <2> QED
    BY <1>4, <1>7, <2>2
<1> QED
  BY <1>2, <1>3, <1>5, <1>6, <1>7, <1>8 DEF Belongs, Active

-----------------------------------------------------------------------------
(* The steps of the handle.                                                *)

(* A statement is sent by the transaction that is active, which no message of
   close() can precede. *)
LEMMA StatementKeeps ==
    ASSUME SqlSound, NEW i \in Calls, Statement(i)
    PROVE  SqlSound'
<1> DEFINE m == Msg("statement", i)
<1>1. /\ SqlTypeOK /\ ChannelsOrdered /\ MessagesBelong /\ AnswersCome /\ CallsKept
      /\ LineKept /\ RanKept /\ WrittenWasPosted /\ TransactionKept /\ LogKept /\ EndKept
  BY DEF SqlSound
<1>2. m \in Messages /\ m.op = "statement" /\ m.id = i /\ i # null
  BY SqlClientAssumption DEF Msg, Messages, Ops, Calls
<1> HIDE DEF m
<1>3. /\ inbox' = Append(inbox, m) /\ posted' = [posted EXCEPT ![i] = @ + 1]
      /\ stage[i] \in {"working", "committing", "rolling"} /\ ~closedTx[i] /\ ~terminal
      /\ posted[i] < MaxStatements
      /\ UNCHANGED <<kind, stage, outcome, closedTx, made, closed, closing, terminal,
                     line, cur, outbox, engine, faults, written, ran, crashed>>
  BY DEF Statement, m, Active
<1>4. i = cur /\ ~closed /\ kind[i] = "tx"
  BY <1>1, <1>3 DEF CallsKept, Active
<1>5. \A x \in Range(inbox) \cup Range(outbox) : Precedes(x, m)
  <2>1. ASSUME NEW x \in Range(inbox) \cup Range(outbox) PROVE Precedes(x, m)
    <3>1. x.id # null /\ x.op # "begin"
      BY <1>3, <1>4, <2>1, UnderWay
    <3> QED
      BY <1>2, <3>1 DEF Precedes, Begins, Controls
  <2> QED
    BY <2>1
<1>6. /\ ChannelsOrdered' /\ Range(inbox') = Range(inbox) \cup {m}
      /\ inbox' \in Seq(Messages) /\ Range(outbox') = Range(outbox)
  BY <1>1, <1>2, <1>3, <1>5, SendKeeps
<1>7. SqlTypeOK'
  <2>1. posted[i] + 1 \in 0 .. MaxStatements /\ posted \in [Calls -> 0 .. MaxStatements]
    BY <1>1, <1>3, SqlClientAssumption DEF SqlTypeOK
  <2>2. posted' \in [Calls -> 0 .. MaxStatements]
    BY <1>3, <2>1
  <2> QED
    BY <1>1, <1>3, <1>6, <2>2 DEF SqlTypeOK
<1>8. MessagesBelong' /\ AnswersCome' /\ CallsKept' /\ LineKept' /\ RanKept'
  BY <1>1, <1>2, <1>3, <1>4, <1>6
  DEF MessagesBelong, Belongs, AnswersCome, Under, AwaitedOp, Pending, CallsKept, LineKept,
      RanKept, Begins
<1>9. WrittenWasPosted'
  <2>1. inbox \in Seq(Messages) /\ posted \in [Calls -> Nat] /\ written \in [Calls -> Nat]
    BY <1>1, SqlClientAssumption DEF SqlTypeOK
  <2>2. ASSUME NEW j \in Calls
        PROVE  written'[j] + Cardinality(StatementsIn(inbox', j)) <= posted'[j]
    <3>1. /\ Cardinality(StatementsIn(inbox, j)) \in Nat
          /\ Cardinality(StatementsIn(inbox', j)) =
               Cardinality(StatementsIn(inbox, j)) + IF i = j THEN 1 ELSE 0
      BY <1>2, <1>3, <2>1, StatementsOfAppend
    <3>2. posted'[j] = posted[j] + IF i = j THEN 1 ELSE 0
      BY <1>3, <2>1
    <3>3. written[j] + Cardinality(StatementsIn(inbox, j)) <= posted[j]
      BY <1>1 DEF WrittenWasPosted
    <3>4. written[j] \in Nat /\ posted[j] \in Nat
      BY <2>1
    <3> QED
      BY <1>3, <3>1, <3>2, <3>3, <3>4
  <2> QED
    BY <2>2 DEF WrittenWasPosted
<1>10. TransactionKept' /\ LogKept' /\ EndKept'
  BY <1>1, <1>2, <1>3, <1>4, <1>6
  DEF TransactionKept, Owner, Begins, LogKept, Committed, Count, EndKept, Pending
<1> QED
  BY <1>6, <1>7, <1>8, <1>9, <1>10 DEF SqlSound

(* COMMIT or ROLLBACK is sent, or the call fails because the Worker is gone. *)
LEMMA WorkSettlesKeeps ==
    ASSUME SqlSound, NEW i \in Calls, WorkSettles(i)
    PROVE  SqlSound'
<1>1. /\ SqlTypeOK /\ ChannelsOrdered /\ MessagesBelong /\ AnswersCome /\ CallsKept
      /\ LineKept /\ RanKept /\ WrittenWasPosted /\ TransactionKept /\ LogKept /\ EndKept
  BY DEF SqlSound
<1>2. PICK op \in {"commit", "rollback"} :
        Post(i, op, IF op = "commit" THEN "committing" ELSE "rolling")
  BY Zenon DEF WorkSettles
<1> DEFINE m == Msg(op, i)
           next == IF op = "commit" THEN "committing" ELSE "rolling"
<1>3. m \in Messages /\ m.op = op /\ m.id = i /\ i # null
  BY SqlClientAssumption DEF Msg, Messages, Ops, Calls
<1>4. /\ stage[i] = "working"
      /\ UNCHANGED <<kind, closedTx, made, closed, closing, terminal, line, cur, outbox,
                     engine, faults, posted, written, ran, crashed>>
  BY DEF WorkSettles
<1>5. i = cur /\ ~closed /\ kind[i] = "tx" /\ ~closedTx[i] /\ outcome[i] = "none"
  BY <1>1, <1>4 DEF CallsKept, Active
<1>6. CASE terminal
  <2>1. /\ stage' = [stage EXCEPT ![i] = "settled"] /\ outcome' = [outcome EXCEPT ![i] = "failed"]
        /\ inbox' = inbox
    BY <1>2, <1>5, <1>6 DEF Post, Settle
  <2>2. SqlTypeOK'
    BY <1>1, <1>4, <2>1 DEF SqlTypeOK, Stages, Outcomes
  <2>3. inbox = <<>> /\ outbox = <<>> /\ engine.tx = null /\ Pending = {}
    BY <1>1, <1>6 DEF EndKept
  <2>4. Range(inbox) = {} /\ Range(outbox) = {}
    BY <2>3 DEF Range
  <2>5. ChannelsOrdered' /\ MessagesBelong' /\ AnswersCome' /\ CallsKept' /\ LineKept' /\ RanKept'
    BY <1>1, <1>4, <1>5, <2>1, <2>3, <2>4
    DEF ChannelsOrdered, MessagesBelong, AnswersCome, Pending, CallsKept, LineKept, RanKept,
        SqlTypeOK, Active
  <2>6. WrittenWasPosted' /\ TransactionKept'
    BY <1>1, <1>4, <2>1, <2>3 DEF WrittenWasPosted, TransactionKept
  <2>7. stage \in [Calls -> Stages] /\ outcome \in [Calls -> Outcomes]
    BY <1>1 DEF SqlTypeOK
  <2>8. \A j \in Calls : outcome'[j] = IF j = i THEN "failed" ELSE outcome[j]
    BY <2>1, <2>7
  <2>9. LogKept'
    BY <1>1, <1>4, <1>5, <2>4, <2>8 DEF LogKept, Committed, Count
  <2>10. Pending' = {}
    BY <2>1, <2>3, <2>7 DEF Pending, Active
  <2>11. EndKept'
    BY <1>1, <1>4, <2>1, <2>8, <2>10 DEF EndKept
  <2> QED
    BY <2>2, <2>5, <2>6, <2>9, <2>11 DEF SqlSound
<1>7. CASE ~terminal
  <2>1. stage' = [stage EXCEPT ![i] = next] /\ outcome' = outcome /\ inbox' = Append(inbox, m)
    BY <1>2, <1>7 DEF Post
  <2>2. next \in {"committing", "rolling"} /\ (next = "committing" <=> op = "commit")
    BY <1>2
  <2> HIDE DEF m, next
  <2>3. \A x \in Range(inbox) \cup Range(outbox) : Precedes(x, m)
    <3>1. ASSUME NEW x \in Range(inbox) \cup Range(outbox) PROVE Precedes(x, m)
      <4>1. x.id # null /\ ~Controls(x)
        BY <1>4, <1>5, <3>1, UnderWay DEF Controls
      <4> QED
        BY <1>3, <4>1 DEF Precedes, Begins, Controls
    <3> QED
      BY <3>1
  <2>4. /\ ChannelsOrdered' /\ Range(inbox') = Range(inbox) \cup {m}
        /\ inbox' \in Seq(Messages) /\ Range(outbox') = Range(outbox)
    BY <1>1, <1>3, <1>4, <2>1, <2>3, SendKeeps
  <2>5. SqlTypeOK'
    BY <1>1, <1>4, <2>1, <2>2, <2>4 DEF SqlTypeOK, Stages, Active
  <2>6. MessagesBelong'
    BY <1>1, <1>2, <1>3, <1>4, <1>5, <2>1, <2>2, <2>4, UnderWay
    DEF MessagesBelong, Belongs, SqlTypeOK
  <2>7. AnswersCome'
    <3>1. stage \in [Calls -> Stages]
      BY <1>1 DEF SqlTypeOK
    <3>2. ASSUME NEW j \in Pending', j # i PROVE Under(AwaitedOp(stage[j]), j)' /\ stage'[j] = stage[j]
      <4>1. stage'[j] = stage[j] /\ j \in Pending
        BY <2>1, <3>1, <3>2 DEF Pending
      <4>2. Under(AwaitedOp(stage[j]), j)
        BY <1>1, <4>1 DEF AnswersCome
      <4> QED
        BY <2>4, <4>1, <4>2 DEF Under, AwaitedOp
    <3>3. Under(AwaitedOp(stage[i]), i)'
      <4>1. stage'[i] = next
        BY <2>1, <3>1
      <4>2. AwaitedOp(stage[i])' = op
        BY <1>2, <2>2, <4>1 DEF AwaitedOp
      <4>3. m \in Range(inbox')
        BY <2>4
      <4> QED
        BY <1>3, <4>2, <4>3 DEF Under
    <3> QED
      BY <3>2, <3>3 DEF AnswersCome
  <2>8. CallsKept' /\ LineKept' /\ RanKept'
    BY <1>1, <1>2, <1>3, <1>4, <1>5, <2>1, <2>2, <2>4
    DEF CallsKept, Active, SqlTypeOK, LineKept, RanKept, Begins
  <2>9. WrittenWasPosted'
    BY <1>1, <1>2, <1>3, <1>4, <2>1, CountKeeps
  <2>10. TransactionKept'
    <3>1. stage \in [Calls -> Stages]
      BY <1>1 DEF SqlTypeOK
    <3>2. stage'[i] \in Active
      BY <2>1, <2>2, <3>1 DEF Active
    <3> QED
      BY <1>1, <1>2, <1>3, <1>4, <1>5, <2>1, <2>4, <3>2 DEF TransactionKept, Owner, Begins
  <2>11. LogKept' /\ EndKept'
    BY <1>1, <1>2, <1>3, <1>4, <1>5, <1>7, <2>1, <2>4 DEF LogKept, Committed, Count, EndKept
  <2> QED
    BY <2>4, <2>5, <2>6, <2>7, <2>8, <2>9, <2>10, <2>11 DEF SqlSound
<1> QED
  BY <1>6, <1>7

(* What SQLite has started was made. *)
LEMMA NumbersOfRan ==
    ASSUME SqlSound
    PROVE  \A j \in Range(ran) : j \in Calls /\ j \in Nat /\ j <= made
<1>1. ran \in Seq(Calls) /\ Calls \subseteq Nat
  BY DEF SqlSound, SqlTypeOK, Calls
<1>2. Range(ran) \subseteq Calls
  BY <1>1, RangeOfSeq
<1> QED
  BY <1>1, <1>2 DEF SqlSound, RanKept

(* What is in line was made. *)
LEMMA NumbersOfLine ==
    ASSUME SqlSound
    PROVE  \A j \in Range(line) : j \in Calls /\ j \in Nat /\ j <= made
<1>1. line \in Seq(Calls) /\ Calls \subseteq Nat
  BY DEF SqlSound, SqlTypeOK, Calls
<1>2. Range(line) \subseteq Calls
  BY <1>1, RangeOfSeq
<1> QED
  BY <1>1, <1>2 DEF SqlSound, LineKept

(* The open transaction is a call's. *)
LEMMA OwnerIsCall ==
    ASSUME SqlSound, engine.tx # null
    PROVE  /\ Owner \in Range(ran) /\ Owner \in Calls /\ Owner <= made
           /\ closed \/ (cur = Owner /\ cur # null)
<1>1. ran # <<>> /\ (closed \/ cur = Owner)
  BY DEF SqlSound, TransactionKept
<1>2. ran \in Seq(Calls)
  BY DEF SqlSound, SqlTypeOK
<1>3. Owner \in Range(ran)
  BY <1>1, <1>2 DEF Owner, Range
<1> QED
  BY <1>1, <1>3, NumbersOfRan, SqlClientAssumption

(* A call is made: nothing that is under way or in the log knows of it.  What
   the step does to the line and to inbox is left open. *)
NewCall(i, k, st, oc) ==
    /\ i = made + 1 /\ ~closed /\ made' = i
    /\ kind' = [kind EXCEPT ![i] = k]
    /\ stage' = [stage EXCEPT ![i] = st]
    /\ outcome' = [outcome EXCEPT ![i] = oc]
    /\ UNCHANGED <<closedTx, closed, closing, terminal, cur, outbox, engine, faults,
                   posted, written, ran, crashed>>

LEMMA NewCallKeeps ==
    ASSUME SqlSound, NEW i \in Calls, NEW k \in {"plain", "tx"},
           NEW st \in {"line", "posted", "settled"}, NEW oc \in {"none", "failed"},
           NewCall(i, k, st, oc), st = "settled" <=> oc = "failed", st = "posted" => k = "plain",
           k = "tx" => st = "line", st = "posted" => ~terminal
    PROVE  /\ kind' \in [Calls -> {"plain", "tx", null}] /\ stage' \in [Calls -> Stages]
           /\ outcome' \in [Calls -> Outcomes] /\ made' \in 0 .. MaxCalls
           /\ \A j \in Calls : j # i => /\ stage'[j] = stage[j] /\ outcome'[j] = outcome[j]
                                        /\ kind'[j] = kind[j]
           /\ stage'[i] = st /\ kind'[i] = k
           /\ \A x \in Range(inbox) \cup Range(outbox) : Belongs(x)'
           /\ CallsKept'
           /\ LogKept'
           /\ Range(inbox') \subseteq Range(inbox) => TransactionKept'
           /\ (terminal => inbox' = inbox) => EndKept'
<1>1. /\ SqlTypeOK /\ ChannelsOrdered /\ MessagesBelong /\ AnswersCome /\ CallsKept
      /\ LineKept /\ RanKept /\ WrittenWasPosted /\ TransactionKept /\ LogKept /\ EndKept
  BY DEF SqlSound
<1>2. /\ kind \in [Calls -> {"plain", "tx", null}] /\ stage \in [Calls -> Stages]
      /\ outcome \in [Calls -> Outcomes] /\ made \in 0 .. MaxCalls /\ cur \in Calls \cup {null}
      /\ ran \in Seq(Calls)
  BY <1>1 DEF SqlTypeOK
<1>3. /\ kind' \in [Calls -> {"plain", "tx", null}] /\ stage' \in [Calls -> Stages]
      /\ outcome' \in [Calls -> Outcomes] /\ made' \in 0 .. MaxCalls
  BY <1>2 DEF NewCall, Stages, Outcomes, Calls
<1>4. /\ \A j \in Calls : j # i => /\ stage'[j] = stage[j] /\ outcome'[j] = outcome[j]
                                   /\ kind'[j] = kind[j]
      /\ stage'[i] = st /\ kind'[i] = k /\ outcome'[i] = oc
  BY <1>2 DEF NewCall
<1>5. /\ made \in Nat /\ i = made + 1 /\ made' = i /\ i \in Nat
      /\ Calls \subseteq Nat /\ null \notin Calls /\ null \notin {"plain", "tx"}
      /\ ~closed
      /\ UNCHANGED <<closedTx, closed, closing, terminal, cur, outbox, engine, faults,
                     posted, written, ran, crashed>>
  BY <1>2, SqlClientAssumption DEF NewCall, Calls
<1>6. kind[i] = null /\ stage[i] = "none" /\ cur # i /\ outcome[i] = "none"
  BY <1>1, <1>5 DEF CallsKept
<1>7. ASSUME NEW x \in Range(inbox) \cup Range(outbox) PROVE Belongs(x)'
  <2>1. x.id # i
    BY <1>5, UnderWay
  <2>2. Belongs(x) /\ x.id \in Calls \cup {null}
    BY <1>1, UnderWay DEF MessagesBelong
  <2> QED
    BY <1>4, <1>5, <2>1, <2>2 DEF Belongs
<1>8. CallsKept'
  BY <1>1, <1>2, <1>4, <1>5, <1>6 DEF CallsKept, Active
<1>9. LogKept'
  <2>1. i \notin Range(engine.log)
    BY <1>1, <1>5 DEF LogKept, RanKept
  <2>2. oc # "ok"
    OBVIOUS
  <2>3. ASSUME NEW j \in Calls
        PROVE  /\ Count(j)' = Count(j) /\ written'[j] = written[j]
               /\ \A r \in Range(outbox) : Committed(r, j) => Count(j) = written[j]
    BY <1>1, <1>5 DEF Count, LogKept
  <2> QED
    BY <1>1, <1>4, <1>5, <2>1, <2>2, <2>3 DEF LogKept, Committed
<1>10. engine.tx # null => Owner \in Calls /\ Owner # i
  BY <1>5, OwnerIsCall
<1>11. Range(inbox') \subseteq Range(inbox) => TransactionKept'
  BY <1>1, <1>4, <1>5, <1>10 DEF TransactionKept, Owner
<1>12. terminal => Pending' = {}
  <2> SUFFICES ASSUME terminal PROVE Pending' = {}
    OBVIOUS
  <2>1. Pending = {} /\ st # "posted"
    BY <1>1 DEF EndKept
  <2> QED
    BY <1>4, <2>1 DEF Pending, Active
<1>13. (terminal => inbox' = inbox) => EndKept'
  BY <1>1, <1>4, <1>5, <1>12 DEF EndKept
<1> QED
  BY <1>1, <1>3, <1>4, <1>7, <1>8, <1>9, <1>11, <1>13

(* A call is put in line, behind all that was made before it. *)
LEMMA QueuedKeeps ==
    ASSUME SqlSound, NEW i \in Calls, NEW k \in {"plain", "tx"},
           NewCall(i, k, "line", "none"), inbox' = inbox, line' = Append(line, i),
           k = "tx" \/ cur # null \/ line # <<>>
    PROVE  SqlSound'
<1>1. /\ SqlTypeOK /\ ChannelsOrdered /\ MessagesBelong /\ AnswersCome /\ CallsKept
      /\ LineKept /\ RanKept /\ WrittenWasPosted /\ TransactionKept /\ LogKept /\ EndKept
  BY DEF SqlSound
<1>2. /\ kind' \in [Calls -> {"plain", "tx", null}] /\ stage' \in [Calls -> Stages]
      /\ outcome' \in [Calls -> Outcomes] /\ made' \in 0 .. MaxCalls
      /\ \A x \in Range(inbox) \cup Range(outbox) : Belongs(x)'
      /\ \A j \in Calls : j # i => stage'[j] = stage[j] /\ kind'[j] = kind[j]
      /\ stage'[i] = "line" /\ kind'[i] = k
      /\ CallsKept' /\ LogKept' /\ TransactionKept' /\ EndKept'
  BY NewCallKeeps
<1>3. /\ UNCHANGED <<cur, outbox, ran, closed, posted, written>> /\ made' = i /\ i = made + 1
      /\ made \in Nat
  BY <1>1 DEF NewCall, SqlTypeOK
<1>4. /\ line \in Seq(Calls) /\ line' \in Seq(Calls)
      /\ Range(line') = Range(line) \cup {i}
  BY <1>1, RangeOfAppend DEF SqlTypeOK
<1>5. SqlTypeOK'
  BY <1>1, <1>2, <1>4 DEF SqlTypeOK, NewCall
<1>6. ChannelsOrdered' /\ MessagesBelong' /\ WrittenWasPosted'
  BY <1>1, <1>2, <1>3 DEF ChannelsOrdered, MessagesBelong, WrittenWasPosted
<1>7. AnswersCome'
  <2>1. ASSUME NEW j \in Pending' PROVE Under(AwaitedOp(stage[j]), j)' /\ stage'[j] = stage[j]
    <3>1. stage'[j] = stage[j] /\ j \in Pending
      BY <1>2, <2>1 DEF Pending, Active
    <3>2. Under(AwaitedOp(stage[j]), j)
      BY <1>1, <3>1 DEF AnswersCome
    <3> QED
      BY <1>3, <3>1, <3>2 DEF Under, AwaitedOp
  <2> QED
    BY <2>1 DEF AnswersCome
<1>8. RanKept'
  BY <1>1, <1>3, NumbersOfRan DEF RanKept
<1>9. LineKept'
  <2>1. \A j \in Range(line) : j \in Calls /\ j \in Nat /\ j <= made
    BY NumbersOfLine
  <2>2. Increasing(line')
    <3>1. Calls \in SUBSET Nat /\ i \in Nat
      BY DEF Calls
    <3> QED
      BY <1>1, <1>3, <1>4, <2>1, <3>1, IncreasingAppend DEF LineKept
  <2>3. cur' = null => kind'[line'[1]] = "tx"
    <3> SUFFICES ASSUME cur = null PROVE kind'[line'[1]] = "tx"
      BY <1>3
    <3>1. CASE line = <<>>
      <4>1. line'[1] = i
        BY <3>1
      <4> QED
        BY <1>2, <3>1, <4>1
    <3>2. CASE line # <<>>
      <4>1. line'[1] = line[1] /\ line[1] \in Range(line)
        BY <1>4, <3>2 DEF Range
      <4> QED
        BY <1>1, <1>2, <1>3, <2>1, <3>2, <4>1 DEF LineKept
    <3> QED
      BY <3>1, <3>2
  <2>4. ASSUME NEW j \in Range(line')
        PROVE  /\ j <= made'
               /\ stage'[j] = "line" \/ (closed' /\ kind'[j] = "plain" /\ stage'[j] = "settled")
               /\ \A a \in Range(ran') : a < j
               /\ \A m \in Range(inbox') \cup Range(outbox') : Begins(m) => m.id < j
    <3>1. CASE j = i
      <4>1. ASSUME NEW m \in Range(inbox) \cup Range(outbox), Begins(m) PROVE m.id < i
        BY <1>3, <4>1, UnderWay, SqlClientAssumption DEF Begins, Calls
      <4> QED
        BY <1>2, <1>3, <3>1, <4>1, NumbersOfRan
    <3>2. CASE j # i
      BY <1>1, <1>2, <1>3, <1>4, <2>1, <3>2 DEF LineKept
    <3> QED
      BY <3>1, <3>2
  <2> QED
    BY <2>2, <2>3, <2>4 DEF LineKept
<1> QED
  BY <1>2, <1>5, <1>6, <1>7, <1>8, <1>9 DEF SqlSound

(* A plain call is posted, refused at once, or put in line. *)
LEMMA PlainKeeps ==
    ASSUME SqlSound, NEW i \in Calls, Plain(i)
    PROVE  SqlSound'
<1> DEFINE m == Msg("plain", i)
<1>1. /\ SqlTypeOK /\ ChannelsOrdered /\ MessagesBelong /\ AnswersCome /\ CallsKept
      /\ LineKept /\ RanKept /\ WrittenWasPosted /\ TransactionKept /\ LogKept /\ EndKept
  BY DEF SqlSound
<1>2. m \in Messages /\ m.op = "plain" /\ m.id = i /\ i # null
  BY SqlClientAssumption DEF Msg, Messages, Ops, Calls
<1>3. /\ i = made + 1 /\ made \in Nat /\ ~closed /\ ~closedTx[i]
      /\ outcome \in [Calls -> Outcomes] /\ outcome[i] = "none" /\ stage \in [Calls -> Stages]
      /\ \A j \in Calls : j \in Nat
  BY <1>1 DEF Plain, CallsKept, SqlTypeOK, Calls
<1>4. CASE NoneQueued /\ terminal
  <2>1. NewCall(i, "plain", "settled", "failed") /\ inbox' = inbox /\ line' = line
    BY <1>3, <1>4 DEF Plain, Post, Settle, NewCall
  <2>2. /\ kind' \in [Calls -> {"plain", "tx", null}] /\ stage' \in [Calls -> Stages]
        /\ outcome' \in [Calls -> Outcomes] /\ made' \in 0 .. MaxCalls
        /\ \A x \in Range(inbox) \cup Range(outbox) : Belongs(x)'
        /\ \A j \in Calls : j # i => stage'[j] = stage[j]
        /\ stage'[i] = "settled"
        /\ CallsKept' /\ LogKept' /\ TransactionKept' /\ EndKept'
    BY <2>1, NewCallKeeps
  <2>3. SqlTypeOK'
    BY <1>1, <2>1, <2>2 DEF SqlTypeOK, NewCall
  <2>4. ChannelsOrdered' /\ MessagesBelong' /\ WrittenWasPosted'
    BY <1>1, <2>1, <2>2 DEF ChannelsOrdered, MessagesBelong, WrittenWasPosted, NewCall
  <2>5. AnswersCome'
    BY <1>1, <1>4, <2>1, <2>2 DEF AnswersCome, EndKept, NewCall
  <2>6. line = <<>>
    BY <1>4 DEF NoneQueued
  <2>7. LineKept' /\ RanKept'
    <3>1. line' = <<>> /\ Range(line') = {}
      BY <2>1, <2>6 DEF Range
    <3>2. LineKept'
      <4>1. Increasing(line')
        BY <3>1 DEF Increasing
      <4> QED
        BY <3>1, <4>1 DEF LineKept
    <3>3. RanKept'
      BY <1>1, <1>3, <2>1, NumbersOfRan DEF RanKept, NewCall
    <3> QED
      BY <3>2, <3>3
  <2> QED
    BY <2>2, <2>3, <2>4, <2>5, <2>7 DEF SqlSound
<1>5. CASE NoneQueued /\ ~terminal
  <2>1. NewCall(i, "plain", "posted", "none") /\ inbox' = Append(inbox, m) /\ line' = line
    <3>1. [outcome EXCEPT ![i] = "none"] = outcome
      BY <1>3
    <3> QED
      BY <1>3, <1>5, <3>1 DEF Plain, Post, NewCall
  <2>2. /\ kind' \in [Calls -> {"plain", "tx", null}] /\ stage' \in [Calls -> Stages]
        /\ outcome' \in [Calls -> Outcomes] /\ made' \in 0 .. MaxCalls
        /\ \A x \in Range(inbox) \cup Range(outbox) : Belongs(x)'
        /\ \A j \in Calls : j # i => stage'[j] = stage[j] /\ outcome'[j] = outcome[j]
        /\ stage'[i] = "posted"
        /\ CallsKept' /\ LogKept' /\ EndKept'
    BY <1>5, <2>1, NewCallKeeps
  <2> HIDE DEF m
  <2>3. cur = null /\ line = <<>>
    BY <1>5 DEF NoneQueued
  <2>4. ASSUME NEW x \in Range(inbox) \cup Range(outbox) PROVE Precedes(x, m)
    <3>1. /\ x.id # null /\ x.id <= made /\ x.op # "begin"
          /\ x.id \in Calls
      BY <1>1, <1>3, <2>3, <2>4, UnderWay DEF CallsKept
    <3>2. x.id \in Nat
      BY <1>3, <3>1
    <3>3. x.id < i
      BY <1>3, <3>1, <3>2
    <3>4. x.id < m.id /\ m.op = "plain"
      BY <1>2, <3>3
    <3> QED
      BY <3>1, <3>4 DEF Precedes, Begins, Controls
  <2>5. outbox' = outbox /\ made' = i /\ ran' = ran /\ closed' = closed /\ UNCHANGED <<posted, written>>
    BY <2>1 DEF NewCall
  <2>6. /\ ChannelsOrdered' /\ Range(inbox') = Range(inbox) \cup {m}
        /\ inbox' \in Seq(Messages) /\ Range(outbox') = Range(outbox)
    BY <1>1, <1>2, <2>1, <2>4, <2>5, SendKeeps
  <2>7. SqlTypeOK'
    BY <1>1, <2>1, <2>2, <2>6 DEF SqlTypeOK, NewCall
  <2>8. MessagesBelong'
    <3>1. Belongs(m)'
      BY <1>2, <2>2 DEF Belongs
    <3> QED
      BY <2>2, <2>6, <3>1 DEF MessagesBelong
  <2>9. AnswersCome'
    <3>1. ASSUME NEW j \in Pending', j # i PROVE Under(AwaitedOp(stage[j]), j)' /\ stage'[j] = stage[j]
      <4>1. stage'[j] = stage[j] /\ j \in Pending
        BY <2>2, <3>1 DEF Pending
      <4>2. Under(AwaitedOp(stage[j]), j)
        BY <1>1, <4>1 DEF AnswersCome
      <4> QED
        BY <2>6, <4>1, <4>2 DEF Under, AwaitedOp
    <3>2. Under(AwaitedOp(stage[i]), i)'
      BY <1>2, <2>2, <2>6 DEF Under, AwaitedOp
    <3> QED
      BY <3>1, <3>2 DEF AnswersCome
  <2>10. \A j \in Range(ran) : j \in Nat /\ j <= made
    BY NumbersOfRan
  <2>11. RanKept' /\ LineKept'
    <3>1. line' = <<>> /\ Range(line') = {}
      BY <2>1, <2>3 DEF Range
    <3>2. LineKept'
      <4>1. Increasing(line')
        BY <3>1 DEF Increasing
      <4> QED
        BY <3>1, <4>1 DEF LineKept
    <3>3. ASSUME NEW j \in Range(ran) PROVE j <= made' /\ j < m.id
      BY <1>2, <1>3, <2>5, <2>10
    <3>4. RanKept'
      BY <1>1, <2>5, <2>6, <3>3 DEF RanKept
    <3> QED
      BY <3>2, <3>4
  <2>12. WrittenWasPosted'
    BY <1>1, <1>2, <2>1, <2>5, CountKeeps
  <2>13. TransactionKept'
    <3>1. engine.tx = null
      BY <1>3, <2>3, OwnerIsCall
    <3> QED
      BY <2>1, <3>1 DEF TransactionKept, NewCall
  <2> QED
    BY <2>2, <2>6, <2>7, <2>8, <2>9, <2>11, <2>12, <2>13 DEF SqlSound
<1>6. CASE ~NoneQueued
  <2>1. NewCall(i, "plain", "line", "none") /\ inbox' = inbox /\ line' = Append(line, i)
    <3>1. [outcome EXCEPT ![i] = "none"] = outcome
      BY <1>3
    <3> QED
      BY <1>3, <1>6, <3>1 DEF Plain, NewCall
  <2>2. QED
    BY <1>6, <2>1, QueuedKeeps DEF NoneQueued
<1> QED
  BY <1>4, <1>5, <1>6

(* So is a transaction. *)
LEMMA TransactionKeeps ==
    ASSUME SqlSound, NEW i \in Calls, Transaction(i)
    PROVE  SqlSound'
<1>1. outcome \in [Calls -> Outcomes] /\ outcome[i] = "none"
  <2>1. SqlTypeOK /\ CallsKept
    BY DEF SqlSound
  <2>2. i = made + 1 /\ made \in Nat
    BY <2>1 DEF Transaction, SqlTypeOK
  <2>3. stage[i] = "none"
    BY <2>1, <2>2 DEF CallsKept
  <2> QED
    BY <2>1, <2>3 DEF CallsKept, SqlTypeOK
<1>2. NewCall(i, "tx", "line", "none") /\ inbox' = inbox /\ line' = Append(line, i)
  <2>1. [outcome EXCEPT ![i] = "none"] = outcome
    BY <1>1
  <2> QED
    BY <2>1 DEF Transaction, NewCall
<1> QED
  BY <1>2, QueuedKeeps

(* close() cancels what waits for user code, and sends what nothing will follow. *)
LEMMA CloseKeeps ==
    ASSUME SqlSound, Close
    PROVE  SqlSound'
<1>1. /\ SqlTypeOK /\ ChannelsOrdered /\ MessagesBelong /\ AnswersCome /\ CallsKept
      /\ LineKept /\ RanKept /\ WrittenWasPosted /\ TransactionKept /\ LogKept /\ EndKept
  BY DEF SqlSound
<1>2. /\ ~closed /\ closed' = TRUE
      /\ UNCHANGED <<kind, made, terminal, line, cur, outbox, engine, faults, posted,
                     written, ran, crashed>>
  BY DEF Close
<1>3. /\ stage \in [Calls -> Stages] /\ outcome \in [Calls -> Outcomes]
      /\ closedTx \in [Calls -> BOOLEAN]
  BY <1>1 DEF SqlTypeOK
<1>4. \A i \in Calls :
        /\ stage'[i] = IF i \in Cancelled THEN "settled" ELSE stage[i]
        /\ outcome'[i] = IF i \in Cancelled THEN "closed" ELSE outcome[i]
        /\ closedTx'[i] <=> closedTx[i] \/ stage[i] \in Active
  BY <1>3 DEF Close, Open
<1>5. PICK op \in {"rollback", "close"} :
        /\ inbox' = IF terminal THEN inbox ELSE Append(inbox, Msg(op, null))
        /\ closing' = IF terminal THEN "done" ELSE op
  BY Zenon DEF Close
<1> DEFINE m == Msg(op, null)
<1>6. m \in Messages /\ m.op = op /\ m.id = null /\ ~Begins(m) /\ ~Controls(m)
  BY DEF Msg, Messages, Ops, Begins, Controls
<1> HIDE DEF m
<1>7. \A i \in Calls : i \in Cancelled =>
        /\ stage[i] \in {"line", "working"} /\ outcome[i] = "none"
        /\ stage[i] = "line" => kind[i] = "plain"
  BY <1>1 DEF Cancelled, CallsKept
<1>8. /\ Range(inbox') = IF terminal THEN Range(inbox) ELSE Range(inbox) \cup {m}
      /\ inbox' \in Seq(Messages) /\ ChannelsOrdered'
  <2>1. CASE terminal
    BY <1>1, <1>2, <1>5, <2>1 DEF ChannelsOrdered, SqlTypeOK
  <2>2. CASE ~terminal
    <3>1. ASSUME NEW x \in Range(inbox) \cup Range(outbox) PROVE Precedes(x, m)
      BY <1>2, <1>6, <3>1, UnderWay DEF Precedes
    <3>2. inbox' = Append(inbox, m)
      BY <1>5, <2>2 DEF m
    <3> QED
      BY <1>1, <1>2, <1>6, <2>2, <3>1, <3>2, SendKeeps
  <2> QED
    BY <2>1, <2>2
<1>9. SqlTypeOK'
  <2>1. /\ stage' \in [Calls -> Stages] /\ outcome' \in [Calls -> Outcomes]
    BY <1>3 DEF Close, Stages, Outcomes
  <2>2. closedTx' \in [Calls -> BOOLEAN]
    BY <1>3 DEF Close
  <2>3. closing' \in {"no", "rollback", "close", "done"}
    BY <1>5
  <2> QED
    BY <1>1, <1>2, <1>8, <2>1, <2>2, <2>3 DEF SqlTypeOK
<1>10. MessagesBelong'
  <2>1. ASSUME NEW x \in Range(inbox) \cup Range(outbox) PROVE Belongs(x)'
    <3>1. Belongs(x) /\ x.id \in Calls /\ x.id # null /\ x.op # "close"
      BY <1>1, <1>2, <2>1, UnderWay DEF MessagesBelong
    <3>2. stage[x.id] \notin {"line", "working"} => stage'[x.id] = stage[x.id]
      BY <1>4, <1>7, <3>1
    <3> QED
      BY <1>2, <3>1, <3>2 DEF Belongs
  <2>2. Belongs(m)'
    BY <1>2, <1>6 DEF Belongs
  <2> QED
    BY <1>2, <1>8, <2>1, <2>2 DEF MessagesBelong
<1>11. \A i \in Calls : i \in Pending' => i \in Pending /\ stage'[i] = stage[i]
  BY <1>4 DEF Pending, Active
<1>12. AnswersCome'
  <2>1. ASSUME NEW i \in Pending' PROVE Under(AwaitedOp(stage[i]), i)' /\ i \in Calls
    <3>1. i \in Calls
      BY DEF Pending
    <3>2. stage'[i] = stage[i] /\ Under(AwaitedOp(stage[i]), i)
      BY <1>1, <1>11, <3>1 DEF AnswersCome
    <3> QED
      BY <1>2, <1>8, <3>1, <3>2 DEF Under, AwaitedOp
  <2> QED
    BY <2>1 DEF AnswersCome
<1>13. CallsKept'
  <2>1. ASSUME NEW i \in Calls
        PROVE  /\ (kind[i] = null <=> made < i)'
               /\ (stage[i] = "none" <=> made < i)'
               /\ (stage[i] = "settled" <=> outcome[i] # "none")'
               /\ (stage[i] = "posted" => kind[i] = "plain")'
               /\ (stage[i] \in Active => kind[i] = "tx" /\ i = cur)'
               /\ (stage[i] \in Active => closedTx[i] /\ stage[i] # "working")'
               /\ (stage[i] = "line" => kind[i] = "tx")'
    <3>1. kind[i] # "plain" /\ stage[i] = "line" => kind[i] = "tx"
      BY <1>1 DEF CallsKept, SqlTypeOK
    <3> QED
      BY <1>1, <1>2, <1>4, <1>7, <3>1 DEF CallsKept, Cancelled, Active
  <2>2. cur # null => stage'[cur] \in Active \cup {"settled"}
    BY <1>1, <1>4 DEF CallsKept, SqlTypeOK
  <2> QED
    BY <1>1, <1>2, <2>1, <2>2 DEF CallsKept
<1>14. LineKept'
  <2>1. ASSUME NEW i \in Range(line)
        PROVE  /\ stage'[i] = "line" \/ (kind[i] = "plain" /\ stage'[i] = "settled")
               /\ \A x \in Range(inbox') : Begins(x) => x.id < i
    BY <1>1, <1>2, <1>4, <1>6, <1>7, <1>8, <2>1, NumbersOfLine DEF LineKept
  <2> QED
    BY <1>1, <1>2, <2>1 DEF LineKept
<1>15. RanKept'
  BY <1>1, <1>2, <1>6, <1>8 DEF RanKept
<1>16. WrittenWasPosted'
  <2>1. m.op # "statement"
    BY <1>6
  <2> QED
    BY <1>1, <1>2, <1>5, <2>1, CountKeeps DEF WrittenWasPosted, m
<1>17. TransactionKept'
  <2>1. engine.tx # null => outcome'[Owner] # "ok"
    BY <1>1, <1>4, OwnerIsCall DEF TransactionKept
  <2> QED
    BY <1>1, <1>2, <1>6, <1>8, <2>1 DEF TransactionKept, Owner
<1>18. LogKept'
  <2>1. ASSUME NEW i \in Calls PROVE outcome'[i] = "ok" <=> outcome[i] = "ok"
    BY <1>4, <1>7
  <2> QED
    BY <1>1, <1>2, <2>1 DEF LogKept, Committed, Count
<1>19. EndKept'
  <2>1. terminal => Pending' = {}
    <3>1. terminal => Pending = {}
      BY <1>1 DEF EndKept
    <3>2. Pending' \subseteq Calls
      BY DEF Pending
    <3> QED
      BY <1>11, <3>1, <3>2
  <2>2. \A i \in Calls : outcome'[i] # "dropped"
    BY <1>1, <1>4 DEF EndKept
  <2> QED
    BY <1>1, <1>2, <1>5, <2>1, <2>2 DEF EndKept
<1> QED
  BY <1>8, <1>9, <1>10, <1>12, <1>13, <1>14, <1>15, <1>16, <1>17, <1>18, <1>19 DEF SqlSound

(* What #tail lets through: the plain calls at the front of the line, in order,
   and a BEGIN behind them.  None of it may come before what was made earlier. *)
LEMMA Released ==
    ASSUME SqlSound, TailSettled, cur # null \/ line # <<>>, NEW n \in Ahead, LetThrough(n)
    PROVE  LET tx == IF n < Len(line) THEN line[n + 1] ELSE null
               starts == tx # null /\ ~closed /\ ~terminal
           IN  /\ n \in Nat /\ n <= Len(line) /\ Len(line) \in Nat
               /\ tx # null => /\ tx \in Range(line) /\ tx \in Calls /\ kind[tx] = "tx"
                               /\ stage[tx] = "line" /\ outcome[tx] = "none"
               /\ \A i \in Waiting(n) :
                     /\ i \in Range(line) /\ i \in Calls /\ kind[i] = "plain" /\ stage[i] = "line"
                     /\ outcome[i] = "none" /\ ~closed
               /\ \A i \in Calls : stage[i] \notin Active
               /\ closed \/ engine.tx = null
               /\ \E app \in Seq(Messages) :
                     /\ inbox' = inbox \o app
                     /\ Ordered(app)
                     /\ app # <<>> => ~closed /\ ~terminal
                     /\ \A a \in Range(app) : \/ a.op = "plain" /\ a.id \in Waiting(n)
                                              \/ a.op = "begin" /\ a.id = tx /\ starts
                     /\ \A a \in Range(app), k \in n + 2 .. Len(line) : a.id < line[k]
                     /\ ~terminal => \A i \in Waiting(n) :
                                        \E a \in Range(app) : a.op = "plain" /\ a.id = i
                     /\ starts => \E a \in Range(app) : a.op = "begin" /\ a.id = tx
<1> DEFINE tx == IF n < Len(line) THEN line[n + 1] ELSE null
           starts == tx # null /\ ~closed /\ ~terminal
           sent == IF closed THEN <<>> ELSE [m \in 1 .. n |-> Msg("plain", line[m])]
           start == IF starts THEN <<Msg("begin", tx)>> ELSE <<>>
           app == IF terminal THEN <<>> ELSE sent \o start
<1>1. SqlTypeOK /\ CallsKept /\ LineKept /\ TransactionKept
  BY DEF SqlSound
<1>2. /\ line \in Seq(Calls) /\ Len(line) \in Nat /\ n \in Nat /\ n <= Len(line)
      /\ inbox \in Seq(Messages)
      /\ Calls \subseteq Nat /\ null \notin Calls
  BY <1>1, SqlClientAssumption DEF SqlTypeOK, Ahead, Calls
<1>3. /\ \A k \in 1 .. n : kind[line[k]] = "plain"
      /\ n < Len(line) => kind[line[n + 1]] = "tx"
  BY DEF Ahead
<1>4. /\ \A k \in 1 .. Len(line) : line[k] \in Range(line) /\ line[k] \in Calls
      /\ \A j, k \in 1 .. Len(line) : j < k => line[j] < line[k]
  BY <1>1, <1>2 DEF Range, LineKept, Increasing
<1>5. tx # null => /\ tx = line[n + 1] /\ n < Len(line) /\ n + 1 \in 1 .. Len(line)
                   /\ tx \in Range(line) /\ tx \in Calls /\ kind[tx] = "tx"
  BY <1>2, <1>3, <1>4
<1>6. tx # null => stage[tx] = "line" /\ outcome[tx] = "none"
  <2> HIDE DEF tx
  <2> QED
    BY <1>1, <1>5 DEF LineKept, CallsKept
<1>7. ASSUME NEW i \in Waiting(n)
      PROVE  /\ i \in Range(line) /\ i \in Calls /\ kind[i] = "plain" /\ stage[i] = "line"
             /\ outcome[i] = "none" /\ ~closed
  <2>1. PICK k \in 1 .. n : i = line[k] /\ stage[line[k]] = "line"
    BY DEF Waiting
  <2>2. i \in Range(line) /\ i \in Calls /\ kind[i] = "plain" /\ stage[i] = "line"
    BY <1>2, <1>3, <1>4, <2>1
  <2> QED
    BY <1>1, <2>2 DEF CallsKept
<1>8. \A i \in Calls : stage[i] \notin Active
  BY <1>1, <1>2 DEF TailSettled, CallsKept, Active
<1>9. closed \/ engine.tx = null
  BY <1>1, <1>8, OwnerIsCall DEF TransactionKept
<1>10. inbox' = inbox \o app
  <2>1. CASE terminal
    BY <1>2, <2>1 DEF LetThrough
  <2>2. CASE ~terminal
    BY <2>2 DEF LetThrough, InOrder
  <2> QED
    BY <2>1, <2>2
<1>11. CASE closed \/ terminal
  <2>1. app = <<>>
    BY <1>11
  <2>2. Range(app) = {} /\ app \in Seq(Messages) /\ Ordered(app) /\ ~starts
    BY <1>11, <2>1 DEF Range, Ordered
  <2>3. ~terminal => Waiting(n) = {}
    BY <1>7, <1>11
  <2> HIDE DEF app, tx, starts
  <2>4. QED
    BY <1>2, <1>5, <1>6, <1>7, <1>8, <1>9, <1>10, <2>1, <2>2, <2>3 DEF tx, starts
<1>12. CASE ~closed /\ ~terminal
  <2>1. Waiting(n) = {line[k] : k \in 1 .. n}
    <3>1. ASSUME NEW k \in 1 .. n PROVE stage[line[k]] = "line"
      <4>1. line[k] \in Range(line)
        BY <1>2, <1>4
      <4> QED
        BY <1>1, <1>12, <4>1 DEF LineKept
    <3> QED
      BY <3>1 DEF Waiting
  <2>2. /\ sent = [m \in 1 .. n |-> Msg("plain", line[m])] /\ Len(sent) = n
        /\ start = IF tx # null THEN <<Msg("begin", tx)>> ELSE <<>>
        /\ app = sent \o start
    BY <1>2, <1>12
  <2>3. /\ app \in Seq(Messages)
        /\ Len(app) = IF tx # null THEN n + 1 ELSE n
        /\ \A k \in 1 .. Len(app) :
              /\ app[k] = Msg(IF k <= n THEN "plain" ELSE "begin", line[k])
              /\ k <= Len(line)
    <3>1. \A k \in 1 .. n : Msg("plain", line[k]) \in Messages
      BY <1>2, <1>4 DEF Msg, Messages, Ops
    <3>2. sent \in Seq(Messages)
      BY <1>2, <2>2, <3>1
    <3>3. CASE tx = null
      BY <1>2, <2>2, <3>2, <3>3
    <3>4. CASE tx # null
      <4> DEFINE b == Msg("begin", tx)
      <4>1. b \in Messages
        BY <1>5, <3>4 DEF Msg, Messages, Ops
      <4>2. b = Msg("begin", line[n + 1]) /\ n + 1 <= Len(line)
        BY <1>2, <1>5, <3>4
      <4> HIDE DEF b, sent, tx
      <4>3. app = sent \o <<b>>
        BY <2>2, <3>4 DEF b
      <4> QED
        BY <1>2, <2>2, <3>2, <3>4, <4>1, <4>2, <4>3
    <3> QED
      BY <3>3, <3>4
  <2> HIDE DEF app, sent, start
  <2>4. DOMAIN app = 1 .. Len(app)
    BY <2>3
  <2>5. ASSUME NEW k \in 1 .. Len(app)
        PROVE  /\ app[k].id = line[k] /\ app[k].op = IF k <= n THEN "plain" ELSE "begin"
               /\ line[k] \in Calls /\ line[k] # null
               /\ k \in Nat /\ k <= Len(line)
               /\ k <= n \/ (k = n + 1 /\ tx # null /\ line[k] = tx)
    <3>1. app[k] = Msg(IF k <= n THEN "plain" ELSE "begin", line[k]) /\ k <= Len(line) /\ k \in Nat
      BY <1>2, <2>3
    <3>2. k <= n \/ (k = n + 1 /\ tx # null)
      BY <1>2, <2>3
    <3> QED
      BY <1>2, <1>4, <1>5, <3>1, <3>2 DEF Msg
  <2>6. Ordered(app)
    <3>1. ASSUME NEW j \in 1 .. Len(app), NEW k \in 1 .. Len(app), j < k
          PROVE  Precedes(app[j], app[k])
      <4>1. j <= n /\ app[j].op = "plain" /\ app[j].id # null
        <5>1. k <= n + 1 /\ k \in Nat /\ j \in Nat
          BY <1>2, <2>5
        <5>2. j <= n
          BY <1>2, <3>1, <5>1
        <5> QED
          BY <2>5, <5>2
      <4>2. app[j].id < app[k].id
        BY <1>2, <1>4, <2>5, <3>1
      <4> QED
        BY <4>1, <4>2 DEF Precedes, Controls
    <3> QED
      BY <2>4, <3>1 DEF Ordered
  <2>7. ASSUME NEW a \in Range(app)
        PROVE  /\ \/ a.op = "plain" /\ a.id \in Waiting(n)
                  \/ a.op = "begin" /\ a.id = tx /\ starts
               /\ \A k \in n + 2 .. Len(line) : a.id < line[k]
    <3>1. PICK k \in 1 .. Len(app) : a = app[k]
      BY <2>4 DEF Range
    <3>2. k <= n => a.op = "plain" /\ a.id \in Waiting(n)
      BY <1>2, <2>1, <2>5, <3>1
    <3>3. ~(k <= n) => a.op = "begin" /\ a.id = tx /\ starts
      BY <1>2, <1>12, <2>5, <3>1
    <3>4. ASSUME NEW l \in n + 2 .. Len(line) PROVE a.id < line[l]
      <4>1. k < l /\ k \in 1 .. Len(line) /\ l \in 1 .. Len(line)
        BY <1>2, <2>5
      <4> QED
        BY <1>4, <2>5, <3>1, <4>1
    <3> QED
      BY <3>2, <3>3, <3>4
  <2>8. ASSUME NEW i \in Waiting(n)
        PROVE  \E a \in Range(app) : a.op = "plain" /\ a.id = i
    <3>1. PICK k \in 1 .. n : i = line[k]
      BY <2>1
    <3>2. Len(app) \in {n, n + 1}
      BY <2>3
    <3>3. k \in 1 .. Len(app)
      BY <1>2, <3>2
    <3>4. app[k] \in Range(app)
      BY <2>4, <3>3 DEF Range
    <3>5. app[k].op = "plain" /\ app[k].id = line[k]
      BY <1>2, <2>5, <3>3
    <3> QED
      BY <3>1, <3>4, <3>5
  <2>9. starts => \E a \in Range(app) : a.op = "begin" /\ a.id = tx
    <3> SUFFICES ASSUME starts PROVE \E a \in Range(app) : a.op = "begin" /\ a.id = tx
      OBVIOUS
    <3>1. n + 1 \in 1 .. Len(app) /\ app[n + 1] \in Range(app) /\ ~(n + 1 <= n)
      BY <1>2, <2>3, <2>4 DEF Range
    <3>2. app[n + 1].op = "begin" /\ app[n + 1].id = tx
      BY <1>2, <1>5, <2>5, <3>1
    <3> QED
      BY <3>1, <3>2
  <2> QED
    BY <1>2, <1>5, <1>6, <1>7, <1>8, <1>9, <1>10, <1>12, <2>3, <2>6, <2>7, <2>8, <2>9
    DEF tx, starts
<1> QED
  BY <1>11, <1>12

(* The tail settles: what waits behind it is sent, or fails where it stands. *)
LEMMA AdvanceKeeps ==
    ASSUME SqlSound, Advance
    PROVE  SqlSound'
<1>1. /\ SqlTypeOK /\ ChannelsOrdered /\ MessagesBelong /\ AnswersCome /\ CallsKept
      /\ LineKept /\ RanKept /\ WrittenWasPosted /\ TransactionKept /\ LogKept /\ EndKept
  BY DEF SqlSound
<1>2. PICK n \in Ahead : LetThrough(n)
  BY DEF Advance
<1>3. /\ TailSettled /\ (cur # null \/ line # <<>>)
      /\ UNCHANGED <<kind, closedTx, made, closed, closing, terminal, outbox, engine,
                     faults, posted, written, ran, crashed>>
  BY DEF Advance
<1> DEFINE tx == IF n < Len(line) THEN line[n + 1] ELSE null
           starts == tx # null /\ ~closed /\ ~terminal
           due == Waiting(n)
<1>4. PICK app \in Seq(Messages) :
        /\ inbox' = inbox \o app
        /\ Ordered(app)
        /\ app # <<>> => ~closed /\ ~terminal
        /\ \A a \in Range(app) : \/ a.op = "plain" /\ a.id \in due
                                 \/ a.op = "begin" /\ a.id = tx /\ starts
        /\ \A a \in Range(app), k \in n + 2 .. Len(line) : a.id < line[k]
        /\ ~terminal => \A i \in due : \E a \in Range(app) : a.op = "plain" /\ a.id = i
        /\ starts => \E a \in Range(app) : a.op = "begin" /\ a.id = tx
  BY <1>2, <1>3, Released
<1>5. /\ n \in Nat /\ n <= Len(line) /\ Len(line) \in Nat
      /\ tx # null => /\ tx \in Range(line) /\ tx \in Calls /\ kind[tx] = "tx"
                      /\ stage[tx] = "line" /\ outcome[tx] = "none"
      /\ \A i \in due :
            /\ i \in Range(line) /\ i \in Calls /\ kind[i] = "plain" /\ stage[i] = "line"
            /\ outcome[i] = "none" /\ ~closed
      /\ \A i \in Calls : stage[i] \notin Active
      /\ closed \/ engine.tx = null
  BY <1>2, <1>3, Released
<1>6. cur' = tx /\ line' = SubSeq(line, n + 2, Len(line))
  BY <1>2 DEF LetThrough
<1>9. tx \in Calls \cup {null} /\ null \notin Calls /\ \A i \in due : i # tx
  BY <1>5, SqlClientAssumption DEF Calls
<1>7. ASSUME NEW i \in Calls
      PROVE  /\ i = tx => /\ stage'[i] = IF starts THEN "beginning" ELSE "settled"
                          /\ outcome'[i] = IF starts THEN outcome[i]
                                           ELSE IF closed THEN "closed" ELSE "failed"
             /\ i # tx /\ i \in due =>
                          /\ stage'[i] = IF terminal THEN "settled" ELSE "posted"
                          /\ outcome'[i] = IF terminal THEN "failed" ELSE outcome[i]
             /\ i # tx /\ i \notin due => stage'[i] = stage[i] /\ outcome'[i] = outcome[i]
  <2>1. stage'[i] = CASE i = tx -> IF starts THEN "beginning" ELSE "settled"
                      [] i \in due -> IF terminal THEN "settled" ELSE "posted"
                      [] OTHER -> stage[i]
    BY <1>2 DEF LetThrough
  <2>2. outcome'[i] = CASE i = tx /\ ~starts -> IF closed THEN "closed" ELSE "failed"
                        [] i \in due /\ terminal -> "failed"
                        [] OTHER -> outcome[i]
    BY <1>2 DEF LetThrough
  <2>3. ~(i = tx /\ i \in due)
    BY <1>5, <1>9
  <2> HIDE DEF tx, starts, due
  <2>4. CASE i = tx
    BY <2>1, <2>2, <2>3, <2>4
  <2>5. CASE i # tx /\ i \in due
    BY <2>1, <2>2, <2>5
  <2>6. CASE i # tx /\ i \notin due
    BY <2>1, <2>2, <2>6
  <2> QED
    BY <2>4, <2>5, <2>6
<1>8. /\ stage' \in [Calls -> Stages] /\ outcome' \in [Calls -> Outcomes]
  <2>1. /\ stage \in [Calls -> Stages] /\ outcome \in [Calls -> Outcomes]
        /\ stage' = [i \in Calls |-> stage'[i]] /\ outcome' = [i \in Calls |-> outcome'[i]]
    <3>1. stage \in [Calls -> Stages] /\ outcome \in [Calls -> Outcomes]
      BY <1>1 DEF SqlTypeOK
    <3>2. stage' = [i \in Calls |-> stage'[i]]
      BY <1>2 DEF LetThrough
    <3>3. outcome' = [i \in Calls |-> outcome'[i]]
      BY <1>2 DEF LetThrough
    <3> QED
      BY <3>1, <3>2, <3>3
  <2>2. ASSUME NEW i \in Calls PROVE stage'[i] \in Stages /\ outcome'[i] \in Outcomes
    <3>1. stage[i] \in Stages /\ outcome[i] \in Outcomes
      BY <2>1
    <3> QED
      BY <1>7, <3>1 DEF Stages, Active, Outcomes
  <2> QED
    BY <2>1, <2>2
<1> HIDE DEF tx, starts, due
<1>10. /\ Range(inbox') = Range(inbox) \cup Range(app) /\ inbox' \in Seq(Messages)
  BY <1>1, <1>4, RangeConcatenation DEF SqlTypeOK
<1>11. ASSUME NEW x \in Range(inbox) \cup Range(outbox), NEW a \in Range(app) PROVE Precedes(x, a)
  <2>1. ~closed /\ a.id \in Range(line)
    BY <1>4, <1>5, <1>9, <1>11 DEF Range, starts
  <2>2. x.id # null /\ x.op # "begin" /\ ~Controls(x)
    BY <1>5, <2>1, <1>11, UnderWay DEF Controls, Active
  <2>3. Begins(x) => x.id < a.id
    BY <1>1, <1>11, <2>1 DEF LineKept
  <2> QED
    BY <2>2, <2>3 DEF Precedes
<1>12. ChannelsOrdered'
  <2>1. Ordered(inbox')
    BY <1>1, <1>4, <1>11, OrderedConcat DEF ChannelsOrdered, SqlTypeOK
  <2> QED
    BY <1>1, <1>3, <1>10, <1>11, <2>1 DEF ChannelsOrdered
<1>13. /\ line' \in Seq(Calls)
       /\ Len(line') = IF n + 2 <= Len(line) THEN Len(line) - n - 1 ELSE 0
       /\ \A k \in 1 .. Len(line') : line'[k] = line[n + 1 + k] /\ n + 1 + k \in n + 2 .. Len(line)
       /\ \A j \in Range(line') : \E k \in n + 2 .. Len(line) : j = line[k]
  <2>1. line \in Seq(Calls)
    BY <1>1 DEF SqlTypeOK
  <2>2. /\ line' \in Seq(Calls)
        /\ Len(line') = IF n + 2 <= Len(line) THEN Len(line) - n - 1 ELSE 0
        /\ \A k \in 1 .. Len(line') : line'[k] = line[n + 1 + k]
    <3>1. n + 2 \in Nat \ {0} /\ Len(line) \in Nat
      BY <1>5
    <3>2. \A k \in n + 2 .. Len(line) : line[k] \in Calls
      BY <2>1, <3>1
    <3>3. /\ line' \in Seq(Calls)
          /\ Len(line') = IF n + 2 <= Len(line) THEN Len(line) - (n + 2) + 1 ELSE 0
          /\ \A k \in 1 .. Len(line) - (n + 2) + 1 : line'[k] = line[n + 2 + k - 1]
      BY <1>6, <3>1, <3>2, SubSeqProperties
    <3>4. ASSUME NEW k \in 1 .. Len(line')
          PROVE  k \in 1 .. Len(line) - (n + 2) + 1 /\ n + 2 + k - 1 = n + 1 + k
      BY <1>5, <3>1, <3>3
    <3>5. Len(line) - (n + 2) + 1 = Len(line) - n - 1
      BY <1>5, <3>1
    <3> QED
      BY <3>3, <3>4, <3>5
  <2>3. \A k \in 1 .. Len(line') : n + 1 + k \in n + 2 .. Len(line)
    BY <1>5, <2>2
  <2>4. DOMAIN line' = 1 .. Len(line')
    BY <2>2
  <2> QED
    BY <2>2, <2>3, <2>4 DEF Range
<1>14. SqlTypeOK'
  BY <1>1, <1>3, <1>6, <1>8, <1>9, <1>10, <1>13 DEF SqlTypeOK
<1>15. MessagesBelong'
  <2>1. ASSUME NEW x \in Range(inbox) \cup Range(outbox) PROVE Belongs(x)'
    <3>1. Belongs(x) /\ x.id \in Calls \cup {null}
      BY <1>1, UnderWay DEF MessagesBelong
    <3>2. x.id # null /\ x.op # "statement" => stage[x.id] # "line"
      BY <2>1, <3>1, UnderWay DEF Ops, Belongs
    <3>3. x.id # null /\ x.op # "statement" => stage'[x.id] = stage[x.id]
      BY <1>5, <1>7, <3>1, <3>2
    <3> QED
      BY <1>3, <3>1, <3>3 DEF Belongs
  <2>2. ASSUME NEW a \in Range(app) PROVE Belongs(a)'
    <3>1. CASE a.op = "plain" /\ a.id \in due
      <4>1. ~terminal /\ a.id \in Calls /\ a.id # tx /\ a.id # null
        BY <1>4, <1>5, <1>9, <3>1 DEF Range
      <4>2. stage'[a.id] = "posted"
        BY <1>7, <3>1, <4>1
      <4> QED
        BY <3>1, <4>1, <4>2 DEF Belongs
    <3>2. CASE a.op = "begin" /\ a.id = tx /\ starts
      <4>1. tx # null /\ tx \in Calls
        BY <1>5, <3>2 DEF starts
      <4>2. stage'[tx] = "beginning"
        BY <1>7, <3>2, <4>1
      <4> QED
        BY <3>2, <4>1, <4>2 DEF Belongs
    <3> QED
      BY <1>4, <3>1, <3>2
  <2> QED
    BY <1>3, <1>10, <2>1, <2>2 DEF MessagesBelong
<1>16. AnswersCome'
  <2>1. ASSUME NEW j \in Calls, j \in Pending' PROVE Under(AwaitedOp(stage[j]), j)'
    <3>1. CASE j = tx
      <4>1. starts /\ stage'[j] = "beginning"
        BY <1>7, <2>1, <3>1 DEF Pending, Active
      <4>2. \E a \in Range(app) : a.op = "begin" /\ a.id = j
        BY <1>4, <3>1, <4>1
      <4> QED
        BY <1>10, <4>1, <4>2 DEF Under, AwaitedOp
    <3>2. CASE j # tx /\ j \in due
      <4>1. ~terminal /\ stage'[j] = "posted"
        BY <1>7, <2>1, <3>2 DEF Pending, Active
      <4>2. \E a \in Range(app) : a.op = "plain" /\ a.id = j
        BY <1>4, <3>2, <4>1
      <4> QED
        BY <1>10, <4>1, <4>2 DEF Under, AwaitedOp
    <3>3. CASE j # tx /\ j \notin due
      <4>1. stage'[j] = stage[j] /\ j \in Pending
        BY <1>7, <2>1, <3>3 DEF Pending
      <4>2. Under(AwaitedOp(stage[j]), j)
        BY <1>1, <4>1 DEF AnswersCome
      <4> QED
        BY <1>3, <1>10, <4>1, <4>2 DEF Under, AwaitedOp
    <3> QED
      BY <3>1, <3>2, <3>3
  <2>2. \A j \in Pending' : j \in Calls
    BY DEF Pending
  <2> QED
    BY <2>1, <2>2 DEF AnswersCome
<1>17. CallsKept'
  <2>1. ASSUME NEW i \in Calls
        PROVE  /\ (kind[i] = null <=> made < i)'
               /\ (stage[i] = "none" <=> made < i)'
               /\ (stage[i] = "settled" <=> outcome[i] # "none")'
               /\ (stage[i] = "posted" => kind[i] = "plain")'
               /\ (stage[i] \in Active => kind[i] = "tx" /\ i = cur)'
               /\ (closedTx[i] => closed)'
               /\ (stage[i] \in Active /\ closed => closedTx[i] /\ stage[i] # "working")'
               /\ (stage[i] = "line" /\ closed => kind[i] = "tx")'
    <3>1. CASE i = tx
      BY <1>1, <1>3, <1>5, <1>6, <1>7, <1>9, <3>1 DEF CallsKept, Active, starts
    <3>2. CASE i # tx /\ i \in due
      BY <1>1, <1>3, <1>5, <1>6, <1>7, <3>2 DEF CallsKept, Active
    <3>3. CASE i # tx /\ i \notin due
      BY <1>1, <1>3, <1>5, <1>6, <1>7, <3>3 DEF CallsKept
    <3> QED
      BY <3>1, <3>2, <3>3
  <2>2. cur' # null => kind'[cur'] = "tx" /\ stage'[cur'] \in Active \cup {"settled"}
    BY <1>3, <1>5, <1>6, <1>7 DEF Active
  <2> QED
    BY <2>1, <2>2 DEF CallsKept
<1>18. LineKept'
  <2>1. line \in Seq(Calls) /\ DOMAIN line = 1 .. Len(line)
    BY <1>1 DEF SqlTypeOK
  <2>2. Increasing(line')
    <3>1. DOMAIN line' = 1 .. Len(line')
      BY <1>13
    <3>2. ASSUME NEW j \in 1 .. Len(line'), NEW k \in 1 .. Len(line'), j < k
          PROVE  line'[j] < line'[k]
      <4>1. /\ line'[j] = line[n + 1 + j] /\ line'[k] = line[n + 1 + k]
            /\ n + 1 + j \in 1 .. Len(line) /\ n + 1 + k \in 1 .. Len(line)
            /\ n + 1 + j < n + 1 + k
        BY <1>5, <1>13, <3>2
      <4> QED
        BY <1>1, <2>1, <4>1 DEF LineKept, Increasing
    <3> QED
      BY <3>1, <3>2 DEF Increasing
  <2>3. cur' = null => line' = <<>>
    <3> SUFFICES ASSUME tx = null PROVE line' = <<>>
      BY <1>6
    <3>1. ~(n < Len(line))
      <4>1. ASSUME n < Len(line) PROVE FALSE
        <5>1. tx = line[n + 1] /\ n + 1 \in 1 .. Len(line)
          BY <1>5, <4>1 DEF tx
        <5>2. line[n + 1] \in Calls
          BY <2>1, <5>1
        <5> QED
          BY <1>9, <5>1, <5>2
      <4> QED
        BY <4>1
    <3>2. Len(line') = 0
      BY <1>5, <1>13, <3>1
    <3> QED
      BY <1>13, <3>2
  <2>4. ASSUME NEW j \in Range(line')
        PROVE  /\ j \in Range(line) /\ j \in Calls /\ j # tx /\ j \notin due
               /\ \A a \in Range(app) : a.id < j
    <3>1. PICK k \in n + 2 .. Len(line) : j = line[k]
      BY <1>13
    <3>2. k \in 1 .. Len(line) /\ \A l \in 1 .. n + 1 : l < k /\ l \in 1 .. Len(line)
      BY <1>5, <3>1
    <3>3. \A l \in 1 .. n + 1 : line[l] < j
      BY <1>1, <2>1, <3>1, <3>2 DEF LineKept, Increasing
    <3>4. j \in Range(line) /\ j \in Calls /\ j \in Nat
      <4>1. j \in Range(line)
        BY <2>1, <3>1, <3>2 DEF Range
      <4> QED
        BY <4>1, NumbersOfLine
    <3>5. j # tx
      <4>1. tx = null \/ tx = line[n + 1]
        BY DEF tx
      <4>2. n + 1 \in 1 .. n + 1
        BY <1>5
      <4> QED
        BY <1>9, <3>3, <3>4, <4>1, <4>2
    <3>6. j \notin due
      <4>1. due = {line[m] : m \in {l \in 1 .. n : stage[line[l]] = "line"}}
        BY DEF due, Waiting
      <4>2. \A l \in 1 .. n : l \in 1 .. n + 1
        BY <1>5
      <4> QED
        BY <3>3, <3>4, <4>1, <4>2
    <3> QED
      BY <1>4, <3>1, <3>4, <3>5, <3>6
  <2>5. ASSUME NEW j \in Range(line')
        PROVE  /\ j <= made'
               /\ stage'[j] = "line" \/ (closed' /\ kind'[j] = "plain" /\ stage'[j] = "settled")
               /\ \A a \in Range(ran') : a < j
               /\ \A m \in Range(inbox') \cup Range(outbox') : Begins(m) => m.id < j
    BY <1>1, <1>3, <1>7, <1>10, <2>4 DEF LineKept
  <2> QED
    BY <2>2, <2>3, <2>5 DEF LineKept
<1>19. RanKept'
  <2>1. ASSUME NEW j \in Range(ran), NEW a \in Range(app) PROVE j < a.id
    <3>1. a.id \in Range(line)
      BY <1>4, <1>5 DEF starts
    <3> QED
      BY <1>1, <3>1 DEF LineKept
  <2> QED
    BY <1>1, <1>3, <1>10, <2>1 DEF RanKept
<1>20. WrittenWasPosted'
  <2>1. ASSUME NEW i PROVE StatementsIn(inbox', i) = StatementsIn(inbox, i)
    <3>1. inbox \in Seq(Messages)
      BY <1>1 DEF SqlTypeOK
    <3>2. \A k \in 1 .. Len(app) : app[k].op # "statement"
      BY <1>4 DEF Range
    <3>3. /\ DOMAIN inbox' = 1 .. Len(inbox) + Len(app) /\ DOMAIN inbox = 1 .. Len(inbox)
          /\ Len(inbox) \in Nat /\ Len(app) \in Nat
          /\ \A k \in 1 .. Len(inbox) : inbox'[k] = inbox[k]
          /\ \A k \in Len(inbox) + 1 .. Len(inbox) + Len(app) :
                inbox'[k] = app[k - Len(inbox)] /\ k - Len(inbox) \in 1 .. Len(app)
      BY <1>4, <3>1
    <3> QED
      BY <3>2, <3>3 DEF StatementsIn
  <2> QED
    BY <1>1, <1>3, <2>1 DEF WrittenWasPosted
<1>21. TransactionKept'
  <2> SUFFICES ASSUME engine.tx # null PROVE TransactionKept'
    BY <1>3 DEF TransactionKept
  <2>1. closed /\ app = <<>> /\ Range(inbox') = Range(inbox)
    BY <1>4, <1>5, <1>10 DEF Range
  <2>2. outcome'[Owner] # "ok"
    BY <1>1, <1>7, <2>1, OwnerIsCall DEF TransactionKept, starts
  <2> QED
    BY <1>1, <1>3, <2>1, <2>2 DEF TransactionKept, Owner
<1>22. LogKept'
  <2>1. ASSUME NEW i \in Calls PROVE outcome'[i] = "ok" <=> outcome[i] = "ok"
    <3>1. CASE i = tx
      BY <1>5, <1>7, <1>9, <3>1
    <3>2. CASE i # tx /\ i \in due
      BY <1>5, <1>7, <3>2
    <3>3. CASE i # tx /\ i \notin due
      BY <1>7, <3>3
    <3> QED
      BY <3>1, <3>2, <3>3
  <2>2. /\ UNCHANGED <<kind, engine, written, ran, crashed, outbox>>
        /\ \A i \in Calls : Count(i)' = Count(i)
    BY <1>3 DEF Count
  <2> QED
    BY <1>1, <2>1, <2>2 DEF LogKept, Committed
<1>23. EndKept'
  <2>1. ASSUME terminal PROVE Pending' = {} /\ inbox' = <<>>
    <3>1. Pending = {} /\ inbox = <<>> /\ ~starts
      BY <1>1, <2>1 DEF EndKept, starts
    <3>2. ASSUME NEW i \in Calls, i \in Pending' PROVE FALSE
      BY <1>7, <2>1, <3>1, <3>2 DEF Pending, Active
    <3>3. Pending' \subseteq Calls
      BY DEF Pending
    <3>4. inbox \o app = <<>>
      BY <1>4, <2>1, <3>1
    <3> QED
      BY <1>4, <3>2, <3>3, <3>4
  <2>2. ASSUME NEW i \in Calls PROVE outcome'[i] # "dropped"
    BY <1>1, <1>5, <1>7 DEF EndKept
  <2> QED
    BY <1>1, <1>3, <2>1, <2>2 DEF EndKept
<1> QED
  BY <1>12, <1>14, <1>15, <1>16, <1>17, <1>18, <1>19, <1>20, <1>21, <1>22, <1>23 DEF SqlSound

-----------------------------------------------------------------------------
(* Answers.                                                                *)

(* The answer to a call that waits for it is the only thing on its way that is
   about this call, but for statements it did not wait for. *)
LEMMA ReplyIsAlone ==
    ASSUME SqlSound, outbox # <<>>, Reply.id # null, Reply.op # "statement"
    PROVE  /\ Reply.id \in Calls /\ Reply \in Range(outbox) /\ ~terminal
           /\ Range(outbox) = {Reply} \cup Range(Tail(outbox))
           /\ Tail(outbox) \in Seq(Replies)
           /\ Reply.op \in {"plain", "begin", "commit", "rollback"}
           /\ Reply.op = "plain" => stage[Reply.id] = "posted" /\ kind[Reply.id] = "plain"
           /\ Reply.op # "plain" => /\ stage[Reply.id] \in {"beginning", "committing", "rolling"}
                                    /\ kind[Reply.id] = "tx" /\ Reply.id = cur
           /\ outcome[Reply.id] = "none"
           /\ \A x \in Range(inbox) \cup Range(Tail(outbox)) :
                x.id = Reply.id => x.op = "statement"
           /\ Reply.op # "plain" =>
                \A x \in Range(inbox) \cup Range(Tail(outbox)) : ~Controls(x)
<1>1. /\ Reply \in Range(outbox)
      /\ Range(outbox) = {Reply} \cup Range(Tail(outbox))
      /\ Tail(outbox) \in Seq(Replies)
      /\ \A x \in Range(inbox) \cup Range(Tail(outbox)) : Precedes(Reply, x)
  BY ReplyIsFirst DEF SqlSound
<1>2. ~terminal
  BY DEF SqlSound, EndKept
<1>3. /\ Reply.id \in Calls /\ Reply.op \in {"plain", "begin", "commit", "rollback"}
  BY <1>1, UnderWay DEF Ops
<1>4. /\ Reply.op = "plain" => stage[Reply.id] = "posted" /\ kind[Reply.id] = "plain"
      /\ Reply.op # "plain" => /\ stage[Reply.id] \in {"beginning", "committing", "rolling"}
                               /\ Reply.id = cur
  BY <1>1, <1>3, UnderWay
<1>5. outcome[Reply.id] = "none" /\ (Reply.op # "plain" => kind[Reply.id] = "tx")
  BY <1>3, <1>4 DEF SqlSound, CallsKept, Active
<1>6. Reply.op # "plain" => Controls(Reply)
  BY <1>3 DEF Controls
<1>7. \A x \in Range(inbox) \cup Range(Tail(outbox)) : ~(Controls(Reply) /\ Controls(x))
  BY <1>1 DEF Precedes
<1>8. ASSUME NEW x \in Range(inbox) \cup Range(Tail(outbox)), x.id = Reply.id
      PROVE  x.op = "statement"
  <2>1. /\ x.op \in Ops /\ x.op # "close"
        /\ x.op = "plain" => stage[x.id] = "posted"
        /\ x.op \in {"begin", "commit", "rollback"} =>
              stage[x.id] \in {"beginning", "committing", "rolling"}
    BY <1>1, <1>8, UnderWay
  <2>2. CASE Reply.op = "plain"
    <3>1. x.op = "statement" \/ x.op = "plain"
      BY <1>4, <1>8, <2>1, <2>2 DEF Ops
    <3>2. x.op = "plain" => Reply.id < x.id
      BY <1>1, <2>2 DEF Precedes, Begins
    <3>3. Reply.id \in Nat
      BY <1>3 DEF Calls
    <3> QED
      BY <1>8, <3>1, <3>2, <3>3
  <2>3. CASE Reply.op # "plain"
    <3>1. ~Controls(x) /\ x.op # "plain"
      BY <1>4, <1>6, <1>7, <1>8, <2>1, <2>3
    <3> QED
      BY <1>8, <2>1, <3>1 DEF Controls, Ops
  <2> QED
    BY <2>2, <2>3
<1> QED
  BY <1>1, <1>2, <1>3, <1>4, <1>5, <1>6, <1>7, <1>8

(* An answer that ends its call. *)
Ends(o) ==
    /\ outbox # <<>> /\ Reply.id # null /\ Reply.op # "statement"
    /\ outbox' = Tail(outbox)
    /\ Settle(Reply.id, o)
    /\ o = "ok" => Reply.op = "plain" \/ (Reply.op = "commit" /\ Reply.ok)
    /\ o = "failed" => Reply.op \in {"plain", "rollback"}
    /\ o = "closed" => closed /\ Reply.op # "plain" /\ ~(Reply.op = "commit" /\ Reply.ok)
    /\ UNCHANGED <<kind, closedTx, made, closed, closing, terminal, line, cur, inbox, engine,
                   faults, posted, written, ran, crashed>>

LEMMA EndsKeeps ==
    ASSUME SqlSound, NEW o \in {"ok", "failed", "closed"}, Ends(o)
    PROVE  SqlSound'
<1> DEFINE i == Reply.id
<1>1. /\ SqlTypeOK /\ ChannelsOrdered /\ MessagesBelong /\ AnswersCome /\ CallsKept
      /\ LineKept /\ RanKept /\ WrittenWasPosted /\ TransactionKept /\ LogKept /\ EndKept
  BY DEF SqlSound
<1>2. /\ outbox # <<>> /\ Reply.id # null /\ Reply.op # "statement"
      /\ outbox' = Tail(outbox)
      /\ stage' = [stage EXCEPT ![i] = "settled"] /\ outcome' = [outcome EXCEPT ![i] = o]
      /\ UNCHANGED <<kind, closedTx, made, closed, closing, terminal, line, cur, inbox, engine,
                     faults, posted, written, ran, crashed>>
  BY DEF Ends, Settle
<1>3. /\ i \in Calls /\ Reply \in Range(outbox) /\ ~terminal /\ outcome[i] = "none"
      /\ Range(outbox) = {Reply} \cup Range(outbox') /\ outbox' \in Seq(Replies)
      /\ \A x \in Range(inbox) \cup Range(outbox') : x.id = i => x.op = "statement"
  BY <1>2, ReplyIsAlone
<1>4. /\ Reply.op \in {"plain", "begin", "commit", "rollback"}
      /\ Reply.op = "plain" => stage[i] = "posted" /\ kind[i] = "plain"
      /\ Reply.op # "plain" => /\ stage[i] \in {"beginning", "committing", "rolling"}
                               /\ kind[i] = "tx" /\ i = cur
  BY <1>2, ReplyIsAlone
<1>5. /\ o = "ok" => Reply.op = "plain" \/ (Reply.op = "commit" /\ Reply.ok)
      /\ o = "failed" => Reply.op \in {"plain", "rollback"}
      /\ o = "closed" => closed /\ Reply.op # "plain" /\ ~(Reply.op = "commit" /\ Reply.ok)
  BY DEF Ends
<1>6. /\ stage \in [Calls -> Stages] /\ outcome \in [Calls -> Outcomes]
      /\ \A j \in Calls : /\ stage'[j] = IF j = i THEN "settled" ELSE stage[j]
                          /\ outcome'[j] = IF j = i THEN o ELSE outcome[j]
      /\ stage' \in [Calls -> Stages] /\ outcome' \in [Calls -> Outcomes]
  BY <1>1, <1>2, <1>3 DEF SqlTypeOK, Stages, Outcomes
<1> HIDE DEF i
<1>7. ChannelsOrdered'
  BY <1>1, <1>2, TakeKeeps
<1>8. SqlTypeOK'
  BY <1>1, <1>2, <1>3, <1>6 DEF SqlTypeOK
<1>9. MessagesBelong'
  <2>1. ASSUME NEW x \in Range(inbox) \cup Range(outbox') PROVE Belongs(x)'
    <3>1. Belongs(x) /\ x.id \in Calls \cup {null}
      BY <1>1, <1>3, <2>1, UnderWay DEF MessagesBelong
    <3>2. CASE x.id = i
      BY <1>2, <1>3, <2>1, <3>1, <3>2 DEF Belongs, i
    <3>3. CASE x.id # i
      BY <1>2, <1>6, <3>1, <3>3 DEF Belongs
    <3> QED
      BY <3>2, <3>3
  <2> QED
    BY <1>2, <2>1 DEF MessagesBelong
<1>10. AnswersCome'
  <2>1. ASSUME NEW j \in Calls, j \in Pending' PROVE Under(AwaitedOp(stage[j]), j)'
    <3>1. j # i /\ stage'[j] = stage[j] /\ j \in Pending
      BY <1>6, <2>1 DEF Pending, Active
    <3>2. Under(AwaitedOp(stage[j]), j)
      BY <1>1, <3>1 DEF AnswersCome
    <3> QED
      BY <1>2, <1>3, <3>1, <3>2 DEF Under, AwaitedOp, i
  <2>2. \A j \in Pending' : j \in Calls
    BY DEF Pending
  <2> QED
    BY <2>1, <2>2 DEF AnswersCome
<1>11. CallsKept'
  BY <1>1, <1>2, <1>3, <1>4, <1>6 DEF CallsKept, Active
<1>12. LineKept' /\ RanKept'
  <2>1. \A j \in Range(line) : j # i /\ j \in Calls
    BY <1>1, <1>4, NumbersOfLine DEF LineKept
  <2> QED
    BY <1>1, <1>2, <1>3, <1>6, <2>1 DEF LineKept, RanKept
<1>13. WrittenWasPosted'
  BY <1>1, <1>2 DEF WrittenWasPosted
<1>14. TransactionKept'
  <2> SUFFICES ASSUME engine.tx # null PROVE TransactionKept'
    BY <1>2 DEF TransactionKept
  <2>1. /\ Owner \in Calls /\ kind[Owner] = "tx" /\ outcome[Owner] # "ok"
        /\ Reply.op # "rollback" /\ ~(Reply.op = "commit" /\ Reply.ok)
    BY <1>1, <1>3, OwnerIsCall DEF TransactionKept
  <2>2. Owner = i => closed /\ o = "closed"
    BY <1>4, <1>5, <2>1
  <2>3. outcome'[Owner] # "ok" /\ (Owner # i => stage'[Owner] = stage[Owner])
    BY <1>6, <2>1, <2>2
  <2> QED
    BY <1>1, <1>2, <1>3, <2>2, <2>3 DEF TransactionKept, Owner
<1>15. LogKept'
  <2>1. \A j \in Calls : Count(j)' = Count(j)
    BY <1>2 DEF Count
  <2>2. ASSUME NEW j \in Calls
        PROVE  /\ kind[j] = "tx" /\ j \in Range(engine.log) =>
                      outcome'[j] = "ok" \/ crashed \/ \E r \in Range(outbox') : Committed(r, j)
               /\ kind[j] = "tx" /\ outcome'[j] = "ok" => Count(j) = written[j]
    <3>1. CASE j = i
      <4>1. \A r \in Range(outbox') : ~Committed(r, i)
        BY <1>3 DEF Committed
      <4>2. kind[i] = "tx" /\ o = "ok" => Committed(Reply, i)
        BY <1>4, <1>5 DEF Committed, i
      <4>3. kind[i] = "tx" /\ o # "ok" => ~Committed(Reply, i)
        BY <1>4, <1>5 DEF Committed
      <4> QED
        BY <1>1, <1>3, <1>6, <3>1, <4>1, <4>2, <4>3 DEF LogKept
    <3>2. CASE j # i
      <4>1. ~Committed(Reply, j)
        BY <3>2 DEF Committed, i
      <4> QED
        BY <1>1, <1>3, <1>6, <3>2, <4>1 DEF LogKept
    <3> QED
      BY <3>1, <3>2
  <2>3. UNCHANGED <<kind, engine, written, ran, crashed>> /\ Range(outbox') \subseteq Range(outbox)
    BY <1>2, <1>3
  <2> QED
    BY <1>1, <2>1, <2>2, <2>3 DEF LogKept, Committed
<1>16. EndKept'
  <2>1. \A j \in Calls : outcome'[j] # "dropped"
    BY <1>1, <1>6 DEF EndKept
  <2> QED
    BY <1>1, <1>2, <1>3, <2>1 DEF EndKept
<1> QED
  BY <1>7, <1>8, <1>9, <1>10, <1>11, <1>12, <1>13, <1>14, <1>15, <1>16 DEF SqlSound

(* The answer to a plain call. *)
LEMMA ReceivePlainKeeps ==
    ASSUME SqlSound, ReceivePlain
    PROVE  SqlSound'
<1>1. outbox # <<>> /\ Reply.op = "plain" /\ Reply \in Range(outbox)
  BY ReplyIsFirst DEF ReceivePlain, Receives, SqlSound
<1>2. Reply.id # null
  BY <1>1, UnderWay
<1>3. CASE Reply.ok
  <2>1. Ends("ok")
    BY <1>1, <1>2, <1>3 DEF ReceivePlain, Ends
  <2> QED
    BY <2>1, EndsKeeps
<1>4. CASE ~Reply.ok
  <2>1. Ends("failed")
    BY <1>1, <1>2, <1>4 DEF ReceivePlain, Ends
  <2> QED
    BY <2>1, EndsKeeps
<1> QED
  BY <1>3, <1>4

(* The answer to the ROLLBACK of a failed transaction. *)
LEMMA ReceiveRollbackKeeps ==
    ASSUME SqlSound, ReceiveRollback
    PROVE  SqlSound'
<1>1. Ends("failed")
  BY DEF ReceiveRollback, Receives, Ends
<1> QED
  BY <1>1, EndsKeeps

(* The answer to a statement: its call goes on as it was. *)
LEMMA ReceiveStatementKeeps ==
    ASSUME SqlSound, ReceiveStatement
    PROVE  SqlSound'
<1>1. /\ SqlTypeOK /\ ChannelsOrdered /\ MessagesBelong /\ AnswersCome /\ CallsKept
      /\ LineKept /\ RanKept /\ WrittenWasPosted /\ TransactionKept /\ LogKept /\ EndKept
  BY DEF SqlSound
<1>2. /\ outbox # <<>> /\ Reply.op = "statement" /\ outbox' = Tail(outbox)
      /\ UNCHANGED <<kind, stage, outcome, closedTx, made, closed, closing, terminal,
                     line, cur, inbox, engine, faults, posted, written, ran, crashed>>
  BY DEF ReceiveStatement, Receives
<1>3. Range(outbox) = {Reply} \cup Range(outbox') /\ outbox' \in Seq(Replies)
  BY <1>1, <1>2, ReplyIsFirst
<1>4. SqlTypeOK' /\ ChannelsOrdered' /\ MessagesBelong'
  BY <1>1, <1>2, <1>3, TakeKeeps DEF SqlTypeOK, MessagesBelong, Belongs
<1>5. AnswersCome'
  <2>1. ASSUME NEW j \in Pending PROVE Under(AwaitedOp(stage[j]), j)'
    <3>1. Under(AwaitedOp(stage[j]), j)
      BY <1>1 DEF AnswersCome
    <3>2. AwaitedOp(stage[j]) # "statement" /\ AwaitedOp(stage[j])' = AwaitedOp(stage[j])
      BY <1>2 DEF AwaitedOp, Pending, Active
    <3> QED
      BY <1>2, <1>3, <3>1, <3>2 DEF Under
  <2> QED
    BY <1>2, <2>1 DEF AnswersCome, Pending
<1>6. CallsKept' /\ LineKept' /\ RanKept' /\ WrittenWasPosted'
  BY <1>1, <1>2, <1>3 DEF CallsKept, LineKept, RanKept, WrittenWasPosted
<1>7. TransactionKept' /\ EndKept'
  BY <1>1, <1>2, <1>3 DEF TransactionKept, Owner, EndKept, Pending
<1>8. LogKept'
  <2>1. \A i \in Calls : Count(i)' = Count(i) /\ ~Committed(Reply, i)
    BY <1>2 DEF Count, Committed
  <2> QED
    BY <1>1, <1>2, <1>3, <2>1 DEF LogKept, Committed
<1> QED
  BY <1>4, <1>5, <1>6, <1>7, <1>8 DEF SqlSound

(* An answer after which its transaction sends ROLLBACK. *)
RollsBack ==
    /\ outbox # <<>> /\ Reply.id # null /\ Reply.op \in {"begin", "commit"}
    /\ ~Reply.ok /\ ~closedTx[Reply.id]
    /\ outbox' = Tail(outbox)
    /\ Post(Reply.id, "rollback", "rolling")
    /\ UNCHANGED <<kind, closedTx, made, closed, closing, terminal, line, cur, engine,
                   faults, posted, written, ran, crashed>>

LEMMA RollsBackKeeps ==
    ASSUME SqlSound, RollsBack
    PROVE  SqlSound'
<1> DEFINE i == Reply.id
           m == Msg("rollback", i)
<1>1. /\ SqlTypeOK /\ ChannelsOrdered /\ MessagesBelong /\ AnswersCome /\ CallsKept
      /\ LineKept /\ RanKept /\ WrittenWasPosted /\ TransactionKept /\ LogKept /\ EndKept
  BY DEF SqlSound
<1>2. /\ outbox # <<>> /\ i # null /\ Reply.op \in {"begin", "commit"}
      /\ ~Reply.ok /\ ~closedTx[i]
      /\ outbox' = Tail(outbox)
      /\ UNCHANGED <<kind, closedTx, made, closed, closing, terminal, line, cur, engine,
                     faults, posted, written, ran, crashed>>
  BY DEF RollsBack
<1>3. /\ i \in Calls /\ Reply \in Range(outbox) /\ ~terminal
      /\ Range(outbox) = {Reply} \cup Range(outbox') /\ outbox' \in Seq(Replies)
      /\ \A x \in Range(inbox) \cup Range(outbox') : ~Controls(x)
      /\ \A x \in Range(inbox) \cup Range(outbox') : x.id = i => x.op = "statement"
      /\ stage[i] \in {"beginning", "committing", "rolling"} /\ kind[i] = "tx" /\ i = cur
  BY <1>2, ReplyIsAlone
<1>4. ~closed
  BY <1>1, <1>2, <1>3 DEF CallsKept, Active
<1>5. /\ stage' = [stage EXCEPT ![i] = "rolling"] /\ inbox' = Append(inbox, m)
      /\ outcome' = outcome
  BY <1>3 DEF RollsBack, Post
<1>6. m \in Messages /\ m.op = "rollback" /\ m.id = i /\ ~Begins(m)
  BY <1>3 DEF Msg, Messages, Ops, Begins
<1> HIDE DEF m
<1>7. /\ stage \in [Calls -> Stages]
      /\ \A j \in Calls : stage'[j] = IF j = i THEN "rolling" ELSE stage[j]
      /\ stage' \in [Calls -> Stages]
  BY <1>1, <1>3, <1>5 DEF SqlTypeOK, Stages, Active
<1> HIDE DEF i
<1>8. ASSUME NEW x \in Range(inbox) \cup Range(outbox') PROVE Precedes(x, m)
  <2>1. x.id # null /\ ~Controls(x)
    BY <1>3, <1>4, <1>8, UnderWay
  <2> QED
    BY <1>6, <2>1 DEF Precedes, Controls
<1>9. ChannelsOrdered' /\ Range(inbox') = Range(inbox) \cup {m} /\ inbox' \in Seq(Messages)
  BY <1>1, <1>2, <1>5, <1>6, <1>8, TakeAndSendKeeps
<1>10. SqlTypeOK'
  BY <1>1, <1>2, <1>3, <1>5, <1>7, <1>9 DEF SqlTypeOK
<1>11. MessagesBelong'
  <2>1. ASSUME NEW x \in Range(inbox) \cup Range(outbox') PROVE Belongs(x)'
    <3>1. Belongs(x) /\ x.id \in Calls \cup {null}
      BY <1>1, <1>3, <2>1, UnderWay DEF MessagesBelong
    <3>2. CASE x.id = i
      BY <1>2, <1>3, <2>1, <3>1, <3>2 DEF Belongs, i
    <3>3. CASE x.id # i
      BY <1>2, <1>7, <3>1, <3>3 DEF Belongs
    <3> QED
      BY <3>2, <3>3
  <2>2. ASSUME NEW x \in {m} PROVE Belongs(x)'
    BY <1>2, <1>3, <1>6, <1>7 DEF Belongs
  <2> QED
    BY <1>9, <2>1, <2>2 DEF MessagesBelong
<1>12. AnswersCome'
  <2>1. ASSUME NEW j \in Calls, j \in Pending' PROVE Under(AwaitedOp(stage[j]), j)'
    <3>1. CASE j = i
      <4>1. AwaitedOp(stage[j])' = "rollback"
        BY <1>7, <3>1 DEF AwaitedOp
      <4> QED
        BY <1>6, <1>9, <3>1, <4>1 DEF Under
    <3>2. CASE j # i
      <4>1. stage'[j] = stage[j] /\ j \in Pending
        BY <1>7, <2>1, <3>2 DEF Pending, Active
      <4>2. Under(AwaitedOp(stage[j]), j)
        BY <1>1, <4>1 DEF AnswersCome
      <4>3. AwaitedOp(stage[j])' = AwaitedOp(stage[j])
        BY <4>1 DEF AwaitedOp
      <4>4. Reply.id # j
        BY <3>2 DEF i
      <4> QED
        BY <1>3, <1>9, <4>2, <4>3, <4>4 DEF Under
    <3> QED
      BY <3>1, <3>2
  <2>2. \A j \in Pending' : j \in Calls
    BY DEF Pending
  <2> QED
    BY <2>1, <2>2 DEF AnswersCome
<1>13. CallsKept'
  BY <1>1, <1>2, <1>3, <1>4, <1>5, <1>7 DEF CallsKept, Active
<1>14. LineKept' /\ RanKept'
  <2>1. \A j \in Range(line) : j # i /\ j \in Calls
    BY <1>1, <1>3, NumbersOfLine DEF LineKept
  <2> QED
    BY <1>1, <1>2, <1>3, <1>6, <1>7, <1>9, <2>1 DEF LineKept, RanKept
<1>15. WrittenWasPosted'
  BY <1>1, <1>2, <1>5, <1>6, CountKeeps
<1>16. TransactionKept'
  BY <1>1, <1>2, <1>3, <1>4, <1>5, <1>6, <1>7, <1>9 DEF TransactionKept, Owner, Active
<1>17. LogKept'
  <2>1. \A j \in Calls : Count(j)' = Count(j) /\ ~Committed(Reply, j)
    BY <1>2 DEF Count, Committed
  <2> QED
    BY <1>1, <1>2, <1>3, <1>5, <2>1 DEF LogKept, Committed
<1>18. EndKept'
  BY <1>1, <1>2, <1>3, <1>5 DEF EndKept
<1> QED
  BY <1>9, <1>10, <1>11, <1>12, <1>13, <1>14, <1>15, <1>16, <1>17, <1>18 DEF SqlSound

(* BEGIN is answered: the callback starts, unless close() came or BEGIN failed. *)
LEMMA ReceiveBeginKeeps ==
    ASSUME SqlSound, ReceiveBegin
    PROVE  SqlSound'
<1> DEFINE i == Reply.id
<1>1. /\ SqlTypeOK /\ ChannelsOrdered /\ MessagesBelong /\ AnswersCome /\ CallsKept
      /\ LineKept /\ RanKept /\ WrittenWasPosted /\ TransactionKept /\ LogKept /\ EndKept
  BY DEF SqlSound
<1>2. /\ outbox # <<>> /\ Reply.op = "begin" /\ outbox' = Tail(outbox)
      /\ UNCHANGED <<kind, closedTx, made, closed, closing, terminal, line, cur, engine,
                     faults, posted, written, ran, crashed>>
  BY DEF ReceiveBegin, Receives
<1>3. Reply \in Range(outbox) /\ i # null
  <2>1. Reply \in Range(outbox)
    BY <1>1, <1>2, ReplyIsFirst
  <2> QED
    BY <1>2, <2>1, UnderWay
<1>4. /\ i \in Calls /\ ~terminal /\ outcome[i] = "none"
      /\ Range(outbox) = {Reply} \cup Range(outbox') /\ outbox' \in Seq(Replies)
      /\ \A x \in Range(inbox) \cup Range(outbox') : x.id = i => x.op = "statement"
      /\ stage[i] \in {"beginning", "committing", "rolling"} /\ kind[i] = "tx" /\ i = cur
  BY <1>2, <1>3, ReplyIsAlone
<1>5. CASE closedTx[i]
  <2>1. closed
    BY <1>1, <1>4, <1>5 DEF CallsKept
  <2>2. Ends("closed")
    BY <1>2, <1>3, <1>5, <2>1 DEF ReceiveBegin, Ends
  <2> QED
    BY <2>2, EndsKeeps
<1>6. CASE ~closedTx[i] /\ ~Reply.ok
  <2>1. RollsBack
    BY <1>2, <1>3, <1>6 DEF ReceiveBegin, RollsBack
  <2> QED
    BY <2>1, RollsBackKeeps
<1>7. CASE ~closedTx[i] /\ Reply.ok
  <2>1. stage' = [stage EXCEPT ![i] = "working"] /\ UNCHANGED <<outcome, inbox>>
    BY <1>7 DEF ReceiveBegin
  <2>2. ~closed
    BY <1>1, <1>4, <1>7 DEF CallsKept, Active
  <2>3. /\ stage \in [Calls -> Stages]
        /\ \A j \in Calls : stage'[j] = IF j = i THEN "working" ELSE stage[j]
        /\ stage' \in [Calls -> Stages]
    BY <1>1, <1>4, <2>1 DEF SqlTypeOK, Stages, Active
  <2> HIDE DEF i
  <2>4. SqlTypeOK' /\ ChannelsOrdered'
    BY <1>1, <1>2, <1>4, <2>1, <2>3, TakeKeeps DEF SqlTypeOK
  <2>5. MessagesBelong'
    <3>1. ASSUME NEW x \in Range(inbox) \cup Range(outbox') PROVE Belongs(x)'
      <4>1. Belongs(x) /\ x.id \in Calls \cup {null}
        BY <1>1, <1>4, <3>1, UnderWay DEF MessagesBelong
      <4>2. CASE x.id = i
        BY <1>2, <1>3, <1>4, <3>1, <4>1, <4>2 DEF Belongs
      <4>3. CASE x.id # i
        BY <1>2, <2>3, <4>1, <4>3 DEF Belongs
      <4> QED
        BY <4>2, <4>3
    <3> QED
      BY <2>1, <3>1 DEF MessagesBelong
  <2>6. AnswersCome'
    <3>1. ASSUME NEW j \in Calls, j \in Pending' PROVE Under(AwaitedOp(stage[j]), j)'
      <4>1. stage'[j] = stage[j] /\ j \in Pending /\ j # i
        BY <2>3, <3>1 DEF Pending, Active
      <4>2. Under(AwaitedOp(stage[j]), j)
        BY <1>1, <4>1 DEF AnswersCome
      <4>3. AwaitedOp(stage[j])' = AwaitedOp(stage[j]) /\ Reply.id # j
        BY <4>1 DEF AwaitedOp, i
      <4> QED
        BY <1>4, <2>1, <4>2, <4>3 DEF Under
    <3>2. \A j \in Pending' : j \in Calls
      BY DEF Pending
    <3> QED
      BY <3>1, <3>2 DEF AnswersCome
  <2>7. CallsKept'
    BY <1>1, <1>2, <1>4, <2>1, <2>2, <2>3 DEF CallsKept, Active
  <2>8. LineKept' /\ RanKept' /\ WrittenWasPosted'
    <3>1. \A j \in Range(line) : j # i /\ j \in Calls
      BY <1>1, <1>4, NumbersOfLine DEF LineKept
    <3> QED
      BY <1>1, <1>2, <1>4, <2>1, <2>3, <3>1 DEF LineKept, RanKept, WrittenWasPosted
  <2>9. TransactionKept' /\ EndKept'
    BY <1>1, <1>2, <1>4, <2>1, <2>2, <2>3 DEF TransactionKept, Owner, Active, EndKept
  <2>10. LogKept'
    <3>1. \A j \in Calls : Count(j)' = Count(j) /\ ~Committed(Reply, j)
      BY <1>2 DEF Count, Committed
    <3> QED
      BY <1>1, <1>2, <1>4, <2>1, <3>1 DEF LogKept, Committed
  <2> QED
    BY <2>4, <2>5, <2>6, <2>7, <2>8, <2>9, <2>10 DEF SqlSound
<1> QED
  BY <1>5, <1>6, <1>7

(* COMMIT is answered: the transaction is told so, or is rolled back. *)
LEMMA ReceiveCommitKeeps ==
    ASSUME SqlSound, ReceiveCommit
    PROVE  SqlSound'
<1> DEFINE i == Reply.id
<1>1. outbox # <<>> /\ Reply.op = "commit" /\ Reply \in Range(outbox)
  BY ReplyIsFirst DEF ReceiveCommit, Receives, SqlSound
<1>2. i # null /\ i \in Calls
  BY <1>1, UnderWay
<1>3. CASE Reply.ok
  <2>1. Ends("ok")
    BY <1>1, <1>2, <1>3 DEF ReceiveCommit, Ends
  <2> QED
    BY <2>1, EndsKeeps
<1>4. CASE ~Reply.ok /\ closedTx[i]
  <2>1. closed
    BY <1>2, <1>4 DEF SqlSound, CallsKept
  <2>2. Ends("closed")
    BY <1>1, <1>2, <1>4, <2>1 DEF ReceiveCommit, Ends
  <2> QED
    BY <2>2, EndsKeeps
<1>5. CASE ~Reply.ok /\ ~closedTx[i]
  <2>1. RollsBack
    BY <1>1, <1>2, <1>5 DEF ReceiveCommit, RollsBack
  <2> QED
    BY <2>1, RollsBackKeeps
<1> QED
  BY <1>3, <1>4, <1>5

(* An answer to close() finds nothing behind it, and no call that waits. *)
LEMMA CloseIsLast ==
    ASSUME SqlSound, outbox # <<>>, Reply.id = null
    PROVE  /\ closed /\ Reply \in Range(outbox)
           /\ Range(outbox) = {Reply} \cup Range(Tail(outbox))
           /\ Range(inbox) = {} /\ Range(Tail(outbox)) = {}
           /\ inbox = <<>> /\ Tail(outbox) = <<>>
           /\ Pending = {}
<1>1. /\ Reply \in Range(outbox) /\ Tail(outbox) \in Seq(Replies)
      /\ Range(outbox) = {Reply} \cup Range(Tail(outbox))
      /\ \A x \in Range(inbox) \cup Range(Tail(outbox)) : Precedes(Reply, x)
  BY ReplyIsFirst DEF SqlSound
<1>2. closed
  BY <1>1, UnderWay
<1>3. Range(inbox) = {} /\ Range(Tail(outbox)) = {}
  BY <1>1 DEF Precedes
<1>4. ASSUME NEW s, NEW S, s \in Seq(S), Range(s) = {} PROVE s = <<>>
  <2>1. DOMAIN s = 1 .. Len(s) /\ Len(s) \in Nat
    BY <1>4
  <2>2. DOMAIN s = {}
    BY <1>4 DEF Range
  <2> QED
    BY <1>4, <2>1, <2>2
<1>5. inbox = <<>> /\ Tail(outbox) = <<>>
  <2>1. inbox \in Seq(Messages)
    BY DEF SqlSound, SqlTypeOK
  <2> QED
    BY <1>1, <1>3, <1>4, <2>1
<1>6. ASSUME NEW i \in Pending PROVE FALSE
  <2>1. i \in Calls /\ Under(AwaitedOp(stage[i]), i) /\ i # null
    BY SqlClientAssumption DEF SqlSound, AnswersCome, Pending, Calls
  <2> QED
    BY <1>1, <1>3, <2>1 DEF Under
<1> QED
  BY <1>1, <1>2, <1>3, <1>5, <1>6

(* close()'s ROLLBACK is answered, and "close" is sent. *)
LEMMA ReceiveCloseRollbackKeeps ==
    ASSUME SqlSound, ReceiveCloseRollback
    PROVE  SqlSound'
<1> DEFINE m == Msg("close", null)
<1>1. /\ SqlTypeOK /\ ChannelsOrdered /\ MessagesBelong /\ AnswersCome /\ CallsKept
      /\ LineKept /\ RanKept /\ WrittenWasPosted /\ TransactionKept /\ LogKept /\ EndKept
  BY DEF SqlSound
<1>2. /\ outbox # <<>> /\ Reply.op = "rollback" /\ Reply.id = null
      /\ outbox' = Tail(outbox) /\ closing' = "close" /\ inbox' = Append(inbox, m)
      /\ UNCHANGED <<kind, stage, outcome, closedTx, made, closed, terminal, line, cur,
                     engine, faults, posted, written, ran, crashed>>
  BY DEF ReceiveCloseRollback, Receives
<1>3. /\ closed /\ Reply \in Range(outbox) /\ Range(outbox) = {Reply}
      /\ Range(inbox) = {} /\ Range(outbox') = {} /\ outbox' = <<>> /\ Pending = {}
  BY <1>2, CloseIsLast
<1>4. m \in Messages /\ m.op = "close" /\ m.id = null /\ ~Begins(m)
  BY DEF Msg, Messages, Ops, Begins
<1> HIDE DEF m
<1>5. ChannelsOrdered' /\ Range(inbox') = {m} /\ inbox' \in Seq(Messages)
  BY <1>1, <1>2, <1>3, <1>4, TakeAndSendKeeps
<1>6. SqlTypeOK' /\ MessagesBelong' /\ AnswersCome'
  BY <1>1, <1>2, <1>3, <1>4, <1>5 DEF SqlTypeOK, MessagesBelong, Belongs, AnswersCome, Pending
<1>7. CallsKept' /\ LineKept' /\ RanKept'
  BY <1>1, <1>2, <1>3, <1>4, <1>5 DEF CallsKept, LineKept, RanKept
<1>8. WrittenWasPosted'
  BY <1>1, <1>2, <1>4, CountKeeps
<1>9. engine.tx = null /\ ~terminal
  BY <1>1, <1>2, <1>3 DEF TransactionKept, EndKept
<1>10. TransactionKept' /\ EndKept'
  BY <1>1, <1>2, <1>3, <1>9 DEF TransactionKept, EndKept
<1>11. LogKept'
  <2>1. \A j \in Calls : Count(j)' = Count(j) /\ ~Committed(Reply, j)
    BY <1>2 DEF Count, Committed
  <2> QED
    BY <1>1, <1>2, <1>3, <2>1 DEF LogKept, Committed
<1> QED
  BY <1>5, <1>6, <1>7, <1>8, <1>10, <1>11 DEF SqlSound

(* The Worker is gone and nothing is under way.  What still waited for an answer
   has been told o; no call told "ok" is among it. *)
LEMMA TerminateKeeps ==
    ASSUME SqlSound, NEW o \in {"failed", "dropped"}, Terminate(o),
           o = "dropped" => Pending = {},
           UNCHANGED <<kind, closedTx, made, closed, line, cur, posted, written, ran>>,
           engine'.log = engine.log, ~engine'.open, engine'.tx = null,
           SqlTypeOK',
           crashed' \/ (crashed' = crashed /\ \A r \in Range(outbox), i \in Calls : ~Committed(r, i))
    PROVE  SqlSound'
<1>1. /\ SqlTypeOK /\ ChannelsOrdered /\ MessagesBelong /\ AnswersCome /\ CallsKept
      /\ LineKept /\ RanKept /\ WrittenWasPosted /\ TransactionKept /\ LogKept /\ EndKept
  BY DEF SqlSound
<1>2. /\ terminal' = TRUE /\ inbox' = <<>> /\ outbox' = <<>>
      /\ Range(inbox') = {} /\ Range(outbox') = {} /\ DOMAIN inbox' = {} /\ DOMAIN outbox' = {}
  BY DEF Terminate, Range
<1>3. \A i \in Calls :
        /\ stage'[i] = IF i \in Pending THEN "settled" ELSE stage[i]
        /\ outcome'[i] = IF i \notin Pending THEN outcome[i]
                         ELSE IF closedTx[i] THEN "closed" ELSE o
  BY DEF Terminate
<1>4. ASSUME NEW i \in Calls, i \in Pending
      PROVE  outcome[i] = "none" /\ outcome'[i] \in {"closed", "failed"} /\ stage[i] # "line"
             /\ stage[i] # "none"
  <2>1. stage[i] \in {"posted", "beginning", "committing", "rolling"}
    BY <1>4 DEF Pending, Active
  <2>2. o = "failed"
    BY <1>4
  <2> QED
    BY <1>1, <1>3, <1>4, <2>1, <2>2 DEF CallsKept
<1>5. ChannelsOrdered' /\ MessagesBelong'
  BY <1>2 DEF ChannelsOrdered, Ordered, MessagesBelong
<1>6. Pending' = {}
  <2>1. ASSUME NEW i \in Calls, i \in Pending' PROVE FALSE
    BY <1>3, <2>1 DEF Pending, Active
  <2> QED
    BY <2>1 DEF Pending
<1>7. AnswersCome'
  BY <1>6 DEF AnswersCome
<1>8. CallsKept'
  <2>1. ASSUME NEW i \in Calls
        PROVE  /\ (kind[i] = null <=> made < i)'
               /\ (stage[i] = "none" <=> made < i)'
               /\ (stage[i] = "settled" <=> outcome[i] # "none")'
               /\ (stage[i] = "posted" => kind[i] = "plain")'
               /\ (stage[i] \in Active => kind[i] = "tx" /\ i = cur)'
               /\ (closedTx[i] => closed)'
               /\ (stage[i] \in Active /\ closed => closedTx[i] /\ stage[i] # "working")'
               /\ (stage[i] = "line" /\ closed => kind[i] = "tx")'
    <3>1. CASE i \in Pending
      BY <1>1, <1>3, <1>4, <3>1 DEF CallsKept, Active
    <3>2. CASE i \notin Pending
      BY <1>1, <1>3, <3>2 DEF CallsKept
    <3> QED
      BY <3>1, <3>2
  <2>2. cur' # null => kind'[cur'] = "tx" /\ stage'[cur'] \in Active \cup {"settled"}
    BY <1>1, <1>3 DEF CallsKept, SqlTypeOK
  <2> QED
    BY <2>1, <2>2 DEF CallsKept
<1>9. LineKept' /\ RanKept'
  <2>1. \A i \in Range(line) : stage'[i] = stage[i]
    BY <1>1, <1>3, <1>4, NumbersOfLine DEF LineKept, Pending, Active
  <2> QED
    BY <1>1, <1>2, <2>1 DEF LineKept, RanKept
<1>10. WrittenWasPosted'
  <2>1. ASSUME NEW i \in Calls PROVE written'[i] + Cardinality(StatementsIn(inbox', i)) <= posted'[i]
    <3>1. StatementsIn(inbox', i) = {} /\ Cardinality({}) = 0
      BY <1>2, FS_EmptySet DEF StatementsIn
    <3>2. inbox \in Seq(Messages) /\ written[i] \in Nat /\ posted[i] \in Nat
      BY <1>1, SqlClientAssumption DEF SqlTypeOK
    <3>3. Cardinality(StatementsIn(inbox, i)) \in Nat
      BY <3>2, StatementsOfAppend
    <3> QED
      BY <1>1, <3>1, <3>2, <3>3 DEF WrittenWasPosted
  <2> QED
    BY <2>1 DEF WrittenWasPosted
<1>11. TransactionKept'
  BY DEF TransactionKept
<1>12. LogKept'
  <2>1. \A i \in Calls : Count(i)' = Count(i) /\ (outcome'[i] = "ok" <=> outcome[i] = "ok")
    BY <1>3, <1>4 DEF Count
  <2>2. \A i \in Calls : kind[i] = "tx" /\ i \in Range(engine.log) => outcome[i] = "ok" \/ crashed'
    BY <1>1 DEF LogKept
  <2> QED
    BY <1>1, <1>2, <2>1, <2>2 DEF LogKept
<1>13. EndKept'
  <2>1. \A i \in Calls : outcome'[i] # "dropped"
    BY <1>1, <1>3, <1>4 DEF EndKept
  <2> QED
    BY <1>2, <1>6, <2>1 DEF EndKept
<1> QED
  BY <1>5, <1>7, <1>8, <1>9, <1>10, <1>11, <1>12, <1>13 DEF SqlSound

(* "close" is answered when nothing else is pending. *)
LEMMA ReceiveCloseKeeps ==
    ASSUME SqlSound, ReceiveClose
    PROVE  SqlSound'
<1>1. SqlTypeOK /\ EndKept
  BY DEF SqlSound
<1>2. /\ outbox # <<>> /\ Reply.op = "close" /\ Terminate("dropped") /\ closing' = "done"
      /\ UNCHANGED <<kind, closedTx, made, closed, line, cur, engine, faults, posted,
                     written, ran, crashed>>
  BY DEF ReceiveClose, Receives
<1>3. Reply \in Range(outbox)
  BY <1>2, ReplyIsFirst DEF SqlSound
<1>4. Reply.id = null
  BY <1>2, <1>3, UnderWay
<1>5. Range(outbox) = {Reply} /\ Pending = {}
  BY <1>2, <1>4, CloseIsLast
<1>6. ~engine.open /\ engine.tx = null
  BY <1>1, <1>2, <1>3 DEF EndKept
<1>7. \A r \in Range(outbox), i \in Calls : ~Committed(r, i)
  BY <1>2, <1>5 DEF Committed
<1>8. SqlTypeOK'
  <2>1. /\ stage \in [Calls -> Stages] /\ outcome \in [Calls -> Outcomes]
    BY <1>1 DEF SqlTypeOK
  <2>2. stage' \in [Calls -> Stages] /\ outcome' \in [Calls -> Outcomes]
    BY <1>2, <2>1 DEF Terminate, Stages, Outcomes
  <2>3. terminal' = TRUE /\ inbox' = <<>> /\ outbox' = <<>>
    BY <1>2 DEF Terminate
  <2> QED
    BY <1>1, <1>2, <2>2, <2>3 DEF SqlTypeOK
<1> QED
  BY <1>2, <1>5, <1>6, <1>7, <1>8, TerminateKeeps

(* The Worker dies at any moment. *)
LEMMA WorkerDiesKeeps ==
    ASSUME SqlSound, WorkerDies
    PROVE  SqlSound'
<1>1. SqlTypeOK
  BY DEF SqlSound
<1>2. /\ faults < MaxFaults /\ faults' = faults + 1 /\ crashed' = TRUE /\ Terminate("failed")
      /\ closing' \in {"no", "done"}
      /\ UNCHANGED <<kind, closedTx, made, closed, line, cur, posted, written, ran>>
  BY DEF WorkerDies
<1>3. /\ engine' \in [open : BOOLEAN, interactive : BOOLEAN, tx : Seq(Calls) \cup {null},
                      log : Seq(Calls)]
      /\ engine'.log = engine.log /\ ~engine'.open /\ engine'.tx = null
  BY <1>1 DEF WorkerDies, SqlTypeOK
<1>4. SqlTypeOK'
  <2>1. /\ stage \in [Calls -> Stages] /\ outcome \in [Calls -> Outcomes]
    BY <1>1 DEF SqlTypeOK
  <2>2. stage' \in [Calls -> Stages] /\ outcome' \in [Calls -> Outcomes]
    BY <1>2, <2>1 DEF Terminate, Stages, Outcomes
  <2>3. terminal' = TRUE /\ inbox' = <<>> /\ outbox' = <<>>
    BY <1>2 DEF Terminate
  <2>4. faults' \in 0 .. MaxFaults
    BY <1>1, <1>2, SqlClientAssumption DEF SqlTypeOK
  <2> QED
    BY <1>1, <1>2, <1>3, <2>2, <2>3, <2>4 DEF SqlTypeOK
<1> QED
  BY <1>2, <1>3, <1>4, TerminateKeeps

-----------------------------------------------------------------------------
(* The steps of the Worker.                                                *)

(* Whatever the message was, its answer takes its place on the way back. *)
LEMMA ServedKeeps ==
    ASSUME SqlSound, inbox # <<>>, NEW ok \in BOOLEAN, Answer(ok)
    PROVE  /\ ChannelsOrdered' /\ MessagesBelong' /\ AnswersCome' /\ CallsKept'
           /\ inbox' \in Seq(Messages) /\ outbox' \in Seq(Replies)
           /\ ~terminal /\ Request \in Range(inbox)
           /\ Range(inbox) = {Request} \cup Range(inbox')
           /\ \A x \in Range(inbox') : Precedes(Request, x)
           /\ \A x \in Range(outbox) : Precedes(x, Request)
           /\ \E r \in Replies : /\ r.op = Request.op /\ r.id = Request.id /\ r.ok = ok
                                 /\ Range(outbox') = Range(outbox) \cup {r}
           /\ \A j : /\ Cardinality(StatementsIn(inbox', j)) \in Nat
                     /\ Cardinality(StatementsIn(inbox, j)) =
                          Cardinality(StatementsIn(inbox', j))
                          + IF Request.op = "statement" /\ Request.id = j THEN 1 ELSE 0
<1> DEFINE r == [op |-> Request.op, id |-> Request.id, ok |-> ok]
<1>1. /\ SqlTypeOK /\ ChannelsOrdered /\ MessagesBelong /\ AnswersCome /\ CallsKept /\ EndKept
  BY DEF SqlSound
<1>2. /\ ChannelsOrdered'
      /\ Range(inbox) = {Request} \cup Range(inbox')
      /\ Range(outbox') = Range(outbox) \cup {r}
      /\ inbox' \in Seq(Messages) /\ outbox' \in Seq(Replies)
      /\ Request \in Messages
  BY <1>1, AnswerKeeps
<1>3. /\ inbox' = Tail(inbox)
      /\ UNCHANGED <<kind, stage, outcome, closedTx, made, closed, closing, terminal,
                     line, cur, posted, crashed>>
  BY DEF Answer
<1>4. r \in Replies /\ r.op = Request.op /\ r.id = Request.id /\ r.ok = ok
  BY <1>2 DEF Messages, Replies
<1> HIDE DEF r
<1>5. MessagesBelong'
  <2>1. ASSUME NEW x \in Range(inbox) \cup Range(outbox) PROVE Belongs(x)'
    BY <1>1, <1>3 DEF MessagesBelong, Belongs
  <2>2. ASSUME NEW x \in {r} PROVE Belongs(x)'
    <3>1. Belongs(Request)
      BY <1>1, <1>2 DEF MessagesBelong
    <3> QED
      BY <1>3, <1>4, <3>1 DEF Belongs
  <2> QED
    BY <1>2, <2>1, <2>2 DEF MessagesBelong
<1>6. AnswersCome'
  <2>1. ASSUME NEW j \in Pending PROVE Under(AwaitedOp(stage[j]), j)'
    <3>1. Under(AwaitedOp(stage[j]), j) /\ AwaitedOp(stage[j])' = AwaitedOp(stage[j])
      BY <1>1, <1>3 DEF AnswersCome, AwaitedOp
    <3> QED
      BY <1>2, <1>4, <3>1 DEF Under
  <2> QED
    BY <1>3, <2>1 DEF AnswersCome, Pending
<1>7. CallsKept'
  BY <1>1, <1>3 DEF CallsKept
<1>8. ~terminal
  BY <1>1 DEF EndKept
<1>9. /\ \A x \in Range(inbox') : Precedes(Request, x)
      /\ \A x \in Range(outbox) : Precedes(x, Request)
  BY <1>1, <1>3, RequestIsFirst
<1>10. ASSUME NEW j
       PROVE  /\ Cardinality(StatementsIn(inbox', j)) \in Nat
              /\ Cardinality(StatementsIn(inbox, j)) =
                   Cardinality(StatementsIn(inbox', j))
                   + IF Request.op = "statement" /\ Request.id = j THEN 1 ELSE 0
  <2>1. inbox \in Seq(Messages)
    BY <1>1 DEF SqlTypeOK
  <2> QED
    BY <1>3, <2>1, StatementsOfTail DEF Request
<1> QED
  BY <1>2, <1>4, <1>5, <1>6, <1>7, <1>8, <1>9, <1>10

(* The engine answers a message other than a statement, and starts no call. *)
LEMMA QuietKeeps ==
    ASSUME SqlSound, inbox # <<>>, NEW ok \in BOOLEAN, Answer(ok), Request.op # "statement",
           UNCHANGED <<written, ran>>
    PROVE  LineKept' /\ RanKept' /\ WrittenWasPosted'
<1>1. LineKept /\ RanKept /\ WrittenWasPosted
  BY DEF SqlSound
<1>2. /\ Range(inbox) = {Request} \cup Range(inbox') /\ Request \in Range(inbox)
      /\ \A j : Cardinality(StatementsIn(inbox', j)) = Cardinality(StatementsIn(inbox, j))
  BY ServedKeeps
<1>3. PICK r \in Replies : /\ r.op = Request.op /\ r.id = Request.id
                           /\ Range(outbox') = Range(outbox) \cup {r}
  BY ServedKeeps
<1>4. UNCHANGED <<kind, stage, made, closed, line, cur, posted>>
  BY DEF Answer
<1>5. LineKept'
  <2>1. Begins(r) <=> Begins(Request)
    BY <1>3 DEF Begins
  <2> QED
    BY <1>1, <1>2, <1>3, <1>4, <2>1 DEF LineKept
<1>6. RanKept' /\ WrittenWasPosted'
  BY <1>1, <1>2, <1>4 DEF RanKept, WrittenWasPosted
<1> QED
  BY <1>5, <1>6

(* The engine starts a call: it is the latest that was made of those started. *)
LEMMA StartKeeps ==
    ASSUME SqlSound, inbox # <<>>, NEW ok \in BOOLEAN, Answer(ok), Begins(Request),
           ran' = Append(ran, Request.id), written' = written
    PROVE  /\ LineKept' /\ RanKept' /\ WrittenWasPosted'
           /\ Request.id \in Calls /\ ran' \in Seq(Calls)
           /\ Range(ran') = Range(ran) \cup {Request.id} /\ Request.id \notin Range(ran)
           /\ ran' # <<>> /\ Owner' = Request.id
           /\ engine.tx = null
<1> DEFINE i == Request.id
<1>1. /\ SqlTypeOK /\ LineKept /\ RanKept /\ WrittenWasPosted /\ TransactionKept
  BY DEF SqlSound
<1>2. /\ Range(inbox) = {Request} \cup Range(inbox') /\ Request \in Range(inbox)
      /\ \A x \in Range(inbox') : Precedes(Request, x)
      /\ \A j : Request.op # "statement" =>
            Cardinality(StatementsIn(inbox', j)) = Cardinality(StatementsIn(inbox, j))
  BY ServedKeeps
<1>3. PICK r \in Replies : /\ r.op = Request.op /\ r.id = Request.id
                           /\ Range(outbox') = Range(outbox) \cup {r}
  BY ServedKeeps
<1>4. /\ UNCHANGED <<kind, stage, made, closed, line, cur, posted>>
      /\ Request.op # "statement" /\ Request.op # "close" /\ Request.op # "rollback"
  BY DEF Answer, Begins
<1>5. i \in Calls /\ i <= made /\ i \in Nat /\ i # null
  BY <1>2, <1>4, UnderWay, SqlClientAssumption DEF Calls
<1>6. /\ ran \in Seq(Calls) /\ ran' \in Seq(Calls) /\ Range(ran') = Range(ran) \cup {i}
      /\ ran' # <<>> /\ ran'[Len(ran')] = i
  <2>1. ran \in Seq(Calls)
    BY <1>1 DEF SqlTypeOK
  <2>2. Range(Append(ran, i)) = Range(ran) \cup {i}
    BY <2>1, RangeOfAppend
  <2> HIDE DEF i
  <2>3. ran' = Append(ran, i)
    BY DEF i
  <2> QED
    BY <1>5, <2>1, <2>2, <2>3
<1>7. \A j \in Range(ran) : j < i
  BY <1>1, <1>2 DEF RanKept
<1> HIDE DEF i
<1>8. \A x \in Range(inbox') : Begins(x) => i < x.id
  BY <1>2 DEF Precedes, i
<1>9. RanKept'
  <2>1. Increasing(Append(ran, i))
    <3>1. Calls \in SUBSET Nat
      BY DEF Calls
    <3> QED
      BY <1>1, <1>5, <1>6, <1>7, <3>1, IncreasingAppend DEF RanKept
  <2>2. Increasing(ran')
    BY <2>1 DEF i
  <2> QED
    BY <1>1, <1>2, <1>4, <1>5, <1>6, <1>8, <2>2 DEF RanKept
<1>10. LineKept'
  <2>1. \A j \in Range(line) : i < j
    BY <1>1, <1>2 DEF LineKept, i
  <2>2. Begins(r) <=> Begins(Request)
    BY <1>3 DEF Begins
  <2> QED
    BY <1>1, <1>2, <1>3, <1>4, <1>6, <2>1, <2>2 DEF LineKept
<1>11. WrittenWasPosted'
  BY <1>1, <1>2, <1>4 DEF WrittenWasPosted
<1>12. engine.tx = null
  BY <1>1, <1>2, <1>5 DEF TransactionKept, i
<1>13. i \notin Range(ran)
  BY <1>5, <1>7
<1> QED
  BY <1>5, <1>6, <1>9, <1>10, <1>11, <1>12, <1>13 DEF i, Owner

(* How often a number is in a sequence to which another is appended. *)
Places(s, i) == {n \in DOMAIN s : s[n] = i}

LEMMA PlacesOfConcat ==
    ASSUME NEW S, NEW s \in Seq(S), NEW t \in Seq(S), NEW i
    PROVE  /\ (\A n \in DOMAIN t : t[n] # i) => Places(s \o t, i) = Places(s, i)
           /\ (\A n \in DOMAIN t : t[n] = i) /\ i \notin Range(s) =>
                 Cardinality(Places(s \o t, i)) = Len(t)
<1> DEFINE u == s \o t
<1>1. /\ DOMAIN u = 1 .. Len(s) + Len(t) /\ Len(s) \in Nat /\ Len(t) \in Nat
      /\ DOMAIN s = 1 .. Len(s) /\ DOMAIN t = 1 .. Len(t)
      /\ \A n \in 1 .. Len(s) : u[n] = s[n]
      /\ \A n \in Len(s) + 1 .. Len(s) + Len(t) :
            u[n] = t[n - Len(s)] /\ n - Len(s) \in 1 .. Len(t)
  OBVIOUS
<1> HIDE DEF u
<1>2. (\A n \in DOMAIN t : t[n] # i) => Places(u, i) = Places(s, i)
  BY <1>1 DEF Places
<1>3. ASSUME \A n \in DOMAIN t : t[n] = i, i \notin Range(s)
      PROVE  Cardinality(Places(u, i)) = Len(t)
  <2>1. \A n \in 1 .. Len(s) : u[n] # i
    BY <1>1, <1>3 DEF Range
  <2>2. Places(u, i) = Len(s) + 1 .. Len(s) + Len(t)
    <3>1. ASSUME NEW n \in Places(u, i) PROVE n \in Len(s) + 1 .. Len(s) + Len(t)
      <4>1. n \in 1 .. Len(s) + Len(t) /\ u[n] = i
        BY <1>1 DEF Places
      <4>2. n \notin 1 .. Len(s)
        BY <1>1, <2>1, <4>1
      <4> QED
        BY <1>1, <4>1, <4>2
    <3>2. ASSUME NEW n \in Len(s) + 1 .. Len(s) + Len(t) PROVE n \in Places(u, i)
      <4>1. u[n] = t[n - Len(s)] /\ n - Len(s) \in DOMAIN t /\ n \in DOMAIN u
        BY <1>1
      <4> QED
        BY <1>3, <4>1 DEF Places
    <3> QED
      BY <3>1, <3>2
  <2>3. Len(s) + 1 \in Int /\ Len(s) + Len(t) \in Int
    BY <1>1
  <2>4. ASSUME NEW a \in Int, NEW b \in Int
        PROVE  Cardinality(a .. b) = IF a > b THEN 0 ELSE b - a + 1
    BY FS_Interval
  <2>5. Cardinality(Len(s) + 1 .. Len(s) + Len(t)) = Len(t)
    <3> DEFINE a == Len(s) + 1
               b == Len(s) + Len(t)
    <3>1. a \in Int /\ b \in Int /\ (a > b => Len(t) = 0) /\ b - a + 1 = Len(t)
      BY <1>1
    <3> HIDE DEF a, b
    <3>2. Cardinality(a .. b) = Len(t)
      BY <2>4, <3>1
    <3> QED
      BY <3>2 DEF a, b
  <2> QED
    BY <2>2, <2>5
<1> QED
  BY <1>2, <1>3 DEF u

(* The engine's record after a change to some of its fields. *)
LEMMA EngineType ==
    ASSUME SqlTypeOK
    PROVE  /\ engine \in [open : BOOLEAN, interactive : BOOLEAN, tx : Seq(Calls) \cup {null},
                          log : Seq(Calls)]
           /\ engine.log \in Seq(Calls) /\ engine.tx \in Seq(Calls) \cup {null}
           /\ null \notin Seq(Calls) /\ engine.open \in BOOLEAN /\ engine.interactive \in BOOLEAN
<1>1. Seq(Calls) \subseteq Seq(Nat)
  <2>1. Calls \subseteq Nat
    BY DEF Calls
  <2> QED
    BY <2>1, SeqMonotonic
<1> QED
  BY <1>1, SqlClientAssumption DEF SqlTypeOK

(* A plain call is started when no transaction is open, and is in the log if it
   succeeds. *)
LEMMA RunPlainKeeps ==
    ASSUME SqlSound, RunPlain
    PROVE  SqlSound'
<1> DEFINE i == Request.id
<1>1. /\ SqlTypeOK /\ MessagesBelong /\ TransactionKept /\ LogKept /\ EndKept
  BY DEF SqlSound
<1>2. /\ inbox # <<>> /\ Request.op = "plain" /\ ran' = Append(ran, i) /\ written' = written
  BY DEF RunPlain, Serves
<1>3. PICK ok \in BOOLEAN : Answer(ok)
  BY DEF RunPlain, Done, Failed
<1>4. Begins(Request)
  BY <1>2 DEF Begins
<1>5. /\ LineKept' /\ RanKept' /\ WrittenWasPosted'
      /\ i \in Calls /\ ran' \in Seq(Calls)
      /\ Range(ran') = Range(ran) \cup {i} /\ engine.tx = null
  BY <1>2, <1>3, <1>4, StartKeeps
<1>6. /\ ChannelsOrdered' /\ MessagesBelong' /\ AnswersCome' /\ CallsKept'
      /\ inbox' \in Seq(Messages) /\ outbox' \in Seq(Replies)
      /\ ~terminal /\ Request \in Range(inbox)
  BY <1>2, <1>3, ServedKeeps
<1>7. PICK r \in Replies : /\ r.op = "plain"
                           /\ Range(outbox') = Range(outbox) \cup {r}
  BY <1>2, <1>3, ServedKeeps
<1>8. UNCHANGED <<kind, stage, outcome, closedTx, made, closed, closing, terminal,
                  line, cur, posted, crashed>>
  BY <1>3 DEF Answer
<1>9. kind[i] = "plain"
  BY <1>2, <1>6, UnderWay
<1> HIDE DEF i
<1>10. /\ engine' \in [open : BOOLEAN, interactive : BOOLEAN, tx : Seq(Calls) \cup {null},
                       log : Seq(Calls)]
       /\ engine'.open = engine.open /\ engine'.tx = null
       /\ engine'.log = engine.log \/ engine'.log = engine.log \o <<i>>
       /\ faults' \in 0 .. MaxFaults
  <2>1. engine.log \in Seq(Calls) /\ Append(engine.log, i) = engine.log \o <<i>>
    BY <1>1, EngineType
  <2>2. engine' = [engine EXCEPT !.log = Append(@, i)] \/ engine' = engine
    BY <1>5 DEF RunPlain, i
  <2>3. faults' \in 0 .. MaxFaults
    <3>1. faults' = faults \/ (faults < MaxFaults /\ faults' = faults + 1)
      BY DEF RunPlain, Done, Failed
    <3>2. faults \in 0 .. MaxFaults
      BY <1>1 DEF SqlTypeOK
    <3> QED
      BY <3>1, <3>2, SqlClientAssumption
  <2>4. CASE engine' = [engine EXCEPT !.log = Append(@, i)]
    <3>1. Append(engine.log, i) \in Seq(Calls)
      BY <1>5, <2>1
    <3> QED
      BY <1>1, <1>5, <2>1, <2>3, <2>4, <3>1, EngineType
  <2>5. CASE engine' = engine
    BY <1>1, <1>5, <2>3, <2>5, EngineType
  <2> QED
    BY <2>2, <2>4, <2>5
<1>11. SqlTypeOK'
  BY <1>1, <1>2, <1>5, <1>6, <1>8, <1>10 DEF SqlTypeOK
<1>12. TransactionKept'
  BY <1>10 DEF TransactionKept
<1>13. /\ Range(engine'.log) \subseteq Range(engine.log) \cup {i}
       /\ \A j : j # i => Count(j)' = Count(j)
       /\ \A j : j # i => (j \in Range(engine'.log) <=> j \in Range(engine.log))
  <2>1. CASE engine'.log = engine.log
    BY <2>1 DEF Count
  <2>2. CASE engine'.log = engine.log \o <<i>>
    <3> DEFINE one == <<i>>
    <3>1. one \in Seq(Calls) /\ DOMAIN one = {1} /\ one[1] = i
      BY <1>5
    <3>2. engine.log \in Seq(Calls)
      BY <1>1, EngineType
    <3> HIDE DEF one
    <3>3. Range(one) = {i}
      BY <3>1 DEF Range
    <3>4. engine'.log = engine.log \o one
      BY <2>2 DEF one
    <3>5. Range(engine'.log) = Range(engine.log) \cup {i}
      BY <3>1, <3>2, <3>3, <3>4, RangeConcatenation
    <3>6. ASSUME NEW j, j # i PROVE Count(j)' = Count(j)
      <4>1. \A n \in DOMAIN one : one[n] # j
        BY <3>1, <3>6
      <4>2. Places(engine.log \o one, j) = Places(engine.log, j)
        BY <3>1, <3>2, <4>1, PlacesOfConcat
      <4> QED
        BY <3>4, <4>2 DEF Count, Places
    <3> QED
      BY <3>5, <3>6
  <2> QED
    BY <1>10, <2>1, <2>2
<1>14. LogKept'
  <2>1. ASSUME NEW j \in Calls
        PROVE  /\ (j \in Range(engine.log) \/ written[j] > 0 => j \in Range(ran))'
               /\ (kind[j] = "tx" /\ j \in Range(engine.log) =>
                     outcome[j] = "ok" \/ crashed \/ \E x \in Range(outbox) : Committed(x, j))'
               /\ (kind[j] = "tx" /\ outcome[j] = "ok" => Count(j) = written[j])'
               /\ (\A x \in Range(outbox) : Committed(x, j) => Count(j) = written[j])'
    <3>1. ~Committed(r, j)
      BY <1>7 DEF Committed
    <3>2. CASE j = i
      <4>1. \A x \in Range(outbox') : ~Committed(x, i)
        <5>1. ASSUME NEW x \in Range(outbox), Committed(x, i) PROVE FALSE
          <6>1. x.op = "commit" /\ x.id = i /\ stage[i] = "committing" /\ i = cur
            BY <5>1, UnderWay DEF Committed
          <6>2. kind[i] = "tx"
            BY <1>5, <6>1 DEF SqlSound, CallsKept, Active
          <6> QED
            BY <1>9, <6>2
        <5> QED
          BY <1>7, <3>1, <3>2, <5>1
      <4>2. kind'[i] # "tx" /\ i \in Range(ran')
        BY <1>5, <1>8, <1>9
      <4> QED
        BY <3>2, <4>1, <4>2 DEF Committed
    <3>3. CASE j # i
      <4>1. Count(j)' = Count(j) /\ (j \in Range(engine'.log) <=> j \in Range(engine.log))
        BY <1>13, <3>3
      <4> QED
        BY <1>1, <1>2, <1>5, <1>7, <1>8, <3>1, <4>1 DEF LogKept, Committed
    <3> QED
      BY <3>2, <3>3
  <2> QED
    BY <2>1 DEF LogKept
<1>15. EndKept'
  BY <1>1, <1>6, <1>7, <1>8, <1>10 DEF EndKept
<1> QED
  BY <1>5, <1>6, <1>11, <1>12, <1>14, <1>15 DEF SqlSound

(* BEGIN: only messages of close() follow it until it is answered, and none of
   the answers before it steers a transaction. *)
LEMMA RunBeginKeeps ==
    ASSUME SqlSound, RunBegin
    PROVE  SqlSound'
<1> DEFINE i == Request.id
<1>1. /\ SqlTypeOK /\ MessagesBelong /\ TransactionKept /\ LogKept /\ EndKept /\ RanKept /\ CallsKept
  BY DEF SqlSound
<1>2. /\ inbox # <<>> /\ Request.op = "begin" /\ ran' = Append(ran, i) /\ written' = written
  BY DEF RunBegin, Serves
<1>3. PICK ok \in BOOLEAN : Answer(ok)
  BY DEF RunBegin, Done, Failed
<1>4. Begins(Request)
  BY <1>2 DEF Begins
<1>5. /\ LineKept' /\ RanKept' /\ WrittenWasPosted'
      /\ i \in Calls /\ ran' \in Seq(Calls) /\ ran' # <<>> /\ Owner' = i
      /\ Range(ran') = Range(ran) \cup {i} /\ i \notin Range(ran) /\ engine.tx = null
  BY <1>2, <1>3, <1>4, StartKeeps
<1>6. /\ ChannelsOrdered' /\ MessagesBelong' /\ AnswersCome' /\ CallsKept'
      /\ inbox' \in Seq(Messages) /\ outbox' \in Seq(Replies)
      /\ ~terminal /\ Request \in Range(inbox)
      /\ \A x \in Range(inbox') : Precedes(Request, x)
      /\ \A x \in Range(outbox) : Precedes(x, Request)
  BY <1>2, <1>3, ServedKeeps
<1>7. PICK r \in Replies : /\ r.op = "begin"
                           /\ Range(outbox') = Range(outbox) \cup {r}
  BY <1>2, <1>3, ServedKeeps
<1>8. UNCHANGED <<kind, stage, outcome, closedTx, made, closed, closing, terminal,
                  line, cur, posted, crashed>>
  BY <1>3 DEF Answer
<1>9. i = cur /\ stage[i] \in Active /\ i # null
  BY <1>2, <1>5, <1>6, UnderWay, SqlClientAssumption DEF Active, Calls
<1>10. kind[i] = "tx" /\ outcome[i] = "none"
  BY <1>1, <1>5, <1>9 DEF CallsKept, Active
<1> HIDE DEF i
<1>11. /\ engine' \in [open : BOOLEAN, interactive : BOOLEAN, tx : Seq(Calls) \cup {null},
                       log : Seq(Calls)]
       /\ engine'.open = engine.open /\ engine'.log = engine.log
       /\ engine'.tx = null \/ (engine'.tx = <<>> /\ engine'.interactive)
       /\ faults' \in 0 .. MaxFaults
  <2>1. \/ engine' = [engine EXCEPT !.interactive = TRUE, !.tx = <<>>] /\ faults' = faults
        \/ engine' = engine /\ faults < MaxFaults /\ faults' = faults + 1
    BY DEF RunBegin, Done, Failed
  <2>2. faults \in 0 .. MaxFaults
    BY <1>1 DEF SqlTypeOK
  <2>3. CASE engine' = [engine EXCEPT !.interactive = TRUE, !.tx = <<>>] /\ faults' = faults
    <3> DEFINE none == <<>>
    <3>1. none \in Seq(Calls)
      OBVIOUS
    <3> HIDE DEF none
    <3>2. engine' = [engine EXCEPT !.interactive = TRUE, !.tx = none]
      BY <2>3 DEF none
    <3>3. /\ engine' \in [open : BOOLEAN, interactive : BOOLEAN, tx : Seq(Calls) \cup {null},
                           log : Seq(Calls)]
          /\ engine'.open = engine.open /\ engine'.log = engine.log
          /\ engine'.tx = none /\ engine'.interactive
      BY <1>1, <3>1, <3>2, EngineType
    <3> QED
      BY <2>2, <2>3, <3>3 DEF none
  <2>4. CASE engine' = engine /\ faults < MaxFaults /\ faults' = faults + 1
    BY <1>1, <1>5, <2>2, <2>4, EngineType, SqlClientAssumption
  <2> QED
    BY <2>1, <2>3, <2>4
<1>12. SqlTypeOK'
  BY <1>1, <1>2, <1>5, <1>6, <1>8, <1>11 DEF SqlTypeOK
<1>13. TransactionKept'
  <2> SUFFICES ASSUME engine'.tx # null PROVE TransactionKept'
    BY DEF TransactionKept
  <2>1. engine'.tx = <<>> /\ engine'.interactive /\ Len(engine'.tx) = 0 /\ DOMAIN engine'.tx = {}
    BY <1>11
  <2>2. written'[i] = 0
    <3>1. ~(written[i] > 0)
      BY <1>1, <1>5 DEF LogKept
    <3>2. written[i] \in Nat
      BY <1>1, <1>5, SqlClientAssumption DEF SqlTypeOK
    <3> QED
      BY <1>2, <3>1, <3>2
  <2>3. i \notin Range(engine'.log)
    BY <1>1, <1>5, <1>11 DEF LogKept
  <2>4. \A m \in Range(inbox') : m.id = null
    BY <1>2, <1>6 DEF Precedes
  <2>5. ASSUME NEW x \in Range(outbox') PROVE x.op # "rollback" /\ x.op # "commit"
    <3>1. CASE x = r
      BY <1>7, <3>1
    <3>2. CASE x \in Range(outbox)
      <4>1. x.id # null /\ ~Controls(x)
        BY <1>2, <1>6, <1>9, <3>2 DEF Precedes, Controls, i
      <4> QED
        BY <4>1 DEF Controls
    <3> QED
      BY <1>7, <3>1, <3>2
  <2>6. kind'[i] = "tx" /\ outcome'[i] # "ok" /\ cur' = i /\ stage'[i] \in Active
    BY <1>8, <1>9, <1>10
  <2> QED
    BY <1>5, <2>1, <2>2, <2>3, <2>4, <2>5, <2>6 DEF TransactionKept
<1>14. LogKept'
  <2>1. \A j \in Calls : Count(j)' = Count(j) /\ ~Committed(r, j)
    BY <1>7, <1>11 DEF Count, Committed
  <2> QED
    BY <1>1, <1>2, <1>5, <1>7, <1>8, <1>11, <2>1 DEF LogKept, Committed
<1>15. EndKept'
  <2>1. \A x \in Range(outbox') : x.op # "close"
    <3>1. ASSUME NEW x \in Range(outbox) PROVE x.op # "close"
      BY <1>6, <3>1, UnderWay DEF Precedes
    <3> QED
      BY <1>7, <3>1
  <2> QED
    BY <1>1, <1>6, <1>8, <2>1 DEF EndKept
<1> QED
  BY <1>5, <1>6, <1>12, <1>13, <1>14, <1>15 DEF SqlSound

(* The engine ends the transaction, or leaves it as it is, and the log with it. *)
LEMMA DropKeeps ==
    ASSUME SqlSound, inbox # <<>>, NEW ok \in BOOLEAN, Answer(ok),
           UNCHANGED <<written, ran>>,
           Request.op = "commit" => ~ok, LineKept', RanKept', WrittenWasPosted',
           engine' \in [open : BOOLEAN, interactive : BOOLEAN, tx : Seq(Calls) \cup {null},
                        log : Seq(Calls)],
           engine'.log = engine.log, faults' \in 0 .. MaxFaults,
           engine'.open = engine.open \/ ~engine'.open,
           engine'.tx = null \/ (engine' = engine /\ Request.op # "rollback"),
           Request.op = "close" => ~engine'.open /\ engine'.tx = null
    PROVE  SqlSound'
<1>1. /\ SqlTypeOK /\ TransactionKept /\ LogKept /\ EndKept
  BY DEF SqlSound
<1>2. /\ ChannelsOrdered' /\ MessagesBelong' /\ AnswersCome' /\ CallsKept'
      /\ inbox' \in Seq(Messages) /\ outbox' \in Seq(Replies)
      /\ ~terminal /\ Range(inbox) = {Request} \cup Range(inbox')
  BY ServedKeeps
<1>3. PICK r \in Replies : /\ r.op = Request.op /\ r.id = Request.id /\ r.ok = ok
                           /\ Range(outbox') = Range(outbox) \cup {r}
  BY ServedKeeps
<1>4. UNCHANGED <<kind, stage, outcome, closedTx, made, closed, closing, terminal,
                  line, cur, posted, crashed>>
  BY DEF Answer
<1>5. SqlTypeOK'
  BY <1>1, <1>2, <1>4 DEF SqlTypeOK
<1>6. TransactionKept'
  <2>1. CASE engine'.tx = null
    BY <2>1 DEF TransactionKept
  <2>2. CASE engine' = engine /\ Request.op # "rollback"
    <3>1. r.op # "rollback" /\ ~(r.op = "commit" /\ r.ok)
      BY <1>3, <2>2
    <3> QED
      BY <1>1, <1>2, <1>3, <1>4, <2>2, <3>1 DEF TransactionKept, Owner
  <2> QED
    BY <2>1, <2>2
<1>7. LogKept'
  <2>1. \A j \in Calls : Count(j)' = Count(j) /\ ~Committed(r, j)
    BY <1>3 DEF Count, Committed
  <2> QED
    BY <1>1, <1>3, <1>4, <2>1 DEF LogKept, Committed
<1>8. EndKept'
  BY <1>1, <1>2, <1>3, <1>4 DEF EndKept
<1> QED
  BY <1>2, <1>5, <1>6, <1>7, <1>8 DEF SqlSound

(* ROLLBACK. *)
LEMMA RunRollbackKeeps ==
    ASSUME SqlSound, RunRollback
    PROVE  SqlSound'
<1>1. /\ inbox # <<>> /\ Request.op = "rollback" /\ Answer(TRUE)
      /\ engine' = [engine EXCEPT !.interactive = FALSE, !.tx = null]
      /\ UNCHANGED <<written, faults, ran>>
  BY DEF RunRollback, Serves
<1>2. /\ engine' \in [open : BOOLEAN, interactive : BOOLEAN, tx : Seq(Calls) \cup {null},
                      log : Seq(Calls)]
      /\ engine'.log = engine.log /\ engine'.open = engine.open /\ engine'.tx = null
      /\ faults' \in 0 .. MaxFaults
  BY <1>1, EngineType DEF SqlSound, SqlTypeOK
<1>3. LineKept' /\ RanKept' /\ WrittenWasPosted'
  BY <1>1, QuietKeeps
<1> QED
  BY <1>1, <1>2, <1>3, DropKeeps

(* "close": SQLite drops what is open. *)
LEMMA RunCloseKeeps ==
    ASSUME SqlSound, RunClose
    PROVE  SqlSound'
<1>1. /\ inbox # <<>> /\ Request.op = "close" /\ Answer(TRUE)
      /\ engine' = [engine EXCEPT !.open = FALSE, !.interactive = FALSE, !.tx = null]
      /\ UNCHANGED <<written, faults, ran>>
  BY DEF RunClose, Serves
<1>2. /\ engine' \in [open : BOOLEAN, interactive : BOOLEAN, tx : Seq(Calls) \cup {null},
                      log : Seq(Calls)]
      /\ engine'.log = engine.log /\ ~engine'.open /\ engine'.tx = null
      /\ faults' \in 0 .. MaxFaults
  BY <1>1, EngineType DEF SqlSound, SqlTypeOK
<1>3. LineKept' /\ RanKept' /\ WrittenWasPosted'
  BY <1>1, QuietKeeps
<1> QED
  BY <1>1, <1>2, <1>3, DropKeeps

(* COMMIT: what the transaction has written goes to the log whole, or none of it
   does. *)
LEMMA RunCommitKeeps ==
    ASSUME SqlSound, RunCommit
    PROVE  SqlSound'
<1> DEFINE i == Request.id
<1>1. /\ SqlTypeOK /\ MessagesBelong /\ TransactionKept /\ LogKept /\ EndKept /\ CallsKept
  BY DEF SqlSound
<1>2. inbox # <<>> /\ Request.op = "commit" /\ UNCHANGED <<written, ran>>
  BY DEF RunCommit, Serves
<1>3. CASE ~(InTransaction /\ Answer(TRUE))
  <2>1. /\ Answer(FALSE)
        /\ \/ engine' = engine
           \/ engine' = [engine EXCEPT !.interactive = FALSE, !.tx = null]
           \/ ~InTransaction /\ engine' = [engine EXCEPT !.interactive = FALSE]
        /\ faults' = faults \/ (faults < MaxFaults /\ faults' = faults + 1)
    BY <1>3, Zenon DEF RunCommit, Done, Failed
  <2>2. LineKept' /\ RanKept' /\ WrittenWasPosted'
    BY <1>2, <2>1, QuietKeeps
  <2>3. faults' \in 0 .. MaxFaults
    <3>1. faults \in 0 .. MaxFaults
      BY <1>1 DEF SqlTypeOK
    <3> QED
      BY <2>1, <3>1, SqlClientAssumption
  <2>4. /\ engine' \in [open : BOOLEAN, interactive : BOOLEAN, tx : Seq(Calls) \cup {null},
                        log : Seq(Calls)]
        /\ engine'.log = engine.log /\ engine'.open = engine.open
        /\ engine'.tx = null \/ engine' = engine
    <3>1. CASE engine' = engine
      BY <1>1, <3>1, EngineType
    <3>2. CASE engine' = [engine EXCEPT !.interactive = FALSE, !.tx = null]
      BY <1>1, <3>2, EngineType
    <3>3. CASE ~InTransaction /\ engine' = [engine EXCEPT !.interactive = FALSE]
      <4>1. engine.tx = null
        BY <1>1, <3>3 DEF InTransaction, TransactionKept
      <4> QED
        BY <1>1, <3>3, <4>1, EngineType
    <3> QED
      BY <2>1, <3>1, <3>2, <3>3
  <2> QED
    BY <1>2, <2>1, <2>2, <2>3, <2>4, DropKeeps
<1>4. CASE InTransaction /\ Answer(TRUE)
  <2>1. /\ ChannelsOrdered' /\ MessagesBelong' /\ AnswersCome' /\ CallsKept'
        /\ inbox' \in Seq(Messages) /\ outbox' \in Seq(Replies)
        /\ ~terminal /\ Range(inbox) = {Request} \cup Range(inbox') /\ Request \in Range(inbox)
    BY <1>2, <1>4, ServedKeeps
  <2>2. PICK r \in Replies : /\ r.op = "commit" /\ r.id = i /\ r.ok = TRUE
                             /\ Range(outbox') = Range(outbox) \cup {r}
    BY <1>2, <1>4, ServedKeeps
  <2>3. UNCHANGED <<kind, stage, outcome, closedTx, made, closed, closing, terminal,
                    line, cur, posted, crashed>>
    BY <1>4 DEF Answer
  <2>4. LineKept' /\ RanKept' /\ WrittenWasPosted'
    BY <1>2, <1>4, QuietKeeps
  <2>5. i # null /\ i \in Calls /\ engine.tx # null
    <3>1. i # null
      BY <1>2, <2>1, UnderWay
    <3> QED
      BY <1>4, <2>1, <3>1, UnderWay DEF InTransaction
  <2>6. /\ i = Owner /\ ran # <<>> /\ i \in Range(ran) /\ i \notin Range(engine.log)
        /\ outcome[i] # "ok"
        /\ \A n \in DOMAIN engine.tx : engine.tx[n] = i
        /\ Len(engine.tx) = written[i]
        /\ \A x \in Range(outbox) : ~(x.op = "commit" /\ x.ok)
    BY <1>1, <2>1, <2>5, OwnerIsCall DEF TransactionKept
  <2> HIDE DEF i
  <2>7. \/ /\ engine' = [engine EXCEPT !.interactive = FALSE, !.tx = null, !.log = @ \o engine.tx]
           /\ faults' = faults
        \/ Answer(FALSE)
    BY <1>4, Zenon DEF RunCommit, Done, Failed
  <2>8. ~Answer(FALSE)
    <3>1. ASSUME Answer(FALSE) PROVE FALSE
      <4>1. outbox \in Seq(Replies)
        BY <1>1 DEF SqlTypeOK
      <4> DEFINE a == [op |-> Request.op, id |-> Request.id, ok |-> TRUE]
                 b == [op |-> Request.op, id |-> Request.id, ok |-> FALSE]
      <4>2. a.ok = TRUE /\ b.ok = FALSE
        OBVIOUS
      <4>3. Append(outbox, a) = Append(outbox, b)
        BY <1>4, <3>1 DEF Answer
      <4> HIDE DEF a, b
      <4>4. Append(outbox, a)[Len(outbox) + 1] = a /\ Append(outbox, b)[Len(outbox) + 1] = b
        BY <4>1
      <4> QED
        BY <4>2, <4>3, <4>4
    <3> QED
      BY <3>1
  <2>9. /\ engine.log \in Seq(Calls) /\ engine.tx \in Seq(Calls)
        /\ engine.log \o engine.tx \in Seq(Calls)
    <3>1. engine.log \in Seq(Calls) /\ engine.tx \in Seq(Calls)
      BY <1>1, <2>5, EngineType
    <3> QED
      BY <3>1
  <2>10. /\ engine' \in [open : BOOLEAN, interactive : BOOLEAN, tx : Seq(Calls) \cup {null},
                         log : Seq(Calls)]
         /\ engine'.log = engine.log \o engine.tx /\ engine'.open = engine.open
         /\ engine'.tx = null
    <3> DEFINE whole == engine.log \o engine.tx
    <3>1. engine' = [engine EXCEPT !.interactive = FALSE, !.tx = null, !.log = whole]
      BY <2>7, <2>8
    <3>2. whole \in Seq(Calls)
      BY <2>9
    <3> HIDE DEF whole
    <3>3. /\ engine' \in [open : BOOLEAN, interactive : BOOLEAN, tx : Seq(Calls) \cup {null},
                          log : Seq(Calls)]
          /\ engine'.log = whole /\ engine'.open = engine.open /\ engine'.tx = null
      BY <1>1, <3>1, <3>2, EngineType
    <3> QED
      BY <3>3 DEF whole
  <2>11. SqlTypeOK'
    BY <1>1, <1>2, <2>1, <2>3, <2>7, <2>8, <2>10 DEF SqlTypeOK
  <2>12. Range(engine'.log) \subseteq Range(engine.log) \cup {i} /\ Range(engine.log) \subseteq Range(engine'.log)
    <3>1. Range(engine'.log) = Range(engine.log) \cup Range(engine.tx)
      BY <2>9, <2>10, RangeConcatenation
    <3>2. Range(engine.tx) \subseteq {i}
      BY <2>6 DEF Range
    <3> QED
      BY <3>1, <3>2
  <2>13. ASSUME NEW j \in Calls, j = i PROVE Count(j)' = written[j]
    <3>1. Cardinality(Places(engine.log \o engine.tx, i)) = Len(engine.tx)
      BY <2>6, <2>9, PlacesOfConcat
    <3>2. Places(engine'.log, j) = Places(engine.log \o engine.tx, i)
      BY <2>10, <2>13
    <3> QED
      BY <2>6, <2>13, <3>1, <3>2 DEF Count, Places
  <2>14. ASSUME NEW j \in Calls, j # i PROVE Count(j)' = Count(j)
    <3>1. \A n \in DOMAIN engine.tx : engine.tx[n] # j
      BY <2>6, <2>14
    <3>2. Places(engine.log \o engine.tx, j) = Places(engine.log, j)
      BY <2>9, <3>1, PlacesOfConcat
    <3> QED
      BY <2>10, <3>2 DEF Count, Places
  <2>15. TransactionKept'
    BY <2>10 DEF TransactionKept
  <2>16. LogKept'
    <3>1. ASSUME NEW j \in Calls
          PROVE  /\ (j \in Range(engine.log) \/ written[j] > 0 => j \in Range(ran))'
                 /\ (kind[j] = "tx" /\ j \in Range(engine.log) =>
                       outcome[j] = "ok" \/ crashed \/ \E x \in Range(outbox) : Committed(x, j))'
                 /\ (kind[j] = "tx" /\ outcome[j] = "ok" => Count(j) = written[j])'
                 /\ (\A x \in Range(outbox) : Committed(x, j) => Count(j) = written[j])'
      <4>1. CASE j = i
        <5>1. \E x \in Range(outbox') : Committed(x, j)
          BY <2>2, <4>1 DEF Committed
        <5>2. outcome'[j] # "ok" /\ j \in Range(ran') /\ Count(j)' = written'[j]
          BY <1>2, <2>3, <2>6, <2>13, <4>1
        <5> QED
          BY <5>1, <5>2 DEF Committed
      <4>2. CASE j # i
        <5>1. ~Committed(r, j) /\ Count(j)' = Count(j)
          BY <2>2, <2>14, <4>2 DEF Committed
        <5>2. j \in Range(engine'.log) <=> j \in Range(engine.log)
          BY <2>12, <4>2
        <5> QED
          BY <1>1, <1>2, <2>2, <2>3, <5>1, <5>2 DEF LogKept, Committed
      <4> QED
        BY <4>1, <4>2
    <3> QED
      BY <3>1 DEF LogKept
  <2>17. EndKept'
    BY <1>1, <2>1, <2>2, <2>3, <2>10 DEF EndKept
  <2> QED
    BY <2>1, <2>4, <2>11, <2>15, <2>16, <2>17 DEF SqlSound
<1> QED
  BY <1>3, <1>4

(* A statement: only the open transaction's own reaches the engine. *)
LEMMA RunStatementKeeps ==
    ASSUME SqlSound, RunStatement
    PROVE  SqlSound'
<1> DEFINE i == Request.id
<1>1. /\ SqlTypeOK /\ MessagesBelong /\ TransactionKept /\ LogKept /\ EndKept /\ LineKept /\ RanKept
      /\ WrittenWasPosted
  BY DEF SqlSound
<1>2. inbox # <<>> /\ Request.op = "statement" /\ ran' = ran
  BY DEF RunStatement, Serves
<1>3. PICK ok \in BOOLEAN : Answer(ok)
  BY DEF RunStatement, Done, Failed
<1>4. /\ ChannelsOrdered' /\ MessagesBelong' /\ AnswersCome' /\ CallsKept'
      /\ inbox' \in Seq(Messages) /\ outbox' \in Seq(Replies)
      /\ ~terminal /\ Range(inbox) = {Request} \cup Range(inbox') /\ Request \in Range(inbox)
      /\ \A j : /\ Cardinality(StatementsIn(inbox', j)) \in Nat
                /\ Cardinality(StatementsIn(inbox, j)) =
                     Cardinality(StatementsIn(inbox', j)) + IF i = j THEN 1 ELSE 0
  BY <1>2, <1>3, ServedKeeps
<1>5. PICK r \in Replies : /\ r.op = "statement" /\ r.id = i
                           /\ Range(outbox') = Range(outbox) \cup {r}
  BY <1>2, <1>3, ServedKeeps
<1>6. UNCHANGED <<kind, stage, outcome, closedTx, made, closed, closing, terminal,
                  line, cur, posted, crashed>>
  BY <1>3 DEF Answer
<1>7. i # null /\ i \in Calls
  BY <1>2, <1>4, UnderWay
<1>8. /\ written \in [Calls -> 0 .. MaxStatements] /\ posted \in [Calls -> 0 .. MaxStatements]
      /\ \A j \in Calls : written[j] \in Nat /\ posted[j] \in Nat /\ posted[j] <= MaxStatements
      /\ MaxStatements \in Nat
  BY <1>1, SqlClientAssumption DEF SqlTypeOK
<1> HIDE DEF i
<1>9. LineKept' /\ RanKept'
  BY <1>1, <1>2, <1>4, <1>5, <1>6 DEF LineKept, RanKept, Begins
<1>10. faults' \in 0 .. MaxFaults
  <2>1. faults' = faults \/ (faults < MaxFaults /\ faults' = faults + 1)
    BY DEF RunStatement, Done, Failed
  <2>2. faults \in 0 .. MaxFaults
    BY <1>1 DEF SqlTypeOK
  <2> QED
    BY <2>1, <2>2, SqlClientAssumption
<1>11. \/ /\ InTransaction
          /\ engine' = [engine EXCEPT !.tx = Append(@, i)]
          /\ written' = [written EXCEPT ![i] = @ + 1]
       \/ /\ \/ engine' \in {engine, [engine EXCEPT !.interactive = FALSE, !.tx = null]}
             \/ ~InTransaction /\ engine' = [engine EXCEPT !.interactive = FALSE]
          /\ written' = written
  BY Zenon DEF RunStatement, i
<1>12. CASE /\ \/ engine' \in {engine, [engine EXCEPT !.interactive = FALSE, !.tx = null]}
               \/ ~InTransaction /\ engine' = [engine EXCEPT !.interactive = FALSE]
            /\ written' = written
  <2>1. /\ engine' \in [open : BOOLEAN, interactive : BOOLEAN, tx : Seq(Calls) \cup {null},
                        log : Seq(Calls)]
        /\ engine'.log = engine.log /\ engine'.open = engine.open
        /\ engine'.tx = null \/ engine' = engine
    <3>1. CASE engine' = [engine EXCEPT !.interactive = FALSE, !.tx = null]
      BY <1>1, <3>1, EngineType
    <3>2. CASE ~InTransaction /\ engine' = [engine EXCEPT !.interactive = FALSE]
      <4>1. engine.tx = null
        BY <1>1, <3>2 DEF InTransaction, TransactionKept
      <4> QED
        BY <1>1, <3>2, <4>1, EngineType
    <3>3. CASE engine' = engine
      BY <1>1, <3>3, EngineType
    <3> QED
      BY <1>12, <3>1, <3>2, <3>3
  <2>2. WrittenWasPosted'
    <3>1. ASSUME NEW j \in Calls
          PROVE  written'[j] + Cardinality(StatementsIn(inbox', j)) <= posted'[j]
      <4>1. written[j] + Cardinality(StatementsIn(inbox, j)) <= posted[j]
        BY <1>1 DEF WrittenWasPosted
      <4> QED
        BY <1>4, <1>6, <1>8, <1>12, <4>1
    <3> QED
      BY <3>1 DEF WrittenWasPosted
  <2> QED
    BY <1>2, <1>3, <1>9, <1>10, <1>12, <2>1, <2>2, DropKeeps
<1>13. CASE /\ InTransaction
            /\ engine' = [engine EXCEPT !.tx = Append(@, i)]
            /\ written' = [written EXCEPT ![i] = @ + 1]
  <2>1. engine.tx # null /\ i = Owner
    <3>1. engine.tx # null
      BY <1>13 DEF InTransaction
    <3> QED
      BY <1>1, <1>4, <1>7, <3>1 DEF TransactionKept, i
  <2>2. engine.tx \in Seq(Calls)
    BY <1>1, <2>1, EngineType
  <2> DEFINE more == Append(engine.tx, i)
  <2>3. /\ more \in Seq(Calls) /\ Len(more) = Len(engine.tx) + 1
        /\ DOMAIN more = 1 .. Len(engine.tx) + 1 /\ DOMAIN engine.tx = 1 .. Len(engine.tx)
        /\ \A n \in 1 .. Len(engine.tx) : more[n] = engine.tx[n]
        /\ more[Len(engine.tx) + 1] = i /\ Len(engine.tx) \in Nat
    BY <1>7, <2>2
  <2> HIDE DEF more
  <2>4. /\ engine' \in [open : BOOLEAN, interactive : BOOLEAN, tx : Seq(Calls) \cup {null},
                        log : Seq(Calls)]
        /\ engine'.log = engine.log /\ engine'.open = engine.open
        /\ engine'.tx = more /\ engine'.interactive = engine.interactive
    <3>1. engine' = [engine EXCEPT !.tx = more]
      BY <1>13 DEF more
    <3> QED
      BY <1>1, <2>3, <3>1, EngineType
  <2>5. \A j \in Calls : written'[j] = IF j = i THEN written[j] + 1 ELSE written[j]
    BY <1>7, <1>8, <1>13
  <2>6. ASSUME NEW j \in Calls
        PROVE  /\ written'[j] + Cardinality(StatementsIn(inbox', j)) <= posted'[j]
               /\ written'[j] \in 0 .. MaxStatements
    <3>1. written[j] + Cardinality(StatementsIn(inbox, j)) <= posted[j]
      BY <1>1 DEF WrittenWasPosted
    <3>2. /\ Cardinality(StatementsIn(inbox', j)) \in Nat
          /\ Cardinality(StatementsIn(inbox, j)) =
               Cardinality(StatementsIn(inbox', j)) + IF i = j THEN 1 ELSE 0
          /\ written[j] \in Nat /\ posted[j] \in Nat /\ posted[j] <= MaxStatements
      BY <1>4, <1>8
    <3>3. posted'[j] = posted[j]
      BY <1>6
    <3> HIDE DEF StatementsIn
    <3>4. CASE j = i
      <4>1. written'[j] = written[j] + 1
        BY <2>5, <3>4
      <4> QED
        BY <1>8, <3>1, <3>2, <3>3, <3>4, <4>1
    <3>5. CASE j # i
      <4>1. written'[j] = written[j]
        BY <2>5, <3>5
      <4> QED
        BY <1>8, <3>1, <3>2, <3>3, <3>5, <4>1
    <3> QED
      BY <3>4, <3>5
  <2>7. written' \in [Calls -> 0 .. MaxStatements]
    <3>1. written' = [j \in Calls |-> written'[j]]
      BY <1>8, <1>13
    <3> QED
      BY <2>6, <3>1
  <2>8. SqlTypeOK' /\ WrittenWasPosted'
    BY <1>1, <1>2, <1>4, <1>6, <1>10, <2>4, <2>6, <2>7 DEF SqlTypeOK, WrittenWasPosted
  <2>9. /\ engine.interactive /\ ran # <<>> /\ kind[i] = "tx"
        /\ \A n \in DOMAIN engine.tx : engine.tx[n] = i
        /\ Len(engine.tx) = written[i]
        /\ outcome[i] # "ok" /\ i \notin Range(engine.log) /\ i \in Range(ran)
        /\ \A x \in Range(outbox) : x.op # "rollback" /\ ~(x.op = "commit" /\ x.ok)
    BY <1>1, <2>1, OwnerIsCall DEF TransactionKept
  <2>10. TransactionKept'
    <3>1. Owner' = Owner
      BY <1>2 DEF Owner
    <3>2. \A n \in DOMAIN engine'.tx : engine'.tx[n] = i
      BY <2>3, <2>4, <2>9
    <3>3. Len(engine'.tx) = written'[i]
      BY <1>7, <2>3, <2>4, <2>5, <2>9
    <3>4. closed \/ (cur = i /\ stage[i] \in Active)
      BY <1>1, <2>1 DEF TransactionKept
    <3>5. \A m \in Range(inbox') : m.id = null \/ (m.id = i /\ ~Begins(m))
      BY <1>1, <1>4, <2>1 DEF TransactionKept
    <3>6. \A x \in Range(outbox') : x.op # "rollback" /\ ~(x.op = "commit" /\ x.ok)
      BY <1>5, <2>9
    <3> QED
      BY <1>2, <1>6, <2>1, <2>4, <2>9, <3>1, <3>2, <3>3, <3>4, <3>5, <3>6 DEF TransactionKept
  <2>11. LogKept'
    <3>1. \A j \in Calls : Count(j)' = Count(j) /\ ~Committed(r, j)
      BY <1>5, <2>4 DEF Count, Committed
    <3>2. ASSUME NEW j \in Calls
          PROVE  /\ (j \in Range(engine.log) \/ written[j] > 0 => j \in Range(ran))'
                 /\ (kind[j] = "tx" /\ j \in Range(engine.log) =>
                       outcome[j] = "ok" \/ crashed \/ \E x \in Range(outbox) : Committed(x, j))'
                 /\ (kind[j] = "tx" /\ outcome[j] = "ok" => Count(j) = written[j])'
                 /\ (\A x \in Range(outbox) : Committed(x, j) => Count(j) = written[j])'
      <4>1. CASE j = i
        <5>1. \A x \in Range(outbox') : ~Committed(x, j)
          BY <1>5, <2>9 DEF Committed
        <5>2. outcome'[j] # "ok" /\ j \in Range(ran') /\ j \notin Range(engine'.log)
          BY <1>2, <1>6, <2>4, <2>9, <4>1
        <5> QED
          BY <5>1, <5>2 DEF Committed
      <4>2. CASE j # i
        <5>1. written'[j] = written[j] /\ engine'.log = engine.log
          BY <2>4, <2>5, <4>2
        <5> QED
          BY <1>1, <1>2, <1>5, <1>6, <3>1, <5>1 DEF LogKept, Committed
      <4> QED
        BY <4>1, <4>2
    <3> QED
      BY <3>2 DEF LogKept
  <2>12. EndKept'
    <3>1. \A x \in Range(outbox') : x.op # "close"
      <4>1. ASSUME NEW x \in Range(outbox) PROVE x.op # "close"
        BY <1>1, <2>1 DEF EndKept
      <4> QED
        BY <1>5, <4>1
    <3> QED
      BY <1>1, <1>4, <1>6, <3>1 DEF EndKept
  <2> QED
    BY <1>4, <1>9, <2>8, <2>10, <2>11, <2>12 DEF SqlSound
<1> QED
  BY <1>11, <1>12, <1>13

-----------------------------------------------------------------------------
(* The specification.                                                      *)

(* The handle and its Worker before the first call. *)
LEMMA SqlInitSound ==
    ASSUME SqlInit
    PROVE  SqlSound
<1>1. /\ inbox = <<>> /\ outbox = <<>> /\ line = <<>> /\ ran = <<>>
      /\ engine = [open |-> TRUE, interactive |-> FALSE, tx |-> null, log |-> <<>>]
      /\ cur = null /\ made = 0 /\ ~closed /\ ~terminal /\ closing = "no"
      /\ \A i \in Calls : /\ kind[i] = null /\ stage[i] = "none" /\ outcome[i] = "none"
                          /\ closedTx[i] = FALSE /\ posted[i] = 0 /\ written[i] = 0
  BY DEF SqlInit
<1>2. /\ Range(inbox) = {} /\ Range(outbox) = {} /\ Range(line) = {} /\ Range(ran) = {}
      /\ Range(engine.log) = {} /\ DOMAIN inbox = {} /\ DOMAIN outbox = {} /\ DOMAIN line = {}
      /\ DOMAIN ran = {}
  BY <1>1 DEF Range
<1>3. SqlTypeOK
  <2>1. /\ 0 \in 0 .. MaxCalls /\ 0 \in 0 .. MaxStatements /\ 0 \in 0 .. MaxFaults
    BY SqlClientAssumption
  <2>2. engine \in [open : BOOLEAN, interactive : BOOLEAN, tx : Seq(Calls) \cup {null},
                    log : Seq(Calls)]
    <3> DEFINE none == <<>>
    <3>1. none \in Seq(Calls)
      OBVIOUS
    <3> HIDE DEF none
    <3>2. engine = [open |-> TRUE, interactive |-> FALSE, tx |-> null, log |-> none]
      BY <1>1 DEF none
    <3> QED
      BY <3>1, <3>2
  <2>3. <<>> \in Seq(Calls) /\ <<>> \in Seq(Messages) /\ <<>> \in Seq(Replies)
    OBVIOUS
  <2>4. /\ kind \in [Calls -> {"plain", "tx", null}] /\ stage \in [Calls -> Stages]
        /\ outcome \in [Calls -> Outcomes] /\ closedTx \in [Calls -> BOOLEAN]
        /\ posted \in [Calls -> 0 .. MaxStatements] /\ written \in [Calls -> 0 .. MaxStatements]
        /\ faults = 0 /\ crashed \in BOOLEAN /\ closed \in BOOLEAN /\ terminal \in BOOLEAN
    BY <2>1 DEF SqlInit, Stages, Outcomes
  <2> QED
    BY <1>1, <2>1, <2>2, <2>3, <2>4 DEF SqlTypeOK
<1>4. ChannelsOrdered /\ MessagesBelong
  BY <1>2 DEF ChannelsOrdered, Ordered, MessagesBelong
<1>5. AnswersCome /\ Pending = {}
  BY <1>1 DEF AnswersCome, Pending, Active
<1>6. CallsKept
  <2>1. \A i \in Calls : 0 < i
    BY DEF Calls
  <2> QED
    BY <1>1, <2>1 DEF CallsKept, Active
<1>7. LineKept /\ RanKept
  BY <1>1, <1>2 DEF LineKept, RanKept, Increasing
<1>8. WrittenWasPosted
  <2>1. ASSUME NEW i \in Calls PROVE Cardinality(StatementsIn(inbox, i)) = 0
    <3>1. StatementsIn(inbox, i) = {}
      BY <1>2 DEF StatementsIn
    <3> QED
      BY <3>1, FS_EmptySet
  <2> QED
    BY <1>1, <2>1 DEF WrittenWasPosted
<1>9. TransactionKept /\ EndKept
  BY <1>1, <1>2, <1>5 DEF TransactionKept, EndKept
<1>10. LogKept
  BY <1>1, <1>2 DEF LogKept
<1> QED
  BY <1>3, <1>4, <1>5, <1>6, <1>7, <1>8, <1>9, <1>10 DEF SqlSound

(* Every step of the handle, the channels and the Worker keeps the invariant. *)
LEMMA SqlStepSound ==
    ASSUME SqlSound, [SqlNext]_sqlVars
    PROVE  SqlSound'
<1>1. CASE UNCHANGED sqlVars
  <2>1. /\ SqlTypeOK /\ ChannelsOrdered /\ MessagesBelong /\ AnswersCome /\ CallsKept
        /\ LineKept /\ RanKept /\ WrittenWasPosted /\ TransactionKept /\ LogKept /\ EndKept
    BY DEF SqlSound
  <2>2. SqlTypeOK'
    BY <1>1, <2>1 DEF sqlVars, SqlTypeOK
  <2>3. ChannelsOrdered' /\ MessagesBelong'
    BY <1>1, <2>1 DEF sqlVars, ChannelsOrdered, MessagesBelong, Belongs
  <2>4. AnswersCome'
    <3>1. Pending' = Pending /\ \A op, i : Under(op, i)' <=> Under(op, i)
      BY <1>1 DEF sqlVars, Pending, Under
    <3>2. \A i \in Pending : AwaitedOp(stage[i])' = AwaitedOp(stage[i])
      BY <1>1 DEF sqlVars, AwaitedOp
    <3>3. ASSUME NEW i \in Pending PROVE Under(AwaitedOp(stage[i]), i)'
      BY <1>1, <2>1, <3>2 DEF sqlVars, AnswersCome, Under
    <3> QED
      BY <3>1, <3>3 DEF AnswersCome
  <2>5. CallsKept' /\ LineKept' /\ RanKept' /\ WrittenWasPosted'
    BY <1>1, <2>1 DEF sqlVars, CallsKept, LineKept, RanKept, WrittenWasPosted
  <2>6. TransactionKept'
    BY <1>1, <2>1 DEF sqlVars, TransactionKept, Owner
  <2>7. LogKept'
    <3>1. \A i : Count(i)' = Count(i)
      BY <1>1 DEF sqlVars, Count
    <3> QED
      BY <1>1, <2>1, <3>1 DEF sqlVars, LogKept, Committed
  <2>8. EndKept'
    BY <1>1, <2>1 DEF sqlVars, EndKept, Pending
  <2> QED
    BY <2>2, <2>3, <2>4, <2>5, <2>6, <2>7, <2>8 DEF SqlSound
<1>2. ASSUME NEW i \in Calls, Plain(i) PROVE SqlSound'
  BY <1>2, PlainKeeps
<1>3. ASSUME NEW i \in Calls, Transaction(i) PROVE SqlSound'
  BY <1>3, TransactionKeeps
<1>4. ASSUME NEW i \in Calls, Statement(i) PROVE SqlSound'
  BY <1>4, StatementKeeps
<1>5. ASSUME NEW i \in Calls, WorkSettles(i) PROVE SqlSound'
  BY <1>5, WorkSettlesKeeps
<1>6. ASSUME Advance \/ Close \/ WorkerDies PROVE SqlSound'
  BY <1>6, AdvanceKeeps, CloseKeeps, WorkerDiesKeeps
<1>7. ASSUME Worker PROVE SqlSound'
  BY <1>7, RunPlainKeeps, RunBeginKeeps, RunStatementKeeps, RunCommitKeeps, RunRollbackKeeps,
     RunCloseKeeps
  DEF Worker
<1>8. ASSUME Receive PROVE SqlSound'
  BY <1>8, ReceivePlainKeeps, ReceiveStatementKeeps, ReceiveBeginKeeps, ReceiveCommitKeeps,
     ReceiveRollbackKeeps, ReceiveCloseRollbackKeeps, ReceiveCloseKeeps
  DEF Receive
<1> QED
  BY <1>1, <1>2, <1>3, <1>4, <1>5, <1>6, <1>7, <1>8, Zenon DEF SqlNext

(* The order in which a handle's calls, transactions and close() reach SQLite:
   for any number of calls, nothing interleaves with an open transaction, calls
   are started in the order they were made, and close() drops no posted call. *)
THEOREM SqlIsSound == SqlSpec => []SqlInvariant
<1>1. SqlSound => SqlInvariant
  <2> SUFFICES ASSUME SqlSound PROVE SqlInvariant
    OBVIOUS
  <2>1. SqlTypeOK /\ RanKept /\ TransactionKept /\ EndKept
    BY DEF SqlSound
  <2>2. NothingInterleaves
    BY <2>1 DEF NothingInterleaves, TransactionKept, Owner
  <2>3. CallOrder
    BY <2>1 DEF CallOrder, RanKept, Increasing
  <2>4. CloseIsClean
    BY <2>1 DEF CloseIsClean, EndKept
  <2> QED
    BY <2>1, <2>2, <2>3, <2>4 DEF SqlInvariant
<1>2. SqlInit => SqlSound
  BY SqlInitSound
<1>3. SqlSound /\ [SqlNext]_sqlVars => SqlSound'
  BY SqlStepSound
<1> QED
  BY <1>1, <1>2, <1>3, PTL DEF SqlSpec

(* What a transaction's caller is told is what is in the log: all that it wrote
   if it was told "ok", nothing if it was told anything else while the Worker
   lived. *)
THEOREM OutcomesAreTrue == SqlSpec => []OutcomeIsTrue
<1>1. SqlSound => OutcomeIsTrue
  <2> SUFFICES ASSUME SqlSound, NEW i \in Calls, kind[i] = "tx"
               PROVE  /\ outcome[i] = "ok" => Count(i) = written[i]
                      /\ (outcome[i] \in {"failed", "closed"} /\ ~crashed) => Count(i) = 0
    BY DEF OutcomeIsTrue
  <2>1. LogKept /\ CallsKept
    BY DEF SqlSound
  <2>2. outcome[i] = "ok" => Count(i) = written[i]
    BY <2>1 DEF LogKept
  <2>3. ASSUME outcome[i] \in {"failed", "closed"}, ~crashed PROVE Count(i) = 0
    <3>1. ASSUME NEW r \in Range(outbox), Committed(r, i) PROVE FALSE
      <4>1. i = cur /\ stage[i] = "committing"
        BY <3>1, UnderWay DEF Committed
      <4> QED
        BY <2>1, <2>3, <4>1 DEF CallsKept
    <3>2. i \notin Range(engine.log)
      BY <2>1, <2>3, <3>1 DEF LogKept
    <3>3. {n \in DOMAIN engine.log : engine.log[n] = i} = {}
      BY <3>2 DEF Range
    <3> QED
      BY <3>3, FS_EmptySet DEF Count
  <2> QED
    BY <2>2, <2>3
<1>2. SqlInit => SqlSound
  BY SqlInitSound
<1>3. SqlSound /\ [SqlNext]_sqlVars => SqlSound'
  BY SqlStepSound
<1> QED
  BY <1>1, <1>2, <1>3, PTL DEF SqlSpec
=============================================================================
