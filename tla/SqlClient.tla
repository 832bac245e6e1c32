------------------------------ MODULE SqlClient ------------------------------
(***************************************************************************)
(* One open SQL database (src/sql): the handle on the main thread, its     *)
(* Worker's FIFO handler, and the engine over one SQLite connection.       *)
(*                                                                         *)
(* Plain calls pipeline.  An interactive transaction runs user code        *)
(* between BEGIN and COMMIT, so every later call waits in line behind it;  *)
(* close() waits for no user code.  SQLite may end a transaction itself    *)
(* when a statement fails, and a COMMIT may fail and leave it open.        *)
(***************************************************************************)
EXTENDS Naturals, Sequences, FiniteSets

CONSTANTS
    MaxCalls,       \* bound on calls and transactions
    MaxStatements,  \* bound on the statements of a transaction
    MaxFaults,      \* bound on failures of statements, COMMITs and Workers
    null

ASSUME SqlClientAssumption ==
    /\ MaxCalls \in Nat /\ MaxStatements \in Nat /\ MaxFaults \in Nat
    /\ null \notin Nat \cup Seq(Nat) \cup {"plain", "tx"}

Calls == 1 .. MaxCalls

VARIABLES
    kind,       \* of each call: "plain", "tx", or null before it is made
    stage,      \* of each call: where it is
    outcome,    \* of each call: what its caller was told
    closedTx,   \* of each transaction: ended by close()
    made,       \* calls made so far
    closed,     \* #closed
    closing,    \* where close() is: "no", "rollback", "close", "done"
    terminal,   \* Connection.#terminal: the Worker is gone
    line,       \* the calls waiting on #tail, in the order they were made
    cur,        \* the transaction whose promise #tail follows, null if none
    inbox,      \* messages to the Worker
    outbox,     \* answers to the client
    engine,     \* open; #interactive; the open transaction's writes; the log
    faults

(* History. *)
VARIABLES
    posted,     \* of each transaction: statements posted
    written,    \* of each transaction: statements SQLite has run
    ran,        \* calls in the order in which SQLite started them
    crashed     \* the Worker has died

sqlVars == <<kind, stage, outcome, closedTx, made, closed, closing, terminal, line,
             cur, inbox, outbox, engine, faults, posted, written, ran, crashed>>

Active   == {"beginning", "working", "committing", "rolling"}
Stages   == {"none", "line", "posted", "settled"} \cup Active
Outcomes == {"none", "ok", "failed", "closed", "dropped"}
Ops      == {"plain", "begin", "statement", "commit", "rollback", "close"}
Messages == [op : Ops, id : Calls \cup {null}]
Replies  == [op : Ops, id : Calls \cup {null}, ok : BOOLEAN]

SqlTypeOK ==
    /\ kind \in [Calls -> {"plain", "tx", null}]
    /\ stage \in [Calls -> Stages]
    /\ outcome \in [Calls -> Outcomes]
    /\ closedTx \in [Calls -> BOOLEAN]
    /\ made \in 0 .. MaxCalls /\ faults \in 0 .. MaxFaults
    /\ closed \in BOOLEAN /\ terminal \in BOOLEAN /\ crashed \in BOOLEAN
    /\ closing \in {"no", "rollback", "close", "done"}
    /\ line \in Seq(Calls) /\ ran \in Seq(Calls)
    /\ cur \in Calls \cup {null}
    /\ inbox \in Seq(Messages) /\ outbox \in Seq(Replies)
    /\ engine \in [open : BOOLEAN, interactive : BOOLEAN,
                   tx : Seq(Calls) \cup {null}, log : Seq(Calls)]
    /\ posted \in [Calls -> 0 .. MaxStatements]
    /\ written \in [Calls -> 0 .. MaxStatements]

SqlInit ==
    /\ kind = [i \in Calls |-> null]
    /\ stage = [i \in Calls |-> "none"]
    /\ outcome = [i \in Calls |-> "none"]
    /\ closedTx = [i \in Calls |-> FALSE]
    /\ made = 0 /\ faults = 0
    /\ closed = FALSE /\ terminal = FALSE /\ crashed = FALSE
    /\ closing = "no"
    /\ line = <<>> /\ ran = <<>> /\ inbox = <<>> /\ outbox = <<>>
    /\ cur = null
    /\ engine = [open |-> TRUE, interactive |-> FALSE, tx |-> null, log |-> <<>>]
    /\ posted = [i \in Calls |-> 0]
    /\ written = [i \in Calls |-> 0]

-----------------------------------------------------------------------------
(* The handle.                                                             *)

Msg(op, i) == [op |-> op, id |-> i]

Settle(i, o) ==
    /\ stage' = [stage EXCEPT ![i] = "settled"]
    /\ outcome' = [outcome EXCEPT ![i] = o]

\* Connection.request: refused once the Worker is gone.
Post(i, op, next) ==
    IF terminal
    THEN Settle(i, IF closedTx[i] THEN "closed" ELSE "failed") /\ UNCHANGED inbox
    ELSE /\ stage' = [stage EXCEPT ![i] = next]
         /\ inbox' = Append(inbox, Msg(op, i))
         /\ UNCHANGED outcome

\* #exclusiveCount = 0: no transaction is queued or open.
\* Defect: the open one is not counted.
NoneQueued_LineOnly == line = <<>>
NoneQueued == cur = null /\ line = <<>>

\* #call: posted at once, or put in line behind the transactions.
Plain(i) ==
    /\ i = made + 1 /\ ~closed
    /\ made' = i
    /\ kind' = [kind EXCEPT ![i] = "plain"]
    /\ IF NoneQueued
       THEN Post(i, "plain", "posted") /\ UNCHANGED line
       ELSE /\ line' = Append(line, i)
            /\ stage' = [stage EXCEPT ![i] = "line"]
            /\ UNCHANGED <<inbox, outcome>>
    /\ UNCHANGED <<closedTx, closed, closing, terminal, cur, outbox, engine, faults,
                   posted, written, ran, crashed>>

\* transaction(work), #exclusive: its action starts when #tail settles, in a
\* later microtask even if nothing is before it.
Transaction(i) ==
    /\ i = made + 1 /\ ~closed
    /\ made' = i
    /\ kind' = [kind EXCEPT ![i] = "tx"]
    /\ line' = Append(line, i)
    /\ stage' = [stage EXCEPT ![i] = "line"]
    /\ UNCHANGED <<outcome, closedTx, closed, closing, terminal, cur, inbox, outbox,
                   engine, faults, posted, written, ran, crashed>>

\* #tail settles: the plain calls at the head of the line are posted, and the
\* next transaction starts, which posts BEGIN or finds the handle closed.
Ahead == {n \in 0 .. Len(line) : /\ \A m \in 1 .. n : kind[line[m]] = "plain"
                                 /\ n < Len(line) => kind[line[n + 1]] = "tx"}

\* The plain calls among the first n that still wait: close() cancels them all.
Waiting(n) == {line[m] : m \in {k \in 1 .. n : stage[line[k]] = "line"}}

\* Reactions on #tail run in the order of registration.
InOrder(plains, begin) == plains \o begin

\* #tail settles whether its transaction resolves or rejects.
\* Defect: only if it resolves.
TailSettled_OnSuccess == cur # null => outcome[cur] = "ok"
TailSettled == cur # null => stage[cur] = "settled"

\* The first n calls in line are plain, and the transaction behind them is next.
LetThrough(n) ==
    LET tx   == IF n < Len(line) THEN line[n + 1] ELSE null
        sent == IF closed THEN <<>> ELSE [m \in 1 .. n |-> Msg("plain", line[m])]
        starts == tx # null /\ ~closed /\ ~terminal IN
    /\ cur' = tx
    /\ line' = SubSeq(line, n + 2, Len(line))
    /\ inbox' = IF terminal THEN inbox
                ELSE inbox \o InOrder(sent, IF starts THEN <<Msg("begin", tx)>> ELSE <<>>)
    /\ stage' = [i \in Calls |->
                    CASE i = tx -> IF starts THEN "beginning" ELSE "settled"
                      [] i \in Waiting(n) -> IF terminal THEN "settled" ELSE "posted"
                      [] OTHER -> stage[i]]
    /\ outcome' = [i \in Calls |->
                    CASE i = tx /\ ~starts -> IF closed THEN "closed" ELSE "failed"
                      [] i \in Waiting(n) /\ terminal -> "failed"
                      [] OTHER -> outcome[i]]

Advance ==
    /\ TailSettled
    /\ cur # null \/ line # <<>>
    /\ \E n \in Ahead : LetThrough(n)
    /\ UNCHANGED <<kind, closedTx, made, closed, closing, terminal, outbox, engine,
                   faults, posted, written, ran, crashed>>

\* The callback uses tx, which it may keep: a call is sent until the
\* transaction has ended, even behind its COMMIT.
Statement(i) ==
    /\ stage[i] \in Active \ {"beginning"} /\ ~closedTx[i] /\ ~terminal
    /\ posted[i] < MaxStatements
    /\ posted' = [posted EXCEPT ![i] = @ + 1]
    /\ inbox' = Append(inbox, Msg("statement", i))
    /\ UNCHANGED <<kind, stage, outcome, closedTx, made, closed, closing, terminal,
                   line, cur, outbox, engine, faults, written, ran, crashed>>

\* The callback's promise settles: COMMIT, or ROLLBACK if it throws.
WorkSettles(i) ==
    /\ stage[i] = "working"
    /\ \/ Post(i, "commit", "committing")
       \/ Post(i, "rollback", "rolling")
    /\ UNCHANGED <<kind, closedTx, made, closed, closing, terminal, line, cur, outbox,
                   engine, faults, posted, written, ran, crashed>>

\* close(): the waiting plain calls fail, and their reactions on #tail will find
\* nothing to post; an open transaction is ended whether or not its callback
\* settles, and ROLLBACK is posted before "close".
Open == {i \in Calls : stage[i] \in Active}

\* The calls close() fails at once.
\* Defect: a callback that runs is waited for.
Cancelled_LineOnly == {i \in Calls : stage[i] = "line" /\ kind[i] = "plain"}
Cancelled == {i \in Calls : \/ stage[i] = "line" /\ kind[i] = "plain"
                            \/ stage[i] = "working"}

Close ==
    /\ ~closed
    /\ closed' = TRUE
    /\ closedTx' = [i \in Calls |-> closedTx[i] \/ i \in Open]
    /\ stage' = [i \in Calls |-> IF i \in Cancelled THEN "settled" ELSE stage[i]]
    /\ outcome' = [i \in Calls |-> IF i \in Cancelled THEN "closed" ELSE outcome[i]]
    /\ closing' = CASE terminal -> "done"
                    [] ~terminal /\ Open # {} -> "rollback"
                    [] OTHER -> "close"
    /\ inbox' = CASE terminal -> inbox
                  [] ~terminal /\ Open # {} -> Append(inbox, Msg("rollback", null))
                  [] OTHER -> Append(inbox, Msg("close", null))
    /\ UNCHANGED <<kind, made, terminal, line, cur, outbox, engine, faults, posted,
                   written, ran, crashed>>

-----------------------------------------------------------------------------
(* Answers.                                                                *)

Reply == Head(outbox)

Receives(op) == outbox # <<>> /\ Reply.op = op

ReceivePlain ==
    /\ Receives("plain")
    /\ outbox' = Tail(outbox)
    /\ Settle(Reply.id, IF Reply.ok THEN "ok" ELSE "failed")
    /\ UNCHANGED <<kind, closedTx, made, closed, closing, terminal, line, cur, inbox,
                   engine, faults, posted, written, ran, crashed>>

ReceiveStatement ==
    /\ Receives("statement")
    /\ outbox' = Tail(outbox)
    /\ UNCHANGED <<kind, stage, outcome, closedTx, made, closed, closing, terminal,
                   line, cur, inbox, engine, faults, posted, written, ran, crashed>>

\* BEGIN is answered and the callback runs.  If close() came meanwhile its
\* calls are refused, and the transaction does not wait for it.
ReceiveBegin ==
    /\ Receives("begin")
    /\ outbox' = Tail(outbox)
    /\ LET i == Reply.id IN
       CASE closedTx[i] -> Settle(i, "closed") /\ UNCHANGED inbox
         [] ~closedTx[i] /\ Reply.ok -> /\ stage' = [stage EXCEPT ![i] = "working"]
                                        /\ UNCHANGED <<outcome, inbox>>
         [] OTHER -> Post(i, "rollback", "rolling")
    /\ UNCHANGED <<kind, closedTx, made, closed, closing, terminal, line, cur, engine,
                   faults, posted, written, ran, crashed>>

\* COMMIT is answered: an error is followed by ROLLBACK.
ReceiveCommit ==
    /\ Receives("commit")
    /\ outbox' = Tail(outbox)
    /\ LET i == Reply.id IN
       CASE Reply.ok -> Settle(i, "ok") /\ UNCHANGED inbox
         [] ~Reply.ok /\ closedTx[i] -> Settle(i, "closed") /\ UNCHANGED inbox
         [] OTHER -> Post(i, "rollback", "rolling")
    /\ UNCHANGED <<kind, closedTx, made, closed, closing, terminal, line, cur, engine,
                   faults, posted, written, ran, crashed>>

\* ROLLBACK of a failed transaction is answered.
ReceiveRollback ==
    /\ Receives("rollback") /\ Reply.id # null
    /\ outbox' = Tail(outbox)
    /\ Settle(Reply.id, "failed")
    /\ UNCHANGED <<kind, closedTx, made, closed, closing, terminal, line, cur, inbox,
                   engine, faults, posted, written, ran, crashed>>

\* terminate(): whatever is still pending is rejected.
Pending == {i \in Calls : stage[i] \in (Active \ {"working"}) \cup {"posted"}}

Terminate(o) ==
    /\ terminal' = TRUE
    /\ inbox' = <<>> /\ outbox' = <<>>
    /\ stage' = [i \in Calls |-> IF i \in Pending THEN "settled" ELSE stage[i]]
    /\ outcome' = [i \in Calls |->
                     IF i \notin Pending THEN outcome[i]
                     ELSE IF closedTx[i] THEN "closed" ELSE o]

\* close()'s own ROLLBACK is answered, with or without an error.
ReceiveCloseRollback ==
    /\ Receives("rollback") /\ Reply.id = null
    /\ outbox' = Tail(outbox)
    /\ closing' = "close"
    /\ inbox' = Append(inbox, Msg("close", null))
    /\ UNCHANGED <<kind, stage, outcome, closedTx, made, closed, terminal, line, cur,
                   engine, faults, posted, written, ran, crashed>>

\* "close" is answered: the Worker is ended.
ReceiveClose ==
    /\ Receives("close")
    /\ Terminate("dropped")
    /\ closing' = "done"
    /\ UNCHANGED <<kind, closedTx, made, closed, line, cur, engine, faults, posted,
                   written, ran, crashed>>

\* The Worker dies: SQLite drops the open transaction.
WorkerDies ==
    /\ ~terminal /\ faults < MaxFaults
    /\ faults' = faults + 1 /\ crashed' = TRUE
    /\ Terminate("failed")
    /\ closing' = IF closing = "no" THEN "no" ELSE "done"
    /\ engine' = [engine EXCEPT !.open = FALSE, !.interactive = FALSE, !.tx = null]
    /\ UNCHANGED <<kind, closedTx, made, closed, line, cur, posted, written, ran>>

-----------------------------------------------------------------------------
(* The Worker: one message at a time, in order.                            *)

Request == Head(inbox)

Serves(op) == inbox # <<>> /\ Request.op = op /\ ~terminal

Answer(ok) ==
    /\ inbox' = Tail(inbox)
    /\ outbox' = Append(outbox, [op |-> Request.op, id |-> Request.id, ok |-> ok])
    /\ UNCHANGED <<kind, stage, outcome, closedTx, made, closed, closing, terminal,
                   line, cur, posted, crashed>>

\* A message is answered, or SQLite fails it.
Done   == Answer(TRUE) /\ UNCHANGED faults
Failed == Answer(FALSE) /\ faults < MaxFaults /\ faults' = faults + 1

\* exec, query, transaction(statements), executeMany, prepared statements,
\* import: its writes are in the log when it is done.  When it fails they are
\* not, but for an exec of several statements: the first of them are done.
RunPlain ==
    /\ Serves("plain")
    /\ ran' = Append(ran, Request.id)
    /\ LET wrote == IF engine.tx = null
                    THEN [engine EXCEPT !.log = Append(@, Request.id)]
                    ELSE [engine EXCEPT !.tx = Append(@, Request.id)] IN
       \/ engine' = wrote /\ Done
       \/ engine' \in {engine, wrote} /\ Failed
    /\ UNCHANGED written

\* begin.
RunBegin ==
    /\ Serves("begin")
    /\ ran' = Append(ran, Request.id)
    /\ \/ /\ engine.tx = null
          /\ engine' = [engine EXCEPT !.interactive = TRUE, !.tx = <<>>]
          /\ Done
       \/ Failed /\ UNCHANGED engine
    /\ UNCHANGED written

\* #requireOpenTransaction.
InTransaction == engine.interactive /\ engine.tx # null

\* txExec: refused outside the transaction.  One that fails may end it, leave
\* it open, or leave it with the first of several statements done.
RunStatement ==
    /\ Serves("statement")
    /\ \/ /\ InTransaction
          /\ engine' = [engine EXCEPT !.tx = Append(@, Request.id)]
          /\ written' = [written EXCEPT ![Request.id] = @ + 1]
          /\ Done \/ Failed
       \/ /\ InTransaction /\ Failed
          /\ engine' \in {engine, [engine EXCEPT !.interactive = FALSE, !.tx = null]}
          /\ UNCHANGED written
       \/ /\ ~InTransaction
          /\ engine' = [engine EXCEPT !.interactive = FALSE]
          /\ Answer(FALSE)
          /\ UNCHANGED <<written, faults>>
    /\ UNCHANGED ran

\* commit: refused if SQLite has ended the transaction; a COMMIT that fails
\* leaves it open (a deferred constraint) or not (an I/O error).
\* Defect: COMMIT of a transaction that is gone counts as done.
RunCommit_Lenient ==
    /\ Serves("commit")
    /\ engine' = [engine EXCEPT !.interactive = FALSE, !.tx = null,
                                !.log = IF engine.tx = null THEN @ ELSE @ \o engine.tx]
    /\ Answer(TRUE)
    /\ UNCHANGED <<written, faults, ran>>

RunCommit ==
    /\ Serves("commit")
    /\ \/ /\ InTransaction
          /\ engine' = [engine EXCEPT !.interactive = FALSE, !.tx = null,
                                      !.log = @ \o engine.tx]
          /\ Done
       \/ /\ InTransaction /\ Failed
          /\ engine' \in {engine, [engine EXCEPT !.interactive = FALSE, !.tx = null]}
       \/ /\ ~InTransaction
          /\ engine' = [engine EXCEPT !.interactive = FALSE]
          /\ Answer(FALSE)
          /\ UNCHANGED faults
    /\ UNCHANGED <<written, ran>>

\* rollback: of nothing, it does nothing.
RunRollback ==
    /\ Serves("rollback")
    /\ engine' = [engine EXCEPT !.interactive = FALSE, !.tx = null]
    /\ Answer(TRUE)
    /\ UNCHANGED <<written, faults, ran>>

\* close: SQLite rolls back what is open; the pool is released.
RunClose ==
    /\ Serves("close")
    /\ engine' = [engine EXCEPT !.open = FALSE, !.interactive = FALSE, !.tx = null]
    /\ Answer(TRUE)
    /\ UNCHANGED <<written, faults, ran>>

Worker == RunPlain \/ RunBegin \/ RunStatement \/ RunCommit \/ RunRollback \/ RunClose

Receive ==
    \/ ReceivePlain \/ ReceiveStatement \/ ReceiveBegin \/ ReceiveCommit
    \/ ReceiveRollback \/ ReceiveCloseRollback \/ ReceiveClose

SqlNext ==
    \/ \E i \in Calls : Plain(i) \/ Transaction(i) \/ Statement(i) \/ WorkSettles(i)
    \/ Advance \/ Close \/ WorkerDies \/ Worker \/ Receive

SqlSpec == SqlInit /\ [][SqlNext]_sqlVars

\* The Worker runs, answers arrive and microtasks run.  Callbacks need not
\* settle, nor does anyone have to call close().
FairSqlSpec ==
    /\ SqlSpec
    /\ WF_sqlVars(Worker) /\ WF_sqlVars(Receive) /\ WF_sqlVars(Advance)

-----------------------------------------------------------------------------
(* Properties.                                                             *)

Count(i) == Cardinality({n \in DOMAIN engine.log : engine.log[n] = i})

\* Nothing interleaves: while an interactive transaction is open no other call
\* starts, and what is written in it is its own statements, not one that
\* another transaction's callback sent too late.
NothingInterleaves ==
    engine.tx # null =>
        LET owner == ran[Len(ran)] IN
        /\ kind[owner] = "tx"
        /\ \A n \in DOMAIN engine.tx : engine.tx[n] = owner

\* A transaction told "ok" is in the log whole; one told anything else is not
\* there at all, unless the Worker died before it could say so.
OutcomeIsTrue ==
    \A i \in Calls : kind[i] = "tx" =>
        /\ outcome[i] = "ok" => Count(i) = written[i]
        /\ (outcome[i] \in {"failed", "closed"} /\ ~crashed) => Count(i) = 0

\* SQLite starts calls in the order they were made, in and out of line.
CallOrder == \A m, n \in DOMAIN ran : m < n => ran[m] < ran[n]

\* close() drops no call it has posted: those are answered first; and when it
\* is done, no transaction is open on a connection that is still there.
CloseIsClean ==
    /\ \A i \in Calls : outcome[i] # "dropped"
    /\ closing = "done" => ~engine.open /\ engine.tx = null

\* The line, the handler's queue and the one open transaction, at every moment.
SqlInvariant ==
    /\ SqlTypeOK
    /\ NothingInterleaves
    /\ CallOrder
    /\ CloseIsClean

\* Once close() is called every call settles, callbacks that never do
\* notwithstanding.
CloseSettles ==
    closed ~> (closing = "done" /\ \A i \in Calls : stage[i] \in {"none", "settled"})

\* A call is left pending only behind a callback that does not settle.
CallsSettle ==
    \A i \in Calls :
        stage[i] \in {"line", "posted"}
        ~> (stage[i] = "settled" \/ \E j \in Calls : stage[j] = "working")
=============================================================================
