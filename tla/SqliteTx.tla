------------------------------ MODULE SqliteTx ------------------------------
(***************************************************************************)
(* Requests that write through ctx.db on the SQLite adapter: the builders  *)
(* and transaction() of packages/core/src/db/index.ts, the hook executor   *)
(* (hooks/executor.ts), audit hooks (app/audit-wiring.ts) and the adapter  *)
(* (adapter/sqlite.ts).                                                    *)
(*                                                                         *)
(* There is one connection.  A statement runs to completion, but every     *)
(* hook is awaited, so statements of other requests run in between, and    *)
(* inside a transaction that one of them has opened.                       *)
(***************************************************************************)
EXTENDS Naturals, FiniteSets

CONSTANTS
  Clients,  \* the requests
  Nobody,   \* the owner of no transaction
  Rows,     \* primary keys of the table
  Stored,   \* the rows there are at the start
  Kinds,    \* write operations of the builders
  MaxOps    \* bound: write operations of each request

ASSUME TxAssumption ==
  /\ Nobody \notin Clients
  /\ Stored \subseteq Rows
  /\ Kinds \subseteq {"insert", "update", "delete", "softDelete", "restore"}
  /\ MaxOps \in [Clients -> Nat]

Writes == UNION {{c} \X (1 .. MaxOps[c]) \X Rows : c \in Clients}

VARIABLES
  pc,         \* where a request is
  mode,       \* "plain", in the callback of "transaction", or in "updateMany"
  op,         \* its operation: kind and rows (several rows: insertMany)
  count,      \* its operations so far
  todo,       \* rows whose after-hooks are still due
  queue,      \* the RequestEventQueue of the request
  txQueue,    \* the queue of its transaction
  result,     \* TransactionResult.events
  db,         \* what the connection sees: state of each row, writes made, audit rows
  saved,      \* what ROLLBACK goes back to
  open,       \* who ran BEGIN
  emitted,    \* events that left, each named by its write
  own,        \* history: writes a request made in its transaction
  outcome,    \* history: how its transaction ended
  missed,     \* history: writes that found no row any more
  disturbed   \* history: requests that wrote inside the transaction of another

vars == <<pc, mode, op, count, todo, queue, txQueue, result, db, saved, open, emitted, own,
          outcome, missed, disturbed>>

eventVars   == <<queue, txQueue, result, emitted>>
historyVars == <<own, outcome, missed, disturbed>>

PCs == {"choose", "read", "execute", "after", "rollback", "done", "failed"}

NoOp == [kind |-> "none", rows |-> {}]

Goto(c, label) == pc' = [pc EXCEPT ![c] = label]

\* Locals of an operation, and the queues of a request, go when it ends.
ForgetOp(c)     == op' = [op EXCEPT ![c] = NoOp] /\ todo' = [todo EXCEPT ![c] = {}]
ForgetQueues(c) == queue' = [queue EXCEPT ![c] = {}] /\ txQueue' = [txQueue EXCEPT ![c] = {}]

\* A statement of c while another request's transaction is open.
Strays(c) == IF open \in {Nobody, c} THEN disturbed ELSE disturbed \cup {c}

-----------------------------------------------------------------------------
(* One write operation *)

\* The operation is called.  update() and delete() read first; an insert goes to
\* its before-hooks at once; softDelete() and restore() have no hooks at all.
Choose(c, kind, rows) ==
  /\ pc[c] = "choose" /\ count[c] < MaxOps[c]
  /\ kind # "insert" => Cardinality(rows) = 1
  /\ mode[c] = "updateMany" => kind = "update"
  /\ op' = [op EXCEPT ![c] = [kind |-> kind, rows |-> rows]]
  /\ count' = [count EXCEPT ![c] = @ + 1]
  /\ Goto(c, IF kind \in {"update", "delete"} THEN "read" ELSE "execute")
  /\ UNCHANGED <<mode, todo, db, saved, open, eventVars, historyVars>>

\* update() and delete() find the current row (else they throw), updateMany()
\* with a SELECT of its own that sees soft-deleted rows, too.  The before-hooks
\* are awaited next.
Read(c) ==
  /\ pc[c] = "read"
  /\ \A r \in op[c].rows :
       db.rows[r] \in IF mode[c] = "updateMany" THEN {"live", "deleted"} ELSE {"live"}
  /\ Goto(c, "execute")
  /\ UNCHANGED <<mode, op, count, todo, db, saved, open, eventVars, historyVars>>

\* The rows a statement finds, and what it makes of them.
Found(c) ==
  {r \in op[c].rows : (op[c].kind = "insert") <=> (db.rows[r] = "absent")}

Made(c, r) ==
  CASE op[c].kind = "delete"     -> "absent"
    [] op[c].kind = "softDelete" -> "deleted"
    [] op[c].kind = "update"     -> db.rows[r]
    [] OTHER                     -> "live"

Ids(c, rows) == {<<c, count[c], r>> : r \in rows}

\* All before-hooks have passed: the statement.  All rows of an insert must be
\* new, the others change what they find.  Nobody looks at the number of rows
\* affected.  After-hooks are awaited next.
Execute(c) ==
  /\ pc[c] = "execute"
  /\ op[c].kind = "insert" => Found(c) = op[c].rows
  /\ db' = [db EXCEPT !.rows = [r \in Rows |-> IF r \in Found(c) THEN Made(c, r) ELSE @[r]],
                      !.writes = @ \cup Ids(c, Found(c))]
  /\ own' = [own EXCEPT ![c] = IF mode[c] = "plain" THEN @ ELSE @ \cup Ids(c, Found(c))]
  /\ missed' = missed \cup Ids(c, op[c].rows \ Found(c))
  /\ disturbed' = Strays(c)
  /\ IF op[c].kind \in {"softDelete", "restore"}
       THEN Goto(c, "choose") /\ ForgetOp(c)
       ELSE Goto(c, "after") /\ todo' = [todo EXCEPT ![c] = op[c].rows] /\ UNCHANGED op
  /\ UNCHANGED <<mode, count, saved, open, eventVars, outcome>>

\* Mutant of AuditAndCollect: a transaction collects into the queue of the request.
CollectIntoRequest(c) ==
  LET r  == CHOOSE x \in todo[c] : TRUE
      id == <<c, count[c], r>>
  IN /\ pc[c] = "after"
     /\ \/ db' = [db EXCEPT !.audit = @ \cup {id}] /\ disturbed' = Strays(c)
        \/ UNCHANGED <<db, disturbed>>
     /\ queue' = [queue EXCEPT ![c] = @ \cup {id}] /\ UNCHANGED txQueue
     /\ IF todo[c] = {r}
          THEN Goto(c, "choose") /\ ForgetOp(c)
          ELSE todo' = [todo EXCEPT ![c] = @ \ {r}] /\ UNCHANGED <<pc, op>>
     /\ UNCHANGED <<mode, count, saved, open, result, emitted, own, outcome, missed>>

\* All other after-hooks have passed for one row.  The audit hook, the last,
\* writes through the base adapter, which is the same connection; its errors
\* are caught.  Then the event is collected, into the queue of the transaction
\* if there is one.
AuditAndCollect(c) ==
  LET r  == CHOOSE x \in todo[c] : TRUE
      id == <<c, count[c], r>>
  IN /\ pc[c] = "after"
     /\ \/ db' = [db EXCEPT !.audit = @ \cup {id}] /\ disturbed' = Strays(c)
        \/ UNCHANGED <<db, disturbed>>
     /\ IF mode[c] = "plain"
          THEN queue' = [queue EXCEPT ![c] = @ \cup {id}] /\ UNCHANGED txQueue
          ELSE txQueue' = [txQueue EXCEPT ![c] = @ \cup {id}] /\ UNCHANGED queue
     /\ IF todo[c] = {r}
          THEN Goto(c, "choose") /\ ForgetOp(c)
          ELSE todo' = [todo EXCEPT ![c] = @ \ {r}] /\ UNCHANGED <<pc, op>>
     /\ UNCHANGED <<mode, count, saved, open, result, emitted, own, outcome, missed>>

\* Code of the request catches an error and goes on (updateMany() catches none),
\* or the error ends what it is in: the request or its transaction.
Catch(c) ==
  /\ mode[c] # "updateMany"
  /\ Goto(c, "choose") /\ UNCHANGED <<queue, txQueue>>

Raise(c) ==
  IF mode[c] = "plain" THEN Goto(c, "failed") /\ ForgetQueues(c)
                       ELSE Goto(c, "rollback") /\ UNCHANGED <<queue, txQueue>>

\* A hook, a statement or the code in between throws; COMMIT may, too.  What a
\* statement has changed stays changed unless there is a transaction.
Fail(c) ==
  /\ pc[c] \in {"choose", "read", "execute", "after"}
  /\ ForgetOp(c)
  /\ Catch(c) \/ Raise(c)
  /\ UNCHANGED <<mode, count, db, saved, open, result, emitted, historyVars>>

-----------------------------------------------------------------------------
(* transaction() *)

\* Mutant of Begin: BEGIN succeeds inside a transaction.
BeginNested(c, m) ==
  /\ pc[c] = "choose" /\ mode[c] = "plain" /\ outcome[c] = "none"
  /\ open' = c
  /\ saved' = db
  /\ mode' = [mode EXCEPT ![c] = m]
  /\ outcome' = [outcome EXCEPT ![c] = "open"]
  /\ UNCHANGED <<pc, op, count, todo, db, eventVars, own, missed, disturbed>>

\* BEGIN, for transaction(fn) or updateMany(); one of them per request.
Begin(c, m) ==
  /\ pc[c] = "choose" /\ mode[c] = "plain" /\ outcome[c] = "none"
  /\ open = Nobody
  /\ open' = c
  /\ saved' = db
  /\ mode' = [mode EXCEPT ![c] = m]
  /\ outcome' = [outcome EXCEPT ![c] = "open"]
  /\ UNCHANGED <<pc, op, count, todo, db, eventVars, own, missed, disturbed>>

\* BEGIN fails inside a transaction, one's own (nested) or another's.  It is
\* in front of the try: the connection stays as it is, and the error goes to
\* the caller, which is an outer transaction or the handler.
BeginFails(c) ==
  /\ pc[c] = "choose" /\ mode[c] # "updateMany"
  /\ open # Nobody
  /\ Fail(c)

\* The callback resolves, then COMMIT.  transaction() drains its queue into the
\* result, updateMany() drops it.
Commit(c) ==
  /\ pc[c] = "choose" /\ mode[c] # "plain"
  /\ open' = Nobody
  /\ result' = [result EXCEPT ![c] = IF mode[c] = "transaction" THEN txQueue[c] ELSE {}]
  /\ txQueue' = [txQueue EXCEPT ![c] = {}]
  /\ outcome' = [outcome EXCEPT ![c] = "committed"]
  /\ mode' = [mode EXCEPT ![c] = "plain"]
  /\ UNCHANGED <<pc, op, count, todo, queue, db, saved, emitted, own, missed, disturbed>>

\* The error of a transaction fails the request, or the handler catches it.
Unwind(c) ==
  /\ outcome' = [outcome EXCEPT ![c] = "aborted"]
  /\ mode' = [mode EXCEPT ![c] = "plain"]
  /\ txQueue' = [txQueue EXCEPT ![c] = {}]
  /\ \/ Goto(c, "failed") /\ queue' = [queue EXCEPT ![c] = {}]
     \/ Goto(c, "choose") /\ UNCHANGED queue
  /\ UNCHANGED <<op, count, todo, saved, result, emitted, own, missed, disturbed>>

\* Mutant of Rollback: the error is passed on, the transaction left as it is.
RollbackOmitted(c) == pc[c] = "rollback" /\ Unwind(c) /\ UNCHANGED <<db, open>>

\* Mutant of Rollback: COMMIT on the error path, too.
RollbackCommits(c) == pc[c] = "rollback" /\ Unwind(c) /\ open' = Nobody /\ UNCHANGED db

\* ROLLBACK undoes every statement since BEGIN, whoever ran it.
Rollback(c) == pc[c] = "rollback" /\ Unwind(c) /\ open' = Nobody /\ db' = saved

-----------------------------------------------------------------------------
(* The rest of the request *)

\* The handler flushes the events of a transaction itself (docs/sql/01-overview.md).
FlushResult(c) ==
  /\ pc[c] = "choose" /\ mode[c] = "plain" /\ result[c] # {}
  /\ emitted' = emitted \cup result[c]
  /\ result' = [result EXCEPT ![c] = {}]
  /\ UNCHANGED <<pc, mode, op, count, todo, queue, txQueue, db, saved, open, historyVars>>

\* The handler succeeds, and the pipeline flushes the queue of the request.
Finish(c) ==
  /\ pc[c] = "choose" /\ mode[c] = "plain"
  /\ emitted' = emitted \cup queue[c]
  /\ queue' = [queue EXCEPT ![c] = {}]
  /\ Goto(c, "done")
  /\ UNCHANGED <<mode, op, count, todo, txQueue, result, db, saved, open, historyVars>>

Init ==
  /\ pc = [c \in Clients |-> "choose"]
  /\ mode = [c \in Clients |-> "plain"]
  /\ op = [c \in Clients |-> NoOp]
  /\ count = [c \in Clients |-> 0]
  /\ todo = [c \in Clients |-> {}]
  /\ queue = [c \in Clients |-> {}]
  /\ txQueue = [c \in Clients |-> {}]
  /\ result = [c \in Clients |-> {}]
  /\ db = [rows |-> [r \in Rows |-> IF r \in Stored THEN "live" ELSE "absent"],
           writes |-> {}, audit |-> {}]
  /\ saved = db
  /\ open = Nobody
  /\ emitted = {}
  /\ own = [c \in Clients |-> {}]
  /\ outcome = [c \in Clients |-> "none"]
  /\ missed = {}
  /\ disturbed = {}

\* What a request does once it is asked to go on.
Work(c) ==
  \/ Read(c) \/ Execute(c) \/ AuditAndCollect(c) \/ Fail(c)
  \/ BeginFails(c) \/ Commit(c) \/ Rollback(c) \/ Finish(c)

Next ==
  \E c \in Clients :
    \/ \E kind \in Kinds, rows \in (SUBSET Rows) \ {{}} : Choose(c, kind, rows)
    \/ \E m \in {"transaction", "updateMany"} : Begin(c, m)
    \/ FlushResult(c)
    \/ Work(c)

Spec == Init /\ [][Next]_vars

\* Every promise a handler or a hook awaits settles.
FairSpec == Spec /\ \A c \in Clients : WF_vars(Work(c))

-----------------------------------------------------------------------------
(* Properties *)

Contents == [rows : [Rows -> {"absent", "live", "deleted"}],
             writes : SUBSET Writes, audit : SUBSET Writes]

\* Types of the variables; who owns the transaction is who is inside one.
TypeOK ==
  /\ pc \in [Clients -> PCs]
  /\ mode \in [Clients -> {"plain", "transaction", "updateMany"}]
  /\ op \in [Clients -> [kind : Kinds \cup {"none"}, rows : SUBSET Rows]]
  /\ count \in [Clients -> Nat] /\ \A c \in Clients : count[c] <= MaxOps[c]
  /\ todo \in [Clients -> SUBSET Rows]
  /\ queue \in [Clients -> SUBSET Writes]
  /\ txQueue \in [Clients -> SUBSET Writes]
  /\ result \in [Clients -> SUBSET Writes]
  /\ db \in Contents /\ saved \in Contents
  /\ open \in Clients \cup {Nobody}
  /\ emitted \subseteq Writes
  /\ own \in [Clients -> SUBSET Writes]
  /\ outcome \in [Clients -> {"none", "open", "committed", "aborted"}]
  /\ missed \subseteq Writes
  /\ disturbed \subseteq Clients
  /\ \A c \in Clients : (open = c) <=> (mode[c] # "plain")

\* Of a transaction that ended, all writes are in the database or none is, with
\* other requests writing on the same connection.
AllOrNothing ==
  \A c \in Clients :
    /\ outcome[c] = "committed" => own[c] \subseteq db.writes
    /\ outcome[c] = "aborted" => own[c] \cap db.writes = {}

\* DESIGN.md "Events in TX - buffered, flush on commit - email never fires on
\* rollback": an event of a transaction leaves only once it is committed.
TxEventsFollowCommit ==
  \A c \in Clients : own[c] \cap emitted # {} => outcome[c] = "committed"

\* Types, and transactions whose writes and events are all kept or none is.
TransactionsAreAtomic == TypeOK /\ AllOrNothing /\ TxEventsFollowCommit

\* Each event and audit row of a request that did not write inside somebody
\* else's transaction is about a change that is in the database (or about a
\* row that was gone when it was written).
UndisturbedWorkIsKept ==
  \A w \in emitted \cup db.audit : w[1] \notin disturbed => w \in db.writes \cup missed

\* No transaction stays open.
TransactionsEnd == \A c \in Clients : (open = c) ~> (open # c)

\* The connection implements the shared store.
Store == INSTANCE WriteStore
  WITH committed <- IF open = Nobody THEN db.writes ELSE saved.writes,
       pending <- IF open = Nobody THEN {} ELSE db.writes \ saved.writes,
       owner <- open

ImplementsStore == Store!Spec

(* What comments claim, and the code does not do *)

\* events/index.ts:7 "guaranteeing that events never fire on guard block, handler
\* error, or rollback": an event that left is about a change that is there.
EventsNeverFireOnRollback == emitted \subseteq db.writes \cup missed

\* app/audit-wiring.ts:17 "audit rows survive even if the calling TX is rolled
\* back": as long as the one that rolls back has audited, the row stays.
AuditSurvivesRollback ==
  [][\A c \in Clients : outcome[c] = "open" /\ outcome'[c] = "aborted" =>
       db.audit \subseteq db'.audit]_vars

\* docs/guides/03: events "are automatically emitted after successful database
\* operations": one that left is about a row that was changed.
EventsAreChanges == emitted \cap missed = {}
=============================================================================
