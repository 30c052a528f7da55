------------------------------ MODULE PooledTx ------------------------------
(***************************************************************************)
(* Requests that write through ctx.db on the Postgres and MySQL adapters   *)
(* (adapter/postgres.ts, mysql.ts), where SqliteTx has the SQLite one: a   *)
(* pool of connections, of which a transaction reserves one, and a server  *)
(* that keeps transactions apart with row locks.  Audit hooks write        *)
(* through the base adapter (app/audit-wiring.ts), so from inside a        *)
(* transaction they need a second connection.                              *)
(*                                                                         *)
(* Who waits for a connection or a lock cannot fail meanwhile; hooks and   *)
(* statements that run may.  An operation updates one row; reads are left  *)
(* out.                                                                    *)
(***************************************************************************)
EXTENDS Naturals, FiniteSets

CONSTANTS
  Clients,   \* the requests
  Nobody,    \* no client, and no row
  Rows,
  MaxOps,    \* bound: operations and nested transactions of each request
  Pools      \* databases: the option max of the pool, and whether the table is audited

ASSUME PoolAssumption ==
  Nobody \notin Clients \cup Rows /\ MaxOps \in [Clients -> Nat] /\ Pools \subseteq [max : Nat \ {0}, audited : BOOLEAN]

VARIABLES
  pool,       \* which of Pools it is
  pc,         \* where a request is
  depth,      \* 0, or in the callback of transaction(), or of one nested in it
  row,        \* the row of its operation
  count,      \* its operations and nested transactions so far
  lock,       \* row -> the client whose transaction has written it
  own,        \* writes in its transaction
  doomed,     \* whose transaction the server has given up
  committed,  \* writes that are in the database, <<client, number>>
  audit,      \* ... and audit rows
  queues,     \* events collected: by the request, its transaction, the nested
              \* one, and in TransactionResult.events of the one and the other
  emitted,    \* events that left
  early,      \* history: those that left before the transaction had ended
  outcome,    \* history: how its transaction ended
  swallowed   \* history: whose transaction resolved although it was doomed

vars == <<pool, pc, depth, row, count, lock, own, doomed, committed, audit, queues, emitted,
          early, outcome, swallowed>>

PCs == {"choose", "begin", "statement", "running", "after", "rollback", "done", "failed"}
NoEvents == [request |-> {}, tx |-> {}, nested |-> {}, result |-> {}, inner |-> {}]
Id(c) == <<c, count[c]>>
Goto(c, label) == pc' = [pc EXCEPT ![c] = label]

-----------------------------------------------------------------------------
(* The pool: a transaction reserves a connection, a statement outside of one *)
(* has one while it runs.                                                  *)

InUse == {c \in Clients : depth[c] > 0 \/ pc[c] = "running"}

Free == Cardinality(InUse) < pool.max

-----------------------------------------------------------------------------
(* Errors *)

\* Code inside the callback catches an error, at its own level or the one
\* above, whose events are then lost; or it ends the transaction, or the
\* request.
Catch(c) ==
  \E level \in {l \in 0 .. depth[c] : (l = 0) <=> (depth[c] = 0)} :
    /\ depth' = [depth EXCEPT ![c] = level]
    /\ Goto(c, "choose")
    /\ queues' = IF level < depth[c] THEN [queues EXCEPT ![c].nested = {}] ELSE queues

Raise(c) ==
  /\ Goto(c, IF depth[c] = 0 THEN "failed" ELSE "rollback")
  /\ queues' = IF depth[c] = 0 THEN [queues EXCEPT ![c] = NoEvents] ELSE queues
  /\ UNCHANGED depth

Throws(c) ==
  /\ Catch(c) \/ Raise(c)
  /\ row' = [row EXCEPT ![c] = Nobody]

\* Code or a hook throws; a before-hook does so before anything has changed.
Fail(c) ==
  /\ pc[c] \in {"choose", "after"}
  /\ Throws(c)
  /\ UNCHANGED <<pool, count, lock, own, doomed, committed, audit, emitted, early, outcome, swallowed>>

-----------------------------------------------------------------------------
(* One operation *)

Choose(c, r) ==
  /\ pc[c] = "choose" /\ count[c] < MaxOps[c]
  /\ row' = [row EXCEPT ![c] = r] /\ count' = [count EXCEPT ![c] = @ + 1]
  /\ Goto(c, IF depth[c] = 0 THEN "statement" ELSE "running")
  /\ UNCHANGED <<pool, depth, lock, own, doomed, committed, audit, queues, emitted, early, outcome, swallowed>>

\* txAdapter has its connection; the base adapter waits for a free one.
Acquire(c) ==
  /\ pc[c] = "statement" /\ Free
  /\ Goto(c, "running")
  /\ UNCHANGED <<pool, depth, row, count, lock, own, doomed, committed, audit, queues, emitted, early, outcome, swallowed>>

\* The server runs the statement once nobody else has a lock on the row.
Run(c) ==
  /\ pc[c] = "running" /\ lock[row[c]] \in {Nobody, c} /\ c \notin doomed
  /\ IF depth[c] > 0
     THEN /\ own' = [own EXCEPT ![c] = @ \cup {Id(c)}] /\ lock' = [lock EXCEPT ![row[c]] = c]
          /\ UNCHANGED committed
     ELSE committed' = committed \cup {Id(c)} /\ UNCHANGED <<own, lock>>
  /\ Goto(c, "after")
  /\ UNCHANGED <<pool, depth, row, count, doomed, audit, queues, emitted, early, outcome, swallowed>>

\* ... waits for a transaction that waits, by locks, for it.
WaitsFor(c) == IF pc[c] = "running" THEN lock[row[c]] ELSE Nobody
Deadlocked(c) == WaitsFor(c) \notin {Nobody, c} /\ WaitsFor(WaitsFor(c)) = c

\* It is refused: for what it says, because it is in a deadlock, or because
\* the transaction is doomed.  After an error a server may doom it (Postgres).
RunFails(c) ==
  /\ pc[c] = "running"
  /\ lock[row[c]] \in {Nobody, c} \/ Deadlocked(c)
  /\ doomed' \in IF depth[c] > 0 THEN {doomed, doomed \cup {c}} ELSE {doomed}
  /\ Throws(c)
  /\ UNCHANGED <<pool, count, lock, own, committed, audit, emitted, early, outcome, swallowed>>

\* The queue of the BoundOakBunDB the operation was called on.
QueueOf(c) == CASE depth[c] = 0 -> "request" [] depth[c] = 1 -> "tx" [] OTHER -> "nested"

\* The other after-hooks have passed.  The audit hook writes through the base
\* adapter, or catches its error; then the event is collected.
AuditAndCollect(c) ==
  /\ pc[c] = "after"
  /\ IF pool.audited THEN Free /\ audit' \in {audit, audit \cup {Id(c)}} ELSE UNCHANGED audit
  /\ queues' = [queues EXCEPT ![c][QueueOf(c)] = @ \cup {Id(c)}]
  /\ row' = [row EXCEPT ![c] = Nobody]
  /\ Goto(c, "choose")
  /\ UNCHANGED <<pool, depth, count, lock, own, doomed, committed, emitted, early, outcome, swallowed>>

-----------------------------------------------------------------------------
(* transaction(); one of them per request *)

Begin(c) ==
  /\ pc[c] = "choose" /\ depth[c] = 0 /\ outcome[c] = "none"
  /\ Goto(c, "begin")
  /\ UNCHANGED <<pool, depth, row, count, lock, own, doomed, committed, audit, queues, emitted, early, outcome, swallowed>>

\* sql.begin() reserves a connection.
Reserve(c) ==
  /\ pc[c] = "begin" /\ Free
  /\ depth' = [depth EXCEPT ![c] = 1] /\ outcome' = [outcome EXCEPT ![c] = "open"]
  /\ Goto(c, "choose")
  /\ UNCHANGED <<pool, row, count, lock, own, doomed, committed, audit, queues, emitted, early, swallowed>>

\* Mutant of Nest: it is a transaction of its own connection.
NestReserves(c) ==
  /\ pc[c] = "choose" /\ depth[c] = 1 /\ count[c] < MaxOps[c]
  /\ Goto(c, "begin") /\ count' = [count EXCEPT ![c] = @ + 1]
  /\ UNCHANGED <<pool, depth, row, lock, own, doomed, committed, audit, queues, emitted, early, outcome, swallowed>>

\* transaction() of txAdapter just calls its function.
Nest(c) ==
  /\ pc[c] = "choose" /\ depth[c] = 1 /\ count[c] < MaxOps[c]
  /\ depth' = [depth EXCEPT ![c] = 2] /\ count' = [count EXCEPT ![c] = @ + 1]
  /\ UNCHANGED <<pool, pc, row, lock, own, doomed, committed, audit, queues, emitted, early, outcome, swallowed>>

\* Mutant of Leave: the nested one hands its events to the request.
LeaveToRequest(c) ==
  /\ pc[c] = "choose" /\ depth[c] = 2
  /\ depth' = [depth EXCEPT ![c] = 1]
  /\ queues' = [queues EXCEPT ![c].request = @ \cup queues[c].nested, ![c].nested = {}]
  /\ UNCHANGED <<pool, pc, row, count, lock, own, doomed, committed, audit, emitted, early, outcome, swallowed>>

\* The nested callback resolves: its events are in the TransactionResult the
\* outer one gets, and not in the queue of the outer one.
Leave(c) ==
  /\ pc[c] = "choose" /\ depth[c] = 2
  /\ depth' = [depth EXCEPT ![c] = 1]
  /\ queues' = [queues EXCEPT ![c].inner = @ \cup queues[c].nested, ![c].nested = {}]
  /\ UNCHANGED <<pool, pc, row, count, lock, own, doomed, committed, audit, emitted, early, outcome, swallowed>>

\* The connection goes back to the pool, and with it the locks.
Released(c) ==
  /\ depth' = [depth EXCEPT ![c] = 0]
  /\ lock' = [r \in Rows |-> IF lock[r] = c THEN Nobody ELSE lock[r]]
  /\ doomed' = doomed \ {c}

\* The callback resolves: COMMIT.  Of a doomed transaction it is a rollback
\* that may not even be reported.
Commit(c) ==
  /\ pc[c] = "choose" /\ depth[c] = 1
  /\ Released(c)
  /\ queues' = [queues EXCEPT ![c].tx = {}, ![c].result = queues[c].tx]
  /\ IF c \in doomed
     THEN /\ outcome' = [outcome EXCEPT ![c] = "aborted"] /\ swallowed' = swallowed \cup {c}
          /\ UNCHANGED committed
     ELSE /\ outcome' = [outcome EXCEPT ![c] = "committed"] /\ committed' = committed \cup own[c]
          /\ UNCHANGED swallowed
  /\ UNCHANGED <<pool, pc, row, count, own, audit, emitted, early>>

\* COMMIT fails.
CommitFails(c) ==
  /\ pc[c] = "choose" /\ depth[c] = 1
  /\ Goto(c, "rollback")
  /\ UNCHANGED <<pool, depth, row, count, lock, own, doomed, committed, audit, queues, emitted, early, outcome, swallowed>>

\* Its error fails the request, or the handler catches it.
Unwind(c) ==
  /\ pc[c] = "rollback"
  /\ Released(c)
  /\ outcome' = [outcome EXCEPT ![c] = "aborted"]
  /\ \/ Goto(c, "failed") /\ queues' = [queues EXCEPT ![c] = NoEvents]
     \/ Goto(c, "choose") /\ queues' = [queues EXCEPT ![c].tx = {}, ![c].nested = {}, ![c].inner = {}]
  /\ UNCHANGED <<pool, row, count, own, committed, emitted, early, swallowed>>

Rollback(c) == Unwind(c) /\ UNCHANGED audit

-----------------------------------------------------------------------------
(* The rest of the request *)

\* The handler flushes TransactionResult.events (docs/sql/01-overview.md).
FlushResult(c) ==
  /\ pc[c] = "choose" /\ depth[c] = 0 /\ queues[c].result # {}
  /\ emitted' = emitted \cup queues[c].result
  /\ queues' = [queues EXCEPT ![c].result = {}]
  /\ UNCHANGED <<pool, pc, depth, row, count, lock, own, doomed, committed, audit, early, outcome, swallowed>>

\* Who has the result of a nested transaction flushes it the same way: the
\* outer callback, or the handler it returned it to.
FlushInner(c) ==
  /\ pc[c] = "choose" /\ queues[c].inner # {}
  /\ emitted' = emitted \cup queues[c].inner
  /\ early' = IF depth[c] = 0 THEN early ELSE early \cup queues[c].inner
  /\ queues' = [queues EXCEPT ![c].inner = {}]
  /\ UNCHANGED <<pool, pc, depth, row, count, lock, own, doomed, committed, audit, outcome, swallowed>>

\* The handler succeeds, and the pipeline flushes the queue of the request.
Finish(c) ==
  /\ pc[c] = "choose" /\ depth[c] = 0
  /\ emitted' = emitted \cup queues[c].request
  /\ queues' = [queues EXCEPT ![c] = NoEvents]
  /\ Goto(c, "done")
  /\ UNCHANGED <<pool, depth, row, count, lock, own, doomed, committed, audit, early, outcome, swallowed>>

Init ==
  /\ pool \in Pools
  /\ pc = [c \in Clients |-> "choose"] /\ depth = [c \in Clients |-> 0]
  /\ row = [c \in Clients |-> Nobody] /\ count = [c \in Clients |-> 0]
  /\ lock = [r \in Rows |-> Nobody] /\ own = [c \in Clients |-> {}] /\ doomed = {}
  /\ committed = {} /\ audit = {}
  /\ queues = [c \in Clients |-> NoEvents] /\ emitted = {} /\ early = {}
  /\ outcome = [c \in Clients |-> "none"] /\ swallowed = {}

\* What goes on by itself; a callback or handler that does nothing more returns.
Work(c) ==
  \/ Acquire(c) \/ Run(c) \/ RunFails(c) \/ AuditAndCollect(c)
  \/ Reserve(c) \/ Leave(c) \/ Commit(c) \/ Rollback(c) \/ Finish(c)

Next ==
  \E c \in Clients :
    \/ \E r \in Rows : Choose(c, r)
    \/ Begin(c) \/ Nest(c) \/ Fail(c) \/ CommitFails(c) \/ FlushResult(c) \/ FlushInner(c) \/ Work(c)

Spec == Init /\ [][Next]_vars

\* Promises settle, and the server breaks deadlocks.
FairSpec == Spec /\ \A c \in Clients : WF_vars(Work(c))

-----------------------------------------------------------------------------
(* Properties *)

Ids == UNION {{c} \X (1 .. MaxOps[c]) : c \in Clients}

\* Types; no more connections are in use than there are, and locks are held
\* by open transactions only.
TypeOK ==
  /\ pool \in Pools
  /\ pc \in [Clients -> PCs] /\ depth \in [Clients -> 0 .. 2]
  /\ row \in [Clients -> Rows \cup {Nobody}] /\ \A c \in Clients : count[c] \in 0 .. MaxOps[c]
  /\ lock \in [Rows -> Clients \cup {Nobody}] /\ own \in [Clients -> SUBSET Ids] /\ doomed \subseteq Clients
  /\ committed \subseteq Ids /\ audit \subseteq Ids /\ emitted \subseteq Ids /\ early \subseteq emitted
  /\ queues \in [Clients -> [request : SUBSET Ids, tx : SUBSET Ids, nested : SUBSET Ids,
                             result : SUBSET Ids, inner : SUBSET Ids]]
  /\ outcome \in [Clients -> {"none", "open", "committed", "aborted"}] /\ swallowed \subseteq Clients
  /\ Cardinality(InUse) <= pool.max
  /\ \A c \in Clients : depth[c] > 0 <=> outcome[c] = "open"
  /\ \A r \in Rows : lock[r] # Nobody => depth[lock[r]] > 0

\* Of a transaction that ended, what nested ones wrote included, all writes
\* are in the database or none is.
AllOrNothing ==
  \A c \in Clients :
    /\ outcome[c] = "committed" => own[c] \subseteq committed
    /\ outcome[c] = "aborted" => own[c] \cap committed = {}

\* events/index.ts:7: an event that left is about a change that is there, but
\* for code that goes on behind an error the server has doomed it for, and for
\* a callback that flushes the events of a nested transaction itself.
EventsNeverFireOnRollback ==
  \A w \in emitted : w \in committed \/ w[1] \in swallowed \/ w \in early

\* events/index.ts:7, "Events never fire on Error or Rollback": both exceptions
\* break it, docs/sql/01-overview.md:87 shows the flush of the second.
NoEventOnRollback == emitted \subseteq committed

\* Types, and transactions whose writes and events are all kept or none is.
TransactionsAreAtomic == TypeOK /\ AllOrNothing /\ EventsNeverFireOnRollback

Ended == \A c \in Clients : pc[c] \in {"done", "failed"}

\* Every request ends, whoever waits for whose lock, if nothing is audited or
\* there are more connections than requests.
RequestsEnd == (~pool.audited \/ pool.max > Cardinality(Clients)) ~> Ended

=============================================================================
