---------------------------- MODULE PooledTxProofs ----------------------------
(***************************************************************************)
(* Theorems about PooledTx, for every set of requests and rows, every size *)
(* of the pool and every number of operations.                             *)
(***************************************************************************)
EXTENDS PooledTx, FiniteSetTheorems, TLAPS

-----------------------------------------------------------------------------
(* The inductive invariant *)

\* Where a request is, and what that says of its transaction and operation.
Control(c) ==
  /\ pc[c] \in {"begin", "statement", "done", "failed"} => depth[c] = 0
  /\ pc[c] = "begin" => outcome[c] = "none"
  /\ pc[c] = "rollback" => depth[c] > 0
  /\ pc[c] \in {"statement", "running", "after"} => count[c] > 0 /\ row[c] \in Rows

\* The writes of a transaction have numbers that were used, and are in the
\* database behind its COMMIT only; an operation that did not run yet has a
\* number of its own.
Writes(c) ==
  /\ \A w \in own[c] : w[1] = c /\ w[2] <= count[c]
  /\ outcome[c] = "none" => own[c] = {}
  /\ outcome[c] = "committed" => own[c] \subseteq committed
  /\ outcome[c] \in {"open", "aborted"} => own[c] \cap committed = {}
  /\ pc[c] \in {"statement", "running"} => Id(c) \notin own[c] \cup committed

\* What a queue holds was written: by the request itself, or by its transaction.
Events(c) ==
  /\ pc[c] = "after" => Id(c) \in IF depth[c] = 0 THEN committed ELSE own[c]
  /\ queues[c].request \subseteq committed
  /\ queues[c].tx \subseteq own[c] /\ queues[c].nested \subseteq own[c]
  /\ queues[c].result \subseteq own[c] /\ queues[c].inner \subseteq own[c]
  /\ c \in swallowed \/ queues[c].result \subseteq committed
  /\ c \in swallowed \/ depth[c] > 0 \/ queues[c].inner \subseteq committed

Fresh == \A w \in committed : w[2] <= count[w[1]]

\* The connections in use are finitely many.
PoolInv == IsFiniteSet(InUse) /\ Cardinality(InUse) <= pool.max

Queues == [request : SUBSET Ids, tx : SUBSET Ids, nested : SUBSET Ids, result : SUBSET Ids,
           inner : SUBSET Ids]

Types ==
  /\ pool \in Pools
  /\ pc \in [Clients -> PCs] /\ depth \in [Clients -> 0 .. 2]
  /\ row \in [Clients -> Rows \cup {Nobody}]
  /\ count \in [Clients -> Nat] /\ \A c \in Clients : count[c] \in 0 .. MaxOps[c]
  /\ own \in [Clients -> SUBSET Ids] /\ doomed \subseteq Clients
  /\ committed \subseteq Ids /\ audit \subseteq Ids /\ emitted \subseteq Ids /\ early \subseteq emitted
  /\ queues \in [Clients -> Queues]
  /\ outcome \in [Clients -> {"none", "open", "committed", "aborted"}] /\ swallowed \subseteq Clients

\* A transaction is open while its callback runs, and only then it has locks.
Open ==
  /\ \A c \in Clients : depth[c] > 0 <=> outcome[c] = "open"
  /\ lock \in [Rows -> Clients \cup {Nobody}]
  /\ \A r \in Rows : lock[r] # Nobody => depth[lock[r]] > 0

TypeInv == Types /\ Open /\ \A c \in Clients : Control(c)

WritesInv == Fresh /\ \A c \in Clients : Writes(c) /\ Events(c)

\* One step of request c.
Step(c) ==
  \/ \E r \in Rows : Choose(c, r)
  \/ Begin(c) \/ Nest(c) \/ Fail(c) \/ CommitFails(c) \/ FlushResult(c) \/ FlushInner(c) \/ Work(c)

-----------------------------------------------------------------------------
(* Numbers of operations *)

\* A write carries its request.
LEMMA IdsCarry ==
  ASSUME NEW w \in Ids
  PROVE  w[1] \in Clients /\ w[2] \in Nat /\ w[2] > 0 /\ w = <<w[1], w[2]>>
<1>1. PICK c \in Clients : w \in {c} \X (1 .. MaxOps[c])
  BY DEF Ids
<1>2. MaxOps[c] \in Nat
  BY PoolAssumption
<1>3. QED
  BY <1>1, <1>2

\* The operation under way is one of Ids.
LEMMA IdInIds ==
  ASSUME NEW c \in Clients, count[c] \in 1 .. MaxOps[c]
  PROVE  Id(c) \in Ids
BY DEF Id, Ids

-----------------------------------------------------------------------------
(* Type correctness *)

\* Every request starts without a transaction, and every connection is free.
LEMMA InitTypeInv == Init => TypeInv
<1> SUFFICES ASSUME Init PROVE TypeInv
  OBVIOUS
<1>1. NoEvents \in Queues
  BY DEF NoEvents, Queues
<1>2. \A c \in Clients : MaxOps[c] \in Nat
  BY PoolAssumption
<1>3. Types
  BY <1>1, <1>2 DEF Init, Types, PCs
<1>4. Open
  BY PoolAssumption DEF Init, Open
<1>5. \A c \in Clients : Control(c)
  BY DEF Init, Control
<1>6. QED
  BY <1>3, <1>4, <1>5 DEF TypeInv

\* What an error does to the request it is raised in.
LEMMA ThrowsEffect ==
  ASSUME TypeInv, NEW c \in Clients, Throws(c)
  PROVE  /\ pc' \in [Clients -> PCs] /\ depth' \in [Clients -> 0 .. 2]
         /\ row' \in [Clients -> Rows \cup {Nobody}] /\ queues' \in [Clients -> Queues]
         /\ \A d \in Clients \ {c} : pc'[d] = pc[d] /\ depth'[d] = depth[d] /\ row'[d] = row[d]
                                     /\ queues'[d] = queues[d]
         /\ depth'[c] = 0 <=> depth[c] = 0
         /\ pc'[c] \in {"choose", IF depth[c] = 0 THEN "failed" ELSE "rollback"}
         /\ queues'[c].request \subseteq queues[c].request /\ queues'[c].tx \subseteq queues[c].tx
         /\ queues'[c].nested \subseteq queues[c].nested /\ queues'[c].result \subseteq queues[c].result
         /\ queues'[c].inner \subseteq queues[c].inner
<1>1. /\ pc \in [Clients -> PCs] /\ depth \in [Clients -> 0 .. 2]
      /\ row \in [Clients -> Rows \cup {Nobody}] /\ queues \in [Clients -> Queues]
  BY DEF TypeInv, Types
<1>2. /\ row' \in [Clients -> Rows \cup {Nobody}]
      /\ \A d \in Clients \ {c} : row'[d] = row[d]
  BY <1>1 DEF Throws
<1>3. CASE Catch(c)
  <2>1. PICK level \in 0 .. depth[c] :
          /\ level = 0 <=> depth[c] = 0
          /\ depth' = [depth EXCEPT ![c] = level] /\ pc' = [pc EXCEPT ![c] = "choose"]
          /\ queues' = IF level < depth[c] THEN [queues EXCEPT ![c].nested = {}] ELSE queues
    BY <1>3 DEF Catch, Goto
  <2>2. level \in 0 .. 2
    BY <1>1, <2>1
  <2>3. /\ queues' \in [Clients -> Queues]
        /\ \A d \in Clients \ {c} : queues'[d] = queues[d]
        /\ queues'[c].request = queues[c].request /\ queues'[c].tx = queues[c].tx
        /\ queues'[c].nested \subseteq queues[c].nested /\ queues'[c].result = queues[c].result
        /\ queues'[c].inner = queues[c].inner
    BY <1>1, <2>1 DEF Queues
  <2>4. QED
    BY <1>1, <1>2, <2>1, <2>2, <2>3 DEF PCs
<1>4. CASE Raise(c)
  <2>1. /\ pc' = [pc EXCEPT ![c] = IF depth[c] = 0 THEN "failed" ELSE "rollback"] /\ depth' = depth
        /\ queues' = IF depth[c] = 0 THEN [queues EXCEPT ![c] = NoEvents] ELSE queues
    BY <1>4 DEF Raise, Goto
  <2>2. /\ queues' \in [Clients -> Queues]
        /\ \A d \in Clients \ {c} : queues'[d] = queues[d]
        /\ queues'[c].request \subseteq queues[c].request /\ queues'[c].tx \subseteq queues[c].tx
        /\ queues'[c].nested \subseteq queues[c].nested /\ queues'[c].result \subseteq queues[c].result
        /\ queues'[c].inner \subseteq queues[c].inner
    BY <1>1, <2>1 DEF Queues, NoEvents
  <2>3. QED
    BY <1>1, <1>2, <2>1, <2>2 DEF PCs
<1>5. QED
  BY <1>3, <1>4 DEF Throws

\* A request gets other queues.
LEMMA ReplaceQueues ==
  ASSUME queues \in [Clients -> Queues], NEW c \in Clients, NEW q \in Queues,
         queues' = [queues EXCEPT ![c] = q]
  PROVE  /\ queues' \in [Clients -> Queues] /\ queues'[c] = q
         /\ \A d \in Clients \ {c} : queues'[d] = queues[d]
OBVIOUS

\* What Leave, Commit and Unwind leave of the queues of a request.
LEMMA EmptiedQueues ==
  ASSUME NEW f \in Queues
  PROVE  /\ [f EXCEPT !.tx = {}, !.result = f.tx] \in Queues
         /\ [f EXCEPT !.tx = {}, !.nested = {}, !.inner = {}] \in Queues
         /\ [f EXCEPT !.inner = {}] \in Queues
         /\ [f EXCEPT !.inner = @ \cup f.nested, !.nested = {}] \in Queues
BY DEF Queues

\* What a step of request c leaves alone, and the types and places it leads to.
Frame(c) ==
  /\ pool' = pool
  /\ \A d \in Clients \ {c} :
       /\ pc'[d] = pc[d] /\ depth'[d] = depth[d] /\ row'[d] = row[d] /\ count'[d] = count[d]
       /\ own'[d] = own[d] /\ queues'[d] = queues[d] /\ outcome'[d] = outcome[d]

Leads(c) == Types' /\ Frame(c) /\ Control(c)' /\ (depth'[c] > 0 <=> outcome'[c] = "open")

\* Every step of a request keeps the types, and changes nothing of another one.
LEMMA StepLeads ==
  ASSUME TypeInv, NEW c \in Clients, Step(c)
  PROVE  Leads(c)
<1>1. /\ pool \in Pools
      /\ pc \in [Clients -> PCs] /\ depth \in [Clients -> 0 .. 2]
      /\ row \in [Clients -> Rows \cup {Nobody}]
      /\ count \in [Clients -> Nat] /\ \A d \in Clients : count[d] \in 0 .. MaxOps[d] /\ MaxOps[d] \in Nat
      /\ own \in [Clients -> SUBSET Ids] /\ doomed \subseteq Clients
      /\ committed \subseteq Ids /\ audit \subseteq Ids /\ emitted \subseteq Ids /\ early \subseteq emitted
      /\ queues \in [Clients -> Queues]
      /\ outcome \in [Clients -> {"none", "open", "committed", "aborted"}] /\ swallowed \subseteq Clients
  BY PoolAssumption DEF TypeInv, Types
<1>2. Control(c) /\ (depth[c] > 0 <=> outcome[c] = "open")
  BY DEF TypeInv, Open
<1>3. /\ queues[c].request \subseteq Ids /\ queues[c].tx \subseteq Ids
      /\ queues[c].nested \subseteq Ids /\ queues[c].result \subseteq Ids /\ queues[c].inner \subseteq Ids
  BY <1>1 DEF Queues
<1>4. pc[c] \in {"running", "after"} => Id(c) \in Ids
  BY <1>1, <1>2, IdInIds DEF Control
<1>5. ASSUME NEW r \in Rows, Choose(c, r) PROVE Leads(c)
  <2>1. /\ pc' \in [Clients -> PCs] /\ row' \in [Clients -> Rows \cup {Nobody}]
        /\ count' \in [Clients -> Nat] /\ \A d \in Clients : count'[d] \in 0 .. MaxOps[d]
        /\ pc'[c] = (IF depth[c] = 0 THEN "statement" ELSE "running") /\ row'[c] = r /\ count'[c] = count[c] + 1
        /\ \A d \in Clients \ {c} : pc'[d] = pc[d] /\ row'[d] = row[d] /\ count'[d] = count[d]
        /\ UNCHANGED <<pool, depth, own, doomed, committed, audit, queues, emitted, early, outcome, swallowed>>
    BY <1>1, <1>5 DEF Choose, Goto, PCs
  <2>2. QED
    BY <1>1, <1>2, <2>1 DEF Leads, Types, Frame, Control
<1>6. CASE Begin(c) \/ Acquire(c) \/ CommitFails(c)
  <2>1. /\ pc' \in [Clients -> PCs]
        /\ \/ pc[c] = "choose" /\ pc'[c] = "begin" /\ depth[c] = 0 /\ outcome[c] = "none"
           \/ pc[c] = "statement" /\ pc'[c] = "running"
           \/ pc[c] = "choose" /\ pc'[c] = "rollback" /\ depth[c] = 1
        /\ \A d \in Clients \ {c} : pc'[d] = pc[d]
        /\ UNCHANGED <<pool, row, count, depth, own, doomed, committed, audit, queues, emitted, early, outcome, swallowed>>
    BY <1>1, <1>6 DEF Begin, Acquire, CommitFails, Goto, PCs
  <2>2. QED
    BY <1>1, <1>2, <2>1 DEF Leads, Types, Frame, Control
<1>7. CASE Reserve(c)
  <2>1. /\ pc' \in [Clients -> PCs] /\ depth' \in [Clients -> 0 .. 2]
        /\ outcome' \in [Clients -> {"none", "open", "committed", "aborted"}]
        /\ pc'[c] = "choose" /\ depth'[c] = 1 /\ outcome'[c] = "open"
        /\ \A d \in Clients \ {c} : pc'[d] = pc[d] /\ depth'[d] = depth[d] /\ outcome'[d] = outcome[d]
        /\ UNCHANGED <<pool, row, count, own, doomed, committed, audit, queues, emitted, early, swallowed>>
    BY <1>1, <1>7 DEF Reserve, Goto, PCs
  <2>2. QED
    BY <1>1, <1>2, <2>1 DEF Leads, Types, Frame, Control
<1>8. CASE Nest(c)
  <2>1. /\ depth' \in [Clients -> 0 .. 2] /\ count' \in [Clients -> Nat]
        /\ \A d \in Clients : count'[d] \in 0 .. MaxOps[d]
        /\ pc[c] = "choose" /\ depth[c] = 1 /\ depth'[c] = 2
        /\ \A d \in Clients \ {c} : depth'[d] = depth[d] /\ count'[d] = count[d]
        /\ UNCHANGED <<pool, pc, row, own, doomed, committed, audit, queues, emitted, early, outcome, swallowed>>
    BY <1>1, <1>8 DEF Nest
  <2>2. QED
    BY <1>1, <1>2, <2>1 DEF Leads, Types, Frame, Control
<1>9. CASE Fail(c) \/ RunFails(c)
  <2>1. /\ Throws(c) /\ doomed' \subseteq Clients
        /\ UNCHANGED <<pool, count, own, committed, audit, emitted, early, outcome, swallowed>>
    BY <1>1, <1>9 DEF Fail, RunFails
  <2>2. /\ pc' \in [Clients -> PCs] /\ depth' \in [Clients -> 0 .. 2]
        /\ row' \in [Clients -> Rows \cup {Nobody}] /\ queues' \in [Clients -> Queues]
        /\ \A d \in Clients \ {c} : pc'[d] = pc[d] /\ depth'[d] = depth[d] /\ row'[d] = row[d]
                                    /\ queues'[d] = queues[d]
        /\ depth'[c] = 0 <=> depth[c] = 0
        /\ pc'[c] \in {"choose", IF depth[c] = 0 THEN "failed" ELSE "rollback"}
    BY <2>1, ThrowsEffect
  <2>3. depth'[c] \in 0 .. 2 /\ depth[c] \in 0 .. 2
    BY <1>1, <2>2
  <2>4. Control(c)' /\ (depth'[c] > 0 <=> outcome'[c] = "open")
    BY <1>2, <2>1, <2>2, <2>3 DEF Control
  <2>5. Types' /\ Frame(c)
    BY <1>1, <2>1, <2>2 DEF Types, Frame
  <2>6. QED
    BY <2>4, <2>5 DEF Leads
<1>10. CASE Run(c)
  <2>1. /\ pc' \in [Clients -> PCs] /\ own' \in [Clients -> SUBSET Ids] /\ committed' \subseteq Ids
        /\ pc[c] = "running" /\ pc'[c] = "after"
        /\ \A d \in Clients \ {c} : pc'[d] = pc[d] /\ own'[d] = own[d]
        /\ UNCHANGED <<pool, row, count, depth, doomed, audit, queues, emitted, early, outcome, swallowed>>
    BY <1>1, <1>4, <1>10 DEF Run, Goto, PCs
  <2>2. QED
    BY <1>1, <1>2, <2>1 DEF Leads, Types, Frame, Control
<1>11. CASE AuditAndCollect(c)
  <2>1. /\ pc' \in [Clients -> PCs] /\ row' \in [Clients -> Rows \cup {Nobody}] /\ audit' \subseteq Ids
        /\ pc'[c] = "choose"
        /\ \A d \in Clients \ {c} : pc'[d] = pc[d] /\ row'[d] = row[d]
        /\ UNCHANGED <<pool, depth, count, own, doomed, committed, emitted, early, outcome, swallowed>>
        /\ queues' = [queues EXCEPT ![c][QueueOf(c)] = @ \cup {Id(c)}]
    BY <1>1, <1>4, <1>11 DEF AuditAndCollect, Goto, PCs
  <2>2. Id(c) \in Ids
    BY <1>4, <1>11 DEF AuditAndCollect
  <2>3. queues' \in [Clients -> Queues] /\ \A d \in Clients \ {c} : queues'[d] = queues[d]
    <3>1. QueueOf(c) \in {"request", "tx", "nested"}
      BY DEF QueueOf
    <3>2. queues[c] \in Queues
      BY <1>1
    <3>3. [queues[c] EXCEPT ![QueueOf(c)] = @ \cup {Id(c)}] \in Queues
      <4>1. CASE QueueOf(c) = "request"
        BY <2>2, <3>2, <4>1 DEF Queues
      <4>2. CASE QueueOf(c) = "tx"
        BY <2>2, <3>2, <4>2 DEF Queues
      <4>3. CASE QueueOf(c) = "nested"
        BY <2>2, <3>2, <4>3 DEF Queues
      <4>4. QED
        BY <3>1, <4>1, <4>2, <4>3
    <3>4. QED
      BY <1>1, <2>1, <3>3, ReplaceQueues
  <2>4. QED
    BY <1>1, <1>2, <2>1, <2>3 DEF Leads, Types, Frame, Control
<1>12. CASE Leave(c)
  <2>1. /\ depth' \in [Clients -> 0 .. 2] /\ pc[c] = "choose" /\ depth[c] = 2 /\ depth'[c] = 1
        /\ \A d \in Clients \ {c} : depth'[d] = depth[d]
        /\ UNCHANGED <<pool, pc, row, count, own, doomed, committed, audit, emitted, early, outcome, swallowed>>
    BY <1>1, <1>12 DEF Leave
  <2>2. queues' = [queues EXCEPT ![c] = [queues[c] EXCEPT !.inner = @ \cup queues[c].nested, !.nested = {}]]
    BY <1>1, <1>12 DEF Leave
  <2>3. queues[c] \in Queues
    BY <1>1
  <2>4. queues' \in [Clients -> Queues] /\ \A d \in Clients \ {c} : queues'[d] = queues[d]
    BY <1>1, <2>2, <2>3, EmptiedQueues, ReplaceQueues
  <2>5. QED
    BY <1>1, <1>2, <2>1, <2>4 DEF Leads, Types, Frame, Control
<1>13. CASE Commit(c)
  <2>1. /\ depth' \in [Clients -> 0 .. 2] /\ pc[c] = "choose" /\ depth'[c] = 0
        /\ outcome' \in [Clients -> {"none", "open", "committed", "aborted"}] /\ outcome'[c] # "open"
        /\ swallowed' \subseteq Clients /\ committed' \subseteq Ids /\ doomed' \subseteq Clients
        /\ \A d \in Clients \ {c} : depth'[d] = depth[d] /\ outcome'[d] = outcome[d]
        /\ UNCHANGED <<pool, pc, row, count, own, audit, emitted, early>>
    BY <1>1, <1>13 DEF Commit, Released
  <2>2. queues' = [queues EXCEPT ![c].tx = {}, ![c].result = queues[c].tx]
    BY <1>13 DEF Commit
  <2>3. queues' = [queues EXCEPT ![c] = [queues[c] EXCEPT !.tx = {}, !.result = queues[c].tx]]
    BY <1>1, <2>2
  <2>4. queues[c] \in Queues
    BY <1>1
  <2>5. queues' \in [Clients -> Queues] /\ \A d \in Clients \ {c} : queues'[d] = queues[d]
    BY <1>1, <2>3, <2>4, EmptiedQueues, ReplaceQueues
  <2>6. QED
    BY <1>1, <1>2, <2>1, <2>5 DEF Leads, Types, Frame, Control
<1>14. CASE Rollback(c)
  <2>1. /\ depth' \in [Clients -> 0 .. 2] /\ depth'[c] = 0
        /\ outcome' \in [Clients -> {"none", "open", "committed", "aborted"}] /\ outcome'[c] # "open"
        /\ doomed' \subseteq Clients
        /\ pc' \in [Clients -> PCs] /\ pc'[c] \in {"choose", "failed"}
        /\ \A d \in Clients \ {c} : pc'[d] = pc[d] /\ depth'[d] = depth[d] /\ outcome'[d] = outcome[d]
        /\ UNCHANGED <<pool, row, count, own, committed, emitted, early, audit, swallowed>>
    BY <1>1, <1>14 DEF Rollback, Unwind, Released, Goto, PCs
  <2>2. queues' \in [Clients -> Queues] /\ \A d \in Clients \ {c} : queues'[d] = queues[d]
    <3>1. CASE queues' = [queues EXCEPT ![c] = NoEvents]
      BY <1>1, <3>1 DEF Queues, NoEvents
    <3>2. CASE queues' = [queues EXCEPT ![c].tx = {}, ![c].nested = {}, ![c].inner = {}]
      <4>1. queues' = [queues EXCEPT ![c] = [queues[c] EXCEPT !.tx = {}, !.nested = {}, !.inner = {}]]
        BY <1>1, <3>2
      <4>2. queues[c] \in Queues
        BY <1>1
      <4>3. QED
        BY <1>1, <4>1, <4>2, EmptiedQueues, ReplaceQueues
    <3>3. QED
      BY <1>14, <3>1, <3>2 DEF Rollback, Unwind
  <2>3. QED
    BY <1>1, <1>2, <2>1, <2>2 DEF Leads, Types, Frame, Control
<1>15. CASE FlushResult(c)
  <2>1. /\ queues' \in [Clients -> Queues] /\ \A d \in Clients \ {c} : queues'[d] = queues[d]
        /\ emitted' \subseteq Ids /\ emitted \subseteq emitted'
        /\ UNCHANGED <<pool, pc, depth, row, count, lock, own, doomed, committed, audit, early, outcome, swallowed>>
    BY <1>1, <1>3, <1>15 DEF FlushResult, Queues
  <2>2. QED
    BY <1>1, <1>2, <2>1 DEF Leads, Types, Frame, Control
<1>16. CASE Finish(c)
  <2>1. /\ queues' \in [Clients -> Queues] /\ \A d \in Clients \ {c} : queues'[d] = queues[d]
    BY <1>1, <1>16 DEF Finish, Queues, NoEvents
  <2>2. /\ pc' \in [Clients -> PCs] /\ pc'[c] = "done" /\ depth[c] = 0
        /\ \A d \in Clients \ {c} : pc'[d] = pc[d]
        /\ emitted' \subseteq Ids /\ emitted \subseteq emitted'
        /\ UNCHANGED <<pool, depth, row, count, lock, own, doomed, committed, audit, early, outcome, swallowed>>
    BY <1>1, <1>3, <1>16 DEF Finish, Goto, PCs
  <2>3. QED
    BY <1>1, <1>2, <2>1, <2>2 DEF Leads, Types, Frame, Control
<1>17. CASE FlushInner(c)
  <2>1. queues' = [queues EXCEPT ![c] = [queues[c] EXCEPT !.inner = {}]]
    BY <1>1, <1>17 DEF FlushInner
  <2>2. queues[c] \in Queues
    BY <1>1
  <2>3. queues' \in [Clients -> Queues] /\ \A d \in Clients \ {c} : queues'[d] = queues[d]
    BY <1>1, <2>1, <2>2, EmptiedQueues, ReplaceQueues
  <2>4. /\ emitted' \subseteq Ids /\ early' \subseteq emitted'
        /\ UNCHANGED <<pool, pc, depth, row, count, lock, own, doomed, committed, audit, outcome, swallowed>>
    BY <1>1, <1>3, <1>17 DEF FlushInner
  <2>5. QED
    BY <1>1, <1>2, <2>3, <2>4 DEF Leads, Types, Frame, Control
<1>18. QED
  BY <1>5, <1>6, <1>7, <1>8, <1>9, <1>10, <1>11, <1>12, <1>13, <1>14, <1>15, <1>16, <1>17 DEF Step, Work

\* A request takes a lock inside its transaction only, and the end of the
\* transaction gives all of them back.
LEMMA StepLocks ==
  ASSUME TypeInv, NEW c \in Clients, Step(c), Leads(c)
  PROVE  /\ lock' \in [Rows -> Clients \cup {Nobody}]
         /\ \A r \in Rows : lock'[r] # Nobody => depth'[lock'[r]] > 0
<1>1. /\ lock \in [Rows -> Clients \cup {Nobody}] /\ depth \in [Clients -> 0 .. 2]
      /\ \A r \in Rows : lock[r] # Nobody => depth[lock[r]] > 0
      /\ \A d \in Clients \ {c} : depth'[d] = depth[d]
      /\ depth' \in [Clients -> 0 .. 2] /\ Nobody \notin Clients
  BY PoolAssumption DEF TypeInv, Types, Open, Leads, Frame
<1>2. CASE Run(c)
  <2>1. lock' = lock \/ (depth[c] > 0 /\ lock' = [lock EXCEPT ![row[c]] = c])
    BY <1>2 DEF Run
  <2>2. depth' = depth
    BY <1>2 DEF Run
  <2>3. lock' \in [Rows -> Clients \cup {Nobody}] /\ \A r \in Rows : lock'[r] = lock[r] \/ (depth[c] > 0 /\ lock'[r] = c)
    BY <1>1, <2>1
  <2>4. QED
    BY <1>1, <2>2, <2>3
<1>3. CASE Released(c)
  BY <1>1, <1>3 DEF Released
<1>4. CASE UNCHANGED lock /\ (depth'[c] > 0 <=> depth[c] > 0)
  BY <1>1, <1>4
<1>5. CASE UNCHANGED lock /\ depth[c] = 0
  BY <1>1, <1>5
<1>6. CASE Fail(c) \/ RunFails(c)
  <2>1. UNCHANGED lock /\ (depth'[c] = 0 <=> depth[c] = 0)
    BY <1>6, ThrowsEffect DEF Fail, RunFails
  <2>2. depth[c] \in 0 .. 2 /\ depth'[c] \in 0 .. 2
    BY <1>1
  <2>3. QED
    BY <1>4, <2>1, <2>2
<1>7. CASE Reserve(c)
  <2>1. UNCHANGED lock /\ depth[c] = 0
    BY <1>7 DEF Reserve, TypeInv, Control
  <2>2. QED
    BY <1>5, <2>1
<1>8. CASE Nest(c) \/ Leave(c)
  <2>1. UNCHANGED lock /\ depth[c] > 0 /\ depth'[c] > 0
    BY <1>1, <1>8 DEF Nest, Leave
  <2>2. QED
    BY <1>4, <2>1
<1>9. CASE \/ \E r \in Rows : Choose(c, r)
           \/ Begin(c) \/ CommitFails(c) \/ FlushResult(c) \/ FlushInner(c) \/ Acquire(c) \/ AuditAndCollect(c) \/ Finish(c)
  <2>1. UNCHANGED <<lock, depth>>
    BY <1>9 DEF Choose, Begin, CommitFails, FlushResult, FlushInner, Acquire, AuditAndCollect, Finish
  <2>2. QED
    BY <1>4, <2>1
<1>10. QED
  BY <1>2, <1>3, <1>6, <1>7, <1>8, <1>9 DEF Step, Work, Commit, Rollback, Unwind

\* Every step is one of some request.
LEMMA NextIsStep ==
  ASSUME [Next]_vars
  PROVE  UNCHANGED vars \/ \E c \in Clients : Step(c)
BY DEF Next, Step

\* TypeInv is inductive.
LEMMA StepTypeInv == TypeInv /\ [Next]_vars => TypeInv'
<1> SUFFICES ASSUME TypeInv, [Next]_vars PROVE TypeInv'
  OBVIOUS
<1>1. CASE UNCHANGED vars
  BY <1>1 DEF vars, TypeInv, Types, Open, Control
<1>2. ASSUME NEW c \in Clients, Step(c) PROVE TypeInv'
  <2>1. Leads(c)
    BY <1>2, StepLeads
  <2>2. /\ lock' \in [Rows -> Clients \cup {Nobody}]
        /\ \A r \in Rows : lock'[r] # Nobody => depth'[lock'[r]] > 0
    BY <1>2, <2>1, StepLocks
  <2>3. \A d \in Clients \ {c} : Control(d)' /\ (depth'[d] > 0 <=> outcome'[d] = "open")
    BY <2>1 DEF Leads, Frame, TypeInv, Open, Control
  <2>4. QED
    BY <2>1, <2>2, <2>3 DEF Leads, TypeInv, Open
<1>3. QED
  BY <1>1, <1>2, NextIsStep

-----------------------------------------------------------------------------
(* The pool *)

\* Nothing is in use at first.
LEMMA InitPool == Init => PoolInv
<1> SUFFICES ASSUME Init PROVE PoolInv
  OBVIOUS
<1>1. InUse = {}
  BY DEF Init, InUse
<1>2. pool.max \in Nat
  BY PoolAssumption DEF Init
<1>3. QED
  BY <1>1, <1>2, FS_EmptySet DEF PoolInv

\* Only who waits for a connection comes to have one, when one is free.
LEMMA StepPool == TypeInv /\ PoolInv /\ [Next]_vars => PoolInv'
<1> SUFFICES ASSUME TypeInv, PoolInv, [Next]_vars PROVE PoolInv'
  OBVIOUS
<1>1. IsFiniteSet(InUse) /\ Cardinality(InUse) <= pool.max /\ Cardinality(InUse) \in Nat
  BY FS_CardinalityType DEF PoolInv
<1>2. pool \in Pools /\ pool.max \in Nat
  BY PoolAssumption DEF TypeInv, Types
<1>3. ASSUME NEW S, S = InUse', S \subseteq InUse, pool' = pool PROVE PoolInv'
  BY <1>1, <1>2, <1>3, FS_Subset, FS_CardinalityType DEF PoolInv
<1>4. ASSUME NEW S, S = InUse', NEW c, S \subseteq InUse \cup {c}, Free, pool' = pool PROVE PoolInv'
  <2>1. /\ IsFiniteSet(InUse \cup {c})
        /\ Cardinality(InUse \cup {c}) <= Cardinality(InUse) + 1 /\ Cardinality(InUse \cup {c}) \in Nat
    <3>1. /\ IsFiniteSet(InUse \cup {c})
          /\ \/ Cardinality(InUse \cup {c}) = Cardinality(InUse)
             \/ Cardinality(InUse \cup {c}) = Cardinality(InUse) + 1
      BY <1>1, FS_AddElement, Zenon
    <3>2. QED
      BY <1>1, <3>1
  <2>2. IsFiniteSet(S) /\ Cardinality(S) <= Cardinality(InUse \cup {c}) /\ Cardinality(S) \in Nat
    BY <1>4, <2>1, FS_Subset, FS_CardinalityType
  <2>3. QED
    BY <1>1, <1>2, <1>4, <2>1, <2>2 DEF PoolInv, Free
<1>5. CASE UNCHANGED vars
  BY <1>3, <1>5 DEF vars, InUse
<1>6. ASSUME NEW c \in Clients, Step(c) PROVE PoolInv'
  <2>1. pool' = pool /\ \A d \in Clients \ {c} : pc'[d] = pc[d] /\ depth'[d] = depth[d]
    BY <1>6, StepLeads DEF Leads, Frame
  <2>2. pc \in [Clients -> PCs] /\ depth \in [Clients -> 0 .. 2] /\ Control(c)
    BY DEF TypeInv, Types
  <2>3. CASE Acquire(c) \/ Reserve(c)
    <3>1. InUse' \subseteq InUse \cup {c}
      BY <2>1 DEF InUse
    <3>2. Free
      BY <2>3 DEF Acquire, Reserve
    <3>3. QED
      BY <1>4, <2>1, <3>1, <3>2
  <2>4. ASSUME (depth'[c] > 0 \/ pc'[c] = "running") => (depth[c] > 0 \/ pc[c] = "running") PROVE PoolInv'
    <3>1. InUse' \subseteq InUse
      BY <2>1, <2>4 DEF InUse
    <3>2. QED
      BY <1>3, <2>1, <3>1
  <2>5. CASE Fail(c) \/ RunFails(c)
    <3>1. depth'[c] = 0 <=> depth[c] = 0
      BY <2>5, ThrowsEffect DEF Fail, RunFails
    <3>2. pc'[c] # "running"
      BY <2>5, ThrowsEffect DEF Fail, RunFails
    <3>3. depth'[c] \in 0 .. 2 /\ depth[c] \in 0 .. 2
      BY <1>6, <2>2, StepLeads DEF Leads, Types
    <3>4. QED
      BY <2>4, <3>1, <3>2, <3>3
  <2>6. CASE \E r \in Rows : Choose(c, r)
    BY <2>2, <2>4, <2>6 DEF Choose, Goto
  <2>7. CASE Begin(c) \/ CommitFails(c) \/ Run(c) \/ AuditAndCollect(c) \/ FlushResult(c) \/ FlushInner(c)
            \/ Finish(c)
    BY <2>2, <2>4, <2>7 DEF Begin, CommitFails, Run, AuditAndCollect, FlushResult, FlushInner, Finish, Goto
  <2>8. CASE Nest(c) \/ Leave(c)
    BY <2>2, <2>4, <2>8 DEF Nest, Leave
  <2>9. CASE Commit(c) \/ Rollback(c)
    BY <2>2, <2>4, <2>9 DEF Commit, Rollback, Unwind, Released, Goto
  <2>10. QED
    BY <1>6, <2>3, <2>5, <2>6, <2>7, <2>8, <2>9 DEF Step, Work
<1>7. QED
  BY <1>5, <1>6, NextIsStep

-----------------------------------------------------------------------------
(* Writes and events *)

\* The database and the numbers of operations only grow, by what the request
\* that steps has written.
LEMMA Growth ==
  ASSUME TypeInv, WritesInv, NEW c \in Clients, Step(c)
  PROVE  /\ committed \subseteq committed' /\ swallowed \subseteq swallowed'
         /\ \A w \in committed' \ committed : w[1] = c /\ w[2] <= count'[c]
         /\ count'[c] \in Nat /\ count[c] \in Nat /\ count[c] <= count'[c]
<1>1. /\ count \in [Clients -> Nat] /\ count' \in [Clients -> Nat]
      /\ \A w \in own[c] : w[1] = c /\ w[2] <= count[c]
  BY StepLeads DEF TypeInv, Types, Leads, WritesInv, Writes
<1>2. Id(c)[1] = c /\ Id(c)[2] = count[c]
  BY DEF Id
<1>3. CASE Run(c)
  BY <1>1, <1>2, <1>3 DEF Run
<1>4. CASE Commit(c)
  BY <1>1, <1>4 DEF Commit
<1>5. CASE (\E r \in Rows : Choose(c, r)) \/ Nest(c)
  BY <1>1, <1>5 DEF Choose, Nest
<1>6. CASE \/ Begin(c) \/ CommitFails(c) \/ FlushResult(c) \/ FlushInner(c) \/ Acquire(c) \/ AuditAndCollect(c)
           \/ Finish(c) \/ Fail(c) \/ RunFails(c) \/ Reserve(c) \/ Leave(c) \/ Rollback(c)
  <2>1. UNCHANGED <<count, committed, swallowed>>
    BY <1>6 DEF Begin, CommitFails, FlushResult, FlushInner, Acquire, AuditAndCollect, Finish, Fail, RunFails,
       Reserve, Leave, Rollback, Unwind
  <2>2. QED
    BY <1>1, <2>1
<1>7. QED
  BY <1>3, <1>4, <1>5, <1>6 DEF Step, Work

\* What another request has written and collected is none of its business.
LEMMA OthersKeep ==
  ASSUME TypeInv, WritesInv, NEW c \in Clients, Step(c), NEW d \in Clients, d # c
  PROVE  Writes(d)' /\ Events(d)'
<1>1. /\ pc'[d] = pc[d] /\ depth'[d] = depth[d] /\ count'[d] = count[d]
      /\ own'[d] = own[d] /\ queues'[d] = queues[d] /\ outcome'[d] = outcome[d]
  BY StepLeads DEF Leads, Frame
<1>2. /\ committed \subseteq committed' /\ swallowed \subseteq swallowed'
      /\ \A w \in committed' : w \in committed \/ w[1] = c
  BY Growth
<1>3. Id(d)' = Id(d) /\ Id(d)[1] = d
  BY <1>1 DEF Id
<1>4. Writes(d) /\ Events(d)
  BY DEF WritesInv
<1>5. Writes(d)'
  BY <1>1, <1>2, <1>3, <1>4 DEF Writes
<1>6. Events(d)'
  BY <1>1, <1>2, <1>3, <1>4 DEF Events
<1>7. QED
  BY <1>5, <1>6

\* Used numbers stay used.
LEMMA StepFresh ==
  ASSUME TypeInv, WritesInv, NEW c \in Clients, Step(c)
  PROVE  Fresh'
<1> SUFFICES ASSUME NEW w \in committed' PROVE w[2] <= count'[w[1]]
  BY DEF Fresh
<1>1. \A d \in Clients \ {c} : count'[d] = count[d]
  BY StepLeads DEF Leads, Frame
<1>2. CASE w \in committed
  <2>1. w \in Ids /\ w[2] <= count[w[1]]
    BY <1>2 DEF TypeInv, Types, WritesInv, Fresh
  <2>2. w[1] \in Clients /\ w[2] \in Nat
    BY <2>1, IdsCarry
  <2>3. count[w[1]] <= count'[w[1]] /\ count[w[1]] \in Nat /\ count'[w[1]] \in Nat
    BY <1>1, <2>2, Growth DEF TypeInv, Types
  <2>4. QED
    BY <2>1, <2>2, <2>3
<1>3. CASE w \notin committed
  BY <1>3, Growth
<1>4. QED
  BY <1>2, <1>3

\* The request itself.
LEMMA OwnKeeps ==
  ASSUME TypeInv, WritesInv, NEW c \in Clients, Step(c)
  PROVE  Writes(c)' /\ Events(c)'
<1>1. /\ pc \in [Clients -> PCs] /\ depth \in [Clients -> 0 .. 2] /\ row \in [Clients -> Rows \cup {Nobody}]
      /\ count \in [Clients -> Nat] /\ own \in [Clients -> SUBSET Ids] /\ committed \subseteq Ids
      /\ queues \in [Clients -> Queues] /\ queues[c] \in Queues
      /\ outcome \in [Clients -> {"none", "open", "committed", "aborted"}]
  BY DEF TypeInv, Types
<1>2. Control(c) /\ Writes(c) /\ Events(c) /\ (depth[c] > 0 <=> outcome[c] = "open")
  BY DEF TypeInv, Open, WritesInv
<1>3. Id(c)[1] = c /\ Id(c)[2] = count[c] /\ Id(c)' = <<c, count'[c]>>
  BY DEF Id
<1>4. \A w \in own[c] \cup committed : w[1] = c => w[2] \in Nat /\ w[2] <= count[c]
  BY <1>1, <1>2, IdsCarry DEF Writes, WritesInv, Fresh
<1>5. ASSUME NEW r \in Rows, Choose(c, r) PROVE Writes(c)' /\ Events(c)'
  <2>1. /\ pc'[c] \in {"statement", "running"} /\ count'[c] = count[c] + 1
        /\ UNCHANGED <<depth, own, committed, queues, outcome, swallowed>>
    BY <1>1, <1>5 DEF Choose, Goto
  <2>2. Id(c)' \notin own[c] \cup committed
    BY <1>1, <1>3, <1>4, <2>1
  <2>3. Writes(c)'
    BY <1>1, <1>2, <1>4, <2>1, <2>2 DEF Writes
  <2>4. QED
    BY <1>2, <2>1, <2>3 DEF Events
<1>6. CASE Begin(c) \/ Acquire(c) \/ CommitFails(c)
  <2>1. /\ pc'[c] \in {"begin", "rollback"} \/ (pc[c] = "statement" /\ pc'[c] = "running")
        /\ UNCHANGED <<depth, count, own, committed, queues, outcome, swallowed>>
    BY <1>1, <1>6 DEF Begin, Acquire, CommitFails, Goto
  <2>2. QED
    BY <1>2, <2>1 DEF Writes, Events, Id
<1>7. CASE Reserve(c)
  <2>1. /\ pc[c] = "begin" /\ pc'[c] = "choose" /\ outcome'[c] = "open"
        /\ UNCHANGED <<count, own, committed, queues, swallowed>>
    BY <1>1, <1>7 DEF Reserve, Goto
  <2>2. own[c] = {}
    BY <1>2, <2>1 DEF Control, Writes
  <2>3. QED
    BY <1>2, <2>1, <2>2 DEF Writes, Events
<1>8. CASE Nest(c)
  <2>1. /\ pc[c] = "choose" /\ count'[c] = count[c] + 1 /\ depth'[c] > 0
        /\ UNCHANGED <<pc, own, committed, queues, outcome, swallowed>>
    BY <1>1, <1>8 DEF Nest
  <2>2. \A w \in own[c] : w[2] <= count'[c]
    BY <1>1, <1>2, <1>4, <2>1 DEF Writes
  <2>3. QED
    BY <1>2, <2>1, <2>2 DEF Writes, Events
<1>9. CASE Fail(c) \/ RunFails(c)
  <2>1. UNCHANGED <<count, own, committed, outcome, swallowed>>
    BY <1>9 DEF Fail, RunFails
  <2>2. /\ pc'[c] \notin {"statement", "running", "after"}
        /\ queues'[c].request \subseteq queues[c].request /\ queues'[c].tx \subseteq queues[c].tx
        /\ queues'[c].nested \subseteq queues[c].nested /\ queues'[c].result \subseteq queues[c].result
        /\ queues'[c].inner \subseteq queues[c].inner
        /\ depth'[c] = 0 <=> depth[c] = 0
        /\ depth' \in [Clients -> 0 .. 2]
    BY <1>9, ThrowsEffect DEF Fail, RunFails
  <2>3. depth[c] > 0 => depth'[c] > 0
    BY <1>1, <2>2
  <2>4. QED
    BY <1>2, <2>1, <2>2, <2>3 DEF Writes, Events
<1>10. CASE Run(c)
  <2>1. /\ pc[c] = "running" /\ pc'[c] = "after"
        /\ UNCHANGED <<count, depth, queues, outcome, swallowed>>
        /\ Id(c)' = Id(c)
    BY <1>1, <1>10 DEF Run, Goto, Id
  <2>2. Id(c) \notin own[c] \cup committed
    BY <1>2, <2>1 DEF Writes
  <2>3. CASE depth[c] > 0
    <3>1. own'[c] = own[c] \cup {Id(c)} /\ committed' = committed
      BY <1>1, <1>10, <2>3 DEF Run
    <3>2. outcome[c] = "open"
      BY <1>2, <2>3
    <3>3. \A w \in own'[c] : w[1] = c /\ w[2] <= count[c]
      BY <1>1, <1>2, <1>3, <3>1 DEF Writes
    <3>4. Writes(c)'
      BY <1>2, <2>1, <2>2, <3>1, <3>2, <3>3 DEF Writes
    <3>5. depth[c] # 0
      BY <2>3
    <3>6. QED
      BY <1>2, <2>1, <3>1, <3>4, <3>5 DEF Events
  <2>4. CASE ~(depth[c] > 0)
    <3>1. own' = own /\ committed' = committed \cup {Id(c)}
      BY <1>10, <2>4 DEF Run
    <3>2. depth[c] = 0 /\ outcome[c] # "open"
      BY <1>1, <1>2, <2>4
    <3>3. Writes(c)'
      BY <1>2, <2>1, <2>2, <3>1, <3>2 DEF Writes
    <3>4. QED
      BY <1>2, <2>1, <3>1, <3>2, <3>3 DEF Events
  <2>5. QED
    BY <2>3, <2>4
<1>11. CASE AuditAndCollect(c)
  <2>1. /\ pc[c] = "after" /\ pc'[c] = "choose"
        /\ UNCHANGED <<count, depth, own, committed, outcome, swallowed>>
        /\ queues' = [queues EXCEPT ![c][QueueOf(c)] = @ \cup {Id(c)}]
    BY <1>1, <1>11 DEF AuditAndCollect, Goto
  <2>2. Writes(c)'
    BY <1>2, <2>1 DEF Writes
  <2>3. CASE depth[c] = 0
    <3>1. QueueOf(c) = "request" /\ Id(c) \in committed
      BY <1>2, <2>1, <2>3 DEF QueueOf, Events
    <3>2. /\ queues'[c].request = queues[c].request \cup {Id(c)} /\ queues'[c].tx = queues[c].tx
          /\ queues'[c].nested = queues[c].nested /\ queues'[c].result = queues[c].result
          /\ queues'[c].inner = queues[c].inner
      BY <1>1, <2>1, <3>1 DEF Queues
    <3>3. QED
      BY <1>2, <2>1, <2>2, <3>1, <3>2 DEF Events
  <2>4. CASE depth[c] = 1
    <3>1. QueueOf(c) = "tx" /\ Id(c) \in own[c]
      BY <1>2, <2>1, <2>4 DEF QueueOf, Events
    <3>2. /\ queues'[c].tx = queues[c].tx \cup {Id(c)} /\ queues'[c].request = queues[c].request
          /\ queues'[c].nested = queues[c].nested /\ queues'[c].result = queues[c].result
          /\ queues'[c].inner = queues[c].inner
      BY <1>1, <2>1, <3>1 DEF Queues
    <3>3. QED
      BY <1>2, <2>1, <2>2, <3>1, <3>2 DEF Events
  <2>5. CASE depth[c] = 2
    <3>1. QueueOf(c) = "nested" /\ Id(c) \in own[c]
      BY <1>2, <2>1, <2>5 DEF QueueOf, Events
    <3>2. /\ queues'[c].nested = queues[c].nested \cup {Id(c)} /\ queues'[c].request = queues[c].request
          /\ queues'[c].tx = queues[c].tx /\ queues'[c].result = queues[c].result
          /\ queues'[c].inner = queues[c].inner
      BY <1>1, <2>1, <3>1 DEF Queues
    <3>3. QED
      BY <1>2, <2>1, <2>2, <3>1, <3>2 DEF Events
  <2>6. QED
    BY <1>1, <2>3, <2>4, <2>5
<1>12. CASE Leave(c)
  <2>1. /\ pc[c] = "choose" /\ UNCHANGED <<pc, count, own, committed, outcome, swallowed>>
        /\ depth'[c] = 1
        /\ queues' = [queues EXCEPT ![c].inner = @ \cup queues[c].nested, ![c].nested = {}]
    BY <1>1, <1>12 DEF Leave
  <2>2. /\ queues'[c].inner = queues[c].inner \cup queues[c].nested /\ queues'[c].nested = {}
        /\ queues'[c].tx = queues[c].tx
        /\ queues'[c].request = queues[c].request /\ queues'[c].result = queues[c].result
    BY <1>1, <2>1 DEF Queues
  <2>3. Writes(c)'
    BY <1>2, <2>1 DEF Writes
  <2>4. depth'[c] > 0
    BY <2>1
  <2>5. QED
    BY <1>2, <2>1, <2>2, <2>3, <2>4 DEF Events
<1>13. CASE Commit(c)
  <2>1. /\ pc[c] = "choose" /\ depth[c] = 1 /\ UNCHANGED <<pc, count, own>>
        /\ queues' = [queues EXCEPT ![c].tx = {}, ![c].result = queues[c].tx]
        /\ \/ outcome'[c] = "aborted" /\ swallowed' = swallowed \cup {c} /\ committed' = committed
           \/ outcome'[c] = "committed" /\ committed' = committed \cup own[c] /\ swallowed' = swallowed
    BY <1>1, <1>13 DEF Commit
  <2>2. /\ queues'[c].tx = {} /\ queues'[c].result = queues[c].tx
        /\ queues'[c].request = queues[c].request /\ queues'[c].nested = queues[c].nested
        /\ queues'[c].inner = queues[c].inner
    BY <1>1, <2>1 DEF Queues
  <2>3. outcome[c] = "open"
    BY <1>2, <2>1
  <2>4. Writes(c)'
    BY <1>2, <2>1, <2>3 DEF Writes
  <2>5. Events(c)'
    BY <1>2, <2>1, <2>2 DEF Events
  <2>6. QED
    BY <2>4, <2>5
<1>14. CASE Rollback(c)
  <2>1. /\ pc[c] = "rollback" /\ pc'[c] \in {"choose", "failed"} /\ outcome'[c] = "aborted"
        /\ UNCHANGED <<count, own, committed, swallowed>>
    BY <1>1, <1>14 DEF Rollback, Unwind, Goto
  <2>2. outcome[c] = "open"
    BY <1>2, <2>1 DEF Control
  <2>3. Writes(c)'
    BY <1>2, <2>1, <2>2 DEF Writes
  <2>4. /\ queues'[c].request \subseteq queues[c].request /\ queues'[c].tx \subseteq queues[c].tx
        /\ queues'[c].nested \subseteq queues[c].nested /\ queues'[c].result \subseteq queues[c].result
        /\ queues'[c].inner = {}
    <3>1. CASE queues' = [queues EXCEPT ![c] = NoEvents]
      BY <1>1, <3>1 DEF Queues, NoEvents
    <3>2. CASE queues' = [queues EXCEPT ![c].tx = {}, ![c].nested = {}, ![c].inner = {}]
      BY <1>1, <3>2 DEF Queues
    <3>3. QED
      BY <1>14, <3>1, <3>2 DEF Rollback, Unwind
  <2>5. QED
    BY <1>2, <2>1, <2>3, <2>4 DEF Events
<1>15. CASE FlushResult(c)
  <2>1. /\ UNCHANGED <<pc, depth, count, own, committed, outcome, swallowed>>
        /\ queues' = [queues EXCEPT ![c].result = {}]
    BY <1>15 DEF FlushResult
  <2>2. /\ queues'[c].tx = queues[c].tx /\ queues'[c].result = {}
        /\ queues'[c].request = queues[c].request /\ queues'[c].nested = queues[c].nested
        /\ queues'[c].inner = queues[c].inner
    BY <1>1, <2>1 DEF Queues
  <2>3. QED
    BY <1>2, <1>3, <2>1, <2>2 DEF Writes, Events, Id
<1>16. CASE Finish(c)
  <2>1. /\ pc'[c] = "done" /\ UNCHANGED <<depth, count, own, committed, outcome, swallowed>>
        /\ queues'[c] = NoEvents
    BY <1>1, <1>16 DEF Finish, Goto
  <2>2. QED
    BY <1>2, <2>1 DEF Writes, Events, NoEvents
<1>17. CASE FlushInner(c)
  <2>1. /\ UNCHANGED <<pc, depth, count, own, committed, outcome, swallowed>>
        /\ queues' = [queues EXCEPT ![c].inner = {}]
    BY <1>17 DEF FlushInner
  <2>2. /\ queues'[c].tx = queues[c].tx /\ queues'[c].result = queues[c].result
        /\ queues'[c].request = queues[c].request /\ queues'[c].nested = queues[c].nested
        /\ queues'[c].inner = {}
    BY <1>1, <2>1 DEF Queues
  <2>3. QED
    BY <1>2, <1>3, <2>1, <2>2 DEF Writes, Events, Id
<1>18. QED
  BY <1>5, <1>6, <1>7, <1>8, <1>9, <1>10, <1>11, <1>12, <1>13, <1>14, <1>15, <1>16, <1>17 DEF Step, Work

\* Nothing is written at first.
LEMMA InitWrites == Init => WritesInv /\ EventsNeverFireOnRollback
BY DEF Init, WritesInv, Fresh, Writes, Events, NoEvents, EventsNeverFireOnRollback

\* WritesInv is inductive.
LEMMA StepWrites == TypeInv /\ WritesInv /\ [Next]_vars => WritesInv'
<1> SUFFICES ASSUME TypeInv, WritesInv, [Next]_vars PROVE WritesInv'
  OBVIOUS
<1>1. CASE UNCHANGED vars
  BY <1>1 DEF vars, WritesInv, Fresh, Writes, Events, Id
<1>2. ASSUME NEW c \in Clients, Step(c) PROVE WritesInv'
  <2>1. Fresh'
    BY <1>2, StepFresh
  <2>2. Writes(c)' /\ Events(c)'
    BY <1>2, OwnKeeps
  <2>3. \A d \in Clients \ {c} : Writes(d)' /\ Events(d)'
    BY <1>2, OthersKeep
  <2>4. QED
    BY <2>1, <2>2, <2>3 DEF WritesInv
<1>3. QED
  BY <1>1, <1>2, NextIsStep

\* What leaves is in a queue, and what a queue holds is true.
LEMMA StepEmits ==
  TypeInv /\ WritesInv /\ EventsNeverFireOnRollback /\ [Next]_vars => EventsNeverFireOnRollback'
<1> SUFFICES ASSUME TypeInv, WritesInv, EventsNeverFireOnRollback, [Next]_vars
             PROVE  EventsNeverFireOnRollback'
  OBVIOUS
<1>1. CASE UNCHANGED vars
  BY <1>1 DEF vars, EventsNeverFireOnRollback
<1>2. ASSUME NEW c \in Clients, Step(c) PROVE EventsNeverFireOnRollback'
  <2>1. committed \subseteq committed' /\ swallowed \subseteq swallowed' /\ early \subseteq early'
    <3>1. committed \subseteq committed' /\ swallowed \subseteq swallowed'
      BY <1>2, Growth
    <3>2. CASE FlushInner(c)
      BY <3>1, <3>2 DEF FlushInner
    <3>3. CASE ~FlushInner(c)
      BY <1>2, <3>1, <3>3 DEF Step, Work, Choose, Begin, Nest, Fail, CommitFails, Acquire, Run, RunFails,
         AuditAndCollect, Reserve, Leave, Commit, Rollback, Unwind, FlushResult, Finish
    <3>4. QED
      BY <3>2, <3>3
  <2>2. /\ queues[c].request \subseteq committed
        /\ \A w \in queues[c].result : w \in committed \/ w[1] \in swallowed
        /\ \/ depth[c] > 0
           \/ \A w \in queues[c].inner : w \in committed \/ w[1] \in swallowed
    BY DEF WritesInv, Writes, Events
  <2>3. emitted' = emitted \/ emitted' = emitted \cup queues[c].result
                           \/ emitted' = emitted \cup queues[c].request
                           \/ /\ emitted' = emitted \cup queues[c].inner
                              /\ depth[c] = 0 \/ queues[c].inner \subseteq early'
    <3>1. CASE FlushResult(c) \/ FlushInner(c) \/ Finish(c)
      BY <3>1 DEF FlushResult, FlushInner, Finish
    <3>2. CASE ~(FlushResult(c) \/ FlushInner(c) \/ Finish(c))
      BY <1>2, <3>2 DEF Step, Work, Choose, Begin, Nest, Fail, CommitFails, Acquire, Run, RunFails,
         AuditAndCollect, Reserve, Leave, Commit, Rollback, Unwind
    <3>3. QED
      BY <3>1, <3>2
  <2>4. QED
    BY <2>1, <2>2, <2>3 DEF EventsNeverFireOnRollback
<1>3. QED
  BY <1>1, <1>2, NextIsStep

-----------------------------------------------------------------------------
(* The theorems *)

IInv == TypeInv /\ PoolInv /\ WritesInv /\ EventsNeverFireOnRollback

\* IInv is an inductive invariant.
LEMMA Inductive == Spec => []IInv
<1>1. Init => IInv
  BY InitTypeInv, InitPool, InitWrites DEF IInv
<1>2. IInv /\ [Next]_vars => IInv'
  BY StepTypeInv, StepPool, StepWrites, StepEmits DEF IInv
<1>3. QED
  BY <1>1, <1>2, PTL DEF Spec

\* Types, a pool that is never overdrawn, and locks of open transactions only.
LEMMA TypesHold ==
  ASSUME IInv
  PROVE  TypeOK
BY DEF IInv, TypeInv, Types, Open, PoolInv, Queues, TypeOK

\* However requests wait for connections and locks, and whatever fails: all
\* writes of a transaction are kept or none is, and an event that left is about
\* a write that is kept.
THEOREM AtomicTransactions == Spec => []TransactionsAreAtomic
<1>1. ASSUME IInv PROVE TransactionsAreAtomic
  <2>1. AllOrNothing
    BY <1>1 DEF IInv, WritesInv, Writes, AllOrNothing
  <2>2. QED
    BY <1>1, <2>1, TypesHold DEF IInv, TransactionsAreAtomic
<1>2. QED
  BY <1>1, Inductive, PTL
=============================================================================
