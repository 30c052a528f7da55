--------------------------- MODULE SqliteTxProofs ---------------------------
(***************************************************************************)
(* Theorems about SqliteTx, for every set of requests, every table and     *)
(* every number of operations.                                             *)
(***************************************************************************)
EXTENDS SqliteTx, TLAPS

\* How far an operation is says what it has: a number and rows before its
\* statement, rows that are due after it.  Only a transaction rolls back, and
\* only outside one a request ends.
Busy(c) ==
  /\ pc[c] \in {"read", "execute"} => count[c] # 0 /\ op[c].rows # {}
  /\ pc[c] = "after" => count[c] # 0
  /\ pc[c] = "after" <=> todo[c] # {}
  /\ pc[c] = "rollback" => mode[c] # "plain"
  /\ pc[c] \in {"done", "failed"} => mode[c] = "plain"

TypeInv == TypeOK /\ \A c \in Clients : Busy(c)

-----------------------------------------------------------------------------
(* Type correctness *)

\* The identities of the changes of the current operation are writes.
LEMMA IdsAreWrites ==
  ASSUME TypeOK, NEW c \in Clients, count[c] # 0, NEW rows \in SUBSET Rows
  PROVE  Ids(c, rows) \in SUBSET Writes
<1>1. count[c] \in 1 .. MaxOps[c]
  BY TxAssumption DEF TypeOK
<1>2. \A r \in Rows : <<c, count[c], r>> \in {c} \X (1 .. MaxOps[c]) \X Rows
  BY <1>1
<1>3. QED
  BY <1>2 DEF Ids, Writes

\* After the statement there is a row to audit, and its identity is a write.
LEMMA AuditedRow ==
  ASSUME TypeInv, NEW c \in Clients, pc[c] = "after"
  PROVE  /\ (CHOOSE x \in todo[c] : TRUE) \in todo[c]
         /\ todo[c] \subseteq Rows
         /\ \A r \in todo[c] : <<c, count[c], r>> \in Writes
<1>1. todo[c] # {} /\ count[c] # 0 /\ todo[c] \subseteq Rows
  BY DEF TypeInv, Busy, TypeOK
<1>2. Ids(c, todo[c]) \in SUBSET Writes
  BY <1>1, IdsAreWrites DEF TypeInv
<1>3. QED
  BY <1>1, <1>2 DEF Ids

\* What a statement does to the database and to what is recorded of it.
LEMMA ExecuteEffect ==
  ASSUME TypeInv, NEW c \in Clients, Execute(c)
  PROVE  /\ pc[c] = "execute" /\ op[c].rows \in SUBSET Rows /\ op[c].rows # {} /\ count[c] # 0
         /\ Found(c) \in SUBSET op[c].rows
         /\ db' \in Contents /\ db'.audit = db.audit
         /\ db'.writes = db.writes \cup Ids(c, Found(c))
         /\ own' = [own EXCEPT ![c] = IF mode[c] = "plain" THEN @ ELSE @ \cup Ids(c, Found(c))]
         /\ missed' = missed \cup Ids(c, op[c].rows \ Found(c))
         /\ Ids(c, Found(c)) \in SUBSET Writes /\ Ids(c, op[c].rows \ Found(c)) \in SUBSET Writes
         /\ disturbed' = Strays(c)
         /\ \/ Goto(c, "choose") /\ ForgetOp(c)
            \/ Goto(c, "after") /\ todo' = [todo EXCEPT ![c] = op[c].rows] /\ UNCHANGED op
         /\ UNCHANGED <<mode, count, saved, open, eventVars, outcome>>
<1>1. pc[c] = "execute" /\ count[c] # 0 /\ op[c].rows # {} /\ op[c].rows \in SUBSET Rows
  <2>1. pc[c] = "execute"
    BY DEF Execute
  <2>2. QED
    BY <2>1 DEF TypeInv, Busy, TypeOK
<1>2. Found(c) \in SUBSET op[c].rows
  BY DEF Found
<1>3. /\ Ids(c, Found(c)) \in SUBSET Writes /\ Ids(c, op[c].rows \ Found(c)) \in SUBSET Writes
  BY <1>1, <1>2, IdsAreWrites DEF TypeInv
<1>4. \A r \in Rows : Made(c, r) \in {"absent", "live", "deleted"}
  BY DEF Made, TypeInv, TypeOK, Contents
<1> DEFINE rows == [r \in Rows |-> IF r \in Found(c) THEN Made(c, r) ELSE db.rows[r]]
<1>5. rows \in [Rows -> {"absent", "live", "deleted"}]
  BY <1>4 DEF TypeInv, TypeOK, Contents
<1> HIDE DEF rows
<1>6. db' = [db EXCEPT !.rows = rows, !.writes = @ \cup Ids(c, Found(c))]
  BY DEF Execute, rows
<1>7. db' \in Contents /\ db'.audit = db.audit /\ db'.writes = db.writes \cup Ids(c, Found(c))
  BY <1>3, <1>5, <1>6 DEF TypeInv, TypeOK, Contents
<1>8. /\ own' = [own EXCEPT ![c] = IF mode[c] = "plain" THEN @ ELSE @ \cup Ids(c, Found(c))]
      /\ missed' = missed \cup Ids(c, op[c].rows \ Found(c))
      /\ disturbed' = Strays(c)
      /\ \/ Goto(c, "choose") /\ ForgetOp(c)
         \/ Goto(c, "after") /\ todo' = [todo EXCEPT ![c] = op[c].rows] /\ UNCHANGED op
      /\ UNCHANGED <<mode, count, saved, open, eventVars, outcome>>
  BY DEF Execute
<1>9. QED
  BY <1>1, <1>2, <1>3, <1>7, <1>8

\* What the after-hooks of one row do: perhaps an audit row, and an event.
LEMMA AuditEffect ==
  ASSUME TypeInv, NEW c \in Clients, AuditAndCollect(c)
  PROVE  \E r \in todo[c] :
           LET id == <<c, count[c], r>>
           IN /\ pc[c] = "after" /\ id \in Writes /\ todo[c] \subseteq Rows
              /\ db' \in Contents /\ db'.writes = db.writes
              /\ \/ db'.audit = db.audit \cup {id} /\ disturbed' = Strays(c)
                 \/ db'.audit = db.audit /\ disturbed' = disturbed
              /\ IF mode[c] = "plain"
                   THEN queue' = [queue EXCEPT ![c] = @ \cup {id}] /\ UNCHANGED txQueue
                   ELSE txQueue' = [txQueue EXCEPT ![c] = @ \cup {id}] /\ UNCHANGED queue
              /\ \/ todo[c] = {r} /\ Goto(c, "choose") /\ ForgetOp(c)
                 \/ todo[c] # {r} /\ todo' = [todo EXCEPT ![c] = @ \ {r}] /\ UNCHANGED <<pc, op>>
              /\ UNCHANGED <<mode, count, saved, open, result, emitted, own, outcome, missed>>
<1> DEFINE r  == CHOOSE x \in todo[c] : TRUE
           id == <<c, count[c], r>>
<1>1. pc[c] = "after"
  BY DEF AuditAndCollect
<1>2. r \in todo[c] /\ todo[c] \subseteq Rows /\ id \in Writes
  BY <1>1, AuditedRow
<1>3. /\ \/ db' = [db EXCEPT !.audit = @ \cup {id}] /\ disturbed' = Strays(c)
         \/ UNCHANGED <<db, disturbed>>
      /\ IF mode[c] = "plain"
           THEN queue' = [queue EXCEPT ![c] = @ \cup {id}] /\ UNCHANGED txQueue
           ELSE txQueue' = [txQueue EXCEPT ![c] = @ \cup {id}] /\ UNCHANGED queue
      /\ \/ todo[c] = {r} /\ Goto(c, "choose") /\ ForgetOp(c)
         \/ todo[c] # {r} /\ todo' = [todo EXCEPT ![c] = @ \ {r}] /\ UNCHANGED <<pc, op>>
      /\ UNCHANGED <<mode, count, saved, open, result, emitted, own, outcome, missed>>
  BY DEF AuditAndCollect
<1> HIDE DEF id
<1>4. /\ db' \in Contents /\ db'.writes = db.writes
      /\ \/ db'.audit = db.audit \cup {id} /\ disturbed' = Strays(c)
         \/ db'.audit = db.audit /\ disturbed' = disturbed
  <2>1. CASE db' = [db EXCEPT !.audit = @ \cup {id}] /\ disturbed' = Strays(c)
    BY <1>2, <2>1 DEF TypeInv, TypeOK, Contents
  <2>2. CASE UNCHANGED <<db, disturbed>>
    BY <2>2 DEF TypeInv, TypeOK
  <2>3. QED
    BY <1>3, <2>1, <2>2
<1> HIDE DEF r
<1>5. QED
  BY <1>1, <1>2, <1>3, <1>4 DEF id

\* The locals of an operation that ended are typed, too.
LEMMA ForgottenOp ==
  ASSUME TypeOK, NEW c \in Clients, ForgetOp(c)
  PROVE  /\ op' \in [Clients -> [kind : Kinds \cup {"none"}, rows : SUBSET Rows]]
         /\ todo' \in [Clients -> SUBSET Rows]
<1>1. NoOp \in [kind : Kinds \cup {"none"}, rows : SUBSET Rows]
  BY DEF NoOp
<1>2. /\ op \in [Clients -> [kind : Kinds \cup {"none"}, rows : SUBSET Rows]]
      /\ todo \in [Clients -> SUBSET Rows]
  BY DEF TypeOK
<1>3. QED
  BY <1>1, <1>2 DEF ForgetOp

\* Going on with another label keeps the type of the program counter.
LEMMA GotoType ==
  ASSUME TypeOK, NEW c \in Clients, NEW label \in PCs, Goto(c, label)
  PROVE  pc' \in [Clients -> PCs]
<1>1. pc \in [Clients -> PCs]
  BY DEF TypeOK
<1>2. QED
  BY <1>1 DEF Goto

\* A statement of a client keeps the types.
LEMMA ExecuteTypes ==
  ASSUME TypeInv, NEW c \in Clients, Execute(c)
  PROVE  TypeInv'
<1>1. UNCHANGED <<mode, count, saved, open, queue, txQueue, result, emitted, outcome>>
  BY DEF Execute, eventVars
<1>2. /\ own \in [Clients -> SUBSET Writes] /\ missed \subseteq Writes /\ disturbed \subseteq Clients
      /\ todo \in [Clients -> SUBSET Rows]
      /\ op \in [Clients -> [kind : Kinds \cup {"none"}, rows : SUBSET Rows]]
  BY DEF TypeInv, TypeOK
<1>3. own' \in [Clients -> SUBSET Writes]
  <2>1. Ids(c, Found(c)) \in SUBSET Writes
    BY ExecuteEffect
  <2>2. own' = [own EXCEPT ![c] = IF mode[c] = "plain" THEN @ ELSE @ \cup Ids(c, Found(c))]
    BY ExecuteEffect
  <2>3. QED
    BY <1>2, <2>1, <2>2
<1>4. disturbed' \subseteq Clients /\ missed' \subseteq Writes
  BY <1>2, ExecuteEffect DEF Strays
<1>5. \/ Goto(c, "choose") /\ ForgetOp(c)
      \/ Goto(c, "after") /\ todo' = [todo EXCEPT ![c] = op[c].rows] /\ UNCHANGED op
  BY ExecuteEffect
<1>6. /\ pc[c] = "execute" /\ op[c].rows \in SUBSET Rows /\ op[c].rows # {} /\ count[c] # 0
  BY ExecuteEffect
<1>7. /\ todo' \in [Clients -> SUBSET Rows]
      /\ op' \in [Clients -> [kind : Kinds \cup {"none"}, rows : SUBSET Rows]]
  BY <1>2, <1>5, <1>6, ForgottenOp DEF TypeInv
<1>8. pc' \in [Clients -> PCs]
  BY <1>5, GotoType DEF TypeInv, PCs
<1>9. TypeOK'
  BY <1>1, <1>3, <1>4, <1>7, <1>8, ExecuteEffect DEF TypeInv, TypeOK
<1>10. \A d \in Clients : Busy(d)'
  BY <1>1, <1>5, <1>6 DEF TypeInv, TypeOK, Busy, Goto, ForgetOp, NoOp, PCs
<1>11. QED
  BY <1>9, <1>10 DEF TypeInv

\* The row of the audit table and the event of a write keep the types.
LEMMA AuditTypes ==
  ASSUME TypeInv, NEW c \in Clients, AuditAndCollect(c)
  PROVE  TypeInv'
<1> DEFINE id(r) == <<c, count[c], r>>
<1>1. PICK r \in todo[c] :
        /\ pc[c] = "after" /\ id(r) \in Writes /\ todo[c] \subseteq Rows
        /\ db' \in Contents
        /\ disturbed' \in {disturbed, Strays(c)}
        /\ IF mode[c] = "plain"
             THEN queue' = [queue EXCEPT ![c] = @ \cup {id(r)}] /\ UNCHANGED txQueue
             ELSE txQueue' = [txQueue EXCEPT ![c] = @ \cup {id(r)}] /\ UNCHANGED queue
        /\ \/ todo[c] = {r} /\ Goto(c, "choose") /\ ForgetOp(c)
           \/ todo[c] # {r} /\ todo' = [todo EXCEPT ![c] = @ \ {r}] /\ UNCHANGED <<pc, op>>
        /\ UNCHANGED <<mode, count, saved, open, result, emitted, own, outcome, missed>>
  BY AuditEffect
<1> HIDE DEF id
<1>2. disturbed' \subseteq Clients
  BY <1>1 DEF TypeInv, TypeOK, Strays
<1>3. queue' \in [Clients -> SUBSET Writes] /\ txQueue' \in [Clients -> SUBSET Writes]
  <2>1. queue \in [Clients -> SUBSET Writes] /\ txQueue \in [Clients -> SUBSET Writes]
    BY DEF TypeInv, TypeOK
  <2>2. id(r) \in Writes
    BY <1>1
  <2>3. QED
    BY <1>1, <2>1, <2>2
<1>4. \/ todo[c] = {r} /\ Goto(c, "choose") /\ ForgetOp(c)
      \/ todo[c] # {r} /\ todo' = [todo EXCEPT ![c] = @ \ {r}] /\ UNCHANGED <<pc, op>>
  BY <1>1
<1>5. pc' \in [Clients -> PCs]
  BY <1>4, GotoType DEF TypeInv, TypeOK, PCs
<1>6. /\ op' \in [Clients -> [kind : Kinds \cup {"none"}, rows : SUBSET Rows]]
      /\ todo' \in [Clients -> SUBSET Rows]
  <2>1. CASE ForgetOp(c)
    BY <2>1, ForgottenOp DEF TypeInv
  <2>2. CASE todo' = [todo EXCEPT ![c] = @ \ {r}] /\ UNCHANGED <<pc, op>>
    BY <2>2 DEF TypeInv, TypeOK
  <2>3. QED
    BY <1>4, <2>1, <2>2
<1>7. TypeOK'
  BY <1>1, <1>2, <1>3, <1>5, <1>6 DEF TypeInv, TypeOK
<1>8. \A d \in Clients : Busy(d)'
  BY <1>1, <1>4 DEF TypeInv, TypeOK, Busy, Goto, ForgetOp, NoOp, PCs
<1>9. QED
  BY <1>7, <1>8 DEF TypeInv

\* Every step keeps the types and what the program counter says.
LEMMA StepTypes == TypeInv /\ [Next]_vars => TypeInv'
<1> SUFFICES ASSUME TypeInv, [Next]_vars PROVE TypeInv'
  OBVIOUS
<1> USE TxAssumption
<1>1. CASE UNCHANGED vars
  BY <1>1 DEF vars, eventVars, historyVars, TypeInv, TypeOK, Busy, Contents
<1>2. ASSUME NEW c \in Clients, NEW kind \in Kinds, NEW rows \in (SUBSET Rows) \ {{}}, Choose(c, kind, rows)
      PROVE TypeInv'
  <2>1. TypeOK'
    BY <1>2 DEF Choose, Goto, TypeInv, TypeOK, Contents, PCs, eventVars, historyVars
  <2>2. \A d \in Clients : d # c => Busy(d)'
    BY <1>2 DEF Choose, Goto, TypeInv, TypeOK, Busy
  <2>3. /\ count'[c] # 0 /\ op'[c].rows # {} /\ pc'[c] \in {"read", "execute"}
        /\ todo'[c] = todo[c] /\ pc[c] = "choose"
    <3>1. /\ pc \in [Clients -> PCs] /\ count \in [Clients -> Nat]
          /\ op \in [Clients -> [kind : Kinds \cup {"none"}, rows : SUBSET Rows]]
      BY DEF TypeInv, TypeOK
    <3>2. count'[c] # 0 /\ todo'[c] = todo[c]
      BY <1>2, <3>1 DEF Choose
    <3>3. pc[c] = "choose" /\ pc'[c] \in {"read", "execute"}
      BY <1>2, <3>1 DEF Choose, Goto
    <3>4. op' = [op EXCEPT ![c] = [kind |-> kind, rows |-> rows]]
      BY <1>2 DEF Choose
    <3>5. op'[c].rows # {}
      BY <3>1, <3>4
    <3>6. QED
      BY <3>2, <3>3, <3>5
  <2>4. Busy(c)'
    BY <2>3 DEF TypeInv, Busy
  <2>5. QED
    BY <2>1, <2>2, <2>4 DEF TypeInv
<1>3. ASSUME NEW c \in Clients, NEW m \in {"transaction", "updateMany"}, Begin(c, m)
      PROVE TypeInv'
  BY <1>3 DEF Begin, TypeInv, TypeOK, Contents, Busy, PCs, eventVars
<1>4. ASSUME NEW c \in Clients, FlushResult(c) PROVE TypeInv'
  BY <1>4 DEF FlushResult, TypeInv, TypeOK, Contents, Busy, historyVars
<1>5. ASSUME NEW c \in Clients, Read(c) PROVE TypeInv'
  BY <1>5 DEF Read, Goto, TypeInv, TypeOK, Contents, Busy, PCs, eventVars, historyVars
<1>6. ASSUME NEW c \in Clients, Execute(c) PROVE TypeInv'
  BY <1>6, ExecuteTypes
<1>7. ASSUME NEW c \in Clients, AuditAndCollect(c) PROVE TypeInv'
  BY <1>7, AuditTypes
<1>8. ASSUME NEW c \in Clients, Fail(c) PROVE TypeInv'
  <2>1. /\ op' \in [Clients -> [kind : Kinds \cup {"none"}, rows : SUBSET Rows]]
        /\ todo' \in [Clients -> SUBSET Rows]
    BY <1>8 DEF Fail, ForgetOp, NoOp, TypeInv, TypeOK
  <2>2. /\ pc' \in [Clients -> PCs]
        /\ queue' \in [Clients -> SUBSET Writes] /\ txQueue' \in [Clients -> SUBSET Writes]
    BY <1>8 DEF Fail, Catch, Raise, ForgetQueues, Goto, TypeInv, TypeOK, PCs
  <2>3. TypeOK'
    BY <1>8, <2>1, <2>2 DEF Fail, TypeInv, TypeOK, historyVars
  <2>4. \A d \in Clients : Busy(d)'
    BY <1>8 DEF Fail, Catch, Raise, ForgetOp, NoOp, Goto, TypeInv, TypeOK, Busy, PCs
  <2>5. QED
    BY <2>3, <2>4 DEF TypeInv
<1>9. ASSUME NEW c \in Clients, Commit(c) PROVE TypeInv'
  BY <1>9 DEF Commit, TypeInv, TypeOK, Contents, Busy, PCs
<1>10. ASSUME NEW c \in Clients, Rollback(c) PROVE TypeInv'
  <2>1. /\ mode[c] # "plain" /\ open = c
        /\ db' \in Contents /\ saved' \in Contents /\ open' = Nobody
    BY <1>10 DEF Rollback, Unwind, TypeInv, TypeOK, Busy
  <2>2. /\ pc' \in [Clients -> PCs] /\ queue' \in [Clients -> SUBSET Writes]
        /\ txQueue' \in [Clients -> SUBSET Writes]
    BY <1>10 DEF Rollback, Unwind, Goto, TypeInv, TypeOK, PCs
  <2>3. TypeOK'
    BY <1>10, <2>1, <2>2 DEF Rollback, Unwind, TypeInv, TypeOK
  <2>4. \A d \in Clients : Busy(d)'
    BY <1>10 DEF Rollback, Unwind, Goto, TypeInv, TypeOK, Busy, PCs
  <2>5. QED
    BY <2>3, <2>4 DEF TypeInv
<1>11. ASSUME NEW c \in Clients, Finish(c) PROVE TypeInv'
  BY <1>11 DEF Finish, Goto, TypeInv, TypeOK, Contents, Busy, PCs, historyVars
<1>12. QED
  BY <1>1, <1>2, <1>3, <1>4, <1>5, <1>6, <1>7, <1>8, <1>9, <1>10, <1>11
     DEF Next, Work, BeginFails

\* The initial state has the types.
LEMMA InitTypes == Init => TypeInv
  BY TxAssumption DEF Init, TypeInv, TypeOK, Contents, Busy, PCs, NoOp

\* Types, and who is inside a transaction is who opened it.
THEOREM TypeCorrect == Spec => []TypeOK
<1>1. TypeInv => TypeOK
  BY DEF TypeInv
<1>2. QED
  BY <1>1, InitTypes, StepTypes, PTL DEF Spec

-----------------------------------------------------------------------------
(* Transactions are atomic *)

\* The writes of c that are recorded anywhere.
Known(c) ==
  own[c] \cup queue[c] \cup txQueue[c] \cup result[c]
    \cup {w \in db.writes \cup saved.writes \cup emitted : w[1] = c}

\* A statement that is still to run has an identity that nothing is recorded under.
Fresh(c) ==
  \A w \in Known(c) :
    /\ w[1] = c /\ w[2] <= count[c]
    /\ pc[c] \in {"read", "execute"} => w[2] # count[c]

\* What is saved for ROLLBACK holds nothing of the open transaction and all of
\* the committed ones; of an aborted one nothing is left anywhere.
Fate(c) ==
  /\ outcome[c] = "open" <=> mode[c] # "plain"
  /\ outcome[c] = "none" => own[c] = {}
  /\ outcome[c] \in {"open", "committed"} => own[c] \subseteq db.writes
  /\ outcome[c] \in {"open", "aborted"} => own[c] \cap saved.writes = {}
  /\ outcome[c] = "aborted" => own[c] \cap db.writes = {}
  /\ outcome[c] = "committed" /\ open # Nobody => own[c] \subseteq saved.writes

\* Writes of a transaction that is not committed are in no queue that is
\* flushed, nor are they about to get there.
NoLeak(c) ==
  /\ outcome[c] # "committed" => own[c] \cap (emitted \cup queue[c] \cup result[c]) = {}
  /\ pc[c] = "after" /\ mode[c] = "plain" => \A w \in own[c] : w[2] # count[c]

TxInv == \A c \in Clients : Fresh(c) /\ Fate(c) /\ NoLeak(c)

\* No client has written anything at the start.
LEMMA InitTx == Init => TxInv
  BY DEF Init, TxInv, Fresh, Known, Fate, NoLeak

\* An identity names its request, its operation and its row.
LEMMA IdParts ==
  ASSUME NEW c, NEW rows, NEW w \in Ids(c, rows)
  PROVE  w[1] = c /\ w[2] = count[c]
BY DEF Ids

\* Types a step of the transaction invariant needs.
LEMMA TxTypes ==
  ASSUME TypeInv
  PROVE  /\ pc \in [Clients -> PCs] /\ mode \in [Clients -> {"plain", "transaction", "updateMany"}]
         /\ outcome \in [Clients -> {"none", "open", "committed", "aborted"}]
         /\ count \in [Clients -> Nat]
         /\ queue \in [Clients -> SUBSET Writes] /\ txQueue \in [Clients -> SUBSET Writes]
         /\ result \in [Clients -> SUBSET Writes] /\ own \in [Clients -> SUBSET Writes]
         /\ \A c \in Clients : (open = c) <=> (mode[c] # "plain")
         /\ Nobody \notin Clients
         /\ \A w \in Writes : w[1] \in Clients /\ w[2] \in Nat
         /\ db.writes \subseteq Writes /\ saved.writes \subseteq Writes /\ emitted \subseteq Writes
  BY TxAssumption DEF TypeInv, TypeOK, Contents, Writes

\* A statement keeps what a transaction did all or nothing: it is as fresh as its command.
LEMMA ExecuteTx ==
  ASSUME TypeInv, TxInv, NEW c \in Clients, Execute(c)
  PROVE  TxInv'
<1> SUFFICES ASSUME NEW d \in Clients PROVE Fresh(d)' /\ Fate(d)' /\ NoLeak(d)'
  BY DEF TxInv
<1> DEFINE ids == Ids(c, Found(c))
<1>1. \A w \in ids : w[1] = c /\ w[2] = count[c]
  BY IdParts
<1> HIDE DEF ids
<1>2. /\ pc[c] = "execute"
      /\ db'.writes = db.writes \cup ids
      /\ own' = [own EXCEPT ![c] = IF mode[c] = "plain" THEN @ ELSE @ \cup ids]
      /\ UNCHANGED <<mode, count, saved, open, queue, txQueue, result, emitted, outcome>>
      /\ pc' \in {[pc EXCEPT ![c] = "choose"], [pc EXCEPT ![c] = "after"]}
  BY ExecuteEffect DEF eventVars, Goto, ids
<1>3. Fresh(c) /\ Fresh(d) /\ Fate(d) /\ NoLeak(d)
  BY DEF TxInv
<1>4. Fresh(d)'
  BY <1>1, <1>2, <1>3, TxTypes DEF Fresh, Known
<1>5. \A w \in own[c] \cup saved.writes : w \notin ids
  BY <1>1, <1>2, <1>3, TxTypes DEF Fresh, Known
<1>6. Fate(d)'
  BY <1>1, <1>2, <1>3, <1>5, TxTypes DEF Fate, Fresh, Known
<1>7. NoLeak(d)'
  BY <1>1, <1>2, <1>3, TxTypes DEF NoLeak, Fresh, Known, Fate
<1>8. QED
  BY <1>4, <1>6, <1>7

\* An audit row or an event has the fate of the write it is about.
LEMMA AuditTx ==
  ASSUME TypeInv, TxInv, NEW c \in Clients, AuditAndCollect(c)
  PROVE  TxInv'
<1> SUFFICES ASSUME NEW d \in Clients PROVE Fresh(d)' /\ Fate(d)' /\ NoLeak(d)'
  BY DEF TxInv
<1>1. PICK r \in todo[c] :
        LET id == <<c, count[c], r>>
        IN /\ pc[c] = "after" /\ db'.writes = db.writes
           /\ IF mode[c] = "plain"
                THEN queue' = [queue EXCEPT ![c] = @ \cup {id}] /\ UNCHANGED txQueue
                ELSE txQueue' = [txQueue EXCEPT ![c] = @ \cup {id}] /\ UNCHANGED queue
           /\ pc' \in {pc, [pc EXCEPT ![c] = "choose"]}
           /\ UNCHANGED <<mode, count, saved, open, result, emitted, own, outcome>>
  BY AuditEffect DEF Goto
<1> DEFINE id == <<c, count[c], r>>
<1>2. id[1] = c /\ id[2] = count[c]
  OBVIOUS
<1> HIDE DEF id
<1>3. /\ pc[c] = "after" /\ db'.writes = db.writes
      /\ \/ /\ mode[c] = "plain"
            /\ queue' = [queue EXCEPT ![c] = @ \cup {id}] /\ UNCHANGED txQueue
         \/ /\ mode[c] # "plain"
            /\ txQueue' = [txQueue EXCEPT ![c] = @ \cup {id}] /\ UNCHANGED queue
      /\ pc' \in {pc, [pc EXCEPT ![c] = "choose"]}
      /\ UNCHANGED <<mode, count, saved, open, result, emitted, own, outcome>>
  BY <1>1 DEF id
<1>4. Fresh(d) /\ Fate(d) /\ NoLeak(d)
  BY DEF TxInv
<1>5. Fresh(d)'
  BY <1>2, <1>3, <1>4, TxTypes DEF Fresh, Known
<1>6. Fate(d)'
  BY <1>3, <1>4 DEF Fate
<1>7. NoLeak(d)'
  BY <1>2, <1>3, <1>4, TxTypes DEF NoLeak
<1>8. QED
  BY <1>5, <1>6, <1>7

\* Every step keeps the invariant of the transactions.
LEMMA StepTx == TypeInv /\ TxInv /\ [Next]_vars => TxInv'
<1> SUFFICES ASSUME TypeInv, TxInv, [Next]_vars PROVE TxInv'
  OBVIOUS
<1>1. CASE UNCHANGED vars
  BY <1>1 DEF vars, TxInv, Fresh, Known, Fate, NoLeak
<1> SUFFICES ASSUME NEW d \in Clients, Next
             PROVE  Fresh(d)' /\ Fate(d)' /\ NoLeak(d)'
  BY <1>1 DEF TxInv
<1> USE TxTypes
<1>0. Fresh(d) /\ Fate(d) /\ NoLeak(d)
  BY DEF TxInv
<1>2. ASSUME NEW c \in Clients, NEW kind \in Kinds, NEW rows \in (SUBSET Rows) \ {{}}, Choose(c, kind, rows)
      PROVE  Fresh(d)' /\ Fate(d)' /\ NoLeak(d)'
  <2>1. /\ pc[c] = "choose" /\ count' = [count EXCEPT ![c] = @ + 1]
        /\ pc' \in {[pc EXCEPT ![c] = "read"], [pc EXCEPT ![c] = "execute"]}
        /\ UNCHANGED <<mode, db, saved, open, queue, txQueue, result, emitted, own, outcome>>
    BY <1>2 DEF Choose, Goto, eventVars, historyVars
  <2>2. Known(d)' = Known(d)
    BY <2>1 DEF Known
  <2>3. \A w \in Known(d) : w[1] = d /\ w[2] \in Nat /\ w[2] <= count[d]
    BY <1>0 DEF Fresh, Known
  <2>4. Fresh(d)'
    <3>1. CASE d = c
      <4>1. count[d] \in Nat /\ count'[d] = count[d] + 1
        BY <2>1, <3>1
      <4>2. \A w \in Known(d) : w[2] <= count'[d] /\ w[2] # count'[d]
        BY <2>3, <4>1
      <4>3. QED
        BY <2>2, <2>3, <4>2 DEF Fresh
    <3>2. CASE d # c
      BY <1>0, <2>1, <2>2, <3>2 DEF Fresh
    <3>3. QED
      BY <3>1, <3>2
  <2>5. Fate(d)' /\ NoLeak(d)'
    BY <1>0, <2>1 DEF Fate, NoLeak
  <2>6. QED
    BY <2>4, <2>5
<1>3. ASSUME NEW c \in Clients, NEW m \in {"transaction", "updateMany"}, Begin(c, m)
      PROVE  Fresh(d)' /\ Fate(d)' /\ NoLeak(d)'
  BY <1>0, <1>3 DEF Begin, Fresh, Known, Fate, NoLeak, eventVars
<1>4. ASSUME NEW c \in Clients, FlushResult(c)
      PROVE  Fresh(d)' /\ Fate(d)' /\ NoLeak(d)'
  BY <1>0, <1>4 DEF FlushResult, TxInv, Fresh, Known, Fate, NoLeak, historyVars
<1>5. ASSUME NEW c \in Clients, Read(c)
      PROVE  Fresh(d)' /\ Fate(d)' /\ NoLeak(d)'
  BY <1>0, <1>5 DEF Read, Goto, Fresh, Known, Fate, NoLeak, eventVars, historyVars
<1>6. ASSUME NEW c \in Clients, Execute(c)
      PROVE  Fresh(d)' /\ Fate(d)' /\ NoLeak(d)'
  BY <1>6, ExecuteTx DEF TxInv
<1>7. ASSUME NEW c \in Clients, AuditAndCollect(c)
      PROVE  Fresh(d)' /\ Fate(d)' /\ NoLeak(d)'
  BY <1>7, AuditTx DEF TxInv
<1>8. ASSUME NEW c \in Clients, Fail(c)
      PROVE  Fresh(d)' /\ Fate(d)' /\ NoLeak(d)'
  BY <1>0, <1>8 DEF Fail, Catch, Raise, ForgetQueues, Goto, Fresh, Known, Fate, NoLeak, historyVars
<1>9. ASSUME NEW c \in Clients, Commit(c)
      PROVE  Fresh(d)' /\ Fate(d)' /\ NoLeak(d)'
  BY <1>0, <1>9 DEF Commit, Fresh, Known, Fate, NoLeak
<1>10. ASSUME NEW c \in Clients, Rollback(c)
      PROVE  Fresh(d)' /\ Fate(d)' /\ NoLeak(d)'
  <2>1. pc[c] = "rollback" /\ mode[c] # "plain" /\ open = c
    BY <1>10 DEF Rollback, TypeInv, Busy
  <2>2. /\ db' = saved /\ open' = Nobody
        /\ outcome' = [outcome EXCEPT ![c] = "aborted"] /\ mode' = [mode EXCEPT ![c] = "plain"]
        /\ txQueue' = [txQueue EXCEPT ![c] = {}]
        /\ pc' \in {[pc EXCEPT ![c] = "failed"], [pc EXCEPT ![c] = "choose"]}
        /\ queue' \in {queue, [queue EXCEPT ![c] = {}]}
        /\ UNCHANGED <<count, saved, result, emitted, own>>
    BY <1>10 DEF Rollback, Unwind, Goto
  <2>3. Fresh(d)'
    BY <1>0, <2>2 DEF Fresh, Known
  <2>4. Fate(c) /\ NoLeak(c)
    BY DEF TxInv
  <2>5. Fate(d)'
    BY <1>0, <2>1, <2>2, <2>4 DEF Fate
  <2>6. NoLeak(d)'
    BY <1>0, <2>1, <2>2, <2>4 DEF Fate, NoLeak
  <2>7. QED
    BY <2>3, <2>5, <2>6
<1>11. ASSUME NEW c \in Clients, Finish(c)
      PROVE  Fresh(d)' /\ Fate(d)' /\ NoLeak(d)'
  BY <1>0, <1>11 DEF Finish, TxInv, Goto, Fresh, Known, Fate, NoLeak, historyVars
<1>12. QED
  BY <1>2, <1>3, <1>4, <1>5, <1>6, <1>7, <1>8, <1>9, <1>10, <1>11
     DEF Next, Work, BeginFails

\* Of a transaction, all writes and events are kept or none is, whatever other
\* requests write through the same connection in between.
THEOREM AtomicTransactions == Spec => []TransactionsAreAtomic
<1>1. TypeInv /\ TxInv => TransactionsAreAtomic
  BY DEF TypeInv, TxInv, Fate, NoLeak, TransactionsAreAtomic, AllOrNothing, TxEventsFollowCommit
<1>2. QED
  BY <1>1, InitTypes, StepTypes, InitTx, StepTx, PTL DEF Spec

-----------------------------------------------------------------------------
(* What undisturbed requests are promised is kept *)

\* Rows whose change is made, and whose audit row and event are still due.
Due(c) == {<<c, count[c], r>> : r \in todo[c]}

\* What the events and audit rows of an undisturbed request are about is in
\* the database, and what of it a ROLLBACK leaves is in what it goes back to.
Kept(c) ==
  c \notin disturbed =>
    /\ \A w \in emitted \cup db.audit : w[1] = c => w \in db.writes \cup missed
    /\ queue[c] \cup txQueue[c] \cup result[c] \cup Due(c) \subseteq db.writes \cup missed
    /\ open # Nobody =>
         /\ \A w \in emitted \cup saved.audit : w[1] = c => w \in saved.writes \cup missed
         /\ queue[c] \cup result[c] \subseteq saved.writes \cup missed
         /\ open # c => Due(c) \subseteq saved.writes \cup missed

KeptInv == \A c \in Clients : Kept(c) /\ (mode[c] = "plain" => txQueue[c] = {})

\* No client has anything to lose at the start.
LEMMA InitKept == Init => KeptInv
  BY DEF Init, KeptInv, Kept, Due

\* The types that the invariant of undisturbed work needs.
LEMMA KeptTypes ==
  ASSUME TypeInv
  PROVE  /\ todo \in [Clients -> SUBSET Rows] /\ disturbed \subseteq Clients
         /\ \A c \in Clients : todo[c] # {} => pc[c] = "after"
         /\ db.audit \subseteq Writes /\ saved.audit \subseteq Writes /\ missed \subseteq Writes
  BY DEF TypeInv, TypeOK, Contents, Busy

\* What a statement writes is there, or it is known to have missed.
LEMMA ExecuteKept ==
  ASSUME TypeInv, TxInv, KeptInv, NEW c \in Clients, Execute(c)
  PROVE  KeptInv'
<1> SUFFICES ASSUME NEW d \in Clients PROVE Kept(d)' /\ (mode[d] = "plain" => txQueue[d] = {})'
  BY DEF KeptInv
<1> DEFINE ids  == Ids(c, Found(c))
           lost == Ids(c, op[c].rows \ Found(c))
<1>1. \A r \in op[c].rows : <<c, count[c], r>> \in ids \cup lost
  BY DEF Ids
<1> HIDE DEF ids, lost
<1>2. /\ pc[c] = "execute"
      /\ db'.writes = db.writes \cup ids /\ db'.audit = db.audit
      /\ missed' = missed \cup lost
      /\ disturbed' = Strays(c)
      /\ UNCHANGED <<mode, count, saved, open, queue, txQueue, result, emitted>>
      /\ \/ todo' = [todo EXCEPT ![c] = {}]
         \/ todo' = [todo EXCEPT ![c] = op[c].rows]
  BY ExecuteEffect DEF eventVars, ForgetOp, ids, lost
<1>3. Kept(d) /\ (mode[d] = "plain" => txQueue[d] = {})
  BY DEF KeptInv
<1>4. (mode[d] = "plain" => txQueue[d] = {})'
  BY <1>2, <1>3
<1>5. CASE d # c
  <2>1. Due(d)' = Due(d)
    BY <1>2, <1>5, KeptTypes DEF Due
  <2>2. d \notin disturbed' => d \notin disturbed
    BY <1>2 DEF Strays
  <2>3. Kept(d)'
    BY <1>2, <1>3, <2>1, <2>2 DEF Kept
  <2>4. QED
    BY <1>4, <2>3
<1>6. CASE d = c
  <2>1. Due(c)' \subseteq ids \cup lost
    BY <1>1, <1>2, KeptTypes DEF Due
  <2>2. c \notin disturbed' => c \notin disturbed /\ open \in {Nobody, c}
    BY <1>2 DEF Strays
  <2>3. Kept(c)'
    BY <1>2, <1>3, <1>6, <2>1, <2>2 DEF Kept
  <2>4. QED
    BY <1>4, <1>6, <2>3
<1>7. QED
  BY <1>5, <1>6

\* What a write owes to the audit table and the queue is paid, or its client was disturbed.
LEMMA AuditKept ==
  ASSUME TypeInv, TxInv, KeptInv, NEW c \in Clients, AuditAndCollect(c)
  PROVE  KeptInv'
<1> SUFFICES ASSUME NEW d \in Clients PROVE Kept(d)' /\ (mode[d] = "plain" => txQueue[d] = {})'
  BY DEF KeptInv
<1>1. PICK r \in todo[c] :
        LET id == <<c, count[c], r>>
        IN /\ db'.writes = db.writes
           /\ \/ db'.audit = db.audit \cup {id} /\ disturbed' = Strays(c)
              \/ db'.audit = db.audit /\ disturbed' = disturbed
           /\ IF mode[c] = "plain"
                THEN queue' = [queue EXCEPT ![c] = @ \cup {id}] /\ UNCHANGED txQueue
                ELSE txQueue' = [txQueue EXCEPT ![c] = @ \cup {id}] /\ UNCHANGED queue
           /\ \/ todo' = [todo EXCEPT ![c] = {}]
              \/ todo' = [todo EXCEPT ![c] = @ \ {r}]
           /\ UNCHANGED <<mode, count, saved, open, result, emitted, missed>>
  BY AuditEffect DEF ForgetOp
<1> DEFINE id == <<c, count[c], r>>
<1>2. id[1] = c /\ id \in Due(c)
  BY DEF Due
<1> HIDE DEF id
<1>3. /\ db'.writes = db.writes
      /\ \/ db'.audit = db.audit \cup {id} /\ disturbed' = Strays(c)
         \/ db'.audit = db.audit /\ disturbed' = disturbed
      /\ \/ /\ mode[c] = "plain"
            /\ queue' = [queue EXCEPT ![c] = @ \cup {id}] /\ UNCHANGED txQueue
         \/ /\ mode[c] # "plain"
            /\ txQueue' = [txQueue EXCEPT ![c] = @ \cup {id}] /\ UNCHANGED queue
      /\ \/ todo' = [todo EXCEPT ![c] = {}]
         \/ todo' = [todo EXCEPT ![c] = @ \ {r}]
      /\ UNCHANGED <<mode, count, saved, open, result, emitted, missed>>
  BY <1>1 DEF id
<1>4. Kept(d) /\ Kept(c) /\ (mode[d] = "plain" => txQueue[d] = {})
  BY DEF KeptInv
<1>5. (mode[d] = "plain" => txQueue[d] = {})'
  BY <1>3, <1>4, TxTypes
<1>6. Due(d)' \subseteq Due(d)
  BY <1>3, KeptTypes DEF Due
<1>7. d \notin disturbed' => d \notin disturbed
  BY <1>3 DEF Strays
<1>8. open # Nobody /\ mode[c] = "plain" => open # c
  BY TxTypes
<1>9. Kept(d)'
  BY <1>2, <1>3, <1>4, <1>6, <1>7, <1>8, TxTypes DEF Kept
<1>10. QED
  BY <1>5, <1>9

\* Every step keeps what undisturbed requests are promised.
LEMMA StepKept == TypeInv /\ TxInv /\ KeptInv /\ [Next]_vars => KeptInv'
<1> SUFFICES ASSUME TypeInv, TxInv, KeptInv, [Next]_vars PROVE KeptInv'
  OBVIOUS
<1>1. CASE UNCHANGED vars
  BY <1>1 DEF vars, KeptInv, Kept, Due
<1> SUFFICES ASSUME NEW d \in Clients, Next
             PROVE  Kept(d)' /\ (mode[d] = "plain" => txQueue[d] = {})'
  BY <1>1 DEF KeptInv
<1> USE TxTypes, KeptTypes
<1>0. Kept(d) /\ (mode[d] = "plain" => txQueue[d] = {})
  BY DEF KeptInv
<1>2. ASSUME NEW c \in Clients, NEW kind \in Kinds, NEW rows \in (SUBSET Rows) \ {{}}, Choose(c, kind, rows)
      PROVE  Kept(d)' /\ (mode[d] = "plain" => txQueue[d] = {})'
  <2>1. /\ pc[c] = "choose" /\ count' = [count EXCEPT ![c] = @ + 1]
        /\ UNCHANGED <<mode, todo, db, saved, open, queue, txQueue, result, emitted, missed, disturbed>>
    BY <1>2 DEF Choose, eventVars, historyVars
  <2>2. Due(d)' = Due(d)
    BY <2>1 DEF Due
  <2>3. QED
    BY <1>0, <2>1, <2>2 DEF Kept
<1>3. ASSUME NEW c \in Clients, NEW m \in {"transaction", "updateMany"}, Begin(c, m)
      PROVE  Kept(d)' /\ (mode[d] = "plain" => txQueue[d] = {})'
  BY <1>0, <1>3 DEF Begin, Kept, Due, eventVars
<1>4. ASSUME NEW c \in Clients, FlushResult(c)
      PROVE  Kept(d)' /\ (mode[d] = "plain" => txQueue[d] = {})'
  BY <1>0, <1>4 DEF FlushResult, Kept, Due, TxInv, Fresh, Known, historyVars
<1>5. ASSUME NEW c \in Clients, Read(c)
      PROVE  Kept(d)' /\ (mode[d] = "plain" => txQueue[d] = {})'
  BY <1>0, <1>5 DEF Read, Kept, Due, eventVars, historyVars
<1>6. ASSUME NEW c \in Clients, Execute(c)
      PROVE  Kept(d)' /\ (mode[d] = "plain" => txQueue[d] = {})'
  BY <1>6, ExecuteKept DEF KeptInv
<1>7. ASSUME NEW c \in Clients, AuditAndCollect(c)
      PROVE  Kept(d)' /\ (mode[d] = "plain" => txQueue[d] = {})'
  BY <1>7, AuditKept DEF KeptInv
<1>8. ASSUME NEW c \in Clients, Fail(c)
      PROVE  Kept(d)' /\ (mode[d] = "plain" => txQueue[d] = {})'
  <2>1. /\ todo' = [todo EXCEPT ![c] = {}]
        /\ queue' \in {queue, [queue EXCEPT ![c] = {}]}
        /\ txQueue' \in {txQueue, [txQueue EXCEPT ![c] = {}]}
        /\ UNCHANGED <<mode, count, db, saved, open, result, emitted, missed, disturbed>>
    BY <1>8 DEF Fail, ForgetOp, Catch, Raise, ForgetQueues, historyVars
  <2>2. Due(d)' \subseteq Due(d)
    BY <2>1 DEF Due
  <2>3. QED
    BY <1>0, <2>1, <2>2 DEF Kept
<1>9. ASSUME NEW c \in Clients, Commit(c)
      PROVE  Kept(d)' /\ (mode[d] = "plain" => txQueue[d] = {})'
  BY <1>0, <1>9 DEF Commit, Kept, Due
<1>10. ASSUME NEW c \in Clients, Rollback(c)
      PROVE  Kept(d)' /\ (mode[d] = "plain" => txQueue[d] = {})'
  <2>1. pc[c] = "rollback" /\ mode[c] # "plain" /\ open = c
    BY <1>10 DEF Rollback, TypeInv, Busy
  <2>2. /\ db' = saved /\ open' = Nobody /\ mode' = [mode EXCEPT ![c] = "plain"]
        /\ txQueue' = [txQueue EXCEPT ![c] = {}]
        /\ queue' \in {queue, [queue EXCEPT ![c] = {}]}
        /\ UNCHANGED <<count, todo, saved, result, emitted, missed, disturbed>>
    BY <1>10 DEF Rollback, Unwind
  <2>3. Due(c) = {} /\ Due(d)' = Due(d)
    BY <2>1, <2>2 DEF Due
  <2>4. txQueue'[d] = {}
    BY <1>0, <2>1, <2>2
  <2>5. Kept(d)'
    BY <1>0, <2>1, <2>2, <2>3, <2>4 DEF Kept
  <2>6. QED
    BY <2>4, <2>5
<1>11. ASSUME NEW c \in Clients, Finish(c)
      PROVE  Kept(d)' /\ (mode[d] = "plain" => txQueue[d] = {})'
  BY <1>0, <1>11 DEF Finish, Kept, Due, TxInv, Fresh, Known, historyVars
<1>12. QED
  BY <1>2, <1>3, <1>4, <1>5, <1>6, <1>7, <1>8, <1>9, <1>10, <1>11
     DEF Next, Work, BeginFails

\* Events and audit rows of a request that did not write inside the transaction
\* of another are about changes that are in the database.
THEOREM KeptWork == Spec => []UndisturbedWorkIsKept
<1>1. TypeInv /\ KeptInv => UndisturbedWorkIsKept
  BY TxTypes, KeptTypes DEF KeptInv, Kept, UndisturbedWorkIsKept
<1>2. QED
  BY <1>1, InitTypes, StepTypes, InitTx, StepTx, InitKept, StepKept, PTL DEF Spec

-----------------------------------------------------------------------------
(* The connection implements the shared store *)

\* What is saved for ROLLBACK was there before, and is still there.
SavedIsKept == open # Nobody => saved.writes \subseteq db.writes

\* No transaction is open at the start.
LEMMA InitSaved == Init => SavedIsKept
  BY DEF Init, SavedIsKept

\* A step of the connection as one of the store, with the one it takes.
LEMMA StepStore ==
  TypeInv /\ SavedIsKept /\ [Next]_vars => SavedIsKept' /\ [Store!Next]_(Store!vars)
<1> SUFFICES ASSUME TypeInv, SavedIsKept, [Next]_vars
             PROVE  SavedIsKept' /\ [Store!Next]_(Store!vars)
  OBVIOUS
<1> USE TxTypes
<1>1. ASSUME UNCHANGED <<db, saved, open>>
      PROVE  SavedIsKept' /\ [Store!Next]_(Store!vars)
  BY <1>1 DEF SavedIsKept, Store!vars
<1>2. CASE UNCHANGED vars
  BY <1>1, <1>2 DEF vars
<1>3. ASSUME NEW c \in Clients, NEW kind \in Kinds, NEW rows \in (SUBSET Rows) \ {{}}, Choose(c, kind, rows)
      PROVE  SavedIsKept' /\ [Store!Next]_(Store!vars)
  BY <1>1, <1>3 DEF Choose
<1>4. ASSUME NEW c \in Clients, NEW m \in {"transaction", "updateMany"}, Begin(c, m)
      PROVE  SavedIsKept' /\ [Store!Next]_(Store!vars)
  <2>1. open = Nobody /\ open' = c /\ c # Nobody /\ db' = db /\ saved' = db
    BY <1>4 DEF Begin
  <2>2. Store!Begin(c)
    BY <2>1 DEF Store!Begin
  <2>3. QED
    BY <2>1, <2>2 DEF SavedIsKept, Store!Next
<1>5. ASSUME NEW c \in Clients, FlushResult(c)
      PROVE  SavedIsKept' /\ [Store!Next]_(Store!vars)
  BY <1>1, <1>5 DEF FlushResult
<1>6. ASSUME NEW c \in Clients, Read(c) PROVE SavedIsKept' /\ [Store!Next]_(Store!vars)
  BY <1>1, <1>6 DEF Read
<1>7. ASSUME NEW c \in Clients, Execute(c) PROVE SavedIsKept' /\ [Store!Next]_(Store!vars)
  <2> DEFINE ids == Ids(c, Found(c))
  <2>1. db'.writes = db.writes \cup ids /\ UNCHANGED <<saved, open>> /\ ids \in SUBSET Writes
    BY <1>7, ExecuteEffect
  <2> HIDE DEF ids
  <2>2. CASE open = Nobody
    <3>1. Store!Write(ids)
      BY <2>1, <2>2 DEF Store!Write
    <3>2. QED
      BY <2>1, <2>2, <3>1 DEF SavedIsKept, Store!Next
  <2>3. CASE open # Nobody
    <3>1. Store!Write(ids \ saved.writes)
      BY <2>1, <2>3 DEF Store!Write
    <3>2. QED
      BY <2>1, <2>3, <3>1 DEF SavedIsKept, Store!Next
  <2>4. QED
    BY <2>2, <2>3
<1>8. ASSUME NEW c \in Clients, AuditAndCollect(c) PROVE SavedIsKept' /\ [Store!Next]_(Store!vars)
  <2>1. db'.writes = db.writes /\ UNCHANGED <<saved, open>>
    BY <1>8, AuditEffect
  <2>2. QED
    BY <2>1 DEF SavedIsKept, Store!vars
<1>9. ASSUME NEW c \in Clients, Fail(c) PROVE SavedIsKept' /\ [Store!Next]_(Store!vars)
  BY <1>1, <1>9 DEF Fail
<1>10. ASSUME NEW c \in Clients, Commit(c) PROVE SavedIsKept' /\ [Store!Next]_(Store!vars)
  <2>1. open = c /\ open # Nobody /\ open' = Nobody /\ UNCHANGED <<db, saved>>
    BY <1>10 DEF Commit
  <2>2. Store!Commit
    BY <2>1 DEF Store!Commit, SavedIsKept
  <2>3. QED
    BY <2>1, <2>2 DEF SavedIsKept, Store!Next
<1>11. ASSUME NEW c \in Clients, Rollback(c) PROVE SavedIsKept' /\ [Store!Next]_(Store!vars)
  <2>1. open = c /\ open # Nobody /\ open' = Nobody /\ db' = saved /\ UNCHANGED saved
    BY <1>11 DEF Rollback, Unwind, TypeInv, Busy
  <2>2. Store!Abort
    BY <2>1 DEF Store!Abort
  <2>3. QED
    BY <2>1, <2>2 DEF SavedIsKept, Store!Next
<1>12. ASSUME NEW c \in Clients, Finish(c) PROVE SavedIsKept' /\ [Store!Next]_(Store!vars)
  BY <1>1, <1>12 DEF Finish
<1>13. QED
  BY <1>2, <1>3, <1>4, <1>5, <1>6, <1>7, <1>8, <1>9, <1>10, <1>11, <1>12
     DEF Next, Work, BeginFails

\* The statements of all requests, with whoever's transaction they meet, are
\* the writes, commits and aborts of one store that all of them share.
THEOREM StoreImplemented == Spec => ImplementsStore
<1>1. Init => Store!Init
  BY DEF Init, Store!Init
<1>2. QED
  BY <1>1, InitTypes, StepTypes, InitSaved, StepStore, PTL DEF Spec, ImplementsStore, Store!Spec
=============================================================================
