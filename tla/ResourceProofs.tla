--------------------------- MODULE ResourceProofs ---------------------------
(***************************************************************************)
(* Theorems about Resource, for any number of requests, rows and values    *)
(* and every way of configuring the routes.                                *)
(***************************************************************************)
EXTENDS Resource, FiniteSetTheorems, TLAPS

Busy    == {"check", "load", "write", "reread"}
ById    == {"show", "update", "destroy"}
Pends(call) == call.pc = "write" /\ call.op = "store"
Pending == {q \in Requests : Pends(calls[q])}

\* How far a request is says what it does, and with which id and data.
Progress(call) ==
  /\ call.pc = "check"  => call.op \in {"index"} \cup ById
  /\ call.pc = "load"   => call.op \in {"update", "destroy"}
  /\ call.pc = "write"  => call.op \in {"store", "update", "destroy"}
  /\ call.pc = "reread" => call.op = "update"
  /\ call.pc \in Busy /\ call.op \in ById => call.id \in Ids
  /\ call.pc \in Busy /\ call.op = "store" => call.data \in Rows
  /\ call.pc \in Busy /\ call.op = "update" => call.data \in Patches

\* A request that has passed show() has an id that is not hidden; what it
\* deletes has been stored at some time.
Passed(call, hidden, next) ==
  /\ call.pc \in Busy \ {"check"} /\ call.op \in ById => call.id \notin hidden
  /\ call.pc = "write" /\ call.op = "destroy" => call.id < next

\* The answer of a request is true, and what it deleted is gone.
Truthful(call, rows, hidden, next) ==
  call.pc = "answered" =>
    /\ call.op \in {"show", "update"} /\ call.status = 200 => call.row \in call.seen
    /\ call.status = 404 => Null \in call.seen \/ call.id \in hidden
    /\ call.op = "destroy" /\ call.status = 200 =>
         call.id \in Ids /\ call.id < next /\ rows[call.id] = Null

\* While a request runs it has seen what its row is.
Seeing(call, rows) == call.pc \in Busy /\ call.id # Null => rows[call.id] \in call.seen

\* What holds of a request in a state.
Sound(call, rows, hidden, next) ==
  /\ Progress(call) /\ Passed(call, hidden, next)
  /\ Truthful(call, rows, hidden, next) /\ Seeing(call, rows)

CallsInv == \A r \in Requests : Sound(calls[r], table, options.hidden, nextId)

\* Ids not given out name no row, and there are enough for the pending stores.
Unused == \A id \in Ids : table[id] # Null => id < nextId
Room   == IsFiniteSet(Pending) /\ nextId + Cardinality(Pending) <= MaxId + 1
Hidden == options.hidden \subseteq Ids

IInv == TypeOK /\ CallsInv /\ Unused /\ Room /\ Hidden

-----------------------------------------------------------------------------
(* Calls and rows *)

Statuses == {200, 201, 401, 404, 500}

\* An answered call is a call; its answer is what it was given, and what it
\* asked for and saw stays.
LEMMA AnswerIsCall ==
  ASSUME NEW call \in Call, NEW status \in Statuses, NEW row \in Rows \cup {Null}
  PROVE  /\ Answer(call, status, row) \in Call
         /\ Answer(call, status, row).pc = "answered"
         /\ Answer(call, status, row).status = status
         /\ Answer(call, status, row).row = row
         /\ Answer(call, status, row).op = call.op
         /\ Answer(call, status, row).id = call.id
         /\ Answer(call, status, row).seen = call.seen
<1> DEFINE c1 == [call EXCEPT !.pc = "answered"]
           c2 == [c1 EXCEPT !.status = status]
           c3 == [c2 EXCEPT !.row = row]
           c4 == [c3 EXCEPT !.data = Null]
           c5 == [c4 EXCEPT !.current = Null]
<1>1. c5 = Answer(call, status, row)
  BY DEF Answer
<1>2. /\ c1 \in Call /\ c1.pc = "answered"
      /\ c1.op = call.op /\ c1.id = call.id /\ c1.seen = call.seen
  BY DEF Call
<1> HIDE DEF c1
<1>3. /\ c2 \in Call /\ c2.pc = c1.pc /\ c2.status = status
      /\ c2.op = c1.op /\ c2.id = c1.id /\ c2.seen = c1.seen
  BY <1>2 DEF Call, Statuses
<1> HIDE DEF c2
<1>4. /\ c3 \in Call /\ c3.pc = c2.pc /\ c3.status = c2.status /\ c3.row = row
      /\ c3.op = c2.op /\ c3.id = c2.id /\ c3.seen = c2.seen
  BY <1>3 DEF Call
<1> HIDE DEF c3
<1>5. /\ c4 \in Call /\ c4.pc = c3.pc /\ c4.status = c3.status /\ c4.row = c3.row
      /\ c4.op = c3.op /\ c4.id = c3.id /\ c4.seen = c3.seen
  BY <1>4 DEF Call
<1> HIDE DEF c4
<1>6. /\ c5 \in Call /\ c5.pc = c4.pc /\ c5.status = c4.status /\ c5.row = c4.row
      /\ c5.op = c4.op /\ c5.id = c4.id /\ c5.seen = c4.seen
  BY <1>5 DEF Call
<1> HIDE DEF c5
<1>7. QED
  BY <1>1, <1>2, <1>3, <1>4, <1>5, <1>6

NewCall(where, op, id, data, signedIn) ==
  [IdleCall EXCEPT !.pc = where, !.op = op, !.id = id, !.data = data, !.signedIn = signedIn]

\* A call that has just started has the id and the data it was given.
LEMMA Started ==
  ASSUME NEW where \in {"check", "write"}, NEW op \in Ops, NEW id \in Ids \cup {Null},
         NEW data \in Rows \cup Patches \cup {Null}, NEW signedIn \in BOOLEAN
  PROVE  /\ NewCall(where, op, id, data, signedIn) \in Call
         /\ NewCall(where, op, id, data, signedIn).pc = where
         /\ NewCall(where, op, id, data, signedIn).op = op
         /\ NewCall(where, op, id, data, signedIn).id = id
         /\ NewCall(where, op, id, data, signedIn).data = data
<1> DEFINE c1 == [IdleCall EXCEPT !.pc = where]
           c2 == [c1 EXCEPT !.op = op]
           c3 == [c2 EXCEPT !.id = id]
           c4 == [c3 EXCEPT !.data = data]
           c5 == [c4 EXCEPT !.signedIn = signedIn]
<1>1. c5 = NewCall(where, op, id, data, signedIn)
  BY DEF NewCall
<1>2. c1 \in Call /\ c1.pc = where
  <2>1. IdleCall \in Call
    BY DEF IdleCall, Call
  <2>2. QED
    BY <2>1 DEF Call
<1> HIDE DEF c1
<1>3. c2 \in Call /\ c2.pc = c1.pc /\ c2.op = op
  BY <1>2 DEF Call, Statuses
<1> HIDE DEF c2
<1>4. c3 \in Call /\ c3.pc = c2.pc /\ c3.op = c2.op /\ c3.id = id
  BY <1>3 DEF Call
<1> HIDE DEF c3
<1>5. c4 \in Call /\ c4.pc = c3.pc /\ c4.op = c3.op /\ c4.id = c3.id /\ c4.data = data
  BY <1>4 DEF Call
<1> HIDE DEF c4
<1>6. c5 \in Call /\ c5.pc = c4.pc /\ c5.op = c4.op /\ c5.id = c4.id /\ c5.data = c4.data
  BY <1>5 DEF Call
<1> HIDE DEF c5
<1>7. QED
  BY <1>1, <1>2, <1>3, <1>4, <1>5, <1>6

\* An update makes a row, with the fields of the patch and the others as they were.
LEMMA Merged ==
  ASSUME NEW row \in Rows, NEW patch \in Patches
  PROVE  /\ Merge(row, patch) \in Rows
         /\ \A f \in Fields : Merge(row, patch)[f] = IF f \in DOMAIN patch THEN patch[f] ELSE row[f]
BY DEF Merge, Rows, Patches, Part, Fields

\* What a request is before its witnesses: the one that acts is call.
Base(q, r, call) == IF q = r THEN call ELSE calls[q]

\* A request as it was, with what it has seen of the new table.
Witnesses(new, old, newTable) ==
  /\ new.pc = old.pc /\ new.op = old.op /\ new.id = old.id /\ new.data = old.data
  /\ new.status = old.status /\ new.row = old.row
  /\ old.seen \subseteq new.seen
  /\ new.pc \in Busy /\ new.id # Null => newTable[new.id] \in new.seen

\* Becomes() sets the record of the request; beside that all requests that are
\* under way see the new table.
LEMMA Becoming ==
  ASSUME TypeOK, NEW r \in Requests, NEW call \in Call,
         NEW newTable \in [Ids -> Rows \cup {Null}], Becomes(r, call, newTable)
  PROVE  /\ table' = newTable /\ options' = options
         /\ calls' \in [Requests -> Call]
         /\ \A q \in Requests : /\ Base(q, r, call) \in Call
                               /\ Witnesses(calls'[q], Base(q, r, call), newTable)
<1>1. table' = newTable /\ options' = options
      /\ calls' = Witness(newTable, [calls EXCEPT ![r] = call])
  BY DEF Becomes
<1> DEFINE base == [calls EXCEPT ![r] = call]
<1>2. \A q \in Requests : base[q] = Base(q, r, call) /\ base[q] \in Call
  BY DEF TypeOK, Base
<1> HIDE DEF base
<1>3. \A q \in Requests :
        calls'[q] = IF base[q].pc \in {"idle", "answered"} \/ base[q].id = Null THEN base[q]
                    ELSE [base[q] EXCEPT !.seen = @ \cup {newTable[base[q].id]}]
  BY <1>1 DEF Witness, base
<1>4. calls' = [q \in Requests |-> calls'[q]]
  BY <1>1 DEF Witness, base
<1>5. ASSUME NEW q \in Requests, NEW c \in Call, base[q] = c, c = Base(q, r, call)
      PROVE  calls'[q] \in Call /\ Witnesses(calls'[q], c, newTable)
  <2>1. CASE c.pc \in {"idle", "answered"} \/ c.id = Null
    <3>1. calls'[q] = c
      BY <1>3, <1>5, <2>1
    <3>2. QED
      BY <1>5, <2>1, <3>1 DEF Witnesses, Busy
  <2>2. CASE ~(c.pc \in {"idle", "answered"} \/ c.id = Null)
    <3> DEFINE row == newTable[c.id]
    <3>1. calls'[q] = [c EXCEPT !.seen = @ \cup {row}]
      BY <1>3, <1>5, <2>2
    <3>2. row \in Rows \cup {Null}
      BY <2>2 DEF Call
    <3>3. c.seen \in SUBSET (Rows \cup {Null})
      BY DEF Call
    <3> HIDE DEF row
    <3>4. calls'[q] \in Call
      BY <3>1, <3>2, <3>3 DEF Call
    <3>5. LET new == calls'[q]
          IN /\ new.pc = c.pc /\ new.op = c.op /\ new.id = c.id /\ new.data = c.data
             /\ new.status = c.status /\ new.row = c.row /\ new.seen = c.seen \cup {row}
      BY <3>1 DEF Call
    <3>6. QED
      BY <3>4, <3>5 DEF Witnesses, row
  <2>3. QED
    BY <2>1, <2>2
<1>6. \A q \in Requests : calls'[q] \in Call
  BY <1>2, <1>5
<1>7. calls' \in [Requests -> Call]
  BY <1>4, <1>6
<1>8. QED
  BY <1>1, <1>2, <1>5, <1>7

-----------------------------------------------------------------------------
(* What every step of a request keeps to *)

\* Rows that are gone stay gone, rows appear with ids that have been given out.
Grows(newTable) ==
  \A id \in Ids : /\ id < nextId /\ table[id] = Null => newTable[id] = Null
                  /\ newTable[id] # Null => id < nextId'

\* A step that leaves its request sound and lets no row come back keeps the
\* invariant of all requests.
LEMMA StepKeeps ==
  ASSUME IInv, NEW r \in Requests, NEW call \in Call,
         NEW newTable \in [Ids -> Rows \cup {Null}], Becomes(r, call, newTable),
         nextId' \in nextId .. MaxId + 1,
         Progress(call), Passed(call, options.hidden, nextId),
         Truthful(call, newTable, options.hidden, nextId), Grows(newTable)
  PROVE  TypeOK' /\ CallsInv' /\ Unused' /\ Hidden'
<1> DEFINE hidden == options.hidden
<1>1. /\ table' = newTable /\ options' = options /\ calls' \in [Requests -> Call]
      /\ \A q \in Requests : /\ Base(q, r, call) \in Call
                             /\ Witnesses(calls'[q], Base(q, r, call), newTable)
  BY Becoming DEF IInv
<1>2. nextId \in Nat /\ nextId' \in Nat /\ nextId' >= nextId /\ nextId' \in 1 .. MaxId + 1
  BY ResourceAssumption DEF IInv, TypeOK
<1>3. TypeOK'
  BY <1>1, <1>2 DEF IInv, TypeOK
<1>4. Unused'
  BY <1>1 DEF Unused, Grows
<1>5. Hidden'
  BY <1>1 DEF IInv, Hidden
<1> HIDE DEF hidden
<1>6. ASSUME NEW q \in Requests, NEW old \in Call, NEW new \in Call,
             old = Base(q, r, call), new = calls'[q]
      PROVE  Sound(new, newTable, hidden, nextId')
  <2>1. /\ new.pc = old.pc /\ new.op = old.op /\ new.id = old.id /\ new.data = old.data
        /\ new.status = old.status /\ new.row = old.row /\ old.seen \subseteq new.seen
        /\ Seeing(new, newTable)
    BY <1>1, <1>6 DEF Witnesses, Seeing
  <2>2. Progress(old) /\ Passed(old, hidden, nextId)
    BY <1>6 DEF IInv, CallsInv, Sound, Base, hidden
  <2>3. Truthful(old, newTable, hidden, nextId)
    <3>1. CASE q = r
      BY <1>6, <3>1 DEF Base, hidden
    <3>2. CASE q # r
      <4>1. Truthful(old, table, hidden, nextId)
        BY <1>6, <3>2 DEF IInv, CallsInv, Sound, Base, hidden
      <4>2. QED
        BY <4>1 DEF Truthful, Grows
    <3>3. QED
      BY <3>1, <3>2
  <2>4. Progress(new)
    BY <2>1, <2>2 DEF Progress
  <2>5. Passed(new, hidden, nextId')
    <3>1. new.pc \in Busy \ {"check"} /\ new.op \in ById => new.id \notin hidden
      BY <2>1, <2>2 DEF Passed
    <3>2. new.pc = "write" /\ new.op = "destroy" => new.id \in Ids /\ new.id < nextId
      BY <2>1, <2>2 DEF Passed, Progress, Busy, ById
    <3>3. QED
      BY <1>2, <3>1, <3>2, ResourceAssumption DEF Passed, Ids
  <2>6. Truthful(new, newTable, hidden, nextId')
    <3>1. Truthful(new, newTable, hidden, nextId)
      BY <2>1, <2>3 DEF Truthful
    <3>2. QED
      BY <1>2, <3>1, ResourceAssumption DEF Truthful, Ids
  <2>7. QED
    BY <2>1, <2>4, <2>5, <2>6 DEF Sound
<1>7. CallsInv'
  <2>1. ASSUME NEW q \in Requests PROVE Sound(calls'[q], newTable, hidden, nextId')
    <3>1. Base(q, r, call) \in Call /\ calls'[q] \in Call
      BY <1>1
    <3>2. QED
      BY <1>6, <3>1
  <2>2. QED
    BY <1>1, <2>1 DEF CallsInv, hidden
<1>8. QED
  BY <1>3, <1>4, <1>5, <1>7

\* Who stores next: the request that acts, if its record says so, and those that
\* were to store.
LEMMA PendingNext ==
  ASSUME IInv, NEW r \in Requests, NEW call \in Call,
         NEW newTable \in [Ids -> Rows \cup {Null}], Becomes(r, call, newTable)
  PROVE  Pending' = IF Pends(call) THEN Pending \cup {r} ELSE Pending \ {r}
<1>1. \A q \in Requests : Witnesses(calls'[q], Base(q, r, call), newTable)
  BY Becoming DEF IInv
<1>2. \A q \in Requests : Pends(calls'[q]) <=> Pends(Base(q, r, call))
  BY <1>1 DEF Witnesses, Pends
<1>3. QED
  BY <1>2 DEF Pending, Base

\* An id is left for every pending store, after a start and after a store.
LEMMA RoomKept ==
  ASSUME IInv, NEW r \in Requests,
         \/ /\ nextId' = nextId /\ Pending' = Pending \cup {r}
            /\ nextId + Cardinality(Pending) <= MaxId
         \/ /\ nextId' = nextId /\ Pending' = Pending \ {r}
         \/ /\ nextId' = nextId + 1 /\ Pending' = Pending \ {r} /\ r \in Pending
  PROVE  Room'
<1>1. IsFiniteSet(Pending) /\ Cardinality(Pending) \in Nat /\ nextId \in Nat
      /\ nextId + Cardinality(Pending) <= MaxId + 1
  BY FS_CardinalityType, ResourceAssumption DEF IInv, Room, TypeOK
<1>2. /\ IsFiniteSet(Pending \cup {r})
      /\ Cardinality(Pending \cup {r}) \in {Cardinality(Pending), Cardinality(Pending) + 1}
  BY <1>1, FS_AddElement
<1>3. /\ IsFiniteSet(Pending \ {r})
      /\ Cardinality(Pending \ {r}) = IF r \in Pending THEN Cardinality(Pending) - 1
                                      ELSE Cardinality(Pending)
  BY <1>1, FS_RemoveElement
<1>4. IsFiniteSet(Pending') /\ nextId' + Cardinality(Pending') <= MaxId + 1
  <2>1. CASE nextId' = nextId /\ Pending' = Pending \cup {r} /\ nextId + Cardinality(Pending) <= MaxId
    BY <1>1, <1>2, <2>1, ResourceAssumption
  <2>2. CASE nextId' = nextId /\ Pending' = Pending \ {r}
    BY <1>1, <1>3, <2>2, ResourceAssumption
  <2>3. CASE nextId' = nextId + 1 /\ Pending' = Pending \ {r} /\ r \in Pending
    BY <1>1, <1>3, <2>3, ResourceAssumption
  <2>4. QED
    BY <2>1, <2>2, <2>3
<1>5. QED
  BY <1>4 DEF Room

\* A step that leaves the table alone and has nothing to store next.
LEMMA QuietKeeps ==
  ASSUME IInv, NEW r \in Requests, NEW call \in Call, Becomes(r, call, table), UNCHANGED nextId,
         Progress(call), Passed(call, options.hidden, nextId),
         Truthful(call, table, options.hidden, nextId), ~Pends(call)
  PROVE  IInv' /\ table' = table
<1>1. table \in [Ids -> Rows \cup {Null}] /\ nextId' \in nextId .. MaxId + 1
  BY ResourceAssumption DEF IInv, TypeOK
<1>2. Grows(table)
  BY DEF IInv, Unused, Grows
<1>3. TypeOK' /\ CallsInv' /\ Unused' /\ Hidden'
  BY <1>1, <1>2, StepKeeps
<1>4. Room'
  BY <1>1, PendingNext, RoomKept
<1>5. QED
  BY <1>3, <1>4 DEF IInv, Becomes

\* A request that is answered, not because it deleted a row, with what is true.
LEMMA AnswerKeeps ==
  ASSUME IInv, NEW r \in Requests, NEW call \in Call,
         NEW status \in Statuses, NEW row \in Rows \cup {Null},
         Becomes(r, Answer(call, status, row), table), UNCHANGED nextId,
         call.op \in {"show", "update"} /\ status = 200 => row \in call.seen,
         status = 404 => Null \in call.seen \/ call.id \in options.hidden,
         ~(call.op = "destroy" /\ status = 200)
  PROVE  IInv' /\ table' = table
<1> DEFINE c == Answer(call, status, row)
<1>1. /\ c \in Call /\ c.pc = "answered" /\ c.status = status /\ c.row = row
      /\ c.op = call.op /\ c.id = call.id /\ c.seen = call.seen
  BY AnswerIsCall
<1> HIDE DEF c
<1>2. Progress(c) /\ Passed(c, options.hidden, nextId) /\ ~Pends(c)
  BY <1>1 DEF Progress, Passed, Pends, Busy
<1>3. Truthful(c, table, options.hidden, nextId)
  BY <1>1 DEF Truthful
<1>4. QED
  BY <1>1, <1>2, <1>3, QuietKeeps DEF c

-----------------------------------------------------------------------------
(* The steps *)

\* A request for an operation, which only looks at the options.
LEMMA StartKeeps ==
  ASSUME IInv, NEW r \in Requests, Start(r)
  PROVE  IInv' /\ table' = table
<1>1. PICK op \in Ops, id \in Ids, signedIn \in BOOLEAN, data \in Bodies \cup PatchBodies \cup {Null} :
        /\ calls[r].pc = "idle" /\ options.routes[op] # "off"
        /\ data \in CASE op = "store" -> Bodies [] op = "update" -> PatchBodies [] OTHER -> {Null}
        /\ op \in {"index", "store"} => id = 1
        /\ ~Guarded(op) => signedIn
        /\ op = "store" => nextId + Cardinality({q \in Requests : calls[q].pc = "write" /\ calls[q].op = "store"}) <= MaxId
        /\ LET call == [IdleCall EXCEPT !.pc = IF op = "store" THEN "write" ELSE "check", !.op = op,
                                        !.id = IF op \in {"index", "store"} THEN Null ELSE id,
                                        !.data = data, !.signedIn = signedIn]
           IN Becomes(r, IF Guarded(op) /\ ~signedIn THEN Answer(call, 401, Null) ELSE call, table)
        /\ UNCHANGED nextId
  BY DEF Start
<1> DEFINE where == IF op = "store" THEN "write" ELSE "check"
           idOf  == IF op \in {"index", "store"} THEN Null ELSE id
           call  == NewCall(where, op, idOf, data, signedIn)
<1>2. op = "store" => nextId + Cardinality(Pending) <= MaxId
  BY <1>1 DEF Pending, Pends
<1>3. UNCHANGED nextId
  BY <1>1
<1>4. /\ call \in Call /\ call.pc = IF op = "store" THEN "write" ELSE "check"
      /\ call.op = op /\ call.data = data
      /\ call.id = IF op \in {"index", "store"} THEN Null ELSE id
  <2>1. data \in Rows \cup Patches \cup {Null}
    BY ResourceAssumption
  <2>2. where \in {"check", "write"} /\ idOf \in Ids \cup {Null}
    OBVIOUS
  <2>3. QED
    BY <2>1, <2>2, Started
<1>5. Becomes(r, IF Guarded(op) /\ ~signedIn THEN Answer(call, 401, Null) ELSE call, table)
  BY <1>1 DEF NewCall
<1> HIDE DEF call
<1>6. CASE Guarded(op) /\ ~signedIn
  BY <1>1, <1>4, <1>5, <1>6, AnswerKeeps DEF Statuses
<1>7. CASE ~(Guarded(op) /\ ~signedIn)
  <2>1. op = "store" => data \in Rows
    BY <1>1, ResourceAssumption
  <2>2. op = "update" => data \in Patches
    BY <1>1, ResourceAssumption
  <2>3. Progress(call)
    BY <1>4, <2>1, <2>2 DEF Progress, Busy, ById, Ops
  <2>4. Passed(call, options.hidden, nextId) /\ Truthful(call, table, options.hidden, nextId)
    BY <1>4 DEF Passed, Truthful, Busy, ById
  <2>5. CASE op = "store"
    <3>1. Pends(call)
      BY <1>4, <2>5 DEF Pends
    <3>2. table \in [Ids -> Rows \cup {Null}] /\ nextId' \in nextId .. MaxId + 1
      BY <1>1, ResourceAssumption DEF IInv, TypeOK
    <3>3. Becomes(r, call, table)
      BY <1>5, <1>7
    <3>4. Pending' = Pending \cup {r}
      BY <1>4, <3>1, <3>2, <3>3, PendingNext
    <3>5. Grows(table)
      BY <1>1 DEF IInv, Unused, Grows
    <3>6. TypeOK' /\ CallsInv' /\ Unused' /\ Hidden'
      BY <1>4, <2>3, <2>4, <3>2, <3>3, <3>5, StepKeeps
    <3>7. Room'
      BY <1>2, <1>3, <2>5, <3>4, RoomKept
    <3>8. QED
      BY <3>3, <3>6, <3>7 DEF IInv, Becomes
  <2>6. CASE op # "store"
    BY <1>1, <1>4, <1>5, <1>7, <2>3, <2>4, <2>6, QuietKeeps DEF Pends
  <2>7. QED
    BY <2>5, <2>6
<1>8. QED
  BY <1>6, <1>7

\* The list is the rows that are there.
LEMMA IndexKeeps ==
  ASSUME IInv, NEW r \in Requests, Index(r)
  PROVE  IInv' /\ table' = table
<1>1. calls[r] \in Call
  BY DEF IInv, TypeOK
<1>2. QED
  BY <1>1, AnswerKeeps DEF Index, Statuses

\* What show() has found is in the history of the row; what it hides is not
\* passed on.
LEMMA CheckKeeps ==
  ASSUME IInv, NEW r \in Requests, Check(r)
  PROVE  IInv' /\ table' = table
<1> DEFINE call == calls[r]
           row  == Visible(calls[r].id)
           next == [call EXCEPT !.pc = "load"]
<1>1. call.pc = "check" /\ call.op # "index" /\ UNCHANGED nextId
      /\ Becomes(r, CASE row = Null /\ Checks(call.op)  -> Answer(call, 404, Null)
                      [] row # Null /\ call.op = "show" -> Answer(call, 200, row)
                      [] OTHER                          -> next, table)
  BY DEF Check
<1>2. call \in Call /\ Sound(call, table, options.hidden, nextId)
  BY DEF IInv, TypeOK, CallsInv
<1>3. call.op \in ById /\ call.id \in Ids /\ call.id # Null /\ Checks(call.op)
  BY <1>1, <1>2, ResourceAssumption DEF Sound, Progress, Busy, ById, Checks
<1>4. table[call.id] \in call.seen /\ table[call.id] \in Rows \cup {Null}
  BY <1>1, <1>2, <1>3 DEF Sound, Seeing, Busy, IInv, TypeOK
<1>5. row = IF call.id \in options.hidden THEN Null ELSE table[call.id]
  BY DEF Visible
<1>6. /\ next \in Call /\ next.pc = "load" /\ next.op = call.op /\ next.id = call.id
      /\ next.data = call.data
  BY <1>2 DEF Call
<1> HIDE DEF call, row, next
<1>7. CASE row = Null
  <2>1. Becomes(r, Answer(call, 404, Null), table)
    BY <1>1, <1>3, <1>7
  <2>2. Null \in call.seen \/ call.id \in options.hidden
    BY <1>4, <1>5, <1>7
  <2>3. QED
    BY <1>1, <1>2, <2>1, <2>2, AnswerKeeps DEF Statuses
<1>8. CASE row # Null /\ call.op = "show"
  <2>1. Becomes(r, Answer(call, 200, row), table)
    BY <1>1, <1>8
  <2>2. row \in call.seen /\ row \in Rows \cup {Null}
    BY <1>4, <1>5, <1>8
  <2>3. QED
    BY <1>1, <1>2, <1>8, <2>1, <2>2, AnswerKeeps DEF Statuses
<1>9. CASE row # Null /\ call.op # "show"
  <2>1. Becomes(r, next, table)
    BY <1>1, <1>9
  <2>2. Progress(next)
    BY <1>1, <1>2, <1>3, <1>6, <1>9 DEF Sound, Progress, Busy, ById
  <2>3. Passed(next, options.hidden, nextId) /\ Truthful(next, table, options.hidden, nextId)
    BY <1>5, <1>6, <1>9 DEF Passed, Truthful
  <2>4. QED
    BY <1>1, <1>6, <2>1, <2>2, <2>3, QuietKeeps DEF Pends
<1>10. QED
  BY <1>7, <1>8, <1>9

\* A row is read before it is answered, changed or removed.
LEMMA LoadKeeps ==
  ASSUME IInv, NEW r \in Requests, Load(r)
  PROVE  IInv' /\ table' = table
<1> DEFINE call == calls[r]
           row  == table[call.id]
           c1   == [call EXCEPT !.pc = "write"]
           c2   == [c1 EXCEPT !.current = row]
<1>1. call.pc = "load" /\ UNCHANGED nextId
      /\ Becomes(r, IF row = Null THEN Answer(call, 500, Null) ELSE c2, table)
  BY DEF Load
<1>2. call \in Call /\ Sound(call, table, options.hidden, nextId)
  BY DEF IInv, TypeOK, CallsInv
<1>3. call.op \in {"update", "destroy"} /\ call.id \in Ids /\ call.id \notin options.hidden
  BY <1>1, <1>2 DEF Sound, Progress, Passed, Busy, ById
<1>4. row \in Rows \cup {Null} /\ (row # Null => call.id < nextId)
  BY <1>3 DEF IInv, TypeOK, Unused
<1>5. /\ c1 \in Call /\ c1.pc = "write"
      /\ c1.op = call.op /\ c1.id = call.id /\ c1.data = call.data
  BY <1>2 DEF Call
<1> HIDE DEF c1, row
<1>6. /\ c2 \in Call /\ c2.pc = c1.pc
      /\ c2.op = c1.op /\ c2.id = c1.id /\ c2.data = c1.data
  BY <1>4, <1>5 DEF Call
<1> HIDE DEF call, c2
<1>7. CASE row = Null
  BY <1>1, <1>2, <1>7, AnswerKeeps DEF Statuses
<1>8. CASE row # Null
  <2>1. Progress(c2)
    BY <1>1, <1>2, <1>3, <1>5, <1>6 DEF Sound, Progress, Busy, ById
  <2>2. Passed(c2, options.hidden, nextId) /\ Truthful(c2, table, options.hidden, nextId)
    BY <1>3, <1>4, <1>5, <1>6, <1>8 DEF Passed, Truthful
  <2>3. Becomes(r, c2, table) /\ ~Pends(c2)
    BY <1>1, <1>3, <1>5, <1>6, <1>8 DEF Pends
  <2>4. QED
    BY <1>1, <1>6, <2>1, <2>2, <2>3, QuietKeeps
<1>9. QED
  BY <1>7, <1>8

\* What update() answers is in the history of the row.
LEMMA FinishKeeps ==
  ASSUME IInv, NEW r \in Requests, Finish(r)
  PROVE  IInv' /\ table' = table
<1> DEFINE call == calls[r]
           row  == Reread(call)
<1>1. call.pc = "reread" /\ UNCHANGED nextId
      /\ Becomes(r, Answer(call, IF row = Null THEN 404 ELSE 200, row), table)
  BY DEF Finish
<1>2. call \in Call /\ Sound(call, table, options.hidden, nextId)
  BY DEF IInv, TypeOK, CallsInv
<1>3. call.op = "update" /\ call.id \in Ids /\ call.id # Null
  BY <1>1, <1>2, ResourceAssumption DEF Sound, Progress, Busy, ById
<1>4. table[call.id] \in call.seen /\ table[call.id] \in Rows \cup {Null}
  BY <1>1, <1>2, <1>3 DEF Sound, Seeing, Busy, IInv, TypeOK
<1>5. row = IF call.id \in options.hidden THEN Null ELSE table[call.id]
  BY DEF Reread, Visible
<1> HIDE DEF call, row
<1>6. row \in Rows \cup {Null}
  BY <1>4, <1>5
<1>7. CASE row = Null
  BY <1>1, <1>2, <1>3, <1>4, <1>5, <1>6, <1>7, AnswerKeeps DEF Statuses
<1>8. CASE row # Null
  BY <1>1, <1>2, <1>3, <1>4, <1>5, <1>6, <1>8, AnswerKeeps DEF Statuses
<1>9. QED
  BY <1>7, <1>8

-----------------------------------------------------------------------------
(* The steps that write *)

\* What a step may do to the rows: the three properties of RowsChangeAsAsked.
RowsKept ==
  /\ \A id \in 1 .. nextId - 1 : table[id] = Null => table'[id] = Null
  /\ \A id \in options.hidden : table[id] # Null => table'[id] = table[id]
  /\ \A id \in Ids, f \in Fields :
       table[id] # Null /\ table'[id] # Null /\ table[id][f] # table'[id][f] =>
         \E r \in Requests : /\ calls[r].pc = "write" /\ calls[r].op = "update" /\ calls[r].id = id
                             /\ f \in DOMAIN calls[r].data /\ calls[r].data[f] = table'[id][f]

\* An id is left for the row that is stored, and no row has it yet.
LEMMA StoreKeeps ==
  ASSUME IInv, NEW r \in Requests, Store(r)
  PROVE  IInv' /\ RowsKept
<1> DEFINE call == calls[r]
<1>1. call.pc = "write" /\ call.op = "store"
  BY DEF Store
<1>2. call \in Call /\ call.data \in Rows
  BY <1>1 DEF IInv, TypeOK, CallsInv, Sound, Progress, Busy
<1>3. r \in Pending
  BY <1>1 DEF Pending, Pends
<1>4. nextId \in Ids /\ nextId \in Nat
  <2>1. IsFiniteSet(Pending) /\ nextId + Cardinality(Pending) <= MaxId + 1
    BY DEF IInv, Room
  <2>2. Cardinality(Pending) \in Nat /\ Cardinality(Pending) # 0
    BY <1>3, <2>1, FS_CardinalityType, FS_EmptySet
  <2>3. QED
    BY <2>1, <2>2, ResourceAssumption DEF IInv, TypeOK, Ids
<1>5. table[nextId] = Null
  BY <1>4 DEF IInv, Unused
<1>6. CASE Becomes(r, Answer(call, 500, Null), table) /\ UNCHANGED nextId
  <2>1. IInv' /\ table' = table
    BY <1>1, <1>2, <1>6, AnswerKeeps DEF Statuses
  <2>2. QED
    BY <2>1 DEF RowsKept
<1>7. CASE /\ Becomes(r, Answer(call, 201, call.data), [table EXCEPT ![nextId] = call.data])
           /\ nextId' = nextId + 1
  <2> DEFINE c == Answer(call, 201, call.data)
             newTable == [table EXCEPT ![nextId] = call.data]
  <2>1. c \in Call /\ c.pc = "answered" /\ c.status = 201 /\ c.op = "store"
    <3>1. 201 \in Statuses /\ call.data \in Rows \cup {Null}
      BY <1>2 DEF Statuses
    <3> HIDE DEF call
    <3>2. QED
      BY <1>1, <1>2, <3>1, AnswerIsCall
  <2>2. /\ newTable \in [Ids -> Rows \cup {Null}]
        /\ \A id \in Ids : newTable[id] = IF id = nextId THEN call.data ELSE table[id]
    BY <1>2 DEF IInv, TypeOK
  <2>3. table' = newTable /\ Becomes(r, c, newTable)
    BY <1>7 DEF Becomes
  <2> HIDE DEF c, newTable
  <2>4. Progress(c) /\ Passed(c, options.hidden, nextId) /\ ~Pends(c)
        /\ Truthful(c, newTable, options.hidden, nextId)
    BY <2>1 DEF Progress, Passed, Pends, Truthful, Busy
  <2>5. Grows(newTable)
    BY <1>4, <1>7, <2>2 DEF IInv, Unused, Grows, Ids
  <2>6. nextId' \in nextId .. MaxId + 1
    BY <1>4, <1>7, ResourceAssumption DEF Ids
  <2>7. TypeOK' /\ CallsInv' /\ Unused' /\ Hidden'
    BY <2>1, <2>2, <2>3, <2>4, <2>5, <2>6, StepKeeps
  <2>8. Room'
    BY <1>3, <1>7, <2>1, <2>2, <2>3, <2>4, PendingNext, RoomKept
  <2>9. RowsKept
    <3>1. \A id \in 1 .. nextId - 1 : id \in Ids /\ id # nextId
      BY <1>4, ResourceAssumption DEF Ids
    <3>2. \A id \in Ids : table[id] # Null => table'[id] = table[id]
      BY <1>5, <2>2, <2>3
    <3>3. options.hidden \subseteq Ids
      BY DEF IInv, Hidden
    <3>4. QED
      BY <2>2, <2>3, <3>1, <3>2, <3>3 DEF RowsKept
  <2>10. QED
    BY <2>7, <2>8, <2>9 DEF IInv
<1>8. QED
  BY <1>1, <1>6, <1>7 DEF Store

\* The columns of the patch are set, in a row that may be seen and is there.
LEMMA WriteKeeps ==
  ASSUME IInv, NEW r \in Requests, Write(r)
  PROVE  IInv' /\ RowsKept
<1> DEFINE call == calls[r]
           next == [call EXCEPT !.pc = "reread"]
           row  == Written(call)
<1>1. call.pc = "write" /\ call.op = "update" /\ UNCHANGED nextId
  BY DEF Write
<1>2. call \in Call /\ Sound(call, table, options.hidden, nextId)
  BY DEF IInv, TypeOK, CallsInv
<1>3. call.id \in Ids /\ call.id \notin options.hidden /\ call.data \in Patches
  BY <1>1, <1>2 DEF Sound, Progress, Passed, Busy, ById
<1>4. /\ next \in Call /\ next.pc = "reread" /\ next.op = call.op /\ next.id = call.id
      /\ next.data = call.data
  BY <1>2 DEF Call
<1>5. Progress(next) /\ Passed(next, options.hidden, nextId) /\ ~Pends(next)
      /\ \A rows : Truthful(next, rows, options.hidden, nextId)
  BY <1>1, <1>3, <1>4 DEF Progress, Passed, Pends, Truthful, Busy, ById
<1>6. \/ Becomes(r, Answer(call, 500, Null), table)
      \/ Becomes(r, next, table)
      \/ table[call.id] # Null /\ Becomes(r, next, [table EXCEPT ![call.id] = row])
  BY DEF Write
<1>7. CASE Becomes(r, Answer(call, 500, Null), table)
  <2>1. IInv' /\ table' = table
    BY <1>1, <1>2, <1>7, AnswerKeeps DEF Statuses
  <2>2. QED
    BY <2>1 DEF RowsKept
<1>8. CASE Becomes(r, next, table)
  <2>1. IInv' /\ table' = table
    BY <1>1, <1>4, <1>5, <1>8, QuietKeeps
  <2>2. QED
    BY <2>1 DEF RowsKept
<1>9. CASE table[call.id] # Null /\ Becomes(r, next, [table EXCEPT ![call.id] = row])
  <2> DEFINE newTable == [table EXCEPT ![call.id] = row]
  <2>1. table[call.id] \in Rows
    BY <1>3, <1>9 DEF IInv, TypeOK
  <2>2. /\ row \in Rows
        /\ \A f \in Fields : row[f] = IF f \in DOMAIN call.data THEN call.data[f] ELSE table[call.id][f]
    BY <1>3, <2>1, Merged DEF Written
  <2> HIDE DEF row
  <2>3. /\ newTable \in [Ids -> Rows \cup {Null}]
        /\ \A id \in Ids : newTable[id] = IF id = call.id THEN row ELSE table[id]
    BY <2>2 DEF IInv, TypeOK
  <2>4. table' = newTable /\ Becomes(r, next, newTable)
    BY <1>9 DEF Becomes
  <2> HIDE DEF next, newTable
  <2>5. Grows(newTable)
    BY <1>1, <1>9, <2>3 DEF IInv, Unused, Grows
  <2>6. nextId' \in nextId .. MaxId + 1
    BY <1>1, ResourceAssumption DEF IInv, TypeOK
  <2>7. TypeOK' /\ CallsInv' /\ Unused' /\ Hidden'
    BY <1>4, <1>5, <2>3, <2>4, <2>5, <2>6, StepKeeps
  <2>8. Room'
    BY <1>1, <1>4, <1>5, <2>3, <2>4, PendingNext, RoomKept
  <2>9. RowsKept
    <3>1. \A id \in 1 .. nextId - 1 : id \in Ids
      BY ResourceAssumption DEF IInv, TypeOK, Ids
    <3>2. \A id \in 1 .. nextId - 1 : table[id] = Null => table'[id] = Null
      BY <1>9, <2>3, <2>4, <3>1
    <3>3. \A id \in options.hidden : table[id] # Null => table'[id] = table[id]
      BY <1>3, <2>3, <2>4 DEF IInv, Hidden
    <3>4. ASSUME NEW id \in Ids, NEW f \in Fields, table[id][f] # table'[id][f]
          PROVE  call.id = id /\ f \in DOMAIN call.data /\ call.data[f] = table'[id][f]
      BY <2>2, <2>3, <2>4, <3>4
    <3>5. QED
      BY <1>1, <3>2, <3>3, <3>4 DEF RowsKept
  <2>10. QED
    BY <2>7, <2>8, <2>9 DEF IInv
<1>10. QED
  BY <1>6, <1>7, <1>8, <1>9

\* The row is deleted, if it is still there, and its id given out before.
LEMMA DestroyKeeps ==
  ASSUME IInv, NEW r \in Requests, Destroy(r)
  PROVE  IInv' /\ RowsKept
<1> DEFINE call == calls[r]
           c    == Answer(call, 200, Null)
           newTable == [table EXCEPT ![call.id] = Null]
<1>1. call.pc = "write" /\ call.op = "destroy" /\ UNCHANGED nextId /\ Becomes(r, c, newTable)
  BY DEF Destroy
<1>2. call \in Call /\ Sound(call, table, options.hidden, nextId)
  BY DEF IInv, TypeOK, CallsInv
<1>3. call.id \in Ids /\ call.id \notin options.hidden /\ call.id < nextId
  BY <1>1, <1>2 DEF Sound, Progress, Passed, Busy, ById
<1>4. /\ c \in Call /\ c.pc = "answered" /\ c.status = 200
      /\ c.op = "destroy" /\ c.id = call.id
  BY <1>1, <1>2, AnswerIsCall DEF Statuses
<1>5. /\ newTable \in [Ids -> Rows \cup {Null}]
      /\ \A id \in Ids : newTable[id] = IF id = call.id THEN Null ELSE table[id]
  BY DEF IInv, TypeOK
<1>6. table' = newTable
  BY <1>1 DEF Becomes
<1> HIDE DEF c, newTable
<1>7. Progress(c) /\ Passed(c, options.hidden, nextId) /\ ~Pends(c)
      /\ Truthful(c, newTable, options.hidden, nextId)
  BY <1>3, <1>4, <1>5 DEF Progress, Passed, Pends, Truthful, Busy
<1>8. Grows(newTable)
  BY <1>1, <1>5 DEF IInv, Unused, Grows
<1>9. nextId' \in nextId .. MaxId + 1
  BY <1>1, ResourceAssumption DEF IInv, TypeOK
<1>10. TypeOK' /\ CallsInv' /\ Unused' /\ Hidden'
  BY <1>1, <1>4, <1>5, <1>7, <1>8, <1>9, StepKeeps
<1>11. Room'
  BY <1>1, <1>4, <1>5, <1>7, PendingNext, RoomKept
<1>12. RowsKept
  <2>1. \A id \in 1 .. nextId - 1 : id \in Ids
    BY ResourceAssumption DEF IInv, TypeOK, Ids
  <2>2. options.hidden \subseteq Ids
    BY DEF IInv, Hidden
  <2>3. QED
    BY <1>3, <1>5, <1>6, <2>1, <2>2 DEF RowsKept
<1>13. QED
  BY <1>10, <1>11, <1>12 DEF IInv

-----------------------------------------------------------------------------
(* The theorems *)

\* The stored rows are the first ones, and no call is under way.
LEMMA InitKeeps == Init => IInv
<1> SUFFICES ASSUME Init PROVE IInv
  OBVIOUS
<1>1. PICK rows \in Stored :
        /\ table = [id \in Ids |-> IF id \in DOMAIN rows THEN rows[id] ELSE Null]
        /\ nextId = Len(rows) + 1
  BY DEF Init
<1>2. \A r \in Requests : calls[r] = IdleCall
  BY DEF Init
<1>3. IdleCall \in Call
  BY DEF IdleCall, Call
<1>4. DOMAIN rows = 1 .. Len(rows) /\ Len(rows) \in Nat /\ Len(rows) <= MaxId
      /\ \A i \in 1 .. Len(rows) : rows[i] \in Rows
  <2>1. rows \in Seq(Rows) /\ Len(rows) <= MaxId
    BY ResourceAssumption
  <2>2. QED
    BY <2>1
<1>5. table \in [Ids -> Rows \cup {Null}] /\ nextId \in 1 .. MaxId + 1 /\ Unused
  BY <1>1, <1>4, ResourceAssumption DEF Ids, Unused
<1>6. TypeOK
  BY <1>3, <1>5 DEF Init, TypeOK
<1>7. CallsInv
  <2>1. Sound(IdleCall, table, options.hidden, nextId)
    BY DEF IdleCall, Sound, Progress, Passed, Truthful, Seeing, Busy
  <2>2. QED
    BY <1>2, <2>1 DEF CallsInv
<1>8. Room
  <2>1. Pending = {}
    BY <1>2 DEF Pending, Pends, IdleCall
  <2>2. QED
    BY <1>5, <2>1, FS_EmptySet, ResourceAssumption DEF Room
<1>9. Hidden
  BY ResourceAssumption DEF Init, Hidden
<1>10. QED
  BY <1>5, <1>6, <1>7, <1>8, <1>9 DEF IInv

\* Every step keeps the invariant, and rows change as asked.
LEMMA NextKeeps ==
  ASSUME IInv, [Next]_vars
  PROVE  IInv' /\ (RowsKept \/ UNCHANGED vars)
<1>1. ASSUME UNCHANGED vars PROVE IInv'
  BY <1>1 DEF vars, IInv, TypeOK, CallsInv, Unused, Room, Hidden, Pending, Sound
<1>2. table' = table => RowsKept
  BY DEF RowsKept
<1>3. ASSUME NEW r \in Requests, Start(r) \/ Step(r) PROVE IInv' /\ RowsKept
  <2>1. CASE Start(r)
    BY <1>2, <2>1, StartKeeps
  <2>2. CASE Index(r)
    BY <1>2, <2>2, IndexKeeps
  <2>3. CASE Check(r)
    BY <1>2, <2>3, CheckKeeps
  <2>4. CASE Load(r)
    BY <1>2, <2>4, LoadKeeps
  <2>5. CASE Store(r)
    BY <2>5, StoreKeeps
  <2>6. CASE Write(r)
    BY <2>6, WriteKeeps
  <2>7. CASE Finish(r)
    BY <1>2, <2>7, FinishKeeps
  <2>8. CASE Destroy(r)
    BY <2>8, DestroyKeeps
  <2>9. QED
    BY <1>3, <2>1, <2>2, <2>3, <2>4, <2>5, <2>6, <2>7, <2>8 DEF Step
<1>4. QED
  BY <1>1, <1>3 DEF Next, Done

\* Whatever statements of other requests fall between those of a request: the
\* row it answers is one its id really had meanwhile, it says "not found" only
\* if there was none or it is hidden, and what it deleted is gone.
THEOREM AnswersAreSound == Spec => []AnswersFitTheTable
<1>1. Init => IInv
  BY InitKeeps
<1>2. IInv /\ [Next]_vars => IInv'
  BY NextKeeps
<1>3. IInv => AnswersFitTheTable
  BY DEF IInv, CallsInv, Sound, Truthful, AnswersFitTheTable, AnswersAreTrue, DestroyedIsGone, Answered
<1>4. QED
  BY <1>1, <1>2, <1>3, PTL DEF Spec

\* A row that is gone does not come back, what an override of show() hides is
\* not written, and a field changes only under an update that asks for it, so
\* that overlapping updates of different fields both last.
THEOREM RowsAreKept == Spec => RowsChangeAsAsked
<1>1. Init => IInv
  BY InitKeeps
<1>2. IInv /\ [Next]_vars => IInv' /\ (RowsKept \/ UNCHANGED vars)
  BY NextKeeps
<1>3. RowsKept \/ UNCHANGED vars =>
        /\ [\A id \in 1 .. nextId - 1 : table[id] = Null => table'[id] = Null]_vars
        /\ [\A id \in options.hidden : table[id] # Null => table'[id] = table[id]]_vars
        /\ [\A id \in Ids, f \in Fields :
              table[id] # Null /\ table'[id] # Null /\ table[id][f] # table'[id][f] =>
                \E r \in Requests : /\ calls[r].pc = "write" /\ calls[r].op = "update" /\ calls[r].id = id
                                    /\ f \in DOMAIN calls[r].data /\ calls[r].data[f] = table'[id][f]]_vars
  BY DEF RowsKept
<1>4. QED
  BY <1>1, <1>2, <1>3, PTL DEF Spec, RowsChangeAsAsked, GoneForGood, HiddenIsUntouched, OnlyPatchedFieldsChange
=============================================================================
