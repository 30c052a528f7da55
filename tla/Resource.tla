------------------------------ MODULE Resource ------------------------------
(***************************************************************************)
(* defineResource (resource/index.ts): the five routes of a table, served  *)
(* to concurrent requests.  Each await of a handler's database work is a   *)
(* step: the statements of one request may fall between those of others.   *)
(*                                                                         *)
(* A row has two fields, name (unique) and note; a patch is a function on  *)
(* some of them.  Ids are integers of an AUTOINCREMENT column.             *)
(***************************************************************************)
EXTENDS Integers, Sequences, FiniteSets

CONSTANTS Requests, Names, Notes,
          MaxId,        \* bound on the ids given out
          Options,      \* the ways the resource is configured
          Stored,       \* rows there are at first, as sequences
          Bodies, PatchBodies,   \* what store and update are asked to write
          Null

Ops    == {"index", "show", "store", "update", "destroy"}
Ids    == 1 .. MaxId
Rows   == [name : Names, note : Notes]
Fields == {"name", "note"}
Part(row, F) == [f \in F |-> row[f]]
Patches == {Part(row, F) : row \in Rows, F \in SUBSET Fields}

ASSUME ResourceAssumption ==
  /\ MaxId \in Nat /\ Null \notin Ids /\ \A o \in Options : o.hidden \subseteq Ids
  /\ Bodies \subseteq Rows /\ PatchBodies \subseteq Patches
  /\ Stored \subseteq Seq(Rows) /\ \A rows \in Stored : Len(rows) <= MaxId

VARIABLES
  options,   \* routes: op -> "off", "plain", "guarded"; guard: guard() was called
             \* on the builder; hidden: ids an override of the model's show hides
  table,     \* id -> row or Null
  nextId,    \* the AUTOINCREMENT sequence
  calls      \* request -> what it does and how far it is

vars == <<options, table, nextId, calls>>

Call == [pc : {"idle", "check", "load", "write", "reread", "answered"}, op : Ops \cup {Null},
         id : Ids \cup {Null}, data : Rows \cup Patches \cup {Null}, signedIn : BOOLEAN,
         current : Rows \cup {Null}, status : {Null, 200, 201, 401, 404, 500},
         row : Rows \cup {Null},
         seen : SUBSET (Rows \cup {Null})]   \* history: the states of row id since the start

IdleCall == [pc |-> "idle", op |-> Null, id |-> Null, data |-> Null, signedIn |-> FALSE,
             current |-> Null, status |-> Null, row |-> Null, seen |-> {}]

TypeOK ==
  /\ options \in Options /\ table \in [Ids -> Rows \cup {Null}] /\ nextId \in 1 .. MaxId + 1
  /\ calls \in [Requests -> Call]

Init ==
  /\ options \in Options
  /\ \E rows \in Stored :
       /\ table = [id \in Ids |-> IF id \in DOMAIN rows THEN rows[id] ELSE Null]
       /\ nextId = Len(rows) + 1
  /\ calls = [r \in Requests |-> IdleCall]

-----------------------------------------------------------------------------
(* build() and the routes *)

\* A guard of any route that is there becomes one of the module.
Guarded(op) ==
  \/ options.guard
  \/ \E other \in Ops : options.routes[other] = "guarded"

-----------------------------------------------------------------------------
(* The steps of a request *)

\* Every request remembers what its row has been.
Witness(newTable, newCalls) ==
  [r \in Requests |->
     IF newCalls[r].pc \in {"idle", "answered"} \/ newCalls[r].id = Null THEN newCalls[r]
     ELSE [newCalls[r] EXCEPT !.seen = @ \cup {newTable[newCalls[r].id]}]]

\* The request's own record becomes call, the table newTable.
Becomes(r, call, newTable) ==
  /\ table' = newTable
  /\ calls' = Witness(newTable, [calls EXCEPT ![r] = call])
  /\ UNCHANGED options

Answer(call, status, row) ==
  [call EXCEPT !.pc = "answered", !.status = status, !.row = row, !.data = Null, !.current = Null]

Taken(name, except) == \E id \in Ids \ {except} : table[id] # Null /\ table[id].name = name

\* The route is matched, its guard checked and the handler called.
Start(r) ==
  \E op \in Ops, id \in Ids, signedIn \in BOOLEAN, data \in Bodies \cup PatchBodies \cup {Null} :
    /\ calls[r].pc = "idle" /\ options.routes[op] # "off"
    /\ data \in CASE op = "store" -> Bodies [] op = "update" -> PatchBodies [] OTHER -> {Null}
    /\ op \in {"index", "store"} => id = 1
    /\ ~Guarded(op) => signedIn    \* nobody looks
    /\ op = "store" => nextId + Cardinality({q \in Requests : calls[q].pc = "write" /\ calls[q].op = "store"}) <= MaxId
    /\ LET call == [IdleCall EXCEPT !.pc = IF op = "store" THEN "write" ELSE "check", !.op = op,
                                    !.id = IF op \in {"index", "store"} THEN Null ELSE id,
                                    !.data = data, !.signedIn = signedIn]
       IN Becomes(r, IF Guarded(op) /\ ~signedIn THEN Answer(call, 401, Null) ELSE call, table)
    /\ UNCHANGED nextId

\* index(): the answer is not kept.
Index(r) ==
  /\ calls[r].pc = "check" /\ calls[r].op = "index"
  /\ Becomes(r, Answer(calls[r], 200, Null), table)
  /\ UNCHANGED nextId

\* What show(id) finds.
Visible(id) == IF id \in options.hidden THEN Null ELSE table[id]

\* update() and destroy() begin with show() too.
Checks(op) == op \in {"show", "update", "destroy"}

\* show(id): NotFoundError without a row.
Check(r) ==
  /\ calls[r].pc = "check" /\ calls[r].op # "index"
  /\ LET row == Visible(calls[r].id)
     IN Becomes(r,
          CASE row = Null /\ Checks(calls[r].op)           -> Answer(calls[r], 404, Null)
            [] row # Null /\ calls[r].op = "show"          -> Answer(calls[r], 200, row)
            [] OTHER                                       -> [calls[r] EXCEPT !.pc = "load"],
          table)
  /\ UNCHANGED nextId

\* The builder's update() and delete() load the row they are about to write;
\* without one they throw an Error.
Load(r) ==
  /\ calls[r].pc = "load"
  /\ LET row == table[calls[r].id]
     IN Becomes(r,
          IF row = Null THEN Answer(calls[r], 500, Null)
          ELSE [calls[r] EXCEPT !.pc = "write", !.current = row],
          table)
  /\ UNCHANGED nextId

\* insert(), with an id that AUTOINCREMENT never gives twice; a name that is
\* taken is an Error of the driver.
Store(r) ==
  /\ calls[r].pc = "write" /\ calls[r].op = "store"
  /\ IF Taken(calls[r].data.name, Null)
     THEN Becomes(r, Answer(calls[r], 500, Null), table) /\ UNCHANGED nextId
     ELSE /\ Becomes(r, Answer(calls[r], 201, calls[r].data), [table EXCEPT ![nextId] = calls[r].data])
          /\ nextId' = nextId + 1

\* The row with the columns of the patch.
Merge(row, patch) == [f \in Fields |-> IF f \in DOMAIN patch THEN patch[f] ELSE row[f]]

\* Mutant of Written: the row that was loaded is written back with the patch.
WrittenWhole(call) == Merge(call.current, call.data)

\* UPDATE sets the columns of the patch only.
Written(call) == Merge(table[call.id], call.data)

\* UPDATE ... WHERE id: SQL without a column to set is an error, as is a name
\* that is taken; that no row was updated goes unnoticed.
Write(r) ==
  /\ calls[r].pc = "write" /\ calls[r].op = "update"
  /\ LET call == calls[r]
     IN CASE DOMAIN call.data = {} -> Becomes(r, Answer(call, 500, Null), table)
          [] DOMAIN call.data # {} /\ table[call.id] = Null ->
               Becomes(r, [call EXCEPT !.pc = "reread"], table)
          [] OTHER ->
               IF Taken(Written(call).name, call.id) THEN Becomes(r, Answer(call, 500, Null), table)
               ELSE Becomes(r, [call EXCEPT !.pc = "reread"], [table EXCEPT ![call.id] = Written(call)])
  /\ UNCHANGED nextId

\* Mutant of Reread: the answer is the row that was loaded, patched.
RereadMerged(call) == Merge(call.current, call.data)

\* update() answers what show() finds afterwards.
Reread(call) == Visible(call.id)

Finish(r) ==
  /\ calls[r].pc = "reread"
  /\ LET row == Reread(calls[r])
     IN Becomes(r, Answer(calls[r], IF row = Null THEN 404 ELSE 200, row), table)
  /\ UNCHANGED nextId

\* DELETE ... WHERE id; that no row was deleted goes unnoticed.
Destroy(r) ==
  /\ calls[r].pc = "write" /\ calls[r].op = "destroy"
  /\ Becomes(r, Answer(calls[r], 200, Null), [table EXCEPT ![calls[r].id] = Null])
  /\ UNCHANGED nextId

Step(r) == Index(r) \/ Check(r) \/ Load(r) \/ Store(r) \/ Write(r) \/ Finish(r) \/ Destroy(r)

\* All is answered; requests end.
Done == (\A r \in Requests : calls[r].pc = "answered") /\ UNCHANGED vars

Next == (\E r \in Requests : Start(r) \/ Step(r)) \/ Done

Spec == Init /\ [][Next]_vars

-----------------------------------------------------------------------------
(* Properties *)

Answered(r) == calls[r].pc = "answered"

\* A row in an answer is one the id really had while the request ran, and
\* "not found" is said only if there was none or it is hidden.
AnswersAreTrue ==
  \A r \in Requests :
    Answered(r) =>
      LET call == calls[r]
      IN /\ call.op \in {"show", "update"} /\ call.status = 200 => call.row \in call.seen
         /\ call.status = 404 => Null \in call.seen \/ call.id \in options.hidden

\* A row that is gone does not come back, and its id names no other row, so
\* no late update or deletion falls on one that was never meant.
GoneForGood == [][\A id \in 1 .. nextId - 1 : table[id] = Null => table'[id] = Null]_vars

\* After a deletion is answered the row is gone.
DestroyedIsGone ==
  \A r \in Requests :
    Answered(r) /\ calls[r].op = "destroy" /\ calls[r].status = 200 => table[calls[r].id] = Null

\* What an override of show hides, no update or deletion touches.
HiddenIsUntouched ==
  [][\A id \in options.hidden : table[id] # Null => table'[id] = table[id]]_vars

\* A field of a row changes only under an update whose patch sets it to that:
\* overlapping updates of different fields both last.
OnlyPatchedFieldsChange ==
  [][\A id \in Ids, f \in Fields :
       table[id] # Null /\ table'[id] # Null /\ table[id][f] # table'[id][f] =>
         \E r \in Requests : /\ calls[r].pc = "write" /\ calls[r].op = "update" /\ calls[r].id = id
                             /\ f \in DOMAIN calls[r].data /\ calls[r].data[f] = table'[id][f]]_vars

\* Types, and answers that fit what the table was and is.
AnswersFitTheTable == TypeOK /\ AnswersAreTrue /\ DestroyedIsGone

\* A row goes for good, and changes only as a patch that may see it asks.
RowsChangeAsAsked == GoneForGood /\ HiddenIsUntouched /\ OnlyPatchedFieldsChange

\* Claimed (docs/core/03-define-resource.md:44): a route configured with
\* guard false is public, whatever the others are.
PublicRoutesArePublic ==
  \A r \in Requests :
    Answered(r) /\ calls[r].status = 401 =>
      options.guard \/ options.routes[calls[r].op] = "guarded"

\* Claimed (docs/core/03-define-resource.md:100): a row that is not there
\* when it is to be changed is answered with NotFoundError.
AbsentIsNotFound ==
  \A r \in Requests :
    Answered(r) /\ calls[r].op = "destroy" => calls[r].status # 500

=============================================================================
