----------------------------- MODULE Migrator -----------------------------
(***************************************************************************)
(* The migration runner of packages/core/src/db/migrations (runner.ts,     *)
(* tracker.ts) and the oak commands migrate:run and migrate:rollback, used *)
(* by several deployments on one database.                                 *)
(*                                                                         *)
(* Migration files are numbers, in the alphabetical order of their names.  *)
(* Nothing is transactional: every statement, the insertion into the       *)
(* tracking table and every hook is an await of its own, and a deployment  *)
(* can be killed at each of them.                                          *)
(***************************************************************************)
EXTENDS Naturals, Sequences

CONSTANTS
  Deployments,  \* processes that run the commands
  NumFiles,     \* files that can exist: 1 .. NumFiles
  OnDisk,       \* files that exist from the start, the others are written later
  Statements,   \* of each file, the sections its statements stand in: "up" or "down"
  Guarded,      \* files whose statements fail when repeated (CREATE TABLE without IF NOT EXISTS)
  MaxRuns,      \* bound: migrate:run commands
  MaxFaults,    \* bound: failing awaits and killed processes
  MaxRollbacks  \* bound: migrate:rollback commands

Files == 1 .. NumFiles

ASSUME MigratorAssumption ==
  /\ NumFiles \in Nat /\ OnDisk \subseteq Files /\ Guarded \subseteq Files
  /\ Statements \in [Files -> Seq({"up", "down"})]
  /\ MaxRuns \in Nat /\ MaxFaults \in Nat /\ MaxRollbacks \in Nat

VARIABLES
  dir,       \* the files in migrationsDir
  table,     \* the tracking table: of each name the id of its row, NoRow without one
  nextId,    \* the id of the next row
  effects,   \* of each statement, how often the database executed it
  pc,        \* where a deployment's command stands
  listed,    \* the files it read
  queue,     \* of these, the ones pending when it read the table and not done since
  current,   \* the first of these, which is being migrated
  at,        \* its next statement
  result,    \* the last of the results: those before it are successes
  chosen,    \* the file a rollback is about to delete
  printed,   \* the file a rollback prints
  counts,    \* commands and faults so far
  undone,    \* history: files a rollback removed while the command of a deployment was under way
  excused,   \* history: files with an attempt that failed, was killed or was rolled back
  raced,     \* history: two commands were under way at the same time
  late,      \* history: a file was written after a later one had been listed by a run
  wins       \* history: of each file, the insertions into the table since it was last rolled back

vars == <<dir, table, nextId, effects, pc, listed, queue, current, at, result, chosen, printed,
          counts, undone, excused, raced, late, wins>>

NoFile == 0
NoRow  == 0
Positions == UNION {{f} \X (1 .. Len(Statements[f])) : f \in Files}
Running(d) == pc[d] \notin {"idle", "failed"}

TypeOK ==
  /\ dir \subseteq Files
  /\ table \in [Files -> Nat] /\ nextId \in Nat \ {NoRow}
  /\ effects \in [Positions -> Nat]
  /\ pc \in [Deployments -> {"idle", "read", "plan", "before", "execute", "mark", "after",
                             "error", "status", "choose", "delete", "failed"}]
  /\ listed \in [Deployments -> SUBSET Files]
  /\ queue \in [Deployments -> SUBSET Files]
  /\ current \in [Deployments -> Files \cup {NoFile}]
  /\ at \in [Deployments -> Nat \ {0}]
  /\ result \in [Deployments -> {"none", "success", "failure"}]
  /\ chosen \in [Deployments -> Files \cup {NoFile}]
  /\ printed \in [Deployments -> Files \cup {NoFile}]
  /\ counts \in [runs : 0 .. MaxRuns, faults : 0 .. MaxFaults, rollbacks : 0 .. MaxRollbacks]
  /\ undone \in [Deployments -> SUBSET Files] /\ excused \subseteq Files
  /\ raced \in BOOLEAN /\ late \in BOOLEAN
  /\ wins \in [Files -> Nat]

Init ==
  /\ dir = OnDisk
  /\ table = [f \in Files |-> NoRow] /\ nextId = 1
  /\ effects = [p \in Positions |-> 0]
  /\ pc = [d \in Deployments |-> "idle"]
  /\ listed = [d \in Deployments |-> {}] /\ queue = [d \in Deployments |-> {}]
  /\ current = [d \in Deployments |-> NoFile] /\ at = [d \in Deployments |-> 1]
  /\ result = [d \in Deployments |-> "none"]
  /\ chosen = [d \in Deployments |-> NoFile] /\ printed = [d \in Deployments |-> NoFile]
  /\ counts = [runs |-> 0, faults |-> 0, rollbacks |-> 0]
  /\ undone = [d \in Deployments |-> {}]
  /\ excused = {} /\ raced = FALSE /\ late = FALSE
  /\ wins = [f \in Files |-> 0]

Applied == {f \in Files : table[f] # NoRow}
Goto(d, where) == pc' = [pc EXCEPT ![d] = where]
Result(d, r) == result' = [result EXCEPT ![d] = r]
Fault == counts.faults < MaxFaults /\ counts' = [counts EXCEPT !.faults = @ + 1]

-----------------------------------------------------------------------------
(* run() *)

RunKeeps == UNCHANGED <<dir, chosen, printed, undone, raced, late>>

\* ensureTable() (CREATE TABLE IF NOT EXISTS has no effect on the rows).
Run(d) ==
  /\ ~Running(d)
  /\ counts.runs < MaxRuns /\ counts' = [counts EXCEPT !.runs = @ + 1]
  /\ Goto(d, "read") /\ Result(d, "none")
  /\ undone' = [undone EXCEPT ![d] = {}]
  /\ raced' = (raced \/ \E e \in Deployments : Running(e))
  /\ UNCHANGED <<dir, table, nextId, effects, listed, queue, current, at, chosen, printed,
                 excused, late, wins>>

\* readMigrationFiles(): the .sql files of the directory.
ReadFiles(d) ==
  /\ pc[d] = "read"
  /\ listed' = [listed EXCEPT ![d] = dir]
  /\ Goto(d, "plan")
  /\ RunKeeps
  /\ UNCHANGED <<table, nextId, effects, queue, current, at, result, counts, excused, wins>>

\* The loop goes on with the files of q: they are sorted, so the least is next.
Continue(d, q) ==
  /\ queue' = [queue EXCEPT ![d] = q]
  /\ \/ q = {} /\ Goto(d, "idle") /\ UNCHANGED current
     \/ \E f \in q : /\ \A g \in q : f <= g
                     /\ current' = [current EXCEPT ![d] = f]
                     /\ Goto(d, "before")

\* getApplied() and the filter.
Plan(d) ==
  /\ pc[d] = "plan"
  /\ Continue(d, listed[d] \ Applied)
  /\ RunKeeps
  /\ UNCHANGED <<table, nextId, effects, listed, at, result, counts, excused, wins>>

\* onBeforeMigrate resolves, the file is split.
Before(d) ==
  /\ pc[d] = "before"
  /\ at' = [at EXCEPT ![d] = 1]
  /\ Goto(d, IF Len(Statements[current[d]]) = 0 THEN "mark" ELSE "execute")
  /\ RunKeeps
  /\ UNCHANGED <<table, nextId, effects, listed, queue, current, result, counts, excused, wins>>

Refused(p) == p[1] \in Guarded /\ effects[p] > 0

\* One adapter.execute(): the whole file runs, whatever sections it has.
Execute(d) ==
  LET p == <<current[d], at[d]>> IN
  /\ pc[d] = "execute" /\ ~Refused(p)
  /\ effects' = [effects EXCEPT ![p] = @ + 1]
  /\ at' = [at EXCEPT ![d] = @ + 1]
  /\ Goto(d, IF at[d] = Len(Statements[current[d]]) THEN "mark" ELSE "execute")
  /\ RunKeeps
  /\ UNCHANGED <<table, nextId, listed, queue, current, result, counts, excused, wins>>

\* Mutant of Mark: the insertion ignores a name that is there.
MarkOrIgnore(d) ==
  /\ pc[d] = "mark"
  /\ IF current[d] \in Applied THEN UNCHANGED <<table, nextId>>
     ELSE table' = [table EXCEPT ![current[d]] = nextId] /\ nextId' = nextId + 1
  /\ wins' = [wins EXCEPT ![current[d]] = @ + 1]
  /\ Goto(d, "after")
  /\ RunKeeps
  /\ UNCHANGED <<effects, listed, queue, current, at, result, counts, excused>>

\* markApplied(): the name is UNIQUE.
Mark(d) ==
  /\ pc[d] = "mark" /\ current[d] \notin Applied
  /\ table' = [table EXCEPT ![current[d]] = nextId] /\ nextId' = nextId + 1
  /\ wins' = [wins EXCEPT ![current[d]] = @ + 1]
  /\ Goto(d, "after")
  /\ RunKeeps
  /\ UNCHANGED <<effects, listed, queue, current, at, result, counts, excused>>

\* onAfterMigrate resolves: the result is a success and the loop goes on.
After(d) ==
  /\ pc[d] = "after"
  /\ Result(d, "success")
  /\ Continue(d, queue[d] \ {current[d]})
  /\ RunKeeps
  /\ UNCHANGED <<table, nextId, effects, listed, at, counts, excused, wins>>

\* An await of the try block rejects: a hook, a statement, or the insertion.
Fail(d) ==
  /\ \/ /\ pc[d] \in {"before", "execute", "mark", "after"} /\ Fault
     \/ /\ pc[d] = "execute" /\ Refused(<<current[d], at[d]>>) /\ UNCHANGED counts
     \/ /\ pc[d] = "mark" /\ current[d] \in Applied /\ UNCHANGED counts
  /\ Goto(d, "error")
  /\ excused' = excused \cup {current[d]}
  /\ RunKeeps
  /\ UNCHANGED <<table, nextId, effects, listed, queue, current, at, result, wins>>

\* Mutant of OnError: the loop goes on with the next file.
OnErrorContinues(d) ==
  /\ pc[d] = "error"
  /\ Result(d, "failure")
  /\ Continue(d, queue[d] \ {current[d]}) /\ UNCHANGED counts
  /\ RunKeeps /\ UNCHANGED <<table, nextId, effects, listed, at, excused, wins>>

\* Mutant of OnError: the file is tried again.
OnErrorRetries(d) ==
  /\ pc[d] = "error"
  /\ Goto(d, "before")
  /\ RunKeeps
  /\ UNCHANGED <<table, nextId, effects, listed, queue, current, at, result, counts, excused, wins>>

\* onError resolves: a failure is the last result.  It rejects: so does run().
OnError(d) ==
  /\ pc[d] = "error"
  /\ \/ Result(d, "failure") /\ Goto(d, "idle") /\ UNCHANGED counts
     \/ Fault /\ Goto(d, "failed") /\ Result(d, "none")
  /\ RunKeeps
  /\ UNCHANGED <<table, nextId, effects, listed, queue, current, at, excused, wins>>

-----------------------------------------------------------------------------
(* migrateRollback() *)

RollbackKeeps ==
  UNCHANGED <<dir, nextId, effects, listed, queue, current, at, result, late>>

Rollback(d) ==
  /\ ~Running(d)
  /\ counts.rollbacks < MaxRollbacks /\ counts' = [counts EXCEPT !.rollbacks = @ + 1]
  /\ Goto(d, "status")
  /\ raced' = (raced \/ \E e \in Deployments : Running(e))
  /\ UNCHANGED <<table, chosen, printed, undone, excused, wins>> /\ RollbackKeeps

\* status(): of the applied files in the order of the directory the last one
\* will be printed.
Status(d) ==
  /\ pc[d] = "status"
  /\ LET applied == dir \cap Applied IN
       \/ applied = {} /\ Goto(d, "idle") /\ UNCHANGED printed
       \/ \E f \in applied : /\ \A g \in applied : g <= f
                             /\ printed' = [printed EXCEPT ![d] = f]
                             /\ Goto(d, "choose")
  /\ UNCHANGED <<table, chosen, counts, undone, excused, raced, wins>> /\ RollbackKeeps

\* rollback(): the last of getApplied(), which is ordered by id.
Choose(d) ==
  /\ pc[d] = "choose"
  /\ \/ Applied = {} /\ Goto(d, "idle") /\ UNCHANGED chosen
     \/ \E f \in Applied : /\ \A g \in Applied : table[g] <= table[f]
                           /\ chosen' = [chosen EXCEPT ![d] = f]
                           /\ Goto(d, "delete")
  /\ UNCHANGED <<table, printed, counts, undone, excused, raced, wins>> /\ RollbackKeeps

\* markRolledBack(): the row is deleted, nothing else is undone.
Delete(d) ==
  /\ pc[d] = "delete"
  /\ table' = [table EXCEPT ![chosen[d]] = NoRow]
  /\ wins' = [wins EXCEPT ![chosen[d]] = 0]
  /\ undone' = [e \in Deployments |-> undone[e] \cup {chosen[d]}]
  /\ excused' = excused \cup {chosen[d]}
  /\ Goto(d, "idle")
  /\ UNCHANGED <<chosen, printed, counts, raced>> /\ RollbackKeeps

\* The process dies: what it did to the database stays.
Kill(d) ==
  /\ Running(d) /\ Fault
  /\ Goto(d, "failed") /\ Result(d, "none")
  /\ excused' = excused \cup (IF pc[d] \in {"execute", "mark"} THEN {current[d]} ELSE {})
  /\ UNCHANGED <<dir, table, nextId, effects, listed, queue, current, at, chosen, printed,
                 undone, raced, late, wins>>

\* A developer writes a file.
Write(f) ==
  /\ f \notin dir
  /\ dir' = dir \cup {f}
  /\ late' = (late \/ \E a \in Applied \cup UNION {listed[d] : d \in Deployments} : a > f)
  /\ UNCHANGED <<table, nextId, effects, pc, listed, queue, current, at, result, chosen, printed,
                 counts, undone, excused, raced, wins>>

Step(d) ==
  \/ ReadFiles(d) \/ Plan(d) \/ Before(d) \/ Execute(d) \/ Mark(d) \/ After(d)
  \/ Fail(d) \/ OnError(d) \/ Status(d) \/ Choose(d) \/ Delete(d)

Next ==
  \/ \E d \in Deployments : Run(d) \/ Rollback(d) \/ Step(d) \/ Kill(d)
  \/ \E f \in Files : Write(f)

Spec == Init /\ [][Next]_vars
FairSpec == Spec /\ \A d \in Deployments : WF_vars(Step(d))

-----------------------------------------------------------------------------
(* Properties *)

\* A file is in the table only when every one of its statements has been
\* executed: runner.ts writes the row after the last statement, and a run that
\* fails or dies in the middle leaves none.
AppliedWasExecuted ==
  \A f \in Applied : \A p \in Positions : p[1] = f => effects[p] > 0

\* "Already-applied migrations are skipped" (docs/cli/01-oak-cli.md:69): a
\* statement is executed again only if an attempt of its file failed, was
\* killed or was rolled back, or if two commands ran at the same time.
RepeatedOnlyAfterTrouble ==
  \A p \in Positions : effects[p] > 1 => raced \/ p[1] \in excused

\* Of the deployments that run a file at the same time one records it: the
\* UNIQUE name makes the insertion of the others fail.
RecordedOnce == \A f \in Files : wins[f] <= 1

\* The files are applied in their order: a run starts a file only when all
\* files it listed before that one are recorded, so it stops at the first
\* error.  Rows that a rollback removed meanwhile are the exception.
StopsAtFirstError ==
  \A d \in Deployments : pc[d] \in {"execute", "mark", "after"} =>
    \A f \in listed[d] : f < current[d] => f \in Applied \cup undone[d]

\* A run whose last result is no failure has brought the database up to date
\* with all the files it listed.
SuccessMeansUpToDate ==
  \A d \in Deployments :
    pc[d] = "idle" /\ result[d] = "success" => listed[d] \subseteq Applied \cup undone[d]

\* migrate:rollback prints the file whose row it deletes ("Show what will be
\* rolled back", cli/commands/migrate/rollback.ts:11), as long as no file was
\* written late and no other command runs: status() goes by name, rollback() by id.
RollbackPrintsItsFile ==
  \A d \in Deployments : pc[d] = "delete" /\ ~raced /\ ~late => printed[d] = chosen[d]

\* Types, and a table that tells what was executed, once, and what a rollback
\* takes back.
TrackingIsTrue ==
  TypeOK /\ AppliedWasExecuted /\ RepeatedOnlyAfterTrouble /\ RecordedOnce /\ RollbackPrintsItsFile

\* A run goes no further than its first error, and says so.
RunsAreHonest == StopsAtFirstError /\ SuccessMeansUpToDate

\* Every command ends.
CommandsEnd == \A d \in Deployments : Running(d) ~> ~Running(d)

\* docs/cli/01-oak-cli.md:244: "Oak applies the -- up section and uses -- down
\* for rollback": a run executes no statement of a down section.
DownWaitsForRollback ==
  \A p \in Positions : Statements[p[1]][p[2]] = "down" => effects[p] = 0
=============================================================================
