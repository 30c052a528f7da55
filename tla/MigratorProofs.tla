--------------------------- MODULE MigratorProofs ---------------------------
(***************************************************************************)
(* Theorems about Migrator, for any number of deployments, files and       *)
(* statements and every bound on commands and faults.                      *)
(***************************************************************************)
EXTENDS Migrator, TLAPS

Migrating == {"before", "execute", "mark", "after", "error"}
RunPcs    == {"read", "plan"} \cup Migrating

\* What a deployment is at: while it migrates a file that is the first of its
\* queue, while it executes a statement there is one, and what it deletes is a file.
Control(d) ==
  /\ pc[d] \in Migrating => current[d] \in queue[d] /\ \A g \in queue[d] : current[d] <= g
  /\ pc[d] = "execute" => at[d] <= Len(Statements[current[d]])
  /\ pc[d] = "delete" => chosen[d] \in Files
  /\ queue[d] \subseteq listed[d] /\ listed[d] \subseteq dir

TypeInv ==
  /\ TypeOK
  /\ \A d \in Deployments : Control(d)
  /\ Applied \subseteq dir
  /\ \A f \in Files : table[f] < nextId

\* What a run has listed is recorded, or was rolled back meanwhile, or is still
\* to come; when it says so nothing is still to come.
Covered(d) ==
  /\ pc[d] \in Migrating => listed[d] \subseteq queue[d] \cup Applied \cup undone[d]
  /\ pc[d] = "after" => current[d] \in Applied \cup undone[d]
  /\ pc[d] \in {"read", "plan", "failed"} => result[d] = "none"
  /\ pc[d] \in {"idle", "status", "choose", "delete"} /\ result[d] = "success" =>
       listed[d] \subseteq Applied \cup undone[d]

RunInv == \A d \in Deployments : Covered(d)

\* A deployment has passed statement p of the file it is at.
Past(d, p) ==
  p[1] = current[d] /\ (pc[d] = "mark" \/ (pc[d] = "execute" /\ p[2] < at[d]))

\* What a deployment has passed was executed, and so was what is recorded.
ExecInv ==
  /\ \A d \in Deployments, p \in Positions : Past(d, p) => effects[p] > 0
  /\ AppliedWasExecuted

WinsInv == \A f \in Files : wins[f] = IF f \in Applied THEN 1 ELSE 0

\* As long as commands do not overlap: one runs, its queue is not recorded,
\* and nobody has rolled anything back under it.
Alone ==
  /\ \A d, e \in Deployments : Running(d) /\ Running(e) => d = e
  /\ \A d \in Deployments :
       /\ pc[d] \in {"before", "execute", "mark"} => queue[d] \cap Applied = {}
       /\ pc[d] = "after" => queue[d] \cap Applied \subseteq {current[d]}
       /\ pc[d] \in RunPcs => undone[d] = {}

\* A file nothing went wrong with: each statement has been executed once, and
\* then the file is recorded or a deployment is at it and past the statement.
Once ==
  \A p \in Positions : p[1] \notin excused /\ effects[p] > 0 =>
    effects[p] = 1 /\ (p[1] \in Applied \/ \E d \in Deployments : Past(d, p))

SoloInv == ~raced => Alone /\ Once

\* Files come and are recorded in their order: those still to be recorded come
\* after those that are, and a rollback takes the last.
LateInv ==
  ~late => \A d \in Deployments : \A f \in dir \ listed[d], g \in listed[d] : g < f

InOrder ==
  /\ \A f, g \in Applied : f < g => table[f] < table[g]
  /\ \A f \in dir \ Applied, g \in Applied : g < f

LastPrinted ==
  \A d \in Deployments :
    pc[d] \in {"choose", "delete"} =>
      printed[d] \in Applied /\ \A g \in Applied : g <= printed[d]

OrderInv ==
  /\ LateInv
  /\ ~raced => LastPrinted
  /\ ~raced /\ ~late => InOrder
  /\ RollbackPrintsItsFile

IInv == TypeInv /\ RunInv /\ ExecInv /\ WinsInv /\ SoloInv /\ OrderInv

-----------------------------------------------------------------------------
(* Types and control *)

\* While a deployment migrates, its file is one of Files with statements of its own.
LEMMA CurrentIsFile ==
  ASSUME TypeInv, NEW d \in Deployments, pc[d] \in Migrating
  PROVE  /\ current[d] \in Files /\ current[d] \in queue[d] /\ current[d] \in dir
         /\ Len(Statements[current[d]]) \in Nat
<1>1. current[d] \in queue[d] /\ queue[d] \subseteq dir /\ dir \subseteq Files
  BY DEF TypeInv, Control, TypeOK
<1>2. QED
  BY <1>1, MigratorAssumption

\* The statement that is executed is a position.
LEMMA ExecutedIsPosition ==
  ASSUME TypeInv, NEW d \in Deployments, pc[d] = "execute"
  PROVE  <<current[d], at[d]>> \in Positions
<1>1. current[d] \in Files /\ Len(Statements[current[d]]) \in Nat
  BY CurrentIsFile DEF Migrating
<1>2. at[d] \in 1 .. Len(Statements[current[d]])
  BY <1>1 DEF TypeInv, TypeOK, Control
<1>3. QED
  BY <1>1, <1>2 DEF Positions

\* The positions are the statements of the files.
LEMMA PositionsAre ==
  ASSUME NEW p \in Positions
  PROVE  p[1] \in Files /\ p[2] \in 1 .. Len(Statements[p[1]]) /\ p = <<p[1], p[2]>>
BY DEF Positions

\* Where the loop goes on: at the end of the command, or at the first file of q.
LEMMA ContinueEffect ==
  ASSUME TypeInv, NEW d \in Deployments, NEW q \in SUBSET listed[d], Continue(d, q)
  PROVE  /\ queue' = [queue EXCEPT ![d] = q]
         /\ queue' \in [Deployments -> SUBSET Files] /\ queue'[d] = q
         /\ pc'[d] \in {"idle", "before"}
         /\ pc'[d] = "idle" => q = {}
         /\ pc'[d] = "before" => current'[d] \in q /\ \A g \in q : current'[d] <= g
         /\ pc' = [pc EXCEPT ![d] = pc'[d]]
         /\ current' = [current EXCEPT ![d] = current'[d]]
         /\ pc' \in [Deployments -> {"idle", "read", "plan", "before", "execute", "mark", "after",
                                     "error", "status", "choose", "delete", "failed"}]
         /\ current' \in [Deployments -> Files \cup {NoFile}]
<1>1. listed[d] \subseteq Files
  BY DEF TypeInv, TypeOK
<1>2. queue' = [queue EXCEPT ![d] = q]
  BY DEF Continue
<1>3. CASE q = {} /\ Goto(d, "idle") /\ UNCHANGED current
  BY <1>1, <1>2, <1>3 DEF TypeInv, TypeOK, Goto
<1>4. CASE \E f \in q : /\ \A g \in q : f <= g
                        /\ current' = [current EXCEPT ![d] = f]
                        /\ Goto(d, "before")
  BY <1>1, <1>2, <1>4 DEF TypeInv, TypeOK, Goto
<1>5. QED
  BY <1>3, <1>4 DEF Continue

\* Nothing is recorded or under way at the start.
LEMMA InitTypeInv == Init => TypeInv
<1> SUFFICES ASSUME Init PROVE TypeInv
  OBVIOUS
<1>1. Applied = {}
  BY DEF Init, Applied
<1>2. TypeOK
  <2>1. counts \in [runs : 0 .. MaxRuns, faults : 0 .. MaxFaults, rollbacks : 0 .. MaxRollbacks]
    BY MigratorAssumption DEF Init
  <2>2. nextId \in Nat \ {NoRow} /\ table \in [Files -> Nat]
    BY DEF Init, NoRow
  <2>3. effects \in [Positions -> Nat] /\ wins \in [Files -> Nat]
    BY DEF Init
  <2>4. at \in [Deployments -> Nat \ {0}]
    BY DEF Init
  <2>5. current \in [Deployments -> Files \cup {NoFile}]
        /\ chosen \in [Deployments -> Files \cup {NoFile}]
        /\ printed \in [Deployments -> Files \cup {NoFile}]
    BY DEF Init
  <2>6. dir \subseteq Files
    BY MigratorAssumption DEF Init
  <2>7. QED
    BY <2>1, <2>2, <2>3, <2>4, <2>5, <2>6 DEF Init, TypeOK
<1>3. \A d \in Deployments : Control(d)
  BY DEF Init, Control, Migrating
<1>4. \A f \in Files : table[f] < nextId
  BY DEF Init, NoRow
<1>5. QED
  BY <1>1, <1>2, <1>3, <1>4 DEF TypeInv

Counts == [runs : 0 .. MaxRuns, faults : 0 .. MaxFaults, rollbacks : 0 .. MaxRollbacks]

\* The bounded counters keep their types.
LEMMA CountsTyped ==
  ASSUME TypeInv
  PROVE  /\ Fault => counts' \in Counts
         /\ counts.runs < MaxRuns => [counts EXCEPT !.runs = @ + 1] \in Counts
         /\ counts.rollbacks < MaxRollbacks => [counts EXCEPT !.rollbacks = @ + 1] \in Counts
<1>1. counts \in Counts
  BY DEF TypeInv, TypeOK, Counts
<1>2. counts.runs < MaxRuns => [counts EXCEPT !.runs = @ + 1] \in Counts
  BY <1>1, MigratorAssumption DEF Counts
<1>3. counts.faults < MaxFaults => [counts EXCEPT !.faults = @ + 1] \in Counts
  BY <1>1, MigratorAssumption DEF Counts
<1>4. counts.rollbacks < MaxRollbacks => [counts EXCEPT !.rollbacks = @ + 1] \in Counts
  BY <1>1, MigratorAssumption DEF Counts
<1>5. QED
  BY <1>2, <1>3, <1>4 DEF Fault

Act(d) == Run(d) \/ Rollback(d) \/ Step(d) \/ Kill(d)

\* What a deployment is at changes by its own steps only.
Left(e) ==
  /\ pc'[e] = pc[e] /\ current'[e] = current[e] /\ queue'[e] = queue[e] /\ at'[e] = at[e]
  /\ chosen'[e] = chosen[e] /\ printed'[e] = printed[e] /\ listed'[e] = listed[e]
  /\ result'[e] = result[e]

\* The step of one deployment leaves what every other one is at.
LEMMA OthersAreLeft ==
  ASSUME TypeInv, NEW d \in Deployments, Act(d), NEW e \in Deployments, e # d
  PROVE  Left(e)
<1> USE DEF TypeInv, TypeOK, Left
<1>1. CASE Run(d)
  BY <1>1 DEF Run, Goto, Result
<1>2. CASE Rollback(d)
  BY <1>2 DEF Rollback, RollbackKeeps, Goto
<1>3. CASE ReadFiles(d)
  BY <1>3 DEF ReadFiles, RunKeeps, Goto
<1>4. CASE Plan(d)
  <2>1. Continue(d, listed[d] \ Applied)
    BY <1>4 DEF Plan
  <2>2. pc'[e] = pc[e] /\ current'[e] = current[e] /\ queue'[e] = queue[e]
    BY <2>1 DEF Continue, Goto
  <2>3. QED
    BY <1>4, <2>2 DEF Plan, RunKeeps
<1>5. CASE Before(d)
  BY <1>5 DEF Before, RunKeeps, Goto
<1>6. CASE Execute(d)
  BY <1>6 DEF Execute, RunKeeps, Goto
<1>7. CASE Mark(d)
  BY <1>7 DEF Mark, RunKeeps, Goto
<1>8. CASE After(d)
  <2>1. Continue(d, queue[d] \ {current[d]})
    BY <1>8 DEF After
  <2>2. pc'[e] = pc[e] /\ current'[e] = current[e] /\ queue'[e] = queue[e]
    BY <2>1 DEF Continue, Goto
  <2>3. QED
    BY <1>8, <2>2 DEF After, RunKeeps, Result
<1>9. CASE Fail(d)
  BY <1>9 DEF Fail, RunKeeps, Goto
<1>10. CASE OnError(d)
  BY <1>10 DEF OnError, RunKeeps, Goto, Result
<1>11. CASE Status(d)
  BY <1>11 DEF Status, RollbackKeeps, Goto
<1>12. CASE Choose(d)
  BY <1>12 DEF Choose, RollbackKeeps, Goto
<1>13. CASE Delete(d)
  BY <1>13 DEF Delete, RollbackKeeps, Goto
<1>14. CASE Kill(d)
  BY <1>14 DEF Kill, Goto, Result
<1>15. QED
  BY <1>1, <1>2, <1>3, <1>4, <1>5, <1>6, <1>7, <1>8, <1>9, <1>10, <1>11, <1>12, <1>13, <1>14 DEF Act, Step

\* What a deployment does to itself changes the control of no other.
LEMMA OwnStep ==
  ASSUME TypeInv, NEW d \in Deployments, Act(d), TypeOK', Control(d)', UNCHANGED dir,
         Applied' \subseteq dir, \A f \in Files : table'[f] < nextId'
  PROVE  TypeInv'
<1>1. ASSUME NEW e \in Deployments, e # d PROVE Control(e)'
  BY <1>1, OthersAreLeft DEF TypeInv, Control, Left
<1>2. QED
  BY <1>1 DEF TypeInv

\* The same when nothing happens to the tracking table.
LEMMA OwnQuietStep ==
  ASSUME TypeInv, NEW d \in Deployments, Act(d), TypeOK', Control(d)', UNCHANGED <<dir, table, nextId>>
  PROVE  TypeInv'
<1>1. Applied' \subseteq dir /\ \A f \in Files : table'[f] < nextId'
  BY DEF TypeInv, Applied
<1>2. QED
  BY <1>1, OwnStep

\* Every step keeps the types and the control of every deployment.
LEMMA StepTypeInv == TypeInv /\ [Next]_vars => TypeInv'
<1> SUFFICES ASSUME TypeInv, [Next]_vars PROVE TypeInv'
  OBVIOUS
<1>1. CASE UNCHANGED vars
  BY <1>1 DEF vars, TypeInv, TypeOK, Control, Applied
<1>2. ASSUME NEW d \in Deployments, Run(d) PROVE TypeInv'
  <2>1. TypeOK'
    BY <1>2, CountsTyped DEF Counts, Run, Goto, Result, TypeInv, TypeOK, Migrating
  <2>2. Control(d)'
    BY <1>2 DEF Run, Goto, Result, TypeInv, TypeOK, Control, Migrating
  <2>3. QED
    BY <1>2, <2>1, <2>2, OwnQuietStep DEF Act, Step, Run, Goto, Result
<1>3. ASSUME NEW d \in Deployments, ReadFiles(d) PROVE TypeInv'
  <2>1. TypeOK'
    BY <1>3 DEF ReadFiles, RunKeeps, Goto, TypeInv, TypeOK, Migrating
  <2>2. Control(d)'
    BY <1>3 DEF ReadFiles, RunKeeps, Goto, TypeInv, TypeOK, Control, Migrating
  <2>3. QED
    BY <1>3, <2>1, <2>2, OwnQuietStep DEF Act, Step, ReadFiles, RunKeeps, Goto
<1>4. ASSUME NEW d \in Deployments, Plan(d) PROVE TypeInv'
  <2> DEFINE q == listed[d] \ Applied
  <2>1. q \in SUBSET listed[d] /\ Continue(d, q)
    BY <1>4 DEF Plan, TypeInv, Control
  <2> HIDE DEF q
  <2>2. TypeOK'
    BY <1>4, <2>1, ContinueEffect DEF Plan, RunKeeps, TypeInv, TypeOK
  <2>3. Control(d)'
    BY <1>4, <2>1, ContinueEffect DEF Plan, RunKeeps, TypeInv, TypeOK, Control, Migrating
  <2>4. QED
    BY <1>4, <2>2, <2>3, OwnQuietStep DEF Act, Step, Plan, RunKeeps
<1>5. ASSUME NEW d \in Deployments, Before(d) PROVE TypeInv'
  <2>1. TypeOK'
    BY <1>5 DEF Before, RunKeeps, Goto, TypeInv, TypeOK, Migrating
  <2>2. Control(d)'
    BY <1>5, CurrentIsFile DEF Before, RunKeeps, Goto, TypeInv, TypeOK, Control, Migrating
  <2>3. QED
    BY <1>5, <2>1, <2>2, OwnQuietStep DEF Act, Step, Before, RunKeeps, Goto
<1>6. ASSUME NEW d \in Deployments, Execute(d) PROVE TypeInv'
  <2>1. TypeOK'
    BY <1>6, ExecutedIsPosition DEF Execute, RunKeeps, Goto, TypeInv, TypeOK, Migrating
  <2>2. Control(d)'
    BY <1>6, CurrentIsFile DEF Execute, RunKeeps, Goto, TypeInv, TypeOK, Control, Migrating
  <2>3. QED
    BY <1>6, <2>1, <2>2, OwnQuietStep DEF Act, Step, Execute, RunKeeps, Goto
<1>7. ASSUME NEW d \in Deployments, Mark(d) PROVE TypeInv'
  <2>1. TypeOK'
    <3>1. current[d] \in Files
      BY <1>7, CurrentIsFile DEF Mark, Migrating
    <3>2. table' \in [Files -> Nat] /\ nextId' \in Nat \ {NoRow}
      BY <1>7, <3>1 DEF Mark, TypeInv, TypeOK, NoRow
    <3>3. wins' \in [Files -> Nat]
      BY <1>7, <3>1 DEF Mark, TypeInv, TypeOK
    <3>4. QED
      BY <1>7, <3>2, <3>3 DEF Mark, RunKeeps, Goto, TypeInv, TypeOK
  <2>2. Control(d)'
    BY <1>7 DEF Mark, RunKeeps, Goto, TypeInv, TypeOK, Control, Migrating
  <2>3. Applied' \subseteq dir /\ \A f \in Files : table'[f] < nextId'
    BY <1>7, CurrentIsFile DEF Mark, RunKeeps, Goto, TypeInv, TypeOK, Applied, Migrating, NoRow
  <2>4. QED
    BY <1>7, <2>1, <2>2, <2>3, OwnStep DEF Act, Step, Mark, RunKeeps, Goto
<1>8. ASSUME NEW d \in Deployments, After(d) PROVE TypeInv'
  <2> DEFINE q == queue[d] \ {current[d]}
  <2>1. q \in SUBSET listed[d] /\ Continue(d, q)
    BY <1>8 DEF After, TypeInv, Control
  <2> HIDE DEF q
  <2>2. TypeOK'
    BY <1>8, <2>1, ContinueEffect DEF After, RunKeeps, Result, TypeInv, TypeOK
  <2>3. Control(d)'
    BY <1>8, <2>1, ContinueEffect DEF After, RunKeeps, Result, TypeInv, TypeOK, Control, Migrating
  <2>4. QED
    BY <1>8, <2>2, <2>3, OwnQuietStep DEF Act, Step, After, RunKeeps, Result
<1>9. ASSUME NEW d \in Deployments, Fail(d) PROVE TypeInv'
  <2>1. TypeOK'
    BY <1>9, CurrentIsFile, CountsTyped DEF Counts, Fail, RunKeeps, Goto, TypeInv, TypeOK, Migrating
  <2>2. Control(d)'
    BY <1>9, CurrentIsFile DEF Fail, RunKeeps, Goto, TypeInv, TypeOK, Control, Migrating
  <2>3. QED
    BY <1>9, <2>1, <2>2, OwnQuietStep DEF Act, Step, Fail, RunKeeps, Goto
<1>10. ASSUME NEW d \in Deployments, OnError(d) PROVE TypeInv'
  <2>1. TypeOK'
    BY <1>10, CountsTyped DEF Counts, OnError, RunKeeps, Goto, Result, TypeInv, TypeOK, Migrating
  <2>2. Control(d)'
    BY <1>10 DEF OnError, RunKeeps, Goto, Result, TypeInv, TypeOK, Control, Migrating
  <2>3. QED
    BY <1>10, <2>1, <2>2, OwnQuietStep DEF Act, Step, OnError, RunKeeps, Goto, Result
<1>11. ASSUME NEW d \in Deployments, Rollback(d) PROVE TypeInv'
  <2>1. TypeOK'
    BY <1>11, CountsTyped DEF Counts, Rollback, RollbackKeeps, Goto, TypeInv, TypeOK, Migrating
  <2>2. Control(d)'
    BY <1>11 DEF Rollback, RollbackKeeps, Goto, TypeInv, TypeOK, Control, Migrating
  <2>3. QED
    BY <1>11, <2>1, <2>2, OwnQuietStep DEF Act, Step, Rollback, RollbackKeeps, Goto
<1>12. ASSUME NEW d \in Deployments, Status(d) PROVE TypeInv'
  <2>1. TypeOK'
    BY <1>12 DEF Status, RollbackKeeps, Goto, TypeInv, TypeOK, Migrating
  <2>2. Control(d)'
    BY <1>12 DEF Status, RollbackKeeps, Goto, TypeInv, TypeOK, Control, Migrating
  <2>3. QED
    BY <1>12, <2>1, <2>2, OwnQuietStep DEF Act, Step, Status, RollbackKeeps, Goto
<1>13. ASSUME NEW d \in Deployments, Choose(d) PROVE TypeInv'
  <2>1. TypeOK'
    BY <1>13 DEF Choose, RollbackKeeps, Goto, TypeInv, TypeOK, Migrating
  <2>2. Control(d)'
    BY <1>13 DEF Choose, RollbackKeeps, Goto, TypeInv, TypeOK, Control, Migrating
  <2>3. QED
    BY <1>13, <2>1, <2>2, OwnQuietStep DEF Act, Step, Choose, RollbackKeeps, Goto
<1>14. ASSUME NEW d \in Deployments, Delete(d) PROVE TypeInv'
  <2>1. TypeOK'
    <3>1. chosen[d] \in Files
      BY <1>14 DEF Delete, TypeInv, Control
    <3>2. table' \in [Files -> Nat] /\ wins' \in [Files -> Nat]
      BY <1>14, <3>1 DEF Delete, TypeInv, TypeOK, NoRow
    <3>3. undone' \in [Deployments -> SUBSET Files] /\ excused' \subseteq Files
      BY <1>14, <3>1 DEF Delete, TypeInv, TypeOK
    <3>4. QED
      BY <1>14, <3>2, <3>3 DEF Delete, RollbackKeeps, Goto, TypeInv, TypeOK
  <2>2. Control(d)'
    BY <1>14 DEF Delete, RollbackKeeps, Goto, TypeInv, TypeOK, Control, Migrating
  <2>3. Applied' \subseteq dir /\ \A f \in Files : table'[f] < nextId'
    BY <1>14, CurrentIsFile DEF Delete, RollbackKeeps, Goto, TypeInv, TypeOK, Applied, Migrating, NoRow
  <2>4. QED
    BY <1>14, <2>1, <2>2, <2>3, OwnStep DEF Act, Step, Delete, RollbackKeeps, Goto
<1>15. ASSUME NEW d \in Deployments, Kill(d) PROVE TypeInv'
  <2>1. TypeOK'
    BY <1>15, CountsTyped, CurrentIsFile DEF Counts, Kill, Goto, Result, TypeInv, TypeOK, Migrating
  <2>2. Control(d)'
    BY <1>15 DEF Kill, Goto, Result, TypeInv, TypeOK, Control, Migrating
  <2>3. QED
    BY <1>15, <2>1, <2>2, OwnQuietStep DEF Act, Step, Kill, Goto, Result
<1>16. ASSUME NEW f \in Files, Write(f) PROVE TypeInv'
  <2>1. TypeOK' /\ dir \subseteq dir'
    BY <1>16 DEF Write, TypeInv, TypeOK
  <2>2. \A d \in Deployments : Control(d)'
    BY <1>16, <2>1 DEF Write, TypeInv, Control
  <2>3. Applied' \subseteq dir' /\ \A g \in Files : table'[g] < nextId'
    BY <1>16, <2>1 DEF Write, TypeInv, Applied
  <2>4. QED
    BY <2>1, <2>2, <2>3 DEF TypeInv
<1>17. QED
  BY <1>1, <1>2, <1>3, <1>4, <1>5, <1>6, <1>7, <1>8, <1>9, <1>10, <1>11, <1>12, <1>13, <1>14,
     <1>15, <1>16 DEF Next, Step

-----------------------------------------------------------------------------
(* Runs go no further than their first error, and say so *)

\* Only markApplied() and markRolledBack() change the tracking table, by the
\* file that is migrated and the one that is rolled back.
LEMMA MarkEffect ==
  ASSUME TypeInv, NEW d \in Deployments, Mark(d)
  PROVE  /\ Applied' = Applied \cup {current[d]} /\ current[d] \in Files
         /\ table'[current[d]] = nextId
         /\ \A f \in Files \ {current[d]} : table'[f] = table[f]
<1>1. current[d] \in Files
  BY CurrentIsFile DEF Mark, Migrating
<1>2. QED
  BY <1>1 DEF Mark, TypeInv, TypeOK, Applied, NoRow

\* A rollback removes one row, under every run that is under way.
LEMMA DeleteEffect ==
  ASSUME TypeInv, NEW d \in Deployments, Delete(d)
  PROVE  /\ Applied' = Applied \ {chosen[d]} /\ chosen[d] \in Files
         /\ \A f \in Files \ {chosen[d]} : table'[f] = table[f]
         /\ \A e \in Deployments : undone'[e] = undone[e] \cup {chosen[d]}
<1>1. chosen[d] \in Files
  BY DEF Delete, TypeInv, Control
<1>2. QED
  BY <1>1 DEF Delete, TypeInv, TypeOK, Applied, NoRow

\* No other step touches the rows.
LEMMA TableKept ==
  ASSUME TypeInv, NEW d \in Deployments, Act(d), ~Mark(d), ~Delete(d)
  PROVE  UNCHANGED <<table, nextId, wins>> /\ Applied' = Applied
<1>1. UNCHANGED <<table, nextId, wins>>
  BY DEF Act, Step, Run, Rollback, RollbackKeeps, ReadFiles, Plan, Before, Execute, After, Fail,
     OnError, Status, Choose, Kill
<1>2. QED
  BY <1>1 DEF Applied

\* What was recorded or rolled back under a deployment stays so.
LEMMA AccountedFor ==
  ASSUME TypeInv, NEW d \in Deployments, Act(d), NEW e \in Deployments,
         e # d \/ pc'[d] # "read"
  PROVE  Applied \cup undone[e] \subseteq Applied' \cup undone'[e]
<1>1. CASE Mark(d)
  BY <1>1, MarkEffect DEF Mark, RunKeeps
<1>2. CASE Delete(d)
  BY <1>2, DeleteEffect
<1>3. CASE ~Mark(d) /\ ~Delete(d)
  <2>1. Applied' = Applied
    BY <1>3, TableKept
  <2>2. undone'[e] = undone[e]
    BY <1>3 DEF Act, Step, Run, Goto, Rollback, RunKeeps, ReadFiles, Plan, Before, Execute, After,
       Fail, OnError, Status, Choose, Kill, TypeInv, TypeOK
  <2>3. QED
    BY <2>1, <2>2
<1>4. QED
  BY <1>1, <1>2, <1>3

\* No run has listed anything at the start.
LEMMA InitRuns == Init => RunInv
BY DEF Init, RunInv, Covered, Migrating

\* Every step keeps account of what a run has listed: a file leaves the queue
\* when it is recorded, and a success is told when the queue is empty.
LEMMA StepRuns == TypeInv /\ RunInv /\ [Next]_vars => RunInv'
<1> SUFFICES ASSUME TypeInv, RunInv, [Next]_vars PROVE RunInv'
  OBVIOUS
<1>1. CASE UNCHANGED vars
  BY <1>1 DEF vars, RunInv, Covered, Applied
<1>2. ASSUME NEW f \in Files, Write(f) PROVE RunInv'
  BY <1>2 DEF Write, RunInv, Covered, Applied
<1>3. ASSUME NEW d \in Deployments, Act(d) PROVE RunInv'
  <2>1. ASSUME NEW e \in Deployments, e # d PROVE Covered(e)'
    BY <1>3, <2>1, OthersAreLeft, AccountedFor DEF RunInv, Covered, Left
  <2>2. Covered(d)
    BY DEF RunInv
  <2>3. ASSUME Run(d) PROVE Covered(d)'
    BY <2>3 DEF Run, Goto, Result, Covered, TypeInv, TypeOK, Migrating
  <2>4. ASSUME Rollback(d) PROVE Covered(d)'
    <3>1. Applied \cup undone[d] \subseteq Applied' \cup undone'[d]
      BY <1>3, <2>4, AccountedFor DEF Rollback, RollbackKeeps, Goto, TypeInv, TypeOK
    <3>2. QED
      BY <2>4, <2>2, <3>1 DEF Rollback, RollbackKeeps, Goto, Covered, TypeInv, TypeOK, Migrating, Running
  <2>5. ASSUME ReadFiles(d) PROVE Covered(d)'
    <3>1. Applied \cup undone[d] \subseteq Applied' \cup undone'[d]
      BY <1>3, <2>5, AccountedFor DEF ReadFiles, RunKeeps, Goto, TypeInv, TypeOK
    <3>2. QED
      BY <2>5, <2>2, <3>1 DEF ReadFiles, RunKeeps, Goto, Covered, TypeInv, TypeOK, Migrating, Running
  <2>6. ASSUME Plan(d) PROVE Covered(d)'
    <3>1. Continue(d, listed[d] \ Applied) /\ listed[d] \ Applied \in SUBSET listed[d]
      BY <2>6 DEF Plan
    <3>2. UNCHANGED <<table, listed, undone, result>> /\ pc[d] = "plan"
      BY <2>6 DEF Plan, RunKeeps
    <3>3. Applied' = Applied
      BY <3>2 DEF Applied
    <3>4. QED
      BY <2>2, <3>1, <3>2, <3>3, ContinueEffect DEF Covered, Migrating
  <2>7. ASSUME Before(d) PROVE Covered(d)'
    <3>1. Applied \cup undone[d] \subseteq Applied' \cup undone'[d]
      BY <1>3, <2>7, AccountedFor DEF Before, RunKeeps, Goto, TypeInv, TypeOK
    <3>2. QED
      BY <2>7, <2>2, <3>1 DEF Before, RunKeeps, Goto, Covered, TypeInv, TypeOK, Migrating, Running
  <2>8. ASSUME Execute(d) PROVE Covered(d)'
    <3>1. Applied \cup undone[d] \subseteq Applied' \cup undone'[d]
      BY <1>3, <2>8, AccountedFor DEF Execute, RunKeeps, Goto, TypeInv, TypeOK
    <3>2. QED
      BY <2>8, <2>2, <3>1 DEF Execute, RunKeeps, Goto, Covered, TypeInv, TypeOK, Migrating, Running
  <2>9. ASSUME Mark(d) PROVE Covered(d)'
    <3>1. Applied' = Applied \cup {current[d]} /\ undone' = undone
      BY <2>9, MarkEffect DEF Mark, RunKeeps
    <3>2. QED
      BY <2>9, <2>2, <3>1 DEF Mark, RunKeeps, Goto, Covered, TypeInv, TypeOK, Migrating
  <2>10. ASSUME After(d) PROVE Covered(d)'
    <3>1. Continue(d, queue[d] \ {current[d]}) /\ queue[d] \ {current[d]} \in SUBSET listed[d]
      BY <2>10 DEF After, TypeInv, Control
    <3>2. UNCHANGED <<table, listed, undone>> /\ pc[d] = "after"
      BY <2>10 DEF After, RunKeeps
    <3>3. Applied' = Applied
      BY <3>2 DEF Applied
    <3>4. listed[d] \subseteq (queue[d] \ {current[d]}) \cup Applied \cup undone[d]
      BY <2>2, <3>2 DEF Covered, Migrating
    <3>5. QED
      BY <3>1, <3>2, <3>3, <3>4, ContinueEffect DEF Covered, Migrating
  <2>11. ASSUME Fail(d) PROVE Covered(d)'
    <3>1. Applied \cup undone[d] \subseteq Applied' \cup undone'[d]
      BY <1>3, <2>11, AccountedFor DEF Fail, RunKeeps, Goto, TypeInv, TypeOK
    <3>2. QED
      BY <2>11, <2>2, <3>1 DEF Fail, RunKeeps, Goto, Covered, TypeInv, TypeOK, Migrating, Running
  <2>12. ASSUME OnError(d) PROVE Covered(d)'
    <3>1. Applied \cup undone[d] \subseteq Applied' \cup undone'[d]
      BY <1>3, <2>12, AccountedFor DEF OnError, RunKeeps, Goto, Result, TypeInv, TypeOK
    <3>2. QED
      BY <2>12, <2>2, <3>1 DEF OnError, RunKeeps, Goto, Result, Covered, TypeInv, TypeOK, Migrating, Running
  <2>13. ASSUME Status(d) PROVE Covered(d)'
    <3>1. Applied \cup undone[d] \subseteq Applied' \cup undone'[d]
      BY <1>3, <2>13, AccountedFor DEF Status, RollbackKeeps, Goto, TypeInv, TypeOK
    <3>2. QED
      BY <2>13, <2>2, <3>1 DEF Status, RollbackKeeps, Goto, Covered, TypeInv, TypeOK, Migrating, Running
  <2>14. ASSUME Choose(d) PROVE Covered(d)'
    <3>1. Applied \cup undone[d] \subseteq Applied' \cup undone'[d]
      BY <1>3, <2>14, AccountedFor DEF Choose, RollbackKeeps, Goto, TypeInv, TypeOK
    <3>2. QED
      BY <2>14, <2>2, <3>1 DEF Choose, RollbackKeeps, Goto, Covered, TypeInv, TypeOK, Migrating, Running
  <2>15. ASSUME Delete(d) PROVE Covered(d)'
    <3>1. Applied \cup undone[d] \subseteq Applied' \cup undone'[d]
      BY <1>3, <2>15, AccountedFor DEF Delete, RollbackKeeps, Goto, TypeInv, TypeOK
    <3>2. QED
      BY <2>15, <2>2, <3>1 DEF Delete, RollbackKeeps, Goto, Covered, TypeInv, TypeOK, Migrating, Running
  <2>16. ASSUME Kill(d) PROVE Covered(d)'
    <3>1. Applied \cup undone[d] \subseteq Applied' \cup undone'[d]
      BY <1>3, <2>16, AccountedFor DEF Kill, Goto, Result, TypeInv, TypeOK
    <3>2. QED
      BY <2>16, <2>2, <3>1 DEF Kill, Goto, Result, Covered, TypeInv, TypeOK, Migrating, Running
  <2>17. Covered(d)'
    BY <1>3, <2>3, <2>4, <2>5, <2>6, <2>7, <2>8, <2>9, <2>10, <2>11, <2>12, <2>13, <2>14, <2>15, <2>16 DEF Act, Step
  <2>18. QED
    BY <2>1, <2>17 DEF RunInv
<1>4. QED
  BY <1>1, <1>2, <1>3 DEF Next, Act

-----------------------------------------------------------------------------
(* What is recorded was executed *)

\* Only Execute changes how often statements were executed, and of one statement.
LEMMA EffectsKept ==
  ASSUME TypeInv, NEW d \in Deployments, Act(d), ~Execute(d)
  PROVE  effects' = effects
BY DEF Act, Step, Run, Rollback, RollbackKeeps, ReadFiles, Plan, Before, Mark, After, Fail,
   OnError, Status, Choose, Delete, Kill

\* The statement that is executed is the only one a deployment gets past.
LEMMA ExecuteEffect ==
  ASSUME TypeInv, NEW d \in Deployments, Execute(d), NEW p \in Positions
  PROVE  LET q == <<current[d], at[d]>> IN
         /\ effects'[p] = IF p = q THEN effects[p] + 1 ELSE effects[p]
         /\ Past(d, p)' <=> (p = q \/ Past(d, p))
<1> DEFINE q == <<current[d], at[d]>>
<1>1. q \in Positions /\ effects' = [effects EXCEPT ![q] = @ + 1]
  BY ExecutedIsPosition DEF Execute
<1>2. effects'[p] = IF p = q THEN effects[p] + 1 ELSE effects[p]
  BY <1>1 DEF TypeInv, TypeOK
<1>3. /\ pc[d] = "execute" /\ current'[d] = current[d] /\ at'[d] = at[d] + 1
      /\ pc'[d] = IF at[d] = Len(Statements[current[d]]) THEN "mark" ELSE "execute"
      /\ at[d] \in Nat
  BY DEF Execute, Goto, TypeInv, TypeOK
<1>4. p[2] \in 1 .. Len(Statements[p[1]]) /\ p = <<p[1], p[2]>>
  BY PositionsAre
<1>5. Len(Statements[current[d]]) \in Nat /\ at[d] <= Len(Statements[current[d]])
  BY <1>3, CurrentIsFile DEF Migrating, TypeInv, Control
<1>6. Past(d, p)' <=> (p[1] = current[d] /\ p[2] <= at[d])
  BY <1>3, <1>4, <1>5 DEF Past
<1>7. Past(d, p) <=> (p[1] = current[d] /\ p[2] < at[d])
  BY <1>3 DEF Past
<1>8. p = q <=> (p[1] = current[d] /\ p[2] = at[d])
  BY <1>4
<1>9. p[2] \in Nat
  BY <1>4
<1>10. QED
  BY <1>2, <1>3, <1>6, <1>7, <1>8, <1>9

\* A deployment gets past statements by executing them.
LEMMA PastByExecuting ==
  ASSUME TypeInv, NEW d \in Deployments, Act(d), ~Execute(d), NEW p \in Positions, Past(d, p)'
  PROVE  FALSE
<1>1. pc'[d] \in {"execute", "mark"}
  BY DEF Past
<1>2. Before(d)
  <2>1. ~Run(d) /\ ~Rollback(d) /\ ~ReadFiles(d) /\ ~Mark(d) /\ ~Fail(d) /\ ~OnError(d)
    BY <1>1 DEF Run, Rollback, ReadFiles, Mark, Fail, OnError, Goto, TypeInv, TypeOK
  <2>2. ~Status(d) /\ ~Choose(d) /\ ~Delete(d) /\ ~Kill(d)
    BY <1>1 DEF Status, Choose, Delete, Kill, Goto, TypeInv, TypeOK
  <2>3. ~Plan(d) /\ ~After(d)
    BY <1>1 DEF Plan, After, Continue, Goto, TypeInv, TypeOK
  <2>4. QED
    BY <2>1, <2>2, <2>3 DEF Act, Step
<1>3. /\ current'[d] = current[d] /\ at'[d] = 1
      /\ pc'[d] = IF Len(Statements[current[d]]) = 0 THEN "mark" ELSE "execute"
  BY <1>2 DEF Before, Goto, TypeInv, TypeOK
<1>4. p[2] \in 1 .. Len(Statements[p[1]])
  BY PositionsAre
<1>5. CASE Len(Statements[current[d]]) = 0
  BY <1>3, <1>4, <1>5 DEF Past
<1>6. CASE Len(Statements[current[d]]) # 0
  BY <1>3, <1>4, <1>6 DEF Past
<1>7. QED
  BY <1>5, <1>6

\* Statements are executed, and never less often than before.
LEMMA EffectsGrow ==
  ASSUME TypeInv, NEW d \in Deployments, Act(d), NEW p \in Positions, effects[p] > 0
  PROVE  effects'[p] > 0
<1>1. effects[p] \in Nat
  BY DEF TypeInv, TypeOK
<1>2. CASE Execute(d)
  BY <1>1, <1>2, ExecuteEffect
<1>3. CASE ~Execute(d)
  BY <1>3, EffectsKept
<1>4. QED
  BY <1>2, <1>3

\* Of a deployment that takes no step, what it has passed stays.
LEMMA PastOfOthers ==
  ASSUME TypeInv, NEW d \in Deployments, Act(d), NEW e \in Deployments, e # d, NEW p \in Positions
  PROVE  Past(e, p)' <=> Past(e, p)
BY OthersAreLeft DEF Left, Past

\* Nothing is executed and nothing recorded at the start.
LEMMA InitExec == Init => ExecInv
BY DEF Init, ExecInv, Past, AppliedWasExecuted, Applied

\* A row comes when its deployment is past every statement of the file.
LEMMA StepExec == TypeInv /\ ExecInv /\ [Next]_vars => ExecInv'
<1> SUFFICES ASSUME TypeInv, ExecInv, [Next]_vars PROVE ExecInv'
  OBVIOUS
<1>1. CASE UNCHANGED vars
  BY <1>1 DEF vars, ExecInv, Past, AppliedWasExecuted, Applied
<1>2. ASSUME NEW f \in Files, Write(f) PROVE ExecInv'
  BY <1>2 DEF Write, ExecInv, Past, AppliedWasExecuted, Applied
<1>3. ASSUME NEW d \in Deployments, Act(d) PROVE ExecInv'
  <2>1. ASSUME NEW e \in Deployments, NEW p \in Positions, Past(e, p)' PROVE effects'[p] > 0
    <3>1. CASE Past(e, p)
      BY <1>3, <3>1, EffectsGrow DEF ExecInv
    <3>2. CASE ~Past(e, p)
      <4>1. e = d /\ Execute(d)
        BY <1>3, <2>1, <3>2, PastOfOthers, PastByExecuting
      <4>2. p = <<current[d], at[d]>> /\ effects'[p] = effects[p] + 1
        BY <2>1, <3>2, <4>1, ExecuteEffect
      <4>3. QED
        BY <4>2 DEF TypeInv, TypeOK
    <3>3. QED
      BY <3>1, <3>2
  <2>2. ASSUME NEW f \in Applied', NEW p \in Positions, p[1] = f PROVE effects'[p] > 0
    <3>1. CASE f \in Applied
      BY <1>3, <2>2, <3>1, EffectsGrow DEF ExecInv, AppliedWasExecuted
    <3>2. CASE f \notin Applied
      <4>1. Mark(d)
        BY <1>3, <2>2, <3>2, TableKept, DeleteEffect
      <4>2. Past(d, p)
        BY <2>2, <3>2, <4>1, MarkEffect DEF Past, Mark
      <4>3. QED
        BY <1>3, <4>2, EffectsGrow DEF ExecInv
    <3>3. QED
      BY <3>1, <3>2
  <2>3. QED
    BY <2>1, <2>2 DEF ExecInv, AppliedWasExecuted
<1>4. QED
  BY <1>1, <1>2, <1>3 DEF Next, Act

\* An insertion is counted where the row is.
LEMMA StepWins == TypeInv /\ WinsInv /\ [Next]_vars => WinsInv'
<1> SUFFICES ASSUME TypeInv, WinsInv, [Next]_vars PROVE WinsInv'
  OBVIOUS
<1>1. CASE UNCHANGED vars \/ \E f \in Files : Write(f)
  BY <1>1 DEF vars, Write, WinsInv, Applied
<1>2. ASSUME NEW d \in Deployments, Act(d) PROVE WinsInv'
  <2>1. CASE Mark(d)
    <3>1. wins' = [wins EXCEPT ![current[d]] = @ + 1] /\ current[d] \notin Applied
      BY <2>1 DEF Mark
    <3>2. wins \in [Files -> Nat]
      BY DEF TypeInv, TypeOK
    <3>3. Applied' = Applied \cup {current[d]} /\ current[d] \in Files
      BY <2>1, MarkEffect
    <3>4. ASSUME NEW f \in Files PROVE wins'[f] = IF f \in Applied' THEN 1 ELSE 0
      <4>1. wins[f] = IF f \in Applied THEN 1 ELSE 0
        BY DEF WinsInv
      <4>2. QED
        BY <3>1, <3>2, <3>3, <4>1
    <3>5. QED
      BY <3>4 DEF WinsInv
  <2>2. CASE Delete(d)
    <3>1. wins' = [wins EXCEPT ![chosen[d]] = 0]
      BY <2>2 DEF Delete
    <3>2. wins \in [Files -> Nat]
      BY DEF TypeInv, TypeOK
    <3>3. Applied' = Applied \ {chosen[d]}
      BY <2>2, DeleteEffect
    <3>4. ASSUME NEW f \in Files PROVE wins'[f] = IF f \in Applied' THEN 1 ELSE 0
      <4>1. wins[f] = IF f \in Applied THEN 1 ELSE 0
        BY DEF WinsInv
      <4>2. QED
        BY <3>1, <3>2, <3>3, <4>1
    <3>5. QED
      BY <3>4 DEF WinsInv
  <2>3. CASE ~Mark(d) /\ ~Delete(d)
    BY <1>2, <2>3, TableKept DEF WinsInv
  <2>4. QED
    BY <2>1, <2>2, <2>3
<1>3. QED
  BY <1>1, <1>2 DEF Next, Act

-----------------------------------------------------------------------------
(* As long as commands do not overlap *)

\* A command that begins finds no other under way; any other step is the one
\* of the only command that is.
LEMMA AloneActs ==
  ASSUME TypeInv, SoloInv, ~raced', NEW d \in Deployments, Act(d)
  PROVE  /\ ~raced /\ Alone /\ Once
         /\ \A e \in Deployments \ {d} : ~Running(e) /\ ~Running(e)'
<1>1. CASE Run(d) \/ Rollback(d)
  <2>1. ~raced /\ \A e \in Deployments : ~Running(e)
    BY <1>1 DEF Run, Rollback
  <2>2. \A e \in Deployments \ {d} : Running(e)' <=> Running(e)
    BY OthersAreLeft DEF Left, Running
  <2>3. QED
    BY <2>1, <2>2 DEF SoloInv
<1>2. CASE ~Run(d) /\ ~Rollback(d)
  <2>1. raced' = raced
    BY <1>2 DEF Act, Step, ReadFiles, Plan, Before, Execute, Mark, After, Fail, OnError, Status,
       Choose, Delete, Kill, RunKeeps
  <2>2. Running(d)
    BY <1>2 DEF Act, Step, ReadFiles, Plan, Before, Execute, Mark, After, Fail, OnError, Status,
       Choose, Delete, Kill, Running
  <2>3. Alone /\ Once
    BY <2>1 DEF SoloInv
  <2>4. \A e \in Deployments \ {d} : ~Running(e)
    BY <2>2, <2>3 DEF Alone
  <2>5. \A e \in Deployments \ {d} : Running(e)' <=> Running(e)
    BY OthersAreLeft DEF Left, Running
  <2>6. QED
    BY <2>1, <2>3, <2>4, <2>5
<1>3. QED
  BY <1>1, <1>2

\* What a deployment may be at after its step, and what it keeps.
OwnAlone(d) ==
  /\ pc[d] \in {"before", "execute", "mark"} => queue[d] \cap Applied = {}
  /\ pc[d] = "after" => queue[d] \cap Applied \subseteq {current[d]}
  /\ pc[d] \in RunPcs => undone[d] = {}

\* A deployment alone keeps its queue unrecorded, and nothing is rolled back under it.
LEMMA StaysAlone ==
  ASSUME TypeInv, NEW d \in Deployments, Act(d), OwnAlone(d)
  PROVE  OwnAlone(d)'
<1>1. CASE Run(d)
  BY <1>1 DEF Run, Goto, OwnAlone, RunPcs, Migrating, TypeInv, TypeOK
<1>2. CASE Rollback(d)
  BY <1>2 DEF Rollback, Goto, OwnAlone, RunPcs, Migrating, TypeInv, TypeOK
<1>3. CASE ReadFiles(d)
  BY <1>3 DEF ReadFiles, RunKeeps, Goto, OwnAlone, RunPcs, Migrating, TypeInv, TypeOK
<1>4. CASE Plan(d)
  <2>1. Continue(d, listed[d] \ Applied) /\ listed[d] \ Applied \in SUBSET listed[d]
    BY <1>4 DEF Plan
  <2>2. pc[d] = "plan" /\ table' = table /\ undone' = undone
    BY <1>4 DEF Plan, RunKeeps
  <2>3. Applied' = Applied /\ undone[d] = {}
    BY <2>2 DEF Applied, OwnAlone, RunPcs
  <2>4. queue'[d] = listed[d] \ Applied /\ pc'[d] \in {"idle", "before"}
    BY <2>1, ContinueEffect
  <2>5. QED
    BY <2>2, <2>3, <2>4 DEF OwnAlone
<1>5. CASE Before(d)
  BY <1>5 DEF Before, RunKeeps, Goto, OwnAlone, RunPcs, Migrating, TypeInv, TypeOK, Applied
<1>6. CASE Execute(d)
  BY <1>6 DEF Execute, RunKeeps, Goto, OwnAlone, RunPcs, Migrating, TypeInv, TypeOK, Applied
<1>7. CASE Mark(d)
  <2>1. Applied' = Applied \cup {current[d]}
    BY <1>7, MarkEffect
  <2>2. pc[d] = "mark" /\ pc'[d] = "after" /\ undone' = undone /\ queue' = queue /\ current' = current
    BY <1>7 DEF Mark, RunKeeps, Goto, TypeInv, TypeOK
  <2>3. QED
    BY <2>1, <2>2 DEF OwnAlone, RunPcs, Migrating
<1>8. CASE After(d)
  <2>1. Continue(d, queue[d] \ {current[d]}) /\ queue[d] \ {current[d]} \in SUBSET listed[d]
    BY <1>8 DEF After, TypeInv, Control
  <2>2. pc[d] = "after" /\ table' = table /\ undone' = undone
    BY <1>8 DEF After, RunKeeps
  <2>3. Applied' = Applied /\ undone[d] = {}
    BY <2>2 DEF Applied, OwnAlone, RunPcs, Migrating
  <2>4. queue'[d] = queue[d] \ {current[d]} /\ pc'[d] \in {"idle", "before"}
    BY <2>1, ContinueEffect
  <2>5. QED
    BY <2>2, <2>3, <2>4 DEF OwnAlone
<1>9. CASE Fail(d)
  <2>1. pc[d] \in Migrating /\ pc'[d] = "error" /\ undone' = undone
    BY <1>9 DEF Fail, RunKeeps, Goto, TypeInv, TypeOK, Migrating
  <2>2. QED
    BY <2>1 DEF OwnAlone, RunPcs, Migrating
<1>10. CASE OnError(d) \/ Status(d) \/ Choose(d) \/ Delete(d) \/ Kill(d)
  <2>1. pc'[d] \in {"idle", "failed", "choose", "delete"}
    BY <1>10 DEF OnError, Status, Choose, Delete, Kill, Goto, TypeInv, TypeOK
  <2>2. QED
    BY <2>1 DEF OwnAlone, RunPcs, Migrating
<1>11. QED
  BY <1>1, <1>2, <1>3, <1>4, <1>5, <1>6, <1>7, <1>8, <1>9, <1>10 DEF Act, Step

\* A statement that was passed stays so until its file is recorded or has had trouble.
LEMMA PastStays ==
  ASSUME TypeInv, NEW d \in Deployments, Act(d), NEW p \in Positions, Past(d, p)
  PROVE  Past(d, p)' \/ p[1] \in Applied' \/ p[1] \in excused'
<1>1. pc[d] \in {"execute", "mark"} /\ p[1] = current[d]
  BY DEF Past
<1>2. CASE Execute(d)
  BY <1>2, ExecuteEffect
<1>3. CASE Mark(d)
  BY <1>1, <1>3, MarkEffect
<1>4. CASE Fail(d) \/ Kill(d)
  BY <1>1, <1>4 DEF Fail, Kill
<1>5. QED
  BY <1>1, <1>2, <1>3, <1>4 DEF Act, Step, Run, Rollback, ReadFiles, Plan, Before, After, OnError,
     Status, Choose, Delete, Running

\* A record stays until it is rolled back, and what had trouble is remembered.
LEMMA RecordStays ==
  ASSUME TypeInv, NEW d \in Deployments, Act(d)
  PROVE  Applied \subseteq Applied' \cup excused' /\ excused \subseteq excused'
<1>1. excused \subseteq excused'
  BY DEF Act, Step, Run, Rollback, ReadFiles, Plan, Before, Execute, Mark, After, Fail, OnError,
     Status, Choose, Delete, Kill
<1>2. CASE Delete(d)
  BY <1>2, DeleteEffect DEF Delete
<1>3. CASE Mark(d)
  BY <1>1, <1>3, MarkEffect
<1>4. CASE ~Mark(d) /\ ~Delete(d)
  BY <1>1, <1>4, TableKept
<1>5. QED
  BY <1>1, <1>2, <1>3, <1>4

\* No command is under way at the start.
LEMMA InitSolo == Init => SoloInv
BY DEF Init, SoloInv, Alone, Once, Running, RunPcs, Migrating

\* Without an overlap a statement is executed a second time only after its file
\* had trouble: until the file is recorded one deployment is past the statement.
LEMMA StepSolo == TypeInv /\ SoloInv /\ [Next]_vars => SoloInv'
<1> SUFFICES ASSUME TypeInv, SoloInv, [Next]_vars, ~raced' PROVE Alone' /\ Once'
  BY DEF SoloInv
<1>1. CASE UNCHANGED vars
  BY <1>1 DEF vars, SoloInv, Alone, Once, Running, Past, Applied
<1>2. ASSUME NEW f \in Files, Write(f) PROVE Alone' /\ Once'
  BY <1>2 DEF Write, SoloInv, Alone, Once, Running, Past, Applied
<1>3. ASSUME NEW d \in Deployments, Act(d) PROVE Alone' /\ Once'
  <2>1. ~raced /\ Alone /\ Once /\ \A e \in Deployments \ {d} : ~Running(e) /\ ~Running(e)'
    BY <1>3, AloneActs
  <2>2. Alone'
    <3>1. OwnAlone(d)
      BY <2>1 DEF Alone, OwnAlone
    <3>2. OwnAlone(d)'
      BY <1>3, <3>1, StaysAlone
    <3>3. \A e \in Deployments \ {d} : pc'[e] \in {"idle", "failed"}
      BY <2>1 DEF Running
    <3>4. \A e \in Deployments : OwnAlone(e)'
      BY <3>2, <3>3 DEF OwnAlone, RunPcs, Migrating
    <3>5. QED
      BY <2>1, <3>4 DEF Alone, OwnAlone
  <2>3. ASSUME NEW p \in Positions, p[1] \notin excused', effects'[p] > 0
        PROVE  effects'[p] = 1 /\ (p[1] \in Applied' \/ \E e \in Deployments : Past(e, p)')
    <3>1. p[1] \notin excused /\ (p[1] \in Applied => p[1] \in Applied')
      BY <1>3, <2>3, RecordStays
    <3>2. ASSUME effects[p] > 0
          PROVE  effects[p] = 1 /\ (p[1] \in Applied \/ \E e \in Deployments : Past(e, p))
      BY <2>1, <3>1, <3>2 DEF Once
    <3>3. \A e \in Deployments : Past(e, p) => e = d
      BY <2>1 DEF Past, Running
    <3>4. CASE Execute(d) /\ p = <<current[d], at[d]>>
      <4>1. effects'[p] = effects[p] + 1 /\ Past(d, p)' /\ effects[p] \in Nat
        BY <3>4, ExecuteEffect DEF TypeInv, TypeOK
      <4>2. p[1] \notin Applied
        <5>1. pc[d] = "execute" /\ p[1] = current[d]
          BY <3>4 DEF Execute
        <5>2. current[d] \in queue[d]
          BY <5>1, CurrentIsFile DEF Migrating
        <5>3. QED
          BY <2>1, <5>1, <5>2 DEF Alone
      <4>3. ~Past(d, p)
        <5>1. pc[d] = "execute" /\ p[2] = at[d] /\ at[d] \in Nat
          BY <3>4 DEF Execute, TypeInv, TypeOK
        <5>2. QED
          BY <5>1 DEF Past
      <4>4. QED
        BY <3>2, <3>3, <4>1, <4>2, <4>3
    <3>5. CASE ~(Execute(d) /\ p = <<current[d], at[d]>>)
      <4>1. effects'[p] = effects[p]
        BY <1>3, <3>5, EffectsKept, ExecuteEffect
      <4>2. effects[p] = 1 /\ (p[1] \in Applied \/ Past(d, p))
        BY <2>3, <3>2, <3>3, <4>1
      <4>3. QED
        BY <1>3, <2>3, <3>1, <4>1, <4>2, PastStays
    <3>6. QED
      BY <3>4, <3>5
  <2>4. QED
    BY <2>2, <2>3 DEF Once
<1>4. QED
  BY <1>1, <1>2, <1>3 DEF Next, Act

-----------------------------------------------------------------------------
(* Files come, are recorded and are rolled back in their order *)

\* What a run has listed was all there was, but for files written since.
LEMMA StepLate == TypeInv /\ LateInv /\ [Next]_vars => LateInv'
<1> SUFFICES ASSUME TypeInv, LateInv, [Next]_vars, ~late',
                    NEW e \in Deployments, NEW f \in dir' \ listed'[e], NEW g \in listed'[e]
             PROVE  g < f
  BY DEF LateInv
<1>1. CASE UNCHANGED vars
  BY <1>1 DEF vars, LateInv
<1>2. ASSUME NEW h \in Files, Write(h) PROVE g < f
  <2>1. listed' = listed /\ dir' = dir \cup {h} /\ h \notin dir /\ ~late /\ ~(g > h)
    BY <1>2 DEF Write
  <2>2. g \in Nat /\ h \in Nat /\ g \in dir
    BY <2>1 DEF TypeInv, TypeOK, Control, Files
  <2>3. QED
    BY <2>1, <2>2 DEF LateInv
<1>3. ASSUME NEW d \in Deployments, Act(d) PROVE g < f
  <2>1. dir' = dir /\ late' = late
    BY <1>3 DEF Act, Step, Run, Rollback, ReadFiles, Plan, Before, Execute, Mark, After, Fail,
       OnError, Status, Choose, Delete, Kill, RunKeeps, RollbackKeeps
  <2>2. CASE ReadFiles(d) /\ e = d
    BY <2>1, <2>2 DEF ReadFiles, TypeInv, TypeOK
  <2>3. CASE ~(ReadFiles(d) /\ e = d)
    <3>1. listed'[e] = listed[e]
      <4>1. CASE e # d
        BY <1>3, <4>1, OthersAreLeft DEF Left
      <4>2. CASE e = d
        BY <1>3, <2>3, <4>2 DEF Act, Step, Run, Rollback, Plan, Before, Execute, Mark, After, Fail,
           OnError, Status, Choose, Delete, Kill, RunKeeps, RollbackKeeps
      <4>3. QED
        BY <4>1, <4>2
    <3>2. QED
      BY <2>1, <3>1 DEF LateInv
  <2>4. QED
    BY <2>2, <2>3
<1>4. QED
  BY <1>1, <1>2, <1>3 DEF Next, Act

\* The next file of a run that is alone comes after all that are recorded, and
\* before all that are still to be.
LEMMA MarkIsNext ==
  ASSUME TypeInv, RunInv, LateInv, Alone, InOrder, ~late, NEW d \in Deployments, pc[d] = "mark"
  PROVE  /\ \A g \in Applied : g < current[d]
         /\ \A f \in dir \ Applied : current[d] <= f
<1>1. current[d] \in queue[d] /\ current[d] \in dir /\ queue[d] \subseteq listed[d]
  BY CurrentIsFile DEF Migrating, TypeInv, Control
<1>2. current[d] \notin Applied /\ undone[d] = {}
  BY <1>1 DEF Alone, RunPcs, Migrating
<1>3. \A g \in Applied : g < current[d]
  BY <1>1, <1>2 DEF InOrder
<1>4. ASSUME NEW f \in dir \ Applied PROVE current[d] <= f
  <2>1. CASE f \notin listed[d]
    <3>1. current[d] < f
      BY <1>1, <2>1 DEF LateInv
    <3>2. QED
      BY <3>1, <1>1 DEF TypeInv, TypeOK, Files
  <2>2. CASE f \in listed[d]
    <3>1. f \in queue[d]
      BY <1>2, <1>4, <2>2 DEF RunInv, Covered, Migrating
    <3>2. QED
      BY <3>1 DEF TypeInv, Control, Migrating
  <2>3. QED
    BY <2>1, <2>2
<1>5. QED
  BY <1>3, <1>4

\* The tracking table keeps the order of the files.
LEMMA StepInOrder ==
  ASSUME IInv, NEW d \in Deployments, Act(d), ~raced', ~late'
  PROVE  InOrder'
<1>1. TypeInv /\ RunInv /\ ~raced /\ Alone
  BY AloneActs DEF IInv
<1>2. dir' = dir /\ ~late
  BY DEF Act, Step, Run, Rollback, ReadFiles, Plan, Before, Execute, Mark, After, Fail, OnError,
     Status, Choose, Delete, Kill, RunKeeps, RollbackKeeps
<1>3. InOrder /\ LastPrinted /\ LateInv /\ RollbackPrintsItsFile
  BY <1>1, <1>2 DEF IInv, OrderInv
<1>4. CASE Mark(d)
  <2> DEFINE c == current[d]
  <2>1. /\ c \in Files /\ Applied' = Applied \cup {c}
        /\ table'[c] = nextId
        /\ \A f \in Files \ {c} : table'[f] = table[f]
    BY <1>1, <1>4, MarkEffect
  <2>2. (\A g \in Applied : g < c) /\ \A f \in dir \ Applied : c <= f
    BY <1>1, <1>2, <1>3, <1>4, MarkIsNext DEF Mark
  <2>3. Applied \subseteq Files /\ dir \subseteq Files /\ Files \subseteq Nat /\ c \notin Applied
    BY <1>1, <1>4 DEF TypeInv, TypeOK, Applied, Files, Mark
  <2> HIDE DEF c
  <2>4. ASSUME NEW f \in Applied', NEW g \in Applied', f < g PROVE table'[f] < table'[g]
    <3>1. f # c
      BY <2>1, <2>2, <2>3, <2>4
    <3>2. f \in Applied /\ table'[f] = table[f]
      BY <2>1, <2>3, <3>1
    <3>3. CASE g = c
      BY <1>1, <2>1, <2>3, <3>2, <3>3 DEF TypeInv
    <3>4. CASE g # c
      BY <1>3, <2>1, <2>3, <2>4, <3>2, <3>4 DEF InOrder
    <3>5. QED
      BY <3>3, <3>4
  <2>5. ASSUME NEW f \in dir \ Applied', NEW g \in Applied' PROVE g < f
    <3>1. f \in dir \ Applied /\ f # c
      BY <2>1
    <3>2. CASE g = c
      <4>1. c <= f /\ f \in Nat /\ c \in Nat
        BY <2>1, <2>2, <2>3, <3>1
      <4>2. QED
        BY <3>1, <3>2, <4>1
    <3>3. CASE g # c
      BY <1>3, <2>1, <3>1, <3>3 DEF InOrder
    <3>4. QED
      BY <3>2, <3>3
  <2>6. QED
    BY <1>2, <2>4, <2>5 DEF InOrder
<1>5. CASE Delete(d)
  <2> DEFINE c == chosen[d]
  <2>1. Applied' = Applied \ {c} /\ \A f \in Files \ {c} : table'[f] = table[f]
    BY <1>1, <1>5, DeleteEffect
  <2>2. pc[d] = "delete" /\ printed[d] = c
    BY <1>1, <1>2, <1>3, <1>5 DEF Delete, RollbackPrintsItsFile
  <2>3. c \in Applied /\ \A g \in Applied : g <= c
    BY <1>3, <2>2 DEF LastPrinted
  <2>4. Applied \subseteq Files /\ dir \subseteq Files /\ Files \subseteq Nat
    BY <1>1 DEF TypeInv, TypeOK, Applied, Files
  <2> HIDE DEF c
  <2>5. ASSUME NEW f \in Applied', NEW g \in Applied', f < g PROVE table'[f] < table'[g]
    BY <1>3, <2>1, <2>4, <2>5 DEF InOrder
  <2>6. ASSUME NEW f \in dir \ Applied', NEW g \in Applied' PROVE g < f
    <3>1. CASE f = c
      BY <2>1, <2>3, <2>4, <3>1
    <3>2. CASE f # c
      BY <1>3, <2>1, <3>2 DEF InOrder
    <3>3. QED
      BY <3>1, <3>2
  <2>7. QED
    BY <1>2, <2>5, <2>6 DEF InOrder
<1>6. CASE ~Mark(d) /\ ~Delete(d)
  BY <1>1, <1>2, <1>3, <1>6, TableKept DEF InOrder
<1>7. QED
  BY <1>4, <1>5, <1>6

\* What a rollback prints is the last file, until it deletes the row.
LEMMA StepPrinted ==
  ASSUME IInv, NEW d \in Deployments, Act(d), ~raced'
  PROVE  LastPrinted'
<1>1. TypeInv /\ ~raced /\ \A e \in Deployments \ {d} : ~Running(e)'
  BY AloneActs DEF IInv
<1>2. LastPrinted
  BY <1>1 DEF IInv, OrderInv
<1>3. \A e \in Deployments \ {d} : pc'[e] \in {"idle", "failed"}
  BY <1>1 DEF Running
<1>4. SUFFICES ASSUME pc'[d] \in {"choose", "delete"}
               PROVE  printed'[d] \in Applied' /\ \A g \in Applied' : g <= printed'[d]
  BY <1>3 DEF LastPrinted
<1>5. Status(d) \/ Choose(d)
  <2>1. ~Run(d) /\ ~Rollback(d) /\ ~ReadFiles(d) /\ ~Mark(d) /\ ~Fail(d) /\ ~OnError(d)
    BY <1>1, <1>4 DEF Run, Rollback, ReadFiles, Mark, Fail, OnError, Goto, TypeInv, TypeOK
  <2>2. ~Before(d) /\ ~Execute(d) /\ ~Delete(d) /\ ~Kill(d)
    BY <1>1, <1>4 DEF Before, Execute, Delete, Kill, Goto, TypeInv, TypeOK
  <2>3. ~Plan(d) /\ ~After(d)
    BY <1>1, <1>4 DEF Plan, After, Continue, Goto, TypeInv, TypeOK
  <2>4. QED
    BY <2>1, <2>2, <2>3 DEF Act, Step
<1>6. CASE Status(d)
  <2>1. dir \cap Applied = Applied /\ Applied' = Applied
    BY <1>1, <1>6 DEF Status, TypeInv, Applied
  <2>2. \E f \in Applied : /\ \A g \in Applied : g <= f
                           /\ printed' = [printed EXCEPT ![d] = f]
    BY <1>1, <1>4, <1>6, <2>1 DEF Status, Goto, TypeInv, TypeOK
  <2>3. QED
    BY <1>1, <2>1, <2>2 DEF TypeInv, TypeOK
<1>7. CASE Choose(d)
  <2>1. pc[d] = "choose" /\ printed' = printed /\ Applied' = Applied
    BY <1>7 DEF Choose, Applied
  <2>2. QED
    BY <1>2, <2>1 DEF LastPrinted
<1>8. QED
  BY <1>5, <1>6, <1>7

\* The row that a rollback deletes is the one of the file it prints.
LEMMA StepChosen ==
  ASSUME IInv, NEW d \in Deployments, Act(d)
  PROVE  RollbackPrintsItsFile'
<1> SUFFICES ASSUME NEW e \in Deployments, pc'[e] = "delete", ~raced', ~late'
             PROVE  printed'[e] = chosen'[e]
  BY DEF RollbackPrintsItsFile
<1>1. TypeInv /\ ~raced /\ ~late /\ \A i \in Deployments \ {d} : ~Running(i)'
  <2>1. ~late
    BY DEF Act, Step, Run, Rollback, ReadFiles, Plan, Before, Execute, Mark, After, Fail, OnError,
       Status, Choose, Delete, Kill, RunKeeps, RollbackKeeps
  <2>2. QED
    BY <2>1, AloneActs DEF IInv
<1>2. InOrder /\ LastPrinted
  BY <1>1 DEF IInv, OrderInv
<1>3. e = d
  BY <1>1 DEF Running
<1>4. Choose(d)
  <2>1. ~Run(d) /\ ~Rollback(d) /\ ~ReadFiles(d) /\ ~Mark(d) /\ ~Fail(d) /\ ~OnError(d)
    BY <1>1, <1>3 DEF Run, Rollback, ReadFiles, Mark, Fail, OnError, Goto, TypeInv, TypeOK
  <2>2. ~Before(d) /\ ~Execute(d) /\ ~Delete(d) /\ ~Kill(d) /\ ~Status(d)
    BY <1>1, <1>3 DEF Before, Execute, Delete, Kill, Status, Goto, TypeInv, TypeOK
  <2>3. ~Plan(d) /\ ~After(d)
    BY <1>1, <1>3 DEF Plan, After, Continue, Goto, TypeInv, TypeOK
  <2>4. QED
    BY <2>1, <2>2, <2>3 DEF Act, Step
<1>5. \E f \in Applied : /\ \A g \in Applied : table[g] <= table[f]
                         /\ chosen' = [chosen EXCEPT ![d] = f]
  BY <1>1, <1>3, <1>4 DEF Choose, Goto, TypeInv, TypeOK
<1>6. PICK f \in Applied : /\ \A g \in Applied : table[g] <= table[f]
                           /\ chosen' = [chosen EXCEPT ![d] = f]
  BY <1>5
<1>7. printed[d] \in Applied /\ (\A g \in Applied : g <= printed[d]) /\ printed' = printed
  BY <1>2, <1>4 DEF Choose, LastPrinted
<1>8. Applied \subseteq Files /\ Files \subseteq Nat /\ \A g \in Files : table[g] \in Nat
  <2>1. table \in [Files -> Nat] /\ Applied \subseteq Files
    BY <1>1 DEF TypeInv, TypeOK, Applied
  <2>2. Files \subseteq Nat
    BY DEF Files
  <2>3. QED
    BY <2>1, <2>2
<1>9. f = printed[d]
  <2>1. f <= printed[d] /\ table[printed[d]] <= table[f]
    BY <1>6, <1>7
  <2>2. ~(f < printed[d])
    <3>1. f < printed[d] => table[f] < table[printed[d]]
      BY <1>2, <1>6, <1>7 DEF InOrder
    <3>2. table[f] \in Nat /\ table[printed[d]] \in Nat
      BY <1>6, <1>7, <1>8
    <3>3. QED
      BY <2>1, <3>1, <3>2
  <2>3. f \in Nat /\ printed[d] \in Nat
    BY <1>7, <1>8
  <2>4. QED
    BY <2>1, <2>2, <2>3
<1>10. QED
  BY <1>1, <1>3, <1>6, <1>7, <1>9 DEF TypeInv, TypeOK

\* With no rows there is no order to break.
LEMMA InitOrder == Init => OrderInv
BY DEF Init, OrderInv, LateInv, LastPrinted, InOrder, RollbackPrintsItsFile, Applied

\* Every step keeps the order of files and rows, while none is written late
\* and no commands overlap.
LEMMA StepOrder == IInv /\ [Next]_vars => OrderInv'
<1> SUFFICES ASSUME IInv, [Next]_vars PROVE OrderInv'
  OBVIOUS
<1>1. LateInv'
  BY StepLate DEF IInv, OrderInv
<1>2. CASE UNCHANGED vars
  BY <1>1, <1>2 DEF vars, IInv, OrderInv, LastPrinted, InOrder, RollbackPrintsItsFile, Applied
<1>3. ASSUME NEW f \in Files, Write(f) PROVE OrderInv'
  <2>1. UNCHANGED <<table, pc, printed, chosen, raced>> /\ Applied' = Applied
    BY <1>3 DEF Write, Applied
  <2>2. ~late' => ~late /\ \A a \in Applied : ~(a > f)
    BY <1>3 DEF Write
  <2>3. ~raced' => LastPrinted'
    BY <2>1 DEF IInv, OrderInv, LastPrinted
  <2>4. RollbackPrintsItsFile'
    BY <2>1, <2>2, <1>3 DEF Write, IInv, OrderInv, RollbackPrintsItsFile
  <2>5. ASSUME ~raced', ~late' PROVE InOrder'
    <3>1. InOrder /\ \A a \in Applied : ~(a > f)
      BY <2>1, <2>2, <2>5 DEF IInv, OrderInv
    <3>2. dir' = dir \cup {f} /\ f \notin dir
      BY <1>3 DEF Write
    <3>3. Applied \subseteq dir /\ Applied \subseteq Nat /\ f \in Nat
      BY DEF IInv, TypeInv, TypeOK, Files, Applied
    <3>4. \A a \in Applied : a < f
      BY <3>1, <3>2, <3>3
    <3>5. QED
      BY <2>1, <3>1, <3>2, <3>4 DEF InOrder
  <2>6. QED
    BY <1>1, <2>3, <2>4, <2>5 DEF OrderInv
<1>4. ASSUME NEW d \in Deployments, Act(d) PROVE OrderInv'
  BY <1>1, <1>4, StepInOrder, StepPrinted, StepChosen DEF OrderInv
<1>5. QED
  BY <1>2, <1>3, <1>4 DEF Next, Act

-----------------------------------------------------------------------------
(* The theorems *)

\* The inductive invariant holds in every behaviour.
THEOREM Invariant == Spec => []IInv
<1>1. Init => IInv
  <2>1. Init => WinsInv
    BY DEF Init, WinsInv, Applied
  <2>2. QED
    BY <2>1, InitTypeInv, InitRuns, InitExec, InitSolo, InitOrder DEF IInv
<1>2. IInv /\ [Next]_vars => IInv'
  BY StepTypeInv, StepRuns, StepExec, StepWins, StepSolo, StepOrder DEF IInv
<1>3. QED
  BY <1>1, <1>2, PTL DEF Spec

\* The tracking table tells what was executed, once, and what a rollback takes
\* back: markApplied() comes after the last statement and meets a UNIQUE name,
\* a file without trouble is executed once, and the row a rollback deletes is
\* the one it printed.
THEOREM TrackingStaysTrue == Spec => []TrackingIsTrue
<1>1. IInv => TrackingIsTrue
  <2> SUFFICES ASSUME IInv PROVE TrackingIsTrue
    OBVIOUS
  <2>1. TypeOK /\ AppliedWasExecuted /\ RollbackPrintsItsFile
    BY DEF IInv, TypeInv, ExecInv, OrderInv
  <2>2. RepeatedOnlyAfterTrouble
    BY <2>1 DEF IInv, SoloInv, Once, RepeatedOnlyAfterTrouble, TypeOK
  <2>3. RecordedOnce
    BY DEF IInv, WinsInv, RecordedOnce
  <2>4. QED
    BY <2>1, <2>2, <2>3 DEF TrackingIsTrue
<1>2. QED
  BY <1>1, Invariant, PTL

\* A run that fails goes no further, and one that reports success has recorded
\* all files it listed, but for those a rollback took away meanwhile: the loop
\* of run() ends at the first error and starts a file only after the ones before.
THEOREM RunsStayHonest == Spec => []RunsAreHonest
<1>1. IInv => RunsAreHonest
  <2> SUFFICES ASSUME IInv PROVE RunsAreHonest
    OBVIOUS
  <2>1. StopsAtFirstError
    <3>1. SUFFICES ASSUME NEW d \in Deployments, pc[d] \in {"execute", "mark", "after"},
                          NEW f \in listed[d], f < current[d]
                   PROVE  f \in Applied \cup undone[d]
      BY DEF StopsAtFirstError
    <3>2. f \in queue[d] \cup Applied \cup undone[d]
      BY <3>1 DEF IInv, RunInv, Covered, Migrating
    <3>3. \A g \in queue[d] : current[d] <= g
      BY <3>1 DEF IInv, TypeInv, Control, Migrating
    <3>4. TypeInv /\ pc[d] \in Migrating
      BY <3>1 DEF IInv, Migrating
    <3>5. current[d] \in Files /\ f \in Files
      BY <3>1, <3>4, CurrentIsFile DEF TypeInv, TypeOK
    <3>6. f \in Nat /\ current[d] \in Nat
      BY <3>5 DEF Files
    <3>7. QED
      BY <3>1, <3>2, <3>3, <3>6
  <2>2. SuccessMeansUpToDate
    BY DEF IInv, RunInv, Covered, SuccessMeansUpToDate
  <2>3. QED
    BY <2>1, <2>2 DEF RunsAreHonest
<1>2. QED
  BY <1>1, Invariant, PTL
=============================================================================
