---------------------------- MODULE CronJobsProofs ----------------------------
(***************************************************************************)
(* Theorems about CronJobs, for all instances, jobs, TTLs and plugins, and *)
(* any number of runs and faults.                                          *)
(***************************************************************************)
EXTENDS CronJobs, SequenceTheorems, TLAPS

-----------------------------------------------------------------------------
(* The inductive invariant *)

\* An instance that does not listen, or is gone, has no timers and no runs.
Quiet ==
  \A i \in Instances : phase[i] \in {"created", "gone"} =>
    timers[i] = {} /\ \A r \in RunsOf(i) : run[r] = Idle

\* A lock is set while it has time left.
Expires == \A j \in Jobs : lock[j].left = 0 <=> lock[j].by = NoRun

\* A run has no age before it has the lock.
Young == \A r \in Runs : run[r].pc = "acquire" => run[r].age = 0

\* The TTL is what is left of the lock and the age of the run that set it,
\* until a run of the job outlives it.
Synced ==
  \A r \in Runs : Holding(r) /\ run[r].job \notin overdue =>
    /\ lock[run[r].job].by = r /\ run[r].age < Ttl
    /\ lock[run[r].job].left + run[r].age = Ttl

TypeInv == TypeOK /\ Quiet

LockInv == Expires /\ Young /\ Synced /\ LocksAreReleased

\* Who did not call close() yet has torn down nothing.
CloseInv == TeardownsInReverse /\ \A c \in Closers : closing[c] = NotClosing => torn[c] = <<>>

LockRecords == [by : Runs \cup {NoRun}, left : 0 .. Ttl]
RunRecords == [job : Jobs, pc : {"acquire", "handler", "release"}, age : 0 .. Ttl] \cup {Idle}

-----------------------------------------------------------------------------
(* Runs and callers *)

\* Runs and calls of close() are those of an instance.
LEMMA Belong ==
  /\ \A r \in Runs : r[1] \in Instances
  /\ NoRun \notin Runs
  /\ \A i \in Instances : \A c \in Callers[i] : <<i, c>> \in Closers
  /\ \A i \in Instances : RunsOf(i) \subseteq Runs
<1>1. ASSUME NEW r \in Runs PROVE r[1] \in Instances /\ r # NoRun
  <2>1. PICK i \in Instances : r \in {i} \X Slots[i]
    BY DEF Runs
  <2>2. QED
    BY <2>1, CronAssumption
<1>2. ASSUME NEW i \in Instances, NEW c \in Callers[i] PROVE <<i, c>> \in Closers
  BY DEF Closers
<1>3. QED
  BY <1>1, <1>2 DEF RunsOf

\* The records of locks and runs in the form the code writes them.
LEMMA Records ==
  /\ NoLock \in LockRecords /\ NoLock.by = NoRun /\ NoLock.left = 0
  /\ Idle \in RunRecords /\ Idle.pc = "idle" /\ Idle.age = 0
  /\ \A j \in Jobs : /\ Started(j) \in RunRecords /\ Started(j).pc = "acquire"
                     /\ Started(j).job = j /\ Started(j).age = 0
  /\ \A r \in Runs : [by |-> r, left |-> Ttl] \in LockRecords
  /\ Ttl \in Nat /\ Ttl # 0
BY CronAssumption DEF NoLock, Idle, Started, LockRecords, RunRecords

\* A run that is not idle is of a job.
LEMMA RunFields ==
  ASSUME NEW x \in RunRecords, x.pc # "idle"
  PROVE  /\ x.job \in Jobs /\ x.pc \in {"acquire", "handler", "release"} /\ x.age \in 0 .. Ttl
         /\ \A q \in {"acquire", "handler", "release"} :
              /\ [x EXCEPT !.pc = q] \in RunRecords /\ [x EXCEPT !.pc = q].pc = q
              /\ [x EXCEPT !.pc = q].job = x.job /\ [x EXCEPT !.pc = q].age = x.age
         /\ x.age < Ttl => /\ [x EXCEPT !.age = @ + 1] \in RunRecords
                           /\ [x EXCEPT !.age = @ + 1].age = x.age + 1
                           /\ [x EXCEPT !.age = @ + 1].pc = x.pc /\ [x EXCEPT !.age = @ + 1].job = x.job
<1>1. x \in [job : Jobs, pc : {"acquire", "handler", "release"}, age : 0 .. Ttl]
  BY DEF RunRecords, Idle
<1>2. ASSUME NEW q \in {"acquire", "handler", "release"}
      PROVE  /\ [x EXCEPT !.pc = q] \in RunRecords /\ [x EXCEPT !.pc = q].pc = q
             /\ [x EXCEPT !.pc = q].job = x.job /\ [x EXCEPT !.pc = q].age = x.age
  BY <1>1 DEF RunRecords
<1>3. ASSUME x.age < Ttl
      PROVE  /\ [x EXCEPT !.age = @ + 1] \in RunRecords
             /\ [x EXCEPT !.age = @ + 1].age = x.age + 1
             /\ [x EXCEPT !.age = @ + 1].pc = x.pc /\ [x EXCEPT !.age = @ + 1].job = x.job
  BY <1>1, <1>3, CronAssumption DEF RunRecords
<1>4. QED
  BY <1>1, <1>2, <1>3

\* A tick shortens a lock, or it expires.
LEMMA AgeOf ==
  ASSUME NEW l \in LockRecords
  PROVE  /\ Age(l) \in LockRecords
         /\ l.left <= 1 => Age(l) = NoLock
         /\ ~(l.left <= 1) => Age(l).by = l.by /\ Age(l).left = l.left - 1
<1>1. CASE l.left <= 1
  BY <1>1, Records DEF Age
<1>2. CASE ~(l.left <= 1)
  <2>1. Age(l) = [l EXCEPT !.left = @ - 1]
    BY <1>2 DEF Age
  <2>2. QED
    BY <1>2, <2>1, CronAssumption DEF LockRecords
<1>3. QED
  BY <1>1, <1>2

-----------------------------------------------------------------------------
(* Type correctness *)

\* At first nothing runs.
LEMMA InitTypeInv == Init => TypeInv
<1> SUFFICES ASSUME Init PROVE TypeInv
  OBVIOUS
<1>1. lock \in [Jobs -> LockRecords] /\ run \in [Runs -> RunRecords]
  BY Records DEF Init
<1>2. closing \in [Closers -> 0 .. NotClosing]
  BY CronAssumption DEF Init, NotClosing
<1>3. torn \in [Closers -> Seq(1 .. NumPlugins)] /\ timers \in [Instances -> SUBSET Jobs]
  BY DEF Init
<1>4. phase \in [Instances -> {"created", "listening", "closed", "gone"}] /\ faults \in 0 .. MaxFaults
      /\ overdue \subseteq Jobs /\ leaked \subseteq Jobs
  BY CronAssumption DEF Init
<1>5. Quiet
  BY Belong DEF Init, Quiet
<1>6. QED
  BY <1>1, <1>2, <1>3, <1>4, <1>5 DEF TypeInv, TypeOK, LockRecords, RunRecords

-----------------------------------------------------------------------------
(* What one step does to locks and runs *)

lockVars == <<lock, run, overdue, leaked>>

\* Only run r changes, to x.
Turns(r, x) == run' = [run EXCEPT ![r] = x]

\* Run r finds the lock of its job free and sets it.
Acquires(r) ==
  /\ run[r].pc = "acquire" /\ lock[run[r].job].left = 0
  /\ lock' = [lock EXCEPT ![run[r].job] = [by |-> r, left |-> Ttl]]
  /\ Turns(r, [run[r] EXCEPT !.pc = "handler"])
  /\ leaked' = leaked \ {run[r].job} /\ overdue' = overdue

\* It ends without the lock.
Drops(r) ==
  run[r].pc = "acquire" /\ Turns(r, Idle) /\ UNCHANGED <<lock, overdue, leaked>>

\* Its handler ends.
Ends(r) ==
  /\ run[r].pc = "handler" /\ Turns(r, [run[r] EXCEPT !.pc = "release"])
  /\ UNCHANGED <<lock, overdue, leaked>>

\* It deletes the lock of its job.
Releases(r) ==
  /\ run[r].pc = "release" /\ Turns(r, Idle)
  /\ lock' = [lock EXCEPT ![run[r].job] = NoLock]
  /\ leaked' = leaked \ {run[r].job} /\ overdue' = overdue

\* Runs are lost, and nobody releases what they have locked.
Forgets(rs) ==
  /\ run' = [r \in Runs |-> IF r \in rs THEN Idle ELSE run[r]]
  /\ leaked' = leaked \cup LeftBy(rs) /\ UNCHANGED <<lock, overdue>>

\* Runs start.
Begins ==
  /\ run' \in [Runs -> RunRecords]
  /\ \A r \in Runs : run'[r] = run[r] \/ (run[r] = Idle /\ \E j \in Jobs : run'[r] = Started(j))
  /\ UNCHANGED <<lock, overdue, leaked>>

Kinds ==
  \/ UNCHANGED lockVars
  \/ \E r \in Runs : Acquires(r) \/ Drops(r) \/ Ends(r) \/ Releases(r)
  \/ \E rs \in SUBSET Runs : Forgets(rs)
  \/ Begins
  \/ Tick

\* Listen() starts runs in free slots.
LEMMA ListenBegins ==
  ASSUME TypeInv, NEW i \in Instances, Listen(i)
  PROVE  Begins /\ \A r \in Runs : r[1] # i => run'[r] = run[r]
<1>1. PICK start \in [RunOnStart -> RunsOf(i)] :
        run' = [r \in Runs |-> IF \E j \in RunOnStart : start[j] = r
                               THEN Started(CHOOSE j \in RunOnStart : start[j] = r) ELSE run[r]]
  BY Zenon DEF Listen
<1>2. phase[i] = "created" /\ UNCHANGED <<lock, overdue, leaked>>
  BY DEF Listen
<1>3. \A r \in RunsOf(i) : run[r] = Idle
  BY <1>2 DEF TypeInv, Quiet
<1>4. ASSUME NEW r \in Runs PROVE /\ run'[r] = run[r] \/ (run[r] = Idle /\ \E j \in Jobs : run'[r] = Started(j))
                                  /\ r[1] # i => run'[r] = run[r]
  <2>1. CASE \E j \in RunOnStart : start[j] = r
    <3>1. PICK k \in RunOnStart : k = CHOOSE j \in RunOnStart : start[j] = r
      BY <2>1, Zenon
    <3>2. run'[r] = Started(k)
      BY <1>1, <2>1, <3>1
    <3>3. r \in RunsOf(i) /\ k \in Jobs
      BY <2>1, CronAssumption
    <3>4. QED
      BY <1>3, <3>2, <3>3 DEF RunsOf
  <2>2. CASE ~ \E j \in RunOnStart : start[j] = r
    BY <1>1, <2>2
  <2>3. QED
    BY <2>1, <2>2
<1>5. run' \in [Runs -> RunRecords]
  <2>1. run' = [r \in Runs |-> run'[r]]
    BY <1>1
  <2>2. run \in [Runs -> RunRecords]
    BY DEF TypeInv, TypeOK, RunRecords
  <2>3. \A r \in Runs : run'[r] \in RunRecords
    BY <1>4, <2>2, Records
  <2>4. QED
    BY <2>1, <2>3
<1>6. QED
  BY <1>2, <1>4, <1>5 DEF Begins

\* Every step is of one of these kinds.
LEMMA StepKinds ==
  ASSUME TypeInv, [Next]_vars
  PROVE  Kinds
<1>1. run \in [Runs -> RunRecords] /\ lock \in [Jobs -> LockRecords]
  BY DEF TypeInv, TypeOK, RunRecords, LockRecords
<1>2. ASSUME NEW r \in Runs, NEW x, run' = [run EXCEPT ![r] = x] PROVE Turns(r, x)
  BY <1>1, <1>2 DEF Turns
<1>3. ASSUME NEW r \in Runs, Acquire(r) PROVE Acquires(r) \/ Drops(r)
  <2>1. CASE lock[run[r].job].left = 0
    <3>1. run' = [run EXCEPT ![r] = [run[r] EXCEPT !.pc = "handler"]]
      BY <1>1, <1>3, <2>1 DEF Acquire
    <3>2. Turns(r, [run[r] EXCEPT !.pc = "handler"])
      BY <1>2, <3>1
    <3>3. QED
      BY <1>3, <2>1, <3>2 DEF Acquire, Acquires
  <2>2. CASE lock[run[r].job].left # 0
    <3>1. Turns(r, Idle)
      BY <1>2, <1>3, <2>2 DEF Acquire
    <3>2. QED
      BY <1>3, <2>2, <3>1 DEF Acquire, Drops
  <2>3. QED
    BY <2>1, <2>2
<1>4. ASSUME NEW r \in Runs, AcquireFails(r) PROVE Drops(r)
  BY <1>2, <1>4 DEF AcquireFails, Drops
<1>5. ASSUME NEW r \in Runs, HandlerEnds(r) PROVE Ends(r)
  <2>1. run' = [run EXCEPT ![r] = [run[r] EXCEPT !.pc = "release"]]
    BY <1>1, <1>5 DEF HandlerEnds
  <2>2. Turns(r, [run[r] EXCEPT !.pc = "release"])
    BY <1>2, <2>1
  <2>3. QED
    BY <1>5, <2>2 DEF HandlerEnds, Ends
<1>6. ASSUME NEW r \in Runs, Release(r) PROVE Releases(r)
  BY <1>2, <1>6 DEF Release, Releases
<1>7. ASSUME NEW r \in Runs, ReleaseFails(r) PROVE Forgets({r})
  <2>1. run' = [s \in Runs |-> IF s \in {r} THEN Idle ELSE run[s]]
    BY <1>1, <1>7 DEF ReleaseFails
  <2>2. QED
    BY <1>7, <2>1 DEF ReleaseFails, Forgets
<1>8. ASSUME NEW i \in Instances, Exit(i) \/ Crash(i) PROVE Forgets(RunsOf(i))
  <2>1. \A r \in Runs : r \in RunsOf(i) <=> r[1] = i
    BY DEF RunsOf
  <2>2. run' = [r \in Runs |-> IF r \in RunsOf(i) THEN Idle ELSE run[r]]
    BY <1>8, <2>1 DEF Exit, Crash, Vanish
  <2>3. QED
    BY <1>8, <2>2 DEF Exit, Crash, Vanish, Forgets
<1>9. ASSUME NEW i \in Instances, NEW j \in Jobs, Fire(i, j) PROVE Begins
  <2>1. PICK r \in RunsOf(i) : run[r] = Idle /\ run' = [run EXCEPT ![r] = Started(j)]
    BY <1>9 DEF Fire
  <2>2. r \in Runs
    BY DEF RunsOf
  <2>3. \A s \in Runs : run'[s] = run[s] \/ (run[s] = Idle /\ run'[s] = Started(j))
    BY <1>1, <2>1, <2>2
  <2>4. run' \in [Runs -> RunRecords]
    BY <1>1, <2>1, <2>2, Records
  <2>5. QED
    BY <1>9, <2>3, <2>4 DEF Fire, Begins
<1>10. ASSUME NEW i \in Instances, (\E c \in Callers[i] : Close(i, c) \/ Teardown(i, c)) \/ Restart(i)
       PROVE  UNCHANGED lockVars
  BY <1>10 DEF Close, Teardown, Restart, lockVars
<1>11. ASSUME NEW i \in Instances PROVE RunsOf(i) \in SUBSET Runs
  BY DEF RunsOf
<1>12. CASE UNCHANGED vars
  BY <1>12 DEF vars, lockVars, Kinds
<1>13. CASE Tick
  BY <1>13 DEF Kinds
<1>14. ASSUME NEW r \in Runs, RunStep(r) \/ AcquireFails(r) \/ ReleaseFails(r) PROVE Kinds
  BY <1>3, <1>4, <1>5, <1>6, <1>7, <1>14 DEF RunStep, Kinds
<1>15. ASSUME NEW i \in Instances, Listen(i) \/ CloseStep(i) \/ Crash(i) \/ Restart(i)
              \/ (\E c \in Callers[i] : Close(i, c)) \/ (\E j \in Jobs : Fire(i, j))
       PROVE  Kinds
  BY <1>8, <1>9, <1>10, <1>11, <1>15, ListenBegins DEF CloseStep, Kinds
<1>16. QED
  BY <1>12, <1>13, <1>14, <1>15 DEF Next

\* The types of locks and runs, and that nobody touches an idle run but to
\* start it.
LEMMA LockTypes ==
  ASSUME TypeInv, [Next]_vars
  PROVE  /\ lock' \in [Jobs -> LockRecords] /\ run' \in [Runs -> RunRecords]
         /\ overdue' \subseteq Jobs /\ leaked' \subseteq Jobs
<1>1. /\ lock \in [Jobs -> LockRecords] /\ run \in [Runs -> RunRecords]
      /\ overdue \subseteq Jobs /\ leaked \subseteq Jobs
  BY DEF TypeInv, TypeOK, RunRecords, LockRecords
<1>2. CASE UNCHANGED lockVars
  BY <1>1, <1>2 DEF lockVars
<1>3. ASSUME NEW r \in Runs, Acquires(r) \/ Drops(r) \/ Ends(r) \/ Releases(r)
      PROVE  /\ lock' \in [Jobs -> LockRecords] /\ run' \in [Runs -> RunRecords]
             /\ overdue' \subseteq Jobs /\ leaked' \subseteq Jobs
  <2>1. run[r] \in RunRecords /\ run[r].pc # "idle"
    BY <1>1, <1>3 DEF Acquires, Drops, Ends, Releases
  <2>2. /\ [run[r] EXCEPT !.pc = "handler"] \in RunRecords
        /\ [run[r] EXCEPT !.pc = "release"] \in RunRecords
        /\ run[r].job \in Jobs
    BY <2>1, RunFields
  <2>3. run' \in [Runs -> RunRecords]
    BY <1>1, <1>3, <2>2, Records DEF Acquires, Drops, Ends, Releases, Turns
  <2>4. lock' \in [Jobs -> LockRecords]
    BY <1>1, <1>3, Records DEF Acquires, Drops, Ends, Releases
  <2>5. QED
    BY <1>1, <1>3, <2>3, <2>4 DEF Acquires, Drops, Ends, Releases
<1>4. ASSUME NEW rs \in SUBSET Runs, Forgets(rs)
      PROVE  /\ lock' \in [Jobs -> LockRecords] /\ run' \in [Runs -> RunRecords]
             /\ overdue' \subseteq Jobs /\ leaked' \subseteq Jobs
  BY <1>1, <1>4, Records DEF Forgets, LeftBy
<1>5. CASE Begins
  BY <1>1, <1>5 DEF Begins
<1>6. CASE Tick
  <2>1. lock' \in [Jobs -> LockRecords]
    BY <1>1, <1>6, AgeOf DEF Tick
  <2>2. \A r \in Runs : (IF Holding(r) /\ run[r].age < Ttl THEN [run[r] EXCEPT !.age = @ + 1] ELSE run[r])
                          \in RunRecords
    <3> TAKE r \in Runs
    <3>1. run[r] \in RunRecords
      BY <1>1
    <3>2. CASE Holding(r) /\ run[r].age < Ttl
      <4>1. run[r].pc # "idle"
        BY <3>2 DEF Holding
      <4>2. [run[r] EXCEPT !.age = @ + 1] \in RunRecords
        BY <3>1, <3>2, <4>1, RunFields
      <4>3. QED
        BY <3>2, <4>2
    <3>3. CASE ~(Holding(r) /\ run[r].age < Ttl)
      BY <3>1, <3>3
    <3>4. QED
      BY <3>2, <3>3
  <2>3. run' \in [Runs -> RunRecords]
    BY <1>6, <2>2 DEF Tick
  <2>4. QED
    BY <1>1, <1>6, <2>1, <2>3 DEF Tick
<1>7. QED
  BY <1>2, <1>3, <1>4, <1>5, <1>6, StepKinds DEF Kinds

\* Runs are those of instances that listen or are closed.
LEMMA StepQuiet ==
  ASSUME TypeInv, [Next]_vars
  PROVE  Quiet'
<1>1. /\ phase \in [Instances -> {"created", "listening", "closed", "gone"}]
      /\ timers \in [Instances -> SUBSET Jobs] /\ run \in [Runs -> RunRecords] /\ Quiet
  BY DEF TypeInv, TypeOK, RunRecords
<1>2. ASSUME UNCHANGED <<phase, timers, run>> PROVE Quiet'
  BY <1>1, <1>2 DEF Quiet, RunsOf
<1>3. ASSUME UNCHANGED <<phase, timers>>, \A r \in Runs : run[r] = Idle => run'[r] = Idle PROVE Quiet'
  BY <1>1, <1>3 DEF Quiet, RunsOf
<1>4. ASSUME NEW r \in Runs, RunStep(r) \/ AcquireFails(r) \/ ReleaseFails(r) PROVE Quiet'
  <2>1. run[r].pc # "idle" /\ UNCHANGED <<phase, timers>>
    BY <1>4 DEF RunStep, Acquire, HandlerEnds, Release, AcquireFails, ReleaseFails
  <2>2. \A s \in Runs \ {r} : run'[s] = run[s]
    BY <1>1, <1>4 DEF RunStep, Acquire, HandlerEnds, Release, AcquireFails, ReleaseFails
  <2>3. QED
    BY <1>3, <2>1, <2>2, Records
<1>5. ASSUME NEW i \in Instances, NEW j \in Jobs, Fire(i, j) PROVE Quiet'
  <2>1. /\ j \in timers[i] /\ UNCHANGED <<phase, timers>>
        /\ \A s \in Runs : s \notin RunsOf(i) => run'[s] = run[s]
    BY <1>1, <1>5 DEF Fire
  <2>2. phase[i] \notin {"created", "gone"}
    BY <1>1, <2>1 DEF Quiet
  <2>3. QED
    BY <1>1, <2>1, <2>2 DEF Quiet, RunsOf
<1>6. ASSUME NEW i \in Instances, Listen(i) PROVE Quiet'
  <2>1. /\ phase'[i] = "listening" /\ \A k \in Instances \ {i} : phase'[k] = phase[k] /\ timers'[k] = timers[k]
    BY <1>1, <1>6 DEF Listen
  <2>2. \A r \in Runs : r[1] # i => run'[r] = run[r]
    BY <1>6, ListenBegins
  <2>3. QED
    BY <1>1, <2>1, <2>2 DEF Quiet, RunsOf
<1>7. ASSUME NEW i \in Instances, Vanish(i) PROVE Quiet'
  <2>1. /\ timers'[i] = {} /\ \A k \in Instances \ {i} : phase'[k] = phase[k] /\ timers'[k] = timers[k]
        /\ \A r \in Runs : run'[r] = IF r[1] = i THEN Idle ELSE run[r]
    BY <1>1, <1>7 DEF Vanish
  <2>2. QED
    BY <1>1, <2>1 DEF Quiet, RunsOf
<1>8. ASSUME NEW i \in Instances, NEW c \in Callers[i], Close(i, c) PROVE Quiet'
  <2>1. phase'[i] = "closed" /\ run' = run
        /\ \A k \in Instances \ {i} : phase'[k] = phase[k] /\ timers'[k] = timers[k]
    BY <1>1, <1>8 DEF Close
  <2>2. QED
    BY <1>1, <2>1 DEF Quiet, RunsOf
<1>9. ASSUME NEW i \in Instances, NEW c \in Callers[i], Teardown(i, c) PROVE Quiet'
  BY <1>2, <1>9 DEF Teardown
<1>10. ASSUME NEW i \in Instances, Restart(i) PROVE Quiet'
  <2>1. /\ phase[i] = "gone" /\ UNCHANGED <<timers, run>>
        /\ \A k \in Instances \ {i} : phase'[k] = phase[k]
    BY <1>1, <1>10 DEF Restart
  <2>2. QED
    BY <1>1, <2>1 DEF Quiet, RunsOf
<1>11. CASE Tick
  <2>1. /\ UNCHANGED <<phase, timers>>
        /\ \A r \in Runs : run[r].pc = "idle" => run'[r] = run[r]
    BY <1>11 DEF Tick, Holding
  <2>2. QED
    BY <1>3, <2>1, Records
<1>12. CASE UNCHANGED vars
  BY <1>2, <1>12 DEF vars
<1>13. QED
  BY <1>4, <1>5, <1>6, <1>7, <1>8, <1>9, <1>10, <1>11, <1>12 DEF Next, CloseStep, Exit, Crash

\* The types of the calls of close().
LEMMA CloseTypes ==
  ASSUME TypeInv, [Next]_vars
  PROVE  /\ phase' \in [Instances -> {"created", "listening", "closed", "gone"}]
         /\ timers' \in [Instances -> SUBSET Jobs] /\ faults' \in 0 .. MaxFaults
         /\ closing' \in [Closers -> 0 .. NotClosing] /\ torn' \in [Closers -> Seq(1 .. NumPlugins)]
<1>1. /\ phase \in [Instances -> {"created", "listening", "closed", "gone"}]
      /\ timers \in [Instances -> SUBSET Jobs] /\ faults \in 0 .. MaxFaults
      /\ closing \in [Closers -> 0 .. NotClosing] /\ torn \in [Closers -> Seq(1 .. NumPlugins)]
      /\ MaxFaults \in Nat /\ NumPlugins \in Nat /\ NotClosing = NumPlugins + 1
  BY CronAssumption DEF TypeInv, TypeOK, NotClosing
<1>2. CASE UNCHANGED vars
  BY <1>1, <1>2 DEF vars
<1>3. ASSUME NEW r \in Runs, RunStep(r) \/ AcquireFails(r) \/ ReleaseFails(r)
      PROVE  UNCHANGED <<phase, timers, closing, torn>> /\ faults' \in 0 .. MaxFaults
  BY <1>1, <1>3 DEF RunStep, Acquire, HandlerEnds, Release, AcquireFails, ReleaseFails
<1>4. ASSUME Tick \/ \E i \in Instances, j \in Jobs : Fire(i, j)
      PROVE  UNCHANGED <<phase, timers, closing, torn, faults>>
  BY <1>4 DEF Tick, Fire
<1>5. ASSUME NEW i \in Instances, Listen(i) \/ Exit(i) \/ Crash(i) \/ Restart(i)
      PROVE  /\ phase' \in [Instances -> {"created", "listening", "closed", "gone"}]
             /\ timers' \in [Instances -> SUBSET Jobs] /\ faults' \in 0 .. MaxFaults
             /\ UNCHANGED <<closing, torn>>
  <2>1. CASE Listen(i) \/ Restart(i)
    BY <1>1, <2>1 DEF Listen, Restart
  <2>2. CASE Exit(i) \/ Crash(i)
    <3>1. Vanish(i) /\ UNCHANGED <<closing, torn>> /\ faults' \in 0 .. MaxFaults
      BY <1>1, <2>2 DEF Exit, Crash
    <3>2. QED
      BY <1>1, <3>1 DEF Vanish
  <2>3. QED
    BY <1>5, <2>1, <2>2
<1>6. ASSUME NEW i \in Instances, NEW c \in Callers[i], Close(i, c)
      PROVE  /\ phase' \in [Instances -> {"created", "listening", "closed", "gone"}]
             /\ timers' \in [Instances -> SUBSET Jobs]
             /\ closing' \in [Closers -> 0 .. NotClosing] /\ UNCHANGED <<torn, faults>>
  <2>1. /\ phase' = [phase EXCEPT ![i] = "closed"] /\ timers' = [timers EXCEPT ![i] = {}]
        /\ closing' = [closing EXCEPT ![<<i, c>>] = NumPlugins] /\ UNCHANGED <<torn, faults>>
    BY <1>6 DEF Close
  <2>2. NumPlugins \in 0 .. NotClosing
    BY <1>1
  <2>3. closing' \in [Closers -> 0 .. NotClosing]
    BY <1>1, <2>1, <2>2
  <2>4. QED
    BY <1>1, <2>1, <2>3
<1>7. ASSUME NEW i \in Instances, NEW c \in Callers[i], Teardown(i, c)
      PROVE  /\ UNCHANGED <<phase, timers, faults>>
             /\ closing' \in [Closers -> 0 .. NotClosing] /\ torn' \in [Closers -> Seq(1 .. NumPlugins)]
  <2>1. <<i, c>> \in Closers
    BY Belong
  <2>2. PICK p \in 1 .. NumPlugins : /\ p = closing[<<i, c>>]
                                     /\ torn' = [torn EXCEPT ![<<i, c>>] = Append(torn[<<i, c>>], p)]
                                     /\ closing' = [closing EXCEPT ![<<i, c>>] = p - 1]
    BY <1>7 DEF Teardown
  <2>3. Append(torn[<<i, c>>], p) \in Seq(1 .. NumPlugins)
    BY <1>1, <2>1, AppendProperties
  <2>4. p - 1 \in 0 .. NotClosing
    BY <1>1
  <2>5. QED
    BY <1>1, <1>7, <2>2, <2>3, <2>4 DEF Teardown
<1>8. QED
  BY <1>1, <1>2, <1>3, <1>4, <1>5, <1>6, <1>7 DEF Next, CloseStep

\* TypeInv is inductive.
LEMMA StepTypeInv == TypeInv /\ [Next]_vars => TypeInv'
BY LockTypes, StepQuiet, CloseTypes DEF TypeInv, TypeOK, LockRecords, RunRecords

-----------------------------------------------------------------------------
(* Locks *)

\* No lock is set at first.
LEMMA InitLocks == Init => LockInv
BY Records DEF Init, LockInv, Expires, Young, Synced, LocksAreReleased, Holding

\* A lock that is set was set by a run.
LEMMA LockedBy ==
  ASSUME TypeInv, Expires, NEW k \in Jobs, lock[k] # NoLock
  PROVE  lock[k].by \in Runs /\ lock[k].left \in 1 .. Ttl
<1>1. lock[k] \in LockRecords /\ Ttl \in Nat
  BY CronAssumption DEF TypeInv, TypeOK, LockRecords
<1>2. ~(lock[k].by = NoRun /\ lock[k].left = 0)
  BY <1>1 DEF LockRecords, NoLock
<1>3. QED
  BY <1>1, <1>2 DEF LockRecords, Expires

\* A step that leaves the locks alone keeps the invariant, if the runs that
\* hold one go on holding it, or leave it behind.
LEMMA HoldersKeep ==
  ASSUME TypeInv, LockInv, UNCHANGED <<lock, overdue>>, leaked \subseteq leaked',
         \A s \in Runs : Holding(s)' => Holding(s) /\ run'[s].job = run[s].job /\ run'[s].age = run[s].age,
         \A s \in Runs : Holding(s) => Holding(s)' \/ LeftBy({s}) \subseteq leaked',
         \A s \in Runs : run'[s].pc = "acquire" => run'[s].age = 0
  PROVE  LockInv'
<1>1. Expires' /\ Young'
  BY DEF LockInv, Expires, Young
<1>2. Synced'
  BY DEF LockInv, Synced
<1>3. LocksAreReleased'
  <2> SUFFICES ASSUME NEW k \in Jobs \ leaked', lock[k] # NoLock
               PROVE  Holding(lock[k].by)' /\ run'[lock[k].by].job = k
    BY DEF LocksAreReleased
  <2>1. PICK s \in Runs : s = lock[k].by
    BY LockedBy DEF LockInv
  <2>2. Holding(s) /\ run[s].job = k
    BY <2>1 DEF LockInv, LocksAreReleased
  <2>3. Holding(s)'
    BY <2>1, <2>2 DEF LeftBy
  <2>4. lock' = lock
    OBVIOUS
  <2>5. QED
    BY <2>1, <2>2, <2>3, <2>4 DEF Holding
<1>4. QED
  BY <1>1, <1>2, <1>3 DEF LockInv

\* LockInv is inductive.
LEMMA StepLocks == TypeInv /\ LockInv /\ [Next]_vars => LockInv'
<1> SUFFICES ASSUME TypeInv, LockInv, [Next]_vars PROVE LockInv'
  OBVIOUS
<1>1. /\ lock \in [Jobs -> LockRecords] /\ run \in [Runs -> RunRecords]
      /\ Ttl \in Nat /\ Ttl # 0 /\ NoRun \notin Runs
      /\ NoLock.by = NoRun /\ NoLock.left = 0 /\ Idle.pc = "idle"
  BY Records, Belong DEF TypeInv, TypeOK, RunRecords, LockRecords
<1>2. Expires /\ Young /\ Synced /\ LocksAreReleased
  BY DEF LockInv
<1>3. CASE UNCHANGED lockVars
  BY <1>2, <1>3 DEF lockVars, LockInv, Expires, Young, Synced, LocksAreReleased, Holding
<1>4. ASSUME NEW r \in Runs, Acquires(r) PROVE LockInv'
  <2>1. run[r] \in RunRecords /\ run[r].pc = "acquire"
    BY <1>1, <1>4 DEF Acquires
  <2>2. PICK j \in Jobs : j = run[r].job
    BY <2>1, RunFields
  <2>3. /\ lock[j].left = 0 /\ lock'[j].by = r /\ lock'[j].left = Ttl
        /\ \A k \in Jobs \ {j} : lock'[k] = lock[k]
        /\ leaked' = leaked \ {j} /\ overdue' = overdue
    BY <1>1, <1>4, <2>2 DEF Acquires
  <2>4. /\ run'[r].pc = "handler" /\ run'[r].job = j /\ run'[r].age = 0
        /\ \A s \in Runs \ {r} : run'[s] = run[s]
    <3>1. run'[r] = [run[r] EXCEPT !.pc = "handler"] /\ \A s \in Runs \ {r} : run'[s] = run[s]
      BY <1>1, <1>4 DEF Acquires, Turns
    <3>2. run[r].age = 0
      BY <1>2, <2>1 DEF Young
    <3>3. QED
      BY <2>1, <2>2, <3>1, <3>2, RunFields
  <2>5. Expires'
    BY <1>1, <1>2, <2>3 DEF Expires
  <2>6. Young'
    BY <1>2, <2>4 DEF Young
  <2>7. Synced'
    <3> SUFFICES ASSUME NEW s \in Runs, Holding(s)', run'[s].job \notin overdue'
                 PROVE  /\ lock'[run'[s].job].by = s /\ run'[s].age < Ttl
                        /\ lock'[run'[s].job].left + run'[s].age = Ttl
      BY DEF Synced
    <3>1. CASE s = r
      BY <1>1, <2>3, <2>4, <3>1
    <3>2. CASE s # r
      <4>1. /\ run'[s] = run[s] /\ run[s].job \notin overdue /\ run[s] \in RunRecords
            /\ Holding(s) /\ run[s].pc # "idle"
        BY <1>1, <2>3, <2>4, <3>2 DEF Holding
      <4>2. run[s].job \in Jobs /\ run[s].age \in 0 .. Ttl
        BY <4>1, RunFields
      <4>3. /\ lock[run[s].job].by = s /\ run[s].age < Ttl
            /\ lock[run[s].job].left + run[s].age = Ttl
        BY <1>2, <4>1 DEF Synced
      <4>4. run[s].job # j
        BY <1>1, <2>3, <4>2, <4>3
      <4>5. QED
        BY <2>3, <4>1, <4>2, <4>3, <4>4
    <3>3. QED
      BY <3>1, <3>2
  <2>8. LocksAreReleased'
    <3> SUFFICES ASSUME NEW k \in Jobs \ leaked'
                 PROVE  lock'[k] = NoLock \/ (run'[lock'[k].by].pc \in {"handler", "release"} /\ run'[lock'[k].by].job = k)
      BY DEF LocksAreReleased, Holding
    <3>1. CASE k = j
      BY <2>3, <2>4, <3>1 DEF Holding
    <3>2. CASE k # j
      <4>1. lock'[k] = lock[k] /\ k \notin leaked
        BY <2>3, <3>2
      <4>2. CASE lock[k] = NoLock
        BY <4>1, <4>2
      <4>3. CASE lock[k] # NoLock
        <5>1. lock[k].by \in Runs /\ Holding(lock[k].by) /\ run[lock[k].by].job = k
          BY <1>2, <4>1, <4>3, LockedBy DEF LocksAreReleased
        <5>2. lock[k].by # r
          BY <2>1, <5>1 DEF Holding
        <5>3. QED
          BY <2>4, <4>1, <5>1, <5>2 DEF Holding
      <4>4. QED
        BY <4>2, <4>3
    <3>3. QED
      BY <3>1, <3>2
  <2>9. QED
    BY <2>5, <2>6, <2>7, <2>8 DEF LockInv
<1>5. ASSUME NEW r \in Runs, Drops(r) \/ Ends(r) PROVE LockInv'
  <2>1. run[r] \in RunRecords /\ run[r].pc \in {"acquire", "handler"}
    BY <1>1, <1>5 DEF Drops, Ends
  <2>2. /\ UNCHANGED <<lock, overdue, leaked>> /\ \A s \in Runs \ {r} : run'[s] = run[s]
        /\ \/ run[r].pc = "acquire" /\ run'[r] = Idle
           \/ run[r].pc = "handler" /\ run'[r] = [run[r] EXCEPT !.pc = "release"]
    BY <1>1, <1>5 DEF Drops, Ends, Turns
  <2>3. \/ run[r].pc = "acquire" /\ run'[r].pc = "idle"
        \/ /\ run[r].pc = "handler" /\ run'[r].pc = "release"
           /\ run'[r].job = run[r].job /\ run'[r].age = run[r].age
    <3>1. CASE run[r].pc = "acquire"
      BY <1>1, <2>2, <3>1
    <3>2. CASE run[r].pc = "handler"
      <4>1. run'[r] = [run[r] EXCEPT !.pc = "release"]
        BY <2>2, <3>2
      <4>2. run[r].pc # "idle"
        BY <3>2
      <4>3. QED
        BY <2>1, <3>2, <4>1, <4>2, RunFields
    <3>3. QED
      BY <2>1, <3>1, <3>2
  <2>4. \A s \in Runs : Holding(s)' => Holding(s) /\ run'[s].job = run[s].job /\ run'[s].age = run[s].age
    BY <2>2, <2>3 DEF Holding
  <2>5. \A s \in Runs : Holding(s) => Holding(s)'
    BY <2>2, <2>3 DEF Holding
  <2>6. \A s \in Runs : run'[s].pc = "acquire" => run'[s].age = 0
    BY <1>2, <2>2, <2>3 DEF Young
  <2>7. QED
    BY <2>2, <2>4, <2>5, <2>6, HoldersKeep
<1>6. ASSUME NEW r \in Runs, Releases(r) PROVE LockInv'
  <2>1. run[r] \in RunRecords /\ run[r].pc = "release"
    BY <1>1, <1>6 DEF Releases
  <2>2. PICK j \in Jobs : j = run[r].job
    BY <2>1, RunFields
  <2>3. /\ lock'[j] = NoLock /\ \A k \in Jobs \ {j} : lock'[k] = lock[k]
        /\ leaked' = leaked \ {j} /\ overdue' = overdue
        /\ run'[r] = Idle /\ \A s \in Runs \ {r} : run'[s] = run[s]
    BY <1>1, <1>6, <2>2 DEF Releases, Turns
  <2>4. Expires' /\ Young'
    BY <1>1, <1>2, <2>3 DEF Expires, Young
  <2>5. Synced'
    <3> SUFFICES ASSUME NEW s \in Runs, Holding(s)', run'[s].job \notin overdue'
                 PROVE  /\ lock'[run'[s].job].by = s /\ run'[s].age < Ttl
                        /\ lock'[run'[s].job].left + run'[s].age = Ttl
      BY DEF Synced
    <3>1. s # r /\ run'[s] = run[s] /\ Holding(s) /\ run[s].pc # "idle" /\ run[s] \in RunRecords
      BY <1>1, <2>3 DEF Holding
    <3>2. /\ lock[run[s].job].by = s /\ run[s].age < Ttl
          /\ lock[run[s].job].left + run[s].age = Ttl
      BY <1>2, <2>3, <3>1 DEF Synced
    <3>3. run[s].job # j
      <4>1. Holding(r)
        BY <2>1 DEF Holding
      <4>2. run[s].job = j => lock[j].by = r
        BY <1>2, <2>2, <2>3, <3>1, <4>1 DEF Synced
      <4>3. QED
        BY <3>1, <3>2, <4>2
    <3>4. run[s].job \in Jobs
      BY <3>1, RunFields
    <3>5. QED
      BY <2>3, <3>1, <3>2, <3>3, <3>4
  <2>6. LocksAreReleased'
    <3> SUFFICES ASSUME NEW k \in Jobs \ leaked', k # j, lock[k] # NoLock
                 PROVE  run'[lock'[k].by].pc \in {"handler", "release"} /\ run'[lock'[k].by].job = k
      BY <2>3 DEF LocksAreReleased, Holding
    <3>1. lock[k].by \in Runs /\ Holding(lock[k].by) /\ run[lock[k].by].job = k
      BY <1>2, <2>3, LockedBy DEF LocksAreReleased
    <3>2. lock[k].by # r
      BY <2>2, <3>1
    <3>3. QED
      BY <2>3, <3>1, <3>2 DEF Holding
  <2>7. QED
    BY <2>4, <2>5, <2>6 DEF LockInv
<1>7. ASSUME NEW rs \in SUBSET Runs, Forgets(rs) PROVE LockInv'
  <2>1. /\ \A s \in Runs : run'[s] = IF s \in rs THEN Idle ELSE run[s]
        /\ leaked' = leaked \cup LeftBy(rs) /\ UNCHANGED <<lock, overdue>>
    BY <1>7 DEF Forgets
  <2>2. \A s \in Runs : Holding(s)' => Holding(s) /\ run'[s] = run[s]
    BY <1>1, <2>1 DEF Holding
  <2>3. \A s \in Runs : Holding(s) => Holding(s)' \/ LeftBy({s}) \subseteq leaked'
    BY <2>1 DEF Holding, LeftBy
  <2>4. \A s \in Runs : run'[s].pc = "acquire" => run'[s].age = 0
    BY <1>1, <1>2, <2>1 DEF Young
  <2>5. QED
    BY <2>1, <2>2, <2>3, <2>4, HoldersKeep
<1>8. CASE Begins
  <2>1. /\ UNCHANGED <<lock, overdue, leaked>>
        /\ \A s \in Runs : \/ run'[s] = run[s]
                           \/ run[s].pc = "idle" /\ run'[s].pc = "acquire" /\ run'[s].age = 0
    <3>1. \A s \in Runs : run'[s] = run[s] \/ (run[s] = Idle /\ \E j \in Jobs : run'[s] = Started(j))
      BY <1>8 DEF Begins
    <3>2. \A j \in Jobs : Started(j).pc = "acquire" /\ Started(j).age = 0
      BY DEF Started
    <3>3. UNCHANGED <<lock, overdue, leaked>>
      BY <1>8 DEF Begins
    <3>4. ASSUME NEW s \in Runs
          PROVE  \/ run'[s] = run[s]
                 \/ run[s].pc = "idle" /\ run'[s].pc = "acquire" /\ run'[s].age = 0
      <4>1. CASE run[s] = Idle /\ \E j \in Jobs : run'[s] = Started(j)
        <5>1. PICK j \in Jobs : run'[s] = Started(j)
          BY <4>1
        <5>2. QED
          BY <1>1, <3>2, <4>1, <5>1
      <4>2. QED
        BY <3>1, <4>1
    <3>5. QED
      BY <3>3, <3>4
  <2>2. \A s \in Runs : (Holding(s)' <=> Holding(s)) /\ (Holding(s) => run'[s] = run[s])
    BY <2>1 DEF Holding
  <2>3. \A s \in Runs : run'[s].pc = "acquire" => run'[s].age = 0
    BY <1>2, <2>1 DEF Young
  <2>4. QED
    BY <2>1, <2>2, <2>3, HoldersKeep
<1>9. CASE Tick
  <2>1. /\ \A k \in Jobs : lock'[k] = Age(lock[k])
        /\ \A s \in Runs : run'[s] = IF Holding(s) /\ run[s].age < Ttl
                                       THEN [run[s] EXCEPT !.age = @ + 1] ELSE run[s]
        /\ overdue' = overdue \cup {j \in Jobs : \E r \in Runs : run'[r].job = j /\ run'[r].age = Ttl}
        /\ leaked' = {j \in leaked : lock'[j] # NoLock}
    BY <1>9 DEF Tick
  <2>2. ASSUME NEW s \in Runs
        PROVE  /\ run'[s].pc = run[s].pc /\ run'[s].job = run[s].job
               /\ Holding(s) /\ run[s].age < Ttl => run'[s].age = run[s].age + 1
               /\ ~Holding(s) => run'[s] = run[s]
    <3>1. CASE Holding(s) /\ run[s].age < Ttl
      <4>1. run[s] \in RunRecords /\ run[s].pc # "idle"
        BY <1>1, <3>1 DEF Holding
      <4>2. run'[s] = [run[s] EXCEPT !.age = @ + 1]
        BY <2>1, <3>1
      <4>3. /\ [run[s] EXCEPT !.age = @ + 1].age = run[s].age + 1
            /\ [run[s] EXCEPT !.age = @ + 1].pc = run[s].pc /\ [run[s] EXCEPT !.age = @ + 1].job = run[s].job
        BY <3>1, <4>1, RunFields
      <4>4. QED
        BY <3>1, <4>2, <4>3
    <3>2. CASE ~(Holding(s) /\ run[s].age < Ttl)
      BY <2>1, <3>2
    <3>3. QED
      BY <3>1, <3>2
  <2>3. \A s \in Runs : Holding(s)' <=> Holding(s)
    BY <2>2 DEF Holding
  <2>4. ASSUME NEW k \in Jobs
        PROVE  /\ lock[k].left <= 1 => lock'[k] = NoLock
               /\ ~(lock[k].left <= 1) => lock'[k].by = lock[k].by /\ lock'[k].left = lock[k].left - 1
               /\ lock[k].left \in 0 .. Ttl
    BY <1>1, <2>1, AgeOf DEF LockRecords
  <2>5. Expires'
    BY <1>1, <1>2, <2>4 DEF Expires
  <2>6. Young'
    BY <1>2, <2>2 DEF Young, Holding
  <2>7. Synced'
    <3> SUFFICES ASSUME NEW s \in Runs, Holding(s)', run'[s].job \notin overdue'
                 PROVE  /\ lock'[run'[s].job].by = s /\ run'[s].age < Ttl
                        /\ lock'[run'[s].job].left + run'[s].age = Ttl
      BY DEF Synced
    <3>1. Holding(s) /\ run[s] \in RunRecords /\ run[s].pc # "idle"
      BY <1>1, <2>3 DEF Holding
    <3>2. PICK k \in Jobs : k = run[s].job
      BY <3>1, RunFields
    <3>3. run[s].age \in 0 .. Ttl /\ run'[s].job = k
      BY <2>2, <3>1, <3>2, RunFields
    <3>4. /\ lock[k].by = s /\ run[s].age < Ttl /\ lock[k].left + run[s].age = Ttl
      BY <1>2, <2>1, <3>1, <3>2, <3>3 DEF Synced
    <3>5. run'[s].age = run[s].age + 1 /\ run'[s].age # Ttl
      BY <2>1, <2>2, <3>1, <3>3, <3>4
    <3>6. ~(lock[k].left <= 1)
      BY <1>1, <2>4, <3>3, <3>4, <3>5
    <3>7. QED
      BY <1>1, <2>4, <3>3, <3>4, <3>5, <3>6
  <2>8. LocksAreReleased'
    <3> SUFFICES ASSUME NEW k \in Jobs \ leaked', lock'[k] # NoLock
                 PROVE  run'[lock'[k].by].pc \in {"handler", "release"} /\ run'[lock'[k].by].job = k
      BY DEF LocksAreReleased, Holding
    <3>1. k \notin leaked /\ ~(lock[k].left <= 1) /\ lock'[k].by = lock[k].by
      BY <2>1, <2>4
    <3>2. lock[k] # NoLock
      BY <1>1, <3>1
    <3>3. lock[k].by \in Runs /\ Holding(lock[k].by) /\ run[lock[k].by].job = k
      BY <1>2, <3>1, <3>2, LockedBy DEF LocksAreReleased
    <3>4. QED
      BY <2>2, <3>1, <3>3 DEF Holding
  <2>9. QED
    BY <2>5, <2>6, <2>7, <2>8 DEF LockInv
<1>10. QED
  BY <1>3, <1>4, <1>5, <1>6, <1>7, <1>8, <1>9, StepKinds DEF Kinds

-----------------------------------------------------------------------------
(* close() *)

\* The plugins from the last down to the one behind p, in this order.
Reversed(p) == [n \in 1 .. NumPlugins - p |-> NumPlugins + 1 - n]

\* The next plugin is torn down behind them.
LEMMA ReversedGrows ==
  ASSUME NEW p \in 1 .. NumPlugins
  PROVE  Append(Reversed(p), p) = Reversed(p - 1)
<1>1. NumPlugins \in Nat
  BY CronAssumption
<1>2. NumPlugins - p \in Nat /\ NumPlugins - (p - 1) = (NumPlugins - p) + 1
  BY <1>1
<1>3. PICK k \in Nat : k = NumPlugins - p /\ NumPlugins - (p - 1) = k + 1
  BY <1>2
<1>4. Reversed(p) \in Seq(Nat) /\ Len(Reversed(p)) = k
  BY <1>1, <1>3 DEF Reversed
<1>5. /\ Append(Reversed(p), p) \in Seq(Nat) /\ Len(Append(Reversed(p), p)) = k + 1
      /\ Append(Reversed(p), p)[k + 1] = p
      /\ \A n \in 1 .. k : Append(Reversed(p), p)[n] = Reversed(p)[n]
  BY <1>1, <1>4, AppendProperties
<1>6. Reversed(p - 1) \in Seq(Nat) /\ Len(Reversed(p - 1)) = k + 1
  BY <1>1, <1>3 DEF Reversed
<1>7. ASSUME NEW n \in 1 .. k + 1 PROVE Append(Reversed(p), p)[n] = Reversed(p - 1)[n]
  <2>1. Reversed(p - 1)[n] = NumPlugins + 1 - n
    BY <1>3 DEF Reversed
  <2>2. CASE n = k + 1
    BY <1>1, <1>3, <1>5, <2>1, <2>2
  <2>3. CASE n # k + 1
    <3>1. n \in 1 .. k
      BY <1>3, <2>3
    <3>2. Reversed(p)[n] = NumPlugins + 1 - n
      BY <1>3, <3>1 DEF Reversed
    <3>3. QED
      BY <1>5, <2>1, <3>1, <3>2
  <2>4. QED
    BY <2>2, <2>3
<1>8. QED
  BY <1>5, <1>6, <1>7, SeqEqual

\* Nobody called close() at first.
LEMMA InitClose == Init => CloseInv
BY DEF Init, CloseInv, TeardownsInReverse

\* Only the caller itself goes on tearing down.
LEMMA StepClose == TypeInv /\ CloseInv /\ [Next]_vars => CloseInv'
<1> SUFFICES ASSUME TypeInv, CloseInv, [Next]_vars PROVE CloseInv'
  OBVIOUS
<1>1. /\ closing \in [Closers -> 0 .. NotClosing] /\ torn \in [Closers -> Seq(1 .. NumPlugins)]
      /\ NumPlugins \in Nat /\ NotClosing = NumPlugins + 1
      /\ \A q \in Closers : closing[q] # NotClosing => torn[q] = Reversed(closing[q])
      /\ \A q \in Closers : closing[q] = NotClosing => torn[q] = <<>>
  BY CronAssumption DEF TypeInv, TypeOK, NotClosing, CloseInv, TeardownsInReverse, Reversed
<1>2. ASSUME UNCHANGED <<closing, torn>> PROVE CloseInv'
  BY <1>2 DEF CloseInv, TeardownsInReverse
<1>3. ASSUME \A q \in Closers : /\ closing'[q] # NotClosing => torn'[q] = Reversed(closing'[q])
                                /\ closing'[q] = NotClosing => torn'[q] = <<>>
      PROVE  CloseInv'
  BY <1>3 DEF CloseInv, TeardownsInReverse, Reversed, NotClosing
<1>4. ASSUME NEW i \in Instances, NEW c \in Callers[i], Close(i, c) PROVE CloseInv'
  <2>1. /\ <<i, c>> \in Closers /\ closing[<<i, c>>] = NotClosing
        /\ closing' = [closing EXCEPT ![<<i, c>>] = NumPlugins] /\ torn' = torn
    BY <1>4, Belong DEF Close
  <2>2. Reversed(NumPlugins) = <<>>
    <3>1. 1 .. NumPlugins - NumPlugins = {}
      BY <1>1
    <3>2. QED
      BY <1>1, <3>1 DEF Reversed
  <2>3. closing'[<<i, c>>] = NumPlugins /\ \A q \in Closers : q # <<i, c>> => closing'[q] = closing[q]
    BY <1>1, <2>1
  <2>4. QED
    BY <1>1, <1>3, <2>1, <2>2, <2>3
<1>5. ASSUME NEW i \in Instances, NEW c \in Callers[i], Teardown(i, c) PROVE CloseInv'
  <2>1. PICK p \in 1 .. NumPlugins :
          /\ p = closing[<<i, c>>] /\ torn' = [torn EXCEPT ![<<i, c>>] = Append(torn[<<i, c>>], p)]
          /\ closing' = [closing EXCEPT ![<<i, c>>] = p - 1]
    BY <1>5 DEF Teardown
  <2>2. <<i, c>> \in Closers
    BY Belong
  <2>3. torn[<<i, c>>] = Reversed(p)
    BY <1>1, <2>1, <2>2
  <2>4. /\ closing'[<<i, c>>] = p - 1 /\ torn'[<<i, c>>] = Reversed(p - 1) /\ p - 1 # NotClosing
        /\ \A q \in Closers : q # <<i, c>> => closing'[q] = closing[q] /\ torn'[q] = torn[q]
    <3>1. Append(torn[<<i, c>>], p) = Reversed(p - 1)
      BY <2>3, ReversedGrows
    <3>2. closing'[<<i, c>>] = p - 1 /\ torn'[<<i, c>>] = Append(torn[<<i, c>>], p)
      BY <1>1, <2>1, <2>2
    <3>3. \A q \in Closers : q # <<i, c>> => closing'[q] = closing[q] /\ torn'[q] = torn[q]
      BY <1>1, <2>1
    <3>4. p - 1 # NotClosing
      BY <1>1
    <3>5. QED
      BY <3>1, <3>2, <3>3, <3>4
  <2>5. QED
    BY <1>1, <1>3, <2>4
<1>6. ASSUME NEW r \in Runs, RunStep(r) \/ AcquireFails(r) \/ ReleaseFails(r) PROVE CloseInv'
  BY <1>2, <1>6 DEF RunStep, Acquire, HandlerEnds, Release, AcquireFails, ReleaseFails
<1>7. ASSUME NEW i \in Instances, Listen(i) \/ Exit(i) \/ Crash(i) \/ Restart(i) PROVE CloseInv'
  BY <1>2, <1>7 DEF Listen, Exit, Crash, Restart
<1>8. CASE Tick \/ \E i \in Instances, j \in Jobs : Fire(i, j)
  BY <1>2, <1>8 DEF Tick, Fire
<1>9. CASE UNCHANGED vars
  BY <1>2, <1>9 DEF vars
<1>10. QED
  BY <1>4, <1>5, <1>6, <1>7, <1>8, <1>9 DEF Next, CloseStep

-----------------------------------------------------------------------------
(* The theorems *)

\* However instances, runs and time interleave, and whatever crashes: a lock
\* has exactly the holder it should have.
THEOREM LocksAreHeld == Spec => []LocksHold
<1>1. Init => TypeInv /\ LockInv
  BY InitTypeInv, InitLocks
<1>2. TypeInv /\ LockInv /\ [Next]_vars => TypeInv' /\ LockInv'
  BY StepTypeInv, StepLocks
<1>3. ASSUME TypeInv, LockInv PROVE LocksHold
  <2>1. HoldersAreLocked
    BY <1>3 DEF LockInv, Synced, HoldersAreLocked
  <2>2. OverlapOnlyAfterExpiry
    BY <2>1 DEF HoldersAreLocked, OverlapOnlyAfterExpiry
  <2>3. QED
    BY <1>3, <2>1, <2>2 DEF TypeInv, LockInv, LocksHold
<1>4. QED
  BY <1>1, <1>2, <1>3, PTL DEF Spec

\* Every call of close() has torn down the plugins registered last, in reverse
\* order and each of them once, wherever it is.
THEOREM TeardownOrder == Spec => []TeardownsInReverse
<1>1. Init => TypeInv /\ CloseInv
  BY InitTypeInv, InitClose
<1>2. TypeInv /\ CloseInv /\ [Next]_vars => TypeInv' /\ CloseInv'
  BY StepTypeInv, StepClose
<1>3. CloseInv => TeardownsInReverse
  BY DEF CloseInv
<1>4. QED
  BY <1>1, <1>2, <1>3, PTL DEF Spec
=============================================================================
