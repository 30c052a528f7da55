------------------------------ MODULE CronJobs ------------------------------
(***************************************************************************)
(* The cron jobs of several instances of one application: _scheduleCrons() *)
(* and its runJob, listen(), close() and the signal handler of             *)
(* packages/core/src/app/index.ts, with a distributed CronLockAdapter as   *)
(* docs/guides/07-cron-jobs.md builds it (SET NX PX, DEL).                 *)
(*                                                                         *)
(* A run of a job is a chain of awaits: acquire, the handler, release.     *)
(* Croner does not protect against overlap, so one instance may have       *)
(* several runs of a job.  Time passes in ticks; a lock counts down to its *)
(* expiry, a run counts up to the TTL.                                     *)
(***************************************************************************)
EXTENDS Naturals, Sequences, FiniteSets

CONSTANTS
  Instances,    \* processes that share the lock server
  Jobs,         \* job names
  Slots,        \* bound: of each instance, the names of its concurrent runs
  NoRun,        \* the holder of a free lock
  RunOnStart,   \* jobs with runOnStart
  Ttl,          \* ttlMs in ticks
  NumPlugins,   \* plugins registered in this order: 1, 2, ...
  Callers,      \* of each instance, who calls close(): "signal" exits afterwards, "user" does not
  MaxFaults     \* bound: crashes and failures of the lock server

ASSUME CronAssumption ==
  /\ RunOnStart \subseteq Jobs
  /\ Ttl \in Nat \ {0} /\ NumPlugins \in Nat /\ MaxFaults \in Nat
  /\ Callers \in [Instances -> SUBSET {"signal", "user"}]
  /\ \A i \in Instances : NoRun \notin {i} \X Slots[i]

Runs    == UNION {{i} \X Slots[i] : i \in Instances}
Closers == UNION {{i} \X Callers[i] : i \in Instances}

VARIABLES
  lock,     \* of each job: who set it, and the ticks until it expires
  phase,    \* of an instance
  timers,   \* jobs whose croner timer is active
  run,      \* the runs: job, pc and the ticks since the lock was acquired
  closing,  \* of each caller of close(): plugins still to be torn down, or NotClosing
  torn,     \* history: plugins torn down by each caller
  overdue,  \* history: jobs with a run that outlived the TTL
  leaked,   \* history: jobs whose lock was left by a crash, an exit or a failed release
  faults

vars == <<lock, phase, timers, run, closing, torn, overdue, leaked, faults>>

NotClosing == NumPlugins + 1
NoLock == [by |-> NoRun, left |-> 0]
Idle   == [job |-> "none", pc |-> "idle", age |-> 0]

\* Between the effect of acquire() and that of release().
Holding(r) == run[r].pc \in {"handler", "release"}
RunsOf(i)  == {r \in Runs : r[1] = i}
Up(i)      == phase[i] \in {"listening", "closed"}

TypeOK ==
  /\ lock \in [Jobs -> [by : Runs \cup {NoRun}, left : 0 .. Ttl]]
  /\ phase \in [Instances -> {"created", "listening", "closed", "gone"}]
  /\ timers \in [Instances -> SUBSET Jobs]
  /\ run \in [Runs -> [job : Jobs, pc : {"acquire", "handler", "release"}, age : 0 .. Ttl]
                        \cup {Idle}]
  /\ closing \in [Closers -> 0 .. NotClosing]
  /\ torn \in [Closers -> Seq(1 .. NumPlugins)]
  /\ overdue \subseteq Jobs /\ leaked \subseteq Jobs
  /\ faults \in 0 .. MaxFaults

Init ==
  /\ lock = [j \in Jobs |-> NoLock]
  /\ phase = [i \in Instances |-> "created"]
  /\ timers = [i \in Instances |-> {}]
  /\ run = [r \in Runs |-> Idle]
  /\ closing = [c \in Closers |-> NotClosing]
  /\ torn = [c \in Closers |-> <<>>]
  /\ overdue = {} /\ leaked = {} /\ faults = 0

-----------------------------------------------------------------------------
(* runJob *)

Started(j) == [job |-> j, pc |-> "acquire", age |-> 0]

\* The timer of a job fires: runJob() up to its first await.
Fire(i, j) ==
  /\ j \in timers[i]
  /\ \E r \in RunsOf(i) : run[r] = Idle /\ run' = [run EXCEPT ![r] = Started(j)]
  /\ UNCHANGED <<lock, phase, timers, closing, torn, overdue, leaked, faults>>

\* Mutant: acquire() moved into the try block, so a run without the lock releases.
AcquireInTry(r) ==
  /\ run[r].pc = "acquire"
  /\ LET j == run[r].job IN
       IF lock[j].left = 0
       THEN /\ lock' = [lock EXCEPT ![j] = [by |-> r, left |-> Ttl]]
            /\ run' = [run EXCEPT ![r].pc = "handler"]
       ELSE run' = [run EXCEPT ![r].pc = "release"] /\ UNCHANGED lock
  /\ UNCHANGED <<phase, timers, closing, torn, overdue, leaked, faults>>

\* SET NX PX: without the lock the run ends at once.
Acquire(r) ==
  /\ run[r].pc = "acquire"
  /\ LET j == run[r].job IN
       IF lock[j].left = 0
       THEN /\ lock' = [lock EXCEPT ![j] = [by |-> r, left |-> Ttl]]
            /\ run' = [run EXCEPT ![r].pc = "handler"]
            /\ leaked' = leaked \ {j}
       ELSE run' = [run EXCEPT ![r] = Idle] /\ UNCHANGED <<lock, leaked>>
  /\ UNCHANGED <<phase, timers, closing, torn, overdue, faults>>

\* acquire() rejects: nothing ran, nothing is released.
AcquireFails(r) ==
  /\ run[r].pc = "acquire"
  /\ faults < MaxFaults /\ faults' = faults + 1
  /\ run' = [run EXCEPT ![r] = Idle]
  /\ UNCHANGED <<lock, phase, timers, closing, torn, overdue, leaked>>

\* The handler returns, throws (onError is called, or the error is logged), or
\* its onError throws: each way through the finally block.
HandlerEnds(r) ==
  /\ run[r].pc = "handler"
  /\ run' = [run EXCEPT ![r].pc = "release"]
  /\ UNCHANGED <<lock, phase, timers, closing, torn, overdue, leaked, faults>>

\* DEL by the name of the job, whoever set the lock.
Release(r) ==
  /\ run[r].pc = "release"
  /\ lock' = [lock EXCEPT ![run[r].job] = NoLock]
  /\ run' = [run EXCEPT ![r] = Idle]
  /\ leaked' = leaked \ {run[r].job}
  /\ UNCHANGED <<phase, timers, closing, torn, overdue, faults>>

\* The locks that r set and that nobody will release any more.
LeftBy(rs) == {j \in Jobs : lock[j].by \in rs}

ReleaseFails(r) ==
  /\ run[r].pc = "release"
  /\ faults < MaxFaults /\ faults' = faults + 1
  /\ run' = [run EXCEPT ![r] = Idle]
  /\ leaked' = leaked \cup LeftBy({r})
  /\ UNCHANGED <<lock, phase, timers, closing, torn, overdue>>

\* The process and its runs are gone; its locks stay until they expire.
Vanish(i) ==
  /\ phase' = [phase EXCEPT ![i] = "gone"]
  /\ timers' = [timers EXCEPT ![i] = {}]
  /\ run' = [r \in Runs |-> IF r[1] = i THEN Idle ELSE run[r]]
  /\ leaked' = leaked \cup LeftBy(RunsOf(i))

-----------------------------------------------------------------------------
(* listen() and close() *)

\* _scheduleCrons(): a timer per job, and a first run of those with runOnStart.
Listen(i) ==
  /\ phase[i] = "created"
  /\ phase' = [phase EXCEPT ![i] = "listening"]
  /\ timers' = [timers EXCEPT ![i] = Jobs]
  /\ \E start \in [RunOnStart -> RunsOf(i)] :
       /\ \A j, k \in RunOnStart : start[j] = start[k] => j = k
       /\ run' = [r \in Runs |->
            IF \E j \in RunOnStart : start[j] = r
            THEN Started(CHOOSE j \in RunOnStart : start[j] = r) ELSE run[r]]
  /\ UNCHANGED <<lock, closing, torn, overdue, leaked, faults>>

\* close(): stops all timers and turns to the plugin registered last.  The
\* signal handler calls it once, user code may call it as well.
Close(i, c) ==
  /\ Up(i) /\ closing[<<i, c>>] = NotClosing
  /\ phase' = [phase EXCEPT ![i] = "closed"]
  /\ timers' = [timers EXCEPT ![i] = {}]
  /\ closing' = [closing EXCEPT ![<<i, c>>] = NumPlugins]
  /\ UNCHANGED <<lock, run, torn, overdue, leaked, faults>>

\* Mutant: a teardown() that throws ends the loop.
TeardownRethrows(i, c) ==
  LET p == closing[<<i, c>>] IN
  /\ Up(i) /\ p \in 1 .. NumPlugins
  /\ torn' = [torn EXCEPT ![<<i, c>>] = Append(@, p)]
  /\ \E next \in {0, p - 1} : closing' = [closing EXCEPT ![<<i, c>>] = next]
  /\ UNCHANGED <<lock, phase, timers, run, overdue, leaked, faults>>

\* One teardown() has been awaited; one that throws is only logged.
Teardown(i, c) ==
  LET p == closing[<<i, c>>] IN
  /\ Up(i) /\ p \in 1 .. NumPlugins
  /\ torn' = [torn EXCEPT ![<<i, c>>] = Append(@, p)]
  /\ closing' = [closing EXCEPT ![<<i, c>>] = p - 1]
  /\ UNCHANGED <<lock, phase, timers, run, overdue, leaked, faults>>

\* process.exit(0) in the signal handler.
Exit(i) ==
  /\ Up(i) /\ "signal" \in Callers[i] /\ closing[<<i, "signal">>] = 0
  /\ Vanish(i)
  /\ UNCHANGED <<lock, closing, torn, overdue, faults>>

Crash(i) ==
  /\ Up(i)
  /\ faults < MaxFaults /\ faults' = faults + 1
  /\ Vanish(i)
  /\ UNCHANGED <<lock, closing, torn, overdue>>

\* A crashed instance is started again.
Restart(i) ==
  /\ phase[i] = "gone" /\ \A c \in Callers[i] : closing[<<i, c>>] = NotClosing
  /\ phase' = [phase EXCEPT ![i] = "created"]
  /\ UNCHANGED <<lock, timers, run, closing, torn, overdue, leaked, faults>>

\* Mutant of Age: a lock set without PX.
AgeNever(l)  == l

\* Time passes: locks expire, runs grow older.
Age(l) == IF l.left <= 1 THEN NoLock ELSE [l EXCEPT !.left = @ - 1]

Tick ==
  /\ lock' = [j \in Jobs |-> Age(lock[j])]
  /\ run' = [r \in Runs |->
       IF Holding(r) /\ run[r].age < Ttl THEN [run[r] EXCEPT !.age = @ + 1] ELSE run[r]]
  /\ overdue' = overdue \cup {j \in Jobs : \E r \in Runs : run'[r].job = j /\ run'[r].age = Ttl}
  /\ leaked' = {j \in leaked : lock'[j] # NoLock}
  /\ UNCHANGED <<phase, timers, closing, torn, faults>>

-----------------------------------------------------------------------------
RunStep(r)   == Acquire(r) \/ HandlerEnds(r) \/ Release(r)
CloseStep(i) == Exit(i) \/ \E c \in Callers[i] : Teardown(i, c)

Next ==
  \/ \E r \in Runs : RunStep(r) \/ AcquireFails(r) \/ ReleaseFails(r)
  \/ \E i \in Instances, j \in Jobs : Fire(i, j)
  \/ \E i \in Instances : \E c \in Callers[i] : Close(i, c)
  \/ \E i \in Instances : Listen(i) \/ CloseStep(i) \/ Crash(i) \/ Restart(i)
  \/ Tick

Spec == Init /\ [][Next]_vars

\* Time passes, croner fires, promises settle.  Starts, calls of close() and
\* crashes are up to the environment.
FairSpec ==
  /\ Spec
  /\ WF_vars(Tick)
  /\ \A r \in Runs : WF_vars(RunStep(r))
  /\ \A i \in Instances : WF_vars(CloseStep(i))
  /\ \A i \in Instances, j \in Jobs : WF_vars(Fire(i, j))

-----------------------------------------------------------------------------
(* Properties *)

\* Two runs of a job, in whatever instances, hold its lock at a time only after
\* some run of it has outlived the TTL.
OverlapOnlyAfterExpiry ==
  \A r, s \in Runs :
    r # s /\ Holding(r) /\ Holding(s) /\ run[r].job = run[s].job => run[r].job \in overdue

\* A lock belongs to a run that will still release it, unless a crash, an exit
\* or a failed release left it behind: the finally block misses no way out.
LocksAreReleased ==
  \A j \in Jobs \ leaked :
    lock[j] = NoLock \/ (Holding(lock[j].by) /\ run[lock[j].by].job = j)

\* While some run of a job is inside its TTL, its lock is taken: nobody deletes
\* it unless a run is overdue.
HoldersAreLocked ==
  \A r \in Runs : Holding(r) /\ run[r].job \notin overdue =>
    lock[run[r].job].by = r

\* Types, and a lock that has exactly the holder it should have.
LocksHold == TypeOK /\ OverlapOnlyAfterExpiry /\ LocksAreReleased /\ HoldersAreLocked

\* Every call of close() tears down all plugins, last registered first, whatever
\* some of them throw, and never one of them twice.
TeardownsInReverse ==
  \A c \in Closers :
    closing[c] # NotClosing =>
      torn[c] = [n \in 1 .. NumPlugins - closing[c] |-> NumPlugins + 1 - n]

\* As long as one instance keeps its timers a job runs again and again, even if
\* the holder of its lock crashed.
JobsRecover ==
  \A j \in Jobs :
    <>[](\E i \in Instances : j \in timers[i]) =>
      []<>(\E r \in Runs : run[r].pc = "handler" /\ run[r].job = j)

\* docs/guides/07-cron-jobs.md:114 "In-progress job handlers complete before
\* shutdown."  (They do not: nothing awaits them.)
HandlersCompleteBeforeShutdown ==
  \A c \in Closers :
    closing[c] = 0 => \A r \in RunsOf(c[1]) : run[r].pc # "handler"

\* DESIGN.md:114 "Each plugin is three phases: install (once), request (per-request
\* ctx extension), teardown (once)."  (Two calls of close() do it twice.)
TeardownOnce ==
  \A i \in Instances, p \in 1 .. NumPlugins :
    Cardinality({c \in Callers[i] : p \in {torn[<<i, c>>][n] : n \in DOMAIN torn[<<i, c>>]}}) <= 1
=============================================================================
