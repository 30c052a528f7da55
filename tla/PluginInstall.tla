---------------------------- MODULE PluginInstall ----------------------------
(***************************************************************************)
(* Lazy installation: packages/core/src/app/index.ts,                      *)
(* _ensurePluginsInstalled(), the module plugins of _runPlugins(), and     *)
(* what register() and listen() do around them.                            *)
(*                                                                         *)
(* Whoever comes first, a request or listen(), starts the installation;    *)
(* everyone else awaits its promise.  An installation that fails is        *)
(* forgotten and the next caller starts a new one.  Plugins of modules are *)
(* installed by the first request that needs them.                         *)
(***************************************************************************)
EXTENDS Naturals, Sequences, FiniteSets

CONSTANTS
  Requests,       \* identities of the requests
  Listener,       \* the call of listen(), a caller like the requests
  NPlugins,       \* global plugins are numbered in registration order
  Installs,       \* the ones that have an install()
  DbPlugin,       \* the number of the dbPlugin, 0: none
  ModulePlugins,  \* names of module plugins that have an install()
  NoPlugin,       \* the plugin of a module without plugins
  Decls,          \* .audit() declarations
  MaxFailures     \* bound: installs that fail

Callers == Requests \cup {Listener}

ASSUME InstallAssumption ==
  /\ Listener \notin Requests
  /\ NPlugins \in Nat
  /\ Installs \subseteq 1 .. NPlugins
  /\ DbPlugin \in Installs \cup {0}
  /\ NoPlugin \notin ModulePlugins
  /\ MaxFailures \in Nat

VARIABLES
  phase,      \* where a caller is
  holds,      \* the installation whose promise a caller awaits
  plugin,     \* the plugin of the module a request is routed to
  runs,       \* all installations: who started it, the plugin it is at, its outcome
  current,    \* installPromise: an index of runs, 0: null
  installed,  \* installedPlugins
  completed,  \* history: how often each global install() has succeeded
  adapter,    \* whether hooks.setAdapter() was called
  pending,    \* _pendingAuditDeclarations
  wired,      \* how often each declaration was registered as a hook
  cronDb,     \* the adapter _scheduleCrons captured: "unscheduled", "none" or "db"
  marked,     \* installedModulePlugins
  calls,      \* history: how often install() of a module plugin was called
  ready,      \* history: module plugins whose install() has succeeded
  failures    \* bounded by MaxFailures

vars == <<phase, holds, plugin, runs, current, installed, completed, adapter, pending,
          wired, cronDb, marked, calls, ready, failures>>

moduleVars == <<plugin, marked, calls, ready>>

Phases == {"idle", "waiting", "installed", "module", "installing", "request",
           "served", "rejected"}

Runs == [starter : Callers, at : 1 .. NPlugins + 1,
         status : {"pending", "fulfilled", "rejected"}]

-----------------------------------------------------------------------------
(* The global plugins *)

\* The next plugin behind i that has an install(); behind the last: NPlugins + 1.
NextInstall(i) ==
  CHOOSE j \in (i + 1) .. (NPlugins + 1) :
    /\ j \in Installs \cup {NPlugins + 1}
    /\ \A k \in (i + 1) .. (j - 1) : k \notin Installs

\* All declarations that are pending become hooks.
Wire(ok) ==
  IF ok THEN /\ wired' = [d \in Decls |-> wired[d] + (IF d \in pending THEN 1 ELSE 0)]
             /\ pending' = {}
        ELSE UNCHANGED <<wired, pending>>

\* The installation that goes on behind plugin i: it awaits the next install(),
\* or is settled behind the last, and fails if there are audits and no adapter.
Behind(starter, i) ==
  LET j == NextInstall(i)
  IN [starter |-> starter, at |-> j,
      status |-> IF j <= NPlugins THEN "pending"
                 ELSE IF pending = {} \/ adapter THEN "fulfilled" ELSE "rejected"]

\* What it does on the way.  setAdapter() is called within the call of the
\* dbPlugin's install().
Continue(run) ==
  /\ adapter' = (adapter \/ (run.at = DbPlugin))
  /\ installed' = (installed \/ (run.status = "fulfilled"))
  /\ Wire(run.status = "fulfilled")

\* The plugin installation n is at is done.
Advance(n) ==
  LET run == Behind(runs[n].starter, runs[n].at)
  IN Continue(run) /\ runs' = [runs EXCEPT ![n] = run]

\* Caller c starts an installation and awaits it.
StartInstall(c) ==
  LET run == Behind(c, 0)
  IN /\ Continue(run)
     /\ runs' = Append(runs, run)
     /\ current' = Len(runs) + 1
     /\ holds' = [holds EXCEPT ![c] = Len(runs) + 1]
     /\ phase' = [phase EXCEPT ![c] = "waiting"]

\* Mutant of Ensure: a second caller does not find the promise of the first.
EnsureUnshared(c) ==
  /\ phase[c] = "idle"
  /\ IF installed
       THEN /\ phase' = [phase EXCEPT ![c] = "installed"]
            /\ UNCHANGED <<holds, runs, current, installed, adapter, pending, wired>>
       ELSE StartInstall(c)
  /\ UNCHANGED <<completed, failures, moduleVars>>

\* _ensurePluginsInstalled, up to its first await.
Ensure(c) ==
  /\ phase[c] = "idle"
  /\ \/ /\ installed
        /\ phase' = [phase EXCEPT ![c] = "installed"]
        /\ UNCHANGED <<holds, runs, current, installed, adapter, pending, wired>>
     \/ /\ ~installed /\ current # 0
        /\ holds' = [holds EXCEPT ![c] = current]
        /\ phase' = [phase EXCEPT ![c] = "waiting"]
        /\ UNCHANGED <<runs, current, installed, adapter, pending, wired>>
     \/ /\ ~installed /\ current = 0
        /\ StartInstall(c)
  /\ UNCHANGED <<completed, failures, moduleVars>>

\* A request comes in.
Arrive(r) == Ensure(r) /\ UNCHANGED cronDb

\* listen(): starts the installation, then schedules the cron jobs with the
\* adapter there is at that moment.
Listen ==
  /\ Ensure(Listener)
  /\ cronDb' = IF adapter' THEN "db" ELSE "none"

\* install() of the plugin a run is at resolves.
InstallDone(n) ==
  /\ runs[n].status = "pending"
  /\ completed' = [completed EXCEPT ![runs[n].at] = @ + 1]
  /\ Advance(n)
  /\ UNCHANGED <<phase, holds, current, cronDb, failures, moduleVars>>

\* It throws or rejects: so does the installation.
InstallFails(n) ==
  /\ runs[n].status = "pending" /\ failures < MaxFailures
  /\ failures' = failures + 1
  /\ runs' = [runs EXCEPT ![n].status = "rejected"]
  /\ UNCHANGED <<phase, holds, current, installed, completed, adapter, pending, wired,
                 cronDb, moduleVars>>

\* Mutant of Settled: callers look at the field, not at the promise they hold.
SettledByField(c) == holds[c] = current /\ runs[holds[c]].status # "pending"

\* The promise a caller awaits is settled.  The one who started the
\* installation is the first to learn.
Settled(c) ==
  LET run == runs[holds[c]]
  IN /\ run.status # "pending"
     /\ c = run.starter \/ phase[run.starter] # "waiting"

\* Mutant of Resume: a caller that only waits does not hear of the failure.
ResumeUnheard(c) ==
  /\ phase[c] = "waiting" /\ Settled(c)
  /\ IF runs[holds[c]].status = "rejected" /\ c = runs[holds[c]].starter
       THEN phase' = [phase EXCEPT ![c] = "rejected"] /\ current' = 0
       ELSE phase' = [phase EXCEPT ![c] = "installed"] /\ UNCHANGED current
  /\ UNCHANGED <<holds, runs, installed, completed, adapter, pending, wired, cronDb, failures,
                 moduleVars>>

\* A caller goes on: fetch() or listen() learns of the failure, and the starter
\* clears installPromise.
Resume(c) ==
  /\ phase[c] = "waiting" /\ Settled(c)
  /\ IF runs[holds[c]].status = "fulfilled"
       THEN phase' = [phase EXCEPT ![c] = "installed"] /\ UNCHANGED current
       ELSE /\ phase' = [phase EXCEPT ![c] = "rejected"]
            /\ current' = IF c = runs[holds[c]].starter THEN 0 ELSE current
  /\ UNCHANGED <<holds, runs, installed, completed, adapter, pending, wired, cronDb, failures,
                 moduleVars>>

\* register(): its audits wait for the installation.
Register(d) ==
  /\ d \notin pending /\ wired[d] = 0
  /\ pending' = pending \cup {d}
  /\ UNCHANGED <<phase, holds, runs, current, installed, completed, adapter, wired, cronDb,
                 failures, moduleVars>>

-----------------------------------------------------------------------------
(* The plugins of a module, while a request runs *)

globalVars == <<holds, runs, current, installed, completed, adapter, pending, wired, cronDb>>

\* request() of every global plugin is done; the route has a module or not.
RunGlobalPlugins(r) ==
  /\ phase[r] = "installed"
  /\ \E p \in ModulePlugins \cup {NoPlugin} :
       /\ plugin' = [plugin EXCEPT ![r] = p]
       /\ phase' = [phase EXCEPT ![r] = IF p = NoPlugin THEN "served" ELSE "module"]
  /\ UNCHANGED <<globalVars, marked, calls, ready, failures>>

\* The first request for a module plugin marks its name and calls install().
InstallModulePlugin(r) ==
  /\ phase[r] = "module" /\ plugin[r] \notin marked
  /\ marked' = marked \cup {plugin[r]}
  /\ calls' = [calls EXCEPT ![plugin[r]] = @ + 1]
  /\ phase' = [phase EXCEPT ![r] = "installing"]
  /\ UNCHANGED <<globalVars, plugin, ready, failures>>

\* A later request finds the mark and goes on.
SkipInstall(r) ==
  /\ phase[r] = "module" /\ plugin[r] \in marked
  /\ phase' = [phase EXCEPT ![r] = "request"]
  /\ UNCHANGED <<globalVars, moduleVars, failures>>

\* install() of a module plugin resolves, or throws into the error cascade.
ModuleInstallSettles(r) ==
  /\ phase[r] = "installing"
  /\ \/ /\ ready' = ready \cup {plugin[r]}
        /\ phase' = [phase EXCEPT ![r] = "request"]
        /\ UNCHANGED failures
     \/ /\ failures < MaxFailures
        /\ failures' = failures + 1
        /\ phase' = [phase EXCEPT ![r] = "rejected"]
        /\ UNCHANGED ready
  /\ UNCHANGED <<globalVars, plugin, marked, calls>>

\* request() of the module plugin.
RunModulePlugin(r) ==
  /\ phase[r] = "request"
  /\ phase' = [phase EXCEPT ![r] = "served"]
  /\ UNCHANGED <<globalVars, moduleVars, failures>>

-----------------------------------------------------------------------------
Init ==
  /\ phase = [c \in Callers |-> "idle"]
  /\ holds = [c \in Callers |-> 0]
  /\ plugin = [r \in Requests |-> NoPlugin]
  /\ runs = <<>>
  /\ current = 0
  /\ installed = FALSE
  /\ completed = [i \in 1 .. NPlugins |-> 0]
  /\ adapter = FALSE
  /\ pending = {}
  /\ wired = [d \in Decls |-> 0]
  /\ cronDb = "unscheduled"
  /\ marked = {}
  /\ calls = [p \in ModulePlugins |-> 0]
  /\ ready = {}
  /\ failures = 0

RequestStep(r) ==
  \/ RunGlobalPlugins(r) \/ InstallModulePlugin(r) \/ SkipInstall(r)
  \/ ModuleInstallSettles(r) \/ RunModulePlugin(r)

RunStep(n) == InstallDone(n) \/ InstallFails(n)

Next ==
  \/ \E r \in Requests : Arrive(r) \/ RequestStep(r)
  \/ Listen
  \/ \E n \in 1 .. Len(runs) : RunStep(n)
  \/ \E c \in Callers : Resume(c)
  \/ \E d \in Decls : Register(d)

Spec == Init /\ [][Next]_vars

\* The event loop resumes who awaits a settled promise, and install() settles.
Fairness ==
  /\ \A c \in Callers : WF_vars(Resume(c))
  /\ \A r \in Requests : WF_vars(RequestStep(r))
  /\ WF_vars(\E n \in 1 .. Len(runs) : RunStep(n))

FairSpec == Spec /\ Fairness

-----------------------------------------------------------------------------
(* Properties *)

\* Types of the variables.
TypeOK ==
  /\ phase \in [Callers -> Phases]
  /\ holds \in [Callers -> 0 .. Len(runs)]
  /\ plugin \in [Requests -> ModulePlugins \cup {NoPlugin}]
  /\ runs \in Seq(Runs)
  /\ current \in 0 .. Len(runs)
  /\ installed \in BOOLEAN
  /\ completed \in [1 .. NPlugins -> Nat]
  /\ adapter \in BOOLEAN
  /\ pending \subseteq Decls
  /\ wired \in [Decls -> Nat]
  /\ cronDb \in {"unscheduled", "none", "db"}
  /\ marked \subseteq ModulePlugins
  /\ calls \in [ModulePlugins -> Nat]
  /\ ready \subseteq marked
  /\ failures \in 0 .. MaxFailures

\* However many callers arrive before the first is done, one installation at
\* most is under way, and a finished one is never followed by another.
OneInstallation ==
  \A m, n \in 1 .. Len(runs) : m < n => runs[m].status = "rejected"

\* A request that got past fetch()'s first await finds every global plugin
\* installed, behind the plugins it was registered after.
ServedByInstalledPlugins ==
  /\ \A r \in Requests : phase[r] \in {"installed", "module", "installing", "request", "served"} =>
       installed /\ \A i \in Installs : completed[i] > 0
  /\ \A i, j \in Installs : i < j => completed[i] >= completed[j]

\* Audit hooks are never registered twice, whatever failed and was retried:
\* two hooks would write every audit row twice.
AuditsWiredOnce == \A d \in Decls : wired[d] <= 1

\* A failure is forgotten: once its starter knows, the next caller retries.
FailureIsForgotten ==
  current # 0 /\ runs[current].status = "rejected" =>
    phase[runs[current].starter] = "waiting"

\* install() of a module plugin is called once, however many requests race for it
\* (tests/app/module-plugin-race.test.ts).
ModuleInstallOnce == \A p \in ModulePlugins : calls[p] <= 1

\* Types, and all that must not happen twice or be left behind when callers
\* race and installations fail and are retried.
InstalledOnce ==
  TypeOK /\ OneInstallation /\ FailureIsForgotten /\ ModuleInstallOnce /\ AuditsWiredOnce

\* Nobody waits forever: every caller learns how the installation ended.
EveryCallerResumes == \A c \in Callers : (phase[c] = "waiting") ~> (phase[c] # "waiting")

(* What documentation and comments claim, and the code does not do *)

\* DESIGN.md:114 "Each plugin is three phases: install (once), ...".
InstallOnce == \A i \in Installs : completed[i] <= 1

\* app/index.ts:1011 calls marking before the await "the correct 'optimistic
\* add before await' pattern": request() still follows install().
RequestFollowsInstall == \A r \in Requests : phase[r] = "request" => plugin[r] \in ready

\* app/index.ts:486 "Collect audit declarations - wired after plugins install
\* (first fetch())": none is left over when the installation is done.
AuditsAreWired == installed => pending = {}

\* docs/guides/07 "Jobs have access to `ctx.db`", when a dbPlugin is registered.
JobsHaveDb == DbPlugin # 0 => cronDb # "none"
=============================================================================
