---------------------------- MODULE FetchProofs ----------------------------
(***************************************************************************)
(* Theorems about what is there when a request arrives, and what fetch()   *)
(* does before a route runs: plugin() and register() have wired routes,    *)
(* jobs and services (Registration, for every list of modules and plugins  *)
(* that the rows of those modules describe), the lazy installation is      *)
(* awaited (PluginInstall, for every set of callers, every list of plugins *)
(* and every number of failures), the route is looked up in the table      *)
(* behind its cache (RouteCache, for every set of patterns and paths and   *)
(* every size of the cache), and matchPath() compares pattern and path     *)
(* (PathMatch, for every pattern and path).  Behind it is another cache,   *)
(* for the statements a handler runs (StatementCache, for every sequence   *)
(* of statements and every limit).  Of these Registration, PluginInstall   *)
(* and RouteCache have variables, and they share none.                     *)
(***************************************************************************)
EXTENDS PluginInstall, RouteCache, Registration, StatementCache, Client,
        SequenceTheorems, FiniteSetTheorems, WellFoundedInduction, TLAPS

-----------------------------------------------------------------------------
(* The next plugin *)

\* NextInstall() finds the first install() behind a plugin, or the end.
LEMMA NextInstallFinds ==
  ASSUME NEW i \in 0 .. NPlugins
  PROVE  /\ NextInstall(i) \in (i + 1) .. (NPlugins + 1)
         /\ NextInstall(i) \in Installs \cup {NPlugins + 1}
         /\ \A k \in Installs : k < NextInstall(i) => k <= i
<1> DEFINE S == {j \in (i + 1) .. (NPlugins + 1) : j \in Installs \cup {NPlugins + 1}}
<1>1. NPlugins \in Nat /\ Installs \subseteq 1 .. NPlugins
  BY InstallAssumption
<1>2. S \subseteq Nat /\ S # {}
  <2>1. NPlugins + 1 \in S
    BY <1>1
  <2>2. S \subseteq Nat
    BY <1>1
  <2>3. QED
    BY <2>1, <2>2
<1> HIDE DEF S
<1>3. PICK j \in S : \A k \in S : ~ (<<k, j>> \in OpToRel(<, Nat))
  BY <1>2, NatLessThanWellFounded, WFMin, Zenon
<1>4. \A k \in S : ~ (k < j)
  BY <1>2, <1>3, Zenon DEF OpToRel
<1> USE DEF S
<1>5. /\ j \in (i + 1) .. (NPlugins + 1)
      /\ j \in Installs \cup {NPlugins + 1}
      /\ \A k \in (i + 1) .. (j - 1) : k \notin Installs
  <2>1. j \in (i + 1) .. (NPlugins + 1) /\ j \in Installs \cup {NPlugins + 1}
    OBVIOUS
  <2>2. ASSUME NEW k \in (i + 1) .. (j - 1), k \in Installs PROVE FALSE
    <3>1. k \in (i + 1) .. (NPlugins + 1) /\ k < j
      BY <1>1, <2>1
    <3>2. QED
      BY <1>4, <2>2, <3>1
  <2>3. QED
    BY <2>1, <2>2
<1>6. /\ NextInstall(i) \in (i + 1) .. (NPlugins + 1)
      /\ NextInstall(i) \in Installs \cup {NPlugins + 1}
      /\ \A k \in (i + 1) .. (NextInstall(i) - 1) : k \notin Installs
  BY <1>5, Zenon DEF NextInstall
<1>7. ASSUME NEW k \in Installs, k < NextInstall(i) PROVE k <= i
  BY <1>1, <1>6, <1>7
<1>8. QED
  BY <1>6, <1>7

\* What an installation of starter is, once it has gone on behind plugin i.
GoneOn(starter, i, run) ==
  /\ run \in Runs /\ run.starter = starter /\ i < run.at
  /\ \A k \in Installs : k < run.at => k <= i
  /\ run.status = "pending" => run.at \in Installs
  /\ run.status # "pending" => run.at = NPlugins + 1

\* The run behind install() is one that has gone on from there.
LEMMA BehindGoesOn ==
  ASSUME NEW c \in Callers, NEW i \in 0 .. NPlugins
  PROVE  GoneOn(c, i, Behind(c, i))
<1> DEFINE j == NextInstall(i)
           status == IF j <= NPlugins THEN "pending"
                     ELSE IF pending = {} \/ adapter THEN "fulfilled" ELSE "rejected"
<1>1. /\ j \in 1 .. NPlugins + 1 /\ i < j
      /\ j \in Installs \cup {NPlugins + 1}
      /\ \A k \in Installs : k < j => k <= i
      /\ NPlugins \in Nat /\ Installs \subseteq 1 .. NPlugins
  BY NextInstallFinds, InstallAssumption
<1> HIDE DEF j
<1>2. /\ status \in {"pending", "fulfilled", "rejected"}
      /\ status = "pending" => j \in Installs
      /\ status # "pending" => j = NPlugins + 1
  BY <1>1
<1> HIDE DEF status
<1>3. Behind(c, i) = [starter |-> c, at |-> j, status |-> status]
  BY DEF Behind, j, status
<1>4. QED
  BY <1>1, <1>2, <1>3 DEF GoneOn, Runs

-----------------------------------------------------------------------------
(* Type correctness *)

\* A caller that waits does so for some installation, and an installation that
\* is under way is at a plugin.
Waiting ==
  /\ \A c \in Callers : phase[c] = "waiting" => holds[c] \in 1 .. Len(runs)
  /\ \A n \in 1 .. Len(runs) : runs[n].status = "pending" => runs[n].at \in Installs

\* A request in the module phases has a plugin, and while it awaits its
\* install() the plugin is marked.
Routed ==
  \A r \in Requests :
    /\ phase[r] \in {"module", "installing"} => plugin[r] \in ModulePlugins
    /\ phase[r] = "installing" => plugin[r] \in marked

TypeInv == TypeOK /\ Waiting /\ Routed

\* No installation has been started at first.
LEMMA InitTypeInv == Init => TypeInv
<1> SUFFICES ASSUME Init PROVE TypeInv
  OBVIOUS
<1>1. runs = <<>> /\ Len(runs) = 0 /\ runs \in Seq(Runs)
  BY DEF Init
<1>2. /\ phase \in [Callers -> Phases] /\ holds \in [Callers -> 0 .. Len(runs)]
      /\ plugin \in [Requests -> ModulePlugins \cup {NoPlugin}]
      /\ current \in 0 .. Len(runs)
  BY <1>1 DEF Init, Phases
<1>3. /\ completed \in [1 .. NPlugins -> Nat] /\ wired \in [Decls -> Nat]
      /\ calls \in [ModulePlugins -> Nat] /\ failures \in 0 .. MaxFailures
  BY InstallAssumption DEF Init
<1>4. /\ installed \in BOOLEAN /\ adapter \in BOOLEAN /\ pending \subseteq Decls
      /\ cronDb \in {"unscheduled", "none", "db"} /\ marked \subseteq ModulePlugins /\ ready \subseteq marked
  BY DEF Init
<1>5. Waiting /\ Routed
  BY <1>1 DEF Init, Waiting, Routed, Callers
<1>6. QED
  BY <1>1, <1>2, <1>3, <1>4, <1>5 DEF TypeInv, TypeOK

\* The variables behind TypeOK as plain facts.
LEMMA Types ==
  ASSUME TypeInv
  PROVE  /\ Len(runs) \in Nat
         /\ \A n \in 1 .. Len(runs) :
              /\ runs[n] \in Runs /\ runs[n].starter \in Callers /\ runs[n].at \in 1 .. NPlugins + 1
              /\ runs[n].status \in {"pending", "fulfilled", "rejected"}
              /\ runs[n].status = "pending" => runs[n].at \in 1 .. NPlugins
         /\ NPlugins \in Nat /\ Installs \subseteq 1 .. NPlugins
<1>1. runs \in Seq(Runs)
  BY DEF TypeInv, TypeOK
<1>2. Len(runs) \in Nat /\ \A n \in 1 .. Len(runs) : runs[n] \in Runs
  BY <1>1, LenProperties, ElementOfSeq
<1>3. NPlugins \in Nat /\ Installs \subseteq 1 .. NPlugins
  BY InstallAssumption
<1>4. QED
  BY <1>2, <1>3 DEF Runs, TypeInv, Waiting

-----------------------------------------------------------------------------
(* What one step does to the installations *)

\* The phases behind fetch()'s first await.
Beyond == {"installed", "module", "installing", "request", "served"}

installVars == <<phase, holds, runs, current, installed, completed>>

\* Installation n becomes run.
Becomes(n, run) ==
  /\ runs' \in Seq(Runs) /\ Len(runs') = Len(runs)
  /\ \A m \in 1 .. Len(runs) : runs'[m] = IF m = n THEN run ELSE runs[m]

\* A caller finds the plugins installed, or an installation under way.
Joins(c) ==
  /\ phase[c] = "idle"
  /\ \/ installed /\ phase' = [phase EXCEPT ![c] = "installed"] /\ holds' = holds
     \/ /\ current # 0
        /\ phase' = [phase EXCEPT ![c] = "waiting"] /\ holds' = [holds EXCEPT ![c] = current]
  /\ UNCHANGED <<runs, current, installed, completed>>

\* It starts one.
Starts(c) ==
  /\ phase[c] = "idle" /\ ~installed /\ current = 0
  /\ phase' = [phase EXCEPT ![c] = "waiting"] /\ holds' = [holds EXCEPT ![c] = Len(runs) + 1]
  /\ current' = Len(runs) + 1 /\ completed' = completed
  /\ runs' \in Seq(Runs) /\ Len(runs') = Len(runs) + 1
  /\ \A m \in 1 .. Len(runs) : runs'[m] = runs[m]
  /\ GoneOn(c, 0, runs'[Len(runs) + 1])
  /\ installed' = (runs'[Len(runs) + 1].status = "fulfilled")

\* The install() an installation is at resolves.
GoesOn(n) ==
  /\ runs[n].status = "pending"
  /\ completed' = [completed EXCEPT ![runs[n].at] = @ + 1]
  /\ \E run \in Runs :
       /\ GoneOn(runs[n].starter, runs[n].at, run) /\ Becomes(n, run)
       /\ installed' = (installed \/ run.status = "fulfilled")
  /\ UNCHANGED <<phase, holds, current>>

\* It fails, and with it the installation.
Breaks(n) ==
  /\ runs[n].status = "pending"
  /\ \E run \in Runs :
       /\ run.starter = runs[n].starter /\ run.at = runs[n].at /\ run.status = "rejected"
       /\ Becomes(n, run)
  /\ UNCHANGED <<phase, holds, current, installed, completed>>

\* A caller learns how its installation ended.
Learns(c) ==
  /\ phase[c] = "waiting"
  /\ \/ /\ runs[holds[c]].status = "fulfilled"
        /\ phase' = [phase EXCEPT ![c] = "installed"] /\ current' = current
     \/ /\ runs[holds[c]].status = "rejected"
        /\ phase' = [phase EXCEPT ![c] = "rejected"]
        /\ current' = IF c = runs[holds[c]].starter THEN 0 ELSE current
  /\ UNCHANGED <<holds, runs, installed, completed>>

\* A request goes on behind the installation.
Serves(r) ==
  /\ phase[r] \in Beyond
  /\ \E ph \in Beyond \cup {"rejected"} : phase' = [phase EXCEPT ![r] = ph]
  /\ UNCHANGED <<holds, runs, current, installed, completed>>

\* A caller of _ensureInstalled() joins a run or starts one.
LEMMA EnsureKind ==
  ASSUME TypeInv, NEW c \in Callers, Ensure(c)
  PROVE  Joins(c) \/ Starts(c)
<1>1. CASE installed /\ phase' = [phase EXCEPT ![c] = "installed"]
           /\ UNCHANGED <<holds, runs, current, installed, adapter, pending, wired>>
  BY <1>1 DEF Ensure, Joins
<1>2. CASE /\ ~installed /\ current # 0
           /\ holds' = [holds EXCEPT ![c] = current]
           /\ phase' = [phase EXCEPT ![c] = "waiting"]
           /\ UNCHANGED <<runs, current, installed, adapter, pending, wired>>
  BY <1>2 DEF Ensure, Joins
<1>3. CASE ~installed /\ current = 0 /\ StartInstall(c)
  <2> DEFINE run == Behind(c, 0)
  <2>1. GoneOn(c, 0, run)
    BY BehindGoesOn, InstallAssumption
  <2>2. /\ runs' = Append(runs, run) /\ current' = Len(runs) + 1
        /\ holds' = [holds EXCEPT ![c] = Len(runs) + 1]
        /\ phase' = [phase EXCEPT ![c] = "waiting"]
        /\ installed' = (installed \/ run.status = "fulfilled")
    BY <1>3 DEF StartInstall, Continue
  <2>3. run \in Runs /\ runs \in Seq(Runs)
    BY <2>1 DEF GoneOn, TypeInv, TypeOK
  <2> HIDE DEF run
  <2>4. /\ runs' \in Seq(Runs) /\ Len(runs') = Len(runs) + 1
        /\ \A m \in 1 .. Len(runs) : runs'[m] = runs[m]
        /\ runs'[Len(runs) + 1] = run
    BY <2>2, <2>3, AppendProperties
  <2>5. phase[c] = "idle" /\ completed' = completed
    BY DEF Ensure
  <2>6. QED
    BY <1>3, <2>1, <2>2, <2>4, <2>5 DEF Starts
<1>4. QED
  BY <1>1, <1>2, <1>3 DEF Ensure

\* Of the installation every step is one of a caller, of a run, of a request behind it, or none.
LEMMA StepKinds ==
  ASSUME TypeInv, [Next]_vars
  PROVE  \/ UNCHANGED installVars
         \/ \E c \in Callers : Joins(c) \/ Starts(c) \/ Learns(c)
         \/ \E n \in 1 .. Len(runs) : GoesOn(n) \/ Breaks(n)
         \/ \E r \in Requests : Serves(r)
<1>1. CASE UNCHANGED vars
  BY <1>1 DEF vars, installVars
<1>2. ASSUME NEW c \in Callers, Ensure(c) PROVE Joins(c) \/ Starts(c)
  BY <1>2, EnsureKind
<1>3. ASSUME NEW n \in 1 .. Len(runs), InstallDone(n) PROVE GoesOn(n)
  <2>1. /\ runs[n].starter \in Callers /\ runs[n].at \in 0 .. NPlugins /\ runs[n].status = "pending"
        /\ runs \in Seq(Runs)
    BY <1>3, Types DEF InstallDone, TypeInv, TypeOK
  <2> DEFINE run == Behind(runs[n].starter, runs[n].at)
  <2>2. GoneOn(runs[n].starter, runs[n].at, run)
    BY <2>1, BehindGoesOn
  <2>3. /\ runs' = [runs EXCEPT ![n] = run] /\ installed' = (installed \/ run.status = "fulfilled")
        /\ completed' = [completed EXCEPT ![runs[n].at] = @ + 1]
        /\ UNCHANGED <<phase, holds, current>>
    BY <1>3 DEF InstallDone, Advance, Continue
  <2>4. run \in Runs
    BY <2>2 DEF GoneOn
  <2> HIDE DEF run
  <2>5. Becomes(n, run)
    BY <2>1, <2>3, <2>4, ExceptSeq DEF Becomes
  <2>6. QED
    BY <2>1, <2>2, <2>3, <2>4, <2>5 DEF GoesOn
<1>4. ASSUME NEW n \in 1 .. Len(runs), InstallFails(n) PROVE Breaks(n)
  <2> DEFINE run == [runs[n] EXCEPT !.status = "rejected"]
  <2>1. runs[n] \in Runs /\ runs \in Seq(Runs)
    BY Types DEF TypeInv, TypeOK
  <2>2. run \in Runs /\ run.starter = runs[n].starter /\ run.at = runs[n].at /\ run.status = "rejected"
    BY <2>1 DEF Runs
  <2>3. /\ runs' = [runs EXCEPT ![n] = run]
        /\ runs[n].status = "pending"
        /\ UNCHANGED <<phase, holds, current, installed, completed>>
    BY <1>4, Zenon DEF InstallFails
  <2> HIDE DEF run
  <2>4. Becomes(n, run)
    BY <2>1, <2>2, <2>3, ExceptSeq DEF Becomes
  <2>5. QED
    BY <2>2, <2>3, <2>4 DEF Breaks
<1>5. ASSUME NEW c \in Callers, Resume(c) PROVE Learns(c)
  <2>1. holds[c] \in 1 .. Len(runs)
    BY <1>5 DEF Resume, TypeInv, Waiting
  <2>2. runs[holds[c]].status \in {"pending", "fulfilled", "rejected"}
    BY <2>1, Types
  <2>3. QED
    BY <1>5, <2>2 DEF Resume, Settled, Learns
<1>6. ASSUME NEW r \in Requests, RequestStep(r) PROVE Serves(r)
  BY <1>6 DEF RequestStep, RunGlobalPlugins, InstallModulePlugin, SkipInstall,
     ModuleInstallSettles, RunModulePlugin, globalVars, Serves, Beyond
<1>7. ASSUME NEW d \in Decls, Register(d) PROVE UNCHANGED installVars
  BY <1>7 DEF Register, installVars
<1>8. QED
  BY <1>1, <1>2, <1>3, <1>4, <1>5, <1>6, <1>7 DEF Next, Arrive, Listen, RunStep, Callers

\* The types of the variables a step of an installation changes.
LEMMA InstallTypes ==
  ASSUME TypeInv, [Next]_vars
  PROVE  /\ phase' \in [Callers -> Phases] /\ holds' \in [Callers -> 0 .. Len(runs')]
         /\ runs' \in Seq(Runs) /\ current' \in 0 .. Len(runs') /\ installed' \in BOOLEAN
         /\ completed' \in [1 .. NPlugins -> Nat]
         /\ Waiting'
<1> USE DEF Phases
<1>1. /\ phase \in [Callers -> Phases] /\ holds \in [Callers -> 0 .. Len(runs)]
      /\ runs \in Seq(Runs) /\ current \in 0 .. Len(runs) /\ installed \in BOOLEAN
      /\ completed \in [1 .. NPlugins -> Nat]
      /\ Len(runs) \in Nat
      /\ \A c \in Callers : phase[c] = "waiting" => holds[c] \in 1 .. Len(runs)
      /\ \A n \in 1 .. Len(runs) : runs[n].status = "pending" => runs[n].at \in Installs
  BY Types DEF TypeInv, TypeOK, Waiting
<1>2. CASE UNCHANGED installVars
  BY <1>1, <1>2 DEF installVars, Waiting
<1>3. ASSUME NEW c \in Callers, Joins(c) \/ Learns(c)
      PROVE  /\ phase' \in [Callers -> Phases] /\ holds' \in [Callers -> 0 .. Len(runs')]
             /\ runs' \in Seq(Runs) /\ current' \in 0 .. Len(runs') /\ installed' \in BOOLEAN
             /\ completed' \in [1 .. NPlugins -> Nat]
             /\ Waiting'
  BY <1>1, <1>3 DEF Joins, Learns, Waiting
<1>4. ASSUME NEW c \in Callers, Starts(c)
      PROVE  /\ phase' \in [Callers -> Phases] /\ holds' \in [Callers -> 0 .. Len(runs')]
             /\ runs' \in Seq(Runs) /\ current' \in 0 .. Len(runs') /\ installed' \in BOOLEAN
             /\ completed' \in [1 .. NPlugins -> Nat]
             /\ Waiting'
  <2>1. /\ phase' = [phase EXCEPT ![c] = "waiting"] /\ holds' = [holds EXCEPT ![c] = Len(runs) + 1]
        /\ current' = Len(runs) + 1 /\ completed' = completed
        /\ runs' \in Seq(Runs) /\ Len(runs') = Len(runs) + 1 /\ installed' \in BOOLEAN
    BY <1>4 DEF Starts
  <2>2. \A n \in 1 .. Len(runs') : runs'[n].status = "pending" => runs'[n].at \in Installs
    <3>1. \A n \in 1 .. Len(runs) : runs'[n] = runs[n]
      BY <1>4 DEF Starts
    <3>2. runs'[Len(runs) + 1].status = "pending" => runs'[Len(runs) + 1].at \in Installs
      BY <1>4 DEF Starts, GoneOn
    <3>3. \A n \in 1 .. Len(runs') : n \in 1 .. Len(runs) \/ n = Len(runs) + 1
      BY <1>1, <2>1
    <3>4. QED
      BY <1>1, <3>1, <3>2, <3>3
  <2>3. QED
    BY <1>1, <2>1, <2>2 DEF Waiting
<1>5. ASSUME NEW n \in 1 .. Len(runs), GoesOn(n) \/ Breaks(n)
      PROVE  /\ phase' \in [Callers -> Phases] /\ holds' \in [Callers -> 0 .. Len(runs')]
             /\ runs' \in Seq(Runs) /\ current' \in 0 .. Len(runs') /\ installed' \in BOOLEAN
             /\ completed' \in [1 .. NPlugins -> Nat]
             /\ Waiting'
  <2>1. PICK run \in Runs : /\ Becomes(n, run)
                            /\ run.status = "pending" => run.at \in Installs
    BY <1>5 DEF GoesOn, Breaks, GoneOn
  <2>2. runs[n].at \in 1 .. NPlugins
    BY <1>5, Types DEF GoesOn, Breaks
  <2>3. completed' \in [1 .. NPlugins -> Nat]
    BY <1>1, <1>5, <2>2 DEF GoesOn, Breaks
  <2>4. UNCHANGED <<phase, holds, current>> /\ installed' \in BOOLEAN
    BY <1>1, <1>5 DEF GoesOn, Breaks
  <2>5. QED
    BY <1>1, <2>1, <2>3, <2>4 DEF Becomes, Waiting
<1>6. ASSUME NEW r \in Requests, Serves(r)
      PROVE  /\ phase' \in [Callers -> Phases] /\ holds' \in [Callers -> 0 .. Len(runs')]
             /\ runs' \in Seq(Runs) /\ current' \in 0 .. Len(runs') /\ installed' \in BOOLEAN
             /\ completed' \in [1 .. NPlugins -> Nat]
             /\ Waiting'
  BY <1>1, <1>6 DEF Serves, Beyond, Callers, Waiting
<1>7. QED
  BY <1>2, <1>3, <1>4, <1>5, <1>6, StepKinds

\* Every step keeps the types.
LEMMA StepTypeInv == TypeInv /\ [Next]_vars => TypeInv'
<1> SUFFICES ASSUME TypeInv, [Next]_vars PROVE TypeInv'
  OBVIOUS
<1>1. /\ plugin \in [Requests -> ModulePlugins \cup {NoPlugin}] /\ adapter \in BOOLEAN
      /\ pending \subseteq Decls /\ wired \in [Decls -> Nat] /\ cronDb \in {"unscheduled", "none", "db"}
      /\ marked \subseteq ModulePlugins /\ calls \in [ModulePlugins -> Nat] /\ ready \subseteq marked
      /\ failures \in 0 .. MaxFailures /\ MaxFailures \in Nat
      /\ NoPlugin \notin ModulePlugins /\ phase \in [Callers -> Phases]
  BY InstallAssumption DEF TypeInv, TypeOK
\* The callers' own steps lead to none of the module phases.
<1>m. ASSUME \A r \in Requests : phase'[r] = phase[r] \/ phase'[r] \in {"waiting", "installed", "rejected"},
             UNCHANGED <<plugin, marked>>
      PROVE  Routed'
  BY <1>m DEF TypeInv, Routed
<1> DEFINE Rest == /\ plugin' \in [Requests -> ModulePlugins \cup {NoPlugin}] /\ adapter' \in BOOLEAN
                   /\ pending' \subseteq Decls /\ wired' \in [Decls -> Nat]
                   /\ cronDb' \in {"unscheduled", "none", "db"}
                   /\ marked' \subseteq ModulePlugins /\ calls' \in [ModulePlugins -> Nat]
                   /\ ready' \subseteq marked' /\ failures' \in 0 .. MaxFailures
                   /\ Routed'
<1>2. ASSUME UNCHANGED vars PROVE Rest
  BY <1>1, <1>2, <1>m DEF vars
<1>w. ASSUME NEW ok, Wire(ok) PROVE pending' \subseteq Decls /\ wired' \in [Decls -> Nat]
  BY <1>1, <1>w DEF Wire
<1>3. ASSUME NEW c \in Callers, Ensure(c)
      PROVE  /\ adapter' \in BOOLEAN /\ pending' \subseteq Decls /\ wired' \in [Decls -> Nat]
             /\ UNCHANGED <<plugin, marked, calls, ready, failures>>
             /\ Routed'
  <2>1. \A r \in Requests : phase'[r] = phase[r] \/ phase'[r] \in {"waiting", "installed"}
    BY <1>1, <1>3 DEF Ensure, StartInstall, Callers
  <2>2. CASE StartInstall(c)
    <3>1. adapter' \in BOOLEAN /\ Wire(Behind(c, 0).status = "fulfilled")
      BY <1>1, <2>2 DEF StartInstall, Continue
    <3>2. QED
      BY <1>3, <1>w, <1>m, <2>1, <3>1 DEF Ensure, moduleVars
  <2>3. QED
    BY <1>1, <1>3, <1>m, <2>1, <2>2 DEF Ensure, moduleVars
<1>4. ASSUME NEW n \in 1 .. Len(runs), InstallDone(n) PROVE Rest
  <2>1. /\ adapter' \in BOOLEAN /\ Wire(Behind(runs[n].starter, runs[n].at).status = "fulfilled")
        /\ UNCHANGED <<phase, cronDb, failures, plugin, marked, calls, ready>>
    BY <1>1, <1>4 DEF InstallDone, Advance, Continue, moduleVars
  <2>2. QED
    BY <1>1, <1>w, <1>m, <2>1
<1>5. ASSUME NEW n \in 1 .. Len(runs), InstallFails(n) PROVE Rest
  BY <1>1, <1>5, <1>m DEF InstallFails, moduleVars
<1>6. ASSUME NEW c \in Callers, Resume(c) PROVE Rest
  <2>1. \A r \in Requests : phase'[r] = phase[r] \/ phase'[r] \in {"installed", "rejected"}
    BY <1>1, <1>6 DEF Resume, Callers
  <2>2. QED
    BY <1>1, <1>6, <1>m, <2>1 DEF Resume, moduleVars
<1>7. ASSUME NEW d \in Decls, Register(d) PROVE Rest
  BY <1>1, <1>7, <1>m DEF Register, moduleVars
<1>8. ASSUME NEW r \in Requests, RequestStep(r) PROVE Rest
  <2>1. UNCHANGED <<adapter, pending, wired, cronDb>>
    BY <1>8 DEF RequestStep, RunGlobalPlugins, InstallModulePlugin, SkipInstall,
       ModuleInstallSettles, RunModulePlugin, globalVars
  <2>2. Routed /\ r \in Callers
    BY DEF TypeInv, Callers
  <2>3. CASE RunGlobalPlugins(r)
    <3>1. Routed'
      BY <1>1, <2>2, <2>3 DEF RunGlobalPlugins, Routed, Callers
    <3>2. QED
      BY <1>1, <2>1, <2>3, <3>1 DEF RunGlobalPlugins
  <2>4. CASE InstallModulePlugin(r)
    <3>1. plugin[r] \in ModulePlugins
      BY <2>2, <2>4 DEF InstallModulePlugin, Routed
    <3>2. Routed'
      BY <1>1, <2>2, <2>4, <3>1 DEF InstallModulePlugin, Routed, Callers
    <3>3. QED
      BY <1>1, <2>1, <2>4, <3>1, <3>2 DEF InstallModulePlugin
  <2>5. CASE SkipInstall(r) \/ RunModulePlugin(r)
    <3>1. Routed'
      BY <1>1, <2>2, <2>5 DEF SkipInstall, RunModulePlugin, moduleVars, Routed, Callers
    <3>2. QED
      BY <1>1, <2>1, <2>5, <3>1 DEF SkipInstall, RunModulePlugin, moduleVars
  <2>6. CASE ModuleInstallSettles(r)
    <3>1. plugin[r] \in marked
      BY <2>2, <2>6 DEF ModuleInstallSettles, Routed
    <3>2. Routed'
      BY <1>1, <2>2, <2>6 DEF ModuleInstallSettles, Routed, Callers
    <3>3. QED
      BY <1>1, <2>1, <2>6, <3>1, <3>2 DEF ModuleInstallSettles
  <2>7. QED
    BY <1>8, <2>3, <2>4, <2>5, <2>6 DEF RequestStep
<1>9. Rest
  <2>1. ASSUME NEW r \in Requests, Arrive(r) PROVE Rest
    BY <1>1, <1>3, <2>1 DEF Arrive, Callers
  <2>2. ASSUME Listen PROVE Rest
    BY <1>1, <1>3, <2>2 DEF Listen, Callers
  <2>3. QED
    BY <1>2, <1>4, <1>5, <1>6, <1>7, <1>8, <2>1, <2>2 DEF Next, RunStep
<1>10. QED
  BY <1>9, InstallTypes DEF TypeInv, TypeOK

\* Every variable keeps its type, for every number of plugins, callers and runs.
THEOREM TypeCorrect == Spec => []TypeOK
<1>1. TypeInv => TypeOK
  BY DEF TypeInv
<1>2. QED
  BY <1>1, InitTypeInv, StepTypeInv, PTL DEF Spec

-----------------------------------------------------------------------------
(* One installation at a time *)

\* What is known of an installation: only the last one, whose promise is kept,
\* may not have failed; the caller that started it holds it and waits while it
\* is under way, and until it has heard of a failure; and the plugins in front
\* of the one it is at are installed once more than those behind.
OfRun(n) ==
  /\ phase[runs[n].starter] # "idle" /\ holds[runs[n].starter] = n
  /\ runs[n].status # "rejected" => n = current
  /\ n # current => phase[runs[n].starter] # "waiting"
  /\ runs[n].status = "pending" => phase[runs[n].starter] = "waiting"
  /\ runs[n].status = "rejected" /\ n = current => phase[runs[n].starter] = "waiting"
  /\ runs[n].status = "fulfilled" => installed /\ runs[n].at = NPlugins + 1
  /\ \A i \in Installs : i < runs[n].at => completed[i] > 0
  /\ runs[n].status = "pending" =>
       \A i, j \in Installs : i < runs[n].at /\ runs[n].at <= j => completed[i] > completed[j]

\* Installed is what the last installation has fulfilled; who is past fetch()'s
\* first await found it so.
Installed ==
  /\ installed => /\ current # 0 /\ runs[current].status = "fulfilled"
                  /\ \A i \in Installs : completed[i] > 0
  /\ \A c \in Callers : phase[c] \in Beyond => installed
  /\ \A i, j \in Installs : i < j => completed[i] >= completed[j]

InstallInv == (\A n \in 1 .. Len(runs) : OfRun(n)) /\ current \in {0, Len(runs)} /\ Installed

\* No installation has been started at first.
LEMMA InitInstall == Init => InstallInv
<1> SUFFICES ASSUME Init PROVE InstallInv
  OBVIOUS
<1>1. Len(runs) = 0 /\ current = 0 /\ ~installed
  BY DEF Init
<1>2. \A i \in Installs : completed[i] = 0
  BY InstallAssumption DEF Init
<1>3. \A c \in Callers : phase[c] \notin Beyond
  BY DEF Init, Beyond
<1>4. QED
  BY <1>1, <1>2, <1>3 DEF InstallInv, Installed

\* Every step keeps one run under way at most, the one _installPromise holds.
LEMMA StepInstall == TypeInv /\ InstallInv /\ [Next]_vars => InstallInv'
<1> SUFFICES ASSUME TypeInv, InstallInv, [Next]_vars PROVE InstallInv'
  OBVIOUS
<1>1. /\ phase \in [Callers -> Phases] /\ holds \in [Callers -> 0 .. Len(runs)]
      /\ completed \in [1 .. NPlugins -> Nat] /\ Len(runs) \in Nat
      /\ \A n \in 1 .. Len(runs) : runs[n].starter \in Callers
      /\ \A n \in 1 .. Len(runs) : runs[n].at \in 1 .. NPlugins + 1
      /\ \A n \in 1 .. Len(runs) : runs[n].status \in {"pending", "fulfilled", "rejected"}
      /\ \A n \in 1 .. Len(runs) : runs[n].status = "pending" => runs[n].at \in Installs
      /\ \A c \in Callers : phase[c] = "waiting" => holds[c] \in 1 .. Len(runs)
      /\ NPlugins \in Nat /\ Installs \subseteq 1 .. NPlugins /\ current \in 0 .. Len(runs)
  BY Types DEF TypeInv, TypeOK, Waiting
<1>2. (\A n \in 1 .. Len(runs) : OfRun(n)) /\ current \in {0, Len(runs)} /\ Installed
  BY DEF InstallInv
<1>3. CASE UNCHANGED installVars
  BY <1>2, <1>3 DEF installVars, InstallInv, OfRun, Installed
<1>4. ASSUME NEW c \in Callers, Joins(c) PROVE InstallInv'
  <2>1. UNCHANGED <<runs, current, installed, completed>>
    BY <1>4 DEF Joins
  <2>2. ASSUME NEW n \in 1 .. Len(runs) PROVE OfRun(n)'
    <3>1. runs[n].starter # c /\ runs[n].starter \in Callers
      BY <1>1, <1>2, <1>4 DEF Joins, OfRun
    <3>2. phase'[runs[n].starter] = phase[runs[n].starter] /\ holds'[runs[n].starter] = holds[runs[n].starter]
      BY <1>1, <1>4, <3>1 DEF Joins
    <3>3. QED
      BY <1>2, <2>1, <3>2 DEF OfRun
  <2>3. \A q \in Callers : phase'[q] \in Beyond => installed
    BY <1>1, <1>2, <1>4 DEF Joins, Installed, Beyond
  <2>4. QED
    BY <1>2, <2>1, <2>2, <2>3 DEF InstallInv, Installed
<1>5. ASSUME NEW c \in Callers, Starts(c) PROVE InstallInv'
  <2>0. PICK new \in Nat : new = Len(runs) + 1
    BY <1>1
  <2>1. /\ phase[c] = "idle" /\ ~installed /\ current = 0
        /\ phase' = [phase EXCEPT ![c] = "waiting"] /\ holds' = [holds EXCEPT ![c] = new]
        /\ current' = new /\ completed' = completed
        /\ Len(runs') = new /\ \A m \in 1 .. Len(runs) : runs'[m] = runs[m]
        /\ GoneOn(c, 0, runs'[new]) /\ installed' = (runs'[new].status = "fulfilled")
    BY <1>5, <2>0 DEF Starts
  <2>2. /\ runs'[new].starter = c /\ \A k \in Installs : ~(k < runs'[new].at)
        /\ runs'[new].status = "fulfilled" => runs'[new].at = NPlugins + 1
    BY <1>1, <2>1 DEF GoneOn
  <2>3. OfRun(new)'
    BY <1>1, <2>0, <2>1, <2>2 DEF OfRun
  <2>4. ASSUME NEW n \in 1 .. Len(runs) PROVE OfRun(n)'
    <3>0. n # current
      BY <1>1, <2>1
    <3>1. /\ runs[n].starter # c /\ runs[n].starter \in Callers
          /\ runs[n].status = "rejected" /\ phase[runs[n].starter] # "waiting"
      BY <1>1, <1>2, <2>1, <3>0 DEF OfRun
    <3>2. phase'[runs[n].starter] = phase[runs[n].starter] /\ holds'[runs[n].starter] = holds[runs[n].starter]
      BY <1>1, <2>1, <3>1
    <3>3. n # new
      BY <1>1, <2>0
    <3>4. QED
      BY <1>2, <2>1, <3>1, <3>2, <3>3 DEF OfRun
  <2>5. \A n \in 1 .. Len(runs') : n \in 1 .. Len(runs) \/ n = new
    BY <1>1, <2>0, <2>1
  <2>6. \A q \in Callers : phase'[q] \notin Beyond
    BY <1>1, <1>2, <2>1 DEF Installed, Beyond
  <2>7. installed' => current' # 0 /\ runs'[current'].status = "fulfilled" /\ Installs = {}
    <3>1. new # 0
      BY <1>1, <2>0
    <3>2. ASSUME NEW k \in Installs, runs'[new].status = "fulfilled" PROVE FALSE
      <4>1. runs'[new].at = NPlugins + 1 /\ k \in 1 .. NPlugins /\ ~(k < runs'[new].at)
        BY <1>1, <2>2, <3>2
      <4>2. QED
        BY <1>1, <4>1
    <3>3. QED
      BY <2>1, <3>1, <3>2
  <2>8. QED
    BY <1>2, <2>1, <2>3, <2>4, <2>5, <2>6, <2>7 DEF InstallInv, Installed
<1>6. ASSUME NEW n \in 1 .. Len(runs), GoesOn(n) PROVE InstallInv'
  <2>1. /\ runs[n].status = "pending" /\ completed' = [completed EXCEPT ![runs[n].at] = @ + 1]
        /\ UNCHANGED <<phase, holds, current>>
    BY <1>6 DEF GoesOn
  <2>2. PICK run \in Runs : /\ GoneOn(runs[n].starter, runs[n].at, run) /\ Becomes(n, run)
                            /\ installed' = (installed \/ run.status = "fulfilled")
    BY <1>6 DEF GoesOn
  <2>3. /\ runs'[n] = run /\ Len(runs') = Len(runs)
        /\ \A m \in 1 .. Len(runs) : m # n => runs'[m] = runs[m]
    BY <2>2 DEF Becomes
  <2> DEFINE a == runs[n].at
  <2>4. /\ a \in Installs /\ a \in 1 .. NPlugins /\ n = current /\ OfRun(n)
        /\ completed'[a] = completed[a] + 1 /\ \A i \in Installs : i # a => completed'[i] = completed[i]
        /\ \A i \in Installs : completed[i] \in Nat
    BY <1>1, <1>2, <2>1 DEF OfRun
  <2>5. /\ run.starter = runs[n].starter /\ a < run.at /\ \A k \in Installs : k < run.at => k <= a
        /\ run.status # "pending" => run.at = NPlugins + 1
        /\ run.status \in {"pending", "fulfilled", "rejected"} /\ run.at \in Nat
    BY <1>1, <2>2 DEF GoneOn, Runs
  <2>6. ~installed
    BY <1>2, <2>1, <2>4 DEF Installed
  <2>7. \A i \in Installs : i < run.at => completed'[i] > 0
    <3> SUFFICES ASSUME NEW i \in Installs, i < run.at PROVE completed'[i] > 0
      OBVIOUS
    <3>1. CASE i = a
      BY <2>4, <3>1
    <3>2. CASE i # a
      <4>1. i < a
        BY <1>1, <2>4, <2>5, <3>2
      <4>2. QED
        BY <2>4, <3>2, <4>1 DEF OfRun
    <3>3. QED
      BY <3>1, <3>2
  <2>8. \A i, j \in Installs : i < run.at /\ run.at <= j => completed'[i] > completed'[j]
    <3> SUFFICES ASSUME NEW i \in Installs, NEW j \in Installs, i < run.at, run.at <= j
                 PROVE  completed'[i] > completed'[j]
      OBVIOUS
    <3>1. i <= a /\ a < j /\ i \in Nat /\ j \in Nat
      BY <1>1, <2>4, <2>5
    <3>2. CASE i = a
      <4>1. completed[a] >= completed[j]
        BY <1>2, <2>4, <3>1 DEF Installed
      <4>2. QED
        BY <2>4, <3>1, <3>2, <4>1
    <3>3. CASE i # a
      <4>1. i < a
        BY <2>4, <3>1, <3>3
      <4>2. completed[i] > completed[j]
        BY <2>1, <2>4, <3>1, <4>1 DEF OfRun
      <4>3. QED
        BY <2>4, <3>1, <3>3, <4>2
    <3>4. QED
      BY <3>2, <3>3
  <2>9. \A i, j \in Installs : i < j => completed'[i] >= completed'[j]
    <3> SUFFICES ASSUME NEW i \in Installs, NEW j \in Installs, i < j PROVE completed'[i] >= completed'[j]
      OBVIOUS
    <3>1. completed[i] >= completed[j] /\ i \in Nat /\ j \in Nat
      BY <1>1, <1>2 DEF Installed
    <3>2. CASE j = a
      <4>1. completed[i] > completed[a] /\ i # a
        BY <2>1, <2>4, <3>1, <3>2 DEF OfRun
      <4>2. QED
        BY <2>4, <3>2, <4>1
    <3>3. CASE j # a
      BY <2>4, <3>1, <3>3
    <3>4. QED
      BY <3>2, <3>3
  <2>10. run.status = "fulfilled" => \A i \in Installs : completed'[i] > 0
    BY <1>1, <2>5, <2>7
  <2>11. ASSUME NEW m \in 1 .. Len(runs) PROVE OfRun(m)'
    <3>1. CASE m = n
      <4>1. runs'[m] = run /\ phase[run.starter] = "waiting" /\ holds[run.starter] = n
        BY <2>1, <2>3, <2>4, <2>5, <3>1 DEF OfRun
      <4>2. QED
        BY <2>1, <2>2, <2>4, <2>5, <2>7, <2>8, <3>1, <4>1 DEF OfRun
    <3>2. CASE m # n
      <4>1. runs'[m] = runs[m] /\ runs[m].status = "rejected" /\ m # current
        BY <1>1, <1>2, <2>3, <2>4, <3>2 DEF OfRun
      <4>2. \A i \in Installs : i < runs[m].at => completed'[i] > 0
        <5>1. \A i \in Installs : completed'[i] >= completed[i]
          BY <2>4
        <5>2. \A i \in Installs : completed'[i] \in Nat
          BY <2>4
        <5>3. QED
          BY <1>2, <2>4, <5>1, <5>2 DEF OfRun
      <4>3. QED
        BY <1>2, <2>1, <4>1, <4>2 DEF OfRun
    <3>3. QED
      BY <3>1, <3>2
  <2>12. \A c \in Callers : phase'[c] \notin Beyond
    BY <1>2, <2>1, <2>6 DEF Installed
  <2>13. installed' => current' # 0 /\ runs'[current'].status = "fulfilled"
    <3>1. n # 0 /\ current' = n
      BY <1>1, <2>1, <2>4
    <3>2. installed' => run.status = "fulfilled"
      BY <2>2, <2>6
    <3>3. QED
      BY <2>3, <3>1, <3>2
  <2>14. QED
    BY <1>2, <2>1, <2>2, <2>3, <2>6, <2>9, <2>10, <2>11, <2>12, <2>13 DEF InstallInv, Installed
<1>7. ASSUME NEW n \in 1 .. Len(runs), Breaks(n) PROVE InstallInv'
  <2>1. runs[n].status = "pending" /\ UNCHANGED <<phase, holds, current, installed, completed>>
    BY <1>7 DEF Breaks
  <2>2. PICK run \in Runs : /\ run.starter = runs[n].starter /\ run.at = runs[n].at
                            /\ run.status = "rejected" /\ Becomes(n, run)
    BY <1>7 DEF Breaks
  <2>3. /\ runs'[n] = run /\ Len(runs') = Len(runs)
        /\ \A m \in 1 .. Len(runs) : m # n => runs'[m] = runs[m]
    BY <2>2 DEF Becomes
  <2>4. n = current /\ ~installed
    BY <1>2, <2>1 DEF OfRun, Installed
  <2>5. ASSUME NEW m \in 1 .. Len(runs) PROVE OfRun(m)'
    <3>1. CASE m = n
      BY <1>2, <2>1, <2>2, <2>3, <3>1 DEF OfRun
    <3>2. CASE m # n
      BY <1>2, <2>1, <2>3, <3>2 DEF OfRun
    <3>3. QED
      BY <3>1, <3>2
  <2>6. QED
    BY <1>2, <2>1, <2>3, <2>4, <2>5 DEF InstallInv, Installed
<1>8. ASSUME NEW c \in Callers, Learns(c) PROVE InstallInv'
  <2> DEFINE h == holds[c]
  <2>1. /\ phase[c] = "waiting" /\ h \in 1 .. Len(runs)
        /\ UNCHANGED <<holds, runs, installed, completed>>
        /\ phase' = [phase EXCEPT ![c] = phase'[c]]
    BY <1>1, <1>8 DEF Learns
  <2>2. \/ runs[h].status = "fulfilled" /\ phase'[c] = "installed" /\ current' = current
        \/ /\ runs[h].status = "rejected" /\ phase'[c] = "rejected"
           /\ current' = IF c = runs[h].starter THEN 0 ELSE current
    BY <1>1, <1>8 DEF Learns
  <2>3. \A q \in Callers : phase'[q] \in Beyond => installed
    <3>1. runs[h].status = "fulfilled" => installed
      BY <1>2, <2>1 DEF OfRun
    <3>2. \A q \in Callers \ {c} : phase'[q] = phase[q]
      BY <1>1, <2>1
    <3>3. QED
      BY <1>2, <2>2, <3>1, <3>2 DEF Installed, Beyond
  <2>4. CASE runs[h].status = "rejected" /\ c = runs[h].starter
    <3>1. h = current /\ current' = 0 /\ ~installed
      BY <1>2, <2>1, <2>2, <2>4 DEF OfRun, Installed
    <3>2. ASSUME NEW n \in 1 .. Len(runs) PROVE OfRun(n)'
      <4>1. runs[n].status = "rejected" /\ n # current'
        BY <1>2, <2>4, <3>1 DEF OfRun
      <4>2. phase'[runs[n].starter] \notin {"idle", "waiting"}
        <5>1. CASE n = h
          BY <2>2, <2>4, <5>1
        <5>2. CASE n # h
          <6>1. phase[runs[n].starter] \notin {"idle", "waiting"}
            BY <1>2, <3>1, <5>2 DEF OfRun
          <6>2. QED
            BY <1>1, <2>1, <6>1
        <5>3. QED
          BY <5>1, <5>2
      <4>3. QED
        BY <1>2, <2>1, <4>1, <4>2 DEF OfRun
    <3>3. QED
      BY <1>2, <2>1, <2>3, <3>1, <3>2 DEF InstallInv, Installed
  <2>5. CASE ~(runs[h].status = "rejected" /\ c = runs[h].starter)
    <3>1. current' = current
      BY <2>2, <2>5
    <3>2. ASSUME NEW n \in 1 .. Len(runs) PROVE OfRun(n)'
      <4>1. CASE runs[n].starter = c
        <5>1. h = n /\ runs[n].status = "fulfilled" /\ phase'[c] = "installed" /\ OfRun(n)
          BY <1>2, <2>2, <2>5, <4>1 DEF OfRun
        <5>2. QED
          BY <2>1, <3>1, <4>1, <5>1 DEF OfRun
      <4>2. CASE runs[n].starter # c
        <5>1. phase'[runs[n].starter] = phase[runs[n].starter]
          BY <1>1, <2>1, <4>2
        <5>2. QED
          BY <1>2, <2>1, <3>1, <5>1 DEF OfRun
      <4>3. QED
        BY <4>1, <4>2
    <3>3. QED
      BY <1>2, <2>1, <2>3, <3>1, <3>2 DEF InstallInv, Installed
  <2>6. QED
    BY <2>4, <2>5
<1>9. ASSUME NEW r \in Requests, Serves(r) PROVE InstallInv'
  <2>1. UNCHANGED <<holds, runs, current, installed, completed>> /\ r \in Callers
    BY <1>9 DEF Serves, Callers
  <2>2. installed
    BY <1>2, <1>9, <2>1 DEF Serves, Installed
  <2>3. ASSUME NEW n \in 1 .. Len(runs) PROVE OfRun(n)'
    <3>1. \/ phase'[runs[n].starter] = phase[runs[n].starter]
          \/ /\ phase[runs[n].starter] \notin {"idle", "waiting"}
             /\ phase'[runs[n].starter] \notin {"idle", "waiting"}
      BY <1>1, <1>9, <2>1 DEF Serves, Beyond
    <3>2. QED
      BY <1>2, <2>1, <3>1 DEF OfRun
  <2>4. QED
    BY <1>2, <2>1, <2>2, <2>3 DEF InstallInv, Installed
<1>10. QED
  BY <1>3, <1>4, <1>5, <1>6, <1>7, <1>8, <1>9, StepKinds

-----------------------------------------------------------------------------
(* What must not happen twice *)

\* A declaration that is pending is no hook yet.
AuditInv == \A d \in Decls : wired[d] <= 1 /\ (d \in pending => wired[d] = 0)

\* A module plugin that is not marked was not installed.
ModuleInv == \A p \in ModulePlugins : calls[p] <= 1 /\ (p \notin marked => calls[p] = 0)

\* Nothing is pending or marked at first.
LEMMA InitTwice == Init => AuditInv /\ ModuleInv
BY DEF Init, AuditInv, ModuleInv

\* Only the end of an installation and register() touch the declarations.
LEMMA StepAudit == TypeInv /\ AuditInv /\ [Next]_vars => AuditInv'
<1> SUFFICES ASSUME TypeInv, AuditInv, [Next]_vars PROVE AuditInv'
  OBVIOUS
<1>1. wired \in [Decls -> Nat] /\ pending \subseteq Decls
  BY DEF TypeInv, TypeOK
<1>2. ASSUME NEW ok, Wire(ok) PROVE AuditInv'
  <2>1. CASE ok
    <3>1. wired' = [d \in Decls |-> wired[d] + (IF d \in pending THEN 1 ELSE 0)] /\ pending' = {}
      BY <1>2, <2>1 DEF Wire
    <3>2. QED
      BY <1>1, <3>1 DEF AuditInv
  <2>2. CASE ~ok
    BY <1>2, <2>2 DEF Wire, AuditInv
  <2>3. QED
    BY <2>1, <2>2
<1>3. ASSUME UNCHANGED <<pending, wired>> PROVE AuditInv'
  BY <1>3 DEF AuditInv
<1>4. ASSUME NEW c \in Callers, Ensure(c) PROVE AuditInv'
  <2>1. CASE StartInstall(c)
    BY <1>2, <2>1 DEF StartInstall, Continue
  <2>2. CASE ~StartInstall(c)
    BY <1>3, <1>4, <2>2 DEF Ensure
  <2>3. QED
    BY <2>1, <2>2
<1>5. ASSUME NEW n \in 1 .. Len(runs), RunStep(n) PROVE AuditInv'
  <2>1. CASE InstallDone(n)
    BY <1>2, <2>1 DEF InstallDone, Advance, Continue
  <2>2. CASE InstallFails(n)
    BY <1>3, <2>2 DEF InstallFails
  <2>3. QED
    BY <1>5, <2>1, <2>2 DEF RunStep
<1>6. ASSUME NEW r \in Requests, RequestStep(r) PROVE AuditInv'
  BY <1>3, <1>6 DEF RequestStep, RunGlobalPlugins, InstallModulePlugin, SkipInstall,
     ModuleInstallSettles, RunModulePlugin, globalVars
<1>7. ASSUME NEW c \in Callers, Resume(c) PROVE AuditInv'
  BY <1>3, <1>7 DEF Resume
<1>8. ASSUME NEW d \in Decls, Register(d) PROVE AuditInv'
  BY <1>1, <1>8 DEF Register, AuditInv
<1>9. ASSUME UNCHANGED vars PROVE AuditInv'
  BY <1>3, <1>9 DEF vars
<1>10. QED
  BY <1>4, <1>5, <1>6, <1>7, <1>8, <1>9 DEF Next, Arrive, Listen, Callers

\* Only a request that finds a plugin unmarked calls its install().
LEMMA StepModule == TypeInv /\ ModuleInv /\ [Next]_vars => ModuleInv'
<1> SUFFICES ASSUME TypeInv, ModuleInv, [Next]_vars PROVE ModuleInv'
  OBVIOUS
<1>1. ASSUME UNCHANGED <<marked, calls>> PROVE ModuleInv'
  BY <1>1 DEF ModuleInv
<1>2. ASSUME NEW r \in Requests, InstallModulePlugin(r) PROVE ModuleInv'
  <2>1. calls \in [ModulePlugins -> Nat] /\ plugin[r] \in ModulePlugins
    BY <1>2 DEF InstallModulePlugin, TypeInv, TypeOK, Routed
  <2>2. QED
    BY <1>2, <2>1 DEF InstallModulePlugin, ModuleInv
<1>3. ASSUME NEW r \in Requests, RequestStep(r) PROVE ModuleInv'
  BY <1>1, <1>2, <1>3 DEF RequestStep, RunGlobalPlugins, SkipInstall, ModuleInstallSettles,
     RunModulePlugin, moduleVars
<1>4. ASSUME NEW c \in Callers, Ensure(c) \/ Resume(c) PROVE ModuleInv'
  BY <1>1, <1>4 DEF Ensure, Resume, moduleVars
<1>5. ASSUME NEW n \in 1 .. Len(runs), RunStep(n) PROVE ModuleInv'
  BY <1>1, <1>5 DEF RunStep, InstallDone, InstallFails, moduleVars
<1>6. ASSUME NEW d \in Decls, Register(d) PROVE ModuleInv'
  BY <1>1, <1>6 DEF Register, moduleVars
<1>7. ASSUME UNCHANGED vars PROVE ModuleInv'
  BY <1>1, <1>7 DEF vars
<1>8. QED
  BY <1>3, <1>4, <1>5, <1>6, <1>7 DEF Next, Arrive, Listen, Callers

-----------------------------------------------------------------------------
(* The theorems *)

IInv == TypeInv /\ InstallInv /\ AuditInv /\ ModuleInv

\* IInv is an inductive invariant.
LEMMA Inductive == Spec => []IInv
<1>1. Init => IInv
  BY InitTypeInv, InitInstall, InitTwice DEF IInv
<1>2. IInv /\ [Next]_vars => IInv'
  BY StepTypeInv, StepInstall, StepAudit, StepModule DEF IInv
<1>3. QED
  BY <1>1, <1>2, PTL DEF Spec

\* However callers race and installations fail and are retried: one
\* installation is under way, a finished one is the last, a failed one is
\* forgotten, and neither a module plugin nor an audit hook is installed twice.
THEOREM InstallsOnce == Spec => []InstalledOnce
<1>1. ASSUME IInv PROVE InstalledOnce
  <2>1. OneInstallation
    <3> SUFFICES ASSUME NEW m \in 1 .. Len(runs), NEW n \in 1 .. Len(runs), m < n
                 PROVE  runs[m].status = "rejected"
      BY DEF OneInstallation
    <3>1. Len(runs) \in Nat /\ runs[m].status \in {"pending", "fulfilled", "rejected"}
      BY <1>1, Types DEF IInv
    <3>2. m # current
      BY <1>1, <3>1 DEF IInv, InstallInv
    <3>3. QED
      BY <1>1, <3>1, <3>2 DEF IInv, InstallInv, OfRun
  <2>2. FailureIsForgotten
    <3> SUFFICES ASSUME current # 0, runs[current].status = "rejected"
                 PROVE  phase[runs[current].starter] = "waiting"
      BY DEF FailureIsForgotten
    <3>1. current \in 1 .. Len(runs)
      BY <1>1, Types DEF IInv, TypeInv, TypeOK
    <3>2. QED
      BY <1>1, <3>1 DEF IInv, InstallInv, OfRun
  <2>3. ModuleInstallOnce /\ AuditsWiredOnce
    BY <1>1 DEF IInv, ModuleInv, AuditInv, ModuleInstallOnce, AuditsWiredOnce
  <2>4. QED
    BY <1>1, <2>1, <2>2, <2>3 DEF InstalledOnce, IInv, TypeInv
<1>2. QED
  BY <1>1, Inductive, PTL

\* Whoever is past fetch()'s first await finds every global plugin installed,
\* and no plugin was ever installed ahead of those registered before it.
THEOREM ServedInstalled == Spec => []ServedByInstalledPlugins
<1>1. ASSUME IInv PROVE ServedByInstalledPlugins
  BY <1>1 DEF IInv, InstallInv, Installed, Beyond, Callers, ServedByInstalledPlugins
<1>2. QED
  BY <1>1, Inductive, PTL

-----------------------------------------------------------------------------
(* Recursive functions on the positions of a list *)

\* Induction up to N, on a set: a set with 0 that goes from n - 1 to n has
\* every number up to N.
LEMMA UpTo ==
  ASSUME NEW N \in Nat, NEW T, 0 \in T, \A n \in 1 .. N : n - 1 \in T => n \in T
  PROVE  \A n \in 0 .. N : n \in T
<1> DEFINE Bad == {n \in 0 .. N : n \notin T}
<1>1. SUFFICES ASSUME Bad # {} PROVE FALSE
  OBVIOUS
<1>2. Bad \subseteq Nat
  OBVIOUS
<1> HIDE DEF Bad
<1>3. PICK k \in Bad : \A j \in Bad : ~ (<<j, k>> \in OpToRel(<, Nat))
  BY <1>1, <1>2, NatLessThanWellFounded, WFMin, Zenon
<1>4. \A j \in Bad : ~ (j < k)
  BY <1>2, <1>3, Zenon DEF OpToRel
<1> USE DEF Bad
<1>5. k \in 0 .. N /\ k \notin T /\ k # 0
  OBVIOUS
<1>6. k \in 1 .. N /\ k - 1 \in 0 .. N /\ k - 1 < k
  BY <1>5
<1>7. k - 1 \in T
  BY <1>4, <1>6
<1>8. QED
  BY <1>5, <1>6, <1>7

\* f starts at b and does the first k steps of F on S, one after the other.
Iterates(f, k, b, S, F) == f \in [0 .. k -> S] /\ f[0] = b /\ \A n \in 1 .. k : f[n] = F[n][f[n - 1]]

\* There is such a function: LET f[n \in 0 .. N] == ... means what it says.
LEMMA RecursionExists ==
  ASSUME NEW S, NEW b \in S, NEW N \in Nat, NEW F \in [1 .. N -> [S -> S]]
  PROVE  \E f : Iterates(f, N, b, S, F)
<1> DEFINE T == {k \in 0 .. N : \E f : Iterates(f, k, b, S, F)}
<1>1. 0 \in T
  <2>1. Iterates([n \in 0 .. 0 |-> b], 0, b, S, F)
    BY DEF Iterates
  <2>2. QED
    BY <2>1
<1>2. ASSUME NEW k \in 1 .. N, k - 1 \in T PROVE k \in T
  <2>1. PICK f : Iterates(f, k - 1, b, S, F)
    BY <1>2
  <2>2. f \in [0 .. k - 1 -> S] /\ f[0] = b /\ \A n \in 1 .. k - 1 : f[n] = F[n][f[n - 1]]
    BY <2>1 DEF Iterates
  <2> DEFINE g == [n \in 0 .. k |-> IF n = k THEN F[k][f[k - 1]] ELSE f[n]]
  <2>3. k - 1 \in 0 .. (k - 1) /\ F[k] \in [S -> S] /\ f[k - 1] \in S
    BY <2>2
  <2>4. g \in [0 .. k -> S]
    <3>1. ASSUME NEW n \in 0 .. k PROVE g[n] \in S
      BY <2>3, <2>2
    <3>2. QED
      BY <3>1
  <2>5. g[0] = b
    BY <2>2
  <2>6. ASSUME NEW n \in 1 .. k PROVE g[n] = F[n][g[n - 1]]
    <3>1. n - 1 \in 0 .. k /\ n - 1 # k /\ g[n - 1] = f[n - 1]
      OBVIOUS
    <3>2. CASE n = k
      BY <3>1, <3>2
    <3>3. CASE n # k
      <4>1. n \in 1 .. (k - 1) /\ g[n] = f[n]
        BY <3>3
      <4>2. QED
        BY <2>2, <3>1, <4>1
    <3>4. QED
      BY <3>2, <3>3
  <2>7. Iterates(g, k, b, S, F)
    BY <2>4, <2>5, <2>6 DEF Iterates
  <2>8. QED
    BY <2>7
<1> HIDE DEF T
<1>3. \A k \in 0 .. N : k \in T
  BY <1>1, <1>2, UpTo
<1>4. N \in T
  BY <1>3
<1>5. QED
  BY <1>4 DEF T

\* A function that is defined by these steps does not leave S.
LEMMA IteratesFrom ==
  ASSUME NEW S, NEW b \in S, NEW N \in Nat, NEW F \in [1 .. N -> [S -> S]],
         NEW f, f = [n \in 0 .. N |-> f[n]], f[0] = b,
         \A n \in 1 .. N : f[n - 1] \in S => f[n] = F[n][f[n - 1]]
  PROVE  Iterates(f, N, b, S, F)
<1> DEFINE T == {n \in 0 .. N : f[n] \in S}
<1>1. 0 \in T
  OBVIOUS
<1>2. ASSUME NEW n \in 1 .. N, n - 1 \in T PROVE n \in T
  <2>1. f[n - 1] \in S /\ F[n] \in [S -> S] /\ f[n] = F[n][f[n - 1]]
    BY <1>2
  <2>2. QED
    BY <2>1
<1> HIDE DEF T
<1>3. \A n \in 0 .. N : n \in T
  BY <1>1, <1>2, UpTo
<1>4. \A n \in 0 .. N : f[n] \in S
  BY <1>3 DEF T
<1>5. f \in [0 .. N -> S]
  BY <1>4
<1>6. \A n \in 1 .. N : n - 1 \in 0 .. N
  OBVIOUS
<1>7. QED
  BY <1>4, <1>5, <1>6 DEF Iterates

-----------------------------------------------------------------------------
(* matchPath() *)

\* What the loop of matchPath() carries from segment to segment.
Matches(Texts, path) ==
  [matched : BOOLEAN, used : 0 .. Len(path), params : UNION {[D -> Texts] : D \in SUBSET Texts}]

\* A segment takes the next segment of the path if there is one.
LEMMA ConsumeTakes ==
  ASSUME NEW Texts, NEW path \in Seq(Texts), NEW segment \in SegmentsOf(Texts),
         NEW m \in Matches(Texts, path), m.matched
  PROVE  LET c     == Consume(m, segment, path)
             more  == m.used < Len(path)
             named == segment.kind # "literal"
         IN /\ c \in Matches(Texts, path)
            /\ c.matched <=> /\ more \/ segment.kind = "optional"
                             /\ named \/ path[m.used + 1] = segment.text
            /\ c.matched => c.used = IF more THEN m.used + 1 ELSE m.used
            /\ c.matched => c.params = IF more /\ named THEN Bind(m.params, segment.text, path[m.used + 1])
                                                        ELSE m.params
<1> DEFINE more == m.used < Len(path)
           next == path[m.used + 1]
           P    == UNION {[D -> Texts] : D \in SUBSET Texts}
           new  == Bind(m.params, segment.text, next)
<1>1. /\ Len(path) \in Nat /\ m.used \in 0 .. Len(path) /\ m.params \in P
      /\ segment.text \in Texts /\ segment.kind \in {"literal", "param", "optional"}
  BY LenProperties DEF Matches, SegmentsOf
<1>2. more => m.used + 1 \in 0 .. Len(path) /\ new \in P
  <2>1. SUFFICES ASSUME more PROVE m.used + 1 \in 0 .. Len(path) /\ new \in P
    OBVIOUS
  <2>2. m.used + 1 \in 1 .. Len(path)
    BY <1>1, <2>1
  <2>3. next \in Texts
    BY <2>2, ElementOfSeq
  <2>4. PICK D \in SUBSET Texts : m.params \in [D -> Texts]
    BY <1>1
  <2>5. new \in [{segment.text} \cup D -> Texts]
    BY <1>1, <2>3, <2>4 DEF Bind
  <2>6. {segment.text} \cup D \in SUBSET Texts
    BY <1>1
  <2>7. QED
    BY <2>2, <2>5, <2>6
<1> HIDE DEF new, P
<1>3. m \in [matched : BOOLEAN, used : 0 .. Len(path), params : P]
  BY DEF Matches, P
<1> DEFINE take == [m EXCEPT !.used = @ + 1, !.params = new]
           c    == Consume(m, segment, path)
<1>4. Matches(Texts, path) = [matched : BOOLEAN, used : 0 .. Len(path), params : P]
  BY DEF Matches, P
<1>5. CASE segment.kind = "optional"
  <2>1. c = IF more THEN take ELSE m
    BY <1>5 DEF Consume, new
  <2>2. QED
    BY <1>1, <1>2, <1>3, <1>4, <1>5, <2>1 DEF new
<1>6. CASE segment.kind = "param"
  <2>1. c = IF more THEN take ELSE [m EXCEPT !.matched = FALSE]
    BY <1>6 DEF Consume, new
  <2>2. QED
    BY <1>1, <1>2, <1>3, <1>4, <1>6, <2>1 DEF new
<1>7. CASE segment.kind = "literal"
  <2>1. c = IF more /\ next = segment.text THEN [m EXCEPT !.used = @ + 1] ELSE [m EXCEPT !.matched = FALSE]
    BY <1>7 DEF Consume
  <2>2. QED
    BY <1>1, <1>2, <1>3, <1>4, <1>7, <2>1
<1>8. QED
  BY <1>1, <1>5, <1>6, <1>7

\* The loop exists: what it carries behind n segments.
Walk(f, segments, path) ==
  /\ f[0] = [matched |-> TRUE, used |-> 0, params |-> <<>>]
  /\ \A n \in 1 .. Len(segments) :
       f[n] = IF f[n - 1].matched THEN Consume(f[n - 1], segments[n], path) ELSE f[n - 1]
  /\ MatchSegments(segments, path) =
       IF f[Len(segments)].matched /\ f[Len(segments)].used = Len(path)
         THEN [matched |-> TRUE, params |-> f[Len(segments)].params]
         ELSE NoMatch

LEMMA WalkExists ==
  ASSUME NEW Texts, NEW path \in Seq(Texts), NEW segments \in Seq(SegmentsOf(Texts))
  PROVE  \E f \in [0 .. Len(segments) -> Matches(Texts, path)] : Walk(f, segments, path)
<1> DEFINE N          == Len(segments)
           S          == Matches(Texts, path)
           start      == [matched |-> TRUE, used |-> 0, params |-> <<>>]
           Then(n, m) == IF m.matched THEN Consume(m, segments[n], path) ELSE m
           Is(h)      == h = [n \in 0 .. N |-> IF n = 0 THEN start
                                               ELSE IF h[n - 1].matched THEN Consume(h[n - 1], segments[n], path)
                                               ELSE h[n - 1]]
           f          == CHOOSE h : Is(h)
           F          == [n \in 1 .. N |-> [m \in S |-> Then(n, m)]]
<1>1. /\ N \in Nat
      /\ \A n \in 1 .. N : segments[n] \in SegmentsOf(Texts)
  BY LenProperties, ElementOfSeq
<1>2. MatchSegments(segments, path) =
        IF f[N].matched /\ f[N].used = Len(path) THEN [matched |-> TRUE, params |-> f[N].params] ELSE NoMatch
  BY DEF MatchSegments
<1>3. start \in S /\ F \in [1 .. N -> [S -> S]]
  <2>1. \A n \in 1 .. N : \A m \in S : Then(n, m) \in S
    BY <1>1, ConsumeTakes
  <2>2. <<>> \in [{} -> Texts]
    BY EmptySeq, LenProperties
  <2>3. start \in S
    <3>1. {} \in SUBSET Texts
      OBVIOUS
    <3>2. <<>> \in UNION {[D -> Texts] : D \in SUBSET Texts}
      BY <2>2, <3>1, Zenon
    <3>3. 0 \in 0 .. Len(path)
      BY LenProperties
    <3>4. QED
      BY <3>2, <3>3 DEF Matches
  <2> HIDE DEF S, Then
  <2>4. QED
    BY <2>1, <2>3
<1> HIDE DEF N, S, start
<1>4. PICK g : Iterates(g, N, start, S, F)
  <2> HIDE DEF F
  <2>1. QED
    BY <1>1, <1>3, RecursionExists
<1>5. Is(g)
  <2>1. ASSUME NEW n \in 0 .. N PROVE g[n] = IF n = 0 THEN start ELSE Then(n, g[n - 1])
    <3>1. CASE n = 0
      BY <1>4, <3>1 DEF Iterates
    <3>2. CASE n # 0
      <4>1. n \in 1 .. N /\ n - 1 \in 0 .. N /\ g[n - 1] \in S
        BY <1>1, <1>4, <3>2 DEF Iterates
      <4>2. QED
        BY <1>4, <3>2, <4>1 DEF Iterates
    <3>3. QED
      BY <3>1, <3>2
  <2>2. QED
    BY <1>4, <2>1 DEF Iterates
<1> HIDE DEF Is
<1>6. Is(f)
  BY <1>5, Zenon
<1> HIDE DEF f
<1> USE DEF Is
<1>7. /\ f[0] = start /\ f = [n \in 0 .. N |-> f[n]]
      /\ \A n \in 1 .. N : f[n] = Then(n, f[n - 1])
  <2>1. 0 \in 0 .. N /\ \A n \in 1 .. N : n \in 0 .. N /\ n # 0
    BY <1>1
  <2>2. QED
    BY <1>6, <2>1
<1>8. Iterates(f, N, start, S, F)
  <2>1. \A n \in 1 .. N : f[n - 1] \in S => f[n] = F[n][f[n - 1]]
    BY <1>7
  <2> HIDE DEF F
  <2>2. QED
    BY <1>1, <1>3, <1>7, <2>1, IteratesFrom
<1>9. f \in [0 .. N -> S]
  BY <1>8 DEF Iterates
<1>10. Walk(f, segments, path)
  BY <1>2, <1>7 DEF Walk, N, start
<1>11. QED
  BY <1>9, <1>10 DEF N, S

\* The greedy loop matches place by place: segment k takes segment k of the
\* path, and where the path has ended only optional ones are left.
TakesPlace(segments, path, k) ==
  IF k <= Len(path) THEN segments[k].kind = "literal" => segments[k].text = path[k]
                    ELSE segments[k].kind = "optional"

LEMMA WalkGoesByPlaces ==
  ASSUME NEW Texts, NEW path \in Seq(Texts), NEW segments \in Seq(SegmentsOf(Texts)),
         NEW f \in [0 .. Len(segments) -> Matches(Texts, path)], Walk(f, segments, path)
  PROVE  \A n \in 0 .. Len(segments) :
           /\ f[n].matched <=> \A k \in 1 .. n : TakesPlace(segments, path, k)
           /\ f[n].matched => f[n].used = IF n <= Len(path) THEN n ELSE Len(path)
           /\ f[n].matched /\ NamesDiffer(segments) =>
                \A k \in 1 .. n : k <= Len(path) /\ segments[k].kind # "literal" =>
                  segments[k].text \in DOMAIN f[n].params /\ f[n].params[segments[k].text] = path[k]
<1> DEFINE N == Len(segments)
           L == Len(path)
           Place(k) == TakesPlace(segments, path, k)
           Named(k) == k <= L /\ segments[k].kind # "literal"
           Put(n, k) == segments[k].text \in DOMAIN f[n].params /\ f[n].params[segments[k].text] = path[k]
           Holds(n) == /\ f[n].matched <=> \A k \in 1 .. n : Place(k)
                       /\ f[n].matched => f[n].used = IF n <= L THEN n ELSE L
                       /\ f[n].matched /\ NamesDiffer(segments) => \A k \in 1 .. n : Named(k) => Put(n, k)
           T == {n \in 0 .. N : Holds(n)}
<1>1. /\ N \in Nat /\ L \in Nat
      /\ \A n \in 1 .. N : /\ n \in 0 .. N /\ n - 1 \in 0 .. N
                           /\ segments[n] \in SegmentsOf(Texts)
                           /\ f[n] \in Matches(Texts, path) /\ f[n - 1] \in Matches(Texts, path)
  <2>1. N \in Nat /\ L \in Nat
    BY LenProperties
  <2>2. \A n \in 1 .. N : segments[n] \in SegmentsOf(Texts)
    BY ElementOfSeq
  <2>3. \A n \in 1 .. N : n \in 0 .. N /\ n - 1 \in 0 .. N
    BY <2>1
  <2> HIDE DEF N, L
  <2>4. QED
    BY <2>1, <2>2, <2>3 DEF N
<1>2. 0 \in T
  <2>1. f[0].matched /\ f[0].used = 0
    BY DEF Walk
  <2>2. 0 \in 0 .. N /\ 0 <= L /\ 1 .. 0 = {}
    BY <1>1
  <2> HIDE DEF L, N
  <2>3. QED
    BY <2>1, <2>2
<1>3. ASSUME NEW n \in 1 .. N, n - 1 \in T PROVE n \in T
  <2> DEFINE before == f[n - 1]
             now    == f[n]
             more   == before.used < L
             named  == segments[n].kind # "literal"
  <2>1. now = IF before.matched THEN Consume(before, segments[n], path) ELSE before
    BY DEF Walk
  <2>2. Holds(n - 1)
    BY <1>3
  <2>3. \A k \in 1 .. n : k = n \/ k \in 1 .. n - 1
    BY <1>1
  <2>4. CASE ~before.matched
    <3>1. now = before /\ \E k \in 1 .. n - 1 : ~Place(k)
      BY <2>1, <2>2, <2>4
    <3>2. 1 .. n - 1 \subseteq 1 .. n
      BY <1>1
    <3>3. ~ \A k \in 1 .. n : Place(k)
      BY <3>1, <3>2
    <3>4. QED
      BY <1>1, <2>4, <3>1, <3>3
  <2>5. CASE before.matched
    <3>1. /\ now = Consume(before, segments[n], path)
          /\ before \in Matches(Texts, path) /\ segments[n] \in SegmentsOf(Texts)
      BY <1>1, <2>1, <2>5
    <3>2. /\ now.matched <=> /\ more \/ segments[n].kind = "optional"
                             /\ named \/ path[before.used + 1] = segments[n].text
          /\ now.matched => now.used = IF more THEN before.used + 1 ELSE before.used
          /\ now.matched => now.params = IF more /\ named
                                            THEN Bind(before.params, segments[n].text, path[before.used + 1])
                                            ELSE before.params
      <4> HIDE DEF before, now
      <4>1. QED
        BY <2>5, <3>1, ConsumeTakes
    <3>3. before.used = IF n - 1 <= L THEN n - 1 ELSE L
      BY <2>2, <2>5
    <3>4. more <=> n <= L
      BY <1>1, <3>3
    <3>5. more => before.used + 1 = n
      BY <1>1, <3>3
    <3>6. segments[n].kind \in {"literal", "param", "optional"}
      BY <1>1 DEF SegmentsOf
    <3>7. now.matched <=> Place(n)
      <4> HIDE DEF now, before
      <4>1. CASE more
        BY <3>2, <3>4, <3>5, <4>1 DEF TakesPlace
      <4>2. CASE ~more
        BY <3>2, <3>4, <3>6, <4>2 DEF TakesPlace
      <4>3. QED
        BY <4>1, <4>2
    <3>8. \A k \in 1 .. n - 1 : Place(k)
      BY <2>2, <2>5
    <3>9. now.matched <=> \A k \in 1 .. n : Place(k)
      <4>1. n \in 1 .. n
        BY <1>1
      <4>2. QED
        BY <2>3, <3>7, <3>8, <4>1
    <3>10. now.matched => now.used = IF n <= L THEN n ELSE L
      BY <1>1, <3>2, <3>3, <3>4
    <3>11. ASSUME now.matched, NamesDiffer(segments), NEW k \in 1 .. n, Named(k) PROVE Put(n, k)
      <4> DEFINE name == segments[k].text
      <4>1. CASE k = n
        <5>1. now.params = Bind(before.params, name, path[n])
          BY <3>2, <3>4, <3>5, <3>11, <4>1
        <5>2. QED
          BY <4>1, <5>1 DEF Bind
      <4>2. CASE k # n
        <5>1. k \in 1 .. n - 1
          BY <2>3, <4>2
        <5>2. name \in DOMAIN before.params /\ before.params[name] = path[k]
          BY <2>2, <2>5, <3>11, <5>1
        <5>3. named => segments[n].text # name
          BY <1>1, <3>11, <4>2 DEF NamesDiffer
        <5>4. CASE more /\ named
          <6>1. now.params = Bind(before.params, segments[n].text, path[n])
            BY <3>2, <3>5, <3>11, <5>4
          <6>2. QED
            BY <5>2, <5>3, <5>4, <6>1 DEF Bind
        <5>5. CASE ~ (more /\ named)
          BY <3>2, <3>11, <5>2, <5>5
        <5>6. QED
          BY <5>4, <5>5
      <4>3. QED
        BY <4>1, <4>2
    <3>12. QED
      BY <1>1, <3>9, <3>10, <3>11
  <2>6. QED
    BY <2>4, <2>5
<1> HIDE DEF T
<1>4. \A n \in 0 .. N : n \in T
  BY <1>1, <1>2, <1>3, UpTo
<1>5. QED
  BY <1>4 DEF T

\* So a list of segments matches a path of at most its length.
LEMMA MatchByPlaces ==
  ASSUME NEW Texts, NEW path \in Seq(Texts), NEW segments \in Seq(SegmentsOf(Texts))
  PROVE  LET result == MatchSegments(segments, path)
         IN /\ result.matched <=> /\ Len(path) <= Len(segments)
                                  /\ \A k \in 1 .. Len(segments) : TakesPlace(segments, path, k)
            /\ result.matched /\ NamesDiffer(segments) =>
                 \A k \in 1 .. Len(path) : Filled(segments[k], result.params) = path[k]
<1> DEFINE N == Len(segments)
           L == Len(path)
           result == MatchSegments(segments, path)
<1>1. N \in Nat /\ L \in Nat
  BY LenProperties
<1>2. PICK f \in [0 .. N -> Matches(Texts, path)] : Walk(f, segments, path)
  BY WalkExists
<1>3. /\ f[N].matched <=> \A k \in 1 .. N : TakesPlace(segments, path, k)
      /\ f[N].matched => f[N].used = IF N <= L THEN N ELSE L
      /\ f[N].matched /\ NamesDiffer(segments) =>
           \A k \in 1 .. N : k <= L /\ segments[k].kind # "literal" =>
             segments[k].text \in DOMAIN f[N].params /\ f[N].params[segments[k].text] = path[k]
  BY <1>1, <1>2, WalkGoesByPlaces
<1>4. f[N] \in Matches(Texts, path)
  BY <1>1, <1>2
<1>5. result = IF f[N].matched /\ f[N].used = L THEN [matched |-> TRUE, params |-> f[N].params] ELSE NoMatch
  BY <1>2 DEF Walk
<1>6. result.matched <=> f[N].matched /\ f[N].used = L
  BY <1>5 DEF NoMatch
<1>7. f[N].matched => (f[N].used = L <=> L <= N)
  BY <1>1, <1>3
<1>8. ASSUME result.matched, NamesDiffer(segments), NEW k \in 1 .. L
      PROVE  Filled(segments[k], result.params) = path[k]
  <2>1. f[N].matched /\ L <= N /\ result.params = f[N].params
    BY <1>5, <1>6, <1>7, <1>8
  <2>2. k \in 1 .. N /\ k <= L
    BY <1>1, <2>1
  <2>3. TakesPlace(segments, path, k)
    BY <1>3, <2>1, <2>2
  <2>4. CASE segments[k].kind = "literal"
    BY <2>2, <2>3, <2>4 DEF TakesPlace, Filled
  <2>5. CASE segments[k].kind # "literal"
    BY <1>3, <1>8, <2>1, <2>2, <2>5 DEF Filled
  <2>6. QED
    BY <2>4, <2>5
<1>9. QED
  BY <1>3, <1>6, <1>7, <1>8

\* In a list that fits, segments keep their order, so that without optional
\* ones in front each takes the segment of its own place.
LEMMA FitsByPlaces ==
  ASSUME NEW Texts, NEW path \in Seq(Texts), NEW segments \in Seq(SegmentsOf(Texts)),
         OptionalsLast(segments), Fits(segments, path)
  PROVE  /\ Len(path) <= Len(segments)
         /\ \A k \in 1 .. Len(segments) : TakesPlace(segments, path, k)
<1> DEFINE N == Len(segments)
           L == Len(path)
<1>1. N \in Nat /\ L \in Nat
  BY LenProperties
<1>2. PICK taker \in [1 .. L -> 1 .. N] :
        /\ \A i, j \in 1 .. L : i < j => taker[i] < taker[j]
        /\ \A k \in 1 .. N : segments[k].kind # "optional" => \E i \in 1 .. L : taker[i] = k
        /\ \A i \in 1 .. L : segments[taker[i]].kind = "literal" => segments[taker[i]].text = path[i]
  BY DEF Fits
<1> HIDE DEF N, L
<1>3. \A i \in 1 .. L : taker[i] >= i
  <2> DEFINE T == {i \in 0 .. L : i = 0 \/ taker[i] >= i}
  <2>1. 0 \in T
    BY <1>1
  <2>2. ASSUME NEW i \in 1 .. L, i - 1 \in T PROVE i \in T
    <3>1. CASE i = 1
      BY <1>1, <1>2, <3>1
    <3>2. CASE i # 1
      <4>1. i - 1 \in 1 .. L /\ i - 1 < i
        BY <1>1, <3>2
      <4>2. taker[i - 1] < taker[i] /\ taker[i - 1] \in 1 .. N /\ taker[i] \in 1 .. N
        BY <1>2, <4>1
      <4>3. taker[i - 1] >= i - 1
        BY <2>2, <4>1
      <4>4. QED
        BY <1>1, <4>2, <4>3
    <3>3. QED
      BY <3>1, <3>2
  <2> HIDE DEF T
  <2>3. \A i \in 0 .. L : i \in T
    BY <1>1, <2>1, <2>2, UpTo
  <2>4. \A i \in 1 .. L : i \in 0 .. L /\ i # 0
    BY <1>1
  <2>5. QED
    BY <2>3, <2>4 DEF T
<1>4. ASSUME NEW k \in 1 .. N, segments[k].kind # "optional"
      PROVE  k \in 1 .. L /\ taker[k] = k
  <2>1. ASSUME NEW j \in 1 .. k PROVE j \in 1 .. N /\ segments[j].kind # "optional"
    <3>1. j \in 1 .. N /\ (j = k \/ j < k)
      BY <1>1
    <3>2. j < k /\ segments[j].kind = "optional" => segments[k].kind = "optional"
      BY <3>1 DEF OptionalsLast, N
    <3>3. QED
      BY <1>4, <3>1, <3>2
  <2>2. \A j \in 1 .. k : \E i \in 1 .. L : taker[i] = j
    BY <1>2, <2>1
  <2> DEFINE T == {j \in 0 .. k : j = 0 \/ \E i \in 1 .. L : i >= j /\ taker[i] = j}
  <2>3. 0 \in T
    BY <1>1
  <2>4. ASSUME NEW j \in 1 .. k, j - 1 \in T PROVE j \in T
    <3>1. PICK i \in 1 .. L : taker[i] = j
      BY <2>2
    <3>2. CASE j = 1
      BY <1>1, <3>1, <3>2
    <3>3. CASE j # 1
      <4>1. PICK h \in 1 .. L : h >= j - 1 /\ taker[h] = j - 1
        BY <1>1, <2>4, <3>3
      <4>2. ~ (i < h) /\ i # h
        <5>1. i < h => taker[i] < taker[h]
          BY <1>2
        <5>2. QED
          BY <1>1, <3>1, <4>1, <5>1
      <4>3. i >= j
        BY <1>1, <4>1, <4>2
      <4>4. QED
        BY <1>1, <3>1, <4>3
    <3>4. QED
      BY <3>2, <3>3
  <2> HIDE DEF T
  <2>5. \A j \in 0 .. k : j \in T
    <3>1. k \in Nat
      BY <1>1
    <3>2. QED
      BY <2>3, <2>4, <3>1, UpTo
  <2>6. PICK i \in 1 .. L : i >= k /\ taker[i] = k
    BY <1>1, <2>5 DEF T
  <2>7. i = k
    BY <1>1, <1>3, <2>6
  <2>8. QED
    BY <2>6, <2>7
<1>5. L <= N
  <2>1. CASE L = 0
    BY <1>1, <2>1
  <2>2. CASE L # 0
    <3>1. L \in 1 .. L
      BY <1>1, <2>2
    <3>2. taker[L] \in 1 .. N /\ taker[L] >= L
      BY <1>2, <1>3, <3>1
    <3>3. QED
      BY <1>1, <3>2
  <2>3. QED
    BY <2>1, <2>2
<1>6. ASSUME NEW k \in 1 .. N PROVE TakesPlace(segments, path, k)
  <2>1. CASE segments[k].kind = "optional"
    BY <2>1 DEF TakesPlace
  <2>2. CASE segments[k].kind # "optional"
    <3>1. k \in 1 .. L /\ taker[k] = k
      BY <1>4, <2>2
    <3>2. k <= L
      BY <1>1, <3>1
    <3>3. QED
      BY <1>2, <3>1, <3>2 DEF TakesPlace, L
  <2>3. QED
    BY <2>1, <2>2
<1>7. QED
  BY <1>5, <1>6 DEF N, L

\* And what matches place by place fits.
LEMMA PlacesFit ==
  ASSUME NEW Texts, NEW path \in Seq(Texts), NEW segments \in Seq(SegmentsOf(Texts)),
         Len(path) <= Len(segments),
         \A k \in 1 .. Len(segments) : TakesPlace(segments, path, k)
  PROVE  Fits(segments, path)
<1> DEFINE taker == [i \in 1 .. Len(path) |-> i]
<1>1. Len(segments) \in Nat /\ Len(path) \in Nat
  BY LenProperties
<1>2. /\ taker \in [1 .. Len(path) -> 1 .. Len(segments)]
      /\ \A i \in 1 .. Len(path) : i \in 1 .. Len(segments) /\ i <= Len(path) /\ taker[i] = i
  BY <1>1
<1>3. \A k \in 1 .. Len(segments) : segments[k].kind # "optional" => k \in 1 .. Len(path)
  BY <1>1 DEF TakesPlace
<1>4. \A i \in 1 .. Len(path) : segments[i].kind = "literal" => segments[i].text = path[i]
  BY <1>2 DEF TakesPlace
<1> HIDE DEF taker
<1>5. \A i, j \in 1 .. Len(path) : i < j => taker[i] < taker[j]
  BY <1>2
<1>6. \A k \in 1 .. Len(segments) : segments[k].kind # "optional" => \E i \in 1 .. Len(path) : taker[i] = k
  BY <1>2, <1>3
<1>7. \A i \in 1 .. Len(path) : segments[taker[i]].kind = "literal" => segments[taker[i]].text = path[i]
  BY <1>2, <1>4
<1>8. QED
  BY <1>2, <1>5, <1>6, <1>7 DEF Fits

\* A slash that is dropped.
LEMMA SlashDropped ==
  ASSUME NEW S, NEW s \in Seq(S), NEW empty \in S
  PROVE  /\ DropSlash(s, empty) \in Seq(S)
         /\ s # <<>> /\ Last(s) # empty => DropSlash(s, empty) = s
         /\ s # <<>> => DropSlash(Append(s, empty), empty) = s
<1> DEFINE longer == Append(s, empty)
<1>1. /\ Len(s) \in Nat /\ \A i \in 1 .. Len(s) : s[i] \in S
      /\ s # <<>> => Len(s) # 0
  BY LenProperties, ElementOfSeq, EmptySeq
<1>2. Front(s) \in Seq(S)
  <2>1. \A i \in 1 .. Len(s) - 1 : s[i] \in S
    BY <1>1
  <2>2. QED
    BY <1>1, <2>1, SubSeqProperties DEF Front
<1>3. /\ longer \in Seq(S) /\ Len(longer) = Len(s) + 1 /\ longer[Len(s) + 1] = empty
      /\ \A i \in 1 .. Len(s) : longer[i] = s[i]
  BY AppendProperties
<1>4. Front(longer) = s
  <2> HIDE DEF longer
  <2>1. Front(longer) = SubSeq(longer, 1, Len(s))
    BY <1>1, <1>3 DEF Front
  <2>2. \A i \in 1 .. Len(s) : longer[i] \in S
    BY <1>1, <1>3
  <2>3. /\ SubSeq(longer, 1, Len(s)) \in Seq(S)
        /\ Len(SubSeq(longer, 1, Len(s))) = IF 1 <= Len(s) THEN Len(s) - 1 + 1 ELSE 0
        /\ \A i \in 1 .. Len(s) - 1 + 1 : SubSeq(longer, 1, Len(s))[i] = longer[1 + i - 1]
    BY <1>1, <2>2, SubSeqProperties
  <2>4. Len(SubSeq(longer, 1, Len(s))) = Len(s)
    BY <1>1, <2>3
  <2>5. \A i \in 1 .. Len(s) : SubSeq(longer, 1, Len(s))[i] = s[i]
    BY <1>1, <1>3, <2>3
  <2>6. QED
    BY <2>1, <2>3, <2>4, <2>5, SeqEqual
<1>5. s # <<>> => Len(longer) > 1 /\ Last(longer) = empty
  BY <1>1, <1>3 DEF Last
<1> HIDE DEF longer
<1>6. QED
  BY <1>2, <1>4, <1>5 DEF DropSlash, longer

\* What the wildcard takes, with the prefix in front of it, is the path.
LEMMA WildcardTakes ==
  ASSUME NEW Texts, NEW path \in Seq(Texts), NEW segments \in Seq(SegmentsOf(Texts)),
         MatchWildcard(segments, path).matched
  PROVE  path = [i \in 1 .. Len(segments) |-> segments[i].text] \o MatchWildcard(segments, path).params["*"]
<1> DEFINE N      == Len(segments)
           L      == Len(path)
           prefix == [i \in 1 .. N |-> segments[i].text]
           rest   == SubSeq(path, N + 1, L)
<1>1. N \in Nat /\ L \in Nat /\ \A i \in 1 .. L : path[i] \in Texts
  BY LenProperties, ElementOfSeq
<1>2. /\ L > N /\ \A i \in 1 .. N : segments[i] = Literal(path[i])
      /\ MatchWildcard(segments, path).params["*"] = rest
  BY DEF MatchWildcard, NoMatch
<1> HIDE DEF N, L
<1>3. ASSUME NEW i \in 1 .. N PROVE segments[i].text = path[i] /\ i \in 1 .. L
  <2>1. segments[i] = Literal(path[i])
    BY <1>2
  <2>2. segments[i].text = path[i]
    BY <2>1 DEF Literal
  <2>3. QED
    BY <1>1, <1>2, <2>2
<1>4. prefix = SubSeq(path, 1, N)
  <2> DEFINE front == SubSeq(path, 1, N)
  <2>1. \A i \in 1 .. N : path[i] \in Texts
    BY <1>1, <1>3
  <2>2. front \in Seq(Texts) /\ Len(front) = N /\ \A i \in 1 .. N : front[i] = path[i]
    <3>1. /\ front \in Seq(Texts) /\ Len(front) = IF 1 <= N THEN N - 1 + 1 ELSE 0
          /\ \A i \in 1 .. N - 1 + 1 : front[i] = path[1 + i - 1]
      BY <1>1, <2>1, SubSeqProperties
    <3> HIDE DEF front
    <3>2. QED
      BY <1>1, <3>1
  <2> HIDE DEF front
  <2>3. front \in [1 .. N -> Texts]
    BY <2>2, LenProperties
  <2>4. QED
    BY <1>3, <2>2, <2>3 DEF front
<1>5. SubSeq(path, 1, N) \o SubSeq(path, N + 1, L) = SubSeq(path, 1, L)
  <2>1. 1 \in 1 .. L + 1 /\ N \in 1 - 1 .. L /\ L \in N .. L
    BY <1>1, <1>2
  <2>2. QED
    BY <2>1, ConcatAdjacentSubSeq DEF L
<1>6. SubSeq(path, 1, L) = path
  BY SubSeqFull DEF L
<1>7. QED
  BY <1>2, <1>4, <1>5, <1>6 DEF N, L

\* matchPath() is exact, for every pattern and every path: a path matches only
\* if the pattern stands for it, always if its optional parameters come last,
\* its parameters put back into the pattern give the path, and a trailing slash
\* of the path or the pattern makes no difference (router.ts).
THEOREM MatchesAreExact ==
  ASSUME NEW Texts, "" \in Texts,
         NEW path \in Seq(Texts), path # <<>>,
         NEW pattern \in [segments : Seq(SegmentsOf(Texts)), wildcard : BOOLEAN],
         pattern.wildcard \/ pattern.segments # <<>>
  PROVE  /\ MatchIsExact(pattern, path)
         /\ ParamsRebuildPath(pattern, path)
         /\ SlashIsIgnored(pattern, path)
<1> DEFINE given    == DropSlash(path, "")
           sought   == Sought(pattern)
           result   == MatchPath(pattern, path)
           segments == pattern.segments
<1>1. Literal("") \in SegmentsOf(Texts) /\ segments \in Seq(SegmentsOf(Texts)) /\ pattern.wildcard \in BOOLEAN
  BY DEF Literal, SegmentsOf
<1>2. given \in Seq(Texts)
  BY SlashDropped
<1>3. sought \in Seq(SegmentsOf(Texts))
  BY <1>1, SlashDropped DEF Sought
<1>4. CASE pattern.wildcard
  <2>1. result = MatchWildcard(sought, given)
    BY <1>4 DEF MatchPath, Sought
  <2>2. MatchIsExact(pattern, path)
    BY <1>4 DEF MatchIsExact
  <2>3. ParamsRebuildPath(pattern, path)
    <3> HIDE DEF sought, given, result
    <3>1. result.matched => given = [i \in 1 .. Len(sought) |-> sought[i].text] \o result.params["*"]
      BY <1>2, <1>3, <2>1, WildcardTakes
    <3>2. QED
      BY <1>4, <3>1 DEF ParamsRebuildPath, Given, sought, given, result
  <2>4. path # <<"">> /\ Last(path) # "" => MatchPath(pattern, Append(path, "")) = result
    <3>1. Last(path) # "" => DropSlash(Append(path, ""), "") = DropSlash(path, "")
      BY SlashDropped
    <3>2. QED
      BY <3>1 DEF MatchPath
  <2>5. QED
    BY <1>4, <2>2, <2>3, <2>4 DEF SlashIsIgnored
<1>5. CASE ~pattern.wildcard
  <2>1. result = MatchSegments(sought, given) /\ segments # <<>>
    BY <1>5 DEF MatchPath, Sought
  <2>2. /\ result.matched <=> /\ Len(given) <= Len(sought)
                              /\ \A k \in 1 .. Len(sought) : TakesPlace(sought, given, k)
        /\ result.matched /\ NamesDiffer(sought) =>
             \A k \in 1 .. Len(given) : Filled(sought[k], result.params) = given[k]
    <3> HIDE DEF sought, given, result
    <3>1. QED
      BY <1>2, <1>3, <2>1, MatchByPlaces
  <2>3. MatchIsExact(pattern, path)
    <3> HIDE DEF sought, given, result
    <3>1. result.matched => Fits(sought, given)
      BY <1>2, <1>3, <2>2, PlacesFit
    <3>2. OptionalsLast(sought) /\ Fits(sought, given) => result.matched
      BY <1>2, <1>3, <2>2, FitsByPlaces
    <3>3. QED
      BY <3>1, <3>2 DEF MatchIsExact, Given, sought, given, result
  <2>4. ParamsRebuildPath(pattern, path)
    <3> HIDE DEF sought, given, result
    <3>1. ASSUME result.matched, NamesDiffer(sought)
          PROVE  given = [k \in 1 .. Len(given) |-> Filled(sought[k], result.params)]
      <4>1. given \in [1 .. Len(given) -> Texts]
        BY <1>2, LenProperties
      <4>2. \A k \in 1 .. Len(given) : given[k] = Filled(sought[k], result.params)
        BY <2>2, <3>1
      <4>3. QED
        BY <4>1, <4>2
    <3>2. QED
      BY <1>5, <3>1 DEF ParamsRebuildPath, Given, sought, given, result
  <2>5. path # <<"">> /\ Last(path) # "" => MatchPath(pattern, Append(path, "")) = result
    <3>1. Last(path) # "" => DropSlash(Append(path, ""), "") = DropSlash(path, "")
      BY SlashDropped
    <3>2. QED
      BY <3>1 DEF MatchPath
  <2>6. segments # <<Literal("")>> /\ Last(segments) # Literal("") =>
          MatchPath([pattern EXCEPT !.segments = Append(@, Literal(""))], path) = result
    <3> DEFINE slashed == [pattern EXCEPT !.segments = Append(@, Literal(""))]
    <3>1. ~slashed.wildcard /\ slashed.segments = Append(segments, Literal(""))
      BY <1>5
    <3>2. Last(segments) # Literal("") =>
            DropSlash(Append(segments, Literal("")), Literal("")) = DropSlash(segments, Literal(""))
      <4> DEFINE blank == Literal("")
      <4>1. blank \in SegmentsOf(Texts)
        BY <1>1
      <4> HIDE DEF blank, segments
      <4>2. Last(segments) # blank => DropSlash(Append(segments, blank), blank) = DropSlash(segments, blank)
        <5>1. DropSlash(Append(segments, blank), blank) = segments
          BY <1>1, <2>1, <4>1, SlashDropped
        <5>2. Last(segments) # blank => DropSlash(segments, blank) = segments
          BY <1>1, <2>1, <4>1, SlashDropped
        <5>3. QED
          BY <5>1, <5>2
      <4>3. QED
        BY <4>2 DEF blank
    <3> HIDE DEF slashed
    <3>3. MatchPath(slashed, path) = MatchSegments(DropSlash(Append(segments, Literal("")), Literal("")), given)
      BY <3>1 DEF MatchPath
    <3>4. result = MatchSegments(DropSlash(segments, Literal("")), given)
      BY <1>5 DEF MatchPath
    <3>5. QED
      BY <3>2, <3>3, <3>4 DEF slashed
  <2>7. QED
    BY <2>3, <2>4, <2>5, <2>6 DEF SlashIsIgnored
<1>6. QED
  BY <1>4, <1>5

-----------------------------------------------------------------------------
(* The paths the typed client asks for *)

\* A path that fills the segments of a route is matched, and the parameters are
\* what fills them: a trailing slash comes off both or off neither.
LEMMA FilledPathsMatch ==
  ASSUME NEW Texts, NEW empty \in Texts,
         NEW segments \in Seq(SegmentsOf(Texts)), NEW path \in Seq(Texts),
         segments # <<>>, Len(path) = Len(segments), NamesDiffer(segments),
         \A i \in 1 .. Len(segments) :
           /\ segments[i].kind # "optional"
           /\ segments[i].kind = "literal" => path[i] = segments[i].text
           /\ segments[i].kind = "param" => path[i] # empty
  PROVE  LET found == MatchSegments(DropSlash(segments, Literal(empty)), DropSlash(path, empty))
         IN /\ found.matched
            /\ \A i \in 1 .. Len(segments) :
                 segments[i].kind = "param" => found.params[segments[i].text] = path[i]
<1> DEFINE L      == Len(segments)
           blank  == Literal(empty)
           sought == DropSlash(segments, blank)
           given  == DropSlash(path, empty)
           found  == MatchSegments(sought, given)
<1>1. /\ L \in Nat \ {0}
      /\ \A i \in 1 .. L : segments[i] \in SegmentsOf(Texts) /\ path[i] \in Texts
  BY LenProperties, ElementOfSeq, EmptySeq
<1>2. blank \in SegmentsOf(Texts) /\ blank.kind = "literal" /\ blank.text = empty
  BY DEF Literal, SegmentsOf
<1>3. \A i \in 1 .. L : segments[i].kind \in {"literal", "param"}
  BY <1>1 DEF SegmentsOf
<1>4. \A i \in 1 .. L : path[i] = empty <=> segments[i] = blank
  <2>1. TAKE i \in 1 .. L
  <2>2. segments[i].kind = "literal" /\ segments[i].text = empty => segments[i] = blank
    BY <1>1 DEF SegmentsOf, Literal
  <2> HIDE DEF blank
  <2>3. QED
    BY <1>2, <1>3, <2>2
<1>5. Last(path) = empty <=> Last(segments) = blank
  <2>1. L \in 1 .. L
    BY <1>1
  <2>2. QED
    BY <1>4, <2>1 DEF Last
<1>6. sought \in Seq(SegmentsOf(Texts)) /\ given \in Seq(Texts)
  BY <1>2, SlashDropped
<1> HIDE DEF blank
<1>7. PICK n \in 1 .. L :
        /\ Len(sought) = n /\ Len(given) = n
        /\ \A i \in 1 .. n : sought[i] = segments[i] /\ given[i] = path[i]
        /\ \A i \in 1 .. L : i \in 1 .. n \/ segments[i] = blank
  <2>1. CASE L > 1 /\ Last(segments) = blank
    <3>1. sought = Front(segments) /\ given = Front(path)
      BY <1>5, <2>1 DEF DropSlash
    <3>2. \A i \in 1 .. L - 1 : i \in 1 .. L
      BY <1>1
    <3>3. /\ Len(Front(segments)) = L - 1 /\ Len(Front(path)) = L - 1
          /\ \A i \in 1 .. L - 1 : Front(segments)[i] = segments[i] /\ Front(path)[i] = path[i]
      BY <1>1, <2>1, <3>2 DEF Front
    <3>4. \A i \in 1 .. L : i \in 1 .. L - 1 \/ segments[i] = blank
      BY <1>1, <2>1 DEF Last
    <3> HIDE DEF sought, given
    <3>5. L - 1 \in 1 .. L
      BY <1>1, <2>1
    <3>6. QED
      BY <3>1, <3>3, <3>4, <3>5
  <2>2. CASE ~ (L > 1 /\ Last(segments) = blank)
    <3>1. sought = segments /\ given = path
      BY <1>5, <2>2 DEF DropSlash
    <3> HIDE DEF sought, given
    <3>2. L \in 1 .. L
      BY <1>1
    <3>3. QED
      BY <3>1, <3>2
  <2>3. QED
    BY <2>1, <2>2
<1> HIDE DEF sought, given
<1>8. \A k \in 1 .. n : TakesPlace(sought, given, k) /\ k \in 1 .. L
  BY <1>1, <1>7 DEF TakesPlace
<1>9. NamesDiffer(sought)
  BY <1>7, <1>8 DEF NamesDiffer
<1>10. /\ found.matched
       /\ \A k \in 1 .. n : Filled(sought[k], found.params) = given[k]
  <2>1. /\ Len(given) <= Len(sought) /\ (\A k \in 1 .. Len(sought) : TakesPlace(sought, given, k))
             => found.matched
        /\ found.matched /\ NamesDiffer(sought) =>
             \A k \in 1 .. Len(given) : Filled(sought[k], found.params) = given[k]
    BY <1>6, MatchByPlaces
  <2> HIDE DEF found
  <2>2. Len(given) <= Len(sought)
    BY <1>1, <1>7
  <2>3. QED
    BY <1>7, <1>8, <1>9, <2>1, <2>2
<1> HIDE DEF found
<1>11. ASSUME NEW i \in 1 .. L, segments[i].kind = "param"
       PROVE  found.params[segments[i].text] = path[i]
  <2>1. i \in 1 .. n
    BY <1>2, <1>7, <1>11
  <2>2. Filled(segments[i], found.params) = path[i]
    BY <1>7, <1>10, <2>1
  <2>3. QED
    BY <1>11, <2>2 DEF Filled
<1>12. QED
  BY <1>10, <1>11 DEF found, sought, given, blank

\* A segment with nothing in it.
EmptyText == ""

\* Which parameter of the path segment i is.
ArgOf(segments, i) == Cardinality({k \in 1 .. i : segments[k].kind = "param"})

\* The path that a typed client makes of a route and the arguments of a call is
\* one that matchPath() takes for the route, and it gives the arguments back
\* under the names of the route's parameters (client/proxy.ts, router.ts): for
\* every route without optional parameters whose parameters have names of their
\* own, and every call whose arguments are single segments that are not empty.
THEOREM CallsArrive ==
  ASSUME NEW Texts, EmptyText \in Texts,
         NEW route, route.path \in Seq(SegmentsOf(Texts)), route.path # <<>>,
         \A i \in 1 .. Len(route.path) : route.path[i].kind # "optional",
         NamesDiffer(route.path),
         NEW args, \A i \in 1 .. Len(route.path) :
                     route.path[i].kind = "param" => args[ArgOf(route.path, i)] \in Texts \ {EmptyText}
  PROVE  LET found == MatchPath([segments |-> route.path, wildcard |-> FALSE],
                                ProxyRequest(route, args).path)
         IN /\ found.matched
            /\ \A i \in 1 .. Len(route.path) :
                 route.path[i].kind = "param" => found.params[route.path[i].text] = args[ArgOf(route.path, i)]
<1>1. PICK segments \in Seq(SegmentsOf(Texts)) : segments = route.path
  OBVIOUS
<1> DEFINE L       == Len(segments)
           path    == Substitute(segments, args)
           Text(i) == IF segments[i].kind = "param" THEN args[ArgOf(segments, i)] ELSE segments[i].text
<1>2. /\ L \in Nat /\ DOMAIN segments = 1 .. L
      /\ \A i \in 1 .. L : segments[i] \in SegmentsOf(Texts)
  BY LenProperties, ElementOfSeq
<1>3. path = [i \in 1 .. L |-> Text(i)]
  BY <1>2 DEF Substitute, ArgOf
<1>4. \A i \in 1 .. L : segments[i].kind \in {"literal", "param"} /\ segments[i].text \in Texts
  BY <1>1, <1>2 DEF SegmentsOf
<1>5. \A i \in 1 .. L : Text(i) \in Texts
  BY <1>1, <1>4
<1> HIDE DEF path
<1>6. path \in Seq(Texts) /\ Len(path) = L
  <2>1. path \in [1 .. L -> Texts]
    BY <1>3, <1>5
  <2>2. path \in Seq(Texts)
    BY <1>2, <2>1, SeqDef
  <2>3. QED
    BY <1>2, <2>1, <2>2, LenProperties
<1>7. \A i \in 1 .. L : /\ segments[i].kind # "optional"
                        /\ segments[i].kind = "literal" => path[i] = segments[i].text
                        /\ segments[i].kind = "param" =>
                             path[i] # EmptyText /\ path[i] = args[ArgOf(segments, i)]
  BY <1>1, <1>3, <1>4
<1>8. segments # <<>> /\ NamesDiffer(segments)
  BY <1>1
<1> DEFINE found == MatchSegments(DropSlash(segments, Literal(EmptyText)), DropSlash(path, EmptyText))
<1>9. /\ found.matched
      /\ \A i \in 1 .. L : segments[i].kind = "param" => found.params[segments[i].text] = path[i]
  BY <1>6, <1>7, <1>8, FilledPathsMatch
<1>10. MatchPath([segments |-> route.path, wildcard |-> FALSE], ProxyRequest(route, args).path) = found
  BY <1>1, Zenon DEF MatchPath, ProxyRequest, path, EmptyText
<1> HIDE DEF found, path
<1>11. \A i \in 1 .. L :
         segments[i].kind = "param" => found.params[segments[i].text] = args[ArgOf(segments, i)]
  BY <1>7, <1>9
<1>12. QED
  <2> HIDE DEF L
  <2>1. L = Len(route.path)
    BY <1>1 DEF L
  <2>2. QED
    BY <1>1, <1>9, <1>10, <1>11, <2>1, Zenon

-----------------------------------------------------------------------------
(* The route table *)

\* The first route of a method that matches, or 0.
LEMMA ScanFinds ==
  ASSUME routes \in Seq(Routes), Len(routes) <= MaxRoutes, NEW key
  PROVE  LET own == {i \in Hits(key) : routes[i].method = key[1]}
         IN /\ Scan(key) \in 0 .. MaxRoutes
            /\ own # {} => Scan(key) \in own /\ \A i \in own : Scan(key) <= i
<1> USE CacheAssumption
<1> DEFINE own == {i \in Hits(key) : routes[i].method = key[1]}
<1>1. own \subseteq 1 .. Len(routes) /\ Len(routes) \in Nat
  BY LenProperties DEF Hits
<1>2. CASE own = {}
  BY <1>2 DEF Scan
<1>3. CASE own # {}
  <2>1. own \subseteq Nat
    BY <1>1
  <2>2. PICK n \in own : \A k \in own : ~ (<<k, n>> \in OpToRel(<, Nat))
    <3> HIDE DEF own
    <3>1. QED
      BY <1>3, <2>1, NatLessThanWellFounded, WFMin, Zenon
  <2>3. \A k \in own : ~ (k < n)
    BY <2>1, <2>2, Zenon DEF OpToRel
  <2>4. n \in own /\ \A k \in own : n <= k
    BY <2>1, <2>3
  <2>5. Scan(key) = CHOOSE i \in own : \A j \in own : i <= j
    BY <1>3 DEF Scan
  <2>6. Scan(key) \in own /\ \A i \in own : Scan(key) <= i
    <3> HIDE DEF own
    <3>1. QED
      BY <2>4, <2>5
  <2>7. QED
    BY <1>1, <2>6
<1>4. QED
  BY <1>2, <1>3

\* What the cache holds: entries of the current table, each key once.
CacheHolds(es) ==
  /\ es \in Seq(Keys \X (0 .. MaxRoutes)) /\ Len(es) <= CacheMax
  /\ \A i, j \in 1 .. Len(es) : es[i][1] = es[j][1] => i = j
  /\ \A i \in 1 .. Len(es) : es[i][2] = Scan(es[i][1])

\* Before the first answer the cache is empty.
TableInv ==
  /\ TableTypeOK /\ CacheHolds(cache)
  /\ CacheIsTransparent
  /\ ~served => cache = <<>>

\* An insertion makes room for itself.
LEMMA InsertKeeps ==
  ASSUME TableTypeOK, CacheHolds(cache),
         NEW key \in Keys, Cached(key) = {}, routes' = routes,
         Insert(key, Scan(key))
  PROVE  CacheHolds(cache)'
<1> USE CacheAssumption
<1> DEFINE Entry == Keys \X (0 .. MaxRoutes)
           rest  == IF Len(cache) >= CacheMax THEN Tail(cache) ELSE cache
           e     == <<key, Scan(key)>>
<1>1. /\ cache \in Seq(Entry) /\ Len(cache) \in Nat /\ Len(cache) <= CacheMax
      /\ DOMAIN cache = 1 .. Len(cache) /\ CacheMax \in Nat /\ CacheMax # 0
  BY LenProperties DEF CacheHolds
<1>2. e \in Entry
  BY ScanFinds DEF TableTypeOK
<1>3. /\ rest \in Seq(Entry) /\ Len(rest) \in Nat /\ Len(rest) < CacheMax
      /\ \E d \in {0, 1} : \A i \in 1 .. Len(rest) : i + d \in 1 .. Len(cache) /\ rest[i] = cache[i + d]
  <2>1. CASE Len(cache) >= CacheMax
    <3>1. cache # <<>>
      BY <1>1, <2>1, EmptySeq
    <3>2. /\ Tail(cache) \in Seq(Entry) /\ Len(Tail(cache)) = Len(cache) - 1
          /\ \A i \in 1 .. Len(Tail(cache)) : Tail(cache)[i] = cache[i + 1]
      BY <1>1, <3>1, HeadTailProperties
    <3>3. QED
      BY <1>1, <2>1, <3>2
  <2>2. CASE ~(Len(cache) >= CacheMax)
    BY <1>1, <2>2
  <2>3. QED
    BY <2>1, <2>2
<1>4. cache' = Append(rest, e)
  BY DEF Insert
<1> HIDE DEF rest, Entry
<1>5. PICK d \in {0, 1} : \A i \in 1 .. Len(rest) : i + d \in 1 .. Len(cache) /\ rest[i] = cache[i + d]
  BY <1>3
<1>6. /\ cache' \in Seq(Entry) /\ Len(cache') = Len(rest) + 1
      /\ \A i \in 1 .. Len(rest) : cache'[i] = rest[i]
      /\ cache'[Len(rest) + 1] = e
  BY <1>2, <1>3, <1>4, AppendProperties
<1>7. \A i \in 1 .. Len(rest) : rest[i][1] # key /\ rest[i][2] = Scan(rest[i][1])
  <2>1. \A i \in 1 .. Len(cache) : cache[i][1] # key /\ cache[i][2] = Scan(cache[i][1])
    BY DEF Cached, CacheHolds
  <2>2. QED
    BY <1>5, <2>1
<1>8. \A i, j \in 1 .. Len(rest) : rest[i][1] = rest[j][1] => i = j
  <2>1. \A i, j \in 1 .. Len(cache) : cache[i][1] = cache[j][1] => i = j
    BY DEF CacheHolds
  <2>2. ASSUME NEW i \in 1 .. Len(rest), NEW j \in 1 .. Len(rest), rest[i][1] = rest[j][1]
        PROVE  i = j
    <3>1. /\ i + d \in 1 .. Len(cache) /\ rest[i] = cache[i + d]
          /\ j + d \in 1 .. Len(cache) /\ rest[j] = cache[j + d]
      BY <1>5
    <3>2. i + d = j + d
      BY <2>1, <2>2, <3>1
    <3>3. QED
      BY <3>2
  <2>3. QED
    BY <2>2
<1>9. e[1] = key /\ e[2] = Scan(key)
  OBVIOUS
<1> HIDE DEF e
<1>10. \A i, j \in 1 .. Len(cache') : cache'[i][1] = cache'[j][1] => i = j
  <2>1. ASSUME NEW i \in 1 .. Len(cache'), NEW j \in 1 .. Len(cache'), cache'[i][1] = cache'[j][1]
        PROVE  i = j
    <3>1. /\ i \in 1 .. Len(rest) \/ i = Len(rest) + 1
          /\ j \in 1 .. Len(rest) \/ j = Len(rest) + 1
      BY <1>3, <1>6
    <3>2. CASE i \in 1 .. Len(rest) /\ j \in 1 .. Len(rest)
      BY <1>6, <1>8, <2>1, <3>2
    <3>3. CASE i = Len(rest) + 1 \/ j = Len(rest) + 1
      BY <1>6, <1>7, <1>9, <2>1, <3>1, <3>3
    <3>4. QED
      BY <3>1, <3>2, <3>3
  <2>2. QED
    BY <2>1
<1>11. \A i \in 1 .. Len(cache') : cache'[i][2] = Scan(cache'[i][1])
  BY <1>3, <1>6, <1>7, <1>9
<1>12. \A k : Scan(k)' = Scan(k)
  BY DEF Scan, Hits
<1>13. Len(cache') <= CacheMax
  BY <1>1, <1>3, <1>6
<1>14. QED
  BY <1>6, <1>10, <1>11, <1>12, <1>13 DEF CacheHolds, Entry, Keys

\* A table that has changed: the answers start anew.
LEMMA TableGrows ==
  ASSUME TableInv, Len(routes) < MaxRoutes,
         NEW route \in Routes, routes' = Append(routes, route), cache' = <<>>, served' = served,
         answers' = [key \in Keys |-> <<0, "none">>]
  PROVE  TableInv'
<1> USE CacheAssumption
<1>1. /\ routes \in Seq(Routes) /\ served \in BOOLEAN
  BY DEF TableInv, TableTypeOK
<1>2. routes' \in Seq(Routes) /\ Len(routes') = Len(routes) + 1 /\ Len(routes) \in Nat
  BY <1>1, AppendProperties, LenProperties
<1>3. CacheHolds(cache)'
  <2>1. Len(<<>>) = 0 /\ <<>> \in Seq(Keys \X (0 .. MaxRoutes))
    BY EmptySeq
  <2>2. QED
    BY <2>1 DEF CacheHolds, Keys
<1>4. TableTypeOK'
  BY <1>1, <1>2, <1>3 DEF TableTypeOK, CacheHolds, Routes, Keys
<1>5. CacheIsTransparent'
  BY DEF CacheIsTransparent, Keys
<1>6. QED
  BY <1>3, <1>4, <1>5 DEF TableInv

\* Every call and every request keeps the cache true to the table, if the
\* application's own routes come before the first request.
LEMMA TableKeeps ==
  ASSUME TableInv, ~DirectLate, [TableNext]_tableVars
  PROVE  TableInv'
<1> USE CacheAssumption
<1>1. /\ TableTypeOK /\ CacheHolds(cache) /\ CacheIsTransparent
      /\ ~served => cache = <<>>
      /\ answers \in [Keys -> (0 .. MaxRoutes) \X {"none", "route", "404", "405"}]
  BY DEF TableInv, TableTypeOK
<1>2. ASSUME NEW key \in Keys, Hit(key)
      PROVE  TableInv'
  <2>1. PICK i \in Cached(key) :
          answers' = [answers EXCEPT ![key] = <<cache[i][2], IF cache[i][2] = 0 THEN "404" ELSE "route">>]
    BY <1>2 DEF Hit
  <2>2. routes' = routes /\ cache' = cache /\ served' = TRUE
    BY <1>2 DEF Hit
  <2>3. i \in 1 .. Len(cache) /\ cache[i][1] = key /\ cache[i][2] = Scan(key)
    BY <1>1, <2>1 DEF Cached, CacheHolds
  <2>4. Scan(key) \in 0 .. MaxRoutes
    BY <1>1, ScanFinds DEF TableTypeOK
  <2>5. \A k : Scan(k)' = Scan(k)
    BY <2>2 DEF Scan, Hits
  <2>6. CacheHolds(cache)'
    BY <1>1, <2>2, <2>5 DEF CacheHolds, Keys
  <2>7. answers' \in [Keys -> (0 .. MaxRoutes) \X {"none", "route", "404", "405"}]
    BY <1>1, <2>1, <2>3, <2>4
  <2>8. TableTypeOK'
    BY <1>1, <2>2, <2>7 DEF TableTypeOK, Routes, Keys
  <2>9. CacheIsTransparent'
    BY <1>1, <2>1, <2>3, <2>5 DEF CacheIsTransparent, Keys
  <2>10. QED
    BY <2>2, <2>6, <2>8, <2>9 DEF TableInv
<1>3. ASSUME NEW key \in Keys, Miss(key)
      PROVE  TableInv'
  <2>1. /\ Cached(key) = {} /\ Insert(key, Scan(key))
        /\ answers' = [answers EXCEPT ![key] = <<Scan(key), Status(key)>>]
        /\ routes' = routes /\ served' = TRUE
    BY <1>3 DEF Miss
  <2>2. CacheHolds(cache)'
    BY <1>1, <2>1, InsertKeeps
  <2>3. Scan(key) \in 0 .. MaxRoutes /\ Status(key) \in {"none", "route", "404", "405"}
    BY <1>1, ScanFinds DEF TableTypeOK, Status
  <2>4. \A k : Scan(k)' = Scan(k)
    BY <2>1 DEF Scan, Hits
  <2>5. answers' \in [Keys -> (0 .. MaxRoutes) \X {"none", "route", "404", "405"}]
    BY <1>1, <2>1, <2>3
  <2>6. TableTypeOK'
    BY <1>1, <2>1, <2>2, <2>5 DEF TableTypeOK, CacheHolds, Routes, Keys
  <2>7. CacheIsTransparent'
    BY <1>1, <2>1, <2>4 DEF CacheIsTransparent, Keys
  <2>8. QED
    BY <2>1, <2>2, <2>6, <2>7 DEF TableInv
<1>4. ASSUME NEW route \in Routes, RegisterRoute(route)
      PROVE  TableInv'
  BY <1>4, TableGrows DEF RegisterRoute
<1>5. ASSUME NEW route \in Routes, AddRoute(route)
      PROVE  TableInv'
  <2>1. ~served
    BY <1>5 DEF AddRoute
  <2>2. cache' = <<>>
    BY <1>1, <1>5, <2>1 DEF AddRoute
  <2>3. QED
    BY <1>5, <2>2, TableGrows DEF AddRoute
<1>6. ASSUME UNCHANGED tableVars
      PROVE  TableInv'
  <2>1. routes' = routes /\ cache' = cache /\ served' = served /\ answers' = answers
    BY <1>6 DEF tableVars
  <2>2. \A k : Scan(k)' = Scan(k)
    BY <2>1 DEF Scan, Hits
  <2>3. QED
    BY <1>1, <2>1, <2>2 DEF TableInv, CacheHolds, TableTypeOK, CacheIsTransparent, Routes, Keys
<1>7. QED
  BY <1>2, <1>3, <1>4, <1>5, <1>6 DEF TableNext

\* What the scan finds stands for the path, and nothing it passed does unless
\* an optional parameter is in front.
LEMMA AnswersFit == TableTypeOK /\ CacheIsTransparent => FirstFitIsServed
<1> SUFFICES ASSUME TableTypeOK, CacheIsTransparent, NEW key \in Keys, answers[key][2] # "none"
             PROVE  LET found  == answers[key][1]
                        passed == IF found = 0 THEN 1 .. Len(routes) ELSE 1 .. found - 1
                    IN /\ found # 0 => routes[found].pattern.wildcard \/ StandsFor(routes[found].pattern, key[2])
                       /\ \A i \in passed :
                            routes[i].method = key[1] /\ OptionalsLast(Sought(routes[i].pattern)) =>
                              ~StandsFor(routes[i].pattern, key[2])
  BY DEF FirstFitIsServed
<1> DEFINE found == answers[key][1]
           own   == {i \in Hits(key) : routes[i].method = key[1]}
<1>1. /\ routes \in Seq(Routes) /\ Len(routes) \in Nat
      /\ \A i \in 1 .. Len(routes) : routes[i] \in Routes
  BY LenProperties, ElementOfSeq DEF TableTypeOK
<1>2. found = Scan(key)
  BY DEF CacheIsTransparent
<1>3. key[2] \in Seq(PathTexts) /\ key[2] # <<>> /\ "" \in PathTexts
  BY PathAssumption DEF Keys
<1>4. ASSUME NEW i \in 1 .. Len(routes)
      PROVE  /\ i \in Hits(key) => routes[i].pattern.wildcard \/ StandsFor(routes[i].pattern, key[2])
             /\ OptionalsLast(Sought(routes[i].pattern)) /\ StandsFor(routes[i].pattern, key[2]) => i \in Hits(key)
  <2> DEFINE pattern == routes[i].pattern
  <2>1. pattern \in Patterns
    BY <1>1 DEF Routes
  <2>2. /\ pattern \in [segments : Seq(SegmentsOf(PathTexts)), wildcard : BOOLEAN]
        /\ pattern.wildcard \/ pattern.segments # <<>>
    BY <2>1, PathAssumption
  <2> DEFINE path == key[2]
  <2>3. path \in Seq(PathTexts) /\ path # <<>> /\ "" \in PathTexts
    BY <1>3
  <2> HIDE DEF pattern, path
  <2>4. MatchIsExact(pattern, path)
    BY <2>2, <2>3, MatchesAreExact
  <2>5. i \in Hits(key) <=> MatchPath(pattern, path).matched
    BY DEF Hits, pattern, path
  <2>6. QED
    BY <2>4, <2>5 DEF MatchIsExact, StandsFor, pattern, path
<1>5. Hits(key) \subseteq 1 .. Len(routes) /\ own \subseteq Nat
  BY <1>1 DEF Hits
<1>6. CASE own = {}
  <2>1. found = 0
    BY <1>2, <1>6 DEF Scan
  <2>2. QED
    BY <1>4, <1>6, <2>1
<1>7. CASE own # {}
  <2>1. found \in own /\ \A j \in own : found <= j
    BY <1>2, <1>7, ScanFinds DEF TableTypeOK
  <2>2. found \in 1 .. Len(routes) /\ found # 0
    BY <1>5, <2>1
  <2>3. ASSUME NEW i \in 1 .. found - 1 PROVE i \in 1 .. Len(routes) /\ i \notin own
    BY <1>1, <2>1, <2>2
  <2>4. QED
    BY <1>4, <2>1, <2>2, <2>3
<1>8. QED
  BY <1>6, <1>7

\* If an application registers its own routes before its first request, then
\* whatever modules come later, whatever is cached or evicted: fetch() takes the
\* route that a scan of the current table would find, which is the first of the
\* method that stands for the path.
THEOREM CacheTransparent ==
  ASSUME ~DirectLate
  PROVE  TableSpec => []CacheIsSound
<1> USE CacheAssumption
<1>1. TableInit => TableInv
  <2>1. SUFFICES ASSUME TableInit PROVE TableInv
    OBVIOUS
  <2>2. /\ routes = <<>> /\ cache = <<>> /\ served = FALSE
        /\ answers = [key \in Keys |-> <<0, "none">>]
    BY <2>1 DEF TableInit
  <2>3. /\ Len(<<>>) = 0 /\ <<>> \in Seq(Keys \X (0 .. MaxRoutes))
        /\ <<>> \in Seq(Routes)
    BY EmptySeq
  <2>4. CacheHolds(cache)
    BY <2>2, <2>3 DEF CacheHolds
  <2>5. TableTypeOK
    <3>1. <<0, "none">> \in (0 .. MaxRoutes) \X {"none", "route", "404", "405"}
      OBVIOUS
    <3>2. answers \in [Keys -> (0 .. MaxRoutes) \X {"none", "route", "404", "405"}]
      BY <2>2, <3>1
    <3>3. routes \in Seq(Routes) /\ served \in BOOLEAN
      BY <2>2, <2>3
    <3>4. Len(routes) = 0 /\ 0 <= MaxRoutes
      BY <2>2, <2>3
    <3>5. Len(routes) <= MaxRoutes
      BY <3>4
    <3>6. QED
      BY <2>4, <3>2, <3>3, <3>5 DEF TableTypeOK, CacheHolds
  <2>6. CacheIsTransparent
    BY <2>2 DEF CacheIsTransparent
  <2>7. QED
    BY <2>2, <2>4, <2>5, <2>6 DEF TableInv
<1>2. TableInv /\ [TableNext]_tableVars => TableInv'
  BY TableKeeps
<1>3. TableInv => CacheIsSound
  BY AnswersFit DEF TableInv, CacheIsSound
<1>4. QED
  BY <1>1, <1>2, <1>3, PTL DEF TableSpec

-----------------------------------------------------------------------------
(* The other small cache a request meets: statements of the SQLite adapter *)

\* A list without the element at p; all of it for p behind the end.
Place(p, k) == IF k < p THEN k ELSE k + 1

LEMMA DroppedAt ==
  ASSUME NEW S, NEW c \in Seq(S), NEW p \in 1 .. Len(c)
  PROVE  /\ RemoveAt(c, p) \in Seq(S) /\ Len(RemoveAt(c, p)) = Len(c) - 1
         /\ \A k \in 1 .. Len(c) - 1 : RemoveAt(c, p)[k] = c[Place(p, k)]
<1> DEFINE L     == Len(c)
           front == SubSeq(c, 1, p - 1)
           back  == SubSeq(c, p + 1, L)
<1>1. L \in Nat /\ p \in 1 .. L /\ \A i \in 1 .. L : c[i] \in S
  BY LenProperties, ElementOfSeq
<1> HIDE DEF L
<1>2. /\ front \in Seq(S) /\ Len(front) = p - 1
      /\ \A i \in 1 .. p - 1 : front[i] = c[i]
  <2>1. \A i \in 1 .. p - 1 : c[i] \in S
    BY <1>1
  <2>2. /\ front \in Seq(S) /\ Len(front) = IF 1 <= p - 1 THEN p - 1 - 1 + 1 ELSE 0
        /\ \A i \in 1 .. p - 1 - 1 + 1 : front[i] = c[1 + i - 1]
    BY <1>1, <2>1, SubSeqProperties
  <2> HIDE DEF front
  <2>3. QED
    BY <1>1, <2>2
<1>3. /\ back \in Seq(S) /\ Len(back) = L - p
      /\ \A i \in 1 .. L - p : back[i] = c[p + i]
  <2>1. \A i \in p + 1 .. L : c[i] \in S
    BY <1>1
  <2>2. /\ back \in Seq(S) /\ Len(back) = IF p + 1 <= L THEN L - (p + 1) + 1 ELSE 0
        /\ \A i \in 1 .. L - (p + 1) + 1 : back[i] = c[p + 1 + i - 1]
    BY <1>1, <2>1, SubSeqProperties
  <2> HIDE DEF back
  <2>3. Len(back) = L - p
    BY <1>1, <2>2
  <2>4. ASSUME NEW i \in 1 .. L - p PROVE back[i] = c[p + i]
    <3>1. i \in 1 .. L - (p + 1) + 1 /\ p + 1 + i - 1 = p + i
      BY <1>1
    <3>2. QED
      BY <2>2, <3>1
  <2>5. QED
    BY <2>2, <2>3, <2>4
<1>4. RemoveAt(c, p) = front \o back
  BY DEF RemoveAt, L
<1> HIDE DEF front, back
<1>5. /\ front \o back \in Seq(S) /\ Len(front \o back) = Len(front) + Len(back)
      /\ \A i \in 1 .. Len(front) + Len(back) :
           (front \o back)[i] = IF i <= Len(front) THEN front[i] ELSE back[i - Len(front)]
  BY <1>2, <1>3, ConcatProperties
<1>6. ASSUME NEW k \in 1 .. L - 1 PROVE (front \o back)[k] = c[Place(p, k)]
  <2>1. k \in 1 .. Len(front) + Len(back)
    BY <1>1, <1>2, <1>3
  <2>2. CASE k < p
    <3>1. k \in 1 .. p - 1 /\ k <= Len(front)
      BY <1>1, <1>2, <2>2
    <3>2. QED
      BY <1>2, <1>5, <2>1, <2>2, <3>1 DEF Place
  <2>3. CASE ~ (k < p)
    <3>1. ~ (k <= Len(front)) /\ k - Len(front) \in 1 .. L - p /\ p + (k - Len(front)) = k + 1
      BY <1>1, <1>2, <2>3
    <3>2. back[k - Len(front)] = c[k + 1]
      BY <1>3, <3>1
    <3>3. QED
      BY <1>5, <2>1, <2>3, <3>1, <3>2 DEF Place
  <2>4. QED
    BY <2>2, <2>3
<1>7. QED
  BY <1>1, <1>2, <1>3, <1>4, <1>5, <1>6 DEF L

\* What _prepare() makes of the Map: it drops the entry at p, if there is one
\* to drop, and ends in the statement, if that can be prepared.
PrepareMakes(S, c, d, sql, bad, limit, p, m, ends) ==
  /\ p \in 1 .. Len(c) + 1 /\ ends \in BOOLEAN
  /\ m = IF p <= Len(c) THEN Len(c) - 1 ELSE Len(c)
  /\ d \in Seq(S) /\ Len(d) = (IF ends THEN m + 1 ELSE m) /\ Len(d) <= limit
  /\ \A k \in 1 .. m : d[k] = c[Place(p, k)] /\ d[k] # sql
  /\ IF ends THEN d[m + 1] = sql ELSE sql \in bad
  /\ p <= Len(c) => \/ ends /\ c[p] = sql
                    \/ p = 1 /\ Len(c) = limit /\ \A k \in 1 .. Len(c) : c[k] # sql

LEMMA PrepareIs ==
  ASSUME NEW S, NEW c \in Seq(S), NEW sql \in S, NEW bad, NEW limit \in Nat \ {0}, Len(c) <= limit,
         \A k, l \in 1 .. Len(c) : c[k] = c[l] => k = l
  PROVE  \E p, m, ends : PrepareMakes(S, c, Prepare(c, sql, bad, limit), sql, bad, limit, p, m, ends)
<1> DEFINE L  == Len(c)
           at == {i \in 1 .. L : c[i] = sql}
           d  == Prepare(c, sql, bad, limit)
           e  == Evicted(c, limit)
<1>1. L \in Nat /\ \A i \in 1 .. L : c[i] \in S
  BY LenProperties, ElementOfSeq
<1>2. CASE at # {}
  <2> DEFINE p    == CHOOSE i \in at : TRUE
             rest == RemoveAt(c, p)
  <2>1. p \in 1 .. L /\ c[p] = sql
    BY <1>2
  <2>2. d = Append(rest, sql)
    BY <1>2 DEF Prepare
  <2> HIDE DEF p
  <2>3. rest \in Seq(S) /\ Len(rest) = L - 1 /\ \A k \in 1 .. L - 1 : rest[k] = c[Place(p, k)]
    BY <2>1, DroppedAt
  <2> HIDE DEF rest
  <2>4. /\ d \in Seq(S) /\ Len(d) = L - 1 + 1
        /\ \A k \in 1 .. L - 1 : d[k] = rest[k]
        /\ d[L - 1 + 1] = sql
    BY <2>2, <2>3, AppendProperties
  <2> HIDE DEF d
  <2>5. ASSUME NEW k \in 1 .. L - 1 PROVE d[k] = c[Place(p, k)] /\ d[k] # sql
    <3>1. Place(p, k) \in 1 .. L /\ Place(p, k) # p
      BY <1>1, <2>1 DEF Place
    <3>2. d[k] = c[Place(p, k)]
      BY <2>3, <2>4
    <3>3. QED
      BY <2>1, <3>1, <3>2
  <2>6. PrepareMakes(S, c, d, sql, bad, limit, p, L - 1, TRUE)
    BY <1>1, <2>1, <2>4, <2>5 DEF PrepareMakes
  <2>7. QED
    BY <2>6 DEF d
<1>3. CASE at = {}
  <2>1. \A k \in 1 .. L : c[k] # sql
    BY <1>3
  <2>2. d = IF sql \in bad THEN e ELSE Append(e, sql)
    BY <1>3 DEF Prepare
  <2> DEFINE p == IF L >= limit THEN 1 ELSE L + 1
             m == IF L >= limit THEN L - 1 ELSE L
  <2>3. /\ p \in 1 .. L + 1 /\ m \in Nat /\ m + 1 <= limit
        /\ m = IF p <= L THEN L - 1 ELSE L
        /\ p <= L => p = 1 /\ L = limit
    BY <1>1
  <2>4. e \in Seq(S) /\ Len(e) = m /\ \A k \in 1 .. m : e[k] = c[Place(p, k)]
    <3>1. CASE L >= limit
      <4>1. c # <<>>
        BY <1>1, <3>1, EmptySeq
      <4>2. Tail(c) \in Seq(S) /\ Len(Tail(c)) = L - 1 /\ \A i \in 1 .. L - 1 : Tail(c)[i] = c[i + 1]
        BY <4>1, HeadTailProperties
      <4>3. e = Tail(c) /\ p = 1 /\ m = L - 1
        BY <3>1 DEF Evicted
      <4>4. \A k \in 1 .. L - 1 : Place(1, k) = k + 1
        BY <1>1 DEF Place
      <4>5. QED
        BY <4>2, <4>3, <4>4
    <3>2. CASE ~ (L >= limit)
      <4>1. e = c /\ p = L + 1 /\ m = L
        BY <3>2 DEF Evicted
      <4>2. \A k \in 1 .. L : Place(L + 1, k) = k
        BY <1>1 DEF Place
      <4>3. QED
        BY <4>1, <4>2
    <3>3. QED
      BY <3>1, <3>2
  <2> HIDE DEF e, p, m
  <2>5. ASSUME NEW k \in 1 .. m PROVE e[k] # sql
    <3>1. Place(p, k) \in 1 .. L
      BY <1>1, <2>3 DEF Place
    <3>2. QED
      BY <2>1, <2>4, <3>1
  <2>6. CASE sql \in bad
    <3>1. d = e
      BY <2>2, <2>6
    <3> HIDE DEF d
    <3>2. Len(d) <= limit
      BY <2>3, <2>4, <3>1
    <3>3. PrepareMakes(S, c, d, sql, bad, limit, p, m, FALSE)
      BY <2>1, <2>3, <2>4, <2>5, <2>6, <3>1, <3>2 DEF PrepareMakes
    <3>4. QED
      BY <3>3 DEF d
  <2>7. CASE sql \notin bad
    <3>1. d = Append(e, sql)
      BY <2>2, <2>7
    <3> HIDE DEF d
    <3>2. /\ d \in Seq(S) /\ Len(d) = m + 1 /\ d[m + 1] = sql
          /\ \A k \in 1 .. m : d[k] = e[k]
      BY <2>4, <3>1, AppendProperties
    <3>3. PrepareMakes(S, c, d, sql, bad, limit, p, m, TRUE)
      BY <2>1, <2>3, <2>4, <2>5, <3>2 DEF PrepareMakes
    <3>4. QED
      BY <3>3 DEF d
  <2>8. QED
    BY <2>6, <2>7
<1>4. QED
  BY <1>2, <1>3

\* The statements of the runs from i to n.
RanFrom(xs, i, n) == {xs[j] : j \in i .. n}

LEMMA RanFinite ==
  ASSUME NEW xs, NEW i \in Nat, NEW n \in Nat
  PROVE  /\ IsFiniteSet(RanFrom(xs, i, n)) /\ Cardinality(RanFrom(xs, i, n)) \in Nat
         /\ \A m \in 0 .. n : Cardinality(RanFrom(xs, i, m)) <= Cardinality(RanFrom(xs, i, n))
<1> DEFINE f == [j \in i .. n |-> xs[j]]
<1>1. f \in Surjection(i .. n, RanFrom(xs, i, n))
  BY DEF Surjection, RanFrom
<1>2. IsFiniteSet(i .. n)
  BY FS_Interval
<1>3. IsFiniteSet(RanFrom(xs, i, n))
  <2> HIDE DEF f
  <2>1. QED
    BY <1>1, <1>2, FS_Surjection
<1>4. ASSUME NEW m \in 0 .. n PROVE Cardinality(RanFrom(xs, i, m)) <= Cardinality(RanFrom(xs, i, n))
  <2>1. RanFrom(xs, i, m) \subseteq RanFrom(xs, i, n)
    BY DEF RanFrom
  <2>2. QED
    BY <1>3, <2>1, FS_Subset
<1>5. QED
  BY <1>3, <1>4, FS_CardinalityType

\* A full cache and one more statement are more than the limit.
LEMMA FullAndOneMore ==
  ASSUME NEW S, NEW c \in Seq(S), NEW sql, NEW T, IsFiniteSet(T), Len(c) \in Nat,
         \A k, l \in 1 .. Len(c) : c[k] = c[l] => k = l,
         \A k \in 1 .. Len(c) : c[k] # sql /\ c[k] \in T, sql \in T
  PROVE  Cardinality(T) > Len(c)
<1> DEFINE L == Len(c)
           f == [k \in 1 .. L + 1 |-> IF k <= L THEN c[k] ELSE sql]
<1>1. ASSUME NEW k \in 1 .. L + 1 PROVE f[k] \in T /\ (k <= L => k \in 1 .. L) /\ (~ (k <= L) => k = L + 1)
  OBVIOUS
<1>2. f \in [1 .. L + 1 -> T]
  BY <1>1
<1>3. \A k, l \in 1 .. L + 1 : f[k] = f[l] => k = l
  BY <1>1
<1>4. f \in Injection(1 .. L + 1, T)
  <2> HIDE DEF f
  <2>1. QED
    BY <1>2, <1>3 DEF Injection, IsInjective
<1>5. Cardinality(1 .. L + 1) <= Cardinality(T)
  <2> HIDE DEF f, L
  <2>1. QED
    BY <1>4, FS_Injection
<1>6. Cardinality(1 .. L + 1) = L + 1
  BY FS_Interval
<1>7. Cardinality(T) \in Nat
  BY FS_CardinalityType
<1>8. QED
  BY <1>5, <1>6, <1>7

\* Every entry is of the last run of its statement, in the order of the runs.
KeptBy(c, used, xs, n) ==
  /\ used \in [1 .. Len(c) -> 1 .. n]
  /\ \A k, l \in 1 .. Len(c) : k < l => used[k] < used[l]
  /\ \A k \in 1 .. Len(c) : c[k] = xs[used[k]] /\ \A j \in used[k] + 1 .. n : xs[j] # c[k]

\* What is not there any more was evicted by as many as there is room for.
EvictedByEnough(c, xs, n, bad, limit) ==
  \A i \in 1 .. n :
    /\ xs[i] \notin bad /\ \A j \in i + 1 .. n : xs[j] # xs[i]
    /\ \A k \in 1 .. Len(c) : c[k] # xs[i]
    => Cardinality(RanFrom(xs, i, n)) > limit

Lru(S, c, xs, n, bad, limit) ==
  /\ c \in Seq(S) /\ Len(c) <= limit
  /\ \E used : KeptBy(c, used, xs, n)
  /\ EvictedByEnough(c, xs, n, bad, limit)

LEMMA EntriesDiffer ==
  ASSUME NEW c, NEW used, NEW xs, NEW n \in Nat, KeptBy(c, used, xs, n), Len(c) \in Nat
  PROVE  \A k, l \in 1 .. Len(c) : c[k] = c[l] => k = l
<1> SUFFICES ASSUME NEW k \in 1 .. Len(c), NEW l \in 1 .. Len(c), c[k] = c[l], k < l PROVE FALSE
  OBVIOUS
<1>1. used[k] < used[l] /\ used[k] \in 1 .. n /\ used[l] \in 1 .. n
  BY DEF KeptBy
<1>2. used[l] \in used[k] + 1 .. n
  BY <1>1
<1>3. xs[used[l]] # c[k] /\ c[l] = xs[used[l]]
  BY <1>2 DEF KeptBy
<1>4. QED
  BY <1>3

LEMMA PrepareKeeps ==
  ASSUME NEW S, NEW xs \in Seq(S), NEW bad, NEW limit \in Nat \ {0},
         NEW n \in 1 .. Len(xs), NEW c, Lru(S, c, xs, n - 1, bad, limit)
  PROVE  Lru(S, Prepare(c, xs[n], bad, limit), xs, n, bad, limit)
<1> DEFINE sql == xs[n]
           L   == Len(c)
           d   == Prepare(c, sql, bad, limit)
<1>1. /\ n \in Nat \ {0} /\ n - 1 \in Nat /\ sql \in S
      /\ c \in Seq(S) /\ L \in Nat /\ L <= limit
  BY LenProperties, ElementOfSeq DEF Lru
<1>2. PICK used : KeptBy(c, used, xs, n - 1)
  BY DEF Lru
<1>3. \A k, l \in 1 .. L : c[k] = c[l] => k = l
  BY <1>1, <1>2, EntriesDiffer
<1> HIDE DEF sql
<1>4. PICK p, m, ends : PrepareMakes(S, c, d, sql, bad, limit, p, m, ends)
  BY <1>1, <1>3, PrepareIs
<1> HIDE DEF d
<1>5. /\ d \in Seq(S) /\ Len(d) = (IF ends THEN m + 1 ELSE m) /\ Len(d) <= limit /\ ends \in BOOLEAN
      /\ p \in 1 .. L + 1 /\ m = IF p <= L THEN L - 1 ELSE L
      /\ \A k \in 1 .. m : d[k] = c[Place(p, k)] /\ d[k] # sql
  BY <1>4 DEF PrepareMakes
<1>6. m \in Nat /\ \A k \in 1 .. m : Place(p, k) \in 1 .. L
  BY <1>1, <1>5 DEF Place
<1>7. /\ used \in [1 .. L -> 1 .. n - 1]
      /\ \A k, l \in 1 .. L : k < l => used[k] < used[l]
      /\ \A k \in 1 .. L : c[k] = xs[used[k]] /\ \A j \in used[k] + 1 .. n - 1 : xs[j] # c[k]
  BY <1>2 DEF KeptBy
<1> DEFINE now == [k \in 1 .. Len(d) |-> IF k <= m THEN used[Place(p, k)] ELSE n]
<1>8. ASSUME NEW k \in 1 .. Len(d)
      PROVE  \/ k \in 1 .. m /\ now[k] = used[Place(p, k)] /\ now[k] \in 1 .. n - 1
             \/ ends /\ k = m + 1 /\ now[k] = n /\ d[k] = sql
  <2>1. CASE k <= m
    <3>1. k \in 1 .. m
      BY <1>6, <2>1
    <3>2. QED
      BY <1>6, <1>7, <2>1, <3>1
  <2>2. CASE ~ (k <= m)
    <3>1. ends /\ k = m + 1
      BY <1>5, <1>6, <2>2
    <3>2. QED
      BY <1>4, <2>2, <3>1 DEF PrepareMakes
  <2>3. QED
    BY <2>1, <2>2
<1> HIDE DEF now
<1>9. KeptBy(d, now, xs, n)
  <2>1. now \in [1 .. Len(d) -> 1 .. n]
    <3>1. \A k \in 1 .. Len(d) : now[k] \in 1 .. n
      BY <1>1, <1>8
    <3>2. QED
      BY <3>1 DEF now
  <2>2. ASSUME NEW k \in 1 .. Len(d), NEW l \in 1 .. Len(d), k < l PROVE now[k] < now[l]
    <3>1. k \in 1 .. m /\ now[k] = used[Place(p, k)] /\ now[k] \in 1 .. n - 1
      BY <1>5, <1>6, <1>8, <2>2
    <3>2. CASE l \in 1 .. m
      <4>1. now[l] = used[Place(p, l)]
        BY <1>6, <1>8, <3>2
      <4>2. Place(p, k) < Place(p, l)
        BY <1>5, <2>2, <3>1, <3>2 DEF Place
      <4>3. QED
        BY <1>6, <1>7, <3>1, <3>2, <4>1, <4>2
    <3>3. CASE l \notin 1 .. m
      BY <1>1, <1>8, <3>1, <3>3
    <3>4. QED
      BY <3>2, <3>3
  <2>3. ASSUME NEW k \in 1 .. Len(d) PROVE d[k] = xs[now[k]] /\ \A j \in now[k] + 1 .. n : xs[j] # d[k]
    <3>1. CASE k \in 1 .. m /\ now[k] = used[Place(p, k)] /\ now[k] \in 1 .. n - 1
      <4>1. d[k] = xs[now[k]] /\ d[k] = c[Place(p, k)]
        BY <1>5, <1>6, <1>7, <3>1
      <4>2. \A j \in now[k] + 1 .. n - 1 : xs[j] # d[k]
        BY <1>6, <1>7, <3>1, <4>1
      <4>3. xs[n] # d[k]
        BY <1>5, <3>1 DEF sql
      <4>4. \A j \in now[k] + 1 .. n : j = n \/ j \in now[k] + 1 .. n - 1
        BY <1>1, <3>1
      <4>5. QED
        BY <4>1, <4>2, <4>3, <4>4
    <3>2. CASE ends /\ k = m + 1 /\ now[k] = n /\ d[k] = sql
      <4>1. n + 1 .. n = {}
        BY <1>1
      <4>2. QED
        BY <3>2, <4>1 DEF sql
    <3>3. QED
      BY <1>8, <3>1, <3>2
  <2>4. QED
    BY <2>1, <2>2, <2>3 DEF KeptBy
<1>10. EvictedByEnough(d, xs, n, bad, limit)
  <2>1. SUFFICES ASSUME NEW i \in 1 .. n,
                        xs[i] \notin bad, \A j \in i + 1 .. n : xs[j] # xs[i],
                        \A k \in 1 .. Len(d) : d[k] # xs[i]
                 PROVE  Cardinality(RanFrom(xs, i, n)) > limit
    BY DEF EvictedByEnough
  <2>2. i # n
    <3>1. SUFFICES ASSUME i = n PROVE FALSE
      OBVIOUS
    <3>2. CASE ends
      <4>1. m + 1 \in 1 .. Len(d) /\ d[m + 1] = sql
        BY <1>4, <1>5, <1>6, <3>2 DEF PrepareMakes
      <4>2. QED
        BY <2>1, <3>1, <4>1 DEF sql
    <3>3. CASE ~ends
      <4>1. sql \in bad
        BY <1>4, <3>3 DEF PrepareMakes
      <4>2. QED
        BY <2>1, <3>1, <4>1 DEF sql
    <3>4. QED
      BY <3>2, <3>3
  <2>3. i \in 1 .. n - 1 /\ i \in Nat /\ n \in i + 1 .. n /\ \A j \in i + 1 .. n - 1 : j \in i + 1 .. n
    BY <1>1, <2>2
  <2>4. xs[i] # sql /\ \A j \in i + 1 .. n - 1 : xs[j] # xs[i]
    BY <2>1, <2>3 DEF sql
  <2>5. CASE \A k \in 1 .. L : c[k] # xs[i]
    <3>1. Cardinality(RanFrom(xs, i, n - 1)) > limit
      BY <2>1, <2>3, <2>4, <2>5 DEF Lru, EvictedByEnough
    <3>2. /\ Cardinality(RanFrom(xs, i, n - 1)) <= Cardinality(RanFrom(xs, i, n))
          /\ Cardinality(RanFrom(xs, i, n - 1)) \in Nat /\ Cardinality(RanFrom(xs, i, n)) \in Nat
      <4>1. n - 1 \in 0 .. n
        BY <1>1
      <4>2. QED
        BY <1>1, <2>3, <4>1, RanFinite
    <3>3. QED
      BY <3>1, <3>2
  <2>6. CASE \E k \in 1 .. L : c[k] = xs[i]
    <3>1. PICK k \in 1 .. L : c[k] = xs[i]
      BY <2>6
    <3>2. k = p /\ p <= L
      <4>1. SUFFICES ASSUME ~ (k = p /\ p <= L) PROVE \E h \in 1 .. m : Place(p, h) = k
        <5>1. ASSUME NEW h \in 1 .. m, Place(p, h) = k PROVE FALSE
          <6>1. h \in 1 .. Len(d)
            BY <1>5, <1>6
          <6>2. d[h] = c[k]
            BY <1>5, <5>1
          <6>3. QED
            BY <2>1, <3>1, <6>1, <6>2
        <5>2. QED
          BY <4>1, <5>1
      <4>2. CASE k < p
        <5>1. k \in 1 .. m /\ Place(p, k) = k
          BY <1>1, <1>5, <4>2 DEF Place
        <5>2. QED
          BY <5>1
      <4>3. CASE ~ (k < p)
        <5>1. k > p /\ p <= L
          BY <1>1, <1>5, <4>1, <4>3
        <5>2. k - 1 \in 1 .. m /\ Place(p, k - 1) = k
          BY <1>1, <1>5, <5>1 DEF Place
        <5>3. QED
          BY <5>2
      <4>4. QED
        BY <4>2, <4>3
    <3>3. c[p] # sql
      BY <2>4, <3>1, <3>2
    <3>4. p = 1 /\ L = limit /\ \A h \in 1 .. L : c[h] # sql
      BY <1>4, <3>2, <3>3 DEF PrepareMakes
    <3>5. used[1] = i
      <4>1. used[1] \in 1 .. n - 1 /\ xs[used[1]] = xs[i] /\ 1 \in 1 .. L
        BY <1>7, <3>1, <3>2, <3>4
      <4>2. ~ (used[1] < i)
        <5>1. used[1] < i => i \in used[1] + 1 .. n - 1
          BY <1>1, <2>3, <4>1
        <5>2. \A j \in used[1] + 1 .. n - 1 : xs[j] # c[1]
          BY <1>7, <4>1
        <5>3. QED
          BY <3>1, <3>2, <3>4, <5>1, <5>2
      <4>3. ~ (i < used[1])
        <5>1. i < used[1] => used[1] \in i + 1 .. n - 1
          BY <1>1, <2>3, <4>1
        <5>2. QED
          BY <2>4, <4>1, <5>1
      <4>4. QED
        BY <2>3, <4>1, <4>2, <4>3
    <3>6. ASSUME NEW h \in 1 .. L PROVE c[h] \in RanFrom(xs, i, n)
      <4>1. used[h] \in 1 .. n - 1 /\ c[h] = xs[used[h]] /\ 1 \in 1 .. L
        BY <1>7, <3>2, <3>4
      <4>2. used[h] >= i
        <5>1. h = 1 \/ 1 < h
          BY <1>1
        <5>2. 1 < h => used[1] < used[h]
          BY <1>7, <4>1
        <5>3. QED
          BY <2>3, <3>5, <4>1, <5>1, <5>2
      <4>3. used[h] \in i .. n
        BY <1>1, <2>3, <4>1, <4>2
      <4>4. QED
        BY <4>1, <4>3 DEF RanFrom
    <3>7. sql \in RanFrom(xs, i, n)
      <4>1. n \in i .. n
        BY <1>1, <2>3
      <4>2. QED
        BY <4>1 DEF RanFrom, sql
    <3>8. IsFiniteSet(RanFrom(xs, i, n))
      BY <1>1, <2>3, RanFinite
    <3>9. Cardinality(RanFrom(xs, i, n)) > L
      BY <1>1, <1>3, <3>4, <3>6, <3>7, <3>8, FullAndOneMore
    <3>10. QED
      BY <3>4, <3>9
  <2>7. QED
    BY <2>5, <2>6
<1>11. QED
  BY <1>5, <1>9, <1>10 DEF Lru, d, sql

\* The Map of the adapter is a least-recently-used cache, however many
\* statements run in whatever order and whichever of them cannot be prepared:
\* it stays within its limit, and every statement that is among the limit's
\* number of different ones run last is there, in the order of these runs
\* (adapter/sqlite.ts:16).
THEOREM StatementsAreKept ==
  ASSUME NEW S, NEW statements \in Seq(S), NEW bad, NEW limit \in Nat \ {0}
  PROVE  RecentAreKept(statements, bad, limit)
<1> DEFINE N     == Len(statements)
           Good(c, n) == Lru(S, c, statements, n, bad, limit)
           Then(n, c) == Prepare(c, statements[n], bad, limit)
           Is(h) == h = [n \in 0 .. N |-> IF n = 0 THEN <<>>
                                          ELSE Prepare(h[n - 1], statements[n], bad, limit)]
           f     == CHOOSE h : Is(h)
           C     == {c \in Seq(S) : Len(c) <= limit /\ \A k, l \in 1 .. Len(c) : c[k] = c[l] => k = l}
           F     == [n \in 1 .. N |-> [c \in C |-> Then(n, c)]]
<1>1. /\ N \in Nat /\ \A n \in 1 .. N : statements[n] \in S
      /\ statements \in Seq(S) /\ limit \in Nat
  BY LenProperties, ElementOfSeq
<1>2. CacheAfter(statements, bad, limit) = f[N]
  BY DEF CacheAfter
<1>3. <<>> \in C /\ F \in [1 .. N -> [C -> C]]
  <2>1. <<>> \in C
    BY <1>1, EmptySeq
  <2>2. ASSUME NEW n \in 1 .. N, NEW c \in C PROVE Then(n, c) \in C
    <3> DEFINE sql == statements[n]
               d   == Prepare(c, sql, bad, limit)
    <3>1. /\ sql \in S /\ c \in Seq(S) /\ Len(c) \in Nat /\ Len(c) <= limit
          /\ \A k, l \in 1 .. Len(c) : c[k] = c[l] => k = l
      BY <1>1, LenProperties
    <3> HIDE DEF sql, C
    <3>2. PICK p, m, ends : PrepareMakes(S, c, d, sql, bad, limit, p, m, ends)
      BY <3>1, PrepareIs
    <3> HIDE DEF d
    <3>3. /\ d \in Seq(S) /\ Len(d) = (IF ends THEN m + 1 ELSE m) /\ Len(d) <= limit /\ ends \in BOOLEAN
          /\ p \in 1 .. Len(c) + 1 /\ m = IF p <= Len(c) THEN Len(c) - 1 ELSE Len(c)
          /\ \A k \in 1 .. m : d[k] = c[Place(p, k)] /\ d[k] # sql
          /\ ends => d[m + 1] = sql
      BY <3>2 DEF PrepareMakes
    <3>4. m \in Nat /\ \A k \in 1 .. m : Place(p, k) \in 1 .. Len(c)
      BY <3>1, <3>3 DEF Place
    <3>5. ASSUME NEW k \in 1 .. Len(d), NEW l \in 1 .. Len(d), d[k] = d[l] PROVE k = l
      <4>1. CASE k \in 1 .. m /\ l \in 1 .. m
        <5>1. Place(p, k) = Place(p, l)
          BY <3>1, <3>3, <3>4, <3>5, <4>1
        <5>2. QED
          BY <3>3, <4>1, <5>1 DEF Place
      <4>2. ASSUME NEW h \in 1 .. Len(d) PROVE h \in 1 .. m \/ (h = m + 1 /\ d[h] = sql)
        <5>1. m \in Nat /\ (Len(d) = m \/ (Len(d) = m + 1 /\ d[m + 1] = sql))
          BY <3>3, <3>4
        <5>2. h \in 1 .. m \/ (h = m + 1 /\ Len(d) = m + 1)
          BY <5>1
        <5>3. QED
          BY <5>1, <5>2
      <4>3. \A h \in 1 .. m : d[h] # sql
        BY <3>3
      <4>4. QED
        BY <3>5, <4>1, <4>2, <4>3
    <3>6. d \in C
      BY <3>3, <3>5 DEF C
    <3>7. QED
      BY <3>6 DEF d, sql
  <2> HIDE DEF C, Then
  <2>3. QED
    BY <2>1, <2>2
<1> HIDE DEF C, N
<1>4. PICK g : Iterates(g, N, <<>>, C, F)
  <2> HIDE DEF F
  <2>1. QED
    BY <1>1, <1>3, RecursionExists
<1>5. Is(g)
  <2>1. ASSUME NEW n \in 0 .. N PROVE g[n] = IF n = 0 THEN <<>> ELSE Then(n, g[n - 1])
    <3>1. CASE n = 0
      BY <1>4, <3>1 DEF Iterates
    <3>2. CASE n # 0
      <4>1. n \in 1 .. N /\ n - 1 \in 0 .. N /\ g[n - 1] \in C
        BY <1>1, <1>4, <3>2 DEF Iterates
      <4>2. QED
        BY <1>4, <3>2, <4>1 DEF Iterates
    <3>3. QED
      BY <3>1, <3>2
  <2>2. QED
    BY <1>4, <2>1 DEF Iterates
<1> HIDE DEF Is
<1>6. Is(f)
  BY <1>5, Zenon
<1> HIDE DEF f
<1> USE DEF Is
<1>7. f[0] = <<>> /\ \A n \in 1 .. N : f[n] = Then(n, f[n - 1])
  <2>1. 0 \in 0 .. N /\ \A n \in 1 .. N : n \in 0 .. N /\ n # 0
    BY <1>1
  <2>2. QED
    BY <1>6, <2>1
<1>8. Good(f[N], N)
  <2> DEFINE T == {n \in 0 .. N : Good(f[n], n)}
  <2>1. 0 \in T
    <3>1. <<>> \in Seq(S) /\ Len(<<>>) = 0 /\ 0 <= limit /\ 1 .. 0 = {}
      BY <1>1, EmptySeq
    <3>2. KeptBy(<<>>, <<>>, statements, 0)
      <4>1. <<>> \in [1 .. 0 -> 1 .. 0]
        BY EmptySeq, LenProperties
      <4>2. QED
        BY <3>1, <4>1 DEF KeptBy
    <3>3. Good(<<>>, 0)
      BY <3>1, <3>2 DEF Lru, EvictedByEnough
    <3>4. 0 \in 0 .. N
      BY <1>1
    <3>5. QED
      BY <1>7, <3>3, <3>4
  <2>2. ASSUME NEW n \in 1 .. N, n - 1 \in T PROVE n \in T
    <3>1. Good(f[n - 1], n - 1)
      BY <2>2
    <3>2. Good(Then(n, f[n - 1]), n)
      BY <1>1, <3>1, PrepareKeeps DEF N
    <3>3. n \in 0 .. N
      BY <1>1
    <3>4. QED
      BY <1>7, <3>2, <3>3
  <2> HIDE DEF T
  <2>3. \A n \in 0 .. N : n \in T
    BY <1>1, <2>1, <2>2, UpTo
  <2>4. N \in T
    BY <1>1, <2>3
  <2>5. QED
    BY <2>4 DEF T
<1> DEFINE c == f[N]
<1> HIDE DEF c
<1>9. /\ c \in Seq(S) /\ Len(c) \in Nat /\ Len(c) <= limit
      /\ EvictedByEnough(c, statements, N, bad, limit)
  BY <1>8, LenProperties DEF Lru, c
<1>10. PICK used : KeptBy(c, used, statements, N)
  BY <1>8 DEF Lru, c
<1>11. ASSUME NEW i \in Recent(statements, bad, limit)
       PROVE  /\ i \in 1 .. N /\ statements[i] \notin bad /\ \A j \in i + 1 .. N : statements[j] # statements[i]
              /\ Cardinality(RanFrom(statements, i, N)) <= limit
  BY DEF Recent, Since, RanFrom, N
<1>12. ASSUME NEW i \in Recent(statements, bad, limit)
       PROVE  \E k \in 1 .. Len(c) : c[k] = statements[i]
  <2>1. SUFFICES ASSUME \A k \in 1 .. Len(c) : c[k] # statements[i] PROVE FALSE
    OBVIOUS
  <2>2. Cardinality(RanFrom(statements, i, N)) > limit
    BY <1>9, <1>11, <2>1 DEF EvictedByEnough
  <2>3. Cardinality(RanFrom(statements, i, N)) \in Nat /\ Cardinality(RanFrom(statements, i, N)) <= limit
    BY <1>1, <1>11, RanFinite
  <2>4. QED
    BY <1>1, <2>2, <2>3
<1>13. ASSUME NEW i \in Recent(statements, bad, limit), NEW k \in 1 .. Len(c), c[k] = statements[i]
       PROVE  used[k] = i
  <2>1. /\ used[k] \in 1 .. N /\ statements[used[k]] = statements[i]
        /\ \A j \in used[k] + 1 .. N : statements[j] # statements[i]
    BY <1>10, <1>13 DEF KeptBy
  <2>2. i \in 1 .. N /\ \A j \in i + 1 .. N : statements[j] # statements[i]
    BY <1>11
  <2>3. used[k] < i => i \in used[k] + 1 .. N
    BY <1>1, <2>1, <2>2
  <2>4. i < used[k] => used[k] \in i + 1 .. N
    BY <1>1, <2>1, <2>2
  <2>5. QED
    BY <2>1, <2>2, <2>3, <2>4
<1>14. ASSUME NEW i \in Recent(statements, bad, limit), NEW j \in Recent(statements, bad, limit),
              NEW k \in 1 .. Len(c), NEW l \in 1 .. Len(c),
              i < j, c[k] = statements[i], c[l] = statements[j]
       PROVE  k < l
  <2>1. used[k] = i /\ used[l] = j /\ i \in 1 .. N /\ j \in 1 .. N
    BY <1>11, <1>13, <1>14
  <2>2. l < k => used[l] < used[k]
    BY <1>10 DEF KeptBy
  <2>3. QED
    BY <1>1, <1>9, <1>14, <2>1, <2>2
<1>15. QED
  BY <1>2, <1>9, <1>12, <1>14 DEF RecentAreKept, c

-----------------------------------------------------------------------------
(* The services of jobs and handlers *)

\* The first service of the key in the list.
FirstIs(services, key, s) ==
  \E i \in DOMAIN services :
    services[i] = s /\ KeyOf[s] = key /\ \A j \in 1 .. i - 1 : KeyOf[services[j]] # key

\* It is what FirstOf() gives, and there is one for every key of the list.
LEMMA FirstIsFirst ==
  ASSUME NEW S, NEW services \in Seq(S), NEW key, NEW s, FirstIs(services, key, s)
  PROVE  FirstOf(services, key) = s
<1> DEFINE P(i) == KeyOf[services[i]] = key /\ \A j \in 1 .. i - 1 : KeyOf[services[j]] # key
<1>1. DOMAIN services = 1 .. Len(services) /\ Len(services) \in Nat
  BY LenProperties
<1>2. PICK i \in DOMAIN services : services[i] = s /\ P(i)
  BY DEF FirstIs
<1>3. ASSUME NEW k \in DOMAIN services, P(k) PROVE k = i
  <2>1. CASE k < i
    <3>1. k \in 1 .. i - 1
      BY <1>1, <2>1
    <3>2. QED
      BY <1>2, <1>3, <3>1
  <2>2. CASE i < k
    <3>1. i \in 1 .. k - 1
      BY <1>1, <2>2
    <3>2. QED
      BY <1>2, <1>3, <3>1
  <2>3. QED
    BY <1>1, <2>1, <2>2
<1> HIDE DEF P
<1>4. (CHOOSE k \in DOMAIN services : P(k)) = i
  BY <1>2, <1>3
<1> USE DEF P
<1>5. QED
  BY <1>2, <1>4 DEF FirstOf

LEMMA FirstExists ==
  ASSUME NEW S, NEW services \in Seq(S), NEW key \in KeysIn(services)
  PROVE  \E s \in S : FirstIs(services, key, s)
<1>1. DOMAIN services = 1 .. Len(services) /\ Len(services) \in Nat
  BY LenProperties
<1> DEFINE I == {i \in DOMAIN services : KeyOf[services[i]] = key}
<1>2. I # {} /\ I \subseteq Nat
  BY <1>1 DEF KeysIn
<1> HIDE DEF I
<1>3. PICK i \in I : \A j \in I : ~ (<<j, i>> \in OpToRel(<, Nat))
  BY <1>2, NatLessThanWellFounded, WFMin, Zenon
<1>4. \A j \in I : ~ (j < i)
  BY <1>2, <1>3, Zenon DEF OpToRel
<1> USE DEF I
<1>5. i \in DOMAIN services /\ KeyOf[services[i]] = key /\ services[i] \in S
  BY <1>1, ElementOfSeq
<1>6. ASSUME NEW j \in 1 .. i - 1 PROVE KeyOf[services[j]] # key
  <2>1. j \in DOMAIN services /\ j < i
    BY <1>1, <1>5
  <2>2. QED
    BY <1>4, <2>1
<1>7. QED
  BY <1>5, <1>6 DEF FirstIs

\* A service put behind a list is the first of its key only if there was none.
LEMMA AppendedLast ==
  ASSUME NEW S, NEW services \in Seq(S), NEW t \in S
  PROVE  /\ \A key, s : FirstIs(services, key, s) => FirstIs(Append(services, t), key, s)
         /\ KeyOf[t] \notin KeysIn(services) => FirstIs(Append(services, t), KeyOf[t], t)
         /\ KeysIn(Append(services, t)) = KeysIn(services) \cup {KeyOf[t]}
<1> DEFINE longer == Append(services, t)
<1>1. /\ DOMAIN services = 1 .. Len(services) /\ Len(services) \in Nat
      /\ longer \in Seq(S) /\ DOMAIN longer = 1 .. Len(services) + 1
      /\ longer[Len(services) + 1] = t
      /\ \A i \in 1 .. Len(services) : longer[i] = services[i]
  BY AppendProperties, LenProperties
<1> HIDE DEF longer
<1>2. ASSUME NEW key, NEW s, FirstIs(services, key, s) PROVE FirstIs(longer, key, s)
  <2>1. PICK i \in DOMAIN services : services[i] = s /\ KeyOf[s] = key /\ \A j \in 1 .. i - 1 : KeyOf[services[j]] # key
    BY <1>2 DEF FirstIs
  <2>2. i \in DOMAIN longer /\ longer[i] = s
    BY <1>1, <2>1
  <2>3. ASSUME NEW j \in 1 .. i - 1 PROVE KeyOf[longer[j]] # key
    BY <1>1, <2>1
  <2>4. QED
    BY <2>1, <2>2, <2>3 DEF FirstIs
<1>3. ASSUME KeyOf[t] \notin KeysIn(services) PROVE FirstIs(longer, KeyOf[t], t)
  <2>1. Len(services) + 1 \in DOMAIN longer /\ Len(services) + 1 - 1 = Len(services)
    BY <1>1
  <2>2. ASSUME NEW j \in 1 .. Len(services) PROVE KeyOf[longer[j]] # KeyOf[t]
    BY <1>1, <1>3 DEF KeysIn
  <2>3. QED
    BY <1>1, <2>1, <2>2 DEF FirstIs
<1>4. KeysIn(longer) = KeysIn(services) \cup {KeyOf[t]}
  BY <1>1 DEF KeysIn
<1>5. QED
  BY <1>2, <1>3, <1>4 DEF longer

\* What a loop over more leaves, that puts a service behind those before it
\* when its key is new and may leave it out when it is not.
Merges(f, services, more) ==
  /\ f[0] = services
  /\ \A n \in 1 .. Len(more) :
       /\ f[n] = f[n - 1] \/ f[n] = Append(f[n - 1], more[n])
       /\ KeyOf[more[n]] \notin KeysIn(f[n - 1]) => f[n] = Append(f[n - 1], more[n])

\* The list it started from comes first; of the other keys, the first is the
\* first of the loop's.
LEMMA MergeKeepsFirst ==
  ASSUME NEW S, NEW services \in Seq(S), NEW more \in Seq(S), NEW f \in [0 .. Len(more) -> Seq(S)],
         Merges(f, services, more)
  PROVE  LET merged == f[Len(more)]
         IN /\ \A key, s : FirstIs(services, key, s) => FirstIs(merged, key, s)
            /\ \A key, s : key \notin KeysIn(services) /\ FirstIs(more, key, s) => FirstIs(merged, key, s)
<1> DEFINE Holds(n) ==
             /\ \A key, s : FirstIs(services, key, s) => FirstIs(f[n], key, s)
             /\ \A i \in 1 .. n : /\ KeyOf[more[i]] \notin KeysIn(services)
                                  /\ \A j \in 1 .. i - 1 : KeyOf[more[j]] # KeyOf[more[i]]
                                  => FirstIs(f[n], KeyOf[more[i]], more[i])
             /\ KeysIn(f[n]) \subseteq KeysIn(services) \cup {KeyOf[more[i]] : i \in 1 .. n}
           T == {n \in 0 .. Len(more) : Holds(n)}
<1>1. /\ DOMAIN more = 1 .. Len(more) /\ Len(more) \in Nat
      /\ \A n \in 1 .. Len(more) : more[n] \in S
  BY LenProperties, ElementOfSeq
<1> HIDE DEF T, Holds
<1>2. 0 \in T
  <2>1. f[0] = services
    BY DEF Merges
  <2>2. Holds(0)
    BY <2>1 DEF Holds
  <2>3. QED
    BY <1>1, <2>2 DEF T
<1>3. ASSUME NEW n \in 1 .. Len(more), n - 1 \in T PROVE n \in T
  <2>1. /\ n - 1 \in 0 .. Len(more) /\ n - 1 < n /\ n \in 1 .. Len(more)
        /\ n \in Nat /\ 1 .. n = (1 .. n - 1) \cup {n}
    BY <1>1
  <2>2. Holds(n - 1)
    BY <1>3 DEF T
  <2>3. /\ f[n - 1] \in Seq(S) /\ more[n] \in S
        /\ f[n] = f[n - 1] \/ f[n] = Append(f[n - 1], more[n])
        /\ KeyOf[more[n]] \notin KeysIn(f[n - 1]) => f[n] = Append(f[n - 1], more[n])
    BY <1>1, <2>1 DEF Merges
  <2> DEFINE last == f[n - 1]
             next == f[n]
             t    == more[n]
  <2>4. /\ last \in Seq(S) /\ t \in S /\ (next = last \/ next = Append(last, t))
        /\ KeyOf[t] \notin KeysIn(last) => next = Append(last, t)
    BY <2>3
  <2> HIDE DEF last, next, t
  <2>5. /\ \A key, s : FirstIs(last, key, s) => FirstIs(next, key, s)
        /\ KeysIn(next) \subseteq KeysIn(last) \cup {KeyOf[t]}
        /\ KeyOf[t] \notin KeysIn(last) => FirstIs(next, KeyOf[t], t)
    <3>1. /\ \A key, s : FirstIs(last, key, s) => FirstIs(Append(last, t), key, s)
          /\ KeyOf[t] \notin KeysIn(last) => FirstIs(Append(last, t), KeyOf[t], t)
          /\ KeysIn(Append(last, t)) = KeysIn(last) \cup {KeyOf[t]}
      BY <2>4, AppendedLast
    <3>2. QED
      BY <2>4, <3>1
  <2> USE DEF last, next, t
  <2>6. \A key, s : FirstIs(f[n - 1], key, s) => FirstIs(f[n], key, s)
    BY <2>5
  <2>7. \A key, s : FirstIs(services, key, s) => FirstIs(f[n], key, s)
    BY <2>2, <2>6 DEF Holds
  <2>8. ASSUME NEW i \in 1 .. n, KeyOf[more[i]] \notin KeysIn(services),
               \A j \in 1 .. i - 1 : KeyOf[more[j]] # KeyOf[more[i]]
        PROVE  FirstIs(f[n], KeyOf[more[i]], more[i])
    <3>1. CASE i # n
      <4>1. i \in 1 .. n - 1
        BY <2>1, <3>1
      <4>2. FirstIs(f[n - 1], KeyOf[more[i]], more[i])
        BY <2>2, <2>8, <4>1 DEF Holds
      <4>3. QED
        BY <2>6, <4>2
    <3>2. CASE i = n
      <4>1. KeyOf[more[n]] \notin KeysIn(f[n - 1])
        BY <2>2, <2>8, <3>2 DEF Holds
      <4>2. QED
        BY <2>5, <3>2, <4>1
    <3>3. QED
      BY <3>1, <3>2
  <2>9. KeysIn(f[n]) \subseteq KeysIn(services) \cup {KeyOf[more[i]] : i \in 1 .. n}
    BY <2>1, <2>2, <2>5 DEF Holds
  <2>10. Holds(n)
    BY <2>7, <2>8, <2>9 DEF Holds
  <2>11. QED
    BY <1>1, <2>10 DEF T
<1>4. \A n \in 0 .. Len(more) : n \in T
  BY <1>1, <1>2, <1>3, UpTo
<1>5. Holds(Len(more))
  BY <1>1, <1>4 DEF T
<1>6. ASSUME NEW key, NEW s, key \notin KeysIn(services), FirstIs(more, key, s)
      PROVE  FirstIs(f[Len(more)], key, s)
  <2>1. PICK i \in 1 .. Len(more) : more[i] = s /\ KeyOf[s] = key /\ \A j \in 1 .. i - 1 : KeyOf[more[j]] # key
    BY <1>1, <1>6 DEF FirstIs
  <2>2. QED
    BY <1>5, <1>6, <2>1 DEF Holds
<1>7. QED
  BY <1>5, <1>6 DEF Holds

\* A job has its own services first, and of the other keys the first of its
\* module.
LEMMA JobServicesMerge ==
  ASSUME NEW S, NEW job, NEW module, job.services \in Seq(S), module.services \in Seq(S)
  PROVE  LET merged == JobServices(job, module)
         IN /\ merged \in Seq(S)
            /\ \A key, s : FirstIs(job.services, key, s) => FirstIs(merged, key, s)
            /\ \A key, s : key \notin KeysIn(job.services) /\ FirstIs(module.services, key, s)
                              => FirstIs(merged, key, s)
<1> DEFINE own        == job.services
           more       == module.services
           N          == Len(more)
           Lists      == {s \in Seq(S) : KeysIn(own) \subseteq KeysIn(s)}
           Then(n, s) == IF KeyOf[more[n]] \in KeysIn(own) THEN s ELSE Append(s, more[n])
           Is(h)      == h = [n \in 0 .. N |-> IF n = 0 THEN own
                                               ELSE IF KeyOf[more[n]] \in KeysIn(own) THEN h[n - 1]
                                               ELSE Append(h[n - 1], more[n])]
           f          == CHOOSE h : Is(h)
           F          == [n \in 1 .. N |-> [s \in Lists |-> Then(n, s)]]
<1>1. /\ own \in Seq(S) /\ more \in Seq(S) /\ N \in Nat
      /\ \A n \in 1 .. N : more[n] \in S
  BY LenProperties, ElementOfSeq
<1>2. JobServices(job, module) = f[N]
  BY DEF JobServices
<1> HIDE DEF own, more, N
<1>3. own \in Lists /\ F \in [1 .. N -> [Lists -> Lists]]
  <2>1. ASSUME NEW n \in 1 .. N, NEW s \in Lists PROVE Then(n, s) \in Lists
    <3> DEFINE t == more[n]
    <3>1. s \in Seq(S) /\ t \in S
      BY <1>1
    <3> HIDE DEF t
    <3>2. Append(s, t) \in Seq(S) /\ KeysIn(Append(s, t)) = KeysIn(s) \cup {KeyOf[t]}
      BY <3>1, AppendedLast, AppendProperties
    <3>3. Append(s, t) \in Lists
      BY <3>2
    <3>4. QED
      BY <3>3 DEF t
  <2>2. QED
    BY <1>1, <2>1
<1>4. PICK g : Iterates(g, N, own, Lists, F)
  <2> HIDE DEF F, Lists
  <2>1. QED
    BY <1>1, <1>3, RecursionExists
<1> HIDE DEF Lists
<1>5. Is(g)
  <2>1. ASSUME NEW n \in 0 .. N PROVE g[n] = IF n = 0 THEN own ELSE Then(n, g[n - 1])
    <3>1. CASE n = 0
      BY <1>4, <3>1 DEF Iterates
    <3>2. CASE n # 0
      <4>1. n \in 1 .. N /\ n - 1 \in 0 .. N /\ g[n - 1] \in Lists
        BY <1>1, <1>4, <3>2 DEF Iterates
      <4>2. QED
        BY <1>4, <3>2, <4>1 DEF Iterates
    <3>3. QED
      BY <3>1, <3>2
  <2>2. QED
    BY <1>4, <2>1 DEF Iterates
<1> HIDE DEF Is
<1>6. Is(f)
  BY <1>5, Zenon
<1> HIDE DEF f
<1> USE DEF Is
<1>7. /\ f[0] = own /\ f = [n \in 0 .. N |-> f[n]]
      /\ \A n \in 1 .. N : f[n] = Then(n, f[n - 1])
  <2>1. 0 \in 0 .. N /\ \A n \in 1 .. N : n \in 0 .. N /\ n # 0
    BY <1>1
  <2>2. QED
    BY <1>6, <2>1
<1>8. Iterates(f, N, own, Lists, F)
  <2>1. \A n \in 1 .. N : f[n - 1] \in Lists => f[n] = F[n][f[n - 1]]
    BY <1>7
  <2> HIDE DEF F
  <2>2. QED
    BY <1>1, <1>3, <1>7, <2>1, IteratesFrom
<1> USE DEF Lists
<1>9. f \in [0 .. N -> Seq(S)]
  BY <1>8 DEF Iterates
<1>10. Merges(f, own, more)
  <2>1. ASSUME NEW n \in 1 .. N
        PROVE  /\ f[n] = f[n - 1] \/ f[n] = Append(f[n - 1], more[n])
               /\ KeyOf[more[n]] \notin KeysIn(f[n - 1]) => f[n] = Append(f[n - 1], more[n])
    <3>1. n - 1 \in 0 .. N
      BY <1>1
    <3>2. f[n - 1] \in Lists
      BY <1>8, <3>1 DEF Iterates
    <3>3. QED
      BY <1>7, <3>2
  <2>2. QED
    BY <1>7, <2>1 DEF Merges, N
<1>11. f[N] \in Seq(S)
  BY <1>1, <1>9
<1>12. /\ \A key, s : FirstIs(own, key, s) => FirstIs(f[N], key, s)
       /\ \A key, s : key \notin KeysIn(own) /\ FirstIs(more, key, s) => FirstIs(f[N], key, s)
  BY <1>1, <1>9, <1>10, MergeKeepsFirst DEF N
<1>13. QED
  BY <1>2, <1>11, <1>12 DEF own, more

\* The services a module and the application declare, in that order.
Declared(module) == (IF module = None THEN <<>> ELSE Modules[module].services) \o app.services

\* A handler has the first of each key.
LEMMA AllServicesMerge ==
  ASSUME NEW S, NEW module, Declared(module) \in Seq(S)
  PROVE  /\ AllServices(module) \in Seq(S)
         /\ \A key, s : FirstIs(Declared(module), key, s) => FirstIs(AllServices(module), key, s)
<1> DEFINE own        == <<>>
           more       == Declared(module)
           N          == Len(more)
           Lists      == Seq(S)
           Then(n, s) == IF KeyOf[more[n]] \in KeysIn(s) THEN s ELSE Append(s, more[n])
           Is(h)      == h = [n \in 0 .. N |-> IF n = 0 THEN own
                                               ELSE IF KeyOf[more[n]] \in KeysIn(h[n - 1]) THEN h[n - 1]
                                               ELSE Append(h[n - 1], more[n])]
           f          == CHOOSE h : Is(h)
           F          == [n \in 1 .. N |-> [s \in Lists |-> Then(n, s)]]
<1>1. /\ own \in Seq(S) /\ more \in Seq(S) /\ N \in Nat
      /\ \A n \in 1 .. N : more[n] \in S
  BY LenProperties, ElementOfSeq
<1>2. AllServices(module) = f[N]
  BY DEF AllServices, Declared
<1> HIDE DEF own, more, N
<1>3. own \in Lists /\ F \in [1 .. N -> [Lists -> Lists]]
  <2>1. ASSUME NEW n \in 1 .. N, NEW s \in Lists PROVE Then(n, s) \in Lists
    <3> DEFINE t == more[n]
    <3>1. s \in Seq(S) /\ t \in S
      BY <1>1
    <3> HIDE DEF t
    <3>2. Append(s, t) \in Seq(S) /\ KeysIn(Append(s, t)) = KeysIn(s) \cup {KeyOf[t]}
      BY <3>1, AppendedLast, AppendProperties
    <3>3. Append(s, t) \in Lists
      BY <3>2
    <3>4. QED
      BY <3>3 DEF t
  <2>2. QED
    BY <1>1, <2>1
<1>4. PICK g : Iterates(g, N, own, Lists, F)
  <2> HIDE DEF F, Lists
  <2>1. QED
    BY <1>1, <1>3, RecursionExists
<1> HIDE DEF Lists
<1>5. Is(g)
  <2>1. ASSUME NEW n \in 0 .. N PROVE g[n] = IF n = 0 THEN own ELSE Then(n, g[n - 1])
    <3>1. CASE n = 0
      BY <1>4, <3>1 DEF Iterates
    <3>2. CASE n # 0
      <4>1. n \in 1 .. N /\ n - 1 \in 0 .. N /\ g[n - 1] \in Lists
        BY <1>1, <1>4, <3>2 DEF Iterates
      <4>2. QED
        BY <1>4, <3>2, <4>1 DEF Iterates
    <3>3. QED
      BY <3>1, <3>2
  <2>2. QED
    BY <1>4, <2>1 DEF Iterates
<1> HIDE DEF Is
<1>6. Is(f)
  BY <1>5, Zenon
<1> HIDE DEF f
<1> USE DEF Is
<1>7. /\ f[0] = own /\ f = [n \in 0 .. N |-> f[n]]
      /\ \A n \in 1 .. N : f[n] = Then(n, f[n - 1])
  <2>1. 0 \in 0 .. N /\ \A n \in 1 .. N : n \in 0 .. N /\ n # 0
    BY <1>1
  <2>2. QED
    BY <1>6, <2>1
<1>8. Iterates(f, N, own, Lists, F)
  <2>1. \A n \in 1 .. N : f[n - 1] \in Lists => f[n] = F[n][f[n - 1]]
    BY <1>7
  <2> HIDE DEF F
  <2>2. QED
    BY <1>1, <1>3, <1>7, <2>1, IteratesFrom
<1> USE DEF Lists
<1>9. f \in [0 .. N -> Seq(S)]
  BY <1>8 DEF Iterates
<1>10. Merges(f, own, more)
  <2>1. ASSUME NEW n \in 1 .. N
        PROVE  /\ f[n] = f[n - 1] \/ f[n] = Append(f[n - 1], more[n])
               /\ KeyOf[more[n]] \notin KeysIn(f[n - 1]) => f[n] = Append(f[n - 1], more[n])
    <3>1. n - 1 \in 0 .. N
      BY <1>1
    <3>2. f[n - 1] \in Lists
      BY <1>8, <3>1 DEF Iterates
    <3>3. QED
      BY <1>7, <3>2
  <2>2. QED
    BY <1>7, <2>1 DEF Merges, N
<1>11. f[N] \in Seq(S)
  BY <1>1, <1>9
<1>12. /\ \A key, s : FirstIs(own, key, s) => FirstIs(f[N], key, s)
       /\ \A key, s : key \notin KeysIn(own) /\ FirstIs(more, key, s) => FirstIs(f[N], key, s)
  BY <1>1, <1>9, <1>10, MergeKeepsFirst DEF N
<1>13. QED
  BY <1>2, <1>11, <1>12 DEF own, more, KeysIn

-----------------------------------------------------------------------------
(* What register() and a plugin's names make of an application *)

Jobs(m) ==
  LET module == Modules[m]
  IN [i \in DOMAIN module.crons |->
        [name |-> module.crons[i].name, module |-> m, services |-> JobServices(module.crons[i], module)]]

\* What a module puts into the lists of the application.
LEMMA ModuleParts ==
  ASSUME NEW m \in DOMAIN Modules
  PROVE  /\ Mounted(m) \in Seq(AppRoute) /\ Len(Mounted(m)) = Len(Modules[m].routes)
         /\ SocketPaths(m) \subseteq WsPaths
         /\ Jobs(m) \in Seq(AppJob) /\ Len(Jobs(m)) = Len(Modules[m].crons)
         /\ Modules[m].hooks \in Seq(UNION {ToSet(Modules[n].hooks) : n \in DOMAIN Modules})
         /\ Modules[m].audits \in Seq(UNION {ToSet(Modules[n].audits) : n \in DOMAIN Modules})
         /\ Modules[m].events \in Seq(UNION {ToSet(Modules[n].events) : n \in DOMAIN Modules})
<1> DEFINE module == Modules[m]
<1>1. /\ List(module.routes) /\ List(module.hooks)
      /\ List(module.audits) /\ List(module.events) /\ List(module.crons)
      /\ module.services \in Seq(DOMAIN KeyOf)
      /\ \A job \in ToSet(module.crons) : job.services \in Seq(DOMAIN KeyOf)
  BY RegistrationAssumption
<1> HIDE DEF module
<1>2. ASSUME NEW s, List(s), NEW S, ToSet(s) \subseteq S
      PROVE  /\ Len(s) \in Nat /\ DOMAIN s = 1 .. Len(s) /\ s \in Seq(S)
             /\ \A i \in DOMAIN s : s[i] \in ToSet(s)
  <2>1. s \in Seq(ToSet(s))
    BY <1>2 DEF List
  <2>2. Len(s) \in Nat /\ DOMAIN s = 1 .. Len(s)
    BY <2>1
  <2>3. \A i \in DOMAIN s : s[i] \in ToSet(s)
    BY DEF ToSet
  <2>4. QED
    BY <1>2, <2>1, <2>2, <2>3
<1>3. /\ Len(module.routes) \in Nat /\ DOMAIN module.routes = 1 .. Len(module.routes)
      /\ \A i \in DOMAIN module.routes : module.routes[i] \in ToSet(module.routes)
  BY <1>1, <1>2
<1>5. /\ Len(module.crons) \in Nat /\ DOMAIN module.crons = 1 .. Len(module.crons)
      /\ \A i \in DOMAIN module.crons : module.crons[i] \in ToSet(module.crons)
  BY <1>1, <1>2
<1>6. Mounted(m) \in Seq(AppRoute) /\ Len(Mounted(m)) = Len(module.routes)
  <2>1. ASSUME NEW i \in DOMAIN module.routes
        PROVE  [method |-> module.routes[i].method, path |-> <<module.prefix, module.routes[i].path>>,
                guards |-> module.routes[i].guards, optOut |-> module.routes[i].optOut, module |-> m, plugin |-> None]
                 \in AppRoute
    <3>1. module.routes[i] \in RouteDecls
      BY <1>3 DEF RouteDecls, module
    <3>2. <<module.prefix, module.routes[i].path>> \in Prefixed(m, {r.path : r \in RouteDecls})
      BY <3>1 DEF Prefixed, module
    <3>3. m \in Owners
      BY DEF Owners
    <3>4. QED
      BY <3>1, <3>2, <3>3 DEF AppRoute
  <2>2. Mounted(m) \in [1 .. Len(module.routes) -> AppRoute]
    BY <1>3, <2>1 DEF Mounted, module
  <2>3. QED
    BY <1>3, <2>2
<1>7. SocketPaths(m) \subseteq WsPaths
  BY DEF WsPaths
<1>8. Jobs(m) \in Seq(AppJob) /\ Len(Jobs(m)) = Len(module.crons)
  <2>1. ASSUME NEW i \in DOMAIN module.crons
        PROVE  [name |-> module.crons[i].name, module |-> m, services |-> JobServices(module.crons[i], module)]
                 \in AppJob
    <3>1. module.crons[i] \in ToSet(Modules[m].crons)
      BY <1>5 DEF module
    <3>2. JobServices(module.crons[i], module) \in Seq(DOMAIN KeyOf)
      BY <1>1, <1>5, JobServicesMerge
    <3>3. m \in Owners
      BY DEF Owners
    <3>4. QED
      BY <3>1, <3>2, <3>3 DEF AppJob
  <2>2. Jobs(m) \in [1 .. Len(module.crons) -> AppJob]
    BY <1>5, <2>1 DEF Jobs, module
  <2>3. QED
    BY <1>5, <2>2
<1>9. /\ module.hooks \in Seq(UNION {ToSet(Modules[n].hooks) : n \in DOMAIN Modules})
      /\ module.audits \in Seq(UNION {ToSet(Modules[n].audits) : n \in DOMAIN Modules})
      /\ module.events \in Seq(UNION {ToSet(Modules[n].events) : n \in DOMAIN Modules})
  <2>1. /\ ToSet(module.hooks) \subseteq UNION {ToSet(Modules[n].hooks) : n \in DOMAIN Modules}
        /\ ToSet(module.audits) \subseteq UNION {ToSet(Modules[n].audits) : n \in DOMAIN Modules}
        /\ ToSet(module.events) \subseteq UNION {ToSet(Modules[n].events) : n \in DOMAIN Modules}
    BY DEF module
  <2>2. QED
    BY <1>1, <1>2, <2>1
<1>10. QED
  BY <1>6, <1>7, <1>8, <1>9 DEF module

\* registerRoute() of the adapter: the paths of the module are its own then.
Takes(r, s, paths, owner) ==
  /\ r \in AppSockets /\ DOMAIN r = DOMAIN s \cup paths
  /\ \A path \in DOMAIN s \cup paths : r[path] = IF path \in paths THEN owner ELSE s[path]

LEMMA RoutesRegistered ==
  ASSUME NEW s \in AppSockets, NEW paths \in SUBSET WsPaths, NEW owner \in Owners
  PROVE  Takes(RegisterRoutes(s, paths, owner), s, paths, owner)
<1> DEFINE r == RegisterRoutes(s, paths, owner)
<1>1. PICK D \in SUBSET WsPaths : s \in [D -> Owners]
  BY DEF AppSockets
<1>2. /\ DOMAIN r = D \cup paths /\ r = [path \in D \cup paths |-> r[path]]
      /\ \A path \in D \cup paths : r[path] = IF path \in paths THEN owner ELSE s[path]
  BY <1>1 DEF RegisterRoutes
<1>3. \A path \in D \cup paths : r[path] \in Owners
  BY <1>1, <1>2
<1> HIDE DEF r
<1>4. r \in [D \cup paths -> Owners] /\ D \cup paths \in SUBSET WsPaths
  BY <1>2, <1>3
<1>5. r \in AppSockets
  BY <1>4 DEF AppSockets
<1>6. QED
  BY <1>1, <1>2, <1>5 DEF r, Takes

LEMMA ModuleSockets ==
  ASSUME NEW s \in AppSockets, NEW m \in DOMAIN Modules
  PROVE  Takes(RegisterRoutes(s, SocketPaths(m), m), s, SocketPaths(m), m)
<1>1. SocketPaths(m) \in SUBSET WsPaths /\ m \in Owners
  BY DEF WsPaths, Owners
<1>2. QED
  BY <1>1, RoutesRegistered

\* register() puts the parts of the module behind what there is.
LEMMA RegisteredFields ==
  ASSUME NEW a \in Apps, NEW m \in DOMAIN Modules
  PROVE  LET b == Registered(a, m)
         IN /\ b \in Apps
            /\ b.plugins = a.plugins /\ b.services = a.services /\ b.wsAdapter = a.wsAdapter
            /\ b.modules = Append(a.modules, m)
            /\ b.routes = a.routes \o Mounted(m)
            /\ b.wsRoutes = IF a.wsAdapter THEN RegisterRoutes(a.wsRoutes, SocketPaths(m), m) ELSE a.wsRoutes
            /\ b.crons = a.crons \o Jobs(m)
<1> DEFINE b == Registered(a, m)
<1>1. b = [a EXCEPT !.modules  = Append(@, m),
                    !.hooks    = @ \o Modules[m].hooks,
                    !.audits   = @ \o Modules[m].audits,
                    !.routes   = @ \o Mounted(m),
                    !.wsRoutes = IF a.wsAdapter THEN RegisterRoutes(@, SocketPaths(m), m) ELSE @,
                    !.bus      = @ \o Modules[m].events,
                    !.crons    = @ \o Jobs(m)]
  BY DEF Registered, Jobs
<1>2. /\ a.plugins \in Seq(DOMAIN Plugins) /\ a.modules \in Seq(DOMAIN Modules) /\ a.routes \in Seq(AppRoute)
      /\ a.wsRoutes \in AppSockets /\ a.wsAdapter \in BOOLEAN
      /\ a.hooks \in Seq(UNION {ToSet(Modules[n].hooks) : n \in DOMAIN Modules})
      /\ a.audits \in Seq(UNION {ToSet(Modules[n].audits) : n \in DOMAIN Modules})
      /\ a.services \in Seq(Services)
      /\ a.bus \in Seq(UNION {ToSet(Modules[n].events) : n \in DOMAIN Modules})
      /\ a.crons \in Seq(AppJob)
  BY DEF Apps
<1> HIDE DEF b
<1>3. /\ b.plugins = a.plugins /\ b.services = a.services /\ b.wsAdapter = a.wsAdapter
      /\ b.modules = Append(a.modules, m)
      /\ b.routes = a.routes \o Mounted(m)
      /\ b.wsRoutes = IF a.wsAdapter THEN RegisterRoutes(a.wsRoutes, SocketPaths(m), m) ELSE a.wsRoutes
      /\ b.crons = a.crons \o Jobs(m)
      /\ b.hooks = a.hooks \o Modules[m].hooks /\ b.audits = a.audits \o Modules[m].audits
      /\ b.bus = a.bus \o Modules[m].events
  BY <1>1 DEF Apps
<1>4. b = [plugins |-> b.plugins, modules |-> b.modules, routes |-> b.routes, wsRoutes |-> b.wsRoutes,
           wsAdapter |-> b.wsAdapter, hooks |-> b.hooks, audits |-> b.audits, services |-> b.services,
           bus |-> b.bus, crons |-> b.crons]
  BY <1>1 DEF Apps
<1>5. /\ b.modules \in Seq(DOMAIN Modules) /\ b.routes \in Seq(AppRoute) /\ b.wsRoutes \in AppSockets
      /\ b.hooks \in Seq(UNION {ToSet(Modules[n].hooks) : n \in DOMAIN Modules})
      /\ b.audits \in Seq(UNION {ToSet(Modules[n].audits) : n \in DOMAIN Modules})
      /\ b.bus \in Seq(UNION {ToSet(Modules[n].events) : n \in DOMAIN Modules})
      /\ b.crons \in Seq(AppJob)
  <2>1. /\ Mounted(m) \in Seq(AppRoute) /\ Jobs(m) \in Seq(AppJob)
        /\ Modules[m].hooks \in Seq(UNION {ToSet(Modules[n].hooks) : n \in DOMAIN Modules})
        /\ Modules[m].audits \in Seq(UNION {ToSet(Modules[n].audits) : n \in DOMAIN Modules})
        /\ Modules[m].events \in Seq(UNION {ToSet(Modules[n].events) : n \in DOMAIN Modules})
    BY ModuleParts
  <2>2. b.modules \in Seq(DOMAIN Modules)
    BY <1>2, <1>3
  <2>3. b.routes \in Seq(AppRoute)
    BY <1>2, <1>3, <2>1
  <2>4. b.wsRoutes \in AppSockets
    <3>1. a.wsRoutes \in AppSockets /\ b.wsRoutes \in {a.wsRoutes, RegisterRoutes(a.wsRoutes, SocketPaths(m), m)}
      BY <1>2, <1>3
    <3>2. Takes(RegisterRoutes(a.wsRoutes, SocketPaths(m), m), a.wsRoutes, SocketPaths(m), m)
      BY <3>1, ModuleSockets
    <3>3. QED
      BY <3>1, <3>2 DEF Takes
  <2>5. b.crons \in Seq(AppJob)
    BY <1>2, <1>3, <2>1
  <2> DEFINE Hooks  == UNION {ToSet(Modules[n].hooks) : n \in DOMAIN Modules}
             Audits == UNION {ToSet(Modules[n].audits) : n \in DOMAIN Modules}
             Events == UNION {ToSet(Modules[n].events) : n \in DOMAIN Modules}
  <2>6. /\ a.hooks \in Seq(Hooks) /\ a.audits \in Seq(Audits) /\ a.bus \in Seq(Events)
        /\ Modules[m].hooks \in Seq(Hooks) /\ Modules[m].audits \in Seq(Audits) /\ Modules[m].events \in Seq(Events)
    BY <1>2, <2>1
  <2> HIDE DEF Hooks, Audits, Events
  <2>7. b.hooks \in Seq(Hooks) /\ b.audits \in Seq(Audits) /\ b.bus \in Seq(Events)
    BY <1>3, <2>6
  <2>8. QED
    BY <2>2, <2>3, <2>4, <2>5, <2>7 DEF Hooks, Audits, Events
<1>6. b \in Apps
  BY <1>2, <1>3, <1>4, <1>5 DEF Apps
<1>7. QED
  BY <1>3, <1>6 DEF b

\* A plugin's name changes nothing of an application but names of routes
\* that have none.
LEMMA TaggedFields ==
  ASSUME NEW a \in Apps, NEW p \in DOMAIN Plugins, NEW m \in DOMAIN Modules
  PROVE  LET b == Tagged(a, p, m)
         IN /\ b \in Apps
            /\ b.plugins = a.plugins /\ b.services = a.services /\ b.wsAdapter = a.wsAdapter
            /\ b.modules = a.modules /\ b.wsRoutes = a.wsRoutes /\ b.crons = a.crons
            /\ DOMAIN b.routes = DOMAIN a.routes
            /\ \A i \in DOMAIN a.routes :
                 /\ b.routes[i].method = a.routes[i].method /\ b.routes[i].path = a.routes[i].path
                 /\ b.routes[i].module = a.routes[i].module
                 /\ b.routes[i].plugin = IF Plugins[p].gated /\ a.routes[i].module = m /\ a.routes[i].plugin = None
                                         THEN Plugins[p].name ELSE a.routes[i].plugin
<1> DEFINE b == Tagged(a, p, m)
           name == Plugins[p].name
           tagged == [i \in DOMAIN a.routes |->
                        IF a.routes[i].module = m /\ a.routes[i].plugin = None
                        THEN [a.routes[i] EXCEPT !.plugin = name] ELSE a.routes[i]]
<1>1. CASE ~ Plugins[p].gated
  BY <1>1 DEF Tagged
<1>2. CASE Plugins[p].gated
  <2>1. b = [a EXCEPT !.routes = tagged]
    BY <1>2 DEF Tagged, Apps
  <2>2. a.routes \in Seq(AppRoute) /\ name \in {Plugins[q].name : q \in DOMAIN Plugins} \cup {None}
    BY DEF Apps
  <2>3. DOMAIN a.routes = 1 .. Len(a.routes) /\ Len(a.routes) \in Nat
        /\ \A i \in DOMAIN a.routes : a.routes[i] \in AppRoute
    BY <2>2
  <2> HIDE DEF name
  <2>4. ASSUME NEW i \in DOMAIN a.routes
        PROVE  /\ tagged[i] \in AppRoute
               /\ tagged[i].method = a.routes[i].method /\ tagged[i].path = a.routes[i].path
               /\ tagged[i].module = a.routes[i].module
               /\ tagged[i].plugin = IF a.routes[i].module = m /\ a.routes[i].plugin = None
                                     THEN name ELSE a.routes[i].plugin
    <3>1. a.routes[i] \in AppRoute
      BY <2>3
    <3> DEFINE r == a.routes[i]
    <3>2. tagged[i] = IF r.module = m /\ r.plugin = None THEN [r EXCEPT !.plugin = name] ELSE r
      OBVIOUS
    <3>3. r \in AppRoute
      BY <3>1
    <3> HIDE DEF r, tagged
    <3>4. /\ [r EXCEPT !.plugin = name] \in AppRoute
          /\ [r EXCEPT !.plugin = name].method = r.method /\ [r EXCEPT !.plugin = name].path = r.path
          /\ [r EXCEPT !.plugin = name].module = r.module /\ [r EXCEPT !.plugin = name].plugin = name
      BY <2>2, <3>3 DEF AppRoute
    <3>5. QED
      BY <3>2, <3>3, <3>4 DEF r
  <2>5. tagged \in Seq(AppRoute) /\ DOMAIN tagged = DOMAIN a.routes
    <3>1. tagged \in [1 .. Len(a.routes) -> AppRoute]
      BY <2>3, <2>4
    <3>2. QED
      BY <2>3, <3>1
  <2> HIDE DEF tagged, b
  <2>6. /\ b \in Apps /\ b.routes = tagged
        /\ b.plugins = a.plugins /\ b.services = a.services /\ b.wsAdapter = a.wsAdapter
        /\ b.modules = a.modules /\ b.wsRoutes = a.wsRoutes /\ b.crons = a.crons
    BY <2>1, <2>5 DEF Apps
  <2>7. QED
    BY <1>2, <2>4, <2>5, <2>6 DEF b, name
<1>3. QED
  BY <1>1, <1>2

-----------------------------------------------------------------------------
(* The wiring of an application *)

\* Modules a gated plugin of the application contributes.
Contributes(p, m) == Plugins[p].gated /\ m \in ToSet(Plugins[p].modules)
Contributors(a)   == {m \in DOMAIN Modules : \E p \in ToSet(a.plugins) : Contributes(p, m)}

Owned(a) ==
  /\ \A i \in DOMAIN a.routes : a.routes[i].module \in ToSet(a.modules) \cup {None}
  /\ \A path \in DOMAIN a.wsRoutes : a.wsRoutes[path] \in ToSet(a.modules) \cup {None}
  /\ \A i \in DOMAIN a.crons : a.crons[i].module \in ToSet(a.modules) \cup {None}

\* A name on a route is that of a plugin that contributes its module.
NamesExplained(table, plugins) ==
  \A i \in DOMAIN table :
    table[i].plugin # None =>
      \E p \in ToSet(plugins) : Contributes(p, table[i].module) /\ Plugins[p].name = table[i].plugin

\* A route of these modules without a name stands behind the same one with a
\* name, and every route they declare is there with a name.
Shadowed(table, ms) ==
  \A i \in DOMAIN table :
    table[i].plugin = None /\ table[i].module \in ms =>
      \E j \in DOMAIN table :
        /\ j < i /\ table[j].plugin # None /\ table[j].module = table[i].module
        /\ table[j].method = table[i].method /\ table[j].path = table[i].path
Named(table, ms) ==
  \A m \in ms : \A k \in 1 .. Len(Mounted(m)) :
    \E j \in DOMAIN table :
      /\ table[j].plugin # None /\ table[j].module = m
      /\ table[j].method = Mounted(m)[k].method /\ table[j].path = Mounted(m)[k].path

Required(plugins) ==
  \A i \in DOMAIN plugins :
    \A dep \in ToSet(Plugins[plugins[i]].requires) : \E j \in 1 .. i - 1 : Plugins[plugins[j]].name = dep

JobsMerged(crons) ==
  \A i \in DOMAIN crons :
    crons[i].module # None =>
      \E job \in ToSet(Modules[crons[i].module].crons) :
        job.name = crons[i].name /\ crons[i].services = JobServices(job, Modules[crons[i].module])

\* The paths of the first n of these modules are mounted, each as the last
\* of them with the path or a ws() left it.
SocketsOf(sockets, mods, n) ==
  \A i \in 1 .. n : \A path \in SocketPaths(mods[i]) :
    /\ path \in DOMAIN sockets
    /\ \/ sockets[path] \in {mods[i], None}
       \/ \E j \in i + 1 .. n : path \in SocketPaths(mods[j])

SocketsMounted(a) == a.wsAdapter => SocketsOf(a.wsRoutes, a.modules, Len(a.modules))

\* The inductive invariant, of an application in which the modules ms have
\* been contributed: between two modules of a plugin these are fewer than
\* those its plugins list.
Wired(a, ms) ==
  /\ a \in Apps /\ Owned(a) /\ NamesExplained(a.routes, a.plugins)
  /\ Shadowed(a.routes, ms) /\ Named(a.routes, ms)
  /\ Required(a.plugins) /\ JobsMerged(a.crons) /\ SocketsMounted(a)

LEMMA OneMoreMounted ==
  ASSUME NEW n \in Nat \ {0}, NEW mods, mods[n] \in DOMAIN Modules, NEW s \in AppSockets,
         SocketsOf(s, mods, n - 1)
  PROVE  SocketsOf(RegisterRoutes(s, SocketPaths(mods[n]), mods[n]), mods, n)
<1> DEFINE paths == SocketPaths(mods[n])
           r     == RegisterRoutes(s, paths, mods[n])
<1>1. /\ DOMAIN r = DOMAIN s \cup paths
      /\ \A path \in DOMAIN r : r[path] = IF path \in paths THEN mods[n] ELSE s[path]
  <2>1. Takes(r, s, paths, mods[n])
    BY ModuleSockets
  <2> HIDE DEF r, paths
  <2>2. QED
    BY <2>1 DEF Takes
<1> HIDE DEF r
<1>2. ASSUME NEW i \in 1 .. n, NEW path \in SocketPaths(mods[i])
      PROVE  /\ path \in DOMAIN r
             /\ \/ r[path] \in {mods[i], None}
                \/ \E j \in i + 1 .. n : path \in SocketPaths(mods[j])
  <2>1. CASE i = n
    BY <1>1, <2>1
  <2>2. CASE i # n
    <3>1. i \in 1 .. n - 1
      BY <2>2
    <3>2. /\ path \in DOMAIN s
          /\ \/ s[path] \in {mods[i], None}
             \/ \E j \in i + 1 .. n - 1 : path \in SocketPaths(mods[j])
      BY <3>1 DEF SocketsOf
    <3>3. CASE path \in paths
      <4>1. n \in i + 1 .. n
        BY <3>1
      <4>2. QED
        BY <1>1, <3>2, <3>3, <4>1
    <3>4. CASE path \notin paths
      <4>1. i + 1 .. n - 1 \subseteq i + 1 .. n
        BY <3>1
      <4>2. QED
        BY <1>1, <3>2, <3>4, <4>1
    <3>5. QED
      BY <3>3, <3>4
  <2>3. QED
    BY <2>1, <2>2
<1>3. QED
  BY <1>2 DEF SocketsOf, r

LEMMA ElementsAppended ==
  ASSUME NEW S, NEW s \in Seq(S), NEW x \in S
  PROVE  ToSet(Append(s, x)) = ToSet(s) \cup {x}
<1> DEFINE u == Append(s, x)
<1>1. /\ DOMAIN s = 1 .. Len(s) /\ Len(s) \in Nat /\ DOMAIN u = 1 .. Len(s) + 1
      /\ u[Len(s) + 1] = x /\ \A i \in 1 .. Len(s) : u[i] = s[i]
  BY AppendProperties
<1> HIDE DEF u
<1>2. ToSet(u) = ToSet(s) \cup {x}
  BY <1>1 DEF ToSet
<1>3. QED
  BY <1>2 DEF u

LEMMA ElementsJoined ==
  ASSUME NEW S, NEW s \in Seq(S), NEW t \in Seq(S)
  PROVE  ToSet(s \o t) = ToSet(s) \cup ToSet(t)
<1> DEFINE u == s \o t
<1>1. /\ DOMAIN s = 1 .. Len(s) /\ DOMAIN t = 1 .. Len(t) /\ Len(s) \in Nat /\ Len(t) \in Nat
      /\ DOMAIN u = 1 .. Len(s) + Len(t)
      /\ \A i \in 1 .. Len(s) : u[i] = s[i]
      /\ \A i \in 1 .. Len(s) + Len(t) : i > Len(s) => u[i] = t[i - Len(s)]
  BY ConcatProperties
<1> HIDE DEF u
<1>2. ASSUME NEW i \in DOMAIN u PROVE u[i] \in ToSet(s) \cup ToSet(t)
  <2>1. CASE i <= Len(s)
    BY <1>1, <2>1 DEF ToSet
  <2>2. CASE i > Len(s)
    <3>1. i - Len(s) \in DOMAIN t /\ u[i] = t[i - Len(s)]
      BY <1>1, <2>2
    <3>2. QED
      BY <3>1 DEF ToSet
  <2>3. QED
    BY <1>1, <2>1, <2>2
<1>3. ASSUME NEW i \in DOMAIN s PROVE s[i] \in ToSet(u)
  <2>1. i \in DOMAIN u /\ u[i] = s[i]
    BY <1>1
  <2>2. QED
    BY <2>1 DEF ToSet
<1>4. ASSUME NEW i \in DOMAIN t PROVE t[i] \in ToSet(u)
  <2>1. Len(s) + i \in DOMAIN u /\ Len(s) + i > Len(s) /\ (Len(s) + i) - Len(s) = i
    BY <1>1
  <2>2. u[Len(s) + i] = t[i]
    BY <1>1, <2>1
  <2>3. QED
    BY <2>1, <2>2 DEF ToSet
<1>5. ToSet(u) \subseteq ToSet(s) \cup ToSet(t)
  <2>1. \A x \in ToSet(u) : \E i \in DOMAIN u : x = u[i]
    BY DEF ToSet
  <2>2. QED
    BY <1>2, <2>1
<1>6. ToSet(s) \subseteq ToSet(u) /\ ToSet(t) \subseteq ToSet(u)
  <2>1. /\ \A x \in ToSet(s) : \E i \in DOMAIN s : x = s[i]
        /\ \A x \in ToSet(t) : \E i \in DOMAIN t : x = t[i]
    BY DEF ToSet
  <2>2. QED
    BY <1>3, <1>4, <2>1
<1>7. QED
  BY <1>5, <1>6 DEF u

\* What a call does to the routes there are: they stay, and none loses its
\* name.
RoutesKept(before, later) ==
  /\ DOMAIN before \subseteq DOMAIN later
  /\ \A i \in DOMAIN before :
       /\ later[i].module = before[i].module
       /\ before[i].plugin # None => later[i].plugin = before[i].plugin

\* The routes of m are put behind the others, and those of them that have no
\* name get this one, if it is one.
RoutesGrow(before, later, m, name) ==
  /\ DOMAIN later = 1 .. Len(before) + Len(Mounted(m))
  /\ \A i \in DOMAIN before :
       /\ later[i].method = before[i].method /\ later[i].path = before[i].path
       /\ later[i].module = before[i].module
       /\ later[i].plugin = IF before[i].plugin = None /\ before[i].module = m THEN name ELSE before[i].plugin
  /\ \A k \in 1 .. Len(Mounted(m)) :
       LET i == Len(before) + k
       IN /\ later[i].method = Mounted(m)[k].method /\ later[i].path = Mounted(m)[k].path
          /\ later[i].module = m /\ later[i].plugin = name

\* Routes that grow stay named as they should be.
LEMMA GrownRoutes ==
  ASSUME NEW S, NEW before \in Seq(S), NEW later, NEW m, NEW name, NEW plugins, NEW ms,
         Len(Mounted(m)) \in Nat, RoutesGrow(before, later, m, name),
         NamesExplained(before, plugins), Shadowed(before, ms), Named(before, ms),
         name # None => \E p \in ToSet(plugins) : Contributes(p, m) /\ Plugins[p].name = name
  PROVE  /\ RoutesKept(before, later) /\ NamesExplained(later, plugins)
         /\ Shadowed(later, IF name = None THEN ms ELSE ms \cup {m})
         /\ Named(later, IF name = None THEN ms ELSE ms \cup {m})
<1> DEFINE more == IF name = None THEN ms ELSE ms \cup {m}
<1>1. Len(before) \in Nat /\ DOMAIN before = 1 .. Len(before) /\ DOMAIN before \subseteq DOMAIN later
  BY DEF RoutesGrow
<1>2. \A i \in DOMAIN later : i \notin DOMAIN before => \E k \in 1 .. Len(Mounted(m)) : i = Len(before) + k
  <2>1. ASSUME NEW i \in DOMAIN later, i \notin DOMAIN before PROVE \E k \in 1 .. Len(Mounted(m)) : i = Len(before) + k
    <3>1. i - Len(before) \in 1 .. Len(Mounted(m)) /\ i = Len(before) + (i - Len(before))
      BY <1>1, <2>1 DEF RoutesGrow
    <3>2. QED
      BY <3>1
  <2>2. QED
    BY <2>1
<1>3. RoutesKept(before, later)
  BY <1>1 DEF RoutesKept, RoutesGrow
<1>4. NamesExplained(later, plugins)
  <2>1. ASSUME NEW i \in DOMAIN later, later[i].plugin # None
        PROVE  \E p \in ToSet(plugins) : Contributes(p, later[i].module) /\ Plugins[p].name = later[i].plugin
    <3>1. CASE i \in DOMAIN before
      BY <2>1, <3>1 DEF RoutesGrow, NamesExplained
    <3>2. CASE i \notin DOMAIN before
      BY <1>2, <2>1, <3>2 DEF RoutesGrow
    <3>3. QED
      BY <3>1, <3>2
  <2>2. QED
    BY <2>1 DEF NamesExplained
<1>5. Shadowed(later, more)
  <2>1. ASSUME NEW i \in DOMAIN later, later[i].plugin = None, later[i].module \in more
        PROVE  \E j \in DOMAIN later :
                 /\ j < i /\ later[j].plugin # None /\ later[j].module = later[i].module
                 /\ later[j].method = later[i].method /\ later[j].path = later[i].path
    <3>1. CASE i \in DOMAIN before
      <4>1. before[i].plugin = None /\ before[i].module \in ms
        BY <2>1, <3>1 DEF RoutesGrow
      <4>2. PICK j \in DOMAIN before :
              /\ j < i /\ before[j].plugin # None /\ before[j].module = before[i].module
              /\ before[j].method = before[i].method /\ before[j].path = before[i].path
        BY <3>1, <4>1 DEF Shadowed
      <4>3. QED
        BY <1>1, <3>1, <4>2 DEF RoutesGrow
    <3>2. CASE i \notin DOMAIN before
      <4>1. PICK k \in 1 .. Len(Mounted(m)) : i = Len(before) + k
        BY <1>2, <3>2
      <4>2. /\ later[i].method = Mounted(m)[k].method /\ later[i].path = Mounted(m)[k].path
            /\ later[i].module = m /\ name = None /\ m \in ms
        BY <2>1, <4>1 DEF RoutesGrow
      <4>3. PICK j \in DOMAIN before :
              /\ before[j].plugin # None /\ before[j].module = m
              /\ before[j].method = Mounted(m)[k].method /\ before[j].path = Mounted(m)[k].path
        BY <4>2 DEF Named
      <4>4. j \in DOMAIN later /\ j < i
        BY <1>1, <4>1
      <4>5. QED
        BY <4>2, <4>3, <4>4 DEF RoutesGrow
    <3>3. QED
      BY <3>1, <3>2
  <2>2. QED
    BY <2>1 DEF Shadowed
<1>6. Named(later, more)
  <2>1. ASSUME NEW n \in more, NEW k \in 1 .. Len(Mounted(n))
        PROVE  \E j \in DOMAIN later :
                 /\ later[j].plugin # None /\ later[j].module = n
                 /\ later[j].method = Mounted(n)[k].method /\ later[j].path = Mounted(n)[k].path
    <3>1. CASE n \in ms
      <4>1. PICK j \in DOMAIN before :
              /\ before[j].plugin # None /\ before[j].module = n
              /\ before[j].method = Mounted(n)[k].method /\ before[j].path = Mounted(n)[k].path
        BY <3>1 DEF Named
      <4>2. QED
        BY <1>1, <4>1 DEF RoutesGrow
    <3>2. CASE n \notin ms
      <4>1. n = m /\ name # None
        BY <3>2
      <4>2. Len(before) + k \in DOMAIN later
        BY <1>1, <4>1 DEF RoutesGrow
      <4>3. QED
        BY <4>1, <4>2 DEF RoutesGrow
    <3>3. QED
      BY <3>1, <3>2
  <2>2. QED
    BY <2>1 DEF Named
<1>7. QED
  BY <1>3, <1>4, <1>5, <1>6

\* register(), and a module of a plugin: the application stays wired, and the
\* module is one more that is contributed when the plugin is gated.
LEMMA RegisteredWired ==
  ASSUME NEW a, NEW ms, Wired(a, ms), NEW m \in DOMAIN Modules, NEW c \in Apps, NEW name,
         c.plugins = a.plugins, c.wsAdapter = a.wsAdapter,
         c.modules = Append(a.modules, m), c.crons = a.crons \o Jobs(m),
         c.wsRoutes = IF a.wsAdapter THEN RegisterRoutes(a.wsRoutes, SocketPaths(m), m) ELSE a.wsRoutes,
         RoutesGrow(a.routes, c.routes, m, name),
         name # None => \E p \in ToSet(a.plugins) : Contributes(p, m) /\ Plugins[p].name = name
  PROVE  Wired(c, IF name = None THEN ms ELSE ms \cup {m}) /\ RoutesKept(a.routes, c.routes)
<1>1. /\ a.routes \in Seq(AppRoute) /\ a.modules \in Seq(DOMAIN Modules) /\ a.wsRoutes \in AppSockets
      /\ a.crons \in Seq(AppJob) /\ c.routes \in Seq(AppRoute)
  BY DEF Wired, Apps
<1>2. /\ Mounted(m) \in Seq(AppRoute) /\ Len(Mounted(m)) \in Nat
      /\ Jobs(m) \in Seq(AppJob)
  <2>1. Mounted(m) \in Seq(AppRoute) /\ Jobs(m) \in Seq(AppJob)
    BY ModuleParts
  <2>2. QED
    BY <2>1
<1>3. /\ RoutesKept(a.routes, c.routes) /\ NamesExplained(c.routes, c.plugins)
      /\ Shadowed(c.routes, IF name = None THEN ms ELSE ms \cup {m})
      /\ Named(c.routes, IF name = None THEN ms ELSE ms \cup {m})
  <2> DEFINE before == a.routes
             later  == c.routes
  <2>1. /\ before \in Seq(AppRoute) /\ RoutesGrow(before, later, m, name) /\ NamesExplained(before, c.plugins)
        /\ Shadowed(before, ms) /\ Named(before, ms)
        /\ name # None => \E p \in ToSet(c.plugins) : Contributes(p, m) /\ Plugins[p].name = name
    BY <1>1 DEF Wired
  <2> HIDE DEF before, later
  <2>2. /\ RoutesKept(before, later) /\ NamesExplained(later, c.plugins)
        /\ Shadowed(later, IF name = None THEN ms ELSE ms \cup {m})
        /\ Named(later, IF name = None THEN ms ELSE ms \cup {m})
    BY <1>2, <2>1, GrownRoutes
  <2>3. QED
    BY <2>2 DEF before, later
<1>4. ToSet(c.modules) = ToSet(a.modules) \cup {m}
  BY <1>1, ElementsAppended
<1>5. ToSet(c.crons) = ToSet(a.crons) \cup ToSet(Jobs(m))
  BY <1>1, <1>2, ElementsJoined
<1>6. Owned(c)
  <2>1. \A i \in DOMAIN c.routes : c.routes[i].module \in ToSet(c.modules) \cup {None}
    <3>1. ASSUME NEW i \in DOMAIN c.routes PROVE c.routes[i].module \in ToSet(a.modules) \cup {m, None}
      <4>1. CASE i \in DOMAIN a.routes
        BY <4>1 DEF RoutesGrow, Wired, Owned
      <4>2. CASE i \notin DOMAIN a.routes
        <5> DEFINE n == Len(a.routes)
        <5>1. n \in Nat /\ DOMAIN a.routes = 1 .. n /\ DOMAIN c.routes = 1 .. n + Len(Mounted(m))
          BY <1>1 DEF RoutesGrow
        <5>2. i \in 1 .. n + Len(Mounted(m)) /\ i \notin 1 .. n
          BY <4>2, <5>1
        <5> HIDE DEF n
        <5>3. i - n \in 1 .. Len(Mounted(m)) /\ i = n + (i - n)
          BY <1>2, <5>1, <5>2
        <5>4. QED
          BY <5>3 DEF RoutesGrow, n
      <4>3. QED
        BY <4>1, <4>2
    <3>2. QED
      BY <1>4, <3>1
  <2>2. \A path \in DOMAIN c.wsRoutes : c.wsRoutes[path] \in ToSet(c.modules) \cup {None}
    <3> DEFINE r == RegisterRoutes(a.wsRoutes, SocketPaths(m), m)
    <3>1. /\ DOMAIN r = DOMAIN a.wsRoutes \cup SocketPaths(m)
          /\ \A path \in DOMAIN r : r[path] = IF path \in SocketPaths(m) THEN m ELSE a.wsRoutes[path]
      <4>1. Takes(r, a.wsRoutes, SocketPaths(m), m)
        BY <1>1, ModuleSockets
      <4> HIDE DEF r
      <4>2. QED
        BY <4>1 DEF Takes
    <3> HIDE DEF r
    <3>2. \A path \in DOMAIN a.wsRoutes : a.wsRoutes[path] \in ToSet(a.modules) \cup {None}
      BY DEF Wired, Owned
    <3>3. \A path \in DOMAIN r : r[path] \in ToSet(a.modules) \cup {None, m}
      BY <3>1, <3>2
    <3>4. QED
      BY <1>4, <3>2, <3>3 DEF r
  <2>3. \A job \in ToSet(c.crons) : job.module \in ToSet(c.modules) \cup {None}
    <3>1. \A job \in ToSet(Jobs(m)) : job.module = m
      BY DEF Jobs, ToSet
    <3>2. \A job \in ToSet(a.crons) : job.module \in ToSet(a.modules) \cup {None}
      BY DEF Wired, Owned, ToSet
    <3>3. QED
      BY <1>4, <1>5, <3>1, <3>2
  <2>4. QED
    BY <2>1, <2>2, <2>3 DEF Owned, ToSet
<1>7. JobsMerged(c.crons)
  <2>1. ASSUME NEW scheduled \in ToSet(c.crons), scheduled.module # None
        PROVE  \E job \in ToSet(Modules[scheduled.module].crons) :
                 job.name = scheduled.name /\ scheduled.services = JobServices(job, Modules[scheduled.module])
    <3>1. CASE scheduled \in ToSet(a.crons)
      <4>1. PICK i \in DOMAIN a.crons : scheduled = a.crons[i]
        BY <3>1 DEF ToSet
      <4>2. QED
        BY <2>1, <4>1 DEF Wired, JobsMerged
    <3>2. CASE scheduled \in ToSet(Jobs(m))
      <4>1. PICK i \in DOMAIN Modules[m].crons :
              scheduled = [name |-> Modules[m].crons[i].name, module |-> m,
                           services |-> JobServices(Modules[m].crons[i], Modules[m])]
        BY <3>2 DEF Jobs, ToSet
      <4>2. Modules[m].crons[i] \in ToSet(Modules[m].crons)
        BY DEF ToSet
      <4>3. QED
        BY <4>1, <4>2
    <3>3. QED
      BY <1>5, <3>1, <3>2
  <2>2. QED
    BY <2>1 DEF JobsMerged, ToSet
<1>8. SocketsMounted(c)
  <2>1. SUFFICES ASSUME a.wsAdapter PROVE SocketsOf(c.wsRoutes, c.modules, Len(c.modules))
    BY DEF SocketsMounted
  <2> DEFINE n == Len(a.modules) + 1
  <2>2. /\ n \in Nat \ {0} /\ Len(c.modules) = n /\ c.modules[n] = m
        /\ \A i \in 1 .. n - 1 : c.modules[i] = a.modules[i]
    BY <1>1, AppendProperties
  <2>3. SocketsOf(a.wsRoutes, a.modules, n - 1)
    BY <1>1, <2>1 DEF Wired, SocketsMounted
  <2> HIDE DEF n
  <2> DEFINE k == n - 1
  <2>4. k \in Nat /\ \A i \in 1 .. k : c.modules[i] = a.modules[i] /\ i + 1 .. k \subseteq 1 .. k
    BY <2>2
  <2> HIDE DEF k
  <2>5. SocketsOf(a.wsRoutes, c.modules, k)
    <3>1. SocketsOf(a.wsRoutes, a.modules, k)
      BY <2>3 DEF k
    <3>2. QED
      BY <2>4, <3>1, Zenon DEF SocketsOf
  <2> USE DEF k
  <2>6. QED
    BY <1>1, <2>1, <2>2, <2>5, OneMoreMounted
<1>9. Required(c.plugins)
  BY DEF Wired
<1>10. QED
  BY <1>3, <1>6, <1>7, <1>8, <1>9 DEF Wired

\* A module of plugin p is registered and gets the plugin's name.
LEMMA ModuleContributed ==
  ASSUME NEW a, NEW ms, Wired(a, ms), NEW p \in DOMAIN Plugins, p \in ToSet(a.plugins),
         NEW m \in DOMAIN Modules, m \in ToSet(Plugins[p].modules)
  PROVE  LET c == Tagged(Registered(a, m), p, m)
         IN /\ c.plugins = a.plugins /\ RoutesKept(a.routes, c.routes)
            /\ Wired(c, IF Plugins[p].gated THEN ms \cup {m} ELSE ms)
<1> DEFINE b    == Registered(a, m)
           c    == Tagged(b, p, m)
           name == IF Plugins[p].gated THEN Plugins[p].name ELSE None
<1>1. a \in Apps /\ a.routes \in Seq(AppRoute)
  BY DEF Wired, Apps
<1>2. /\ b \in Apps
      /\ b.plugins = a.plugins /\ b.wsAdapter = a.wsAdapter
      /\ b.modules = Append(a.modules, m)
      /\ b.routes = a.routes \o Mounted(m)
      /\ b.wsRoutes = IF a.wsAdapter THEN RegisterRoutes(a.wsRoutes, SocketPaths(m), m) ELSE a.wsRoutes
      /\ b.crons = a.crons \o Jobs(m)
  BY <1>1, RegisteredFields
<1> HIDE DEF b
<1>3. /\ c \in Apps
      /\ c.plugins = b.plugins /\ c.wsAdapter = b.wsAdapter
      /\ c.modules = b.modules /\ c.wsRoutes = b.wsRoutes /\ c.crons = b.crons
      /\ DOMAIN c.routes = DOMAIN b.routes
      /\ \A i \in DOMAIN b.routes :
           /\ c.routes[i].method = b.routes[i].method /\ c.routes[i].path = b.routes[i].path
           /\ c.routes[i].module = b.routes[i].module
           /\ c.routes[i].plugin = IF Plugins[p].gated /\ b.routes[i].module = m /\ b.routes[i].plugin = None
                                   THEN Plugins[p].name ELSE b.routes[i].plugin
  BY <1>2, TaggedFields
<1> HIDE DEF c
<1>4. /\ Mounted(m) \in Seq(AppRoute) /\ Len(Mounted(m)) \in Nat
      /\ \A k \in 1 .. Len(Mounted(m)) : Mounted(m)[k].module = m /\ Mounted(m)[k].plugin = None
  <2>1. Mounted(m) \in Seq(AppRoute)
    BY ModuleParts
  <2>2. DOMAIN Mounted(m) = 1 .. Len(Mounted(m)) /\ Len(Mounted(m)) \in Nat
    BY <2>1
  <2>3. \A k \in DOMAIN Mounted(m) : Mounted(m)[k].module = m /\ Mounted(m)[k].plugin = None
    BY DEF Mounted
  <2>4. QED
    BY <2>1, <2>2, <2>3
<1>5. /\ Len(a.routes) \in Nat /\ DOMAIN a.routes = 1 .. Len(a.routes)
      /\ DOMAIN b.routes = 1 .. Len(a.routes) + Len(Mounted(m))
      /\ \A i \in DOMAIN a.routes : b.routes[i] = a.routes[i]
      /\ \A k \in 1 .. Len(Mounted(m)) : b.routes[Len(a.routes) + k] = Mounted(m)[k]
  <2>1. /\ Len(a.routes) \in Nat /\ DOMAIN a.routes = 1 .. Len(a.routes)
        /\ DOMAIN b.routes = 1 .. Len(a.routes) + Len(Mounted(m))
        /\ \A i \in 1 .. Len(a.routes) : b.routes[i] = a.routes[i]
        /\ \A i \in 1 .. Len(a.routes) + Len(Mounted(m)) :
             i > Len(a.routes) => b.routes[i] = Mounted(m)[i - Len(a.routes)]
    BY <1>1, <1>2, <1>4, ConcatProperties
  <2>2. ASSUME NEW k \in 1 .. Len(Mounted(m)) PROVE b.routes[Len(a.routes) + k] = Mounted(m)[k]
    <3>1. /\ Len(a.routes) + k \in 1 .. Len(a.routes) + Len(Mounted(m))
          /\ Len(a.routes) + k > Len(a.routes) /\ (Len(a.routes) + k) - Len(a.routes) = k
      BY <1>4, <2>1
    <3>2. QED
      BY <2>1, <3>1
  <2>3. QED
    BY <2>1, <2>2
<1>6. RoutesGrow(a.routes, c.routes, m, name)
  <2>1. ASSUME NEW i \in DOMAIN a.routes
        PROVE  /\ c.routes[i].method = a.routes[i].method /\ c.routes[i].path = a.routes[i].path
               /\ c.routes[i].module = a.routes[i].module
               /\ c.routes[i].plugin = IF a.routes[i].plugin = None /\ a.routes[i].module = m
                                       THEN name ELSE a.routes[i].plugin
    <3>1. i \in DOMAIN b.routes /\ b.routes[i] = a.routes[i]
      BY <1>4, <1>5
    <3>2. QED
      BY <1>3, <3>1
  <2>2. ASSUME NEW k \in 1 .. Len(Mounted(m))
        PROVE  LET i == Len(a.routes) + k
               IN /\ c.routes[i].method = Mounted(m)[k].method /\ c.routes[i].path = Mounted(m)[k].path
                  /\ c.routes[i].module = m /\ c.routes[i].plugin = name
    <3>1. Len(a.routes) + k \in DOMAIN b.routes /\ b.routes[Len(a.routes) + k] = Mounted(m)[k]
      BY <1>4, <1>5
    <3>2. QED
      BY <1>3, <1>4, <3>1
  <2>3. QED
    BY <1>3, <1>5, <2>1, <2>2 DEF RoutesGrow
<1>7. /\ name # None => \E q \in ToSet(a.plugins) : Contributes(q, m) /\ Plugins[q].name = name
      /\ name = None <=> ~ Plugins[p].gated
  BY RegistrationAssumption DEF Contributes
<1>8. Wired(c, IF name = None THEN ms ELSE ms \cup {m}) /\ RoutesKept(a.routes, c.routes)
  <2>1. /\ c.plugins = a.plugins /\ c.wsAdapter = a.wsAdapter
        /\ c.modules = Append(a.modules, m) /\ c.crons = a.crons \o Jobs(m)
        /\ c.wsRoutes = IF a.wsAdapter THEN RegisterRoutes(a.wsRoutes, SocketPaths(m), m) ELSE a.wsRoutes
    BY <1>2, <1>3
  <2> HIDE DEF name
  <2>2. QED
    BY <1>3, <1>6, <1>7, <2>1, RegisteredWired
<1>9. QED
  BY <1>2, <1>3, <1>7, <1>8 DEF b, c

\* plugin(): with its modules, an application stays wired, and then all of
\* them are contributed.
LEMMA ContributedWired ==
  ASSUME NEW a, Wired(a, Contributors(a)), NEW p \in DOMAIN Plugins, Required(Append(a.plugins, p))
  PROVE  LET c == Contributed(a, p) IN Wired(c, Contributors(c)) /\ RoutesKept(a.routes, c.routes)
<1> DEFINE mods       == Plugins[p].modules
           N          == Len(mods)
           start      == [a EXCEPT !.plugins = Append(@, p)]
           Then(n, b) == Tagged(Registered(b, mods[n]), p, mods[n])
           Is(h)      == h = [n \in 0 .. N |-> IF n = 0 THEN start
                                               ELSE Tagged(Registered(h[n - 1], mods[n]), p, mods[n])]
           f          == CHOOSE h : Is(h)
           F          == [n \in 1 .. N |-> [b \in Apps |-> Then(n, b)]]
<1>1. /\ a \in Apps /\ a.plugins \in Seq(DOMAIN Plugins) /\ a.routes \in Seq(AppRoute)
      /\ mods \in Seq(DOMAIN Modules) /\ N \in Nat /\ DOMAIN mods = 1 .. N
      /\ \A n \in 1 .. N : mods[n] \in DOMAIN Modules
  BY RegistrationAssumption, LenProperties, ElementOfSeq DEF Wired, Apps
<1>2. Contributed(a, p) = f[N]
  BY DEF Contributed
<1>3. /\ start \in Apps /\ start.plugins = Append(a.plugins, p) /\ start.modules = a.modules
      /\ start.routes = a.routes /\ start.wsRoutes = a.wsRoutes /\ start.wsAdapter = a.wsAdapter
      /\ start.crons = a.crons
  BY <1>1, AppendProperties DEF Apps
<1>4. ToSet(Append(a.plugins, p)) = ToSet(a.plugins) \cup {p}
  BY <1>1, ElementsAppended
<1> HIDE DEF start, N, mods
<1>5. F \in [1 .. N -> [Apps -> Apps]]
  <2>1. ASSUME NEW n \in 1 .. N, NEW b \in Apps PROVE Then(n, b) \in Apps
    <3>1. Registered(b, mods[n]) \in Apps
      BY <1>1, RegisteredFields
    <3>2. QED
      BY <1>1, <3>1, TaggedFields
  <2>2. QED
    BY <2>1
<1>6. PICK g : Iterates(g, N, start, Apps, F)
  <2> HIDE DEF F
  <2>1. QED
    BY <1>1, <1>3, <1>5, RecursionExists
<1>7. Is(g)
  <2>1. ASSUME NEW n \in 0 .. N PROVE g[n] = IF n = 0 THEN start ELSE Then(n, g[n - 1])
    <3>1. CASE n = 0
      BY <1>6, <3>1 DEF Iterates
    <3>2. CASE n # 0
      <4>1. n \in 1 .. N /\ n - 1 \in 0 .. N /\ g[n - 1] \in Apps
        BY <1>1, <1>6, <3>2 DEF Iterates
      <4>2. QED
        BY <1>6, <3>2, <4>1 DEF Iterates
    <3>3. QED
      BY <3>1, <3>2
  <2>2. QED
    BY <1>6, <2>1 DEF Iterates
<1> HIDE DEF Is
<1>8. Is(f)
  BY <1>7, Zenon
<1> HIDE DEF f, F
<1> USE DEF Is
<1>9. f[0] = start /\ \A n \in 1 .. N : f[n] = Then(n, f[n - 1])
  <2>1. 0 \in 0 .. N /\ \A n \in 1 .. N : n \in 0 .. N /\ n # 0
    BY <1>1
  <2>2. QED
    BY <1>8, <2>1
<1> HIDE DEF Is
<1> DEFINE Sofar(n)    == Contributors(a) \cup (IF Plugins[p].gated THEN {mods[k] : k \in 1 .. n} ELSE {})
           T           == {n \in 0 .. N : /\ Wired(f[n], Sofar(n)) /\ f[n].plugins = Append(a.plugins, p)
                                          /\ RoutesKept(a.routes, f[n].routes)}
<1>10. 0 \in T
  <2>1. Sofar(0) = Contributors(a)
    OBVIOUS
  <2>2. NamesExplained(start.routes, start.plugins)
    BY <1>3, <1>4 DEF Wired, NamesExplained
  <2>3. Owned(start) /\ SocketsMounted(start)
    BY <1>3 DEF Wired, Owned, SocketsMounted
  <2>4. Wired(start, Contributors(a))
    BY <1>3, <2>2, <2>3 DEF Wired
  <2>5. RoutesKept(a.routes, start.routes)
    BY <1>3 DEF RoutesKept
  <2> HIDE DEF Sofar
  <2>6. /\ 0 \in 0 .. N /\ f[0].plugins = Append(a.plugins, p)
        /\ Wired(f[0], Sofar(0)) /\ RoutesKept(a.routes, f[0].routes)
    BY <1>1, <1>3, <1>9, <2>1, <2>4, <2>5
  <2>7. QED
    BY <2>6
<1>11. ASSUME NEW n \in 1 .. N, n - 1 \in T PROVE n \in T
  <2> DEFINE b == f[n - 1]
             c == f[n]
             m == mods[n]
  <2>1. /\ Wired(b, Sofar(n - 1)) /\ b.plugins = Append(a.plugins, p) /\ RoutesKept(a.routes, b.routes)
        /\ c = Tagged(Registered(b, m), p, m) /\ m \in DOMAIN Modules /\ n \in 0 .. N
    BY <1>1, <1>9, <1>11
  <2>2. p \in ToSet(b.plugins) /\ m \in ToSet(Plugins[p].modules)
    BY <1>1, <1>4, <2>1 DEF ToSet, mods
  <2>3. Sofar(n) = IF Plugins[p].gated THEN Sofar(n - 1) \cup {m} ELSE Sofar(n - 1)
    <3>1. 1 .. n = (1 .. n - 1) \cup {n}
      BY <1>1
    <3>2. QED
      BY <3>1
  <2> HIDE DEF b, c, m, Sofar
  <2>4. /\ c.plugins = b.plugins /\ RoutesKept(b.routes, c.routes)
        /\ Wired(c, IF Plugins[p].gated THEN Sofar(n - 1) \cup {m} ELSE Sofar(n - 1))
    BY <2>1, <2>2, ModuleContributed
  <2>5. RoutesKept(a.routes, c.routes)
    BY <2>1, <2>4 DEF RoutesKept
  <2>6. QED
    BY <2>1, <2>3, <2>4, <2>5 DEF c
<1> HIDE DEF T
<1>12. \A n \in 0 .. N : n \in T
  BY <1>1, <1>10, <1>11, UpTo
<1>13. N \in T
  BY <1>1, <1>12
<1>14. /\ Wired(f[N], Sofar(N)) /\ f[N].plugins = Append(a.plugins, p)
       /\ RoutesKept(a.routes, f[N].routes)
  BY <1>13 DEF T
<1>15. Sofar(N) = Contributors(f[N])
  <2>1. {mods[k] : k \in 1 .. N} = ToSet(mods) /\ ToSet(mods) \subseteq DOMAIN Modules
    BY <1>1 DEF ToSet
  <2>2. ToSet(f[N].plugins) = ToSet(a.plugins) \cup {p}
    BY <1>4, <1>14
  <2>3. QED
    BY <2>1, <2>2 DEF Contributors, Contributes, mods
<1>16. QED
  BY <1>2, <1>14, <1>15

\* A new adapter is given the sockets of all modules, and of no others.
LEMMA AllSocketsMounted ==
  ASSUME NEW mods \in Seq(DOMAIN Modules)
  PROVE  LET mounted == AllMounted(mods)
         IN /\ mounted \in AppSockets
            /\ \A path \in DOMAIN mounted : mounted[path] \in ToSet(mods)
            /\ SocketsOf(mounted, mods, Len(mods))
<1> DEFINE N          == Len(mods)
           Then(n, s) == RegisterRoutes(s, SocketPaths(mods[n]), mods[n])
           Is(h)      == h = [n \in 0 .. N |-> IF n = 0 THEN NoSockets
                                               ELSE RegisterRoutes(h[n - 1], SocketPaths(mods[n]), mods[n])]
           f          == CHOOSE h : Is(h)
           F          == [n \in 1 .. N |-> [s \in AppSockets |-> Then(n, s)]]
<1>1. /\ N \in Nat /\ DOMAIN mods = 1 .. N
      /\ \A n \in 1 .. N : mods[n] \in DOMAIN Modules /\ SocketPaths(mods[n]) \in SUBSET WsPaths
  <2>1. N \in Nat /\ DOMAIN mods = 1 .. N /\ \A n \in 1 .. N : mods[n] \in DOMAIN Modules
    BY LenProperties, ElementOfSeq
  <2>2. QED
    BY <2>1, ModuleParts
<1>2. NoSockets \in AppSockets /\ DOMAIN NoSockets = {}
  <2>1. NoSockets \in [{} -> Owners] /\ {} \in SUBSET WsPaths
    BY DEF NoSockets
  <2>2. QED
    BY <2>1 DEF AppSockets
<1>3. AllMounted(mods) = f[N]
  BY DEF AllMounted
<1> HIDE DEF N
<1>4. F \in [1 .. N -> [AppSockets -> AppSockets]]
  <2>1. ASSUME NEW n \in 1 .. N, NEW s \in AppSockets PROVE Then(n, s) \in AppSockets
    BY <1>1, ModuleSockets DEF Takes
  <2>2. QED
    BY <2>1
<1>5. PICK g : Iterates(g, N, NoSockets, AppSockets, F)
  <2> HIDE DEF F
  <2>1. QED
    BY <1>1, <1>2, <1>4, RecursionExists
<1>6. Is(g)
  <2>1. ASSUME NEW n \in 0 .. N PROVE g[n] = IF n = 0 THEN NoSockets ELSE Then(n, g[n - 1])
    <3>1. CASE n = 0
      BY <1>5, <3>1 DEF Iterates
    <3>2. CASE n # 0
      <4>1. n \in 1 .. N /\ n - 1 \in 0 .. N /\ g[n - 1] \in AppSockets
        BY <1>1, <1>5, <3>2 DEF Iterates
      <4>2. QED
        BY <1>5, <3>2, <4>1 DEF Iterates
    <3>3. QED
      BY <3>1, <3>2
  <2>2. QED
    BY <1>5, <2>1 DEF Iterates
<1> HIDE DEF Is
<1>7. Is(f)
  BY <1>6, Zenon
<1> HIDE DEF f
<1> USE DEF Is
<1>8. /\ f[0] = NoSockets /\ f = [n \in 0 .. N |-> f[n]]
      /\ \A n \in 1 .. N : f[n] = Then(n, f[n - 1])
  <2>1. 0 \in 0 .. N /\ \A n \in 1 .. N : n \in 0 .. N /\ n # 0
    BY <1>1
  <2>2. QED
    BY <1>7, <2>1
<1>9. Iterates(f, N, NoSockets, AppSockets, F)
  <2>1. \A n \in 1 .. N : f[n - 1] \in AppSockets => f[n] = F[n][f[n - 1]]
    BY <1>8
  <2> HIDE DEF F
  <2>2. QED
    BY <1>1, <1>2, <1>4, <1>8, <2>1, IteratesFrom
<1> HIDE DEF Is, F
<1> DEFINE T == {n \in 0 .. N : /\ \A path \in DOMAIN f[n] : f[n][path] \in ToSet(mods)
                                /\ SocketsOf(f[n], mods, n)}
<1>10. 0 \in T
  <2>1. SocketsOf(f[0], mods, 0)
    BY DEF SocketsOf
  <2>2. QED
    BY <1>1, <1>2, <1>8, <2>1
<1>11. ASSUME NEW n \in 1 .. N, n - 1 \in T PROVE n \in T
  <2> DEFINE last == f[n - 1]
  <2>1. n - 1 \in 0 .. N /\ n \in 0 .. N /\ n \in Nat \ {0} /\ mods[n] \in DOMAIN Modules
    BY <1>1
  <2>2. last \in AppSockets /\ f[n] = RegisterRoutes(last, SocketPaths(mods[n]), mods[n])
    BY <1>8, <1>9, <2>1 DEF Iterates
  <2>3. mods[n] \in ToSet(mods)
    BY <1>1 DEF ToSet
  <2>4. (\A path \in DOMAIN last : last[path] \in ToSet(mods)) /\ SocketsOf(last, mods, n - 1)
    BY <1>11
  <2> HIDE DEF last
  <2>5. SocketsOf(f[n], mods, n)
    BY <2>1, <2>2, <2>4, OneMoreMounted
  <2>6. \A path \in DOMAIN f[n] : f[n][path] \in ToSet(mods)
    <3>1. /\ DOMAIN f[n] = DOMAIN last \cup SocketPaths(mods[n])
          /\ \A path \in DOMAIN f[n] : f[n][path] = IF path \in SocketPaths(mods[n]) THEN mods[n] ELSE last[path]
      <4>1. Takes(f[n], last, SocketPaths(mods[n]), mods[n])
        BY <2>1, <2>2, ModuleSockets
      <4>2. QED
        BY <4>1 DEF Takes
    <3>2. QED
      BY <2>3, <2>4, <3>1
  <2>7. QED
    BY <2>1, <2>5, <2>6
<1> HIDE DEF T
<1>12. \A n \in 0 .. N : n \in T
  BY <1>1, <1>10, <1>11, UpTo
<1>13. N \in T /\ N \in 0 .. N
  BY <1>1, <1>12
<1>14. f[N] \in AppSockets
  BY <1>9, <1>13 DEF Iterates
<1>15. (\A path \in DOMAIN f[N] : f[N][path] \in ToSet(mods)) /\ SocketsOf(f[N], mods, N)
  BY <1>13 DEF T
<1>16. QED
  BY <1>3, <1>14, <1>15 DEF N

AppInv == Wired(app, Contributors(app)) /\ refused \subseteq {"PLUGIN_MISSING_DEP", "NO_WS_ADAPTER"}

\* An application with nothing in it is wired.
LEMMA InitApp == AppInit => AppInv
<1> SUFFICES ASSUME AppInit PROVE AppInv
  OBVIOUS
<1>1. /\ app.plugins = <<>> /\ app.modules = <<>> /\ app.routes = <<>> /\ app.wsRoutes = NoSockets
      /\ app.crons = <<>> /\ app.wsAdapter = FALSE
  BY DEF AppInit
<1>2. app \in Apps /\ DOMAIN NoSockets = {}
  <2>1. NoSockets \in [{} -> Owners] /\ {} \in SUBSET WsPaths /\ DOMAIN NoSockets = {}
    BY DEF NoSockets
  <2>2. NoSockets \in AppSockets
    BY <2>1 DEF AppSockets
  <2>3. QED
    BY <2>1, <2>2 DEF AppInit, Apps
<1>3. DOMAIN <<>> = {} /\ ToSet(<<>>) = {} /\ Contributors(app) = {}
  BY <1>1 DEF ToSet, Contributors
<1>4. Wired(app, {})
  BY <1>1, <1>2, <1>3 DEF Wired, Owned, NamesExplained, Shadowed, Named, Required, JobsMerged, SocketsMounted
<1>5. QED
  BY <1>3, <1>4 DEF AppInv, AppInit

\* The calls that put one thing into one list leave an application wired.
LEMMA OtherCalls ==
  ASSUME AppInv,
         \/ \E s \in Services : UseCall(s)
         \/ \E path \in AppCalls : GetCall(path) \/ WsCall(path)
         \/ \E m \in DOMAIN Modules : \E i \in DOMAIN Modules[m].crons : CronCall(Modules[m].crons[i])
         \/ RegisterWsAdapter
  PROVE  AppInv' /\ RoutesKept(app.routes, app'.routes)
<1> DEFINE ms == Contributors(app)
<1>1. /\ app \in Apps /\ app.plugins \in Seq(DOMAIN Plugins) /\ app.modules \in Seq(DOMAIN Modules)
      /\ app.routes \in Seq(AppRoute) /\ app.wsRoutes \in AppSockets /\ app.wsAdapter \in BOOLEAN
      /\ app.services \in Seq(Services) /\ app.crons \in Seq(AppJob)
      /\ Wired(app, ms) /\ ms \subseteq DOMAIN Modules /\ None \notin DOMAIN Modules
  BY RegistrationAssumption DEF AppInv, Wired, Apps, Contributors
<1> HIDE DEF ms
<1>2. SUFFICES /\ app' \in Apps /\ app'.plugins = app.plugins /\ Owned(app') /\ SocketsMounted(app')
               /\ NamesExplained(app'.routes, app.plugins) /\ Shadowed(app'.routes, ms) /\ Named(app'.routes, ms)
               /\ JobsMerged(app'.crons) /\ refused' = refused /\ RoutesKept(app.routes, app'.routes)
  BY <1>1 DEF AppInv, Wired, Contributors, ms
<1>3. RoutesKept(app.routes, app.routes)
  BY DEF RoutesKept
<1>4. ASSUME NEW s \in Services, UseCall(s)
      PROVE  /\ app' \in Apps /\ app'.plugins = app.plugins /\ Owned(app') /\ SocketsMounted(app')
             /\ NamesExplained(app'.routes, app.plugins) /\ Shadowed(app'.routes, ms) /\ Named(app'.routes, ms)
             /\ JobsMerged(app'.crons) /\ refused' = refused /\ RoutesKept(app.routes, app'.routes)
  <2>1. Append(app.services, s) \in Seq(Services)
    BY <1>1, AppendProperties
  <2>2. /\ app' \in Apps /\ app'.plugins = app.plugins /\ app'.modules = app.modules /\ app'.routes = app.routes
        /\ app'.wsRoutes = app.wsRoutes /\ app'.wsAdapter = app.wsAdapter /\ app'.crons = app.crons
        /\ refused' = refused
    BY <1>1, <1>4, <2>1 DEF UseCall, Apps
  <2>3. QED
    BY <1>1, <1>3, <2>2 DEF Wired, Owned, SocketsMounted
<1>5. ASSUME NEW path \in AppCalls, GetCall(path)
      PROVE  /\ app' \in Apps /\ app'.plugins = app.plugins /\ Owned(app') /\ SocketsMounted(app')
             /\ NamesExplained(app'.routes, app.plugins) /\ Shadowed(app'.routes, ms) /\ Named(app'.routes, ms)
             /\ JobsMerged(app'.crons) /\ refused' = refused /\ RoutesKept(app.routes, app'.routes)
  <2> DEFINE r == [method |-> "GET", path |-> path, guards |-> <<>>, optOut |-> FALSE, module |-> None, plugin |-> None]
  <2>1. r \in AppRoute
    BY DEF AppRoute, Owners
  <2>2. r.plugin = None /\ r.module = None
    OBVIOUS
  <2>3. app' = [app EXCEPT !.routes = Append(@, r)] /\ refused' = refused
    BY <1>5 DEF GetCall
  <2> HIDE DEF r
  <2>4. Append(app.routes, r) \in Seq(AppRoute)
    BY <1>1, <2>1, AppendProperties
  <2>5. /\ app' \in Apps /\ app'.plugins = app.plugins /\ app'.modules = app.modules
        /\ app'.routes = Append(app.routes, r)
        /\ app'.wsRoutes = app.wsRoutes /\ app'.wsAdapter = app.wsAdapter /\ app'.crons = app.crons
    BY <1>1, <2>3, <2>4 DEF Apps
  <2>6. /\ Len(app.routes) \in Nat /\ DOMAIN app.routes = 1 .. Len(app.routes)
        /\ DOMAIN app'.routes = 1 .. Len(app.routes) + 1 /\ app'.routes[Len(app.routes) + 1] = r
        /\ \A i \in DOMAIN app.routes : i \in DOMAIN app'.routes /\ app'.routes[i] = app.routes[i]
        /\ \A i \in DOMAIN app'.routes : i \in DOMAIN app.routes \/ app'.routes[i] = r
    BY <1>1, <2>1, <2>5
  <2>7. Owned(app')
    BY <1>1, <2>2, <2>5, <2>6 DEF Wired, Owned
  <2>8. NamesExplained(app'.routes, app.plugins)
    BY <1>1, <2>2, <2>6 DEF Wired, NamesExplained
  <2>9. Shadowed(app'.routes, ms)
    <3>1. ASSUME NEW i \in DOMAIN app'.routes, app'.routes[i].plugin = None, app'.routes[i].module \in ms
          PROVE  \E j \in DOMAIN app'.routes :
                   /\ j < i /\ app'.routes[j].plugin # None /\ app'.routes[j].module = app'.routes[i].module
                   /\ app'.routes[j].method = app'.routes[i].method /\ app'.routes[j].path = app'.routes[i].path
      <4>1. i \in DOMAIN app.routes
        BY <1>1, <2>2, <2>6, <3>1
      <4>2. PICK j \in DOMAIN app.routes :
              /\ j < i /\ app.routes[j].plugin # None /\ app.routes[j].module = app.routes[i].module
              /\ app.routes[j].method = app.routes[i].method /\ app.routes[j].path = app.routes[i].path
        BY <1>1, <2>6, <3>1, <4>1 DEF Wired, Shadowed
      <4>3. QED
        BY <2>6, <4>1, <4>2
    <3>2. QED
      BY <3>1 DEF Shadowed
  <2>10. Named(app'.routes, ms)
    <3>1. ASSUME NEW m \in ms, NEW k \in 1 .. Len(Mounted(m))
          PROVE  \E j \in DOMAIN app'.routes :
                   /\ app'.routes[j].plugin # None /\ app'.routes[j].module = m
                   /\ app'.routes[j].method = Mounted(m)[k].method /\ app'.routes[j].path = Mounted(m)[k].path
      <4>1. PICK j \in DOMAIN app.routes :
              /\ app.routes[j].plugin # None /\ app.routes[j].module = m
              /\ app.routes[j].method = Mounted(m)[k].method /\ app.routes[j].path = Mounted(m)[k].path
        BY <1>1 DEF Wired, Named
      <4>2. QED
        BY <2>6, <4>1
    <3>2. QED
      BY <3>1 DEF Named
  <2>11. RoutesKept(app.routes, app'.routes)
    BY <2>6 DEF RoutesKept
  <2>12. QED
    BY <1>1, <2>3, <2>5, <2>7, <2>8, <2>9, <2>10, <2>11 DEF Wired, SocketsMounted
<1>6. ASSUME NEW path \in AppCalls, WsCall(path)
      PROVE  /\ app' \in Apps /\ app'.plugins = app.plugins /\ Owned(app') /\ SocketsMounted(app')
             /\ NamesExplained(app'.routes, app.plugins) /\ Shadowed(app'.routes, ms) /\ Named(app'.routes, ms)
             /\ JobsMerged(app'.crons) /\ refused' = refused /\ RoutesKept(app.routes, app'.routes)
  <2> DEFINE r == RegisterRoutes(app.wsRoutes, {path}, None)
  <2> DEFINE one == {path}
  <2>1. /\ r \in AppSockets /\ DOMAIN r = DOMAIN app.wsRoutes \cup one
        /\ \A p \in DOMAIN app.wsRoutes \cup one : r[p] = IF p \in one THEN None ELSE app.wsRoutes[p]
    <3>1. one \in SUBSET WsPaths /\ None \in Owners
      BY DEF WsPaths, Owners
    <3>2. Takes(r, app.wsRoutes, one, None)
      BY <1>1, <3>1, RoutesRegistered
    <3> HIDE DEF one, r
    <3>3. QED
      BY <3>2 DEF Takes
  <2>2. app' = [app EXCEPT !.wsRoutes = r] /\ refused' = refused
    BY <1>6 DEF WsCall
  <2> HIDE DEF r
  <2>3. /\ app' \in Apps /\ app'.plugins = app.plugins /\ app'.modules = app.modules /\ app'.routes = app.routes
        /\ app'.wsRoutes = r /\ app'.wsAdapter = app.wsAdapter /\ app'.crons = app.crons
    BY <1>1, <2>1, <2>2 DEF Apps
  <2>4. Owned(app')
    <3>1. \A p \in DOMAIN app.wsRoutes : app.wsRoutes[p] \in ToSet(app.modules) \cup {None}
      BY <1>1 DEF Wired, Owned
    <3>2. \A p \in DOMAIN r : r[p] \in ToSet(app.modules) \cup {None}
      BY <2>1, <3>1
    <3>3. QED
      BY <1>1, <2>3, <3>2 DEF Wired, Owned
  <2>5. SocketsMounted(app')
    <3>1. SUFFICES ASSUME app.wsAdapter PROVE SocketsOf(r, app.modules, Len(app.modules))
      BY <2>3 DEF SocketsMounted
    <3>2. SocketsOf(app.wsRoutes, app.modules, Len(app.modules))
      BY <1>1, <3>1 DEF Wired, SocketsMounted
    <3>3. QED
      BY <2>1, <3>2 DEF SocketsOf
  <2>6. QED
    BY <1>1, <1>3, <2>2, <2>3, <2>4, <2>5 DEF Wired
<1>7. ASSUME NEW m \in DOMAIN Modules, NEW i \in DOMAIN Modules[m].crons, CronCall(Modules[m].crons[i])
      PROVE  /\ app' \in Apps /\ app'.plugins = app.plugins /\ Owned(app') /\ SocketsMounted(app')
             /\ NamesExplained(app'.routes, app.plugins) /\ Shadowed(app'.routes, ms) /\ Named(app'.routes, ms)
             /\ JobsMerged(app'.crons) /\ refused' = refused /\ RoutesKept(app.routes, app'.routes)
  <2> DEFINE declared == Modules[m].crons[i]
             job      == [name |-> declared.name, module |-> None, services |-> declared.services]
  <2>1. job \in AppJob /\ job.module = None
    <3>1. declared \in ToSet(Modules[m].crons)
      BY DEF ToSet
    <3>2. declared.services \in Seq(DOMAIN KeyOf)
      BY <3>1, RegistrationAssumption
    <3>3. QED
      BY <3>1, <3>2 DEF AppJob, Owners
  <2>2. app' = [app EXCEPT !.crons = Append(@, job)] /\ refused' = refused
    BY <1>7 DEF CronCall
  <2> HIDE DEF job, declared
  <2>3. Append(app.crons, job) \in Seq(AppJob)
    BY <1>1, <2>1, AppendProperties
  <2>4. /\ app' \in Apps /\ app'.plugins = app.plugins /\ app'.modules = app.modules /\ app'.routes = app.routes
        /\ app'.wsRoutes = app.wsRoutes /\ app'.wsAdapter = app.wsAdapter /\ app'.crons = Append(app.crons, job)
    BY <1>1, <2>2, <2>3 DEF Apps
  <2>5. \A n \in DOMAIN app'.crons : (n \in DOMAIN app.crons /\ app'.crons[n] = app.crons[n]) \/ app'.crons[n] = job
    BY <1>1, <2>1, <2>4
  <2>6. Owned(app')
    BY <1>1, <2>1, <2>4, <2>5 DEF Wired, Owned
  <2>7. JobsMerged(app'.crons)
    BY <1>1, <2>1, <2>5 DEF Wired, JobsMerged
  <2>8. QED
    BY <1>1, <1>3, <2>2, <2>4, <2>6, <2>7 DEF Wired, SocketsMounted
<1>8. ASSUME RegisterWsAdapter
      PROVE  /\ app' \in Apps /\ app'.plugins = app.plugins /\ Owned(app') /\ SocketsMounted(app')
             /\ NamesExplained(app'.routes, app.plugins) /\ Shadowed(app'.routes, ms) /\ Named(app'.routes, ms)
             /\ JobsMerged(app'.crons) /\ refused' = refused /\ RoutesKept(app.routes, app'.routes)
  <2> DEFINE mounted == AllMounted(app.modules)
  <2>1. /\ mounted \in AppSockets
        /\ \A path \in DOMAIN mounted : mounted[path] \in ToSet(app.modules)
        /\ SocketsOf(mounted, app.modules, Len(app.modules))
    BY <1>1, AllSocketsMounted
  <2>2. app' = [app EXCEPT !.wsAdapter = TRUE, !.wsRoutes = mounted] /\ refused' = refused
    BY <1>8 DEF RegisterWsAdapter
  <2> HIDE DEF mounted
  <2>3. /\ app' \in Apps /\ app'.plugins = app.plugins /\ app'.modules = app.modules /\ app'.routes = app.routes
        /\ app'.wsRoutes = mounted /\ app'.crons = app.crons
    BY <1>1, <2>1, <2>2 DEF Apps
  <2>4. Owned(app')
    BY <1>1, <2>1, <2>3 DEF Wired, Owned
  <2>5. SocketsMounted(app')
    BY <2>1, <2>3 DEF SocketsMounted
  <2>6. QED
    BY <1>1, <1>3, <2>2, <2>3, <2>4, <2>5 DEF Wired
<1>9. QED
  BY <1>4, <1>5, <1>6, <1>7, <1>8

\* Every call leaves an application wired, and no route loses its name.
LEMMA StepApp == AppInv /\ [AppNext]_appVars => AppInv' /\ RoutesKept(app.routes, app'.routes)
<1> SUFFICES ASSUME AppInv, [AppNext]_appVars PROVE AppInv' /\ RoutesKept(app.routes, app'.routes)
  OBVIOUS
<1>1. /\ Wired(app, Contributors(app)) /\ refused \subseteq {"PLUGIN_MISSING_DEP", "NO_WS_ADAPTER"}
      /\ app \in Apps /\ app.plugins \in Seq(DOMAIN Plugins) /\ app.routes \in Seq(AppRoute)
  BY DEF AppInv, Wired, Apps
<1>2. ASSUME UNCHANGED app, refused' \subseteq {"PLUGIN_MISSING_DEP", "NO_WS_ADAPTER"}
      PROVE  AppInv' /\ RoutesKept(app.routes, app'.routes)
  <2>1. app' = app
    BY <1>2
  <2>2. RoutesKept(app.routes, app'.routes)
    BY <2>1 DEF RoutesKept
  <2>3. QED
    BY <1>1, <1>2, <2>1, <2>2 DEF AppInv
<1>3. ASSUME NEW p \in DOMAIN Plugins, PluginCall(p)
      PROVE  AppInv' /\ RoutesKept(app.routes, app'.routes)
  <2>1. app' = Contributed(app, p) /\ refused' = refused /\ Missing(p) = {}
    BY <1>3 DEF PluginCall
  <2> DEFINE longer == Append(app.plugins, p)
  <2>2. /\ Len(app.plugins) \in Nat /\ DOMAIN app.plugins = 1 .. Len(app.plugins)
        /\ DOMAIN longer = 1 .. Len(app.plugins) + 1 /\ longer[Len(app.plugins) + 1] = p
        /\ \A i \in 1 .. Len(app.plugins) : longer[i] = app.plugins[i]
    BY <1>1, AppendProperties
  <2> HIDE DEF longer
  <2>3. ASSUME NEW i \in DOMAIN longer, NEW dep \in ToSet(Plugins[longer[i]].requires)
        PROVE  \E j \in 1 .. i - 1 : Plugins[longer[j]].name = dep
    <3>1. CASE i \in DOMAIN app.plugins
      <4>1. PICK j \in 1 .. i - 1 : Plugins[app.plugins[j]].name = dep
        BY <1>1, <2>2, <2>3, <3>1 DEF Wired, Required
      <4>2. longer[j] = app.plugins[j]
        BY <2>2, <3>1, <4>1
      <4>3. QED
        BY <4>1, <4>2
    <3>2. CASE i \notin DOMAIN app.plugins
      <4>1. i = Len(app.plugins) + 1 /\ longer[i] = p
        BY <2>2, <3>2
      <4>2. PICK j \in DOMAIN app.plugins : Plugins[app.plugins[j]].name = dep
        BY <2>1, <2>3, <4>1 DEF Missing
      <4>3. j \in 1 .. i - 1 /\ longer[j] = app.plugins[j]
        BY <2>2, <4>1
      <4>4. QED
        BY <4>2, <4>3
    <3>3. QED
      BY <3>1, <3>2
  <2>4. Required(longer)
    BY <2>3 DEF Required
  <2>5. Wired(app', Contributors(app')) /\ RoutesKept(app.routes, app'.routes)
    BY <1>1, <2>1, <2>4, ContributedWired DEF longer
  <2>6. QED
    BY <1>1, <2>1, <2>5 DEF AppInv
<1>4. ASSUME NEW m \in DOMAIN Modules, RegisterCall(m)
      PROVE  AppInv' /\ RoutesKept(app.routes, app'.routes)
  <2> DEFINE c == Registered(app, m)
  <2>1. app' = c /\ refused' = refused
    BY <1>4 DEF RegisterCall
  <2>2. /\ c \in Apps /\ c.plugins = app.plugins /\ c.wsAdapter = app.wsAdapter
        /\ c.modules = Append(app.modules, m) /\ c.routes = app.routes \o Mounted(m)
        /\ c.wsRoutes = IF app.wsAdapter THEN RegisterRoutes(app.wsRoutes, SocketPaths(m), m) ELSE app.wsRoutes
        /\ c.crons = app.crons \o Jobs(m)
    BY <1>1, RegisteredFields
  <2> HIDE DEF c
  <2>3. RoutesGrow(app.routes, c.routes, m, None)
    <3>1. /\ Mounted(m) \in Seq(AppRoute) /\ Len(Mounted(m)) \in Nat
          /\ \A k \in 1 .. Len(Mounted(m)) : Mounted(m)[k].module = m /\ Mounted(m)[k].plugin = None
      <4>1. Mounted(m) \in Seq(AppRoute)
        BY ModuleParts
      <4>2. \A k \in DOMAIN Mounted(m) : Mounted(m)[k].module = m /\ Mounted(m)[k].plugin = None
        BY DEF Mounted
      <4>3. QED
        BY <4>1, <4>2
    <3>2. /\ Len(app.routes) \in Nat /\ DOMAIN app.routes = 1 .. Len(app.routes)
          /\ DOMAIN c.routes = 1 .. Len(app.routes) + Len(Mounted(m))
          /\ \A i \in 1 .. Len(app.routes) : c.routes[i] = app.routes[i]
          /\ \A i \in 1 .. Len(app.routes) + Len(Mounted(m)) :
               i > Len(app.routes) => c.routes[i] = Mounted(m)[i - Len(app.routes)]
      BY <1>1, <2>2, <3>1, ConcatProperties
    <3>3. ASSUME NEW k \in 1 .. Len(Mounted(m)) PROVE c.routes[Len(app.routes) + k] = Mounted(m)[k]
      <4>1. /\ Len(app.routes) + k \in 1 .. Len(app.routes) + Len(Mounted(m))
            /\ Len(app.routes) + k > Len(app.routes) /\ (Len(app.routes) + k) - Len(app.routes) = k
        BY <3>1, <3>2
      <4>2. QED
        BY <3>2, <4>1
    <3>4. QED
      BY <3>1, <3>2, <3>3 DEF RoutesGrow
  <2>4. Wired(c, Contributors(app)) /\ RoutesKept(app.routes, c.routes)
    BY <1>1, <2>2, <2>3, RegisteredWired
  <2>5. Contributors(c) = Contributors(app)
    BY <2>2 DEF Contributors
  <2>6. QED
    BY <1>1, <2>1, <2>4, <2>5 DEF AppInv
<1>5. CASE UNCHANGED appVars
  BY <1>1, <1>2, <1>5 DEF appVars
<1>6. ASSUME NEW p \in DOMAIN Plugins, PluginRefused(p)
      PROVE  AppInv' /\ RoutesKept(app.routes, app'.routes)
  BY <1>1, <1>2, <1>6 DEF PluginRefused
<1>7. ASSUME NEW path \in AppCalls, WsRefused(path)
      PROVE  AppInv' /\ RoutesKept(app.routes, app'.routes)
  BY <1>1, <1>2, <1>7 DEF WsRefused
<1>8. QED
  BY <1>3, <1>4, <1>5, <1>6, <1>7, OtherCalls DEF AppNext

LEMMA AppInductive == AppSpec => []AppInv
<1>1. AppInit => AppInv
  BY InitApp
<1>2. AppInv /\ [AppNext]_appVars => AppInv'
  BY StepApp
<1>3. QED
  BY <1>1, <1>2, PTL DEF AppSpec

-----------------------------------------------------------------------------
(* What the invariant is for *)

\* The route fetch() finds is the first of its method and path.
LEMMA FetchFindsFirst ==
  ASSUME app.routes \in Seq(AppRoute), NEW i \in DOMAIN app.routes
  PROVE  LET r == app.routes[i]
             n == FetchRoute(r.method, r.path)
         IN /\ n \in DOMAIN app.routes /\ app.routes[n].method = r.method /\ app.routes[n].path = r.path
            /\ \A j \in DOMAIN app.routes :
                 app.routes[j].method = r.method /\ app.routes[j].path = r.path => n <= j
<1> DEFINE r == app.routes[i]
           M == Matching(r.method, r.path)
<1>1. M \subseteq Nat /\ M # {}
  BY DEF Matching
<1> HIDE DEF M
<1>2. PICK n \in M : \A j \in M : ~ (<<j, n>> \in OpToRel(<, Nat))
  BY <1>1, NatLessThanWellFounded, WFMin, Zenon
<1>3. \A j \in M : ~ (j < n)
  BY <1>1, <1>2, Zenon DEF OpToRel
<1>4. \A j \in M : n <= j
  BY <1>1, <1>3
<1>5. FetchRoute(r.method, r.path) \in M /\ \A j \in M : FetchRoute(r.method, r.path) <= j
  BY <1>4, Zenon DEF FetchRoute, M
<1>6. QED
  BY <1>5 DEF M, Matching

\* The plugin whose guards such a route is held to is one that contributes
\* its module.
LEMMA ServedIsGated == ASSUME PluginNamesDiffer, AppInv PROVE ServedRouteIsGated
<1>1. /\ Wired(app, Contributors(app)) /\ app.routes \in Seq(AppRoute)
      /\ app.plugins \in Seq(DOMAIN Plugins)
  BY DEF AppInv, Wired, Apps
<1>2. SUFFICES ASSUME NEW i \in DOMAIN app.routes
               PROVE  Gated(FetchRoute(app.routes[i].method, app.routes[i].path))
  BY DEF ServedRouteIsGated, RoutePaths
<1> DEFINE n == FetchRoute(app.routes[i].method, app.routes[i].path)
           r == app.routes[n]
<1>3. /\ n \in DOMAIN app.routes /\ r.method = app.routes[i].method /\ r.path = app.routes[i].path
      /\ \A j \in DOMAIN app.routes : app.routes[j].method = r.method /\ app.routes[j].path = r.path => n <= j
  BY <1>1, FetchFindsFirst
<1> HIDE DEF n
<1>4. r \in AppRoute /\ n \in Nat
  BY <1>1, <1>3
<1>5. CASE r.plugin # None
  <2>1. PICK p \in ToSet(app.plugins) : Contributes(p, r.module) /\ Plugins[p].name = r.plugin
    BY <1>1, <1>3, <1>5 DEF Wired, NamesExplained
  <2> DEFINE named == {k \in DOMAIN app.plugins : Plugins[app.plugins[k]].name = r.plugin}
  <2>2. named # {} /\ named \subseteq Nat
    BY <1>1, <2>1 DEF ToSet
  <2> HIDE DEF named
  <2>3. PICK k \in named : \A j \in named : ~ (<<j, k>> \in OpToRel(<, Nat))
    BY <2>2, NatLessThanWellFounded, WFMin, Zenon
  <2>4. \A j \in named : ~ (j < k)
    BY <2>2, <2>3, Zenon DEF OpToRel
  <2>5. \A j \in named : k <= j
    BY <2>2, <2>4
  <2> DEFINE first == CHOOSE j \in named : \A l \in named : j <= l
  <2>6. first \in named
    BY <2>5, Zenon
  <2>7. GatingPlugin(r) = app.plugins[first]
    BY <1>5, <2>2 DEF GatingPlugin, named
  <2> HIDE DEF first
  <2>8. app.plugins[first] \in DOMAIN Plugins /\ Plugins[app.plugins[first]].name = r.plugin /\ p \in DOMAIN Plugins
    <3>1. first \in DOMAIN app.plugins /\ Plugins[app.plugins[first]].name = r.plugin
      BY <2>6 DEF named
    <3>2. \A q \in ToSet(app.plugins) : q \in DOMAIN Plugins
      BY <1>1 DEF ToSet
    <3>3. QED
      BY <1>1, <3>1, <3>2
  <2>9. app.plugins[first] = p
    BY <2>1, <2>8 DEF PluginNamesDiffer
  <2>10. QED
    BY <2>1, <2>7, <2>9 DEF Gated, Listing, Contributes, n
<1>6. CASE r.plugin = None
  <2>1. r.module \notin Contributors(app)
    <3>1. ASSUME r.module \in Contributors(app) PROVE FALSE
      <4>1. PICK j \in DOMAIN app.routes :
              /\ j < n /\ app.routes[j].plugin # None /\ app.routes[j].module = r.module
              /\ app.routes[j].method = r.method /\ app.routes[j].path = r.path
        BY <1>1, <1>3, <1>6, <3>1 DEF Wired, Shadowed
      <4>2. n <= j /\ j \in Nat
        BY <1>1, <1>3, <4>1
      <4>3. QED
        BY <1>4, <4>1, <4>2
    <3>2. QED
      BY <3>1
  <2>2. Listing(r.module) = {}
    <3>1. \A p \in ToSet(app.plugins) :
            p \in DOMAIN Plugins /\ \A m \in ToSet(Plugins[p].modules) : m \in DOMAIN Modules
      <4>1. \A p \in ToSet(app.plugins) : p \in DOMAIN Plugins
        BY <1>1 DEF ToSet
      <4>2. ASSUME NEW p \in DOMAIN Plugins, NEW m \in ToSet(Plugins[p].modules) PROVE m \in DOMAIN Modules
        <5>1. Plugins[p].modules \in Seq(DOMAIN Modules)
          BY RegistrationAssumption
        <5>2. QED
          BY <4>2, <5>1 DEF ToSet
      <4>3. QED
        BY <4>1, <4>2
    <3>2. QED
      BY <2>1, <3>1 DEF Listing, Contributors, Contributes
  <2>3. QED
    BY <2>2 DEF Gated, n
<1>7. QED
  BY <1>5, <1>6

\* A list put behind another leaves the first of a key in it the first.
LEMMA JoinedKeys ==
  ASSUME NEW S, NEW s \in Seq(S), NEW t \in Seq(S)
  PROVE  /\ KeysIn(s \o t) \subseteq KeysIn(s) \cup KeysIn(t)
         /\ \A key, x : FirstIs(s, key, x) => FirstIs(s \o t, key, x)
<1> DEFINE u == s \o t
<1>1. /\ DOMAIN s = 1 .. Len(s) /\ DOMAIN t = 1 .. Len(t) /\ Len(s) \in Nat /\ Len(t) \in Nat
      /\ DOMAIN u = 1 .. Len(s) + Len(t)
      /\ \A i \in 1 .. Len(s) : u[i] = s[i]
      /\ \A i \in 1 .. Len(s) + Len(t) : i > Len(s) => u[i] = t[i - Len(s)]
  BY ConcatProperties
<1> HIDE DEF u
<1>2. ASSUME NEW i \in DOMAIN u PROVE KeyOf[u[i]] \in KeysIn(s) \cup KeysIn(t)
  <2>1. CASE i <= Len(s)
    BY <1>1, <2>1 DEF KeysIn
  <2>2. CASE i > Len(s)
    <3>1. i - Len(s) \in DOMAIN t /\ u[i] = t[i - Len(s)]
      BY <1>1, <2>2
    <3>2. QED
      BY <3>1 DEF KeysIn
  <2>3. QED
    BY <1>1, <2>1, <2>2
<1>3. KeysIn(u) \subseteq KeysIn(s) \cup KeysIn(t)
  <2>1. \A key \in KeysIn(u) : \E i \in DOMAIN u : key = KeyOf[u[i]]
    BY DEF KeysIn
  <2>2. QED
    BY <1>2, <2>1
<1>4. ASSUME NEW key, NEW x, FirstIs(s, key, x) PROVE FirstIs(u, key, x)
  <2>1. PICK i \in DOMAIN s : s[i] = x /\ KeyOf[x] = key /\ \A j \in 1 .. i - 1 : KeyOf[s[j]] # key
    BY <1>4 DEF FirstIs
  <2>2. i \in DOMAIN u /\ u[i] = x
    BY <1>1, <2>1
  <2>3. ASSUME NEW j \in 1 .. i - 1 PROVE KeyOf[u[j]] # key
    BY <1>1, <2>1
  <2>4. QED
    BY <2>1, <2>2, <2>3 DEF FirstIs
<1>5. QED
  BY <1>3, <1>4 DEF u

\* A merged job has what it should have.
LEMMA JobsAgree == ASSUME AppInv PROVE JobsAgreeWithHandlers
<1>1. /\ JobsMerged(app.crons) /\ app.crons \in Seq(AppJob) /\ app.services \in Seq(Services)
  BY DEF AppInv, Wired, Apps
<1>2. SUFFICES ASSUME NEW i \in DOMAIN app.crons, app.crons[i].module # None
               PROVE  \E job \in ToSet(Modules[app.crons[i].module].crons) :
                        /\ job.name = app.crons[i].name
                        /\ \A key \in KeysIn(Modules[app.crons[i].module].services \o job.services) :
                             FirstOf(app.crons[i].services, key) =
                               IF key \in KeysIn(job.services) THEN FirstOf(job.services, key)
                               ELSE FirstOf(AllServices(app.crons[i].module), key)
  BY DEF JobsAgreeWithHandlers
<1> DEFINE m        == app.crons[i].module
           declared == Modules[m].services
           S        == DOMAIN KeyOf
<1>3. PICK job \in ToSet(Modules[m].crons) :
        job.name = app.crons[i].name /\ app.crons[i].services = JobServices(job, Modules[m])
  BY <1>1, <1>2 DEF JobsMerged
<1>4. m \in DOMAIN Modules
  <2>1. app.crons[i] \in AppJob
    BY <1>1
  <2>2. QED
    BY <1>2, <2>1 DEF AppJob, Owners
<1>5. declared \in Seq(S) /\ job.services \in Seq(S)
  BY <1>3, <1>4, RegistrationAssumption
<1> HIDE DEF m
<1>6. ASSUME NEW key \in KeysIn(declared \o job.services)
      PROVE  FirstOf(app.crons[i].services, key) =
               IF key \in KeysIn(job.services) THEN FirstOf(job.services, key) ELSE FirstOf(AllServices(m), key)
  <2> DEFINE merged == JobServices(job, Modules[m])
  <2>1. /\ merged \in Seq(S)
        /\ \A k, s : FirstIs(job.services, k, s) => FirstIs(merged, k, s)
        /\ \A k, s : k \notin KeysIn(job.services) /\ FirstIs(declared, k, s) => FirstIs(merged, k, s)
    BY <1>5, JobServicesMerge
  <2>2. CASE key \in KeysIn(job.services)
    <3>1. PICK s \in S : FirstIs(job.services, key, s)
      BY <1>5, <2>2, FirstExists
    <3>2. FirstIs(merged, key, s)
      BY <2>1, <3>1
    <3> HIDE DEF merged
    <3>3. FirstOf(job.services, key) = s /\ FirstOf(merged, key) = s
      BY <1>5, <2>1, <3>1, <3>2, FirstIsFirst
    <3>4. QED
      BY <1>3, <2>2, <3>3 DEF merged
  <2>3. CASE key \notin KeysIn(job.services)
    <3>1. key \in KeysIn(declared)
      <4> HIDE DEF declared, S
      <4>1. KeysIn(declared \o job.services) \subseteq KeysIn(declared) \cup KeysIn(job.services)
        BY <1>5, JoinedKeys
      <4>2. QED
        BY <1>6, <2>3, <4>1
    <3>2. PICK s \in S : FirstIs(declared, key, s)
      BY <1>5, <3>1, FirstExists
    <3>3. FirstIs(merged, key, s)
      BY <2>1, <2>3, <3>2
    <3>4. Declared(m) = declared \o app.services /\ app.services \in Seq(S)
      <4>1. m # None /\ Services \subseteq S
        BY <1>4, RegistrationAssumption
      <4>2. app.services \in Seq(S)
        <5> HIDE DEF S
        <5>1. /\ app.services = [k \in 1 .. Len(app.services) |-> app.services[k]] /\ Len(app.services) \in Nat
              /\ \A k \in 1 .. Len(app.services) : app.services[k] \in S
          BY <1>1, <4>1
        <5>2. app.services \in [1 .. Len(app.services) -> S]
          BY <5>1
        <5>3. QED
          BY <5>1, <5>2
      <4>3. QED
        BY <4>1, <4>2 DEF Declared
    <3>5. Declared(m) \in Seq(S)
      <4> HIDE DEF declared, S
      <4>1. QED
        BY <1>5, <3>4, ConcatProperties
    <3>6. FirstIs(Declared(m), key, s)
      <4> HIDE DEF declared, S
      <4>1. \A k, x : FirstIs(declared, k, x) => FirstIs(declared \o app.services, k, x)
        BY <1>5, <3>4, JoinedKeys
      <4>2. QED
        BY <3>2, <3>4, <4>1
    <3>7. AllServices(m) \in Seq(S) /\ FirstIs(AllServices(m), key, s)
      BY <3>5, <3>6, AllServicesMerge
    <3> HIDE DEF merged
    <3>8. FirstOf(merged, key) = s /\ FirstOf(AllServices(m), key) = s
      BY <2>1, <3>3, <3>7, FirstIsFirst
    <3>9. QED
      BY <1>3, <2>3, <3>8 DEF merged
  <2>4. QED
    BY <2>2, <2>3
<1>7. QED
  BY <1>3, <1>6 DEF m

\* Whatever the order of the calls that set an application up, and for all
\* modules and plugins: what is mounted belongs to a registered module, the
\* route fetch() picks is held to the guards and permissions of a plugin that
\* contributes its module, plugins stand behind those they require, jobs have
\* the services of their module's handlers, and the last registration of a
\* socket's path is the one mounted.  Guards are found by name, so no two
\* plugins may share one: plugin() does not look.
THEOREM WiringHolds == ASSUME PluginNamesDiffer PROVE AppSpec => []WiredAsDeclared
<1>1. ASSUME AppInv PROVE WiredAsDeclared
  <2>1. Wired(app, Contributors(app)) /\ app \in Apps /\ app.modules \in Seq(DOMAIN Modules)
    BY <1>1 DEF AppInv, Wired, Apps
  <2>2. AppTypeOK
    BY <1>1, <2>1 DEF AppTypeOK, AppInv, Wired, Owned
  <2>3. ServedRouteIsGated
    BY <1>1, ServedIsGated
  <2>4. DependenciesPrecede
    BY <2>1 DEF DependenciesPrecede, Wired, Required
  <2>5. JobsAgreeWithHandlers
    BY <1>1, JobsAgree
  <2>6. SocketsAreMounted
    BY <2>1 DEF Wired, SocketsMounted, SocketsOf, SocketsAreMounted
  <2>7. QED
    BY <2>2, <2>3, <2>4, <2>5, <2>6 DEF WiredAsDeclared
<1>2. QED
  BY <1>1, AppInductive, PTL

\* No call moves a route or takes it from one plugin to another.
THEOREM TagsStay == AppSpec => TagsAreKept
<1>1. AppInv /\ [AppNext]_appVars =>
        [\A i \in DOMAIN app.routes :
           /\ app'.routes[i].module = app.routes[i].module
           /\ app.routes[i].plugin # None => app'.routes[i].plugin = app.routes[i].plugin]_appVars
  BY StepApp DEF RoutesKept
<1>2. QED
  BY <1>1, AppInductive, PTL DEF AppSpec, TagsAreKept
=============================================================================
