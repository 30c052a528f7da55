------------------------------ MODULE RateLimit ------------------------------
(***************************************************************************)
(* rateLimitPlugin() in front of InMemoryStore                             *)
(* (packages/core/src/app/rate-limit.ts): a fixed window per key, a        *)
(* probabilistic sweep, and eviction when the map is full.                 *)
(*                                                                         *)
(* increment() has no await before it has updated the map, so a request is *)
(* one step.  The map is a sequence because sort() keeps the insertion     *)
(* order of entries that expire together.                                  *)
(***************************************************************************)
EXTENDS Integers, Sequences, FiniteSets

CONSTANTS
  Clients,      \* who sends requests
  Forwarded,    \* of each client, the last entry of X-Forwarded-For, or Missing
  RealIp,       \* of each client, x-real-ip, or Missing
  TrustProxy,   \* "no", "yes" or "strict"
  Unknown,      \* the key of requests that cannot be told apart
  Missing,
  Limit,        \* max
  Window,       \* windowMs, in ticks
  MaxEntries,   \* the cap of the map
  MaxTime,      \* bound: ticks
  MaxCalls      \* bound: requests

Keys == ({Unknown} \cup {Forwarded[c] : c \in Clients} \cup {RealIp[c] : c \in Clients}) \ {Missing}

ASSUME RateAssumption ==
  /\ TrustProxy \in {"no", "yes", "strict"} /\ Unknown # Missing
  /\ Limit \in Nat /\ Window \in Nat \ {0} /\ MaxEntries \in Nat \ {0}
  /\ MaxTime \in Nat /\ MaxCalls \in Nat

VARIABLES
  now,        \* Date.now()
  entries,    \* the map: [key, count, resetAt]
  last,       \* the last request: its key and what became of it
  passes,     \* history: when requests of a key passed
  until,      \* history: resetAt of the last refusal of a key
  forgotten,  \* history: keys whose counter was evicted or reset inside its window
  calls

rateVars == <<entries, last, passes, until, forgotten, calls>>

Verdicts == {"none", "pass", "refused", "bad"}
Entry    == [key : Keys, count : 1 .. MaxCalls, resetAt : 1 .. MaxTime + Window]

RateTypeOK ==
  /\ now \in 0 .. MaxTime
  /\ entries \in Seq(Entry)
  /\ last \in [key : Keys \cup {Missing}, verdict : Verdicts]
  /\ passes \in [Keys -> Seq(0 .. MaxTime)]
  /\ until \in [Keys -> 0 .. MaxTime + Window]
  /\ forgotten \subseteq Keys
  /\ calls \in 0 .. MaxCalls

RateInit ==
  /\ now = 0 /\ entries = <<>> /\ calls = 0
  /\ last = [key |-> Missing, verdict |-> "none"]
  /\ passes = [k \in Keys |-> <<>>] /\ until = [k \in Keys |-> 0]
  /\ forgotten = {}

-----------------------------------------------------------------------------
(* InMemoryStore *)

Live(e)    == now < e.resetAt
KeysOf(es) == {es[n].key : n \in DOMAIN es}

\* The entries that stay when the others are deleted, in their order; `stays`
\* holds their positions.
Kept(es, stays) ==
  [n \in 1 .. Cardinality(stays) |->
     es[CHOOSE i \in stays : Cardinality({j \in stays : j < i}) = n - 1]]

Without(es, keys) == Kept(es, {n \in DOMAIN es : es[n].key \notin keys})
Sweep(es)         == Kept(es, {n \in DOMAIN es : Live(es[n])})

\* A fifth of the map, but at least one entry.
NumEvicted == IF MaxEntries \div 5 > 1 THEN MaxEntries \div 5 ELSE 1

\* The keys of the entries that expire first.
Evicted(es) ==
  LET Before(m, n) == es[m].resetAt < es[n].resetAt \/ (es[m].resetAt = es[n].resetAt /\ m < n)
  IN {es[n].key : n \in {n \in DOMAIN es :
        Cardinality({m \in DOMAIN es : Before(m, n)}) < NumEvicted}}

\* Mutant of InWindow: the window lasts a tick too long.
LateWindow(e, k)  == e.key = k /\ now <= e.resetAt

InWindow(e, k) == e.key = k /\ Live(e)

\* The map after increment(k), given what the sweep has left of it.
Incremented(es, k) ==
  IF \E n \in DOMAIN es : InWindow(es[n], k)
  THEN [n \in DOMAIN es |-> IF es[n].key = k THEN [es[n] EXCEPT !.count = @ + 1] ELSE es[n]]
  ELSE LET kept  == IF Len(es) >= MaxEntries THEN Without(es, Evicted(es)) ELSE es
           fresh == [key |-> k, count |-> 1, resetAt |-> now + Window]
       IN IF k \in KeysOf(kept)
          THEN [n \in DOMAIN kept |-> IF kept[n].key = k THEN fresh ELSE kept[n]]
          ELSE Append(kept, fresh)

EntryOf(es, k) == es[CHOOSE n \in DOMAIN es : es[n].key = k]

\* Keys that lose a counter inside its window.
Lost(old, new) == {k \in KeysOf(Sweep(old)) : k \notin KeysOf(new)}

-----------------------------------------------------------------------------
(* rateLimitPlugin *)

\* defaultKeyResolver: Missing stands for the 400 of strict mode.
KeyOf(c) ==
  CASE TrustProxy # "no" /\ Forwarded[c] # Missing -> Forwarded[c]
    [] TrustProxy = "strict" /\ Forwarded[c] = Missing -> Missing
    [] OTHER -> IF RealIp[c] # Missing THEN RealIp[c] ELSE Unknown

Exceeds(count) == count > Limit

BadRequest(c) ==
  /\ KeyOf(c) = Missing
  /\ last' = [key |-> Missing, verdict |-> "bad"]
  /\ UNCHANGED <<entries, passes, until, forgotten>>

Counted(c) ==
  LET k == KeyOf(c) IN
  /\ k # Missing
  /\ \E swept \in BOOLEAN :
       entries' = Incremented(IF swept THEN Sweep(entries) ELSE entries, k)
  /\ forgotten' = forgotten \cup Lost(entries, entries')
  /\ LET e == EntryOf(entries', k) IN
       IF Exceeds(e.count)
       THEN /\ last' = [key |-> k, verdict |-> "refused"]
            /\ until' = [until EXCEPT ![k] = e.resetAt]
            /\ UNCHANGED passes
       ELSE /\ last' = [key |-> k, verdict |-> "pass"]
            /\ passes' = [passes EXCEPT ![k] = Append(@, now)]
            /\ UNCHANGED until

\* The onRequest hook for one request of c.
Request(c) ==
  /\ calls < MaxCalls /\ calls' = calls + 1
  /\ BadRequest(c) \/ Counted(c)
  /\ UNCHANGED now

\* store.reset(k).
Reset(k) ==
  /\ entries' = Without(entries, {k})
  /\ forgotten' = forgotten \cup Lost(entries, entries')
  /\ UNCHANGED <<now, last, passes, until, calls>>

-----------------------------------------------------------------------------
(* Properties *)

\* How many of these times lie between two others.
Within(times, from, to) == Cardinality({n \in DOMAIN times : times[n] \in from .. to})

PassesIn(k, from, to) == Within(passes[k], from, to)

\* In no interval as long as the window do more than twice max requests of a key
\* pass, unless its counter was forgotten.
AtMostTwiceTheLimit ==
  \A k \in Keys \ forgotten, t \in 0 .. MaxTime :
    PassesIn(k, t, t + Window - 1) <= 2 * Limit

\* The map never grows beyond its cap, and has one entry per key.
CapHolds ==
  /\ Len(entries) <= MaxEntries
  /\ Cardinality(KeysOf(entries)) = Len(entries)

Asked == calls' # calls

\* A request is only refused if max requests of its key passed within the last window.
RefusalsAreJustified ==
  [][Asked /\ last'.verdict = "refused" =>
       LET from == IF now < Window THEN 0 ELSE now - Window + 1
       IN PassesIn(last'.key, from, now) >= Limit \/ last'.key \in forgotten]_<<now, rateVars>>

\* Nobody passes before the reset that a refusal has announced, unless the
\* counter was forgotten.
RefusedUntilReset ==
  [][Asked /\ last'.verdict = "pass" =>
       now >= until[last'.key] \/ last'.key \in forgotten']_<<now, rateVars>>

\* A counter is evicted inside its window only when no expired one is left.
ExpiredGoFirst ==
  [][Asked /\ Lost(entries, entries') # {} =>
       \A n \in DOMAIN entries' : Live(entries'[n])]_<<now, rateVars>>

\* packages/core/src/app/rate-limit.ts:126 calls it a "sliding-window rate limiter".
SlidingWindow ==
  \A k \in Keys \ forgotten, t \in 0 .. MaxTime : PassesIn(k, t, t + Window - 1) <= Limit
=============================================================================
