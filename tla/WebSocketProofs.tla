-------------------------- MODULE WebSocketProofs --------------------------
(***************************************************************************)
(* Theorems about WebSocket, and about the RateLimit module in front of    *)
(* it, for every number of clients, keys, sockets and plugins, every limit *)
(* and every length of the windows.                                        *)
(***************************************************************************)
EXTENDS WebSocket, FiniteSetTheorems, SequenceTheorems, WellFoundedInduction, TLAPS

-----------------------------------------------------------------------------
(* Times and windows *)

\* Counting times makes sense: there are finitely many.
LEMMA WithinType ==
  ASSUME NEW times \in Seq(Int), NEW a \in Int, NEW b \in Int
  PROVE  /\ DOMAIN times = 1 .. Len(times) /\ Len(times) \in Nat
         /\ IsFiniteSet({n \in DOMAIN times : times[n] \in a .. b})
         /\ Within(times, a, b) \in Nat /\ Within(times, a, b) <= Len(times)
<1>1. DOMAIN times = 1 .. Len(times) /\ Len(times) \in Nat
  BY LenProperties
<1>2. IsFiniteSet(1 .. Len(times)) /\ Cardinality(1 .. Len(times)) = Len(times)
  BY <1>1, FS_Interval
<1>3. {n \in DOMAIN times : times[n] \in a .. b} \in SUBSET (1 .. Len(times))
  BY <1>1
<1>4. /\ IsFiniteSet({n \in DOMAIN times : times[n] \in a .. b})
      /\ Cardinality({n \in DOMAIN times : times[n] \in a .. b}) <= Len(times)
  BY <1>2, <1>3, FS_Subset
<1>5. QED
  BY <1>1, <1>4, FS_CardinalityType DEF Within

\* An interval that holds no time the other does not hold has no more of them.
LEMMA WithinMonotone ==
  ASSUME NEW times \in Seq(Int), NEW a \in Int, NEW b \in Int, NEW c \in Int, NEW d \in Int,
         \A n \in DOMAIN times : times[n] \in a .. b => times[n] \in c .. d
  PROVE  Within(times, a, b) <= Within(times, c, d)
<1>1. {n \in DOMAIN times : times[n] \in a .. b} \in SUBSET {n \in DOMAIN times : times[n] \in c .. d}
  OBVIOUS
<1>2. QED
  BY <1>1, WithinType, FS_Subset DEF Within

\* Two intervals that cover a third have at least as many together.
LEMMA WithinCovered ==
  ASSUME NEW times \in Seq(Int), NEW a \in Int, NEW b \in Int, NEW c \in Int, NEW d \in Int,
         NEW e \in Int, NEW f \in Int,
         \A n \in DOMAIN times : times[n] \in a .. b => times[n] \in c .. d \/ times[n] \in e .. f
  PROVE  Within(times, a, b) <= Within(times, c, d) + Within(times, e, f)
<1> DEFINE A == {n \in DOMAIN times : times[n] \in a .. b}
           C == {n \in DOMAIN times : times[n] \in c .. d}
           E == {n \in DOMAIN times : times[n] \in e .. f}
<1>1. IsFiniteSet(C) /\ IsFiniteSet(E) /\ IsFiniteSet(A)
  BY WithinType
<1>2. A \in SUBSET (C \cup E)
  OBVIOUS
<1>3. /\ Within(times, a, b) = Cardinality(A) /\ Within(times, c, d) = Cardinality(C)
      /\ Within(times, e, f) = Cardinality(E)
  BY DEF Within
<1> HIDE DEF A, C, E
<1>4. /\ IsFiniteSet(C \cup E) /\ IsFiniteSet(C \cap E)
      /\ Cardinality(C \cup E) = Cardinality(C) + Cardinality(E) - Cardinality(C \cap E)
  BY <1>1, FS_Union, FS_Intersection
<1>5. Cardinality(A) <= Cardinality(C \cup E)
  BY <1>2, <1>4, FS_Subset
<1>6. /\ Cardinality(A) \in Nat /\ Cardinality(C) \in Nat /\ Cardinality(E) \in Nat
      /\ Cardinality(C \cap E) \in Nat /\ Cardinality(C \cup E) \in Nat
  BY <1>1, <1>4, FS_CardinalityType
<1>7. QED
  BY <1>3, <1>4, <1>5, <1>6

\* One more time is counted where it lies.
LEMMA WithinAppend ==
  ASSUME NEW times \in Seq(Int), NEW t \in Int, NEW a \in Int, NEW b \in Int
  PROVE  /\ Append(times, t) \in Seq(Int)
         /\ Within(Append(times, t), a, b) = Within(times, a, b) + (IF t \in a .. b THEN 1 ELSE 0)
<1> DEFINE new == Append(times, t)
           A == {n \in DOMAIN times : times[n] \in a .. b}
           B == {n \in DOMAIN new : new[n] \in a .. b}
           m == Len(times) + 1
<1>1. /\ new \in Seq(Int) /\ Len(new) = m /\ DOMAIN new = 1 .. m
      /\ \A i \in 1 .. Len(times) : new[i] = times[i]
      /\ new[m] = t
  BY AppendProperties, LenProperties
<1>2. IsFiniteSet(A) /\ DOMAIN times = 1 .. Len(times) /\ Len(times) \in Nat
  BY WithinType
<1>3. m \notin A
  BY <1>2
<1>4. B = IF t \in a .. b THEN A \cup {m} ELSE A
  BY <1>1, <1>2
<1>5. Cardinality(A) \in Nat /\ Cardinality(A \cup {m}) = Cardinality(A) + 1
  BY <1>2, <1>3, FS_AddElement, FS_CardinalityType
<1>6. Within(new, a, b) = Cardinality(B) /\ Within(times, a, b) = Cardinality(A)
  BY DEF Within
<1> HIDE DEF A, B, m
<1>7. QED
  BY <1>1, <1>4, <1>5, <1>6

-----------------------------------------------------------------------------
(* What a fixed window keeps of the times it has let through *)

\* The two limiters let something through only in a window that is counted:
\* the requests of a key, the messages of a connection.  Nothing but these
\* counts is ever compared with the limit.
NeverThrice(times, length, limit) ==
  \A t \in 0 .. MaxTime : Within(times, t, t + length - 1) <= 2 * limit

\* The window that ends at `reset` and the last moments before it.
Counting(times, reset, length, limit, clock) ==
  /\ \A n \in DOMAIN times : times[n] <= clock /\ times[n] < reset
  /\ Within(times, reset - length, clock) <= limit
  /\ Within(times, reset - 2 * length + 1, reset - length - 1) <= limit

\* No window is open.
Past(times, length, limit, clock) ==
  /\ \A n \in DOMAIN times : times[n] < clock
  /\ Within(times, clock - length + 1, clock) <= limit

\* A window that has expired is past.
LEMMA WindowExpires ==
  ASSUME NEW times \in Seq(Int), NEW reset \in Int, NEW length \in Nat, NEW limit \in Nat,
         NEW clock \in Int, Counting(times, reset, length, limit, clock), reset <= clock
  PROVE  Past(times, length, limit, clock)
<1>1. \A n \in DOMAIN times : times[n] < clock /\ times[n] \in Int
  BY WithinType DEF Counting
<1>2. Within(times, clock - length + 1, clock) <= Within(times, reset - length, clock)
  BY WithinMonotone
<1>3. clock - length + 1 \in Int /\ reset - length \in Int
  OBVIOUS
<1>4. /\ Within(times, clock - length + 1, clock) \in Nat
      /\ Within(times, reset - length, clock) \in Nat
  BY <1>3, WithinType
<1>5. Within(times, reset - length, clock) <= limit
  BY DEF Counting
<1>6. QED
  BY <1>1, <1>2, <1>4, <1>5 DEF Past

\* When none is open a new window can start, with nothing in it yet.
LEMMA WindowStarts ==
  ASSUME NEW times \in Seq(Int), NEW length \in Nat \ {0}, NEW limit \in Nat,
         NEW clock \in Int, Past(times, length, limit, clock)
  PROVE  /\ Counting(times, clock + length, length, limit, clock)
         /\ Within(times, clock, clock) = 0
<1> DEFINE reset == clock + length
<1>1. \A n \in DOMAIN times : times[n] < clock /\ times[n] \in Int
  BY WithinType DEF Past
<1>2. \A n \in DOMAIN times : times[n] <= clock /\ times[n] < reset
  BY <1>1
<1>3. Within(times, clock, clock) = 0
  <2>1. {n \in DOMAIN times : times[n] \in clock .. clock} = {}
    BY <1>1
  <2>2. QED
    BY <2>1, FS_EmptySet DEF Within
<1>4. Within(times, clock - length + 1, clock - 1) <= Within(times, clock - length + 1, clock)
  BY WithinMonotone
<1>5. clock - length + 1 \in Int /\ clock - 1 \in Int
  OBVIOUS
<1>6. /\ Within(times, clock - length + 1, clock - 1) \in Nat
      /\ Within(times, clock - length + 1, clock) \in Nat
  BY <1>5, WithinType
<1>7. Within(times, clock - length + 1, clock - 1) <= limit
  BY <1>4, <1>6 DEF Past
<1>8. /\ reset - length = clock /\ reset - 2 * length + 1 = clock - length + 1
  OBVIOUS
<1>9. QED
  BY <1>2, <1>3, <1>7, <1>8 DEF Counting

\* A window that has room lets one more through: its own count and the bound
\* on any interval hold on.
LEMMA WindowLetsThrough ==
  ASSUME NEW times \in Seq(Int), NEW reset \in Int, NEW length \in Nat \ {0}, NEW limit \in Nat,
         NEW clock \in Int, Counting(times, reset, length, limit, clock),
         NeverThrice(times, length, limit),
         clock < reset, reset <= clock + length, Within(times, reset - length, clock) < limit
  PROVE  /\ Counting(Append(times, clock), reset, length, limit, clock)
         /\ NeverThrice(Append(times, clock), length, limit)
         /\ Within(Append(times, clock), reset - length, clock) = Within(times, reset - length, clock) + 1
<1> DEFINE new   == Append(times, clock)
           start == reset - length
           early == reset - 2 * length + 1
<1>1. /\ new \in Seq(Int)
      /\ \A a, b \in Int : Within(new, a, b) = Within(times, a, b) + (IF clock \in a .. b THEN 1 ELSE 0)
  BY WithinAppend
<1>2. start \in Int /\ early \in Int /\ start - 1 \in Int /\ start <= clock /\ clock \in Int
  OBVIOUS
<1>3. \A a, b \in Int : Within(times, a, b) \in Nat
  BY WithinType
<1>a. /\ Within(times, start, clock) < limit /\ Within(times, early, start - 1) <= limit
      /\ \A n \in DOMAIN times : times[n] <= clock /\ times[n] < reset
  BY DEF Counting
<1>4. Within(new, start, clock) = Within(times, start, clock) + 1 /\ Within(new, start, clock) <= limit
  <2>1. clock \in start .. clock
    BY <1>2
  <2>2. Within(new, start, clock) = Within(times, start, clock) + 1
    BY <1>1, <1>2, <2>1
  <2>3. Within(times, start, clock) \in Nat
    BY <1>2, <1>3
  <2>4. QED
    BY <1>a, <2>2, <2>3
<1>5. Within(new, early, start - 1) = Within(times, early, start - 1) /\ Within(new, early, start - 1) <= limit
  <2>1. clock \notin early .. (start - 1)
    BY <1>2
  <2>2. Within(new, early, start - 1) = Within(times, early, start - 1) + 0
    BY <1>1, <1>2, <2>1
  <2>3. Within(times, early, start - 1) \in Nat
    BY <1>2, <1>3
  <2>4. QED
    BY <1>a, <2>2, <2>3
<1>6. \A n \in DOMAIN new : new[n] <= clock /\ new[n] < reset /\ new[n] \in Int
  BY WithinType, AppendProperties, LenProperties DEF Counting
<1>7. Counting(new, reset, length, limit, clock)
  BY <1>4, <1>5, <1>6 DEF Counting
<1>8. ASSUME NEW t \in 0 .. MaxTime
      PROVE  Within(new, t, t + length - 1) <= 2 * limit
  <2>1. t \in Int /\ t + length - 1 \in Int /\ Within(times, t, t + length - 1) <= 2 * limit
    BY WsAssumption, RateAssumption DEF NeverThrice
  <2>2. CASE clock \notin t .. (t + length - 1)
    <3>1. Within(new, t, t + length - 1) = Within(times, t, t + length - 1) + 0
      BY <1>1, <2>1, <2>2
    <3>2. Within(times, t, t + length - 1) \in Nat
      BY <1>3, <2>1
    <3>3. QED
      BY <2>1, <3>1, <3>2
  <2>3. CASE clock \in t .. (t + length - 1)
    <3>1. early <= t
      BY <1>2, <2>1, <2>3
    <3>2. Within(new, t, t + length - 1) <= Within(new, early, start - 1) + Within(new, start, clock)
      <4> HIDE DEF new, early, start
      <4>1. \A x \in Int : t <= x /\ x <= clock => x \in early .. (start - 1) \/ x \in start .. clock
        BY <1>2, <2>1, <3>1
      <4>2. \A n \in DOMAIN new : new[n] \in t .. (t + length - 1)
                                    => new[n] \in early .. (start - 1) \/ new[n] \in start .. clock
        BY <1>6, <2>1, <4>1
      <4>3. QED
        BY <1>1, <1>2, <2>1, <4>2, WithinCovered
    <3>3. /\ Within(new, t, t + length - 1) \in Nat /\ Within(new, early, start - 1) \in Nat
          /\ Within(new, start, clock) \in Nat
      BY <1>1, <1>2, <2>1, WithinType
    <3>4. QED
      BY <1>4, <1>5, <3>2, <3>3
  <2>4. QED
    BY <2>2, <2>3
<1>9. QED
  BY <1>4, <1>7, <1>8 DEF NeverThrice

\* Time passes.
LEMMA WindowAges ==
  ASSUME NEW times \in Seq(Int), NEW length \in Nat, NEW limit \in Nat, NEW clock \in Int
  PROVE  /\ Past(times, length, limit, clock) => Past(times, length, limit, clock + 1)
         /\ \A reset \in Int :
              Counting(times, reset, length, limit, clock) =>
                /\ Counting(times, reset, length, limit, clock + 1)
                /\ Within(times, reset - length, clock + 1) = Within(times, reset - length, clock)
<1>0. \A n \in DOMAIN times : times[n] \in Int
  BY WithinType
<1>1. ASSUME Past(times, length, limit, clock)
      PROVE  Past(times, length, limit, clock + 1)
  <2>1. \A n \in DOMAIN times : times[n] < clock
    BY <1>1 DEF Past
  <2>2. Within(times, clock + 1 - length + 1, clock + 1) <= Within(times, clock - length + 1, clock)
    BY <1>0, <2>1, WithinMonotone
  <2>3. clock - length + 1 \in Int /\ clock + 1 - length + 1 \in Int /\ clock + 1 \in Int
    OBVIOUS
  <2>4. /\ Within(times, clock - length + 1, clock) \in Nat
        /\ Within(times, clock + 1 - length + 1, clock + 1) \in Nat
    BY <2>3, WithinType
  <2>5. Within(times, clock - length + 1, clock) <= limit
    BY <1>1 DEF Past
  <2>6. QED
    BY <1>0, <2>1, <2>2, <2>4, <2>5 DEF Past
<1>2. ASSUME NEW reset \in Int, Counting(times, reset, length, limit, clock)
      PROVE  /\ Counting(times, reset, length, limit, clock + 1)
             /\ Within(times, reset - length, clock + 1) = Within(times, reset - length, clock)
  <2>1. \A n \in DOMAIN times : times[n] <= clock
    BY <1>2 DEF Counting
  <2>2. {n \in DOMAIN times : times[n] \in (reset - length) .. (clock + 1)}
          = {n \in DOMAIN times : times[n] \in (reset - length) .. clock}
    BY <1>0, <2>1
  <2>3. Within(times, reset - length, clock + 1) = Within(times, reset - length, clock)
    BY <2>2 DEF Within
  <2>4. QED
    BY <1>0, <1>2, <2>3 DEF Counting
<1>3. QED
  BY <1>1, <1>2

-----------------------------------------------------------------------------
(* The map of counters *)

\* A key has one entry.
OneEach(es) == \A m, n \in DOMAIN es : es[m].key = es[n].key => m = n

\* The entries that stay are those at the positions that stay, each once.
LEMMA KeptProperties ==
  ASSUME NEW S, NEW es \in Seq(S), NEW stays \in SUBSET DOMAIN es
  PROVE  /\ Kept(es, stays) \in Seq(S)
         /\ Len(Kept(es, stays)) = Cardinality(stays) /\ Cardinality(stays) <= Len(es)
         /\ stays # DOMAIN es => Cardinality(stays) < Len(es)
         /\ \E pos \in [DOMAIN Kept(es, stays) -> stays] :
              /\ \A n \in DOMAIN Kept(es, stays) : Kept(es, stays)[n] = es[pos[n]]
              /\ \A m, n \in DOMAIN Kept(es, stays) : pos[m] = pos[n] => m = n
              /\ \A i \in stays : \E n \in DOMAIN Kept(es, stays) : pos[n] = i
<1> DEFINE N == Cardinality(stays)
           below(i) == {j \in stays : j < i}
           rank == [i \in stays |-> Cardinality(below(i)) + 1]
           pos == [n \in 1 .. N |-> CHOOSE i \in stays : Cardinality(below(i)) = n - 1]
           kept == [n \in 1 .. N |-> es[pos[n]]]
<1>1. DOMAIN es = 1 .. Len(es) /\ Len(es) \in Nat
  BY LenProperties
<1>2. IsFiniteSet(DOMAIN es) /\ Cardinality(DOMAIN es) = Len(es)
  <2>1. \A m \in Nat : IsFiniteSet(1 .. m) /\ Cardinality(1 .. m) = m
    BY FS_Interval
  <2>2. QED
    BY <1>1, <2>1
<1>3. /\ IsFiniteSet(stays) /\ N \in Nat /\ N <= Len(es)
      /\ stays # DOMAIN es => N < Len(es)
  BY <1>1, <1>2, FS_Subset, FS_CardinalityType
<1>4. \A i \in stays : IsFiniteSet(below(i)) /\ Cardinality(below(i)) \in Nat
  <2>1. \A i \in stays : below(i) \in SUBSET stays
    OBVIOUS
  <2>2. QED
    BY <1>3, <2>1, FS_Subset, FS_CardinalityType
<1>5. ASSUME NEW i \in stays
      PROVE  Cardinality(below(i)) < N
  <2>1. below(i) \in SUBSET stays /\ below(i) # stays
    BY <1>1
  <2>2. QED
    BY <1>3, <1>4, <2>1, FS_Subset
<1>6. ASSUME NEW i \in stays, NEW k \in stays, i < k
      PROVE  Cardinality(below(i)) < Cardinality(below(k))
  <2>1. below(i) \in SUBSET below(k) /\ i \in below(k) /\ i \notin below(i)
    BY <1>1, <1>6
  <2>2. below(i) # below(k)
    BY <2>1
  <2> HIDE DEF below
  <2>3. Cardinality(below(i)) <= Cardinality(below(k)) /\ Cardinality(below(i)) # Cardinality(below(k))
    BY <1>4, <2>1, <2>2, FS_Subset
  <2>4. QED
    BY <1>4, <2>3
<1>7. \A i, k \in stays : Cardinality(below(i)) = Cardinality(below(k)) => i = k
  <2>1. \A i, k \in stays : i \in Int /\ k \in Int /\ (i < k \/ k < i \/ i = k)
    BY <1>1
  <2> HIDE DEF below
  <2>2. QED
    BY <1>4, <1>6, <2>1
<1>8. rank \in Injection(stays, 1 .. N)
  <2> HIDE DEF below
  <2>1. rank \in [stays -> 1 .. N]
    BY <1>3, <1>4, <1>5
  <2>2. \A i, k \in stays : rank[i] = rank[k] => i = k
    BY <1>4, <1>7
  <2> HIDE DEF rank
  <2>3. QED
    BY <2>1, <2>2 DEF Injection, IsInjective
<1>9. rank \in Surjection(stays, 1 .. N)
  <2>1. IsFiniteSet(1 .. N) /\ Cardinality(1 .. N) = N
    BY <1>3, FS_Interval
  <2> HIDE DEF rank
  <2>2. QED
    BY <1>8, <2>1, FS_Injection
<1>10. \A n \in 1 .. N : \E i \in stays : Cardinality(below(i)) = n - 1
  <2> HIDE DEF below
  <2>1. ASSUME NEW n \in 1 .. N
        PROVE  \E i \in stays : rank[i] = n
    <3> HIDE DEF rank
    <3>1. QED
      BY <1>9 DEF Surjection
  <2>2. \A i \in stays : rank[i] - 1 = Cardinality(below(i))
    BY <1>4
  <2>3. QED
    BY <2>1, <2>2
<1>11. \A n \in 1 .. N : pos[n] \in stays /\ Cardinality(below(pos[n])) = n - 1
  <2> HIDE DEF below
  <2>1. QED
    BY <1>10
<1>12. Kept(es, stays) = kept
  BY DEF Kept
<1> HIDE DEF pos, below
<1>13. pos \in [1 .. N -> stays]
  BY <1>11 DEF pos
<1>14. \A m, n \in 1 .. N : pos[m] = pos[n] => m = n
  BY <1>3, <1>11
<1>15. ASSUME NEW i \in stays
       PROVE  \E n \in 1 .. N : pos[n] = i
  <2>1. PICK n \in 1 .. N : n = Cardinality(below(i)) + 1
    BY <1>3, <1>4, <1>5
  <2>2. Cardinality(below(pos[n])) = Cardinality(below(i)) /\ pos[n] \in stays
    BY <1>4, <1>11, <2>1
  <2>3. QED
    BY <1>7, <2>1, <2>2
<1>16. /\ kept \in Seq(S) /\ Len(kept) = N /\ DOMAIN kept = 1 .. N
  <2>1. \A n \in 1 .. N : es[pos[n]] \in S
    BY <1>1, <1>13, ElementOfSeq
  <2>2. QED
    BY <1>3, <2>1, IsASeq, LenProperties
<1>17. QED
  BY <1>3, <1>12, <1>13, <1>14, <1>15, <1>16

\* Deleting entries deletes nothing else, and leaves no key with two.
LEMMA KeptEntries ==
  ASSUME NEW S, NEW es \in Seq(S), NEW stays \in SUBSET DOMAIN es, OneEach(es)
  PROVE  /\ Kept(es, stays) \in Seq(S) /\ OneEach(Kept(es, stays))
         /\ Len(Kept(es, stays)) <= Len(es)
         /\ stays # DOMAIN es => Len(Kept(es, stays)) < Len(es)
         /\ \A n \in DOMAIN Kept(es, stays) : \E i \in stays : Kept(es, stays)[n] = es[i]
         /\ \A i \in stays : \E n \in DOMAIN Kept(es, stays) : Kept(es, stays)[n] = es[i]
<1>1. PICK pos \in [DOMAIN Kept(es, stays) -> stays] :
        /\ \A n \in DOMAIN Kept(es, stays) : Kept(es, stays)[n] = es[pos[n]]
        /\ \A m, n \in DOMAIN Kept(es, stays) : pos[m] = pos[n] => m = n
        /\ \A i \in stays : \E n \in DOMAIN Kept(es, stays) : pos[n] = i
  BY KeptProperties
<1>2. OneEach(Kept(es, stays))
  BY <1>1 DEF OneEach
<1>3. /\ \A n \in DOMAIN Kept(es, stays) : \E i \in stays : Kept(es, stays)[n] = es[i]
      /\ \A i \in stays : \E n \in DOMAIN Kept(es, stays) : Kept(es, stays)[n] = es[i]
  BY <1>1
<1>4. QED
  BY <1>2, <1>3, KeptProperties

\* With one entry per key there are as many keys as entries.
LEMMA KeysCounted ==
  ASSUME NEW S, NEW es \in Seq(S), OneEach(es)
  PROVE  Cardinality(KeysOf(es)) = Len(es)
<1> DEFINE key == [n \in 1 .. Len(es) |-> es[n].key]
<1>1. DOMAIN es = 1 .. Len(es) /\ Len(es) \in Nat
  BY LenProperties
<1>2. IsFiniteSet(1 .. Len(es)) /\ Cardinality(1 .. Len(es)) = Len(es)
  BY <1>1, FS_Interval
<1>3. key \in Surjection(1 .. Len(es), KeysOf(es))
  BY <1>1 DEF Surjection, KeysOf
<1>4. key \in Injection(1 .. Len(es), KeysOf(es))
  <2>1. \A m, n \in 1 .. Len(es) : key[m] = key[n] => m = n
    BY <1>1 DEF OneEach
  <2> HIDE DEF key
  <2>2. QED
    BY <1>3, <2>1 DEF Injection, Surjection, IsInjective
<1> HIDE DEF key
<1>5. QED
  BY <1>2, <1>3, <1>4, FS_Surjection

\* Some natural number of a set is the least.
LEMMA LeastNatural ==
  ASSUME NEW T \in SUBSET Nat, T # {}
  PROVE  \E x \in T : \A y \in T : x <= y
<1>1. PICK x \in T : \A y \in T : ~ (<<y, x>> \in OpToRel(<, Nat))
  BY NatLessThanWellFounded, WFMin, Zenon
<1>2. \A y \in T : ~ (y < x)
  BY <1>1, Zenon DEF OpToRel
<1>3. QED
  BY <1>2

\* Whether an entry goes before another when the map is full; how many do.
Sooner(es, m, n) == es[m].resetAt < es[n].resetAt \/ (es[m].resetAt = es[n].resetAt /\ m < n)
Ahead(es, n)     == {m \in DOMAIN es : Sooner(es, m, n)}

\* Evicted() in these terms.
LEMMA EvictedOf ==
  ASSUME NEW es \in Seq(Entry)
  PROVE  /\ Evicted(es) = {es[n].key : n \in {n \in DOMAIN es : Cardinality(Ahead(es, n)) < NumEvicted}}
         /\ DOMAIN es = 1 .. Len(es) /\ Len(es) \in Nat
         /\ \A n \in DOMAIN es : /\ es[n] \in Entry /\ es[n].resetAt \in Nat /\ n \in Nat
                                 /\ IsFiniteSet(Ahead(es, n)) /\ Cardinality(Ahead(es, n)) \in Nat
         /\ NumEvicted \in Nat /\ NumEvicted >= 1
<1>1. DOMAIN es = 1 .. Len(es) /\ Len(es) \in Nat /\ \A n \in DOMAIN es : es[n] \in Entry
  BY LenProperties
<1>2. \A n \in DOMAIN es : es[n].resetAt \in Nat /\ n \in Nat
  BY <1>1, RateAssumption DEF Entry
<1>3. IsFiniteSet(DOMAIN es)
  BY <1>1, FS_Interval
<1>4. \A n \in DOMAIN es : IsFiniteSet(Ahead(es, n)) /\ Cardinality(Ahead(es, n)) \in Nat
  <2>1. \A n \in DOMAIN es : Ahead(es, n) \in SUBSET DOMAIN es
    BY DEF Ahead
  <2>2. QED
    BY <1>3, <2>1, FS_Subset, FS_CardinalityType
<1>5. NumEvicted \in Nat /\ NumEvicted >= 1
  BY RateAssumption DEF NumEvicted
<1>6. Evicted(es) = {es[n].key : n \in {n \in DOMAIN es : Cardinality(Ahead(es, n)) < NumEvicted}}
  BY DEF Evicted, Ahead, Sooner
<1>7. QED
  BY <1>1, <1>2, <1>4, <1>5, <1>6

\* Something is evicted from a map that is not empty.
LEMMA EvictsSome ==
  ASSUME NEW es \in Seq(Entry), es # <<>>
  PROVE  {n \in DOMAIN es : es[n].key \notin Evicted(es)} # DOMAIN es
<1> DEFINE resets == {es[n].resetAt : n \in DOMAIN es}
<1>1. resets \in SUBSET Nat /\ resets # {} /\ DOMAIN es \in SUBSET Nat
  BY EvictedOf
<1>2. PICK least \in resets : \A y \in resets : least <= y
  BY <1>1, LeastNatural
<1> DEFINE first == {n \in DOMAIN es : es[n].resetAt = least}
<1>3. first \in SUBSET Nat /\ first # {}
  BY <1>1, <1>2
<1>4. PICK n \in first : \A m \in first : n <= m
  <2> HIDE DEF first
  <2>1. QED
    BY <1>3, LeastNatural
<1>5. n \in DOMAIN es /\ \A m \in DOMAIN es : ~Sooner(es, m, n)
  <2>1. ASSUME NEW m \in DOMAIN es
        PROVE  ~Sooner(es, m, n)
    <3>1. es[n].resetAt <= es[m].resetAt /\ es[n].resetAt \in Nat /\ es[m].resetAt \in Nat
      BY <1>2, EvictedOf
    <3>2. es[n].resetAt = es[m].resetAt => n <= m
      BY <1>4
    <3>3. n \in Nat /\ m \in Nat
      BY <1>1
    <3>4. QED
      BY <3>1, <3>2, <3>3 DEF Sooner
  <2>2. QED
    BY <2>1
<1>6. Ahead(es, n) = {}
  BY <1>5 DEF Ahead
<1>7. es[n].key \in Evicted(es)
  BY <1>5, <1>6, EvictedOf, FS_EmptySet
<1>8. QED
  BY <1>5, <1>7

\* Whatever expires before an entry that is evicted is evicted with it.
LEMMA EvictsSoonest ==
  ASSUME NEW es \in Seq(Entry), OneEach(es), NEW i \in DOMAIN es, NEW j \in DOMAIN es,
         es[i].key \in Evicted(es), es[j].resetAt < es[i].resetAt
  PROVE  es[j].key \in Evicted(es)
<1>1. Cardinality(Ahead(es, i)) < NumEvicted
  <2>1. PICK n \in DOMAIN es : Cardinality(Ahead(es, n)) < NumEvicted /\ es[n].key = es[i].key
    BY EvictedOf
  <2>2. n = i
    BY <2>1 DEF OneEach
  <2>3. QED
    BY <2>1, <2>2
<1>2. Ahead(es, j) \in SUBSET Ahead(es, i)
  <2>1. ASSUME NEW m \in Ahead(es, j)
        PROVE  m \in Ahead(es, i)
    <3>1. m \in DOMAIN es /\ Sooner(es, m, j)
      BY DEF Ahead
    <3>2. es[m].resetAt \in Nat /\ es[i].resetAt \in Nat /\ es[j].resetAt \in Nat
      BY <3>1, EvictedOf
    <3>3. es[m].resetAt < es[i].resetAt
      BY <3>1, <3>2 DEF Sooner
    <3>4. QED
      BY <3>1, <3>3 DEF Ahead, Sooner
  <2>2. QED
    BY <2>1
<1>3. Cardinality(Ahead(es, j)) <= Cardinality(Ahead(es, i))
  BY <1>2, EvictedOf, FS_Subset
<1>4. Cardinality(Ahead(es, j)) < NumEvicted
  BY <1>1, <1>3, EvictedOf
<1>5. QED
  BY <1>4, EvictedOf

\* A deletion keeps the map a map of what was in it.
DeletesFrom(old, new) ==
  /\ new \in Seq(Entry) /\ OneEach(new) /\ Len(new) <= Len(old)
  /\ \A n \in DOMAIN new : \E i \in DOMAIN old : new[n] = old[i]

\* What a request of k makes of the map: nothing but the entry of k changes,
\* which counts one more while its window is open and starts anew otherwise.
CountsFor(k, old, new) ==
  /\ new \in Seq(Entry) /\ OneEach(new) /\ Len(new) <= MaxEntries
  /\ \A n \in DOMAIN new : new[n].key # k => \E i \in DOMAIN old : new[n] = old[i]
  /\ \E n \in DOMAIN new :
       /\ new[n].key = k
       /\ \/ \E i \in DOMAIN old : InWindow(old[i], k) /\ new[n] = [old[i] EXCEPT !.count = @ + 1]
          \/ /\ \A i \in DOMAIN old : ~InWindow(old[i], k)
             /\ new[n] = [key |-> k, count |-> 1, resetAt |-> now + Window]

\* Live entries are only given up when no expired one is left.
GivesUpLast(old, new) ==
  (\E i \in DOMAIN old : Live(old[i]) /\ old[i].key \notin KeysOf(new)) =>
    \A n \in DOMAIN new : Live(new[n])

\* What there is to know of a key whose window is open: one more is counted.
LEMMA IncrementedInWindow ==
  ASSUME NEW es \in Seq(Entry), OneEach(es), Len(es) <= MaxEntries, NEW k \in Keys,
         \A n \in DOMAIN es : es[n].count < MaxCalls,
         \E n \in DOMAIN es : InWindow(es[n], k)
  PROVE  CountsFor(k, es, Incremented(es, k)) /\ GivesUpLast(es, Incremented(es, k))
<1> DEFINE new == [n \in DOMAIN es |-> IF es[n].key = k THEN [es[n] EXCEPT !.count = @ + 1] ELSE es[n]]
<1>1. Incremented(es, k) = new
  BY DEF Incremented
<1>2. DOMAIN es = 1 .. Len(es) /\ Len(es) \in Nat /\ \A n \in DOMAIN es : es[n] \in Entry
  BY LenProperties
<1>3. \A n \in DOMAIN es : new[n] \in Entry
  <2>1. ASSUME NEW e \in Entry, e.count < MaxCalls
        PROVE  [e EXCEPT !.count = @ + 1] \in Entry
    <3>1. e.count \in 1 .. MaxCalls /\ e.count + 1 \in 1 .. MaxCalls
      BY <2>1, RateAssumption DEF Entry
    <3>2. QED
      BY <3>1 DEF Entry
  <2>2. QED
    BY <1>2, <2>1
<1>4. new \in Seq(Entry) /\ Len(new) = Len(es) /\ DOMAIN new = DOMAIN es
  <2>1. \A n \in 1 .. Len(es) : new[n] \in Entry
    BY <1>2, <1>3
  <2>2. new = [n \in 1 .. Len(es) |-> IF es[n].key = k THEN [es[n] EXCEPT !.count = @ + 1] ELSE es[n]]
    BY <1>2
  <2> HIDE DEF new
  <2>3. new \in [1 .. Len(es) -> Entry]
    BY <2>1, <2>2
  <2>4. new \in Seq(Entry)
    BY <1>2, <2>3, SeqDef
  <2>5. QED
    BY <1>2, <2>3, <2>4, LenProperties
<1>5. \A n \in DOMAIN es : new[n].key = es[n].key /\ (es[n].key # k => new[n] = es[n])
  BY <1>2 DEF Entry
<1>6. PICK live \in DOMAIN es : InWindow(es[live], k)
  OBVIOUS
<1>7. new[live].key = k /\ new[live] = [es[live] EXCEPT !.count = @ + 1]
  BY <1>2, <1>6 DEF Entry, InWindow
<1> HIDE DEF new
<1>8. OneEach(new)
  BY <1>4, <1>5 DEF OneEach
<1>9. CountsFor(k, es, new)
  BY <1>4, <1>5, <1>6, <1>7, <1>8 DEF CountsFor
<1>10. GivesUpLast(es, new)
  BY <1>4, <1>5 DEF GivesUpLast, KeysOf
<1>11. QED
  BY <1>1, <1>9, <1>10

\* Room is made for a new key: the map is no longer full, and no live entry
\* goes before an expired one.
LEMMA RoomIsMade ==
  ASSUME NEW es \in Seq(Entry), OneEach(es), Len(es) <= MaxEntries, now \in Nat
  PROVE  LET kept == IF Len(es) >= MaxEntries THEN Without(es, Evicted(es)) ELSE es
         IN DeletesFrom(es, kept) /\ Len(kept) < MaxEntries /\ GivesUpLast(es, kept)
<1> DEFINE stays == {n \in DOMAIN es : es[n].key \notin Evicted(es)}
<1>1. Len(es) \in Nat /\ MaxEntries \in Nat \ {0}
  BY LenProperties, RateAssumption
<1>2. CASE Len(es) >= MaxEntries
  <2>1. Without(es, Evicted(es)) = Kept(es, stays)
    BY DEF Without
  <2>2. es # <<>>
    BY <1>1, <1>2, EmptySeq
  <2>3. stays # DOMAIN es /\ stays \in SUBSET DOMAIN es
    BY <2>2, EvictsSome
  <2>4. /\ DeletesFrom(es, Kept(es, stays)) /\ Len(Kept(es, stays)) < Len(es)
        /\ \A n \in DOMAIN Kept(es, stays) : \E i \in stays : Kept(es, stays)[n] = es[i]
        /\ \A i \in stays : \E n \in DOMAIN Kept(es, stays) : Kept(es, stays)[n] = es[i]
    <3> HIDE DEF stays
    <3>1. QED
      BY <2>3, KeptEntries DEF DeletesFrom
  <2>5. ASSUME NEW i \in DOMAIN es, Live(es[i]), es[i].key \notin KeysOf(Kept(es, stays)),
               NEW n \in DOMAIN Kept(es, stays)
        PROVE  Live(Kept(es, stays)[n])
    <3>1. es[i].key \in Evicted(es)
      <4>1. i \notin stays
        BY <2>4, <2>5 DEF KeysOf
      <4>2. QED
        BY <4>1
    <3>2. PICK j \in DOMAIN es : Kept(es, stays)[n] = es[j] /\ es[j].key \notin Evicted(es)
      BY <2>4
    <3>3. es[i].resetAt \in Nat /\ es[j].resetAt \in Nat
      BY EvictedOf
    <3>4. ~(es[j].resetAt < es[i].resetAt)
      BY <3>1, <3>2, EvictsSoonest
    <3>5. now < es[j].resetAt
      BY <2>5, <3>3, <3>4 DEF Live
    <3>6. QED
      BY <3>2, <3>5 DEF Live
  <2>6. GivesUpLast(es, Kept(es, stays))
    <3> HIDE DEF stays
    <3>1. QED
      BY <2>5 DEF GivesUpLast
  <2>7. Len(Kept(es, stays)) < MaxEntries
    <3>1. Len(Kept(es, stays)) \in Nat
      BY <2>4, LenProperties DEF DeletesFrom
    <3>2. QED
      BY <1>1, <2>4, <3>1
  <2>8. QED
    BY <1>2, <2>1, <2>4, <2>6, <2>7
<1>3. CASE ~(Len(es) >= MaxEntries)
  <2>1. DeletesFrom(es, es) /\ Len(es) < MaxEntries
    BY <1>1, <1>3 DEF DeletesFrom
  <2>2. GivesUpLast(es, es)
    BY DEF GivesUpLast, KeysOf
  <2>3. QED
    BY <1>3, <2>1, <2>2
<1>4. QED
  BY <1>2, <1>3

\* What there is to know of any other key: it gets a counter of one.
LEMMA IncrementedAnew ==
  ASSUME NEW es \in Seq(Entry), OneEach(es), Len(es) <= MaxEntries, NEW k \in Keys,
         now \in 0 .. MaxTime, MaxCalls >= 1,
         ~ \E n \in DOMAIN es : InWindow(es[n], k)
  PROVE  CountsFor(k, es, Incremented(es, k)) /\ GivesUpLast(es, Incremented(es, k))
<1> DEFINE kept == IF Len(es) >= MaxEntries THEN Without(es, Evicted(es)) ELSE es
           fresh == [key |-> k, count |-> 1, resetAt |-> now + Window]
           new == Incremented(es, k)
           swapped == [n \in DOMAIN kept |-> IF kept[n].key = k THEN fresh ELSE kept[n]]
<1>1. new = IF k \in KeysOf(kept) THEN swapped ELSE Append(kept, fresh)
  BY DEF Incremented
<1>2. /\ kept \in Seq(Entry) /\ OneEach(kept) /\ Len(kept) < MaxEntries /\ GivesUpLast(es, kept)
      /\ \A n \in DOMAIN kept : \E i \in DOMAIN es : kept[n] = es[i]
  <2>1. now \in Nat
    BY RateAssumption
  <2>2. QED
    BY <2>1, RoomIsMade DEF DeletesFrom
<1>3. fresh \in Entry /\ Live(fresh) /\ fresh.key = k
  BY RateAssumption DEF Entry, Live
<1> HIDE DEF kept, new, fresh
<1>4. DOMAIN kept = 1 .. Len(kept) /\ Len(kept) \in Nat /\ MaxEntries \in Nat /\ \A n \in DOMAIN kept : kept[n] \in Entry
  BY <1>2, LenProperties, RateAssumption
<1>5. /\ new \in Seq(Entry) /\ OneEach(new) /\ Len(new) <= MaxEntries
      /\ \E n \in DOMAIN new : new[n] = fresh
      /\ \A n \in DOMAIN new : new[n] = fresh \/ \E i \in DOMAIN kept : new[n] = kept[i]
      /\ KeysOf(kept) \subseteq KeysOf(new)
  <2>1. CASE k \in KeysOf(kept)
    <3>1. new = swapped
      BY <1>1, <2>1
    <3>2. /\ DOMAIN swapped = DOMAIN kept
          /\ \A n \in DOMAIN kept : /\ swapped[n] \in Entry /\ swapped[n].key = kept[n].key
                                    /\ swapped[n] = fresh \/ swapped[n] = kept[n]
                                    /\ kept[n].key = k => swapped[n] = fresh
      BY <1>3, <1>4
    <3> HIDE DEF swapped
    <3>3. swapped \in Seq(Entry) /\ Len(swapped) = Len(kept)
      <4>1. swapped \in [1 .. Len(kept) -> Entry]
        <5>1. swapped = [n \in 1 .. Len(kept) |-> IF kept[n].key = k THEN fresh ELSE kept[n]]
          BY <1>4 DEF swapped
        <5>2. \A n \in 1 .. Len(kept) : swapped[n] \in Entry
          BY <1>4, <3>2
        <5>3. QED
          BY <5>1, <5>2
      <4>2. swapped \in Seq(Entry)
        BY <1>4, <4>1, SeqDef
      <4>3. QED
        BY <1>4, <4>1, <4>2, LenProperties
    <3>4. OneEach(swapped)
      BY <1>2, <3>2 DEF OneEach
    <3>5. PICK m \in DOMAIN kept : kept[m].key = k
      BY <2>1 DEF KeysOf
    <3>6. KeysOf(kept) \subseteq KeysOf(swapped)
      BY <3>2 DEF KeysOf
    <3>7. QED
      BY <1>2, <1>4, <3>1, <3>2, <3>3, <3>4, <3>5, <3>6
  <2>2. CASE k \notin KeysOf(kept)
    <3>1. new = Append(kept, fresh)
      BY <1>1, <2>2
    <3>2. /\ new \in Seq(Entry) /\ Len(new) = Len(kept) + 1
          /\ \A i \in 1 .. Len(kept) : new[i] = kept[i]
          /\ new[Len(kept) + 1] = fresh
      BY <1>2, <1>3, <3>1, AppendProperties
    <3>3. DOMAIN new = 1 .. (Len(kept) + 1)
      BY <3>2, LenProperties
    <3>4. \A n \in DOMAIN new : (n \in DOMAIN kept /\ new[n] = kept[n]) \/ (n = Len(kept) + 1 /\ new[n] = fresh)
      BY <1>4, <3>2, <3>3
    <3>5. \A n \in DOMAIN kept : kept[n].key # k
      BY <2>2 DEF KeysOf
    <3>6. OneEach(new)
      BY <1>2, <1>3, <3>4, <3>5 DEF OneEach
    <3>7. DOMAIN kept \subseteq DOMAIN new /\ Len(kept) + 1 \in DOMAIN new
      BY <1>4, <3>3
    <3>8. KeysOf(kept) \subseteq KeysOf(new)
      BY <1>4, <3>2, <3>7 DEF KeysOf
    <3>9. Len(new) <= MaxEntries
      BY <1>2, <1>4, <3>2
    <3>10. QED
      BY <3>2, <3>4, <3>6, <3>7, <3>8, <3>9
  <2>3. QED
    BY <2>1, <2>2
<1>6. CountsFor(k, es, new)
  <2>1. \A n \in DOMAIN new : new[n].key # k => \E i \in DOMAIN es : new[n] = es[i]
    BY <1>2, <1>3, <1>5
  <2>2. QED
    BY <1>3, <1>5, <2>1 DEF CountsFor, fresh
<1>7. GivesUpLast(es, new)
  <2>1. ASSUME NEW i \in DOMAIN es, Live(es[i]), es[i].key \notin KeysOf(new), NEW n \in DOMAIN new
        PROVE  Live(new[n])
    <3>1. es[i].key \notin KeysOf(kept)
      BY <1>5, <2>1
    <3>2. \A m \in DOMAIN kept : Live(kept[m])
      BY <1>2, <2>1, <3>1 DEF GivesUpLast
    <3>3. QED
      BY <1>3, <1>5, <3>2
  <2>2. QED
    BY <2>1 DEF GivesUpLast
<1>8. QED
  BY <1>6, <1>7 DEF new

-----------------------------------------------------------------------------
(* The inductive invariant *)

\* A key whose counter was never forgotten: what the entry in the map says of
\* the requests that passed, and what is certain when there is none.
KeyInv(k) ==
  k \notin forgotten =>
    /\ NeverThrice(passes[k], Window, Limit)
    /\ \A n \in DOMAIN entries :
         LET e == entries[n] IN
         e.key = k =>
           /\ Counting(passes[k], e.resetAt, Window, Limit, now)
           /\ Within(passes[k], e.resetAt - Window, now) = IF e.count <= Limit THEN e.count ELSE Limit
           /\ until[k] > now => until[k] = e.resetAt /\ e.count > Limit
    /\ k \notin KeysOf(entries) => Past(passes[k], Window, Limit, now) /\ until[k] <= now

\* The map has one entry per key, and their windows are open or were once.
MapInv ==
  /\ OneEach(entries) /\ Len(entries) <= MaxEntries
  /\ \A n \in DOMAIN entries :
       entries[n].count <= calls /\ Window <= entries[n].resetAt /\ entries[n].resetAt <= now + Window

\* A client that is past the hook has a pass; one that is past the plugins
\* has been through all of them.
UpgradeInv(c) ==
  /\ conn[c] = "none" => chain[c] = 0
  /\ conn[c] = "plugins" => chain[c] < NumWsPlugins
  /\ conn[c] \in {"upgrade", "open", "closed"} => chain[c] = NumWsPlugins
  /\ conn[c] \in {"plugins", "upgrade", "open", "closed"} => ticket[c] # 0

\* A pass is the one of a single upgrade request of its key.
Tickets ==
  /\ \A c \in Sockets : ticket[c] # 0 => KeyOf(c) \in Keys /\ ticket[c] \in 1 .. Len(passes[KeyOf(c)])
  /\ \A c, d \in Sockets : KeyOf(c) = KeyOf(d) /\ ticket[c] = ticket[d] /\ ticket[c] # 0 => c = d

MsgBound == IF MsgLimit = 0 THEN 1 ELSE MsgLimit

\* The limiter of a connection against what arrived and what was handled.
MessageInv(c) ==
  LET reset == limiter[c].resetAt IN
  /\ NeverThrice(handled[c], MsgWindow, MsgBound)
  /\ reset = 0 => received[c] = <<>> /\ handled[c] = <<>> /\ limiter[c].count = 0
  /\ reset # 0 =>
       /\ MsgWindow <= reset /\ reset <= now + MsgWindow
       /\ Counting(handled[c], reset, MsgWindow, MsgBound, now)
       /\ Within(handled[c], reset - MsgWindow, now) <= limiter[c].count
       /\ limiter[c].count <= Within(received[c], reset - MsgWindow, now)

RateInv == RateTypeOK /\ MapInv /\ \A k \in Keys : KeyInv(k)

IInv ==
  /\ TypeOK /\ RateInv /\ Tickets
  /\ \A c \in Sockets : UpgradeInv(c) /\ MessageInv(c)

-----------------------------------------------------------------------------
(* The rate limiter *)

\* The types as the lemmas about times need them.
LEMMA RateTypes ==
  ASSUME RateTypeOK
  PROVE  /\ now \in Nat /\ now \in Int /\ now \in 0 .. MaxTime
         /\ Window \in Nat /\ Window # 0 /\ Limit \in Nat /\ MaxTime \in Nat /\ MaxCalls \in Nat
         /\ calls \in Nat /\ DOMAIN entries = 1 .. Len(entries)
         /\ \A n \in DOMAIN entries :
              /\ entries[n] \in Entry /\ entries[n].key \in Keys
              /\ entries[n].count \in Nat /\ entries[n].count >= 1 /\ entries[n].resetAt \in Nat
         /\ \A k \in Keys : passes[k] \in Seq(Int) /\ passes[k] \in Seq(0 .. MaxTime) /\ until[k] \in Nat
<1>1. /\ Window \in Nat /\ Window # 0 /\ Limit \in Nat /\ MaxTime \in Nat /\ MaxCalls \in Nat
      /\ now \in Nat /\ now \in Int /\ calls \in Nat /\ now \in 0 .. MaxTime
  BY RateAssumption DEF RateTypeOK
<1>2. DOMAIN entries = 1 .. Len(entries) /\ \A n \in DOMAIN entries : entries[n] \in Entry
  BY LenProperties DEF RateTypeOK
<1>3. \A n \in DOMAIN entries :
        /\ entries[n] \in Entry /\ entries[n].key \in Keys
        /\ entries[n].count \in Nat /\ entries[n].count >= 1 /\ entries[n].resetAt \in Nat
  BY <1>1, <1>2 DEF Entry
<1>4. \A k \in Keys : passes[k] \in Seq(0 .. MaxTime) /\ until[k] \in Nat
  BY <1>1 DEF RateTypeOK
<1>5. 0 .. MaxTime \subseteq Int
  BY <1>1
<1>6. \A k \in Keys : passes[k] \in Seq(Int)
  BY <1>4, <1>5, SeqMonotonic
<1>7. QED
  BY <1>1, <1>2, <1>3, <1>4, <1>6

\* There is only one entry to find.
LEMMA EntryFound ==
  ASSUME NEW es, OneEach(es), NEW n \in DOMAIN es
  PROVE  EntryOf(es, es[n].key) = es[n]
BY DEF EntryOf, OneEach

\* What the map loses: the keys of live entries that it has no more.
LEMMA LostOf ==
  ASSUME NEW es \in Seq(Entry), OneEach(es), NEW new
  PROVE  Lost(es, new) = {es[i].key : i \in {i \in DOMAIN es : Live(es[i])}} \ KeysOf(new)
<1> DEFINE live == {i \in DOMAIN es : Live(es[i])}
<1>1. Sweep(es) = Kept(es, live)
  BY DEF Sweep
<1>2. /\ \A n \in DOMAIN Kept(es, live) : \E i \in live : Kept(es, live)[n] = es[i]
      /\ \A i \in live : \E n \in DOMAIN Kept(es, live) : Kept(es, live)[n] = es[i]
  <2>1. live \in SUBSET DOMAIN es
    OBVIOUS
  <2> HIDE DEF live
  <2>2. QED
    BY <2>1, KeptEntries
<1> HIDE DEF live
<1>3. KeysOf(Kept(es, live)) = {es[i].key : i \in live}
  BY <1>2 DEF KeysOf
<1>4. QED
  BY <1>1, <1>3 DEF Lost, live

\* A request makes of the map what increment() makes of it, swept or not.
LEMMA CountedCounts ==
  ASSUME RateTypeOK, MapInv, calls < MaxCalls, NEW c \in Clients, Counted(c)
  PROVE  CountsFor(KeyOf(c), entries, entries') /\ GivesUpLast(entries, entries')
<1> DEFINE k == KeyOf(c)
           live == {i \in DOMAIN entries : Live(entries[i])}
<1>1. k \in Keys
  BY DEF Counted, KeyOf, Keys
<1>2. /\ entries \in Seq(Entry) /\ OneEach(entries) /\ Len(entries) <= MaxEntries
      /\ \A n \in DOMAIN entries : entries[n].count < MaxCalls
      /\ MaxCalls >= 1 /\ now \in 0 .. MaxTime /\ now \in Nat
  BY RateTypes DEF MapInv, RateTypeOK
<1>3. PICK swept \in BOOLEAN : entries' = Incremented(IF swept THEN Sweep(entries) ELSE entries, k)
  BY DEF Counted
<1> HIDE DEF k
<1>4. \A es \in Seq(Entry) :
        OneEach(es) /\ Len(es) <= MaxEntries /\ (\A n \in DOMAIN es : es[n].count < MaxCalls)
          => CountsFor(k, es, Incremented(es, k)) /\ GivesUpLast(es, Incremented(es, k))
  BY <1>1, <1>2, IncrementedInWindow, IncrementedAnew
<1>5. CASE ~swept
  BY <1>2, <1>3, <1>4, <1>5 DEF k
<1>6. CASE swept
  <2> DEFINE es == Kept(entries, live)
  <2>1. /\ es \in Seq(Entry) /\ OneEach(es) /\ Len(es) <= Len(entries)
        /\ \A n \in DOMAIN es : \E i \in live : es[n] = entries[i]
        /\ \A i \in live : \E n \in DOMAIN es : es[n] = entries[i]
    <3>1. live \in SUBSET DOMAIN entries
      OBVIOUS
    <3> HIDE DEF live
    <3>2. QED
      BY <1>2, <3>1, KeptEntries
  <2>2. entries' = Incremented(es, k)
    BY <1>3, <1>6 DEF Sweep
  <2> HIDE DEF es
  <2>3. \A n \in DOMAIN es : Live(es[n]) /\ \E i \in DOMAIN entries : es[n] = entries[i]
    BY <2>1
  <2>4. CountsFor(k, es, entries')
    <3>1. \A n \in DOMAIN es : es[n].count < MaxCalls
      BY <1>2, <2>3
    <3>2. Len(es) <= MaxEntries
      BY <1>2, <2>1, LenProperties, RateAssumption
    <3>3. QED
      BY <1>4, <2>1, <2>2, <3>1, <3>2
  <2>5. \A i \in DOMAIN entries : InWindow(entries[i], k) => \E n \in DOMAIN es : es[n] = entries[i]
    BY <2>1 DEF InWindow
  <2>6. CountsFor(k, entries, entries')
    <3>1. \A n \in DOMAIN entries' : entries'[n].key # k => \E i \in DOMAIN entries : entries'[n] = entries[i]
      BY <2>3, <2>4 DEF CountsFor
    <3>2. PICK n \in DOMAIN entries' :
            /\ entries'[n].key = k
            /\ \/ \E i \in DOMAIN es : InWindow(es[i], k) /\ entries'[n] = [es[i] EXCEPT !.count = @ + 1]
               \/ /\ \A i \in DOMAIN es : ~InWindow(es[i], k)
                  /\ entries'[n] = [key |-> k, count |-> 1, resetAt |-> now + Window]
      BY <2>4 DEF CountsFor
    <3>3. \/ \E i \in DOMAIN entries : InWindow(entries[i], k) /\ entries'[n] = [entries[i] EXCEPT !.count = @ + 1]
          \/ /\ \A i \in DOMAIN entries : ~InWindow(entries[i], k)
             /\ entries'[n] = [key |-> k, count |-> 1, resetAt |-> now + Window]
      <4>1. CASE \E i \in DOMAIN es : InWindow(es[i], k) /\ entries'[n] = [es[i] EXCEPT !.count = @ + 1]
        BY <2>3, <4>1
      <4>2. CASE /\ \A i \in DOMAIN es : ~InWindow(es[i], k)
                 /\ entries'[n] = [key |-> k, count |-> 1, resetAt |-> now + Window]
        <5>1. \A i \in DOMAIN entries : ~InWindow(entries[i], k)
          BY <2>5, <4>2
        <5>2. QED
          BY <4>2, <5>1
      <4>3. QED
        BY <3>2, <4>1, <4>2
    <3>4. QED
      BY <2>4, <3>1, <3>2, <3>3 DEF CountsFor
  <2>7. \A n \in DOMAIN entries' : Live(entries'[n])
    <3>1. ASSUME NEW n \in DOMAIN entries'
          PROVE  Live(entries'[n])
      <4>1. CASE entries'[n].key # k
        BY <2>3, <2>4, <4>1 DEF CountsFor
      <4>2. CASE entries'[n].key = k
        <5>1. PICK m \in DOMAIN entries' :
                /\ entries'[m].key = k
                /\ \/ \E i \in DOMAIN es : InWindow(es[i], k) /\ entries'[m] = [es[i] EXCEPT !.count = @ + 1]
                   \/ entries'[m] = [key |-> k, count |-> 1, resetAt |-> now + Window]
          BY <2>4 DEF CountsFor
        <5>2. m = n
          BY <2>4, <4>2, <5>1 DEF CountsFor, OneEach
        <5>3. \A i \in DOMAIN es : es[i] \in Entry
          BY <2>1, LenProperties
        <5>4. CASE \E i \in DOMAIN es : InWindow(es[i], k) /\ entries'[m] = [es[i] EXCEPT !.count = @ + 1]
          BY <5>2, <5>3, <5>4 DEF InWindow, Live, Entry
        <5>5. CASE entries'[m] = [key |-> k, count |-> 1, resetAt |-> now + Window]
          BY <1>2, <5>2, <5>5, RateAssumption DEF Live
        <5>6. QED
          BY <5>1, <5>4, <5>5
      <4>3. QED
        BY <4>1, <4>2
    <3>2. QED
      BY <3>1
  <2>8. GivesUpLast(entries, entries')
    BY <2>7 DEF GivesUpLast
  <2>9. QED
    BY <2>6, <2>8 DEF k
<1>7. QED
  BY <1>5, <1>6

\* What the entry of k will say of the requests that have passed so far, before
\* this one is answered.
Weighed(k, e) ==
  /\ e.count \in Nat /\ e.count >= 1 /\ e.resetAt \in Nat
  /\ now < e.resetAt /\ e.resetAt <= now + Window /\ Window <= e.resetAt
  /\ Counting(passes[k], e.resetAt, Window, Limit, now)
  /\ Within(passes[k], e.resetAt - Window, now) = IF e.count - 1 <= Limit THEN e.count - 1 ELSE Limit
  /\ until[k] > now => e.count - 1 > Limit

\* The entry a request is judged by, whether its window was open or is new.
LEMMA EntryWeighed ==
  ASSUME RateTypeOK, MapInv, NEW k \in Keys, KeyInv(k), k \notin forgotten,
         CountsFor(k, entries, entries')
  PROVE  \E n \in DOMAIN entries' :
           /\ entries'[n].key = k /\ EntryOf(entries', k) = entries'[n]
           /\ Weighed(k, entries'[n])
<1>1. PICK n \in DOMAIN entries' :
        /\ entries'[n].key = k
        /\ \/ \E i \in DOMAIN entries : InWindow(entries[i], k) /\ entries'[n] = [entries[i] EXCEPT !.count = @ + 1]
           \/ /\ \A i \in DOMAIN entries : ~InWindow(entries[i], k)
              /\ entries'[n] = [key |-> k, count |-> 1, resetAt |-> now + Window]
  BY DEF CountsFor
<1> DEFINE e == entries'[n]
<1>2. EntryOf(entries', k) = e
  BY <1>1, EntryFound DEF CountsFor
<1>3. /\ passes[k] \in Seq(Int) /\ until[k] \in Nat /\ now \in Nat /\ Window \in Nat /\ Limit \in Nat
      /\ Window \in Nat \ {0} /\ now \in Int
  BY RateTypes
<1>4. CASE \E i \in DOMAIN entries : InWindow(entries[i], k) /\ e = [entries[i] EXCEPT !.count = @ + 1]
  <2>1. PICK i \in DOMAIN entries : InWindow(entries[i], k) /\ e = [entries[i] EXCEPT !.count = @ + 1]
    BY <1>4
  <2>2. /\ entries[i] \in Entry /\ entries[i].count \in Nat /\ entries[i].resetAt \in Nat
        /\ entries[i].key = k /\ now < entries[i].resetAt
    BY <2>1, RateTypes DEF InWindow, Live
  <2>3. e.count = entries[i].count + 1 /\ e.resetAt = entries[i].resetAt
    BY <2>1, <2>2 DEF Entry
  <2>4. Window <= entries[i].resetAt /\ entries[i].resetAt <= now + Window
    BY DEF MapInv
  <2>5. /\ Counting(passes[k], entries[i].resetAt, Window, Limit, now)
        /\ Within(passes[k], entries[i].resetAt - Window, now)
             = IF entries[i].count <= Limit THEN entries[i].count ELSE Limit
        /\ until[k] > now => entries[i].count > Limit
    BY <2>2 DEF KeyInv
  <2>6. e.count - 1 = entries[i].count /\ e.count \in Nat /\ e.count >= 1
    BY <2>2, <2>3
  <2>7. Weighed(k, e)
    BY <2>2, <2>3, <2>4, <2>5, <2>6 DEF Weighed
  <2>8. QED
    BY <1>1, <1>2, <2>7
<1>5. CASE /\ \A i \in DOMAIN entries : ~InWindow(entries[i], k)
           /\ e = [key |-> k, count |-> 1, resetAt |-> now + Window]
  <2>1. Past(passes[k], Window, Limit, now) /\ until[k] <= now
    <3>1. CASE k \notin KeysOf(entries)
      BY <3>1 DEF KeyInv
    <3>2. CASE k \in KeysOf(entries)
      <4>1. PICK i \in DOMAIN entries : entries[i].key = k
        BY <3>2 DEF KeysOf
      <4>2. entries[i].resetAt <= now /\ entries[i].resetAt \in Nat
        BY <1>3, <1>5, <4>1, RateTypes DEF InWindow, Live
      <4>3. /\ Counting(passes[k], entries[i].resetAt, Window, Limit, now)
            /\ until[k] > now => until[k] = entries[i].resetAt
        BY <4>1 DEF KeyInv
      <4>4. Past(passes[k], Window, Limit, now)
        BY <1>3, <4>2, <4>3, WindowExpires
      <4>5. QED
        BY <1>3, <4>2, <4>3, <4>4
    <3>3. QED
      BY <3>1, <3>2
  <2>2. /\ Counting(passes[k], now + Window, Window, Limit, now)
        /\ Within(passes[k], now, now) = 0
    BY <1>3, <2>1, WindowStarts
  <2>3. e.count = 1 /\ e.resetAt = now + Window
    BY <1>5
  <2>4. e.resetAt - Window = now /\ e.count - 1 = 0 /\ 0 <= Limit /\ e.resetAt \in Nat
    BY <1>3, <2>3
  <2>5. Within(passes[k], e.resetAt - Window, now) = 0
    BY <2>2, <2>4
  <2>6. /\ now < e.resetAt /\ e.resetAt <= now + Window /\ Window <= e.resetAt
    BY <1>3, <2>3
  <2>7. Weighed(k, e)
    BY <1>3, <2>1, <2>2, <2>3, <2>4, <2>5, <2>6 DEF Weighed
  <2>8. QED
    BY <1>1, <1>2, <2>7
<1>6. QED
  BY <1>1, <1>4, <1>5

\* Answering by that entry keeps what is known of its key.
LEMMA KeyAnswered ==
  ASSUME RateTypeOK, MapInv, NEW k \in Keys, KeyInv(k), now' = now, forgotten \subseteq forgotten',
         CountsFor(k, entries, entries'),
         IF Exceeds(EntryOf(entries', k).count)
         THEN passes'[k] = passes[k] /\ until'[k] = EntryOf(entries', k).resetAt
         ELSE passes'[k] = Append(passes[k], now) /\ until'[k] = until[k]
  PROVE  /\ KeyInv(k)'
         /\ k \notin forgotten =>
              IF Exceeds(EntryOf(entries', k).count)
              THEN \E from \in Int : now - Window < from /\ 0 <= from /\ Within(passes[k], from, now) >= Limit
              ELSE now >= until[k]
<1>1. SUFFICES ASSUME k \notin forgotten
               PROVE  /\ KeyInv(k)'
                      /\ IF Exceeds(EntryOf(entries', k).count)
                         THEN \E from \in Int : now - Window < from /\ 0 <= from /\ Within(passes[k], from, now) >= Limit
                         ELSE now >= until[k]
  BY DEF KeyInv
<1>2. PICK n \in DOMAIN entries' :
        entries'[n].key = k /\ EntryOf(entries', k) = entries'[n] /\ Weighed(k, entries'[n])
  BY <1>1, EntryWeighed
<1> DEFINE e == entries'[n]
           start == e.resetAt - Window
<1>3. /\ passes[k] \in Seq(Int) /\ until[k] \in Nat /\ now \in Nat /\ now \in Int /\ Limit \in Nat
      /\ Window \in Nat \ {0}
  BY RateTypes
<1>4. /\ e.count \in Nat /\ e.count >= 1 /\ e.resetAt \in Nat /\ e.resetAt \in Int
      /\ now < e.resetAt /\ e.resetAt <= now + Window /\ Window <= e.resetAt
      /\ Counting(passes[k], e.resetAt, Window, Limit, now)
      /\ Within(passes[k], start, now) = IF e.count - 1 <= Limit THEN e.count - 1 ELSE Limit
      /\ until[k] > now => e.count - 1 > Limit
      /\ NeverThrice(passes[k], Window, Limit)
  BY <1>1, <1>2 DEF Weighed, KeyInv
<1>5. \A m \in DOMAIN entries' : entries'[m].key = k => m = n
  BY <1>2 DEF CountsFor, OneEach
<1>6. k \in KeysOf(entries')
  BY <1>2 DEF KeysOf
<1>7. ASSUME NeverThrice(passes'[k], Window, Limit),
             Counting(passes'[k], e.resetAt, Window, Limit, now),
             Within(passes'[k], start, now) = IF e.count <= Limit THEN e.count ELSE Limit,
             until'[k] > now => until'[k] = e.resetAt /\ e.count > Limit
      PROVE  KeyInv(k)'
  BY <1>5, <1>6, <1>7 DEF KeyInv
<1>8. CASE Exceeds(e.count)
  <2>1. e.count > Limit /\ passes'[k] = passes[k] /\ until'[k] = e.resetAt
    BY <1>2, <1>8 DEF Exceeds
  <2>2. Within(passes[k], start, now) = Limit
    <3>1. ~(e.count - 1 <= Limit) \/ e.count - 1 = Limit
      BY <1>3, <1>4, <2>1
    <3>2. QED
      BY <1>4, <3>1
  <2>3. KeyInv(k)'
    <3>1. Within(passes'[k], start, now) = IF e.count <= Limit THEN e.count ELSE Limit
      BY <1>3, <1>4, <2>1, <2>2
    <3> HIDE DEF e, start
    <3>2. QED
      BY <1>4, <1>7, <2>1, <3>1
  <2>4. start \in Int /\ now - Window < start /\ 0 <= start
    BY <1>3, <1>4
  <2>5. QED
    BY <1>2, <1>3, <1>8, <2>2, <2>3, <2>4
<1>9. CASE ~Exceeds(e.count)
  <2>1. e.count <= Limit /\ passes'[k] = Append(passes[k], now) /\ until'[k] = until[k]
    BY <1>2, <1>3, <1>4, <1>9 DEF Exceeds
  <2>2. Within(passes[k], start, now) = e.count - 1 /\ e.count - 1 < Limit
    BY <1>3, <1>4, <2>1
  <2>3. until[k] <= now
    BY <1>3, <1>4, <2>1
  <2>4. /\ Counting(passes'[k], e.resetAt, Window, Limit, now)
        /\ NeverThrice(passes'[k], Window, Limit)
        /\ Within(passes'[k], start, now) = (e.count - 1) + 1
    <3>1. Within(passes[k], start, now) < Limit
      BY <2>2
    <3> HIDE DEF e
    <3>2. QED
      BY <1>3, <1>4, <2>1, <2>2, <3>1, WindowLetsThrough
  <2>5. KeyInv(k)'
    <3>1. Within(passes'[k], start, now) = IF e.count <= Limit THEN e.count ELSE Limit
      BY <1>4, <2>1, <2>4
    <3>2. ~(until'[k] > now)
      BY <1>3, <2>1, <2>3
    <3> HIDE DEF e, start
    <3>3. QED
      BY <1>7, <2>4, <3>1, <3>2
  <2>6. QED
    BY <1>2, <1>3, <1>9, <2>3, <2>5
<1>10. QED
  BY <1>8, <1>9

\* A key no request is made of keeps what is known of it, though its entry may
\* be deleted once it has expired.
LEMMA KeyLeftAlone ==
  ASSUME RateTypeOK, NEW k \in Keys, KeyInv(k), now' = now,
         passes'[k] = passes[k], until'[k] = until[k], forgotten \subseteq forgotten',
         \A n \in DOMAIN entries' : entries'[n].key = k => \E i \in DOMAIN entries : entries'[n] = entries[i],
         k \notin forgotten' => \A i \in DOMAIN entries : entries[i].key = k /\ Live(entries[i]) => k \in KeysOf(entries')
  PROVE  KeyInv(k)'
<1>1. SUFFICES ASSUME k \notin forgotten, k \notin forgotten'
               PROVE  KeyInv(k)'
  BY DEF KeyInv
<1>2. /\ passes[k] \in Seq(Int) /\ until[k] \in Nat /\ now \in Nat /\ now \in Int /\ Limit \in Nat
      /\ Window \in Nat
  BY RateTypes
<1>3. NeverThrice(passes'[k], Window, Limit)
  BY <1>1 DEF KeyInv
<1>4. ASSUME NEW n \in DOMAIN entries', entries'[n].key = k
      PROVE  LET e == entries'[n] IN
             /\ Counting(passes'[k], e.resetAt, Window, Limit, now')
             /\ Within(passes'[k], e.resetAt - Window, now') = IF e.count <= Limit THEN e.count ELSE Limit
             /\ until'[k] > now' => until'[k] = e.resetAt /\ e.count > Limit
  <2>1. PICK i \in DOMAIN entries : entries'[n] = entries[i]
    BY <1>4
  <2>2. QED
    BY <1>1, <1>4, <2>1 DEF KeyInv
<1>5. ASSUME k \notin KeysOf(entries')
      PROVE  Past(passes[k], Window, Limit, now) /\ until[k] <= now
  <2>1. CASE k \notin KeysOf(entries)
    BY <1>1, <2>1 DEF KeyInv
  <2>2. CASE k \in KeysOf(entries)
    <3>1. PICK i \in DOMAIN entries : entries[i].key = k
      BY <2>2 DEF KeysOf
    <3>2. entries[i].resetAt <= now /\ entries[i].resetAt \in Nat /\ entries[i].resetAt \in Int
      BY <1>1, <1>2, <1>5, <3>1, RateTypes DEF Live
    <3>3. /\ Counting(passes[k], entries[i].resetAt, Window, Limit, now)
          /\ until[k] > now => until[k] = entries[i].resetAt
      BY <1>1, <3>1 DEF KeyInv
    <3>4. Past(passes[k], Window, Limit, now)
      BY <1>2, <3>2, <3>3, WindowExpires
    <3>5. QED
      BY <1>2, <3>2, <3>3, <3>4
  <2>3. QED
    BY <2>1, <2>2
<1>6. QED
  BY <1>3, <1>4, <1>5 DEF KeyInv

\* Time passes for a key.
LEMMA KeyAges ==
  ASSUME RateTypeOK, NEW k \in Keys, KeyInv(k), now' = now + 1, UNCHANGED rateVars
  PROVE  KeyInv(k)'
<1>1. /\ entries' = entries /\ passes' = passes /\ until' = until /\ forgotten' = forgotten
  BY DEF rateVars
<1>2. SUFFICES ASSUME k \notin forgotten
               PROVE  KeyInv(k)'
  BY <1>1 DEF KeyInv
<1>3. /\ passes[k] \in Seq(Int) /\ until[k] \in Nat /\ now \in Nat /\ now \in Int /\ Limit \in Nat
      /\ Window \in Nat
  BY RateTypes
<1>4. /\ Past(passes[k], Window, Limit, now) => Past(passes[k], Window, Limit, now + 1)
      /\ \A reset \in Int :
           Counting(passes[k], reset, Window, Limit, now) =>
             /\ Counting(passes[k], reset, Window, Limit, now + 1)
             /\ Within(passes[k], reset - Window, now + 1) = Within(passes[k], reset - Window, now)
  BY <1>3, WindowAges
<1>5. ~(until[k] > now) => ~(until[k] > now + 1)
  BY <1>3
<1>6. ASSUME NEW n \in DOMAIN entries, entries[n].key = k
      PROVE  /\ Counting(passes[k], entries[n].resetAt, Window, Limit, now + 1)
             /\ Within(passes[k], entries[n].resetAt - Window, now + 1)
                  = IF entries[n].count <= Limit THEN entries[n].count ELSE Limit
             /\ until[k] > now + 1 => until[k] = entries[n].resetAt /\ entries[n].count > Limit
  <2>1. entries[n].resetAt \in Int
    BY RateTypes
  <2>2. /\ Counting(passes[k], entries[n].resetAt, Window, Limit, now)
        /\ Within(passes[k], entries[n].resetAt - Window, now)
             = IF entries[n].count <= Limit THEN entries[n].count ELSE Limit
        /\ until[k] > now => until[k] = entries[n].resetAt /\ entries[n].count > Limit
    BY <1>2, <1>6 DEF KeyInv
  <2>3. QED
    BY <1>4, <1>5, <2>1, <2>2
<1>7. k \notin KeysOf(entries) => Past(passes[k], Window, Limit, now + 1) /\ until[k] <= now + 1
  BY <1>2, <1>3, <1>4 DEF KeyInv
<1>8. NeverThrice(passes[k], Window, Limit)
  BY <1>2 DEF KeyInv
<1>9. QED
  BY <1>1, <1>6, <1>7, <1>8 DEF KeyInv

\* What a request may do: the steps of the three action properties.
RefusedStep ==
  Asked /\ last'.verdict = "refused" =>
    LET from == IF now < Window THEN 0 ELSE now - Window + 1
    IN PassesIn(last'.key, from, now) >= Limit \/ last'.key \in forgotten

PassedStep ==
  Asked /\ last'.verdict = "pass" => now >= until[last'.key] \/ last'.key \in forgotten'

EvictedStep ==
  Asked /\ Lost(entries, entries') # {} => \A n \in DOMAIN entries' : Live(entries'[n])

\* The key a request is answered for.
LEMMA KeyIsAnswered ==
  ASSUME RateInv, calls < MaxCalls, now' = now, NEW c \in Clients, Counted(c)
  PROVE  LET k == KeyOf(c)
             e == EntryOf(entries', k)
         IN /\ k \in Keys /\ k # Missing
            /\ CountsFor(k, entries, entries') /\ GivesUpLast(entries, entries')
            /\ e \in Entry /\ e.key = k
            /\ forgotten' = forgotten \cup Lost(entries, entries')
            /\ Lost(entries, entries') = {entries[i].key : i \in {i \in DOMAIN entries : Live(entries[i])}} \ KeysOf(entries')
            /\ \/ /\ Exceeds(e.count) /\ last' = [key |-> k, verdict |-> "refused"]
                  /\ passes' = passes /\ until' = [until EXCEPT ![k] = e.resetAt]
               \/ /\ ~Exceeds(e.count) /\ last' = [key |-> k, verdict |-> "pass"]
                  /\ passes' = [passes EXCEPT ![k] = Append(@, now)] /\ until' = until
            /\ KeyInv(k)'
            /\ k \notin forgotten =>
                 IF Exceeds(e.count)
                 THEN \E from \in Int : now - Window < from /\ 0 <= from /\ Within(passes[k], from, now) >= Limit
                 ELSE now >= until[k]
<1> DEFINE k == KeyOf(c)
           e == EntryOf(entries', k)
<1>1. k \in Keys /\ k # Missing
  BY DEF Counted, KeyOf, Keys
<1>2. RateTypeOK /\ MapInv /\ KeyInv(k)
  BY <1>1 DEF RateInv
<1>3. CountsFor(k, entries, entries') /\ GivesUpLast(entries, entries')
  BY <1>2, CountedCounts
<1>4. e \in Entry /\ e.key = k
  <2>1. PICK n \in DOMAIN entries' : entries'[n].key = k
    BY <1>3 DEF CountsFor
  <2>2. e = entries'[n]
    BY <1>3, <2>1, EntryFound DEF CountsFor
  <2>3. entries'[n] \in Entry
    BY <1>3, <2>1, LenProperties DEF CountsFor
  <2>4. QED
    BY <2>1, <2>2, <2>3
<1>5. forgotten' = forgotten \cup Lost(entries, entries')
  BY DEF Counted
<1>6. Lost(entries, entries') = {entries[i].key : i \in {i \in DOMAIN entries : Live(entries[i])}} \ KeysOf(entries')
  BY <1>2, LostOf DEF MapInv, RateTypeOK
<1>7. \/ /\ Exceeds(e.count) /\ last' = [key |-> k, verdict |-> "refused"]
         /\ passes' = passes /\ until' = [until EXCEPT ![k] = e.resetAt]
      \/ /\ ~Exceeds(e.count) /\ last' = [key |-> k, verdict |-> "pass"]
         /\ passes' = [passes EXCEPT ![k] = Append(@, now)] /\ until' = until
  BY DEF Counted
<1>8. IF Exceeds(e.count)
      THEN passes'[k] = passes[k] /\ until'[k] = e.resetAt
      ELSE passes'[k] = Append(passes[k], now) /\ until'[k] = until[k]
  BY <1>1, <1>2, <1>7 DEF RateTypeOK
<1> HIDE DEF k, e
<1>9. /\ KeyInv(k)'
      /\ k \notin forgotten =>
           IF Exceeds(e.count)
           THEN \E from \in Int : now - Window < from /\ 0 <= from /\ Within(passes[k], from, now) >= Limit
           ELSE now >= until[k]
  BY <1>1, <1>2, <1>3, <1>5, <1>8, KeyAnswered DEF e
<1>10. QED
  BY <1>1, <1>3, <1>4, <1>5, <1>6, <1>7, <1>9 DEF k, e

\* What the rest of the system sees of a request.
Passed(c) ==
  \/ passes' = passes /\ last'.verdict # "pass"
  \/ KeyOf(c) \in Keys /\ now \in 0 .. MaxTime /\ passes' = [passes EXCEPT ![KeyOf(c)] = Append(@, now)]

\* A request that is counted keeps the invariant, and is refused or let through
\* for a reason.
LEMMA CountedKeeps ==
  ASSUME RateInv, calls < MaxCalls, calls' = calls + 1, now' = now, NEW c \in Clients, Counted(c)
  PROVE  RateInv' /\ RefusedStep /\ PassedStep /\ EvictedStep /\ Passed(c)
<1> DEFINE k == KeyOf(c)
           e == EntryOf(entries', k)
<1>1. /\ k \in Keys /\ k # Missing
      /\ CountsFor(k, entries, entries') /\ GivesUpLast(entries, entries')
      /\ e \in Entry /\ e.key = k
      /\ forgotten' = forgotten \cup Lost(entries, entries')
      /\ Lost(entries, entries') = {entries[i].key : i \in {i \in DOMAIN entries : Live(entries[i])}} \ KeysOf(entries')
      /\ \/ /\ Exceeds(e.count) /\ last' = [key |-> k, verdict |-> "refused"]
            /\ passes' = passes /\ until' = [until EXCEPT ![k] = e.resetAt]
         \/ /\ ~Exceeds(e.count) /\ last' = [key |-> k, verdict |-> "pass"]
            /\ passes' = [passes EXCEPT ![k] = Append(@, now)] /\ until' = until
      /\ KeyInv(k)'
      /\ k \notin forgotten =>
           IF Exceeds(e.count)
           THEN \E from \in Int : now - Window < from /\ 0 <= from /\ Within(passes[k], from, now) >= Limit
           ELSE now >= until[k]
  BY KeyIsAnswered
<1> HIDE DEF k, e
<1>2. RateTypeOK /\ MapInv /\ \A j \in Keys : KeyInv(j)
  BY DEF RateInv
<1>3. /\ entries' \in Seq(Entry) /\ OneEach(entries') /\ Len(entries') <= MaxEntries
      /\ DOMAIN entries' = 1 .. Len(entries') /\ \A n \in DOMAIN entries' : entries'[n] \in Entry
  BY <1>1, LenProperties DEF CountsFor
<1>4. /\ passes \in [Keys -> Seq(0 .. MaxTime)] /\ until \in [Keys -> 0 .. MaxTime + Window]
      /\ now \in 0 .. MaxTime /\ forgotten \subseteq Keys /\ calls \in 0 .. MaxCalls
  BY <1>2 DEF RateTypeOK
<1>5. \A j \in Keys \ {k} : passes'[j] = passes[j] /\ until'[j] = until[j]
  BY <1>1, <1>4
<1>6. Lost(entries, entries') \subseteq Keys
  BY <1>1, <1>2, RateTypes
<1>7. RateTypeOK'
  <2>1. passes' \in [Keys -> Seq(0 .. MaxTime)]
    <3>1. passes[k] \in Seq(0 .. MaxTime) /\ Append(passes[k], now) \in Seq(0 .. MaxTime)
      BY <1>1, <1>4, AppendProperties
    <3>2. QED
      BY <1>1, <1>4, <3>1
  <2>2. until' \in [Keys -> 0 .. MaxTime + Window]
    <3>1. e.resetAt \in 0 .. MaxTime + Window
      BY <1>1, RateAssumption DEF Entry
    <3>2. QED
      BY <1>1, <1>4, <3>1
  <2>3. last' \in [key : Keys \cup {Missing}, verdict : Verdicts]
    BY <1>1 DEF Verdicts
  <2>4. forgotten' \subseteq Keys
    BY <1>1, <1>4, <1>6
  <2>5. calls' \in 0 .. MaxCalls
    BY <1>4, RateAssumption
  <2>6. QED
    BY <1>3, <1>4, <2>1, <2>2, <2>3, <2>4, <2>5 DEF RateTypeOK
<1>8. MapInv'
  <2>1. ASSUME NEW n \in DOMAIN entries'
        PROVE  /\ entries'[n].count <= calls + 1 /\ Window <= entries'[n].resetAt
               /\ entries'[n].resetAt <= now + Window
    <3>0. /\ now \in Nat /\ Window \in Nat /\ calls \in Nat
          /\ \A i \in DOMAIN entries : /\ entries[i].count \in Nat /\ entries[i].resetAt \in Nat
                                       /\ entries[i].count <= calls /\ Window <= entries[i].resetAt
                                       /\ entries[i].resetAt <= now + Window /\ entries[i] \in Entry
      BY <1>2, RateTypes DEF MapInv
    <3>1. CASE entries'[n].key # k
      <4>1. PICK i \in DOMAIN entries : entries'[n] = entries[i]
        BY <1>1, <3>1 DEF CountsFor
      <4>2. QED
        BY <3>0, <4>1
    <3>2. CASE entries'[n].key = k
      <4>1. PICK m \in DOMAIN entries' :
              /\ entries'[m].key = k
              /\ \/ \E i \in DOMAIN entries : InWindow(entries[i], k) /\ entries'[m] = [entries[i] EXCEPT !.count = @ + 1]
                 \/ entries'[m] = [key |-> k, count |-> 1, resetAt |-> now + Window]
        BY <1>1 DEF CountsFor
      <4>2. m = n
        BY <1>3, <3>2, <4>1 DEF OneEach
      <4>3. CASE \E i \in DOMAIN entries : InWindow(entries[i], k) /\ entries'[m] = [entries[i] EXCEPT !.count = @ + 1]
        <5>1. PICK i \in DOMAIN entries : entries'[m] = [entries[i] EXCEPT !.count = @ + 1]
          BY <4>3
        <5>2. entries'[m].count = entries[i].count + 1 /\ entries'[m].resetAt = entries[i].resetAt
          BY <3>0, <5>1 DEF Entry
        <5>3. QED
          BY <3>0, <4>2, <5>2
      <4>4. CASE entries'[m] = [key |-> k, count |-> 1, resetAt |-> now + Window]
        BY <3>0, <4>2, <4>4
      <4>5. QED
        BY <4>1, <4>3, <4>4
    <3>3. QED
      BY <3>1, <3>2
  <2>2. QED
    BY <1>3, <2>1 DEF MapInv
<1>9. \A j \in Keys : KeyInv(j)'
  <2>1. ASSUME NEW j \in Keys, j # k
        PROVE  KeyInv(j)'
    <3>1. passes'[j] = passes[j] /\ until'[j] = until[j] /\ forgotten \subseteq forgotten'
      BY <1>1, <1>5, <2>1
    <3>2. \A n \in DOMAIN entries' : entries'[n].key = j => \E i \in DOMAIN entries : entries'[n] = entries[i]
      BY <1>1, <2>1 DEF CountsFor
    <3>3. j \notin forgotten' => \A i \in DOMAIN entries : entries[i].key = j /\ Live(entries[i]) => j \in KeysOf(entries')
      BY <1>1
    <3>4. QED
      BY <1>2, <3>1, <3>2, <3>3, KeyLeftAlone
  <2>2. QED
    BY <1>1, <2>1
<1>10. RefusedStep
  <2>1. SUFFICES ASSUME last'.verdict = "refused", k \notin forgotten
                 PROVE  LET from == IF now < Window THEN 0 ELSE now - Window + 1
                        IN PassesIn(k, from, now) >= Limit
    BY <1>1 DEF RefusedStep
  <2>2. PICK from \in Int : now - Window < from /\ 0 <= from /\ Within(passes[k], from, now) >= Limit
    BY <1>1, <2>1
  <2> DEFINE first == IF now < Window THEN 0 ELSE now - Window + 1
  <2>3. /\ passes[k] \in Seq(Int) /\ now \in Int /\ Window \in Nat /\ Limit \in Nat
        /\ first \in Int /\ first <= from
    BY <1>1, <1>2, <2>2, RateTypes
  <2>4. \A n \in DOMAIN passes[k] : passes[k][n] \in Int
    BY <2>3, LenProperties
  <2> HIDE DEF first
  <2>5. Within(passes[k], from, now) <= Within(passes[k], first, now)
    <3>1. \A n \in DOMAIN passes[k] : passes[k][n] \in from .. now => passes[k][n] \in first .. now
      BY <2>3, <2>4
    <3>2. QED
      BY <2>3, <3>1, WithinMonotone
  <2>6. Within(passes[k], from, now) \in Nat /\ Within(passes[k], first, now) \in Nat
    BY <2>3, WithinType
  <2>7. Within(passes[k], first, now) >= Limit
    BY <2>2, <2>3, <2>5, <2>6
  <2>8. QED
    BY <2>7 DEF PassesIn, first
<1>11. PassedStep
  BY <1>1 DEF PassedStep
<1>12. EvictedStep
  <2>1. Lost(entries, entries') # {} => \E i \in DOMAIN entries : Live(entries[i]) /\ entries[i].key \notin KeysOf(entries')
    BY <1>1
  <2>2. QED
    BY <1>1, <2>1 DEF EvictedStep, GivesUpLast
<1>13. Passed(c)
  BY <1>1, <1>4 DEF Passed, k
<1>14. QED
  BY <1>7, <1>8, <1>9, <1>10, <1>11, <1>12, <1>13 DEF RateInv

\* Whatever a request meets, the hook keeps the invariant.
LEMMA RequestKeeps ==
  ASSUME RateInv, NEW c \in Clients, Request(c)
  PROVE  RateInv' /\ RefusedStep /\ PassedStep /\ EvictedStep /\ Passed(c)
<1>1. calls < MaxCalls /\ calls' = calls + 1 /\ now' = now
  BY DEF Request
<1>2. CASE Counted(c)
  BY <1>1, <1>2, CountedKeeps
<1>3. CASE BadRequest(c)
  <2>1. /\ entries' = entries /\ passes' = passes /\ until' = until /\ forgotten' = forgotten
        /\ last' = [key |-> Missing, verdict |-> "bad"]
    BY <1>3 DEF BadRequest
  <2>2. RateTypeOK /\ MapInv /\ \A k \in Keys : KeyInv(k)
    BY DEF RateInv
  <2>3. RateTypeOK'
    BY <1>1, <2>1, <2>2, RateAssumption DEF RateTypeOK, Verdicts
  <2>4. MapInv'
    <3>1. \A n \in DOMAIN entries : entries[n].count <= calls + 1
      BY <2>2, RateTypes DEF MapInv
    <3>2. QED
      BY <1>1, <2>1, <2>2, <3>1 DEF MapInv
  <2>5. \A k \in Keys : KeyInv(k)'
    BY <1>1, <2>1, <2>2 DEF KeyInv
  <2>6. Lost(entries, entries') = {}
    BY <2>1, <2>2, LostOf DEF MapInv, RateTypeOK, KeysOf
  <2>7. RefusedStep /\ PassedStep /\ EvictedStep /\ Passed(c)
    BY <2>1, <2>6 DEF RefusedStep, PassedStep, EvictedStep, Passed
  <2>8. QED
    BY <2>3, <2>4, <2>5, <2>7 DEF RateInv
<1>4. QED
  BY <1>2, <1>3 DEF Request

\* A request that passes is one more pass of its key, and no other request is.
LEMMA PassesGrow ==
  ASSUME RateInv, NEW c \in Clients, Passed(c)
  PROVE  /\ \A k \in Keys : /\ Len(passes[k]) \in Nat /\ Len(passes'[k]) \in Nat
                            /\ Len(passes[k]) <= Len(passes'[k])
         /\ last'.verdict = "pass" => passes' # passes
         /\ passes' # passes => KeyOf(c) \in Keys /\ Len(passes'[KeyOf(c)]) = Len(passes[KeyOf(c)]) + 1
<1>1. passes \in [Keys -> Seq(0 .. MaxTime)]
  BY DEF RateInv, RateTypeOK
<1>2. \A k \in Keys : Len(passes[k]) \in Nat
  BY <1>1, LenProperties
<1>3. CASE passes' = passes /\ last'.verdict # "pass"
  BY <1>2, <1>3
<1>4. CASE KeyOf(c) \in Keys /\ now \in 0 .. MaxTime /\ passes' = [passes EXCEPT ![KeyOf(c)] = Append(@, now)]
  <2>1. passes'[KeyOf(c)] = Append(passes[KeyOf(c)], now) /\ passes[KeyOf(c)] \in Seq(0 .. MaxTime)
    BY <1>1, <1>4
  <2>2. Len(passes'[KeyOf(c)]) = Len(passes[KeyOf(c)]) + 1
    BY <1>4, <2>1, AppendProperties
  <2>3. \A k \in Keys : k # KeyOf(c) => passes'[k] = passes[k]
    BY <1>1, <1>4
  <2>4. \A k \in Keys : Len(passes'[k]) \in Nat /\ Len(passes[k]) <= Len(passes'[k])
    BY <1>2, <1>4, <2>2, <2>3
  <2>5. Len(passes[KeyOf(c)]) # Len(passes'[KeyOf(c)])
    BY <1>2, <1>4, <2>2
  <2>6. QED
    BY <1>2, <1>4, <2>2, <2>4, <2>5
<1>5. QED
  BY <1>3, <1>4 DEF Passed

\* store.reset() deletes one entry and forgets its key.
LEMMA ResetKeeps ==
  ASSUME RateInv, NEW k \in Keys, Reset(k)
  PROVE  RateInv' /\ RefusedStep /\ PassedStep /\ EvictedStep /\ passes' = passes
<1> DEFINE stays == {n \in DOMAIN entries : entries[n].key \notin {k}}
<1>1. /\ now' = now /\ last' = last /\ passes' = passes /\ until' = until /\ calls' = calls
      /\ entries' = Kept(entries, stays) /\ forgotten' = forgotten \cup Lost(entries, entries')
  BY DEF Reset, Without
<1>2. RateTypeOK /\ MapInv /\ \A j \in Keys : KeyInv(j)
  BY DEF RateInv
<1>3. entries \in Seq(Entry) /\ OneEach(entries) /\ Len(entries) <= MaxEntries
  BY <1>2 DEF RateTypeOK, MapInv
<1>4. /\ entries' \in Seq(Entry) /\ OneEach(entries') /\ Len(entries') <= Len(entries)
      /\ \A n \in DOMAIN entries' : \E i \in DOMAIN entries : entries'[n] = entries[i]
  <2>1. stays \in SUBSET DOMAIN entries
    OBVIOUS
  <2> HIDE DEF stays
  <2>2. QED
    BY <1>1, <1>3, <2>1, KeptEntries
<1>5. Lost(entries, entries') = {entries[i].key : i \in {i \in DOMAIN entries : Live(entries[i])}} \ KeysOf(entries')
  BY <1>3, LostOf
<1>6. Len(entries') <= MaxEntries
  BY <1>3, <1>4, LenProperties, RateAssumption
<1>7. RateTypeOK'
  <2>1. Lost(entries, entries') \subseteq Keys
    BY <1>2, <1>5, RateTypes
  <2>2. QED
    BY <1>1, <1>2, <1>4, <2>1 DEF RateTypeOK
<1>8. MapInv'
  BY <1>1, <1>2, <1>4, <1>6 DEF MapInv
<1>9. ASSUME NEW j \in Keys
      PROVE  KeyInv(j)'
  <2>1. \A n \in DOMAIN entries' : entries'[n].key = j => \E i \in DOMAIN entries : entries'[n] = entries[i]
    BY <1>4
  <2>2. j \notin forgotten' => \A i \in DOMAIN entries : entries[i].key = j /\ Live(entries[i]) => j \in KeysOf(entries')
    BY <1>1, <1>5
  <2>3. QED
    BY <1>1, <1>2, <2>1, <2>2, KeyLeftAlone
<1>10. ~Asked
  BY <1>1 DEF Asked
<1>11. QED
  BY <1>1, <1>7, <1>8, <1>9, <1>10 DEF RateInv, RefusedStep, PassedStep, EvictedStep

\* A tick keeps the invariant.
LEMMA TickKeepsRate ==
  ASSUME RateInv, now < MaxTime, now' = now + 1, UNCHANGED rateVars
  PROVE  RateInv'
<1>1. RateTypeOK /\ MapInv /\ \A j \in Keys : KeyInv(j)
  BY DEF RateInv
<1>2. /\ entries' = entries /\ passes' = passes /\ until' = until /\ forgotten' = forgotten
      /\ last' = last /\ calls' = calls
  BY DEF rateVars
<1>3. now \in Nat /\ MaxTime \in Nat /\ Window \in Nat /\ \A n \in DOMAIN entries : entries[n].resetAt \in Nat
  BY <1>1, RateTypes
<1>4. RateTypeOK'
  BY <1>1, <1>2, <1>3 DEF RateTypeOK
<1>5. MapInv'
  <2>1. \A n \in DOMAIN entries : entries[n].resetAt <= now + 1 + Window
    BY <1>1, <1>3 DEF MapInv
  <2>2. QED
    BY <1>1, <1>2, <2>1 DEF MapInv
<1>6. \A k \in Keys : KeyInv(k)'
  BY <1>1, KeyAges
<1>7. QED
  BY <1>4, <1>5, <1>6 DEF RateInv

-----------------------------------------------------------------------------
(* The connections *)

\* The types of a connection.
LEMMA SocketTypes ==
  ASSUME TypeOK, NEW c \in Sockets
  PROVE  /\ handled[c] \in Seq(Int) /\ received[c] \in Seq(Int)
         /\ handled[c] \in Seq(0 .. MaxTime) /\ received[c] \in Seq(0 .. MaxTime)
         /\ limiter[c] \in [count : Nat, resetAt : 0 .. MaxTime + MsgWindow]
         /\ limiter[c].count \in Nat /\ limiter[c].resetAt \in Nat
         /\ now \in Nat /\ now \in 0 .. MaxTime /\ MaxTime \in Nat
         /\ MsgWindow \in Nat \ {0} /\ MsgBound \in Nat /\ MsgBound >= 1 /\ MsgLimit \in Nat /\ MaxMessages \in [Sockets -> Nat]
<1>1. now \in 0 .. MaxTime /\ MaxTime \in Nat /\ now \in Nat
  BY RateAssumption DEF TypeOK, RateTypeOK
<1>2. /\ MsgWindow \in Nat \ {0} /\ MsgBound \in Nat /\ MsgBound >= 1 /\ MsgLimit \in Nat /\ MaxMessages \in [Sockets -> Nat]
  BY WsAssumption DEF MsgBound
<1>3. handled[c] \in Seq(0 .. MaxTime) /\ received[c] \in Seq(0 .. MaxTime)
  BY DEF TypeOK
<1>4. 0 .. MaxTime \subseteq Int
  OBVIOUS
<1>5. handled[c] \in Seq(Int) /\ received[c] \in Seq(Int)
  BY <1>3, <1>4, SeqMonotonic
<1>6. /\ limiter[c] \in [count : Nat, resetAt : 0 .. MaxTime + MsgWindow]
      /\ limiter[c].count \in Nat /\ limiter[c].resetAt \in Nat
  BY <1>1, <1>2 DEF TypeOK
<1>7. QED
  BY <1>1, <1>2, <1>3, <1>5, <1>6

\* A message that is turned away came when as many as allowed had arrived.
BusyStep ==
  \A c \in Sockets :
    received'[c] # received[c] /\ reply'[c] = "RATE_LIMITED" =>
      Within(received[c], now - MsgWindow + 1, now) >= MsgLimit

\* The window a message is counted in, open or new, with the message itself in
\* the count already.
MessageWindow(c, l) ==
  /\ l.count \in Nat /\ l.count >= 1 /\ l.resetAt \in Nat
  /\ now < l.resetAt /\ l.resetAt <= now + MsgWindow /\ MsgWindow <= l.resetAt
  /\ Counting(handled[c], l.resetAt, MsgWindow, MsgBound, now)
  /\ Within(handled[c], l.resetAt - MsgWindow, now) <= l.count - 1
  /\ l.count - 1 <= Within(received[c], l.resetAt - MsgWindow, now)
  /\ ~Limited(c) => Within(handled[c], l.resetAt - MsgWindow, now) < MsgBound

\* The tally of a message is that of its window.
LEMMA TallyCounts ==
  ASSUME TypeOK, NEW c \in Sockets, MessageInv(c)
  PROVE  MessageWindow(c, Tally(c))
<1> DEFINE reset == limiter[c].resetAt
           l == Tally(c)
<1>1. /\ handled[c] \in Seq(Int) /\ received[c] \in Seq(Int)
      /\ limiter[c] \in [count : Nat, resetAt : 0 .. MaxTime + MsgWindow]
      /\ limiter[c].count \in Nat /\ reset \in Nat /\ reset \in Int /\ now \in Nat /\ now \in Int
      /\ MsgWindow \in Nat \ {0} /\ MsgWindow \in Nat /\ MsgBound \in Nat /\ MsgBound >= 1 /\ MsgLimit \in Nat
  BY SocketTypes
<1>2. CASE now < reset
  <2>1. l = [limiter[c] EXCEPT !.count = @ + 1]
    BY <1>2 DEF Tally
  <2>2. l.count = limiter[c].count + 1 /\ l.resetAt = reset
    BY <1>1, <2>1
  <2>3. reset # 0
    BY <1>1, <1>2
  <2>4. /\ MsgWindow <= reset /\ reset <= now + MsgWindow
        /\ Counting(handled[c], reset, MsgWindow, MsgBound, now)
        /\ Within(handled[c], reset - MsgWindow, now) <= limiter[c].count
        /\ limiter[c].count <= Within(received[c], reset - MsgWindow, now)
    BY <2>3 DEF MessageInv
  <2>5. l.count - 1 = limiter[c].count /\ l.count \in Nat /\ l.count >= 1
    <3>1. limiter[c].count \in Nat
      BY <1>1
    <3> HIDE DEF l
    <3>2. QED
      BY <2>2, <3>1
  <2>6. ~Limited(c) => Within(handled[c], l.resetAt - MsgWindow, now) < MsgBound
    <3>1. SUFFICES ASSUME ~Limited(c)
                   PROVE  Within(handled[c], reset - MsgWindow, now) < MsgBound
      BY <2>2
    <3>2. limiter[c].count + 1 <= MsgLimit
      BY <1>1, <1>2, <2>2, <3>1 DEF Limited
    <3>3. MsgBound = MsgLimit
      BY <1>1, <3>2 DEF MsgBound
    <3>4. reset - MsgWindow \in Int
      BY <1>1
    <3>5. Within(handled[c], reset - MsgWindow, now) \in Nat
      BY <1>1, <3>4, WithinType
    <3>6. QED
      BY <1>1, <2>4, <3>2, <3>3, <3>5
  <2> HIDE DEF l
  <2>7. MessageWindow(c, l)
    BY <1>1, <1>2, <2>2, <2>4, <2>5, <2>6 DEF MessageWindow
  <2>8. QED
    BY <2>7 DEF l
<1>3. CASE ~(now < reset)
  <2>1. l = [count |-> 1, resetAt |-> now + MsgWindow]
    BY <1>3 DEF Tally
  <2>2. l.count = 1 /\ l.resetAt = now + MsgWindow /\ l.resetAt - MsgWindow = now /\ l.count - 1 = 0
    BY <1>1, <2>1
  <2>3. Past(handled[c], MsgWindow, MsgBound, now)
    <3>1. CASE reset = 0
      <4>1. handled[c] = <<>>
        BY <3>1 DEF MessageInv
      <4>2. DOMAIN handled[c] = {}
        BY <4>1
      <4>3. Within(handled[c], now - MsgWindow + 1, now) = 0
        <5>1. {n \in DOMAIN handled[c] : handled[c][n] \in (now - MsgWindow + 1) .. now} = {}
          BY <4>2
        <5>2. QED
          BY <5>1, FS_EmptySet DEF Within
      <4>4. QED
        BY <1>1, <4>2, <4>3 DEF Past
    <3>2. CASE reset # 0
      <4>1. Counting(handled[c], reset, MsgWindow, MsgBound, now) /\ reset <= now
        BY <1>1, <1>3, <3>2 DEF MessageInv
      <4>2. QED
        BY <1>1, <4>1, WindowExpires
    <3>3. QED
      BY <3>1, <3>2
  <2>4. /\ Counting(handled[c], now + MsgWindow, MsgWindow, MsgBound, now)
        /\ Within(handled[c], now, now) = 0
    BY <1>1, <2>3, WindowStarts
  <2>5. Within(received[c], now, now) \in Nat
    BY <1>1, WithinType
  <2>6. now < l.resetAt /\ l.resetAt <= now + MsgWindow /\ MsgWindow <= l.resetAt /\ l.resetAt \in Nat
    BY <1>1, <2>2
  <2> HIDE DEF l
  <2>7. MessageWindow(c, l)
    BY <1>1, <2>2, <2>4, <2>5, <2>6 DEF MessageWindow
  <2>8. QED
    BY <2>7 DEF l
<1>4. QED
  BY <1>2, <1>3

\* What a message does to its own connection.
LEMMA MessageKeeps ==
  ASSUME TypeOK, NEW c \in Sockets, MessageInv(c), NEW kind, Message(c, kind)
  PROVE  /\ MessageInv(c)' /\ BusyStep
         /\ limiter' \in [Sockets -> [count : Nat, resetAt : 0 .. MaxTime + MsgWindow]]
         /\ received' \in [Sockets -> Seq(0 .. MaxTime)] /\ handled' \in [Sockets -> Seq(0 .. MaxTime)]
         /\ \A d \in Sockets : Len(handled'[d]) <= Len(received'[d]) /\ Len(received'[d]) <= MaxMessages[d]
         /\ \A d \in Sockets \ {c} :
              received'[d] = received[d] /\ handled'[d] = handled[d] /\ limiter'[d] = limiter[d]
<1> DEFINE l == Tally(c)
           start == l.resetAt - MsgWindow
<1>1. /\ handled[c] \in Seq(Int) /\ received[c] \in Seq(Int)
      /\ handled[c] \in Seq(0 .. MaxTime) /\ received[c] \in Seq(0 .. MaxTime)
      /\ now \in Nat /\ now \in Int /\ now \in 0 .. MaxTime /\ MaxTime \in Nat
      /\ MsgWindow \in Nat \ {0} /\ MsgBound \in Nat /\ MsgLimit \in Nat /\ MaxMessages \in [Sockets -> Nat]
      /\ limiter[c].count \in Nat /\ limiter[c].resetAt \in Nat
  BY SocketTypes
<1>2. /\ l.count \in Nat /\ l.count >= 1 /\ l.resetAt \in Nat /\ l.resetAt \in Int
      /\ now < l.resetAt /\ l.resetAt <= now + MsgWindow /\ MsgWindow <= l.resetAt
      /\ Counting(handled[c], l.resetAt, MsgWindow, MsgBound, now)
      /\ Within(handled[c], start, now) <= l.count - 1
      /\ l.count - 1 <= Within(received[c], start, now)
      /\ ~Limited(c) => Within(handled[c], start, now) < MsgBound
  BY TallyCounts DEF MessageWindow
<1>3. /\ Len(received[c]) < MaxMessages[c] /\ now' = now /\ conn[c] = "open"
      /\ received' = [received EXCEPT ![c] = Append(@, now)]
      /\ limiter' = [limiter EXCEPT ![c] = l]
      /\ reply' = [reply EXCEPT ![c] = IF Limited(c) THEN "RATE_LIMITED" ELSE Outcome(kind)]
      /\ \/ handled' = handled
         \/ ~Limited(c) /\ handled' = [handled EXCEPT ![c] = Append(@, now)]
  BY DEF Message
<1>4. /\ limiter \in [Sockets -> [count : Nat, resetAt : 0 .. MaxTime + MsgWindow]]
      /\ received \in [Sockets -> Seq(0 .. MaxTime)] /\ handled \in [Sockets -> Seq(0 .. MaxTime)]
      /\ reply \in [Sockets -> Replies]
      /\ \A d \in Sockets : Len(handled[d]) <= Len(received[d]) /\ Len(received[d]) <= MaxMessages[d]
  BY DEF TypeOK
<1>5. l = [count |-> l.count, resetAt |-> l.resetAt]
  <2>1. limiter[c] \in [count : Nat, resetAt : 0 .. MaxTime + MsgWindow]
    BY SocketTypes
  <2>2. QED
    BY <2>1 DEF Tally
<1> HIDE DEF l
<1>6. /\ received'[c] = Append(received[c], now) /\ limiter'[c] = l
      /\ handled'[c] = handled[c] \/ (~Limited(c) /\ handled'[c] = Append(handled[c], now))
      /\ \A d \in Sockets \ {c} :
           received'[d] = received[d] /\ handled'[d] = handled[d] /\ limiter'[d] = limiter[d]
  BY <1>3, <1>4
<1>7. start \in Int /\ now \in start .. now
  BY <1>1, <1>2
<1> HIDE DEF start
<1>8. /\ received'[c] \in Seq(Int) /\ received'[c] \in Seq(0 .. MaxTime)
      /\ Len(received'[c]) = Len(received[c]) + 1
      /\ Within(received'[c], start, now) = Within(received[c], start, now) + 1
  BY <1>1, <1>6, <1>7, AppendProperties, WithinAppend
<1>9. l.count <= Within(received'[c], start, now)
  <2>1. Within(received[c], start, now) \in Nat
    BY <1>1, <1>7, WithinType
  <2>2. QED
    BY <1>2, <1>8, <2>1
<1>10. /\ Counting(handled'[c], l.resetAt, MsgWindow, MsgBound, now)
       /\ NeverThrice(handled'[c], MsgWindow, MsgBound)
       /\ Within(handled'[c], start, now) <= l.count
       /\ handled'[c] \in Seq(0 .. MaxTime)
       /\ Len(handled'[c]) <= Len(received'[c])
  <2>0. NeverThrice(handled[c], MsgWindow, MsgBound)
    BY DEF MessageInv
  <2>1. Within(handled[c], start, now) \in Nat /\ Len(handled[c]) \in Nat /\ Len(received[c]) \in Nat
    BY <1>1, <1>7, WithinType
  <2>2. CASE handled'[c] = handled[c]
    <3>1. Within(handled'[c], start, now) <= l.count
      BY <1>2, <2>1, <2>2
    <3>2. Len(handled'[c]) <= Len(received'[c])
      BY <1>4, <1>8, <2>1, <2>2
    <3>3. QED
      BY <1>1, <1>2, <2>0, <2>2, <3>1, <3>2
  <2>3. CASE ~Limited(c) /\ handled'[c] = Append(handled[c], now)
    <3>1. Within(handled[c], l.resetAt - MsgWindow, now) < MsgBound
      BY <1>2, <2>3 DEF start
    <3>2. /\ Counting(handled'[c], l.resetAt, MsgWindow, MsgBound, now)
          /\ NeverThrice(handled'[c], MsgWindow, MsgBound)
          /\ Within(handled'[c], start, now) = Within(handled[c], start, now) + 1
      BY <1>1, <1>2, <2>0, <2>3, <3>1, WindowLetsThrough DEF start
    <3>3. handled'[c] \in Seq(0 .. MaxTime) /\ Len(handled'[c]) = Len(handled[c]) + 1
      BY <1>1, <2>3, AppendProperties
    <3>4. Len(handled'[c]) <= Len(received'[c])
      BY <1>4, <1>8, <2>1, <3>3
    <3>5. Within(handled'[c], start, now) <= l.count
      BY <1>2, <2>1, <3>2
    <3>6. QED
      BY <3>2, <3>3, <3>4, <3>5
  <2>4. QED
    BY <1>6, <2>2, <2>3
<1>11. MessageInv(c)'
  <2>1. l.resetAt # 0
    BY <1>1, <1>2
  <2>2. QED
    BY <1>2, <1>3, <1>6, <1>9, <1>10, <2>1 DEF MessageInv, start
<1>12. BusyStep
  <2>1. ASSUME NEW d \in Sockets, received'[d] # received[d], reply'[d] = "RATE_LIMITED"
        PROVE  Within(received[d], now - MsgWindow + 1, now) >= MsgLimit
    <3>1. d = c
      BY <1>6, <2>1
    <3>2. Limited(c)
      BY <1>3, <1>4, <2>1, <3>1 DEF Outcome
    <3>3. now < limiter[c].resetAt /\ l.count > MsgLimit
      BY <3>2 DEF Limited, l
    <3>4. l.count - 1 >= MsgLimit
      BY <1>1, <1>2, <3>3
    <3>5. start >= now - MsgWindow + 1 /\ now - MsgWindow + 1 \in Int
      BY <1>1, <1>2 DEF start
    <3>6. Within(received[c], start, now) <= Within(received[c], now - MsgWindow + 1, now)
      <4>1. \A n \in DOMAIN received[c] : received[c][n] \in Int
        BY <1>1, LenProperties
      <4>2. \A n \in DOMAIN received[c] : received[c][n] \in start .. now => received[c][n] \in (now - MsgWindow + 1) .. now
        BY <1>1, <1>7, <3>5, <4>1
      <4>3. QED
        BY <1>1, <1>7, <3>5, <4>2, WithinMonotone
    <3>7. Within(received[c], start, now) \in Nat /\ Within(received[c], now - MsgWindow + 1, now) \in Nat
      BY <1>1, <1>7, <3>5, WithinType
    <3>8. QED
      BY <1>1, <1>2, <3>1, <3>4, <3>6, <3>7
  <2>2. QED
    BY <2>1 DEF BusyStep
<1>13. limiter' \in [Sockets -> [count : Nat, resetAt : 0 .. MaxTime + MsgWindow]]
  <2>1. l.resetAt \in 0 .. MaxTime + MsgWindow
    BY <1>1, <1>2
  <2>2. l \in [count : Nat, resetAt : 0 .. MaxTime + MsgWindow]
    BY <1>2, <1>5, <2>1
  <2>3. QED
    BY <1>3, <1>4, <2>2
<1>14. received' \in [Sockets -> Seq(0 .. MaxTime)] /\ handled' \in [Sockets -> Seq(0 .. MaxTime)]
  <2>1. handled' = [handled EXCEPT ![c] = handled'[c]]
    BY <1>3, <1>4
  <2>2. QED
    BY <1>3, <1>4, <1>6, <1>8, <1>10, <2>1
<1>15. \A d \in Sockets : Len(handled'[d]) <= Len(received'[d]) /\ Len(received'[d]) <= MaxMessages[d]
  <2>1. Len(received'[c]) <= MaxMessages[c]
    BY <1>1, <1>3, <1>8, LenProperties
  <2>2. QED
    BY <1>4, <1>6, <1>10, <2>1
<1>16. QED
  BY <1>6, <1>11, <1>12, <1>13, <1>14, <1>15

-----------------------------------------------------------------------------
(* The steps of the whole *)

\* What every step may do to those who are refused or forgotten.
FairStep == RefusedStep /\ PassedStep /\ EvictedStep /\ BusyStep

\* The types of the connections, of the upgrade and of the messages.
UpgradeTypes ==
  /\ conn \in [Sockets -> {"none", "plugins", "upgrade", "open", "closed", "failed"}]
  /\ chain \in [Sockets -> 0 .. NumWsPlugins] /\ ticket \in [Sockets -> Nat]

MessageTypes ==
  /\ limiter \in [Sockets -> [count : Nat, resetAt : 0 .. MaxTime + MsgWindow]]
  /\ received \in [Sockets -> Seq(0 .. MaxTime)] /\ handled \in [Sockets -> Seq(0 .. MaxTime)]
  /\ \A c \in Sockets : Len(handled[c]) <= Len(received[c]) /\ Len(received[c]) <= MaxMessages[c]
  /\ reply \in [Sockets -> Replies]

\* The invariant in the parts that the steps disturb.
LEMMA InvariantParts ==
  IInv <=> /\ RateInv /\ UpgradeTypes /\ MessageTypes /\ Tickets
           /\ \A c \in Sockets : UpgradeInv(c) /\ MessageInv(c)
BY DEF IInv, RateInv, TypeOK, UpgradeTypes, MessageTypes

\* The same of the next state.
LEMMA InvariantPartsNext ==
  IInv' <=> /\ RateInv' /\ UpgradeTypes' /\ MessageTypes' /\ Tickets'
            /\ \A c \in Sockets : UpgradeInv(c)' /\ MessageInv(c)'
BY DEF IInv, RateInv, TypeOK, UpgradeTypes, MessageTypes

\* The rate limiter rests.
LEMMA RateRests ==
  ASSUME RateInv, UNCHANGED <<now, rateVars>>
  PROVE  RateInv' /\ RefusedStep /\ PassedStep /\ EvictedStep
<1>1. /\ now' = now /\ entries' = entries /\ last' = last /\ passes' = passes
      /\ until' = until /\ forgotten' = forgotten /\ calls' = calls
  BY DEF rateVars
<1>2. RateInv'
  BY <1>1 DEF RateInv, RateTypeOK, MapInv, KeyInv
<1>3. ~Asked
  BY <1>1 DEF Asked
<1>4. QED
  BY <1>2, <1>3 DEF RefusedStep, PassedStep, EvictedStep

\* An upgrade that does not move.
LEMMA UpgradeRests ==
  ASSUME NEW c \in Sockets, UpgradeInv(c), conn'[c] = conn[c], chain'[c] = chain[c], ticket'[c] = ticket[c]
  PROVE  UpgradeInv(c)'
BY DEF UpgradeInv

\* Passes are never taken back.
LEMMA TicketsRest ==
  ASSUME Tickets, ticket' = ticket,
         \/ passes' = passes
         \/ \A k \in Keys : /\ Len(passes[k]) \in Nat /\ Len(passes'[k]) \in Nat
                            /\ Len(passes[k]) <= Len(passes'[k])
  PROVE  Tickets'
<1>1. CASE passes' = passes
  BY <1>1 DEF Tickets
<1>2. CASE \A k \in Keys : /\ Len(passes[k]) \in Nat /\ Len(passes'[k]) \in Nat
                            /\ Len(passes[k]) <= Len(passes'[k])
  BY <1>2 DEF Tickets
<1>3. QED
  BY <1>1, <1>2

\* Messages of others do not concern a connection.
LEMMA MessagesRest ==
  ASSUME NEW c \in Sockets, MessageInv(c), now' = now,
         limiter'[c] = limiter[c], received'[c] = received[c], handled'[c] = handled[c]
  PROVE  MessageInv(c)'
BY DEF MessageInv

\* Nothing of the messages changes.
LEMMA NoMessage ==
  ASSUME MessageTypes, UNCHANGED <<limiter, received, handled, reply>>
  PROVE  MessageTypes' /\ BusyStep
BY DEF MessageTypes, BusyStep

\* The windows of a connection age.
LEMMA MessagesAge ==
  ASSUME TypeOK, NEW c \in Sockets, MessageInv(c), now' = now + 1,
         UNCHANGED <<limiter, received, handled>>
  PROVE  MessageInv(c)'
<1> DEFINE reset == limiter[c].resetAt
           start == reset - MsgWindow
<1>1. /\ handled[c] \in Seq(Int) /\ received[c] \in Seq(Int) /\ now \in Int /\ now \in Nat /\ now + 1 \in Int
      /\ MsgWindow \in Nat /\ MsgBound \in Nat /\ reset \in Int /\ start \in Int /\ limiter[c].count \in Nat
  BY SocketTypes
<1>2. /\ NeverThrice(handled[c], MsgWindow, MsgBound)
      /\ reset = 0 => received[c] = <<>> /\ handled[c] = <<>> /\ limiter[c].count = 0
  BY DEF MessageInv
<1>3. ASSUME reset # 0
      PROVE  /\ MsgWindow <= reset /\ reset <= now + 1 + MsgWindow
             /\ Counting(handled[c], reset, MsgWindow, MsgBound, now + 1)
             /\ Within(handled[c], start, now + 1) <= limiter[c].count
             /\ limiter[c].count <= Within(received[c], start, now + 1)
  <2>1. /\ MsgWindow <= reset /\ reset <= now + MsgWindow
        /\ Counting(handled[c], reset, MsgWindow, MsgBound, now)
        /\ Within(handled[c], start, now) <= limiter[c].count
        /\ limiter[c].count <= Within(received[c], start, now)
    BY <1>3 DEF MessageInv
  <2>2. /\ Counting(handled[c], reset, MsgWindow, MsgBound, now + 1)
        /\ Within(handled[c], start, now + 1) = Within(handled[c], start, now)
    <3>0. handled[c] \in Seq(Int) /\ MsgWindow \in Nat /\ MsgBound \in Nat /\ now \in Int
      BY <1>1
    <3>1. /\ Past(handled[c], MsgWindow, MsgBound, now) => Past(handled[c], MsgWindow, MsgBound, now + 1)
          /\ \A r \in Int :
               Counting(handled[c], r, MsgWindow, MsgBound, now) =>
                 /\ Counting(handled[c], r, MsgWindow, MsgBound, now + 1)
                 /\ Within(handled[c], r - MsgWindow, now + 1) = Within(handled[c], r - MsgWindow, now)
      BY <3>0, WindowAges
    <3>2. reset \in Int /\ Counting(handled[c], reset, MsgWindow, MsgBound, now)
      BY <1>1, <2>1
    <3> HIDE DEF reset
    <3>3. QED
      BY <3>1, <3>2
  <2>3. Within(received[c], start, now) <= Within(received[c], start, now + 1)
    <3>1. \A n \in DOMAIN received[c] : received[c][n] \in start .. now => received[c][n] \in start .. (now + 1)
      BY <1>1
    <3>2. QED
      BY <1>1, <3>1, WithinMonotone
  <2>4. Within(received[c], start, now) \in Nat /\ Within(received[c], start, now + 1) \in Nat
    BY <1>1, WithinType
  <2>5. QED
    BY <1>1, <2>1, <2>2, <2>3, <2>4
<1>4. QED
  BY <1>2, <1>3 DEF MessageInv

\* A step of an upgrade that leaves the limiters and the messages alone.
LEMMA UpgradeMoves ==
  ASSUME IInv, NEW c \in Sockets, UNCHANGED <<now, rateVars, limiter, received, handled, reply, ticket>>,
         UpgradeTypes', UpgradeInv(c)',
         \A d \in Sockets \ {c} : conn'[d] = conn[d] /\ chain'[d] = chain[d]
  PROVE  IInv' /\ FairStep
<1>1. RateInv /\ MessageTypes /\ Tickets /\ \A d \in Sockets : UpgradeInv(d) /\ MessageInv(d)
  BY InvariantParts
<1>2. RateInv' /\ RefusedStep /\ PassedStep /\ EvictedStep
  BY <1>1, RateRests
<1>3. MessageTypes' /\ BusyStep
  BY <1>1, NoMessage
<1>4. \A d \in Sockets : MessageInv(d)'
  BY <1>1, MessagesRest
<1>5. passes' = passes
  BY DEF rateVars
<1>6. (\A d \in Sockets : UpgradeInv(d)') /\ Tickets'
  BY <1>1, <1>5, UpgradeRests, TicketsRest
<1>7. QED
  BY <1>2, <1>3, <1>4, <1>6, InvariantPartsNext DEF FairStep

\* The plain request: only the rate limiter is concerned.
LEMMA HttpRequestKeeps ==
  ASSUME IInv, NEW c \in Clients, HttpRequest(c)
  PROVE  IInv' /\ FairStep
<1>1. RateInv /\ UpgradeTypes /\ MessageTypes /\ Tickets /\ \A d \in Sockets : UpgradeInv(d) /\ MessageInv(d)
  BY InvariantParts
<1>2. /\ Request(c) /\ now' = now
      /\ UNCHANGED conn /\ UNCHANGED chain /\ UNCHANGED ticket /\ UNCHANGED <<limiter, received, handled, reply>>
  BY DEF HttpRequest, Request, wsVars
<1>3. RateInv' /\ RefusedStep /\ PassedStep /\ EvictedStep /\ Passed(c)
  BY <1>1, <1>2, RequestKeeps
<1>4. MessageTypes' /\ BusyStep
  BY <1>1, <1>2, NoMessage
<1>5. UpgradeTypes'
  BY <1>1, <1>2 DEF UpgradeTypes
<1>6. (\A d \in Sockets : UpgradeInv(d)' /\ MessageInv(d)') /\ Tickets'
  BY <1>1, <1>2, <1>3, PassesGrow, UpgradeRests, MessagesRest, TicketsRest
<1>7. QED
  BY <1>3, <1>4, <1>5, <1>6, InvariantPartsNext DEF FairStep

\* The request of an upgrade: it goes on only if the hook has let it pass.
LEMMA UpgradeRequestKeeps ==
  ASSUME IInv, NEW c \in Sockets, UpgradeRequest(c)
  PROVE  IInv' /\ FairStep
<1> DEFINE to == IF last'.verdict = "pass" THEN AfterHook ELSE "failed"
           t == IF passes' = passes THEN 0 ELSE Len(passes'[KeyOf(c)])
<1>1. RateInv /\ UpgradeTypes /\ MessageTypes /\ Tickets /\ \A d \in Sockets : UpgradeInv(d) /\ MessageInv(d)
  BY InvariantParts
<1>2. /\ Request(c) /\ now' = now /\ c \in Clients /\ conn[c] = "none" /\ conn' = [conn EXCEPT ![c] = to]
      /\ ticket' = [ticket EXCEPT ![c] = t]
      /\ chain' = chain /\ UNCHANGED <<limiter, received, handled, reply>>
  BY WsAssumption DEF UpgradeRequest, TakeTicket, Request, Goto
<1>3. RateInv' /\ RefusedStep /\ PassedStep /\ EvictedStep /\ Passed(c)
  BY <1>1, <1>2, RequestKeeps
<1>4. MessageTypes' /\ BusyStep
  BY <1>1, <1>2, NoMessage
<1>5. /\ \A k \in Keys : /\ Len(passes[k]) \in Nat /\ Len(passes'[k]) \in Nat
                         /\ Len(passes[k]) <= Len(passes'[k])
      /\ last'.verdict = "pass" => t # 0
      /\ t # 0 => KeyOf(c) \in Keys /\ t = Len(passes[KeyOf(c)]) + 1 /\ t \in 1 .. Len(passes'[KeyOf(c)])
      /\ t \in Nat
  BY <1>1, <1>2, <1>3, PassesGrow
<1>6. to \in {"failed", "upgrade", "plugins"}
  BY DEF AfterHook
<1>7. /\ to = "upgrade" => NumWsPlugins = 0
      /\ to = "plugins" => NumWsPlugins # 0
      /\ to # "failed" => t # 0
  BY <1>5 DEF AfterHook
<1> HIDE DEF to, t
<1>8. /\ UpgradeTypes' /\ conn'[c] = to /\ ticket'[c] = t
      /\ \A d \in Sockets \ {c} : conn'[d] = conn[d] /\ ticket'[d] = ticket[d]
  BY <1>1, <1>2, <1>5, <1>6 DEF UpgradeTypes
<1>9. UpgradeInv(c)'
  <2>1. chain'[c] = 0 /\ NumWsPlugins \in Nat
    BY <1>1, <1>2, WsAssumption DEF UpgradeInv
  <2>2. NumWsPlugins # 0 => 0 < NumWsPlugins
    BY <2>1
  <2>3. QED
    BY <1>6, <1>7, <1>8, <2>1, <2>2 DEF UpgradeInv
<1>10. Tickets'
  <2>1. ASSUME NEW d \in Sockets, ticket'[d] # 0
        PROVE  KeyOf(d) \in Keys /\ ticket'[d] \in 1 .. Len(passes'[KeyOf(d)])
    <3>1. CASE d = c
      BY <1>5, <1>8, <2>1, <3>1
    <3>2. CASE d # c
      <4>1. KeyOf(d) \in Keys /\ ticket[d] \in 1 .. Len(passes[KeyOf(d)]) /\ ticket'[d] = ticket[d]
        BY <1>1, <1>8, <2>1, <3>2 DEF Tickets
      <4>2. QED
        BY <1>5, <4>1
    <3>3. QED
      BY <3>1, <3>2
  <2>2. ASSUME NEW d \in Sockets \ {c}, KeyOf(d) = KeyOf(c), ticket'[d] = t, t # 0
        PROVE  FALSE
    <3>1. ticket[d] = t /\ ticket[d] \in 1 .. Len(passes[KeyOf(c)])
      BY <1>1, <1>8, <2>2 DEF Tickets
    <3>2. QED
      BY <1>5, <2>2, <3>1
  <2>3. ASSUME NEW d \in Sockets, NEW f \in Sockets, KeyOf(d) = KeyOf(f), ticket'[d] = ticket'[f], ticket'[d] # 0
        PROVE  d = f
    <3>1. CASE d # c /\ f # c
      BY <1>1, <1>8, <2>3, <3>1 DEF Tickets
    <3>2. CASE d = c \/ f = c
      BY <1>8, <2>2, <2>3, <3>2
    <3>3. QED
      BY <3>1, <3>2
  <2>4. QED
    BY <2>1, <2>3 DEF Tickets
<1>11. \A d \in Sockets : UpgradeInv(d)' /\ MessageInv(d)'
  BY <1>1, <1>2, <1>8, <1>9, UpgradeRests, MessagesRest
<1>12. QED
  BY <1>3, <1>4, <1>8, <1>10, <1>11, InvariantPartsNext DEF FairStep

\* The plugins, the socket and its end.
LEMMA UpgradeStepKeeps ==
  ASSUME IInv, NEW c \in Sockets, UpgradeStep(c) \/ CloseSocket(c)
  PROVE  IInv' /\ FairStep
<1>1. UpgradeTypes /\ UpgradeInv(c) /\ NumWsPlugins \in Nat /\ chain[c] \in 0 .. NumWsPlugins
  BY InvariantParts, WsAssumption DEF UpgradeTypes
<1>2. passes' = passes /\ UNCHANGED <<now, rateVars, limiter, received, handled, reply, ticket>>
  BY DEF UpgradeStep, PluginResolves, PluginThrows, Upgrade, UpgradeFails, CloseSocket, rateVars
<1>3. CASE PluginResolves(c)
  <2>1. /\ conn[c] = "plugins" /\ chain' = [chain EXCEPT ![c] = @ + 1]
        /\ conn' = conn \/ conn' = [conn EXCEPT ![c] = "upgrade"]
        /\ IF chain'[c] = NumWsPlugins THEN conn' = [conn EXCEPT ![c] = "upgrade"] ELSE conn' = conn
    BY <1>3 DEF PluginResolves, Goto
  <2>2. chain'[c] = chain[c] + 1 /\ chain[c] < NumWsPlugins /\ ticket'[c] # 0
    BY <1>1, <1>2, <2>1 DEF UpgradeTypes, UpgradeInv
  <2>3. UpgradeTypes'
    BY <1>1, <1>2, <2>1, <2>2 DEF UpgradeTypes
  <2>4. \A d \in Sockets \ {c} : conn'[d] = conn[d] /\ chain'[d] = chain[d]
    BY <1>1, <2>1 DEF UpgradeTypes
  <2>5. \/ conn'[c] = "upgrade" /\ chain'[c] = NumWsPlugins
        \/ conn'[c] = "plugins" /\ chain'[c] < NumWsPlugins
    <3>1. CASE chain'[c] = NumWsPlugins
      BY <1>1, <2>1, <3>1 DEF UpgradeTypes
    <3>2. CASE chain'[c] # NumWsPlugins
      BY <1>1, <2>1, <2>2, <3>2
    <3>3. QED
      BY <3>1, <3>2
  <2>6. UpgradeInv(c)'
    BY <2>2, <2>5 DEF UpgradeInv
  <2>7. QED
    BY <1>2, <2>3, <2>4, <2>6, UpgradeMoves
<1>4. CASE PluginThrows(c) \/ Upgrade(c) \/ UpgradeFails(c) \/ CloseSocket(c)
  <2>1. /\ chain' = chain
        /\ \/ conn' = [conn EXCEPT ![c] = "failed"]
           \/ conn[c] = "upgrade" /\ conn' = [conn EXCEPT ![c] = "open"]
           \/ conn[c] = "open" /\ conn' = [conn EXCEPT ![c] = "closed"]
    BY <1>4 DEF PluginThrows, Upgrade, UpgradeFails, CloseSocket, Goto
  <2>2. /\ UpgradeTypes'
        /\ \A d \in Sockets \ {c} : conn'[d] = conn[d] /\ chain'[d] = chain[d]
        /\ \/ conn'[c] = "failed"
           \/ conn[c] = "upgrade" /\ conn'[c] = "open"
           \/ conn[c] = "open" /\ conn'[c] = "closed"
    BY <1>1, <1>2, <2>1 DEF UpgradeTypes
  <2>3. UpgradeInv(c)'
    BY <1>1, <1>2, <2>1, <2>2 DEF UpgradeInv
  <2>4. QED
    BY <1>2, <2>2, <2>3, UpgradeMoves
<1>5. QED
  BY <1>3, <1>4 DEF UpgradeStep

\* A message.
LEMMA MessageStepKeeps ==
  ASSUME IInv, NEW c \in Sockets, NEW kind \in Kinds, Message(c, kind)
  PROVE  IInv' /\ FairStep
<1>1. TypeOK /\ RateInv /\ UpgradeTypes /\ MessageTypes /\ Tickets /\ \A d \in Sockets : UpgradeInv(d) /\ MessageInv(d)
  BY InvariantParts DEF IInv
<1>2. conn' = conn /\ chain' = chain /\ ticket' = ticket /\ UNCHANGED <<now, rateVars>> /\ now' = now /\ passes' = passes
  BY DEF Message, rateVars
<1>3. /\ MessageInv(c)' /\ BusyStep
      /\ limiter' \in [Sockets -> [count : Nat, resetAt : 0 .. MaxTime + MsgWindow]]
      /\ received' \in [Sockets -> Seq(0 .. MaxTime)] /\ handled' \in [Sockets -> Seq(0 .. MaxTime)]
      /\ \A d \in Sockets : Len(handled'[d]) <= Len(received'[d]) /\ Len(received'[d]) <= MaxMessages[d]
      /\ \A d \in Sockets \ {c} :
           received'[d] = received[d] /\ handled'[d] = handled[d] /\ limiter'[d] = limiter[d]
  BY <1>1, MessageKeeps
<1>4. reply' \in [Sockets -> Replies]
  <2>1. /\ reply \in [Sockets -> Replies]
        /\ reply' = [reply EXCEPT ![c] = IF Limited(c) THEN "RATE_LIMITED" ELSE Outcome(kind)]
    BY <1>1 DEF MessageTypes, Message
  <2>2. Outcome(kind) \in Replies /\ "RATE_LIMITED" \in Replies
    BY DEF Outcome, Replies
  <2>3. QED
    BY <2>1, <2>2
<1>5. MessageTypes'
  BY <1>3, <1>4 DEF MessageTypes
<1>6. UpgradeTypes'
  BY <1>1, <1>2 DEF UpgradeTypes
<1>7. RateInv' /\ RefusedStep /\ PassedStep /\ EvictedStep
  BY <1>1, <1>2, RateRests
<1>8. (\A d \in Sockets : UpgradeInv(d)' /\ MessageInv(d)') /\ Tickets'
  BY <1>1, <1>2, <1>3, UpgradeRests, MessagesRest, TicketsRest
<1>9. QED
  BY <1>3, <1>5, <1>6, <1>7, <1>8, InvariantPartsNext DEF FairStep

\* store.reset(k), called by the application.
LEMMA ResetStepKeeps ==
  ASSUME IInv, NEW k \in Keys, Reset(k), UNCHANGED wsVars
  PROVE  IInv' /\ FairStep
<1>1. RateInv /\ UpgradeTypes /\ MessageTypes /\ Tickets /\ \A d \in Sockets : UpgradeInv(d) /\ MessageInv(d)
  BY InvariantParts
<1>2. now' = now /\ conn' = conn /\ chain' = chain /\ ticket' = ticket /\ UNCHANGED <<limiter, received, handled, reply>>
  BY DEF Reset, wsVars
<1>3. RateInv' /\ RefusedStep /\ PassedStep /\ EvictedStep /\ passes' = passes
  BY <1>1, ResetKeeps
<1>4. MessageTypes' /\ BusyStep /\ UpgradeTypes'
  BY <1>1, <1>2, NoMessage DEF UpgradeTypes
<1>5. (\A d \in Sockets : UpgradeInv(d)' /\ MessageInv(d)') /\ Tickets'
  BY <1>1, <1>2, <1>3, UpgradeRests, MessagesRest, TicketsRest
<1>6. QED
  BY <1>3, <1>4, <1>5, InvariantPartsNext DEF FairStep

\* A tick of the clock: windows expire.
LEMMA TickKeeps ==
  ASSUME IInv, Tick
  PROVE  IInv' /\ FairStep
<1>1. TypeOK /\ RateInv /\ UpgradeTypes /\ MessageTypes /\ Tickets /\ \A d \in Sockets : UpgradeInv(d) /\ MessageInv(d)
  BY InvariantParts DEF IInv
<1>2. /\ now < MaxTime /\ now' = now + 1 /\ UNCHANGED rateVars /\ calls' = calls /\ passes' = passes
      /\ conn' = conn /\ chain' = chain /\ ticket' = ticket /\ UNCHANGED <<limiter, received, handled, reply>>
  BY DEF Tick, wsVars, rateVars
<1>3. RateInv'
  BY <1>1, <1>2, TickKeepsRate
<1>4. RefusedStep /\ PassedStep /\ EvictedStep
  BY <1>2 DEF RefusedStep, PassedStep, EvictedStep, Asked
<1>5. MessageTypes' /\ BusyStep /\ UpgradeTypes'
  BY <1>1, <1>2, NoMessage DEF UpgradeTypes
<1>6. (\A d \in Sockets : UpgradeInv(d)' /\ MessageInv(d)') /\ Tickets'
  BY <1>1, <1>2, UpgradeRests, MessagesAge, TicketsRest
<1>7. QED
  BY <1>3, <1>4, <1>5, <1>6, InvariantPartsNext DEF FairStep

-----------------------------------------------------------------------------
(* The theorems *)

\* An empty history has nothing in any interval.
LEMMA WithinNothing ==
  ASSUME NEW a, NEW b
  PROVE  Within(<<>>, a, b) = 0
<1>1. {n \in DOMAIN <<>> : <<>>[n] \in a .. b} = {}
  OBVIOUS
<1>2. QED
  BY <1>1, FS_EmptySet DEF Within

\* Nothing has been asked for.
LEMMA InitInvariant == Init => IInv
<1>1. SUFFICES ASSUME Init PROVE IInv
  OBVIOUS
<1>2. /\ Window \in Nat \ {0} /\ Limit \in Nat /\ MaxEntries \in Nat \ {0} /\ MaxTime \in Nat /\ MaxCalls \in Nat
      /\ NumWsPlugins \in Nat /\ MsgLimit \in Nat /\ MsgWindow \in Nat \ {0} /\ MaxMessages \in [Sockets -> Nat]
  BY RateAssumption, WsAssumption
<1>3. RateInit
  BY <1>1 DEF Init
<1>4. \A length \in Nat \ {0}, limit \in Nat :
        NeverThrice(<<>>, length, limit) /\ Past(<<>>, length, limit, 0)
  <2>1. ASSUME NEW length \in Nat \ {0}, NEW limit \in Nat
        PROVE  NeverThrice(<<>>, length, limit) /\ Past(<<>>, length, limit, 0)
    <3>1. 0 <= limit /\ 0 <= 2 * limit
      OBVIOUS
    <3>2. DOMAIN <<>> = {}
      OBVIOUS
    <3>3. QED
      BY <3>1, <3>2, WithinNothing DEF NeverThrice, Past
  <2>2. QED
    BY <2>1
<1>5. RateTypeOK
  <2>1. entries \in Seq(Entry) /\ <<>> \in Seq(0 .. MaxTime) /\ 0 \in 0 .. MaxTime /\ 0 \in 0 .. MaxTime + Window
        /\ 0 \in 0 .. MaxCalls
    BY <1>2, <1>3, EmptySeq DEF RateInit
  <2>2. QED
    BY <1>3, <2>1 DEF RateInit, RateTypeOK, Verdicts
<1>6. MapInv
  <2>1. DOMAIN entries = {} /\ Len(entries) = 0
    BY <1>3, EmptySeq DEF RateInit
  <2>2. QED
    BY <1>2, <2>1 DEF MapInv, OneEach
<1>7. ASSUME NEW k \in Keys
      PROVE  KeyInv(k)
  <2>1. passes[k] = <<>> /\ until[k] = 0 /\ now = 0 /\ DOMAIN entries = {}
    BY <1>3, EmptySeq DEF RateInit
  <2>2. NeverThrice(passes[k], Window, Limit) /\ Past(passes[k], Window, Limit, now) /\ until[k] <= now
    BY <1>2, <1>4, <2>1
  <2>3. QED
    BY <2>1, <2>2 DEF KeyInv
<1>8. UpgradeTypes
  BY <1>1, <1>2 DEF Init, UpgradeTypes
<1>9. MessageTypes
  <2>1. <<>> \in Seq(0 .. MaxTime) /\ Len(<<>>) = 0 /\ \A c \in Sockets : 0 <= MaxMessages[c]
    BY <1>2, EmptySeq
  <2>2. NoState \in [count : Nat, resetAt : 0 .. MaxTime + MsgWindow]
    <3>1. 0 \in Nat /\ 0 \in 0 .. MaxTime + MsgWindow
      BY <1>2
    <3>2. QED
      BY <3>1 DEF NoState
  <2>3. QED
    BY <1>1, <2>1, <2>2 DEF Init, MessageTypes, Replies
<1>10. ASSUME NEW c \in Sockets
       PROVE  UpgradeInv(c) /\ MessageInv(c)
  <2>1. /\ conn[c] = "none" /\ chain[c] = 0 /\ limiter[c] = NoState
        /\ received[c] = <<>> /\ handled[c] = <<>>
    BY <1>1 DEF Init
  <2>2. NeverThrice(handled[c], MsgWindow, MsgBound)
    BY <1>2, <1>4, <2>1 DEF MsgBound
  <2>3. limiter[c].resetAt = 0 /\ limiter[c].count = 0
    BY <2>1 DEF NoState
  <2>4. QED
    BY <2>1, <2>2, <2>3 DEF UpgradeInv, MessageInv
<1>11. Tickets
  BY <1>1 DEF Init, Tickets
<1>12. QED
  BY <1>5, <1>6, <1>7, <1>8, <1>9, <1>10, <1>11, InvariantParts DEF RateInv

\* Every step keeps the invariant, and is fair.
LEMMA NextInvariant == IInv /\ [Next]_vars => IInv' /\ [FairStep]_vars
<1>1. SUFFICES ASSUME IInv, [Next]_vars
               PROVE  IInv' /\ [FairStep]_vars
  OBVIOUS
<1>2. ASSUME NEW c \in Clients, HttpRequest(c)
      PROVE  IInv' /\ FairStep
  BY <1>1, <1>2, HttpRequestKeeps
<1>3. ASSUME NEW c \in Sockets, UpgradeRequest(c)
      PROVE  IInv' /\ FairStep
  BY <1>1, <1>3, UpgradeRequestKeeps
<1>4. ASSUME NEW c \in Sockets, UpgradeStep(c) \/ CloseSocket(c)
      PROVE  IInv' /\ FairStep
  BY <1>1, <1>4, UpgradeStepKeeps
<1>5. ASSUME NEW c \in Sockets, NEW kind \in Kinds, Message(c, kind)
      PROVE  IInv' /\ FairStep
  BY <1>1, <1>5, MessageStepKeeps
<1>6. ASSUME NEW k \in Keys, Reset(k), UNCHANGED wsVars
      PROVE  IInv' /\ FairStep
  BY <1>1, <1>6, ResetStepKeeps
<1>7. ASSUME Tick
      PROVE  IInv' /\ FairStep
  BY <1>1, <1>7, TickKeeps
<1>8. ASSUME UNCHANGED vars
      PROVE  IInv'
  <2>1. RateInv /\ UpgradeTypes /\ MessageTypes /\ Tickets /\ \A d \in Sockets : UpgradeInv(d) /\ MessageInv(d)
    BY <1>1, InvariantParts
  <2>2. /\ UNCHANGED <<now, rateVars>> /\ now' = now /\ passes' = passes /\ conn' = conn /\ chain' = chain
        /\ ticket' = ticket
        /\ UNCHANGED <<limiter, received, handled, reply>>
    BY <1>8 DEF vars, rateVars, wsVars
  <2>3. RateInv' /\ MessageTypes' /\ UpgradeTypes'
    BY <2>1, <2>2, RateRests, NoMessage DEF UpgradeTypes
  <2>4. (\A d \in Sockets : UpgradeInv(d)' /\ MessageInv(d)') /\ Tickets'
    BY <2>1, <2>2, UpgradeRests, MessagesRest, TicketsRest
  <2>5. QED
    BY <2>3, <2>4, InvariantPartsNext
<1>9. QED
  BY <1>1, <1>2, <1>3, <1>4, <1>5, <1>6, <1>7, <1>8 DEF Next

\* The bounds follow from the invariant.
LEMMA InvariantBounds == IInv => LimitsHold /\ OpenedBehindPlugins
<1>1. SUFFICES ASSUME IInv PROVE LimitsHold /\ OpenedBehindPlugins
  OBVIOUS
<1>2. /\ TypeOK /\ RateTypeOK /\ MapInv /\ \A k \in Keys : KeyInv(k)
      /\ \A c \in Sockets : UpgradeInv(c) /\ MessageInv(c)
  BY <1>1 DEF IInv, RateInv
<1>3. AtMostTwiceTheLimit
  BY <1>2 DEF AtMostTwiceTheLimit, PassesIn, KeyInv, NeverThrice
<1>4. CapHolds
  BY <1>2, KeysCounted DEF CapHolds, MapInv, RateTypeOK
<1>5. AtMostTwiceTheMessages
  BY <1>2 DEF AtMostTwiceTheMessages, MessageInv, NeverThrice, MsgBound
<1>6. OpenedBehindPlugins
  <2>1. /\ Tickets /\ passes \in [Keys -> Seq(0 .. MaxTime)]
        /\ \A c \in Sockets : conn[c] \in {"open", "closed"} => chain[c] = NumWsPlugins /\ ticket[c] # 0
    BY <1>1, <1>2 DEF IInv, RateTypeOK, UpgradeInv
  <2>2. \A k \in Keys : k # Missing /\ DOMAIN passes[k] = 1 .. Len(passes[k])
    BY <2>1, LenProperties DEF Keys
  <2>3. QED
    BY <2>1, <2>2 DEF OpenedBehindPlugins, Tickets
<1>7. QED
  BY <1>2, <1>3, <1>4, <1>5, <1>6 DEF LimitsHold

\* The windows of both limiters, the map and the upgrades stay consistent.
THEOREM Consistent == Spec => []IInv
<1>1. IInv /\ [Next]_vars => IInv'
  BY NextInvariant
<1>2. QED
  BY <1>1, InitInvariant, PTL DEF Spec

\* However requests, resets, sweeps, evictions and the clock interleave: no key
\* that was never forgotten gets more than twice its limit through in the time
\* of a window, no connection more than twice its messages, and the map stays
\* within its cap with one counter per key.
THEOREM LimitsAreKept == Spec => []LimitsHold
<1>1. IInv => LimitsHold
  BY InvariantBounds
<1>2. QED
  BY <1>1, Consistent, PTL

\* handleUpgrade() hands a socket out only behind every plugin, and for a request
\* of its own that the hook has counted and let pass.
THEOREM OpenedProperly == Spec => []OpenedBehindPlugins
<1>1. IInv => OpenedBehindPlugins
  BY InvariantBounds
<1>2. QED
  BY <1>1, Consistent, PTL

\* Whoever is refused, let through, evicted or turned away, had to be.
THEOREM RefusalsAreKept == Spec => RefusalsAreFair
<1>1. IInv /\ [Next]_vars => [RefusedStep]_<<now, rateVars>>
  <2>1. UNCHANGED vars => UNCHANGED <<now, rateVars>>
    BY DEF vars
  <2>2. QED
    BY <2>1, NextInvariant DEF FairStep
<1>2. IInv /\ [Next]_vars => [PassedStep]_<<now, rateVars>>
  <2>1. UNCHANGED vars => UNCHANGED <<now, rateVars>>
    BY DEF vars
  <2>2. QED
    BY <2>1, NextInvariant DEF FairStep
<1>3. IInv /\ [Next]_vars => [EvictedStep]_<<now, rateVars>>
  <2>1. UNCHANGED vars => UNCHANGED <<now, rateVars>>
    BY DEF vars
  <2>2. QED
    BY <2>1, NextInvariant DEF FairStep
<1>4. IInv /\ [Next]_vars => [BusyStep]_vars
  BY NextInvariant DEF FairStep
<1>5. /\ [][RefusedStep]_<<now, rateVars>> => RefusalsAreJustified
      /\ [][PassedStep]_<<now, rateVars>> => RefusedUntilReset
      /\ [][EvictedStep]_<<now, rateVars>> => ExpiredGoFirst
      /\ [][BusyStep]_vars => TurnedAwayWhenBusy
  BY PTL DEF RefusalsAreJustified, RefusedUntilReset, ExpiredGoFirst, TurnedAwayWhenBusy,
             RefusedStep, PassedStep, EvictedStep, BusyStep
<1>6. QED
  BY <1>1, <1>2, <1>3, <1>4, <1>5, Consistent, PTL DEF Spec, RefusalsAreFair
=============================================================================
