--------------------------- MODULE StatementCache ---------------------------
(***************************************************************************)
(* SQLiteAdapter._prepare (adapter/sqlite.ts): a Map of prepared           *)
(* statements, the one used longest ago first.  db.prepare() throws on     *)
(* statements that are not SQL, which never get into the Map.              *)
(***************************************************************************)
EXTENDS Naturals, Sequences, SequencesExt, FiniteSets

\* Room for one more.
Evicted(cache, limit) == IF Len(cache) >= limit THEN Tail(cache) ELSE cache

\* A hit moves to the end; what cannot be prepared has evicted another before.
Prepare(cache, sql, bad, limit) ==
  LET at == {i \in 1 .. Len(cache) : cache[i] = sql}
  IN IF at # {} THEN Append(RemoveAt(cache, CHOOSE i \in at : TRUE), sql)
     ELSE IF sql \in bad THEN Evicted(cache, limit)
     ELSE Append(Evicted(cache, limit), sql)

\* The Map after the adapter has run these statements.
CacheAfter(statements, bad, limit) ==
  LET after[n \in 0 .. Len(statements)] ==
        IF n = 0 THEN <<>> ELSE Prepare(after[n - 1], statements[n], bad, limit)
  IN after[Len(statements)]

-----------------------------------------------------------------------------
(* Properties *)

\* The different statements run from the i-th one on.
Since(statements, i) == {statements[j] : j \in i .. Len(statements)}

\* The last runs of statements that are among the limit's number of different
\* ones run last.
Recent(statements, bad, limit) ==
  {i \in 1 .. Len(statements) :
     /\ statements[i] \notin Since(statements, i + 1) \cup bad
     /\ Cardinality(Since(statements, i)) <= limit}

\* adapter/sqlite.ts:16: no more than the limit, and every statement among
\* the limit's number of different ones run last is there, in their order.
RecentAreKept(statements, bad, limit) ==
  LET after  == CacheAfter(statements, bad, limit)
      recent == Recent(statements, bad, limit)
  IN /\ Len(after) <= limit
     /\ \A i \in recent : \E k \in 1 .. Len(after) : after[k] = statements[i]
     /\ \A i, j \in recent : \A k, l \in 1 .. Len(after) :
          (i < j /\ after[k] = statements[i] /\ after[l] = statements[j]) => k < l
=============================================================================
