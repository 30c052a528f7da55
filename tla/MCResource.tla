----------------------------- MODULE MCResource -----------------------------
(***************************************************************************)
(* Two rows at most, three requests, the configurations of the docs.       *)
(***************************************************************************)
EXTENDS Resource, TLC

CONSTANTS a, b, x, y

Plain == [op \in Ops |-> "plain"]
Configure(routes, guard, hidden) == [routes |-> routes, guard |-> guard, hidden |-> hidden]

\* All public; guarded as a whole; a guarded way of writing and no deletion,
\* as in the docs; one row hidden.
MCOptions ==
  {Configure(Plain, FALSE, {}), Configure(Plain, TRUE, {}),
   Configure([Plain EXCEPT !["store"] = "guarded", !["destroy"] = "off"], FALSE, {}),
   Configure(Plain, FALSE, {1})}

MCStored == {<<[name |-> a, note |-> x]>>, <<[name |-> a, note |-> x], [name |-> b, note |-> x]>>}
MCBodies == {[name |-> b, note |-> x]}

\* Nothing, the note, or both.
MCPatchBodies == {Part([name |-> b, note |-> y], F) : F \in {{}, {"note"}, Fields}}

Symmetric == Permutations(Requests)
=============================================================================
