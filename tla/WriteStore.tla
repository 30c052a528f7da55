----------------------------- MODULE WriteStore -----------------------------
(***************************************************************************)
(* What the database layer promises on SQLite, where all requests share    *)
(* one connection: there is at most one transaction, whatever is written   *)
(* while it is open shares its fate, and what is committed stays.          *)
(***************************************************************************)
CONSTANTS
  Writes,   \* identities of the statements that change a row
  Clients,  \* who begins transactions
  Nobody

VARIABLES
  committed,  \* the writes a crash would leave
  pending,    \* the writes of the open transaction
  owner       \* who began it, or Nobody

vars == <<committed, pending, owner>>

Init == committed = {} /\ pending = {} /\ owner = Nobody

\* Writes become durable at once when no transaction is open.
Write(ws) ==
  \/ owner = Nobody /\ committed' = committed \cup ws /\ UNCHANGED <<pending, owner>>
  \/ owner # Nobody /\ pending' = pending \cup ws /\ UNCHANGED <<committed, owner>>

Begin(c) ==
  /\ owner = Nobody
  /\ owner' = c
  /\ UNCHANGED <<committed, pending>>

Commit ==
  /\ owner # Nobody
  /\ committed' = committed \cup pending /\ pending' = {} /\ owner' = Nobody

Abort ==
  /\ owner # Nobody
  /\ pending' = {} /\ owner' = Nobody
  /\ UNCHANGED committed

Next ==
  \/ \E ws \in SUBSET Writes : Write(ws)
  \/ \E c \in Clients : Begin(c)
  \/ Commit
  \/ Abort

Spec == Init /\ [][Next]_vars
=============================================================================
