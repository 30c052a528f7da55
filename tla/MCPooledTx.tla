----------------------------- MODULE MCPooledTx -----------------------------
(***************************************************************************)
(* Two requests of two steps each, operations or nested transactions, on   *)
(* two rows; a pool of one connection, and one of three with an audited    *)
(* table.                                                                  *)
(***************************************************************************)
EXTENDS PooledTx, TLC

MCMaxOps == [c \in Clients |-> 2]
MCPools == {[max |-> 1, audited |-> FALSE], [max |-> 3, audited |-> TRUE]}
=============================================================================
