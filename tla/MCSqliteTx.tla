----------------------------- MODULE MCSqliteTx -----------------------------
(***************************************************************************)
(* Two requests on a table of one row, which is not stored at first: one   *)
(* makes two write operations, the other one.                              *)
(***************************************************************************)
EXTENDS SqliteTx

CONSTANTS c1, c2, none, x, y

OpsOfEach == [c \in {c1, c2} |-> IF c = c1 THEN 2 ELSE 1]
=============================================================================
