----------------------------- MODULE MCPipeline -----------------------------
(***************************************************************************)
(* Queries and prices of the TLC runs.  The call costs half a cent, less   *)
(* than the flat discount of one cent that priority callers get.           *)
(***************************************************************************)
EXTENDS Pipeline

CONSTANTS q1, q2, q3

\* Every query packs to a value of its own.
OwnValue == [q \in Queries |-> q]
=============================================================================
