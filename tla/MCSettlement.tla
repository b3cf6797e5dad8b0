---------------------------- MODULE MCSettlement ----------------------------
(***************************************************************************)
(* Values of the TLC runs of module Settlement: the pollers' kinds.        *)
(***************************************************************************)
EXTENDS Settlement

CONSTANTS d, k1, k3

MCKind == [k \in Pollers |-> IF k = k3 THEN "a2a" ELSE "deferred"]
=============================================================================
