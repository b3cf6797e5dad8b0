-------------------------- MODULE MCAggregatorCrash -------------------------
(***************************************************************************)
(* Model values of the TLC runs with crashes.                              *)
(***************************************************************************)
EXTENDS AggregatorCrash, TLC

CONSTANTS r1, r2, r3, f1, f2

\* Two identical requests.
PairAlike == r1 :> f1 @@ r2 :> f1
=============================================================================
