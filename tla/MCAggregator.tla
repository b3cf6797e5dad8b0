---------------------------- MODULE MCAggregator ----------------------------
(***************************************************************************)
(* Model values and the request-to-fingerprint maps of the TLC runs.       *)
(***************************************************************************)
EXTENDS Aggregator, TLC

CONSTANTS r1, r2, r3, f1, f2

\* Three identical requests.
AllAlike == r1 :> f1 @@ r2 :> f1 @@ r3 :> f1
\* Two identical requests only.
PairAlike == r1 :> f1 @@ r2 :> f1
\* The three identical requests are interchangeable.
AlikeSymmetry == Permutations({r1, r2, r3})
=============================================================================
