------------------------------ MODULE MCHiring ------------------------------
(***************************************************************************)
(* Model values of the TLC runs of module Hiring.                          *)
(***************************************************************************)
EXTENDS Hiring, TLC

CONSTANTS c1, c2, c3, n1, n2

\* Calls are interchangeable, and so are nodes.
HiringSymmetry == Permutations({c1, c2, c3}) \cup Permutations({n1, n2})
=============================================================================
