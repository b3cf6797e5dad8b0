----------------------------- MODULE MCRegistry -----------------------------
(***************************************************************************)
(* Model values of the TLC runs of module Registry.                        *)
(***************************************************************************)
EXTENDS Registry

CONSTANTS x, y
=============================================================================
