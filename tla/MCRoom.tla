------------------------------- MODULE MCRoom -------------------------------
(***************************************************************************)
(* Model values of the TLC runs of module Room.                            *)
(***************************************************************************)
EXTENDS Room

CONSTANTS c1, c2, t1
=============================================================================
