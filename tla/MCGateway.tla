------------------------------ MODULE MCGateway ------------------------------
(***************************************************************************)
(* Model values of the TLC runs of module Gateway: two calls present the   *)
(* same authorization, another an authorization signed for less than the   *)
(* ceiling, another is an operator's.                                      *)
(***************************************************************************)
EXTENDS Gateway

CONSTANTS c1, c2, low, op, a1, a2

MCAuth == [c \in Calls |-> IF c = op THEN None ELSE IF c = low THEN a2 ELSE a1]
MCWorth == [a \in Auths |-> IF a = a2 THEN 1 ELSE 2]
=============================================================================
