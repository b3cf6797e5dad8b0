---------------------------- MODULE Authorization ----------------------------
(***************************************************************************)
(* What TheHouse's gateway promises the payer of a signed authorization    *)
(* (thehouse/gateway/mcp_server.py, thehouse/onchain/payments.py): it is   *)
(* held by one call at a time, it is free again only if that call was      *)
(* refused or failed, and once a call kept it, it is spent for good.       *)
(***************************************************************************)
CONSTANT Auths

VARIABLE state

Init == state = [a \in Auths |-> "free"]

Step(a, from, to) == state[a] = from /\ state' = [state EXCEPT ![a] = to]

Hold(a) == Step(a, "free", "held")
Free(a) == Step(a, "held", "free")
Spend(a) == Step(a, "held", "spent")

\* A crash spends every authorization that is held: nobody is left to free it.
Abandon == state' = [a \in Auths |-> IF state[a] = "held" THEN "spent" ELSE state[a]]

Next == Abandon \/ \E a \in Auths : Hold(a) \/ Free(a) \/ Spend(a)

Spec == Init /\ [][Next]_state
=============================================================================
