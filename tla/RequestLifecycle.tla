-------------------------- MODULE RequestLifecycle --------------------------
(***************************************************************************)
(* What TheHouse promises the callers of one target, seen through its two  *)
(* ledgers: the status of each request (request_log) and the inbound       *)
(* settlement rows (settlements).  A request is accepted once, answered or *)
(* reported failed at most once, and settled at most once.                 *)
(***************************************************************************)
EXTENDS Naturals

CONSTANT Requests

VARIABLES log, settled

vars == <<log, settled>>

Init ==
  /\ log = [r \in Requests |-> "none"]
  /\ settled = [r \in Requests |-> 0]

Waiting(r) == log[r] \in {"queued", "merged"}

Accept(r) ==
  /\ log[r] = "none"
  /\ \E st \in {"queued", "merged", "cached"} : log' = [log EXCEPT ![r] = st]
  /\ UNCHANGED settled

\* One batch answers a group of waiting requests in one transaction.
Deliver(S) ==
  /\ \A r \in S : Waiting(r)
  /\ log' = [r \in Requests |-> IF r \in S THEN "delivered" ELSE log[r]]
  /\ UNCHANGED settled

\* The expiry sweep reports a group of waiting requests failed.
Expire(S) ==
  /\ \A r \in S : Waiting(r)
  /\ log' = [r \in Requests |-> IF r \in S THEN "failed" ELSE log[r]]
  /\ UNCHANGED settled

\* A merged request may be settled while its own log row is being written.
Settle(r) ==
  /\ settled[r] = 0 /\ log[r] \in {"merged", "delivered"}
  /\ settled' = [settled EXCEPT ![r] = 1]
  /\ UNCHANGED log

Next ==
  \/ \E r \in Requests : Accept(r) \/ Settle(r)
  \/ \E S \in SUBSET Requests : Deliver(S) \/ Expire(S)

Spec == Init /\ [][Next]_vars

-----------------------------------------------------------------------------
(* The weaker promise, under a TTL: a batch that is under way when the     *)
(* sweep reports its requests failed still answers them, and bills them.   *)

DeliverLate(S) ==
  /\ \A r \in S : Waiting(r) \/ log[r] = "failed"
  /\ log' = [r \in Requests |-> IF r \in S THEN "delivered" ELSE log[r]]
  /\ UNCHANGED settled

SettleLate(r) ==
  /\ settled[r] = 0 /\ log[r] \in {"merged", "delivered", "failed"}
  /\ settled' = [settled EXCEPT ![r] = 1]
  /\ UNCHANGED log

LateNext ==
  \/ \E r \in Requests : Accept(r) \/ SettleLate(r)
  \/ \E S \in SUBSET Requests : DeliverLate(S) \/ Expire(S)

LateSpec == Init /\ [][LateNext]_vars
=============================================================================
