------------------------------- MODULE Hiring -------------------------------
(***************************************************************************)
(* The escrows of one LAVARD job: hire_for_job and sign_off                *)
(* (core/foreman/hire.py) against the payments provider                    *)
(* (onchain/payments.py) and the hires table (core/store.py).  The API runs*)
(* each call in a thread of its own, and clients retry: a call is a        *)
(* process, every provider call and every store transaction is a step, and *)
(* a call may die between two of them.  Vetting, ranking, memory and the   *)
(* spending policy are abstracted to their outcome for a node, and so is   *)
(* the order in which a call visits nodes and rows.                        *)
(***************************************************************************)
EXTENDS Naturals

CONSTANTS
  Calls,  \* calls of hire_for_job or sign_off for the job, retries included
  Nodes   \* nodes of the job's task graph

\* An escrow, and the row of the hires table that records it, is identified by
\* the call and the node it was opened for.
Escrows == Calls \X Nodes

VARIABLES
  opened,    \* provider: escrows that hold money
  paidBy,    \* provider: the calls that released each escrow
  hires,     \* hires.status of each row ("none": no such row)
  job,       \* jobs.status, as far as these calls set it
  serviced,  \* <<call, node>>: the pay-per-call (MCP) deliveries paid for
  pc,        \* where each call is
  already,   \* hire_for_job: nodes with an active hire when the call began
  todo,      \* hire_for_job: nodes still to visit
  rows,      \* sign_off: rows it read as hired and has not released
  cur,       \* the node or row the call is working on, as a set
  before     \* history: the calls that had returned when a call began

frame == <<already, todo, rows, cur>>
vars == <<opened, paidBy, hires, job, serviced, pc, frame, before>>

Active == {"hired", "released"}

\* Labels of a hire_for_job call and of a sign_off call that have returned.
Returned == {"staffed", "settled"}

TypeOK ==
  /\ opened \subseteq Escrows
  /\ paidBy \in [Escrows -> SUBSET Calls]
  /\ hires \in [Escrows -> Active \cup {"none"}]
  /\ job \in {"planned", "hiring_complete", "signed_off"}
  /\ serviced \subseteq Escrows
  /\ pc \in [Calls -> {"idle", "visit", "record", "pay", "mark"} \cup Returned \cup {"dead"}]
  /\ already \in [Calls -> SUBSET Nodes]
  /\ todo \in [Calls -> SUBSET Nodes]
  /\ rows \in [Calls -> SUBSET Escrows]
  /\ cur \in [Calls -> SUBSET Escrows]
  /\ before \in [Calls -> SUBSET Calls]

Init ==
  /\ opened = {} /\ serviced = {} /\ job = "planned"
  /\ paidBy = [e \in Escrows |-> {}]
  /\ hires = [e \in Escrows |-> "none"]
  /\ pc = [c \in Calls |-> "idle"]
  /\ already = [c \in Calls |-> {}]
  /\ todo = [c \in Calls |-> {}]
  /\ rows = [c \in Calls |-> {}]
  /\ cur = [c \in Calls |-> {}]
  /\ before = [c \in Calls |-> {}]

At(c, l) == pc[c] = l
Goto(c, l) == pc' = [pc EXCEPT ![c] = l]
Begin(c) == before' = [before EXCEPT ![c] = {d \in Calls : pc[d] \in Returned}]

-----------------------------------------------------------------------------
(* hire_for_job.                                                           *)

\* Mutation of ActiveNodes: hires already paid are not counted.
UnpaidNodes == {n \in Nodes : \E d \in Calls : hires[<<d, n>>] = "hired"}

ActiveNodes == {n \in Nodes : \E d \in Calls : hires[<<d, n>>] \in Active}

\* The job's hires are read once, before the first node.
StartHiring(c) ==
  /\ At(c, "idle") /\ Begin(c)
  /\ already' = [already EXCEPT ![c] = ActiveNodes]
  /\ todo' = [todo EXCEPT ![c] = Nodes]
  /\ Goto(c, "visit")
  /\ UNCHANGED <<opened, paidBy, hires, job, serviced, rows, cur>>

\* A node with an active hire is skipped; so is one that is not needed, answered
\* from memory, without candidates, or escalated to the user.
PassOver(c) ==
  /\ At(c, "visit")
  /\ \E n \in todo[c] : todo' = [todo EXCEPT ![c] = @ \ {n}]
  /\ UNCHANGED <<opened, paidBy, hires, job, serviced, pc, already, rows, cur, before>>

\* An Agent-to-MCP service delivers through the executor: no escrow, no row.
ServiceMcp(c) ==
  /\ At(c, "visit")
  /\ \E n \in todo[c] \ already[c] :
       /\ serviced' = serviced \cup {<<c, n>>}
       /\ todo' = [todo EXCEPT ![c] = @ \ {n}]
  /\ UNCHANGED <<opened, paidBy, hires, job, pc, already, rows, cur, before>>

\* The best vetted candidate passed the spending review (an MCP failure falls
\* back to here as well).  Only the last request to the provider moves money
\* (a task is created, its mode set, the offer accepted): one that raises after
\* that is this step and then Die, one that raises before is Die alone.
OpenEscrow(c) ==
  /\ At(c, "visit")
  /\ \E n \in todo[c] \ already[c] :
       /\ opened' = opened \cup {<<c, n>>}
       /\ cur' = [cur EXCEPT ![c] = {<<c, n>>}]
       /\ todo' = [todo EXCEPT ![c] = @ \ {n}]
  /\ Goto(c, "record")
  /\ UNCHANGED <<paidBy, hires, job, serviced, already, rows, before>>

\* Mutation of CreateHire: the hire is not recorded.
CreateNothing(c) ==
  /\ At(c, "record")
  /\ cur' = [cur EXCEPT ![c] = {}]
  /\ Goto(c, "visit")
  /\ UNCHANGED <<opened, paidBy, hires, job, serviced, already, todo, rows, before>>

CreateHire(c) ==
  /\ At(c, "record")
  /\ hires' = [e \in Escrows |-> IF e \in cur[c] THEN "hired" ELSE hires[e]]
  /\ cur' = [cur EXCEPT ![c] = {}]
  /\ Goto(c, "visit")
  /\ UNCHANGED <<opened, paidBy, job, serviced, already, todo, rows, before>>

\* The job is marked only if this call hired for some node.
FinishHiring(c) ==
  /\ At(c, "visit") /\ todo[c] = {}
  /\ job' = IF \E n \in Nodes : <<c, n>> \in opened THEN "hiring_complete" ELSE job
  /\ Goto(c, "staffed")
  /\ UNCHANGED <<opened, paidBy, hires, serviced, frame, before>>

-----------------------------------------------------------------------------
(* sign_off.                                                               *)

HiredRows == {e \in Escrows : hires[e] = "hired"}

StartSignOff(c) ==
  /\ At(c, "idle") /\ Begin(c)
  /\ rows' = [rows EXCEPT ![c] = HiredRows]
  /\ Goto(c, "pay")
  /\ UNCHANGED <<opened, paidBy, hires, job, serviced, already, todo, cur>>

\* The escrow handed to the provider is built as open, whatever became of it.
Release(c) ==
  /\ At(c, "pay")
  /\ \E e \in rows[c] :
       /\ paidBy' = [paidBy EXCEPT ![e] = @ \cup {c}]
       /\ cur' = [cur EXCEPT ![c] = {e}]
       /\ rows' = [rows EXCEPT ![c] = @ \ {e}]
  /\ Goto(c, "mark")
  /\ UNCHANGED <<opened, hires, job, serviced, already, todo, before>>

\* Mutation of MarkReleased: the row keeps its status.
MarkNothing(c) ==
  /\ At(c, "mark")
  /\ cur' = [cur EXCEPT ![c] = {}]
  /\ Goto(c, "pay")
  /\ UNCHANGED <<opened, paidBy, hires, job, serviced, already, todo, rows, before>>

MarkReleased(c) ==
  /\ At(c, "mark")
  /\ hires' = [e \in Escrows |-> IF e \in cur[c] THEN "released" ELSE hires[e]]
  /\ cur' = [cur EXCEPT ![c] = {}]
  /\ Goto(c, "pay")
  /\ UNCHANGED <<opened, paidBy, job, serviced, already, todo, rows, before>>

FinishSignOff(c) ==
  /\ At(c, "pay") /\ rows[c] = {}
  /\ job' = "signed_off"
  /\ Goto(c, "settled")
  /\ UNCHANGED <<opened, paidBy, hires, serviced, frame, before>>

\* The call dies: the provider or the store raises, or the process is killed.
Die(c) ==
  /\ pc[c] \notin Returned \cup {"idle", "dead"}
  /\ Goto(c, "dead")
  /\ UNCHANGED <<opened, paidBy, hires, job, serviced, frame, before>>

-----------------------------------------------------------------------------
HireForJob(c) ==
  \/ StartHiring(c) \/ PassOver(c) \/ ServiceMcp(c) \/ OpenEscrow(c)
  \/ CreateHire(c) \/ FinishHiring(c)

SignOff(c) == StartSignOff(c) \/ Release(c) \/ MarkReleased(c) \/ FinishSignOff(c)

Next == \E c \in Calls : HireForJob(c) \/ SignOff(c) \/ Die(c)

Spec == Init /\ [][Next]_vars

-----------------------------------------------------------------------------
\* A retry is idempotent: a call that begins after another has returned opens no
\* escrow for a node the other has hired for, signed off or not.
RetryOpensNothing ==
  \A c \in Calls : \A d \in before[c], n \in Nodes :
    <<d, n>> \in opened => <<c, n>> \notin opened

\* A repeated sign-off pays nobody again: an escrow released by a call that had
\* returned is not released by a later one.
RetryPaysNothing ==
  \A c \in Calls : \A d \in before[c], e \in Escrows :
    d \in paidBy[e] => c \notin paidBy[e]

\* A sign-off that returned has released the escrows of every hiring call that
\* had returned before it began: nobody hired is left behind.
SignOffLeavesNobody ==
  \A c \in Calls : At(c, "settled") =>
    \A d \in before[c], n \in Nodes : <<d, n>> \in opened => paidBy[<<d, n>>] # {}

\* core/foreman/hire.py:107 "a node that already has an active hire must NOT be hired
\* again": the hires are read once, so two calls at the same time hire twice.
OneEscrowPerNode ==
  \A c, d \in Calls, n \in Nodes : <<c, n>> \in opened /\ <<d, n>> \in opened => c = d
=============================================================================
