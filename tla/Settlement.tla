----------------------------- MODULE Settlement -----------------------------
(***************************************************************************)
(* How TheHouse's money reaches the settlements table and the table learns *)
(* what became of it: deferred x402 batches (thehouse/onchain/settlement.py*)
(* and facilitator.py), a2a charges and payments (settlement_rail.py,      *)
(* a2a_pay.py), and the payment hook inside a dispatch with its one retry  *)
(* (payments.py, core/dispatcher/service.py).  Payments are numbered in the*)
(* order of their row ids.  chain is the outside world: what the           *)
(* facilitator or the rail knows of a payment.                             *)
(***************************************************************************)
EXTENDS Naturals, FiniteSetsExt

CONSTANTS
  Deferred,   \* payments settled in batches by the facilitator
  Charges,    \* a2a charges that a caller is to pay (record_inbound)
  Targets,    \* a2a charges of a target that TheHouse pays (pay_target)
  Dispatches, \* calls of a target that may ask to be paid
  Pollers,    \* poller tasks, those of an overlapping replica included
  Kind,       \* "deferred" or "a2a" for each of them
  Poison,     \* payments whose status request always raises
  MaxErrors,  \* bound: status requests of other payments that raise
  MaxCrashes  \* bound: crashes of the process

Payments == Deferred \cup Charges \cup Targets

ASSUME PaymentsAssumption == Payments \subseteq Nat /\ Poison \subseteq Payments
ASSUME DisjointAssumption ==
  Deferred \cap Charges = {} /\ Deferred \cap Targets = {} /\ Charges \cap Targets = {}
ASSUME BoundAssumption == MaxErrors \in Nat /\ MaxCrashes \in Nat
ASSUME PollersAssumption == Kind \in [Pollers -> {"deferred", "a2a"}]

VARIABLES
  chain,   \* what the outside world knows of each payment
  row,     \* settle_status of its row, "none" if there is none
  hashed,  \* rows with a settle_txhash
  alerted, \* rows with a settlement_failed audit entry
  call,    \* payments whose record_inbound or pay_target awaits the rail
  todo,    \* rows each poller has still to ask about in this pass
  answer,  \* the terminal answer it is about to write, or "none"
  disp,    \* where each dispatch is
  tries,   \* attempts it has started
  booked,  \* rows the hook wrote for it
  paid,    \* replays the target took money for
  errors, crashes

books == <<row, hashed, alerted>>
rail == <<chain, call>>
polls == <<todo, answer>>
dispatch == <<disp, tries, booked, paid>>
vars == <<rail, books, polls, dispatch, errors, crashes>>

Outcomes == {"success", "failed"}
Terminal == {"settled", "failed"}

SettlementTypeOK ==
  /\ chain \in [Payments -> {"none", "pending"} \cup Outcomes]
  /\ row \in [Payments -> {"none", "accepted", "pending"} \cup Terminal]
  /\ hashed \subseteq Payments /\ alerted \subseteq Payments
  /\ call \subseteq Charges \cup Targets
  /\ todo \in [Pollers -> SUBSET Payments]
  /\ answer \in [Pollers -> {"none"} \cup Outcomes]
  /\ disp \in [Dispatches -> {"idle", "replaying", "done", "failed"}]
  /\ tries \in [Dispatches -> 0..2]
  /\ booked \in [Dispatches -> 0..2] /\ paid \in [Dispatches -> 0..2]
  /\ errors \in 0..MaxErrors /\ crashes \in 0..MaxCrashes

Init ==
  /\ chain = [p \in Payments |-> "none"] /\ row = [p \in Payments |-> "none"]
  /\ hashed = {} /\ alerted = {} /\ call = {}
  /\ todo = [k \in Pollers |-> {}] /\ answer = [k \in Pollers |-> "none"]
  /\ disp = [d \in Dispatches |-> "idle"]
  /\ tries = [d \in Dispatches |-> 0]
  /\ booked = [d \in Dispatches |-> 0] /\ paid = [d \in Dispatches |-> 0]
  /\ errors = 0 /\ crashes = 0

-----------------------------------------------------------------------------
(* Rows.                                                                   *)

\* The facilitator took the authorization into a batch: a row without a hash...
RecordDeferred(p) ==
  /\ p \in Deferred /\ row[p] = "none"
  /\ chain' = [chain EXCEPT ![p] = "pending"]
  /\ row' = [row EXCEPT ![p] = "accepted"]
  /\ UNCHANGED <<hashed, alerted, call, polls, dispatch, errors, crashes>>

\* ... until the batch has one.
AttachTxhash(p) ==
  /\ p \in Deferred \ hashed /\ row[p] # "none"
  /\ hashed' = hashed \cup {p}
  /\ UNCHANGED <<rail, row, alerted, polls, dispatch, errors, crashes>>

\* record_inbound asks the rail for a charge; pay_target asks it to pay one.
\* A payment may complete, be refused (amount mismatch) or go on settling.
CallRail(p) ==
  /\ p \in Charges \cup Targets /\ chain[p] = "none" /\ p \notin call
  /\ call' = call \cup {p}
  /\ \E r \in IF p \in Charges THEN {"pending"} ELSE {"pending"} \cup Outcomes :
       chain' = [chain EXCEPT ![p] = r]
  /\ UNCHANGED <<books, polls, dispatch, errors, crashes>>

\* The rail answered: the row gets the status of that answer, read when it was
\* given (chain may have moved on: a poll will tell).  A settling payment
\* already has its hash.
Insert(p) ==
  /\ p \in call /\ call' = call \ {p}
  /\ \E seen \in {"pending", chain[p]} :
       row' = [row EXCEPT ![p] = IF p \in Charges \/ seen = "pending" THEN "pending"
                                 ELSE IF seen = "success" THEN "settled" ELSE "failed"]
  /\ hashed' = IF p \in Targets THEN hashed \cup {p} ELSE hashed
  /\ UNCHANGED <<chain, alerted, polls, dispatch, errors, crashes>>

\* The command line times out or reports an error: whatever the rail did, no row.
RailRaises(p) ==
  /\ p \in call /\ errors < MaxErrors
  /\ errors' = errors + 1
  /\ call' = call \ {p}
  /\ UNCHANGED <<chain, books, polls, dispatch, crashes>>

\* The outside world: a batch lands, a payment confirms.  A caller pays a charge
\* only once record_inbound has told it which.
Land(p) ==
  /\ chain[p] = "pending" /\ (p \in Charges => row[p] # "none")
  /\ \E r \in Outcomes : chain' = [chain EXCEPT ![p] = r]
  /\ UNCHANGED <<call, books, polls, dispatch, errors, crashes>>

-----------------------------------------------------------------------------
(* Pollers: poll_once of the reconciler, reconcile_pending of the rail.    *)

Open(p) == row[p] \notin {"none"} \cup Terminal

\* Mutation of Eligible: the query takes one row at a time.
EligibleFirst(k) ==
  LET open == {p \in Payments : Open(p) /\ (Kind[k] = "a2a" => p \notin Deferred)
                                         /\ (Kind[k] # "a2a" => p \in hashed)}
  IN IF open = {} THEN {} ELSE {Min(open)}

\* The reconciler takes every open row with a hash, a settling a2a payment too.
Eligible(k) ==
  {p \in Payments : Open(p) /\ IF Kind[k] = "a2a" THEN p \notin Deferred ELSE p \in hashed}

StartPass(k) ==
  /\ todo[k] = {} /\ Eligible(k) # {}
  /\ todo' = [todo EXCEPT ![k] = Eligible(k)]
  /\ UNCHANGED <<rail, books, answer, dispatch, errors, crashes>>

First(k) == Min(todo[k])
Skip(k) == todo' = [todo EXCEPT ![k] = @ \ {First(k)}]

\* Mutation of Ask: an answer that is not "landed" is taken for a failure.
AskLanded(k) ==
  /\ todo[k] # {} /\ answer[k] = "none" /\ First(k) \notin Poison
  /\ answer' = [answer EXCEPT ![k] =
                   IF chain[First(k)] = "success" THEN "success" ELSE "failed"]
  /\ UNCHANGED <<rail, books, todo, dispatch, errors, crashes>>

\* One status request.  An exception ends the pass; the loop logs it and sleeps.
Ask(k) ==
  /\ todo[k] # {} /\ answer[k] = "none" /\ First(k) \notin Poison
  /\ IF chain[First(k)] \in Outcomes
     THEN answer' = [answer EXCEPT ![k] = chain[First(k)]] /\ UNCHANGED todo
     ELSE Skip(k) /\ UNCHANGED answer
  /\ UNCHANGED <<rail, books, dispatch, errors, crashes>>

AskRaises(k) ==
  /\ todo[k] # {} /\ answer[k] = "none"
  /\ IF First(k) \in Poison THEN UNCHANGED errors
     ELSE errors < MaxErrors /\ errors' = errors + 1
  /\ todo' = [todo EXCEPT ![k] = {}]
  /\ UNCHANGED <<rail, books, answer, dispatch, crashes>>

\* One transaction: the row, whatever it holds by now, and the audit of a failure.
Advance(k) ==
  /\ answer[k] # "none"
  /\ row' = [row EXCEPT ![First(k)] = IF answer[k] = "success" THEN "settled" ELSE "failed"]
  /\ alerted' = IF answer[k] = "failed" THEN alerted \cup {First(k)} ELSE alerted
  /\ Skip(k) /\ answer' = [answer EXCEPT ![k] = "none"]
  /\ UNCHANGED <<rail, hashed, dispatch, errors, crashes>>

-----------------------------------------------------------------------------
(* A dispatch: call, sign the 402 challenge, book the payment, replay.     *)

Goto(d, l) == disp' = [disp EXCEPT ![d] = l]

\* The attempt is over: well, or badly, which ends the dispatch the second time.
Finish(d) == Goto(d, "done") \/ (disp[d] = "idle" /\ Goto(d, "failed"))

\* Mutation of Call: the payment is booked once per dispatch, not per replay.
CallBookedOnce(d) ==
  /\ disp[d] \in {"idle", "failed"}
  /\ tries' = [tries EXCEPT ![d] = @ + 1]
  /\ \/ Finish(d) /\ UNCHANGED booked
     \/ Goto(d, "replaying") /\ booked' = [booked EXCEPT ![d] = 1]
  /\ UNCHANGED <<rail, books, polls, paid, errors, crashes>>

\* One attempt: the target answers, well or badly, or asks to be paid; then the
\* hook signs its challenge and books the payment before anything is replayed.
Call(d) ==
  /\ disp[d] \in {"idle", "failed"}
  /\ tries' = [tries EXCEPT ![d] = @ + 1]
  /\ \/ Finish(d) /\ UNCHANGED booked
     \/ Goto(d, "replaying") /\ booked' = [booked EXCEPT ![d] = @ + 1]
  /\ UNCHANGED <<rail, books, polls, paid, errors, crashes>>

\* The target takes the money or not, and the answer reaches us or not.
Replay(d) ==
  /\ disp[d] = "replaying"
  /\ \/ Goto(d, "done") /\ paid' = [paid EXCEPT ![d] = @ + 1]
     \/ /\ Goto(d, IF tries[d] = 2 THEN "done" ELSE "failed")
        /\ \E m \in {0, 1} : paid' = [paid EXCEPT ![d] = @ + m]
  /\ UNCHANGED <<rail, books, polls, tries, booked, errors, crashes>>

-----------------------------------------------------------------------------
\* The process dies and its pollers start again; a dispatch is not resumed (the
\* broker's reconcile starts new ones).
Crash ==
  /\ crashes < MaxCrashes /\ crashes' = crashes + 1
  /\ call' = {}
  /\ todo' = [k \in Pollers |-> {}] /\ answer' = [k \in Pollers |-> "none"]
  /\ disp' = [d \in Dispatches |-> "done"]
  /\ UNCHANGED <<chain, books, tries, booked, paid, errors>>

Record(p) ==
  RecordDeferred(p) \/ AttachTxhash(p) \/ CallRail(p) \/ Insert(p) \/ RailRaises(p)
Poll(k) == StartPass(k) \/ Ask(k) \/ AskRaises(k) \/ Advance(k)
Dispatch(d) == Call(d) \/ Replay(d)

Next ==
  \/ \E p \in Payments : Record(p) \/ Land(p)
  \/ \E k \in Pollers : Poll(k)
  \/ \E d \in Dispatches : Dispatch(d)
  \/ Crash

Spec == Init /\ [][Next]_vars

\* The loops poll for ever (start_poller).
LiveSpec == Spec /\ \A k \in Pollers : WF_vars(Poll(k))

-----------------------------------------------------------------------------
\* The books never contradict the chain, whatever pollers, records and crashes
\* interleave: a row is settled only if the payment landed, failed only if it did.
RowAgreesWithChain ==
  \A p \in Payments : row[p] \in Terminal =>
    chain[p] = (IF row[p] = "settled" THEN "success" ELSE "failed")

\* No money moves off the books: a payment that landed has a row, and every
\* replay a target took money for has one of its own, crashes and the retry of
\* the dispatcher included.  The exception is pay_target, which books after it
\* pays: an error or a crash in between leaves no trace.
MoneyIsBooked ==
  /\ \A p \in Payments : chain[p] = "success" /\ row[p] = "none" =>
       p \in call \/ (p \in Targets /\ errors + crashes > 0)
  /\ \A d \in Dispatches : paid[d] <= booked[d]

\* What has landed is recorded in the end: no open row starves, unless a row
\* before it raises in every pass.
Behind(p) == \E q \in Poison : q <= p
LandedIsRecorded ==
  \A p \in Payments :
    (Open(p) /\ chain[p] \in Outcomes /\ ~Behind(p) /\ (p \in Deferred => p \in hashed))
      ~> row[p] \in Terminal

\* What the code says (settlement.py:119, "Advance every non-terminal settlement
\* that has a batch txHash") it does not do once one row always raises.
EveryLandedIsRecorded ==
  \A p \in Payments \ Poison :
    (Open(p) /\ chain[p] \in Outcomes /\ p \in hashed) ~> row[p] \in Terminal

\* What the rail says (settlement_rail.py:10, "Alerts (logger) on failure so lost
\* money is never silent") does not hold of a payment that raises after it paid.
LostMoneyIsNeverSilent ==
  \A p \in Targets : chain[p] = "success" /\ p \notin call => row[p] # "none"
=============================================================================
