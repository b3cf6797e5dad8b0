------------------------------- MODULE Gateway -------------------------------
(***************************************************************************)
(* TheHouse's paid gateway (thehouse/gateway/mcp_server.py, POST /mcp), the*)
(* operator's intake (thehouse/core/api.py, POST /v1/call), the ledgers    *)
(* they share (thehouse/onchain/payments.py) and the reconciliation of the *)
(* two books (thehouse/core/economics/service.py).  A call is a process;   *)
(* every await on the database, the broker or the facilitator is a step.   *)
(* The broker behind submit is the one of module Aggregator, reduced to    *)
(* what its callers see (RequestLifecycle); a submit may process a batch   *)
(* inline, so it can raise after its own request was served.               *)
(***************************************************************************)
EXTENDS Integers, FiniteSets

CONSTANTS
  Calls,      \* HTTP calls, retries and replays included
  Auths,      \* signed payment authorizations
  Auth,       \* the authorization each call presents (None: an operator's call)
  None,
  Worth,      \* what each authorization is signed for (Unsound: its signature fails)
  Unsound,
  Ceiling,    \* the full price of the tool
  MaxFaults,  \* bound: exceptions nobody expects, and cancellations
  MaxCrashes  \* bound: crashes of the process

ASSUME AuthAssumption == Auth \in [Calls -> Auths \cup {None}] /\ None \notin Auths
ASSUME WorthAssumption ==
  /\ Unsound \notin Nat
  /\ Worth \in [Auths -> Nat \cup {Unsound}]
  /\ Ceiling \in Nat
ASSUME BoundAssumption == MaxFaults \in Nat /\ MaxCrashes \in Nat

VARIABLES
  pc,      \* where each call is
  reply,   \* what it answered
  keys,    \* payment_keys: the claimed authorizations
  log,     \* request_log.status of the request each call submitted
  owner,   \* request_log.merged_into
  owed,    \* requests whose delivery is committed and whose row is not written
  rows,    \* requests with an inbound row in settlements
  old,     \* those of them dated before the reconciliation window
  faults, crashes

broker == <<log, owner, owed, rows, old>>
vars == <<pc, reply, keys, broker, faults, crashes>>

Paid == {c \in Calls : Auth[c] # None}
\* error, broken: an exception answered with a 500, after the authorization was given
\* back or with the authorization still claimed and no handle to the request.
Replies == {"none", "payment_required", "refused", "error", "broken", "accepted", "ok",
            "failed", "pending"}

GatewayTypeOK ==
  /\ pc \in [Calls -> {"idle", "held", "refused", "raised", "waiting", "done", "dead"}]
  /\ reply \in [Calls -> Replies]
  /\ keys \subseteq Auths
  /\ log \in [Calls -> {"none", "queued", "merged", "cached", "delivered", "failed"}]
  /\ owner \in [Calls -> Calls \cup {None}]
  /\ owed \subseteq Calls /\ rows \subseteq Calls /\ old \subseteq rows
  /\ faults \in 0..MaxFaults /\ crashes \in 0..MaxCrashes

Init ==
  /\ pc = [c \in Calls |-> "idle"]
  /\ reply = [c \in Calls |-> "none"]
  /\ log = [c \in Calls |-> "none"]
  /\ owner = [c \in Calls |-> None]
  /\ keys = {} /\ owed = {} /\ rows = {} /\ old = {}
  /\ faults = 0 /\ crashes = 0

At(c, l) == pc[c] = l
Goto(c, l) == pc' = [pc EXCEPT ![c] = l]
Answer(c, r) == Goto(c, "done") /\ reply' = [reply EXCEPT ![c] = r]

-----------------------------------------------------------------------------
(* The payment gate.                                                       *)

\* The verifier's word: the authorization is sound and covers the ceiling.  The
\* receipt of the facilitator is for the ceiling, whatever more was signed.
Verified(c) == c \in Paid /\ Worth[Auth[c]] # Unsound /\ Worth[Auth[c]] >= Ceiling

\* Unknown or inactive tool, no header, an authorization the verifier rejects;
\* for an operator, a missing token; or an exception out of one of these checks: nothing
\* is touched.
TurnAway(c) ==
  /\ At(c, "idle") /\ Answer(c, "payment_required")
  /\ UNCHANGED <<keys, broker, faults, crashes>>

\* Mutation of ClaimKey: the key is looked up and claimed in two steps.
ClaimUnchecked(c) ==
  /\ At(c, "idle") /\ Verified(c)
  /\ keys' = keys \cup {Auth[c]} /\ Goto(c, "held") /\ UNCHANGED reply
  /\ UNCHANGED <<broker, faults, crashes>>

\* One insert on the primary key claims a verified authorization; seen before,
\* it is a replay.
ClaimKey(c) ==
  /\ At(c, "idle") /\ Verified(c)
  /\ IF Auth[c] \in keys
     THEN Answer(c, "payment_required") /\ UNCHANGED keys
     ELSE keys' = keys \cup {Auth[c]} /\ Goto(c, "held") /\ UNCHANGED reply
  /\ UNCHANGED <<broker, faults, crashes>>

\* Operator intake: no payment gate.
SubmitCall(c) ==
  /\ At(c, "idle") /\ c \notin Paid
  /\ Goto(c, "held")
  /\ UNCHANGED <<reply, keys, broker, faults, crashes>>

\* Rate limit or queue depth: refused before anything is logged.
Refuse(c) ==
  /\ At(c, "held") /\ log[c] = "none"
  /\ Goto(c, "refused")
  /\ UNCHANGED <<reply, keys, broker, faults, crashes>>

\* Any other exception out of submit, before or after the request was logged,
\* queued, or served in a batch that submit processed inline.
Raise(c) ==
  /\ At(c, "held") /\ faults < MaxFaults
  /\ faults' = faults + 1 /\ Goto(c, "raised")
  /\ UNCHANGED <<reply, keys, broker, crashes>>

\* Mutation of ReleaseKey: only a refusal gives the authorization back.
ReleaseRefused(c) ==
  /\ pc[c] \in {"refused", "raised"}
  /\ keys' = IF At(c, "refused") THEN keys \ {Auth[c]} ELSE keys
  /\ Answer(c, IF At(c, "refused") THEN "refused" ELSE "error")
  /\ UNCHANGED <<broker, faults, crashes>>

ReleaseKey(c) ==
  /\ pc[c] \in {"refused", "raised"}
  /\ keys' = keys \ {Auth[c]}
  /\ Answer(c, IF At(c, "refused") THEN "refused" ELSE "error")
  /\ UNCHANGED <<broker, faults, crashes>>

\* The delete itself raises: the handler of the refusal or of the exception ends there.
ReleaseRaises(c) ==
  /\ pc[c] \in {"refused", "raised"} /\ c \in Paid /\ faults < MaxFaults
  /\ faults' = faults + 1 /\ Answer(c, "broken")
  /\ UNCHANGED <<keys, broker, crashes>>

\* submit returned: a paying caller is polled for, an operator gets the handle.
Submitted(c) ==
  /\ At(c, "held") /\ log[c] # "none"
  /\ IF c \in Paid THEN Goto(c, "waiting") /\ UNCHANGED reply ELSE Answer(c, "accepted")
  /\ UNCHANGED <<keys, broker, faults, crashes>>

Served(c) == log[c] \in {"delivered", "cached"}

\* One poll that finds an answer: the request's own, or its slot owner's.
Poll(c) ==
  /\ At(c, "waiting")
  /\ \/ Served(c) /\ Answer(c, "ok")
     \/ log[c] = "failed" /\ Answer(c, "failed")
     \/ log[c] = "merged" /\ Served(owner[c]) /\ Answer(c, "ok")
  /\ UNCHANGED <<keys, broker, faults, crashes>>

\* Mutation of TimeOut: the authorization goes back with the handle.
TimeOutReleases(c) ==
  /\ At(c, "waiting") /\ ~Served(c) /\ log[c] # "failed"
  /\ keys' = keys \ {Auth[c]} /\ Answer(c, "pending")
  /\ UNCHANGED <<broker, faults, crashes>>

TimeOut(c) ==
  /\ At(c, "waiting") /\ ~Served(c) /\ log[c] # "failed"
  /\ Answer(c, "pending")
  /\ UNCHANGED <<keys, broker, faults, crashes>>

\* get_result raises, or sweep_once, which processes whole batches, anybody's: the poll is
\* in no try, nothing is given back, and the caller does not learn its request's id.
PollRaises(c) ==
  /\ At(c, "waiting") /\ faults < MaxFaults
  /\ faults' = faults + 1 /\ Answer(c, "broken")
  /\ UNCHANGED <<keys, broker, crashes>>

\* CancelledError, at any await: it is no Exception, so that no handler of the call runs.
Cancel(c) ==
  /\ pc[c] \in {"held", "refused", "raised", "waiting"} /\ faults < MaxFaults
  /\ faults' = faults + 1 /\ Goto(c, "dead")
  /\ UNCHANGED <<reply, keys, broker, crashes>>

-----------------------------------------------------------------------------
(* The broker, as its callers see it.                                      *)

Take(c) ==
  /\ At(c, "held") /\ log[c] = "none"
  /\ \/ \E st \in {"queued", "cached"} :
          log' = [log EXCEPT ![c] = st] /\ UNCHANGED owner
     \/ \E o \in Calls \ {c} :
          /\ log[o] = "queued"
          /\ log' = [log EXCEPT ![c] = "merged"] /\ owner' = [owner EXCEPT ![c] = o]
  /\ UNCHANGED <<pc, reply, keys, owed, rows, old, faults, crashes>>

Waiting(c) == log[c] \in {"queued", "merged"}

\* A batch answers some requests, and some of those merged into their slots.
Deliver(S) ==
  /\ S # {} /\ \A c \in S : Waiting(c) /\ (log[c] = "merged" => owner[c] \in S)
  /\ log' = [c \in Calls |-> IF c \in S THEN "delivered" ELSE log[c]]
  /\ owed' = owed \cup S
  /\ UNCHANGED <<pc, reply, keys, owner, rows, old, faults, crashes>>

\* The pipeline records the inbound settlement of a delivery, whoever submitted
\* it.  A request answered from the cache gets none.
Settle(c) ==
  /\ c \in owed
  /\ owed' = owed \ {c} /\ rows' = rows \cup {c}
  /\ UNCHANGED <<pc, reply, keys, log, owner, old, faults, crashes>>

Expire(S) ==
  /\ S # {} /\ \A c \in S : Waiting(c)
  /\ log' = [c \in Calls |-> IF c \in S THEN "failed" ELSE log[c]]
  /\ UNCHANGED <<pc, reply, keys, owner, owed, rows, old, faults, crashes>>

\* The rows written so far leave the window of the reconciliation.
WeekPasses ==
  /\ rows # old /\ old' = rows
  /\ UNCHANGED <<pc, reply, keys, log, owner, owed, rows, faults, crashes>>

\* The tables survive a crash, the calls and the batches in memory do not.
Crash ==
  /\ crashes < MaxCrashes /\ crashes' = crashes + 1
  /\ pc' = [c \in Calls |-> IF pc[c] \in {"idle", "done"} THEN pc[c] ELSE "dead"]
  /\ owed' = {}
  /\ UNCHANGED <<reply, keys, log, owner, rows, old, faults>>

-----------------------------------------------------------------------------
Call(c) ==
  \/ TurnAway(c) \/ ClaimKey(c) \/ SubmitCall(c) \/ Refuse(c) \/ Raise(c)
  \/ ReleaseKey(c) \/ ReleaseRaises(c) \/ Submitted(c) \/ Poll(c) \/ PollRaises(c)
  \/ TimeOut(c) \/ Cancel(c)

Broker ==
  \/ \E c \in Calls : Take(c) \/ Settle(c)
  \/ \E S \in SUBSET Calls : Deliver(S) \/ Expire(S)

Next == (\E c \in Calls : Call(c)) \/ Broker \/ WeekPasses \/ Crash

Spec == Init /\ [][Next]_vars

-----------------------------------------------------------------------------
Accepted(c) == log[c] # "none"
Raised(c) == pc[c] = "raised" \/ reply[c] = "error"

\* The authorization is in the hands of a call that has not ended.
InHands(c) == pc[c] \in {"held", "refused", "raised", "waiting"}

\* The payer has something for it: an answer, a notice that its request failed, or the
\* handle of a request that is pending.
Bought(c) == reply[c] \in {"ok", "failed", "pending"}

\* The payer has nothing for it: the call was killed or cancelled, or an exception came
\* out of the poll or of the release.
Burned(c) == pc[c] = "dead" \/ reply[c] = "broken"

\* The call keeps its authorization for good.
Kept(c) == pc[c] = "waiting" \/ Bought(c) \/ Burned(c)

\* One authorization buys one request: two calls that present the same bytes are
\* both accepted by the broker only if the submit of one of them raised, which
\* gives the authorization back whether or not the work was queued
\* (mcp_server.py:122-127).
SpentOnce ==
  \A c, d \in Paid :
    c # d /\ Auth[c] = Auth[d] /\ Accepted(c) /\ Accepted(d) => Raised(c) \/ Raised(d)

\* Whoever is told "payment not consumed" (mcp_server.py:119), or has the exception that
\* submit raised, has the authorization back unless another call took it up: one that is
\* claimed is accounted for by one call, which has not ended, has something for it, or met
\* with one of the failures that no handler is there for.  Those do burn it: see
\* FailureBurnsNothing.
AuthorizationNotStuck ==
  \A a \in keys : \E c \in Paid :
    /\ Auth[c] = a
    /\ InHands(c) \/ Bought(c) \/ Burned(c)
    /\ \A d \in Paid \ {c} : Auth[d] = a => ~(InHands(d) \/ Bought(d) \/ Burned(d))

\* mcp_server.py:123 "any unexpected failure before service was rendered must not burn the
\* authorization".  Not so: the poll loop and the release raise outside of any handler.
FailureBurnsNothing ==
  \A c \in Paid : reply[c] = "broken" /\ ~Served(c) => Auth[c] \notin keys

\* The gate implements the authorization a payer has in mind: held by one call,
\* free again only from its hands, spent for good once kept.
AuthState ==
  [a \in Auths |->
     IF a \notin keys THEN "free"
     ELSE IF \E c \in Paid : Auth[c] = a /\ Kept(c) THEN "spent" ELSE "held"]
Payment == INSTANCE Authorization WITH state <- AuthState
ImplementsPayment == Payment!Spec

\* What the reconciliation sees of the inbound money, a call charged one unit:
\* rows in its window, and the charges of every request that has a row.
InboundDelta == Cardinality(rows \ old) - Cardinality(rows)

\* economics/service.py:212 says that any drift, "a dropped receipt, a charge that
\* didn't settle", surfaces as a nonzero delta "instead of going silent".
\* Not so: a charge without a row is in neither sum.
DriftSurfaces ==
  (\E c \in Calls : Served(c) /\ c \notin owed \cup rows) => InboundDelta # 0
=============================================================================
