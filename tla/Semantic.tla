------------------------------ MODULE Semantic ------------------------------
(***************************************************************************)
(* TheHouse with its semantic merger switched on                           *)
(* (thehouse/core/deduplicator/semantic.py): a request that claimed the    *)
(* slot of its fingerprint looks for a pending one that means the same,    *)
(* and merges into it or registers its own vector.  The vector store is a  *)
(* server of its own, so every call of it is a step (intake/service.py     *)
(* 153-184, window/manager.py 86-90).                                      *)
(*                                                                         *)
(* What module Aggregator has in detail is one step each here: the exact   *)
(* merge, the window and its fire lock, the log row and the push, the      *)
(* delivery of one request with the callers merged into it.                *)
(***************************************************************************)
EXTENDS Naturals, FiniteSets

CONSTANTS
  Requests,
  None,
  Fp,       \* the fingerprint of each request
  Near,     \* pairs of requests whose queries score above merge_threshold
  Overlap,  \* pairs that score above overlap_threshold only
  MaxDepth  \* max_queue_depth

Fps == {Fp[r] : r \in Requests}

ASSUME FpAssumption == Fp \in [Requests -> Fps] /\ None \notin Requests
ASSUME ScoreAssumption ==
  /\ Near \cup Overlap \subseteq Requests \X Requests /\ Near \cap Overlap = {}
  /\ \A r, q \in Requests : r # q /\ Fp[r] = Fp[q] => <<r, q>> \in Near

VARIABLES
  pc,       \* where accept is for each request
  owner,    \* the slot owner it is to merge into
  pending,  \* redis: the owner of each fingerprint's slot
  vectors,  \* vector store: the requests registered in it
  queue,    \* redis: the window's queue, as a set
  mergeSet, \* redis: the requests merged into each one
  fire, batch, \* where the fire under way is, and what it drained
  out,      \* requests drained and not answered yet
  log,      \* request_log.status
  answer,   \* whose answer each request was given
  stale,    \* requests that outlived the TTL
  purge     \* stale queue entries the expiry sweep has still to remove

intake == <<pc, owner>>
store == <<pending, vectors, queue, mergeSet>>
window == <<fire, batch, out>>
rows == <<log, answer>>
sweep == <<stale, purge>>
vars == <<intake, store, window, rows, sweep>>

Init ==
  /\ pc = [r \in Requests |-> "start"] /\ owner = [r \in Requests |-> None]
  /\ pending = [f \in Fps |-> None] /\ vectors = {} /\ queue = {}
  /\ mergeSet = [r \in Requests |-> {}]
  /\ fire = "idle" /\ batch = {} /\ out = {}
  /\ log = [r \in Requests |-> "none"] /\ answer = [r \in Requests |-> None]
  /\ stale = {} /\ purge = {}

At(r, l) == pc[r] = l
Goto(r, l) == pc' = [pc EXCEPT ![r] = l]

-----------------------------------------------------------------------------
(* IntakeService.accept                                                    *)

\* An identical request was delivered a moment ago.
ServeCached(r) ==
  /\ At(r, "start") /\ Goto(r, "done")
  /\ \E o \in Requests :
       /\ log[o] = "delivered" /\ answer[o] = o /\ Fp[o] = Fp[r]
       /\ answer' = [answer EXCEPT ![r] = o]
  /\ log' = [log EXCEPT ![r] = "cached"]
  /\ UNCHANGED <<owner, store, window, sweep>>

\* The slot of the fingerprint is free, or its owner is to be merged into.
ClaimSlot(r) ==
  /\ At(r, "start")
  /\ \/ /\ pending[Fp[r]] = None /\ pending' = [pending EXCEPT ![Fp[r]] = r]
        /\ Goto(r, "search") /\ UNCHANGED owner
     \/ /\ pending[Fp[r]] # None /\ owner' = [owner EXCEPT ![r] = pending[Fp[r]]]
        /\ Goto(r, "merge") /\ UNCHANGED pending
  /\ UNCHANGED <<vectors, queue, mergeSet, window, rows, sweep>>

\* The nearest vector, if it is of the same window (asp) and near enough.
Nearest(r, scores) == {o \in vectors : <<r, o>> \in scores}

\* Mutation of Search: whatever overlaps is merged.
SearchOverlap(r) ==
  /\ At(r, "search")
  /\ \/ \E o \in Nearest(r, Near \cup Overlap) :
          owner' = [owner EXCEPT ![r] = o] /\ Goto(r, "free")
     \/ Nearest(r, Near \cup Overlap) = {} /\ Goto(r, "register") /\ UNCHANGED owner
  /\ UNCHANGED <<store, window, rows, sweep>>

\* SemanticDedup.check: an overlap is flagged, and registered like a novel query.
Search(r) ==
  /\ At(r, "search")
  /\ \/ \E o \in Nearest(r, Near) : owner' = [owner EXCEPT ![r] = o] /\ Goto(r, "free")
     \/ Nearest(r, Near) = {} /\ Goto(r, "register") /\ UNCHANGED owner
  /\ UNCHANGED <<store, window, rows, sweep>>

Register(r) ==
  /\ At(r, "register") /\ Goto(r, "depth")
  /\ vectors' = vectors \cup {r}
  /\ UNCHANGED <<owner, pending, queue, mergeSet, window, rows, sweep>>

\* A semantic merge gives the slot it claimed back, whoever owns it now.
FreeSlot(r) ==
  /\ At(r, "free") /\ Goto(r, "merge")
  /\ pending' = [pending EXCEPT ![Fp[r]] = None]
  /\ UNCHANGED <<owner, vectors, queue, mergeSet, window, rows, sweep>>

\* record_merge and the log row.
Merge(r) ==
  /\ At(r, "merge") /\ Goto(r, "done")
  /\ mergeSet' = [mergeSet EXCEPT ![owner[r]] = @ \cup {r}]
  /\ log' = [log EXCEPT ![r] = "merged"]
  /\ UNCHANGED <<owner, pending, vectors, queue, window, answer, sweep>>

\* QueueFullError: the slot is freed, the vector is not.
Refuse(r) ==
  /\ At(r, "depth") /\ Cardinality(queue) >= MaxDepth /\ Goto(r, "refused")
  /\ pending' = [pending EXCEPT ![Fp[r]] = None]
  /\ UNCHANGED <<owner, vectors, queue, mergeSet, window, rows, sweep>>

Enqueue(r) ==
  /\ At(r, "depth") /\ Cardinality(queue) < MaxDepth /\ Goto(r, "done")
  /\ queue' = queue \cup {r} /\ log' = [log EXCEPT ![r] = "queued"]
  /\ UNCHANGED <<owner, pending, vectors, mergeSet, window, answer, sweep>>

-----------------------------------------------------------------------------
(* WindowManager.fire and the delivery of what it drained.                 *)

Drain ==
  /\ fire = "idle" /\ queue # {} /\ fire' = "slots"
  /\ batch' = queue /\ queue' = {}
  /\ UNCHANGED <<intake, pending, vectors, mergeSet, out, rows, sweep>>

ReleaseWindow ==
  /\ fire = "slots" /\ fire' = "vectors"
  /\ pending' = [f \in Fps |-> IF \E r \in batch : Fp[r] = f THEN None ELSE pending[f]]
  /\ UNCHANGED <<intake, vectors, queue, mergeSet, batch, out, rows, sweep>>

\* Mutation of ReleaseVectors: only those are released whose row still waits.
ReleaseQueuedVectors ==
  /\ fire = "vectors" /\ fire' = "idle"
  /\ vectors' = vectors \ {r \in batch : log[r] = "queued" /\ mergeSet[r] = {}}
  /\ out' = out \cup batch /\ batch' = {}
  /\ UNCHANGED <<intake, pending, queue, mergeSet, rows, sweep>>

ReleaseVectors ==
  /\ fire = "vectors" /\ fire' = "idle"
  /\ vectors' = vectors \ batch
  /\ out' = out \cup batch /\ batch' = {}
  /\ UNCHANGED <<intake, pending, queue, mergeSet, rows, sweep>>

\* A request is answered, and everyone merged into it with it...
Deliver(d) ==
  /\ d \in out /\ out' = out \ {d}
  /\ LET served == {d} \cup mergeSet[d] IN
     /\ log' = [r \in Requests |-> IF r \in served THEN "delivered" ELSE log[r]]
     /\ answer' = [r \in Requests |-> IF r \in served THEN d ELSE answer[r]]
  /\ mergeSet' = [mergeSet EXCEPT ![d] = {}]
  /\ UNCHANGED <<intake, pending, vectors, queue, fire, batch, sweep>>

\* ... or its dispatch fails, and it is left to the TTL.
LoseAnswer(d) ==
  /\ d \in out /\ out' = out \ {d}
  /\ UNCHANGED <<intake, store, fire, batch, rows, sweep>>

-----------------------------------------------------------------------------
(* AggregatorService.expire_stale                                          *)

\* The age of a row matters only while it waits.
GoesStale(r) ==
  /\ log[r] \in {"queued", "merged"} /\ r \notin stale /\ stale' = stale \cup {r}
  /\ UNCHANGED <<intake, store, window, rows, purge>>

\* Mutation of Expirable: merged rows are forgotten.
ExpirableQueued == {r \in stale : log[r] = "queued"}

Expirable == {r \in stale : log[r] \in {"queued", "merged"}}

ExpireRows ==
  /\ Expirable # {} /\ purge = {}
  /\ log' = [r \in Requests |-> IF r \in Expirable THEN "failed" ELSE log[r]]
  /\ purge' = stale \cap queue
  /\ UNCHANGED <<intake, store, window, answer, stale>>

\* Neither the slot nor the vector of a purged entry is released.
PurgeEntry(r) ==
  /\ r \in purge /\ purge' = purge \ {r} /\ queue' = queue \ {r}
  /\ UNCHANGED <<intake, pending, vectors, mergeSet, window, rows, stale>>

-----------------------------------------------------------------------------
Accept(r) ==
  \/ ServeCached(r) \/ ClaimSlot(r) \/ Search(r) \/ Register(r) \/ FreeSlot(r)
  \/ Merge(r) \/ Refuse(r) \/ Enqueue(r)

Fire == Drain \/ ReleaseWindow \/ ReleaseVectors
Answer(d) == Deliver(d) \/ LoseAnswer(d)
Sweep == ExpireRows \/ \E r \in Requests : PurgeEntry(r)

Next ==
  \/ \E r \in Requests : Accept(r) \/ Answer(r) \/ GoesStale(r)
  \/ Fire \/ Sweep

Spec == Init /\ [][Next]_vars

\* The sweeper's loop runs for ever; nothing else is assumed.
LiveSpec == Spec /\ WF_vars(Sweep)

-----------------------------------------------------------------------------
\* A request is only ever given the answer to a query that means the same, however
\* slots, vectors and merge sets go stale under it.
AnswersAreNear ==
  \A r \in Requests : LET o == answer[r] IN o \notin {None, r} => <<r, o>> \in Near

Entering(r) == pc[r] \in {"depth", "refused"}

\* A vector names a request that will still be drained, or one that never will: a
\* near-duplicate may merge into a request that was refused or has expired, but into
\* none that was answered before its vector was looked up.
NoServedVector ==
  \A v \in vectors : Entering(v) \/ v \in queue \cup batch \/ log[v] = "failed"

\* Whatever ghost it merged into, a request that was accepted does not wait past the
\* TTL: every one of them is answered or failed.
NobodyHangs ==
  \A r \in Requests : r \in stale ~> log[r] \in {"delivered", "cached", "failed"}

-----------------------------------------------------------------------------
\* intake/service.py:187 "On refusal, release the dedup slot claimed above so no one
\* merges into a ghost."  The vector registered above is not released.
NoGhostMerge == \A r \in Requests : log[r] = "merged" => pc[owner[r]] # "refused"

\* deduplicator/service.py:7 "the new request merges into that slot; both callers get
\* the answer from one call": not when the owner then merges into another slot.
NoOrphanMerge == \A r \in Requests : log[r] = "merged" => log[owner[r]] # "merged"
=============================================================================
