----------------------------- MODULE Aggregator -----------------------------
(***************************************************************************)
(* TheHouse's request broker for one target ASP: intake, exact dedup, the  *)
(* batching window and its fire lock, delivery of a fired batch, and the   *)
(* background sweeper (thehouse/core/{service,pipeline}.py and the intake, *)
(* deduplicator and window packages).  Every action is the code one        *)
(* coroutine runs between two awaits that touch shared state: redis (queue,*)
(* window key, fire lock, pending slots, merge sets, answer cache) and SQL *)
(* (request_log, settlements).  Answers and prices are abstracted away: a  *)
(* dispatch yields an arbitrary subset of the batch as answered.           *)
(***************************************************************************)
EXTENDS Naturals, Sequences, SequencesExt

CONSTANTS
  Requests,    \* calls of AggregatorService.submit; each runs in its own task
  Sweepers,    \* tasks that run sweep_once: the loop, and gateway pollers
  Fps,         \* request fingerprints
  Fp,          \* the fingerprint of each request
  Priority,    \* the requests submitted with priority=True
  DedupSafe,   \* the requests accepted while the ASP's mode is in DEDUP_SAFE_MODES
  BreakEven,   \* break_even_batch_size
  MaxDepth,    \* max_queue_depth (0 disables the limit)
  TTL,         \* request_ttl_s > 0
  None         \* no request

ASSUME AggregatorAssumption ==
  /\ Requests \cap Sweepers = {}
  /\ None \notin Requests
  /\ Fp \in [Requests -> Fps]
  /\ Priority \subseteq Requests
  /\ DedupSafe \subseteq Requests
  /\ TTL \in BOOLEAN
  /\ BreakEven \in Nat /\ MaxDepth \in Nat

Tasks == Requests \cup Sweepers

VARIABLES
  queue,       \* redis list of the ASP's queued requests
  window,      \* the window_open key: closed, open, or open past its timer
  lock,        \* the window_fire_lock key exists
  pending,     \* redis hash fingerprint -> owning request
  mergeSet,    \* redis set of the requests merged into each slot owner
  cache,       \* fingerprints whose answer is in the response cache
  log,         \* request_log.status of each request ("none": no row)
  settled,     \* number of inbound settlement rows of each request
  pc,          \* where each task is
  mergedInto,  \* slot owner a request found, or None
  batch,       \* requests a task drained, until it has settled them
  answered,    \* members of the batch the dispatch answered
  fanned,      \* merged members picked up by the fan-out
  todo,        \* what a loop of the task still has to visit
  cur,         \* the delivery the fan-out is working on
  stale,       \* requests received longer than request_ttl_s ago
  unanswered   \* history: requests whose dispatch yielded no delivery

redis  == <<queue, window, lock, pending, mergeSet, cache>>
sql    == <<log, settled>>
frame  == <<mergedInto, batch, answered, fanned, todo, cur>>
vars   == <<redis, sql, pc, frame, stale, unanswered>>

\* Labels of IntakeService.accept.
Accepting == {"start", "claim", "whose", "record", "logMerged", "depth", "refuse",
              "log", "push"}

Status == {"none", "queued", "merged", "cached", "delivered", "failed"}

IntakePc == Accepting \cup {"open", "size", "done", "refused"}
FirePc   == {"lock", "drain", "close", "recheck", "reopen", "release", "unlock"}
BatchPc  == {"dispatch", "fan", "clear", "commit", "callers", "settle"}
SweepPc  == {"idle", "expire", "peek", "purge"}

TypeOK ==
  /\ queue \in Seq(Requests)
  /\ window \in {"closed", "open", "due"}
  /\ lock \in BOOLEAN
  /\ pending \in [Fps -> Requests \cup {None}]
  /\ mergeSet \in [Requests -> SUBSET Requests]
  /\ cache \subseteq Fps
  /\ log \in [Requests -> Status]
  /\ settled \in [Requests -> Nat]
  /\ pc \in [Tasks -> IntakePc \cup FirePc \cup BatchPc \cup SweepPc]
  /\ mergedInto \in [Requests -> Requests \cup {None}]
  /\ batch \in [Tasks -> Seq(Requests)]
  /\ answered \in [Tasks -> SUBSET Requests]
  /\ fanned \in [Tasks -> SUBSET Requests]
  /\ todo \in [Tasks -> SUBSET Requests]
  /\ cur \in [Tasks -> Requests \cup {None}]
  /\ stale \subseteq Requests
  /\ unanswered \subseteq Requests

Init ==
  /\ queue = <<>> /\ window = "closed" /\ lock = FALSE
  /\ pending = [f \in Fps |-> None]
  /\ mergeSet = [r \in Requests |-> {}]
  /\ cache = {}
  /\ log = [r \in Requests |-> "none"]
  /\ settled = [r \in Requests |-> 0]
  /\ pc = [t \in Tasks |-> IF t \in Requests THEN "start" ELSE "idle"]
  /\ mergedInto = [r \in Requests |-> None]
  /\ batch = [t \in Tasks |-> <<>>]
  /\ answered = [t \in Tasks |-> {}]
  /\ fanned = [t \in Tasks |-> {}]
  /\ todo = [t \in Tasks |-> {}]
  /\ cur = [t \in Tasks |-> None]
  /\ stale = {} /\ unanswered = {}

\* Task t is at label l, and goes to label m.
At(t, l) == pc[t] = l
Goto(t, m) == pc' = [pc EXCEPT ![t] = m]

\* Where a task goes once it has no batch (left) to process: submit returns,
\* sweep_once goes on to expire_stale.
Finish(t) == IF t \in Requests THEN "done" ELSE "expire"

\* The fingerprints window.fire releases for a drained list of requests.
FpsOf(s) == {Fp[r] : r \in ToSet(s) \cap DedupSafe}

-----------------------------------------------------------------------------
(* Intake: IntakeService.accept, then AggregatorService.submit.            *)

\* A repeat of an answered request is logged as cached and returns at once.
ServeCached(r) ==
  /\ At(r, "start") /\ r \in DedupSafe /\ Fp[r] \in cache
  /\ log' = [log EXCEPT ![r] = "cached"]
  /\ Goto(r, "done")
  /\ UNCHANGED <<redis, settled, frame, stale, unanswered>>

\* No cached answer; a side-effectful request skips cache and dedup.
CacheMiss(r) ==
  /\ At(r, "start") /\ (r \in DedupSafe => Fp[r] \notin cache)
  /\ Goto(r, IF r \in DedupSafe THEN "claim" ELSE "depth")
  /\ UNCHANGED <<redis, sql, frame, stale, unanswered>>

\* claim_slot, first half: HSETNX.
ClaimSlot(r) ==
  /\ At(r, "claim")
  /\ \/ /\ pending[Fp[r]] = None
        /\ pending' = [pending EXCEPT ![Fp[r]] = r]
        /\ Goto(r, "depth")
     \/ /\ pending[Fp[r]] # None
        /\ UNCHANGED pending
        /\ Goto(r, "whose")
  /\ UNCHANGED <<queue, window, lock, mergeSet, cache, sql, frame, stale, unanswered>>

\* claim_slot, second half: HGET.  The slot may have been released meanwhile,
\* in which case the request proceeds as novel, without a slot.
ReadOwner(r) ==
  /\ At(r, "whose")
  /\ mergedInto' = [mergedInto EXCEPT ![r] = pending[Fp[r]]]
  /\ Goto(r, IF pending[Fp[r]] = None THEN "depth" ELSE "record")
  /\ UNCHANGED <<redis, sql, batch, answered, fanned, todo, cur, stale, unanswered>>

RecordMerge(r) ==
  /\ At(r, "record")
  /\ mergeSet' = [mergeSet EXCEPT ![mergedInto[r]] = @ \cup {r}]
  /\ Goto(r, "logMerged")
  /\ UNCHANGED <<queue, window, lock, pending, cache, sql, frame, stale, unanswered>>

\* A merged priority caller goes on to fire the window of its slot owner.
LogMerged(r) ==
  /\ At(r, "logMerged")
  /\ log' = [log EXCEPT ![r] = "merged"]
  /\ Goto(r, IF r \in Priority THEN "lock" ELSE "done")
  /\ UNCHANGED <<redis, settled, frame, stale, unanswered>>

CheckDepth(r) ==
  /\ At(r, "depth")
  /\ Goto(r, IF MaxDepth = 0 \/ Len(queue) < MaxDepth THEN "log"
             ELSE IF r \in DedupSafe THEN "refuse" ELSE "refused")
  /\ UNCHANGED <<redis, sql, frame, stale, unanswered>>

\* Mutation of ReleaseRefused: the refused request keeps its slot.
RefuseKeepsSlot(r) ==
  /\ At(r, "refuse")
  /\ Goto(r, "refused")
  /\ UNCHANGED <<redis, sql, frame, stale, unanswered>>

\* QueueFullError: the slot is deleted by fingerprint, whoever owns it now.
ReleaseRefused(r) ==
  /\ At(r, "refuse")
  /\ pending' = [pending EXCEPT ![Fp[r]] = None]
  /\ Goto(r, "refused")
  /\ UNCHANGED <<queue, window, lock, mergeSet, cache, sql, frame, stale, unanswered>>

LogQueued(r) ==
  /\ At(r, "log")
  /\ log' = [log EXCEPT ![r] = "queued"]
  /\ Goto(r, "push")
  /\ UNCHANGED <<redis, settled, frame, stale, unanswered>>

Push(r) ==
  /\ At(r, "push")
  /\ queue' = Append(queue, r)
  /\ Goto(r, "open")
  /\ UNCHANGED <<window, lock, pending, mergeSet, cache, sql, frame, stale, unanswered>>

\* window.submit, SET NX: opening an open window keeps its clock.
OpenWindow(r) ==
  /\ At(r, "open")
  /\ window' = IF window = "closed" THEN "open" ELSE window
  /\ Goto(r, "size")
  /\ UNCHANGED <<queue, lock, pending, mergeSet, cache, sql, frame, stale, unanswered>>

CheckSize(r) ==
  /\ At(r, "size")
  /\ Goto(r, IF r \in Priority \/ Len(queue) >= BreakEven THEN "lock" ELSE "done")
  /\ UNCHANGED <<redis, sql, frame, stale, unanswered>>

-----------------------------------------------------------------------------
(* WindowManager.fire, run by an intake task or by a sweeper.              *)

FireLock(t) ==
  /\ At(t, "lock")
  /\ lock' = TRUE
  /\ Goto(t, IF lock THEN Finish(t) ELSE "drain")
  /\ UNCHANGED <<queue, window, pending, mergeSet, cache, sql, frame, stale, unanswered>>

\* Mutation of Drain: LRANGE without the DEL.
DrainKeeps(t) ==
  /\ At(t, "drain")
  /\ batch' = [batch EXCEPT ![t] = queue]
  /\ Goto(t, "close")
  /\ UNCHANGED <<redis, sql, mergedInto, answered, fanned, todo, cur, stale, unanswered>>

\* Mutation of Drain: one entry is taken, the whole list is deleted.
DrainCapped(t) ==
  /\ At(t, "drain")
  /\ batch' = [batch EXCEPT ![t] = SubSeq(queue, 1, 1)]
  /\ queue' = <<>>
  /\ Goto(t, "close")
  /\ UNCHANGED <<window, lock, pending, mergeSet, cache, sql,
                 mergedInto, answered, fanned, todo, cur, stale, unanswered>>

Drain(t) ==
  /\ At(t, "drain")
  /\ batch' = [batch EXCEPT ![t] = queue]
  /\ queue' = <<>>
  /\ Goto(t, "close")
  /\ UNCHANGED <<window, lock, pending, mergeSet, cache, sql,
                 mergedInto, answered, fanned, todo, cur, stale, unanswered>>

Close(t) ==
  /\ At(t, "close")
  /\ window' = "closed"
  /\ Goto(t, "recheck")
  /\ UNCHANGED <<queue, lock, pending, mergeSet, cache, sql, frame, stale, unanswered>>

AfterReopen(t) == IF batch[t] = <<>> THEN "unlock" ELSE "release"

\* Mutation of Recheck: nothing is checked after the window is closed.
RecheckNothing(t) ==
  /\ At(t, "recheck")
  /\ Goto(t, AfterReopen(t))
  /\ UNCHANGED <<redis, sql, frame, stale, unanswered>>

\* A request pushed after the drain re-opens the window.
Recheck(t) ==
  /\ At(t, "recheck")
  /\ Goto(t, IF queue # <<>> THEN "reopen" ELSE AfterReopen(t))
  /\ UNCHANGED <<redis, sql, frame, stale, unanswered>>

Reopen(t) ==
  /\ At(t, "reopen")
  /\ window' = "open"
  /\ Goto(t, AfterReopen(t))
  /\ UNCHANGED <<queue, lock, pending, mergeSet, cache, sql, frame, stale, unanswered>>

\* release_window: HDEL of the batch's fingerprints, whoever owns them now.
Release(t) ==
  /\ At(t, "release")
  /\ pending' = [f \in Fps |-> IF f \in FpsOf(batch[t]) THEN None ELSE pending[f]]
  /\ Goto(t, "unlock")
  /\ UNCHANGED <<queue, window, lock, mergeSet, cache, sql, frame, stale, unanswered>>

\* The finally block deletes the lock even if it expired and is another's.
Unlock(t) ==
  /\ At(t, "unlock")
  /\ lock' = FALSE
  /\ Goto(t, IF batch[t] = <<>> THEN Finish(t) ELSE "dispatch")
  /\ UNCHANGED <<queue, window, pending, mergeSet, cache, sql, frame, stale, unanswered>>

-----------------------------------------------------------------------------
(* BatchPipeline.process: dispatch, fan-out, commit, settle.               *)

\* Target calls (module Pipeline has the detail): any subset is answered.
Dispatch(t) ==
  /\ At(t, "dispatch")
  /\ \E S \in SUBSET ToSet(batch[t]) :
       /\ answered' = [answered EXCEPT ![t] = S]
       /\ todo' = [todo EXCEPT ![t] = S]
       /\ unanswered' = unanswered \cup (ToSet(batch[t]) \ S)
  /\ Goto(t, "fan")
  /\ UNCHANGED <<redis, sql, mergedInto, batch, fanned, cur, stale>>

\* One delivery: cache its answer (unless it is a failure notice), read the
\* merge set of its request.
FanOut(t) ==
  /\ At(t, "fan")
  /\ \E d \in todo[t] :
       /\ cur' = [cur EXCEPT ![t] = d]
       /\ \/ d \in DedupSafe /\ cache' = cache \cup {Fp[d]}
          \/ cache' = cache
       /\ fanned' = [fanned EXCEPT ![t] = @ \cup mergeSet[d]]
  /\ Goto(t, "clear")
  /\ UNCHANGED <<queue, window, lock, pending, mergeSet, sql,
                 mergedInto, batch, answered, todo, stale, unanswered>>

ClearMergeSet(t) ==
  /\ At(t, "clear")
  /\ mergeSet' = [mergeSet EXCEPT ![cur[t]] = {}]
  /\ todo' = [todo EXCEPT ![t] = @ \ {cur[t]}]
  /\ cur' = [cur EXCEPT ![t] = None]
  /\ Goto(t, "fan")
  /\ UNCHANGED <<queue, window, lock, pending, cache, sql,
                 mergedInto, batch, answered, fanned, stale, unanswered>>

\* One transaction marks every delivery delivered, whatever its status was;
\* the UPDATE of a request that has no row yet changes nothing.
CommitDeliveries(t) ==
  /\ At(t, "fan") /\ todo[t] = {}
  /\ log' = [r \in Requests |->
               IF r \in answered[t] \cup fanned[t] /\ log[r] # "none"
               THEN "delivered" ELSE log[r]]
  /\ Goto(t, "callers")
  /\ UNCHANGED <<redis, settled, frame, stale, unanswered>>

\* Mutation of ResolveCallers: merged callers are not looked up.
ResolveBatchOnly(t) ==
  /\ At(t, "callers")
  /\ todo' = [todo EXCEPT ![t] = answered[t]]
  /\ Goto(t, "settle")
  /\ UNCHANGED <<redis, sql, mergedInto, batch, answered, fanned, cur, stale, unanswered>>

\* A delivery is billed if its caller is known: from the batch, or by a row.
ResolveCallers(t) ==
  /\ At(t, "callers")
  /\ todo' = [todo EXCEPT ![t] =
                {r \in answered[t] \cup fanned[t] :
                   r \in ToSet(batch[t]) \/ log[r] # "none"}]
  /\ Goto(t, "settle")
  /\ UNCHANGED <<redis, sql, mergedInto, batch, answered, fanned, cur, stale, unanswered>>

RecordSettlement(t) ==
  /\ At(t, "settle")
  /\ \E d \in todo[t] :
       /\ settled' = [settled EXCEPT ![d] = @ + 1]
       /\ todo' = [todo EXCEPT ![t] = @ \ {d}]
  /\ UNCHANGED <<redis, log, pc, mergedInto, batch, answered, fanned, cur, stale, unanswered>>

FinishBatch(t) ==
  /\ At(t, "settle") /\ todo[t] = {}
  /\ batch' = [batch EXCEPT ![t] = <<>>]
  /\ answered' = [answered EXCEPT ![t] = {}]
  /\ fanned' = [fanned EXCEPT ![t] = {}]
  /\ Goto(t, Finish(t))
  /\ UNCHANGED <<redis, sql, mergedInto, todo, cur, stale, unanswered>>

-----------------------------------------------------------------------------
(* sweep_once: check_timer, then expire_stale.                             *)

CheckTimer(s) ==
  /\ At(s, "idle")
  /\ Goto(s, IF window = "due" THEN "lock" ELSE "expire")
  /\ UNCHANGED <<redis, sql, frame, stale, unanswered>>

\* Mutation of Expirable: no filter on the status.
ExpirableAny == {r \in stale : log[r] # "none"}

\* Mutation of Expirable: merged rows are forgotten.
ExpirableQueued == {r \in stale : log[r] = "queued"}

\* The rows expire_stale fails: undelivered past the TTL.
Expirable == {r \in stale : log[r] \in {"queued", "merged"}}

ExpireRows(s) ==
  /\ At(s, "expire")
  /\ \/ /\ TTL /\ Expirable # {}
        /\ log' = [r \in Requests |-> IF r \in Expirable THEN "failed" ELSE log[r]]
        /\ todo' = [todo EXCEPT ![s] = stale]
        /\ Goto(s, "peek")
     \/ /\ ~ (TTL /\ Expirable # {})
        /\ UNCHANGED <<log, todo>>
        /\ Goto(s, "idle")
  /\ UNCHANGED <<redis, settled, mergedInto, batch, answered, fanned, cur, stale, unanswered>>

\* peek_all, keeping the entries older than the cutoff.
PeekStale(s) ==
  /\ At(s, "peek")
  /\ todo' = [todo EXCEPT ![s] = @ \cap ToSet(queue)]
  /\ Goto(s, "purge")
  /\ UNCHANGED <<redis, sql, mergedInto, batch, answered, fanned, cur, stale, unanswered>>

\* LREM of the first matching entry, if any is left; it does not touch the entry's
\* slot or merge set.
PurgeEntry(s) ==
  /\ At(s, "purge")
  /\ \E d \in todo[s] :
       /\ \/ d \notin ToSet(queue) /\ UNCHANGED queue
          \/ \E i \in DOMAIN queue :
               /\ queue[i] = d /\ d \notin ToSet(SubSeq(queue, 1, i - 1))
               /\ queue' = RemoveAt(queue, i)
       /\ todo' = [todo EXCEPT ![s] = @ \ {d}]
  /\ UNCHANGED <<window, lock, pending, mergeSet, cache, sql, pc,
                 mergedInto, batch, answered, fanned, cur, stale, unanswered>>

PurgeDone(s) ==
  /\ At(s, "purge") /\ todo[s] = {}
  /\ Goto(s, "idle")
  /\ UNCHANGED <<redis, sql, frame, stale, unanswered>>

-----------------------------------------------------------------------------
(* Time.                                                                   *)

\* The window timer elapses.
TimerElapses ==
  /\ window = "open" /\ window' = "due"
  /\ UNCHANGED <<queue, lock, pending, mergeSet, cache, sql, pc, frame, stale, unanswered>>

\* A request outlives request_ttl_s.  Ten minutes are assumed to be longer than
\* accept takes: the request has been logged and pushed, or will never be.
GoesStale(r) ==
  /\ TTL /\ r \notin stale /\ pc[r] \notin Accepting
  /\ stale' = stale \cup {r}
  /\ UNCHANGED <<redis, sql, pc, frame, unanswered>>

\* The fire lock's px=5000 elapses, possibly while its holder is stalled.
LockExpires ==
  /\ lock /\ lock' = FALSE
  /\ UNCHANGED <<queue, window, pending, mergeSet, cache, sql, pc, frame, stale, unanswered>>

\* The cache TTL elapses.
CacheExpires(f) ==
  /\ f \in cache /\ cache' = cache \ {f}
  /\ UNCHANGED <<queue, window, lock, pending, mergeSet, sql, pc, frame, stale, unanswered>>

-----------------------------------------------------------------------------
Intake(r) ==
  \/ ServeCached(r) \/ CacheMiss(r) \/ ClaimSlot(r) \/ ReadOwner(r)
  \/ RecordMerge(r) \/ LogMerged(r) \/ CheckDepth(r) \/ ReleaseRefused(r)
  \/ LogQueued(r) \/ Push(r) \/ OpenWindow(r) \/ CheckSize(r)

Fire(t) ==
  \/ FireLock(t) \/ Drain(t) \/ Close(t) \/ Recheck(t) \/ Reopen(t)
  \/ Release(t) \/ Unlock(t)

Process(t) ==
  \/ Dispatch(t) \/ FanOut(t) \/ ClearMergeSet(t) \/ CommitDeliveries(t)
  \/ ResolveCallers(t) \/ RecordSettlement(t) \/ FinishBatch(t)

Sweep(s) ==
  \/ CheckTimer(s) \/ ExpireRows(s) \/ PeekStale(s) \/ PurgeEntry(s) \/ PurgeDone(s)

Time ==
  \/ TimerElapses \/ LockExpires
  \/ \E r \in Requests : GoesStale(r)
  \/ \E f \in Fps : CacheExpires(f)

Next ==
  \/ \E r \in Requests : Intake(r)
  \/ \E t \in Tasks : Fire(t) \/ Process(t)
  \/ \E s \in Sweepers : Sweep(s)
  \/ Time

Spec == Init /\ [][Next]_vars

\* A coroutine that is ready is run, and the window timer elapses.  A task that was
\* not started (a request never made) owes nothing; the TTL owes nothing either, so
\* that what is fired in time is told from what only the expiry sweep ends.
Fairness ==
  /\ \A r \in Requests : WF_vars(~At(r, "start") /\ Intake(r))
  /\ \A t \in Tasks : WF_vars(Fire(t) \/ Process(t))
  /\ \A s \in Sweepers : WF_vars(Sweep(s))
  /\ WF_vars(TimerElapses)

LiveSpec == Spec /\ Fairness

-----------------------------------------------------------------------------
(* Properties.                                                             *)

\* A waiting request always has an open window, or a task that is about to
\* open one: the drain of window.fire and the SET NX of window.submit never
\* leave it in a queue that neither the size nor the timer would fire.
NoStrandedRequest ==
  queue # <<>> /\ window = "closed" =>
    \/ \E t \in Tasks : pc[t] \in {"close", "recheck", "reopen"}
    \/ \E r \in Requests : At(r, "open")

\* A request logged as queued is somewhere: about to be pushed, in the queue,
\* in a drained batch, or its dispatch failed and it waits for the TTL.
NoLostRequest ==
  \A r \in Requests : log[r] = "queued" =>
    \/ At(r, "push") \/ r \in ToSet(queue) \/ r \in unanswered
    \/ \E t \in Tasks : r \in ToSet(batch[t])

\* A request is in flight once: it occurs once in the queue or in one drained
\* batch, so that no target call is made twice for it.
OnePlace ==
  /\ \A i, j \in DOMAIN queue : queue[i] = queue[j] => i = j
  /\ \A t \in Tasks : \A i, j \in DOMAIN batch[t] : batch[t][i] = batch[t][j] => i = j
  /\ \A t \in Tasks : ToSet(batch[t]) \cap ToSet(queue) = {}
  /\ \A t, u \in Tasks : t # u => ToSet(batch[t]) \cap ToSet(batch[u]) = {}

\* The billing log and the settlement rows agree: a delivered request has its
\* inbound settlement row unless the task delivering it is still at work, and nobody
\* has two, whoever fires, drains and fans out the windows its request or its slot
\* owner went through.
DeliveredIsSettled ==
  \A r \in Requests :
    /\ settled[r] <= 1
    /\ log[r] = "delivered" =>
         \/ settled[r] = 1
         \/ \E t \in Tasks : r \in answered[t] \cup fanned[t]

\* Labels of a slot owner on its way to the queue, and of a task whose batch still
\* has its slots.
Entering == {"depth", "refuse", "log", "push"}
Holding == {"close", "recheck", "reopen", "release"}

Awaited(o) ==
  \/ pc[o] \in Entering
  \/ o \in ToSet(queue)
  \/ \E t \in Tasks : o \in ToSet(batch[t]) /\ pc[t] \in Holding

\* claim_slot: the owner of a pending slot is on its way to the queue, waiting
\* in it, or in a batch whose fire has yet to release the slot.
SlotOwnerPending == \A f \in Fps : pending[f] # None => Awaited(pending[f])

\* Every queued request is fired (or expires), whether or not the TTL ever elapses:
\* no race of the size, priority and timer fires leaves one in the queue.
QueuedIsFired ==
  \A r \in Requests : r \in ToSet(queue) ~> r \notin ToSet(queue)

\* No request hangs past the TTL: it is delivered, or reported failed.
EventuallyTerminal ==
  \A r \in Requests :
    r \in stale /\ log[r] \in {"queued", "merged"} ~> log[r] \in {"delivered", "failed"}

\* The broker implements the promise it makes to callers (TTL off: what the
\* expiry sweep does to it is FailedIsFinal below).
Lifecycle == INSTANCE RequestLifecycle
               WITH Requests <- Requests, log <- log, settled <- settled
ImplementsLifecycle == Lifecycle!Spec

-----------------------------------------------------------------------------
(* Statements of the code's documents and comments that do not hold.       *)

\* thehouse/core/service.py:166 "so a late window fire can't resurrect a request already
\* reported failed to its caller".
FailedIsFinal ==
  [][\A r \in Requests : log[r] = "failed" => log'[r] = "failed"]_vars

\* core/deduplicator/service.py:7 "the new request merges into that slot; both
\* callers get the answer from one call": no merged request is left behind by the
\* delivery of its slot owner.
NoLostMerge ==
  \A m \in Requests : LET o == mergedInto[m] IN
    log[m] = "merged" /\ o # None /\ log[o] = "delivered" =>
      \E t \in Tasks : o \in ToSet(batch[t])

=============================================================================
