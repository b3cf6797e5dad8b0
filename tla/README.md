# LAVARD and TheHouse: TLA+ verification project

The repository holds two Python services.

* **LAVARD** (`src/core`, `src/onchain`, `src/api`, `src/cli`, `src/mcp`) turns a goal into a graph
  of tasks, hires a specialist for each behind an escrow, runs them in a *Room* under a *Referee*,
  and releases the escrows when the user signs the job off.
* **TheHouse** (`src/thehouse`) is a broker in front of paid target services (ASPs). It collects the
  calls of many callers in a *window*, merges identical ones, sends one compound call, splits the
  answer and charges each caller a share.

The modules below model the parts whose interleavings, crashes, retries and limits are hard to
reach with a test. TLC checks them on small instances; TLAPS proves every safety property of the
passing runs, and the two refinements among them, for every instance. Paths in this document are
relative to `src/`.

## 1. Inventory

### TheHouse

| Component | State | Operations | What makes it correct |
|---|---|---|---|
| Intake and dedup (`thehouse/core/intake`, `deduplicator`) | redis: `pending` hash fingerprint → owner, merge set per owner, answer cache; SQL: `request_log` | accept: cache lookup, claim slot (HSETNX), merge, depth check, log, push | a slot names a request that will be delivered; a merged request gets the owner's answer |
| Window manager (`thehouse/core/window`) | redis: queue list, `window_open` key, `window_fire_lock` | submit (push, SET NX), size trigger, timer sweep, fire (lock, drain, close, recheck, release) | nothing is queued without a window; nothing is drained twice |
| Batch pipeline (`thehouse/core/pipeline.py`, `pricing`, `composer`, `packer`, `splitter`, `dispatcher`) | the batch in memory; registry mode of the target | route by mode, compound call, split, isolate, direct call, collect, fan out, commit, settle | each caller gets its own answer or a notice, once, within the price it authorized |
| Semantic merger (`thehouse/core/deduplicator/semantic.py`, opt-in) | a vector store beside redis | check, register, release | a caller gets an answer to a query that means the same; nobody merges into what was served |
| Service (`thehouse/core/service.py`) | the tasks of submit, the sweeper loop | submit, sweep_once, expire_stale, reconcile at startup | no request is lost in a crash; every request ends |
| Gateway and payments (`thehouse/gateway`, `thehouse/onchain/payments.py`) | `payment_keys`, `request_log`, `settlements` | verify and claim an authorization, submit, release it on a refusal, poll for the answer | an authorization buys one request; a refusal, or a submission that raises, gives it back |
| Settlement rails and pollers (`thehouse/onchain`) | `settlements`, audit of failures; the facilitator and the rail | record, attach a batch hash, charge, pay a target, two polling loops; the payment hook of a dispatch | the rows say what the outside world says; no money moves off the books |
| Economics (`thehouse/core/economics`) | `economics_ledger`, registry rows | nightly auto-protection: demote, extend, manual review, re-profile; reconciliation | a stale row written back does not undo what another writer needs |
| Profiler, registry, price sync (`thehouse/core/profiler`, `registry`, `onchain/sync.py`) | `asp_registry`, the published listing | profile, upsert, sync fees, push the listing | a tool with side effects is never shared; registry and listing follow the fees |
| Directory, desk, HTTP API, storage | pages, views, schemas | `submit_call`, the lifespan; otherwise read-only | see section 8 |

### LAVARD

| Component | State | Operations | What makes it correct |
|---|---|---|---|
| Job service, conductor, queue (`core/service.py`, `core/conductor.py`, `core/queue.py`) | `jobs`, `job_nodes` | submit_goal, process_job (inline, by a worker, or both), run_job, auto sign-off, report | a direct answer is the whole job; the headline is what the job cost |
| Task graph, path, Vetter, review (`core/foreman/decompose.py`, `core/intake/router.py`, `core/vetter`, `core/governance`) | none (pure) | decompose, validate_dag, classify_path, vet, rank, review | only acyclic graphs are accepted; no escrow for an agent that fails the Vetter |
| Hiring and sign-off (`core/foreman/hire.py`, `onchain/payments.py`) | provider's escrows, `hires` rows | hire_for_job, sign_off | no node is hired twice, nobody is paid twice, nobody is left unpaid |
| Room and Referee (`core/room`) | `room_checkpoint`, `job_control`, `jobs`; in memory the meter, turn counters, finished nodes | run_room, run_node, hire_specialist, hire_replacement, kill | the money cap holds over resumes, no node is skipped or redone, every run ends |
| Store and audit chain (`core/store.py`) | all tables; hash chain with a sealed head | appends, verify | the chain has one tail; an untouched chain verifies |
| Router cache (`core/router`) | cached answers with embeddings and expiry | route, lookup, store | an answer is fresh and to the same question (not modelled: section 8) |
| Executor (`core/execution`) | none | submit to TheHouse, poll | what a call was charged is reported (for late and cached answers it is not: section 5) |
| Memory, reputation, prediction | facts, scores | distil, answer a node, rank | a fact answers a node of its own capability only |

**Interactions.** LAVARD's executor and router call TheHouse over HTTP; the conductor calls hiring,
then the room, then sign-off. Every FastAPI request of LAVARD runs in a thread of its own over one
SQL database, every request of TheHouse in an asyncio task over one redis and one SQL database.
The components share state by key or row and use no transactions across two stores.

**Hard behaviours.** TheHouse: races between intake, the three triggers of a fire, delivery and the
expiry sweep; a fire lock that expires under its holder; a crash between a redis command and an SQL
commit; replies that split for some callers only; a target's mode that changes while callers wait.
LAVARD: overlapping and repeated calls, deaths between the external escrow and its row, halts and
resumes, loops bounded only by turn limits. `hazards` in `PROJECT.json` lists each one with its line
and the properties that cover it, or says why none does.

## 2. Modules

| Module | Models | Style |
|---|---|---|
| `RequestLifecycle` | what a caller may see of its request: accepted, answered or failed once, settled once; `LateSpec` is what is left of it under a TTL | abstract specification |
| `Aggregator` | the broker for one target: intake, dedup, window, fire, delivery, sweeper | one action per stretch of a coroutine between two awaits on shared state |
| `AggregatorCrash` | `Aggregator` with crashes of the process and `reconcile` at startup | extends `Aggregator` |
| `Pipeline` | ceiling and answers: dedup at intake, routing by mode, compound calls, split, isolate, collect, fan-out, commit, mode changes | acceptance, fire and fan-out are one step each; target calls are steps of their own |
| `Semantic` | the broker with its semantic merger: slots, vectors and merge sets that go stale apart | one action per call of redis or of the vector store |
| `Authorization` | what a payer is promised: held by one call, free again only from its hands, spent for good | abstract specification |
| `Gateway` | the paid endpoint and the operator's intake over the replay keys, the log and the settlements | one action per await on the database, the broker or the verifier |
| `Settlement` | `settlements` as its writers and pollers see it, and the payment hook of a dispatch | one action per await on the rail or the database |
| `Registry` | `asp_registry` between the price sync and the nightly job | one action per read or write of whole rows |
| `Hiring` | `hire_for_job` and `sign_off` of one job, overlapping and dying | one action per provider call or row write |
| `Room` | `run_room` under the Referee: checkpoints, halts, kill-switch, resumes | one action per turn event or store access |
| `AuditChain` | `append_audit` and `verify_audit` by any writers | a transaction is one action per lock, commit or rollback |
| `Foreman` | decisions without state: the task graph, the path, the Vetter, the ranking, the review | operators only |
| `Job` | a job from its goal to its report: conductor, worker, hiring, the calls through TheHouse, sign-off, distillation | one action per append or row write; extends `AuditChain` and `Foreman`, uses `RequestLifecycle` |
| `AggregatorProofs`, `PipelineProofs`, `SemanticProofs`, `HiringProofs`, `RoomProofs`, `JobProofs`, `GatewayProofs`, `BackOfficeProofs` | theorems, checked by TLAPS | extend the module they are about; `AggregatorProofs` extends `AggregatorCrash`, `BackOfficeProofs` extends `Settlement` and `Registry` |
| `MCAggregator`, `MCAggregatorCrash`, `MCPipeline`, `MCSemantic`, `MCGateway`, `MCSettlement`, `MCRegistry`, `MCHiring`, `MCRoom`, `MCJob` | model values and maps for TLC | instance only |

Operators whose comment begins with "Mutation of" are plausible bugs of the action of that name.
They belong to no next-state relation; `PROJECT.json` pairs each with the property it must break.

### 2.1 `Aggregator`

Variables: `queue`, `window`, `lock`, `pending`, `mergeSet`, `cache` are the redis keys of one
target; `log` and `settled` are `request_log.status` and the count of inbound settlement rows; `pc`
and the frame (`mergedInto`, `batch`, `answered`, `fanned`, `todo`, `cur`) are the local state of
the tasks; `stale` is the set of requests older than the TTL. `unanswered` is a history variable.

| Actions | Code |
|---|---|
| `ServeCached`, `CacheMiss`, `ClaimSlot`, `ReadOwner`, `RecordMerge`, `LogMerged`, `CheckDepth`, `ReleaseRefused`, `LogQueued`, `Push` | `IntakeService.accept`, `Deduplicator` |
| `OpenWindow`, `CheckSize` | `WindowManager.submit`, `AggregatorService.submit` |
| `FireLock`, `Drain`, `Close`, `Recheck`, `Reopen`, `Release`, `Unlock` | `WindowManager.fire` |
| `Dispatch`, `FanOut`, `ClearMergeSet`, `CommitDeliveries`, `ResolveCallers`, `RecordSettlement`, `FinishBatch` | `BatchPipeline.process`, `_deliver` |
| `CheckTimer`, `ExpireRows`, `PeekStale`, `PurgeEntry`, `PurgeDone` | `sweep_once`, `expire_stale` |
| `TimerElapses`, `LockExpires`, `GoesStale`, `CacheExpires` | time: the window timer, redis expiry, the TTL |

Answers, prices and the way a target is called are abstracted: `Dispatch` answers any subset of the
batch. Each redis command and each SQL transaction is one atomic step.

### 2.2 `AggregatorCrash`

`Crash` may happen at any moment: frames are lost, redis and SQL are kept, tasks are done for.
`ReconcileRead`, `ReconcilePush` and `ReconcileOpen` are `AggregatorService.reconcile`, which the
API's lifespan runs before the endpoints and the sweeper: no `Next` step happens until it is done.
The redis timers run on meanwhile.

### 2.3 `Pipeline`

`call[r]` records what each caller asked, authorized, was answered and was charged. The gate's
`Authorize` computes the ceiling from the registry entry *now*; `LookUpEntry` and `Fire` read the
entry again and drain the queue; `Route` chooses the path by the entry's mode. The calls of the
target (`DirectCall`, `CompoundCall`, `Isolate`, `FanOutCalls`) are separate steps, between which
other callers arrive and `Demote` or `Reclassify`
(`run_auto_protection`) changes the mode. A reply is abstracted to which slots it contains
(`kept`) and, for a query in `ListAnswers`, whether a numbered list inside its answer looks like
another caller's anchor. `Collect`, `FanOut`, `Commit` are `_collect` and `_deliver`.

### 2.4 `Hiring`

An escrow is a pair <<call, node>>: the call that opened it and the node it is for. `opened` and
`paidBy` are the provider's state, `hires` the rows. `StartHiring` reads the active hires once;
then for each node `PassOver` (no candidate passed, memory answered, review refused), `ServiceMcp`
(a pay-per-call service, which leaves no row) or `OpenEscrow` followed by `CreateHire`.
`StartSignOff` reads the rows; `Release` and `MarkReleased` take them one by one. `Die` is an
exception or a kill between any two steps.

### 2.5 `Room`

`run[c]` is the local state of a call of `run_room`: meter, turns, turns per agent, questions asked,
nodes done, current node and agent. `job`, `frozen` and `checkpoint` are the rows. `Load`/`Reload`
take the checkpoint or start afresh, `NextNode` goes to the next node that is not done, `Turn` is
`Referee.turn`, and the event of a turn is `Deliver`, `GiveUp`, `Replace`, `Blocked`, `Answer` or
`HireHelper`. A run over a limit stops, and `Halt`/`Mark` save the checkpoint and the status.
`Freeze` is the kill endpoint, `SignOffJob` the sign-off while the room may run.
`handled`, `clean`, `chain`, `paid` are history: what has truly been done, and what the current
chain (a fresh run and the runs that resumed it, one at a time, none of which died) has cost.

### 2.6 `Semantic`

The merger runs only for a request that has claimed the slot of its fingerprint. `Search` asks the
vector store for the nearest pending query (`Near`, `Overlap`: the pairs above each threshold);
a request that is near to one gives its slot back (`FreeSlot`, whoever owns it by then) and merges,
any other registers its vector. `Drain`, `ReleaseWindow` and `ReleaseVectors` are `fire`, in which
the slots and the vectors of a batch are released by two calls. The exact intake, the window and the
delivery are those of `Aggregator`, one step each.

### 2.7 `Gateway` and `Authorization`

A call with an authorization passes `ClaimKey` (one INSERT on the primary key of `payment_keys`),
is submitted (`Take` is the broker logging it, `Refuse` its limits, `Raise` anything else, which may
come after the request was queued), and either `ReleaseKey` gives the authorization back or
`Submitted` goes on to `Poll` and `TimeOut`. `ReleaseRaises` (the DELETE of the key fails) and
`PollRaises` (`get_result`, or `sweep_once`, which processes whole batches) are the exceptions no
handler is there for: the reply is "broken", a 500 with the authorization still claimed. `Cancel` is
CancelledError, which passes `except Exception` by. A call without an authorization is the operator's
`/v1/call`.
`Deliver`, `Settle`, `Expire` are the broker as its callers see it. `AuthState` maps keys and calls
to `Authorization`: free if not claimed, spent if a call kept it for good, held otherwise.

### 2.8 `Settlement`

`chain` is what the facilitator or the rail knows of a payment and `row` what the table says.
`RecordDeferred` and `AttachTxhash` are the x402 batches; `CallRail`, `Insert` and `RailRaises`
are `record_inbound` and `pay_target`, which differ in what has happened when the rail raises.
A poller reads the open rows of its kind (`StartPass`), asks about each (`Ask`, `AskRaises`) and
updates it unconditionally (`Advance`). `Call` and `Replay` are the dispatcher's two attempts
around the payment hook.

### 2.9 `Registry`

A row is [mode, fee, price, timer]. `FetchFees`, `ListAll`, `ApplyFee`, `Push` are `sync_once`;
`StartNight`, `JudgeRatio`, `JudgeFailures`, `Reprofile` are `run_auto_protection`, which reads all
rows first and writes back the row it read after a probe. The targets change their fees at will.
The specification is `RegistrySpec`, so that the module can be extended together with `Settlement`.

### 2.10 `AuditChain`, `Foreman`, `Job`

A hash in `AuditChain` is the value it was computed from, so two hashes are equal only if the chains
below them are. `BeginAppend` is BEGIN IMMEDIATE with the read of the tail, `CommitAppend` the row
and the seal, `VerifyRows` and `VerifyHead` the two transactions of `verify_audit`.

In `Job` three processes share the job's rows and its log: the `run_job` call, a worker of the
queue, and the calls the user makes once the run has returned. What a process has to say to the log
(`due`) is appended before it goes on. `Submit`, `Enqueue`, `Verify`, `Plan`, `Classify` and `View`
lead to the hires; `ReadJob`, `Skip`, `Escalate`, `Hire`, `CallDirect`, `Call`, `Serviced`, `GiveUp`
are the loop of `hire_for_job` with all its decisions; `Decide`, `RunRoom`, `Release`, `SignedOff`,
`Report` are the conductor. A request to TheHouse is one of `RequestLifecycle`, which may still be
delivered after the executor gave up on it, or be answered from the cache, which the Foreman does not
take for a delivery. `CallsInRoom` is what the hires call TheHouse for in the Room. `Fail` ends any
process between two of its steps or inside an append, whose transaction is rolled back: a row without
its entry stays behind, and the user's next call finds the row. `AuditChain!Rollback` is part of it.

### 2.11 How they compose

`AggregatorCrash` extends `Aggregator`; `Aggregator` implements `RequestLifecycle` without a TTL and
its `LateSpec` with one, in both cases across crashes, and `Job` uses `RequestLifecycle` for every
call it makes, with deliveries that may be late: the two systems meet in that module. `Gateway`
implements `Authorization`. `Pipeline` refines the atomic `Dispatch` of `Aggregator` in the other
direction: it opens the dispatch and takes intake and fire as atomic, so the two share the broker's
boundary and not its steps. `Job` extends `AuditChain` and `Foreman`; `Hiring` opens its hires into
the escrow and the row with the crashes in between, and `Room` its `RunRoom`. `Registry` is where
the mode changes of `Pipeline` (`Demote`, `Reclassify`) come from.

## 3. Runs

| Run | Result | What it shows |
|---|---|---|
| `aggregator` | passes | three identical requests, the sweeper, expiring locks: no request waits without a window, none is lost, the log and the settlements agree and nobody is settled twice, slots are owned by pending requests, and the broker implements `RequestLifecycle` |
| `aggregator_live` | passes | every queued request leaves the queue whether or not the TTL elapses |
| `crash` | passes | two crashes anywhere, also during the recovery: nothing logged is lost, nothing is in two places, a served request stays served, every stale request ends |
| `stranded_after_crash` | violated | the finding of section 5 |
| `pipeline` | passes | own answer or a notice, exactly once, nobody forgotten, overcharge only after a mode change, every batch ends |
| `semantic` | passes | whatever slots and vectors go stale, an answer is near to what was asked, the index holds no served request, nobody hangs |
| `gateway` | passes | an authorization buys one request; a claimed one is accounted for by one call, and kept for nothing only by a call that was killed, cancelled or broken off outside of any handler; the gate implements `Authorization` |
| `settlement` | passes | the rows never contradict the outside world, money is booked, and what has landed is recorded in the end |
| `registry` | passes | no stale row shares a tool with side effects; the registry and the listing follow the fees |
| `hiring` | passes | a retry after a return opens and pays nothing again; a sign-off leaves nobody behind |
| `room` | passes | resumes skip nothing, a chain of runs keeps within the cap and pays once per deliverable, every run ends |
| `job` | passes | the audit chain verifies and alarms only on an append, the log tells no escrow or release twice or wrongly and misses at most one per failure, graphs are acyclic, hires are safe, a direct answer is the whole job, the headline is the cost but for the amounts that `HeadlineAccount` names |

### Bounds

* *Aggregator*: `Requests` three, all of one fingerprint and interchangeable (symmetry), one sweeper,
  break-even size 2, queue cap 1. Three is the least number with which an owner, a merged request
  and a newcomer that finds the slot released coexist, and with which two fires of the window can
  run beside each other while a third task pushes. A cap of 1 makes the depth check both pass and
  refuse; that identical requests may overshoot it is in the model. The TTL is off there: the
  expiry sweep does rewrite the lifecycle (`FailedFinal.cfg` below), and would hide everything else.
* *Live and crash runs*: two requests with the TTL on. In the live run the second has priority, so
  that the size, priority and timer triggers all occur. `MaxCrashes` is 2: the second
  crash may come while the broker recovers from the first, between any two steps of `reconcile`, or
  over a queue that `reconcile` has refilled.
* *Pipeline*: `RequestCount` 3 callers numbered in order of intake, three queries, one of them `Risky`
  (`is_injection_risk`: it is never put in a compound prompt), caller 2 with priority, chunks of
  `MaxBatchSize` 2 so that three callers make two chunks, `MaxModeChanges` 1. One batch is processed
  at a time. Prices are in millionths of a dollar, with a call price (5000) below the flat priority
  discount (10000), so that the floor of the priority price is in use.
* *Semantic*: four requests: two identical ones, one near to both, one that only overlaps with the
  third. That is the least with which a chain of merges (exact into semantic) and a third slot
  exist. `MaxDepth` 2 lets the queue refuse a request whose vector is registered.
* *Gateway*: three payers and an operator. Two payers present the same authorization, the third's is
  worth less than the ceiling. `MaxFaults` 2 and `MaxCrashes` 1: submit raises and so does the release
  after it, or two calls fail over one authorization; its second use is possible after one of either.
* *Settlement*: one payment of each kind (deferred, a charge, a target), one dispatch, a poller of
  each kind, `MaxErrors` 1, `MaxCrashes` 1, no `Poison`. Two pollers of one kind overlap in the proof
  only, which is about any number of them.
* *Registry*: two targets, one with side effects, two fees, `MaxChanges` 2 (away and back), one failed
  read or push, `MaxNights` 2, `MaxTimer` 1.
* *Hiring*: three calls, two nodes, both symmetric: two calls that overlap and one that begins after,
  of either kind.
* *Room*: two calls, two nodes, one topic, `Budget` 2 with costs of 1 and mid-room hires of 2, so
  that each limit (money, room turns 3, agent turns 2) is met first on some path. `Overspent` (4) is
  where the history counters saturate; it lies above what `ChainWithinCap` compares the cost of a chain
  with.
* *Job*: one goal with five offers of the model (none, a good graph, one with a cycle, one with an
  unknown prerequisite, one with a duplicate key); four agents (good, fast and callable, with risky
  contracts, too expensive), three capabilities of which one has no offers, and two facts left by other
  jobs, one too uncertain and one too old to answer. `MaxFailures` 1: one process fails, of any, at any step, and the user's call that
  follows is the retry. `MaxRead` 2: `verify_audit` begins with two entries at most in the log (the
  proof is of any number). `MaxLag` 1: one entry between the two reads of `verify_audit` is what makes an
  alarm. The user makes one sign-off, or one distillation and one second hire, after the run; the
  Room hires once at most. `MaxKey` 3 bounds the keys of a graph: the offers' and the heuristic plan's,
  which has one node more than the goal has fragments.
  The user's calls come when the worker, too, is done or has failed (`Returned`), while the worker may
  lag behind the whole of the run. After the run (`Over`) only the requests of the user's own calls
  are followed on. Of the calls in the Room only those that TheHouse answers are followed, and a
  merged request is not told apart from a queued one.

Deadlock is checked in the runs of the broker, whose sweeper never stops. The jobs, callers, faults
and payments of the other modules are finite, so those runs may stop and turn the check off.

### Fairness

* *Aggregator*: weak fairness of every task that has started, because asyncio resumes every ready
  coroutine and the clients of redis, SQL and HTTP have timeouts; weak fairness of `TimerElapses`,
  because the age of an open window only grows. None on requests being made, on the TTL, the lock's
  expiry or the cache's expiry: `QueuedIsFired` has to hold without them.
* *AggregatorCrash*: the same while the process is up, `Reconcile` (the lifespan awaits it), and
  `LockExpires`, since the dead holder of a redis lock never deletes it.
* *Pipeline*: weak fairness of `Process`, the batch under way. Dispatches have a timeout.
* *Semantic*: weak fairness of `Sweep` alone: the sweeper's loop catches what a sweep raises. Nothing
  is assumed of intake, fire or delivery.
* *Settlement*: weak fairness of each poller's `Poll`; a loop of `start_poller` survives every
  exception of a pass.
* *Registry*: weak fairness of `Sync`, the loop of the price sync. The nightly job may stop anywhere,
  with rows in hand.
* *Room*: weak fairness of each call that has begun: agents and the router answer or raise. Nobody
  need start, kill or sign off a job.
* *Hiring*, *Gateway* and *Job* state no liveness: a call may die at any step, or its client may go away,
  and then nobody owes anything.

## 4. Properties that hold

* `NoStrandedRequest`: a non-empty queue has an open window, or a task about to open one. This is
  the race that `fire`'s second look at the queue is there for.
* `NoLostRequest`, `NoLostWork`: a request logged as queued is about to be pushed, queued, in a
  batch, or was dispatched in vain and waits for the TTL; after a crash and `reconcile` too.
* `OnePlace`, `DeliveredIsSettled`: no double dispatch, no double charge, and the two ledgers agree up
  to the task that is still writing them. After a crash only `OnePlace` is stated: a crash between the
  commit and the settlement leaves a delivered request without its row, and no code repairs it.
* `SlotOwnerPending`: a dedup slot names a request that is still to be delivered.
* `ServedIsFinalAcrossCrashes`: a delivered or cached row is never rewritten.
* `ImplementsLifecycle`: every step of the broker is a step of `RequestLifecycle` or a stutter.
* `QueuedIsFired`, `EventuallyTerminal`: see section 3.
* `NoForeignAnswer`, `NobodyForgotten`, `BatchEnds`: with partial replies, failed calls, chunks,
  isolation and fan-out, a caller gets an answer to its own query (or the whole reply or a notice),
  exactly one, and none of a batch is left out of both.
* `OverchargeNeedsModeChange`: a caller is charged above its ceiling only if the target's mode
  changed.
* `AnswersAreNear`, `NoServedVector`, `NobodyHangs`: two stores that are released apart may point a
  newcomer at a request that was refused or has expired, but never at one already served, never at an
  answer to something else, and never past the TTL.
* `SpentOnce`, `AuthorizationNotStuck`, `ImplementsPayment`: retries and replays with the same bytes are
  accepted twice only if a submit raised in between; a claimed authorization is accounted for by one
  call, which is under way, has an answer or a handle for it, or was killed, cancelled or broken off by
  a raise in the poll or in the release itself. That those do burn it is `BurnedByFailure.cfg` below.
* `RowAgreesWithChain`, `MoneyIsBooked`, `LandedIsRecorded`: stale polls, unconditional updates and
  repeated dispatches do not make the table contradict the rail; the exception of `pay_target` is
  written into the property.
* `SideEffectsAreNotShared`, `FeesConverge`, `ListingConverges`: lost updates of whole rows are repaired by
  the next pass of the sync where it matters. `ListingConverges` assumes that no push failed and no
  fee was written back, and the two configurations below show why.
* `RetryOpensNothing`, `RetryPaysNothing`, `SignOffLeavesNobody`: sequential retries are idempotent,
  whatever other calls overlap them.
* `SkippedIsHandled`, `ChainWithinCap`, `ChainPaysOnce`, `EventuallyReturns`: see `room` above.
* `ChainVerifies`, `AlarmNeedsAppend`: no interleaving of writers and rollbacks breaks the chain; a
  false alarm of `verify_audit` needs an append between its two reads.
* `LogTellsTheMoney`: on every path through a job - inline, queued or both, reused crew, memory, TheHouse
  in time or late, a failure anywhere, a second hire or sign-off by the user - no escrow of the Foreman
  and no release is told twice or of another node, and those that the log does not tell are one for each
  process that failed between the row and its entry, or is between them. That the log tells all of them
  is false (`UntoldRow.cfg` below).
* `SafeHire`, `PlanIsDag`, `DirectAnswersAll`: on all these paths nobody below the Vetter's bar is hired,
  the graph can be worked off, and a direct answer leaves nothing undone.
* `HeadlineAccount`: the headline of a run that returns is the cost, plus the price of a helper, which it
  counts twice, less the fees of the calls that TheHouse charged for and nobody reported: of nodes hired
  under escrow because the answer was late or came from the cache, and of the hires in the Room. Nothing
  else is left out or counted twice; that the headline covers the cost is false
  (`UnderstatedCost.cfg` below).

## 5. Findings

**A request whose push outlived a crash waits without a window** (`RecoveredIsDated`, run
`stranded_after_crash`). `thehouse/core/service.py:129-133` says that the startup reconciliation
re-opens the window clock, "so the very next sweep fires it instead of waiting for fresh traffic". It
does so only if `reconcile` itself pushed a row. A request pushed before the crash is found in the
queue, counts as not lost (`105-108`), and if the crash came before `SET window:open` it has no
window: it waits for fresh traffic or for the TTL.

### Further configurations

Each of these states a sentence of the code's documents, or the ideal a property above falls short
of, and TLC finds a counterexample. They are not part of the listed runs; they show where the
properties of section 4 are as strong as they can be.

| Configuration (module) | Property | Counterexample |
|---|---|---|
| `FailedFinal` (`MCAggregator`) | `FailedIsFinal` | a batch drained before the purge is delivered by an UPDATE that does not look at the status, so a failed request is delivered and charged (`thehouse/core/service.py:166`) |
| `LostMerge` (`MCAggregator`) | `NoLostMerge` | a merge recorded after the owner's fan-out is not answered (`thehouse/core/pipeline.py:327`) |
| `ForeignSegment` (`MCPipeline`) | `NoForeignAnswer` | a numbered list inside an answer is taken for another caller's segment (`thehouse/core/splitter/service.py:46`) |
| `GhostMerge` (`MCSemantic`) | `NoGhostMerge` | the vector of a refused request stays, and a near one merges into it (`thehouse/core/intake/service.py:187`) |
| `OrphanMerge` (`MCSemantic`) | `NoOrphanMerge` | a request merges into a slot owner that merges into another slot itself (`thehouse/core/deduplicator/service.py:7`) |
| `SilentDrift` (`MCGateway`) | `DriftSurfaces` | a charge without a settlement is in neither sum of the reconciliation (`thehouse/core/economics/service.py:212`) |
| `BurnedByFailure` (`MCGateway`) | `FailureBurnsNothing` | the poll raises, or the release after a refusal does: a 500, no answer, no handle, and the authorization stays claimed, although "any unexpected failure before service was rendered must not burn the authorization" (`thehouse/gateway/mcp_server.py:123`) |
| `SilentPayment` (`MCSettlement`) | `LostMoneyIsNeverSilent` | a payment of a target that raises after it was made leaves no row or alert (`thehouse/onchain/settlement_rail.py:10`) |
| `PoisonedPoll` (`MCSettlement`) | `EveryLandedIsRecorded` | a row whose status request always raises ends every pass before the rows after it (`thehouse/onchain/settlement.py:119`) |
| `EveryChangeIsPushed` (`MCRegistry`) | `EveryChangeIsPushed` | a push that failed is not tried again, since the registry holds the new fee already (`thehouse/onchain/sync.py:5`) |
| `DoubleHire` (`MCHiring`) | `OneEscrowPerNode` | two overlapping calls read no hire and both open an escrow (`core/foreman/hire.py:110`) |
| `RoomCap` (`MCRoom`) | `MidRoomWithinCap` | replacements are compared with the meter and never charged to it (`core/room/controller.py:132`, `285`) |
| `UntoldRow` (`MCJob`) | `LogIsTheTruth` | the run fails after a row and before its entry, the user's retry skips the row, and the log, "the single source of truth", never tells of it (`core/governance/audit.py:3`; `core/foreman/hire.py:242` and `256`, `296` and `297`) |
| `UnderstatedCost` (`MCJob`) | `HeadlineCoversCost` | a node is hired under escrow and its call charged all the same, or a hire calls TheHouse in the Room: the headline, which "must not understate real cost", has the escrow alone (`core/conductor.py:39`) |

## 6. Proofs

TLAPS checks the theorems below with no assumption but the named `ASSUME`s of each module. TLC evaluates
those assumptions in every run.

* **`AggregatorProofs`**. `TypeCorrect`: `TypeOK` is inductive. `NoStrandedRequestCorrect`:
  `NoStrandedRequest` with `TypeOK` is inductive, because the labels it names (`close`, `recheck`,
  `reopen`, `open`) are those between which `fire` and `submit` still owe a window; the step that
  matters is `Recheck`, which leaves only if the queue is empty. `SlotOwnerPendingCorrect` needs the TTL
  off, and rests on `SlotInv`, which holds under any: `SlotsTyped` (a slot's owner has the slot's
  fingerprint and is dedup-safe, so that `FpsOf` of a drained batch finds every slot its members own),
  `ClaimsAreSafe` (only dedup-safe requests come to claim a slot), and `OwnersHeld` (the owner of a slot
  is still awaited, or `Gone`: the sweep reported it failed and took it out of the queue behind its
  slot's back). Without a TTL nobody fails (`NoFailure`).

  The other results about the broker share one invariant, `BrokerInv`, built up part by part, each
  inductive relative to those before it. `PlaceInv` is `OnePlace`, with who still accepts being in
  flight nowhere and only a task that carries a batch having one (`OnePlaceCorrect`). `LogInv` says what
  a row tells of its request's place: `Logged`, `Merged` (who is in a merge set), `Answers` (which
  members of a batch a dispatch answered) and `Purged` (whom the sweep takes out of the queue it has
  failed before). `NoLostRequest` is inductive with the two (`NoLostRequestCorrect`). `FanInv` says that
  a merged caller is picked up by one task, the one about to clear the merge set it read, and
  `SettleInv` that who is settled, or served, is past intake and out of every queue and merge set for
  good (`Spent`), and what the settlement loop has still to visit (`Bills`). `DeliveredIsSettledCorrect`
  follows, and so does `ImplementsLifecycleCorrect`: every action of `Aggregator` maps to `Accept`,
  `Deliver`, `Settle` or a stutter of `RequestLifecycle`. It assumes `TTL = FALSE`, as the run does:
  with the TTL an expired request may still be delivered, which is the configuration `FailedFinal` of
  section 5. What holds under any TTL is `LatePromiseCorrect`: the same mapping implements
  `RequestLifecycle!LateSpec`, in which a batch may answer, and bill, a request that was reported
  failed, and nothing else changes. Two theorems say what the TTL does to the rest:
  `OwnerPendingOrFailedCorrect` (a slot that outlives its request names a failed one, from `SlotInv`)
  and `PurgedIsFinalCorrect`, the half of the comment at `thehouse/core/service.py:166` that is true: a
  failed request that is in no batch and was merged into nobody is never taken up again.

  `CrashInv` adds `BootInv` to `PlaceInv` and `LogInv`: while the process is down or rebuilding nobody
  works, and during the reconciliation every request logged as queued is in the queue or on the list it
  read. From it `NoLostWorkCorrect`, `OnePlaceAcrossCrashes` and `ServedIsFinalAcrossCrashesCorrect`,
  for any number of crashes. `CrashBills` carries `FanInv` and `SettleInv` over a crash, where a frame
  is lost in the middle of a settlement loop: what the reconciliation queues again has no settlement
  (`BilledOnceAcrossCrashes`), and the two refinements hold of `CrashSpec` too
  (`ImplementsLifecycleAcrossCrashes` without the TTL, `LatePromiseAcrossCrashes` with any).
* **`SemanticProofs`**. `MergerInv` is `Meaning` (whoever owns a slot, is about to be merged into, has
  been merged into or has answered, means the same as the request in question) and `Registered` (a
  registered vector's request is not merged and not dispatched, and if it waits in the queue it is there
  until its window drains it or the sweep has failed it). `AnswersAreNearCorrect` and
  `NoServedVectorCorrect` need no transitivity of `Near`: no chain of two merges hands an answer on.
  `OnceInv` adds where a waiting request is (`OncePlaced`) and what its row says (`RowsTell`), whence
  `AnsweredIsFinalCorrect`. `Twins` is the invariant behind `OrphansAreTwinsCorrect`, what is left of
  "merged requests wait for the owner's answer" in spite of the configuration `OrphanMerge`: an exact
  merge may be into a request that then merges away itself, but into an identical one only, and the
  request both wait for has not merged.
* **`PipelineProofs`**. `SettledWithinCeiling`: the settled price and the price of a cached answer never
  exceed the ceiling of the same mode, for every listing, mode, priority and batch size.
  `DemotionOvercharges`: with a positive coordination fee the price of the parallel route exceeds the
  ceiling of an aggregated one: the exception in `OverchargeNeedsModeChange` is real. Both rest on
  `PriorityPriceBounds` and on `PipelineAssumption` (the house price, with the solo discount, is at most
  the original price).

  `IInv` is the invariant of a batch on its way: `Callers`, `Waiting` and `Members` say which requests
  the queue, the merge sets and the batch may hold, `Sound` that every request of the batch is at one
  place (to be called directly, in the compound call, alone, or delivered), `Covered` that who is at
  none has had a call fail, and `Priced` that every charge is a price of the batch's mode.
  `NobodyForgottenCorrect` and `OverchargeNeedsModeChangeCorrect` follow, for any number of callers, any
  chunk size and any partial or failed calls. `NoForeignAnswerCorrect` adds `OwnAnswers`: every
  delivery, and every segment not to be retried, answers its own caller's query. It has the hypothesis
  `ToldApart`, without which it is false: no answer of the target is a bare numbered list, which the
  splitter takes for other callers' segments (configuration `ForeignSegment`), and two different queries
  differ in the argument the packer takes, since calls with equal ones share a slot. The pipeline run
  satisfies the hypothesis, that configuration does not.

  `BatchShortensCorrect` is the safety half of `BatchEnds`: `Work` counts what a batch has still to do
  (5 for a request of a compound call to come, 2 for one to be called alone, 1 for a retry, for an
  answer to be collected and for a delivery) and every step that `process` takes of a fired batch lowers
  it. It rests on `IInv`, which bounds the places of a frame by its requests (`BatchFits`), and on
  `MaxBatchSize > 0`.
* **`GatewayProofs`**. `Inv` adds to the types that a call answers when it is done and only then, that
  whoever was accepted is a holder or has raised (`AcceptedInside`), that a held authorization is
  claimed (`HeldIsClaimed`) and by one call (`OneHolder`), and that an operator's handle is no payer's
  (`NoPaidHandle`). A holder has not ended, has an answer or a handle, or ended in a failure that nobody
  handles. `SpentOnceCorrect` and `AuthorizationNotStuckCorrect` follow, for any number of failures in
  submit, release and poll. `ImplementsPaymentCorrect` is the refinement: under `AuthState` the initial
  states map to `Authorization!Init`, `ClaimKey` to `Hold`, `ReleaseKey` to `Free`, `Submitted`,
  `ReleaseRaises` and `Cancel` to `Spend` (or, past `Submitted`, to a stutter), `Crash` to `Abandon` and
  every other step to a stutter; `OneHolder` is what makes `Free` sound, since the key that is deleted
  may not be another call's.
* **`BackOfficeProofs`**. Of `Settlement`: the invariant adds `AnswersAreFinal` (an answer in a poller's
  hands is what became of the payment, for good: a late, unconditional update writes nothing wrong),
  `BooksFollow` (which rows exist at which state of the payment) and `ReplaysAreBooked` (a dispatch has
  booked one payment more than it was charged for while a replay is under way).
  `RowAgreesWithChainCorrect` and `MoneyIsBookedCorrect` follow for any payments, pollers, errors and
  crashes. Of `Registry`: `SideEffectsAreNotSharedCorrect`, because the property of the registry holds
  of every copy of a row that a writer still has in hand (`Unshared(pass)`, `Unshared(rows)`), so that
  writing a stale one back cannot break it; and `ListingFollowsRegistryCorrect`, the safety half of
  `ListingConverges`: prices derive from fees in every row and copy, and the published listing agrees
  with the registry unless a push is due, has failed, or the nightly job wrote an old fee back.
* **`HiringProofs`**. The three safety properties from one invariant `Inv` of eleven parts: what a fresh
  call has not done (`IdleIsFresh`), that `before` holds calls that have returned, that escrows and rows
  match except for the one a call is working on (`OpenedIsRecorded`, `RowsAreOpened`, `RecordsOwn`),
  that a call visits a node once and knows whoever an earlier call hired (`VisitsOnce`, `KnowsHired`),
  and the accounting of a sign-off (`PaysRows`, `PaidIsMarked`, `MarkedIsPaid`, `PaysTheRest`). It is
  needed because each property speaks of two calls and no single row does: `KnowsHired` carries what
  `before` means from the row to the later call.
* **`RoomProofs`**. `RoomTypeCorrect`, and `SkippedIsHandledCorrect` from `IInv`: the checkpoint's nodes
  are handled, a completed job has had all nodes handled, and `Progress(run[c], handled)` of each call:
  what it takes as done is handled, and at the labels past a node's end so is the node in hand.
  `ChainInv` adds the money: `Meters` (a run's meter, and the checkpoint's, passed the ceiling by the
  last deliverable at most, and a run in the middle of a node has not passed it) and `Books` (of a clean
  chain, one run is under way at a time, and its meter and its finished nodes account for all that was
  charged and paid; between two runs the checkpoint does). A node paid for and in no checkpoint is one
  whose price broke the ceiling, so that no resume gets to charge it again: this is what
  `ChainPaysOnceCorrect` needs, and `ChainWithinCapCorrect` is the bound of the meter. `RunInv` adds
  `InRun`, which ties a run's node, and what it has in escrow mid-room, to its label.
  `RunsShortenCorrect` is the safety half of `EventuallyReturns`: `Distance` bounds the steps a run has
  before it, and no step of any call, of the user or of the kill endpoint raises it, so that a run is
  over after `2 * RoomTurnLimit + 2 * NodeCount + 5` of its own steps. `MidRoomBoundedCorrect` is what
  holds in place of `MidRoomWithinCap` (configuration `RoomCap`): the escrows opened mid-room are within
  the ceiling and one replacement a turn.
* **`JobProofs`**. `ChainVerifiesForAnyWriter` is about `ChainSpec`, any writers with anything to say:
  the log agrees with its seal. `ChainInv` adds that one writer at most holds the lock and that what the
  reader has read is the beginning of the log. Every step of `Job` is a step of such writers or leaves
  the chain alone, whence `ChainVerifiesCorrect` and `AlarmNeedsAppendCorrect`. `OnlyTheLogVerifies` is
  the other direction, what the sealed head is for: of all tables of rows, the seal accepts the log
  alone (`OnlyTheLogVerifiesForAnyWriter`, and of `Job` `OnlyTheLogVerifiesCorrect`), since equal hashes
  have equal chains below them. `SafeHireCorrect` from `HiresInv` and `ProcInv`: every row is of an
  agent that passed the Vetter, and a process waits for TheHouse only over an agent that was approved,
  which is what makes the fall-back of a late answer safe. `LogTellsTheMoneyCorrect` from `MoneyInv`:
  what the log holds, what the processes are about to append and what those that failed took with them
  make up, kind by kind and node by node, the rows there are (`Tally`); who is inside a transaction has
  something to append. It is a proof about cardinalities: every step adds one element to two of the
  sets, moves one between two, or touches none; a failure moves none, since what was due stays due and
  is never appended (`FailMoney`). `PlanIsDagCorrect`: the layers of Kahn's algorithm exist for a plan
  of any length (`LayersExist`), and a node that a set of nodes waits for is in a layer before them
  (`ReachedIsRooted`), so that a plan all of whose nodes are reached has no part that waits for itself;
  the heuristic plan is shown to be such a plan directly. The induction on the layers is an argument
  over the least counterexample (`LeastElement`), since the library's induction theorems cannot be
  instantiated. `DirectAnswersAllCorrect` from `OnceInv`: as long as the job was classified once at
  most, the saved graph is the one that was classified, and the run goes through that graph
  (`FirstPass`), deciding no node twice (`InLoop`). It rests on `MoneyInv`, for the count of
  classifications in the log. `HeadlineAccountCorrect` from `HeadInv`, which holds the run's own
  decisions against the rows and the calls, by which the cost is counted: the rows are the run's hires
  and the Room's, and there is none before the run hires (`RowsMatch`); a call that TheHouse charged for
  was answered in time, or its node was hired all the same, or it is waited for (`CallsMatch`); and the
  sums over the two are equal (`SumsMatch`). The cost is never summed by a step, so that no invariant of
  the headline alone would do: when the run returns, the calls charged for are those it reported and
  those paid twice (`CallsAre`), and `EndAccounts` turns the three into the equation. `OnceInv` gives
  that no node is decided twice, `MoneyInv` that a row is released and never taken back. The sums are
  recursive functions; that they grow by what is added (`AddsUpTo`, `SumGrows`) is again an argument
  over the least counterexample. `PlansAssumption`, which the last three need, says that a plan is a
  sequence of nodes with keys up to `MaxKey` and that the plan of the heuristic has no more nodes than
  that.

Only model-checked: all liveness (`QueuedIsFired`, `EventuallyTerminal`, `BatchEnds`, `NobodyHangs`,
`LandedIsRecorded`, `FeesConverge`, `ListingConverges`, `EventuallyReturns`), which is out of the
prover's reach together with ENABLED. `BatchShortens`, `RunsShorten` and `ListingFollowsRegistry` are
the safety halves of three of them: with the fairness of section 3, under which a step is taken as long
as one is left, a batch and a run end because their measures do. Every other property of a passing run
is a theorem, with `TTL = FALSE` for `SlotOwnerPending` and `ImplementsLifecycle` and `ToldApart` for
`NoForeignAnswer`. The type invariants of `Aggregator`, `Gateway`, `Settlement`, `Registry`, `Hiring`,
`Room`, `Semantic` and `Pipeline` are proved and in no run.

## 7. Limits of the models

* One target ASP in `Aggregator`, `Semantic` and `Pipeline`; the state of two targets is disjoint in the
  code, except the database.
* `Aggregator` has no answers or prices, `Pipeline` no races inside intake, fire or delivery, no
  cache expiry and no cost ledger.
* In `AggregatorCrash` a request pushed by a call that died before opening its window is in the
  queue without one (section 5). This is why `NoStrandedRequest` is not a property of that run.
* The death of a room loses its meter; `ChainWithinCap` and `ChainPaysOnce` exclude such chains.
* `Job` has one job and one worker. The death between an external escrow and its row is in `Hiring`; a
  process of `Job` may fail between any two of its steps, also between a row and its audit entry. The
  entries that only narrate are left out.
* In `Gateway` a batch that fails inside `sweep_once` breaks off the poll; what becomes of the batch
  itself is the matter of `Aggregator` and `AggregatorCrash`.
* Similarity is a relation in `Semantic`, which need not be transitive, and equality of capability in
  `Foreman`'s memory.
* Also seen while modelling, and stated by no document: a failure notice is cached and served to
  repeats; the packer compares one argument and ignores the others; an exception out of the packer
  loses the batch until the TTL; after a replacement took over a node, its failures and deliveries
  are credited to the agent it replaced (`core/room/controller.py:315`); the new profile of a night
  takes back the window extension of that night (`thehouse/core/economics/service.py:7`); a price above
  the ceiling after a demotion is what `thehouse/core/pricing.py:7` rules out (`DemotionOvercharges`).

## 8. Not modelled

* Storage schemas and connections: each command or transaction is an atomic step of the models.
* HTTP routing, pages and views, the CLI and the MCP server route and format; what their handlers
  call is modelled. The rate limiter of `api/security.py` is a counter that no other state depends on.
* The contents of the router's cache, the exchange, the weekly report and margins, predictions,
  playbooks and redaction: floating-point or text whose outcome enters the models as a choice.
* The reputation graph: the order of hireable agents is an arbitrary choice in `Foreman`.
* The command-line adapters of the chain are external: `Hiring` models the escrow interface they
  serve, `Settlement` the rail, `Registry` the listing.
* Configuration, model client, observability and scripts.

## 9. Plan

1. The safety half of the other liveness properties: that a task of the broker, a pass of a poller and
   a pass of the price sync each end after a bounded number of steps.
2. The configurations of section 5 for which no theorem yet says what holds in spite of them:
   `LostMerge`, `GhostMerge`, `SilentDrift`, `DoubleHire`. `FailedFinal`, `OrphanMerge` and `RoomCap` have
   one (`LatePromiseCorrect` and `PurgedIsFinalCorrect`, `OrphansAreTwinsCorrect`, `MidRoomBoundedCorrect`),
   and so do `ForeignSegment` (`NoForeignAnswerCorrect`), `SilentPayment` (`MoneyIsBookedCorrect`),
   `EveryChangeIsPushed` (`ListingFollowsRegistryCorrect`), `BurnedByFailure`
   (`AuthorizationNotStuckCorrect`), `UntoldRow` (`LogTellsTheMoneyCorrect`) and `UnderstatedCost`
   (`HeadlineAccountCorrect`).
3. The router's cache (freshness and shadowing) and the edge's rate limiter.
