-------------------------- MODULE AggregatorCrash ---------------------------
(***************************************************************************)
(* The broker of module Aggregator with crashes of its process and the     *)
(* startup reconciliation (AggregatorService.reconcile, run by the API's   *)
(* lifespan before the sweeper and the endpoints).  Redis and the database *)
(* survive a crash; every task and its frame are gone.                     *)
(***************************************************************************)
EXTENDS Aggregator

CONSTANT MaxCrashes  \* bound on the number of crashes

ASSUME CrashAssumption == MaxCrashes \in Nat

VARIABLES
  boot,      \* "up", or where the startup of the process is
  crashes,   \* number of crashes so far
  missing,   \* queued rows reconcile found absent from the redis queue
  requeued   \* reconcile pushed at least one of them

crashVars == <<boot, crashes, missing, requeued>>
allVars == <<vars, crashVars>>

CrashTypeOK ==
  /\ TypeOK
  /\ boot \in {"up", "down", "requeue"}
  /\ crashes \in 0..MaxCrashes
  /\ missing \subseteq Requests
  /\ requeued \in BOOLEAN

CrashInit ==
  /\ Init
  /\ boot = "up" /\ crashes = 0 /\ missing = {} /\ requeued = FALSE

\* The process dies, possibly while it is starting: its tasks never resume
\* (a request already under way is done for, the sweeper will start afresh).
Crash ==
  /\ crashes < MaxCrashes
  /\ crashes' = crashes + 1
  /\ boot' = "down"
  /\ missing' = {} /\ requeued' = FALSE
  /\ pc' = [t \in Tasks |-> IF t \in Sweepers THEN "idle"
                            ELSE IF pc[t] \in {"start", "refused"} THEN pc[t]
                            ELSE "done"]
  /\ batch' = [t \in Tasks |-> <<>>]
  /\ answered' = [t \in Tasks |-> {}]
  /\ fanned' = [t \in Tasks |-> {}]
  /\ todo' = [t \in Tasks |-> {}]
  /\ cur' = [t \in Tasks |-> None]
  /\ UNCHANGED <<redis, sql, mergedInto, stale, unanswered>>

\* Mutation of ReconcileRead: the rows are not compared with the queue.
ReconcileReadAll ==
  /\ boot = "down" /\ boot' = "requeue"
  /\ missing' = {r \in Requests : log[r] = "queued"}
  /\ UNCHANGED <<vars, crashes, requeued>>

\* Mutation of ReconcileRead: the membership test is inverted.
ReconcileReadPresent ==
  /\ boot = "down" /\ boot' = "requeue"
  /\ missing' = {r \in Requests : log[r] = "queued"} \cap ToSet(queue)
  /\ UNCHANGED <<vars, crashes, requeued>>

\* peek_all, then the rows logged as queued that it did not see.
ReconcileRead ==
  /\ boot = "down" /\ boot' = "requeue"
  /\ missing' = {r \in Requests : log[r] = "queued"} \ ToSet(queue)
  /\ UNCHANGED <<vars, crashes, requeued>>

ReconcilePush ==
  /\ boot = "requeue"
  /\ \E r \in missing :
       /\ queue' = Append(queue, r)
       /\ missing' = missing \ {r}
       /\ unanswered' = unanswered \ {r}
  /\ requeued' = TRUE
  /\ UNCHANGED <<window, lock, pending, mergeSet, cache, sql, pc, frame, stale,
                 boot, crashes>>

\* The window is dated by the oldest recovered request: it may be due already.
ReconcileOpen ==
  /\ boot = "requeue" /\ missing = {}
  /\ boot' = "up"
  /\ IF requeued /\ window = "closed"
     THEN window' \in {"open", "due"}
     ELSE UNCHANGED window
  /\ UNCHANGED <<queue, lock, pending, mergeSet, cache, sql, pc, frame, stale,
                 unanswered, crashes, missing, requeued>>

Reconcile == ReconcileRead \/ ReconcilePush \/ ReconcileOpen

CrashNext ==
  \/ boot = "up" /\ Next /\ UNCHANGED crashVars
  \/ boot # "up" /\ Time /\ UNCHANGED crashVars
  \/ Crash
  \/ Reconcile

CrashSpec == CrashInit /\ [][CrashNext]_allVars

\* Fairness of Aggregator, of the startup, and of the lock's expiry: its holder
\* may be dead.
CrashFairness ==
  /\ \A r \in Requests : WF_allVars(boot = "up" /\ ~At(r, "start") /\ Intake(r)
                                     /\ UNCHANGED crashVars)
  /\ \A t \in Tasks : WF_allVars(boot = "up" /\ (Fire(t) \/ Process(t))
                                  /\ UNCHANGED crashVars)
  /\ \A s \in Sweepers : WF_allVars(boot = "up" /\ Sweep(s) /\ UNCHANGED crashVars)
  /\ WF_allVars(TimerElapses /\ UNCHANGED crashVars)
  /\ WF_allVars(LockExpires /\ UNCHANGED crashVars)
  /\ WF_allVars(Reconcile)

CrashLiveSpec == CrashSpec /\ CrashFairness

-----------------------------------------------------------------------------
\* Whenever the process is up, a request logged as queued is being worked on,
\* waits in the queue, or was dispatched without an answer: what a crash took
\* out of memory, reconcile has put back.
NoLostWork == boot = "up" => NoLostRequest

\* A served request stays served across crashes: a delivered request is not taken
\* up again by the reconciliation, nor reported failed by the sweep after it.
ServedIsFinalAcrossCrashes ==
  [][\A r \in Requests : log[r] \in {"delivered", "cached"} => log'[r] = log[r]]_allVars

\* Once the process is up, a request in the queue has a window to be fired from or a
\* task about to open one (core/service.py:130 "re-open the window clock too ... so the
\* very next sweep fires it instead of waiting for fresh traffic").  A request whose
\* push outlived a crash and whose window did not is in the queue, so reconcile does
\* not count it.
RecoveredIsDated == boot = "up" => NoStrandedRequest
=============================================================================
