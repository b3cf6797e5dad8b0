-------------------------- MODULE AggregatorProofs --------------------------
(***************************************************************************)
(* Theorems about TheHouse, for every set of requests, sweepers and        *)
(* fingerprints, every priority and dedup class, threshold and cap: module *)
(* Aggregator, that it implements RequestLifecycle, what survives the      *)
(* crashes of AggregatorCrash, and, under names of their own, the variables *)
(* of module Semantic.                                                     *)
(***************************************************************************)
EXTENDS AggregatorCrash, SequenceTheorems, TLAPS

\* A task is a request's or a sweeper's, never both, and None is no request.
USE AggregatorAssumption DEF Tasks

-----------------------------------------------------------------------------
(* Sequences.                                                              *)

\* What a sequence holds comes from the set it ranges over (queue, batch).
LEMMA ToSetType ==
  ASSUME NEW S, NEW s \in Seq(S)
  PROVE  ToSet(s) \subseteq S
BY DEF ToSet

\* RPUSH (queue.py) adds the one entry.
LEMMA AppendToSet ==
  ASSUME NEW S, NEW s \in Seq(S), NEW e \in S
  PROVE  ToSet(Append(s, e)) = ToSet(s) \cup {e}
<1>1. /\ DOMAIN Append(s, e) = 1..(Len(s) + 1)
      /\ DOMAIN s = 1..Len(s) /\ Len(s) \in Nat
      /\ \A i \in 1..Len(s) : Append(s, e)[i] = s[i]
      /\ Append(s, e)[Len(s) + 1] = e
  OBVIOUS
<1> QED
  BY <1>1 DEF ToSet

\* LREM (queue.py) leaves the other entries in their order: nothing is added,
\* and what stays is at the same place or one place ahead.
LEMMA RemoveAtType ==
  ASSUME NEW S, NEW s \in Seq(S), NEW k \in DOMAIN s
  PROVE  /\ RemoveAt(s, k) \in Seq(S)
         /\ Len(RemoveAt(s, k)) = Len(s) - 1
         /\ \A i \in 1..(Len(s) - 1) :
              RemoveAt(s, k)[i] = IF i < k THEN s[i] ELSE s[i + 1]
<1> DEFINE a == SubSeq(s, 1, k - 1)
           b == SubSeq(s, k + 1, Len(s))
<1>1. k \in 1..Len(s) /\ Len(s) \in Nat
  OBVIOUS
<1>2. /\ a \in Seq(S) /\ Len(a) = k - 1
      /\ \A i \in 1..(k - 1) : a[i] = s[i]
  BY <1>1
<1>3. /\ b \in Seq(S) /\ Len(b) = Len(s) - k
      /\ \A i \in 1..(Len(s) - k) : b[i] = s[i + k]
  BY <1>1
<1>4. RemoveAt(s, k) = a \o b
  BY DEF RemoveAt
<1> HIDE DEF a, b
<1>5. /\ a \o b \in Seq(S)
      /\ Len(a \o b) = Len(a) + Len(b)
      /\ \A i \in 1..Len(a) + Len(b) :
           (a \o b)[i] = IF i <= Len(a) THEN a[i] ELSE b[i - Len(a)]
  <2>1. a \in Seq(S) /\ b \in Seq(S)
    BY <1>2, <1>3
  <2> QED
    BY <2>1, ConcatProperties
<1>6. Len(a) + Len(b) = Len(s) - 1
  BY <1>1, <1>2, <1>3
<1>7. ASSUME NEW i \in 1..(Len(s) - 1)
      PROVE  (a \o b)[i] = IF i < k THEN s[i] ELSE s[i + 1]
  <2>1. CASE i < k
    <3>1. i \in 1..(k - 1) /\ i <= Len(a)
      BY <1>1, <1>2, <2>1
    <3> QED
      BY <1>2, <1>5, <1>6, <2>1, <3>1
  <2>2. CASE ~ (i < k)
    <3>1. /\ i - Len(a) \in 1..(Len(s) - k) /\ ~ (i <= Len(a))
          /\ (i - Len(a)) + k = i + 1
      BY <1>1, <1>2, <2>2
    <3> QED
      BY <1>3, <1>5, <1>6, <2>2, <3>1
  <2> QED
    BY <2>1, <2>2
<1> QED
  BY <1>4, <1>5, <1>6, <1>7
-----------------------------------------------------------------------------
(* Type correctness.                                                       *)

LEMMA InitType == Init => TypeOK
<1> SUFFICES ASSUME Init PROVE TypeOK
  OBVIOUS
<1>1. pc \in [Tasks -> IntakePc \cup FirePc \cup BatchPc \cup SweepPc]
  BY DEF Init, IntakePc, SweepPc, Accepting
<1>2. queue \in Seq(Requests) /\ batch \in [Tasks -> Seq(Requests)]
  BY DEF Init
<1> QED
  BY <1>1, <1>2 DEF Init, TypeOK, Status

\* Every action keeps every variable in its type.
LEMMA NextType == TypeOK /\ [Next]_vars => TypeOK'
<1> SUFFICES ASSUME TypeOK, [Next]_vars
             PROVE  TypeOK'
  OBVIOUS
<1> USE DEF TypeOK, At, Goto, redis, sql, frame, Status,
            Accepting, IntakePc, FirePc, BatchPc, SweepPc
<1>1. ASSUME NEW r \in Requests, Intake(r)
      PROVE  TypeOK'
  <2>1. CASE ServeCached(r)
    BY <2>1 DEF ServeCached
  <2>2. CASE CacheMiss(r)
    BY <2>2 DEF CacheMiss
  <2>3. CASE ClaimSlot(r)
    <3>1. /\ pending' \in [Fps -> Requests \cup {None}]
          /\ UNCHANGED <<queue, window, lock, mergeSet, cache, log, settled, mergedInto,
                         batch, answered, fanned, todo, cur, stale, unanswered>>
      BY <2>3 DEF ClaimSlot
    <3>2. pc' = [pc EXCEPT ![r] = "depth"] \/ pc' = [pc EXCEPT ![r] = "whose"]
      BY <2>3 DEF ClaimSlot
    <3> QED
      BY <3>1, <3>2
  <2>4. CASE ReadOwner(r)
    BY <2>4 DEF ReadOwner
  <2>5. CASE RecordMerge(r)
    <3>1. mergeSet' \in [Requests -> SUBSET Requests]
      BY <2>5, ZenonT(40) DEF RecordMerge
    <3>2. /\ pc' = [pc EXCEPT ![r] = "logMerged"]
          /\ UNCHANGED <<queue, window, lock, pending, cache, sql, frame, stale, unanswered>>
      BY <2>5 DEF RecordMerge
    <3> QED
      BY <3>1, <3>2
  <2>6. CASE LogMerged(r)
    BY <2>6 DEF LogMerged
  <2>7. CASE CheckDepth(r)
    BY <2>7 DEF CheckDepth
  <2>8. CASE ReleaseRefused(r)
    BY <2>8 DEF ReleaseRefused
  <2>9. CASE LogQueued(r)
    BY <2>9 DEF LogQueued
  <2>10. CASE Push(r)
    BY <2>10 DEF Push
  <2>11. CASE OpenWindow(r)
    BY <2>11 DEF OpenWindow
  <2>12. CASE CheckSize(r)
    BY <2>12 DEF CheckSize
  <2> QED
    BY <1>1, <2>1, <2>2, <2>3, <2>4, <2>5, <2>6, <2>7, <2>8, <2>9, <2>10, <2>11, <2>12 DEF Intake
<1>2. ASSUME NEW t \in Tasks, Fire(t)
      PROVE  TypeOK'
  <2>1. CASE FireLock(t)
    BY <2>1 DEF FireLock, Finish
  <2>2. CASE Drain(t)
    BY <2>2 DEF Drain
  <2>3. CASE Close(t)
    BY <2>3 DEF Close
  <2>4. CASE Recheck(t)
    BY <2>4 DEF Recheck, AfterReopen
  <2>5. CASE Reopen(t)
    BY <2>5 DEF Reopen, AfterReopen
  <2>6. CASE Release(t)
    BY <2>6 DEF Release
  <2>7. CASE Unlock(t)
    BY <2>7 DEF Unlock, Finish
  <2> QED
    BY <1>2, <2>1, <2>2, <2>3, <2>4, <2>5, <2>6, <2>7 DEF Fire
<1>3. ASSUME NEW t \in Tasks, Process(t)
      PROVE  TypeOK'
  <2>1. CASE Dispatch(t)
    BY <2>1, ToSetType DEF Dispatch
  <2>2. CASE FanOut(t)
    BY <2>2 DEF FanOut
  <2>3. CASE ClearMergeSet(t)
    BY <2>3 DEF ClearMergeSet
  <2>4. CASE CommitDeliveries(t)
    BY <2>4 DEF CommitDeliveries
  <2>5. CASE ResolveCallers(t)
    BY <2>5 DEF ResolveCallers
  <2>6. CASE RecordSettlement(t)
    BY <2>6 DEF RecordSettlement
  <2>7. CASE FinishBatch(t)
    BY <2>7 DEF FinishBatch, Finish
  <2> QED
    BY <1>3, <2>1, <2>2, <2>3, <2>4, <2>5, <2>6, <2>7 DEF Process
<1>4. ASSUME NEW s \in Sweepers, Sweep(s)
      PROVE  TypeOK'
  <2>1. CASE CheckTimer(s)
    BY <2>1 DEF CheckTimer
  <2>2. CASE ExpireRows(s)
    <3>1. CASE TTL /\ Expirable # {}
      <4>1. todo' = [todo EXCEPT ![s] = stale] /\ pc' = [pc EXCEPT ![s] = "peek"]
        BY <2>2, <3>1 DEF ExpireRows
      <4>2. log' = [q \in Requests |-> IF q \in Expirable THEN "failed" ELSE log[q]]
        BY <2>2, <3>1 DEF ExpireRows
      <4> QED
        BY <2>2, <4>1, <4>2 DEF ExpireRows
    <3>2. CASE ~ (TTL /\ Expirable # {})
      BY <2>2, <3>2 DEF ExpireRows
    <3> QED
      BY <3>1, <3>2
  <2>3. CASE PeekStale(s)
    BY <2>3 DEF PeekStale
  <2>4. CASE PurgeEntry(s)
    <3>1. queue' \in Seq(Requests)
      <4>1. CASE UNCHANGED queue
        BY <4>1
      <4>2. CASE \E i \in DOMAIN queue : queue' = RemoveAt(queue, i)
        BY <4>2, RemoveAtType
      <4> QED
        BY <2>4, <4>1, <4>2 DEF PurgeEntry
    <3>2. todo' \in [Tasks -> SUBSET Requests]
      BY <2>4 DEF PurgeEntry
    <3> QED
      BY <2>4, <3>1, <3>2 DEF PurgeEntry
  <2>5. CASE PurgeDone(s)
    BY <2>5 DEF PurgeDone
  <2> QED
    BY <1>4, <2>1, <2>2, <2>3, <2>4, <2>5 DEF Sweep
<1>5. CASE Time
  BY <1>5 DEF Time, TimerElapses, LockExpires, GoesStale, CacheExpires
<1>6. CASE UNCHANGED vars
  BY <1>6 DEF vars
<1> QED
  BY <1>1, <1>2, <1>3, <1>4, <1>5, <1>6 DEF Next

\* Every reachable state of the broker has the types of module Aggregator: in
\* particular every queue entry and slot owner is a request.
THEOREM TypeCorrect == Spec => []TypeOK
BY InitType, NextType, PTL DEF Spec
-----------------------------------------------------------------------------
(* No stranded request.                                                    *)

Watched == {"close", "recheck", "reopen", "open"}

\* A step of a task that is not about to open the window, and that neither
\* closes it nor adds to the queue, strands nothing.
LEMMA StrandedFrame ==
  ASSUME TypeOK, NoStrandedRequest, NEW t \in Tasks, NEW m, Goto(t, m),
         pc[t] \notin Watched,
         window' = window, queue' # <<>> => queue # <<>>
  PROVE  NoStrandedRequest'
BY DEF TypeOK, NoStrandedRequest, Goto, At, Watched

LEMMA StrandedStep == TypeOK /\ NoStrandedRequest /\ [Next]_vars => NoStrandedRequest'
<1> SUFFICES ASSUME TypeOK, NoStrandedRequest, [Next]_vars
             PROVE  NoStrandedRequest'
  OBVIOUS
<1> USE DEF At, redis
<1>1. ASSUME NEW r \in Requests, Intake(r)
      PROVE  NoStrandedRequest'
  <2>1. CASE ServeCached(r)
    BY <2>1, StrandedFrame DEF ServeCached, Watched
  <2>2. CASE CacheMiss(r)
    BY <2>2, StrandedFrame DEF CacheMiss, Watched
  <2>3. CASE ClaimSlot(r)
    <3>1. (Goto(r, "depth") \/ Goto(r, "whose")) /\ UNCHANGED <<queue, window>>
      BY <2>3 DEF ClaimSlot
    <3>2. pc[r] \notin Watched
      BY <2>3 DEF ClaimSlot, Watched
    <3> QED
      BY <3>1, <3>2, StrandedFrame
  <2>4. CASE ReadOwner(r)
    BY <2>4, StrandedFrame DEF ReadOwner, Watched
  <2>5. CASE RecordMerge(r)
    BY <2>5, StrandedFrame DEF RecordMerge, Watched
  <2>6. CASE LogMerged(r)
    BY <2>6, StrandedFrame DEF LogMerged, Watched
  <2>7. CASE CheckDepth(r)
    BY <2>7, StrandedFrame DEF CheckDepth, Watched
  <2>8. CASE ReleaseRefused(r)
    BY <2>8, StrandedFrame DEF ReleaseRefused, Watched
  <2>9. CASE LogQueued(r)
    BY <2>9, StrandedFrame DEF LogQueued, Watched
  <2>10. CASE Push(r)
    BY <2>10 DEF Push, NoStrandedRequest, Goto, TypeOK
  <2>11. CASE OpenWindow(r)
    BY <2>11 DEF OpenWindow, NoStrandedRequest
  <2>12. CASE CheckSize(r)
    BY <2>12, StrandedFrame DEF CheckSize, Watched
  <2> QED
    BY <1>1, <2>1, <2>2, <2>3, <2>4, <2>5, <2>6, <2>7, <2>8, <2>9, <2>10, <2>11, <2>12 DEF Intake
<1>2. ASSUME NEW t \in Tasks, Fire(t)
      PROVE  NoStrandedRequest'
  <2>1. CASE FireLock(t)
    BY <2>1, StrandedFrame DEF FireLock, Watched
  <2>2. CASE Drain(t)
    BY <2>2 DEF Drain, NoStrandedRequest
  <2>3. CASE Close(t)
    BY <2>3 DEF Close, NoStrandedRequest, Goto, TypeOK
  <2>4. CASE Recheck(t)
    <3>1. CASE queue # <<>>
      BY <2>4, <3>1 DEF Recheck, NoStrandedRequest, Goto, TypeOK
    <3>2. CASE queue = <<>>
      BY <2>4, <3>2 DEF Recheck, NoStrandedRequest
    <3> QED
      BY <3>1, <3>2
  <2>5. CASE Reopen(t)
    BY <2>5 DEF Reopen, NoStrandedRequest
  <2>6. CASE Release(t)
    BY <2>6, StrandedFrame DEF Release, Watched
  <2>7. CASE Unlock(t)
    BY <2>7, StrandedFrame DEF Unlock, Watched
  <2> QED
    BY <1>2, <2>1, <2>2, <2>3, <2>4, <2>5, <2>6, <2>7 DEF Fire
<1>3. ASSUME NEW t \in Tasks, Process(t)
      PROVE  NoStrandedRequest'
  <2>1. CASE Dispatch(t)
    BY <2>1, StrandedFrame DEF Dispatch, Watched
  <2>2. CASE FanOut(t)
    BY <2>2, StrandedFrame DEF FanOut, Watched
  <2>3. CASE ClearMergeSet(t)
    BY <2>3, StrandedFrame DEF ClearMergeSet, Watched
  <2>4. CASE CommitDeliveries(t)
    BY <2>4, StrandedFrame DEF CommitDeliveries, Watched
  <2>5. CASE ResolveCallers(t)
    BY <2>5, StrandedFrame DEF ResolveCallers, Watched
  <2>6. CASE RecordSettlement(t)
    BY <2>6 DEF RecordSettlement, NoStrandedRequest
  <2>7. CASE FinishBatch(t)
    BY <2>7, StrandedFrame DEF FinishBatch, Watched
  <2> QED
    BY <1>3, <2>1, <2>2, <2>3, <2>4, <2>5, <2>6, <2>7 DEF Process
<1>4. ASSUME NEW s \in Sweepers, Sweep(s)
      PROVE  NoStrandedRequest'
  <2>1. CASE CheckTimer(s)
    BY <2>1, StrandedFrame DEF CheckTimer, Watched
  <2>2. CASE ExpireRows(s)
    <3>1. (Goto(s, "peek") \/ Goto(s, "idle")) /\ UNCHANGED <<queue, window>>
      BY <2>2 DEF ExpireRows
    <3>2. pc[s] \notin Watched
      BY <2>2 DEF ExpireRows, Watched
    <3> QED
      BY <3>1, <3>2, StrandedFrame
  <2>3. CASE PeekStale(s)
    BY <2>3, StrandedFrame DEF PeekStale, Watched
  <2>4. CASE PurgeEntry(s)
    <3>1. UNCHANGED <<window, pc>>
      BY <2>4 DEF PurgeEntry
    <3>2. queue' # <<>> => queue # <<>>
      BY <2>4 DEF PurgeEntry
    <3> QED
      BY <3>1, <3>2 DEF NoStrandedRequest
  <2>5. CASE PurgeDone(s)
    BY <2>5, StrandedFrame DEF PurgeDone, Watched
  <2> QED
    BY <1>4, <2>1, <2>2, <2>3, <2>4, <2>5 DEF Sweep
<1>5. CASE Time
  BY <1>5 DEF Time, TimerElapses, LockExpires, GoesStale, CacheExpires, NoStrandedRequest
<1>6. CASE UNCHANGED vars
  BY <1>6 DEF vars, NoStrandedRequest
<1> QED
  BY <1>1, <1>2, <1>3, <1>4, <1>5, <1>6 DEF Next

\* The re-open after the drain (manager.py:78-83) does what its comment claims, for
\* any number of requests, sweepers and expiries of the fire lock: a waiting
\* request never stays without a window.
THEOREM NoStrandedRequestCorrect == Spec => []NoStrandedRequest
<1>1. Init => NoStrandedRequest
  BY DEF Init, NoStrandedRequest
<1> QED
  BY <1>1, TypeCorrect, StrandedStep, PTL DEF Spec
-----------------------------------------------------------------------------
(* One place.                                                              *)

Distinct(s) == \A i, j \in DOMAIN s : s[i] = s[j] => i = j

\* RPUSH of a new entry keeps the entries distinct.
LEMMA AppendDistinct ==
  ASSUME NEW S, NEW s \in Seq(S), NEW e \in S, e \notin ToSet(s), Distinct(s)
  PROVE  Distinct(Append(s, e))
<1>1. /\ DOMAIN Append(s, e) = 1..(Len(s) + 1)
      /\ DOMAIN s = 1..Len(s) /\ Len(s) \in Nat
      /\ \A i \in 1..Len(s) : Append(s, e)[i] = s[i]
      /\ Append(s, e)[Len(s) + 1] = e
  OBVIOUS
<1>2. \A i \in DOMAIN s : s[i] # e
  BY DEF ToSet
<1>3. \A i \in 1..(Len(s) + 1) : i \in 1..Len(s) \/ i = Len(s) + 1
  BY <1>1
<1> QED
  BY <1>1, <1>2, <1>3 DEF Distinct

\* LREM leaves nothing that was not there, and no entry twice.
LEMMA RemoveAtKeeps ==
  ASSUME NEW S, NEW s \in Seq(S), NEW k \in DOMAIN s
  PROVE  /\ ToSet(RemoveAt(s, k)) \subseteq ToSet(s)
         /\ Distinct(s) => Distinct(RemoveAt(s, k))
         /\ \A e \in ToSet(s) : e # s[k] => e \in ToSet(RemoveAt(s, k))
         /\ Distinct(s) => s[k] \notin ToSet(RemoveAt(s, k))
<1> DEFINE q == RemoveAt(s, k)
           at(i) == IF i < k THEN i ELSE i + 1
<1>1. /\ q \in Seq(S) /\ Len(q) = Len(s) - 1 /\ Len(s) \in Nat /\ k \in 1..Len(s)
      /\ \A i \in 1..(Len(s) - 1) : q[i] = s[at(i)]
  BY RemoveAtType
<1> HIDE DEF q
<1>2. DOMAIN q = 1..(Len(s) - 1) /\ DOMAIN s = 1..Len(s)
  BY <1>1
<1>3. \A i \in DOMAIN q : at(i) \in DOMAIN s /\ q[i] = s[at(i)]
  BY <1>1, <1>2
<1>4. \A i, j \in DOMAIN q : at(i) = at(j) => i = j
  BY <1>1, <1>2
<1>5. \A i \in DOMAIN s : i # k => \E j \in DOMAIN q : at(j) = i
  <2> SUFFICES ASSUME NEW i \in DOMAIN s, i # k
               PROVE  \E j \in DOMAIN q : at(j) = i
    OBVIOUS
  <2>1. CASE i < k
    BY <1>1, <1>2, <2>1
  <2>2. CASE i > k
    <3>1. i - 1 \in DOMAIN q /\ at(i - 1) = i
      BY <1>1, <1>2, <2>2
    <3> QED
      BY <3>1
  <2> QED
    BY <1>1, <1>2, <2>1, <2>2
<1>9. \A i \in DOMAIN q : at(i) # k
  BY <1>1, <1>2
<1> HIDE DEF at
<1>6. ToSet(q) \subseteq ToSet(s)
  BY <1>3 DEF ToSet
<1>7. Distinct(s) => Distinct(q)
  BY <1>3, <1>4 DEF Distinct
<1>8. \A e \in ToSet(s) : e # s[k] => e \in ToSet(q)
  BY <1>3, <1>5 DEF ToSet
<1>10. Distinct(s) => s[k] \notin ToSet(q)
  BY <1>3, <1>9 DEF Distinct, ToSet
<1> QED
  BY <1>6, <1>7, <1>8, <1>10 DEF q

\* A task that carries a batch: from its drain to the end of its settlements.
Carrying == {"close", "recheck", "reopen", "release", "unlock",
             "dispatch", "fan", "clear", "callers", "settle"}

\* OnePlace with what keeps it so: a request enters the queue once, on its way out
\* of accept, and a drain overwrites no batch that is still to be settled.
PlaceInv ==
  /\ \A t \in Tasks : pc[t] \notin Carrying => batch[t] = <<>>
  /\ \A r \in Requests : pc[r] \in Accepting =>
       r \notin ToSet(queue) /\ \A t \in Tasks : r \notin ToSet(batch[t])
  /\ OnePlace

\* OnePlace in terms of Distinct.
LEMMA OnePlaceDef ==
  OnePlace <=>
    /\ Distinct(queue)
    /\ \A t \in Tasks : Distinct(batch[t]) /\ ToSet(batch[t]) \cap ToSet(queue) = {}
    /\ \A t, u \in Tasks : t # u => ToSet(batch[t]) \cap ToSet(batch[u]) = {}
BY DEF OnePlace, Distinct

\* A step of task t that moves no request.
LEMMA PlaceFrame ==
  ASSUME TypeOK, PlaceInv, NEW t \in Tasks, NEW m, Goto(t, m),
         UNCHANGED <<queue, batch>>,
         m \in Accepting => pc[t] \in Accepting,
         pc[t] \in Carrying /\ m \notin Carrying => batch[t] = <<>>
  PROVE  PlaceInv'
BY DEF TypeOK, Goto, PlaceInv, OnePlace

LEMMA PlaceStep == TypeOK /\ PlaceInv /\ [Next]_vars => PlaceInv'
<1> SUFFICES ASSUME TypeOK, PlaceInv, [Next]_vars
             PROVE  PlaceInv'
  OBVIOUS
<1> USE DEF At, redis, frame
<1>1. ASSUME NEW r \in Requests, Intake(r)
      PROVE  PlaceInv'
  <2>1. CASE ServeCached(r)
    BY <2>1, PlaceFrame DEF ServeCached, Accepting, Carrying
  <2>2. CASE CacheMiss(r)
    BY <2>2, PlaceFrame DEF CacheMiss, Accepting, Carrying
  <2>3. CASE ClaimSlot(r)
    <3>1. (Goto(r, "depth") \/ Goto(r, "whose")) /\ UNCHANGED <<queue, batch>>
      BY <2>3 DEF ClaimSlot
    <3>2. pc[r] = "claim"
      BY <2>3 DEF ClaimSlot
    <3> QED
      BY <3>1, <3>2, PlaceFrame DEF Accepting, Carrying
  <2>4. CASE ReadOwner(r)
    BY <2>4, PlaceFrame DEF ReadOwner, Accepting, Carrying
  <2>5. CASE RecordMerge(r)
    BY <2>5, PlaceFrame DEF RecordMerge, Accepting, Carrying
  <2>6. CASE LogMerged(r)
    BY <2>6, PlaceFrame DEF LogMerged, Accepting, Carrying
  <2>7. CASE CheckDepth(r)
    BY <2>7, PlaceFrame DEF CheckDepth, Accepting, Carrying
  <2>8. CASE ReleaseRefused(r)
    BY <2>8, PlaceFrame DEF ReleaseRefused, Accepting, Carrying
  <2>9. CASE LogQueued(r)
    BY <2>9, PlaceFrame DEF LogQueued, Accepting, Carrying
  <2>10. CASE Push(r)
    <3>1. /\ pc[r] = "push" /\ pc' = [pc EXCEPT ![r] = "open"]
          /\ batch' = batch
      BY <2>10 DEF Push, Goto
    <3>2. r \notin ToSet(queue) /\ \A t \in Tasks : r \notin ToSet(batch[t])
      BY <3>1 DEF PlaceInv, Accepting
    <3>3. ToSet(queue') = ToSet(queue) \cup {r}
      BY <2>10, AppendToSet DEF Push, TypeOK
    <3>4. Distinct(queue')
      BY <2>10, <3>2, AppendDistinct, OnePlaceDef DEF Push, TypeOK, PlaceInv
    <3>5. OnePlace'
      <4>1. \A t \in Tasks : ToSet(batch'[t]) \cap ToSet(queue') = {}
        BY <3>1, <3>2, <3>3 DEF PlaceInv, OnePlace
      <4> QED
        BY <3>1, <3>4, <4>1 DEF PlaceInv, Distinct, OnePlace
    <3> QED
      BY <3>1, <3>3, <3>5 DEF PlaceInv, TypeOK, Accepting, Carrying
  <2>11. CASE OpenWindow(r)
    BY <2>11, PlaceFrame DEF OpenWindow, Accepting, Carrying
  <2>12. CASE CheckSize(r)
    BY <2>12, PlaceFrame DEF CheckSize, Accepting, Carrying
  <2> QED
    BY <1>1, <2>1, <2>2, <2>3, <2>4, <2>5, <2>6, <2>7, <2>8, <2>9, <2>10, <2>11, <2>12 DEF Intake
<1>2. ASSUME NEW t \in Tasks, Fire(t)
      PROVE  PlaceInv'
  <2>1. CASE FireLock(t)
    BY <2>1, PlaceFrame DEF FireLock, Finish, Accepting, Carrying
  <2>2. CASE Drain(t)
    <3>1. /\ pc[t] = "drain" /\ pc' = [pc EXCEPT ![t] = "close"]
          /\ batch' = [batch EXCEPT ![t] = queue] /\ queue' = <<>>
      BY <2>2 DEF Drain, Goto
    <3>2. batch[t] = <<>> /\ ToSet(queue') = {} /\ Distinct(queue')
      BY <3>1 DEF PlaceInv, Carrying, ToSet, Distinct
    <3>3. \A u \in Tasks : batch'[u] = IF u = t THEN queue ELSE batch[u]
      BY <3>1 DEF TypeOK
    <3>4. OnePlace'
      BY <3>2, <3>3 DEF PlaceInv, OnePlace, Distinct
    <3> QED
      BY <3>1, <3>2, <3>3, <3>4 DEF PlaceInv, TypeOK, Accepting, Carrying
  <2>3. CASE Close(t)
    BY <2>3, PlaceFrame DEF Close, Accepting, Carrying
  <2>4. CASE Recheck(t)
    BY <2>4, PlaceFrame DEF Recheck, AfterReopen, Accepting, Carrying
  <2>5. CASE Reopen(t)
    BY <2>5, PlaceFrame DEF Reopen, AfterReopen, Accepting, Carrying
  <2>6. CASE Release(t)
    BY <2>6, PlaceFrame DEF Release, Accepting, Carrying
  <2>7. CASE Unlock(t)
    BY <2>7, PlaceFrame DEF Unlock, Finish, Accepting, Carrying
  <2> QED
    BY <1>2, <2>1, <2>2, <2>3, <2>4, <2>5, <2>6, <2>7 DEF Fire
<1>3. ASSUME NEW t \in Tasks, Process(t)
      PROVE  PlaceInv'
  <2>1. CASE Dispatch(t)
    BY <2>1, PlaceFrame DEF Dispatch, Accepting, Carrying
  <2>2. CASE FanOut(t)
    BY <2>2, PlaceFrame DEF FanOut, Accepting, Carrying
  <2>3. CASE ClearMergeSet(t)
    BY <2>3, PlaceFrame DEF ClearMergeSet, Accepting, Carrying
  <2>4. CASE CommitDeliveries(t)
    BY <2>4, PlaceFrame DEF CommitDeliveries, Accepting, Carrying
  <2>5. CASE ResolveCallers(t)
    BY <2>5, PlaceFrame DEF ResolveCallers, Accepting, Carrying
  <2>6. CASE RecordSettlement(t)
    BY <2>6 DEF RecordSettlement, PlaceInv, OnePlace
  <2>7. CASE FinishBatch(t)
    <3>1. /\ pc[t] = "settle" /\ batch' = [batch EXCEPT ![t] = <<>>] /\ queue' = queue
          /\ pc' = [pc EXCEPT ![t] = Finish(t)] /\ Finish(t) \in {"done", "expire"}
      BY <2>7 DEF FinishBatch, Goto, Finish
    <3>2. \A u \in Tasks : batch'[u] = IF u = t THEN <<>> ELSE batch[u]
      BY <3>1 DEF TypeOK
    <3>3. ToSet(<<>>) = {} /\ Distinct(<<>>)
      BY DEF ToSet, Distinct
    <3>4. OnePlace'
      BY <3>1, <3>2, <3>3, SMTT(30) DEF PlaceInv, OnePlace, Distinct
    <3> QED
      BY <3>1, <3>2, <3>3, <3>4 DEF PlaceInv, TypeOK, Accepting, Carrying
  <2> QED
    BY <1>3, <2>1, <2>2, <2>3, <2>4, <2>5, <2>6, <2>7 DEF Process
<1>4. ASSUME NEW s \in Sweepers, Sweep(s)
      PROVE  PlaceInv'
  <2>1. CASE CheckTimer(s)
    BY <2>1, PlaceFrame DEF CheckTimer, Accepting, Carrying
  <2>2. CASE ExpireRows(s)
    <3>1. (Goto(s, "peek") \/ Goto(s, "idle")) /\ UNCHANGED <<queue, batch>>
      BY <2>2 DEF ExpireRows
    <3>2. pc[s] = "expire"
      BY <2>2 DEF ExpireRows
    <3> QED
      BY <3>1, <3>2, PlaceFrame DEF Accepting, Carrying
  <2>3. CASE PeekStale(s)
    BY <2>3, PlaceFrame DEF PeekStale, Accepting, Carrying
  <2>4. CASE PurgeEntry(s)
    <3>1. UNCHANGED <<pc, batch>>
      BY <2>4 DEF PurgeEntry
    <3>2. CASE UNCHANGED queue
      BY <3>1, <3>2 DEF PlaceInv, OnePlace
    <3>3. CASE \E i \in DOMAIN queue : queue' = RemoveAt(queue, i)
      <4>1. ToSet(queue') \subseteq ToSet(queue)
        BY <3>3, RemoveAtKeeps DEF TypeOK
      <4>2. Distinct(queue')
        BY <3>3, RemoveAtKeeps, OnePlaceDef DEF TypeOK, PlaceInv
      <4>3. OnePlace'
        BY <3>1, <4>1, <4>2 DEF PlaceInv, OnePlace, Distinct
      <4> QED
        BY <3>1, <4>1, <4>3 DEF PlaceInv
    <3> QED
      BY <2>4, <3>2, <3>3 DEF PurgeEntry
  <2>5. CASE PurgeDone(s)
    BY <2>5, PlaceFrame DEF PurgeDone, Accepting, Carrying
  <2> QED
    BY <1>4, <2>1, <2>2, <2>3, <2>4, <2>5 DEF Sweep
<1>5. CASE Time
  BY <1>5 DEF Time, TimerElapses, LockExpires, GoesStale, CacheExpires, PlaceInv, OnePlace
<1>6. CASE UNCHANGED vars
  BY <1>6 DEF vars, PlaceInv, OnePlace
<1> QED
  BY <1>1, <1>2, <1>3, <1>4, <1>5, <1>6 DEF Next

LEMMA PlaceInit == Init => PlaceInv
BY DEF Init, PlaceInv, OnePlace, ToSet, Carrying

\* No target call is made twice for a request: whichever of the size, priority and
\* timer fires drain the queue, and however often the fire lock expires under them,
\* a request is in the queue or in one batch, once.
THEOREM OnePlaceCorrect == Spec => []OnePlace
<1>1. PlaceInv => OnePlace
  BY DEF PlaceInv
<1> QED
  BY <1>1, PlaceInit, PlaceStep, TypeCorrect, PTL DEF Spec
-----------------------------------------------------------------------------
(* The log of a request, and where it is.                                  *)

\* Labels of accept before a row is written; of the way into the queue; of a task
\* whose dispatch is done.
Unlogged == Accepting \ {"push"}
QueuePath == {"start", "claim", "whose", "depth", "refuse", "refused", "log", "push",
              "open", "size"}
Delivering == {"fan", "clear", "callers", "settle"}

InFlight(r) == r \in ToSet(queue) \/ \E t \in Tasks : r \in ToSet(batch[t])

\* What the row of a request says of its place.  A merged request never takes the way
\* of the queue.
Logged ==
  \A r \in Requests :
    /\ pc[r] \in Unlogged => log[r] = "none"
    /\ pc[r] = "push" => log[r] = "queued"
    /\ InFlight(r) => log[r] \in {"queued", "delivered", "failed"} /\ mergedInto[r] = None
    /\ mergedInto[r] # None =>
         /\ pc[r] \notin QueuePath
         /\ log[r] \in {"none", "merged", "delivered", "failed"}

\* Only a merged request is recorded in a merge set, that of its slot owner, and
\* picked up from it.
Merged ==
  /\ \A o, r \in Requests : r \in mergeSet[o] => mergedInto[r] = o /\ pc[r] # "record"
  /\ \A t \in Tasks : \A r \in fanned[t] : mergedInto[r] # None /\ pc[r] # "record"

\* A dispatch answers members of the batch, and every other member is on record as
\* unanswered; what it answered is delivered by the time its callers are billed.
Answers ==
  \A t \in Tasks :
    /\ pc[t] \in Delivering =>
         /\ answered[t] \subseteq ToSet(batch[t])
         /\ ToSet(batch[t]) \subseteq answered[t] \cup unanswered
    /\ pc[t] \in {"callers", "settle"} => \A r \in answered[t] : log[r] = "delivered"

\* The sweep purges requests that it has failed, and that are done with accept.
Purged ==
  /\ \A r \in stale : pc[r] \notin Accepting
  /\ \A t \in Tasks : pc[t] \in {"peek", "purge"} =>
       \A d \in todo[t] : d \in stale /\ log[d] # "queued"

LogInv == Logged /\ Merged /\ Answers /\ Purged

\* A step of task t that writes no row and moves no request.
LEMMA LogFrame ==
  ASSUME TypeOK, LogInv, NEW t \in Tasks, NEW m, Goto(t, m),
         UNCHANGED <<queue, batch, log, mergedInto, mergeSet, fanned, answered, unanswered,
                     stale>>,
         \A u \in Tasks : u # t => todo'[u] = todo[u],
         m \in Accepting => pc[t] \in Unlogged /\ m \notin {"push", "record"},
         m \in QueuePath => pc[t] \in QueuePath,
         m \in Delivering => pc[t] \in Delivering,
         m \in {"callers", "settle"} => pc[t] \in {"callers", "settle"},
         m \notin {"peek", "purge"}
  PROVE  LogInv'
<1> USE DEF TypeOK, Goto
<1>1. \A u \in Tasks : u # t => pc'[u] = pc[u]
  OBVIOUS
<1>2. pc'[t] = m
  OBVIOUS
<1>3. Logged'
  <2>1. \A r \in Requests : InFlight(r)' = InFlight(r)
    BY DEF InFlight
  <2> QED
    BY <1>1, <1>2, <2>1 DEF LogInv, Logged, Unlogged, Accepting
<1>4. Merged'
  BY <1>1, <1>2 DEF LogInv, Merged, Accepting
<1>5. Answers'
  BY <1>1, <1>2 DEF LogInv, Answers
<1>6. Purged'
  BY <1>1, <1>2 DEF LogInv, Purged, Unlogged
<1> QED
  BY <1>3, <1>4, <1>5, <1>6 DEF LogInv

LEMMA LogStep == TypeOK /\ PlaceInv /\ LogInv /\ [Next]_vars => LogInv'
<1> SUFFICES ASSUME TypeOK, PlaceInv, LogInv, [Next]_vars
             PROVE  LogInv'
  OBVIOUS
<1> USE DEF At, redis, sql, frame
<1>Parts. Logged /\ Merged /\ Answers /\ Purged
  BY DEF LogInv
<1>1. ASSUME NEW r \in Requests, Intake(r)
      PROVE  LogInv'
  <2>1. CASE ServeCached(r)
    <3>1. /\ pc[r] = "start" /\ pc' = [pc EXCEPT ![r] = "done"]
          /\ log' = [log EXCEPT ![r] = "cached"]
          /\ UNCHANGED <<queue, batch, mergedInto, mergeSet, fanned, answered, unanswered,
                         stale, todo>>
      BY <2>1 DEF ServeCached, Goto
    <3>2. \A u \in Requests : InFlight(u)' = InFlight(u)
      BY <3>1 DEF InFlight
    <3>3. ~ InFlight(r) /\ mergedInto[r] = None
      BY <3>1, <1>Parts DEF PlaceInv, InFlight, Accepting, Logged, QueuePath
    <3>4. Logged'
      BY <3>1, <3>2, <3>3, <1>Parts DEF TypeOK, Logged, Unlogged, Accepting
    <3>5. Merged' /\ Answers'
      BY <3>1, <3>3, <1>Parts DEF TypeOK, Merged, Answers, InFlight, Delivering
    <3>6. Purged'
      BY <3>1, <1>Parts DEF TypeOK, Purged, Accepting
    <3> QED
      BY <3>4, <3>5, <3>6 DEF LogInv
  <2>2. CASE CacheMiss(r)
    BY <2>2, LogFrame DEF CacheMiss, Unlogged, Accepting, QueuePath, Delivering
  <2>3. CASE ClaimSlot(r)
    <3>1. /\ Goto(r, "depth") \/ Goto(r, "whose")
          /\ UNCHANGED <<queue, batch, log, mergedInto, mergeSet, fanned, answered,
                         unanswered, stale, todo>>
      BY <2>3 DEF ClaimSlot
    <3>2. pc[r] = "claim"
      BY <2>3 DEF ClaimSlot
    <3> QED
      BY <3>1, <3>2, LogFrame DEF Unlogged, Accepting, QueuePath, Delivering
  <2>4. CASE ReadOwner(r)
    <3>1. /\ pc[r] = "whose"
          /\ pc' = [pc EXCEPT ![r] = IF pending[Fp[r]] = None THEN "depth" ELSE "record"]
          /\ mergedInto' = [mergedInto EXCEPT ![r] = pending[Fp[r]]]
          /\ UNCHANGED <<queue, batch, log, mergeSet, fanned, answered, unanswered, stale,
                         todo>>
      BY <2>4 DEF ReadOwner, Goto
    <3>2. \A u \in Requests : InFlight(u)' = InFlight(u)
      BY <3>1 DEF InFlight
    <3>3. ~ InFlight(r) /\ mergedInto[r] = None /\ log[r] = "none"
      BY <3>1, <1>Parts DEF PlaceInv, InFlight, Accepting, Logged, QueuePath, Unlogged
    <3>4. Logged'
      BY <3>1, <3>2, <3>3, <1>Parts DEF TypeOK, Logged, Unlogged, Accepting, QueuePath
    <3>5. Merged'
      BY <3>1, <3>3, <1>Parts DEF TypeOK, Merged
    <3>6. Answers' /\ Purged'
      BY <3>1, <1>Parts DEF TypeOK, Answers, Purged, Accepting, Delivering
    <3> QED
      BY <3>4, <3>5, <3>6 DEF LogInv
  <2>5. CASE RecordMerge(r)
    <3>1. /\ pc[r] = "record" /\ pc' = [pc EXCEPT ![r] = "logMerged"]
          /\ mergeSet' = [mergeSet EXCEPT ![mergedInto[r]] = @ \cup {r}]
          /\ UNCHANGED <<queue, batch, log, mergedInto, fanned, answered, unanswered, stale,
                         todo>>
      BY <2>5 DEF RecordMerge, Goto
    <3>2. \A u \in Requests : InFlight(u)' = InFlight(u)
      BY <3>1 DEF InFlight
    <3>3. Logged'
      BY <3>1, <3>2, <1>Parts DEF TypeOK, Logged, Unlogged, Accepting, QueuePath
    <3>4. \A o, u \in Requests :
            u \in mergeSet'[o] => u \in mergeSet[o] \/ (u = r /\ o = mergedInto[r])
      BY <3>1 DEF TypeOK
    <3>5. Merged'
      BY <3>1, <3>4, <1>Parts DEF TypeOK, Merged
    <3>6. Answers' /\ Purged'
      BY <3>1, <1>Parts DEF TypeOK, Answers, Purged, Accepting, Delivering
    <3> QED
      BY <3>3, <3>5, <3>6 DEF LogInv
  <2>6. CASE LogMerged(r)
    <3>1. /\ pc[r] = "logMerged"
          /\ pc' = [pc EXCEPT ![r] = IF r \in Priority THEN "lock" ELSE "done"]
          /\ log' = [log EXCEPT ![r] = "merged"]
          /\ UNCHANGED <<queue, batch, mergedInto, mergeSet, fanned, answered, unanswered,
                         stale, todo>>
      BY <2>6 DEF LogMerged, Goto
    <3>2. \A u \in Requests : InFlight(u)' = InFlight(u)
      BY <3>1 DEF InFlight
    <3>3. ~ InFlight(r) /\ r \notin stale
      BY <3>1, <1>Parts DEF PlaceInv, InFlight, Accepting, Purged
    <3>4. Logged'
      BY <3>1, <3>2, <3>3, <1>Parts DEF TypeOK, Logged, Unlogged, Accepting, QueuePath
    <3>5. Merged'
      BY <3>1, <1>Parts DEF TypeOK, Merged
    <3>6. Answers' /\ Purged'
      BY <3>1, <3>3, <1>Parts DEF TypeOK, Answers, Purged, InFlight, Accepting, Delivering
    <3> QED
      BY <3>4, <3>5, <3>6 DEF LogInv
  <2>7. CASE CheckDepth(r)
    BY <2>7, LogFrame DEF CheckDepth, Unlogged, Accepting, QueuePath, Delivering
  <2>8. CASE ReleaseRefused(r)
    BY <2>8, LogFrame DEF ReleaseRefused, Unlogged, Accepting, QueuePath, Delivering
  <2>9. CASE LogQueued(r)
    <3>1. /\ pc[r] = "log" /\ pc' = [pc EXCEPT ![r] = "push"]
          /\ log' = [log EXCEPT ![r] = "queued"]
          /\ UNCHANGED <<queue, batch, mergedInto, mergeSet, fanned, answered, unanswered,
                         stale, todo>>
      BY <2>9 DEF LogQueued, Goto
    <3>2. \A u \in Requests : InFlight(u)' = InFlight(u)
      BY <3>1 DEF InFlight
    <3>3. ~ InFlight(r) /\ r \notin stale /\ mergedInto[r] = None
      BY <3>1, <1>Parts DEF PlaceInv, InFlight, Accepting, Purged, Logged, QueuePath
    <3>4. Logged'
      BY <3>1, <3>2, <3>3, <1>Parts DEF TypeOK, Logged, Unlogged, Accepting, QueuePath
    <3>5. Merged'
      BY <3>1, <1>Parts DEF TypeOK, Merged
    <3>6. Answers' /\ Purged'
      BY <3>1, <3>3, <1>Parts DEF TypeOK, Answers, Purged, InFlight, Accepting, Delivering
    <3> QED
      BY <3>4, <3>5, <3>6 DEF LogInv
  <2>10. CASE Push(r)
    <3>1. /\ pc[r] = "push" /\ pc' = [pc EXCEPT ![r] = "open"]
          /\ UNCHANGED <<log, batch, mergedInto, mergeSet, fanned, answered, unanswered,
                         stale, todo>>
      BY <2>10 DEF Push, Goto
    <3>2. ToSet(queue') = ToSet(queue) \cup {r}
      BY <2>10, AppendToSet DEF Push, TypeOK
    <3>3. \A u \in Requests : InFlight(u)' => InFlight(u) \/ u = r
      BY <3>1, <3>2 DEF InFlight
    <3>4. log[r] = "queued" /\ mergedInto[r] = None
      BY <3>1, <1>Parts DEF Logged, QueuePath
    <3>5. Logged'
      BY <3>1, <3>3, <3>4, <1>Parts DEF TypeOK, Logged, Unlogged, Accepting
    <3>6. Merged' /\ Answers' /\ Purged'
      BY <3>1, <1>Parts DEF TypeOK, Merged, Answers, Purged, Accepting, Delivering
    <3> QED
      BY <3>5, <3>6 DEF LogInv
  <2>11. CASE OpenWindow(r)
    BY <2>11, LogFrame DEF OpenWindow, Unlogged, Accepting, QueuePath, Delivering
  <2>12. CASE CheckSize(r)
    BY <2>12, LogFrame DEF CheckSize, Unlogged, Accepting, QueuePath, Delivering
  <2> QED
    BY <1>1, <2>1, <2>2, <2>3, <2>4, <2>5, <2>6, <2>7, <2>8, <2>9, <2>10, <2>11, <2>12 DEF Intake
<1>2. ASSUME NEW t \in Tasks, Fire(t)
      PROVE  LogInv'
  <2>1. CASE FireLock(t)
    BY <2>1, LogFrame DEF FireLock, Finish, Unlogged, Accepting, QueuePath, Delivering
  <2>2. CASE Drain(t)
    <3>1. /\ pc[t] = "drain" /\ pc' = [pc EXCEPT ![t] = "close"]
          /\ UNCHANGED <<log, mergedInto, mergeSet, fanned, answered, unanswered,
                         stale, todo>>
      BY <2>2 DEF Drain, Goto
    <3>2. \A u \in Tasks : batch'[u] = IF u = t THEN queue ELSE batch[u]
      BY <2>2 DEF Drain, TypeOK
    <3>3. \A r \in Requests : InFlight(r)' => InFlight(r)
      BY <2>2, <3>2 DEF InFlight, Drain, ToSet
    <3>4. Logged'
      BY <3>1, <3>3, <1>Parts DEF TypeOK, Logged, Unlogged, Accepting, QueuePath
    <3>5. Merged' /\ Answers' /\ Purged'
      BY <3>1, <3>2, <1>Parts DEF TypeOK, Merged, Answers, Purged, Accepting, Delivering
    <3> QED
      BY <3>4, <3>5 DEF LogInv
  <2>3. CASE Close(t)
    BY <2>3, LogFrame DEF Close, Unlogged, Accepting, QueuePath, Delivering
  <2>4. CASE Recheck(t)
    BY <2>4, LogFrame DEF Recheck, AfterReopen, Unlogged, Accepting, QueuePath, Delivering
  <2>5. CASE Reopen(t)
    BY <2>5, LogFrame DEF Reopen, AfterReopen, Unlogged, Accepting, QueuePath, Delivering
  <2>6. CASE Release(t)
    BY <2>6, LogFrame DEF Release, Unlogged, Accepting, QueuePath, Delivering
  <2>7. CASE Unlock(t)
    BY <2>7, LogFrame DEF Unlock, Finish, Unlogged, Accepting, QueuePath, Delivering
  <2> QED
    BY <1>2, <2>1, <2>2, <2>3, <2>4, <2>5, <2>6, <2>7 DEF Fire
<1>3. ASSUME NEW t \in Tasks, Process(t)
      PROVE  LogInv'
  <2>1. CASE Dispatch(t)
    <3>1. /\ pc[t] = "dispatch" /\ pc' = [pc EXCEPT ![t] = "fan"]
          /\ UNCHANGED <<queue, batch, log, mergedInto, mergeSet, fanned, stale>>
      BY <2>1 DEF Dispatch, Goto
    <3>2. PICK S \in SUBSET ToSet(batch[t]) :
            /\ answered' = [answered EXCEPT ![t] = S]
            /\ todo' = [todo EXCEPT ![t] = S]
            /\ unanswered' = unanswered \cup (ToSet(batch[t]) \ S)
      BY <2>1 DEF Dispatch
    <3>3. \A r \in Requests : InFlight(r)' = InFlight(r)
      BY <3>1 DEF InFlight
    <3>4. Logged'
      BY <3>1, <3>3, <1>Parts DEF TypeOK, Logged, Unlogged, Accepting, QueuePath
    <3>5. Answers'
      BY <3>1, <3>2, <1>Parts DEF TypeOK, Answers, Delivering
    <3>6. Merged' /\ Purged'
      BY <3>1, <3>2, <1>Parts DEF TypeOK, Merged, Purged, Accepting
    <3> QED
      BY <3>4, <3>5, <3>6 DEF LogInv
  <2>2. CASE FanOut(t)
    <3>1. /\ pc[t] = "fan" /\ pc' = [pc EXCEPT ![t] = "clear"]
          /\ UNCHANGED <<queue, batch, log, mergedInto, mergeSet, answered, unanswered,
                         stale, todo>>
      BY <2>2 DEF FanOut, Goto
    <3>2. PICK d \in todo[t] : fanned' = [fanned EXCEPT ![t] = @ \cup mergeSet[d]]
      BY <2>2 DEF FanOut
    <3>3. \A r \in Requests : InFlight(r)' = InFlight(r)
      BY <3>1 DEF InFlight
    <3>4. Logged'
      BY <3>1, <3>3, <1>Parts DEF TypeOK, Logged, Unlogged, Accepting, QueuePath
    <3>5. Merged'
      <4>1. d \in Requests /\ mergeSet[d] \subseteq Requests
        BY DEF TypeOK
      <4>2. \A u \in Tasks : \A r \in fanned'[u] : r \in fanned[u] \/ r \in mergeSet[d]
        BY <3>2 DEF TypeOK
      <4> QED
        BY <3>1, <4>1, <4>2, <1>Parts DEF TypeOK, Merged
    <3>6. Answers' /\ Purged'
      BY <3>1, <1>Parts DEF TypeOK, Answers, Purged, Accepting, Delivering
    <3> QED
      BY <3>4, <3>5, <3>6 DEF LogInv
  <2>3. CASE ClearMergeSet(t)
    <3>1. /\ pc[t] = "clear" /\ pc' = [pc EXCEPT ![t] = "fan"]
          /\ mergeSet' = [mergeSet EXCEPT ![cur[t]] = {}]
          /\ todo' = [todo EXCEPT ![t] = @ \ {cur[t]}]
          /\ UNCHANGED <<queue, batch, log, mergedInto, fanned, answered, unanswered, stale>>
      BY <2>3 DEF ClearMergeSet, Goto
    <3>2. \A r \in Requests : InFlight(r)' = InFlight(r)
      BY <3>1 DEF InFlight
    <3>3. Logged'
      BY <3>1, <3>2, <1>Parts DEF TypeOK, Logged, Unlogged, Accepting, QueuePath
    <3>4. \A o \in Requests : mergeSet'[o] \subseteq mergeSet[o]
      BY <3>1 DEF TypeOK
    <3>5. Merged'
      BY <3>1, <3>4, <1>Parts DEF TypeOK, Merged
    <3>6. Answers' /\ Purged'
      BY <3>1, <1>Parts DEF TypeOK, Answers, Purged, Accepting, Delivering
    <3> QED
      BY <3>3, <3>5, <3>6 DEF LogInv
  <2>4. CASE CommitDeliveries(t)
    <3>1. /\ pc[t] = "fan" /\ pc' = [pc EXCEPT ![t] = "callers"]
          /\ log' = [r \in Requests |->
                       IF r \in answered[t] \cup fanned[t] /\ log[r] # "none"
                       THEN "delivered" ELSE log[r]]
          /\ UNCHANGED <<queue, batch, mergedInto, mergeSet, fanned, answered, unanswered,
                         stale, todo>>
      BY <2>4 DEF CommitDeliveries, Goto
    <3>2. \A r \in Requests : InFlight(r)' = InFlight(r)
      BY <3>1 DEF InFlight
    <3>3. \A r \in Requests :
            /\ log[r] = "none" => log'[r] = "none"
            /\ log'[r] = log[r] \/ log'[r] = "delivered"
            /\ r \in answered[t] /\ log[r] # "none" => log'[r] = "delivered"
      BY <3>1
    <3>4. \A r \in Requests : pc[r] = "push" => ~ InFlight(r) /\ mergedInto[r] = None
      BY <1>Parts DEF PlaceInv, InFlight, Accepting, Logged, QueuePath
    <3>5. \A r \in answered[t] : InFlight(r) /\ r \in Requests
      BY <3>1, <1>Parts DEF TypeOK, Answers, InFlight, Delivering
    <3>6. \A r \in fanned[t] : mergedInto[r] # None
      BY <1>Parts DEF Merged
    <3>7. \A r \in Requests : pc[r] = "push" => log'[r] = "queued"
      BY <3>1, <3>4, <3>5, <3>6, <1>Parts DEF Logged
    <3>8. Logged'
      BY <3>1, <3>2, <3>3, <3>7, <1>Parts DEF TypeOK, Logged, Unlogged, Accepting, QueuePath
    <3>9. \A r \in answered[t] : log'[r] = "delivered"
      BY <3>3, <3>5, <1>Parts DEF Logged
    <3>10. Answers'
      BY <3>1, <3>3, <3>9, <1>Parts DEF TypeOK, Answers, Delivering
    <3>11. Merged' /\ Purged'
      BY <3>1, <3>3, <1>Parts DEF TypeOK, Merged, Purged, Accepting
    <3> QED
      BY <3>8, <3>10, <3>11 DEF LogInv
  <2>5. CASE ResolveCallers(t)
    BY <2>5, LogFrame DEF ResolveCallers, TypeOK, Accepting, QueuePath, Delivering
  <2>6. CASE RecordSettlement(t)
    <3>1. /\ pc[t] = "settle"
          /\ UNCHANGED <<pc, queue, batch, log, mergedInto, mergeSet, fanned, answered,
                         unanswered, stale>>
          /\ \A u \in Tasks : u # t => todo'[u] = todo[u]
      BY <2>6 DEF RecordSettlement, TypeOK
    <3> QED
      BY <3>1, <1>Parts DEF LogInv, Logged, InFlight, Merged, Answers, Purged
  <2>7. CASE FinishBatch(t)
    <3>1. /\ pc[t] = "settle" /\ pc' = [pc EXCEPT ![t] = Finish(t)]
          /\ Finish(t) \in {"done", "expire"}
          /\ batch' = [batch EXCEPT ![t] = <<>>]
          /\ fanned' = [fanned EXCEPT ![t] = {}]
          /\ answered' = [answered EXCEPT ![t] = {}]
          /\ UNCHANGED <<queue, log, mergedInto, mergeSet, unanswered, stale, todo>>
      BY <2>7 DEF FinishBatch, Goto, Finish
    <3>2. \A r \in Requests : InFlight(r)' => InFlight(r)
      BY <3>1 DEF TypeOK, InFlight, ToSet
    <3>3. Logged'
      BY <3>1, <3>2, <1>Parts DEF TypeOK, Logged, Unlogged, Accepting, QueuePath
    <3>4. Merged'
      BY <3>1, <1>Parts DEF TypeOK, Merged
    <3>5. Answers' /\ Purged'
      BY <3>1, <1>Parts DEF TypeOK, Answers, Purged, Accepting, Delivering
    <3> QED
      BY <3>3, <3>4, <3>5 DEF LogInv
  <2> QED
    BY <1>3, <2>1, <2>2, <2>3, <2>4, <2>5, <2>6, <2>7 DEF Process
<1>4. ASSUME NEW s \in Sweepers, Sweep(s)
      PROVE  LogInv'
  <2>1. CASE CheckTimer(s)
    BY <2>1, LogFrame DEF CheckTimer, Unlogged, Accepting, QueuePath, Delivering
  <2>2. CASE ExpireRows(s)
    <3>1. CASE TTL /\ Expirable # {}
      <4>1. /\ pc[s] = "expire" /\ pc' = [pc EXCEPT ![s] = "peek"]
            /\ log' = [r \in Requests |-> IF r \in Expirable THEN "failed" ELSE log[r]]
            /\ todo' = [todo EXCEPT ![s] = stale]
            /\ UNCHANGED <<queue, batch, mergedInto, mergeSet, fanned, answered, unanswered,
                           stale>>
        BY <2>2, <3>1 DEF ExpireRows, Goto
      <4>2. \A r \in Requests : InFlight(r)' = InFlight(r)
        BY <4>1 DEF InFlight
      <4>3. \A r \in Requests :
              /\ log'[r] = log[r] \/ (log'[r] = "failed" /\ log[r] \in {"queued", "merged"})
              /\ pc[r] \in Accepting => log'[r] = log[r]
              /\ r \in stale => log'[r] # "queued"
        BY <4>1, <1>Parts DEF Expirable, Purged
      <4>4. Logged'
        BY <4>1, <4>2, <4>3, <1>Parts DEF TypeOK, Logged, Unlogged, Accepting, QueuePath
      <4>5. Merged'
        BY <4>1, <1>Parts DEF TypeOK, Merged
      <4>6. Answers'
        BY <4>1, <4>3, <1>Parts DEF TypeOK, Answers, Delivering
      <4>7. Purged'
        BY <4>1, <4>3, <1>Parts DEF TypeOK, Purged, Accepting
      <4> QED
        BY <4>4, <4>5, <4>6, <4>7 DEF LogInv
    <3>2. CASE ~ (TTL /\ Expirable # {})
      BY <2>2, <3>2, LogFrame DEF ExpireRows, Unlogged, Accepting, QueuePath, Delivering
    <3> QED
      BY <3>1, <3>2
  <2>3. CASE PeekStale(s)
    <3>1. /\ pc[s] = "peek" /\ pc' = [pc EXCEPT ![s] = "purge"]
          /\ todo' = [todo EXCEPT ![s] = @ \cap ToSet(queue)]
          /\ UNCHANGED <<queue, batch, log, mergedInto, mergeSet, fanned, answered,
                         unanswered, stale>>
      BY <2>3 DEF PeekStale, Goto
    <3>2. \A r \in Requests : InFlight(r)' = InFlight(r)
      BY <3>1 DEF InFlight
    <3>3. Logged'
      BY <3>1, <3>2, <1>Parts DEF TypeOK, Logged, Unlogged, Accepting, QueuePath
    <3>4. Merged' /\ Answers'
      BY <3>1, <1>Parts DEF TypeOK, Merged, Answers, Delivering
    <3>5. Purged'
      BY <3>1, <1>Parts DEF TypeOK, Purged, Accepting
    <3> QED
      BY <3>3, <3>4, <3>5 DEF LogInv
  <2>4. CASE PurgeEntry(s)
    <3>1. UNCHANGED <<pc, batch, log, mergedInto, mergeSet, fanned, answered, unanswered,
                      stale>>
      BY <2>4 DEF PurgeEntry
    <3>2. ToSet(queue') \subseteq ToSet(queue)
      BY <2>4, RemoveAtKeeps DEF PurgeEntry, TypeOK
    <3>3. \A r \in Requests : InFlight(r)' => InFlight(r)
      BY <3>1, <3>2 DEF InFlight
    <3>4. \A u \in Tasks : todo'[u] \subseteq todo[u]
      BY <2>4 DEF PurgeEntry, TypeOK
    <3>5. Logged'
      BY <3>1, <3>3, <1>Parts DEF Logged
    <3>6. Merged' /\ Answers' /\ Purged'
      BY <3>1, <3>4, <1>Parts DEF Merged, Answers, Purged
    <3> QED
      BY <3>5, <3>6 DEF LogInv
  <2>5. CASE PurgeDone(s)
    BY <2>5, LogFrame DEF PurgeDone, Unlogged, Accepting, QueuePath, Delivering
  <2> QED
    BY <1>4, <2>1, <2>2, <2>3, <2>4, <2>5 DEF Sweep
<1>5. CASE Time
  <2>1. /\ UNCHANGED <<pc, queue, batch, log, mergedInto, mergeSet, fanned, answered,
                       unanswered, todo>>
        /\ \A r \in stale' : r \in stale \/ pc[r] \notin Accepting
        /\ stale \subseteq stale'
    BY <1>5 DEF Time, TimerElapses, LockExpires, GoesStale, CacheExpires
  <2> QED
    BY <2>1, <1>Parts DEF LogInv, Logged, InFlight, Merged, Answers, Purged
<1>6. CASE UNCHANGED vars
  BY <1>6, <1>Parts DEF vars, LogInv, Logged, InFlight, Merged, Answers, Purged
<1> QED
  BY <1>1, <1>2, <1>3, <1>4, <1>5, <1>6 DEF Next

LEMMA LogInit == Init => LogInv
BY DEF Init, LogInv, Logged, InFlight, Merged, Answers, Purged, ToSet, Unlogged, Accepting,
       QueuePath, Delivering
-----------------------------------------------------------------------------
(* No lost request.                                                        *)

\* A step of task t that logs nobody as queued, moves no request and is not the end
\* of the push.
LEMMA LostFrame ==
  ASSUME TypeOK, NoLostRequest, NEW t \in Tasks, NEW m, Goto(t, m), pc[t] # "push",
         UNCHANGED <<queue, batch>>, unanswered \subseteq unanswered',
         \A r \in Requests : log'[r] = "queued" => log[r] = "queued"
  PROVE  NoLostRequest'
BY DEF TypeOK, NoLostRequest, At, Goto

LEMMA LostStep ==
  TypeOK /\ PlaceInv /\ LogInv /\ NoLostRequest /\ [Next]_vars => NoLostRequest'
<1> SUFFICES ASSUME TypeOK, PlaceInv, LogInv, NoLostRequest, [Next]_vars
             PROVE  NoLostRequest'
  OBVIOUS
<1> USE DEF At, redis, sql, frame
<1>1. ASSUME NEW r \in Requests, Intake(r)
      PROVE  NoLostRequest'
  <2>1. CASE ServeCached(r)
    BY <2>1, LostFrame DEF ServeCached, TypeOK
  <2>2. CASE CacheMiss(r)
    BY <2>2, LostFrame DEF CacheMiss
  <2>3. CASE ClaimSlot(r)
    <3>1. /\ Goto(r, "depth") \/ Goto(r, "whose")
          /\ pc[r] # "push" /\ UNCHANGED <<queue, batch, log, unanswered>>
      BY <2>3 DEF ClaimSlot
    <3> QED
      BY <3>1, LostFrame
  <2>4. CASE ReadOwner(r)
    BY <2>4, LostFrame DEF ReadOwner
  <2>5. CASE RecordMerge(r)
    BY <2>5, LostFrame DEF RecordMerge
  <2>6. CASE LogMerged(r)
    BY <2>6, LostFrame DEF LogMerged, TypeOK
  <2>7. CASE CheckDepth(r)
    BY <2>7, LostFrame DEF CheckDepth
  <2>8. CASE ReleaseRefused(r)
    BY <2>8, LostFrame DEF ReleaseRefused
  <2>9. CASE LogQueued(r)
    BY <2>9 DEF LogQueued, NoLostRequest, TypeOK, Goto
  <2>10. CASE Push(r)
    <3>1. ToSet(queue') = ToSet(queue) \cup {r}
      BY <2>10, AppendToSet DEF Push, TypeOK
    <3> QED
      BY <2>10, <3>1 DEF Push, NoLostRequest, TypeOK, Goto
  <2>11. CASE OpenWindow(r)
    BY <2>11, LostFrame DEF OpenWindow
  <2>12. CASE CheckSize(r)
    BY <2>12, LostFrame DEF CheckSize
  <2> QED
    BY <1>1, <2>1, <2>2, <2>3, <2>4, <2>5, <2>6, <2>7, <2>8, <2>9, <2>10, <2>11, <2>12 DEF Intake
<1>2. ASSUME NEW t \in Tasks, Fire(t)
      PROVE  NoLostRequest'
  <2>1. CASE FireLock(t)
    BY <2>1, LostFrame DEF FireLock
  <2>2. CASE Drain(t)
    <3>1. /\ pc[t] = "drain" /\ pc' = [pc EXCEPT ![t] = "close"]
          /\ UNCHANGED <<log, unanswered>>
      BY <2>2 DEF Drain, Goto
    <3>2. batch[t] = <<>> /\ ToSet(batch[t]) = {}
      BY <3>1 DEF PlaceInv, Carrying, ToSet
    <3>3. \A u \in Tasks : batch'[u] = IF u = t THEN queue ELSE batch[u]
      BY <2>2 DEF Drain, TypeOK
    <3> QED
      BY <3>1, <3>2, <3>3 DEF NoLostRequest, TypeOK
  <2>3. CASE Close(t)
    BY <2>3, LostFrame DEF Close
  <2>4. CASE Recheck(t)
    BY <2>4, LostFrame DEF Recheck
  <2>5. CASE Reopen(t)
    BY <2>5, LostFrame DEF Reopen
  <2>6. CASE Release(t)
    BY <2>6, LostFrame DEF Release
  <2>7. CASE Unlock(t)
    BY <2>7, LostFrame DEF Unlock
  <2> QED
    BY <1>2, <2>1, <2>2, <2>3, <2>4, <2>5, <2>6, <2>7 DEF Fire
<1>3. ASSUME NEW t \in Tasks, Process(t)
      PROVE  NoLostRequest'
  <2>1. CASE Dispatch(t)
    BY <2>1, LostFrame DEF Dispatch
  <2>2. CASE FanOut(t)
    BY <2>2, LostFrame DEF FanOut
  <2>3. CASE ClearMergeSet(t)
    BY <2>3, LostFrame DEF ClearMergeSet
  <2>4. CASE CommitDeliveries(t)
    BY <2>4, LostFrame DEF CommitDeliveries
  <2>5. CASE ResolveCallers(t)
    BY <2>5, LostFrame DEF ResolveCallers
  <2>6. CASE RecordSettlement(t)
    BY <2>6 DEF RecordSettlement, NoLostRequest
  <2>7. CASE FinishBatch(t)
    <3>1. /\ pc[t] = "settle" /\ pc' = [pc EXCEPT ![t] = Finish(t)]
          /\ UNCHANGED <<queue, log, unanswered>>
      BY <2>7 DEF FinishBatch, Goto
    <3>2. \A u \in Tasks : u # t => batch'[u] = batch[u]
      BY <2>7 DEF FinishBatch, TypeOK
    <3>3. \A r \in ToSet(batch[t]) : log[r] = "queued" => r \in unanswered
      BY <3>1 DEF LogInv, Answers, Delivering
    <3> QED
      BY <3>1, <3>2, <3>3 DEF NoLostRequest, TypeOK
  <2> QED
    BY <1>3, <2>1, <2>2, <2>3, <2>4, <2>5, <2>6, <2>7 DEF Process
<1>4. ASSUME NEW s \in Sweepers, Sweep(s)
      PROVE  NoLostRequest'
  <2>1. CASE CheckTimer(s)
    BY <2>1, LostFrame DEF CheckTimer
  <2>2. CASE ExpireRows(s)
    <3>1. /\ Goto(s, "peek") \/ Goto(s, "idle")
          /\ pc[s] # "push" /\ UNCHANGED <<queue, batch, unanswered>>
          /\ \A r \in Requests : log'[r] = "queued" => log[r] = "queued"
      BY <2>2 DEF ExpireRows
    <3> QED
      BY <3>1, LostFrame
  <2>3. CASE PeekStale(s)
    BY <2>3, LostFrame DEF PeekStale
  <2>4. CASE PurgeEntry(s)
    <3>1. PICK d \in todo[s] :
            \/ UNCHANGED queue
            \/ \E i \in DOMAIN queue : queue[i] = d /\ queue' = RemoveAt(queue, i)
      BY <2>4 DEF PurgeEntry
    <3>2. log[d] # "queued"
      BY <2>4 DEF PurgeEntry, LogInv, Purged
    <3>3. \A r \in ToSet(queue) : r # d => r \in ToSet(queue')
      BY <3>1, RemoveAtKeeps DEF TypeOK
    <3>4. UNCHANGED <<pc, log, batch, unanswered>>
      BY <2>4 DEF PurgeEntry
    <3> QED
      BY <3>2, <3>3, <3>4 DEF NoLostRequest
  <2>5. CASE PurgeDone(s)
    BY <2>5, LostFrame DEF PurgeDone
  <2> QED
    BY <1>4, <2>1, <2>2, <2>3, <2>4, <2>5 DEF Sweep
<1>5. CASE Time
  BY <1>5 DEF Time, TimerElapses, LockExpires, GoesStale, CacheExpires, NoLostRequest
<1>6. CASE UNCHANGED vars
  BY <1>6 DEF vars, NoLostRequest
<1> QED
  BY <1>1, <1>2, <1>3, <1>4, <1>5, <1>6 DEF Next

\* A request accepted into the queue is never dropped on the floor: neither by a drain
\* that races another task's, nor by the purge of the expiry sweep, nor by the end of a
\* batch that answered others only.
THEOREM NoLostRequestCorrect == Spec => []NoLostRequest
<1> DEFINE Inv == PlaceInv /\ LogInv /\ NoLostRequest
<1>1. Init => Inv
  BY PlaceInit, LogInit DEF Init, NoLostRequest
<1>2. TypeOK /\ Inv /\ [Next]_vars => Inv'
  BY PlaceStep, LogStep, LostStep
<1>3. Inv => NoLostRequest
  OBVIOUS
<1> QED
  BY <1>1, <1>2, <1>3, TypeCorrect, PTL DEF Spec
-----------------------------------------------------------------------------
(* Delivered is settled.                                                   *)

\* The requests task t is working for: its batch, and the merged callers it picked up.
Work(t) == ToSet(batch[t]) \cup fanned[t]

\* The fan-out: nobody is answered by a task outside its delivery, and a merged
\* caller is picked up by one task, which is about to clear the merge set it read.
FanInv ==
  /\ \A t \in Tasks :
       /\ pc[t] \notin Delivering => answered[t] = {} /\ fanned[t] = {}
       /\ pc[t] \in {"fan", "clear"} => todo[t] \subseteq answered[t]
       /\ pc[t] = "clear" => cur[t] \in todo[t]
       /\ \A r \in fanned[t] : r \in mergeSet[mergedInto[r]] =>
            pc[t] = "clear" /\ cur[t] = mergedInto[r]
  /\ \A t, u \in Tasks : t # u => fanned[t] \cap fanned[u] = {}

\* No request is worked for by two tasks.
LEMMA OneWorker ==
  ASSUME TypeOK, PlaceInv, LogInv, FanInv,
         NEW t \in Tasks, NEW u \in Tasks, NEW r \in Work(t), r \in Work(u)
  PROVE  t = u
<1>1. r \in Requests
  BY ToSetType DEF TypeOK, Work
<1>2. \A v \in Tasks : r \in ToSet(batch[v]) => mergedInto[r] = None
  BY <1>1 DEF LogInv, Logged, InFlight
<1>3. \A v \in Tasks : r \in fanned[v] => mergedInto[r] # None
  BY DEF LogInv, Merged
<1> QED
  BY <1>2, <1>3 DEF Work, PlaceInv, OnePlace, FanInv

\* A step of task t outside the fan-out.
LEMMA FanFrame ==
  ASSUME TypeOK, FanInv, NEW t \in Tasks, NEW m, Goto(t, m),
         UNCHANGED <<mergedInto, mergeSet, answered, fanned>>,
         \A u \in Tasks : u # t => todo'[u] = todo[u] /\ cur'[u] = cur[u],
         pc[t] # "clear", m \notin {"fan", "clear"},
         m \notin Delivering => pc[t] \notin Delivering
  PROVE  FanInv'
BY DEF TypeOK, Goto, FanInv

LEMMA FanStep == TypeOK /\ PlaceInv /\ LogInv /\ FanInv /\ [Next]_vars => FanInv'
<1> SUFFICES ASSUME TypeOK, PlaceInv, LogInv, FanInv, [Next]_vars
             PROVE  FanInv'
  OBVIOUS
<1> USE DEF At, redis, sql, frame, Delivering
<1>1. ASSUME NEW r \in Requests, Intake(r)
      PROVE  FanInv'
  <2>1. CASE ServeCached(r)
    BY <2>1, FanFrame DEF ServeCached
  <2>2. CASE CacheMiss(r)
    BY <2>2, FanFrame DEF CacheMiss
  <2>3. CASE ClaimSlot(r)
    <3>1. /\ Goto(r, "depth") \/ Goto(r, "whose")
          /\ pc[r] = "claim"
          /\ UNCHANGED <<mergedInto, mergeSet, answered, fanned, todo, cur>>
      BY <2>3 DEF ClaimSlot
    <3> QED
      BY <3>1, FanFrame
  <2>4. CASE ReadOwner(r)
    <3>1. /\ pc[r] = "whose"
          /\ pc' = [pc EXCEPT ![r] = IF pending[Fp[r]] = None THEN "depth" ELSE "record"]
          /\ \A u \in Requests : u # r => mergedInto'[u] = mergedInto[u]
          /\ UNCHANGED <<mergeSet, answered, fanned, todo, cur>>
      BY <2>4 DEF ReadOwner, Goto, TypeOK
    <3>2. \A t \in Tasks : r \notin fanned[t]
      BY <3>1 DEF LogInv, Merged, Logged, QueuePath
    <3>3. \A t \in Tasks : \A u \in fanned[t] : mergedInto'[u] = mergedInto[u]
      BY <3>1, <3>2 DEF TypeOK
    <3>4. \A t \in Tasks :
            pc'[t] = pc[t] \/ (pc'[t] \notin Delivering /\ pc[t] \notin Delivering)
      BY <3>1 DEF TypeOK
    <3> QED
      BY <3>1, <3>3, <3>4 DEF FanInv
  <2>5. CASE RecordMerge(r)
    <3>1. /\ pc[r] = "record" /\ pc' = [pc EXCEPT ![r] = "logMerged"]
          /\ mergeSet' = [mergeSet EXCEPT ![mergedInto[r]] = @ \cup {r}]
          /\ UNCHANGED <<mergedInto, answered, fanned, todo, cur>>
      BY <2>5 DEF RecordMerge, Goto
    <3>2. \A t \in Tasks : r \notin fanned[t]
      BY <3>1 DEF LogInv, Merged
    <3>3. \A o, u \in Requests : u # r /\ u \in mergeSet'[o] => u \in mergeSet[o]
      BY <3>1 DEF TypeOK
    <3>4. \A t \in Tasks : \A u \in fanned[t] :
            u \in Requests /\ mergedInto[u] \in Requests /\ u # r
      BY <3>2 DEF TypeOK, LogInv, Merged
    <3> QED
      BY <3>1, <3>3, <3>4 DEF FanInv, TypeOK
  <2>6. CASE LogMerged(r)
    BY <2>6, FanFrame DEF LogMerged
  <2>7. CASE CheckDepth(r)
    BY <2>7, FanFrame DEF CheckDepth
  <2>8. CASE ReleaseRefused(r)
    BY <2>8, FanFrame DEF ReleaseRefused
  <2>9. CASE LogQueued(r)
    BY <2>9, FanFrame DEF LogQueued
  <2>10. CASE Push(r)
    BY <2>10, FanFrame DEF Push
  <2>11. CASE OpenWindow(r)
    BY <2>11, FanFrame DEF OpenWindow
  <2>12. CASE CheckSize(r)
    BY <2>12, FanFrame DEF CheckSize
  <2> QED
    BY <1>1, <2>1, <2>2, <2>3, <2>4, <2>5, <2>6, <2>7, <2>8, <2>9, <2>10, <2>11, <2>12 DEF Intake
<1>2. ASSUME NEW t \in Tasks, Fire(t)
      PROVE  FanInv'
  <2>1. CASE FireLock(t)
    BY <2>1, FanFrame DEF FireLock, Finish
  <2>2. CASE Drain(t)
    BY <2>2, FanFrame DEF Drain
  <2>3. CASE Close(t)
    BY <2>3, FanFrame DEF Close
  <2>4. CASE Recheck(t)
    BY <2>4, FanFrame DEF Recheck, AfterReopen
  <2>5. CASE Reopen(t)
    BY <2>5, FanFrame DEF Reopen, AfterReopen
  <2>6. CASE Release(t)
    BY <2>6, FanFrame DEF Release
  <2>7. CASE Unlock(t)
    BY <2>7, FanFrame DEF Unlock, Finish
  <2> QED
    BY <1>2, <2>1, <2>2, <2>3, <2>4, <2>5, <2>6, <2>7 DEF Fire
<1>3. ASSUME NEW t \in Tasks, Process(t)
      PROVE  FanInv'
  <2>1. CASE Dispatch(t)
    <3>1. /\ pc[t] = "dispatch" /\ pc' = [pc EXCEPT ![t] = "fan"]
          /\ UNCHANGED <<mergedInto, mergeSet, fanned, cur>>
      BY <2>1 DEF Dispatch, Goto
    <3>2. PICK S : answered' = [answered EXCEPT ![t] = S] /\ todo' = [todo EXCEPT ![t] = S]
      BY <2>1 DEF Dispatch
    <3> QED
      BY <3>1, <3>2 DEF FanInv, TypeOK
  <2>2. CASE FanOut(t)
    <3>1. /\ pc[t] = "fan" /\ pc' = [pc EXCEPT ![t] = "clear"]
          /\ UNCHANGED <<batch, mergedInto, mergeSet, answered, todo>>
      BY <2>2 DEF FanOut, Goto
    <3>2. PICK d \in todo[t] : /\ cur' = [cur EXCEPT ![t] = d]
                               /\ fanned' = [fanned EXCEPT ![t] = @ \cup mergeSet[d]]
      BY <2>2 DEF FanOut
    <3>3. d \in Requests /\ d \in ToSet(batch[t])
      BY <3>1 DEF TypeOK, FanInv, LogInv, Answers
    <3>4. \A r \in mergeSet[d] : r \in Requests /\ mergedInto[r] = d
      BY <3>3 DEF TypeOK, LogInv, Merged
    <3>5. ASSUME NEW u \in Tasks, u # t, NEW r \in mergeSet[d], r \in fanned[u]
          PROVE  FALSE
      <4>1. pc[u] = "clear" /\ cur[u] = d
        BY <3>4, <3>5 DEF FanInv
      <4>2. d \in ToSet(batch[u])
        BY <4>1 DEF FanInv, LogInv, Answers
      <4> QED
        BY <3>3, <3>5, <4>2 DEF PlaceInv, OnePlace
    <3>6. \A r \in fanned[t] : r \notin mergeSet[mergedInto[r]]
      BY <3>1 DEF FanInv
    <3>7. fanned'[t] = fanned[t] \cup mergeSet[d] /\ cur'[t] = d /\ pc'[t] = "clear"
      BY <3>1, <3>2 DEF TypeOK
    <3>8. \A u \in Tasks : u # t =>
            fanned'[u] = fanned[u] /\ cur'[u] = cur[u] /\ pc'[u] = pc[u]
      BY <3>1, <3>2 DEF TypeOK
    <3>9. \A r \in fanned'[t] : r \in mergeSet[mergedInto[r]] => d = mergedInto[r]
      BY <3>4, <3>6, <3>7
    <3>10. \A u, v \in Tasks : u # v => fanned'[u] \cap fanned'[v] = {}
      BY <3>5, <3>7, <3>8 DEF FanInv
    <3> QED
      BY <3>1, <3>7, <3>8, <3>9, <3>10 DEF FanInv
  <2>3. CASE ClearMergeSet(t)
    <3>1. /\ pc[t] = "clear" /\ pc' = [pc EXCEPT ![t] = "fan"]
          /\ mergeSet' = [mergeSet EXCEPT ![cur[t]] = {}]
          /\ todo' = [todo EXCEPT ![t] = @ \ {cur[t]}]
          /\ cur' = [cur EXCEPT ![t] = None]
          /\ UNCHANGED <<mergedInto, answered, fanned>>
      BY <2>3 DEF ClearMergeSet, Goto
    <3>2. \A o \in Requests : mergeSet'[o] = IF o = cur[t] THEN {} ELSE mergeSet[o]
      BY <3>1 DEF TypeOK
    <3>3. \A u \in Tasks : \A r \in fanned[u] : mergedInto[r] \in Requests
      BY DEF TypeOK, LogInv, Merged
    <3> QED
      BY <3>1, <3>2, <3>3 DEF FanInv, TypeOK
  <2>4. CASE CommitDeliveries(t)
    BY <2>4, FanFrame DEF CommitDeliveries
  <2>5. CASE ResolveCallers(t)
    BY <2>5, FanFrame DEF ResolveCallers, TypeOK
  <2>6. CASE RecordSettlement(t)
    <3>1. /\ pc[t] = "settle"
          /\ UNCHANGED <<pc, mergedInto, mergeSet, answered, fanned, cur>>
          /\ \A u \in Tasks : u # t => todo'[u] = todo[u]
      BY <2>6 DEF RecordSettlement, TypeOK
    <3> QED
      BY <3>1 DEF FanInv
  <2>7. CASE FinishBatch(t)
    <3>1. /\ pc[t] = "settle" /\ pc' = [pc EXCEPT ![t] = Finish(t)]
          /\ Finish(t) \in {"done", "expire"}
          /\ fanned' = [fanned EXCEPT ![t] = {}]
          /\ answered' = [answered EXCEPT ![t] = {}]
          /\ UNCHANGED <<mergedInto, mergeSet, todo, cur>>
      BY <2>7 DEF FinishBatch, Goto, Finish
    <3> QED
      BY <3>1 DEF FanInv, TypeOK
  <2> QED
    BY <1>3, <2>1, <2>2, <2>3, <2>4, <2>5, <2>6, <2>7 DEF Process
<1>4. ASSUME NEW s \in Sweepers, Sweep(s)
      PROVE  FanInv'
  <2>1. CASE CheckTimer(s)
    BY <2>1, FanFrame DEF CheckTimer
  <2>2. CASE ExpireRows(s)
    <3>1. /\ Goto(s, "peek") \/ Goto(s, "idle")
          /\ pc[s] = "expire"
          /\ UNCHANGED <<mergedInto, mergeSet, answered, fanned, cur>>
          /\ \A u \in Tasks : u # s => todo'[u] = todo[u]
      BY <2>2 DEF ExpireRows, TypeOK
    <3> QED
      BY <3>1, FanFrame
  <2>3. CASE PeekStale(s)
    BY <2>3, FanFrame DEF PeekStale, TypeOK
  <2>4. CASE PurgeEntry(s)
    <3>1. /\ pc[s] = "purge"
          /\ UNCHANGED <<pc, mergedInto, mergeSet, answered, fanned, cur>>
          /\ \A u \in Tasks : u # s => todo'[u] = todo[u]
      BY <2>4 DEF PurgeEntry, TypeOK
    <3> QED
      BY <3>1 DEF FanInv
  <2>5. CASE PurgeDone(s)
    BY <2>5, FanFrame DEF PurgeDone
  <2> QED
    BY <1>4, <2>1, <2>2, <2>3, <2>4, <2>5 DEF Sweep
<1>5. CASE Time
  BY <1>5 DEF Time, TimerElapses, LockExpires, GoesStale, CacheExpires, FanInv
<1>6. CASE UNCHANGED vars
  BY <1>6 DEF vars, FanInv
<1> QED
  BY <1>1, <1>2, <1>3, <1>4, <1>5, <1>6 DEF Next

\* Nothing will take request r up (again): it is past accept, and waits nowhere.
Past(r) ==
  /\ pc[r] \notin Accepting /\ r \notin ToSet(queue)
  /\ \A o \in Requests : r \notin mergeSet[o]

\* A settled request has been settled for good; a served one is at most still to be
\* billed by the task that delivered it.
Spent ==
  \A r \in Requests :
    /\ settled[r] <= 1
    /\ settled[r] = 1 =>
         Past(r) /\ \A t \in Tasks : r \in Work(t) => pc[t] = "settle" /\ r \notin todo[t]
    /\ log[r] \in {"cached", "delivered"} =>
         Past(r) /\ \A t \in Tasks : r \in Work(t) => pc[t] \in {"callers", "settle"}

\* What the settlement loop still has to visit, and what it has visited.
Bills ==
  \A t \in Tasks : pc[t] = "settle" =>
    /\ \A r \in todo[t] : r \in answered[t] \cup fanned[t] /\ log[r] # "none"
    /\ \A r \in answered[t] \cup fanned[t] :
         log[r] = "delivered" => r \in todo[t] \/ settled[r] = 1

SettleInv == Spent /\ Bills

\* A step after which whoever was served is settled, or being settled, if he was before.
StaysSettled == DeliveredIsSettled => DeliveredIsSettled'

\* A step that settles nobody and moves no task in or out of billing: whom it serves
\* is past, whom it takes up is not.
LEMMA SpentFrame ==
  ASSUME Spent, settled' = settled,
         \A r \in Requests : Past(r) => Past(r)',
         \A t \in Tasks : \A r \in Work(t)' : r \in Work(t) \/ ~ Past(r),
         \A r \in Requests : log'[r] \in {"cached", "delivered"} =>
           log[r] \in {"cached", "delivered"} \/ (Past(r)' /\ \A t \in Tasks : r \notin Work(t)'),
         \A t \in Tasks : pc[t] \in {"callers", "settle"} => pc'[t] = pc[t] /\ todo'[t] = todo[t]
  PROVE  Spent'
BY DEF Spent

\* A step that delivers and settles nobody and lets no task start billing.
LEMMA BillsFrame ==
  ASSUME TypeOK, Bills, UNCHANGED <<answered, fanned, settled>>,
         \A t \in Tasks : pc'[t] = "settle" => pc[t] = "settle" /\ todo'[t] = todo[t],
         \A r \in Requests : /\ log[r] # "none" => log'[r] # "none"
                             /\ log'[r] = "delivered" => log[r] = "delivered"
  PROVE  Bills' /\ StaysSettled
<1>1. \A t \in Tasks : answered[t] \cup fanned[t] \subseteq Requests
  BY DEF TypeOK
<1> QED
  BY <1>1 DEF Bills, DeliveredIsSettled, StaysSettled

\* A step of task t that writes neither ledger and moves nobody, outside billing.
LEMMA SettleFrame ==
  ASSUME TypeOK, SettleInv, NEW t \in Tasks, NEW m, Goto(t, m),
         UNCHANGED <<queue, batch, mergeSet, answered, fanned, log, settled>>,
         \A u \in Tasks : u # t => todo'[u] = todo[u],
         m \in Accepting => pc[t] \in Accepting,
         pc[t] \notin {"callers", "settle"}, m # "settle"
  PROVE  SettleInv' /\ StaysSettled
<1> USE DEF TypeOK, Goto
<1>1. Spent'
  BY DEF SettleInv, Spent, Past, Work
<1>2. Bills'
  BY DEF SettleInv, Bills
<1>3. StaysSettled
  BY DEF SettleInv, DeliveredIsSettled, StaysSettled
<1> QED
  BY <1>1, <1>2, <1>3 DEF SettleInv

LEMMA SettleStep ==
  TypeOK /\ PlaceInv /\ LogInv /\ FanInv /\ SettleInv /\ [Next]_vars =>
    SettleInv' /\ StaysSettled
<1> SUFFICES ASSUME TypeOK, PlaceInv, LogInv, FanInv, SettleInv, [Next]_vars
             PROVE  SettleInv' /\ StaysSettled
  OBVIOUS
<1> USE DEF At, redis, sql, frame
<1>Parts. /\ Spent /\ Bills
          /\ Logged /\ Merged /\ Answers /\ Purged
  BY DEF SettleInv, LogInv
<1>Types. \A t \in Tasks : Work(t) \subseteq Requests
  BY ToSetType DEF TypeOK, Work
<1>Answered. \A t \in Tasks : pc[t] \in Delivering =>
               answered[t] \subseteq ToSet(batch[t]) /\ answered[t] \cup fanned[t] \subseteq Work(t)
  BY <1>Parts DEF Answers, Work
<1>Fanned. \A t \in Tasks : \A r \in fanned[t] :
             /\ mergedInto[r] # None /\ ~ InFlight(r)
             /\ pc[r] \notin Accepting \ {"logMerged"}
             /\ log[r] # "none" => pc[r] \notin Accepting
  BY <1>Parts DEF TypeOK, Merged, Logged, Accepting, QueuePath, Unlogged
<1>1. ASSUME NEW r \in Requests, Intake(r)
      PROVE  SettleInv' /\ StaysSettled
  <2>1. CASE ServeCached(r)
    <3>1. /\ pc[r] = "start" /\ pc' = [pc EXCEPT ![r] = "done"]
          /\ log' = [log EXCEPT ![r] = "cached"]
          /\ UNCHANGED <<queue, batch, mergeSet, fanned, answered, settled, todo>>
      BY <2>1 DEF ServeCached, Goto
    <3>2. /\ r \notin ToSet(queue)
          /\ \A o \in Requests : r \notin mergeSet[o]
          /\ \A t \in Tasks : r \notin Work(t)
      BY <3>1, <1>Parts, <1>Fanned DEF PlaceInv, Accepting, Logged, Merged, QueuePath, Work
    <3>3. Spent'
      <4>1. Past(r)' /\ \A u \in Requests : Past(u) => Past(u)'
        BY <3>1, <3>2 DEF TypeOK, Past, Accepting
      <4>2. \A t \in Tasks : Work(t)' = Work(t)
        BY <3>1 DEF Work
      <4>3. \A u \in Requests : u # r => log'[u] = log[u]
        BY <3>1 DEF TypeOK
      <4>4. \A t \in Tasks : pc[t] \in {"callers", "settle"} => pc'[t] = pc[t]
        BY <3>1 DEF TypeOK
      <4> QED
        BY <3>1, <3>2, <4>1, <4>2, <4>3, <4>4, <1>Parts, SpentFrame
    <3>4. Bills' /\ StaysSettled
      <4>1. \A t \in Tasks : pc'[t] = "settle" => pc[t] = "settle"
        BY <3>1 DEF TypeOK
      <4>2. \A u \in Requests : log'[u] = log[u] \/ log'[u] \notin {"none", "delivered"}
        BY <3>1 DEF TypeOK
      <4> QED
        BY <3>1, <4>1, <4>2, <1>Parts, BillsFrame
    <3> QED
      BY <3>3, <3>4 DEF SettleInv
  <2>2. CASE CacheMiss(r)
    BY <2>2, SettleFrame DEF CacheMiss, Accepting
  <2>3. CASE ClaimSlot(r)
    <3>1. /\ Goto(r, "depth") \/ Goto(r, "whose")
          /\ pc[r] = "claim"
          /\ UNCHANGED <<queue, batch, mergeSet, answered, fanned, log, settled, todo>>
      BY <2>3 DEF ClaimSlot
    <3> QED
      BY <3>1, SettleFrame DEF Accepting
  <2>4. CASE ReadOwner(r)
    BY <2>4, SettleFrame DEF ReadOwner, Accepting
  <2>5. CASE RecordMerge(r)
    <3>1. /\ pc[r] = "record" /\ pc' = [pc EXCEPT ![r] = "logMerged"]
          /\ mergeSet' = [mergeSet EXCEPT ![mergedInto[r]] = @ \cup {r}]
          /\ UNCHANGED <<queue, batch, log, fanned, answered, settled, todo>>
      BY <2>5 DEF RecordMerge, Goto
    <3>2. settled[r] # 1 /\ log[r] = "none"
      BY <3>1, <1>Parts DEF Spent, Past, Accepting, Logged, Unlogged
    <3>3. \A o, u \in Requests : u # r /\ u \in mergeSet'[o] => u \in mergeSet[o]
      BY <3>1 DEF TypeOK
    <3>4. Spent'
      BY <3>1, <3>2, <3>3, <1>Parts DEF TypeOK, Spent, Past, Work, Accepting
    <3>5. Bills' /\ StaysSettled
      BY <3>1, <1>Parts DEF TypeOK, Bills, DeliveredIsSettled, StaysSettled
    <3> QED
      BY <3>4, <3>5 DEF SettleInv
  <2>6. CASE LogMerged(r)
    <3>1. /\ pc[r] = "logMerged"
          /\ pc' = [pc EXCEPT ![r] = IF r \in Priority THEN "lock" ELSE "done"]
          /\ log' = [log EXCEPT ![r] = "merged"]
          /\ UNCHANGED <<queue, batch, mergeSet, fanned, answered, settled, todo>>
      BY <2>6 DEF LogMerged, Goto
    <3>2. Spent'
      <4>1. \A u \in Requests : Past(u) => Past(u)'
        BY <3>1 DEF TypeOK, Past, Accepting
      <4>2. \A t \in Tasks : Work(t)' = Work(t)
        BY <3>1 DEF Work
      <4>3. \A u \in Requests : log'[u] \in {"cached", "delivered"} => log'[u] = log[u]
        BY <3>1 DEF TypeOK
      <4>4. \A t \in Tasks : pc[t] \in {"callers", "settle"} => pc'[t] = pc[t]
        BY <3>1 DEF TypeOK
      <4> QED
        BY <3>1, <4>1, <4>2, <4>3, <4>4, <1>Parts, SpentFrame
    <3>3. Bills' /\ StaysSettled
      <4>1. \A t \in Tasks : pc'[t] = "settle" => pc[t] = "settle"
        BY <3>1 DEF TypeOK
      <4>2. \A u \in Requests : log'[u] = log[u] \/ log'[u] \notin {"none", "delivered"}
        BY <3>1 DEF TypeOK
      <4> QED
        BY <3>1, <4>1, <4>2, <1>Parts, BillsFrame
    <3> QED
      BY <3>2, <3>3 DEF SettleInv
  <2>7. CASE CheckDepth(r)
    BY <2>7, SettleFrame DEF CheckDepth, Accepting
  <2>8. CASE ReleaseRefused(r)
    BY <2>8, SettleFrame DEF ReleaseRefused, Accepting
  <2>9. CASE LogQueued(r)
    <3>1. /\ pc[r] = "log" /\ pc' = [pc EXCEPT ![r] = "push"]
          /\ log' = [log EXCEPT ![r] = "queued"]
          /\ UNCHANGED <<queue, batch, mergeSet, fanned, answered, settled, todo>>
      BY <2>9 DEF LogQueued, Goto
    <3>2. Spent'
      <4>1. \A u \in Requests : Past(u) => Past(u)'
        BY <3>1 DEF TypeOK, Past, Accepting
      <4>2. \A t \in Tasks : Work(t)' = Work(t)
        BY <3>1 DEF Work
      <4>3. \A u \in Requests : log'[u] \in {"cached", "delivered"} => log'[u] = log[u]
        BY <3>1 DEF TypeOK
      <4>4. \A t \in Tasks : pc[t] \in {"callers", "settle"} => pc'[t] = pc[t]
        BY <3>1 DEF TypeOK
      <4> QED
        BY <3>1, <4>1, <4>2, <4>3, <4>4, <1>Parts, SpentFrame
    <3>3. Bills' /\ StaysSettled
      <4>1. \A t \in Tasks : pc'[t] = "settle" => pc[t] = "settle"
        BY <3>1 DEF TypeOK
      <4>2. \A u \in Requests : log'[u] = log[u] \/ log'[u] \notin {"none", "delivered"}
        BY <3>1 DEF TypeOK
      <4> QED
        BY <3>1, <4>1, <4>2, <1>Parts, BillsFrame
    <3> QED
      BY <3>2, <3>3 DEF SettleInv
  <2>10. CASE Push(r)
    <3>1. /\ pc[r] = "push" /\ pc' = [pc EXCEPT ![r] = "open"]
          /\ UNCHANGED <<log, batch, mergeSet, fanned, answered, settled, todo>>
      BY <2>10 DEF Push, Goto
    <3>2. ToSet(queue') = ToSet(queue) \cup {r}
      BY <2>10, AppendToSet DEF Push, TypeOK
    <3>3. settled[r] # 1 /\ log[r] \notin {"cached", "delivered"}
      BY <3>1, <1>Parts DEF Spent, Past, Accepting
    <3>4. Spent'
      BY <3>1, <3>2, <3>3, <1>Parts DEF TypeOK, Spent, Past, Work, Accepting
    <3>5. Bills' /\ StaysSettled
      BY <3>1, <1>Parts DEF TypeOK, Bills, DeliveredIsSettled, StaysSettled
    <3> QED
      BY <3>4, <3>5 DEF SettleInv
  <2>11. CASE OpenWindow(r)
    BY <2>11, SettleFrame DEF OpenWindow, Accepting
  <2>12. CASE CheckSize(r)
    BY <2>12, SettleFrame DEF CheckSize, Accepting
  <2> QED
    BY <1>1, <2>1, <2>2, <2>3, <2>4, <2>5, <2>6, <2>7, <2>8, <2>9, <2>10, <2>11, <2>12 DEF Intake
<1>2. ASSUME NEW t \in Tasks, Fire(t)
      PROVE  SettleInv' /\ StaysSettled
  <2>1. CASE FireLock(t)
    BY <2>1, SettleFrame DEF FireLock, Finish, Accepting
  <2>2. CASE Drain(t)
    <3>1. /\ pc[t] = "drain" /\ pc' = [pc EXCEPT ![t] = "close"]
          /\ UNCHANGED <<log, mergeSet, fanned, answered, settled, todo>>
          /\ ToSet(queue') = {}
      BY <2>2 DEF Drain, Goto, ToSet
    <3>2. \A u \in Tasks : Work(u)' = IF u = t THEN ToSet(queue) \cup fanned[t] ELSE Work(u)
      BY <2>2 DEF Drain, TypeOK, Work
    <3>3. fanned[t] = {}
      BY <3>1 DEF FanInv, Delivering
    <3>4. Spent'
      BY <3>1, <3>2, <3>3, <1>Parts DEF TypeOK, Spent, Past, Accepting
    <3>5. Bills' /\ StaysSettled
      BY <3>1, <1>Parts DEF TypeOK, Bills, DeliveredIsSettled, StaysSettled
    <3> QED
      BY <3>4, <3>5 DEF SettleInv
  <2>3. CASE Close(t)
    BY <2>3, SettleFrame DEF Close, Accepting
  <2>4. CASE Recheck(t)
    BY <2>4, SettleFrame DEF Recheck, AfterReopen, Accepting
  <2>5. CASE Reopen(t)
    BY <2>5, SettleFrame DEF Reopen, AfterReopen, Accepting
  <2>6. CASE Release(t)
    BY <2>6, SettleFrame DEF Release, Accepting
  <2>7. CASE Unlock(t)
    BY <2>7, SettleFrame DEF Unlock, Finish, Accepting
  <2> QED
    BY <1>2, <2>1, <2>2, <2>3, <2>4, <2>5, <2>6, <2>7 DEF Fire
<1>3. ASSUME NEW t \in Tasks, Process(t)
      PROVE  SettleInv' /\ StaysSettled
  <2>1. CASE Dispatch(t)
    <3>1. /\ pc[t] = "dispatch" /\ pc' = [pc EXCEPT ![t] = "fan"]
          /\ UNCHANGED <<queue, batch, log, mergeSet, fanned, settled>>
      BY <2>1 DEF Dispatch, Goto
    <3>2. \A u \in Tasks : u # t => answered'[u] = answered[u] /\ todo'[u] = todo[u]
      BY <2>1 DEF Dispatch, TypeOK
    <3>3. answered[t] = {}
      BY <3>1 DEF FanInv, Delivering
    <3>4. Spent'
      BY <3>1, <3>2, <1>Parts DEF TypeOK, Spent, Past, Work, Accepting
    <3>5. Bills'
      BY <3>1, <3>2, <1>Parts DEF TypeOK, Bills
    <3>6. StaysSettled
      BY <3>1, <3>2, <3>3, <1>Parts DEF DeliveredIsSettled, StaysSettled
    <3> QED
      BY <3>4, <3>5, <3>6 DEF SettleInv
  <2>2. CASE FanOut(t)
    <3>1. /\ pc[t] = "fan" /\ pc' = [pc EXCEPT ![t] = "clear"]
          /\ UNCHANGED <<queue, batch, log, mergeSet, answered, settled, todo>>
      BY <2>2 DEF FanOut, Goto
    <3>2. PICK d \in Requests : fanned' = [fanned EXCEPT ![t] = @ \cup mergeSet[d]]
      BY <2>2 DEF FanOut, TypeOK
    <3>3. \A u \in Tasks : fanned'[u] = IF u = t THEN fanned[t] \cup mergeSet[d] ELSE fanned[u]
      BY <3>2 DEF TypeOK
    <3>4. Spent'
      <4>1. \A u \in Requests : Past(u) => Past(u)'
        BY <3>1 DEF TypeOK, Past, Accepting
      <4>2. \A u \in Tasks : \A r \in Work(u)' : r \in Work(u) \/ ~ Past(r)
        BY <3>1, <3>2, <3>3 DEF Work, Past
      <4>3. \A u \in Tasks : pc[u] \in {"callers", "settle"} => pc'[u] = pc[u]
        BY <3>1 DEF TypeOK
      <4> QED
        BY <3>1, <4>1, <4>2, <4>3, <1>Parts, SpentFrame
    <3>5. Bills'
      BY <3>1, <3>3, <1>Parts DEF TypeOK, Bills
    <3>6. StaysSettled
      BY <3>1, <3>3, <1>Parts DEF DeliveredIsSettled, StaysSettled
    <3> QED
      BY <3>4, <3>5, <3>6 DEF SettleInv
  <2>3. CASE ClearMergeSet(t)
    <3>1. /\ pc[t] = "clear" /\ pc' = [pc EXCEPT ![t] = "fan"]
          /\ \A u \in Tasks : u # t => todo'[u] = todo[u]
          /\ UNCHANGED <<queue, batch, log, fanned, answered, settled>>
      BY <2>3 DEF ClearMergeSet, Goto, TypeOK
    <3>2. \A o \in Requests : mergeSet'[o] \subseteq mergeSet[o]
      BY <2>3 DEF ClearMergeSet, TypeOK
    <3>3. Spent'
      BY <3>1, <3>2, <1>Parts DEF TypeOK, Spent, Past, Work, Accepting
    <3>4. Bills' /\ StaysSettled
      BY <3>1, <1>Parts DEF TypeOK, Bills, DeliveredIsSettled, StaysSettled
    <3> QED
      BY <3>3, <3>4 DEF SettleInv
  <2>4. CASE CommitDeliveries(t)
    <3>1. /\ pc[t] = "fan" /\ pc' = [pc EXCEPT ![t] = "callers"]
          /\ log' = [r \in Requests |->
                       IF r \in answered[t] \cup fanned[t] /\ log[r] # "none"
                       THEN "delivered" ELSE log[r]]
          /\ UNCHANGED <<queue, batch, mergeSet, fanned, answered, settled, todo>>
      BY <2>4 DEF CommitDeliveries, Goto
    <3>2. \A r \in Requests :
            \/ log'[r] = log[r]
            \/ r \in answered[t] \cup fanned[t] /\ log[r] # "none" /\ log'[r] = "delivered"
      BY <3>1
    <3>3. \A r \in answered[t] \cup fanned[t] :
            r \in Work(t) /\ \A u \in Tasks : r \in Work(u) => u = t
      BY <3>1, <1>Answered, OneWorker DEF Delivering
    <3>4. ASSUME NEW r \in answered[t] \cup fanned[t], log[r] # "none"
          PROVE  Past(r)
      <4>1. CASE r \in answered[t]
        <5>1. r \in ToSet(batch[t]) /\ r \in Requests
          BY <3>1, <4>1, <1>Answered DEF Delivering, TypeOK
        <5> QED
          BY <5>1, <1>Parts DEF Past, PlaceInv, OnePlace, Logged, InFlight, Merged
      <4>2. CASE r \in fanned[t]
        <5>1. r \in Requests /\ r \notin mergeSet[mergedInto[r]]
          BY <3>1, <4>2 DEF TypeOK, FanInv
        <5> QED
          BY <3>4, <4>2, <5>1, <1>Fanned, <1>Parts DEF Past, InFlight, Merged
      <4> QED
        BY <4>1, <4>2
    <3>5. \A r \in Requests : Past(r) => Past(r)'
      BY <3>1 DEF Past, TypeOK, Accepting
    <3>6. \A u \in Tasks : Work(u)' = Work(u)
      BY <3>1 DEF Work
    <3>7. Spent'
      BY <3>1, <3>2, <3>3, <3>4, <3>5, <3>6, <1>Parts DEF Spent, TypeOK
    <3>8. Bills'
      <4> SUFFICES ASSUME NEW u \in Tasks, pc'[u] = "settle"
                   PROVE  /\ \A r \in todo[u] :
                               r \in answered[u] \cup fanned[u] /\ log'[r] # "none"
                          /\ \A r \in answered[u] \cup fanned[u] :
                               log'[r] = "delivered" => r \in todo[u] \/ settled[r] = 1
        BY <3>1 DEF Bills
      <4>1. u # t /\ pc[u] = "settle"
        BY <3>1 DEF TypeOK
      <4>2. \A r \in answered[u] \cup fanned[u] :
              r \in Requests /\ r \notin answered[t] \cup fanned[t]
        BY <3>3, <4>1, <1>Answered, <1>Types DEF Delivering
      <4> QED
        BY <3>2, <4>1, <4>2, <1>Parts DEF Bills
    <3>9. StaysSettled
      BY <3>1, <3>2, <1>Parts DEF DeliveredIsSettled, StaysSettled
    <3> QED
      BY <3>7, <3>8, <3>9 DEF SettleInv
  <2>5. CASE ResolveCallers(t)
    <3>1. /\ pc[t] = "callers" /\ pc' = [pc EXCEPT ![t] = "settle"]
          /\ UNCHANGED <<queue, batch, log, mergeSet, fanned, answered, settled>>
      BY <2>5 DEF ResolveCallers, Goto
    <3>2. \A u \in Tasks :
            todo'[u] = IF u = t THEN {r \in answered[t] \cup fanned[t] :
                                        r \in ToSet(batch[t]) \/ log[r] # "none"}
                       ELSE todo[u]
      BY <2>5 DEF ResolveCallers, TypeOK
    <3>3. \A r \in answered[t] : r \in Requests /\ log[r] # "none"
      BY <3>1, <1>Answered, <1>Parts DEF Delivering, Logged, InFlight, TypeOK
    <3>4. \A r \in fanned[t] : r \notin ToSet(batch[t])
      BY <1>Fanned DEF InFlight
    <3>5. Spent'
      <4>1. \A u \in Requests : Past(u) => Past(u)'
        BY <3>1 DEF TypeOK, Past, Accepting
      <4>2. \A u \in Tasks : Work(u)' = Work(u)
        BY <3>1 DEF Work
      <4>3. \A u \in Tasks : u # t => pc'[u] = pc[u] /\ todo'[u] = todo[u]
        BY <3>1, <3>2 DEF TypeOK
      <4>4. pc'[t] = "settle"
        BY <3>1 DEF TypeOK
      <4> QED
        BY <3>1, <4>1, <4>2, <4>3, <4>4, <1>Parts DEF Spent
    <3>6. Bills'
      <4>1. \A u \in Tasks : u # t => pc'[u] = pc[u]
        BY <3>1 DEF TypeOK
      <4>2. \A r \in answered[t] \cup fanned[t] :
              r \in todo'[t] <=> r \in ToSet(batch[t]) \/ log[r] # "none"
        BY <3>2
      <4>3. \A r \in todo'[t] : r \in answered[t] \cup fanned[t] /\ log[r] # "none"
        BY <3>2, <3>3, <3>4
      <4> QED
        BY <3>1, <3>2, <4>1, <4>2, <4>3, <1>Parts DEF Bills
    <3>7. StaysSettled
      BY <3>1, <1>Parts DEF DeliveredIsSettled, StaysSettled
    <3> QED
      BY <3>5, <3>6, <3>7 DEF SettleInv
  <2>6. CASE RecordSettlement(t)
    <3>1. /\ pc[t] = "settle"
          /\ UNCHANGED <<pc, queue, batch, log, mergeSet, fanned, answered>>
      BY <2>6 DEF RecordSettlement
    <3>2. PICK d \in todo[t] : /\ settled' = [settled EXCEPT ![d] = @ + 1]
                               /\ todo' = [todo EXCEPT ![t] = @ \ {d}]
      BY <2>6 DEF RecordSettlement
    <3>3. /\ d \in Requests /\ d \in answered[t] \cup fanned[t] /\ log[d] # "none"
          /\ d \in Work(t)
      BY <3>1, <1>Parts, <1>Answered, <1>Types DEF Bills, Delivering
    <3>4. settled[d] = 0
      BY <3>1, <3>3, <1>Parts DEF Spent, TypeOK
    <3>5. Past(d)
      <4>1. CASE d \in ToSet(batch[t])
        BY <3>3, <4>1, <1>Parts DEF Past, PlaceInv, OnePlace, Logged, InFlight, Merged
      <4>2. CASE d \in fanned[t]
        <5>1. d \notin mergeSet[mergedInto[d]]
          BY <3>1, <4>2 DEF FanInv
        <5> QED
          BY <3>3, <4>2, <5>1, <1>Fanned, <1>Parts DEF Past, InFlight, Merged
      <4> QED
        BY <3>3, <4>1, <4>2 DEF Work
    <3>6. \A u \in Tasks : d \in Work(u) => u = t
      BY <3>3, OneWorker
    <3>7. \A r \in Requests : settled'[r] = IF r = d THEN 1 ELSE settled[r]
      BY <3>2, <3>4 DEF TypeOK
    <3>8. \A u \in Tasks : todo'[u] = IF u = t THEN todo[t] \ {d} ELSE todo[u]
      BY <3>2 DEF TypeOK
    <3>9. /\ \A r \in Requests : Past(r)' = Past(r)
          /\ \A u \in Tasks : Work(u)' = Work(u)
      BY <3>1 DEF Past, Work
    <3>10. Spent'
      BY <3>1, <3>5, <3>6, <3>7, <3>8, <3>9, <1>Parts DEF Spent
    <3>11. \A u \in Tasks : answered[u] \cup fanned[u] \subseteq Requests
      BY DEF TypeOK
    <3>12. Bills'
      BY <3>1, <3>7, <3>8, <3>11, <1>Parts DEF Bills
    <3>13. StaysSettled
      BY <3>1, <3>7, <1>Parts DEF DeliveredIsSettled, StaysSettled
    <3> QED
      BY <3>10, <3>12, <3>13 DEF SettleInv
  <2>7. CASE FinishBatch(t)
    <3>1. /\ pc[t] = "settle" /\ pc' = [pc EXCEPT ![t] = Finish(t)]
          /\ Finish(t) \in {"done", "expire"} /\ todo[t] = {}
          /\ UNCHANGED <<queue, log, mergeSet, settled, todo>>
      BY <2>7 DEF FinishBatch, Goto, Finish
    <3>2. \A u \in Tasks :
            /\ fanned'[u] = IF u = t THEN {} ELSE fanned[u]
            /\ answered'[u] = IF u = t THEN {} ELSE answered[u]
            /\ Work(u)' = IF u = t THEN {} ELSE Work(u)
      BY <2>7 DEF FinishBatch, TypeOK, Work, ToSet
    <3>3. Spent'
      BY <3>1, <3>2, <1>Parts DEF TypeOK, Spent, Past, Accepting
    <3>4. Bills'
      BY <3>1, <3>2, <1>Parts DEF TypeOK, Bills
    <3>5. StaysSettled
      BY <3>1, <3>2, <1>Parts DEF DeliveredIsSettled, StaysSettled, Bills
    <3> QED
      BY <3>3, <3>4, <3>5 DEF SettleInv
  <2> QED
    BY <1>3, <2>1, <2>2, <2>3, <2>4, <2>5, <2>6, <2>7 DEF Process
<1>4. ASSUME NEW s \in Sweepers, Sweep(s)
      PROVE  SettleInv' /\ StaysSettled
  <2>1. CASE CheckTimer(s)
    BY <2>1, SettleFrame DEF CheckTimer, Accepting
  <2>2. CASE ExpireRows(s)
    <3>1. CASE TTL /\ Expirable # {}
      <4>1. /\ pc[s] = "expire" /\ pc' = [pc EXCEPT ![s] = "peek"]
            /\ log' = [r \in Requests |-> IF r \in Expirable THEN "failed" ELSE log[r]]
            /\ \A u \in Tasks : u # s => todo'[u] = todo[u]
            /\ UNCHANGED <<queue, batch, mergeSet, fanned, answered, settled>>
        BY <2>2, <3>1 DEF ExpireRows, Goto, TypeOK
      <4>2. \A r \in Requests : log'[r] = log[r] \/ log'[r] = "failed"
        BY <4>1
      <4>3. Spent'
        BY <4>1, <4>2, <1>Parts DEF TypeOK, Spent, Past, Work, Accepting
      <4>4. \A u \in Tasks : answered[u] \cup fanned[u] \subseteq Requests
        BY DEF TypeOK
      <4>5. \A u \in Tasks : pc'[u] = "settle" => pc[u] = "settle" /\ todo'[u] = todo[u]
        BY <4>1 DEF TypeOK
      <4>6. Bills'
        BY <4>1, <4>2, <4>4, <4>5, <1>Parts DEF Bills
      <4>7. StaysSettled
        BY <4>1, <4>2, <1>Parts DEF DeliveredIsSettled, StaysSettled
      <4> QED
        BY <4>3, <4>6, <4>7 DEF SettleInv
    <3>2. CASE ~ (TTL /\ Expirable # {})
      BY <2>2, <3>2, SettleFrame DEF ExpireRows, Accepting
    <3> QED
      BY <3>1, <3>2
  <2>3. CASE PeekStale(s)
    BY <2>3, SettleFrame DEF PeekStale, TypeOK, Accepting
  <2>4. CASE PurgeEntry(s)
    <3>1. /\ pc[s] = "purge"
          /\ UNCHANGED <<pc, batch, log, mergeSet, fanned, answered, settled>>
          /\ \A u \in Tasks : u # s => todo'[u] = todo[u]
      BY <2>4 DEF PurgeEntry, TypeOK
    <3>2. ToSet(queue') \subseteq ToSet(queue)
      BY <2>4, RemoveAtKeeps DEF PurgeEntry, TypeOK
    <3>3. Spent'
      BY <3>1, <3>2, <1>Parts DEF Spent, Past, Work
    <3>4. Bills' /\ StaysSettled
      BY <3>1, <1>Parts DEF Bills, DeliveredIsSettled, StaysSettled
    <3> QED
      BY <3>3, <3>4 DEF SettleInv
  <2>5. CASE PurgeDone(s)
    BY <2>5, SettleFrame DEF PurgeDone, Accepting
  <2> QED
    BY <1>4, <2>1, <2>2, <2>3, <2>4, <2>5 DEF Sweep
<1>5. CASE Time
  BY <1>5, <1>Parts DEF Time, TimerElapses, LockExpires, GoesStale, CacheExpires,
                        SettleInv, Spent, Past, Work, Bills, DeliveredIsSettled, StaysSettled
<1>6. CASE UNCHANGED vars
  BY <1>6, <1>Parts DEF vars, SettleInv, Spent, Past, Work, Bills, DeliveredIsSettled,
                        StaysSettled
<1> QED
  BY <1>1, <1>2, <1>3, <1>4, <1>5, <1>6 DEF Next

BrokerInv == TypeOK /\ PlaceInv /\ LogInv /\ FanInv /\ SettleInv /\ DeliveredIsSettled

LEMMA BrokerInvariant == Spec => []BrokerInv
<1>1. Init => FanInv /\ SettleInv /\ DeliveredIsSettled
  BY DEF Init, FanInv, SettleInv, Spent, Past, Work, Bills, DeliveredIsSettled, ToSet,
         Delivering, Accepting
<1>2. Init => BrokerInv
  BY <1>1, InitType, PlaceInit, LogInit DEF BrokerInv
<1>3. BrokerInv /\ [Next]_vars => BrokerInv'
  BY NextType, PlaceStep, LogStep, FanStep, SettleStep DEF BrokerInv, StaysSettled
<1> QED
  BY <1>2, <1>3, PTL DEF Spec

\* Nobody is billed twice and, once the delivering task is through, nobody served goes
\* unbilled: whichever tasks fire and fan out, whether the request waited in the queue
\* or was merged into another, and whatever the expiry sweep did meanwhile.
THEOREM DeliveredIsSettledCorrect == Spec => []DeliveredIsSettled
<1>1. BrokerInv => DeliveredIsSettled
  BY DEF BrokerInv
<1> QED
  BY <1>1, BrokerInvariant, PTL
-----------------------------------------------------------------------------
(* The promise to the callers.                                             *)

\* With the TTL off the sweep fails nobody.
NoFailure == \A r \in Requests : log[r] # "failed"

\* The step of the two ledgers, seen from the promise, when only the row of request r
\* is written: r is accepted.
LEMMA AcceptStep ==
  ASSUME NEW r \in Requests, log[r] = "none", NEW st \in {"queued", "merged", "cached"},
         log' = [log EXCEPT ![r] = st], settled' = settled
  PROVE  Lifecycle!LateNext
BY DEF Lifecycle!LateNext, Lifecycle!Accept

\* Whatever the TTL, every step of the broker writes the two ledgers as the weaker
\* promise has it.
LEMMA LateStep ==
  TypeOK /\ PlaceInv /\ LogInv /\ FanInv /\ SettleInv /\ [Next]_vars =>
    [Lifecycle!LateNext]_(Lifecycle!vars)
<1> SUFFICES ASSUME TypeOK, PlaceInv, LogInv, FanInv, SettleInv, [Next]_vars
             PROVE  [Lifecycle!LateNext]_(Lifecycle!vars)
  OBVIOUS
<1> DEFINE Step == [Lifecycle!LateNext]_(Lifecycle!vars)
<1> USE DEF At, redis, sql, frame
<1>Parts. Logged /\ Merged /\ Answers /\ Spent /\ Bills
  BY DEF LogInv, SettleInv
<1>Stutter. UNCHANGED <<log, settled>> => Step
  BY DEF Lifecycle!vars
<1>Accept. ASSUME NEW r \in Requests, pc[r] \in Unlogged, settled' = settled,
                  NEW st \in {"queued", "merged", "cached"}, log' = [log EXCEPT ![r] = st]
           PROVE  Step
  <2>1. log[r] = "none"
    BY <1>Parts, <1>Accept DEF Logged
  <2> QED
    BY <1>Accept, <2>1, AcceptStep
<1>1. ASSUME NEW r \in Requests, Intake(r)
      PROVE  Step
  <2>1. CASE ServeCached(r)
    BY <2>1, <1>Accept DEF ServeCached, Unlogged, Accepting
  <2>2. CASE LogMerged(r)
    BY <2>2, <1>Accept DEF LogMerged, Unlogged, Accepting
  <2>3. CASE LogQueued(r)
    BY <2>3, <1>Accept DEF LogQueued, Unlogged, Accepting
  <2>4. CASE ~ (ServeCached(r) \/ LogMerged(r) \/ LogQueued(r))
    <3>1. UNCHANGED <<log, settled>>
      BY <1>1, <2>4 DEF Intake, CacheMiss, ClaimSlot, ReadOwner, RecordMerge, CheckDepth,
                        ReleaseRefused, Push, OpenWindow, CheckSize
    <3> QED
      BY <3>1, <1>Stutter
  <2> QED
    BY <2>1, <2>2, <2>3, <2>4
<1>2. ASSUME NEW t \in Tasks, Fire(t)
      PROVE  Step
  <2>1. UNCHANGED <<log, settled>>
    BY <1>2 DEF Fire, FireLock, Drain, Close, Recheck, Reopen, Release, Unlock
  <2> QED
    BY <2>1, <1>Stutter
<1>3. ASSUME NEW t \in Tasks, Process(t)
      PROVE  Step
  <2>1. CASE CommitDeliveries(t)
    <3> DEFINE S == {r \in answered[t] \cup fanned[t] : log[r] # "none"}
    <3>1. /\ pc[t] = "fan" /\ settled' = settled
          /\ log' = [r \in Requests |-> IF r \in S THEN "delivered" ELSE log[r]]
      BY <2>1 DEF CommitDeliveries
    <3>2. S \subseteq Requests
      BY <1>Parts DEF TypeOK
    <3>3. \A r \in S : r \in Work(t) /\ log[r] # "delivered"
      BY <3>1, <3>2, <1>Parts DEF Answers, Delivering, Work, Spent
    <3>4. \A r \in S : log[r] \in {"queued", "merged", "failed"}
      <4> SUFFICES ASSUME NEW r \in S
                   PROVE  log[r] \in {"queued", "merged", "failed"}
        OBVIOUS
      <4>1. r \in Requests /\ log[r] \notin {"none", "delivered"}
        BY <3>2, <3>3
      <4>2. CASE r \in fanned[t]
        BY <4>1, <4>2, <1>Parts DEF Merged, Logged
      <4>3. CASE r \in answered[t]
        BY <3>1, <4>1, <4>3, <1>Parts DEF Answers, Delivering, Logged, InFlight
      <4> QED
        BY <4>2, <4>3
    <3> HIDE DEF S
    <3>5. Lifecycle!DeliverLate(S)
      BY <3>1, <3>4 DEF Lifecycle!DeliverLate, Lifecycle!Waiting
    <3> QED
      BY <3>2, <3>5 DEF Lifecycle!LateNext
  <2>2. CASE RecordSettlement(t)
    <3>1. pc[t] = "settle" /\ log' = log
      BY <2>2 DEF RecordSettlement
    <3>2. PICK d \in todo[t] : settled' = [settled EXCEPT ![d] = @ + 1]
      BY <2>2 DEF RecordSettlement
    <3>3. d \in Requests /\ d \in answered[t] \cup fanned[t] /\ log[d] # "none"
      BY <3>1, <1>Parts DEF TypeOK, Bills
    <3>4. settled[d] = 0 /\ settled' = [settled EXCEPT ![d] = 1]
      <4>1. d \in Work(t)
        BY <3>1, <3>3, <1>Parts DEF Answers, Delivering, Work
      <4>2. settled[d] # 1 /\ settled[d] <= 1
        BY <3>3, <4>1, <1>Parts DEF Spent
      <4>3. settled[d] = 0
        BY <3>3, <4>2, <1>Parts DEF TypeOK
      <4> QED
        BY <3>2, <4>3
    <3>5. log[d] \in {"merged", "delivered", "failed"}
      BY <3>1, <3>3, <1>Parts DEF Answers, Merged, Logged
    <3>6. Lifecycle!SettleLate(d)
      BY <3>1, <3>4, <3>5 DEF Lifecycle!SettleLate
    <3> QED
      BY <3>3, <3>6 DEF Lifecycle!LateNext
  <2>3. CASE ~ (CommitDeliveries(t) \/ RecordSettlement(t))
    <3>1. UNCHANGED <<log, settled>>
      BY <1>3, <2>3 DEF Process, Dispatch, FanOut, ClearMergeSet, ResolveCallers, FinishBatch
    <3> QED
      BY <3>1, <1>Stutter
  <2> QED
    BY <2>1, <2>2, <2>3
<1>4. ASSUME NEW s \in Sweepers, Sweep(s)
      PROVE  Step
  <2>1. CASE ExpireRows(s) /\ TTL /\ Expirable # {}
    <3>1. /\ settled' = settled
          /\ log' = [r \in Requests |-> IF r \in Expirable THEN "failed" ELSE log[r]]
      BY <2>1 DEF ExpireRows
    <3>2. Expirable \subseteq Requests /\ \A r \in Expirable : log[r] \in {"queued", "merged"}
      BY DEF Expirable, TypeOK
    <3>3. Lifecycle!Expire(Expirable)
      BY <3>1, <3>2 DEF Lifecycle!Expire, Lifecycle!Waiting
    <3> QED
      BY <3>2, <3>3 DEF Lifecycle!LateNext
  <2>2. CASE ~ (ExpireRows(s) /\ TTL /\ Expirable # {})
    <3>1. UNCHANGED <<log, settled>>
      BY <1>4, <2>2 DEF Sweep, CheckTimer, ExpireRows, PeekStale, PurgeEntry, PurgeDone
    <3> QED
      BY <3>1, <1>Stutter
  <2> QED
    BY <2>1, <2>2
<1>5. CASE Time
  BY <1>5, <1>Stutter DEF Time, TimerElapses, LockExpires, GoesStale, CacheExpires
<1>6. CASE UNCHANGED vars
  BY <1>6, <1>Stutter DEF vars
<1> QED
  BY <1>1, <1>2, <1>3, <1>4, <1>5, <1>6 DEF Next

\* The weaker promise is the strong one as long as nobody is reported failed.
LEMMA LateIsNotLate ==
  NoFailure /\ [Lifecycle!LateNext]_(Lifecycle!vars) => [Lifecycle!Next]_(Lifecycle!vars)
<1> SUFFICES ASSUME NoFailure, Lifecycle!LateNext
             PROVE  Lifecycle!Next
  OBVIOUS
<1>1. CASE \E r \in Requests : Lifecycle!Accept(r)
  BY <1>1 DEF Lifecycle!Next
<1>2. ASSUME NEW r \in Requests, Lifecycle!SettleLate(r)
      PROVE  Lifecycle!Next
  <2>1. Lifecycle!Settle(r)
    BY <1>2 DEF Lifecycle!SettleLate, Lifecycle!Settle, NoFailure
  <2> QED
    BY <2>1 DEF Lifecycle!Next
<1>3. ASSUME NEW S \in SUBSET Requests, Lifecycle!DeliverLate(S)
      PROVE  Lifecycle!Next
  <2>1. Lifecycle!Deliver(S)
    BY <1>3 DEF Lifecycle!DeliverLate, Lifecycle!Deliver, NoFailure
  <2> QED
    BY <2>1 DEF Lifecycle!Next
<1>4. CASE \E S \in SUBSET Requests : Lifecycle!Expire(S)
  BY <1>4 DEF Lifecycle!Next
<1> QED
  BY <1>1, <1>2, <1>3, <1>4 DEF Lifecycle!LateNext

LEMMA NoFailureStep == TypeOK /\ TTL = FALSE /\ NoFailure /\ [Next]_vars => NoFailure'
<1> SUFFICES ASSUME TypeOK, TTL = FALSE, NoFailure, [Next]_vars
             PROVE  NoFailure'
  OBVIOUS
<1>1. ASSUME NEW r \in Requests, Intake(r)
      PROVE  NoFailure'
  <2>1. CASE ServeCached(r) \/ LogMerged(r) \/ LogQueued(r)
    <3>1. \E st \in Status \ {"failed"} : log' = [log EXCEPT ![r] = st]
      BY <2>1 DEF ServeCached, LogMerged, LogQueued, Status
    <3> QED
      BY <3>1 DEF TypeOK, NoFailure
  <2>2. CASE ~ (ServeCached(r) \/ LogMerged(r) \/ LogQueued(r))
    BY <1>1, <2>2 DEF Intake, CacheMiss, ClaimSlot, ReadOwner, RecordMerge, CheckDepth,
                      ReleaseRefused, Push, OpenWindow, CheckSize, NoFailure, redis, sql
  <2> QED
    BY <2>1, <2>2
<1>2. ASSUME NEW t \in Tasks, Fire(t)
      PROVE  NoFailure'
  BY <1>2 DEF Fire, FireLock, Drain, Close, Recheck, Reopen, Release, Unlock, NoFailure, redis, sql
<1>3. ASSUME NEW t \in Tasks, Process(t)
      PROVE  NoFailure'
  BY <1>3 DEF Process, Dispatch, FanOut, ClearMergeSet, CommitDeliveries, ResolveCallers,
              RecordSettlement, FinishBatch, NoFailure, redis, sql
<1>4. ASSUME NEW s \in Sweepers, Sweep(s)
      PROVE  NoFailure'
  BY <1>4 DEF Sweep, CheckTimer, ExpireRows, PeekStale, PurgeEntry, PurgeDone, NoFailure, redis, sql
<1>5. CASE Time
  BY <1>5 DEF Time, TimerElapses, LockExpires, GoesStale, CacheExpires, NoFailure, redis, sql
<1>6. CASE UNCHANGED vars
  BY <1>6 DEF vars, NoFailure, sql
<1> QED
  BY <1>1, <1>2, <1>3, <1>4, <1>5, <1>6 DEF Next

\* The broker keeps the promise of RequestLifecycle to its callers while the TTL is
\* off: one acceptance, at most one answer and at most one settlement each, a batch and
\* the callers merged into it answered in one step, nobody settled who is not served.
THEOREM ImplementsLifecycleCorrect == TTL = FALSE /\ Spec => ImplementsLifecycle
<1> SUFFICES ASSUME TTL = FALSE
             PROVE  Spec => ImplementsLifecycle
  OBVIOUS
<1>1. Init => Lifecycle!Init /\ NoFailure
  BY DEF Init, Lifecycle!Init, NoFailure
<1>2. BrokerInv /\ NoFailure /\ [Next]_vars =>
        [Lifecycle!Next]_(Lifecycle!vars) /\ NoFailure'
  BY LateStep, LateIsNotLate, NoFailureStep DEF BrokerInv
<1> QED
  BY <1>1, <1>2, BrokerInvariant, PTL DEF Spec, ImplementsLifecycle, Lifecycle!Spec

\* Under a TTL the broker still answers and settles each request at most once, and
\* settles nobody it has not taken up; but a request reported failed by the sweep may
\* be answered and settled after that, by the batch it was in.
THEOREM LatePromiseCorrect == Spec => Lifecycle!LateSpec
<1>1. Init => Lifecycle!Init
  BY DEF Init, Lifecycle!Init
<1>2. BrokerInv /\ [Next]_vars => [Lifecycle!LateNext]_(Lifecycle!vars)
  BY LateStep DEF BrokerInv
<1> QED
  BY <1>1, <1>2, BrokerInvariant, PTL DEF Spec, Lifecycle!LateSpec
-----------------------------------------------------------------------------
(* Slot owners.                                                            *)

\* A slot is held by a request of its own fingerprint that may be merged into.
SlotsTyped ==
  \A f \in Fps : pending[f] # None => Fp[pending[f]] = f /\ pending[f] \in DedupSafe

\* Only a request that may be merged into asks for a slot.
ClaimsAreSafe == \A r \in Requests : pc[r] = "claim" => r \in DedupSafe

\* Request o was reported failed by the expiry sweep, which took it out of the queue.
Gone(o) ==
  /\ log[o] = "failed" /\ ~ InFlight(o)
  /\ pc[o] \notin Accepting /\ mergedInto[o] = None

\* The owner of a slot is awaited, or was purged: expire_stale does not release slots.
OwnersHeld ==
  \A f \in Fps : pending[f] # None => Awaited(pending[f]) \/ Gone(pending[f])

SlotInv == SlotsTyped /\ ClaimsAreSafe /\ OwnersHeld

\* Nothing takes a purged request up again.
LEMMA GoneStays ==
  ASSUME TypeOK, LogInv, [Next]_vars, NEW o \in Requests, Gone(o)
  PROVE  Gone(o)'
<1> USE DEF At, redis, sql, frame
<1>Parts. Logged /\ Merged /\ Answers
  BY DEF LogInv
<1>o. /\ log[o] = "failed" /\ pc[o] \notin Accepting /\ mergedInto[o] = None
      /\ o \notin ToSet(queue) /\ \A t \in Tasks : o \notin ToSet(batch[t])
  BY DEF Gone, InFlight
<1>1. ASSUME NEW r \in Requests, Intake(r)
      PROVE  Gone(o)'
  <2>1. CASE pc[r] \in Accepting
    <3>1. r # o
      BY <2>1, <1>o
    <3>2. /\ batch' = batch
          /\ \E m : pc' = [pc EXCEPT ![r] = m]
          /\ log' = log \/ \E st : log' = [log EXCEPT ![r] = st]
          /\ mergedInto' = mergedInto \/ \E q : mergedInto' = [mergedInto EXCEPT ![r] = q]
          /\ queue' = queue \/ queue' = Append(queue, r)
      BY <1>1, <2>1 DEF Intake, ServeCached, CacheMiss, ClaimSlot, ReadOwner, RecordMerge,
                        LogMerged, CheckDepth, ReleaseRefused, LogQueued, Push, OpenWindow,
                        CheckSize, Goto, Accepting
    <3>3. o \notin ToSet(queue')
      <4>1. ToSet(Append(queue, r)) = ToSet(queue) \cup {r}
        BY AppendToSet DEF TypeOK
      <4> QED
        BY <3>1, <3>2, <4>1, <1>o
    <3>4. pc'[o] = pc[o] /\ log'[o] = log[o] /\ mergedInto'[o] = mergedInto[o]
      BY <3>1, <3>2 DEF TypeOK
    <3> QED
      BY <3>2, <3>3, <3>4, <1>o DEF Gone, InFlight
  <2>2. CASE pc[r] \notin Accepting
    <3>1. /\ UNCHANGED <<log, mergedInto, queue, batch>>
          /\ \E m \in {"size", "lock", "done"} : pc' = [pc EXCEPT ![r] = m]
      BY <1>1, <2>2 DEF Intake, ServeCached, CacheMiss, ClaimSlot, ReadOwner, RecordMerge,
                        LogMerged, CheckDepth, ReleaseRefused, LogQueued, Push, OpenWindow,
                        CheckSize, Goto, Accepting
    <3>2. pc'[o] \notin Accepting
      BY <3>1, <1>o DEF TypeOK, Accepting
    <3> QED
      BY <3>1, <3>2, <1>o DEF Gone, InFlight
  <2> QED
    BY <2>1, <2>2
<1>2. ASSUME NEW t \in Tasks, Fire(t)
      PROVE  Gone(o)'
  <2>1. /\ UNCHANGED <<log, mergedInto>>
        /\ \E m \in FirePc \cup {"done", "expire", "dispatch"} : pc' = [pc EXCEPT ![t] = m]
    BY <1>2 DEF Fire, FireLock, Drain, Close, Recheck, Reopen, Release, Unlock, Goto, Finish,
                AfterReopen, FirePc
  <2>2. pc'[o] \notin Accepting
    BY <2>1, <1>o DEF TypeOK, Accepting, FirePc
  <2>3. ToSet(queue') \subseteq ToSet(queue) /\ \A u \in Tasks : o \notin ToSet(batch'[u])
    <3>1. CASE Drain(t)
      <4>1. queue' = <<>> /\ \A u \in Tasks : batch'[u] = IF u = t THEN queue ELSE batch[u]
        BY <3>1 DEF Drain, TypeOK
      <4> QED
        BY <4>1, <1>o DEF ToSet
    <3>2. CASE ~ Drain(t)
      <4>1. UNCHANGED <<queue, batch>>
        BY <1>2, <3>2 DEF Fire, FireLock, Close, Recheck, Reopen, Release, Unlock
      <4> QED
        BY <4>1, <1>o
    <3> QED
      BY <3>1, <3>2
  <2> QED
    BY <2>1, <2>2, <2>3, <1>o DEF Gone, InFlight
<1>3. ASSUME NEW t \in Tasks, Process(t)
      PROVE  Gone(o)'
  <2>1. UNCHANGED <<queue, mergedInto>>
    BY <1>3 DEF Process, Dispatch, FanOut, ClearMergeSet, CommitDeliveries, ResolveCallers,
                RecordSettlement, FinishBatch
  <2>2. \/ pc' = pc
        \/ \E m \in BatchPc \cup {"done", "expire"} : pc' = [pc EXCEPT ![t] = m]
    BY <1>3 DEF Process, Dispatch, FanOut, ClearMergeSet, CommitDeliveries, ResolveCallers,
                RecordSettlement, FinishBatch, Goto, Finish, BatchPc
  <2>3. pc'[o] \notin Accepting
    BY <2>2, <1>o DEF TypeOK, Accepting, BatchPc
  <2>4. \A u \in Tasks : batch'[u] = batch[u] \/ batch'[u] = <<>>
    BY <1>3 DEF Process, Dispatch, FanOut, ClearMergeSet, CommitDeliveries, ResolveCallers,
                RecordSettlement, FinishBatch, TypeOK
  <2>5. log'[o] = log[o]
    <3>1. CASE CommitDeliveries(t)
      <4>1. o \notin answered[t] \cup fanned[t]
        BY <3>1, <1>o, <1>Parts DEF CommitDeliveries, Answers, Merged, Delivering
      <4> QED
        BY <3>1, <4>1 DEF CommitDeliveries
    <3>2. CASE ~ CommitDeliveries(t)
      BY <1>3, <3>2 DEF Process, Dispatch, FanOut, ClearMergeSet, ResolveCallers,
                        RecordSettlement, FinishBatch
    <3> QED
      BY <3>1, <3>2
  <2>6. \A u \in Tasks : o \notin ToSet(batch'[u])
    BY <2>4, <1>o DEF ToSet
  <2> QED
    BY <2>1, <2>3, <2>5, <2>6, <1>o DEF Gone, InFlight
<1>4. ASSUME NEW s \in Sweepers, Sweep(s)
      PROVE  Gone(o)'
  <2>1. /\ UNCHANGED <<mergedInto, batch>>
        /\ \/ pc' = pc
           \/ \E m \in SweepPc \cup {"lock"} : pc' = [pc EXCEPT ![s] = m]
    BY <1>4 DEF Sweep, CheckTimer, ExpireRows, PeekStale, PurgeEntry, PurgeDone, Goto, SweepPc
  <2>2. pc'[o] \notin Accepting
    BY <2>1, <1>o DEF TypeOK, Accepting, SweepPc
  <2>3. log'[o] = "failed"
    BY <1>4, <1>o DEF Sweep, CheckTimer, ExpireRows, PeekStale, PurgeEntry, PurgeDone
  <2>4. ToSet(queue') \subseteq ToSet(queue)
    BY <1>4, RemoveAtKeeps DEF Sweep, CheckTimer, ExpireRows, PeekStale, PurgeEntry, PurgeDone,
                               TypeOK
  <2> QED
    BY <2>1, <2>2, <2>3, <2>4, <1>o DEF Gone, InFlight
<1>5. CASE Time
  <2>1. UNCHANGED <<queue, log, mergedInto, batch, pc>>
    BY <1>5 DEF Time, TimerElapses, LockExpires, GoesStale, CacheExpires
  <2> QED
    BY <2>1, <1>o DEF Gone, InFlight
<1>6. CASE UNCHANGED vars
  BY <1>6, <1>o DEF vars, Gone, InFlight
<1> QED
  BY <1>1, <1>2, <1>3, <1>4, <1>5, <1>6 DEF Next

\* The step of a task t keeps an awaited request o awaited, unless o is t itself
\* leaving the way into the queue, or in the batch of a t that stops holding it.
LEMMA AwaitedFrame ==
  ASSUME TypeOK, NEW o \in Requests, Awaited(o),
         NEW t \in Tasks, NEW m, Goto(t, m),
         o = t => pc[t] \notin Entering \/ m \in Entering,
         pc[t] \in Holding /\ o \in ToSet(batch[t]) =>
           m \in Holding /\ batch'[t] = batch[t],
         o \in ToSet(queue) => o \in ToSet(queue'),
         \A u \in Tasks : u # t => batch'[u] = batch[u]
  PROVE  Awaited(o)'
<1> USE DEF TypeOK, Goto, Awaited
<1>1. CASE pc[o] \in Entering
  BY <1>1
<1>2. CASE o \in ToSet(queue)
  BY <1>2
<1>3. CASE \E u \in Tasks : o \in ToSet(batch[u]) /\ pc[u] \in Holding
  <2>1. PICK u \in Tasks : o \in ToSet(batch[u]) /\ pc[u] \in Holding
    BY <1>3
  <2>2. batch'[u] = batch[u] /\ pc'[u] \in Holding
    BY <2>1
  <2> QED
    BY <2>1, <2>2
<1> QED
  BY <1>1, <1>2, <1>3

\* A step of a task that is neither entering the queue nor holding a batch whose
\* slots it still has to release leaves every slot owner pending.
LEMMA SlotFrame ==
  ASSUME TypeOK, SlotInv, \A o \in Requests : Gone(o) => Gone(o)',
         NEW t \in Tasks, NEW m, Goto(t, m),
         pc[t] \notin Entering \cup Holding, m # "claim",
         UNCHANGED <<queue, pending>>,
         \A u \in Tasks : u # t => batch'[u] = batch[u]
  PROVE  SlotsTyped' /\ ClaimsAreSafe' /\ OwnersHeld'
<1> USE DEF SlotInv, TypeOK, Goto
<1>1. SlotsTyped'
  BY DEF SlotsTyped
<1>2. ClaimsAreSafe'
  BY DEF ClaimsAreSafe
<1>3. OwnersHeld'
  <2> SUFFICES ASSUME NEW f \in Fps, pending[f] # None, ~ Gone(pending[f])
               PROVE  Awaited(pending[f])'
    BY DEF OwnersHeld
  <2>1. pending[f] \in Requests /\ Awaited(pending[f])
    BY DEF OwnersHeld
  <2> QED
    BY <2>1, AwaitedFrame
<1> QED
  BY <1>1, <1>2, <1>3

LEMMA SlotStep == BrokerInv /\ SlotInv /\ [Next]_vars => SlotInv'
<1> SUFFICES ASSUME BrokerInv, SlotInv, [Next]_vars
             PROVE  SlotsTyped' /\ ClaimsAreSafe' /\ OwnersHeld'
  BY DEF SlotInv
<1> USE DEF At, redis, sql, frame
<1>Type. TypeOK
  BY DEF BrokerInv
<1>Parts. TypeOK /\ PlaceInv /\ LogInv /\ Logged /\ Purged /\ Spent
  BY DEF BrokerInv, LogInv, SettleInv
<1>Slots. ASSUME NEW f \in Fps, NEW o \in Requests, pending[f] = o, ~ Gone(o)
          PROVE  Awaited(o)
  BY <1>Slots DEF SlotInv, OwnersHeld
<1>Typed. TypeOK'
  BY <1>Parts, NextType
<1>Gone. TypeOK /\ \A o \in Requests : Gone(o) => Gone(o)'
  BY <1>Parts, GoneStays
<1>1. ASSUME NEW r \in Requests, Intake(r)
      PROVE  SlotsTyped' /\ ClaimsAreSafe' /\ OwnersHeld'
  <2>1. CASE ServeCached(r)
    BY <2>1, <1>Gone, SlotFrame DEF ServeCached, Entering, Holding
  <2>2. CASE CacheMiss(r)
    <3>1. SlotsTyped'
      BY <2>2, <1>Type DEF CacheMiss, SlotInv, SlotsTyped, TypeOK
    <3>2. ClaimsAreSafe'
      BY <2>2, <1>Type DEF CacheMiss, SlotInv, ClaimsAreSafe, TypeOK, Goto
    <3>3. ASSUME NEW f \in Fps, NEW o \in Requests, pending'[f] = o, ~ Gone(o)
          PROVE  Awaited(o)'
      <4>1. pending[f] = o
        BY <2>2, <3>3 DEF CacheMiss
      <4> QED
        BY <2>2, <4>1, <3>3, <1>Type, <1>Slots, AwaitedFrame DEF CacheMiss, Entering, Holding
    <3> QED
      BY <1>Typed, <1>Gone, <3>1, <3>2, <3>3 DEF OwnersHeld, TypeOK
  <2>3. CASE ClaimSlot(r)
    <3>1. SlotsTyped'
      <4>1. pc[r] = "claim" /\ r \in DedupSafe
        BY <2>3 DEF ClaimSlot, SlotInv, ClaimsAreSafe
      <4>2. \A f \in Fps : pending'[f] = pending[f] \/ (f = Fp[r] /\ pending'[f] = r)
        BY <2>3, <1>Type DEF ClaimSlot, TypeOK
      <4> QED
        BY <4>1, <4>2 DEF SlotInv, SlotsTyped
    <3>2. ClaimsAreSafe'
      BY <2>3, <1>Type DEF ClaimSlot, SlotInv, ClaimsAreSafe, TypeOK, Goto
    <3>3. ASSUME NEW f \in Fps, NEW o \in Requests, pending'[f] = o, ~ Gone(o)
          PROVE  Awaited(o)'
      <4>1. CASE pending[f] = o
        <5>1. (Goto(r, "depth") \/ Goto(r, "whose")) /\ UNCHANGED <<queue, batch>>
          BY <2>3 DEF ClaimSlot
        <5>2. pc[r] \notin Entering \cup Holding
          BY <2>3 DEF ClaimSlot, Entering, Holding
        <5> QED
          BY <4>1, <5>1, <5>2, <3>3, <1>Type, <1>Slots, AwaitedFrame
      <4>2. CASE pending[f] # o
        <5>1. o = r /\ pc'[r] = "depth"
          BY <2>3, <3>3, <4>2, <1>Type DEF ClaimSlot, SlotInv, TypeOK, Goto
        <5> QED
          BY <5>1 DEF Awaited, Entering
      <4> QED
        BY <4>1, <4>2
    <3> QED
      BY <1>Typed, <1>Gone, <3>1, <3>2, <3>3 DEF OwnersHeld, TypeOK
  <2>4. CASE ReadOwner(r)
    BY <2>4, <1>Gone, SlotFrame DEF ReadOwner, Entering, Holding
  <2>5. CASE RecordMerge(r)
    BY <2>5, <1>Gone, SlotFrame DEF RecordMerge, Entering, Holding
  <2>6. CASE LogMerged(r)
    BY <2>6, <1>Gone, SlotFrame DEF LogMerged, Entering, Holding
  <2>7. CASE CheckDepth(r)
    <3>1. SlotsTyped'
      BY <2>7, <1>Type DEF CheckDepth, SlotInv, SlotsTyped, TypeOK
    <3>2. ClaimsAreSafe'
      BY <2>7, <1>Type DEF CheckDepth, SlotInv, ClaimsAreSafe, TypeOK, Goto
    <3>3. ASSUME NEW f \in Fps, NEW o \in Requests, pending'[f] = o, ~ Gone(o)
          PROVE  Awaited(o)'
      <4>1. pending[f] = o /\ o \in DedupSafe
        BY <2>7, <3>3, <1>Type DEF CheckDepth, SlotInv, SlotsTyped, TypeOK
      <4>2. CASE o = r
        <5>1. pc'[r] \in Entering
          BY <2>7, <4>1, <4>2, <1>Type DEF CheckDepth, SlotInv, TypeOK, Goto, Entering
        <5> QED
          BY <4>1, <4>2, <5>1 DEF Awaited
      <4>3. CASE o # r
        BY <2>7, <4>1, <4>3, <3>3, <1>Type, <1>Slots, AwaitedFrame DEF CheckDepth, Holding
      <4> QED
        BY <4>2, <4>3
    <3> QED
      BY <1>Typed, <1>Gone, <3>1, <3>2, <3>3 DEF OwnersHeld, TypeOK
  <2>8. CASE ReleaseRefused(r)
    <3>1. SlotsTyped'
      BY <2>8, <1>Type DEF ReleaseRefused, SlotInv, SlotsTyped, TypeOK
    <3>2. ClaimsAreSafe'
      BY <2>8, <1>Type DEF ReleaseRefused, SlotInv, ClaimsAreSafe, TypeOK, Goto
    <3>3. ASSUME NEW f \in Fps, NEW o \in Requests, pending'[f] = o, ~ Gone(o)
          PROVE  Awaited(o)'
      <4>1. pending[f] = o /\ f # Fp[r]
        BY <2>8, <3>3, <1>Type DEF ReleaseRefused, SlotInv, TypeOK
      <4>2. o # r
        BY <4>1, <1>Type DEF SlotInv, SlotsTyped, TypeOK
      <4> QED
        BY <2>8, <4>1, <4>2, <3>3, <1>Type, <1>Slots, AwaitedFrame DEF ReleaseRefused, Holding
    <3> QED
      BY <1>Typed, <1>Gone, <3>1, <3>2, <3>3 DEF OwnersHeld, TypeOK
  <2>9. CASE LogQueued(r)
    <3>1. SlotsTyped'
      BY <2>9, <1>Type DEF LogQueued, SlotInv, SlotsTyped, TypeOK
    <3>2. ClaimsAreSafe'
      BY <2>9, <1>Type DEF LogQueued, SlotInv, ClaimsAreSafe, TypeOK, Goto
    <3>3. ASSUME NEW f \in Fps, NEW o \in Requests, pending'[f] = o, ~ Gone(o)
          PROVE  Awaited(o)'
      <4>1. pending[f] = o
        BY <2>9, <3>3 DEF LogQueued
      <4> QED
        BY <2>9, <4>1, <3>3, <1>Type, <1>Slots, AwaitedFrame DEF LogQueued, Entering, Holding
    <3> QED
      BY <1>Typed, <1>Gone, <3>1, <3>2, <3>3 DEF OwnersHeld, TypeOK
  <2>10. CASE Push(r)
    <3>1. SlotsTyped'
      BY <2>10, <1>Type DEF Push, SlotInv, SlotsTyped, TypeOK
    <3>2. ClaimsAreSafe'
      BY <2>10, <1>Type DEF Push, SlotInv, ClaimsAreSafe, TypeOK, Goto
    <3>3. ASSUME NEW f \in Fps, NEW o \in Requests, pending'[f] = o, ~ Gone(o)
          PROVE  Awaited(o)'
      <4>1. pending[f] = o
        BY <2>10, <3>3 DEF Push
      <4>2. ToSet(queue') = ToSet(queue) \cup {r}
        BY <2>10, AppendToSet, <1>Type DEF Push, SlotInv, TypeOK
      <4>3. CASE o = r
        BY <4>1, <4>2, <4>3 DEF Awaited
      <4>4. CASE o # r
        BY <2>10, <4>1, <4>2, <4>4, <3>3, <1>Type, <1>Slots, AwaitedFrame DEF Push, Holding
      <4> QED
        BY <4>3, <4>4
    <3> QED
      BY <1>Typed, <1>Gone, <3>1, <3>2, <3>3 DEF OwnersHeld, TypeOK
  <2>11. CASE OpenWindow(r)
    BY <2>11, <1>Gone, SlotFrame DEF OpenWindow, Entering, Holding
  <2>12. CASE CheckSize(r)
    BY <2>12, <1>Gone, SlotFrame DEF CheckSize, Entering, Holding
  <2> QED
    BY <1>1, <2>1, <2>2, <2>3, <2>4, <2>5, <2>6, <2>7, <2>8, <2>9, <2>10, <2>11, <2>12 DEF Intake
<1>2. ASSUME NEW t \in Tasks, Fire(t)
      PROVE  SlotsTyped' /\ ClaimsAreSafe' /\ OwnersHeld'
  <2>1. CASE FireLock(t)
    BY <2>1, <1>Gone, SlotFrame DEF FireLock, Entering, Holding, Finish
  <2>2. CASE Drain(t)
    <3>1. SlotsTyped'
      BY <2>2, <1>Type DEF Drain, SlotInv, SlotsTyped, TypeOK
    <3>2. ClaimsAreSafe'
      BY <2>2, <1>Type DEF Drain, SlotInv, ClaimsAreSafe, TypeOK, Goto
    <3>3. ASSUME NEW f \in Fps, NEW o \in Requests, pending'[f] = o, ~ Gone(o)
          PROVE  Awaited(o)'
      <4>1. pending[f] = o
        BY <2>2, <3>3 DEF Drain
      <4>2. batch'[t] = queue /\ pc'[t] \in Holding
        BY <2>2, <1>Type DEF Drain, SlotInv, TypeOK, Goto, Holding
      <4>3. CASE o \in ToSet(queue)
        BY <4>1, <4>2, <4>3 DEF Awaited
      <4>4. CASE o \notin ToSet(queue)
        <5>1. \A u \in Tasks : u # t => batch'[u] = batch[u]
          BY <2>2, <1>Type DEF Drain, SlotInv, TypeOK
        <5>2. Goto(t, "close") /\ pc[t] \notin Entering \cup Holding
          BY <2>2 DEF Drain, Entering, Holding
        <5> QED
          BY <4>1, <4>4, <5>1, <5>2, <3>3, <1>Type, <1>Slots, AwaitedFrame
      <4> QED
        BY <4>3, <4>4
    <3> QED
      BY <1>Typed, <1>Gone, <3>1, <3>2, <3>3 DEF OwnersHeld, TypeOK
  <2>3. CASE Close(t)
    <3>1. SlotsTyped'
      BY <2>3, <1>Type DEF Close, SlotInv, SlotsTyped, TypeOK
    <3>2. ClaimsAreSafe'
      BY <2>3, <1>Type DEF Close, SlotInv, ClaimsAreSafe, TypeOK, Goto
    <3>3. ASSUME NEW f \in Fps, NEW o \in Requests, pending'[f] = o, ~ Gone(o)
          PROVE  Awaited(o)'
      <4>1. pending[f] = o
        BY <2>3, <3>3 DEF Close
      <4> QED
        BY <2>3, <4>1, <3>3, <1>Type, <1>Slots, AwaitedFrame DEF Close, Entering, Holding
    <3> QED
      BY <1>Typed, <1>Gone, <3>1, <3>2, <3>3 DEF OwnersHeld, TypeOK
  <2>4. CASE Recheck(t)
    <3>1. SlotsTyped'
      BY <2>4, <1>Type DEF Recheck, SlotInv, SlotsTyped, TypeOK
    <3>2. ClaimsAreSafe'
      BY <2>4, <1>Type DEF Recheck, SlotInv, ClaimsAreSafe, TypeOK, Goto, AfterReopen, ToSet
    <3>3. ASSUME NEW f \in Fps, NEW o \in Requests, pending'[f] = o, ~ Gone(o)
          PROVE  Awaited(o)'
      <4>1. pending[f] = o /\ UNCHANGED <<queue, batch>>
        BY <2>4, <3>3 DEF Recheck
      <4>2. PICK m : Goto(t, m) /\ (m \in Holding \/ batch[t] = <<>>)
        BY <2>4 DEF Recheck, AfterReopen, Holding
      <4>3. pc[t] \notin Entering
        BY <2>4 DEF Recheck, Entering
      <4> QED
        BY <4>1, <4>2, <4>3, <3>3, <1>Type, <1>Slots, AwaitedFrame DEF ToSet
    <3> QED
      BY <1>Typed, <1>Gone, <3>1, <3>2, <3>3 DEF OwnersHeld, TypeOK
  <2>5. CASE Reopen(t)
    <3>1. SlotsTyped'
      BY <2>5, <1>Type DEF Reopen, SlotInv, SlotsTyped, TypeOK
    <3>2. ClaimsAreSafe'
      BY <2>5, <1>Type DEF Reopen, SlotInv, ClaimsAreSafe, TypeOK, Goto, AfterReopen, ToSet
    <3>3. ASSUME NEW f \in Fps, NEW o \in Requests, pending'[f] = o, ~ Gone(o)
          PROVE  Awaited(o)'
      <4>1. pending[f] = o /\ UNCHANGED <<queue, batch>>
        BY <2>5, <3>3 DEF Reopen
      <4>2. PICK m : Goto(t, m) /\ (m \in Holding \/ batch[t] = <<>>)
        BY <2>5 DEF Reopen, AfterReopen, Holding
      <4>3. pc[t] \notin Entering
        BY <2>5 DEF Reopen, Entering
      <4> QED
        BY <4>1, <4>2, <4>3, <3>3, <1>Type, <1>Slots, AwaitedFrame DEF ToSet
    <3> QED
      BY <1>Typed, <1>Gone, <3>1, <3>2, <3>3 DEF OwnersHeld, TypeOK
  <2>6. CASE Release(t)
    <3>1. SlotsTyped'
      BY <2>6, <1>Type DEF Release, SlotInv, SlotsTyped, TypeOK
    <3>2. ClaimsAreSafe'
      BY <2>6, <1>Type DEF Release, SlotInv, ClaimsAreSafe, TypeOK, Goto
    <3>3. ASSUME NEW f \in Fps, NEW o \in Requests, pending'[f] = o, ~ Gone(o)
          PROVE  Awaited(o)'
      <4>1. pending[f] = o /\ f \notin FpsOf(batch[t])
        BY <2>6, <3>3 DEF Release
      <4>2. o \notin ToSet(batch[t])
        BY <4>1, <1>Type DEF SlotInv, SlotsTyped, TypeOK, FpsOf
      <4> QED
        BY <2>6, <4>1, <4>2, <3>3, <1>Type, <1>Slots, AwaitedFrame DEF Release, Entering
    <3> QED
      BY <1>Typed, <1>Gone, <3>1, <3>2, <3>3 DEF OwnersHeld, TypeOK
  <2>7. CASE Unlock(t)
    BY <2>7, <1>Gone, SlotFrame DEF Unlock, Entering, Holding, Finish
  <2> QED
    BY <1>2, <2>1, <2>2, <2>3, <2>4, <2>5, <2>6, <2>7 DEF Fire
<1>3. ASSUME NEW t \in Tasks, Process(t)
      PROVE  SlotsTyped' /\ ClaimsAreSafe' /\ OwnersHeld'
  <2>1. CASE Dispatch(t)
    BY <2>1, <1>Gone, SlotFrame DEF Dispatch, Entering, Holding
  <2>2. CASE FanOut(t)
    BY <2>2, <1>Gone, SlotFrame DEF FanOut, Entering, Holding
  <2>3. CASE ClearMergeSet(t)
    BY <2>3, <1>Gone, SlotFrame DEF ClearMergeSet, Entering, Holding
  <2>4. CASE CommitDeliveries(t)
    BY <2>4, <1>Gone, SlotFrame DEF CommitDeliveries, Entering, Holding
  <2>5. CASE ResolveCallers(t)
    BY <2>5, <1>Gone, SlotFrame DEF ResolveCallers, Entering, Holding
  <2>6. CASE RecordSettlement(t)
    <3>1. UNCHANGED <<queue, pending, pc, batch, log, mergedInto>>
      BY <2>6 DEF RecordSettlement
    <3> QED
      BY <3>1 DEF SlotInv, SlotsTyped, ClaimsAreSafe, OwnersHeld, Awaited, Gone, InFlight
  <2>7. CASE FinishBatch(t)
    BY <2>7, <1>Gone, SlotFrame, <1>Type DEF FinishBatch, Entering, Holding, Finish, SlotInv, TypeOK
  <2> QED
    BY <1>3, <2>1, <2>2, <2>3, <2>4, <2>5, <2>6, <2>7 DEF Process
<1>4. ASSUME NEW s \in Sweepers, Sweep(s)
      PROVE  SlotsTyped' /\ ClaimsAreSafe' /\ OwnersHeld'
  <2>1. CASE CheckTimer(s)
    BY <2>1, <1>Gone, SlotFrame DEF CheckTimer, Entering, Holding
  <2>2. CASE ExpireRows(s)
    <3>1. (Goto(s, "peek") \/ Goto(s, "idle")) /\ UNCHANGED <<queue, pending, batch>>
      BY <2>2 DEF ExpireRows
    <3>2. pc[s] \notin Entering \cup Holding
      BY <2>2 DEF ExpireRows, Entering, Holding
    <3> QED
      BY <3>1, <3>2, <1>Gone, SlotFrame
  <2>3. CASE PeekStale(s)
    BY <2>3, <1>Gone, SlotFrame DEF PeekStale, Entering, Holding
  <2>4. CASE PurgeEntry(s)
    <3>1. /\ pc[s] = "purge"
          /\ UNCHANGED <<pending, pc, batch, log, mergedInto>>
      BY <2>4 DEF PurgeEntry
    <3>2. PICK d \in todo[s] :
            \/ UNCHANGED queue
            \/ \E i \in DOMAIN queue : queue[i] = d /\ queue' = RemoveAt(queue, i)
      BY <2>4 DEF PurgeEntry
    <3>3. SlotsTyped' /\ ClaimsAreSafe'
      BY <3>1 DEF SlotInv, SlotsTyped, ClaimsAreSafe
    <3>4. \A r \in ToSet(queue) : r # d => r \in ToSet(queue')
      BY <3>2, <1>Parts, RemoveAtKeeps DEF TypeOK
    <3>5. d \in ToSet(queue) => d \in ToSet(queue') \/ Gone(d)'
      <4> SUFFICES ASSUME d \in ToSet(queue), d \notin ToSet(queue')
                   PROVE  Gone(d)'
        OBVIOUS
      <4>1. d \in Requests /\ d \in stale /\ log[d] # "queued"
        BY <3>1, <1>Parts DEF Purged, TypeOK
      <4>2. log[d] = "failed" /\ mergedInto[d] = None /\ pc[d] \notin Accepting
        BY <4>1, <1>Parts DEF Logged, InFlight, Spent, Past, Purged
      <4>3. \A t \in Tasks : d \notin ToSet(batch[t])
        BY <1>Parts DEF PlaceInv, OnePlace
      <4> QED
        BY <3>1, <4>2, <4>3 DEF Gone, InFlight
    <3>6. ASSUME NEW f \in Fps, NEW o \in Requests, pending[f] = o, ~ Gone(o)
          PROVE  Awaited(o)' \/ Gone(o)'
      <4>1. Awaited(o)
        BY <3>6, <1>Slots
      <4> QED
        BY <4>1, <3>1, <3>4, <3>5 DEF Awaited
    <3> QED
      BY <1>Parts, <1>Gone, <3>1, <3>3, <3>6 DEF OwnersHeld, TypeOK
  <2>5. CASE PurgeDone(s)
    BY <2>5, <1>Gone, SlotFrame DEF PurgeDone, Entering, Holding
  <2> QED
    BY <1>4, <2>1, <2>2, <2>3, <2>4, <2>5 DEF Sweep
<1>5. CASE Time
  <2>1. UNCHANGED <<queue, pending, pc, batch, log, mergedInto>>
    BY <1>5 DEF Time, TimerElapses, LockExpires, GoesStale, CacheExpires
  <2> QED
    BY <2>1 DEF SlotInv, SlotsTyped, ClaimsAreSafe, OwnersHeld, Awaited, Gone, InFlight
<1>6. CASE UNCHANGED vars
  BY <1>6 DEF vars, SlotInv, SlotsTyped, ClaimsAreSafe, OwnersHeld, Awaited, Gone, InFlight,
              redis, sql, frame
<1> QED
  BY <1>1, <1>2, <1>3, <1>4, <1>5, <1>6 DEF Next

LEMMA SlotInvariant == Spec => [](BrokerInv /\ SlotInv)
<1>1. Init => SlotInv
  BY DEF Init, SlotInv, SlotsTyped, ClaimsAreSafe, OwnersHeld
<1> QED
  BY <1>1, SlotStep, BrokerInvariant, PTL DEF Spec

\* Whatever the TTL, claim_slot answers with a request that is still to be fired, or
\* whose fire has yet to release its slot, or with one that has been reported failed:
\* the only ghosts are those whose queue entry expire_stale removed and whose slot it
\* left behind.
OwnerPendingOrFailed ==
  \A f \in Fps : pending[f] # None => Awaited(pending[f]) \/ log[pending[f]] = "failed"

THEOREM OwnerPendingOrFailedCorrect == Spec => []OwnerPendingOrFailed
<1>1. SlotInv => OwnerPendingOrFailed
  BY DEF SlotInv, OwnersHeld, Gone, OwnerPendingOrFailed
<1> QED
  BY <1>1, SlotInvariant, PTL

\* With the TTL off (and no crash) a slot is never owned by a ghost: claim_slot
\* only answers with a request that is still to be fired, or whose fire has yet to
\* release its slot.
THEOREM SlotOwnerPendingCorrect == TTL = FALSE /\ Spec => []SlotOwnerPending
<1> SUFFICES ASSUME TTL = FALSE
             PROVE  Spec => []SlotOwnerPending
  OBVIOUS
<1>1. Init => NoFailure
  BY DEF Init, NoFailure
<1>2. BrokerInv /\ NoFailure /\ [Next]_vars => NoFailure'
  BY NoFailureStep DEF BrokerInv
<1>3. BrokerInv /\ SlotInv /\ NoFailure => SlotOwnerPending
  BY DEF BrokerInv, TypeOK, SlotInv, OwnersHeld, Gone, NoFailure, SlotOwnerPending
<1> QED
  BY <1>1, <1>2, <1>3, SlotInvariant, PTL DEF Spec

\* The purge does what expire_stale has it for ("so a late window fire can't resurrect a
\* request already reported failed", core/service.py): a failed request that is in no
\* queue and no batch, and was merged into nobody, stays failed and is never taken up.
\* Only what a batch or a slot owner carried when it expired can still be answered.
PurgedIsFinal ==
  [][\A r \in Requests :
       log[r] = "failed" /\ ~ InFlight(r) /\ mergedInto[r] = None =>
         log'[r] = "failed" /\ ~ InFlight(r)']_vars

THEOREM PurgedIsFinalCorrect == Spec => PurgedIsFinal
<1> DEFINE Final == \A r \in Requests :
                      log[r] = "failed" /\ ~ InFlight(r) /\ mergedInto[r] = None =>
                        log'[r] = "failed" /\ ~ InFlight(r)'
<1>1. ASSUME BrokerInv, [Next]_vars
      PROVE  Final
  <2> SUFFICES ASSUME NEW r \in Requests, log[r] = "failed", ~ InFlight(r), mergedInto[r] = None
               PROVE  log'[r] = "failed" /\ ~ InFlight(r)'
    OBVIOUS
  <2>1. TypeOK /\ LogInv
    BY <1>1 DEF BrokerInv
  <2>2. pc[r] \notin Accepting
    BY <2>1 DEF LogInv, Logged, Unlogged
  <2>3. Gone(r)
    BY <2>2 DEF Gone
  <2> QED
    BY <1>1, <2>1, <2>3, GoneStays DEF Gone
<1>2. BrokerInv /\ [Next]_vars => [Final]_vars
  BY <1>1
<1> QED
  BY <1>2, BrokerInvariant, PTL DEF Spec, PurgedIsFinal
-----------------------------------------------------------------------------
(* Crashes (module AggregatorCrash).                                       *)

USE CrashAssumption DEF CrashAssumption

\* The startup: no task runs before the process is up, what reconcile found missing
\* from the queue is logged as queued, and it found all of it.
BootInv ==
  /\ boot # "up" => \A t \in Tasks : pc[t] \in {"start", "refused", "done", "idle"}
  /\ \A r \in missing : log[r] = "queued" /\ r \notin ToSet(queue)
  /\ boot # "requeue" => missing = {}
  /\ boot = "requeue" =>
       \A r \in Requests : log[r] = "queued" => r \in ToSet(queue) \cup missing
  /\ NoLostWork

CrashInv == CrashTypeOK /\ PlaceInv /\ LogInv /\ BootInv

\* Time moves no request and no task, and writes no row.
LEMMA TimeFrame ==
  ASSUME Time
  PROVE  UNCHANGED <<queue, log, settled, pc, frame, unanswered>>
<1>1. CASE TimerElapses
  BY <1>1 DEF TimerElapses, sql
<1>2. CASE LockExpires
  BY <1>2 DEF LockExpires, sql
<1>3. ASSUME NEW r \in Requests, GoesStale(r)
      PROVE  UNCHANGED <<queue, log, settled, pc, frame, unanswered>>
  BY <1>3 DEF GoesStale, redis, sql
<1>4. ASSUME NEW f \in Fps, CacheExpires(f)
      PROVE  UNCHANGED <<queue, log, settled, pc, frame, unanswered>>
  BY <1>4 DEF CacheExpires, sql
<1> QED
  BY <1>1, <1>2, <1>3, <1>4 DEF Time

\* A crash leaves the ledgers, the queue and the slots, and takes every task with it.
LEMMA CrashFrame ==
  ASSUME Crash
  PROVE  /\ UNCHANGED <<redis, sql, mergedInto, stale, unanswered>>
         /\ \A t \in Tasks : /\ batch'[t] = <<>> /\ answered'[t] = {} /\ fanned'[t] = {}
                             /\ pc'[t] \in {"start", "refused", "done", "idle"}
                             /\ pc'[t] \in {"start", "refused"} => pc[t] = pc'[t]
         /\ boot' = "down" /\ missing' = {}
BY DEF Crash

LEMMA CrashType == CrashTypeOK /\ [CrashNext]_allVars => CrashTypeOK'
<1> SUFFICES ASSUME CrashTypeOK, [CrashNext]_allVars
             PROVE  CrashTypeOK'
  OBVIOUS
<1> USE DEF CrashTypeOK, crashVars
<1>1. CASE boot = "up" /\ Next /\ UNCHANGED crashVars
  BY <1>1, NextType
<1>2. CASE boot # "up" /\ Time /\ UNCHANGED crashVars
  BY <1>2, NextType DEF Next
<1>3. CASE Crash
  <2>1. TypeOK'
    <3>1. pc' \in [Tasks -> IntakePc \cup FirePc \cup BatchPc \cup SweepPc]
      BY <1>3 DEF Crash, IntakePc, SweepPc, Accepting
    <3>2. /\ batch' = [t \in Tasks |-> <<>>]
          /\ answered' = [t \in Tasks |-> {}] /\ fanned' = [t \in Tasks |-> {}]
          /\ todo' = [t \in Tasks |-> {}] /\ cur' = [t \in Tasks |-> None]
          /\ UNCHANGED <<redis, sql, mergedInto, stale, unanswered>>
      BY <1>3 DEF Crash
    <3>3. batch' \in [Tasks -> Seq(Requests)]
      BY <3>2
    <3> QED
      BY <3>1, <3>2, <3>3 DEF TypeOK, redis, sql
  <2>2. crashes' \in 0..MaxCrashes
    BY <1>3 DEF Crash
  <2> QED
    BY <1>3, <2>1, <2>2 DEF Crash
<1>4. CASE ReconcileRead
  BY <1>4 DEF ReconcileRead, vars, redis, sql, frame, TypeOK
<1>5. CASE ReconcilePush
  BY <1>5 DEF ReconcilePush, sql, frame, TypeOK
<1>6. CASE ReconcileOpen
  BY <1>6 DEF ReconcileOpen, sql, frame, TypeOK
<1>7. CASE UNCHANGED allVars
  BY <1>7 DEF allVars, vars, redis, sql, frame, TypeOK
<1> QED
  BY <1>1, <1>2, <1>3, <1>4, <1>5, <1>6, <1>7 DEF CrashNext, Reconcile

LEMMA CrashStep == CrashInv /\ [CrashNext]_allVars => CrashInv'
<1> SUFFICES ASSUME CrashInv, [CrashNext]_allVars
             PROVE  PlaceInv' /\ LogInv' /\ BootInv'
  BY CrashType DEF CrashInv
<1>Parts. /\ CrashTypeOK /\ TypeOK /\ PlaceInv /\ LogInv /\ BootInv
          /\ Logged /\ Merged /\ Answers /\ Purged
  BY DEF CrashInv, CrashTypeOK, LogInv
<1>1. CASE boot = "up" /\ Next /\ UNCHANGED crashVars
  <2>1. NoLostRequest
    BY <1>1, <1>Parts DEF BootInv, NoLostWork
  <2>2. PlaceInv' /\ LogInv' /\ NoLostRequest'
    BY <1>1, <1>Parts, <2>1, PlaceStep, LogStep, LostStep
  <2>3. boot' = "up" /\ missing' = {}
    BY <1>1, <1>Parts DEF crashVars, BootInv
  <2> QED
    BY <2>2, <2>3 DEF BootInv, NoLostWork
<1>2. CASE boot # "up" /\ Time /\ UNCHANGED crashVars
  <2>1. PlaceInv' /\ LogInv'
    BY <1>2, <1>Parts, PlaceStep, LogStep DEF Next
  <2> QED
    BY <1>2, <1>Parts, <2>1, TimeFrame DEF BootInv, NoLostWork, crashVars
<1>3. CASE Crash
  <2> USE <1>3, CrashFrame DEF redis, sql
  <2>1. PlaceInv'
    <3>1. \A t \in Tasks : ToSet(batch'[t]) = {} /\ DOMAIN batch'[t] = {}
      BY DEF ToSet
    <3>2. OnePlace'
      BY <3>1, <1>Parts DEF PlaceInv, OnePlace
    <3>3. \A r \in Requests : pc'[r] \in Accepting => pc[r] \in Accepting
      BY DEF Accepting
    <3> QED
      BY <3>1, <3>2, <3>3, <1>Parts DEF PlaceInv
  <2>2. Logged'
    <3>1. \A r \in Requests : InFlight(r)' => r \in ToSet(queue)
      BY DEF InFlight, ToSet
    <3>2. \A r \in Requests : pc'[r] \in QueuePath => pc'[r] = pc[r]
      BY DEF QueuePath
    <3> QED
      BY <3>1, <3>2, <1>Parts DEF Logged, InFlight, Unlogged, Accepting
  <2>3. Merged' /\ Answers'
    BY <1>Parts DEF Merged, Answers, Delivering
  <2>4. Purged'
    BY <1>Parts DEF TypeOK, Purged, Accepting
  <2>5. BootInv'
    BY DEF BootInv, NoLostWork
  <2> QED
    BY <2>1, <2>2, <2>3, <2>4, <2>5 DEF LogInv
<1>4. CASE ReconcileRead
  <2>1. /\ UNCHANGED vars /\ boot = "down" /\ boot' = "requeue"
        /\ missing' = {r \in Requests : log[r] = "queued"} \ ToSet(queue)
    BY <1>4 DEF ReconcileRead
  <2>2. PlaceInv' /\ LogInv'
    BY <2>1, <1>Parts, PlaceStep, LogStep
  <2> QED
    BY <2>1, <2>2, <1>Parts DEF BootInv, NoLostWork, vars, redis, sql
<1>5. CASE ReconcilePush
  <2>1. PICK r \in missing : /\ queue' = Append(queue, r) /\ missing' = missing \ {r}
                             /\ unanswered' = unanswered \ {r}
    BY <1>5 DEF ReconcilePush
  <2>2. /\ boot = "requeue" /\ boot' = "requeue"
        /\ UNCHANGED <<pc, batch, log, mergedInto, mergeSet, fanned, answered, stale, todo>>
    BY <1>5 DEF ReconcilePush, sql, frame
  <2>3. r \in Requests /\ log[r] = "queued" /\ r \notin ToSet(queue)
    BY <1>Parts DEF CrashTypeOK, BootInv
  <2>4. /\ mergedInto[r] = None /\ pc[r] \notin Accepting
        /\ \A t \in Tasks : pc[t] \notin Carrying /\ batch[t] = <<>> /\ ToSet(batch[t]) = {}
    <3>1. \A t \in Tasks : pc[t] \in {"start", "refused", "done", "idle"}
      BY <2>2, <1>Parts DEF BootInv
    <3> QED
      BY <2>3, <3>1, <1>Parts DEF Logged, Unlogged, Accepting, PlaceInv, Carrying, ToSet
  <2>5. ToSet(queue') = ToSet(queue) \cup {r} /\ Distinct(queue')
    BY <2>1, <2>3, <1>Parts, AppendToSet, AppendDistinct, OnePlaceDef DEF TypeOK, PlaceInv
  <2>6. PlaceInv'
    BY <2>2, <2>4, <2>5, <1>Parts DEF PlaceInv, OnePlace, Distinct
  <2>7. Logged'
    BY <2>2, <2>3, <2>4, <2>5, <1>Parts DEF Logged, InFlight
  <2>8. Merged' /\ Answers' /\ Purged'
    BY <2>2, <2>4, <1>Parts DEF Merged, Answers, Purged, Delivering, Carrying
  <2>9. BootInv'
    BY <2>1, <2>2, <2>5, <1>Parts DEF BootInv, NoLostWork
  <2> QED
    BY <2>6, <2>7, <2>8, <2>9 DEF LogInv
<1>6. CASE ReconcileOpen
  <2>1. /\ boot = "requeue" /\ missing = {} /\ missing' = {} /\ boot' = "up"
        /\ UNCHANGED <<pc, queue, batch, log, mergedInto, mergeSet, fanned, answered,
                       stale, todo, unanswered>>
    BY <1>6 DEF ReconcileOpen, sql, frame
  <2>2. PlaceInv' /\ LogInv'
    BY <2>1, <1>Parts DEF PlaceInv, OnePlace, LogInv, Logged, InFlight, Merged, Answers, Purged
  <2>3. BootInv'
    BY <2>1, <1>Parts DEF BootInv, NoLostWork, NoLostRequest
  <2> QED
    BY <2>2, <2>3
<1>7. CASE UNCHANGED allVars
  <2>1. UNCHANGED vars /\ UNCHANGED <<boot, missing>>
    BY <1>7 DEF allVars, crashVars
  <2>2. PlaceInv' /\ LogInv'
    BY <2>1, <1>Parts, PlaceStep, LogStep
  <2>3. BootInv'
    BY <2>1, <1>Parts DEF vars, redis, sql, frame, BootInv, NoLostWork, NoLostRequest, At
  <2> QED
    BY <2>2, <2>3
<1> QED
  BY <1>1, <1>2, <1>3, <1>4, <1>5, <1>6, <1>7 DEF CrashNext, Reconcile

LEMMA CrashInvInit == CrashInit => CrashInv
<1> SUFFICES ASSUME CrashInit
             PROVE  CrashInv
  OBVIOUS
<1>1. CrashTypeOK
  <2>1. TypeOK
    BY InitType DEF CrashInit
  <2>2. boot = "up" /\ crashes \in 0..MaxCrashes /\ missing = {} /\ requeued = FALSE
    BY DEF CrashInit
  <2> QED
    BY <2>1, <2>2 DEF CrashTypeOK
<1>2. NoLostRequest
  BY DEF CrashInit, Init, NoLostRequest
<1>3. BootInv
  BY <1>2 DEF CrashInit, BootInv, NoLostWork
<1> QED
  BY <1>1, <1>3, PlaceInit, LogInit DEF CrashInit, CrashInv

LEMMA CrashInvariant == CrashSpec => []CrashInv
BY CrashInvInit, CrashStep, PTL DEF CrashSpec

\* However often the process dies, and wherever: once it is up, every request logged
\* as queued is being worked on, is in the queue, or was dispatched in vain.
THEOREM NoLostWorkCorrect == CrashSpec => []NoLostWork
<1>1. CrashInv => NoLostWork
  BY DEF CrashInv, BootInv
<1> QED
  BY <1>1, CrashInvariant, PTL

\* ... and it is there once: reconcile puts back only what the crash took.
THEOREM OnePlaceAcrossCrashes == CrashSpec => []OnePlace
<1>1. CrashInv => OnePlace
  BY DEF CrashInv, PlaceInv
<1> QED
  BY <1>1, CrashInvariant, PTL

\* A settled request has the row of a caller who was taken up: nobody settled is still
\* logged as queued, for reconcile to push again.
BilledRow ==
  \A r \in Requests : settled[r] = 1 => log[r] \in {"merged", "delivered", "failed"}

LEMMA BilledStep == TypeOK /\ BilledRow /\ [Lifecycle!LateNext]_(Lifecycle!vars) => BilledRow'
<1> SUFFICES ASSUME TypeOK, BilledRow, [Lifecycle!LateNext]_(Lifecycle!vars)
             PROVE  BilledRow'
  OBVIOUS
<1>1. ASSUME NEW r \in Requests, Lifecycle!Accept(r)
      PROVE  BilledRow'
  BY <1>1 DEF Lifecycle!Accept, BilledRow, TypeOK
<1>2. ASSUME NEW r \in Requests, Lifecycle!SettleLate(r)
      PROVE  BilledRow'
  BY <1>2 DEF Lifecycle!SettleLate, BilledRow, TypeOK
<1>3. ASSUME NEW S \in SUBSET Requests, Lifecycle!DeliverLate(S) \/ Lifecycle!Expire(S)
      PROVE  BilledRow'
  BY <1>3 DEF Lifecycle!DeliverLate, Lifecycle!Expire, BilledRow
<1>4. CASE UNCHANGED Lifecycle!vars
  BY <1>4 DEF Lifecycle!vars, BilledRow
<1> QED
  BY <1>1, <1>2, <1>3, <1>4 DEF Lifecycle!LateNext

\* Billing across crashes: a crash empties every batch, and reconcile pushes nobody who
\* has been settled.
CrashBills == CrashInv /\ FanInv /\ SettleInv /\ BilledRow

LEMMA CrashBillsStep ==
  CrashBills /\ [CrashNext]_allVars => CrashBills' /\ [Lifecycle!LateNext]_(Lifecycle!vars)
<1> SUFFICES ASSUME CrashBills, [CrashNext]_allVars
             PROVE  FanInv' /\ SettleInv' /\ BilledRow' /\ [Lifecycle!LateNext]_(Lifecycle!vars)
  BY CrashStep DEF CrashBills
<1> DEFINE Step == FanInv' /\ SettleInv' /\ BilledRow' /\ [Lifecycle!LateNext]_(Lifecycle!vars)
<1>Parts. /\ CrashInv /\ CrashTypeOK /\ TypeOK /\ PlaceInv /\ LogInv /\ BootInv
          /\ FanInv /\ SettleInv /\ BilledRow /\ Spent /\ Bills
  BY DEF CrashBills, CrashInv, CrashTypeOK, SettleInv
<1>1. CASE Next \/ UNCHANGED vars
  <2>1. FanInv' /\ SettleInv' /\ [Lifecycle!LateNext]_(Lifecycle!vars)
    BY <1>1, <1>Parts, FanStep, SettleStep, LateStep
  <2> QED
    BY <2>1, <1>Parts, BilledStep
<1>2. CASE Crash
  <2> USE <1>2, CrashFrame DEF redis, sql
  <2>1. FanInv'
    BY DEF FanInv, Delivering
  <2>2. \A t \in Tasks : Work(t)' = {}
    BY DEF Work, ToSet
  <2>3. \A r \in Requests : Past(r) => Past(r)'
    BY DEF Past, Accepting
  <2>4. Spent'
    BY <2>2, <2>3, <1>Parts DEF Spent
  <2>5. Bills'
    BY DEF Bills
  <2>6. BilledRow' /\ UNCHANGED Lifecycle!vars
    BY <1>Parts DEF BilledRow, Lifecycle!vars
  <2> QED
    BY <2>1, <2>4, <2>5, <2>6 DEF SettleInv
<1>3. CASE ReconcilePush
  <2>1. PICK r \in missing : queue' = Append(queue, r)
    BY <1>3 DEF ReconcilePush
  <2>2. /\ boot = "requeue"
        /\ UNCHANGED <<pc, batch, log, settled, mergedInto, mergeSet, fanned, answered, todo,
                       cur>>
    BY <1>3 DEF ReconcilePush, sql, frame
  <2>3. r \in Requests /\ log[r] = "queued"
    BY <1>Parts DEF CrashTypeOK, BootInv
  <2>4. settled[r] # 1
    BY <2>3, <1>Parts DEF BilledRow
  <2>5. ToSet(queue') = ToSet(queue) \cup {r}
    BY <2>1, <2>3, <1>Parts, AppendToSet DEF TypeOK
  <2>6. \A q \in Requests : q # r /\ Past(q) => Past(q)'
    BY <2>2, <2>5 DEF Past
  <2>7. Spent'
    BY <2>2, <2>3, <2>4, <2>6, <1>Parts DEF Spent, Work
  <2>8. FanInv' /\ Bills' /\ BilledRow' /\ UNCHANGED Lifecycle!vars
    BY <2>2, <1>Parts DEF FanInv, Bills, BilledRow, Lifecycle!vars
  <2> QED
    BY <2>7, <2>8 DEF SettleInv
<1>4. CASE ReconcileOpen
  <2>1. UNCHANGED <<pc, queue, batch, log, settled, mergedInto, mergeSet, fanned, answered,
                    todo, cur>>
    BY <1>4 DEF ReconcileOpen, sql, frame
  <2>2. Spent' /\ Bills'
    BY <2>1, <1>Parts DEF Spent, Past, Work, Bills
  <2>3. FanInv' /\ BilledRow' /\ UNCHANGED Lifecycle!vars
    BY <2>1, <1>Parts DEF FanInv, BilledRow, Lifecycle!vars
  <2> QED
    BY <2>2, <2>3 DEF SettleInv
<1>5. CASE ReconcileRead \/ UNCHANGED allVars
  BY <1>1, <1>5 DEF ReconcileRead, allVars
<1>6. CASE boot # "up" /\ Time /\ UNCHANGED crashVars
  BY <1>1, <1>6 DEF Next
<1> QED
  BY <1>1, <1>2, <1>3, <1>4, <1>5, <1>6 DEF CrashNext, Reconcile

LEMMA CrashBillsInvariant == CrashSpec => []CrashBills
<1>1. CrashInit => CrashInv
  BY CrashInvInit
<1>2. CrashInit => FanInv /\ SettleInv /\ BilledRow
  BY DEF CrashInit, Init, FanInv, SettleInv, Spent, Past, Work, Bills, BilledRow, ToSet,
         Delivering, Accepting
<1>3. CrashInit => CrashBills
  BY <1>1, <1>2 DEF CrashBills
<1>4. CrashBills /\ [CrashNext]_allVars => CrashBills'
  BY CrashBillsStep
<1> QED
  BY <1>3, <1>4, PTL DEF CrashSpec

\* Nobody pays twice for a request however often the process dies and wherever: what
\* reconcile puts back into the queue, and a later batch delivers, had no settlement.
BilledOnce == \A r \in Requests : settled[r] <= 1

THEOREM BilledOnceAcrossCrashes == CrashSpec => []BilledOnce
<1>1. CrashBills => BilledOnce
  BY DEF CrashBills, SettleInv, Spent, BilledOnce
<1> QED
  BY <1>1, CrashBillsInvariant, PTL

\* The two ledgers survive: with crashes and reconciliations at any point the broker
\* still makes only the steps of the weaker promise.
THEOREM LatePromiseAcrossCrashes == CrashSpec => Lifecycle!LateSpec
<1>1. CrashInit => Lifecycle!Init
  BY DEF CrashInit, Init, Lifecycle!Init
<1>2. CrashBills /\ [CrashNext]_allVars => [Lifecycle!LateNext]_(Lifecycle!vars)
  BY CrashBillsStep
<1> QED
  BY <1>1, <1>2, CrashBillsInvariant, PTL DEF CrashSpec, Lifecycle!LateSpec

\* ... and, while no TTL is set, those of the strong one: RequestLifecycle cannot tell
\* a broker that crashes from one that does not.
THEOREM ImplementsLifecycleAcrossCrashes == TTL = FALSE /\ CrashSpec => ImplementsLifecycle
<1> SUFFICES ASSUME TTL = FALSE
             PROVE  CrashSpec => ImplementsLifecycle
  OBVIOUS
<1>1. CrashInit => Lifecycle!Init /\ NoFailure
  BY DEF CrashInit, Init, Lifecycle!Init, NoFailure
<1>2. CrashBills /\ NoFailure /\ [CrashNext]_allVars =>
        [Lifecycle!Next]_(Lifecycle!vars) /\ NoFailure'
  <2> SUFFICES ASSUME CrashBills, NoFailure, [CrashNext]_allVars
               PROVE  [Lifecycle!Next]_(Lifecycle!vars) /\ NoFailure'
    OBVIOUS
  <2>1. TypeOK
    BY DEF CrashBills, CrashInv, CrashTypeOK
  <2>2. [Lifecycle!Next]_(Lifecycle!vars)
    BY CrashBillsStep, LateIsNotLate
  <2>3. CASE Next \/ UNCHANGED vars
    BY <2>1, <2>2, <2>3, NoFailureStep
  <2>4. CASE Crash \/ Reconcile
    <3>1. log' = log
      BY <2>4 DEF Crash, Reconcile, ReconcileRead, ReconcilePush, ReconcileOpen, vars, sql
    <3> QED
      BY <2>2, <3>1 DEF NoFailure
  <2> QED
    BY <2>3, <2>4 DEF CrashNext, Next, allVars
<1> QED
  BY <1>1, <1>2, CrashBillsInvariant, PTL DEF CrashSpec, ImplementsLifecycle, Lifecycle!Spec

\* No step of the broker rewrites the row of a request that has been served.
LEMMA ServedStep ==
  ASSUME TypeOK, LogInv, [Next]_vars,
         NEW r \in Requests, log[r] \in {"delivered", "cached"}
  PROVE  log'[r] = log[r]
<1> USE DEF At, redis, sql, frame
<1>Parts. Logged /\ Merged /\ Answers
  BY DEF LogInv
<1>1. ASSUME NEW q \in Requests, Intake(q)
      PROVE  log'[r] = log[r]
  <2>1. CASE ServeCached(q) \/ LogMerged(q) \/ LogQueued(q)
    <3>1. log[q] = "none" /\ \E st \in Status : log' = [log EXCEPT ![q] = st]
      BY <2>1, <1>Parts DEF ServeCached, LogMerged, LogQueued, Logged, Unlogged, Accepting, Status
    <3> QED
      BY <3>1 DEF TypeOK
  <2>2. CASE ~ (ServeCached(q) \/ LogMerged(q) \/ LogQueued(q))
    BY <1>1, <2>2 DEF Intake, CacheMiss, ClaimSlot, ReadOwner, RecordMerge, CheckDepth,
                      ReleaseRefused, Push, OpenWindow, CheckSize
  <2> QED
    BY <2>1, <2>2
<1>2. ASSUME NEW t \in Tasks, Fire(t)
      PROVE  log'[r] = log[r]
  BY <1>2 DEF Fire, FireLock, Drain, Close, Recheck, Reopen, Release, Unlock
<1>3. ASSUME NEW t \in Tasks, Process(t)
      PROVE  log'[r] = log[r]
  <2>1. CASE CommitDeliveries(t)
    <3>1. /\ pc[t] = "fan"
          /\ log'[r] = IF r \in answered[t] \cup fanned[t] /\ log[r] # "none"
                       THEN "delivered" ELSE log[r]
      BY <2>1 DEF CommitDeliveries
    <3>2. r \in answered[t] \cup fanned[t] => log[r] # "cached"
      BY <3>1, <1>Parts DEF Answers, Merged, Logged, InFlight, Delivering
    <3> QED
      BY <3>1, <3>2
  <2>2. CASE ~ CommitDeliveries(t)
    BY <1>3, <2>2 DEF Process, Dispatch, FanOut, ClearMergeSet, ResolveCallers,
                      RecordSettlement, FinishBatch
  <2> QED
    BY <2>1, <2>2
<1>4. ASSUME NEW s \in Sweepers, Sweep(s)
      PROVE  log'[r] = log[r]
  BY <1>4 DEF Sweep, CheckTimer, ExpireRows, Expirable, PeekStale, PurgeEntry, PurgeDone
<1>5. CASE Time
  BY <1>5, TimeFrame
<1>6. CASE UNCHANGED vars
  BY <1>6 DEF vars
<1> QED
  BY <1>1, <1>2, <1>3, <1>4, <1>5, <1>6 DEF Next

\* A served request stays served: no crash, no reconciliation and no sweep after it
\* takes it up again or reports it failed.
THEOREM ServedIsFinalAcrossCrashesCorrect == CrashSpec => ServedIsFinalAcrossCrashes
<1> DEFINE Final == \A r \in Requests : log[r] \in {"delivered", "cached"} => log'[r] = log[r]
<1>1. ASSUME CrashInv, [CrashNext]_allVars
      PROVE  Final
  <2>1. CASE Next
    BY <1>1, <2>1, ServedStep DEF CrashInv, CrashTypeOK
  <2>2. CASE ~ Next
    <3>1. log' = log
      BY <1>1, <2>2, TimeFrame
         DEF CrashNext, Crash, Reconcile, ReconcileRead, ReconcilePush, ReconcileOpen,
             allVars, vars, redis, sql
    <3> QED
      BY <3>1
  <2> QED
    BY <2>1, <2>2
<1>2. CrashInv /\ [CrashNext]_allVars => [Final]_allVars
  BY <1>1
<1> QED
  BY <1>2, CrashInvariant, PTL DEF CrashSpec, ServedIsFinalAcrossCrashes
=============================================================================
