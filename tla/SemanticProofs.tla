--------------------------- MODULE SemanticProofs ---------------------------
(***************************************************************************)
(* Theorems of module Semantic, for every relation of meaning that holds   *)
(* between identical requests, and any requests, priorities and depth of   *)
(* the queue.                                                              *)
(***************************************************************************)
EXTENDS Semantic, TLAPS

\* Where accept can be, and the states of a row.
MergerPlaces == {"start", "search", "register", "free", "merge", "depth", "refused", "done"}
MergerStates == {"none", "queued", "merged", "delivered", "cached", "failed"}

\* The types of the merger's state.
MergerType ==
  /\ pc \in [Requests -> MergerPlaces]
  /\ owner \in [Requests -> Requests \cup {None}]
  /\ pending \in [Fps -> Requests \cup {None}]
  /\ mergeSet \in [Requests -> SUBSET Requests]
  /\ log \in [Requests -> MergerStates]
  /\ answer \in [Requests -> Requests \cup {None}]
  /\ \A S \in {vectors, queue, batch, out, purge} : S \subseteq Requests

\* Who merges into a request, or into the owner of a slot, means the same.
SameAs(r, o) == o = r \/ <<r, o>> \in Near
Meaning ==
  /\ \A f \in Fps : pending[f] # None => Fp[pending[f]] = f
  /\ \A r \in Requests :
       pc[r] \in {"free", "merge"} => owner[r] \in Requests /\ SameAs(r, owner[r])
  /\ \A d \in Requests : \A r \in mergeSet[d] : SameAs(r, d)
  /\ \A r \in Requests : answer[r] # None => SameAs(r, answer[r])

\* Whose vector is registered was not merged, is not answered before the vector is gone,
\* and is taken off the queue only by its window, or when it has failed.
Registered ==
  /\ fire = "idle" => batch = {}
  /\ \A r \in queue \cup batch \cup out \cup purge : pc[r] = "done"
  /\ \A d \in Requests : \A r \in mergeSet[d] : pc[r] = "done"
  /\ \A v \in vectors :
       /\ pc[v] \in {"depth", "refused", "done"}
       /\ v \notin out /\ \A d \in Requests : v \notin mergeSet[d]
       /\ v \in queue => log[v] \in {"queued", "failed"}
       /\ v \in purge => log[v] = "failed"
       /\ pc[v] = "done" => (v \in queue \cup batch) \/ log[v] = "failed"

MergerInv == MergerType /\ Meaning /\ Registered

\* What one request's step of accept does.
LEMMA MergerAccept ==
  ASSUME MergerInv, NEW r \in Requests, Accept(r)
  PROVE  MergerInv'
<1> USE DEF MergerInv, MergerPlaces, MergerStates, At, Goto
<1>f. /\ Fp \in [Requests -> Fps] /\ None \notin Requests
      /\ \A q, o \in Requests : Fp[q] = Fp[o] => SameAs(q, o)
  BY FpAssumption, ScoreAssumption DEF SameAs
<1>1. CASE ServeCached(r)
  <2>1. MergerType'
    BY <1>1 DEF ServeCached, store, window, sweep, MergerType
  <2>2. Meaning'
    BY <1>1, <1>f DEF ServeCached, store, MergerType, Meaning, SameAs
  <2>3. Registered'
    BY <1>1 DEF ServeCached, store, window, sweep, MergerType,
                Registered
  <2> QED
    BY <2>1, <2>2, <2>3
<1>2. CASE ClaimSlot(r)
  <2>1. MergerType'
    BY <1>2, <1>f DEF ClaimSlot, window, rows, sweep, MergerType
  <2>2. Meaning'
    BY <1>2, <1>f, SMTT(30) DEF ClaimSlot, rows, MergerType, Meaning, SameAs
  <2>3. Registered'
    BY <1>2 DEF ClaimSlot, window, rows, sweep, MergerType, Registered
  <2> QED
    BY <2>1, <2>2, <2>3
<1>3. CASE Search(r)
  <2>1. MergerType'
    <3>1. /\ UNCHANGED <<pending, mergeSet, log, answer>>
          /\ UNCHANGED <<vectors, queue, batch, out, purge>>
      BY <1>3 DEF Search, store, window, rows, sweep
    <3>2. pc' \in [Requests -> MergerPlaces]
      BY <1>3 DEF Search, MergerType
    <3>3. owner' \in [Requests -> Requests \cup {None}]
      <4>1. \A o \in Nearest(r, Near) : o \in Requests
        BY DEF Nearest, MergerType
      <4>2. UNCHANGED owner \/ \E o \in Nearest(r, Near) : owner' = [owner EXCEPT ![r] = o]
        BY <1>3 DEF Search
      <4> QED
        BY <4>1, <4>2 DEF MergerType
    <3> QED
      BY <3>1, <3>2, <3>3 DEF MergerType
  <2>2. Meaning'
    <3>1. /\ UNCHANGED <<pending, mergeSet, answer>>
          /\ \A q \in Requests \ {r} : pc'[q] = pc[q] /\ owner'[q] = owner[q]
          /\ pc'[r] \in {"free", "merge"} =>
               owner'[r] \in Requests /\ <<r, owner'[r]>> \in Near
      <4>1. CASE \E o \in Nearest(r, Near) :
                   owner' = [owner EXCEPT ![r] = o] /\ Goto(r, "free")
        <5>1. PICK o \in Nearest(r, Near) :
                owner' = [owner EXCEPT ![r] = o] /\ Goto(r, "free")
          BY <4>1
        <5>2. o \in Requests /\ <<r, o>> \in Near
          BY DEF Nearest, MergerType
        <5> QED
          BY <1>3, <5>1, <5>2 DEF Search, store, rows, MergerType
      <4>2. CASE Goto(r, "register") /\ UNCHANGED owner
        BY <1>3, <4>2 DEF Search, store, rows, MergerType
      <4> QED
        BY <1>3, <4>1, <4>2 DEF Search
    <3>2. \A q \in Requests :
            pc'[q] \in {"free", "merge"} =>
              owner'[q] \in Requests /\ SameAs(q, owner'[q])
      BY <3>1 DEF Meaning, SameAs
    <3> QED
      BY <3>1, <3>2 DEF Meaning, SameAs, Fps
  <2>3. Registered'
    BY <1>3 DEF Search, store, window, rows, sweep, MergerType,
                Registered
  <2> QED
    BY <2>1, <2>2, <2>3
<1>4. CASE Register(r)
  <2>1. MergerType'
    BY <1>4 DEF Register, window, rows, sweep, MergerType
  <2>2. Meaning'
    BY <1>4 DEF Register, rows, MergerType, Meaning, SameAs
  <2>3. Registered'
    BY <1>4 DEF Register, window, rows, sweep, MergerType, Registered
  <2> QED
    BY <2>1, <2>2, <2>3
<1>5. CASE FreeSlot(r)
  <2>1. MergerType'
    BY <1>5 DEF FreeSlot, window, rows, sweep, MergerType
  <2>2. Meaning'
    BY <1>5 DEF FreeSlot, rows, MergerType, Meaning, SameAs
  <2>3. Registered'
    BY <1>5 DEF FreeSlot, window, rows, sweep, MergerType, Registered
  <2> QED
    BY <2>1, <2>2, <2>3
<1>6. CASE Merge(r)
  <2>0. owner[r] \in Requests /\ SameAs(r, owner[r])
    BY <1>6 DEF Merge, Meaning
  <2>1. MergerType'
    BY <1>6, <2>0 DEF Merge, window, sweep, MergerType
  <2>2. Meaning'
    BY <1>6, <2>0 DEF Merge, MergerType, Meaning, SameAs
  <2>3. Registered'
    BY <1>6, <2>0 DEF Merge, window, sweep, MergerType, Registered
  <2> QED
    BY <2>1, <2>2, <2>3
<1>7. CASE Refuse(r)
  <2>1. MergerType'
    BY <1>7 DEF Refuse, window, rows, sweep, MergerType
  <2>2. Meaning'
    BY <1>7 DEF Refuse, rows, MergerType, Meaning, SameAs
  <2>3. Registered'
    BY <1>7 DEF Refuse, window, rows, sweep, MergerType, Registered
  <2> QED
    BY <2>1, <2>2, <2>3
<1>8. CASE Enqueue(r)
  <2>1. MergerType'
    BY <1>8 DEF Enqueue, window, sweep, MergerType
  <2>2. Meaning'
    BY <1>8 DEF Enqueue, MergerType, Meaning, SameAs
  <2>3. Registered'
    BY <1>8 DEF Enqueue, window, sweep, MergerType, Registered
  <2> QED
    BY <2>1, <2>2, <2>3
<1> QED
  BY <1>1, <1>2, <1>3, <1>4, <1>5, <1>6, <1>7, <1>8 DEF Accept

\* What the fire, the dispatch and the sweeper do.
LEMMA MergerRest ==
  ASSUME MergerInv,
         \/ Fire \/ Sweep
         \/ \E d \in Requests : Answer(d) \/ GoesStale(d)
  PROVE  MergerInv'
<1> USE DEF MergerInv, MergerStates
<1>1. CASE Drain
  <2>1. MergerType'
    BY <1>1 DEF Drain, intake, rows, sweep, MergerType
  <2>2. Meaning'
    BY <1>1 DEF Drain, intake, rows, Meaning, SameAs
  <2>3. Registered'
    BY <1>1 DEF Drain, intake, rows, sweep, Registered
  <2> QED
    BY <2>1, <2>2, <2>3
<1>2. CASE ReleaseWindow
  <2>1. MergerType'
    BY <1>2 DEF ReleaseWindow, intake, rows, sweep, MergerType
  <2>2. Meaning'
    BY <1>2 DEF ReleaseWindow, intake, rows, Meaning, SameAs
  <2>3. Registered'
    BY <1>2 DEF ReleaseWindow, intake, rows, sweep, Registered
  <2> QED
    BY <2>1, <2>2, <2>3
<1>3. CASE ReleaseVectors
  <2>1. MergerType'
    BY <1>3 DEF ReleaseVectors, intake, rows, sweep, MergerType
  <2>2. Meaning'
    BY <1>3 DEF ReleaseVectors, intake, rows, Meaning, SameAs
  <2>3. Registered'
    BY <1>3 DEF ReleaseVectors, intake, rows, sweep, Registered
  <2> QED
    BY <2>1, <2>2, <2>3
<1>4. ASSUME NEW d \in Requests, Deliver(d)
      PROVE  MergerInv'
  <2>1. MergerType'
    BY <1>4 DEF Deliver, intake, sweep, MergerType
  <2>2. Meaning'
    BY <1>4 DEF Deliver, intake, MergerType, Meaning, SameAs
  <2>3. Registered'
    \* no vector is registered for those the answer is for
    <3>1. \A v \in vectors : v # d /\ v \notin mergeSet[d]
      BY <1>4 DEF Deliver, Registered
    <3>2. \A v \in vectors : log'[v] = log[v]
      BY <1>4, <3>1 DEF Deliver, MergerType
    <3>3. /\ UNCHANGED <<pc, vectors, queue, fire, batch, purge>>
          /\ out' \subseteq out
          /\ \A q \in Requests : mergeSet'[q] \subseteq mergeSet[q]
      BY <1>4 DEF Deliver, intake, sweep, MergerType
    <3> QED
      BY <3>2, <3>3 DEF Registered
  <2> QED
    BY <2>1, <2>2, <2>3
<1>5. ASSUME NEW d \in Requests, LoseAnswer(d)
      PROVE  MergerInv'
  <2>1. MergerType'
    BY <1>5 DEF LoseAnswer, intake, store, rows, sweep, MergerType
  <2>2. Meaning'
    BY <1>5 DEF LoseAnswer, intake, store, rows, Meaning, SameAs
  <2>3. Registered'
    BY <1>5 DEF LoseAnswer, intake, store, rows, sweep, Registered
  <2> QED
    BY <2>1, <2>2, <2>3
<1>6. ASSUME NEW d \in Requests, GoesStale(d)
      PROVE  MergerInv'
  <2>1. /\ UNCHANGED <<pc, owner, pending, vectors, queue, mergeSet>>
        /\ UNCHANGED <<fire, batch, out, log, answer, purge>>
    BY <1>6 DEF GoesStale, intake, store, window, rows
  <2> QED
    BY <2>1 DEF MergerType, Meaning, SameAs, Registered
<1>7. CASE ExpireRows
  <2>1. MergerType'
    BY <1>7 DEF ExpireRows, intake, store, window, MergerType
  <2>2. Meaning'
    BY <1>7 DEF ExpireRows, intake, store, Meaning, SameAs
  <2>3. Registered'
    <3>1. /\ UNCHANGED <<pc, vectors, queue, mergeSet, fire, batch,
                        out>>
          /\ purge' = stale \cap queue
          /\ log' = [r \in Requests |->
                          IF r \in Expirable THEN "failed" ELSE log[r]]
      BY <1>7 DEF ExpireRows, intake, store, window
    <3>2. \A v \in vectors : v \in purge' => log'[v] = "failed"
      BY <3>1 DEF MergerType, Registered, Expirable
    <3>3. \A v \in vectors :
            /\ log[v] = "failed" => log'[v] = "failed"
            /\ log[v] = "queued" => log'[v] \in {"queued", "failed"}
      BY <3>1 DEF MergerType
    <3>4. \A v \in purge' : pc'[v] = "done"
      BY <3>1 DEF Registered
    <3> QED
      BY <3>1, <3>2, <3>3, <3>4 DEF Registered
  <2> QED
    BY <2>1, <2>2, <2>3
<1>8. ASSUME NEW r \in Requests, PurgeEntry(r)
      PROVE  MergerInv'
  <2>1. MergerType'
    BY <1>8 DEF PurgeEntry, intake, window, rows, MergerType
  <2>2. Meaning'
    BY <1>8 DEF PurgeEntry, intake, rows, Meaning, SameAs
  <2>3. Registered'
    BY <1>8 DEF PurgeEntry, intake, window, rows, Registered
  <2> QED
    BY <2>1, <2>2, <2>3
<1> QED
  BY <1>1, <1>2, <1>3, <1>4, <1>5, <1>6, <1>7, <1>8
  DEF Fire, Sweep, Answer

LEMMA MergerInvariant == Spec => []MergerInv
<1>1. Init => MergerInv
  BY FpAssumption
     DEF Init, MergerInv, MergerType, MergerPlaces, MergerStates, Meaning, Registered
<1>2. ASSUME MergerInv, [Next]_vars
      PROVE  MergerInv'
  <2>1. ASSUME NEW r \in Requests, Accept(r)
        PROVE  MergerInv'
    BY <1>2, <2>1, MergerAccept
  <2>2. CASE UNCHANGED vars
    <3>1. /\ UNCHANGED <<pc, owner, pending, vectors, queue, mergeSet>>
          /\ UNCHANGED <<fire, batch, out, log, answer, purge>>
      BY <2>2 DEF vars, intake, store, window, rows, sweep
    <3> QED
      BY <1>2, <3>1 DEF MergerInv, MergerType, Meaning, SameAs, Registered
  <2> QED
    BY <1>2, <2>1, <2>2, MergerRest DEF Next
<1> QED
  BY <1>1, <1>2, PTL DEF Spec

\* Type correctness of the merger's redis state, its vector store and its rows, whatever
\* intake, fire and sweep interleave.
THEOREM SemanticTypeCorrect == Spec => []MergerType
<1>1. MergerInv => MergerType
  BY DEF MergerInv
<1> QED
  BY <1>1, MergerInvariant, PTL

\* AnswersAreNear, for every relation of meaning: a request is only ever given the answer
\* to a query that means the same (SemanticDedup.check, and the delivery of an answer to
\* everyone merged into its request).
THEOREM AnswersAreNearCorrect == Spec => []AnswersAreNear
<1>1. MergerInv => AnswersAreNear
  BY DEF MergerInv, Meaning, SameAs, AnswersAreNear
<1> QED
  BY <1>1, MergerInvariant, PTL

\* NoServedVector: a vector that can be merged into names a request that is still to be
\* drained, or one that was refused or expired, never one that was answered before.
THEOREM NoServedVectorCorrect == Spec => []NoServedVector
<1>1. MergerInv => NoServedVector
  BY DEF MergerInv, MergerType, Registered, NoServedVector, Entering
<1> QED
  BY <1>1, MergerInvariant, PTL

-----------------------------------------------------------------------------
(* Two merges, exact and semantic, that know nothing of each other.        *)

\* What the stores do to an answer they have given: a request is answered once, by
\* one dispatch, and neither another one nor the expiry sweep rewrites its row.
AnsweredIsFinal ==
  [][\A r \in Requests :
       /\ answer[r] # None => answer'[r] = answer[r]
       /\ log[r] \in {"delivered", "cached"} => log'[r] = log[r]]_vars

\* What holds in spite of NoOrphanMerge: a request that merged into one that merged away
\* itself is identical to it, and the one that both then wait for did not merge.
OrphansAreTwins ==
  \A r \in Requests :
    log[r] = "merged" /\ log[owner[r]] = "merged" =>
      Fp[owner[r]] = Fp[r] /\ log[owner[owner[r]]] # "merged"

\* Who waits for an answer waits at one place, and has none yet.
OncePlaced ==
  /\ \A r \in queue \cup batch \cup out : answer[r] = None
  /\ queue \cap (batch \cup out) = {} /\ batch \cap out = {}
  /\ \A d \in Requests : \A r \in mergeSet[d] :
       /\ answer[r] = None /\ r \notin queue \cup batch \cup out
       /\ \A e \in Requests : r \in mergeSet[e] => e = d

\* A row says that its request is answered if and only if it is.
RowsTell ==
  /\ \A r \in Requests : pc[r] # "done" => log[r] = "none"
  /\ \A r \in Requests : log[r] \in {"delivered", "cached"} <=> answer[r] # None

\* Past the merger, for a dispatch of its own.
Settled(r) == pc[r] \in {"depth", "refused", "done"} /\ log[r] # "merged"

\* Has claimed its slot: if it merges, it is into a settled one.
Claimed(r) ==
  \/ pc[r] \in {"search", "register"} \/ Settled(r)
  \/ pc[r] \in {"free", "merge", "done"} /\ owner[r] \in Requests /\ Settled(owner[r])

Followed(r) ==
  owner[r] \in Requests
    /\ (Settled(owner[r]) \/ (Claimed(owner[r]) /\ Fp[owner[r]] = Fp[r]))

Twins ==
  /\ \A f \in Fps : pending[f] # None => Claimed(pending[f])
  /\ \A v \in vectors : Settled(v)
  /\ \A r \in Requests : pc[r] = "free" => Settled(owner[r])
  /\ \A r \in Requests : pc[r] = "merge" \/ log[r] = "merged" => Followed(r)

OnceInv == MergerInv /\ OncePlaced /\ RowsTell

\* A step of intake leaves the answers there are.
LEMMA OnceAccept ==
  ASSUME OnceInv, NEW r \in Requests, Accept(r)
  PROVE  /\ OncePlaced' /\ RowsTell'
         /\ \A q \in Requests : /\ answer[q] # None => answer'[q] = answer[q]
                                /\ log[q] \in {"delivered", "cached"} => log'[q] = log[q]
<1>T. MergerType /\ Registered /\ OncePlaced /\ RowsTell
  BY DEF OnceInv, MergerInv
<1>N. None \notin Requests
  BY FpAssumption
<1>1. CASE ServeCached(r)
  <2>1. PICK o \in Requests : answer' = [answer EXCEPT ![r] = o]
    BY <1>1 DEF ServeCached
  <2>2. /\ pc[r] = "start" /\ pc' = [pc EXCEPT ![r] = "done"]
        /\ log' = [log EXCEPT ![r] = "cached"]
        /\ UNCHANGED <<queue, batch, out, mergeSet>>
    BY <1>1 DEF ServeCached, At, Goto, store, window
  <2>3. /\ r \notin queue \cup batch \cup out /\ \A d \in Requests : r \notin mergeSet[d]
        /\ log[r] = "none" /\ answer[r] = None
    BY <1>T, <2>2 DEF Registered, RowsTell
  <2>4. /\ \A q \in Requests \ {r} : pc'[q] = pc[q] /\ answer'[q] = answer[q] /\ log'[q] = log[q]
        /\ pc'[r] = "done" /\ answer'[r] = o /\ log'[r] = "cached"
    BY <1>T, <2>1, <2>2 DEF MergerType
  <2>5. OncePlaced'
    BY <1>T, <2>2, <2>3, <2>4 DEF OncePlaced, MergerType
  <2>6. RowsTell'
    BY <1>T, <1>N, <2>4 DEF RowsTell
  <2> QED
    BY <2>3, <2>4, <2>5, <2>6
<1>2. CASE ClaimSlot(r) \/ Search(r) \/ Register(r) \/ FreeSlot(r) \/ Refuse(r)
  <2>1. /\ UNCHANGED <<queue, batch, out, mergeSet, answer, log>>
        /\ pc[r] # "done" /\ \A q \in Requests \ {r} : pc'[q] = pc[q]
    BY <1>2, <1>T DEF ClaimSlot, Search, Register, FreeSlot, Refuse, At, Goto, store, window,
                      rows, MergerType
  <2>2. \A q \in Requests : pc'[q] # "done" => pc[q] # "done"
    BY <2>1
  <2>3. OncePlaced'
    BY <1>T, <2>1 DEF OncePlaced
  <2>4. RowsTell'
    BY <1>T, <2>1, <2>2 DEF RowsTell
  <2> QED
    BY <2>1, <2>3, <2>4
<1>3. CASE Merge(r)
  <2>1. /\ pc[r] = "merge" /\ pc' = [pc EXCEPT ![r] = "done"]
        /\ log' = [log EXCEPT ![r] = "merged"]
        /\ mergeSet' = [mergeSet EXCEPT ![owner[r]] = @ \cup {r}]
        /\ UNCHANGED <<queue, batch, out, answer>>
    BY <1>3 DEF Merge, At, Goto, window
  <2>2. /\ r \notin queue \cup batch \cup out /\ \A d \in Requests : r \notin mergeSet[d]
        /\ log[r] = "none" /\ answer[r] = None
    BY <1>T, <2>1 DEF Registered, RowsTell
  <2>3. owner[r] \in Requests
    BY <2>1 DEF OnceInv, MergerInv, Meaning
  <2>4. /\ \A d \in Requests \ {owner[r]} : mergeSet'[d] = mergeSet[d]
        /\ mergeSet'[owner[r]] = mergeSet[owner[r]] \cup {r}
        /\ \A q \in Requests \ {r} : log'[q] = log[q] /\ pc'[q] = pc[q]
        /\ log'[r] = "merged" /\ pc'[r] = "done"
    BY <1>T, <2>1, <2>3 DEF MergerType
  <2>5. OncePlaced'
    <3>1. ASSUME NEW d \in Requests, NEW q \in mergeSet'[d]
          PROVE  /\ answer[q] = None /\ q \notin queue \cup batch \cup out
                 /\ \A e \in Requests : q \in mergeSet'[e] => e = d
      <4>1. CASE q = r
        BY <2>2, <2>4, <4>1, <3>1
      <4>2. CASE q # r
        <5>1. q \in mergeSet[d] /\ \A e \in Requests : q \in mergeSet'[e] => q \in mergeSet[e]
          BY <2>4, <4>2, <3>1
        <5> QED
          BY <1>T, <5>1 DEF OncePlaced
      <4> QED
        BY <4>1, <4>2
    <3> QED
      BY <1>T, <2>1, <3>1 DEF OncePlaced
  <2>6. RowsTell'
    BY <1>T, <2>1, <2>2, <2>4 DEF RowsTell
  <2> QED
    BY <2>1, <2>2, <2>4, <2>5, <2>6
<1>4. CASE Enqueue(r)
  <2>1. /\ pc[r] = "depth" /\ pc' = [pc EXCEPT ![r] = "done"]
        /\ log' = [log EXCEPT ![r] = "queued"] /\ queue' = queue \cup {r}
        /\ UNCHANGED <<batch, out, mergeSet, answer>>
    BY <1>4 DEF Enqueue, At, Goto, window
  <2>2. /\ r \notin queue \cup batch \cup out /\ \A d \in Requests : r \notin mergeSet[d]
        /\ log[r] = "none" /\ answer[r] = None
    BY <1>T, <2>1 DEF Registered, RowsTell
  <2>3. /\ \A q \in Requests \ {r} : log'[q] = log[q] /\ pc'[q] = pc[q]
        /\ log'[r] = "queued" /\ pc'[r] = "done"
    BY <1>T, <2>1 DEF MergerType
  <2>4. OncePlaced'
    BY <1>T, <2>1, <2>2 DEF OncePlaced
  <2>5. RowsTell'
    BY <1>T, <2>1, <2>2, <2>3 DEF RowsTell
  <2> QED
    BY <2>1, <2>2, <2>3, <2>4, <2>5
<1> QED
  BY <1>1, <1>2, <1>3, <1>4 DEF Accept

\* A dispatch answers those who wait, and nobody twice; a sweep fails no answered row.
LEMMA OnceRest ==
  ASSUME OnceInv,
         \/ Fire \/ Sweep
         \/ \E d \in Requests : Answer(d) \/ GoesStale(d)
  PROVE  /\ OncePlaced' /\ RowsTell'
         /\ \A q \in Requests : /\ answer[q] # None => answer'[q] = answer[q]
                                /\ log[q] \in {"delivered", "cached"} => log'[q] = log[q]
<1>T. MergerType /\ Registered /\ OncePlaced /\ RowsTell
  BY DEF OnceInv, MergerInv
<1>N. None \notin Requests
  BY FpAssumption
<1>1. CASE Fire \/ \E d \in Requests : LoseAnswer(d) \/ GoesStale(d) \/ PurgeEntry(d)
  <2>1. UNCHANGED <<pc, mergeSet, answer, log>>
    BY <1>1 DEF Fire, Drain, ReleaseWindow, ReleaseVectors, LoseAnswer, GoesStale, PurgeEntry,
                intake, store, rows
  <2>2. /\ queue' \cup batch' \cup out' \subseteq queue \cup batch \cup out
        /\ queue' \cap (batch' \cup out') = {} /\ batch' \cap out' = {}
    <3>1. CASE Drain
      BY <1>T, <3>1 DEF Drain, OncePlaced, Registered
    <3>2. CASE ReleaseWindow
      BY <1>T, <3>2 DEF ReleaseWindow, OncePlaced
    <3>3. CASE ReleaseVectors
      BY <1>T, <3>3 DEF ReleaseVectors, OncePlaced
    <3>4. CASE \E d \in Requests : LoseAnswer(d) \/ GoesStale(d) \/ PurgeEntry(d)
      BY <1>T, <3>4 DEF LoseAnswer, GoesStale, PurgeEntry, OncePlaced, store, window
    <3> QED
      BY <1>1, <3>1, <3>2, <3>3, <3>4 DEF Fire
  <2>3. OncePlaced'
    BY <1>T, <2>1, <2>2 DEF OncePlaced
  <2>4. RowsTell'
    BY <1>T, <2>1 DEF RowsTell
  <2> QED
    BY <2>1, <2>3, <2>4
<1>2. ASSUME NEW d \in Requests, Deliver(d)
      PROVE  /\ OncePlaced' /\ RowsTell'
             /\ \A q \in Requests : /\ answer[q] # None => answer'[q] = answer[q]
                                    /\ log[q] \in {"delivered", "cached"} => log'[q] = log[q]
  <2> DEFINE served == {d} \cup mergeSet[d]
  <2>1. /\ d \in out /\ out' = out \ {d}
        /\ log' = [r \in Requests |-> IF r \in served THEN "delivered" ELSE log[r]]
        /\ answer' = [r \in Requests |-> IF r \in served THEN d ELSE answer[r]]
        /\ mergeSet' = [mergeSet EXCEPT ![d] = {}]
        /\ UNCHANGED <<pc, queue, batch>>
    BY <1>2 DEF Deliver, intake
  <2>2. \A r \in served : r \in Requests /\ answer[r] = None /\ pc[r] = "done"
    BY <1>T, <2>1 DEF OncePlaced, Registered, MergerType
  <2>3. \A r \in served : r \notin queue \cup batch \cup out'
    BY <1>T, <2>1 DEF OncePlaced
  <2>4. \A e \in Requests : mergeSet'[e] \subseteq mergeSet[e] /\ mergeSet'[d] = {}
    BY <1>T, <2>1 DEF MergerType
  <2>5. \A e \in Requests : \A r \in mergeSet'[e] : r \notin served
    BY <1>T, <2>1, <2>4 DEF OncePlaced
  <2> HIDE DEF served
  <2>6. OncePlaced'
    <3>1. \A r \in Requests \ served : answer'[r] = answer[r]
      BY <2>1
    <3>2. \A r \in queue' \cup batch' \cup out' : r \in Requests \ served
      BY <1>T, <2>1, <2>3 DEF MergerType
    <3>3. \A e \in Requests : \A r \in mergeSet'[e] : r \in mergeSet[e] /\ r \in Requests \ served
      BY <1>T, <2>4, <2>5 DEF MergerType
    <3>4. queue' \cup batch' \cup out' \subseteq queue \cup batch \cup out
      BY <2>1
    <3> QED
      BY <1>T, <2>1, <3>1, <3>2, <3>3, <3>4 DEF OncePlaced
  <2>7. RowsTell'
    BY <1>T, <1>N, <2>1, <2>2 DEF RowsTell
  <2> QED
    BY <1>T, <2>1, <2>2, <2>6, <2>7 DEF RowsTell
<1>3. CASE ExpireRows
  <2>1. /\ log' = [r \in Requests |-> IF r \in Expirable THEN "failed" ELSE log[r]]
        /\ UNCHANGED <<pc, mergeSet, answer, queue, batch, out>>
    BY <1>3 DEF ExpireRows, intake, store, window
  <2>2. \A r \in Expirable : log[r] \in {"queued", "merged"}
    BY DEF Expirable
  <2>3. OncePlaced'
    BY <1>T, <2>1 DEF OncePlaced
  <2>4. \A r \in Requests : log'[r] \in {"delivered", "cached"} <=> log[r] \in {"delivered", "cached"}
    BY <2>1, <2>2
  <2>5. \A r \in Requests : pc'[r] # "done" => log'[r] = "none"
    BY <1>T, <2>1, <2>2 DEF RowsTell
  <2>6. RowsTell'
    BY <1>T, <2>1, <2>4, <2>5 DEF RowsTell
  <2> QED
    BY <2>1, <2>2, <2>3, <2>6
<1> QED
  BY <1>1, <1>2, <1>3 DEF Sweep, Answer

\* No step but its own intake moves a request; only a merge makes its row a merged one.
LEMMA RestMoves ==
  ASSUME OnceInv,
         \/ Fire \/ Sweep
         \/ \E d \in Requests : Answer(d) \/ GoesStale(d)
  PROVE  /\ UNCHANGED <<pc, owner>> /\ vectors' \subseteq vectors
         /\ \A q \in Requests : log'[q] = "merged" => log[q] = "merged"
         /\ \A f \in Fps : pending'[f] \in {None, pending[f]}
<1>T. MergerType
  BY DEF OnceInv, MergerInv
<1>1. CASE Fire
  <2>1. UNCHANGED <<pc, owner, log>> /\ vectors' \subseteq vectors
    BY <1>1 DEF Fire, Drain, ReleaseWindow, ReleaseVectors, intake, rows
  <2>2. \A f \in Fps : pending'[f] \in {None, pending[f]}
    BY <1>1, <1>T DEF Fire, Drain, ReleaseWindow, ReleaseVectors, MergerType
  <2> QED
    BY <2>1, <2>2
<1>2. CASE \E d \in Requests : Deliver(d)
  BY <1>2, <1>T DEF Deliver, intake, MergerType
<1>3. CASE \E d \in Requests : LoseAnswer(d) \/ GoesStale(d) \/ PurgeEntry(d)
  BY <1>3 DEF LoseAnswer, GoesStale, PurgeEntry, intake, store, rows
<1>4. CASE ExpireRows
  BY <1>4, <1>T DEF ExpireRows, intake, store, MergerType
<1> QED
  BY <1>1, <1>2, <1>3, <1>4 DEF Answer, Sweep

\* What a step of intake does to the request that takes it.
LEMMA AcceptMoves ==
  ASSUME OnceInv, NEW r \in Requests, Accept(r)
  PROVE  /\ \A q \in Requests \ {r} : pc'[q] = pc[q] /\ owner'[q] = owner[q] /\ log'[q] = log[q]
         /\ \/ pc[r] = "start" /\ pc'[r] = "done" /\ log'[r] = "cached" /\ owner'[r] = owner[r]
               /\ UNCHANGED <<pending, vectors>>
            \/ pc[r] = "start" /\ pc'[r] = "search" /\ log'[r] = log[r] /\ owner'[r] = owner[r]
               /\ pending' = [pending EXCEPT ![Fp[r]] = r] /\ UNCHANGED vectors
            \/ pc[r] = "start" /\ pc'[r] = "merge" /\ log'[r] = log[r]
               /\ pending[Fp[r]] # None /\ owner'[r] = pending[Fp[r]]
               /\ UNCHANGED <<pending, vectors>>
            \/ pc[r] = "search" /\ pc'[r] = "free" /\ owner'[r] \in vectors /\ log'[r] = log[r]
               /\ UNCHANGED <<pending, vectors>>
            \/ pc[r] = "search" /\ pc'[r] = "register" /\ log'[r] = log[r] /\ owner'[r] = owner[r]
               /\ UNCHANGED <<pending, vectors>>
            \/ pc[r] = "register" /\ pc'[r] = "depth" /\ log'[r] = log[r] /\ owner'[r] = owner[r]
               /\ vectors' = vectors \cup {r} /\ UNCHANGED pending
            \/ pc[r] = "free" /\ pc'[r] = "merge" /\ log'[r] = log[r] /\ owner'[r] = owner[r]
               /\ pending' = [pending EXCEPT ![Fp[r]] = None] /\ UNCHANGED vectors
            \/ pc[r] = "merge" /\ pc'[r] = "done" /\ log'[r] = "merged" /\ owner'[r] = owner[r]
               /\ UNCHANGED <<pending, vectors>>
            \/ pc[r] = "depth" /\ pc'[r] = "refused" /\ log'[r] = log[r] /\ owner'[r] = owner[r]
               /\ pending' = [pending EXCEPT ![Fp[r]] = None] /\ UNCHANGED vectors
            \/ pc[r] = "depth" /\ pc'[r] = "done" /\ log'[r] = "queued" /\ owner'[r] = owner[r]
               /\ UNCHANGED <<pending, vectors>>
<1>T. MergerType
  BY DEF OnceInv, MergerInv
<1>1. CASE ServeCached(r)
  BY <1>1, <1>T DEF ServeCached, At, Goto, store, MergerType
<1>2. CASE ClaimSlot(r)
  BY <1>2, <1>T DEF ClaimSlot, At, Goto, rows, MergerType
<1>3. CASE Search(r)
  BY <1>3, <1>T DEF Search, Nearest, At, Goto, store, rows, MergerType
<1>4. CASE Register(r) \/ FreeSlot(r)
  BY <1>4, <1>T DEF Register, FreeSlot, At, Goto, rows, MergerType
<1>5. CASE Merge(r)
  BY <1>5, <1>T DEF Merge, At, Goto, MergerType
<1>6. CASE Refuse(r) \/ Enqueue(r)
  BY <1>6, <1>T DEF Refuse, Enqueue, At, Goto, rows, MergerType
<1> QED
  BY <1>1, <1>2, <1>3, <1>4, <1>5, <1>6 DEF Accept

LEMMA TwinsStep ==
  ASSUME OnceInv, Twins,
         \/ \E r \in Requests : Accept(r)
         \/ Fire \/ Sweep
         \/ \E d \in Requests : Answer(d) \/ GoesStale(d)
  PROVE  Twins'
<1>T. MergerType /\ Meaning /\ Registered /\ RowsTell
  BY DEF OnceInv, MergerInv
<1>F. \A q \in Requests : Fp[q] \in Fps
  BY DEF Fps
<1>1. ASSUME NEW r \in Requests, Accept(r) PROVE Twins'
  <2>0. log[r] = "none" \/ pc[r] = "done"
    BY <1>T DEF RowsTell
  <2>1. \A q \in Requests : Settled(q) => Settled(q)'
    BY <1>1, <2>0, AcceptMoves DEF Settled
  <2>2. \A q \in vectors : q \in Requests /\ Settled(q) /\ Settled(q)'
    BY <1>T, <2>1 DEF MergerType, Twins
  <2>3. \A q \in Requests : Claimed(q) => Claimed(q)'
    <3>1. ASSUME NEW q \in Requests \ {r}, Claimed(q) PROVE Claimed(q)'
      BY <1>1, <2>1, <3>1, AcceptMoves DEF Claimed
    <3>2. ASSUME Claimed(r) PROVE Claimed(r)'
      <4>1. CASE Settled(r)
        BY <2>1, <4>1 DEF Claimed
      <4>2. CASE pc[r] = "search"
        BY <1>1, <2>2, <4>2, AcceptMoves DEF Claimed
      <4>3. CASE pc[r] = "register"
        BY <1>1, <2>0, <4>3, AcceptMoves DEF Claimed, Settled
      <4>4. CASE pc[r] \in {"free", "merge"} /\ owner[r] \in Requests /\ Settled(owner[r])
        BY <1>1, <2>1, <4>4, AcceptMoves DEF Claimed
      <4>5. CASE pc[r] = "done"
        BY <1>1, <4>5, AcceptMoves
      <4> QED
        BY <3>2, <4>1, <4>2, <4>3, <4>4, <4>5 DEF Claimed
    <3> QED
      BY <3>1, <3>2
  <2>4. ASSUME NEW f \in Fps, pending'[f] # None PROVE Claimed(pending[f])'
    <3>1. pending'[f] = pending[f] \/ (pending'[f] = r /\ pc'[r] = "search")
      BY <1>1, <1>T, <2>4, AcceptMoves DEF MergerType
    <3>2. CASE pending'[f] = pending[f]
      <4>1. Claimed(pending[f]) /\ pending[f] \in Requests
        BY <1>T, <2>4, <3>2 DEF Twins, MergerType
      <4>2. PICK o \in Requests : o = pending[f]
        BY <4>1
      <4>3. Claimed(o)'
        BY <2>3, <4>1, <4>2
      <4> QED
        BY <3>2, <4>2, <4>3
    <3>3. CASE pending'[f] = r /\ pc'[r] = "search"
      BY <3>3 DEF Claimed
    <3> QED
      BY <3>1, <3>2, <3>3
  <2>5. ASSUME NEW v \in vectors' PROVE Settled(v)'
    <3>1. v \in vectors \/ (v = r /\ pc'[r] = "depth" /\ log'[r] = log[r] /\ pc[r] = "register")
      BY <1>1, <2>5, AcceptMoves
    <3> QED
      BY <2>0, <2>2, <3>1 DEF Settled
  <2>6. ASSUME NEW q \in Requests, pc'[q] = "free" PROVE Settled(owner[q])'
    <3>1. \/ pc[q] = "free" /\ owner'[q] = owner[q]
          \/ owner'[q] \in vectors
      BY <1>1, <2>6, AcceptMoves
    <3>2. CASE pc[q] = "free" /\ owner'[q] = owner[q]
      <4>1. owner[q] \in Requests /\ Settled(owner[q])
        BY <1>T, <3>2 DEF Twins, Meaning
      <4>2. PICK o \in Requests : o = owner[q]
        BY <4>1
      <4> QED
        BY <2>1, <3>2, <4>1, <4>2
    <3>3. CASE owner'[q] \in vectors
      <4>1. PICK o \in vectors : o = owner'[q]
        BY <3>3
      <4> QED
        BY <2>2, <4>1
    <3> QED
      BY <3>1, <3>2, <3>3
  <2>7. ASSUME NEW q \in Requests, pc'[q] = "merge" \/ log'[q] = "merged" PROVE Followed(q)'
    <3>1. \/ (pc[q] = "merge" \/ log[q] = "merged") /\ owner'[q] = owner[q]
          \/ pc[q] = "free" /\ owner'[q] = owner[q]
          \/ pending[Fp[q]] # None /\ owner'[q] = pending[Fp[q]]
      BY <1>1, <2>0, <2>7, AcceptMoves
    <3>2. CASE (pc[q] = "merge" \/ log[q] = "merged") /\ owner'[q] = owner[q]
      <4>1. Followed(q)
        BY <3>2 DEF Twins
      <4>2. PICK o \in Requests : o = owner[q]
        BY <4>1 DEF Followed
      <4> QED
        BY <2>1, <2>3, <3>2, <4>1, <4>2 DEF Followed
    <3>3. CASE pc[q] = "free" /\ owner'[q] = owner[q]
      <4>1. owner[q] \in Requests /\ Settled(owner[q])
        BY <1>T, <3>3 DEF Twins, Meaning
      <4>2. PICK o \in Requests : o = owner[q]
        BY <4>1
      <4> QED
        BY <2>1, <3>3, <4>1, <4>2 DEF Followed
    <3>4. CASE pending[Fp[q]] # None /\ owner'[q] = pending[Fp[q]]
      <4>1. /\ pending[Fp[q]] \in Requests /\ Claimed(pending[Fp[q]])
            /\ Fp[pending[Fp[q]]] = Fp[q]
        BY <1>T, <1>F, <3>4 DEF Twins, Meaning, MergerType
      <4>2. PICK o \in Requests : o = pending[Fp[q]]
        BY <4>1
      <4> QED
        BY <2>3, <3>4, <4>1, <4>2 DEF Followed
    <3> QED
      BY <3>1, <3>2, <3>3, <3>4
  <2> QED
    BY <2>4, <2>5, <2>6, <2>7 DEF Twins
<1>2. CASE Fire \/ Sweep \/ \E d \in Requests : Answer(d) \/ GoesStale(d)
  <2>1. /\ UNCHANGED <<pc, owner>> /\ vectors' \subseteq vectors
        /\ \A q \in Requests : log'[q] = "merged" => log[q] = "merged"
        /\ \A f \in Fps : pending'[f] \in {None, pending[f]}
    BY <1>2, RestMoves
  <2>2. \A q \in Requests : Settled(q) => Settled(q)'
    BY <2>1 DEF Settled
  <2>3. \A q \in Requests : Claimed(q) => Claimed(q)'
    BY <2>1, <2>2 DEF Claimed
  <2>4. ASSUME NEW f \in Fps, pending'[f] # None PROVE Claimed(pending[f])'
    <3>1. pending'[f] = pending[f] /\ Claimed(pending[f]) /\ pending[f] \in Requests
      BY <1>T, <2>1, <2>4 DEF Twins, MergerType
    <3>2. PICK o \in Requests : o = pending[f]
      BY <3>1
    <3> QED
      BY <2>3, <3>1, <3>2
  <2>5. ASSUME NEW v \in vectors' PROVE Settled(v)'
    BY <1>T, <2>1, <2>2, <2>5 DEF Twins, MergerType
  <2>6. ASSUME NEW q \in Requests, pc'[q] = "free" PROVE Settled(owner[q])'
    <3>1. owner[q] \in Requests /\ Settled(owner[q]) /\ owner'[q] = owner[q]
      BY <1>T, <2>1, <2>6 DEF Twins, Meaning
    <3>2. PICK o \in Requests : o = owner[q]
      BY <3>1
    <3> QED
      BY <2>2, <3>1, <3>2
  <2>7. ASSUME NEW q \in Requests, pc'[q] = "merge" \/ log'[q] = "merged" PROVE Followed(q)'
    <3>1. Followed(q) /\ owner'[q] = owner[q]
      BY <2>1, <2>7 DEF Twins
    <3>2. PICK o \in Requests : o = owner[q]
      BY <3>1 DEF Followed
    <3> QED
      BY <2>2, <2>3, <3>1, <3>2 DEF Followed
  <2> QED
    BY <2>4, <2>5, <2>6, <2>7 DEF Twins
<1> QED
  BY <1>1, <1>2

LEMMA OnceInvariant ==
  /\ Init => OnceInv /\ Twins
  /\ OnceInv /\ Twins /\ [Next]_vars =>
       /\ OnceInv' /\ Twins'
       /\ \A q \in Requests : /\ answer[q] # None => answer'[q] = answer[q]
                              /\ log[q] \in {"delivered", "cached"} => log'[q] = log[q]
<1>1. Init => OnceInv /\ Twins
  <2>1. Init => MergerInv
    BY FpAssumption
       DEF Init, MergerInv, MergerType, MergerPlaces, MergerStates, Meaning, Registered
  <2>2. Init => OncePlaced /\ RowsTell /\ Twins
    BY DEF Init, OncePlaced, RowsTell, Twins
  <2> QED
    BY <2>1, <2>2 DEF OnceInv
<1>2. ASSUME OnceInv, Twins, [Next]_vars
      PROVE  /\ OnceInv' /\ Twins'
             /\ \A q \in Requests : /\ answer[q] # None => answer'[q] = answer[q]
                                    /\ log[q] \in {"delivered", "cached"} => log'[q] = log[q]
  <2>1. CASE \E r \in Requests : Accept(r)
    <3>1. PICK r \in Requests : Accept(r)
      BY <2>1
    <3>2. MergerInv' /\ Twins'
      BY <1>2, <3>1, MergerAccept, TwinsStep DEF OnceInv
    <3> QED
      BY <1>2, <3>1, <3>2, OnceAccept DEF OnceInv
  <2>2. CASE Fire \/ Sweep \/ \E d \in Requests : Answer(d) \/ GoesStale(d)
    <3>1. MergerInv' /\ Twins'
      BY <1>2, <2>2, MergerRest, TwinsStep DEF OnceInv
    <3> QED
      BY <1>2, <2>2, <3>1, OnceRest DEF OnceInv
  <2>3. CASE UNCHANGED vars
    <3>1. /\ UNCHANGED <<pc, owner, pending, vectors, queue, mergeSet>>
          /\ UNCHANGED <<fire, batch, out, log, answer, purge>>
      BY <2>3 DEF vars, intake, store, window, rows, sweep
    <3>2. MergerInv'
      BY <1>2, <3>1 DEF OnceInv, MergerInv, MergerType, Meaning, SameAs, Registered
    <3>3. OncePlaced' /\ RowsTell'
      BY <1>2, <3>1 DEF OnceInv, OncePlaced, RowsTell
    <3>4. Twins'
      BY <1>2, <3>1 DEF Twins, Claimed, Settled, Followed
    <3> QED
      BY <3>1, <3>2, <3>3, <3>4 DEF OnceInv
  <2> QED
    BY <1>2, <2>1, <2>2, <2>3 DEF Next
<1> QED
  BY <1>1, <1>2

LEMMA OnceAlways == Spec => [](OnceInv /\ Twins)
<1>1. OnceInv /\ Twins /\ [Next]_vars => (OnceInv /\ Twins)'
  BY OnceInvariant
<1>2. Init => OnceInv /\ Twins
  BY OnceInvariant
<1> QED
  BY <1>1, <1>2, PTL DEF Spec

\* A caller gets one answer for good (Deduplicator.release_window, SemanticDedup.release,
\* BatchPipeline._deliver, expire_stale): although slots, vectors and merge sets are released by separate calls
\* and go stale, no request is answered by two dispatches, or failed once it is answered.
THEOREM AnsweredIsFinalCorrect == Spec => AnsweredIsFinal
<1>1. OnceInv /\ Twins /\ [Next]_vars =>
        [\A r \in Requests :
           /\ answer[r] # None => answer'[r] = answer[r]
           /\ log[r] \in {"delivered", "cached"} => log'[r] = log[r]]_vars
  BY OnceInvariant
<1> QED
  BY <1>1, OnceAlways, PTL DEF Spec, AnsweredIsFinal

\* What is left of deduplicator/service.py:7 (see NoOrphanMerge): whoever merges into a
\* request that merged away is its twin, and the request the two then wait for has a
\* dispatch of its own, so that no chain of merges is longer or leads in a circle.
THEOREM OrphansAreTwinsCorrect == Spec => []OrphansAreTwins
<1>1. OnceInv /\ Twins => OrphansAreTwins
  <2> SUFFICES ASSUME OnceInv, Twins, NEW r \in Requests,
                      log[r] = "merged", log[owner[r]] = "merged"
      PROVE Fp[owner[r]] = Fp[r] /\ log[owner[owner[r]]] # "merged"
    BY DEF OrphansAreTwins
  <2>1. Followed(r) /\ ~ Settled(owner[r])
    BY DEF Twins, Settled
  <2>2. Fp[owner[r]] = Fp[r] /\ owner[r] \in Requests /\ Claimed(owner[r])
    BY <2>1 DEF Followed
  <2>3. pc[owner[r]] = "done"
    BY <2>2 DEF OnceInv, RowsTell
  <2>4. Settled(owner[owner[r]])
    BY <2>1, <2>2, <2>3 DEF Claimed
  <2> QED
    BY <2>2, <2>4 DEF Settled
<1> QED
  BY <1>1, OnceAlways, PTL
=============================================================================
