------------------------------ MODULE Pipeline ------------------------------
(***************************************************************************)
(* What callers of one TheHouse target are answered and charged: the gate's *)
(* price ceiling, dedup at intake, and BatchPipeline.process of the batches *)
(* a window fires, by the target's mode (thehouse/core/pipeline.py with the *)
(* pricing, composer, packer, splitter and dispatcher it uses).  The races  *)
(* inside intake, the window and delivery are in module Aggregator: here    *)
(* acceptance, fire and fan-out are one step each, and the steps between    *)
(* them are the target calls, during which the nightly auto-protection may  *)
(* change the target's mode and other callers arrive.                       *)
(***************************************************************************)
EXTENDS Integers, Sequences, FiniteSets, SequencesExt

CONSTANTS
  RequestCount,     \* calls made, in order of arrival
  Priority,         \* the calls made with priority=True
  Queries,          \* distinct calls: their arguments, hence their fingerprints
  Value,            \* the scalar the packer takes from each query
  Risky,            \* queries is_injection_risk recognises
  ListAnswers,      \* queries whose answers contain a numbered list
  OriginalPrice,    \* original_price_per_call, in millionths of a dollar
  HousePrice,       \* thehouse_price: 80% of it
  PriorityDiscount, \* priority_discount_abs
  SoloDiscount,     \* the original price times solo_discount_rate
  CoordinationFee,  \* the original price times coordination_fee
  MinBatch,         \* min_batch_for_discount
  BreakEven,        \* break_even_batch_size
  MaxBatchSize,     \* max_batch_size
  MaxModeChanges,   \* bound on the changes of the target's mode
  NoQuery           \* what a call not made yet asks

Requests == 1..RequestCount

ASSUME PipelineAssumption ==
  /\ RequestCount \in Nat /\ NoQuery \notin Queries
  /\ Priority \subseteq Requests
  /\ Risky \subseteq Queries /\ ListAnswers \subseteq Queries
  /\ {OriginalPrice, HousePrice, PriorityDiscount, SoloDiscount, CoordinationFee} \subseteq Nat
  /\ HousePrice + SoloDiscount <= OriginalPrice
  /\ MinBatch \in Nat /\ BreakEven \in Nat /\ MaxModeChanges \in Nat
  /\ MaxBatchSize \in Nat \ {0}

Aggregated == {"A_llm", "B_native"}
DedupSafeModes == Aggregated \cup {"B_fanout"}
Modes == DedupSafeModes \cup {"non_aggregatable", "manual_review"}

\* An answer to a query, the failure notice of a request, the compound reply that
\* holds everybody's answers, or nothing.
NoAnswer == <<"none", 0>>
Blob == <<"blob", 0>>
AnswerTo(q) == <<"answer", q>>
NoticeFor(r) == <<"notice", r>>
Answers == {NoAnswer, Blob} \cup {AnswerTo(q) : q \in Queries}
                            \cup {NoticeFor(r) : r \in Requests}

VARIABLES
  mode,     \* the registry's mode of the target
  changes,  \* how often it has changed
  call,     \* per request: its row in request_log, and what its caller authorized
  queue,    \* the window's queue
  pending,  \* redis hash query -> requests that own its slot (one or none)
  merged,   \* redis sets: the requests merged into each slot owner
  cache,    \* the answer cached for each query
  pc,       \* where BatchPipeline.process is
  b         \* the frame of process: the batch, its entry, its report

vars == <<mode, changes, call, queue, pending, merged, cache, pc, b>>

-----------------------------------------------------------------------------
(* pricing.py                                                              *)

PriorityPrice == IF HousePrice > OriginalPrice - PriorityDiscount
                 THEN HousePrice ELSE OriginalPrice - PriorityDiscount

\* The price of the routes that never aggregate.
RoutePrice(m) == IF m = "B_fanout" THEN OriginalPrice + CoordinationFee ELSE OriginalPrice

CeilingPrice(m, p) == IF m \in Aggregated /\ p THEN PriorityPrice ELSE RoutePrice(m)

\* Mutation of SettledPrice: the coordination fee is added on every route.
SettledWithFee(m, size, p) ==
  IF m \notin Aggregated THEN OriginalPrice + CoordinationFee
  ELSE IF p THEN PriorityPrice
  ELSE IF size >= MinBatch THEN HousePrice ELSE OriginalPrice - SoloDiscount

SettledPrice(m, size, p) ==
  IF m \notin Aggregated THEN RoutePrice(m)
  ELSE IF p THEN PriorityPrice
  ELSE IF size >= MinBatch THEN HousePrice ELSE OriginalPrice - SoloDiscount

CallerPrice(m, p) ==
  IF m \notin Aggregated THEN RoutePrice(m) ELSE IF p THEN PriorityPrice ELSE HousePrice

-----------------------------------------------------------------------------
(* State.                                                                  *)

Status == {"new", "authorized", "queued", "merged", "cached", "delivered"}

Calls == [status : Status, query : Queries \cup {NoQuery}, keyed : BOOLEAN,
          ceiling : Nat, gateMode : Modes, answer : Answers, charged : Nat,
          paidMode : Modes]

Deliveries == [id : Requests, answer : Answers, charged : Nat, partial : BOOLEAN]

Frames == [entry : Modes, requests : Seq(Requests), tier : Nat, todo : Seq(Requests),
           sub : Seq(Requests), answers : [Requests -> Answers], full : SUBSET Requests,
           retry : SUBSET Requests, direct : Seq(Requests), directTier : Nat,
           out : Seq(Deliveries), fan : Seq(Deliveries), fanned : Seq(Deliveries),
           failed : SUBSET Requests]

NoFrame == [entry |-> "manual_review", requests |-> <<>>, tier |-> 0, todo |-> <<>>,
            sub |-> <<>>, answers |-> [r \in Requests |-> NoAnswer], full |-> {},
            retry |-> {}, direct |-> <<>>, directTier |-> 0, out |-> <<>>, fan |-> <<>>,
            fanned |-> <<>>, failed |-> {}]

TypeOK ==
  /\ mode \in Modes /\ changes \in 0..MaxModeChanges
  /\ call \in [Requests -> Calls]
  /\ queue \in Seq(Requests)
  /\ pending \in [Queries -> SUBSET Requests]
  /\ merged \in [Requests -> SUBSET Requests]
  /\ cache \in [Queries -> Answers]
  /\ pc \in {"idle", "fire", "route", "direct", "compound", "isolate", "fanout", "deliver"}
  /\ b \in Frames

Init ==
  /\ mode \in Modes /\ changes = 0
  /\ call = [r \in Requests |->
               [status |-> "new", query |-> NoQuery, keyed |-> FALSE,
                ceiling |-> 0, gateMode |-> "manual_review",
                answer |-> NoAnswer, charged |-> 0, paidMode |-> "manual_review"]]
  /\ queue = <<>>
  /\ pending = [q \in Queries |-> {}]
  /\ merged = [r \in Requests |-> {}]
  /\ cache = [q \in Queries |-> NoAnswer]
  /\ pc = "idle" /\ b = NoFrame

-----------------------------------------------------------------------------
(* The gate and intake.                                                    *)

\* The gateway verifies a payment authorization that covers the ceiling.  Calls are
\* numbered in the order intake takes them.
Authorize(r) ==
  /\ call[r].status = "new"
  /\ r > 1 => call[r - 1].status \notin {"new", "authorized"}
  /\ \E q \in Queries :
       call' = [call EXCEPT ![r].status = "authorized", ![r].query = q,
                            ![r].ceiling = CeilingPrice(mode, r \in Priority),
                            ![r].gateMode = mode]
  /\ UNCHANGED <<mode, changes, queue, pending, merged, cache, pc, b>>

\* IntakeService.accept: only calls of a read-only mode carry a fingerprint.
AcceptUnkeyed(r) ==
  /\ call[r].status = "authorized" /\ mode \notin DedupSafeModes
  /\ call' = [call EXCEPT ![r].status = "queued"]
  /\ queue' = Append(queue, r)
  /\ UNCHANGED <<mode, changes, pending, merged, cache, pc, b>>

ServeCached(r) ==
  LET q == call[r].query IN
  /\ call[r].status = "authorized" /\ mode \in DedupSafeModes /\ cache[q] # NoAnswer
  /\ call' = [call EXCEPT ![r].status = "cached", ![r].answer = cache[q], ![r].paidMode = mode,
                          ![r].charged = CallerPrice(mode, r \in Priority)]
  /\ UNCHANGED <<mode, changes, queue, pending, merged, cache, pc, b>>

AcceptKeyed(r) ==
  LET q == call[r].query IN
  /\ call[r].status = "authorized" /\ mode \in DedupSafeModes /\ cache[q] = NoAnswer
  /\ \/ /\ pending[q] = {}
        /\ call' = [call EXCEPT ![r].status = "queued", ![r].keyed = TRUE]
        /\ pending' = [pending EXCEPT ![q] = {r}]
        /\ queue' = Append(queue, r)
        /\ UNCHANGED merged
     \/ /\ \E o \in pending[q] : merged' = [merged EXCEPT ![o] = @ \cup {r}]
        /\ call' = [call EXCEPT ![r].status = "merged"]
        /\ UNCHANGED <<pending, queue>>
  /\ UNCHANGED <<mode, changes, cache, pc, b>>

-----------------------------------------------------------------------------
(* Fire: the entry is read before the window is drained.                   *)

LookUpEntry ==
  /\ pc = "idle" /\ queue # <<>>
  /\ pc' = "fire" /\ b' = [NoFrame EXCEPT !.entry = mode]
  /\ UNCHANGED <<mode, changes, call, queue, pending, merged, cache>>

Fire ==
  /\ pc = "fire" /\ pc' = "route"
  /\ b' = [b EXCEPT !.requests = queue]
  /\ queue' = <<>>
  /\ pending' = [q \in Queries |->
                   IF \E r \in ToSet(queue) : call[r].keyed /\ call[r].query = q
                   THEN {} ELSE pending[q]]
  /\ UNCHANGED <<mode, changes, call, merged, cache>>

\* Fired requests and their merged members: everyone who pays for this batch.
PayingCount == Len(b.requests) + Cardinality(UNION {merged[r] : r \in ToSet(b.requests)})

\* Some requests of the batch, in the order of the batch: as they arrived.
InOrder(S) == CHOOSE s \in [1..Cardinality(S) -> S] :
                \A i, j \in DOMAIN s : i < j => s[i] < s[j]

RiskyOnes == {r \in ToSet(b.requests) : call[r].query \in Risky}

\* The route of the batch: direct calls first (to do in b.direct), then compound
\* calls (b.todo), or the fan-out.
Route ==
  /\ pc = "route"
  /\ LET n == PayingCount
         counted == [b EXCEPT !.tier = n, !.directTier = n]
     IN \/ /\ b.entry \in Aggregated /\ n = 1
           /\ b' = [counted EXCEPT !.direct = b.requests]
           /\ pc' = "direct"
        \/ /\ b.entry = "A_llm" /\ n > 1
           /\ b' = [counted EXCEPT !.directTier = 1,
                                   !.direct = InOrder(RiskyOnes),
                                   !.todo = InOrder(ToSet(b.requests) \ RiskyOnes)]
           /\ pc' = "direct"
        \/ /\ b.entry = "B_native" /\ n > 1
           /\ b' = [counted EXCEPT !.todo = b.requests]
           /\ pc' = "compound"
        \/ /\ b.entry = "B_fanout" /\ b' = counted /\ pc' = "fanout"
        \/ /\ b.entry \notin DedupSafeModes
           /\ b' = [counted EXCEPT !.direct = b.requests]
           /\ pc' = "direct"
  /\ UNCHANGED <<mode, changes, call, queue, pending, merged, cache>>

-----------------------------------------------------------------------------
(* Calls of the target.  A dispatch has been retried once before it fails. *)

Delivery(r, size) ==
  [id |-> r, answer |-> AnswerTo(call[r].query), partial |-> FALSE,
   charged |-> SettledPrice(b.entry, size, r \in Priority)]

\* _direct_fallback: one request on its own; a failed call delivers nothing.
DirectCall ==
  /\ pc = "direct" /\ b.direct # <<>>
  /\ LET r == Head(b.direct) IN
       \/ b' = [b EXCEPT !.direct = Tail(@), !.out = Append(@, Delivery(r, b.directTier))]
       \/ b' = [b EXCEPT !.direct = Tail(@), !.failed = @ \cup {r}]
  /\ UNCHANGED <<mode, changes, call, queue, pending, merged, cache, pc>>

\* The route goes on: with the next compound call, or with delivery.
AfterCalls(frame) ==
  IF frame.todo # <<>> THEN pc' = "compound" /\ b' = frame
  ELSE pc' = "deliver" /\ b' = [frame EXCEPT !.fan = frame.out]

DirectDone ==
  /\ pc = "direct" /\ b.direct = <<>>
  /\ AfterCalls([b EXCEPT !.directTier = b.tier])
  /\ UNCHANGED <<mode, changes, call, queue, pending, merged, cache>>

\* The requests of the next compound call: a chunk of max_batch_size, or all of
\* them when packed into one array.
ChunkLen == IF b.entry = "A_llm" /\ MaxBatchSize < Len(b.todo) THEN MaxBatchSize ELSE Len(b.todo)

\* The positions of a compound call that have a slot of their own: with the packer
\* a request whose value an earlier one has shares its slot.
Owner(sub, i) ==
  IF b.entry = "B_native"
  THEN CHOOSE j \in 1..i : /\ Value[call[sub[j]].query] = Value[call[sub[i]].query]
                           /\ \A k \in 1..(j - 1) :
                                Value[call[sub[k]].query] # Value[call[sub[i]].query]
  ELSE i

Slots(sub) == {i \in DOMAIN sub : Owner(sub, i) = i}

\* The answered slots whose text holds the anchor of slot i: its own, and those with
\* a numbered list of their own.
Anchored(sub, kept, i) ==
  {j \in kept : j = i \/ (b.entry = "A_llm" /\ Len(sub) > 1 /\ call[sub[j]].query \in ListAnswers)}

\* split_numbered, split_keyed: a slot's answer is the text under the first anchor
\* with its number (its key), the whole reply if there is none.
Segment(sub, kept, i) ==
  IF Anchored(sub, kept, i) = {} THEN Blob
  ELSE LET j == CHOOSE j \in Anchored(sub, kept, i) : \A k \in Anchored(sub, kept, i) : j <= k
       IN AnswerTo(call[sub[j]].query)

\* The reply to a compound call answers the slots in kept, in order.
Split(frame, sub, kept) ==
  [frame EXCEPT !.sub = sub,
     !.answers = [r \in Requests |->
        IF \E i \in Slots(sub) : sub[i] = r
        THEN Segment(sub, kept, CHOOSE i \in Slots(sub) : sub[i] = r) ELSE NoAnswer],
     !.full = {sub[i] : i \in {j \in Slots(sub) : Anchored(sub, kept, j) = {}}},
     !.retry = {sub[i] : i \in {j \in Slots(sub) : Anchored(sub, kept, j) = {}}}]

\* Mutation of CompoundCall: a failed call does not consume its chunk.
CompoundKeepsChunk ==
  /\ pc = "compound"
  /\ LET sub == SubSeq(b.todo, 1, ChunkLen)
         left == [b EXCEPT !.todo = SubSeq(@, ChunkLen + 1, Len(@))]
     IN \/ /\ \E kept \in SUBSET Slots(sub) :
                /\ b.entry = "A_llm" /\ Len(sub) = 1 => kept = {1}
                /\ b' = Split(left, sub, kept)
           /\ pc' = "isolate"
        \/ /\ b' = [b EXCEPT !.direct = sub]
           /\ pc' = "direct"
  /\ UNCHANGED <<mode, changes, call, queue, pending, merged, cache>>

\* Mutation of CompoundCall: the fallback returns instead of going on.
CompoundReturns ==
  /\ pc = "compound"
  /\ LET sub == SubSeq(b.todo, 1, ChunkLen)
         left == [b EXCEPT !.todo = SubSeq(@, ChunkLen + 1, Len(@))]
     IN \/ /\ \E kept \in SUBSET Slots(sub) :
                /\ b.entry = "A_llm" /\ Len(sub) = 1 => kept = {1}
                /\ b' = Split(left, sub, kept)
           /\ pc' = "isolate"
        \/ /\ b' = [b EXCEPT !.direct = sub, !.todo = <<>>]
           /\ pc' = "direct"
  /\ UNCHANGED <<mode, changes, call, queue, pending, merged, cache>>

\* One compound call: a reply is split, without one the chunk is routed directly.
CompoundCall ==
  /\ pc = "compound"
  /\ LET sub == SubSeq(b.todo, 1, ChunkLen)
         left == [b EXCEPT !.todo = SubSeq(@, ChunkLen + 1, Len(@))]
     IN \/ /\ \E kept \in SUBSET Slots(sub) :
                /\ b.entry = "A_llm" /\ Len(sub) = 1 => kept = {1}
                /\ b' = Split(left, sub, kept)
           /\ pc' = "isolate"
        \/ /\ b' = [left EXCEPT !.direct = sub]
           /\ pc' = "direct"
  /\ UNCHANGED <<mode, changes, call, queue, pending, merged, cache>>

\* Mutation of Isolate: after a failed retry the compound reply is left in place.
IsolateLeavesBlob ==
  /\ pc = "isolate"
  /\ \E r \in b.retry :
       \/ b' = [b EXCEPT !.retry = @ \ {r}, !.full = @ \ {r},
                         !.answers[r] = AnswerTo(call[r].query)]
       \/ b' = [b EXCEPT !.retry = @ \ {r}]
  /\ UNCHANGED <<mode, changes, call, queue, pending, merged, cache, pc>>

\* _isolate_failed: the own call of a request whose segment is missing.
Isolate ==
  /\ pc = "isolate"
  /\ \E r \in b.retry :
       \/ b' = [b EXCEPT !.retry = @ \ {r}, !.full = @ \ {r},
                         !.answers[r] = AnswerTo(call[r].query)]
       \/ b' = [b EXCEPT !.retry = @ \ {r}, !.answers[r] = NoticeFor(r)]
  /\ UNCHANGED <<mode, changes, call, queue, pending, merged, cache, pc>>

\* What the member at position i gets: the answer of the slot it shares.
Collected(i) ==
  LET r == b.sub[i] IN
  [id |-> r, answer |-> b.answers[b.sub[Owner(b.sub, i)]], partial |-> r \in b.full,
   charged |-> SettledPrice(b.entry, b.tier, r \in Priority)]

Collect ==
  /\ pc = "isolate" /\ b.retry = {}
  /\ AfterCalls([b EXCEPT !.out = @ \o [i \in DOMAIN b.sub |-> Collected(i)], !.sub = <<>>,
                          !.answers = NoFrame.answers, !.full = {}])
  /\ UNCHANGED <<mode, changes, call, queue, pending, merged, cache>>

\* _process_fanout: all calls at once, any of which may fail.
FanOutCalls ==
  /\ pc = "fanout"
  /\ \E S \in SUBSET ToSet(b.requests) :
       LET ok == InOrder(S)
       IN AfterCalls([b EXCEPT !.out = [i \in DOMAIN ok |-> Delivery(ok[i], b.tier)],
                               !.failed = ToSet(b.requests) \ S])
  /\ UNCHANGED <<mode, changes, call, queue, pending, merged, cache>>

-----------------------------------------------------------------------------
(* _deliver: cache the answer, fan it out to the merged members, commit.   *)

Cacheable(d) == call[d.id].keyed /\ ~d.partial /\ b.entry \in DedupSafeModes

FanOut ==
  /\ pc = "deliver" /\ b.fan # <<>>
  /\ LET d == Head(b.fan)
         members == SetToSeq(merged[d.id])
     IN /\ cache' = IF Cacheable(d) THEN [cache EXCEPT ![call[d.id].query] = d.answer] ELSE cache
        /\ b' = [b EXCEPT !.fan = Tail(@), !.fanned = @ \o
                   [i \in DOMAIN members |->
                      [id |-> members[i], answer |-> d.answer, partial |-> FALSE,
                       charged |-> SettledPrice(b.entry, BreakEven, members[i] \in Priority)]]]
        /\ merged' = [merged EXCEPT ![d.id] = {}]
  /\ UNCHANGED <<mode, changes, call, queue, pending, pc>>

Billed == ToSet(b.out) \cup ToSet(b.fanned)

Commit ==
  /\ pc = "deliver" /\ b.fan = <<>>
  /\ call' = [r \in Requests |->
                IF \E d \in Billed : d.id = r
                THEN LET d == CHOOSE d \in Billed : d.id = r IN
                     [call[r] EXCEPT !.status = "delivered", !.answer = d.answer,
                                     !.charged = d.charged, !.paidMode = b.entry]
                ELSE call[r]]
  /\ pc' = "idle" /\ b' = NoFrame
  /\ UNCHANGED <<mode, changes, queue, pending, merged, cache>>

-----------------------------------------------------------------------------
(* run_auto_protection: the nightly job, or an operator's call of it.       *)

\* Below break-even too often: demoted to the parallel route.
Demote ==
  /\ mode \in Aggregated /\ changes < MaxModeChanges
  /\ mode' = "B_fanout" /\ changes' = changes + 1
  /\ UNCHANGED <<call, queue, pending, merged, cache, pc, b>>

\* Failed splits: an LLM target goes to manual review, another is profiled anew.
Reclassify ==
  /\ changes < MaxModeChanges
  /\ mode' \in Modes \ {mode}
  /\ changes' = changes + 1
  /\ UNCHANGED <<call, queue, pending, merged, cache, pc, b>>

Accept(r) == Authorize(r) \/ AcceptUnkeyed(r) \/ ServeCached(r) \/ AcceptKeyed(r)

Process ==
  \/ LookUpEntry \/ Fire \/ Route \/ DirectCall \/ DirectDone \/ CompoundCall
  \/ Isolate \/ Collect \/ FanOutCalls \/ FanOut \/ Commit

Next ==
  \/ \E r \in Requests : Accept(r)
  \/ Process
  \/ Demote \/ Reclassify

Spec == Init /\ [][Next]_vars

\* A coroutine that is ready is run, and the HTTP client's timeout ends every call.
LiveSpec == Spec /\ WF_vars(Process)

-----------------------------------------------------------------------------
(* Properties.                                                             *)

\* No caller is answered with another caller's answer or with the compound reply, and
\* none of these is cached, whatever slots the target leaves out of a compound reply,
\* whichever calls fail, and however the packed duplicates and merged members of a
\* slot are served: a caller gets the answer to its query, or a failure notice.
NoForeignAnswer ==
  /\ \A r \in Requests : call[r].answer \in
       {NoAnswer, AnswerTo(call[r].query)} \cup {NoticeFor(o) : o \in Requests}
  /\ \A q \in Queries : cache[q] \in
       {NoAnswer, AnswerTo(q)} \cup {NoticeFor(o) : o \in Requests}

\* When a batch is delivered, nobody in it was forgotten by the route it took: who
\* has no delivery had a call of its own fail.  Nor is anybody charged for two deliveries
\* of the chunked, isolated, retried and directly routed calls of the batch, or again
\* after another one answered.
NobodyForgotten ==
  LET all == b.out \o b.fanned IN
  /\ pc = "deliver" => ToSet(b.requests) \ b.failed \subseteq {b.out[i].id : i \in DOMAIN b.out}
  /\ \A i, j \in DOMAIN all : all[i].id = all[j].id => i = j
  /\ \A i \in DOMAIN all : call[all[i].id].status \in {"queued", "merged"}

\* A caller is charged more than it authorized at the gate only if the target's mode
\* changed between its authorization and its charge.  (pricing.py:7 "they can never be
\* charged more than this" does not hold then: theorem DemotionOvercharges.)
OverchargeNeedsModeChange ==
  \A r \in Requests : call[r].charged > call[r].ceiling => call[r].gateMode # call[r].paidMode

\* Every batch is delivered: no sequence of failed, partial and isolated calls keeps
\* its callers waiting.
BatchEnds == pc = "route" ~> pc = "idle"
=============================================================================
