------------------------------ MODULE Registry ------------------------------
(***************************************************************************)
(* TheHouse's registry of targets and its two writers: the price sync that *)
(* follows the targets' fees and publishes its own                         *)
(* (thehouse/onchain/sync.py), and the nightly auto-protection with the    *)
(* profiler it calls (core/economics/service.py, core/profiler).  Both read*)
(* whole rows, await, and write whole rows back (RegistryService.upsert).  *)
(***************************************************************************)
EXTENDS Naturals

CONSTANTS
  Asps,         \* targets
  SideEffects,  \* those whose tool changes state (profiler.has_side_effects)
  Found,        \* modes the profiler may find for the others
  Fees,         \* fees a target may register
  MaxChanges,   \* bound: changes of a fee
  MaxFaults,    \* bound: failed reads of the source and failed pushes
  MaxNights,    \* bound: runs of the nightly job
  MaxTimer      \* bound: extensions of a window

Modes == {"A_llm", "B_native", "B_fanout", "non_aggregatable", "manual_review"}
Aggregated == {"A_llm", "B_native"}
DedupSafeModes == Aggregated \cup {"B_fanout"}

ASSUME SideEffectsAssumption == SideEffects \subseteq Asps
ASSUME FoundAssumption == Found \subseteq Modes
ASSUME RegistryBoundAssumption ==
  MaxChanges \in Nat /\ MaxFaults \in Nat /\ MaxNights \in Nat /\ MaxTimer \in Nat

VARIABLES
  reg,      \* asp_registry
  fees,     \* what the targets have registered
  listing,  \* the fee TheHouse's published price for a target derives from
  sync,     \* where the sync loop is
  pass,     \* the fees it read, then the rows it has still to write
  night,    \* where the nightly job is
  rows,     \* the rows it read and has not judged
  asp,      \* the one it is judging
  reverted, \* history: the nightly job has written a fee back
  changes, faults, nights

syncVars == <<sync, pass>>
nightVars == <<night, rows, asp, nights, reverted>>
registryVars == <<reg, fees, listing, syncVars, nightVars, changes, faults>>

\* price is the fee the discounted price was derived from.
Entries == [mode : Modes, fee : Fees, price : Fees, timer : 0..MaxTimer]

RegistryTypeOK ==
  /\ reg \in [Asps -> Entries] /\ fees \in [Asps -> Fees] /\ listing \in [Asps -> Fees]
  /\ sync \in {"sleep", "fetched", "writing", "pushing"}
  /\ DOMAIN pass \subseteq Asps
  /\ \A a \in DOMAIN pass : pass[a] \in IF sync = "fetched" THEN [fee : Fees] ELSE Entries
  /\ night \in {"sleep", "ratio", "failures", "probing"}
  /\ DOMAIN rows \subseteq Asps /\ \A a \in DOMAIN rows : rows[a] \in Entries
  /\ changes \in 0..MaxChanges /\ faults \in 0..MaxFaults /\ nights \in 0..MaxNights
  /\ reverted \in BOOLEAN /\ (night # "sleep" => asp \in DOMAIN rows)

\* What the profiler finds: the tool's verbs decide first; a declared schema or the
\* answers to its probe leave the rest.
Classes(a) == IF a \in SideEffects THEN {"non_aggregatable"} ELSE Found

Nothing == [a \in {} |-> a]
Without(f, a) == [b \in DOMAIN f \ {a} |-> f[b]]

RegistryInit ==
  /\ \E f \in Fees :
       /\ fees = [a \in Asps |-> f]
       /\ \E m \in [Asps -> Modes] :
            /\ \A a \in Asps : m[a] \in Classes(a)
            /\ reg = [a \in Asps |-> [mode |-> m[a], fee |-> f, price |-> f, timer |-> 0]]
  /\ listing = fees
  /\ sync = "sleep" /\ pass = Nothing /\ night = "sleep" /\ rows = Nothing
  /\ asp = CHOOSE a \in Asps : TRUE
  /\ reverted = FALSE /\ changes = 0 /\ faults = 0 /\ nights = 0

\* A target registers another fee.
FeeChanges(a) ==
  /\ changes < MaxChanges /\ changes' = changes + 1
  /\ \E f \in Fees \ {fees[a]} : fees' = [fees EXCEPT ![a] = f]
  /\ UNCHANGED <<reg, listing, syncVars, nightVars, faults>>

\* Every write of a whole row derives the price from the fee it writes.
Upsert(a, e) == reg' = [reg EXCEPT ![a] = [e EXCEPT !.price = e.fee]]

-----------------------------------------------------------------------------
(* sync_once                                                               *)

\* Reads the source, target by target.
FetchFees ==
  /\ sync = "sleep" /\ sync' = "fetched" /\ pass' = [a \in Asps |-> [fee |-> fees[a]]]
  /\ UNCHANGED <<reg, fees, listing, nightVars, changes, faults>>

Proceed(f) == pass' = f /\ sync' = IF DOMAIN f = {} THEN "sleep" ELSE "writing"

\* Mutation of ListAll: a fee is new if it is not the one that was published.
ListPublished ==
  /\ sync = "fetched"
  /\ Proceed([a \in {b \in Asps : pass[b].fee # listing[b]} |->
                [reg[a] EXCEPT !.fee = pass[a].fee]])
  /\ UNCHANGED <<reg, fees, listing, nightVars, changes, faults>>

\* Reads every row; those whose fee is another one will be written back with it.
ListAll ==
  /\ sync = "fetched"
  /\ Proceed([a \in {b \in Asps : pass[b].fee # reg[b].fee} |->
                [reg[a] EXCEPT !.fee = pass[a].fee]])
  /\ UNCHANGED <<reg, fees, listing, nightVars, changes, faults>>

ApplyFee(a) ==
  /\ sync = "writing" /\ a \in DOMAIN pass
  /\ Upsert(a, pass[a])
  /\ pass' = Without(pass, a) /\ sync' = "pushing"
  /\ UNCHANGED <<fees, listing, nightVars, changes, faults>>

\* Mutation of Push: the pushes are combined, and the last one is left out.
PushBetween ==
  /\ sync = "pushing" /\ Proceed(pass)
  /\ listing' = IF pass = Nothing THEN listing ELSE [a \in Asps |-> reg[a].price]
  /\ UNCHANGED <<reg, fees, nightVars, changes, faults>>

\* The update of the listing replaces every service, rebuilt from the registry.
Push ==
  /\ sync = "pushing" /\ Proceed(pass)
  /\ listing' = [a \in Asps |-> reg[a].price]
  /\ UNCHANGED <<reg, fees, nightVars, changes, faults>>

\* The source or the listing's command line fails: the pass ends, the row written
\* stays.
SyncFails ==
  /\ sync \in {"fetched", "pushing"} /\ faults < MaxFaults
  /\ faults' = faults + 1 /\ sync' = "sleep" /\ pass' = Nothing
  /\ UNCHANGED <<reg, fees, listing, nightVars, changes>>

-----------------------------------------------------------------------------
(* run_auto_protection                                                     *)

Judge(f) ==
  /\ rows' = f
  /\ IF f = Nothing THEN night' = "sleep" /\ UNCHANGED asp
                    ELSE night' = "ratio" /\ asp' \in DOMAIN f

StartNight ==
  /\ night = "sleep" /\ nights < MaxNights /\ nights' = nights + 1
  /\ Judge(reg)
  /\ UNCHANGED <<reg, fees, listing, syncVars, reverted, changes, faults>>

Row == rows[asp]
SetMode(m) == reg' = [reg EXCEPT ![asp].mode = m]
Judged == Judge(Without(rows, asp))

\* Mutation of JudgeRatio: any target that loses money goes to the parallel route.
JudgeRatioAny ==
  /\ night = "ratio" /\ night' = "failures"
  /\ \/ UNCHANGED reg
     \/ SetMode("B_fanout")
     \/ Row.timer < MaxTimer /\ reg' = [reg EXCEPT ![asp].timer = Row.timer + 1]
  /\ UNCHANGED <<fees, listing, syncVars, rows, asp, nights, reverted, changes, faults>>

\* The share of batches below break-even: above 60% an aggregated target goes to
\* the parallel route, above 30% its window is extended.
JudgeRatio ==
  /\ night = "ratio" /\ night' = "failures"
  /\ \/ UNCHANGED reg
     \/ Row.mode \in Aggregated /\ SetMode("B_fanout")
     \/ Row.timer < MaxTimer /\ reg' = [reg EXCEPT ![asp].timer = Row.timer + 1]
  /\ UNCHANGED <<fees, listing, syncVars, rows, asp, nights, reverted, changes, faults>>

\* Splits that failed: none; twice on an LLM target; or a new profile is due.
JudgeFailures ==
  /\ night = "failures"
  /\ \/ Judged /\ UNCHANGED reg
     \/ Row.mode = "A_llm" /\ SetMode("manual_review") /\ Judged
     \/ night' = "probing" /\ UNCHANGED <<reg, rows, asp>>
  /\ UNCHANGED <<fees, listing, syncVars, nights, reverted, changes, faults>>

\* The probe is answered: the row read at the start is written back, with its mode.
Reprofile ==
  /\ night = "probing" /\ Judged
  /\ \E m \in Classes(asp) : Upsert(asp, [Row EXCEPT !.mode = m])
  /\ reverted' = (reverted \/ Row.fee # reg[asp].fee)
  /\ UNCHANGED <<fees, listing, syncVars, nights, changes, faults>>

-----------------------------------------------------------------------------
Sync == FetchFees \/ ListAll \/ (\E a \in Asps : ApplyFee(a)) \/ Push
Night == StartNight \/ JudgeRatio \/ JudgeFailures \/ Reprofile

RegistryNext == Sync \/ SyncFails \/ Night \/ \E a \in Asps : FeeChanges(a)

RegistrySpec == RegistryInit /\ [][RegistryNext]_registryVars

\* The sync loop runs for ever, whatever a pass does; nothing is assumed of the
\* nightly job, which may stop anywhere with rows in hand.
RegistryLiveSpec == RegistrySpec /\ WF_registryVars(Sync)

-----------------------------------------------------------------------------
\* "Two identical transfers are two distinct intents, never one answer served
\* twice" (core/models.py:21): no stale row, demotion or new profile ever puts a
\* tool with side effects into a mode whose calls are cached and merged.
SideEffectsAreNotShared ==
  \A a \in SideEffects : reg[a].mode \notin DedupSafeModes

\* Whatever stale rows the nightly job writes back, the registry ends up with the
\* fee each target registered, and quotes a price derived from it.
FeesConverge ==
  <>[](\A a \in Asps : reg[a].fee = fees[a] /\ reg[a].price = fees[a])

\* So does the listing, if no push failed and the nightly job took no fee back: a
\* fee taken back to what its target has returned to meanwhile is no change to the
\* sync, and the listing keeps the one pushed in between.
ListingConverges ==
  [](faults = 0 /\ ~reverted) => <>[](\A a \in Asps : listing[a] = fees[a])

\* sync.py:5-11 says that the listing follows a changed fee automatically; a push
\* that failed is not tried again, since the registry holds the new fee already.
EveryChangeIsPushed == [](~reverted) => <>[](\A a \in Asps : listing[a] = fees[a])
=============================================================================
