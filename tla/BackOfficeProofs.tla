-------------------------- MODULE BackOfficeProofs --------------------------
(***************************************************************************)
(* Theorems of the two modules of TheHouse's background loops: Settlement, *)
(* for any payments, pollers, dispatches, errors and crashes, and Registry,*)
(* for any targets, fees and number of nights.                             *)
(***************************************************************************)
EXTENDS Settlement, Registry, WellFoundedInduction, TLAPS

-----------------------------------------------------------------------------
(* Settlement: the rails and their pollers.                                *)

\* The rows a poller asks about have a first one.
LEMMA MinOfNats ==
  ASSUME NEW S \in SUBSET Nat, S # {}
  PROVE  Min(S) \in S
<1> DEFINE less == OpToRel(<, Nat)
<1>1. \A x, y \in Nat : x < y => <<x, y>> \in less
  BY SMT DEF OpToRel
<1>2. IsWellFoundedOn(less, Nat)
  BY Zenon, NatLessThanWellFounded
<1> HIDE DEF less
<1>3. PICK x \in S : \A y \in S : ~(<<y, x>> \in less)
  BY <1>2, WFMin
<1>4. \A y \in S : ~(y < x)
  BY <1>1, <1>3
<1>5. \A y \in S : x <= y
  BY <1>4
<1> QED
  BY <1>5 DEF Min

\* There has been a fault if there has been an error or a crash.
LEMMA SomeFault ==
  ASSUME NEW a \in Nat, NEW b \in Nat
  PROVE  a + b > 0 <=> a > 0 \/ b > 0
OBVIOUS

\* Errors and crashes are only ever added.
LEMMA FaultsStay ==
  ASSUME NEW a \in Nat, NEW b \in Nat, NEW c \in Nat, NEW d \in Nat,
         c >= a, d = b, a + b > 0
  PROVE  c + d > 0
OBVIOUS

\* An answer that a poller holds is what became of the payment it asked about, for good.
AnswersAreFinal ==
  \A k \in Pollers : answer[k] # "none" => todo[k] # {} /\ chain[First(k)] = answer[k]

\* The books follow the outside world: a row or a call under way is of a payment that was
\* begun, a batch and a charge are on record before they can land, and a payment to a
\* target has a row unless its call is under way or was lost to an error or a crash.
BooksFollow ==
  \A p \in Payments :
    /\ row[p] # "none" \/ p \in call => chain[p] # "none"
    /\ p \in Deferred /\ chain[p] # "none" => row[p] # "none"
    /\ p \in Charges /\ chain[p] \in Outcomes => row[p] # "none"
    /\ p \in Targets /\ chain[p] # "none" /\ row[p] = "none" =>
         p \in call \/ errors + crashes > 0

\* A dispatch has booked one payment per replay it took money for, and one more for the
\* replay that is under way; it starts two attempts at most.
ReplaysAreBooked ==
  \A d \in Dispatches :
    /\ booked[d] <= tries[d]
    /\ disp[d] = "idle" => tries[d] = 0
    /\ disp[d] = "failed" => tries[d] = 1
    /\ paid[d] + (IF disp[d] = "replaying" THEN 1 ELSE 0) <= booked[d]

Inv ==
  /\ SettlementTypeOK
  /\ AnswersAreFinal
  /\ BooksFollow
  /\ ReplaysAreBooked
  /\ RowAgreesWithChain

LEMMA InitInv == Init => Inv
BY BoundAssumption DEF Init, Inv, SettlementTypeOK, AnswersAreFinal, BooksFollow,
   ReplaysAreBooked, RowAgreesWithChain, Outcomes, Terminal

\* The row a poller is about to ask about or to write is one of a payment.
LEMMA FirstIsPayment ==
  ASSUME SettlementTypeOK, NEW k \in Pollers, todo[k] # {}
  PROVE  First(k) \in Payments /\ First(k) \in todo[k]
<1>1. todo[k] \in SUBSET Nat
  BY PaymentsAssumption DEF SettlementTypeOK
<1>2. Min(todo[k]) \in todo[k]
  BY <1>1, MinOfNats
<1> QED
  BY <1>2 DEF First, SettlementTypeOK

\* Steps that touch neither the pollers nor the outcome of any payment.
LEMMA AnswersStay ==
  ASSUME AnswersAreFinal, UNCHANGED polls,
         \A p \in Payments : chain[p] \in Outcomes => chain'[p] = chain[p],
         SettlementTypeOK
  PROVE  AnswersAreFinal'
<1> SUFFICES ASSUME NEW k \in Pollers, answer'[k] # "none"
             PROVE  todo'[k] # {} /\ chain'[First(k)'] = answer'[k]
  BY DEF AnswersAreFinal
<1>1. todo[k] # {} /\ chain[First(k)] = answer[k] /\ answer[k] \in Outcomes
  BY DEF AnswersAreFinal, polls, SettlementTypeOK
<1>2. First(k) \in Payments
  BY <1>1, FirstIsPayment
<1>3. First(k)' = First(k)
  BY DEF First, polls
<1> QED
  BY <1>1, <1>2, <1>3 DEF polls

\* The writers of rows and the outside world.
LEMMA RecordStep ==
  ASSUME Inv, NEW p \in Payments, Record(p) \/ Land(p)
  PROVE  Inv'
<1> USE DEF polls, dispatch, books, rail
<1>t. /\ chain \in [Payments -> {"none", "pending"} \cup Outcomes]
      /\ row \in [Payments -> {"none", "accepted", "pending"} \cup Terminal]
      /\ errors \in Nat /\ crashes \in Nat
  BY BoundAssumption DEF Inv, SettlementTypeOK
<1>d. /\ p \in Deferred => p \notin Charges /\ p \notin Targets
      /\ p \in Charges => p \notin Targets
  BY DisjointAssumption
<1>b. BooksFollow /\ RowAgreesWithChain
  BY DEF Inv
<1>1. SettlementTypeOK'
  <2> USE DEF Inv, SettlementTypeOK, Outcomes, Terminal
  <2>1. CASE RecordDeferred(p)
    BY <2>1 DEF RecordDeferred
  <2>2. CASE AttachTxhash(p)
    BY <2>2 DEF AttachTxhash
  <2>3. CASE CallRail(p)
    BY <2>3 DEF CallRail
  <2>4. CASE Insert(p)
    BY <2>4 DEF Insert
  <2>5. CASE RailRaises(p)
    BY <2>5, BoundAssumption DEF RailRaises
  <2>6. CASE Land(p)
    BY <2>6 DEF Land
  <2> QED
    BY <2>1, <2>2, <2>3, <2>4, <2>5, <2>6 DEF Record
<1>2. BooksFollow' /\ RowAgreesWithChain'
  <2> USE DEF BooksFollow, RowAgreesWithChain, Outcomes, Terminal
  <2>1. CASE RecordDeferred(p)
    BY <1>t, <1>d, <1>b, <2>1 DEF RecordDeferred
  <2>2. CASE AttachTxhash(p)
    BY <1>b, <2>2 DEF AttachTxhash
  <2>3. CASE CallRail(p)
    BY <1>t, <1>d, <1>b, <2>3 DEF CallRail
  <2>4. CASE Insert(p)
    <3>1. PICK r \in {"pending", chain[p]} :
            row' = [row EXCEPT ![p] = IF p \in Charges \/ r = "pending" THEN "pending"
                                      ELSE IF r = "success" THEN "settled" ELSE "failed"]
      BY <2>4 DEF Insert
    <3>2. /\ p \in call /\ call' = call \ {p} /\ chain' = chain /\ chain[p] # "none"
          /\ errors' = errors /\ crashes' = crashes
      BY <1>b, <2>4 DEF Insert
    <3> QED
      BY <1>t, <1>d, <1>b, <3>1, <3>2
  <2>5. CASE RailRaises(p)
    BY <1>t, <1>d, <1>b, <2>5 DEF RailRaises
  <2>6. CASE Land(p)
    BY <1>t, <1>d, <1>b, <2>6 DEF Land
  <2> QED
    BY <2>1, <2>2, <2>3, <2>4, <2>5, <2>6 DEF Record
<1>3. AnswersAreFinal'
  <2>1. UNCHANGED polls
    BY DEF Record, RecordDeferred, AttachTxhash, CallRail, Insert, RailRaises, Land
  <2>2. \A q \in Payments : chain[q] \in Outcomes => chain'[q] = chain[q]
    <3> USE DEF Outcomes
    <3>1. CASE RecordDeferred(p)
      BY <1>t, <1>b, <1>d, <3>1 DEF RecordDeferred, BooksFollow
    <3>2. CASE CallRail(p) \/ Land(p)
      BY <1>t, <3>2 DEF CallRail, Land
    <3>3. CASE AttachTxhash(p) \/ Insert(p) \/ RailRaises(p)
      BY <3>3 DEF AttachTxhash, Insert, RailRaises
    <3> QED
      BY <3>1, <3>2, <3>3 DEF Record
  <2> QED
    BY <2>1, <2>2, AnswersStay DEF Inv
<1>4. ReplaysAreBooked'
  BY DEF Inv, ReplaysAreBooked, Record, RecordDeferred, AttachTxhash, CallRail, Insert,
         RailRaises, Land
<1> QED
  BY <1>1, <1>2, <1>3, <1>4 DEF Inv

\* The pollers.
LEMMA PollStep ==
  ASSUME Inv, NEW k \in Pollers, Poll(k)
  PROVE  Inv'
<1> USE DEF rail, books, dispatch
<1>t. /\ todo \in [Pollers -> SUBSET Payments] /\ answer \in [Pollers -> {"none"} \cup Outcomes]
      /\ row \in [Payments -> {"none", "accepted", "pending"} \cup Terminal]
      /\ hashed \subseteq Payments /\ alerted \subseteq Payments
      /\ errors \in 0..MaxErrors
  BY DEF Inv, SettlementTypeOK
<1>c. UNCHANGED <<chain, call, hashed, disp, tries, booked, paid, crashes>>
  BY DEF Poll, StartPass, Ask, AskRaises, Advance
<1>r. ReplaysAreBooked'
  BY <1>c DEF Inv, ReplaysAreBooked
<1>1. CASE StartPass(k) \/ Ask(k) \/ AskRaises(k)
  <2>1. UNCHANGED <<row, alerted>> /\ errors' \in 0..MaxErrors /\ errors' >= errors
    BY <1>1, <1>t, BoundAssumption DEF StartPass, Ask, AskRaises
  <2>2. todo' \in [Pollers -> SUBSET Payments] /\ answer' \in [Pollers -> {"none"} \cup Outcomes]
    BY <1>1, <1>t DEF StartPass, Eligible, Ask, Skip, AskRaises
  <2>3. SettlementTypeOK'
    BY <1>c, <2>1, <2>2 DEF Inv, SettlementTypeOK
  <2>4. BooksFollow' /\ RowAgreesWithChain'
    <3>n. errors \in Nat /\ errors' \in Nat /\ crashes \in Nat
      BY <1>t, <2>1, BoundAssumption DEF Inv, SettlementTypeOK
    <3>m. crashes' = crashes /\ errors' >= errors
      BY <1>c, <2>1
    <3>1. errors + crashes > 0 => errors' + crashes' > 0
      BY <3>m, <3>n, FaultsStay
    <3>2. BooksFollow'
      BY <1>c, <2>1, <3>1 DEF Inv, BooksFollow
    <3>3. RowAgreesWithChain'
      BY <1>c, <2>1 DEF Inv, RowAgreesWithChain
    <3> QED
      BY <3>2, <3>3
  <2>5. \A j \in Pollers \ {k} : todo'[j] = todo[j] /\ answer'[j] = answer[j]
    BY <1>1, <1>t DEF StartPass, Ask, Skip, AskRaises
  <2>6. answer'[k] # "none" =>
          todo'[k] = todo[k] /\ todo[k] # {} /\ chain[First(k)] = answer'[k]
    BY <1>1, <1>t DEF Inv, AnswersAreFinal, StartPass, Ask, Skip, AskRaises
  <2>7. AnswersAreFinal'
    <3> SUFFICES ASSUME NEW j \in Pollers, answer'[j] # "none"
                 PROVE  todo'[j] # {} /\ chain'[First(j)'] = answer'[j]
      BY DEF AnswersAreFinal
    <3>1. todo'[j] = todo[j] /\ todo[j] # {} /\ chain[First(j)] = answer'[j]
      BY <2>5, <2>6 DEF Inv, AnswersAreFinal
    <3>2. First(j)' = First(j)
      BY <3>1 DEF First
    <3> QED
      BY <1>c, <3>1, <3>2
  <2> QED
    BY <1>r, <2>3, <2>4, <2>7 DEF Inv
<1>2. CASE Advance(k)
  <2> DEFINE p == First(k)
  <2>1. /\ answer[k] \in Outcomes
        /\ row' = [row EXCEPT ![p] = IF answer[k] = "success" THEN "settled" ELSE "failed"]
        /\ alerted' = IF answer[k] = "failed" THEN alerted \cup {p} ELSE alerted
        /\ todo' = [todo EXCEPT ![k] = @ \ {p}] /\ answer' = [answer EXCEPT ![k] = "none"]
        /\ errors' = errors
    BY <1>2, <1>t DEF Advance, Skip
  <2>2. todo[k] # {} /\ chain[p] = answer[k]
    BY <2>1 DEF Inv, AnswersAreFinal, Outcomes
  <2>3. p \in Payments
    BY <2>2, FirstIsPayment DEF Inv
  <2> HIDE DEF p
  <2>4. SettlementTypeOK'
    BY <1>t, <1>c, <2>1, <2>3 DEF Inv, SettlementTypeOK, Terminal
  <2>5. BooksFollow' /\ RowAgreesWithChain'
    BY <1>t, <1>c, <2>1, <2>2, <2>3 DEF Inv, BooksFollow, RowAgreesWithChain, Outcomes, Terminal
  <2>6. AnswersAreFinal'
    <3> SUFFICES ASSUME NEW j \in Pollers, answer'[j] # "none"
                 PROVE  todo'[j] # {} /\ chain'[First(j)'] = answer'[j]
      BY DEF AnswersAreFinal
    <3>1. j # k /\ todo'[j] = todo[j] /\ answer'[j] = answer[j]
      BY <1>t, <2>1
    <3>2. First(j)' = First(j)
      BY <3>1 DEF First
    <3> QED
      BY <1>c, <3>1, <3>2 DEF Inv, AnswersAreFinal
  <2> QED
    BY <1>r, <2>4, <2>5, <2>6 DEF Inv
<1> QED
  BY <1>1, <1>2 DEF Poll

\* The dispatches, which share nothing with the rest.
LEMMA DispatchStep ==
  ASSUME Inv, NEW d \in Dispatches, Dispatch(d)
  PROVE  Inv'
<1> USE DEF rail, books, polls, Goto
<1>c. UNCHANGED <<chain, call, row, hashed, alerted, todo, answer, errors, crashes>>
  BY DEF Dispatch, Call, Replay
<1>t. /\ disp \in [Dispatches -> {"idle", "replaying", "done", "failed"}]
      /\ tries \in [Dispatches -> 0..2]
      /\ booked \in [Dispatches -> 0..2] /\ paid \in [Dispatches -> 0..2]
      /\ ReplaysAreBooked
  BY DEF Inv, SettlementTypeOK
<1>1. ReplaysAreBooked' /\ disp' \in [Dispatches -> {"idle", "replaying", "done", "failed"}]
      /\ tries' \in [Dispatches -> 0..2]
      /\ booked' \in [Dispatches -> 0..2] /\ paid' \in [Dispatches -> 0..2]
  <2>1. CASE Call(d)
    <3>1. tries[d] \in 0..1 /\ booked[d] \in 0..1 /\ paid[d] <= booked[d]
          /\ tries' = [tries EXCEPT ![d] = @ + 1] /\ paid' = paid
      BY <1>t, <2>1 DEF Call, ReplaysAreBooked
    <3>2. CASE Finish(d) /\ UNCHANGED booked
      BY <1>t, <2>1, <3>1, <3>2 DEF Call, Finish, ReplaysAreBooked
    <3>3. CASE Goto(d, "replaying") /\ booked' = [booked EXCEPT ![d] = @ + 1]
      BY <1>t, <3>1, <3>3 DEF ReplaysAreBooked
    <3> QED
      BY <2>1, <3>2, <3>3 DEF Call
  <2>2. CASE Replay(d)
    <3>1. PICK l \in {"done", "failed"}, m \in {0, 1} :
            /\ disp[d] = "replaying" /\ disp' = [disp EXCEPT ![d] = l]
            /\ paid' = [paid EXCEPT ![d] = @ + m]
            /\ l = "failed" => tries[d] # 2
            /\ tries' = tries /\ booked' = booked
      <4>1. CASE Goto(d, "done") /\ paid' = [paid EXCEPT ![d] = @ + 1]
        BY <2>2, <4>1 DEF Replay
      <4>2. CASE /\ Goto(d, IF tries[d] = 2 THEN "done" ELSE "failed")
                 /\ \E m \in {0, 1} : paid' = [paid EXCEPT ![d] = @ + m]
        BY <2>2, <4>2 DEF Replay
      <4> QED
        BY <2>2, <4>1, <4>2 DEF Replay
    <3>2. paid[d] + 1 <= booked[d] /\ booked[d] <= tries[d]
      BY <3>1 DEF Inv, ReplaysAreBooked
    <3> QED
      BY <1>t, <3>1, <3>2 DEF ReplaysAreBooked
  <2> QED
    BY <2>1, <2>2 DEF Dispatch
<1>2. SettlementTypeOK'
  BY <1>1, <1>c DEF Inv, SettlementTypeOK
<1>3. AnswersAreFinal'
  BY <1>c, AnswersStay DEF Inv
<1>4. BooksFollow' /\ RowAgreesWithChain'
  BY <1>c DEF Inv, BooksFollow, RowAgreesWithChain
<1> QED
  BY <1>1, <1>2, <1>3, <1>4 DEF Inv

\* A crash: calls, passes and dispatches are forgotten, and what they leave is excused.
LEMMA CrashStep == Inv /\ Crash => Inv'
<1> SUFFICES ASSUME Inv, Crash PROVE Inv'
  OBVIOUS
<1>1. /\ crashes' \in 0..MaxCrashes /\ crashes' > 0 /\ call' = {}
      /\ todo' = [k \in Pollers |-> {}] /\ answer' = [k \in Pollers |-> "none"]
      /\ disp' = [d \in Dispatches |-> "done"]
      /\ UNCHANGED <<chain, row, hashed, alerted, tries, booked, paid, errors>>
  BY BoundAssumption DEF Crash, books, Inv, SettlementTypeOK
<1>2. SettlementTypeOK'
  BY <1>1 DEF Inv, SettlementTypeOK
<1>3. AnswersAreFinal'
  BY <1>1 DEF AnswersAreFinal
<1>4. BooksFollow' /\ RowAgreesWithChain'
  <2>n. errors' \in Nat /\ crashes' \in Nat /\ crashes' > 0
    BY <1>1, BoundAssumption DEF Inv, SettlementTypeOK
  <2>1. errors' + crashes' > 0
    BY <2>n, SomeFault
  <2> QED
    BY <1>1, <2>1 DEF Inv, BooksFollow, RowAgreesWithChain
<1>5. ReplaysAreBooked'
  BY <1>1 DEF Inv, SettlementTypeOK, ReplaysAreBooked
<1> QED
  BY <1>2, <1>3, <1>4, <1>5 DEF Inv

LEMMA NextInv == Inv /\ [Next]_vars => Inv'
<1> SUFFICES ASSUME Inv, [Next]_vars PROVE Inv'
  OBVIOUS
<1>1. CASE UNCHANGED vars
  <2> USE <1>1 DEF vars, rail, books, polls, dispatch
  <2>1. SettlementTypeOK' /\ BooksFollow' /\ ReplaysAreBooked' /\ RowAgreesWithChain'
    BY DEF Inv, SettlementTypeOK, BooksFollow, ReplaysAreBooked, RowAgreesWithChain
  <2>2. AnswersAreFinal'
    BY AnswersStay DEF Inv
  <2> QED
    BY <2>1, <2>2 DEF Inv
<1> QED
  BY <1>1, RecordStep, PollStep, DispatchStep, CrashStep DEF Next

LEMMA InvCorrect == Spec => []Inv
BY InitInv, NextInv, PTL DEF Spec

\* Type correctness of the books, the pollers and the dispatches.
THEOREM SettlementTypeCorrect == Spec => []SettlementTypeOK
<1>1. Inv => SettlementTypeOK
  BY DEF Inv
<1> QED
  BY <1>1, InvCorrect, PTL

\* settlement.py, settlement_rail.py: however two pollers, a slow answer, a record and a
\* crash interleave, a row is settled or failed only if its payment was.
THEOREM RowAgreesWithChainCorrect == Spec => []RowAgreesWithChain
<1>1. Inv => RowAgreesWithChain
  BY DEF Inv
<1> QED
  BY <1>1, InvCorrect, PTL

\* payments.py, dispatcher/service.py: no money moves off the books but that of pay_target,
\* whose call was lost to an error or a crash.
THEOREM MoneyIsBookedCorrect == Spec => []MoneyIsBooked
<1>1. Inv => MoneyIsBooked
  <2> SUFFICES ASSUME Inv PROVE MoneyIsBooked
    OBVIOUS
  <2>1. ASSUME NEW p \in Payments, chain[p] = "success", row[p] = "none"
        PROVE  p \in call \/ (p \in Targets /\ errors + crashes > 0)
    BY <2>1 DEF Inv, BooksFollow, Outcomes, Payments
  <2>2. ASSUME NEW d \in Dispatches PROVE paid[d] <= booked[d]
    BY DEF Inv, SettlementTypeOK, ReplaysAreBooked
  <2> QED
    BY <2>1, <2>2 DEF MoneyIsBooked
<1> QED
  BY <1>1, InvCorrect, PTL

-----------------------------------------------------------------------------
(* Registry: the price sync and the nightly job.                           *)

\* No row, nor any copy of one that a writer still holds, has a mode that shares the
\* calls of a tool with side effects.
Unshared(rs) == \A a \in DOMAIN rs : a \in SideEffects => rs[a].mode \notin DedupSafeModes

RegistryInv ==
  /\ RegistryTypeOK
  /\ Unshared(reg)
  /\ IF sync = "fetched" THEN DOMAIN pass = Asps ELSE Unshared(pass)
  /\ Unshared(rows)

\* What the profiler finds is a mode, and shares no side effects.
LEMMA ClassesAreModes ==
  ASSUME NEW a, NEW m \in Classes(a)
  PROVE  m \in Modes /\ (a \in SideEffects => m \notin DedupSafeModes)
BY FoundAssumption DEF Classes, Modes, DedupSafeModes, Aggregated

\* A whole row that is written, with the price derived from its fee, is a row.
LEMMA UpsertRow ==
  ASSUME RegistryInv, NEW a \in Asps, NEW e \in Entries, Upsert(a, e),
         a \in SideEffects => e.mode \notin DedupSafeModes
  PROVE  reg' \in [Asps -> Entries] /\ Unshared(reg')
<1> DEFINE written == [e EXCEPT !.price = e.fee]
<1>1. written \in Entries /\ written.mode = e.mode
  BY DEF Entries
<1>2. reg \in [Asps -> Entries] /\ reg' = [reg EXCEPT ![a] = written]
  BY DEF RegistryInv, RegistryTypeOK, Upsert
<1> HIDE DEF written
<1> QED
  BY <1>1, <1>2 DEF RegistryInv, Unshared

\* So is a row without those already judged or written.
LEMMA WithoutRow ==
  ASSUME NEW f, NEW a, NEW b \in DOMAIN Without(f, a)
  PROVE  b \in DOMAIN f /\ b # a /\ Without(f, a)[b] = f[b]
BY DEF Without

\* Whatever is left to judge, the nightly job judges one of it or sleeps.
LEMMA JudgeRows ==
  ASSUME NEW f, DOMAIN f \subseteq Asps, \A a \in DOMAIN f : f[a] \in Entries, Unshared(f),
         Judge(f)
  PROVE  /\ night' \in {"sleep", "ratio"}
         /\ DOMAIN rows' \subseteq Asps /\ \A a \in DOMAIN rows' : rows'[a] \in Entries
         /\ night' # "sleep" => asp' \in DOMAIN rows'
         /\ Unshared(rows')
BY DEF Judge

LEMMA RegistryInitInv == RegistryInit => RegistryInv
<1> SUFFICES ASSUME RegistryInit PROVE RegistryInv
  OBVIOUS
<1>1. PICK f \in Fees :
        /\ fees = [a \in Asps |-> f]
        /\ \E m \in [Asps -> Modes] :
             /\ \A a \in Asps : m[a] \in Classes(a)
             /\ reg = [a \in Asps |-> [mode |-> m[a], fee |-> f, price |-> f, timer |-> 0]]
  BY DEF RegistryInit
<1>2. PICK m \in [Asps -> Modes] :
        /\ \A a \in Asps : m[a] \in Classes(a)
        /\ reg = [a \in Asps |-> [mode |-> m[a], fee |-> f, price |-> f, timer |-> 0]]
  BY <1>1
<1>3. reg \in [Asps -> Entries]
  BY <1>2, RegistryBoundAssumption DEF Entries
<1>4. Unshared(reg)
  BY <1>2, ClassesAreModes DEF Unshared
<1>5. listing \in [Asps -> Fees] /\ fees \in [Asps -> Fees]
  BY <1>1 DEF RegistryInit
<1>6. DOMAIN Nothing = {}
  BY DEF Nothing
<1>7. /\ sync = "sleep" /\ pass = Nothing /\ night = "sleep" /\ rows = Nothing
      /\ reverted = FALSE /\ changes = 0 /\ faults = 0 /\ nights = 0
  BY DEF RegistryInit
<1> HIDE DEF RegistryInit, Nothing
<1>8. DOMAIN pass = {} /\ DOMAIN rows = {}
  BY <1>6, <1>7
<1>9. changes \in 0..MaxChanges /\ faults \in 0..MaxFaults /\ nights \in 0..MaxNights
  BY <1>7, RegistryBoundAssumption
<1>10. RegistryTypeOK
  BY <1>3, <1>5, <1>7, <1>8, <1>9 DEF RegistryTypeOK
<1> QED
  BY <1>4, <1>7, <1>8, <1>10 DEF RegistryInv, Unshared

\* The steps of the sync.
LEMMA SyncStep == RegistryInv /\ (Sync \/ SyncFails) => RegistryInv'
<1> SUFFICES ASSUME RegistryInv, Sync \/ SyncFails PROVE RegistryInv'
  OBVIOUS
<1> USE DEF RegistryInv, RegistryTypeOK, nightVars
<1>1. CASE FetchFees
  BY <1>1 DEF FetchFees, Unshared
<1>2. CASE ListAll
  <2> DEFINE new == {b \in Asps : pass[b].fee # reg[b].fee}
             f == [a \in new |-> [reg[a] EXCEPT !.fee = pass[a].fee]]
  <2>1. /\ sync = "fetched" /\ Proceed(f)
        /\ UNCHANGED <<reg, fees, listing, nightVars, changes, faults>>
    BY <1>2 DEF ListAll
  <2>2. ASSUME NEW a \in DOMAIN f
        PROVE  f[a] \in Entries /\ (a \in SideEffects => f[a].mode \notin DedupSafeModes)
    <3>1. a \in Asps /\ reg[a] \in Entries /\ pass[a] \in [fee : Fees]
      BY <2>1, <2>2
    <3>2. f[a] = [reg[a] EXCEPT !.fee = pass[a].fee]
      BY <2>2
    <3> HIDE DEF f
    <3> QED
      BY <3>1, <3>2 DEF Entries, Unshared
  <2>3. DOMAIN f \subseteq Asps
    OBVIOUS
  <2> HIDE DEF f
  <2>4. pass' = f /\ sync' \in {"sleep", "writing"}
    BY <2>1 DEF Proceed
  <2> QED
    BY <2>1, <2>2, <2>3, <2>4 DEF Unshared
<1>3. ASSUME NEW a \in Asps, ApplyFee(a) PROVE RegistryInv'
  <2>1. /\ sync = "writing" /\ a \in DOMAIN pass /\ Upsert(a, pass[a])
        /\ pass' = Without(pass, a) /\ sync' = "pushing"
        /\ UNCHANGED <<fees, listing, nightVars, changes, faults>>
    BY <1>3 DEF ApplyFee
  <2>2. reg' \in [Asps -> Entries] /\ Unshared(reg')
    BY <2>1, UpsertRow DEF Unshared
  <2>3. \A b \in DOMAIN pass' : b \in DOMAIN pass /\ pass'[b] = pass[b]
    BY <2>1, WithoutRow
  <2> QED
    BY <2>1, <2>2, <2>3 DEF Unshared
<1>4. CASE Push
  <2>1. listing' \in [Asps -> Fees]
    BY <1>4 DEF Push, Entries
  <2> QED
    BY <1>4, <2>1 DEF Push, Proceed, Unshared
<1>5. CASE SyncFails
  <2>1. DOMAIN Nothing = {}
    BY DEF Nothing
  <2>2. /\ faults' \in 0..MaxFaults /\ sync' = "sleep" /\ pass' = Nothing
        /\ UNCHANGED <<reg, fees, listing, nightVars, changes>>
    BY <1>5, RegistryBoundAssumption DEF SyncFails
  <2> HIDE DEF Nothing
  <2> QED
    BY <2>1, <2>2 DEF Unshared
<1> QED
  BY <1>1, <1>2, <1>3, <1>4, <1>5 DEF Sync

\* A step of the nightly job that writes at most one row and goes on with others.
LEMMA NightWrites ==
  ASSUME RegistryInv, reg' \in [Asps -> Entries], Unshared(reg'),
         reverted' \in BOOLEAN, nights' \in 0..MaxNights,
         night' \in {"sleep", "ratio", "failures", "probing"},
         DOMAIN rows' \subseteq Asps, \A a \in DOMAIN rows' : rows'[a] \in Entries,
         night' # "sleep" => asp' \in DOMAIN rows',
         Unshared(rows'),
         UNCHANGED <<fees, listing, syncVars, changes, faults>>
  PROVE  RegistryInv'
BY DEF RegistryInv, RegistryTypeOK, syncVars, Unshared

\* The steps of the nightly job.
LEMMA NightStep == RegistryInv /\ Night => RegistryInv'
<1> SUFFICES ASSUME RegistryInv, Night PROVE RegistryInv'
  OBVIOUS
<1>t. /\ reg \in [Asps -> Entries] /\ Unshared(reg) /\ Unshared(rows)
      /\ DOMAIN rows \subseteq Asps /\ \A a \in DOMAIN rows : rows[a] \in Entries
      /\ night # "sleep" => asp \in DOMAIN rows
      /\ reverted \in BOOLEAN /\ nights \in 0..MaxNights
  BY DEF RegistryInv, RegistryTypeOK
<1>u. /\ DOMAIN Without(rows, asp) \subseteq Asps
      /\ \A a \in DOMAIN Without(rows, asp) : Without(rows, asp)[a] \in Entries
      /\ Unshared(Without(rows, asp))
  BY <1>t, WithoutRow DEF Unshared
<1>m. ASSUME NEW m \in Modes \ DedupSafeModes, asp \in Asps, SetMode(m)
      PROVE  reg' \in [Asps -> Entries] /\ Unshared(reg')
  BY <1>t, <1>m DEF SetMode, Entries, Unshared
<1>1. CASE StartNight
  <2>1. Judge(reg) /\ nights' \in 0..MaxNights
        /\ UNCHANGED <<reg, fees, listing, syncVars, reverted, changes, faults>>
    BY <1>1, <1>t, RegistryBoundAssumption DEF StartNight
  <2>2. /\ night' \in {"sleep", "ratio"}
        /\ DOMAIN rows' \subseteq Asps /\ \A a \in DOMAIN rows' : rows'[a] \in Entries
        /\ night' # "sleep" => asp' \in DOMAIN rows'
        /\ Unshared(rows')
    BY <1>t, <2>1, JudgeRows
  <2> QED
    BY <1>t, <2>1, <2>2, NightWrites
<1>2. CASE JudgeRatio
  <2>1. /\ asp \in DOMAIN rows /\ asp \in Asps /\ Row \in Entries
        /\ night' = "failures"
        /\ UNCHANGED <<fees, listing, syncVars, rows, asp, nights, reverted, changes, faults>>
    BY <1>2, <1>t DEF JudgeRatio, Row
  <2>2. reg' \in [Asps -> Entries] /\ Unshared(reg')
    <3>1. CASE UNCHANGED reg
      BY <3>1, <1>t
    <3>2. CASE Row.mode \in Aggregated /\ SetMode("B_fanout")
      <4>1. asp \notin SideEffects
        BY <2>1, <3>2, <1>t DEF Unshared, Row, DedupSafeModes
      <4> QED
        BY <2>1, <3>2, <4>1, <1>t DEF SetMode, Entries, Modes, Unshared
    <3>3. CASE Row.timer < MaxTimer /\ reg' = [reg EXCEPT ![asp].timer = Row.timer + 1]
      <4>1. Row.timer + 1 \in 0..MaxTimer
        BY <2>1, <3>3, RegistryBoundAssumption DEF Entries
      <4> QED
        BY <2>1, <3>3, <4>1, <1>t DEF Entries, Unshared
    <3> QED
      BY <1>2, <3>1, <3>2, <3>3 DEF JudgeRatio
  <2> QED
    BY <1>t, <2>1, <2>2, NightWrites
<1>3. CASE JudgeFailures
  <2>1. /\ asp \in DOMAIN rows /\ asp \in Asps
        /\ UNCHANGED <<fees, listing, syncVars, nights, reverted, changes, faults>>
    BY <1>3, <1>t DEF JudgeFailures
  <2>2. CASE Judged /\ (UNCHANGED reg \/ SetMode("manual_review"))
    <3>1. /\ night' \in {"sleep", "ratio"}
          /\ DOMAIN rows' \subseteq Asps /\ \A a \in DOMAIN rows' : rows'[a] \in Entries
          /\ night' # "sleep" => asp' \in DOMAIN rows'
          /\ Unshared(rows')
      BY <2>2, <1>u, JudgeRows DEF Judged
    <3>2. reg' \in [Asps -> Entries] /\ Unshared(reg')
      BY <2>1, <2>2, <1>t, <1>m DEF Modes, DedupSafeModes, Aggregated
    <3> QED
      BY <1>t, <2>1, <3>1, <3>2, NightWrites
  <2>3. CASE night' = "probing" /\ UNCHANGED <<reg, rows, asp>>
    BY <1>t, <2>1, <2>3, NightWrites
  <2> QED
    BY <1>3, <2>2, <2>3 DEF JudgeFailures
<1>4. CASE Reprofile
  <2>1. /\ asp \in DOMAIN rows /\ asp \in Asps /\ Row \in Entries
        /\ Judged /\ reverted' \in BOOLEAN
        /\ UNCHANGED <<fees, listing, syncVars, nights, changes, faults>>
    BY <1>4, <1>t DEF Reprofile, Row
  <2>2. PICK m \in Classes(asp) : Upsert(asp, [Row EXCEPT !.mode = m])
    BY <1>4 DEF Reprofile
  <2>3. [Row EXCEPT !.mode = m] \in Entries /\ [Row EXCEPT !.mode = m].mode = m
    BY <2>1, ClassesAreModes DEF Entries
  <2>4. reg' \in [Asps -> Entries] /\ Unshared(reg')
    BY <2>1, <2>2, <2>3, ClassesAreModes, UpsertRow
  <2>5. /\ night' \in {"sleep", "ratio"}
        /\ DOMAIN rows' \subseteq Asps /\ \A a \in DOMAIN rows' : rows'[a] \in Entries
        /\ night' # "sleep" => asp' \in DOMAIN rows'
        /\ Unshared(rows')
    BY <2>1, <1>u, JudgeRows DEF Judged
  <2> QED
    BY <1>t, <2>1, <2>4, <2>5, NightWrites
<1> QED
  BY <1>1, <1>2, <1>3, <1>4 DEF Night

LEMMA RegistryNextInv == RegistryInv /\ [RegistryNext]_registryVars => RegistryInv'
<1> SUFFICES ASSUME RegistryInv, [RegistryNext]_registryVars PROVE RegistryInv'
  OBVIOUS
<1>1. ASSUME NEW a \in Asps, FeeChanges(a) PROVE RegistryInv'
  <2>1. fees' \in [Asps -> Fees] /\ changes' \in 0..MaxChanges
    BY <1>1, RegistryBoundAssumption DEF FeeChanges, RegistryInv, RegistryTypeOK
  <2> QED
    BY <1>1, <2>1 DEF FeeChanges, RegistryInv, RegistryTypeOK, Unshared, syncVars, nightVars
<1>2. CASE UNCHANGED registryVars
  BY <1>2 DEF registryVars, RegistryInv, RegistryTypeOK, Unshared, syncVars, nightVars
<1> QED
  BY <1>1, <1>2, SyncStep, NightStep DEF RegistryNext

LEMMA RegistryInvCorrect == RegistrySpec => []RegistryInv
BY RegistryInitInv, RegistryNextInv, PTL DEF RegistrySpec

\* Type correctness of the registry and of the rows in its writers' hands.
THEOREM RegistryTypeCorrect == RegistrySpec => []RegistryTypeOK
<1>1. RegistryInv => RegistryTypeOK
  BY DEF RegistryInv
<1> QED
  BY <1>1, RegistryInvCorrect, PTL

\* core/models.py, profiler: a tool with side effects is never in a mode whose calls are
\* cached and merged, whatever stale row or new profile is written over its own.
THEOREM SideEffectsAreNotSharedCorrect == RegistrySpec => []SideEffectsAreNotShared
<1>1. RegistryInv => SideEffectsAreNotShared
  BY SideEffectsAssumption DEF RegistryInv, RegistryTypeOK, Unshared, SideEffectsAreNotShared
<1> QED
  BY <1>1, RegistryInvCorrect, PTL

\* sync.py:5-11 says that the listing follows a changed fee automatically, which TLC checks
\* in the long run (ListingConverges).  At every moment: unless a push is due or failed, or
\* the nightly job took a fee back, the whole listing derives from the prices in the
\* registry, and those from its fees, whatever rows are held across awaits meanwhile.
ListingFollowsRegistry ==
  /\ \A a \in Asps : reg[a].price = reg[a].fee
  /\ faults = 0 /\ ~reverted /\ sync # "pushing" => \A a \in Asps : listing[a] = reg[a].price

\* A write of a row's mode or timer leaves the listing as right as it was.
LEMMA OtherFieldWritten ==
  ASSUME RegistryInv, ListingFollowsRegistry, NEW n,
         UNCHANGED <<listing, sync, reverted, faults>>,
         \/ reg' = [reg EXCEPT ![asp] = [reg[asp] EXCEPT !.mode = n]]
         \/ reg' = [reg EXCEPT ![asp] = [reg[asp] EXCEPT !.timer = n]]
  PROVE  ListingFollowsRegistry'
<1> DEFINE written == IF reg' = [reg EXCEPT ![asp] = [reg[asp] EXCEPT !.mode = n]]
                      THEN [reg[asp] EXCEPT !.mode = n] ELSE [reg[asp] EXCEPT !.timer = n]
<1>1. reg' = [reg EXCEPT ![asp] = written]
  OBVIOUS
<1>2. reg \in [Asps -> Entries]
  BY DEF RegistryInv, RegistryTypeOK
<1>3. asp \in Asps => written.fee = reg[asp].fee /\ written.price = reg[asp].price
  BY <1>2 DEF Entries
<1> HIDE DEF written
<1> QED
  BY <1>1, <1>2, <1>3 DEF ListingFollowsRegistry

\* For any targets, fees and nights, the listing follows the registry as stated: no
\* interleaving of sync.py and the nightly job leaves the two apart by itself.
THEOREM ListingFollowsRegistryCorrect == RegistrySpec => []ListingFollowsRegistry
<1>1. RegistryInit => ListingFollowsRegistry
  <2> SUFFICES ASSUME RegistryInit PROVE ListingFollowsRegistry
    OBVIOUS
  <2>1. PICK f \in Fees, m \in [Asps -> Modes] :
          /\ fees = [a \in Asps |-> f]
          /\ reg = [a \in Asps |-> [mode |-> m[a], fee |-> f, price |-> f, timer |-> 0]]
    BY DEF RegistryInit
  <2> QED
    BY <2>1 DEF RegistryInit, ListingFollowsRegistry
<1>2. ASSUME RegistryInv, ListingFollowsRegistry, [RegistryNext]_registryVars
      PROVE  ListingFollowsRegistry'
  <2> USE DEF ListingFollowsRegistry
  <2>t. /\ reg \in [Asps -> Entries] /\ faults \in Nat
        /\ night # "sleep" => asp \in Asps
    BY <1>2, RegistryBoundAssumption DEF RegistryInv, RegistryTypeOK
  <2>1. CASE UNCHANGED registryVars
    BY <1>2, <2>1 DEF registryVars, syncVars, nightVars
  <2>2. ASSUME NEW a \in Asps, FeeChanges(a)
        PROVE  ListingFollowsRegistry'
    BY <1>2, <2>2 DEF FeeChanges, syncVars, nightVars
  <2>3. CASE FetchFees \/ ListAll
    BY <1>2, <2>3 DEF FetchFees, ListAll, Proceed, nightVars
  <2>4. ASSUME NEW a \in Asps, ApplyFee(a)
        PROVE  ListingFollowsRegistry'
    <3>1. sync' = "pushing" /\ reg' = [reg EXCEPT ![a] = [pass[a] EXCEPT !.price = pass[a].fee]]
      BY <2>4 DEF ApplyFee, Upsert
    <3>2. pass[a] \in Entries
      BY <1>2, <2>4 DEF ApplyFee, RegistryInv, RegistryTypeOK
    <3>3. [pass[a] EXCEPT !.price = pass[a].fee].price = pass[a].fee
          /\ [pass[a] EXCEPT !.price = pass[a].fee].fee = pass[a].fee
      BY <3>2 DEF Entries
    <3> DEFINE written == [pass[a] EXCEPT !.price = pass[a].fee]
    <3> HIDE DEF written
    <3>4. reg' = [reg EXCEPT ![a] = written] /\ written.price = written.fee
      BY <3>1, <3>3 DEF written
    <3> QED
      BY <1>2, <2>t, <3>1, <3>4
  <2>5. CASE Push
    BY <1>2, <2>5 DEF Push, nightVars
  <2>6. CASE SyncFails
    BY <1>2, <2>t, <2>6 DEF SyncFails, nightVars
  <2>7. CASE StartNight \/ JudgeFailures \/ JudgeRatio
    <3>0. UNCHANGED <<listing, sync, reverted, faults>>
      BY <2>7 DEF StartNight, JudgeFailures, JudgeRatio, syncVars
    <3>1. CASE UNCHANGED reg
      BY <1>2, <3>0, <3>1
    <3>2. ASSUME NEW m, SetMode(m)
          PROVE  ListingFollowsRegistry'
      <4>1. reg' = [reg EXCEPT ![asp] = [reg[asp] EXCEPT !.mode = m]]
        BY <3>2 DEF SetMode
      <4> QED
        BY <1>2, <3>0, <4>1, OtherFieldWritten
    <3>3. ASSUME NEW n, reg' = [reg EXCEPT ![asp].timer = n]
          PROVE  ListingFollowsRegistry'
      <4>1. reg' = [reg EXCEPT ![asp] = [reg[asp] EXCEPT !.timer = n]]
        BY <3>3
      <4> QED
        BY <1>2, <3>0, <4>1, OtherFieldWritten
    <3> QED
      BY <2>7, <3>1, <3>2, <3>3 DEF StartNight, JudgeFailures, JudgeRatio
  <2>8. CASE Reprofile
    <3>1. PICK m \in Classes(asp) : Upsert(asp, [Row EXCEPT !.mode = m])
      BY <2>8 DEF Reprofile
    <3>2. /\ asp \in Asps /\ Row \in Entries
          /\ UNCHANGED <<listing, sync, faults>>
          /\ reverted' = (reverted \/ Row.fee # reg[asp].fee)
      BY <1>2, <2>8 DEF Reprofile, syncVars, Row, RegistryInv, RegistryTypeOK
    <3> DEFINE read == [Row EXCEPT !.mode = m]
               written == [read EXCEPT !.price = read.fee]
    <3>3. written.fee = Row.fee /\ written.price = Row.fee
      BY <3>2 DEF Entries
    <3>4. reg' = [reg EXCEPT ![asp] = written]
      BY <3>1 DEF Upsert
    <3> HIDE DEF read, written
    <3> QED
      BY <1>2, <2>t, <3>2, <3>3, <3>4
  <2> QED
    BY <1>2, <2>1, <2>2, <2>3, <2>4, <2>5, <2>6, <2>7, <2>8
       DEF RegistryNext, Sync, Night
<1> QED
  BY <1>1, <1>2, RegistryInvCorrect, PTL DEF RegistrySpec
=============================================================================
