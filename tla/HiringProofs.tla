---------------------------- MODULE HiringProofs ----------------------------
(***************************************************************************)
(* Theorems about module Hiring, for every set of calls and nodes.         *)
(***************************************************************************)
EXTENDS Hiring, TLAPS

\* What a call that has not begun has done: nothing.
IdleIsFresh ==
  \A c \in Calls : pc[c] = "idle" =>
    /\ \A n \in Nodes : <<c, n>> \notin opened
    /\ \A e \in Escrows : c \notin paidBy[e]

\* The calls that had returned before another began have still returned.
BeforeReturned == \A c \in Calls : \A d \in before[c] : pc[d] \in Returned

\* A row is written for an escrow that was opened.
RowsAreOpened == \A e \in Escrows : hires[e] # "none" => e \in opened

\* A hiring call visits each node once.
VisitsOnce ==
  \A c \in Calls, n \in Nodes :
    pc[c] \in {"visit", "record"} /\ n \in todo[c] => <<c, n>> \notin opened

\* Between open_escrow and create_hire, the escrow is the call's and has no row.
RecordsOwn ==
  \A c \in Calls : pc[c] = "record" =>
    \E n \in Nodes :
      cur[c] = {<<c, n>>} /\ <<c, n>> \in opened /\ hires[<<c, n>>] = "none"

\* An opened escrow has a row, unless its call is about to write it, or died.
OpenedIsRecorded ==
  \A c \in Calls, n \in Nodes : <<c, n>> \in opened =>
    \/ hires[<<c, n>>] \in Active
    \/ pc[c] = "record" /\ <<c, n>> \in cur[c]
    \/ pc[c] = "dead"

\* A hiring call knows the nodes the calls before it have hired for.
KnowsHired ==
  \A c \in Calls : pc[c] \in {"visit", "record"} =>
    \A d \in before[c], n \in Nodes : <<d, n>> \in opened => n \in already[c]

\* A sign-off works on rows that exist, and marks what it has paid.
PaysRows ==
  \A c \in Calls :
    /\ pc[c] \in {"pay", "mark"} => \A e \in rows[c] : hires[e] \in Active
    /\ pc[c] = "mark" => \A e \in cur[c] : hires[e] \in Active /\ c \in paidBy[e]

\* A release is marked, unless its call is about to mark it, or died.
PaidIsMarked ==
  \A c \in Calls, e \in Escrows : c \in paidBy[e] =>
    \/ hires[e] = "released"
    \/ pc[c] = "mark" /\ e \in cur[c]
    \/ pc[c] = "dead"

MarkedIsPaid == \A e \in Escrows : hires[e] = "released" => paidBy[e] # {}

\* A sign-off is about to pay nothing that a call before it has paid, and has paid,
\* or is about to pay, all that a call before it has opened.
PaysTheRest ==
  \A c \in Calls : pc[c] \in {"pay", "mark"} =>
    \A d \in before[c] :
      /\ \A e \in rows[c] : d \notin paidBy[e]
      /\ \A n \in Nodes : <<d, n>> \in opened =>
           <<d, n>> \in rows[c] \/ paidBy[<<d, n>>] # {}

Inv ==
  /\ TypeOK /\ IdleIsFresh /\ BeforeReturned /\ RowsAreOpened /\ VisitsOnce
  /\ RecordsOwn /\ OpenedIsRecorded /\ KnowsHired /\ PaysRows /\ PaidIsMarked
  /\ MarkedIsPaid /\ PaysTheRest
  /\ RetryOpensNothing /\ RetryPaysNothing /\ SignOffLeavesNobody

-----------------------------------------------------------------------------
\* Nothing is opened, recorded or paid before the first call.
LEMMA InvInit == Init => Inv
<1> SUFFICES ASSUME Init
             PROVE  Inv
  OBVIOUS
<1> USE DEF Init, Active, Returned
<1>1. TypeOK
  BY DEF TypeOK
<1>2. IdleIsFresh /\ BeforeReturned /\ RowsAreOpened /\ VisitsOnce /\ RecordsOwn
  BY DEF IdleIsFresh, BeforeReturned, RowsAreOpened, VisitsOnce, RecordsOwn
<1>3. OpenedIsRecorded /\ KnowsHired /\ PaysRows /\ PaidIsMarked /\ MarkedIsPaid
  BY DEF OpenedIsRecorded, KnowsHired, PaysRows, PaidIsMarked, MarkedIsPaid
<1>4. PaysTheRest /\ RetryOpensNothing /\ RetryPaysNothing /\ SignOffLeavesNobody
  BY DEF PaysTheRest, RetryOpensNothing, RetryPaysNothing, SignOffLeavesNobody, At
<1> QED
  BY <1>1, <1>2, <1>3, <1>4 DEF Inv

\* Every step of hire_for_job and sign_off, and the death of a call, keeps the
\* invariant.
LEMMA InvStep == Inv /\ [Next]_vars => Inv'
<1> SUFFICES ASSUME Inv, [Next]_vars PROVE Inv'
  OBVIOUS
<1> USE DEF At, Goto, Active, Returned, frame, Inv, TypeOK
<1>Pair. \A c \in Calls, n \in Nodes : <<c, n>> \in Escrows
  BY DEF Escrows
<1>1. ASSUME NEW c \in Calls, StartHiring(c)
      PROVE  Inv'
  <2>1. TypeOK'
    BY <1>Pair, <1>1 DEF StartHiring, Begin, ActiveNodes
  <2>2. IdleIsFresh'
    BY <1>Pair, <1>1 DEF StartHiring, Begin, ActiveNodes, IdleIsFresh
  <2>3. BeforeReturned'
    BY <1>Pair, <1>1 DEF StartHiring, Begin, ActiveNodes, BeforeReturned
  <2>4. VisitsOnce'
    BY <1>Pair, <1>1 DEF StartHiring, Begin, ActiveNodes, VisitsOnce, IdleIsFresh
  <2>5. RecordsOwn'
    BY <1>Pair, <1>1 DEF StartHiring, Begin, ActiveNodes, RecordsOwn
  <2>6. OpenedIsRecorded'
    BY <1>Pair, <1>1 DEF StartHiring, Begin, ActiveNodes, OpenedIsRecorded
  <2>7. KnowsHired'
    BY <1>Pair, <1>1 DEF StartHiring, Begin, ActiveNodes, KnowsHired,
           OpenedIsRecorded, BeforeReturned
  <2>8. PaysRows'
    BY <1>Pair, <1>1 DEF StartHiring, Begin, ActiveNodes, PaysRows
  <2>9. PaidIsMarked'
    BY <1>Pair, <1>1 DEF StartHiring, Begin, ActiveNodes, PaidIsMarked
  <2>10. PaysTheRest'
    BY <1>Pair, <1>1 DEF StartHiring, Begin, ActiveNodes, PaysTheRest
  <2>11. RetryOpensNothing'
    BY <1>Pair, <1>1 DEF StartHiring, Begin, ActiveNodes, RetryOpensNothing, IdleIsFresh
  <2>12. RetryPaysNothing'
    BY <1>Pair, <1>1 DEF StartHiring, Begin, ActiveNodes, RetryPaysNothing, IdleIsFresh
  <2>13. SignOffLeavesNobody'
    BY <1>Pair, <1>1 DEF StartHiring, Begin, ActiveNodes, SignOffLeavesNobody
  <2>14. RowsAreOpened' /\ MarkedIsPaid'
    BY <1>1 DEF StartHiring, RowsAreOpened, MarkedIsPaid
  <2> QED
    BY <2>1, <2>2, <2>3, <2>4, <2>5, <2>6, <2>7, <2>8, <2>9, <2>10, <2>11, <2>12, <2>13, <2>14
<1>2. ASSUME NEW c \in Calls, PassOver(c)
      PROVE  Inv'
  <2>1. TypeOK'
    BY <1>Pair, <1>2 DEF PassOver
  <2>2. VisitsOnce'
    BY <1>Pair, <1>2 DEF PassOver, VisitsOnce
  <2>3. /\ IdleIsFresh' /\ BeforeReturned' /\ RowsAreOpened' /\ RecordsOwn'
        /\ OpenedIsRecorded'
    BY <1>2 DEF PassOver, IdleIsFresh, BeforeReturned, RowsAreOpened, RecordsOwn,
           OpenedIsRecorded
  <2>4. KnowsHired' /\ PaysRows' /\ PaidIsMarked' /\ MarkedIsPaid' /\ PaysTheRest'
    BY <1>2 DEF PassOver, KnowsHired, PaysRows, PaidIsMarked, MarkedIsPaid, PaysTheRest
  <2>5. RetryOpensNothing' /\ RetryPaysNothing' /\ SignOffLeavesNobody'
    BY <1>2 DEF PassOver, RetryOpensNothing, RetryPaysNothing, SignOffLeavesNobody
  <2> QED
    BY <2>1, <2>2, <2>3, <2>4, <2>5
<1>3. ASSUME NEW c \in Calls, ServiceMcp(c)
      PROVE  Inv'
  <2>1. TypeOK'
    BY <1>Pair, <1>3 DEF ServiceMcp
  <2>2. VisitsOnce'
    BY <1>Pair, <1>3 DEF ServiceMcp, VisitsOnce
  <2>3. /\ IdleIsFresh' /\ BeforeReturned' /\ RowsAreOpened' /\ RecordsOwn'
        /\ OpenedIsRecorded'
    BY <1>3 DEF ServiceMcp, IdleIsFresh, BeforeReturned, RowsAreOpened, RecordsOwn,
           OpenedIsRecorded
  <2>4. KnowsHired' /\ PaysRows' /\ PaidIsMarked' /\ MarkedIsPaid' /\ PaysTheRest'
    BY <1>3 DEF ServiceMcp, KnowsHired, PaysRows, PaidIsMarked, MarkedIsPaid,
           PaysTheRest
  <2>5. RetryOpensNothing' /\ RetryPaysNothing' /\ SignOffLeavesNobody'
    BY <1>3 DEF ServiceMcp, RetryOpensNothing, RetryPaysNothing, SignOffLeavesNobody
  <2> QED
    BY <2>1, <2>2, <2>3, <2>4, <2>5
<1>4. ASSUME NEW c \in Calls, OpenEscrow(c)
      PROVE  Inv'
  <2>1. TypeOK'
    BY <1>Pair, <1>4 DEF OpenEscrow
  <2>2. IdleIsFresh'
    BY <1>Pair, <1>4 DEF OpenEscrow, IdleIsFresh
  <2>3. BeforeReturned'
    BY <1>Pair, <1>4 DEF OpenEscrow, BeforeReturned
  <2>4. RowsAreOpened'
    BY <1>Pair, <1>4 DEF OpenEscrow, RowsAreOpened
  <2>5. VisitsOnce'
    BY <1>Pair, <1>4 DEF OpenEscrow, VisitsOnce
  <2>6. RecordsOwn'
    <3>1. PICK n \in todo[c] \ already[c] :
            opened' = opened \cup {<<c, n>>} /\ cur' = [cur EXCEPT ![c] = {<<c, n>>}]
      BY <1>4 DEF OpenEscrow
    <3>2. n \in Nodes /\ hires[<<c, n>>] = "none" /\ UNCHANGED hires
      BY <1>4, <1>Pair DEF OpenEscrow, VisitsOnce, RowsAreOpened
    <3>3. ASSUME NEW d \in Calls, pc'[d] = "record"
          PROVE  \E m \in Nodes :
                   /\ cur'[d] = {<<d, m>>}
                   /\ <<d, m>> \in opened' /\ hires'[<<d, m>>] = "none"
      <4>1. CASE d = c
        BY <3>1, <3>2, <4>1
      <4>2. CASE d # c
        BY <1>4, <3>1, <3>2, <3>3, <4>2 DEF OpenEscrow, RecordsOwn
      <4> QED
        BY <4>1, <4>2
    <3> QED
      BY <3>3 DEF RecordsOwn
  <2>7. OpenedIsRecorded'
    BY <1>Pair, <1>4 DEF OpenEscrow, OpenedIsRecorded
  <2>8. KnowsHired'
    BY <1>Pair, <1>4 DEF OpenEscrow, KnowsHired, BeforeReturned
  <2>9. PaysRows'
    BY <1>Pair, <1>4 DEF OpenEscrow, PaysRows
  <2>10. PaidIsMarked'
    BY <1>Pair, <1>4 DEF OpenEscrow, PaidIsMarked
  <2>11. PaysTheRest'
    BY <1>Pair, <1>4 DEF OpenEscrow, PaysTheRest, BeforeReturned
  <2>12. RetryOpensNothing'
    BY <1>Pair, <1>4 DEF OpenEscrow, RetryOpensNothing, KnowsHired, BeforeReturned
  <2>13. SignOffLeavesNobody'
    <3>1. PICK n \in Nodes : opened' = opened \cup {<<c, n>>}
      BY <1>4 DEF OpenEscrow
    <3>2. \A x \in Calls : c \notin before[x]
      BY <1>4 DEF OpenEscrow, BeforeReturned
    <3>3. /\ UNCHANGED <<before, paidBy>>
          /\ \A x \in Calls : pc'[x] = "settled" => pc[x] = "settled"
      BY <1>4 DEF OpenEscrow
    <3> QED
      BY <3>1, <3>2, <3>3 DEF SignOffLeavesNobody
  <2>14. MarkedIsPaid' /\ RetryPaysNothing'
    BY <1>4 DEF OpenEscrow, MarkedIsPaid, RetryPaysNothing
  <2> QED
    BY <2>1, <2>2, <2>3, <2>4, <2>5, <2>6, <2>7, <2>8, <2>9, <2>10, <2>11, <2>12, <2>13, <2>14
<1>5. ASSUME NEW c \in Calls, CreateHire(c)
      PROVE  Inv'
  <2>1. TypeOK'
    BY <1>Pair, <1>5 DEF CreateHire
  <2>2. IdleIsFresh'
    BY <1>Pair, <1>5 DEF CreateHire, IdleIsFresh
  <2>3. BeforeReturned'
    BY <1>Pair, <1>5 DEF CreateHire, BeforeReturned
  <2>4. RowsAreOpened'
    BY <1>Pair, <1>5, ZenonT(40) DEF CreateHire, RowsAreOpened, RecordsOwn
  <2>5. VisitsOnce'
    BY <1>Pair, <1>5 DEF CreateHire, VisitsOnce
  <2>6. RecordsOwn'
    BY <1>Pair, <1>5 DEF CreateHire, RecordsOwn
  <2>7. OpenedIsRecorded'
    BY <1>Pair, <1>5 DEF CreateHire, OpenedIsRecorded
  <2>8. KnowsHired'
    BY <1>Pair, <1>5 DEF CreateHire, KnowsHired
  <2>9. PaysRows'
    BY <1>Pair, <1>5 DEF CreateHire, PaysRows, RecordsOwn
  <2>10. PaidIsMarked'
    <3>1. PICK n \in Nodes : cur[c] = {<<c, n>>} /\ hires[<<c, n>>] = "none"
      BY <1>5 DEF CreateHire, RecordsOwn
    <3>2. \A e \in Escrows : hires[e] = "released" => hires'[e] = "released"
      BY <1>5, <3>1 DEF CreateHire
    <3>3. /\ UNCHANGED paidBy
          /\ \A x \in Calls : pc[x] \in {"mark", "dead"} => pc'[x] = pc[x] /\ cur'[x] = cur[x]
      BY <1>5 DEF CreateHire
    <3> QED
      BY <3>2, <3>3 DEF PaidIsMarked
  <2>11. MarkedIsPaid'
    BY <1>Pair, <1>5 DEF CreateHire, MarkedIsPaid, RecordsOwn
  <2>12. PaysTheRest'
    BY <1>Pair, <1>5 DEF CreateHire, PaysTheRest
  <2>13. SignOffLeavesNobody'
    BY <1>Pair, <1>5 DEF CreateHire, SignOffLeavesNobody
  <2>14. RetryOpensNothing' /\ RetryPaysNothing'
    BY <1>5 DEF CreateHire, RetryOpensNothing, RetryPaysNothing
  <2> QED
    BY <2>1, <2>2, <2>3, <2>4, <2>5, <2>6, <2>7, <2>8, <2>9, <2>10, <2>11, <2>12, <2>13, <2>14
<1>6. ASSUME NEW c \in Calls, FinishHiring(c)
      PROVE  Inv'
  <2>1. TypeOK'
    BY <1>Pair, <1>6 DEF FinishHiring
  <2>2. IdleIsFresh'
    BY <1>Pair, <1>6 DEF FinishHiring, IdleIsFresh
  <2>3. BeforeReturned'
    BY <1>Pair, <1>6 DEF FinishHiring, BeforeReturned
  <2>4. VisitsOnce'
    BY <1>Pair, <1>6 DEF FinishHiring, VisitsOnce
  <2>5. RecordsOwn'
    BY <1>Pair, <1>6 DEF FinishHiring, RecordsOwn
  <2>6. OpenedIsRecorded'
    BY <1>Pair, <1>6 DEF FinishHiring, OpenedIsRecorded
  <2>7. KnowsHired'
    BY <1>Pair, <1>6 DEF FinishHiring, KnowsHired
  <2>8. PaysRows'
    BY <1>Pair, <1>6 DEF FinishHiring, PaysRows
  <2>9. PaidIsMarked'
    BY <1>Pair, <1>6 DEF FinishHiring, PaidIsMarked
  <2>10. PaysTheRest'
    BY <1>Pair, <1>6 DEF FinishHiring, PaysTheRest
  <2>11. SignOffLeavesNobody'
    BY <1>Pair, <1>6 DEF FinishHiring, SignOffLeavesNobody
  <2>12. RowsAreOpened' /\ MarkedIsPaid' /\ RetryOpensNothing' /\ RetryPaysNothing'
    BY <1>6 DEF FinishHiring, RowsAreOpened, MarkedIsPaid, RetryOpensNothing,
           RetryPaysNothing
  <2> QED
    BY <2>1, <2>2, <2>3, <2>4, <2>5, <2>6, <2>7, <2>8, <2>9, <2>10, <2>11, <2>12
<1>7. ASSUME NEW c \in Calls, StartSignOff(c)
      PROVE  Inv'
  <2>1. TypeOK'
    BY <1>Pair, <1>7 DEF StartSignOff, Begin, HiredRows
  <2>2. IdleIsFresh'
    BY <1>Pair, <1>7 DEF StartSignOff, Begin, HiredRows, IdleIsFresh
  <2>3. BeforeReturned'
    BY <1>Pair, <1>7 DEF StartSignOff, Begin, HiredRows, BeforeReturned
  <2>4. VisitsOnce'
    BY <1>Pair, <1>7 DEF StartSignOff, Begin, HiredRows, VisitsOnce
  <2>5. RecordsOwn'
    BY <1>Pair, <1>7 DEF StartSignOff, Begin, HiredRows, RecordsOwn
  <2>6. OpenedIsRecorded'
    BY <1>Pair, <1>7 DEF StartSignOff, Begin, HiredRows, OpenedIsRecorded
  <2>7. KnowsHired'
    BY <1>Pair, <1>7 DEF StartSignOff, Begin, HiredRows, KnowsHired
  <2>8. PaysRows'
    BY <1>Pair, <1>7 DEF StartSignOff, Begin, HiredRows, PaysRows
  <2>9. PaidIsMarked'
    BY <1>Pair, <1>7 DEF StartSignOff, Begin, HiredRows, PaidIsMarked
  <2>10. PaysTheRest'
    BY <1>Pair, <1>7, SMTT(30) DEF StartSignOff, Begin, HiredRows, PaysTheRest, PaidIsMarked,
           OpenedIsRecorded, MarkedIsPaid
  <2>11. RetryOpensNothing'
    BY <1>Pair, <1>7 DEF StartSignOff, Begin, HiredRows, RetryOpensNothing, IdleIsFresh
  <2>12. RetryPaysNothing'
    BY <1>Pair, <1>7 DEF StartSignOff, Begin, HiredRows, RetryPaysNothing, IdleIsFresh
  <2>13. SignOffLeavesNobody'
    BY <1>Pair, <1>7 DEF StartSignOff, Begin, HiredRows, SignOffLeavesNobody
  <2>14. RowsAreOpened' /\ MarkedIsPaid'
    BY <1>7 DEF StartSignOff, RowsAreOpened, MarkedIsPaid
  <2> QED
    BY <2>1, <2>2, <2>3, <2>4, <2>5, <2>6, <2>7, <2>8, <2>9, <2>10, <2>11, <2>12, <2>13, <2>14
<1>8. ASSUME NEW c \in Calls, Release(c)
      PROVE  Inv'
  <2>1. TypeOK'
    BY <1>Pair, <1>8 DEF Release
  <2>2. IdleIsFresh'
    BY <1>Pair, <1>8 DEF Release, IdleIsFresh
  <2>3. BeforeReturned'
    BY <1>Pair, <1>8 DEF Release, BeforeReturned
  <2>4. VisitsOnce'
    BY <1>Pair, <1>8 DEF Release, VisitsOnce
  <2>5. RecordsOwn'
    BY <1>Pair, <1>8 DEF Release, RecordsOwn
  <2>6. OpenedIsRecorded'
    BY <1>Pair, <1>8 DEF Release, OpenedIsRecorded
  <2>7. KnowsHired'
    BY <1>Pair, <1>8 DEF Release, KnowsHired
  <2>8. PaysRows'
    BY <1>Pair, <1>8 DEF Release, PaysRows
  <2>9. PaidIsMarked'
    BY <1>Pair, <1>8 DEF Release, PaidIsMarked
  <2>10. MarkedIsPaid'
    BY <1>Pair, <1>8 DEF Release, MarkedIsPaid
  <2>11. PaysTheRest'
    <3>1. PICK e \in rows[c] : /\ paidBy' = [paidBy EXCEPT ![e] = @ \cup {c}]
                              /\ rows' = [rows EXCEPT ![c] = @ \ {e}]
      BY <1>8 DEF Release
    <3>2. /\ \A x \in Calls : c \notin before[x]
          /\ \A x \in Calls : pc'[x] \in {"pay", "mark"} => pc[x] \in {"pay", "mark"}
          /\ UNCHANGED <<before, opened>>
      BY <1>8 DEF Release, BeforeReturned
    <3>3. e \in Escrows /\ \A f \in Escrows : paidBy[f] \subseteq paidBy'[f]
      BY <3>1
    <3>4. \A f \in Escrows : paidBy'[f] \subseteq paidBy[f] \cup {c}
      BY <3>1
    <3>5. \A x \in Calls : rows'[x] \subseteq rows[x] /\ rows[x] \subseteq rows'[x] \cup {e}
      BY <3>1
    <3>6. paidBy'[e] # {}
      BY <3>1, <3>3
    <3> QED
      BY <1>Pair, <3>2, <3>3, <3>4, <3>5, <3>6 DEF PaysTheRest
  <2>12. RetryPaysNothing'
    BY <1>Pair, <1>8 DEF Release, RetryPaysNothing, PaysTheRest, BeforeReturned
  <2>13. SignOffLeavesNobody'
    <3>1. \A e \in Escrows : paidBy[e] \subseteq paidBy'[e]
      BY <1>8 DEF Release
    <3>2. /\ \A x \in Calls : pc'[x] = "settled" => pc[x] = "settled"
          /\ UNCHANGED <<before, opened>>
      BY <1>8 DEF Release
    <3> QED
      BY <1>Pair, <3>1, <3>2 DEF SignOffLeavesNobody
  <2>14. RowsAreOpened' /\ RetryOpensNothing'
    BY <1>8 DEF Release, RowsAreOpened, RetryOpensNothing
  <2> QED
    BY <2>1, <2>2, <2>3, <2>4, <2>5, <2>6, <2>7, <2>8, <2>9, <2>10, <2>11, <2>12, <2>13, <2>14
<1>9. ASSUME NEW c \in Calls, MarkReleased(c)
      PROVE  Inv'
  <2>1. TypeOK'
    BY <1>Pair, <1>9 DEF MarkReleased
  <2>2. IdleIsFresh'
    BY <1>Pair, <1>9 DEF MarkReleased, IdleIsFresh
  <2>3. BeforeReturned'
    BY <1>Pair, <1>9 DEF MarkReleased, BeforeReturned
  <2>4. RowsAreOpened'
    BY <1>Pair, <1>9 DEF MarkReleased, RowsAreOpened, PaysRows
  <2>5. VisitsOnce'
    BY <1>Pair, <1>9 DEF MarkReleased, VisitsOnce
  <2>6. RecordsOwn'
    BY <1>Pair, <1>9 DEF MarkReleased, RecordsOwn, PaysRows
  <2>7. OpenedIsRecorded'
    BY <1>Pair, <1>9 DEF MarkReleased, OpenedIsRecorded
  <2>8. KnowsHired'
    BY <1>Pair, <1>9 DEF MarkReleased, KnowsHired
  <2>9. PaysRows'
    BY <1>Pair, <1>9 DEF MarkReleased, PaysRows
  <2>10. PaidIsMarked'
    BY <1>Pair, <1>9 DEF MarkReleased, PaidIsMarked
  <2>11. MarkedIsPaid'
    BY <1>Pair, <1>9 DEF MarkReleased, MarkedIsPaid, PaysRows
  <2>12. PaysTheRest'
    BY <1>Pair, <1>9 DEF MarkReleased, PaysTheRest
  <2>13. SignOffLeavesNobody'
    BY <1>Pair, <1>9 DEF MarkReleased, SignOffLeavesNobody
  <2>14. RetryOpensNothing' /\ RetryPaysNothing'
    BY <1>9 DEF MarkReleased, RetryOpensNothing, RetryPaysNothing
  <2> QED
    BY <2>1, <2>2, <2>3, <2>4, <2>5, <2>6, <2>7, <2>8, <2>9, <2>10, <2>11, <2>12, <2>13, <2>14
<1>10. ASSUME NEW c \in Calls, FinishSignOff(c)
      PROVE  Inv'
  <2>1. TypeOK'
    BY <1>Pair, <1>10 DEF FinishSignOff
  <2>2. IdleIsFresh'
    BY <1>Pair, <1>10 DEF FinishSignOff, IdleIsFresh
  <2>3. BeforeReturned'
    BY <1>Pair, <1>10 DEF FinishSignOff, BeforeReturned
  <2>4. VisitsOnce'
    BY <1>Pair, <1>10 DEF FinishSignOff, VisitsOnce
  <2>5. RecordsOwn'
    BY <1>Pair, <1>10 DEF FinishSignOff, RecordsOwn
  <2>6. OpenedIsRecorded'
    BY <1>Pair, <1>10 DEF FinishSignOff, OpenedIsRecorded
  <2>7. KnowsHired'
    BY <1>Pair, <1>10 DEF FinishSignOff, KnowsHired
  <2>8. PaysRows'
    BY <1>Pair, <1>10 DEF FinishSignOff, PaysRows
  <2>9. PaidIsMarked'
    BY <1>Pair, <1>10 DEF FinishSignOff, PaidIsMarked
  <2>10. PaysTheRest'
    BY <1>Pair, <1>10 DEF FinishSignOff, PaysTheRest
  <2>11. SignOffLeavesNobody'
    BY <1>Pair, <1>10, ZenonT(40) DEF FinishSignOff, SignOffLeavesNobody, PaysTheRest
  <2>12. RowsAreOpened' /\ MarkedIsPaid' /\ RetryOpensNothing' /\ RetryPaysNothing'
    BY <1>10 DEF FinishSignOff, RowsAreOpened, MarkedIsPaid, RetryOpensNothing,
           RetryPaysNothing
  <2> QED
    BY <2>1, <2>2, <2>3, <2>4, <2>5, <2>6, <2>7, <2>8, <2>9, <2>10, <2>11, <2>12
<1>11. ASSUME NEW c \in Calls, Die(c)
      PROVE  Inv'
  <2>1. TypeOK'
    BY <1>Pair, <1>11 DEF Die
  <2>2. IdleIsFresh'
    BY <1>Pair, <1>11 DEF Die, IdleIsFresh
  <2>3. BeforeReturned'
    BY <1>Pair, <1>11 DEF Die, BeforeReturned
  <2>4. VisitsOnce'
    BY <1>Pair, <1>11 DEF Die, VisitsOnce
  <2>5. RecordsOwn'
    BY <1>Pair, <1>11 DEF Die, RecordsOwn
  <2>6. OpenedIsRecorded'
    BY <1>Pair, <1>11 DEF Die, OpenedIsRecorded
  <2>7. KnowsHired'
    BY <1>Pair, <1>11 DEF Die, KnowsHired
  <2>8. PaysRows'
    BY <1>Pair, <1>11 DEF Die, PaysRows
  <2>9. PaidIsMarked'
    BY <1>Pair, <1>11 DEF Die, PaidIsMarked
  <2>10. PaysTheRest'
    BY <1>Pair, <1>11 DEF Die, PaysTheRest
  <2>11. SignOffLeavesNobody'
    BY <1>Pair, <1>11 DEF Die, SignOffLeavesNobody
  <2>12. RowsAreOpened' /\ MarkedIsPaid' /\ RetryOpensNothing' /\ RetryPaysNothing'
    BY <1>11 DEF Die, RowsAreOpened, MarkedIsPaid, RetryOpensNothing, RetryPaysNothing
  <2> QED
    BY <2>1, <2>2, <2>3, <2>4, <2>5, <2>6, <2>7, <2>8, <2>9, <2>10, <2>11, <2>12
<1>12. CASE UNCHANGED vars
  <2>1. TypeOK'
    BY <1>12 DEF vars

  <2>2. IdleIsFresh' /\ BeforeReturned' /\ RowsAreOpened' /\ VisitsOnce' /\ RecordsOwn'
    BY <1>12 DEF vars, IdleIsFresh, BeforeReturned, RowsAreOpened, VisitsOnce,
           RecordsOwn
  <2>3. OpenedIsRecorded' /\ KnowsHired' /\ PaysRows' /\ PaidIsMarked' /\ MarkedIsPaid'
    BY <1>12 DEF vars, OpenedIsRecorded, KnowsHired, PaysRows, PaidIsMarked,
           MarkedIsPaid
  <2>4. PaysTheRest' /\ RetryOpensNothing' /\ RetryPaysNothing' /\ SignOffLeavesNobody'
    BY <1>12 DEF vars, PaysTheRest, RetryOpensNothing, RetryPaysNothing,
           SignOffLeavesNobody
  <2> QED
    BY <2>1, <2>2, <2>3, <2>4
<1> QED
  BY <1>1, <1>2, <1>3, <1>4, <1>5, <1>6, <1>7, <1>8, <1>9, <1>10, <1>11, <1>12 DEF
         Next, HireForJob, SignOff

\* The ledgers of the provider and the store, and the calls' frames, keep their types.
THEOREM HiringTypeCorrect == Spec => []TypeOK
<1>1. Inv => TypeOK
  BY DEF Inv
<1> QED
  BY <1>1, InvInit, InvStep, PTL DEF Spec

\* hire_for_job is idempotent against the calls that returned before it, however
\* many calls, nodes and crashes there are: no second escrow for a node.
THEOREM RetryOpensNothingCorrect == Spec => []RetryOpensNothing
<1>1. Inv => RetryOpensNothing
  BY DEF Inv
<1> QED
  BY <1>1, InvInit, InvStep, PTL DEF Spec

\* sign_off is idempotent against the calls that returned before it: the status it
\* wrote after every release keeps a later call from releasing again.
THEOREM RetryPaysNothingCorrect == Spec => []RetryPaysNothing
<1>1. Inv => RetryPaysNothing
  BY DEF Inv
<1> QED
  BY <1>1, InvInit, InvStep, PTL DEF Spec

\* A sign_off that returned has paid all that the calls before it had hired, even if
\* other sign-offs ran beside it or died half way.
THEOREM SignOffLeavesNobodyCorrect == Spec => []SignOffLeavesNobody
<1>1. Inv => SignOffLeavesNobody
  BY DEF Inv
<1> QED
  BY <1>1, InvInit, InvStep, PTL DEF Spec
=============================================================================
