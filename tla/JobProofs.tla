------------------------------ MODULE JobProofs ------------------------------
(***************************************************************************)
(* Theorems of module Job, for every plan, market, agent and price: what   *)
(* the audit chain promises whoever uses it, that a job uses it that way,  *)
(* that no escrow is opened unsafely, what the log tells of the money and  *)
(* what a failure leaves untold, that a saved graph has no cycle, what a   *)
(* direct answer stands for, and what the headline of a run is made of.    *)
(***************************************************************************)
EXTENDS Job, SequenceTheorems, FiniteSetTheorems, WellFoundedInduction, TLAPS

-----------------------------------------------------------------------------
(* The audit chain.                                                        *)

\* The log is a sequence, whatever its rows are.
LogIsSeq == \E S : log \in Seq(S)

\* The write lock is held by one writer at most.
OneWriter == \A v, w \in lock : v = w

\* What the reader has read is the beginning of the log.
SeenIsPrefix ==
  /\ \E S : seen \in Seq(S)
  /\ Len(seen) <= Len(log)
  /\ \A i \in 1..Len(seen) : seen[i] = log[i]

ChainInv ==
  /\ LogIsSeq
  /\ OneWriter
  /\ tail = [w \in Writers |-> tail[w]]
  /\ report = "rows" => SeenIsPrefix
  /\ ChainVerifies

\* What Append does to the length and the elements of a sequence of anything.
LEMMA AppendToLog ==
  ASSUME NEW s, \E S : s \in Seq(S), NEW e
  PROVE  /\ \E S : Append(s, e) \in Seq(S)
         /\ Len(s) \in Nat /\ Len(Append(s, e)) = Len(s) + 1
         /\ \A i \in 1..Len(s) : Append(s, e)[i] = s[i]
         /\ Append(s, e)[Len(s) + 1] = e
<1>1. PICK S : s \in Seq(S)
  OBVIOUS
<1>2. s \in Seq(S \cup {e})
  BY <1>1
<1>3. Append(s, e) \in Seq(S \cup {e})
  BY <1>2, AppendProperties
<1> QED
  BY <1>2, <1>3, AppendProperties

\* The chain agrees with its seal before anything is appended.
LEMMA ChainInitInv == ChainInit => ChainInv
<1> SUFFICES ASSUME ChainInit PROVE ChainInv
  OBVIOUS
<1> USE DEF ChainInit
<1>1. LogIsSeq /\ Len(log) = 0
  <2>1. log \in Seq({})
    BY EmptySeq
  <2> QED
    BY <2>1, EmptySeq DEF LogIsSeq
<1>2. ChainVerifies
  BY <1>1 DEF ChainVerifies, Verdict, HashAt
<1> QED
  BY <1>1, <1>2 DEF ChainInv, OneWriter

\* An appended row continues the chain, and the seal is of the new end.
LEMMA AppendVerifies ==
  ASSUME ChainInv, NEW w \in Writers, NEW e, CommitAppend(w, e)
  PROVE  ChainInv'
<1> DEFINE row == Row(w, e)
<1>1. /\ w \in lock /\ lock' = lock \ {w}
      /\ log' = Append(log, row) /\ head' = Seal(row)
      /\ tail' = tail /\ report' = report /\ seen' = seen
  BY DEF CommitAppend
<1>2. lock' = {}
  BY <1>1 DEF ChainInv, OneWriter
<1>3. /\ LogIsSeq' /\ Len(log) \in Nat /\ Len(log') = Len(log) + 1
      /\ \A i \in 1..Len(log) : log'[i] = log[i]
      /\ log'[Len(log) + 1] = row
  <2>1. \E S : log \in Seq(S)
    BY DEF ChainInv, LogIsSeq
  <2> HIDE DEF row
  <2>2. /\ \E S : Append(log, row) \in Seq(S)
        /\ Len(log) \in Nat /\ Len(Append(log, row)) = Len(log) + 1
        /\ \A i \in 1..Len(log) : Append(log, row)[i] = log[i]
        /\ Append(log, row)[Len(log) + 1] = row
    BY <2>1, AppendToLog
  <2> QED
    BY <1>1, <2>2, Zenon DEF LogIsSeq
<1>4. row.seq = Len(log) /\ row.prev = HashAt(log, Len(log))
  <2>1. tail[w] = [seq |-> Len(log), prev |-> HashAt(log, Len(log))]
    BY <1>1 DEF ChainInv, ChainVerifies
  <2>2. row.seq = tail[w].seq /\ row.prev = tail[w].prev
    BY DEF Row
  <2> HIDE DEF row
  <2> QED
    BY <2>1, <2>2
<1>5. \A i \in 0..Len(log) : HashAt(log', i) = HashAt(log, i)
  BY <1>3 DEF HashAt
<1>6. \A i \in 1..Len(log') : log'[i].seq = i - 1 /\ log'[i].prev = HashAt(log', i - 1)
  <2> SUFFICES ASSUME NEW i \in 1..Len(log')
               PROVE  log'[i].seq = i - 1 /\ log'[i].prev = HashAt(log', i - 1)
    OBVIOUS
  <2>1. CASE i \in 1..Len(log)
    <3>1. log[i].seq = i - 1 /\ log[i].prev = HashAt(log, i - 1)
      BY <2>1 DEF ChainInv, ChainVerifies, Verdict
    <3> QED
      BY <2>1, <3>1, <1>3, <1>5
  <2>2. CASE i = Len(log) + 1
    BY <2>2, <1>3, <1>4, <1>5
  <2> QED
    BY <2>1, <2>2, <1>3
<1>7. head'.length = Len(log') /\ head'.hash = HashAt(log', Len(log'))
  BY <1>1, <1>3, <1>4 DEF Seal, HashAt
<1>8. ChainVerifies'
  BY <1>2, <1>6, <1>7 DEF ChainVerifies, Verdict
<1>9. (report = "rows" => SeenIsPrefix)'
  BY <1>1, <1>3, LenProperties DEF ChainInv, SeenIsPrefix
<1> QED
  BY <1>1, <1>2, <1>3, <1>8, <1>9 DEF ChainInv, OneWriter

\* A step of any writer, whatever it has to say, or of the reader.
ChainStep ==
  \/ \E w \in Writers : BeginAppend(w) \/ Rollback(w) \/ \E e : CommitAppend(w, e)
  \/ VerifyRows \/ VerifyHead

\* No such step breaks the chain.
LEMMA ChainStepInv == ChainInv /\ [ChainStep]_chainVars => ChainInv'
<1> SUFFICES ASSUME ChainInv, [ChainStep]_chainVars PROVE ChainInv'
  OBVIOUS
<1>1. ASSUME NEW w \in Writers, BeginAppend(w) PROVE ChainInv'
  <2>1. /\ lock = {} /\ lock' = {w}
        /\ tail' = [tail EXCEPT ![w] = [seq |-> Len(log), prev |-> HashAt(log, Len(log))]]
        /\ log' = log /\ head' = head /\ report' = report /\ seen' = seen
    BY <1>1 DEF BeginAppend
  <2>2. tail'[w] = [seq |-> Len(log), prev |-> HashAt(log, Len(log))]
    BY <2>1 DEF ChainInv
  <2>3. HashAt(log, Len(log))' = HashAt(log, Len(log))
    BY <2>1 DEF HashAt
  <2>4. ChainVerifies'
    BY <2>1, <2>2, <2>3 DEF ChainInv, ChainVerifies, Verdict, HashAt
  <2> QED
    BY <2>1, <2>4 DEF ChainInv, LogIsSeq, OneWriter, SeenIsPrefix
<1>2. ASSUME NEW w \in Writers, Rollback(w) PROVE ChainInv'
  BY <1>2 DEF Rollback, ChainInv, ChainVerifies, Verdict, HashAt, LogIsSeq, OneWriter,
              SeenIsPrefix
<1>3. ASSUME NEW w \in Writers, NEW e, CommitAppend(w, e) PROVE ChainInv'
  BY <1>3, AppendVerifies
<1>4. CASE VerifyRows
  <2>1. Len(log) \in Nat
    BY LenProperties DEF ChainInv, LogIsSeq
  <2>2. SeenIsPrefix'
    BY <1>4, <2>1 DEF VerifyRows, ChainInv, LogIsSeq, SeenIsPrefix
  <2> QED
    BY <1>4, <2>2 DEF VerifyRows, ChainInv, ChainVerifies, Verdict, HashAt, LogIsSeq, OneWriter
<1>5. CASE VerifyHead
  BY <1>5 DEF VerifyHead, ChainInv, ChainVerifies, Verdict, HashAt, LogIsSeq, OneWriter
<1>6. CASE UNCHANGED chainVars
  BY <1>6 DEF chainVars, ChainInv, ChainVerifies, Verdict, HashAt, LogIsSeq, OneWriter,
              SeenIsPrefix
<1> QED
  BY <1>1, <1>2, <1>3, <1>4, <1>5, <1>6 DEF ChainStep

\* The alarm is raised only if the log has outgrown what was read of it: with no entry
\* in between, what was read is the log, and the log agrees with its seal.
LEMMA AlarmMeansAppend ==
  ASSUME ChainInv, Alarm
  PROVE  Len(seen) < Len(log)
<1>1. SeenIsPrefix /\ ~Verdict(seen, head)
  BY DEF Alarm, VerifyHead, ChainInv
<1>2. Len(seen) \in Nat /\ Len(log) \in Nat
  BY <1>1, LenProperties DEF ChainInv, LogIsSeq, SeenIsPrefix
<1>3. CASE Len(seen) = Len(log)
  <2>1. \A i \in 0..Len(seen) : HashAt(seen, i) = HashAt(log, i)
    BY <1>1, <1>2 DEF HashAt, SeenIsPrefix
  <2>2. Verdict(log, head)
    BY DEF ChainInv, ChainVerifies
  <2>3. Verdict(seen, head)
    BY <2>1, <2>2, <1>1, <1>2, <1>3 DEF Verdict, SeenIsPrefix
  <2> QED
    BY <2>3, <1>1
<1> QED
  BY <1>1, <1>2, <1>3 DEF SeenIsPrefix

\* store.py, append_audit: whoever appends to a job's log, and whatever dies inside its
\* transaction, the chain agrees with its seal.
THEOREM ChainVerifiesForAnyWriter == ChainSpec => []ChainVerifies
<1>1. [ChainNext]_chainVars => [ChainStep]_chainVars
  BY DEF ChainNext, ChainStep
<1>2. ChainInv => ChainVerifies
  BY DEF ChainInv
<1> QED
  BY <1>1, <1>2, ChainInitInv, ChainStepInv, PTL DEF ChainSpec

\* A job touches its chain only by the steps of the chain.
LEMMA JobStepsTheChain == [Next]_vars => [ChainStep]_chainVars
<1> SUFFICES ASSUME [Next]_vars PROVE [ChainStep]_chainVars
  OBVIOUS
<1>1. CASE UNCHANGED vars
  BY <1>1 DEF vars, chainVars
<1>2. CASE Submit \/ Enqueue \/ View \/ Decide \/ RunRoom \/ Report
  BY <1>2 DEF Submit, Enqueue, View, Decide, RunRoom, Report
<1>3. CASE UserDistills \/ UserHires \/ UserSigns \/ HouseActs
  BY <1>3 DEF UserDistills, UserHires, UserSigns, HouseActs
<1>4. CASE Audits
  BY <1>4 DEF Audits, ChainStep
<1>5. ASSUME NEW p \in Writers, Lock(p) \/ Say(p) \/ Fail(p) PROVE [ChainStep]_chainVars
  <2>1. \/ BeginAppend(p) \/ CommitAppend(p, Head(proc[p].due))
        \/ Rollback(p) \/ UNCHANGED chainVars
    BY <1>5 DEF Lock, Say, Fail
  <2> QED
    BY <2>1 DEF ChainStep
<1>6. ASSUME NEW p, Process(p) PROVE UNCHANGED chainVars
  BY <1>6 DEF Process, Verify, Plan, Classify
<1>7. ASSUME NEW p, Foreman(p) PROVE UNCHANGED chainVars
  BY <1>7 DEF Foreman, ReadJob, Skip, Escalate, Hire, CallDirect, HireUnder, Call, Serviced,
              GiveUp, EndLoop
<1>8. ASSUME NEW p, Release(p) \/ SignedOff(p) PROVE UNCHANGED chainVars
  BY <1>8 DEF Release, SignedOff
<1> QED
  BY <1>1, <1>2, <1>3, <1>4, <1>5, <1>6, <1>7, <1>8 DEF Next

LEMMA JobChainInv == Spec => []ChainInv
<1>1. Init => ChainInit
  BY DEF Init
<1> QED
  BY <1>1, ChainInitInv, ChainStepInv, JobStepsTheChain, PTL DEF Spec

\* The log of a job whose run, worker and user append at once verifies at every moment.
THEOREM ChainVerifiesCorrect == Spec => []ChainVerifies
<1>1. ChainInv => ChainVerifies
  BY DEF ChainInv
<1> QED
  BY <1>1, JobChainInv, PTL

\* store.py, verify_audit: an untouched log raises the alarm of a tampered one only if an
\* entry was appended between the two reads.
THEOREM AlarmNeedsAppendCorrect == Spec => AlarmNeedsAppend
<1>1. ChainInv /\ [ChainStep]_chainVars =>
        [Alarm => Len(seen) < Len(log)]_chainVars
  BY AlarmMeansAppend
<1> QED
  BY <1>1, JobChainInv, JobStepsTheChain, PTL DEF Spec, AlarmNeedsAppend

\* A row of the table, whatever its number, its previous hash and its entry are.
IsRow(row) == row = [seq |-> row.seq, prev |-> row.prev, entry |-> row.entry]
AreRows(rows) == \A i \in 1..Len(rows) : IsRow(rows[i])

\* store.py:479-483, "Recompute the hash chain AND check it against the sealed head, so
\* modification, reordering, middle-deletion, and tail-truncation are all detected": of
\* all the tables one could put in the log's place, the seal accepts the log alone.
OnlyTheLogVerifies ==
  \A S : \A rows \in Seq(S) : AreRows(rows) /\ Verdict(rows, head) => rows = log

\* A hash is of one row, a row of one hash.
LEMMA HashIsInjective ==
  ASSUME NEW r, NEW s, IsRow(r), IsRow(s), Hash(r) = Hash(s)
  PROVE  r = s
<1>1. r.prev = s.prev /\ r.seq = s.seq /\ r.entry = s.entry
  BY DEF Hash
<1> HIDE DEF Hash
<1> QED
  BY <1>1, Zenon DEF IsRow

\* Of the places where two tables differ, one is the last.
LEMMA LastPlace ==
  ASSUME NEW n \in Nat, NEW P \in SUBSET (1..n), P # {}
  PROVE  \E i \in P : \A j \in i + 1 .. n : j \notin P
<1> DEFINE less == OpToRel(<, Nat)
           D == {k \in Nat : n - k \in P}
<1>1. \A x, y \in Nat : x < y => <<x, y>> \in less
  BY SMT DEF OpToRel
<1>2. IsWellFoundedOn(less, Nat)
  BY Zenon, NatLessThanWellFounded
<1>3. D # {}
  <2>1. PICK i \in P : TRUE
    OBVIOUS
  <2>2. n - i \in Nat /\ n - (n - i) = i
    BY <2>1
  <2>3. n - i \in D
    BY <2>2
  <2> QED
    BY <2>3
<1>4. D \subseteq Nat
  OBVIOUS
<1>5. \A k : k \in D <=> k \in Nat /\ n - k \in P
  OBVIOUS
<1> HIDE DEF less, D
<1>6. PICK k \in D : \A y \in D : ~(<<y, k>> \in less)
  BY <1>2, <1>3, <1>4, WFMin
<1>7. \A y \in D : ~(y < k)
  BY <1>1, <1>4, <1>6
<1>8. k \in Nat /\ n - k \in P
  BY <1>5
<1>9. \A j \in (n - k) + 1 .. n : j \notin P
  <2> SUFFICES ASSUME NEW j \in (n - k) + 1 .. n, j \in P PROVE FALSE
    OBVIOUS
  <2>1. n - j \in Nat /\ n - (n - j) = j /\ n - j < k
    BY <1>8
  <2>2. n - j \in D
    BY <1>5, <2>1
  <2> QED
    BY <1>7, <2>1, <2>2
<1> QED
  BY <1>8, <1>9

\* Two tables of the same length and the same last hash, both chained, are one: where they
\* differed last, the hash that the next row or the seal holds would differ too.
LEMMA ChainedTablesAgree ==
  ASSUME NEW r, NEW s, NEW n \in Nat,
         \A i \in 1..n : IsRow(r[i]) /\ IsRow(s[i]),
         \A i \in 1..n : r[i].prev = HashAt(r, i - 1) /\ s[i].prev = HashAt(s, i - 1),
         HashAt(r, n) = HashAt(s, n)
  PROVE  \A i \in 1..n : r[i] = s[i]
<1> DEFINE Differ == {i \in 1..n : r[i] # s[i]}
<1> SUFFICES ASSUME Differ # {} PROVE FALSE
  OBVIOUS
<1>0. Differ \in SUBSET (1..n) /\ \A i \in 1..n : i \in Differ <=> r[i] # s[i]
  OBVIOUS
<1> HIDE DEF Differ
<1>1. PICK i \in Differ : \A j \in i + 1 .. n : j \notin Differ
  BY <1>0, LastPlace
<1>d. i \in 1..n /\ r[i] # s[i] /\ \A j \in i + 1 .. n : j \in 1..n => r[j] = s[j]
  BY <1>0, <1>1
<1>2. HashAt(r, i) = HashAt(s, i)
  <2>1. CASE i = n
    BY <2>1
  <2>2. CASE i # n
    <3>1. i + 1 \in 1..n /\ i + 1 \in i + 1 .. n /\ (i + 1) - 1 = i
      BY <1>d, <2>2
    <3>2. r[i + 1] = s[i + 1]
      BY <1>d, <3>1
    <3>3. r[i + 1].prev = HashAt(r, i) /\ s[i + 1].prev = HashAt(s, i)
      BY <3>1
    <3> QED
      BY <3>2, <3>3
  <2> QED
    BY <2>1, <2>2
<1>3. Hash(r[i]) = Hash(s[i])
  BY <1>d, <1>2 DEF HashAt
<1> QED
  BY <1>d, <1>3, HashIsInjective

\* The log itself is such a table: it begins empty, and a row is appended to it.
LEMMA EmptyLogHasRows == ChainInit => AreRows(log)
BY EmptySeq DEF ChainInit, AreRows

LEMMA LogHasRows == ChainInv /\ AreRows(log) /\ [ChainStep]_chainVars => AreRows(log)'
<1> SUFFICES ASSUME ChainInv, AreRows(log), [ChainStep]_chainVars PROVE AreRows(log')
  BY DEF AreRows
<1>1. CASE \E w \in Writers : \E e : CommitAppend(w, e)
  <2>1. PICK w \in Writers : \E e : CommitAppend(w, e)
    BY <1>1
  <2>2. PICK e : CommitAppend(w, e)
    BY <2>1
  <2> DEFINE row == Row(w, e)
  <2>3. log' = Append(log, row)
    BY <2>2 DEF CommitAppend
  <2>4. IsRow(row)
    BY DEF Row, IsRow
  <2> HIDE DEF row
  <2>5. /\ Len(log) \in Nat /\ Len(Append(log, row)) = Len(log) + 1
        /\ \A i \in 1..Len(log) : Append(log, row)[i] = log[i]
        /\ Append(log, row)[Len(log) + 1] = row
    BY AppendToLog DEF ChainInv, LogIsSeq
  <2>6. ASSUME NEW i \in 1..(Len(log) + 1) PROVE IsRow(log'[i])
    BY <2>3, <2>4, <2>5, <2>6 DEF AreRows
  <2> QED
    BY <2>3, <2>5, <2>6 DEF AreRows
<1>2. CASE ~ \E w \in Writers : \E e : CommitAppend(w, e)
  <2>1. log' = log
    BY <1>2 DEF ChainStep, BeginAppend, Rollback, VerifyRows, VerifyHead, chainVars
  <2> QED
    BY <2>1
<1> QED
  BY <1>1, <1>2

LEMMA SealAcceptsOnlyTheLog == ChainInv /\ AreRows(log) => OnlyTheLogVerifies
<1> SUFFICES ASSUME ChainInv, AreRows(log),
                    NEW S, NEW rows \in Seq(S), AreRows(rows), Verdict(rows, head)
             PROVE  rows = log
  BY DEF OnlyTheLogVerifies
<1>1. PICK T : log \in Seq(T)
  BY DEF ChainInv, LogIsSeq
<1>2. Verdict(log, head)
  BY DEF ChainInv, ChainVerifies
<1>3. Len(rows) \in Nat /\ Len(log) = Len(rows) /\ HashAt(rows, Len(rows)) = HashAt(log, Len(rows))
  BY <1>1, <1>2, LenProperties DEF Verdict
<1>4. \A i \in 1..Len(rows) : rows[i] = log[i]
  <2> DEFINE n == Len(rows)
  <2>1. \A i \in 1..n : IsRow(rows[i]) /\ IsRow(log[i])
    BY <1>3 DEF AreRows
  <2>2. \A i \in 1..n : rows[i].prev = HashAt(rows, i - 1) /\ log[i].prev = HashAt(log, i - 1)
    BY <1>2, <1>3 DEF Verdict
  <2>3. n \in Nat /\ HashAt(rows, n) = HashAt(log, n)
    BY <1>3
  <2> HIDE DEF n
  <2>4. \A i \in 1..n : rows[i] = log[i]
    BY <2>1, <2>2, <2>3, ChainedTablesAgree
  <2> QED
    BY <2>4 DEF n
<1>5. rows \in Seq(S \cup T) /\ log \in Seq(S \cup T)
  BY <1>1
<1> QED
  BY <1>3, <1>4, <1>5, SeqEqual

\* store.py, verify_audit: whoever has appended, and whatever has been rolled back, no
\* table but the log itself verifies against the sealed head.
THEOREM OnlyTheLogVerifiesForAnyWriter == ChainSpec => []OnlyTheLogVerifies
<1>1. ChainInit => AreRows(log)
  BY EmptyLogHasRows
<1>2. [ChainNext]_chainVars => [ChainStep]_chainVars
  BY DEF ChainNext, ChainStep
<1> QED
  BY <1>1, <1>2, ChainInitInv, ChainStepInv, LogHasRows, SealAcceptsOnlyTheLog, PTL
     DEF ChainSpec

\* service.py, conductor.py, hiring.py: so it is of the log of a job, at every step of its
\* run, its worker, its sign-off and its report.
THEOREM OnlyTheLogVerifiesCorrect == Spec => []OnlyTheLogVerifies
<1>1. Init => AreRows(log)
  BY EmptyLogHasRows DEF Init
<1> QED
  BY <1>1, JobChainInv, JobStepsTheChain, LogHasRows, SealAcceptsOnlyTheLog, PTL DEF Spec

-----------------------------------------------------------------------------
(* Who is hired.                                                           *)

\* An agent the Vetter does not rule out.
Sound(a) == a \in Agents /\ Profiles[a].risky = 0 /\ Profiles[a].dispute <= 20

SafeRow(h) ==
  /\ {"agent", "via", "status"} \subseteq DOMAIN h
  /\ Sound(h.agent)
  /\ h.via = "foreman" => Profiles[h.agent].price <= Ceiling

\* A process is a record, and waits for TheHouse only over an agent that was approved.
ProcInv ==
  /\ proc = [p \in Writers |-> proc[p]]
  /\ \A p \in Writers :
       /\ {"pc", "agent"} \subseteq DOMAIN proc[p]
       /\ proc[p].pc = "await" => proc[p].agent \in Agents /\ Approved(proc[p].agent)

HiresInv ==
  /\ \E S : hires \in Seq(S)
  /\ \A i \in DOMAIN hires : SafeRow(hires[i])

\* vetter.py: whoever is not of low trust has no risky contract and few disputes.
LEMMA HireableIsSound ==
  ASSUME NEW a \in Agents, ~Excluded(Profiles[a])
  PROVE  Sound(a)
<1>1. Profiles[a].risky \in Nat /\ Profiles[a].dispute \in Nat
  BY ProfilesAssumption
<1>2. ~(Profiles[a].risky > 0 \/ Score(Profiles[a]) < 45 \/ Profiles[a].dispute > 20)
  BY DEF Excluded, Trust
<1> QED
  BY <1>1, <1>2 DEF Sound

\* permissions.py: whatever is approved costs no more than the owner's ceiling.
LEMMA ApprovedIsSafe ==
  ASSUME NEW a \in Agents, Approved(a)
  PROVE  Sound(a) /\ Profiles[a].price <= Ceiling
<1>1. Sound(a)
  BY HireableIsSound DEF Approved
<1>2. Profiles[a].price <= Ceiling
  BY DEF Approved, WillExecute, TierFor
<1> QED
  BY <1>1, <1>2

\* The row of a sound agent, by whatever path, is a safe one.
LEMMA CreateHireInv ==
  ASSUME HiresInv, NEW key, NEW cap, NEW a, NEW via, Sound(a),
         via = "foreman" => Profiles[a].price <= Ceiling,
         CreateHire(key, cap, a, via)
  PROVE  HiresInv'
<1> DEFINE row == [key |-> key, cap |-> cap, agent |-> a, via |-> via, status |-> "hired"]
<1>1. SafeRow(row)
  BY DEF SafeRow
<1>2. hires' = Append(hires, row) /\ \E S : hires \in Seq(S)
  BY DEF CreateHire, HiresInv
<1> HIDE DEF row
<1>3. /\ \E S : Append(hires, row) \in Seq(S)
      /\ Len(hires) \in Nat /\ Len(Append(hires, row)) = Len(hires) + 1
      /\ \A i \in 1..Len(hires) : Append(hires, row)[i] = hires[i]
      /\ Append(hires, row)[Len(hires) + 1] = row
  BY <1>2, AppendToLog
<1>4. DOMAIN hires = 1..Len(hires) /\ DOMAIN hires' = 1..(Len(hires) + 1)
  BY <1>2, <1>3, LenProperties
<1>5. ASSUME NEW i \in DOMAIN hires' PROVE SafeRow(hires'[i])
  <2>1. CASE i \in DOMAIN hires
    BY <2>1, <1>2, <1>3, <1>4 DEF HiresInv
  <2>2. CASE i = Len(hires) + 1
    BY <2>2, <1>1, <1>2, <1>3
  <2> QED
    BY <2>1, <2>2, <1>3, <1>4, <1>5
<1> QED
  BY <1>2, <1>3, <1>5, Zenon DEF HiresInv, SafeRow, Sound

\* A release changes nobody's row but its status.
LEMMA SetReleasedInv ==
  ASSUME HiresInv, NEW k, SetReleased(k)
  PROVE  HiresInv'
<1>1. PICK S : hires \in Seq(S)
  BY DEF HiresInv
<1>2. hires' = [hires EXCEPT ![k].status = "released"]
  BY DEF SetReleased
<1>3. DOMAIN hires' = DOMAIN hires
  BY <1>2
<1>4. \E T : hires' \in Seq(T)
  <2>1. CASE k \in DOMAIN hires
    <3> DEFINE row == [hires[k] EXCEPT !.status = "released"]
    <3>1. hires \in Seq(S \cup {row}) /\ k \in 1..Len(hires)
      BY <1>1, <2>1, LenProperties
    <3>2. hires' = [hires EXCEPT ![k] = row]
      BY <1>2
    <3> HIDE DEF row
    <3>3. hires' \in Seq(S \cup {row})
      BY <3>1, <3>2, ExceptSeq
    <3> QED
      BY <3>3
  <2>2. CASE k \notin DOMAIN hires
    <3>1. hires' = hires
      BY <1>1, <1>2, <2>2
    <3> QED
      BY <3>1, <1>1
  <2> QED
    BY <2>1, <2>2
<1>5. ASSUME NEW i \in DOMAIN hires PROVE SafeRow(hires'[i])
  <2>1. SafeRow(hires[i])
    BY DEF HiresInv
  <2>2. hires'[i] = IF i = k THEN [hires[i] EXCEPT !.status = "released"] ELSE hires[i]
    BY <1>2
  <2> QED
    BY <2>1, <2>2 DEF SafeRow
<1> QED
  BY <1>3, <1>4, <1>5 DEF HiresInv, SafeRow, Sound

\* A process that becomes another record of that kind.
LEMMA BecomeInv ==
  ASSUME ProcInv, NEW p \in Writers, NEW me, Become(p, me),
         {"pc", "agent"} \subseteq DOMAIN me,
         me.pc = "await" => me.agent \in Agents /\ Approved(me.agent)
  PROVE  ProcInv'
<1>1. proc' = [q \in Writers |-> IF q = p THEN me ELSE proc[q]]
  BY DEF Become, ProcInv
<1>2. \A a : Approved(a)' <=> Approved(a)
  BY DEF Approved
<1> HIDE DEF Approved
<1>3. ASSUME NEW q \in Writers
      PROVE  /\ {"pc", "agent"} \subseteq DOMAIN proc'[q]
             /\ proc'[q].pc = "await" => proc'[q].agent \in Agents /\ Approved(proc'[q].agent)
  BY <1>1 DEF ProcInv
<1> QED
  BY <1>1, <1>3 DEF ProcInv, Approved

\* A process that goes anywhere but to wait for TheHouse.
LEMMA MovesOn ==
  ASSUME ProcInv, NEW p \in Writers, NEW me, Become(p, me),
         DOMAIN me = DOMAIN proc[p], me.pc # "await"
  PROVE  ProcInv'
<1>1. {"pc", "agent"} \subseteq DOMAIN me
  BY DEF ProcInv
<1> QED
  BY <1>1, BecomeInv

\* The next node, with whatever was decided of this one.
LEMMA DoneInv ==
  ASSUME ProcInv, NEW p \in Writers, NEW decision, NEW amount, NEW due,
         Done(p, decision, amount, due)
  PROVE  ProcInv'
<1> DEFINE out == [key |-> Node(p).key, decision |-> decision, amount |-> amount]
           me == [proc[p] EXCEPT !.pc = "node", !.todo = Tail(@), !.agent = None, !.due = due,
                                 !.outs = Append(@, out)]
<1>1. Become(p, me)
  BY DEF Done
<1>2. DOMAIN me = DOMAIN proc[p] /\ me.pc # "await"
  BY DEF ProcInv
<1> HIDE DEF me
<1> QED
  BY <1>1, <1>2, MovesOn

LEMMA GotoInv ==
  ASSUME ProcInv, NEW p \in Writers, NEW pc, pc # "await", Goto(p, pc)
  PROVE  ProcInv'
<1> DEFINE me == [proc[p] EXCEPT !.pc = pc]
<1>1. DOMAIN me = DOMAIN proc[p] /\ me.pc # "await"
  BY DEF ProcInv
<1>2. Become(p, me)
  BY DEF Goto
<1> HIDE DEF me
<1> QED
  BY <1>1, <1>2, MovesOn

\* A process that ends, and keeps nothing but what it has to say.
LEMMA AnewInv ==
  ASSUME ProcInv, NEW p \in Writers, NEW pc, pc # "await", NEW due,
         Become(p, [Fresh(pc) EXCEPT !.due = due])
  PROVE  ProcInv'
<1> DEFINE me == [Fresh(pc) EXCEPT !.due = due]
<1>1. {"pc", "agent"} \subseteq DOMAIN me /\ me.pc # "await"
  BY DEF Fresh
<1>2. Become(p, me)
  OBVIOUS
<1> HIDE DEF me
<1> QED
  BY <1>1, <1>2, BecomeInv

\* An escrow of the Foreman, for an agent it approved.
LEMMA OpenEscrowInv ==
  ASSUME ProcInv, HiresInv, NEW p \in Writers, NEW a \in Agents, Approved(a), OpenEscrow(p, a)
  PROVE  ProcInv' /\ HiresInv'
<1>1. /\ CreateHire(Node(p).key, Node(p).cap, a, "foreman")
      /\ Done(p, "hired", Profiles[a].price, Entry("hire", Node(p).key))
  BY DEF OpenEscrow
<1>2. ProcInv'
  BY <1>1, DoneInv
<1>3. HiresInv'
  BY <1>1, ApprovedIsSafe, CreateHireInv
<1> QED
  BY <1>2, <1>3

LEMMA HireInit == Init => ProcInv /\ HiresInv
<1> SUFFICES ASSUME Init PROVE ProcInv /\ HiresInv
  OBVIOUS
<1>1. hires \in Seq({}) /\ Len(hires) = 0
  BY EmptySeq DEF Init
<1>2. HiresInv
  BY <1>1, LenProperties DEF HiresInv
<1>3. ProcInv
  BY DEF Init, Fresh, ProcInv
<1> QED
  BY <1>2, <1>3

\* The steps of the Foreman, hires and calls among them.
LEMMA ForemanInv ==
  ASSUME ProcInv, HiresInv, NEW p \in Writers, Foreman(p)
  PROVE  ProcInv' /\ HiresInv'
<1> USE DEF HiresInv
<1>1. CASE ReadJob(p)
  <2> DEFINE me == [proc[p] EXCEPT !.pc = "node", !.todo = nodes, !.held = ActiveNodes]
  <2>1. Become(p, me) /\ DOMAIN me = DOMAIN proc[p] /\ me.pc # "await"
    BY <1>1 DEF ReadJob, ProcInv
  <2> HIDE DEF me
  <2>2. ProcInv'
    BY <2>1, MovesOn
  <2> QED
    BY <1>1, <2>2 DEF ReadJob, SafeRow, Sound
<1>2. CASE Skip(p) \/ Escalate(p) \/ Serviced(p)
  <2>1. hires' = hires /\ \E decision, amount, due : Done(p, decision, amount, due)
    BY <1>2 DEF Skip, Escalate, Serviced
  <2>2. ProcInv'
    BY <2>1, DoneInv
  <2> QED
    BY <2>1, <2>2 DEF SafeRow, Sound
<1>3. CASE Hire(p) \/ CallDirect(p)
  <2>1. \E a \in Agents : Approved(a) /\ OpenEscrow(p, a)
    BY <1>3 DEF Hire, CallDirect, HireUnder
  <2> HIDE DEF HiresInv
  <2> QED
    BY <2>1, OpenEscrowInv
<1>4. CASE Call(p)
  <2>1. PICK a \in Agents : /\ Approved(a)
                            /\ Become(p, [proc[p] EXCEPT !.pc = "await", !.agent = a])
    BY <1>4 DEF Call
  <2> DEFINE me == [proc[p] EXCEPT !.pc = "await", !.agent = a]
  <2>2. {"pc", "agent"} \subseteq DOMAIN me /\ me.agent = a
    BY DEF ProcInv
  <2>3. Become(p, me)
    BY <2>1
  <2> HIDE DEF me
  <2>4. ProcInv'
    BY <2>1, <2>2, <2>3, BecomeInv
  <2> QED
    BY <1>4, <2>4 DEF Call, SafeRow, Sound
<1>5. CASE GiveUp(p)
  <2>1. proc[p].agent \in Agents /\ Approved(proc[p].agent) /\ OpenEscrow(p, proc[p].agent)
    BY <1>5 DEF GiveUp, At, ProcInv
  <2> HIDE DEF HiresInv
  <2> QED
    BY <2>1, OpenEscrowInv
<1>6. CASE EndLoop(p)
  <2>1. hires' = hires /\ Goto(p, IF p = "run" THEN "decide" ELSE "done")
    BY <1>6 DEF EndLoop
  <2>2. ProcInv'
    BY <2>1, GotoInv
  <2> QED
    BY <2>1, <2>2 DEF SafeRow, Sound
<1> QED
  BY <1>1, <1>2, <1>3, <1>4, <1>5, <1>6 DEF Foreman

\* What a process does with its record, for the steps that open and release nothing.
LEMMA QuietInv ==
  ASSUME ProcInv, HiresInv, hires' = hires, NEW p \in Writers, NEW me, Become(p, me),
         DOMAIN me = DOMAIN proc[p], me.pc # "await"
  PROVE  ProcInv' /\ HiresInv'
<1>1. ProcInv'
  BY MovesOn
<1> QED
  BY <1>1 DEF HiresInv, SafeRow, Sound

LEMMA NextHireInv == ProcInv /\ HiresInv /\ [Next]_vars => ProcInv' /\ HiresInv'
<1> SUFFICES ASSUME ProcInv, HiresInv, [Next]_vars PROVE ProcInv' /\ HiresInv'
  OBVIOUS
<1>w. "run" \in Writers /\ "worker" \in Writers /\ "user" \in Writers
  BY JobAssumption
<1> USE <1>w
<1>1. CASE UNCHANGED vars
  BY <1>1 DEF vars, jobVars, ProcInv, HiresInv, SafeRow, Sound, Approved
<1>2. CASE Submit
  <2> DEFINE me == [proc["run"] EXCEPT !.pc = "queue", !.due = Entry("job_created", 0)]
  <2>1. Become("run", me) /\ hires' = hires
    BY <1>2 DEF Submit
  <2>2. DOMAIN me = DOMAIN proc["run"] /\ me.pc # "await"
    BY DEF ProcInv
  <2> HIDE DEF me
  <2> QED
    BY <2>1, <2>2, QuietInv
<1>3. CASE Enqueue
  <2>1. PICK queued \in BOOLEAN, inline \in BOOLEAN :
          proc' = [proc EXCEPT !["run"].pc = IF inline THEN "verify" ELSE "view",
                               !["worker"].pc = IF queued THEN "verify" ELSE "idle"]
    BY <1>3 DEF Enqueue
  <2>2. ProcInv'
    BY <2>1 DEF ProcInv, Approved
  <2>3. HiresInv'
    BY <1>3 DEF Enqueue, HiresInv, SafeRow, Sound
  <2> QED
    BY <2>2, <2>3
<1>4. CASE View
  <2>1. hires' = hires
    BY <1>4 DEF View
  <2>2. CASE mode = ""
    <3>1. Goto("run", "verify")
      BY <1>4, <2>2 DEF View
    <3> QED
      BY <2>1, <3>1, GotoInv DEF HiresInv, SafeRow, Sound
  <2>3. CASE mode # ""
    <3> DEFINE me == [proc["run"] EXCEPT !.pc = "hire", !.mode = mode,
                                         !.due = Entry("conductor_start", 0)]
    <3>1. Become("run", me) /\ DOMAIN me = DOMAIN proc["run"] /\ me.pc # "await"
      BY <1>4, <2>3 DEF View, ProcInv
    <3> HIDE DEF me
    <3> QED
      BY <2>1, <3>1, QuietInv
  <2> QED
    BY <2>2, <2>3
<1>5. CASE Decide
  <2>1. hires' = hires
    BY <1>5 DEF Decide
  <2>2. CASE Answers
    <3> DEFINE me == [proc["run"] EXCEPT !.pc = "answered", !.due = Entry("conductor_done", 0)]
    <3>1. Become("run", me) /\ DOMAIN me = DOMAIN proc["run"] /\ me.pc # "await"
      BY <1>5, <2>2 DEF Decide, ProcInv
    <3> HIDE DEF me
    <3> QED
      BY <2>1, <3>1, QuietInv
  <2>3. CASE ~Answers
    <3>1. \E pc : pc # "await" /\ Goto("run", pc)
      BY <1>5, <2>3 DEF Decide
    <3> QED
      BY <2>1, <3>1, GotoInv DEF HiresInv, SafeRow, Sound
  <2> QED
    BY <2>2, <2>3
<1>6. CASE RunRoom
  <2>1. HiresInv'
    <3>1. CASE hires' = hires
      BY <3>1 DEF HiresInv, SafeRow, Sound
    <3>2. ASSUME NEW cap, NEW key, NEW tried, NEW via \in {"helper", "replacement"},
                 RoomHires(cap, key, tried, via)
          PROVE  HiresInv'
      <4>1. PICK a \in Agents : ~Excluded(Profiles[a]) /\ CreateHire(key, cap, a, via)
        BY <3>2 DEF RoomHires, Hireable
      <4> QED
        BY <4>1, HireableIsSound, CreateHireInv
    <3> QED
      BY <1>6, <3>1, <3>2 DEF RunRoom
  <2>2. PICK next \in {"sign", "report"} : Goto("run", next)
    BY <1>6 DEF RunRoom
  <2> QED
    BY <2>1, <2>2, GotoInv
<1>7. CASE Report
  <2>1. hires' = hires /\ \E due : Become("run", [Fresh("done") EXCEPT !.due = due])
    BY <1>7 DEF Report
  <2> QED
    BY <2>1, AnewInv DEF HiresInv, SafeRow, Sound
<1>8. CASE UserDistills \/ UserHires \/ UserSigns
  <2>1. hires' = hires /\ \E pc : pc # "await" /\ Goto("user", pc)
    BY <1>8 DEF UserDistills, UserHires, UserSigns
  <2> QED
    BY <2>1, GotoInv DEF HiresInv, SafeRow, Sound
<1>9. CASE HouseActs \/ Audits
  BY <1>9 DEF HouseActs, Audits, jobVars, ProcInv, HiresInv, SafeRow, Sound, Approved
<1>10. ASSUME NEW p \in Writers, Lock(p) PROVE ProcInv' /\ HiresInv'
  BY <1>10 DEF Lock, jobVars, ProcInv, HiresInv, SafeRow, Sound, Approved
<1>15. ASSUME NEW p \in Writers, Fail(p) PROVE ProcInv' /\ HiresInv'
  <2>1. hires' = hires /\ \E due : Become(p, [Fresh("failed") EXCEPT !.due = due])
    BY <1>15 DEF Fail
  <2> QED
    BY <2>1, AnewInv DEF HiresInv, SafeRow, Sound
<1>11. ASSUME NEW p \in Writers, Say(p) PROVE ProcInv' /\ HiresInv'
  <2> DEFINE me == [proc[p] EXCEPT !.due = <<>>]
  <2>1. Become(p, me) /\ hires' = hires
    BY <1>11 DEF Say
  <2>2. DOMAIN me = DOMAIN proc[p] /\ me.pc = proc[p].pc /\ me.agent = proc[p].agent
    BY DEF ProcInv
  <2> HIDE DEF me
  <2>3. {"pc", "agent"} \subseteq DOMAIN me
    BY <2>2 DEF ProcInv
  <2>4. me.pc = "await" => me.agent \in Agents /\ Approved(me.agent)
    BY <2>2 DEF ProcInv
  <2>5. ProcInv'
    BY <2>1, <2>3, <2>4, BecomeInv
  <2> QED
    BY <2>1, <2>5 DEF HiresInv, SafeRow, Sound
<1>12. ASSUME NEW p \in Writers, Process(p) PROVE ProcInv' /\ HiresInv'
  <2>1. CASE Verify(p)
    BY <2>1, GotoInv DEF Verify, HiresInv, SafeRow, Sound
  <2>2. CASE Plan(p)
    <3>1. PICK plan : Become(p, [proc[p] EXCEPT !.pc = "classify", !.plan = plan])
      BY <2>2 DEF Plan
    <3> DEFINE me == [proc[p] EXCEPT !.pc = "classify", !.plan = plan]
    <3>2. Become(p, me) /\ hires' = hires /\ DOMAIN me = DOMAIN proc[p] /\ me.pc # "await"
      BY <3>1, <2>2 DEF Plan, ProcInv
    <3> HIDE DEF me
    <3> QED
      BY <3>2, QuietInv
  <2>3. CASE Classify(p)
    <3> DEFINE me == [proc[p] EXCEPT !.pc = IF p = "run" THEN "view" ELSE "done",
                                     !.plan = <<>>, !.due = Entry("path_classified", 0)]
    <3>1. Become(p, me) /\ hires' = hires /\ DOMAIN me = DOMAIN proc[p] /\ me.pc # "await"
      BY <2>3 DEF Classify, ProcInv
    <3> HIDE DEF me
    <3> QED
      BY <3>1, QuietInv
  <2> QED
    BY <1>12, <2>1, <2>2, <2>3 DEF Process
<1>13. ASSUME NEW p \in Writers, Release(p) PROVE ProcInv' /\ HiresInv'
  <2> DEFINE me == [proc[p] EXCEPT !.due = Entry("payment_released", hires[Unpaid].key)]
  <2>1. SetReleased(Unpaid) /\ Become(p, me) /\ proc[p].pc = "sign"
    BY <1>13 DEF Release, At
  <2>2. DOMAIN me = DOMAIN proc[p] /\ me.pc # "await"
    BY <2>1 DEF ProcInv
  <2> HIDE DEF me
  <2> QED
    BY <2>1, <2>2, MovesOn, SetReleasedInv
<1>14. ASSUME NEW p \in Writers, SignedOff(p) PROVE ProcInv' /\ HiresInv'
  <2>1. hires' = hires /\ Goto(p, IF p = "run" THEN "report" ELSE "done")
    BY <1>14 DEF SignedOff
  <2> QED
    BY <2>1, GotoInv DEF HiresInv, SafeRow, Sound
<1> QED
  BY <1>1, <1>2, <1>3, <1>4, <1>5, <1>6, <1>7, <1>8, <1>9, <1>10, <1>11, <1>12, <1>13, <1>14,
     <1>15, ForemanInv DEF Next

\* foreman/hire.py: whatever path leads to an escrow - a crew of a blueprint, a call through
\* TheHouse that gave up, a retry, a helper or a replacement of the Room - its agent passed
\* the Vetter, and what the Foreman spends alone is within the owner's ceiling.
THEOREM SafeHireCorrect == Spec => []SafeHire
<1>1. HiresInv => SafeHire
  <2> SUFFICES ASSUME HiresInv, NEW i \in DOMAIN hires
               PROVE  LET p == Profiles[hires[i].agent] IN
                        /\ p.risky = 0 /\ p.dispute <= 20
                        /\ hires[i].via = "foreman" => p.price <= Ceiling
    BY DEF SafeHire
  <2>1. SafeRow(hires[i])
    BY DEF HiresInv
  <2> QED
    BY <2>1 DEF SafeRow, Sound
<1> QED
  BY <1>1, HireInit, NextHireInv, PTL DEF Spec

-----------------------------------------------------------------------------
(* What every step does to the processes, the hires and the log.           *)

Fields == {"pc", "due", "plan", "todo", "held", "outs", "mode", "agent"}

\* Every process has a record with these fields.
Shape ==
  /\ proc = [p \in Writers |-> proc[p]]
  /\ \A p \in Writers : DOMAIN proc[p] = Fields

\* What an entry about money is of.
Money == {"hire", "payment_released"}

\* p goes on, with its old entry or a new one, which is not about money.
Quietly(p) ==
  /\ \E me : /\ Become(p, me) /\ DOMAIN me = Fields
             /\ \/ me.due = proc[p].due
                \/ proc[p].due = <<>> /\ me.due = <<>>
                \/ /\ proc[p].due = <<>>
                   /\ \E kind, key : kind \notin Money /\ me.due = Entry(kind, key)
  /\ UNCHANGED <<hires, log, lock>>

LEMMA ThreeWriters == "run" \in Writers /\ "worker" \in Writers /\ "user" \in Writers
BY JobAssumption

\* Process p becomes what the action says, and everybody else is as before.
LEMMA Becomes ==
  ASSUME Shape, NEW p \in Writers, NEW me, Become(p, me)
  PROVE  /\ proc' = [q \in Writers |-> proc'[q]]
         /\ proc'[p] = me /\ \A q \in Writers \ {p} : proc'[q] = proc[q]
         /\ DOMAIN me = Fields => Shape'
BY DEF Become, Shape

LEMMA GotoQuietly ==
  ASSUME Shape, NEW p \in Writers, NEW pc, Goto(p, pc), UNCHANGED <<hires, log, lock>>
  PROVE  Quietly(p)
<1> DEFINE me == [proc[p] EXCEPT !.pc = pc]
<1>1. Become(p, me)
  BY DEF Goto
<1>2. DOMAIN me = Fields /\ me.due = proc[p].due
  BY DEF Shape, Fields
<1> HIDE DEF me
<1> QED
  BY <1>1, <1>2 DEF Quietly

LEMMA DoneQuietly ==
  ASSUME Shape, NEW p \in Writers, proc[p].due = <<>>, NEW decision, NEW amount, NEW due,
         Done(p, decision, amount, due), UNCHANGED <<hires, log, lock>>,
         due = <<>> \/ \E kind, key : kind \notin Money /\ due = Entry(kind, key)
  PROVE  Quietly(p)
<1> DEFINE out == [key |-> Node(p).key, decision |-> decision, amount |-> amount]
           me == [proc[p] EXCEPT !.pc = "node", !.todo = Tail(@), !.agent = None, !.due = due,
                                 !.outs = Append(@, out)]
<1>1. Become(p, me)
  BY DEF Done
<1> HIDE DEF out
<1>2. DOMAIN me = Fields /\ me.due = due
  BY DEF Shape, Fields
<1> HIDE DEF me
<1> QED
  BY <1>1, <1>2 DEF Quietly

\* A process that ends, as a record.
LEMMA Anew ==
  ASSUME NEW pc, NEW due
  PROVE  LET me == [Fresh(pc) EXCEPT !.due = due] IN
         /\ DOMAIN me = Fields /\ me.pc = pc /\ me.due = due
         /\ me.plan = <<>> /\ me.todo = <<>> /\ me.outs = <<>> /\ me.mode = ""
BY DEF Fresh, Fields

\* The steps that tell nothing of money.
LEMMA RunQuietly ==
  ASSUME Shape, Submit \/ View \/ Decide \/ Report \/ UserDistills \/ UserHires \/ UserSigns
  PROVE  \E p \in Writers : Quietly(p)
<1> USE ThreeWriters
<1>1. UNCHANGED <<hires, log, lock>>
  BY DEF Submit, View, Decide, Report, UserDistills, UserHires, UserSigns, chainVars
<1>2. CASE Submit
  <2> DEFINE me == [proc["run"] EXCEPT !.pc = "queue", !.due = Entry("job_created", 0)]
  <2>1. Become("run", me) /\ proc["run"].due = <<>>
    BY <1>2 DEF Submit, At
  <2>2. DOMAIN me = Fields /\ me.due = Entry("job_created", 0)
    BY DEF Shape, Fields
  <2> HIDE DEF me
  <2> QED
    BY <1>1, <2>1, <2>2 DEF Quietly, Money
<1>3. CASE View
  <2>1. CASE mode = ""
    BY <1>1, <1>3, <2>1, GotoQuietly DEF View
  <2>2. CASE mode # ""
    <3> DEFINE me == [proc["run"] EXCEPT !.pc = "hire", !.mode = mode,
                                         !.due = Entry("conductor_start", 0)]
    <3>1. Become("run", me) /\ proc["run"].due = <<>>
      BY <1>3, <2>2 DEF View, At
    <3>2. DOMAIN me = Fields /\ me.due = Entry("conductor_start", 0)
      BY DEF Shape, Fields
    <3> HIDE DEF me
    <3> QED
      BY <1>1, <3>1, <3>2 DEF Quietly, Money
  <2> QED
    BY <2>1, <2>2
<1>4. CASE Decide
  <2>1. CASE Answers
    <3> DEFINE me == [proc["run"] EXCEPT !.pc = "answered", !.due = Entry("conductor_done", 0)]
    <3>1. Become("run", me) /\ proc["run"].due = <<>>
      BY <1>4, <2>1 DEF Decide, At
    <3>2. DOMAIN me = Fields /\ me.due = Entry("conductor_done", 0)
      BY DEF Shape, Fields
    <3> HIDE DEF me
    <3> QED
      BY <1>1, <3>1, <3>2 DEF Quietly, Money
  <2>2. CASE ~Answers
    <3>1. \E pc : Goto("run", pc)
      BY <1>4, <2>2 DEF Decide
    <3> QED
      BY <1>1, <3>1, GotoQuietly
  <2> QED
    BY <2>1, <2>2
<1>5. CASE Report
  <2> DEFINE me == [Fresh("done") EXCEPT !.due = Entry("conductor_done", 0)]
  <2>1. Become("run", me) /\ proc["run"].due = <<>>
    BY <1>5 DEF Report, At
  <2>2. DOMAIN me = Fields /\ me.due = Entry("conductor_done", 0)
    BY Anew
  <2> HIDE DEF me
  <2> QED
    BY <1>1, <2>1, <2>2 DEF Quietly, Money
<1>6. CASE UserDistills \/ UserHires \/ UserSigns
  <2>1. \E pc : Goto("user", pc)
    BY <1>6 DEF UserDistills, UserHires, UserSigns
  <2> QED
    BY <1>1, <2>1, GotoQuietly
<1> QED
  BY <1>2, <1>3, <1>4, <1>5, <1>6

LEMMA ProcessQuietly ==
  ASSUME Shape, NEW p \in Writers, Process(p)
  PROVE  Quietly(p)
<1>1. UNCHANGED <<hires, log, lock>>
  BY DEF Process, Verify, Plan, Classify, chainVars
<1>2. CASE Verify(p)
  BY <1>1, <1>2, GotoQuietly DEF Verify
<1>3. CASE Plan(p)
  <2>1. PICK plan : Become(p, [proc[p] EXCEPT !.pc = "classify", !.plan = plan])
    BY <1>3 DEF Plan
  <2> DEFINE me == [proc[p] EXCEPT !.pc = "classify", !.plan = plan]
  <2>2. Become(p, me)
    BY <2>1
  <2>3. DOMAIN me = Fields /\ me.due = proc[p].due
    BY DEF Shape, Fields
  <2> HIDE DEF me
  <2> QED
    BY <1>1, <2>2, <2>3 DEF Quietly
<1>4. CASE Classify(p)
  <2> DEFINE me == [proc[p] EXCEPT !.pc = IF p = "run" THEN "view" ELSE "done",
                                   !.plan = <<>>, !.due = Entry("path_classified", 0)]
  <2>1. Become(p, me) /\ proc[p].due = <<>>
    BY <1>4 DEF Classify, At
  <2>2. DOMAIN me = Fields /\ me.due = Entry("path_classified", 0)
    BY DEF Shape, Fields
  <2> HIDE DEF me
  <2> QED
    BY <1>1, <2>1, <2>2 DEF Quietly, Money
<1> QED
  BY <1>2, <1>3, <1>4 DEF Process

\* The Foreman's steps but its escrows.
LEMMA ForemanQuietly ==
  ASSUME Shape, NEW p \in Writers, Foreman(p) \/ SignedOff(p),
         ~ \E a : proc[p].due = <<>> /\ OpenEscrow(p, a)
  PROVE  Quietly(p)
<1>1. CASE ReadJob(p)
  <2> DEFINE me == [proc[p] EXCEPT !.pc = "node", !.todo = nodes, !.held = ActiveNodes]
  <2>1. Become(p, me) /\ UNCHANGED <<hires, log, lock>>
    BY <1>1 DEF ReadJob, chainVars
  <2>2. DOMAIN me = Fields /\ me.due = proc[p].due
    BY DEF Shape, Fields
  <2> HIDE DEF me
  <2> QED
    BY <2>1, <2>2 DEF Quietly
<1>2. CASE Skip(p) \/ Escalate(p)
  <2>1. /\ proc[p].due = <<>> /\ UNCHANGED <<hires, log, lock>>
        /\ Done(p, "skipped", 0, <<>>) \/ Done(p, "escalated", 0, <<>>)
    BY <1>2 DEF Skip, Escalate, Wanted, AtNode, At, chainVars
  <2> QED
    BY <2>1, DoneQuietly
<1>3. CASE Serviced(p)
  <2>1. /\ proc[p].due = <<>> /\ UNCHANGED <<hires, log, lock>>
        /\ Done(p, "serviced_mcp", Fee, Entry("mcp_executed", Node(p).key))
    BY <1>3 DEF Serviced, At, chainVars
  <2> QED
    BY <2>1, DoneQuietly DEF Money
<1>4. CASE Hire(p) \/ CallDirect(p)
  BY <1>4 DEF Hire, CallDirect, HireUnder, Wanted, AtNode, At
<1>5. CASE Call(p)
  <2>1. PICK a \in Agents : Become(p, [proc[p] EXCEPT !.pc = "await", !.agent = a])
    BY <1>5 DEF Call
  <2> DEFINE me == [proc[p] EXCEPT !.pc = "await", !.agent = a]
  <2>2. Become(p, me) /\ UNCHANGED <<hires, log, lock>>
    BY <1>5, <2>1 DEF Call, chainVars
  <2>3. DOMAIN me = Fields /\ me.due = proc[p].due
    BY DEF Shape, Fields
  <2> HIDE DEF me
  <2> QED
    BY <2>2, <2>3 DEF Quietly
<1>6. CASE EndLoop(p) \/ SignedOff(p)
  <2>1. (\E pc : Goto(p, pc)) /\ UNCHANGED <<hires, log, lock>>
    BY <1>6 DEF EndLoop, SignedOff, chainVars
  <2> QED
    BY <2>1, GotoQuietly
<1>7. CASE GiveUp(p)
  <2>1. proc[p].due = <<>> /\ OpenEscrow(p, proc[p].agent)
    BY <1>7 DEF GiveUp, At
  <2> QED
    BY <2>1, <1>7
<1> QED
  BY <1>1, <1>2, <1>3, <1>4, <1>5, <1>6, <1>7 DEF Foreman

-----------------------------------------------------------------------------
(* The log tells the money.                                                *)

\* The hires are rows.
Rows ==
  /\ \E S : hires \in Seq(S)
  /\ \A i \in DOMAIN hires : {"key", "via", "status"} \subseteq DOMAIN hires[i]

\* LogTellsTheMoney, of these sets.
Tally ==
  \A k \in 0..MaxKey :
    /\ Cardinality(Logged("hire", k)) + Cardinality(Unlogged("hire", k)) = Cardinality(Escrows(k))
    /\ Cardinality(Logged("payment_released", k)) + Cardinality(Unlogged("payment_released", k))
         = Cardinality(Releases(k))

\* Who is inside a transaction has something to append.
Locked == \A p \in Writers : p \in lock => proc[p].due # <<>>

MoneyInv == Shape /\ LogIsSeq /\ Rows /\ Locked /\ Tally

LEMMA TellsTheMoney == Tally => LogTellsTheMoney
BY DEF Tally, LogTellsTheMoney, Said, Logged, Unlogged, Owes, Escrows, Releases

LEMMA SequenceFinite ==
  ASSUME NEW s, \E S : s \in Seq(S), NEW T \in SUBSET DOMAIN s
  PROVE  IsFiniteSet(T) /\ Cardinality(T) \in Nat
<1>1. DOMAIN s = 1..Len(s) /\ Len(s) \in Nat
  BY LenProperties
<1>2. IsFiniteSet(1..Len(s))
  BY <1>1, FS_Interval
<1>3. IsFiniteSet(T)
  BY <1>1, <1>2, FS_Subset
<1> QED
  BY <1>3, FS_CardinalityType

LEMMA WritersFinite ==
  ASSUME NEW T \in SUBSET Writers
  PROVE  IsFiniteSet(T) /\ Cardinality(T) \in Nat
<1>1. IsFiniteSet({"run"} \cup {"worker"})
  BY FS_Singleton, FS_AddElement
<1>2. IsFiniteSet(({"run"} \cup {"worker"}) \cup {"user"})
  BY <1>1, FS_AddElement
<1>3. Writers = ({"run"} \cup {"worker"}) \cup {"user"}
  BY JobAssumption
<1>4. IsFiniteSet(T)
  BY <1>2, <1>3, FS_Subset
<1> QED
  BY <1>4, FS_CardinalityType

LEMMA BooksFinite ==
  ASSUME LogIsSeq, Rows, NEW kind, NEW k
  PROVE  /\ IsFiniteSet(Logged(kind, k)) /\ Cardinality(Logged(kind, k)) \in Nat
         /\ IsFiniteSet(Unlogged(kind, k)) /\ Cardinality(Unlogged(kind, k)) \in Nat
         /\ IsFiniteSet(Escrows(k)) /\ Cardinality(Escrows(k)) \in Nat
         /\ IsFiniteSet(Releases(k)) /\ Cardinality(Releases(k)) \in Nat
<1>1. /\ Logged(kind, k) \subseteq DOMAIN log /\ Unlogged(kind, k) \subseteq Writers
      /\ Escrows(k) \subseteq DOMAIN hires /\ Releases(k) \subseteq DOMAIN hires
  BY DEF Logged, Unlogged, Escrows, Releases
<1>2. (\E S : log \in Seq(S)) /\ (\E S : hires \in Seq(S))
  BY DEF LogIsSeq, Rows
<1> QED
  BY <1>1, <1>2, SequenceFinite, WritersFinite

\* What the step of one process makes it say.
LEMMA TellingMoves ==
  ASSUME Shape, NEW p \in Writers, NEW me, Become(p, me), NEW kind, NEW k
  PROVE  Unlogged(kind, k)' =
           IF Owes(me.due, kind, k) THEN Unlogged(kind, k) \cup {p} ELSE Unlogged(kind, k) \ {p}
<1>1. proc'[p] = me /\ \A q \in Writers \ {p} : proc'[q] = proc[q]
  BY Becomes
<1>2. \A q \in Writers : q \in Unlogged(kind, k) <=> Owes(proc[q].due, kind, k)
  BY DEF Unlogged
<1>3. \A q \in Writers : q \in Unlogged(kind, k)' <=> Owes(proc'[q].due, kind, k)
  BY DEF Unlogged, Owes
<1>4. Unlogged(kind, k)' \subseteq Writers /\ Unlogged(kind, k) \subseteq Writers
  BY DEF Unlogged
<1> HIDE DEF Unlogged, Owes
<1> QED
  BY <1>1, <1>2, <1>3, <1>4

LEMMA EntrySpeaks ==
  /\ \A kind, k, kind2, k2 : Owes(Entry(kind2, k2), kind, k) <=> kind2 = kind /\ k2 = k
  /\ \A kind, k : ~Owes(<<>>, kind, k)
BY DEF Owes, Entry

LEMMA LockedStays ==
  ASSUME Shape, Locked, NEW p \in Writers, NEW me, Become(p, me), UNCHANGED lock,
         proc[p].due = <<>> \/ me.due = proc[p].due
  PROVE  Locked'
<1>1. proc'[p] = me /\ \A q \in Writers \ {p} : proc'[q] = proc[q]
  BY Becomes
<1> QED
  BY <1>1 DEF Locked

\* A step that opens, releases and logs nothing.
LEMMA MoneyStays ==
  ASSUME MoneyInv, Shape', Locked', UNCHANGED <<hires, log>>,
         \A k \in 0..MaxKey, kind \in Money : Unlogged(kind, k)' = Unlogged(kind, k)
  PROVE  MoneyInv'
<1>1. \A k : /\ Escrows(k)' = Escrows(k) /\ Releases(k)' = Releases(k)
             /\ \A kind : Logged(kind, k)' = Logged(kind, k)
  BY DEF Escrows, Releases, Logged
<1>2. LogIsSeq' /\ Rows'
  BY DEF MoneyInv, LogIsSeq, Rows
<1>3. Tally'
  BY <1>1 DEF MoneyInv, Money, Tally
<1> QED
  BY <1>2, <1>3 DEF MoneyInv

LEMMA QuietMoney == ASSUME MoneyInv, NEW p \in Writers, Quietly(p) PROVE MoneyInv'
<1>1. PICK me : /\ Become(p, me) /\ DOMAIN me = Fields
                /\ \/ me.due = proc[p].due
                   \/ proc[p].due = <<>> /\ me.due = <<>>
                   \/ /\ proc[p].due = <<>>
                      /\ \E kind, key : kind \notin Money /\ me.due = Entry(kind, key)
  BY DEF Quietly
<1>2. Shape'
  BY <1>1, Becomes DEF MoneyInv
<1>3. ASSUME NEW k \in 0..MaxKey, NEW kind \in Money
      PROVE  Unlogged(kind, k)' = Unlogged(kind, k)
  <2>1. Owes(me.due, kind, k) <=> Owes(proc[p].due, kind, k)
    BY <1>1, EntrySpeaks
  <2>2. p \in Unlogged(kind, k) <=> Owes(proc[p].due, kind, k)
    BY DEF Unlogged
  <2>3. Unlogged(kind, k)' =
          IF Owes(me.due, kind, k) THEN Unlogged(kind, k) \cup {p} ELSE Unlogged(kind, k) \ {p}
    BY <1>1, TellingMoves DEF MoneyInv
  <2> QED
    BY <2>1, <2>2, <2>3
<1>4. UNCHANGED <<hires, log, lock>>
  BY DEF Quietly
<1>5. Locked'
  BY <1>1, <1>4, LockedStays DEF MoneyInv
<1> QED
  BY <1>2, <1>3, <1>4, <1>5, MoneyStays

\* A new row is an escrow of the Foreman, or it is not; it is not paid.
LEMMA HiresGrow ==
  ASSUME Rows, NEW key, NEW cap, NEW a, NEW via, CreateHire(key, cap, a, via)
  PROVE  /\ Rows' /\ Len(hires) + 1 \notin DOMAIN hires
         /\ \A k : /\ Releases(k)' = Releases(k)
                   /\ Escrows(k)' = IF key = k /\ via = "foreman"
                                   THEN Escrows(k) \cup {Len(hires) + 1} ELSE Escrows(k)
<1> DEFINE row == [key |-> key, cap |-> cap, agent |-> a, via |-> via, status |-> "hired"]
           n == Len(hires) + 1
<1>1. /\ {"key", "via", "status"} \subseteq DOMAIN row
      /\ row.key = key /\ row.via = via /\ row.status = "hired"
  OBVIOUS
<1>2. hires' = Append(hires, row) /\ \E S : hires \in Seq(S)
  BY DEF CreateHire, Rows
<1> HIDE DEF row
<1>3. /\ \E S : Append(hires, row) \in Seq(S)
      /\ Len(hires) \in Nat /\ Len(Append(hires, row)) = n
      /\ \A i \in 1..Len(hires) : Append(hires, row)[i] = hires[i]
      /\ Append(hires, row)[n] = row
  BY <1>2, AppendToLog
<1>4. /\ DOMAIN hires = 1..Len(hires) /\ DOMAIN hires' = DOMAIN hires \cup {n}
      /\ n \notin DOMAIN hires
      /\ \A i \in DOMAIN hires : hires'[i] = hires[i]
      /\ hires'[n] = row
  <2>1. DOMAIN hires = 1..Len(hires) /\ DOMAIN hires' = 1..n
    BY <1>2, <1>3, LenProperties
  <2> QED
    BY <1>2, <1>3, <2>1
<1> HIDE DEF n
<1>5. Rows'
  <2>1. \A i \in DOMAIN hires' : {"key", "via", "status"} \subseteq DOMAIN hires'[i]
    BY <1>1, <1>4 DEF Rows
  <2>2. \E S : hires' \in Seq(S)
    BY <1>2, <1>3
  <2> QED
    BY <2>1, <2>2 DEF Rows
<1>6. ASSUME NEW k
      PROVE  /\ Releases(k)' = Releases(k)
             /\ Escrows(k)' = IF key = k /\ via = "foreman" THEN Escrows(k) \cup {n} ELSE Escrows(k)
  BY <1>1, <1>4 DEF Releases, Escrows
<1> QED
  BY <1>4, <1>5, <1>6 DEF n

LEMMA LogStays ==
  ASSUME log' = log
  PROVE  (LogIsSeq => LogIsSeq') /\ \A kind, k : Logged(kind, k)' = Logged(kind, k)
BY DEF LogIsSeq, Logged

LEMMA OpenEscrowMoney ==
  ASSUME MoneyInv, NEW p \in Writers, NEW a, proc[p].due = <<>>, OpenEscrow(p, a),
         UNCHANGED <<log, lock>>
  PROVE  MoneyInv'
<1> DEFINE key == Node(p).key
           out == [key |-> key, decision |-> "hired", amount |-> Profiles[a].price]
           me == [proc[p] EXCEPT !.pc = "node", !.todo = Tail(@), !.agent = None,
                                 !.due = Entry("hire", key), !.outs = Append(@, out)]
<1>1. CreateHire(key, Node(p).cap, a, "foreman") /\ Become(p, me)
  BY DEF OpenEscrow, Done
<1> HIDE DEF key, out
<1>2. DOMAIN me = Fields /\ me.due = Entry("hire", key)
  BY DEF MoneyInv, Shape, Fields
<1> HIDE DEF me
<1>3. Shape'
  BY <1>1, <1>2, Becomes DEF MoneyInv
<1>4. /\ Rows' /\ Len(hires) + 1 \notin DOMAIN hires
      /\ \A k : /\ Releases(k)' = Releases(k)
                /\ Escrows(k)' = IF key = k THEN Escrows(k) \cup {Len(hires) + 1} ELSE Escrows(k)
  BY <1>1, HiresGrow DEF MoneyInv
<1>5. ASSUME NEW k
      PROVE  /\ Unlogged("hire", k)' = IF key = k THEN Unlogged("hire", k) \cup {p}
                                      ELSE Unlogged("hire", k)
             /\ p \notin Unlogged("hire", k)
             /\ Unlogged("payment_released", k)' = Unlogged("payment_released", k)
  <2>1. p \notin Unlogged("hire", k) /\ p \notin Unlogged("payment_released", k)
    BY EntrySpeaks DEF Unlogged
  <2>2. /\ Owes(me.due, "hire", k) <=> key = k
        /\ ~Owes(me.due, "payment_released", k)
    BY <1>2, EntrySpeaks
  <2>3. \A kind : Unlogged(kind, k)' =
          IF Owes(me.due, kind, k) THEN Unlogged(kind, k) \cup {p} ELSE Unlogged(kind, k) \ {p}
    BY <1>1, TellingMoves DEF MoneyInv
  <2> QED
    BY <2>1, <2>2, <2>3
<1>6. ASSUME NEW k \in 0..MaxKey
      PROVE  /\ Cardinality(Logged("hire", k)') + Cardinality(Unlogged("hire", k)')
                  = Cardinality(Escrows(k)')
             /\ Cardinality(Logged("payment_released", k)')
                  + Cardinality(Unlogged("payment_released", k)') = Cardinality(Releases(k)')
  <2>1. \A kind : Logged(kind, k)' = Logged(kind, k)
    BY LogStays
  <2>2. Len(hires) + 1 \notin Escrows(k)
    BY <1>4 DEF Escrows
  <2>3. CASE key # k
    BY <1>4, <1>5, <2>1, <2>3 DEF MoneyInv, Tally
  <2>4. CASE key = k
    <3>1. /\ IsFiniteSet(Unlogged("hire", k)) /\ IsFiniteSet(Escrows(k))
          /\ Cardinality(Logged("hire", k)) \in Nat /\ Cardinality(Unlogged("hire", k)) \in Nat
      BY BooksFinite DEF MoneyInv
    <3>2. Cardinality(Unlogged("hire", k)') = Cardinality(Unlogged("hire", k)) + 1
      <4>1. Cardinality(Unlogged("hire", k) \cup {p}) = Cardinality(Unlogged("hire", k)) + 1
        BY <1>5, <3>1, FS_AddElement
      <4> QED
        BY <1>5, <2>4, <4>1
    <3>3. Cardinality(Escrows(k)') = Cardinality(Escrows(k)) + 1
      <4>1. Cardinality(Escrows(k) \cup {Len(hires) + 1}) = Cardinality(Escrows(k)) + 1
        BY <2>2, <3>1, FS_AddElement
      <4> QED
        BY <1>4, <2>4, <4>1
    <3>4. Cardinality(Logged("hire", k)) + Cardinality(Unlogged("hire", k)) = Cardinality(Escrows(k))
      BY DEF MoneyInv, Tally
    <3>5. Cardinality(Logged("hire", k)') + Cardinality(Unlogged("hire", k)')
            = Cardinality(Escrows(k)')
      BY <2>1, <3>1, <3>2, <3>3, <3>4
    <3> QED
      BY <1>4, <1>5, <2>1, <3>5 DEF MoneyInv, Tally
  <2> QED
    BY <2>3, <2>4
<1>7. LogIsSeq'
  BY LogStays DEF MoneyInv
<1>8. Locked'
  BY <1>1, LockedStays DEF MoneyInv
<1> QED
  BY <1>3, <1>4, <1>6, <1>7, <1>8 DEF MoneyInv, Tally

\* A room that hires a helper, or a replacement, opens no escrow of the Foreman's.
LEMMA RunRoomMoney == MoneyInv /\ RunRoom => MoneyInv'
<1> SUFFICES ASSUME MoneyInv, RunRoom PROVE MoneyInv'
  OBVIOUS
<1> USE ThreeWriters
<1>1. PICK next \in {"sign", "report"} : Goto("run", next)
  BY DEF RunRoom
<1>2. proc["run"].due = <<>> /\ UNCHANGED <<log, lock>>
  BY DEF RunRoom, At, chainVars
<1> DEFINE me == [proc["run"] EXCEPT !.pc = next]
<1>3. DOMAIN me = Fields /\ me.due = <<>>
  BY <1>2 DEF MoneyInv, Shape, Fields
<1>4. Become("run", me)
  BY <1>1 DEF Goto
<1> HIDE DEF me
<1>5. Shape'
  BY <1>3, <1>4, Becomes DEF MoneyInv
<1>6. \A kind \in Money : \A k : Unlogged(kind, k)' = Unlogged(kind, k)
  <2> SUFFICES ASSUME NEW kind \in Money, NEW k PROVE Unlogged(kind, k)' = Unlogged(kind, k)
    OBVIOUS
  <2>1. ~Owes(me.due, kind, k) /\ "run" \notin Unlogged(kind, k)
    BY <1>2, <1>3, EntrySpeaks DEF Unlogged
  <2>2. Unlogged(kind, k)' =
          IF Owes(me.due, kind, k) THEN Unlogged(kind, k) \cup {"run"}
          ELSE Unlogged(kind, k) \ {"run"}
    BY <1>4, TellingMoves DEF MoneyInv
  <2> QED
    BY <2>1, <2>2
<1>7. Rows' /\ \A k : Escrows(k)' = Escrows(k) /\ Releases(k)' = Releases(k)
  <2>1. CASE UNCHANGED hires
    BY <2>1 DEF MoneyInv, Rows, Escrows, Releases
  <2>2. CASE \E key, cap, a, via : via # "foreman" /\ CreateHire(key, cap, a, via)
    BY <2>2, HiresGrow DEF MoneyInv
  <2> QED
    BY <2>1, <2>2 DEF RunRoom, RoomHires
<1>8. LogIsSeq' /\ \A kind, k : Logged(kind, k)' = Logged(kind, k)
  BY <1>2, LogStays DEF MoneyInv
<1>9. Tally'
  BY <1>6, <1>7, <1>8 DEF MoneyInv, Tally, Money
<1>10. Locked'
  BY <1>2, <1>4, LockedStays DEF MoneyInv
<1> QED
  BY <1>5, <1>7, <1>8, <1>9, <1>10 DEF MoneyInv

\* A set of numbers that is not empty has a least one.
LEMMA LeastElement ==
  ASSUME NEW T, T \subseteq Nat, T # {}
  PROVE  \E m \in T : \A n \in T : m <= n
<1> DEFINE R == {x \in Nat \X Nat : x[1] < x[2]}
<1>1. IsWellFoundedOn(R, Nat)
  BY NatLessThanWellFounded DEF OpToRel
<1> HIDE DEF R
<1>2. PICK m \in T : \A n \in T : ~ (<<n, m>> \in R)
  BY <1>1, WFMin
<1>3. ASSUME NEW n \in T PROVE m <= n
  <2>1. <<n, m>> \in Nat \X Nat /\ <<n, m>>[1] = n /\ <<n, m>>[2] = m
    OBVIOUS
  <2>2. ~ (n < m)
    BY <1>2, <2>1 DEF R
  <2> QED
    BY <2>2
<1> QED
  BY <1>3

\* The first row that is not paid, if there is one.
LEMMA UnpaidType ==
  ASSUME Rows, Unpaid # 0
  PROVE  Unpaid \in DOMAIN hires /\ hires[Unpaid].status = "hired"
<1> DEFINE I == {i \in 1..Len(hires) : hires[i].status = "hired"}
<1>1. DOMAIN hires = 1..Len(hires) /\ Len(hires) \in Nat
  BY LenProperties DEF Rows
<1>2. Unpaid = IF I # {} THEN Min(I) ELSE 0
  BY DEF Unpaid, SelectInSeq
<1>3. I \subseteq Nat /\ I # {}
  BY <1>1, <1>2
<1>4. I \subseteq DOMAIN hires /\ \A i \in I : hires[i].status = "hired"
  BY <1>1
<1> HIDE DEF I
<1>5. Min(I) \in I
  <2>1. \E m \in I : \A n \in I : m <= n
    BY <1>3, LeastElement
  <2> QED
    BY <2>1 DEF Min
<1> QED
  BY <1>2, <1>3, <1>4, <1>5

\* A payment and the entry that is due for it.
LEMMA ReleaseMoney == ASSUME MoneyInv, NEW p \in Writers, Release(p) PROVE MoneyInv'
<1> DEFINE u == Unpaid
           key == hires[u].key
           me == [proc[p] EXCEPT !.due = Entry("payment_released", key)]
<1>1. /\ SetReleased(u) /\ Become(p, me) /\ u # 0
      /\ proc[p].due = <<>> /\ UNCHANGED <<log, lock>>
  BY DEF Release, At, chainVars
<1>2. u \in DOMAIN hires /\ hires[u].status = "hired"
  BY <1>1, UnpaidType DEF MoneyInv
<1> HIDE DEF u
<1>3. DOMAIN me = Fields /\ me.due = Entry("payment_released", key)
  BY DEF MoneyInv, Shape, Fields
<1> HIDE DEF me
<1>4. Shape'
  BY <1>1, <1>3, Becomes DEF MoneyInv
<1> DEFINE row == [hires[u] EXCEPT !.status = "released"]
<1>5. /\ DOMAIN row = DOMAIN hires[u] /\ row.status = "released"
      /\ row.key = hires[u].key /\ row.via = hires[u].via
      /\ {"key", "via", "status"} \subseteq DOMAIN row
  BY <1>2 DEF MoneyInv, Rows
<1>6. hires' = [hires EXCEPT ![u] = row]
  BY <1>1 DEF SetReleased
<1> HIDE DEF row
<1>7. /\ DOMAIN hires' = DOMAIN hires /\ hires'[u] = row
      /\ \A i \in DOMAIN hires \ {u} : hires'[i] = hires[i]
  BY <1>2, <1>6
<1>8. Rows'
  <2>1. PICK S : hires \in Seq(S)
    BY DEF MoneyInv, Rows
  <2>2. hires \in Seq(S \cup {row}) /\ u \in 1..Len(hires)
    BY <1>2, <2>1, LenProperties
  <2>3. hires' \in Seq(S \cup {row})
    BY <1>6, <2>2, ExceptSeq
  <2>4. \A i \in DOMAIN hires' : {"key", "via", "status"} \subseteq DOMAIN hires'[i]
    BY <1>5, <1>7 DEF MoneyInv, Rows
  <2> QED
    BY <2>3, <2>4 DEF Rows
<1>9. ASSUME NEW k
      PROVE  /\ Escrows(k)' = Escrows(k) /\ u \notin Releases(k)
             /\ Releases(k)' = IF key = k THEN Releases(k) \cup {u} ELSE Releases(k)
  <2>1. Escrows(k)' = Escrows(k)
    BY <1>2, <1>5, <1>7 DEF Escrows
  <2>2. u \notin Releases(k)
    BY <1>2 DEF Releases
  <2>3. Releases(k)' = IF key = k THEN Releases(k) \cup {u} ELSE Releases(k)
    BY <1>2, <1>5, <1>7 DEF Releases
  <2> QED
    BY <2>1, <2>2, <2>3
<1> HIDE DEF key
<1>10. ASSUME NEW k
       PROVE  /\ Unlogged("payment_released", k)' =
                    IF key = k THEN Unlogged("payment_released", k) \cup {p}
                    ELSE Unlogged("payment_released", k)
              /\ p \notin Unlogged("payment_released", k)
              /\ Unlogged("hire", k)' = Unlogged("hire", k)
  <2>1. p \notin Unlogged("hire", k) /\ p \notin Unlogged("payment_released", k)
    BY <1>1, EntrySpeaks DEF Unlogged
  <2>2. /\ Owes(me.due, "payment_released", k) <=> key = k
        /\ ~Owes(me.due, "hire", k)
    BY <1>3, EntrySpeaks
  <2>3. \A kind : Unlogged(kind, k)' =
          IF Owes(me.due, kind, k) THEN Unlogged(kind, k) \cup {p} ELSE Unlogged(kind, k) \ {p}
    BY <1>1, TellingMoves DEF MoneyInv
  <2> QED
    BY <2>1, <2>2, <2>3
<1>11. LogIsSeq' /\ \A kind, k : Logged(kind, k)' = Logged(kind, k)
  BY <1>1, LogStays DEF MoneyInv
<1>12. ASSUME NEW k \in 0..MaxKey
       PROVE  /\ Cardinality(Logged("hire", k)') + Cardinality(Unlogged("hire", k)')
                   = Cardinality(Escrows(k)')
              /\ Cardinality(Logged("payment_released", k)')
                   + Cardinality(Unlogged("payment_released", k)') = Cardinality(Releases(k)')
  <2>1. CASE key # k
    BY <1>9, <1>10, <1>11, <2>1 DEF MoneyInv, Tally
  <2>2. CASE key = k
    <3> DEFINE told == Unlogged("payment_released", k)
               says == Logged("payment_released", k)
    <3>1. /\ IsFiniteSet(told) /\ IsFiniteSet(Releases(k))
          /\ Cardinality(says) \in Nat /\ Cardinality(told) \in Nat
      BY BooksFinite DEF MoneyInv
    <3>2. Cardinality(told') = Cardinality(told) + 1
      <4>1. Cardinality(told \cup {p}) = Cardinality(told) + 1
        BY <1>10, <3>1, FS_AddElement
      <4> QED
        BY <1>10, <2>2, <4>1
    <3>3. Cardinality(Releases(k)') = Cardinality(Releases(k)) + 1
      <4>1. Cardinality(Releases(k) \cup {u}) = Cardinality(Releases(k)) + 1
        BY <1>9, <3>1, FS_AddElement
      <4> QED
        BY <1>9, <2>2, <4>1
    <3>4. Cardinality(says) + Cardinality(told) = Cardinality(Releases(k))
      BY DEF MoneyInv, Tally
    <3>5. says' = says
      BY <1>11
    <3> HIDE DEF told, says
    <3>6. Cardinality(says') + Cardinality(told') = Cardinality(Releases(k)')
      BY <3>1, <3>2, <3>3, <3>4, <3>5
    <3> QED
      BY <1>9, <1>10, <1>11, <3>6 DEF MoneyInv, Tally, told, says
  <2> QED
    BY <2>1, <2>2
<1>13. Locked'
  BY <1>1, LockedStays DEF MoneyInv
<1> QED
  BY <1>4, <1>8, <1>11, <1>12, <1>13 DEF MoneyInv, Tally

\* What was due becomes an entry of the log.
LEMMA SayTells ==
  ASSUME MoneyInv, NEW p \in Writers, Say(p)
  PROVE  /\ Shape' /\ LogIsSeq' /\ Locked'
         /\ \A kind, k :
              Cardinality(Logged(kind, k)') + Cardinality(Unlogged(kind, k)')
                = Cardinality(Logged(kind, k)) + Cardinality(Unlogged(kind, k))
<1> DEFINE e == Head(proc[p].due)
           me == [proc[p] EXCEPT !.due = <<>>]
           row == Row(p, e)
           n == Len(log) + 1
<1>1. /\ log' = Append(log, row) /\ Become(p, me) /\ UNCHANGED hires
  BY DEF Say, CommitAppend
<1>2. DOMAIN me = Fields /\ me.due = <<>>
  BY DEF MoneyInv, Shape, Fields
<1>3. row.entry = e
  BY DEF Row
<1> HIDE DEF me, row
<1>4. Shape'
  BY <1>1, <1>2, Becomes DEF MoneyInv
<1>5. /\ \E S : Append(log, row) \in Seq(S)
      /\ Len(log) \in Nat /\ Len(Append(log, row)) = n
      /\ \A i \in 1..Len(log) : Append(log, row)[i] = log[i]
      /\ Append(log, row)[n] = row
  BY AppendToLog DEF MoneyInv, LogIsSeq
<1>6. /\ DOMAIN log' = DOMAIN log \cup {n} /\ n \notin DOMAIN log
      /\ \A i \in DOMAIN log : log'[i] = log[i]
      /\ log'[n] = row
  <2>1. DOMAIN log = 1..Len(log) /\ DOMAIN log' = 1..n
    BY <1>1, <1>5, LenProperties DEF MoneyInv, LogIsSeq
  <2> QED
    BY <1>1, <1>5, <2>1
<1>7. LogIsSeq'
  BY <1>1, <1>5 DEF LogIsSeq
<1> HIDE DEF n
<1>8. /\ p \in lock /\ lock' \subseteq lock \ {p} /\ proc[p].due # <<>>
      /\ \A kind, k : Owes(proc[p].due, kind, k) <=> e.kind = kind /\ e.key = k
  BY DEF Say, CommitAppend, MoneyInv, Locked, Owes
<1> HIDE DEF e
<1>9. Locked'
  BY <1>1, <1>8, Becomes DEF MoneyInv, Locked
<1>10. ASSUME NEW kind, NEW k
       PROVE  Cardinality(Logged(kind, k)') + Cardinality(Unlogged(kind, k)')
                = Cardinality(Logged(kind, k)) + Cardinality(Unlogged(kind, k))
  <2> DEFINE says == Logged(kind, k)
             told == Unlogged(kind, k)
  <2>1. says' = IF e.kind = kind /\ e.key = k THEN says \cup {n} ELSE says
    BY <1>3, <1>6 DEF Logged
  <2>2. told' = told \ {p}
    <3>1. ~Owes(me.due, kind, k)
      BY <1>2, EntrySpeaks
    <3> QED
      BY <1>1, <3>1, TellingMoves DEF MoneyInv
  <2>3. p \in told <=> e.kind = kind /\ e.key = k
    BY <1>8 DEF Unlogged
  <2>4. n \notin says
    BY <1>6 DEF Logged
  <2>5. /\ IsFiniteSet(told) /\ IsFiniteSet(says)
        /\ Cardinality(says) \in Nat /\ Cardinality(told) \in Nat
    BY BooksFinite DEF MoneyInv
  <2>6. Cardinality(told \ {p}) = IF p \in told THEN Cardinality(told) - 1 ELSE Cardinality(told)
    BY <2>5, FS_RemoveElement
  <2>7. Cardinality(says \cup {n}) = Cardinality(says) + 1
    BY <2>4, <2>5, FS_AddElement
  <2> HIDE DEF says, told
  <2>8. Cardinality(says') + Cardinality(told') = Cardinality(says) + Cardinality(told)
    BY <2>1, <2>2, <2>3, <2>5, <2>6, <2>7
  <2> QED
    BY <2>8 DEF says, told
<1> QED
  BY <1>4, <1>7, <1>9, <1>10

LEMMA SayMoney == ASSUME MoneyInv, NEW p \in Writers, Say(p) PROVE MoneyInv'
<1>1. Rows' /\ \A k : Escrows(k)' = Escrows(k) /\ Releases(k)' = Releases(k)
  BY DEF Say, MoneyInv, Rows, Escrows, Releases
<1>2. Tally'
  BY <1>1, SayTells DEF MoneyInv, Tally
<1> QED
  BY <1>1, <1>2, SayTells DEF MoneyInv

\* A worker is started, or the job is left to run_job.
LEMMA EnqueueMoney == MoneyInv /\ Enqueue => MoneyInv'
<1> SUFFICES ASSUME MoneyInv, Enqueue PROVE MoneyInv'
  OBVIOUS
<1>1. PICK l1, l2 : proc' = [proc EXCEPT !["run"].pc = l1, !["worker"].pc = l2]
  BY DEF Enqueue
<1>2. UNCHANGED <<hires, log, lock>>
  BY DEF Enqueue, chainVars
<1>3. /\ proc' = [p \in Writers |-> proc'[p]]
      /\ \A p \in Writers : DOMAIN proc'[p] = Fields /\ proc'[p].due = proc[p].due
  BY <1>1 DEF MoneyInv, Shape, Fields
<1>4. Shape' /\ Locked'
  BY <1>2, <1>3 DEF MoneyInv, Shape, Locked
<1>5. \A kind, k : Unlogged(kind, k)' = Unlogged(kind, k)
  BY <1>3 DEF Unlogged, Owes
<1> QED
  BY <1>2, <1>4, <1>5, MoneyStays

\* What a process that fails had to say stays unsaid: the books do not move.
LEMMA FailMoney == ASSUME MoneyInv, NEW p \in Writers, Fail(p) PROVE MoneyInv'
<1> DEFINE me == [Fresh("failed") EXCEPT !.due = proc[p].due]
<1>1. /\ Become(p, me) /\ UNCHANGED <<hires, log>>
      /\ \A q \in Writers : q \in lock' => q \in lock
  BY DEF Fail, Rollback, chainVars
<1>2. DOMAIN me = Fields /\ me.due = proc[p].due
  BY DEF Fresh, Fields
<1> HIDE DEF me
<1>3. /\ Shape'
      /\ proc'[p] = me /\ \A q \in Writers \ {p} : proc'[q] = proc[q]
  BY <1>1, <1>2, Becomes DEF MoneyInv
<1>4. Locked'
  BY <1>1, <1>2, <1>3 DEF MoneyInv, Locked
<1>5. ASSUME NEW k \in 0..MaxKey, NEW kind \in Money
      PROVE  Unlogged(kind, k)' = Unlogged(kind, k)
  BY <1>2, <1>3 DEF Unlogged
<1> QED
  BY <1>1, <1>3, <1>4, <1>5, MoneyStays

LEMMA MoneyInit == Init => MoneyInv
<1> SUFFICES ASSUME Init PROVE MoneyInv
  OBVIOUS
<1>1. Shape /\ \A p \in Writers : proc[p].due = <<>>
  BY DEF Init, Fresh, Shape, Fields
<1>2. hires = <<>> /\ log = <<>> /\ lock = {}
  BY DEF Init, ChainInit
<1>3. LogIsSeq /\ Rows /\ Locked
  <2>1. <<>> \in Seq({}) /\ DOMAIN <<>> = {}
    BY EmptySeq
  <2> QED
    BY <1>2, <2>1 DEF LogIsSeq, Rows, Locked
<1>4. \A kind, k : Logged(kind, k) = {} /\ Unlogged(kind, k) = {} /\ Escrows(k) = {} /\ Releases(k) = {}
  BY <1>1, <1>2 DEF Logged, Unlogged, Owes, Escrows, Releases
<1>5. Tally
  BY <1>4, FS_EmptySet DEF Tally
<1> QED
  BY <1>1, <1>3, <1>5 DEF MoneyInv

LEMMA MoneyStep == MoneyInv /\ [Next]_vars => MoneyInv'
<1> SUFFICES ASSUME MoneyInv, [Next]_vars PROVE MoneyInv'
  OBVIOUS
<1> USE ThreeWriters
<1>1. CASE HouseActs \/ Audits \/ UNCHANGED vars
  <2>1. UNCHANGED <<proc, hires, log, lock>>
    BY <1>1 DEF HouseActs, Audits, VerifyRows, VerifyHead, jobVars, chainVars, vars
  <2>2. Shape' /\ Locked' /\ \A kind, k : Unlogged(kind, k)' = Unlogged(kind, k)
    BY <2>1 DEF MoneyInv, Shape, Locked, Unlogged, Owes
  <2> QED
    BY <2>1, <2>2, MoneyStays
<1>2. ASSUME NEW p \in Writers, Lock(p) PROVE MoneyInv'
  <2>1. UNCHANGED <<proc, hires, log>> /\ lock' = {p} /\ proc[p].due # <<>>
    BY <1>2 DEF Lock, BeginAppend, jobVars
  <2>2. Shape' /\ Locked' /\ \A kind, k : Unlogged(kind, k)' = Unlogged(kind, k)
    BY <2>1 DEF MoneyInv, Shape, Locked, Unlogged, Owes
  <2> QED
    BY <2>1, <2>2, MoneyStays
<1>3. CASE Submit \/ View \/ Decide \/ Report \/ UserDistills \/ UserHires \/ UserSigns
  BY <1>3, RunQuietly, QuietMoney DEF MoneyInv
<1>4. ASSUME NEW p \in Writers, Process(p) PROVE MoneyInv'
  BY <1>4, ProcessQuietly, QuietMoney DEF MoneyInv
<1>5. ASSUME NEW p \in Writers, Foreman(p) \/ SignedOff(p) PROVE MoneyInv'
  <2>1. UNCHANGED <<log, lock>>
    BY <1>5 DEF Foreman, SignedOff, ReadJob, Skip, Escalate, Hire, CallDirect, HireUnder, Call,
                Serviced, GiveUp, EndLoop, chainVars
  <2>2. CASE \E a : proc[p].due = <<>> /\ OpenEscrow(p, a)
    BY <2>1, <2>2, OpenEscrowMoney
  <2>3. CASE ~ \E a : proc[p].due = <<>> /\ OpenEscrow(p, a)
    BY <1>5, <2>3, ForemanQuietly, QuietMoney DEF MoneyInv
  <2> QED
    BY <2>2, <2>3
<1> QED
  BY <1>1, <1>2, <1>3, <1>4, <1>5, EnqueueMoney, RunRoomMoney, ReleaseMoney, SayMoney, FailMoney
     DEF Next

\* governance/audit.py and the retries of hire_for_job and sign_off: in every interleaving
\* of the run, the worker and the user's calls, whoever fails between a row and its entry
\* or inside the append, and whatever is called again after that, the log tells nothing
\* twice and nothing that was not done; the escrows of the Foreman and the releases it has
\* no entry for are one each of the processes that are about to append it or failed before.
THEOREM LogTellsTheMoneyCorrect == Spec => []LogTellsTheMoney
<1>1. MoneyInv => LogTellsTheMoney
  BY TellsTheMoney DEF MoneyInv
<1> QED
  BY <1>1, MoneyInit, MoneyStep, PTL DEF Spec

-----------------------------------------------------------------------------
(* The task graph has no cycle.                                            *)

\* One layer of Kahn's algorithm.
Layer(plan, S) == {n.key : n \in {m \in Nodes(plan) : m.deps \subseteq S}}

\* g is the layers of the plan, from the empty one to layer N.
LayersUpTo(plan, g, N) == g = [i \in 0..N |-> IF i = 0 THEN {} ELSE Layer(plan, g[i - 1])]
Layers(plan, g) == LayersUpTo(plan, g, Len(plan))

\* The layers exist, up to any number: the least number up to which they did not would
\* have a predecessor up to which they do.
LEMMA LayersExist ==
  ASSUME NEW plan, NEW N \in Nat
  PROVE  \E g : LayersUpTo(plan, g, N)
<1> DEFINE Bad == {n \in Nat : \A g : ~LayersUpTo(plan, g, n)}
<1> SUFFICES ASSUME Bad # {} PROVE FALSE
  BY DEF Bad
<1>1. PICK m \in Bad : \A n \in Bad : m <= n
  <2>1. Bad \subseteq Nat
    OBVIOUS
  <2> HIDE DEF Bad
  <2> QED
    BY <2>1, LeastElement
<1>2. m # 0
  <2> DEFINE g == [i \in 0..0 |-> {}]
  <2>1. g = [i \in 0..0 |-> IF i = 0 THEN {} ELSE Layer(plan, g[i - 1])]
    OBVIOUS
  <2> HIDE DEF g
  <2> QED
    BY <2>1 DEF LayersUpTo
<1>3. m \in Nat /\ m - 1 \in Nat /\ m - 1 \notin Bad
  <2>1. m \in Nat /\ m - 1 \in Nat
    BY <1>2
  <2>2. ~(m <= m - 1)
    BY <2>1
  <2> QED
    BY <1>1, <2>1, <2>2
<1>4. PICK g : LayersUpTo(plan, g, m - 1)
  BY <1>3
<1> DEFINE h == [i \in 0..m |-> IF i = m THEN Layer(plan, g[m - 1]) ELSE g[i]]
<1>5. \A i \in 0..m : h[i] = IF i = 0 THEN {} ELSE Layer(plan, h[i - 1])
  <2> SUFFICES ASSUME NEW i \in 0..m PROVE h[i] = IF i = 0 THEN {} ELSE Layer(plan, h[i - 1])
    OBVIOUS
  <2>1. CASE i = m
    <3>1. m - 1 \in 0..m /\ m - 1 # m
      BY <1>3
    <3>2. h[m - 1] = g[m - 1]
      BY <3>1
    <3>3. h[m] = Layer(plan, g[m - 1])
      BY <1>3
    <3> HIDE DEF h
    <3> QED
      BY <1>2, <2>1, <3>2, <3>3
  <2>2. CASE i # m
    <3>1. i \in 0..(m - 1)
      BY <1>3, <2>2
    <3>2. g[i] = IF i = 0 THEN {} ELSE Layer(plan, g[i - 1])
      BY <1>4, <3>1 DEF LayersUpTo
    <3>3. h[i] = g[i]
      BY <2>2
    <3>4. i # 0 => h[i - 1] = g[i - 1]
      BY <1>3, <3>1
    <3> HIDE DEF h
    <3> QED
      BY <3>2, <3>3, <3>4
  <2> QED
    BY <2>1, <2>2
<1>6. LayersUpTo(plan, h, m)
  <2>1. h = [i \in 0..m |-> h[i]]
    OBVIOUS
  <2> HIDE DEF h
  <2> QED
    BY <1>5, <2>1 DEF LayersUpTo
<1> HIDE DEF h
<1> QED
  BY <1>1, <1>6

LEMMA ReachedIsLast ==
  ASSUME NEW plan, Len(plan) \in Nat
  PROVE  \E g : Layers(plan, g) /\ Reached(plan) = g[Len(plan)]
<1> DEFINE in == CHOOSE in : in = [i \in 0..Len(plan) |->
                   IF i = 0 THEN {} ELSE {n.key : n \in {m \in Nodes(plan) : m.deps \subseteq in[i - 1]}}]
<1>1. Reached(plan) = in[Len(plan)]
  BY DEF Reached
<1>2. \E g : g = [i \in 0..Len(plan) |->
                IF i = 0 THEN {} ELSE {n.key : n \in {m \in Nodes(plan) : m.deps \subseteq g[i - 1]}}]
  BY LayersExist DEF LayersUpTo, Layer
<1>3. in = [i \in 0..Len(plan) |->
              IF i = 0 THEN {} ELSE {n.key : n \in {m \in Nodes(plan) : m.deps \subseteq in[i - 1]}}]
  BY <1>2
<1> HIDE DEF in
<1>4. Layers(plan, in)
  BY <1>3 DEF Layers, LayersUpTo, Layer
<1> QED
  BY <1>1, <1>4

\* The graph has distinct keys and known prerequisites, and every part of it has a node
\* that can start.
Distinct(plan) == \A i, j \in DOMAIN plan : plan[i].key = plan[j].key => i = j
Rooted(plan) ==
  \A S \in SUBSET Keys(plan) :
    S # {} => \E n \in Nodes(plan) : n.key \in S /\ n.deps \cap S = {}
IsDag(plan) ==
  /\ Cardinality(Keys(plan)) = Len(plan)
  /\ \A n \in Nodes(plan) : n.deps \subseteq Keys(plan)
  /\ Rooted(plan)

\* A sequence of nodes with distinct keys.
IsPlan(plan) ==
  Len(plan) \in Nat /\ plan = [i \in 1..Len(plan) |-> plan[i]] /\ Distinct(plan)

LEMMA CountTo == ASSUME NEW n \in Nat PROVE IsFiniteSet(1..n) /\ Cardinality(1..n) = n
<1>1. /\ IsFiniteSet(1..n)
      /\ Cardinality(1..n) = IF 1 > n THEN 0 ELSE n - 1 + 1
  BY FS_Interval
<1> QED
  BY <1>1

\* There are as many keys as nodes.
LEMMA KeysCount ==
  ASSUME NEW plan, IsPlan(plan)
  PROVE  IsFiniteSet(Keys(plan)) /\ Cardinality(Keys(plan)) = Len(plan)
<1> USE DEF IsPlan
<1> DEFINE I == 1..Len(plan)
           f == [i \in I |-> plan[i].key]
<1>1. Keys(plan) = {plan[i].key : i \in I}
  BY DEF Keys, Nodes
<1>2. f \in Bijection(I, Keys(plan))
  <2>1. f \in [I -> Keys(plan)]
    BY <1>1
  <2>2. \A i, j \in I : f[i] = f[j] => i = j
    BY DEF Distinct
  <2>3. \A k \in Keys(plan) : \E i \in I : f[i] = k
    BY <1>1
  <2> HIDE DEF f, I
  <2>4. f \in Injection(I, Keys(plan)) /\ f \in Surjection(I, Keys(plan))
    BY <2>1, <2>2, <2>3 DEF Injection, Surjection, IsInjective
  <2> QED
    BY <2>4 DEF Bijection
<1>3. ExistsBijection(I, Keys(plan))
  BY <1>2 DEF ExistsBijection
<1>4. IsFiniteSet(I) /\ Cardinality(I) = Len(plan)
  BY CountTo
<1> HIDE DEF I, f
<1> QED
  BY <1>3, <1>4, FS_Bijection

\* The first layer that has a key of S: its node waits for no key of S, for it waits for
\* the keys of the layer before.
LEMMA ReachedIsRooted ==
  ASSUME NEW plan, Len(plan) \in Nat, Reached(plan) = Keys(plan)
  PROVE  Rooted(plan)
<1> SUFFICES ASSUME NEW S \in SUBSET Keys(plan), S # {}
             PROVE  \E n \in Nodes(plan) : n.key \in S /\ n.deps \cap S = {}
  BY DEF Rooted
<1>1. PICK g : Layers(plan, g) /\ Reached(plan) = g[Len(plan)]
  BY ReachedIsLast
<1> DEFINE T == {i \in 0..Len(plan) : g[i] \cap S # {}}
<1>2. Len(plan) \in T /\ T \subseteq Nat
  <2>1. g[Len(plan)] \cap S # {}
    BY <1>1
  <2>2. Len(plan) \in 0..Len(plan) /\ 0..Len(plan) \subseteq Nat
    OBVIOUS
  <2> QED
    BY <2>1, <2>2
<1>3. PICK m \in T : \A n \in T : m <= n
  <2> HIDE DEF T
  <2> QED
    BY <1>2, LeastElement
<1>4. \A i \in 0..Len(plan) : g[i] = IF i = 0 THEN {} ELSE Layer(plan, g[i - 1])
  BY <1>1 DEF Layers, LayersUpTo
<1>5. m \in 0..Len(plan) /\ g[m] \cap S # {}
  BY <1>3
<1>6. m # 0
  BY <1>4, <1>5
<1>7. m - 1 \in 0..Len(plan) /\ g[m] = Layer(plan, g[m - 1])
  BY <1>4, <1>5, <1>6
<1>8. g[m - 1] \cap S = {}
  BY <1>3, <1>7
<1>9. PICK n \in Nodes(plan) : n.deps \subseteq g[m - 1] /\ n.key \in S
  BY <1>5, <1>7 DEF Layer
<1> QED
  BY <1>8, <1>9

\* decompose.py, is_valid_dag: what it accepts is a graph without a cycle.
LEMMA ValidIsDag ==
  ASSUME NEW plan, Len(plan) \in Nat, plan = [i \in 1..Len(plan) |-> plan[i]], ValidDag(plan)
  PROVE  IsPlan(plan) /\ IsDag(plan)
<1>1. IsPlan(plan) /\ \A n \in Nodes(plan) : n.deps \subseteq Keys(plan)
  BY DEF ValidDag, Resolvable, IsPlan, Distinct
<1>2. IsFiniteSet(Keys(plan)) /\ Cardinality(Keys(plan)) = Len(plan)
  BY <1>1, KeysCount
<1>3. Reached(plan) \subseteq Keys(plan)
  <2>1. PICK g : Layers(plan, g) /\ Reached(plan) = g[Len(plan)]
    BY ReachedIsLast
  <2>2. g[Len(plan)] = IF Len(plan) = 0 THEN {} ELSE Layer(plan, g[Len(plan) - 1])
    <3>1. Len(plan) \in 0..Len(plan)
      OBVIOUS
    <3> QED
      BY <2>1, <3>1 DEF Layers, LayersUpTo
  <2>3. \A S : Layer(plan, S) \subseteq Keys(plan)
    BY DEF Layer, Keys
  <2> QED
    BY <2>1, <2>2, <2>3
<1>4. Cardinality(Reached(plan)) = Len(plan)
  BY DEF ValidDag, Acyclic
<1>5. Reached(plan) = Keys(plan)
  BY <1>2, <1>3, <1>4, FS_Subset
<1> QED
  BY <1>1, <1>2, <1>5, ReachedIsRooted DEF IsDag

\* A node of the plan without a model waits for nodes before it.
LEMMA HeuristicIsDag ==
  ASSUME NEW g, Len(g.fragments) \in Nat
  PROVE  IsPlan(HeuristicPlan(g)) /\ IsDag(HeuristicPlan(g))
<1> DEFINE last == Len(g.fragments)
           plan == HeuristicPlan(g)
           I == 1..(last + 1)
<1>1. /\ DOMAIN plan = I
      /\ \A i \in I : /\ plan[i].key = i
                      /\ plan[i].deps \subseteq 1..(i - 1)
                      /\ plan[i].deps \subseteq I
  <2> SUFFICES ASSUME NEW i \in I
               PROVE  plan[i].key = i /\ plan[i].deps \subseteq 1..(i - 1) /\ plan[i].deps \subseteq I
    BY DEF HeuristicPlan
  <2>1. CASE i > last
    <3>1. plan[i] = [key |-> i, deps |-> 1..last, cap |-> "coordination", hire |-> FALSE]
      BY <2>1 DEF HeuristicPlan
    <3>2. i = last + 1
      BY <2>1
    <3> QED
      BY <3>1, <3>2
  <2>2. CASE ~(i > last)
    <3>1. plan[i] = [key |-> i, deps |-> IF i = 1 THEN {} ELSE {i - 1}, cap |-> g.fragments[i],
                     hire |-> g.fragments[i] # "coordination"]
      BY <2>2 DEF HeuristicPlan
    <3> QED
      BY <3>1
  <2> QED
    BY <2>1, <2>2
<1>0. plan = [i \in I |-> plan[i]]
  BY DEF HeuristicPlan
<1>2. Len(plan) = last + 1
  <2> DEFINE T == {plan[i] : i \in I}
  <2>2. plan \in [I -> T] /\ last + 1 \in Nat
    <3> HIDE DEF plan
    <3> QED
      BY <1>0
  <2> HIDE DEF plan, T
  <2>3. plan \in Seq(T)
    BY <2>2, SeqDef
  <2>4. DOMAIN plan = 1..Len(plan) /\ Len(plan) \in Nat
    BY <2>3, LenProperties
  <2> HIDE DEF last
  <2> QED
    BY <1>1, <2>2, <2>4
<1>3. Keys(plan) = I
  <2>1. Keys(plan) = {plan[i].key : i \in I}
    BY <1>1 DEF Keys, Nodes
  <2> HIDE DEF plan
  <2> QED
    BY <1>1, <2>1
<1> HIDE DEF plan
<1>4. IsPlan(plan)
  <2>1. Len(g.fragments) + 1 \in Nat
    OBVIOUS
  <2>2. Distinct(plan)
    BY <1>1 DEF Distinct
  <2> QED
    BY <1>0, <1>2, <2>1, <2>2 DEF IsPlan
<1>5. Cardinality(Keys(plan)) = Len(plan)
  BY <1>4, KeysCount
<1>6. \A n \in Nodes(plan) : n.deps \subseteq Keys(plan)
  BY <1>1, <1>3 DEF Nodes
<1>7. Rooted(plan)
  <2> SUFFICES ASSUME NEW S \in SUBSET I, S # {}
               PROVE  \E n \in Nodes(plan) : n.key \in S /\ n.deps \cap S = {}
    BY <1>3 DEF Rooted
  <2>1. S \subseteq Nat /\ S # {}
    <3>1. I \subseteq Nat
      OBVIOUS
    <3> HIDE DEF I
    <3> QED
      BY <3>1
  <2>2. PICK m \in S : \A n \in S : m <= n
    BY <2>1, LeastElement
  <2>3. m \in I /\ plan[m] \in Nodes(plan) /\ plan[m].key \in S
    BY <1>1, <2>2 DEF Nodes
  <2>4. ASSUME NEW d \in plan[m].deps, d \in S PROVE FALSE
    <3>1. d \in 1..(m - 1)
      BY <1>1, <2>3
    <3>2. m <= d
      BY <2>2, <2>4
    <3> QED
      BY <2>3, <3>1, <3>2
  <2> QED
    BY <2>3, <2>4
<1> QED
  BY <1>4, <1>5, <1>6, <1>7 DEF IsDag, plan

LEMMA NothingIsDag == IsPlan(<<>>) /\ IsDag(<<>>)
<1>0. IsPlan(<<>>)
  BY EmptySeq DEF IsPlan, Distinct
<1>1. Nodes(<<>>) = {} /\ Keys(<<>>) = {} /\ Len(<<>>) = 0
  BY EmptySeq DEF Nodes, Keys
<1>2. Cardinality(Keys(<<>>)) = Len(<<>>)
  BY <1>1, FS_EmptySet
<1>3. Rooted(<<>>)
  BY <1>1 DEF Rooted
<1> QED
  BY <1>0, <1>1, <1>2, <1>3 DEF IsDag

\* Plans are made for a job, and a job has a goal.
Asked == goal \in Goals \/ (proc["run"].pc = "submit" /\ proc["worker"].pc = "idle")

PlanInv == Shape /\ Asked /\ IsDag(nodes)

LEMMA DecomposeIsDag ==
  ASSUME goal \in Goals, NEW offer \in Offers
  PROVE  IsPlan(Decompose(goal, offer)) /\ IsDag(Decompose(goal, offer))
BY PlansAssumption, ValidIsDag, HeuristicIsDag DEF Decompose

LEMMA PlanInit == Init => PlanInv
<1> SUFFICES ASSUME Init PROVE PlanInv
  OBVIOUS
<1> USE ThreeWriters
<1>1. Shape /\ proc["run"].pc = "submit" /\ proc["worker"].pc = "idle"
  BY DEF Init, Fresh, Shape, Fields
<1>2. nodes = <<>>
  BY DEF Init
<1> QED
  BY <1>1, <1>2, NothingIsDag DEF PlanInv, Asked

LEMMA DoneShape ==
  ASSUME Shape, NEW p \in Writers, NEW decision, NEW amount, NEW due,
         Done(p, decision, amount, due)
  PROVE  Shape'
<1> DEFINE out == [key |-> Node(p).key, decision |-> decision, amount |-> amount]
           me == [proc[p] EXCEPT !.pc = "node", !.todo = Tail(@), !.agent = None, !.due = due,
                                 !.outs = Append(@, out)]
<1>1. Become(p, me)
  BY DEF Done
<1> HIDE DEF out
<1>2. DOMAIN me = Fields
  BY DEF Shape, Fields
<1> HIDE DEF me
<1> QED
  BY <1>1, <1>2, Becomes

\* A step of the user, or of the run or the worker once there is a goal.
LEMMA AskedStays ==
  ASSUME PlanInv, UNCHANGED goal, NEW p \in Writers, NEW me, Become(p, me),
         goal \in Goals \/ p = "user" \/ me.pc = proc[p].pc
  PROVE  Asked'
<1> USE ThreeWriters
<1>1. proc'[p] = me /\ \A q \in Writers \ {p} : proc'[q] = proc[q]
  BY Becomes DEF PlanInv
<1>2. CASE goal \in Goals
  BY <1>2 DEF Asked
<1>3. CASE p = "user"
  BY <1>1, <1>3 DEF PlanInv, Asked
<1>4. CASE me.pc = proc[p].pc
  <2>1. \A q \in Writers : proc'[q].pc = proc[q].pc
    BY <1>1, <1>4
  <2> QED
    BY <2>1 DEF PlanInv, Asked
<1> QED
  BY <1>2, <1>3, <1>4

LEMMA ShapeStep == Shape /\ [Next]_vars => Shape'
<1> SUFFICES ASSUME Shape, [Next]_vars PROVE Shape'
  OBVIOUS
<1> USE ThreeWriters
<1>1. ASSUME NEW p \in Writers, Quietly(p) PROVE Shape'
  BY <1>1, Becomes DEF Quietly
<1>2. CASE HouseActs \/ Audits \/ UNCHANGED vars \/ \E p \in Writers : Lock(p)
  <2>1. proc' = proc
    BY <1>2 DEF HouseActs, Audits, Lock, vars, jobVars
  <2> QED
    BY <2>1 DEF Shape
<1>3. CASE Submit \/ View \/ Decide \/ Report \/ UserDistills \/ UserHires \/ UserSigns
  BY <1>1, <1>3, RunQuietly
<1>4. ASSUME NEW p \in Writers, Process(p) PROVE Shape'
  BY <1>1, <1>4, ProcessQuietly
<1>5. ASSUME NEW p \in Writers, Foreman(p) \/ SignedOff(p) PROVE Shape'
  <2>1. CASE \E a : OpenEscrow(p, a)
    <3>1. \E d, x, due : Done(p, d, x, due)
      BY <2>1 DEF OpenEscrow
    <3> QED
      BY <3>1, DoneShape
  <2> QED
    BY <1>1, <1>5, <2>1, ForemanQuietly
<1>6. CASE Enqueue
  BY <1>6 DEF Enqueue, Shape, Fields
<1>7. CASE RunRoom
  <2>1. PICK next \in {"sign", "report"} : Goto("run", next)
    BY <1>7 DEF RunRoom
  <2> DEFINE me == [proc["run"] EXCEPT !.pc = next]
  <2>2. Become("run", me) /\ DOMAIN me = Fields
    BY <2>1 DEF Goto, Shape, Fields
  <2> HIDE DEF me
  <2> QED
    BY <2>2, Becomes
<1>8. ASSUME NEW p \in Writers, Release(p) PROVE Shape'
  <2> DEFINE me == [proc[p] EXCEPT !.due = Entry("payment_released", hires[Unpaid].key)]
  <2>1. Become(p, me) /\ DOMAIN me = Fields
    BY <1>8 DEF Release, Shape, Fields
  <2> HIDE DEF me
  <2> QED
    BY <2>1, Becomes
<1>9. ASSUME NEW p \in Writers, Say(p) PROVE Shape'
  <2> DEFINE me == [proc[p] EXCEPT !.due = <<>>]
  <2>1. Become(p, me)
    BY <1>9 DEF Say
  <2>2. DOMAIN me = Fields
    BY DEF Shape
  <2> HIDE DEF me
  <2> QED
    BY <2>1, <2>2, Becomes
<1>11. ASSUME NEW p \in Writers, Fail(p) PROVE Shape'
  <2> DEFINE me == [Fresh("failed") EXCEPT !.due = proc[p].due]
  <2>1. Become(p, me) /\ DOMAIN me = Fields
    BY <1>11, Anew DEF Fail
  <2> HIDE DEF me
  <2> QED
    BY <2>1, Becomes
<1>10. \/ HouseActs \/ Audits \/ UNCHANGED vars \/ \E p \in Writers : Lock(p)
       \/ Submit \/ View \/ Decide \/ Report \/ UserDistills \/ UserHires \/ UserSigns
       \/ Enqueue \/ RunRoom
       \/ \E p \in Writers : \/ Process(p) \/ Foreman(p) \/ SignedOff(p)
                              \/ Release(p) \/ Say(p) \/ Fail(p)
  BY DEF Next
<1> QED
  BY <1>2, <1>3, <1>4, <1>5, <1>6, <1>7, <1>8, <1>9, <1>10, <1>11

\* Who plans has a goal, and nobody else changes the graph.
LEMMA PlanStep == PlanInv /\ [Next]_vars => PlanInv'
<1> SUFFICES ASSUME PlanInv, [Next]_vars PROVE PlanInv'
  OBVIOUS
<1> USE ThreeWriters
<1>s. Shape'
  BY ShapeStep DEF PlanInv
<1>n. UNCHANGED nodes => IsDag(nodes)'
  BY SMTT(30) DEF PlanInv, IsDag, Rooted, Keys, Nodes
<1>1. CASE Submit
  BY <1>1, <1>s, <1>n DEF Submit, CreateJob, PlanInv, Asked
<1>2. CASE HouseActs \/ Audits \/ UNCHANGED vars \/ \E p \in Writers : Lock(p)
  <2>1. UNCHANGED <<goal, nodes, proc>>
    BY <1>2 DEF HouseActs, Audits, Lock, vars, jobVars
  <2> QED
    BY <2>1, <1>s, <1>n DEF PlanInv, Asked
<1>3. CASE goal \in Goals /\ UNCHANGED <<goal, nodes>>
  BY <1>3, <1>s, <1>n DEF PlanInv, Asked
<1>4. CASE Enqueue \/ View \/ Decide \/ RunRoom \/ Report
  BY <1>4, <1>3 DEF Enqueue, View, Decide, RunRoom, Report, At, PlanInv, Asked
<1>5. ASSUME NEW p \in {"run", "worker"}, Process(p) PROVE PlanInv'
  <2>1. goal \in Goals /\ UNCHANGED goal
    BY <1>5 DEF Process, Verify, Plan, Classify, At, PlanInv, Asked
  <2>2. Asked'
    BY <2>1 DEF Asked
  <2>3. IsDag(nodes)'
    <3>1. CASE UNCHANGED nodes
      BY <3>1, <1>n
    <3>2. CASE Plan(p)
      <4>1. PICK offer \in Offers : nodes' = Decompose(goal, offer)
        BY <3>2 DEF Plan, SavePlan
      <4>2. IsDag(Decompose(goal, offer))
        BY <2>1, DecomposeIsDag
      <4> QED
        BY <4>1, <4>2, SMTT(30) DEF IsDag, Rooted, Keys, Nodes
    <3> QED
      BY <1>5, <3>1, <3>2 DEF Process, Verify, Classify
  <2> QED
    BY <1>s, <2>2, <2>3 DEF PlanInv
<1>6. ASSUME NEW p \in {"run", "user"}, Foreman(p) \/ Release(p) \/ SignedOff(p) PROVE PlanInv'
  <2>1. UNCHANGED <<goal, nodes>> /\ \E me : Become(p, me)
    BY <1>6 DEF Foreman, ReadJob, Skip, Escalate, Hire, CallDirect, HireUnder, Call, Serviced,
                GiveUp, EndLoop, Release, SignedOff, OpenEscrow, Done, Goto
  <2>2. p = "run" => goal \in Goals
    BY <1>6 DEF Foreman, ReadJob, Skip, Escalate, Hire, CallDirect, HireUnder, Call, Serviced,
                GiveUp, EndLoop, Release, SignedOff, Wanted, AtNode, At, PlanInv, Asked
  <2>3. Asked'
    BY <2>1, <2>2, AskedStays
  <2> QED
    BY <1>s, <1>n, <2>1, <2>3 DEF PlanInv
<1>7. CASE UserDistills \/ UserHires \/ UserSigns
  <2>1. UNCHANGED <<goal, nodes>> /\ \E me : Become("user", me)
    BY <1>7 DEF UserDistills, UserHires, UserSigns, Goto
  <2>2. Asked'
    BY <2>1, AskedStays
  <2> QED
    BY <1>s, <1>n, <2>1, <2>2 DEF PlanInv
<1>8. ASSUME NEW p \in Writers, Say(p) PROVE PlanInv'
  <2> DEFINE me == [proc[p] EXCEPT !.due = <<>>]
  <2>1. UNCHANGED <<goal, nodes>> /\ Become(p, me)
    BY <1>8 DEF Say
  <2>2. me.pc = proc[p].pc
    BY DEF PlanInv, Shape, Fields
  <2> HIDE DEF me
  <2>3. Asked'
    BY <2>1, <2>2, AskedStays
  <2> QED
    BY <1>s, <1>n, <2>1, <2>3 DEF PlanInv
<1>9. ASSUME NEW p \in Writers, Fail(p) PROVE PlanInv'
  <2>1. UNCHANGED <<goal, nodes>> /\ proc[p].pc \notin {"submit", "idle"} /\ \E me : Become(p, me)
    BY <1>9 DEF Fail, AtWork
  <2>2. p \in {"run", "worker", "user"}
    BY JobAssumption
  <2>3. Asked'
    <3>1. CASE p = "user"
      BY <2>1, <3>1, AskedStays
    <3>2. CASE p # "user"
      BY <2>1, <2>2, <3>2 DEF PlanInv, Asked
    <3> QED
      BY <3>1, <3>2
  <2> QED
    BY <1>s, <1>n, <2>1, <2>3 DEF PlanInv
<1> QED
  BY <1>1, <1>2, <1>4, <1>5, <1>6, <1>7, <1>8, <1>9 DEF Next

\* decompose.py: whatever graph the model proposes, and however often the job is planned,
\* the saved graph has no cycle, no unknown prerequisite and no two nodes of one key.
THEOREM PlanIsDagCorrect == Spec => []PlanIsDag
<1>1. PlanInv => PlanIsDag
  <2> SUFFICES ASSUME PlanInv PROVE PlanIsDag
    OBVIOUS
  <2>1. ASSUME NEW S \in (SUBSET Keys(nodes)) \ {{}}
        PROVE  \E n \in Nodes(nodes) : n.key \in S /\ n.deps \cap S = {}
    <3>1. S \in SUBSET Keys(nodes) /\ S # {}
      BY <2>1, Zenon
    <3> QED
      BY <3>1 DEF PlanInv, IsDag, Rooted
  <2> QED
    BY <2>1 DEF PlanInv, IsDag, PlanIsDag
<1> QED
  BY <1>1, PlanInit, PlanStep, PTL DEF Spec

-----------------------------------------------------------------------------
(* A direct answer is the whole job.                                       *)

\* How often the job was classified, the times it is about to be, or may have been to be
\* by somebody who failed, among them.
Told == Said("path_classified", 0)
Classified(p) == IF proc[p].pc \in {"classify", "failed"} THEN 1 ELSE 0
Passes == Told + Classified("worker") + Classified("run")

\* Before the run has a path.
Early == {"submit", "queue", "verify", "plan", "classify", "view"}

\* The loop over the nodes of that plan: none is decided twice, and what was not skipped
\* is a node a specialist is wanted for.
InLoop(me, plan) ==
  /\ me.todo \in Seq(Nodes(plan)) /\ Distinct(me.todo)
  /\ \E T : me.outs \in Seq(T)
  /\ \A o \in ToSet(me.outs) : \A i \in DOMAIN me.todo : o.key # me.todo[i].key
  /\ me.pc = "await" => me.todo # <<>> /\ Needed(Head(me.todo))
  /\ \A o \in ToSet(me.outs) : o.decision # "skipped" => \E n \in WorkNodes(plan) : n.key = o.key
  /\ \A o1, o2 \in ToSet(me.outs) : o1.key = o2.key => o1 = o2

Beginning == LET me == proc["run"] IN
  /\ me.pc \in Early => me.mode = ""
  /\ me.pc \in Early \cup {"hire"} => me.todo = <<>> /\ me.outs = <<>>
  /\ me.pc \in {"submit", "queue"} => proc["worker"].pc = "idle"
  /\ me.pc = "submit" => mode = ""
  /\ me.pc = "answered" => Answers

\* As long as the job was classified once at most, whoever classifies it does so over the
\* saved graph, and the run goes through that graph, by its path.
FirstPass ==
  /\ Passes = 0 => mode = "" /\ proc["run"].pc \in Early
  /\ \A p \in {"run", "worker"} : proc[p].pc = "classify" => proc[p].plan = nodes
  /\ mode \in {"", ClassifyPath(goal, nodes)}
  /\ proc["run"].mode \in {"", ClassifyPath(goal, nodes)}
  /\ InLoop(proc["run"], nodes)

OnceInv == IsPlan(nodes) /\ Beginning /\ (Passes <= 1 => FirstPass)

LEMMA ToldIs ==
  Told = Cardinality(Logged("path_classified", 0)) + Cardinality(Unlogged("path_classified", 0))
BY DEF Told, Said, Logged, Unlogged, Owes

LEMMA PassesType == MoneyInv => Told \in Nat /\ Passes \in Nat
BY ToldIs, BooksFinite DEF MoneyInv, Passes, Classified

\* A step that says the same, or says that the job was classified.
LEMMA ToldMoves ==
  ASSUME MoneyInv, NEW p \in Writers, NEW me, Become(p, me), UNCHANGED log
  PROVE  /\ (Owes(me.due, "path_classified", 0) <=> Owes(proc[p].due, "path_classified", 0))
              => Told' = Told
         /\ Owes(me.due, "path_classified", 0) /\ ~Owes(proc[p].due, "path_classified", 0)
              => Told' = Told + 1
<1> DEFINE says == Logged("path_classified", 0)
           told == Unlogged("path_classified", 0)
<1>1. says' = says
  BY LogStays
<1>2. told' = IF Owes(me.due, "path_classified", 0) THEN told \cup {p} ELSE told \ {p}
  BY TellingMoves DEF MoneyInv
<1>3. p \in told <=> Owes(proc[p].due, "path_classified", 0)
  BY DEF Unlogged
<1>4. IsFiniteSet(told) /\ Cardinality(told) \in Nat /\ Cardinality(says) \in Nat
  BY BooksFinite DEF MoneyInv
<1>5. Cardinality(told \cup {p}) = IF p \in told THEN Cardinality(told) ELSE Cardinality(told) + 1
  BY <1>4, FS_AddElement
<1>6. Told = Cardinality(says) + Cardinality(told)
  BY ToldIs
<1>7. Told' = Cardinality(says') + Cardinality(told')
  BY DEF Told, Said, Logged, Unlogged, Owes
<1> HIDE DEF says, told, Told, Owes
<1>8. CASE p \in told
  <2>1. told \cup {p} = told
    BY <1>8
  <2> QED
    BY <1>1, <1>2, <1>3, <1>6, <1>7, <1>8, <2>1
<1>9. CASE p \notin told
  <2>1. told \ {p} = told
    BY <1>9
  <2>2. Owes(me.due, "path_classified", 0) => Cardinality(told') = Cardinality(told) + 1
    BY <1>2, <1>5, <1>9
  <2>3. ~Owes(proc[p].due, "path_classified", 0)
    BY <1>3, <1>9
  <2>4. CASE Owes(me.due, "path_classified", 0)
    <3>1. Told' = Cardinality(says) + (Cardinality(told) + 1)
      BY <1>1, <1>7, <2>2, <2>4
    <3>2. Told' = Told + 1
      BY <1>4, <1>6, <3>1
    <3> QED
      BY <2>3, <2>4, <3>2
  <2>5. CASE ~Owes(me.due, "path_classified", 0)
    <3>1. told' = told
      BY <1>2, <2>1, <2>5
    <3> QED
      BY <1>1, <1>6, <1>7, <2>5, <3>1
  <2> QED
    BY <2>4, <2>5
<1> QED
  BY <1>8, <1>9

\* A step that neither begins nor ends a classification.
LEMMA PassesStay ==
  ASSUME MoneyInv, NEW p \in Writers, NEW me, Become(p, me), UNCHANGED log,
         \/ p = "user"
         \/ me.pc \in {"classify", "failed"} <=> proc[p].pc \in {"classify", "failed"},
         Owes(me.due, "path_classified", 0) <=> Owes(proc[p].due, "path_classified", 0)
  PROVE  Passes' = Passes
<1> USE ThreeWriters
<1>1. proc'[p] = me /\ \A q \in Writers \ {p} : proc'[q] = proc[q]
  BY Becomes DEF MoneyInv
<1>2. Told' = Told
  BY ToldMoves
<1>3. Classified("worker")' = Classified("worker") /\ Classified("run")' = Classified("run")
  BY <1>1 DEF Classified
<1> QED
  BY <1>2, <1>3 DEF Passes

\* A step in which the run does not take part.
LEMMA OnceStays ==
  ASSUME MoneyInv, OnceInv, UNCHANGED <<goal, nodes, mode>>,
         Passes' = Passes \/ Passes' = Passes + 1,
         proc'["run"] = proc["run"],
         proc["worker"].pc = "idle" => proc'["worker"].pc = "idle",
         proc'["worker"].pc = "classify" => /\ proc["worker"].pc = "classify"
                                            /\ proc'["worker"].plan = proc["worker"].plan
  PROVE  OnceInv'
<1>1. IsPlan(nodes)'
  BY DEF OnceInv, IsPlan, Distinct
<1>2. Beginning'
  BY DEF OnceInv, Beginning, Answers, Decided
<1>3. ASSUME Passes' <= 1 PROVE FirstPass'
  <2>1. Passes <= 1 /\ (Passes' = 0 => Passes = 0)
    BY <1>3, PassesType
  <2> QED
    BY <2>1 DEF OnceInv, FirstPass
<1> QED
  BY <1>1, <1>2, <1>3 DEF OnceInv

\* The run goes on with the nodes, the results and the path it has.
LEMMA RunGoes ==
  ASSUME MoneyInv, OnceInv, UNCHANGED <<goal, nodes, mode>>, Passes' = Passes,
         NEW me, Become("run", me),
         me.todo = proc["run"].todo, me.outs = proc["run"].outs,
         me.mode = proc["run"].mode, me.plan = proc["run"].plan,
         \/ me.pc = proc["run"].pc
         \/ /\ proc["run"].pc \in Early
            /\ me.pc \in Early \ {"submit", "queue", "classify"}
         \/ /\ proc["run"].pc \notin Early \cup {"hire"}
            /\ me.pc \notin Early \cup {"hire", "await"}
            /\ me.pc = "answered" => Answers
  PROVE  OnceInv'
<1> USE ThreeWriters
<1>1. proc'["run"] = me /\ proc'["worker"] = proc["worker"]
  BY Becomes DEF MoneyInv
<1>2. IsPlan(nodes)'
  BY DEF OnceInv, IsPlan, Distinct
<1>3. Beginning'
  <2>1. Answers' = Answers
    BY <1>1 DEF Answers, Decided
  <2> QED
    BY <1>1, <2>1 DEF OnceInv, Beginning, Early
<1>4. ASSUME Passes <= 1 PROVE FirstPass'
  <2>1. InLoop(me, nodes)
    <3>1. InLoop(proc["run"], nodes)
      BY <1>4 DEF OnceInv, FirstPass
    <3>2. me.pc = "await" => proc["run"].pc = "await"
      BY DEF Early
    <3> QED
      BY <3>1, <3>2 DEF InLoop
  <2>2. InLoop(proc["run"], nodes)'
    BY <1>1, <2>1
  <2> QED
    BY <1>1, <1>4, <2>2 DEF OnceInv, FirstPass, Early
<1> QED
  BY <1>2, <1>3, <1>4 DEF OnceInv

\* The rest of the nodes, of which the first is the next.
LEMMA TailIs ==
  ASSUME NEW N, NEW s \in Seq(N), s # <<>>
  PROVE  /\ Head(s) \in N /\ Head(s) = s[1] /\ 1 \in DOMAIN s /\ Tail(s) \in Seq(N)
         /\ \A i \in DOMAIN Tail(s) : /\ i \in Int /\ i + 1 \in DOMAIN s /\ i + 1 # 1
                                      /\ Tail(s)[i] = s[i + 1]
<1>1. DOMAIN s = 1..Len(s) /\ Len(s) \in Nat
  BY LenProperties
<1>2. Len(s) # 0
  BY EmptySeq
<1>3. /\ Head(s) \in N /\ Tail(s) \in Seq(N) /\ Len(Tail(s)) = Len(s) - 1
      /\ \A i \in 1..Len(Tail(s)) : Tail(s)[i] = s[i + 1]
  BY HeadTailProperties
<1>4. DOMAIN Tail(s) = 1..(Len(s) - 1)
  BY <1>3, LenProperties
<1>5. Head(s) = s[1]
  OBVIOUS
<1> QED
  BY <1>1, <1>2, <1>3, <1>4, <1>5

LEMMA AppendedSet ==
  ASSUME NEW T, NEW s \in Seq(T), NEW e
  PROVE  ToSet(Append(s, e)) = ToSet(s) \cup {e} /\ \E U : Append(s, e) \in Seq(U)
<1>1. s \in Seq(T \cup {e})
  <2>1. Len(s) \in Nat /\ s \in [1..Len(s) -> T \cup {e}]
    BY LenProperties
  <2> QED
    BY <2>1, SeqDef
<1>2. /\ Append(s, e) \in Seq(T \cup {e}) /\ Len(Append(s, e)) = Len(s) + 1
      /\ Append(s, e)[Len(s) + 1] = e
      /\ \A i \in 1..Len(s) : Append(s, e)[i] = s[i]
  BY <1>1, AppendProperties
<1>3. DOMAIN s = 1..Len(s) /\ DOMAIN Append(s, e) = 1..(Len(s) + 1) /\ Len(s) \in Nat
  BY <1>1, <1>2, LenProperties
<1>4. ToSet(Append(s, e)) = {Append(s, e)[i] : i \in 1..(Len(s) + 1)} /\ ToSet(s) = {s[i] : i \in 1..Len(s)}
  BY <1>3 DEF ToSet
<1>5. \A i \in 1..(Len(s) + 1) : i \in 1..Len(s) \/ i = Len(s) + 1
  BY <1>3
<1>6. ToSet(Append(s, e)) \subseteq ToSet(s) \cup {e}
  BY <1>2, <1>4, <1>5
<1>7. ToSet(s) \cup {e} \subseteq ToSet(Append(s, e))
  <2>1. \A i \in 1..Len(s) : i \in 1..(Len(s) + 1)
    BY <1>3
  <2>2. Len(s) + 1 \in 1..(Len(s) + 1)
    BY <1>3
  <2> QED
    BY <1>2, <1>4, <2>1, <2>2
<1> QED
  BY <1>2, <1>6, <1>7

\* One node of the loop is decided.
LEMMA DecideNode ==
  ASSUME NEW me, NEW plan, InLoop(me, plan), me.todo # <<>>, NEW out,
         out.key = Head(me.todo).key,
         out.decision = "skipped" \/ Needed(Head(me.todo)),
         NEW next, next.todo = Tail(me.todo), next.outs = Append(me.outs, out), next.pc = "node"
  PROVE  InLoop(next, plan)
<1>1. /\ Head(me.todo) \in Nodes(plan) /\ Head(me.todo) = me.todo[1]
      /\ 1 \in DOMAIN me.todo /\ Tail(me.todo) \in Seq(Nodes(plan))
      /\ \A i \in DOMAIN Tail(me.todo) :
           /\ i \in Int /\ i + 1 \in DOMAIN me.todo /\ i + 1 # 1
           /\ Tail(me.todo)[i] = me.todo[i + 1]
  <2>1. me.todo \in Seq(Nodes(plan))
    BY DEF InLoop
  <2> QED
    BY <2>1, TailIs
<1>2. Distinct(next.todo)
  <2> SUFFICES ASSUME NEW i \in DOMAIN next.todo, NEW j \in DOMAIN next.todo,
                      next.todo[i].key = next.todo[j].key
               PROVE  i = j
    BY DEF Distinct
  <2>1. i + 1 = j + 1
    BY <1>1 DEF InLoop, Distinct
  <2> QED
    BY <1>1, <2>1
<1>3. \A i \in DOMAIN next.todo : out.key # next.todo[i].key
  BY <1>1 DEF InLoop, Distinct
<1>4. \A o \in ToSet(me.outs) : \A i \in DOMAIN next.todo : o.key # next.todo[i].key
  BY <1>1 DEF InLoop
<1>5. out.decision # "skipped" => \E n \in WorkNodes(plan) : n.key = out.key
  BY <1>1 DEF Needed, WorkNodes
<1>6. \A o \in ToSet(me.outs) : o.key # out.key
  BY <1>1 DEF InLoop
<1>8. ToSet(next.outs) = ToSet(me.outs) \cup {out} /\ \E T : next.outs \in Seq(T)
  <2>1. PICK T : me.outs \in Seq(T)
    BY DEF InLoop
  <2> QED
    BY <2>1, AppendedSet
<1>7. \A o1, o2 \in ToSet(next.outs) : o1.key = o2.key => o1 = o2
  BY <1>6, <1>8 DEF InLoop
<1> QED
  BY <1>1, <1>2, <1>3, <1>4, <1>5, <1>7, <1>8 DEF InLoop

\* What is due after a step, if it is not of the path.
LEMMA OtherEntry ==
  ASSUME NEW kind, kind # "path_classified", NEW key
  PROVE  ~Owes(Entry(kind, key), "path_classified", 0)
BY EntrySpeaks

\* A loop that has not begun.
LEMMA EmptyLoop ==
  ASSUME NEW me, NEW plan, me.todo = <<>>, me.outs = <<>>, me.pc # "await"
  PROVE  InLoop(me, plan)
<1>1. DOMAIN <<>> = {} /\ <<>> \in Seq(Nodes(plan)) /\ ToSet(<<>>) = {}
  BY EmptySeq DEF ToSet
<1>2. Distinct(<<>>)
  BY <1>1 DEF Distinct
<1> QED
  BY <1>1, <1>2 DEF InLoop

LEMMA SameLoop ==
  ASSUME NEW me, NEW plan, InLoop(me, plan),
         NEW next, next.todo = me.todo, next.outs = me.outs, next.pc # "await"
  PROVE  InLoop(next, plan)
BY DEF InLoop

LEMMA SubmitOnce == MoneyInv /\ OnceInv /\ Submit => OnceInv'
<1> SUFFICES ASSUME MoneyInv, OnceInv, Submit PROVE OnceInv'
  OBVIOUS
<1> USE ThreeWriters
<1> DEFINE me == [proc["run"] EXCEPT !.pc = "queue", !.due = Entry("job_created", 0)]
<1>1. /\ proc["run"].pc = "submit" /\ proc["run"].due = <<>> /\ Become("run", me)
      /\ UNCHANGED <<nodes, mode, log>>
  BY DEF Submit, At, chainVars
<1>2. /\ me.pc = "queue" /\ me.due = Entry("job_created", 0) /\ me.todo = proc["run"].todo
      /\ me.outs = proc["run"].outs /\ me.mode = proc["run"].mode
  BY DEF MoneyInv, Shape, Fields
<1> HIDE DEF me
<1>3. proc'["run"] = me /\ proc'["worker"] = proc["worker"]
  BY <1>1, Becomes DEF MoneyInv
<1>4. Passes' = Passes
  BY <1>1, <1>2, PassesStay, OtherEntry, EntrySpeaks
<1>5. /\ mode = "" /\ proc["run"].mode = "" /\ proc["worker"].pc = "idle"
      /\ me.todo = <<>> /\ me.outs = <<>>
  BY <1>1, <1>2 DEF OnceInv, Beginning, Early
<1>6. IsPlan(nodes)' /\ Beginning'
  BY <1>1, <1>2, <1>3, <1>5 DEF OnceInv, IsPlan, Distinct, Beginning, Early
<1>7. InLoop(me, nodes)
  BY <1>2, <1>5, EmptyLoop
<1>8. InLoop(proc["run"], nodes)'
  BY <1>1, <1>3, <1>7
<1>9. FirstPass'
  BY <1>1, <1>2, <1>3, <1>5, <1>8 DEF FirstPass, Early
<1> QED
  BY <1>6, <1>9 DEF OnceInv

LEMMA EnqueueOnce == MoneyInv /\ OnceInv /\ Enqueue => OnceInv'
<1> SUFFICES ASSUME MoneyInv, OnceInv, Enqueue PROVE OnceInv'
  OBVIOUS
<1> USE ThreeWriters
<1>1. PICK l1 \in {"verify", "view"}, l2 \in {"verify", "idle"} :
        proc' = [proc EXCEPT !["run"].pc = l1, !["worker"].pc = l2]
  BY DEF Enqueue
<1>2. proc["run"].pc = "queue" /\ UNCHANGED <<goal, nodes, mode, log>>
  BY DEF Enqueue, At, chainVars
<1>3. /\ proc'["run"].pc = l1 /\ proc'["worker"].pc = l2
      /\ \A p \in Writers : DOMAIN proc'[p] = Fields /\ proc'[p].due = proc[p].due
      /\ \A p \in {"run", "worker"} : /\ proc'[p].plan = proc[p].plan
                                      /\ proc'[p].mode = proc[p].mode
                                      /\ proc'[p].todo = proc[p].todo
                                      /\ proc'[p].outs = proc[p].outs
  BY <1>1 DEF MoneyInv, Shape, Fields
<1>4. proc["worker"].pc = "idle"
  BY <1>2 DEF OnceInv, Beginning
<1>5. Told' = Told
  BY <1>2, <1>3 DEF Told, Said, Logged, Unlogged, Owes
<1>6. Passes' = Passes
  BY <1>1, <1>2, <1>3, <1>4, <1>5 DEF Passes, Classified
<1>7. IsPlan(nodes)' /\ Beginning'
  BY <1>2, <1>3 DEF OnceInv, IsPlan, Distinct, Beginning, Early
<1>8. ASSUME Passes <= 1 PROVE FirstPass'
  <2>1. InLoop(proc'["run"], nodes)
    <3>1. InLoop(proc["run"], nodes)
      BY <1>8 DEF OnceInv, FirstPass
    <3>2. proc'["run"].pc # "await"
      BY <1>1, <1>3
    <3> QED
      BY <1>3, <3>1, <3>2, SameLoop
  <2>2. InLoop(proc["run"], nodes)'
    BY <1>2, <2>1
  <2> QED
    BY <1>1, <1>2, <1>3, <1>4, <1>6, <1>8, <2>2 DEF OnceInv, FirstPass, Early
<1> QED
  BY <1>6, <1>7, <1>8 DEF OnceInv

\* The first graph of the job.
LEMMA PlanOnce ==
  ASSUME MoneyInv, PlanInv, OnceInv, NEW p \in {"run", "worker"}, Plan(p)
  PROVE  OnceInv'
<1> USE ThreeWriters
<1>1. PICK offer \in Offers :
        /\ nodes' = Decompose(goal, offer)
        /\ Become(p, [proc[p] EXCEPT !.pc = "classify", !.plan = Decompose(goal, offer)])
  BY DEF Plan, SavePlan
<1>2. proc[p].pc = "plan" /\ proc[p].due = <<>> /\ UNCHANGED <<goal, mode, log>>
  BY DEF Plan, At, chainVars
<1> DEFINE plan == Decompose(goal, offer)
           me == [proc[p] EXCEPT !.pc = "classify", !.plan = plan]
<1>3. Become(p, me)
  BY <1>1
<1>4. IsPlan(plan)
  <2>1. goal \in Goals
    BY <1>2 DEF PlanInv, Asked
  <2> QED
    BY <2>1, DecomposeIsDag
<1> HIDE DEF plan
<1>5. /\ me.pc = "classify" /\ me.plan = plan /\ me.due = <<>> /\ me.todo = proc[p].todo
      /\ me.outs = proc[p].outs /\ me.mode = proc[p].mode
  BY <1>2 DEF MoneyInv, Shape, Fields
<1> HIDE DEF me
<1>6. proc'[p] = me /\ \A q \in Writers \ {p} : proc'[q] = proc[q]
  BY <1>3, Becomes DEF MoneyInv
<1>7. Told' = Told
  BY <1>2, <1>3, <1>5, ToldMoves
<1>8. Passes' = Passes + 1
  BY <1>2, <1>5, <1>6, <1>7, PassesType DEF Passes, Classified
<1>9. IsPlan(nodes)'
  BY <1>1, <1>4 DEF IsPlan, Distinct, plan
<1>10. Beginning'
  <2>1. CASE p = "run"
    BY <2>1, <1>2, <1>5, <1>6 DEF OnceInv, Beginning, Early
  <2>2. CASE p = "worker"
    <3>1. proc'["run"] = proc["run"] /\ proc["run"].pc \notin {"submit", "queue"}
      BY <2>2, <1>2, <1>6 DEF OnceInv, Beginning
    <3> QED
      BY <3>1 DEF OnceInv, Beginning, Answers, Decided
  <2> QED
    BY <2>1, <2>2
<1>11. ASSUME Passes' <= 1 PROVE FirstPass'
  <2>1. Passes = 0 /\ Passes \in Nat
    BY <1>8, <1>11, PassesType
  <2>2. mode = "" /\ proc["run"].pc \in Early
    <3>1. FirstPass
      BY <2>1 DEF OnceInv
    <3> QED
      BY <2>1, <3>1 DEF FirstPass
  <2>3. proc["run"].mode = "" /\ proc["run"].todo = <<>> /\ proc["run"].outs = <<>>
    BY <2>2 DEF OnceInv, Beginning
  <2>4. \A q \in {"run", "worker"} : proc[q].pc # "classify"
    BY <2>1, PassesType DEF Passes, Classified
  <2>5. \A q \in {"run", "worker"} : proc'[q].pc = "classify" => proc'[q].plan = nodes'
    BY <1>1, <1>5, <1>6, <2>4 DEF plan
  <2>6. /\ proc'["run"].todo = <<>> /\ proc'["run"].outs = <<>> /\ proc'["run"].mode = ""
        /\ proc'["run"].pc \in Early
    BY <1>5, <1>6, <2>2, <2>3 DEF Early
  <2>7. InLoop(proc'["run"], nodes')
    BY <2>6, EmptyLoop DEF Early
  <2>8. InLoop(proc["run"], nodes)'
    BY <2>7
  <2> QED
    BY <1>2, <2>2, <2>5, <2>6, <2>8 DEF FirstPass
<1> QED
  BY <1>9, <1>10, <1>11 DEF OnceInv

\* The path of that graph.
LEMMA ClassifyOnce ==
  ASSUME MoneyInv, OnceInv, NEW p \in {"run", "worker"}, Classify(p)
  PROVE  OnceInv'
<1> USE ThreeWriters
<1> DEFINE me == [proc[p] EXCEPT !.pc = IF p = "run" THEN "view" ELSE "done",
                                 !.plan = <<>>, !.due = Entry("path_classified", 0)]
<1>1. /\ proc[p].pc = "classify" /\ proc[p].due = <<>> /\ Become(p, me)
      /\ mode' = ClassifyPath(goal, proc[p].plan) /\ UNCHANGED <<goal, nodes, log>>
  BY DEF Classify, At, SavePathDecision, chainVars
<1>2. /\ me.pc = (IF p = "run" THEN "view" ELSE "done") /\ me.due = Entry("path_classified", 0)
      /\ me.todo = proc[p].todo /\ me.outs = proc[p].outs /\ me.mode = proc[p].mode
  BY DEF MoneyInv, Shape, Fields
<1> HIDE DEF me
<1>3. proc'[p] = me /\ \A q \in Writers \ {p} : proc'[q] = proc[q]
  BY <1>1, Becomes DEF MoneyInv
<1>4. Told' = Told + 1
  <2>1. Owes(me.due, "path_classified", 0) /\ ~Owes(proc[p].due, "path_classified", 0)
    BY <1>1, <1>2, EntrySpeaks
  <2> QED
    BY <1>1, <2>1, ToldMoves
<1>5. Passes' = Passes /\ Passes \in Nat /\ Passes > 0
  BY <1>1, <1>2, <1>3, <1>4, PassesType DEF Passes, Classified
<1>6. IsPlan(nodes)'
  BY <1>1 DEF OnceInv, IsPlan, Distinct
<1>b. Beginning'
  <2>1. CASE p = "run"
    BY <2>1, <1>1, <1>2, <1>3 DEF OnceInv, Beginning, Early
  <2>2. CASE p = "worker"
    <3>1. proc'["run"] = proc["run"] /\ proc["run"].pc \notin {"submit", "queue"}
      BY <2>2, <1>1, <1>3 DEF OnceInv, Beginning
    <3> QED
      BY <3>1 DEF OnceInv, Beginning, Answers, Decided
  <2> QED
    BY <2>1, <2>2
<1>7. ASSUME Passes <= 1 PROVE FirstPass'
  <2>1. FirstPass
    BY <1>7 DEF OnceInv
  <2>2. mode' = ClassifyPath(goal, nodes)
    BY <1>1, <2>1 DEF FirstPass
  <2>3. \A q \in {"run", "worker"} : proc'[q].pc # "classify"
    BY <1>1, <1>2, <1>3, <1>7, PassesType DEF Passes, Classified
  <2>4. InLoop(proc'["run"], nodes)
    <3>1. CASE p = "run"
      <4>1. InLoop(proc[p], nodes)
        BY <2>1, <3>1 DEF FirstPass
      <4> QED
        BY <1>2, <1>3, <3>1, <4>1, SameLoop
    <3>2. CASE p = "worker"
      BY <1>3, <2>1, <3>2 DEF FirstPass
    <3> QED
      BY <3>1, <3>2
  <2>5. InLoop(proc["run"], nodes)'
    BY <1>1, <2>4
  <2>6. proc'["run"].mode = proc["run"].mode
    BY <1>2, <1>3
  <2>7. ClassifyPath(goal, nodes)' = ClassifyPath(goal, nodes)
    BY <1>1
  <2>8. (proc["run"].mode \in {"", ClassifyPath(goal, nodes)})'
    <3>1. proc["run"].mode \in {"", ClassifyPath(goal, nodes)}
      BY <2>1 DEF FirstPass
    <3> QED
      BY <2>6, <2>7, <3>1
  <2>9. ~(Passes = 0)'
    BY <1>5
  <2>10. (mode \in {"", ClassifyPath(goal, nodes)})'
    BY <2>2, <2>7
  <2> QED
    BY <2>3, <2>5, <2>8, <2>9, <2>10 DEF FirstPass
<1> QED
  BY <1>5, <1>6, <1>b, <1>7 DEF OnceInv

\* The run goes on, with something to say that is not of the path.
LEMMA RunGoesOn ==
  ASSUME MoneyInv, OnceInv, UNCHANGED <<goal, nodes, mode, log>>, NEW pc, NEW due,
         Become("run", [proc["run"] EXCEPT !.pc = pc, !.due = due]),
         ~Owes(due, "path_classified", 0) /\ proc["run"].due = <<>>,
         pc # "failed" /\ ~Failed("run"),
         \/ /\ proc["run"].pc \in Early \ {"classify"}
            /\ pc \in Early \ {"submit", "queue", "classify"}
         \/ /\ proc["run"].pc \notin Early \cup {"hire"}
            /\ pc \notin Early \cup {"hire", "await"}
            /\ pc = "answered" => Answers
  PROVE  OnceInv'
<1> USE ThreeWriters
<1> DEFINE me == [proc["run"] EXCEPT !.pc = pc, !.due = due]
<1>1. /\ me.pc = pc /\ me.due = due /\ me.todo = proc["run"].todo
      /\ me.outs = proc["run"].outs /\ me.mode = proc["run"].mode
      /\ me.plan = proc["run"].plan
  BY DEF MoneyInv, Shape, Fields
<1>2. Become("run", me)
  OBVIOUS
<1> HIDE DEF me
<1>3. Passes' = Passes
  <2>1. me.pc \in {"classify", "failed"} <=> proc["run"].pc \in {"classify", "failed"}
    BY <1>1 DEF Early, Failed
  <2>2. Owes(me.due, "path_classified", 0) <=> Owes(proc["run"].due, "path_classified", 0)
    BY <1>1, EntrySpeaks
  <2> QED
    BY <1>2, <2>1, <2>2, PassesStay
<1> QED
  BY <1>1, <1>2, <1>3, RunGoes

LEMMA GotoIs ==
  ASSUME Shape, NEW p \in Writers, NEW pc, Goto(p, pc), proc[p].due = <<>>
  PROVE  Become(p, [proc[p] EXCEPT !.pc = pc, !.due = <<>>])
<1>1. [proc[p] EXCEPT !.pc = pc] = [proc[p] EXCEPT !.pc = pc, !.due = <<>>]
  BY DEF Shape, Fields
<1> QED
  BY <1>1 DEF Goto

LEMMA VerifyOnce ==
  ASSUME MoneyInv, OnceInv, NEW p \in {"run", "worker"}, Verify(p)
  PROVE  OnceInv'
<1> USE ThreeWriters
<1>1. /\ proc[p].pc = "verify" /\ proc[p].due = <<>>
      /\ Become(p, [proc[p] EXCEPT !.pc = "plan", !.due = <<>>])
      /\ UNCHANGED <<goal, nodes, mode, log>>
  BY GotoIs DEF Verify, At, MoneyInv, chainVars
<1>2. CASE p = "run"
  BY <1>1, <1>2, RunGoesOn, EntrySpeaks DEF Early, Failed
<1>3. CASE p = "worker"
  <2> DEFINE me == [proc[p] EXCEPT !.pc = "plan", !.due = <<>>]
  <2>1. me.pc = "plan" /\ me.due = <<>>
    BY <1>3 DEF MoneyInv, Shape, Fields
  <2>2. Become(p, me)
    BY <1>1
  <2> HIDE DEF me
  <2>3. Passes' = Passes
    BY <1>1, <2>1, <2>2, PassesStay, EntrySpeaks
  <2>4. proc'[p] = me /\ proc'["run"] = proc["run"]
    BY <1>3, <2>2, Becomes DEF MoneyInv
  <2> QED
    BY <1>1, <1>3, <2>1, <2>3, <2>4, OnceStays
<1> QED
  BY <1>2, <1>3

\* The path the job has is the path the run takes.
LEMMA ViewOnce == MoneyInv /\ OnceInv /\ View => OnceInv'
<1> SUFFICES ASSUME MoneyInv, OnceInv, View PROVE OnceInv'
  OBVIOUS
<1> USE ThreeWriters
<1>1. /\ proc["run"].pc = "view" /\ proc["run"].due = <<>>
      /\ UNCHANGED <<goal, nodes, mode, log>>
  BY DEF View, At, chainVars
<1>2. CASE mode = ""
  <2>1. Become("run", [proc["run"] EXCEPT !.pc = "verify", !.due = <<>>])
    BY <1>1, <1>2, GotoIs DEF View, MoneyInv
  <2> QED
    BY <1>1, <2>1, RunGoesOn, EntrySpeaks DEF Early, Failed
<1>3. CASE mode # ""
  <2> DEFINE me == [proc["run"] EXCEPT !.pc = "hire", !.mode = mode,
                                       !.due = Entry("conductor_start", 0)]
  <2>1. Become("run", me)
    BY <1>3 DEF View
  <2>2. /\ me.pc = "hire" /\ me.mode = mode /\ me.due = Entry("conductor_start", 0)
        /\ me.todo = proc["run"].todo /\ me.outs = proc["run"].outs
    BY DEF MoneyInv, Shape, Fields
  <2> HIDE DEF me
  <2>3. proc'["run"] = me /\ proc'["worker"] = proc["worker"]
    BY <2>1, Becomes DEF MoneyInv
  <2>4. Passes' = Passes
    BY <1>1, <2>1, <2>2, PassesStay, OtherEntry, EntrySpeaks
  <2>5. me.todo = <<>> /\ me.outs = <<>>
    BY <1>1, <2>2 DEF OnceInv, Beginning, Early
  <2>6. IsPlan(nodes)' /\ Beginning'
    BY <1>1, <2>2, <2>3, <2>5 DEF OnceInv, IsPlan, Distinct, Beginning, Early
  <2>7. ASSUME Passes <= 1 PROVE FirstPass'
    <3>1. FirstPass
      BY <2>7 DEF OnceInv
    <3>2. InLoop(me, nodes)
      BY <2>2, <2>5, EmptyLoop
    <3>3. InLoop(proc["run"], nodes)'
      BY <1>1, <2>3, <3>2
    <3> QED
      BY <1>1, <1>3, <2>2, <2>3, <2>4, <3>1, <3>3 DEF FirstPass
  <2> QED
    BY <2>4, <2>6, <2>7 DEF OnceInv
<1> QED
  BY <1>2, <1>3

\* The run goes on in its loop over the saved graph.
LEMMA LoopOnce ==
  ASSUME MoneyInv, OnceInv, UNCHANGED <<goal, nodes, mode, log>>,
         proc["run"].pc \in {"hire", "node", "await"}, proc["run"].due = <<>>,
         NEW me, Become("run", me), me.pc \in {"node", "await"}, me.mode = proc["run"].mode,
         ~Owes(me.due, "path_classified", 0),
         Passes <= 1 => InLoop(me, nodes)
  PROVE  OnceInv'
<1> USE ThreeWriters
<1>1. proc'["run"] = me /\ proc'["worker"] = proc["worker"]
  BY Becomes DEF MoneyInv
<1>2. Passes' = Passes
  BY PassesStay, EntrySpeaks
<1>3. IsPlan(nodes)' /\ Beginning'
  BY <1>1 DEF OnceInv, IsPlan, Distinct, Beginning, Early
<1>4. ASSUME Passes <= 1 PROVE FirstPass'
  <2>1. FirstPass
    BY <1>4 DEF OnceInv
  <2>2. InLoop(proc["run"], nodes)'
    BY <1>1, <1>4
  <2> QED
    BY <1>1, <1>2, <2>1, <2>2 DEF FirstPass, Early
<1> QED
  BY <1>2, <1>3, <1>4 DEF OnceInv

LEMMA ReadJobOnce == MoneyInv /\ OnceInv /\ ReadJob("run") => OnceInv'
<1> SUFFICES ASSUME MoneyInv, OnceInv, ReadJob("run") PROVE OnceInv'
  OBVIOUS
<1> USE ThreeWriters
<1> DEFINE me == [proc["run"] EXCEPT !.pc = "node", !.todo = nodes, !.held = ActiveNodes]
<1>1. /\ Become("run", me) /\ proc["run"].pc = "hire" /\ proc["run"].due = <<>>
      /\ UNCHANGED <<goal, nodes, mode, log>>
  BY DEF ReadJob, At, chainVars
<1> HIDE DEF ActiveNodes
<1>2. /\ me.pc = "node" /\ me.todo = nodes /\ me.outs = proc["run"].outs
      /\ me.due = proc["run"].due /\ me.mode = proc["run"].mode
  BY DEF MoneyInv, Shape, Fields
<1> HIDE DEF me
<1>3. me.outs = <<>>
  BY <1>1, <1>2 DEF OnceInv, Beginning
<1>4. nodes \in Seq(Nodes(nodes)) /\ Distinct(nodes)
  <2>1. nodes \in [1..Len(nodes) -> Nodes(nodes)] /\ Len(nodes) \in Nat
    BY DEF OnceInv, IsPlan, Nodes
  <2> QED
    BY <2>1, SeqDef DEF OnceInv, IsPlan
<1>5. InLoop(me, nodes)
  <2>1. ToSet(me.outs) = {} /\ <<>> \in Seq({})
    BY <1>3, EmptySeq DEF ToSet
  <2> QED
    BY <1>2, <1>3, <1>4, <2>1 DEF InLoop
<1> QED
  BY <1>1, <1>2, <1>5, LoopOnce, EntrySpeaks

LEMMA DoneOnce ==
  ASSUME MoneyInv, OnceInv, UNCHANGED <<goal, nodes, mode, log>>,
         proc["run"].pc \in {"node", "await"}, proc["run"].due = <<>>,
         NEW decision, NEW amount, NEW due, ~Owes(due, "path_classified", 0),
         Done("run", decision, amount, due),
         proc["run"].pc = "node" =>
           proc["run"].todo # <<>> /\ (decision = "skipped" \/ Needed(Node("run")))
  PROVE  OnceInv'
<1> DEFINE out == [key |-> Node("run").key, decision |-> decision, amount |-> amount]
           me == [proc["run"] EXCEPT !.pc = "node", !.todo = Tail(@), !.agent = None, !.due = due,
                                     !.outs = Append(@, out)]
<1>1. Become("run", me)
  BY DEF Done
<1>2. out.key = Head(proc["run"].todo).key /\ out.decision = decision
  BY DEF Node
<1> HIDE DEF out
<1>3. /\ me.pc = "node" /\ me.due = due /\ me.mode = proc["run"].mode
      /\ me.todo = Tail(proc["run"].todo) /\ me.outs = Append(proc["run"].outs, out)
  BY ThreeWriters DEF MoneyInv, Shape, Fields
<1> HIDE DEF me
<1>4. ASSUME Passes <= 1 PROVE InLoop(me, nodes)
  <2>1. InLoop(proc["run"], nodes)
    BY <1>4 DEF OnceInv, FirstPass
  <2>2. /\ proc["run"].todo # <<>>
        /\ decision = "skipped" \/ Needed(Head(proc["run"].todo))
    BY <2>1 DEF InLoop, Node
  <2> QED
    BY <1>2, <1>3, <2>1, <2>2, DecideNode
<1> QED
  BY <1>1, <1>3, <1>4, LoopOnce

\* The loop of the run.
LEMMA ForemanOnce ==
  ASSUME MoneyInv, OnceInv, Foreman("run")
  PROVE  OnceInv'
<1> USE ThreeWriters
<1>1. UNCHANGED <<goal, nodes, mode, log>> /\ proc["run"].due = <<>>
  BY DEF Foreman, ReadJob, Skip, Escalate, Hire, CallDirect, HireUnder, Call, Serviced, GiveUp,
         EndLoop, Wanted, AtNode, At, chainVars
<1>2. CASE Skip("run") \/ Escalate("run")
  <2>1. /\ proc["run"].pc = "node" /\ proc["run"].todo # <<>>
        /\ \E decision : /\ decision = "skipped" \/ Needed(Node("run"))
                         /\ Done("run", decision, 0, <<>>)
    BY <1>2 DEF Skip, Escalate, Wanted, AtNode, At
  <2> QED
    BY <1>1, <2>1, DoneOnce, EntrySpeaks
<1>3. CASE Hire("run") \/ CallDirect("run")
  <2>1. /\ proc["run"].pc = "node" /\ proc["run"].todo # <<>> /\ Needed(Node("run"))
        /\ \E amount, key : Done("run", "hired", amount, Entry("hire", key))
    BY <1>3 DEF Hire, CallDirect, HireUnder, Wanted, AtNode, At, OpenEscrow
  <2> QED
    BY <1>1, <2>1, DoneOnce, OtherEntry
<1>4. CASE Call("run")
  <2>1. PICK a \in Agents : Become("run", [proc["run"] EXCEPT !.pc = "await", !.agent = a])
    BY <1>4 DEF Call
  <2>2. proc["run"].pc = "node" /\ proc["run"].todo # <<>> /\ Needed(Node("run"))
    BY <1>4 DEF Call, Wanted, AtNode, At
  <2> DEFINE me == [proc["run"] EXCEPT !.pc = "await", !.agent = a]
  <2>3. /\ me.pc = "await" /\ me.due = proc["run"].due /\ me.mode = proc["run"].mode
        /\ me.todo = proc["run"].todo /\ me.outs = proc["run"].outs
    BY DEF MoneyInv, Shape, Fields
  <2>4. Become("run", me)
    BY <2>1
  <2> HIDE DEF me
  <2>5. ASSUME Passes <= 1 PROVE InLoop(me, nodes)
    <3>1. InLoop(proc["run"], nodes)
      BY <2>5 DEF OnceInv, FirstPass
    <3> QED
      BY <2>2, <2>3, <3>1 DEF InLoop, Node
  <2> QED
    BY <1>1, <2>2, <2>3, <2>4, <2>5, LoopOnce, EntrySpeaks
<1>5. CASE Serviced("run") \/ GiveUp("run")
  <2>1. /\ proc["run"].pc = "await"
        /\ \E decision, amount, kind, key :
             kind # "path_classified" /\ Done("run", decision, amount, Entry(kind, key))
    BY <1>5 DEF Serviced, GiveUp, OpenEscrow, At
  <2> QED
    BY <1>1, <2>1, DoneOnce, OtherEntry
<1>6. CASE EndLoop("run")
  <2>1. Goto("run", "decide") /\ proc["run"].pc = "node"
    BY <1>6 DEF EndLoop, At
  <2>2. Become("run", [proc["run"] EXCEPT !.pc = "decide", !.due = <<>>])
    BY <1>1, <2>1, GotoIs DEF MoneyInv
  <2> QED
    BY <1>1, <2>1, <2>2, RunGoesOn, EntrySpeaks DEF Early, Failed
<1> QED
  BY <1>2, <1>3, <1>4, <1>5, <1>6, ReadJobOnce DEF Foreman

\* The run ends, and keeps nothing.
LEMMA EndOnce ==
  ASSUME MoneyInv, OnceInv, UNCHANGED <<goal, nodes, mode, log>>,
         NEW pc \in {"done", "failed"}, NEW due, Become("run", [Fresh(pc) EXCEPT !.due = due]),
         Owes(due, "path_classified", 0) <=> Owes(proc["run"].due, "path_classified", 0),
         pc = "done" => proc["run"].pc \notin Early /\ ~Failed("run")
  PROVE  OnceInv'
<1> USE ThreeWriters
<1> DEFINE me == [Fresh(pc) EXCEPT !.due = due]
<1>1. /\ Become("run", me) /\ me.pc = pc /\ me.due = due
      /\ me.todo = <<>> /\ me.outs = <<>> /\ me.mode = ""
  BY Anew
<1> HIDE DEF me
<1>2. proc'["run"] = me /\ proc'["worker"] = proc["worker"]
  BY <1>1, Becomes DEF MoneyInv
<1>3. Told' = Told
  BY <1>1, ToldMoves
<1>4. Classified("worker")' = Classified("worker")
  BY <1>2 DEF Classified
<1>5. /\ Classified("run")' \in {0, 1} /\ Classified("run") \in {0, 1}
      /\ Classified("run") <= Classified("run")' /\ (pc = "failed" => Classified("run")' = 1)
  <2>1. proc'["run"].pc = pc
    BY <1>1, <1>2
  <2>2. CASE pc = "failed"
    BY <2>1, <2>2 DEF Classified
  <2>3. CASE pc = "done"
    <3>1. proc["run"].pc \notin {"classify", "failed"}
      BY <2>3 DEF Early, Failed
    <3> QED
      BY <2>1, <2>3, <3>1 DEF Classified
  <2> QED
    BY <2>2, <2>3
<1>6. /\ Passes \in Nat /\ Passes' \in Nat /\ Passes <= Passes'
      /\ pc = "failed" => Passes' # 0
  <2>1. Told \in Nat /\ Classified("worker") \in {0, 1}
    BY PassesType DEF Classified
  <2> QED
    BY <1>3, <1>4, <1>5, <2>1 DEF Passes
<1>7. IsPlan(nodes)' /\ Beginning'
  BY <1>1, <1>2 DEF OnceInv, IsPlan, Distinct, Beginning, Early
<1>8. ASSUME Passes' <= 1 PROVE FirstPass'
  <2>1. FirstPass
    BY <1>6, <1>8 DEF OnceInv
  <2>2. InLoop(me, nodes)
    BY <1>1, EmptyLoop
  <2>3. InLoop(proc["run"], nodes)'
    BY <1>2, <2>2
  <2>4. Passes' # 0
    <3>1. pc = "done" => Passes # 0
      BY <2>1 DEF FirstPass
    <3> QED
      BY <1>6, <3>1
  <2> QED
    BY <1>1, <1>2, <2>1, <2>3, <2>4 DEF FirstPass
<1> QED
  BY <1>7, <1>8 DEF OnceInv

\* What the run does after its loop.
LEMMA AfterLoopOnce ==
  ASSUME MoneyInv, OnceInv, Decide \/ RunRoom \/ Report \/ Release("run") \/ SignedOff("run")
  PROVE  OnceInv'
<1> USE ThreeWriters
<1>1. UNCHANGED <<goal, nodes, mode, log>> /\ proc["run"].due = <<>>
  BY DEF Decide, RunRoom, Report, Release, SignedOff, At, chainVars
<1>2. proc["run"].pc \in {"decide", "room", "report", "sign"}
  BY DEF Decide, RunRoom, Report, Release, SignedOff, At
<1>3. ASSUME NEW pc \in {"answered", "report", "room", "sign"}, NEW due,
             Become("run", [proc["run"] EXCEPT !.pc = pc, !.due = due]),
             pc = "answered" => Answers, ~Owes(due, "path_classified", 0)
      PROVE  OnceInv'
  <2>1. /\ proc["run"].pc \notin Early \cup {"hire"}
        /\ pc \notin Early \cup {"hire", "await"}
    BY <1>2 DEF Early
  <2> QED
    BY <1>1, <1>2, <1>3, <2>1, RunGoesOn DEF Failed
<1>4. ASSUME NEW pc \in {"report", "room", "sign"}, Goto("run", pc) PROVE OnceInv'
  <2>1. Become("run", [proc["run"] EXCEPT !.pc = pc, !.due = <<>>])
    BY <1>1, <1>4, GotoIs DEF MoneyInv
  <2>2. ~Owes(<<>>, "path_classified", 0)
    BY EntrySpeaks
  <2> QED
    BY <1>3, <2>1, <2>2
<1>5. CASE Decide
  <2>1. CASE Answers
    <3>1. Become("run", [proc["run"] EXCEPT !.pc = "answered", !.due = Entry("conductor_done", 0)])
      BY <1>5, <2>1 DEF Decide
    <3> QED
      BY <1>3, <2>1, <3>1, OtherEntry
  <2>2. CASE ~Answers
    <3>1. \E pc \in {"report", "room"} : Goto("run", pc)
      BY <1>5, <2>2 DEF Decide
    <3> QED
      BY <1>4, <3>1
  <2> QED
    BY <2>1, <2>2
<1>6. CASE RunRoom
  <2>1. \E next \in {"sign", "report"} : Goto("run", next)
    BY <1>6 DEF RunRoom
  <2> QED
    BY <1>4, <2>1
<1>7. CASE Report
  <2>1. Become("run", [Fresh("done") EXCEPT !.due = Entry("conductor_done", 0)])
    BY <1>7 DEF Report
  <2>2. ~Owes(Entry("conductor_done", 0), "path_classified", 0) /\ ~Owes(<<>>, "path_classified", 0)
    BY OtherEntry, EntrySpeaks
  <2> QED
    BY <1>1, <1>2, <2>1, <2>2, EndOnce DEF Early, Failed
<1>8. CASE Release("run")
  <2> DEFINE due == Entry("payment_released", hires[Unpaid].key)
  <2>1. proc["run"].pc = "sign" /\ Become("run", [proc["run"] EXCEPT !.due = due])
    BY <1>8 DEF Release, At
  <2>2. [proc["run"] EXCEPT !.due = due] = [proc["run"] EXCEPT !.pc = "sign", !.due = due]
    BY <2>1 DEF MoneyInv, Shape, Fields
  <2>3. ~Owes(due, "path_classified", 0)
    BY OtherEntry
  <2> HIDE DEF due
  <2>4. Become("run", [proc["run"] EXCEPT !.pc = "sign", !.due = due])
    BY <2>1, <2>2
  <2> QED
    BY <1>3, <2>3, <2>4
<1>9. CASE SignedOff("run")
  <2>1. Goto("run", "report")
    BY <1>9 DEF SignedOff
  <2> QED
    BY <1>4, <2>1
<1> QED
  BY <1>5, <1>6, <1>7, <1>8, <1>9

\* What the user does.
LEMMA UserOnce ==
  ASSUME MoneyInv, OnceInv, UNCHANGED <<goal, nodes, mode, log>>,
         NEW me, Become("user", me),
         Owes(me.due, "path_classified", 0) <=> Owes(proc["user"].due, "path_classified", 0)
  PROVE  OnceInv'
<1> USE ThreeWriters
<1>1. Passes' = Passes
  BY PassesStay
<1>2. proc'["run"] = proc["run"] /\ proc'["worker"] = proc["worker"]
  BY Becomes DEF MoneyInv
<1> QED
  BY <1>1, <1>2, OnceStays

LEMMA UserStepOnce ==
  ASSUME MoneyInv, OnceInv,
         UserDistills \/ UserHires \/ UserSigns \/ Foreman("user") \/ Release("user")
           \/ SignedOff("user")
  PROVE  OnceInv'
<1> USE ThreeWriters
<1>1. UNCHANGED <<goal, nodes, mode, log>>
  BY DEF UserDistills, UserHires, UserSigns, Foreman, ReadJob, Skip, Escalate, Hire, CallDirect,
         HireUnder, Call, Serviced, GiveUp, EndLoop, Release, SignedOff, chainVars
<1>2. ASSUME NEW due, ~Owes(due, "path_classified", 0), proc["user"].due = <<>>,
             NEW decision, NEW amount, Done("user", decision, amount, due)
      PROVE  OnceInv'
  <2> DEFINE out == [key |-> Node("user").key, decision |-> decision, amount |-> amount]
             me == [proc["user"] EXCEPT !.pc = "node", !.todo = Tail(@), !.agent = None,
                                        !.due = due, !.outs = Append(@, out)]
  <2>1. Become("user", me)
    BY <1>2 DEF Done
  <2> HIDE DEF out
  <2>2. me.due = due
    BY DEF MoneyInv, Shape, Fields
  <2> HIDE DEF me
  <2> QED
    BY <1>1, <1>2, <2>1, <2>2, UserOnce, EntrySpeaks
<1>3. ASSUME NEW pc, Goto("user", pc) PROVE OnceInv'
  <2> DEFINE me == [proc["user"] EXCEPT !.pc = pc]
  <2>1. Become("user", me)
    BY <1>3 DEF Goto
  <2>2. me.due = proc["user"].due
    BY DEF MoneyInv, Shape, Fields
  <2> HIDE DEF me
  <2> QED
    BY <1>1, <2>1, <2>2, UserOnce
<1>4. CASE UserDistills \/ UserHires \/ UserSigns \/ EndLoop("user") \/ SignedOff("user")
  <2>1. \E pc : Goto("user", pc)
    BY <1>4 DEF UserDistills, UserHires, UserSigns, EndLoop, SignedOff
  <2> QED
    BY <1>3, <2>1
<1>5. CASE \/ Skip("user") \/ Escalate("user") \/ Hire("user") \/ CallDirect("user")
           \/ Serviced("user") \/ GiveUp("user")
  <2>1. proc["user"].due = <<>>
    BY <1>5 DEF Skip, Escalate, Hire, CallDirect, HireUnder, Serviced, GiveUp, Wanted, AtNode, At
  <2>2. \E decision, amount, due : /\ Done("user", decision, amount, due)
                                   /\ ~Owes(due, "path_classified", 0)
    <3>1. CASE Skip("user") \/ Escalate("user")
      BY <3>1, EntrySpeaks DEF Skip, Escalate
    <3>2. CASE Hire("user") \/ CallDirect("user") \/ Serviced("user") \/ GiveUp("user")
      <4>1. \E decision, amount, kind, key :
              kind # "path_classified" /\ Done("user", decision, amount, Entry(kind, key))
        BY <3>2 DEF Hire, CallDirect, HireUnder, Serviced, GiveUp, OpenEscrow
      <4> QED
        BY <4>1, OtherEntry
    <3> QED
      BY <1>5, <3>1, <3>2
  <2> QED
    BY <1>2, <2>1, <2>2
<1>6. CASE ReadJob("user")
  <2> DEFINE me == [proc["user"] EXCEPT !.pc = "node", !.todo = nodes, !.held = ActiveNodes]
  <2>1. Become("user", me)
    BY <1>6 DEF ReadJob
  <2>2. me.due = proc["user"].due
    BY DEF MoneyInv, Shape, Fields
  <2> HIDE DEF me
  <2> QED
    BY <1>1, <2>1, <2>2, UserOnce
<1>7. CASE Call("user")
  <2>1. PICK a : Become("user", [proc["user"] EXCEPT !.pc = "await", !.agent = a])
    BY <1>7 DEF Call
  <2> DEFINE me == [proc["user"] EXCEPT !.pc = "await", !.agent = a]
  <2>2. Become("user", me)
    BY <2>1
  <2>3. me.due = proc["user"].due
    BY DEF MoneyInv, Shape, Fields
  <2> HIDE DEF me
  <2> QED
    BY <1>1, <2>2, <2>3, UserOnce
<1>8. CASE Release("user")
  <2> DEFINE due == Entry("payment_released", hires[Unpaid].key)
             me == [proc["user"] EXCEPT !.due = due]
  <2>1. Become("user", me) /\ proc["user"].due = <<>>
    BY <1>8 DEF Release, At
  <2>2. ~Owes(due, "path_classified", 0)
    BY OtherEntry
  <2> HIDE DEF due
  <2>3. me.due = due
    BY DEF MoneyInv, Shape, Fields
  <2> HIDE DEF me
  <2> QED
    BY <1>1, <2>1, <2>2, <2>3, UserOnce, EntrySpeaks
<1> QED
  BY <1>4, <1>5, <1>6, <1>7, <1>8 DEF Foreman

\* What was due is said.
LEMMA SayOnce == ASSUME MoneyInv, OnceInv, NEW p \in Writers, Say(p) PROVE OnceInv'
<1> USE ThreeWriters
<1> DEFINE me == [proc[p] EXCEPT !.due = <<>>]
<1>1. Become(p, me) /\ UNCHANGED <<goal, nodes, mode>>
  BY DEF Say
<1>2. /\ me.pc = proc[p].pc /\ me.plan = proc[p].plan /\ me.mode = proc[p].mode
      /\ me.todo = proc[p].todo /\ me.outs = proc[p].outs
  BY DEF MoneyInv, Shape, Fields
<1> HIDE DEF me
<1>3. proc'[p] = me /\ \A q \in Writers \ {p} : proc'[q] = proc[q]
  BY <1>1, Becomes DEF MoneyInv
<1>4. Told' = Told
  <2>1. Cardinality(Logged("path_classified", 0)') + Cardinality(Unlogged("path_classified", 0)')
          = Cardinality(Logged("path_classified", 0))
              + Cardinality(Unlogged("path_classified", 0))
    BY SayTells
  <2>2. Told' = Cardinality(Logged("path_classified", 0)')
                  + Cardinality(Unlogged("path_classified", 0)')
    BY DEF Told, Said, Logged, Unlogged, Owes
  <2> QED
    BY <2>1, <2>2, ToldIs
<1>5. Passes' = Passes
  BY <1>2, <1>3, <1>4 DEF Passes, Classified
<1>6. CASE p = "run"
  BY <1>1, <1>2, <1>5, <1>6, RunGoes
<1>7. CASE p # "run"
  <2>1. /\ proc'["run"] = proc["run"] /\ proc'["worker"].pc = proc["worker"].pc
        /\ proc'["worker"].plan = proc["worker"].plan
    BY <1>2, <1>3, <1>7
  <2> QED
    BY <1>1, <1>5, <2>1, OnceStays
<1> QED
  BY <1>6, <1>7

\* Whoever fails, what it was to say stays unsaid.
LEMMA FailOnce == ASSUME MoneyInv, OnceInv, NEW p \in Writers, Fail(p) PROVE OnceInv'
<1> USE ThreeWriters
<1> DEFINE me == [Fresh("failed") EXCEPT !.due = proc[p].due]
<1>1. /\ Become(p, me) /\ proc[p].pc \notin {"submit", "idle", "failed"}
      /\ UNCHANGED <<goal, nodes, mode, log>>
  BY DEF Fail, AtWork, Failed, Rollback, chainVars
<1>2. me.pc = "failed" /\ me.due = proc[p].due
  BY DEF Fresh
<1>3. CASE p = "run"
  BY <1>1, <1>3, EndOnce
<1> HIDE DEF me
<1>4. CASE p = "user"
  BY <1>1, <1>2, <1>4, UserOnce
<1>5. CASE p = "worker"
  <2>1. proc'[p] = me /\ proc'["run"] = proc["run"]
    BY <1>1, <1>5, Becomes DEF MoneyInv
  <2>2. Told' = Told
    BY <1>1, <1>2, ToldMoves
  <2>3. Classified("run")' = Classified("run") /\ Classified("worker")' = 1
        /\ Classified("worker") \in {0, 1} /\ Classified("run") \in {0, 1}
    BY <1>2, <1>5, <2>1 DEF Classified
  <2>4. Passes' = Passes \/ Passes' = Passes + 1
    BY <2>2, <2>3, PassesType DEF Passes
  <2> QED
    BY <1>1, <1>2, <1>5, <2>1, <2>4, OnceStays
<1> QED
  BY <1>3, <1>4, <1>5, JobAssumption

LEMMA OnceInit == Init => OnceInv
<1> SUFFICES ASSUME Init PROVE OnceInv
  OBVIOUS
<1>1. /\ nodes = <<>> /\ mode = ""
      /\ proc = [p \in Writers |-> Fresh(IF p = "run" THEN "submit" ELSE "idle")]
  BY DEF Init
<1>f. proc["run"] = Fresh("submit") /\ proc["worker"] = Fresh("idle")
  BY <1>1, ThreeWriters
<1>2. IsPlan(nodes)
  BY <1>1, NothingIsDag
<1>0. /\ proc["run"].pc = "submit" /\ proc["run"].mode = "" /\ proc["run"].todo = <<>>
      /\ proc["run"].outs = <<>> /\ proc["worker"].pc = "idle"
  <2>1. ASSUME NEW pc
        PROVE  /\ Fresh(pc).pc = pc /\ Fresh(pc).mode = ""
               /\ Fresh(pc).todo = <<>> /\ Fresh(pc).outs = <<>>
    BY DEF Fresh
  <2> QED
    BY <1>f, <2>1
<1>3. Beginning
  BY <1>0, <1>1 DEF Beginning, Early
<1>4. InLoop(proc["run"], nodes)
  BY <1>0, EmptyLoop
<1>5. FirstPass
  BY <1>0, <1>1, <1>4 DEF FirstPass, Early
<1> QED
  BY <1>2, <1>3, <1>5 DEF OnceInv

LEMMA OnceStep == MoneyInv /\ PlanInv /\ OnceInv /\ [Next]_vars => OnceInv'
<1> SUFFICES ASSUME MoneyInv, PlanInv, OnceInv, [Next]_vars PROVE OnceInv'
  OBVIOUS
<1>1. CASE HouseActs \/ Audits \/ UNCHANGED vars \/ \E p \in Writers : Lock(p)
  <2>1. UNCHANGED <<goal, nodes, mode, proc, log>>
    BY <1>1 DEF HouseActs, Audits, VerifyRows, VerifyHead, Lock, BeginAppend, jobVars, chainVars,
                vars
  <2>2. Passes' = Passes
    BY <2>1 DEF Passes, Classified, Told, Said, Logged, Unlogged, Owes
  <2> QED
    BY <2>1, <2>2, OnceStays
<1>2. ASSUME NEW p \in {"run", "worker"}, Process(p) PROVE OnceInv'
  BY <1>2, VerifyOnce, PlanOnce, ClassifyOnce DEF Process
<1> QED
  BY <1>1, <1>2, SubmitOnce, EnqueueOnce, ViewOnce, ForemanOnce, AfterLoopOnce, UserStepOnce,
     SayOnce, FailOnce DEF Next

\* The path of one call is that of one node: what was not skipped is that node.
LEMMA OneNodeAnswers == MoneyInv /\ OnceInv => DirectAnswersAll
<1> SUFFICES ASSUME MoneyInv, OnceInv, proc["run"].pc = "answered",
                    ~(Told + Classified("worker") > 1)
             PROVE  Cardinality({o \in ToSet(proc["run"].outs) : o.decision # "skipped"}) = 1
  BY DEF DirectAnswersAll, Told, Classified
<1>0. Passes <= 1
  <2>1. Classified("run") = 0 /\ Classified("worker") \in Nat /\ Told \in Nat
    BY PassesType DEF Classified
  <2> QED
    BY <2>1 DEF Passes
<1> DEFINE bought == {o \in ToSet(proc["run"].outs) : o.decision # "skipped"}
<1>1. FirstPass /\ Answers
  BY <1>0 DEF OnceInv, Beginning
<1>2. Cardinality(WorkNodes(nodes)) = 1
  BY <1>1 DEF FirstPass, Answers, ClassifyPath
<1>3. IsFiniteSet(WorkNodes(nodes))
  <2> DEFINE N == Len(nodes)
  <2>1. nodes \in [1..N -> Nodes(nodes)] /\ N \in Nat /\ DOMAIN nodes = 1..N
    BY DEF OnceInv, IsPlan, Nodes
  <2>2. nodes \in Surjection(1..N, Nodes(nodes))
    BY <2>1 DEF Surjection, Nodes
  <2>3. IsFiniteSet(Nodes(nodes))
    BY <2>1, <2>2, CountTo, FS_Surjection
  <2> QED
    BY <2>3, FS_Subset DEF WorkNodes
<1>4. PICK w : WorkNodes(nodes) = {w}
  BY <1>2, <1>3, FS_Singleton
<1>5. \A o \in bought : o.key = w.key
  BY <1>1, <1>4 DEF FirstPass, InLoop
<1>6. \A o1, o2 \in bought : o1 = o2
  <2>1. \A o1, o2 \in ToSet(proc["run"].outs) : o1.key = o2.key => o1 = o2
    BY <1>1 DEF FirstPass, InLoop
  <2>2. bought \subseteq ToSet(proc["run"].outs)
    OBVIOUS
  <2> HIDE DEF bought
  <2> QED
    BY <1>5, <2>1, <2>2
<1>7. bought # {}
  BY <1>1 DEF Answers, Decided
<1>8. PICK o : bought = {o}
  BY <1>6, <1>7
<1> QED
  BY <1>8, FS_Singleton

\* core/conductor.py, the direct answer: in every interleaving of the run and a worker, if
\* the job was classified once, an answer that ends the job stands for all of it - nothing
\* else was bought, and nothing waits for the owner.
THEOREM DirectAnswersAllCorrect == Spec => []DirectAnswersAll
<1>1. Spec => [](MoneyInv /\ PlanInv)
  BY MoneyInit, MoneyStep, PlanInit, PlanStep, PTL DEF Spec
<1> QED
  BY <1>1, OnceInit, OnceStep, OneNodeAnswers, PTL DEF Spec

-----------------------------------------------------------------------------
(* What the headline of a run is.                                          *)

\* g adds up the first amounts of d, up to N of them.
Adds(g, d, N) == g = [i \in 0..N |-> IF i = 0 THEN 0 ELSE g[i - 1] + d[i]]

LEMMA AddsUpTo ==
  ASSUME NEW d, NEW N \in Nat
  PROVE  \E g : Adds(g, d, N)
<1> DEFINE Bad == {n \in Nat : \A g : ~Adds(g, d, n)}
<1> SUFFICES ASSUME Bad # {} PROVE FALSE
  BY DEF Bad
<1>1. PICK m \in Bad : \A n \in Bad : m <= n
  <2>1. Bad \subseteq Nat
    OBVIOUS
  <2> HIDE DEF Bad
  <2> QED
    BY <2>1, LeastElement
<1>2. m # 0
  <2> DEFINE g == [i \in 0..0 |-> 0]
  <2>1. g = [i \in 0..0 |-> IF i = 0 THEN 0 ELSE g[i - 1] + d[i]]
    OBVIOUS
  <2> HIDE DEF g
  <2> QED
    BY <2>1 DEF Adds
<1>3. m \in Nat /\ m - 1 \in Nat /\ m - 1 \notin Bad
  <2>1. m \in Nat /\ m - 1 \in Nat
    BY <1>2
  <2>2. ~(m <= m - 1)
    BY <2>1
  <2> QED
    BY <1>1, <2>1, <2>2
<1>4. PICK g : Adds(g, d, m - 1)
  BY <1>3
<1> DEFINE h == [i \in 0..m |-> IF i = m THEN g[m - 1] + d[m] ELSE g[i]]
<1>5. \A i \in 0..m : h[i] = IF i = 0 THEN 0 ELSE h[i - 1] + d[i]
  <2> SUFFICES ASSUME NEW i \in 0..m PROVE h[i] = IF i = 0 THEN 0 ELSE h[i - 1] + d[i]
    OBVIOUS
  <2>1. CASE i = m
    <3>1. m - 1 \in 0..m /\ m - 1 # m
      BY <1>3
    <3>2. h[m - 1] = g[m - 1]
      BY <3>1
    <3>3. h[m] = g[m - 1] + d[m]
      BY <1>3
    <3> HIDE DEF h
    <3> QED
      BY <1>2, <2>1, <3>2, <3>3
  <2>2. CASE i # m
    <3>1. i \in 0..(m - 1)
      BY <1>3, <2>2
    <3>2. g[i] = IF i = 0 THEN 0 ELSE g[i - 1] + d[i]
      BY <1>4, <3>1 DEF Adds
    <3>3. h[i] = g[i]
      BY <2>2
    <3>4. i # 0 => h[i - 1] = g[i - 1]
      BY <1>3, <3>1
    <3> HIDE DEF h
    <3> QED
      BY <3>2, <3>3, <3>4
  <2> QED
    BY <2>1, <2>2
<1>6. Adds(h, d, m)
  <2>1. h = [i \in 0..m |-> h[i]]
    OBVIOUS
  <2> HIDE DEF h
  <2> QED
    BY <1>5, <2>1 DEF Adds
<1> HIDE DEF h
<1> QED
  BY <1>1, <1>6

LEMMA SumIsLast ==
  ASSUME NEW d, Len(d) \in Nat
  PROVE  \E g : Adds(g, d, Len(d)) /\ SumOf(d) = g[Len(d)]
<1> DEFINE sum == CHOOSE sum : sum = [i \in 0..Len(d) |-> IF i = 0 THEN 0 ELSE sum[i - 1] + d[i]]
<1>1. SumOf(d) = sum[Len(d)]
  BY DEF SumOf
<1>2. \E g : g = [i \in 0..Len(d) |-> IF i = 0 THEN 0 ELSE g[i - 1] + d[i]]
  BY AddsUpTo DEF Adds
<1>3. sum = [i \in 0..Len(d) |-> IF i = 0 THEN 0 ELSE sum[i - 1] + d[i]]
  BY <1>2
<1> HIDE DEF sum
<1> QED
  BY <1>1, <1>3 DEF Adds

\* Sums of the same amounts are the same, as far as they are.
LEMMA AddsTheSame ==
  ASSUME NEW M \in Nat, NEW N \in Nat, NEW n \in Nat, n <= M, n <= N,
         NEW g, NEW d, Adds(g, d, M), NEW h, NEW e, Adds(h, e, N),
         \A i \in 1..n : d[i] = e[i] /\ d[i] \in Nat
  PROVE  \A i \in 0..n : g[i] = h[i] /\ g[i] \in Nat
<1> DEFINE Bad == {i \in 0..n : ~(g[i] = h[i] /\ g[i] \in Nat)}
<1> SUFFICES ASSUME Bad # {} PROVE FALSE
  OBVIOUS
<1>1. PICK m \in Bad : \A i \in Bad : m <= i
  <2>1. Bad \subseteq Nat
    OBVIOUS
  <2> HIDE DEF Bad
  <2> QED
    BY <2>1, LeastElement
<1>2. m \in 0..n /\ m \in 0..M /\ m \in 0..N
  OBVIOUS
<1>3. /\ g[m] = IF m = 0 THEN 0 ELSE g[m - 1] + d[m]
      /\ h[m] = IF m = 0 THEN 0 ELSE h[m - 1] + e[m]
  BY <1>2 DEF Adds
<1>4. m # 0
  BY <1>3
<1>5. g[m - 1] = h[m - 1] /\ g[m - 1] \in Nat
  <2>1. m - 1 \in 0..n /\ ~(m <= m - 1)
    BY <1>2, <1>4
  <2> QED
    BY <1>1, <2>1
<1>6. d[m] = e[m] /\ d[m] \in Nat
  BY <1>2, <1>4
<1> QED
  BY <1>3, <1>4, <1>5, <1>6

\* As many amounts as that, and their number.
Book(d, n) == d = [i \in 1..n |-> d[i]]

LEMMA LenOf == ASSUME NEW n \in Nat, NEW d, Book(d, n) PROVE Len(d) = n
<1> DEFINE T == {d[i] : i \in 1..n}
<1>1. d \in [1..n -> T]
  BY DEF Book
<1> HIDE DEF T
<1>2. d \in Seq(T)
  BY <1>1, SeqDef
<1>3. DOMAIN d = 1..Len(d) /\ DOMAIN d = 1..n /\ Len(d) \in Nat
  BY <1>1, <1>2, LenProperties
<1>4. Len(d) <= n
  <2>1. Len(d) # 0 => Len(d) \in 1..n
    BY <1>3
  <2> QED
    BY <1>3, <2>1
<1>5. n <= Len(d)
  <2>1. n # 0 => n \in 1..Len(d)
    BY <1>3
  <2> QED
    BY <1>3, <2>1
<1>6. Len(d) \in Int /\ n \in Int
  BY <1>3
<1> QED
  BY <1>4, <1>5, <1>6

\* One more amount.
LEMMA SumGrows ==
  ASSUME NEW n \in Nat, NEW d, Book(d, n), NEW e, Book(e, n + 1),
         \A i \in 1..n : d[i] = e[i] /\ d[i] \in Nat, e[n + 1] \in Nat
  PROVE  SumOf(d) \in Nat /\ SumOf(e) = SumOf(d) + e[n + 1]
<1>0. Len(d) = n /\ Len(e) = n + 1
  BY LenOf
<1>1. PICK g : Adds(g, d, n) /\ SumOf(d) = g[n]
  BY <1>0, SumIsLast
<1>2. PICK h : Adds(h, e, n + 1) /\ SumOf(e) = h[n + 1]
  BY <1>0, SumIsLast
<1>3. g[n] = h[n] /\ g[n] \in Nat
  <2>1. n + 1 \in Nat /\ n <= n + 1
    OBVIOUS
  <2>2. \A i \in 0..n : g[i] = h[i] /\ g[i] \in Nat
    BY <1>1, <1>2, <2>1, AddsTheSame
  <2> QED
    BY <2>2
<1>4. h[n + 1] = h[n] + e[n + 1]
  BY <1>2 DEF Adds
<1> QED
  BY <1>1, <1>2, <1>3, <1>4

LEMMA SumOfNothing == ASSUME NEW d, Book(d, 0) PROVE SumOf(d) = 0
<1>0. Len(d) = 0
  BY LenOf
<1>1. PICK g : Adds(g, d, 0) /\ SumOf(d) = g[0]
  BY <1>0, SumIsLast
<1> QED
  BY <1>1 DEF Adds

\* The amounts of those outcomes, and the prices of those rows.
AmountsIn(outs, decision) ==
  SumOf([i \in DOMAIN outs |-> IF outs[i].decision = decision THEN outs[i].amount ELSE 0])
PriceIn(rows, vias) ==
  SumOf([i \in DOMAIN rows |-> IF rows[i].via \in vias THEN Profiles[rows[i].agent].price ELSE 0])

\* What Append does to the domain and the elements of a sequence.
LEMMA OneMore ==
  ASSUME NEW T, NEW s \in Seq(T), NEW e
  PROVE  /\ Len(s) \in Nat /\ DOMAIN s = 1..Len(s) /\ DOMAIN Append(s, e) = 1..(Len(s) + 1)
         /\ Append(s, e)[Len(s) + 1] = e /\ \A i \in 1..Len(s) : Append(s, e)[i] = s[i]
<1>1. \E S : s \in Seq(S)
  OBVIOUS
<1>2. Len(s) \in Nat /\ DOMAIN s = 1..Len(s)
  BY LenProperties
<1>3. PICK S : Append(s, e) \in Seq(S)
  BY <1>1, AppendToLog
<1>4. DOMAIN Append(s, e) = 1..Len(Append(s, e))
  BY <1>3, LenProperties
<1> QED
  BY <1>1, <1>2, <1>4, AppendToLog

LEMMA AmountsGrow ==
  ASSUME NEW T, NEW s \in Seq(T), NEW e, NEW decision,
         \A o \in ToSet(s) : o.amount \in Nat, e.amount \in Nat
  PROVE  /\ AmountsIn(s, decision) \in Nat
         /\ AmountsIn(Append(s, e), decision) =
              AmountsIn(s, decision) + IF e.decision = decision THEN e.amount ELSE 0
<1> DEFINE t == Append(s, e)
           d == [i \in DOMAIN s |-> IF s[i].decision = decision THEN s[i].amount ELSE 0]
           f == [i \in DOMAIN t |-> IF t[i].decision = decision THEN t[i].amount ELSE 0]
<1>1. /\ Len(s) \in Nat /\ DOMAIN s = 1..Len(s) /\ DOMAIN t = 1..(Len(s) + 1)
      /\ t[Len(s) + 1] = e /\ \A i \in 1..Len(s) : t[i] = s[i]
  BY OneMore
<1>2. \A i \in DOMAIN s : s[i].amount \in Nat
  BY DEF ToSet
<1> HIDE DEF t
<1>3. \A i \in DOMAIN s : d[i] = f[i] /\ d[i] \in Nat
  BY <1>1, <1>2
<1>4. f[Len(s) + 1] = IF e.decision = decision THEN e.amount ELSE 0
  BY <1>1
<1>5. Book(d, Len(s)) /\ Book(f, Len(s) + 1)
  BY <1>1 DEF Book
<1>6. AmountsIn(s, decision) = SumOf(d) /\ AmountsIn(t, decision) = SumOf(f)
  BY DEF AmountsIn
<1> HIDE DEF d, f
<1>7. f[Len(s) + 1] \in Nat
  BY <1>4
<1>8. SumOf(d) \in Nat /\ SumOf(f) = SumOf(d) + f[Len(s) + 1]
  BY <1>1, <1>3, <1>5, <1>7, SumGrows
<1> QED
  BY <1>4, <1>6, <1>8 DEF t

LEMMA PriceGrows ==
  ASSUME NEW T, NEW s \in Seq(T), NEW e, NEW vias,
         \A i \in DOMAIN s : s[i].agent \in Agents, e.agent \in Agents
  PROVE  /\ PriceIn(s, vias) \in Nat
         /\ PriceIn(Append(s, e), vias) =
              PriceIn(s, vias) + IF e.via \in vias THEN Profiles[e.agent].price ELSE 0
<1> DEFINE t == Append(s, e)
           d == [i \in DOMAIN s |-> IF s[i].via \in vias THEN Profiles[s[i].agent].price ELSE 0]
           f == [i \in DOMAIN t |-> IF t[i].via \in vias THEN Profiles[t[i].agent].price ELSE 0]
<1>1. /\ Len(s) \in Nat /\ DOMAIN s = 1..Len(s) /\ DOMAIN t = 1..(Len(s) + 1)
      /\ t[Len(s) + 1] = e /\ \A i \in 1..Len(s) : t[i] = s[i]
  BY OneMore
<1>2. \A a \in Agents : Profiles[a].price \in Nat
  BY ProfilesAssumption
<1> HIDE DEF t
<1>3. \A i \in DOMAIN s : d[i] = f[i] /\ d[i] \in Nat
  BY <1>1, <1>2
<1>4. f[Len(s) + 1] = IF e.via \in vias THEN Profiles[e.agent].price ELSE 0
  BY <1>1
<1>5. Book(d, Len(s)) /\ Book(f, Len(s) + 1)
  BY <1>1 DEF Book
<1>6. PriceIn(s, vias) = SumOf(d) /\ PriceIn(t, vias) = SumOf(f)
  BY DEF PriceIn
<1> HIDE DEF d, f
<1>7. f[Len(s) + 1] \in Nat
  BY <1>2, <1>4
<1>8. SumOf(d) \in Nat /\ SumOf(f) = SumOf(d) + f[Len(s) + 1]
  BY <1>1, <1>3, <1>5, <1>7, SumGrows
<1> QED
  BY <1>4, <1>6, <1>8 DEF t

LEMMA NothingSums ==
  \A x : AmountsIn(<<>>, x) = 0 /\ PriceIn(<<>>, x) = 0
<1> SUFFICES ASSUME NEW x PROVE AmountsIn(<<>>, x) = 0 /\ PriceIn(<<>>, x) = 0
  OBVIOUS
<1> DEFINE d == [i \in DOMAIN <<>> |-> IF <<>>[i].decision = x THEN <<>>[i].amount ELSE 0]
           f == [i \in DOMAIN <<>> |-> IF <<>>[i].via \in x THEN Profiles[<<>>[i].agent].price ELSE 0]
<1>1. DOMAIN <<>> = 1..0
  OBVIOUS
<1>2. Book(d, 0) /\ Book(f, 0)
  BY <1>1 DEF Book
<1>3. AmountsIn(<<>>, x) = SumOf(d) /\ PriceIn(<<>>, x) = SumOf(f)
  BY DEF AmountsIn, PriceIn
<1> HIDE DEF d, f
<1> QED
  BY <1>2, <1>3, SumOfNothing

\* The keys of that plan are within the bound.
Within(plan) == Keys(plan) \subseteq 1..MaxKey

LEMMA DecomposeWithin ==
  ASSUME goal \in Goals, NEW offer \in Offers
  PROVE  Within(Decompose(goal, offer))
<1>1. Within(offer)
  BY PlansAssumption DEF Within
<1>2. Within(HeuristicPlan(goal))
  <2> DEFINE last == Len(goal.fragments)
             plan == HeuristicPlan(goal)
  <2>1. last \in 0..(MaxKey - 1) /\ MaxKey \in Nat
    BY PlansAssumption
  <2>2. DOMAIN plan = 1..(last + 1) /\ \A i \in 1..(last + 1) : plan[i].key = i
    BY DEF HeuristicPlan
  <2> HIDE DEF plan, last
  <2>3. \A n \in Nodes(plan) : n.key \in 1..(last + 1)
    BY <2>2 DEF Nodes
  <2> QED
    BY <2>1, <2>3 DEF Within, Keys, plan
<1> QED
  BY <1>1, <1>2 DEF Decompose

\* The keys of the nodes whose call was paid.
Charged == {o.key : o \in Decided("run", "serviced_mcp")}
Ways == {"foreman", "helper", "replacement"}

\* The rows are the run's hires and the Room's own, and there is none before the run hires.
RowsMatch ==
  /\ \A i \in DOMAIN hires :
       /\ hires[i].via \in Ways
       /\ hires[i].via = "foreman" => \E o \in Decided("run", "hired") : o.key = hires[i].key
  /\ hires = <<>> <=> Decided("run", "hired") = {}
  /\ proc["run"].pc = "room" => Decided("run", "hired") # {}

\* A call that was paid was answered; one that was made was paid, or its node was hired
\* for, or it is waited for.
CallsMatch ==
  \A k \in 1..MaxKey :
    /\ k \in Charged => house[<<"run", k>>] = "delivered"
    /\ house[<<"run", k>>] # "none" =>
         \/ k \in Charged \/ Escrows(k) # {}
         \/ proc["run"].pc = "await" /\ Head(proc["run"].todo).key = k

\* What the outcomes add up to is what the rows and the calls do.
SumsMatch ==
  /\ \A o \in ToSet(proc["run"].outs) : o.amount \in Nat
  /\ Amounts("hired") = Price({"foreman"})
  /\ Amounts("serviced_mcp") = Fee * Cardinality(Charged)
  /\ Price(Ways) = Price({"foreman"}) + Price({"helper", "replacement"})

InPlan == \E plan : Within(plan) /\ InLoop(proc["run"], plan)

Going == proc["run"].pc \notin {"done", "answered", "failed"}

Balanced == proc["user"].pc = "idle" /\ InPlan /\ RowsMatch /\ CallsMatch /\ SumsMatch

HeadInv ==
  /\ Within(nodes) /\ house = [r \in Requests |-> house[r]]
  /\ Going => Balanced

\* The run goes on with what it has, and buys nothing.
Onward ==
  /\ UNCHANGED <<hires, house>> /\ proc'["user"].pc = proc["user"].pc
  /\ proc'["run"].todo = proc["run"].todo /\ proc'["run"].outs = proc["run"].outs
  /\ \/ proc'["run"].pc = proc["run"].pc
     \/ /\ Going /\ proc["run"].pc # "await"
        /\ proc'["run"].pc \notin {"await", "done", "failed"}
        /\ proc'["run"].pc = "room" => Decided("run", "hired") # {}
        /\ proc'["run"].pc = "answered" => Decide /\ Answers

\* The run ends, and keeps nothing.
Ends == Report \/ Fail("run")

\* The run becomes that, and the others stay.
LEMMA RunBecomes ==
  ASSUME Shape, NEW me, Become("run", me)
  PROVE  proc'["run"] = me /\ proc'["user"] = proc["user"] /\ proc'["worker"] = proc["worker"]
BY Becomes, ThreeWriters

LEMMA RunGoesTo ==
  ASSUME Shape, NEW pc, Goto("run", pc)
  PROVE  /\ proc'["run"].todo = proc["run"].todo /\ proc'["run"].outs = proc["run"].outs
         /\ proc'["run"].pc = pc /\ proc'["user"] = proc["user"]
<1> DEFINE me == [proc["run"] EXCEPT !.pc = pc]
<1>1. Become("run", me)
  BY DEF Goto
<1>2. me.todo = proc["run"].todo /\ me.outs = proc["run"].outs /\ me.pc = pc
  BY ThreeWriters DEF Shape, Fields
<1> HIDE DEF me
<1> QED
  BY <1>1, <1>2, RunBecomes

LEMMA RunTells ==
  ASSUME Shape, NEW pc, NEW due, Become("run", [proc["run"] EXCEPT !.pc = pc, !.due = due])
  PROVE  /\ proc'["run"].todo = proc["run"].todo /\ proc'["run"].outs = proc["run"].outs
         /\ proc'["run"].pc = pc /\ proc'["user"] = proc["user"]
<1> DEFINE me == [proc["run"] EXCEPT !.pc = pc, !.due = due]
<1>1. me.todo = proc["run"].todo /\ me.outs = proc["run"].outs /\ me.pc = pc
  BY ThreeWriters DEF Shape, Fields
<1>2. Become("run", me)
  OBVIOUS
<1> HIDE DEF me
<1> QED
  BY <1>1, <1>2, RunBecomes

\* The steps of the run between its purchases.
LEMMA RunOnward ==
  ASSUME Shape, \/ Submit \/ View \/ Decide \/ Verify("run") \/ Plan("run")
                \/ Classify("run") \/ EndLoop("run") \/ SignedOff("run")
  PROVE  Onward
<1>1. UNCHANGED <<hires, house>>
  BY DEF Submit, View, Decide, Verify, Plan, Classify, EndLoop, SignedOff
<1>2. ASSUME NEW from, NEW pc, proc["run"].pc = from, Goto("run", pc),
             from \notin {"await", "done", "answered", "failed"},
             pc \notin {"await", "done", "answered", "failed"},
             pc = "room" => Decided("run", "hired") # {}
      PROVE  Onward
  BY <1>1, <1>2, RunGoesTo DEF Onward, Going
<1>3. ASSUME NEW from, NEW me, proc["run"].pc = from, Become("run", me),
             me.todo = proc["run"].todo, me.outs = proc["run"].outs,
             from \notin {"await", "done", "answered", "failed"},
             me.pc \notin {"await", "room", "done", "answered", "failed"}
      PROVE  Onward
  BY <1>1, <1>3, RunBecomes DEF Onward, Going
<1>4. CASE Submit
  <2>1. /\ proc["run"].pc = "submit"
        /\ Become("run", [proc["run"] EXCEPT !.pc = "queue", !.due = Entry("job_created", 0)])
    BY <1>4 DEF Submit, At
  <2>2. /\ proc'["run"].pc = "queue" /\ proc'["user"].pc = proc["user"].pc
        /\ proc'["run"].todo = proc["run"].todo /\ proc'["run"].outs = proc["run"].outs
    BY <2>1, RunTells
  <2> QED
    BY <1>1, <2>1, <2>2 DEF Onward, Going
<1>5. CASE View
  <2>1. CASE mode = ""
    BY <1>5, <2>1, <1>2 DEF View, At
  <2>2. CASE mode # ""
    <3> DEFINE me == [proc["run"] EXCEPT !.pc = "hire", !.mode = mode,
                                         !.due = Entry("conductor_start", 0)]
    <3>1. Become("run", me) /\ proc["run"].pc = "view"
      BY <1>5, <2>2 DEF View, At
    <3>2. me.todo = proc["run"].todo /\ me.outs = proc["run"].outs /\ me.pc = "hire"
      BY ThreeWriters DEF Shape, Fields
    <3> HIDE DEF me
    <3> QED
      BY <1>3, <3>1, <3>2
  <2> QED
    BY <2>1, <2>2
<1>6. CASE Decide
  <2>1. CASE Answers
    <3>1. /\ proc["run"].pc = "decide"
          /\ Become("run", [proc["run"] EXCEPT !.pc = "answered", !.due = Entry("conductor_done", 0)])
      BY <1>6, <2>1 DEF Decide, At
    <3>2. /\ proc'["run"].pc = "answered" /\ proc'["user"].pc = proc["user"].pc
          /\ proc'["run"].todo = proc["run"].todo /\ proc'["run"].outs = proc["run"].outs
      BY <3>1, RunTells
    <3> QED
      BY <1>1, <1>6, <2>1, <3>1, <3>2 DEF Onward, Going
  <2>2. CASE ~Answers
    <3>1. /\ proc["run"].pc = "decide"
          /\ Goto("run", IF Decided("run", "hired") = {} THEN "report" ELSE "room")
      BY <1>6, <2>2 DEF Decide, At
    <3> QED
      BY <1>2, <3>1
  <2> QED
    BY <2>1, <2>2
<1>8. CASE Verify("run") \/ EndLoop("run") \/ SignedOff("run")
  <2>1. /\ proc["run"].pc \in {"verify", "node", "sign"}
        /\ \E pc \in {"plan", "decide", "report"} : Goto("run", pc)
    BY <1>8 DEF Verify, EndLoop, SignedOff, At
  <2> QED
    BY <1>2, <2>1
<1>9. CASE Plan("run")
  <2>1. PICK plan : Become("run", [proc["run"] EXCEPT !.pc = "classify", !.plan = plan])
    BY <1>9 DEF Plan
  <2> DEFINE me == [proc["run"] EXCEPT !.pc = "classify", !.plan = plan]
  <2>2. Become("run", me) /\ proc["run"].pc = "plan"
    BY <1>9, <2>1 DEF Plan, At
  <2>3. me.todo = proc["run"].todo /\ me.outs = proc["run"].outs /\ me.pc = "classify"
    BY ThreeWriters DEF Shape, Fields
  <2> HIDE DEF me
  <2> QED
    BY <1>3, <2>2, <2>3
<1>10. CASE Classify("run")
  <2> DEFINE me == [proc["run"] EXCEPT !.pc = "view", !.plan = <<>>,
                                       !.due = Entry("path_classified", 0)]
  <2>1. Become("run", me) /\ proc["run"].pc = "classify"
    BY <1>10 DEF Classify, At
  <2>2. me.todo = proc["run"].todo /\ me.outs = proc["run"].outs /\ me.pc = "view"
    BY ThreeWriters DEF Shape, Fields
  <2> HIDE DEF me
  <2> QED
    BY <1>3, <2>1, <2>2
<1> QED
  BY <1>4, <1>5, <1>6, <1>8, <1>9, <1>10

\* The steps the run shares, or has no part in, before the user acts.
LEMMA OthersOnward ==
  ASSUME Shape, \/ Enqueue \/ Audits \/ Process("worker") \/ UNCHANGED vars
                \/ Fail("worker") \/ \E p \in Writers : Lock(p) \/ Say(p)
  PROVE  Onward
<1> USE ThreeWriters
<1>1. UNCHANGED <<hires, house>>
  BY DEF Enqueue, Audits, Process, Verify, Plan, Classify, Lock, Say, Fail, jobVars, vars
<1>2. CASE Audits \/ UNCHANGED vars \/ \E p \in Writers : Lock(p)
  <2>1. proc' = proc
    BY <1>2 DEF Audits, Lock, jobVars, vars
  <2> QED
    BY <1>1, <2>1 DEF Onward
<1>3. CASE Enqueue
  <2>1. PICK inline \in BOOLEAN, queued \in BOOLEAN :
          /\ proc["run"].pc = "queue"
          /\ proc' = [proc EXCEPT !["run"].pc = IF inline THEN "verify" ELSE "view",
                                  !["worker"].pc = IF queued THEN "verify" ELSE "idle"]
    BY <1>3 DEF Enqueue, At
  <2>2. /\ proc'["user"] = proc["user"] /\ proc'["run"].pc \in {"verify", "view"}
        /\ proc'["run"].todo = proc["run"].todo /\ proc'["run"].outs = proc["run"].outs
    BY <2>1 DEF Shape, Fields
  <2> QED
    BY <1>1, <2>1, <2>2 DEF Onward, Going
<1>4. ASSUME NEW p \in Writers, Say(p) PROVE Onward
  <2> DEFINE me == [proc[p] EXCEPT !.due = <<>>]
  <2>1. Become(p, me)
    BY <1>4 DEF Say
  <2>2. me.todo = proc[p].todo /\ me.outs = proc[p].outs /\ me.pc = proc[p].pc
    BY DEF Shape, Fields
  <2> HIDE DEF me
  <2>3. proc'[p] = me /\ \A q \in Writers \ {p} : proc'[q] = proc[q]
    BY <2>1, Becomes
  <2>4. /\ proc'["run"].todo = proc["run"].todo /\ proc'["run"].outs = proc["run"].outs
        /\ proc'["run"].pc = proc["run"].pc /\ proc'["user"].pc = proc["user"].pc
    BY <2>2, <2>3
  <2> QED
    BY <1>1, <2>4 DEF Onward
<1>5. CASE Process("worker") \/ Fail("worker")
  <2>1. \E me : Become("worker", me)
    BY <1>5 DEF Process, Verify, Plan, Classify, Goto, Fail
  <2>2. proc'["run"] = proc["run"] /\ proc'["user"] = proc["user"]
    BY <2>1, Becomes
  <2> QED
    BY <1>1, <2>2 DEF Onward
<1> QED
  BY <1>2, <1>3, <1>4, <1>5

LEMMA EndsIs ==
  ASSUME Shape, Ends
  PROVE  /\ proc'["run"].pc = (IF Report THEN "done" ELSE "failed")
         /\ Report => Going
         /\ UNCHANGED house
<1>1. UNCHANGED house
  BY DEF Ends, Report, Fail
<1>2. ASSUME NEW pc, NEW due, Become("run", [Fresh(pc) EXCEPT !.due = due])
      PROVE  proc'["run"].pc = pc
  <2> DEFINE me == [Fresh(pc) EXCEPT !.due = due]
  <2>1. Become("run", me) /\ me.pc = pc
    BY <1>2, Anew
  <2> HIDE DEF me
  <2> QED
    BY <2>1, RunBecomes
<1>3. CASE Report
  <2>1. /\ proc["run"].pc = "report"
        /\ Become("run", [Fresh("done") EXCEPT !.due = Entry("conductor_done", 0)])
    BY <1>3 DEF Report, At
  <2> QED
    BY <1>1, <1>2, <1>3, <2>1 DEF Going
<1>4. CASE Fail("run") /\ ~Report
  <2>1. Become("run", [Fresh("failed") EXCEPT !.due = proc["run"].due])
    BY <1>4 DEF Fail
  <2> QED
    BY <1>1, <1>2, <1>4, <2>1
<1> QED
  BY <1>3, <1>4 DEF Ends

\* A node is decided.
Outcome(decision, amount) ==
  [key |-> Node("run").key, decision |-> decision, amount |-> amount]

LEMMA RunDone ==
  ASSUME Shape, NEW decision, NEW amount, NEW due, Done("run", decision, amount, due)
  PROVE  /\ proc'["run"].pc = "node" /\ proc'["user"] = proc["user"]
         /\ proc'["run"].todo = Tail(proc["run"].todo)
         /\ proc'["run"].outs = Append(proc["run"].outs, Outcome(decision, amount))
<1> DEFINE out == [key |-> Node("run").key, decision |-> decision, amount |-> amount]
           me == [proc["run"] EXCEPT !.pc = "node", !.todo = Tail(@), !.agent = None, !.due = due,
                                     !.outs = Append(@, out)]
<1>1. Become("run", me)
  BY DEF Done
<1> HIDE DEF out
<1>2. /\ me.pc = "node" /\ me.todo = Tail(proc["run"].todo)
      /\ me.outs = Append(proc["run"].outs, out)
  BY ThreeWriters DEF Shape, Fields
<1> HIDE DEF me
<1> QED
  BY <1>1, <1>2, RunBecomes DEF out, Outcome

\* The steps of the run that read the job, buy or pay.
RunBuys ==
  \/ ReadJob("run") \/ Skip("run") \/ Escalate("run") \/ Hire("run") \/ CallDirect("run")
  \/ Call("run") \/ Serviced("run") \/ GiveUp("run") \/ RunRoom \/ Release("run")

LEMMA RunBuysIs ==
  ASSUME Shape, RunBuys
  PROVE  Going /\ Going' /\ proc'["user"] = proc["user"]
<1> USE ThreeWriters
<1>1. proc["run"].pc \in {"hire", "node", "await", "room", "sign"}
  BY DEF RunBuys, ReadJob, Skip, Escalate, Hire, CallDirect, HireUnder, Call, Serviced, GiveUp,
         RunRoom, Release, Wanted, AtNode, At
<1>2. ASSUME NEW me, Become("run", me), me.pc \in {"node", "await", "sign", "report"}
      PROVE  Going' /\ proc'["user"] = proc["user"]
  BY <1>2, RunBecomes DEF Going
<1>3. CASE ReadJob("run")
  <2> DEFINE me == [proc["run"] EXCEPT !.pc = "node", !.todo = nodes, !.held = ActiveNodes]
  <2>1. Become("run", me) /\ me.pc = "node"
    BY <1>3 DEF ReadJob, Shape, Fields
  <2> HIDE DEF me
  <2> QED
    BY <1>1, <1>2, <2>1 DEF Going
<1>4. CASE \/ Skip("run") \/ Escalate("run") \/ Hire("run") \/ CallDirect("run")
           \/ Serviced("run") \/ GiveUp("run")
  <2>1. \E decision, amount, due : Done("run", decision, amount, due)
    BY <1>4 DEF Skip, Escalate, Hire, CallDirect, HireUnder, Serviced, GiveUp, OpenEscrow
  <2>2. proc'["run"].pc = "node" /\ proc'["user"] = proc["user"]
    BY <2>1, RunDone
  <2> QED
    BY <1>1, <2>2 DEF Going
<1>5. CASE Call("run")
  <2>1. PICK a : Become("run", [proc["run"] EXCEPT !.pc = "await", !.agent = a])
    BY <1>5 DEF Call
  <2> DEFINE me == [proc["run"] EXCEPT !.pc = "await", !.agent = a]
  <2>2. Become("run", me) /\ me.pc = "await"
    BY <2>1 DEF Shape, Fields
  <2> HIDE DEF me
  <2> QED
    BY <1>1, <1>2, <2>2 DEF Going
<1>6. CASE RunRoom
  <2>1. \E next \in {"sign", "report"} : Goto("run", next)
    BY <1>6 DEF RunRoom
  <2>2. proc'["run"].pc \in {"sign", "report"} /\ proc'["user"] = proc["user"]
    BY <2>1, RunGoesTo
  <2> QED
    BY <1>1, <2>2 DEF Going
<1>7. CASE Release("run")
  <2> DEFINE me == [proc["run"] EXCEPT !.due = Entry("payment_released", hires[Unpaid].key)]
  <2>1. Become("run", me) /\ proc["run"].pc = "sign"
    BY <1>7 DEF Release, At
  <2>2. me.pc = proc["run"].pc
    BY DEF Shape, Fields
  <2> HIDE DEF me
  <2> QED
    BY <1>1, <1>2, <2>1, <2>2 DEF Going
<1> QED
  BY <1>3, <1>4, <1>5, <1>6, <1>7 DEF RunBuys

\* The user's steps are not the run's.
UserActs ==
  \/ UserDistills \/ UserHires \/ UserSigns \/ Foreman("user") \/ Release("user")
  \/ SignedOff("user") \/ Fail("user")

LEMMA UserActsIs ==
  ASSUME Shape, UserActs
  PROVE  /\ proc'["run"] = proc["run"]
         /\ proc["user"].pc = "idle" => ~Going
<1>1. \E me : Become("user", me)
  <2>1. CASE UserDistills \/ UserHires \/ UserSigns
    BY <2>1 DEF UserDistills, UserHires, UserSigns, Goto
  <2>2. CASE \/ ReadJob("user") \/ Skip("user") \/ Escalate("user") \/ Call("user")
             \/ Serviced("user") \/ EndLoop("user") \/ Release("user") \/ SignedOff("user")
    BY <2>2 DEF ReadJob, Skip, Escalate, Call, Serviced, EndLoop, Release, SignedOff, Done, Goto
  <2>3. CASE Hire("user") \/ CallDirect("user") \/ GiveUp("user")
    BY <2>3 DEF Hire, CallDirect, HireUnder, GiveUp, OpenEscrow, Done
  <2>4. CASE Fail("user")
    BY <2>4 DEF Fail
  <2> QED
    BY <2>1, <2>2, <2>3, <2>4 DEF UserActs, Foreman
<1>2. proc'["run"] = proc["run"]
  BY <1>1, Becomes, ThreeWriters
<1>3. ASSUME proc["user"].pc = "idle" PROVE ~Going
  <2>1. CASE UserDistills \/ UserHires \/ UserSigns
    BY <2>1 DEF UserDistills, UserHires, UserSigns, Returned, At, Failed, Going
  <2>2. CASE Foreman("user") \/ Release("user") \/ SignedOff("user") \/ Fail("user")
    BY <1>3, <2>2 DEF Foreman, ReadJob, Skip, Escalate, Hire, CallDirect, HireUnder, Call,
                Serviced, GiveUp, EndLoop, Release, SignedOff, Wanted, AtNode, At,
                Fail, AtWork
  <2> QED
    BY <2>1, <2>2 DEF UserActs
<1> QED
  BY <1>2, <1>3

\* Every step is one of these.
LEMMA StepKinds ==
  ASSUME Shape, [Next]_vars
  PROVE  Onward \/ RunBuys \/ UserActs \/ HouseActs \/ Ends
<1>1. ASSUME NEW p \in {"run", "user"}, Foreman(p) \/ Release(p) \/ SignedOff(p)
      PROVE  Onward \/ RunBuys \/ UserActs
  BY <1>1, RunOnward DEF Foreman, RunBuys, UserActs
<1>2. ASSUME NEW p \in {"run", "worker"}, Process(p) PROVE Onward
  BY <1>2, RunOnward, OthersOnward DEF Process
<1>3. CASE Enqueue \/ Audits \/ UNCHANGED vars \/ \E p \in Writers : Lock(p) \/ Say(p)
  BY <1>3, OthersOnward
<1>4. CASE Submit \/ View \/ Decide
  BY <1>4, RunOnward
<1>5. ASSUME NEW p \in Writers, Fail(p) PROVE Onward \/ UserActs \/ Ends
  BY <1>5, OthersOnward, JobAssumption DEF UserActs, Ends
<1> QED
  BY <1>1, <1>2, <1>3, <1>4, <1>5 DEF Next, RunBuys, UserActs, Ends

\* A run that is over stays so, and it returns by its report, or by an answer.
LEMMA RunEnds ==
  ASSUME Shape, [Next]_vars
  PROVE  /\ ~Going => ~Going'
         /\ proc["run"].pc # proc'["run"].pc /\ proc'["run"].pc \in {"done", "answered"} =>
              Report \/ (Decide /\ Answers)
<1>1. CASE Onward
  BY <1>1 DEF Onward, Going
<1>2. CASE RunBuys
  <2>1. Going /\ Going'
    BY <1>2, RunBuysIs
  <2> QED
    BY <2>1 DEF Going
<1>3. CASE UserActs
  BY <1>3, UserActsIs DEF Going
<1>4. CASE HouseActs
  BY <1>4 DEF HouseActs, Going
<1>5. CASE Ends
  BY <1>5, EndsIs DEF Going
<1> QED
  BY <1>1, <1>2, <1>3, <1>4, <1>5, StepKinds

\* The saved graph stays within the bound.
LEMMA NodesWithin ==
  ASSUME PlanInv, Within(nodes), [Next]_vars
  PROVE  Within(nodes)'
<1>1. CASE UNCHANGED nodes
  BY <1>1 DEF Within, Keys, Nodes
<1>2. ASSUME NEW p \in {"run", "worker"}, Plan(p) PROVE Within(nodes)'
  <2>1. goal \in Goals
    BY <1>2 DEF Plan, At, PlanInv, Asked
  <2>2. PICK offer \in Offers : nodes' = Decompose(goal, offer)
    BY <1>2 DEF Plan, SavePlan
  <2>3. Within(Decompose(goal, offer))
    BY <2>1, DecomposeWithin
  <2> QED
    BY <2>2, <2>3 DEF Within, Keys, Nodes
<1>3. CASE \/ HouseActs \/ Audits \/ UNCHANGED vars
           \/ \E p \in Writers : Lock(p) \/ Say(p) \/ Fail(p)
  <2>1. UNCHANGED nodes
    BY <1>3 DEF HouseActs, Audits, Lock, Say, Fail, jobVars, vars
  <2> QED
    BY <1>1, <2>1
<1>4. CASE \/ Submit \/ Enqueue \/ View \/ Decide \/ RunRoom \/ Report
           \/ UserDistills \/ UserHires \/ UserSigns
  <2>1. UNCHANGED nodes
    BY <1>4 DEF Submit, Enqueue, View, Decide, RunRoom, Report, UserDistills, UserHires, UserSigns
  <2> QED
    BY <1>1, <2>1
<1>5. ASSUME NEW p, Foreman(p) \/ Release(p) \/ SignedOff(p) PROVE Within(nodes)'
  <2>1. UNCHANGED nodes
    BY <1>5 DEF Foreman, ReadJob, Skip, Escalate, Hire, CallDirect, HireUnder, Call, Serviced,
                GiveUp, EndLoop, Release, SignedOff
  <2> QED
    BY <1>1, <2>1
<1>6. ASSUME NEW p, Verify(p) \/ Classify(p) PROVE Within(nodes)'
  <2>1. UNCHANGED nodes
    BY <1>6 DEF Verify, Classify
  <2> QED
    BY <1>1, <2>1
<1> QED
  BY <1>2, <1>3, <1>4, <1>5, <1>6 DEF Next, Process

\* Whatever TheHouse does: what was not asked it does not answer, and an answer stays.
LEMMA HouseStep ==
  ASSUME house = [r \in Requests |-> house[r]], HouseActs
  PROVE  /\ house' = [r \in Requests |-> house'[r]]
         /\ \A r \in Requests : /\ house[r] = "none" => house'[r] = "none"
                                /\ house[r] = "delivered" => house'[r] = "delivered"
<1>1. PICK r \in Requests : House!Deliver({r}) \/ House!Expire({r})
  BY DEF HouseActs
<1>2. house[r] \in {"queued", "merged"}
  BY <1>1 DEF House!Deliver, House!Expire, House!Waiting
<1>3. PICK st : house' = [s \in Requests |-> IF s \in {r} THEN st ELSE house[s]]
  BY <1>1 DEF House!Deliver, House!Expire
<1>4. house' = [s \in Requests |-> house'[s]]
  BY <1>3
<1>5. \A s \in Requests : s # r => house'[s] = house[s]
  BY <1>3
<1> QED
  BY <1>2, <1>4, <1>5

\* A call is asked once.
LEMMA CallStep ==
  ASSUME house = [r \in Requests |-> house[r]], NEW q \in Requests, House!Accept(q)
  PROVE  /\ house' = [r \in Requests |-> house'[r]]
         /\ house[q] = "none" /\ \A r \in Requests : r # q => house'[r] = house[r]
<1>1. PICK st : house[q] = "none" /\ house' = [house EXCEPT ![q] = st]
  BY DEF House!Accept
<1> QED
  BY <1>1

\* Nothing is bought for a node, and the run's books are as before.
LEMMA BooksKept ==
  ASSUME Balanced, UNCHANGED hires, proc'["user"].pc = proc["user"].pc,
         proc'["run"].todo = proc["run"].todo, proc'["run"].outs = proc["run"].outs,
         \A k \in 1..MaxKey : house'[<<"run", k>>] = house[<<"run", k>>],
         \/ proc'["run"].pc = proc["run"].pc
         \/ /\ proc["run"].pc # "await" /\ proc'["run"].pc # "await"
            /\ proc'["run"].pc = "room" => Decided("run", "hired") # {}
  PROVE  Balanced'
<1>1. /\ \A d : Decided("run", d)' = Decided("run", d)
      /\ \A d : Amounts(d)' = Amounts(d)
      /\ \A v : Price(v)' = Price(v)
      /\ \A k : Escrows(k)' = Escrows(k)
      /\ ToSet(proc["run"].outs)' = ToSet(proc["run"].outs)
  BY DEF Decided, Amounts, Price, Escrows
<1>2. Charged' = Charged
  BY <1>1 DEF Charged
<1>3. InPlan'
  <2>1. PICK plan : Within(plan) /\ InLoop(proc["run"], plan)
    BY DEF Balanced, InPlan
  <2>2. InLoop(proc["run"], plan)'
    BY <2>1 DEF InLoop
  <2>3. Within(plan)'
    BY <2>1 DEF Within
  <2> QED
    BY <2>2, <2>3 DEF InPlan
<1>4. RowsMatch'
  BY <1>1 DEF Balanced, RowsMatch
<1>5. CallsMatch'
  BY <1>1, <1>2 DEF Balanced, CallsMatch
<1>6. SumsMatch'
  BY <1>1, <1>2 DEF Balanced, SumsMatch
<1> QED
  BY <1>3, <1>4, <1>5, <1>6 DEF Balanced

LEMMA OnwardBalanced ==
  ASSUME Balanced, Onward
  PROVE  Balanced'
BY BooksKept DEF Onward

\* The run's node is decided: what changes in its books.
LEMMA Decides ==
  ASSUME Shape, Balanced, NEW decision, NEW amount \in Nat, NEW due,
         Done("run", decision, amount, due), proc["run"].pc \in {"node", "await"},
         proc["run"].pc = "node" =>
           proc["run"].todo # <<>> /\ (decision = "skipped" \/ Needed(Node("run")))
  PROVE  /\ InPlan' /\ proc'["user"].pc = "idle" /\ proc'["run"].pc = "node"
         /\ Node("run").key \in 1..MaxKey /\ Node("run").key \notin Charged
         /\ \A d : Decided("run", d)' =
                     IF decision = d
                     THEN Decided("run", d) \cup {Outcome(decision, amount)}
                     ELSE Decided("run", d)
         /\ \A d : /\ Amounts(d) \in Nat
                   /\ Amounts(d)' = Amounts(d) + IF decision = d THEN amount ELSE 0
         /\ \A o \in ToSet(proc'["run"].outs) : o.amount \in Nat
<1> DEFINE out == Outcome(decision, amount)
<1>1. /\ proc'["run"].pc = "node" /\ proc'["user"] = proc["user"]
      /\ proc'["run"].todo = Tail(proc["run"].todo)
      /\ proc'["run"].outs = Append(proc["run"].outs, out)
  BY RunDone
<1>2. out.key = Node("run").key /\ out.decision = decision /\ out.amount = amount
  BY DEF Outcome
<1> HIDE DEF out
<1>3. PICK plan : Within(plan) /\ InLoop(proc["run"], plan)
  BY DEF Balanced, InPlan
<1>4. /\ proc["run"].todo # <<>> /\ out.key = Head(proc["run"].todo).key
      /\ out.decision = "skipped" \/ Needed(Head(proc["run"].todo))
  BY <1>2, <1>3 DEF InLoop, Node
<1>5. InLoop(proc'["run"], plan)
  BY <1>1, <1>3, <1>4, DecideNode
<1>6. InPlan'
  <2>1. Within(plan)' /\ InLoop(proc["run"], plan)'
    BY <1>3, <1>5 DEF Within
  <2> QED
    BY <2>1 DEF InPlan
<1>7. PICK T : proc["run"].outs \in Seq(T)
  BY <1>3 DEF InLoop
<1>8. ToSet(proc'["run"].outs) = ToSet(proc["run"].outs) \cup {out}
  BY <1>1, <1>7, AppendedSet
<1>9. \A d : Decided("run", d)' =
               IF decision = d THEN Decided("run", d) \cup {out} ELSE Decided("run", d)
  BY <1>2, <1>8 DEF Decided
<1>10. \A o \in ToSet(proc["run"].outs) : o.amount \in Nat
  BY DEF Balanced, SumsMatch
<1>11. ASSUME NEW d
       PROVE  /\ Amounts(d) \in Nat
              /\ Amounts(d)' = Amounts(d) + IF decision = d THEN amount ELSE 0
  <2>1. Amounts(d) = AmountsIn(proc["run"].outs, d) /\ Amounts(d)' = AmountsIn(proc'["run"].outs, d)
    BY DEF Amounts, AmountsIn
  <2>2. /\ AmountsIn(proc["run"].outs, d) \in Nat
        /\ AmountsIn(Append(proc["run"].outs, out), d) =
             AmountsIn(proc["run"].outs, d) + IF out.decision = d THEN out.amount ELSE 0
    BY <1>2, <1>7, <1>10, AmountsGrow
  <2> QED
    BY <1>1, <1>2, <2>1, <2>2
<1>12. out.key \in 1..MaxKey /\ \A o \in ToSet(proc["run"].outs) : o.key # out.key
  <2>1. proc["run"].todo \in Seq(Nodes(plan)) /\ proc["run"].todo # <<>>
    BY <1>3, <1>4 DEF InLoop
  <2>2. /\ Head(proc["run"].todo) \in Nodes(plan)
        /\ Head(proc["run"].todo) = proc["run"].todo[1] /\ 1 \in DOMAIN proc["run"].todo
    BY <2>1, TailIs
  <2> QED
    BY <1>3, <1>4, <2>2 DEF InLoop, Within, Keys
<1>13. out.key \notin Charged
  BY <1>12 DEF Charged, Decided
<1>14. \A o \in ToSet(proc'["run"].outs) : o.amount \in Nat
  BY <1>2, <1>8, <1>10
<1>15. proc["user"].pc = "idle"
  BY DEF Balanced
<1> QED
  BY <1>1, <1>2, <1>6, <1>9, <1>11, <1>12, <1>13, <1>14, <1>15 DEF out

\* The keys of the paid nodes are within the bound, and none of them was hired for.
LEMMA ChargedIs ==
  ASSUME Balanced
  PROVE  /\ Charged \subseteq 1..MaxKey /\ IsFiniteSet(Charged) /\ Cardinality(Charged) \in Nat
         /\ \A k \in Charged : \A o \in Decided("run", "hired") : o.key # k
<1>1. PICK plan : Within(plan) /\ InLoop(proc["run"], plan)
  BY DEF Balanced, InPlan
<1>2. \A o \in Decided("run", "serviced_mcp") : \E n \in Nodes(plan) : n.key = o.key
  BY <1>1 DEF InLoop, WorkNodes, Decided
<1>3. Charged \subseteq 1..MaxKey
  BY <1>1, <1>2 DEF Charged, Within, Keys
<1>4. IsFiniteSet(Charged) /\ Cardinality(Charged) \in Nat
  <2>1. IsFiniteSet(1..MaxKey)
    BY PlansAssumption, CountTo
  <2> QED
    BY <1>3, <2>1, FS_Subset, FS_CardinalityType
<1>5. ASSUME NEW o \in Decided("run", "serviced_mcp"), NEW h \in Decided("run", "hired")
      PROVE  h.key # o.key
  <2>1. /\ o \in ToSet(proc["run"].outs) /\ h \in ToSet(proc["run"].outs)
        /\ o.decision = "serviced_mcp" /\ h.decision = "hired"
    BY DEF Decided
  <2>2. o # h
    BY <2>1
  <2> QED
    BY <1>1, <2>1, <2>2 DEF InLoop
<1> QED
  BY <1>3, <1>4, <1>5 DEF Charged

\* Nothing was bought for the node.
LEMMA PassedBalanced ==
  ASSUME Shape, Balanced, Skip("run") \/ Escalate("run")
  PROVE  Balanced'
<1>1. PICK decision \in {"skipped", "escalated"} :
        /\ Done("run", decision, 0, <<>>) /\ proc["run"].pc = "node" /\ proc["run"].todo # <<>>
        /\ decision = "skipped" \/ Needed(Node("run"))
  BY DEF Skip, Escalate, Wanted, AtNode, At
<1>2. UNCHANGED <<hires, house>>
  BY DEF Skip, Escalate
<1>3. /\ InPlan' /\ proc'["user"].pc = "idle" /\ proc'["run"].pc = "node"
      /\ \A d \in {"hired", "serviced_mcp"} : Decided("run", d)' = Decided("run", d)
      /\ \A d \in {"hired", "serviced_mcp"} : Amounts(d)' = Amounts(d)
      /\ \A o \in ToSet(proc'["run"].outs) : o.amount \in Nat
  <2>1. 0 \in Nat /\ proc["run"].pc \in {"node", "await"}
    BY <1>1
  <2>2. /\ InPlan' /\ proc'["user"].pc = "idle" /\ proc'["run"].pc = "node"
        /\ \A d : Decided("run", d)' =
                    IF decision = d
                    THEN Decided("run", d) \cup {Outcome(decision, 0)}
                    ELSE Decided("run", d)
        /\ \A d : /\ Amounts(d) \in Nat
                  /\ Amounts(d)' = Amounts(d) + IF decision = d THEN 0 ELSE 0
        /\ \A o \in ToSet(proc'["run"].outs) : o.amount \in Nat
    BY <1>1, <2>1, Decides, Zenon
  <2> QED
    BY <2>2
<1>4. Charged' = Charged
  BY <1>3 DEF Charged
<1>5. (\A v : Price(v)' = Price(v)) /\ \A k : Escrows(k)' = Escrows(k)
  BY <1>2 DEF Price, Escrows
<1>6. RowsMatch'
  BY <1>2, <1>3 DEF Balanced, RowsMatch
<1>7. CallsMatch'
  BY <1>1, <1>2, <1>4, <1>5 DEF Balanced, CallsMatch
<1>8. SumsMatch'
  BY <1>3, <1>4, <1>5 DEF Balanced, SumsMatch
<1> QED
  BY <1>3, <1>6, <1>7, <1>8 DEF Balanced

\* A row is added to the hires, and its price to what was spent in that way.
LEMMA RowAdded ==
  ASSUME HiresInv, NEW key, NEW cap, NEW a \in Agents, NEW via, CreateHire(key, cap, a, via)
  PROVE  /\ hires' # <<>>
         /\ \A i \in DOMAIN hires' : \/ i \in DOMAIN hires /\ hires'[i] = hires[i]
                                     \/ hires'[i].via = via /\ hires'[i].key = key
         /\ \A vias : /\ Price(vias) \in Nat
                      /\ via \in vias => Price(vias)' = Price(vias) + Profiles[a].price
                      /\ via \notin vias => Price(vias)' = Price(vias)
<1> DEFINE row == [key |-> key, cap |-> cap, agent |-> a, via |-> via, status |-> "hired"]
<1>1. row.key = key /\ row.via = via /\ row.agent = a
  OBVIOUS
<1>2. hires' = Append(hires, row)
  BY DEF CreateHire
<1> HIDE DEF row
<1>3. PICK T : hires \in Seq(T)
  BY DEF HiresInv
<1>4. /\ \E S : Append(hires, row) \in Seq(S)
      /\ Len(hires) \in Nat /\ Len(Append(hires, row)) = Len(hires) + 1
      /\ \A i \in 1..Len(hires) : Append(hires, row)[i] = hires[i]
      /\ Append(hires, row)[Len(hires) + 1] = row
  BY <1>3, AppendToLog
<1>5. DOMAIN hires = 1..Len(hires) /\ DOMAIN hires' = 1..(Len(hires) + 1)
  BY <1>2, <1>3, <1>4, LenProperties
<1>6. hires' # <<>>
  <2>1. Len(hires') # 0
    BY <1>2, <1>4
  <2> QED
    BY <2>1
<1>7. \A i \in DOMAIN hires' : \/ i \in DOMAIN hires /\ hires'[i] = hires[i]
                               \/ hires'[i].via = via /\ hires'[i].key = key
  <2> SUFFICES ASSUME NEW i \in DOMAIN hires'
               PROVE  \/ i \in DOMAIN hires /\ hires'[i] = hires[i]
                      \/ hires'[i].via = via /\ hires'[i].key = key
    OBVIOUS
  <2>1. i \in 1..Len(hires) \/ i = Len(hires) + 1
    BY <1>4, <1>5
  <2> QED
    BY <1>1, <1>2, <1>4, <1>5, <2>1
<1>8. ASSUME NEW vias
      PROVE  /\ Price(vias) \in Nat
             /\ via \in vias => Price(vias)' = Price(vias) + Profiles[a].price
             /\ via \notin vias => Price(vias)' = Price(vias)
  <2>1. Price(vias) = PriceIn(hires, vias) /\ Price(vias)' = PriceIn(hires', vias)
    BY DEF Price, PriceIn
  <2>2. \A i \in DOMAIN hires : hires[i].agent \in Agents
    BY DEF HiresInv, SafeRow, Sound
  <2>3. /\ PriceIn(hires, vias) \in Nat
        /\ PriceIn(Append(hires, row), vias) =
             PriceIn(hires, vias) + IF row.via \in vias THEN Profiles[row.agent].price ELSE 0
    BY <1>1, <1>3, <2>2, PriceGrows
  <2> QED
    BY <1>1, <1>2, <2>1, <2>3
<1> QED
  BY <1>6, <1>7, <1>8

LEMMA PricesAre ==
  ASSUME NEW a \in Agents
  PROVE  Profiles[a].price \in Nat
BY ProfilesAssumption

\* An escrow of the run: an outcome, and its row.
LEMMA EscrowBalanced ==
  ASSUME MoneyInv, HiresInv, Balanced, NEW a \in Agents, OpenEscrow("run", a),
         UNCHANGED house, proc["run"].pc \in {"node", "await"},
         proc["run"].pc = "node" => proc["run"].todo # <<>> /\ Needed(Node("run"))
  PROVE  Balanced'
<1> DEFINE key == Node("run").key
           price == Profiles[a].price
<1>1. /\ CreateHire(key, Node("run").cap, a, "foreman")
      /\ Done("run", "hired", price, Entry("hire", key))
  BY DEF OpenEscrow
<1>2. price \in Nat
  BY PricesAre
<1>a. Shape
  BY DEF MoneyInv
<1>3. /\ InPlan' /\ proc'["user"].pc = "idle" /\ proc'["run"].pc = "node"
      /\ \A d : Decided("run", d)' =
                  IF "hired" = d
                  THEN Decided("run", d) \cup {Outcome("hired", price)}
                  ELSE Decided("run", d)
      /\ \A d : /\ Amounts(d) \in Nat
                /\ Amounts(d)' = Amounts(d) + IF "hired" = d THEN price ELSE 0
      /\ \A o \in ToSet(proc'["run"].outs) : o.amount \in Nat
  <2> HIDE DEF key, price
  <2>1. proc["run"].pc = "node" =>
          proc["run"].todo # <<>> /\ ("hired" = "skipped" \/ Needed(Node("run")))
    OBVIOUS
  <2> QED
    BY <1>a, <1>1, <1>2, <2>1, Decides, Zenon
<1>4. /\ hires' # <<>>
      /\ \A i \in DOMAIN hires' : \/ i \in DOMAIN hires /\ hires'[i] = hires[i]
                                  \/ hires'[i].via = "foreman" /\ hires'[i].key = key
      /\ \A vias : /\ Price(vias) \in Nat
                   /\ "foreman" \in vias => Price(vias)' = Price(vias) + price
                   /\ "foreman" \notin vias => Price(vias)' = Price(vias)
  <2> HIDE DEF key
  <2>1. PICK cap : CreateHire(key, cap, a, "foreman")
    BY <1>1
  <2>2. hires' # <<>>
    BY <2>1, RowAdded
  <2>3. \A i \in DOMAIN hires' : \/ i \in DOMAIN hires /\ hires'[i] = hires[i]
                                 \/ hires'[i].via = "foreman" /\ hires'[i].key = key
    BY <2>1, RowAdded
  <2>4. \A vias : /\ Price(vias) \in Nat
                  /\ "foreman" \in vias => Price(vias)' = Price(vias) + price
                  /\ "foreman" \notin vias => Price(vias)' = Price(vias)
    BY <2>1, RowAdded
  <2> QED
    BY <2>2, <2>3, <2>4
<1>5. \A k : Escrows(k)' = IF key = k THEN Escrows(k) \cup {Len(hires) + 1} ELSE Escrows(k)
  BY <1>1, HiresGrow DEF MoneyInv
<1>6. Outcome("hired", price).key = key
  BY DEF Outcome
<1>7. Charged' = Charged
  <2>1. Decided("run", "serviced_mcp")' = Decided("run", "serviced_mcp")
    BY <1>3
  <2> QED
    BY <2>1 DEF Charged
<1> HIDE DEF price
<1>8. RowsMatch'
  <2>1. Decided("run", "hired")' = Decided("run", "hired") \cup {Outcome("hired", price)}
    BY <1>3
  <2>2. ASSUME NEW i \in DOMAIN hires'
        PROVE  /\ hires'[i].via \in Ways
               /\ hires'[i].via = "foreman" =>
                    \E o \in Decided("run", "hired")' : o.key = hires'[i].key
    BY <1>4, <1>6, <2>1 DEF Balanced, RowsMatch, Ways
  <2> QED
    BY <1>3, <1>4, <2>1, <2>2 DEF RowsMatch, Ways
<1>9. CallsMatch'
  <2> SUFFICES ASSUME NEW k \in 1..MaxKey
               PROVE  /\ k \in Charged' => house'[<<"run", k>>] = "delivered"
                      /\ house'[<<"run", k>>] # "none" => k \in Charged' \/ Escrows(k)' # {}
    BY DEF CallsMatch
  <2>1. (key = k => Escrows(k)' # {}) /\ (Escrows(k) # {} => Escrows(k)' # {})
    BY <1>5
  <2>2. Head(proc["run"].todo).key = k => key = k
    BY DEF Node
  <2> HIDE DEF key
  <2>3. /\ k \in Charged => house[<<"run", k>>] = "delivered"
        /\ house[<<"run", k>>] # "none" =>
             k \in Charged \/ Escrows(k) # {} \/ Head(proc["run"].todo).key = k
    BY DEF Balanced, CallsMatch
  <2> QED
    BY <1>7, <2>1, <2>2, <2>3
<1>10. SumsMatch'
  <2>1. /\ Amounts("hired")' = Amounts("hired") + price
        /\ Amounts("serviced_mcp")' = Amounts("serviced_mcp") + 0
        /\ Amounts("serviced_mcp") \in Nat
    BY <1>3
  <2>2. /\ Price({"foreman"})' = Price({"foreman"}) + price
        /\ Price(Ways)' = Price(Ways) + price
        /\ Price({"helper", "replacement"})' = Price({"helper", "replacement"})
        /\ Price({"foreman"}) \in Nat /\ Price({"helper", "replacement"}) \in Nat
    BY <1>4 DEF Ways
  <2>3. /\ Amounts("hired") = Price({"foreman"})
        /\ Amounts("serviced_mcp") = Fee * Cardinality(Charged)
        /\ Price(Ways) = Price({"foreman"}) + Price({"helper", "replacement"})
    BY DEF Balanced, SumsMatch
  <2>4. Price(Ways)' = Price({"foreman"})' + Price({"helper", "replacement"})'
    BY <1>2, <2>2, <2>3
  <2>5. Amounts("serviced_mcp")' = (Fee * Cardinality(Charged))'
    BY <1>7, <2>1, <2>3
  <2>6. (\A o \in ToSet(proc["run"].outs) : o.amount \in Nat)'
    BY <1>3
  <2> QED
    BY <2>1, <2>2, <2>3, <2>4, <2>5, <2>6 DEF SumsMatch
<1> QED
  BY <1>3, <1>8, <1>9, <1>10 DEF Balanced

\* A call is paid: an outcome, and its key.
LEMMA ServicedBalanced ==
  ASSUME Shape, Balanced, Serviced("run")
  PROVE  Balanced'
<1> DEFINE key == Node("run").key
<1>1. /\ proc["run"].pc = "await" /\ house[<<"run", key>>] = "delivered"
      /\ Done("run", "serviced_mcp", Fee, Entry("mcp_executed", key))
      /\ UNCHANGED <<hires, house>>
  BY DEF Serviced, At, Request
<1>2. /\ InPlan' /\ proc'["user"].pc = "idle" /\ proc'["run"].pc = "node"
      /\ key \in 1..MaxKey /\ key \notin Charged
      /\ \A d : Decided("run", d)' =
                  IF "serviced_mcp" = d
                  THEN Decided("run", d) \cup {Outcome("serviced_mcp", Fee)}
                  ELSE Decided("run", d)
      /\ \A d : /\ Amounts(d) \in Nat
                /\ Amounts(d)' = Amounts(d) + IF "serviced_mcp" = d THEN Fee ELSE 0
      /\ \A o \in ToSet(proc'["run"].outs) : o.amount \in Nat
  <2>1. Fee \in Nat /\ proc["run"].pc \in {"node", "await"} /\ proc["run"].pc # "node"
    BY <1>1, MoneyAssumption
  <2>2. proc["run"].pc = "node" =>
          proc["run"].todo # <<>> /\ ("serviced_mcp" = "skipped" \/ Needed(Node("run")))
    BY <2>1
  <2> QED
    BY <1>1, <2>1, <2>2, Decides, Zenon
<1>3. Decided("run", "hired")' = Decided("run", "hired")
  BY <1>2
<1>4. Charged' = Charged \cup {key}
  <2>1. /\ Decided("run", "serviced_mcp")' =
             Decided("run", "serviced_mcp") \cup {Outcome("serviced_mcp", Fee)}
        /\ Outcome("serviced_mcp", Fee).key = key
    BY <1>2 DEF Outcome
  <2>2. Charged' = {o.key : o \in Decided("run", "serviced_mcp")'}
    BY DEF Charged
  <2> HIDE DEF key
  <2> QED
    BY <2>1, <2>2 DEF Charged
<1>5. (\A v : Price(v)' = Price(v)) /\ \A k : Escrows(k)' = Escrows(k)
  BY <1>1 DEF Price, Escrows
<1>6. RowsMatch'
  BY <1>1, <1>2, <1>3 DEF Balanced, RowsMatch
<1>7. CallsMatch'
  <2> SUFFICES ASSUME NEW k \in 1..MaxKey
               PROVE  /\ k \in Charged' => house'[<<"run", k>>] = "delivered"
                      /\ house'[<<"run", k>>] # "none" => k \in Charged' \/ Escrows(k)' # {}
    BY DEF CallsMatch
  <2>1. Head(proc["run"].todo).key = k => key = k
    BY DEF Node
  <2> HIDE DEF key
  <2>2. /\ k \in Charged => house[<<"run", k>>] = "delivered"
        /\ house[<<"run", k>>] # "none" =>
             k \in Charged \/ Escrows(k) # {} \/ Head(proc["run"].todo).key = k
    BY DEF Balanced, CallsMatch
  <2> QED
    BY <1>1, <1>4, <1>5, <2>1, <2>2
<1>8. SumsMatch'
  <2>1. Cardinality(Charged') = Cardinality(Charged) + 1 /\ Cardinality(Charged) \in Nat
    <3>1. IsFiniteSet(Charged) /\ Cardinality(Charged) \in Nat
      BY ChargedIs
    <3>2. Cardinality(Charged \cup {key}) = Cardinality(Charged) + 1
      BY <1>2, <3>1, FS_AddElement
    <3> QED
      BY <1>4, <3>1, <3>2
  <2>2. /\ Amounts("serviced_mcp")' = Amounts("serviced_mcp") + Fee
        /\ Amounts("hired")' = Amounts("hired") + 0 /\ Amounts("hired") \in Nat
    BY <1>2
  <2>3. /\ Amounts("hired") = Price({"foreman"})
        /\ Amounts("serviced_mcp") = Fee * Cardinality(Charged)
        /\ Price(Ways) = Price({"foreman"}) + Price({"helper", "replacement"})
    BY DEF Balanced, SumsMatch
  <2>4. Amounts("serviced_mcp")' = Fee * Cardinality(Charged')
    <3>1. \A c \in Nat : Fee * (c + 1) = Fee * c + Fee
      BY MoneyAssumption
    <3> QED
      BY <2>1, <2>2, <2>3, <3>1
  <2>5. (\A o \in ToSet(proc["run"].outs) : o.amount \in Nat)'
    BY <1>2
  <2> QED
    BY <1>5, <2>2, <2>3, <2>4, <2>5 DEF SumsMatch, Ways
<1> QED
  BY <1>2, <1>6, <1>7, <1>8 DEF Balanced

\* A call is made: it is waited for.
LEMMA CallBalanced ==
  ASSUME Shape, house = [r \in Requests |-> house[r]], Balanced, Call("run")
  PROVE  Balanced' /\ (house = [r \in Requests |-> house[r]])'
<1> DEFINE key == Node("run").key
<1>1. PICK a : Become("run", [proc["run"] EXCEPT !.pc = "await", !.agent = a])
  BY DEF Call
<1>2. /\ proc["run"].pc = "node" /\ proc["run"].todo # <<>> /\ Needed(Head(proc["run"].todo))
      /\ UNCHANGED hires /\ House!Accept(<<"run", key>>)
  BY DEF Call, Wanted, AtNode, At, Node
<1> DEFINE me == [proc["run"] EXCEPT !.pc = "await", !.agent = a]
<1>3. /\ me.pc = "await" /\ me.todo = proc["run"].todo /\ me.outs = proc["run"].outs
      /\ Become("run", me)
  BY <1>1, ThreeWriters DEF Shape, Fields
<1> HIDE DEF me
<1>4. proc'["run"] = me /\ proc'["user"] = proc["user"]
  BY <1>3, RunBecomes
<1>5. PICK plan : Within(plan) /\ InLoop(proc["run"], plan)
  BY DEF Balanced, InPlan
<1>6. InPlan'
  <2>1. InLoop(me, plan)
    BY <1>2, <1>3, <1>5 DEF InLoop
  <2>2. InLoop(proc["run"], plan)' /\ Within(plan)'
    BY <1>4, <1>5, <2>1 DEF Within
  <2> QED
    BY <2>2 DEF InPlan
<1>7. key \in 1..MaxKey
  <2>1. proc["run"].todo \in Seq(Nodes(plan))
    BY <1>5 DEF InLoop
  <2>2. Head(proc["run"].todo) \in Nodes(plan)
    BY <1>2, <2>1, TailIs
  <2> QED
    BY <1>5, <2>2 DEF Within, Keys, Node
<1>8. <<"run", key>> \in Requests
  BY <1>7 DEF Requests
<1> HIDE DEF key
<1>9. /\ house' = [r \in Requests |-> house'[r]]
      /\ house[<<"run", key>>] = "none"
      /\ \A r \in Requests : r # <<"run", key>> => house'[r] = house[r]
  BY <1>2, <1>8, CallStep
<1>10. /\ \A d : Decided("run", d)' = Decided("run", d)
       /\ \A d : Amounts(d)' = Amounts(d)
       /\ \A v : Price(v)' = Price(v)
       /\ \A k : Escrows(k)' = Escrows(k)
       /\ ToSet(proc["run"].outs)' = ToSet(proc["run"].outs)
  BY <1>2, <1>3, <1>4 DEF Decided, Amounts, Price, Escrows
<1>11. Charged' = Charged
  BY <1>10 DEF Charged
<1>12. RowsMatch'
  BY <1>2, <1>3, <1>4, <1>10 DEF Balanced, RowsMatch
<1>13. CallsMatch'
  <2> SUFFICES ASSUME NEW k \in 1..MaxKey
               PROVE  /\ k \in Charged' => house'[<<"run", k>>] = "delivered"
                      /\ house'[<<"run", k>>] # "none" =>
                           k \in Charged' \/ Escrows(k)' # {} \/ key = k
    BY <1>3, <1>4 DEF CallsMatch, key, Node
  <2>1. <<"run", k>> \in Requests /\ (k # key => <<"run", k>> # <<"run", key>>)
    BY DEF Requests
  <2>2. /\ k \in Charged => house[<<"run", k>>] = "delivered"
        /\ house[<<"run", k>>] # "none" => k \in Charged \/ Escrows(k) # {}
    BY <1>2 DEF Balanced, CallsMatch
  <2>3. k \in Charged => k # key
    BY <1>9, <2>2
  <2> QED
    BY <1>9, <1>10, <1>11, <2>1, <2>2, <2>3
<1>14. SumsMatch'
  BY <1>10, <1>11 DEF Balanced, SumsMatch
<1> QED
  BY <1>4, <1>6, <1>9, <1>12, <1>13, <1>14 DEF Balanced

\* The Room hires: its row is not one of the run's outcomes.
LEMMA RoomBalanced ==
  ASSUME MoneyInv, HiresInv, Balanced, RunRoom
  PROVE  Balanced'
<1>1. /\ proc["run"].pc = "room" /\ CallsInRoom(hires')
      /\ \E next \in {"sign", "report"} : Goto("run", next)
  BY DEF RunRoom, At
<1>2. /\ proc'["run"].todo = proc["run"].todo /\ proc'["run"].outs = proc["run"].outs
      /\ proc'["run"].pc \in {"sign", "report"} /\ proc'["user"] = proc["user"]
  BY <1>1, RunGoesTo DEF MoneyInv
<1>h. \A k \in 1..MaxKey : house'[<<"run", k>>] = house[<<"run", k>>]
  <2> SUFFICES ASSUME NEW k \in 1..MaxKey PROVE house'[<<"run", k>>] = house[<<"run", k>>]
    OBVIOUS
  <2>1. <<"run", k>> \in Requests /\ <<"run", k>>[1] # "room"
    BY DEF Requests
  <2>2. PICK calls : house' = [r \in Requests |-> IF r[1] = "room" /\ r[2] \in calls
                                                 THEN "delivered" ELSE house[r]]
    BY <1>1 DEF CallsInRoom
  <2> QED
    BY <2>1, <2>2
<1>3. CASE UNCHANGED hires
  BY <1>1, <1>2, <1>3, <1>h, BooksKept
<1>4. ASSUME NEW key, NEW cap, NEW a \in Agents, NEW via \in {"helper", "replacement"},
             CreateHire(key, cap, a, via)
      PROVE  Balanced'
  <2>1. /\ hires' # <<>>
        /\ \A i \in DOMAIN hires' : \/ i \in DOMAIN hires /\ hires'[i] = hires[i]
                                    \/ hires'[i].via = via /\ hires'[i].key = key
        /\ \A vias : /\ Price(vias) \in Nat
                     /\ via \in vias => Price(vias)' = Price(vias) + Profiles[a].price
                     /\ via \notin vias => Price(vias)' = Price(vias)
    BY <1>4, RowAdded
  <2>2. \A k : Escrows(k)' = Escrows(k)
    BY <1>4, HiresGrow DEF MoneyInv
  <2>3. /\ \A d : Decided("run", d)' = Decided("run", d)
        /\ \A d : Amounts(d)' = Amounts(d)
        /\ ToSet(proc["run"].outs)' = ToSet(proc["run"].outs)
    BY <1>2 DEF Decided, Amounts
  <2>4. Charged' = Charged
    BY <2>3 DEF Charged
  <2>5. InPlan'
    <3>1. PICK plan : Within(plan) /\ InLoop(proc["run"], plan)
      BY DEF Balanced, InPlan
    <3>2. InLoop(proc'["run"], plan)
      BY <1>2, <3>1 DEF InLoop
    <3>3. InLoop(proc["run"], plan)' /\ Within(plan)'
      BY <3>1, <3>2 DEF Within
    <3> QED
      BY <3>3 DEF InPlan
  <2>6. RowsMatch'
    <3>1. Decided("run", "hired") # {}
      BY <1>1 DEF Balanced, RowsMatch
    <3>2. ASSUME NEW i \in DOMAIN hires'
          PROVE  /\ hires'[i].via \in Ways
                 /\ hires'[i].via = "foreman" =>
                      \E o \in Decided("run", "hired") : o.key = hires'[i].key
      BY <2>1 DEF Balanced, RowsMatch, Ways
    <3> QED
      BY <1>2, <2>1, <2>3, <3>1, <3>2 DEF RowsMatch, Ways
  <2>7. CallsMatch'
    BY <1>1, <1>2, <1>h, <2>2, <2>4 DEF Balanced, CallsMatch
  <2>8. SumsMatch'
    <3> DEFINE price == Profiles[a].price
    <3>1. /\ Price({"foreman"})' = Price({"foreman"})
          /\ Price(Ways)' = Price(Ways) + price
          /\ Price({"helper", "replacement"})' = Price({"helper", "replacement"}) + price
          /\ Price({"foreman"}) \in Nat /\ Price({"helper", "replacement"}) \in Nat
      BY <2>1 DEF Ways
    <3>2. price \in Nat
      BY PricesAre
    <3>3. Price(Ways) = Price({"foreman"}) + Price({"helper", "replacement"})
      BY DEF Balanced, SumsMatch
    <3> HIDE DEF price
    <3>4. Price(Ways)' = Price({"foreman"})' + Price({"helper", "replacement"})'
      BY <3>1, <3>2, <3>3
    <3>5. Amounts("hired")' = Price({"foreman"})'
      BY <2>3, <3>1 DEF Balanced, SumsMatch
    <3>6. Amounts("serviced_mcp")' = Fee * Cardinality(Charged')
      BY <2>3, <2>4 DEF Balanced, SumsMatch
    <3>7. (\A o \in ToSet(proc["run"].outs) : o.amount \in Nat)'
      BY <2>3 DEF Balanced, SumsMatch
    <3> QED
      BY <3>4, <3>5, <3>6, <3>7 DEF SumsMatch
  <2> QED
    BY <1>2, <2>5, <2>6, <2>7, <2>8 DEF Balanced
<1>5. UNCHANGED hires \/ \E key, cap : \E a \in Agents : \E via \in {"helper", "replacement"} :
                           CreateHire(key, cap, a, via)
  BY DEF RunRoom, RoomHires
<1> QED
  BY <1>3, <1>4, <1>5

\* A payment: no row but its status changes.
LEMMA ReleaseBalanced ==
  ASSUME MoneyInv, Balanced, Release("run")
  PROVE  Balanced'
<1> DEFINE u == Unpaid
           row == [hires[u] EXCEPT !.status = "released"]
           me == [proc["run"] EXCEPT !.due = Entry("payment_released", hires[u].key)]
<1>1. /\ SetReleased(u) /\ Become("run", me) /\ u # 0
      /\ proc["run"].pc = "sign" /\ UNCHANGED house
  BY DEF Release, At
<1>2. u \in DOMAIN hires
  BY <1>1, UnpaidType DEF MoneyInv
<1> HIDE DEF u
<1>3. me.pc = proc["run"].pc /\ me.todo = proc["run"].todo /\ me.outs = proc["run"].outs
  BY ThreeWriters DEF MoneyInv, Shape, Fields
<1> HIDE DEF me
<1>4. proc'["run"] = me /\ proc'["user"] = proc["user"]
  BY <1>1, RunBecomes DEF MoneyInv
<1>5. row.key = hires[u].key /\ row.via = hires[u].via /\ row.agent = hires[u].agent
  OBVIOUS
<1>6. hires' = [hires EXCEPT ![u] = row]
  BY <1>1 DEF SetReleased
<1> HIDE DEF row
<1>7. /\ DOMAIN hires' = DOMAIN hires
      /\ \A i \in DOMAIN hires : /\ hires'[i].key = hires[i].key /\ hires'[i].via = hires[i].via
                                 /\ hires'[i].agent = hires[i].agent
  <2>1. DOMAIN hires' = DOMAIN hires
    BY <1>6
  <2>2. \A i \in DOMAIN hires : hires'[i] = IF i = u THEN row ELSE hires[i]
    BY <1>6
  <2> QED
    BY <1>5, <2>1, <2>2
<1>8. \A v : Price(v)' = Price(v)
  <2> SUFFICES ASSUME NEW v PROVE Price(v)' = Price(v)
    OBVIOUS
  <2> DEFINE d == [i \in DOMAIN hires |->
                     IF hires[i].via \in v THEN Profiles[hires[i].agent].price ELSE 0]
             f == [i \in DOMAIN hires' |->
                     IF hires'[i].via \in v THEN Profiles[hires'[i].agent].price ELSE 0]
  <2>1. d = f
    BY <1>7
  <2>2. Price(v) = SumOf(d) /\ Price(v)' = SumOf(f)
    BY DEF Price
  <2> HIDE DEF d, f
  <2> QED
    BY <2>1, <2>2
<1>9. \A k : Escrows(k)' = Escrows(k)
  BY <1>7 DEF Escrows
<1>10. /\ \A d : Decided("run", d)' = Decided("run", d)
       /\ \A d : Amounts(d)' = Amounts(d)
       /\ ToSet(proc["run"].outs)' = ToSet(proc["run"].outs)
  BY <1>3, <1>4 DEF Decided, Amounts
<1>11. Charged' = Charged
  BY <1>10 DEF Charged
<1>12. InPlan'
  <2>1. PICK plan : Within(plan) /\ InLoop(proc["run"], plan)
    BY DEF Balanced, InPlan
  <2>2. InLoop(proc'["run"], plan)
    BY <1>3, <1>4, <2>1 DEF InLoop
  <2>3. InLoop(proc["run"], plan)' /\ Within(plan)'
    BY <2>1, <2>2 DEF Within
  <2> QED
    BY <2>3 DEF InPlan
<1>13. RowsMatch'
  <2>1. hires' = <<>> <=> hires = <<>>
    <3>1. PICK S : hires \in Seq(S)
      BY DEF MoneyInv, Rows
    <3>2. hires # <<>>
      BY <1>2
    <3>3. hires' # <<>>
      BY <1>2, <1>7
    <3> QED
      BY <3>2, <3>3
  <2>2. \A i \in DOMAIN hires' :
          /\ hires'[i].via \in Ways
          /\ hires'[i].via = "foreman" => \E o \in Decided("run", "hired") : o.key = hires'[i].key
    BY <1>7 DEF Balanced, RowsMatch
  <2> QED
    BY <1>1, <1>3, <1>4, <1>10, <2>1, <2>2 DEF Balanced, RowsMatch, Ways
<1>14. CallsMatch'
  BY <1>1, <1>3, <1>4, <1>9, <1>11 DEF Balanced, CallsMatch
<1>15. SumsMatch'
  BY <1>8, <1>10, <1>11 DEF Balanced, SumsMatch
<1> QED
  BY <1>4, <1>12, <1>13, <1>14, <1>15 DEF Balanced

\* TheHouse answers, or gives up: a paid call stays answered.
LEMMA HouseBalanced ==
  ASSUME house = [r \in Requests |-> house[r]], Balanced, HouseActs
  PROVE  Balanced'
<1>1. UNCHANGED <<proc, hires>>
  BY DEF HouseActs
<1>2. \A r \in Requests : /\ house[r] = "none" => house'[r] = "none"
                          /\ house[r] = "delivered" => house'[r] = "delivered"
  BY HouseStep
<1>3. /\ \A d : Decided("run", d)' = Decided("run", d)
      /\ \A d : Amounts(d)' = Amounts(d)
      /\ \A v : Price(v)' = Price(v)
      /\ \A k : Escrows(k)' = Escrows(k)
  BY <1>1 DEF Decided, Amounts, Price, Escrows
<1>4. Charged' = Charged
  BY <1>3 DEF Charged
<1>5. CallsMatch'
  <2> SUFFICES ASSUME NEW k \in 1..MaxKey
               PROVE  /\ k \in Charged => house'[<<"run", k>>] = "delivered"
                      /\ house'[<<"run", k>>] # "none" =>
                           \/ k \in Charged \/ Escrows(k) # {}
                           \/ proc["run"].pc = "await" /\ Head(proc["run"].todo).key = k
    BY <1>1, <1>3, <1>4 DEF CallsMatch
  <2>1. <<"run", k>> \in Requests
    BY DEF Requests
  <2> QED
    BY <1>2, <2>1 DEF Balanced, CallsMatch
<1>6. InPlan' /\ RowsMatch' /\ SumsMatch'
  <2>1. InPlan'
    BY <1>1 DEF Balanced, InPlan, Within, InLoop
  <2>2. RowsMatch'
    BY <1>1, <1>3 DEF Balanced, RowsMatch
  <2>3. SumsMatch'
    BY <1>1, <1>3, <1>4 DEF Balanced, SumsMatch
  <2> QED
    BY <2>1, <2>2, <2>3
<1> QED
  BY <1>1, <1>5, <1>6 DEF Balanced

\* The loop begins over the saved graph.
LEMMA ReadJobBalanced ==
  ASSUME MoneyInv, OnceInv, Within(nodes), Balanced, ReadJob("run")
  PROVE  Balanced'
<1> DEFINE me == [proc["run"] EXCEPT !.pc = "node", !.todo = nodes, !.held = ActiveNodes]
<1>1. Become("run", me) /\ proc["run"].pc = "hire" /\ UNCHANGED <<hires, house>>
  BY DEF ReadJob, At
<1> HIDE DEF ActiveNodes
<1>2. me.pc = "node" /\ me.todo = nodes /\ me.outs = proc["run"].outs
  BY ThreeWriters DEF MoneyInv, Shape, Fields
<1> HIDE DEF me
<1>3. proc'["run"] = me /\ proc'["user"] = proc["user"]
  BY <1>1, RunBecomes DEF MoneyInv
<1>4. me.outs = <<>>
  BY <1>1, <1>2 DEF OnceInv, Beginning
<1>5. InLoop(me, nodes)
  <2>1. nodes \in [1..Len(nodes) -> Nodes(nodes)] /\ Len(nodes) \in Nat
    BY DEF OnceInv, IsPlan, Nodes
  <2>2. nodes \in Seq(Nodes(nodes)) /\ Distinct(nodes)
    BY <2>1, SeqDef DEF OnceInv, IsPlan
  <2>3. ToSet(me.outs) = {} /\ <<>> \in Seq({})
    BY <1>4, EmptySeq DEF ToSet
  <2> QED
    BY <1>2, <1>4, <2>2, <2>3 DEF InLoop
<1>6. InPlan'
  <2>1. PICK plan : Within(plan) /\ InLoop(me, plan)
    BY <1>5
  <2>2. InLoop(proc["run"], plan)' /\ Within(plan)'
    BY <1>3, <2>1 DEF Within
  <2> QED
    BY <2>2 DEF InPlan
<1>7. /\ \A d : Decided("run", d)' = Decided("run", d)
      /\ \A d : Amounts(d)' = Amounts(d)
      /\ \A v : Price(v)' = Price(v)
      /\ \A k : Escrows(k)' = Escrows(k)
      /\ ToSet(proc["run"].outs)' = ToSet(proc["run"].outs)
  BY <1>1, <1>2, <1>3 DEF Decided, Amounts, Price, Escrows
<1>8. Charged' = Charged
  BY <1>7 DEF Charged
<1>9. RowsMatch'
  BY <1>1, <1>2, <1>3, <1>7 DEF Balanced, RowsMatch
<1>10. CallsMatch'
  BY <1>1, <1>2, <1>3, <1>7, <1>8 DEF Balanced, CallsMatch
<1>11. SumsMatch'
  BY <1>7, <1>8 DEF Balanced, SumsMatch
<1> QED
  BY <1>3, <1>6, <1>9, <1>10, <1>11 DEF Balanced

\* TheHouse has a status for every request, and no other.
LEMMA HouseKeeps ==
  ASSUME Shape, house = [r \in Requests |-> house[r]], [Next]_vars
  PROVE  house' = [r \in Requests |-> house'[r]]
<1>1. CASE UNCHANGED house
  BY <1>1
<1>2. CASE HouseActs
  BY <1>2, HouseStep
<1>3. ASSUME NEW p, Call(p) PROVE house' = [r \in Requests |-> house'[r]]
  <2>1. PICK q, st : house' = [house EXCEPT ![q] = st]
    BY <1>3 DEF Call, House!Accept
  <2> QED
    BY <2>1
<1>7. CASE RunRoom
  <2>1. PICK calls : house' = [r \in Requests |-> IF r[1] = "room" /\ r[2] \in calls
                                                 THEN "delivered" ELSE house[r]]
    BY <1>7 DEF RunRoom, CallsInRoom
  <2> QED
    BY <2>1
<1>8. CASE Ends
  BY <1>1, <1>8, EndsIs
<1>4. CASE RunBuys
  BY <1>1, <1>3, <1>4, <1>7 DEF RunBuys, ReadJob, Skip, Escalate, Hire, CallDirect, HireUnder, Serviced,
                          GiveUp, Release
<1>5. CASE UserActs
  BY <1>1, <1>3, <1>5 DEF UserActs, UserDistills, UserHires, UserSigns, Foreman, ReadJob, Skip,
                          Escalate, Hire, CallDirect, HireUnder, Serviced, GiveUp, EndLoop,
                          Release, SignedOff, Fail
<1>6. CASE Onward
  BY <1>1, <1>6 DEF Onward
<1> QED
  BY <1>2, <1>4, <1>5, <1>6, <1>8, StepKinds

\* Whatever the run buys, its books still balance.
LEMMA RunBuysBalanced ==
  ASSUME MoneyInv, OnceInv, ProcInv, HiresInv, HeadInv, RunBuys
  PROVE  Balanced'
<1>1. Shape /\ Balanced /\ house = [r \in Requests |-> house[r]] /\ Within(nodes)
  BY RunBuysIs DEF MoneyInv, HeadInv
<1>2. CASE Hire("run") \/ CallDirect("run")
  <2>1. PICK a \in Agents : OpenEscrow("run", a)
    BY <1>2 DEF Hire, CallDirect, HireUnder
  <2>2. /\ UNCHANGED house /\ proc["run"].pc = "node" /\ proc["run"].todo # <<>>
        /\ Needed(Node("run"))
    BY <1>2 DEF Hire, CallDirect, HireUnder, Wanted, AtNode, At
  <2> QED
    BY <1>1, <2>1, <2>2, EscrowBalanced
<1>3. CASE GiveUp("run")
  <2>1. /\ UNCHANGED house /\ proc["run"].pc = "await" /\ OpenEscrow("run", proc["run"].agent)
    BY <1>3 DEF GiveUp, At
  <2>2. proc["run"].agent \in Agents
    BY <2>1, ThreeWriters DEF ProcInv
  <2> QED
    BY <1>1, <2>1, <2>2, EscrowBalanced
<1> QED
  BY <1>1, <1>2, <1>3, PassedBalanced, ServicedBalanced, CallBalanced, RoomBalanced,
     ReleaseBalanced, ReadJobBalanced DEF RunBuys

LEMMA HeadInit == Init => HeadInv
<1> SUFFICES ASSUME Init PROVE HeadInv
  OBVIOUS
<1>1. nodes = <<>> /\ hires = <<>> /\ house = [r \in Requests |-> "none"]
  BY DEF Init, House!Init
<1>2. /\ proc["run"].pc = "submit" /\ proc["run"].todo = <<>> /\ proc["run"].outs = <<>>
      /\ proc["user"].pc = "idle"
  <2>1. proc["run"] = Fresh("submit") /\ proc["user"] = Fresh("idle")
    BY ThreeWriters DEF Init
  <2>2. ASSUME NEW pc
        PROVE  Fresh(pc).pc = pc /\ Fresh(pc).todo = <<>> /\ Fresh(pc).outs = <<>>
    BY DEF Fresh
  <2> QED
    BY <2>1, <2>2
<1>3. DOMAIN <<>> = {} /\ ToSet(<<>>) = {}
  BY DEF ToSet
<1>4. Within(<<>>)
  BY <1>3 DEF Within, Keys, Nodes
<1>5. InPlan
  <2>1. InLoop(proc["run"], <<>>)
    BY <1>2, EmptyLoop
  <2> QED
    BY <1>4, <2>1 DEF InPlan
<1>6. \A d : Decided("run", d) = {}
  BY <1>2, <1>3 DEF Decided
<1>7. Charged = {}
  BY <1>6 DEF Charged
<1>8. RowsMatch
  BY <1>1, <1>2, <1>3, <1>6 DEF RowsMatch
<1>9. CallsMatch
  BY <1>1, <1>7 DEF CallsMatch, Requests
<1>10. SumsMatch
  <2>1. \A d : Amounts(d) = AmountsIn(<<>>, d)
    BY <1>2 DEF Amounts, AmountsIn
  <2>2. \A v : Price(v) = PriceIn(<<>>, v)
    BY <1>1 DEF Price, PriceIn
  <2>3. (\A d : Amounts(d) = 0) /\ \A v : Price(v) = 0
    BY <2>1, <2>2, NothingSums
  <2>4. Fee * Cardinality(Charged) = 0
    BY <1>7, FS_EmptySet, MoneyAssumption
  <2> QED
    BY <1>2, <1>3, <2>3, <2>4 DEF SumsMatch
<1> QED
  BY <1>1, <1>2, <1>4, <1>5, <1>8, <1>9, <1>10 DEF HeadInv, Balanced

LEMMA HeadStep ==
  MoneyInv /\ PlanInv /\ OnceInv /\ ProcInv /\ HiresInv /\ HeadInv /\ [Next]_vars => HeadInv'
<1> SUFFICES ASSUME MoneyInv, PlanInv, OnceInv, ProcInv, HiresInv, HeadInv, [Next]_vars
             PROVE  HeadInv'
  OBVIOUS
<1>1. Shape
  BY DEF MoneyInv
<1>2. Within(nodes)'
  BY NodesWithin DEF HeadInv
<1>3. house' = [r \in Requests |-> house'[r]]
  BY <1>1, HouseKeeps DEF HeadInv
<1>4. ASSUME Going' PROVE Balanced'
  <2>1. Going /\ Balanced
    BY <1>1, <1>4, RunEnds DEF HeadInv
  <2>4. ~Ends
    BY <1>1, <1>4, EndsIs DEF Going
  <2>2. ~UserActs
    BY <1>1, <2>1, UserActsIs DEF Balanced
  <2>3. CASE HouseActs
    BY <2>1, <2>3, HouseBalanced DEF HeadInv
  <2> QED
    BY <1>1, <2>1, <2>2, <2>3, <2>4, StepKinds, OnwardBalanced, RunBuysBalanced
<1> QED
  BY <1>2, <1>3, <1>4 DEF HeadInv

\* The calls of the run that TheHouse charged for are those the run paid, and those whose
\* node it hired for all the same.
LEMMA CallsAre ==
  ASSUME Balanced, proc["run"].pc # "await"
  PROVE  /\ Cardinality(Charged) \in Nat /\ Cardinality(PaidTwice) \in Nat
         /\ Cardinality(Called("room")) \in Nat
         /\ Cardinality(Called("run")) = Cardinality(Charged) + Cardinality(PaidTwice)
<1>1. /\ Charged \subseteq 1..MaxKey /\ IsFiniteSet(Charged) /\ Cardinality(Charged) \in Nat
      /\ \A k \in Charged : \A o \in Decided("run", "hired") : o.key # k
  BY ChargedIs
<1>2. MaxKey \in Nat /\ IsFiniteSet(1..(MaxKey + 1))
  BY PlansAssumption, CountTo
<1>3. \A c : IsFiniteSet(Called(c)) /\ Cardinality(Called(c)) \in Nat
  <2> SUFFICES ASSUME NEW c PROVE IsFiniteSet(Called(c)) /\ Cardinality(Called(c)) \in Nat
    OBVIOUS
  <2>1. Called(c) \subseteq 1..(MaxKey + 1)
    BY DEF Called
  <2> QED
    BY <1>2, <2>1, FS_Subset, FS_CardinalityType
<1>4. IsFiniteSet(PaidTwice) /\ Cardinality(PaidTwice) \in Nat
  <2>1. PaidTwice \subseteq Called("run")
    BY DEF PaidTwice
  <2> QED
    BY <1>3, <2>1, FS_Subset, FS_CardinalityType
<1>5. ASSUME NEW k \in Charged PROVE k \in Called("run") /\ k \notin PaidTwice
  <2>1. house[<<"run", k>>] = "delivered" /\ <<"run", k>> \in Requests /\ k \in 1..(MaxKey + 1)
    BY <1>1, <1>2 DEF Balanced, CallsMatch, Requests
  <2>2. Escrows(k) = {}
    BY <1>1 DEF Balanced, RowsMatch, Escrows
  <2> QED
    BY <2>1, <2>2 DEF Called, PaidTwice
<1>6. ASSUME NEW k \in Called("run"), k \notin PaidTwice PROVE k \in Charged
  <2>1. /\ <<"run", k>> \in Requests /\ house[<<"run", k>>] \in {"delivered", "cached"}
        /\ Escrows(k) = {}
    BY <1>6 DEF Called, PaidTwice
  <2>2. k \in 1..MaxKey
    BY <2>1 DEF Requests
  <2> QED
    BY <2>1, <2>2 DEF Balanced, CallsMatch
<1>7. Called("run") = Charged \cup PaidTwice /\ Charged \cap PaidTwice = {}
  BY <1>5, <1>6 DEF PaidTwice
<1>8. Cardinality(Charged \cup PaidTwice) =
        Cardinality(Charged) + Cardinality(PaidTwice) - Cardinality(Charged \cap PaidTwice)
  BY <1>1, <1>4, FS_Union, Zenon
<1>9. Cardinality(Charged \cap PaidTwice) = 0
  BY <1>7, FS_EmptySet
<1>10. Cardinality(Called("run")) = Cardinality(Charged \cup PaidTwice)
  BY <1>7
<1>11. Cardinality(Called("run")) = Cardinality(Charged) + Cardinality(PaidTwice)
  BY <1>1, <1>4, <1>8, <1>9, <1>10
<1>12. Cardinality(Called("room")) \in Nat
  BY <1>3
<1> QED
  BY <1>1, <1>4, <1>11, <1>12, Zenon

\* What a run reports, and what it leaves out.
LEMMA EndAccounts ==
  ASSUME MoneyInv, HiresInv, HeadInv, Report \/ (Decide /\ Answers)
  PROVE  headline' + Fee * (Cardinality(PaidTwice) + Cardinality(Called("room")))
           = Cost + Price({"helper"})
<1> DEFINE paid == Fee * Cardinality(Charged)
           left == Fee * (Cardinality(PaidTwice) + Cardinality(Called("room")))
<1>1. proc["run"].pc \in {"report", "decide"}
  BY DEF Report, Decide, At
<1>2. Balanced
  BY <1>1 DEF HeadInv, Going
<1>3. /\ paid \in Nat /\ left \in Nat
      /\ Fee * (Cardinality(Called("run")) + Cardinality(Called("room"))) = paid + left
  <2> DEFINE a == Cardinality(Charged)
             b == Cardinality(PaidTwice)
             c == Cardinality(Called("room"))
             d == Cardinality(Called("run"))
  <2>1. proc["run"].pc # "await"
    BY <1>1
  <2>2. a \in Nat /\ b \in Nat /\ c \in Nat /\ d = a + b
    BY <1>2, <2>1, CallsAre, Zenon
  <2> HIDE DEF a, b, c, d
  <2>3. /\ Fee * a \in Nat /\ Fee * (b + c) \in Nat
        /\ Fee * (d + c) = Fee * a + Fee * (b + c)
    BY <2>2, MoneyAssumption
  <2> QED
    BY <2>3, Zenon DEF a, b, c, d
<1>4. /\ Amounts("hired") = Price({"foreman"})
      /\ Amounts("serviced_mcp") = paid
      /\ Price(Ways) = Price({"foreman"}) + Price({"helper", "replacement"})
      /\ hires = <<>> <=> Decided("run", "hired") = {}
  BY <1>2 DEF Balanced, SumsMatch, RowsMatch
<1>5. \A v : Price(v) \in Nat
  <2> SUFFICES ASSUME NEW v PROVE Price(v) \in Nat
    OBVIOUS
  <2>1. PICK T : hires \in Seq(T)
    BY DEF HiresInv
  <2>2. \A i \in DOMAIN hires : hires[i].agent \in Agents
    BY DEF HiresInv, SafeRow, Sound
  <2>3. Price(v) = PriceIn(hires, v)
    BY DEF Price, PriceIn
  <2>4. CASE Agents = {}
    <3>1. DOMAIN hires = {}
      BY <2>2, <2>4
    <3>2. hires = <<>>
      BY <2>1, <3>1
    <3> QED
      BY <2>3, <3>2, NothingSums
  <2>5. CASE Agents # {}
    <3>1. PICK a : a \in Agents
      BY <2>5
    <3>2. \E e : e.agent \in Agents
      <4>1. [agent |-> a].agent \in Agents
        BY <3>1
      <4> QED
        BY <4>1
    <3>3. PICK e : e.agent \in Agents
      BY <3>2
    <3> QED
      BY <2>1, <2>2, <2>3, <3>3, PriceGrows
  <2> QED
    BY <2>4, <2>5
<1>6. hires = <<>> => \A v : Price(v) = 0
  <2>1. hires = <<>> => \A v : Price(v) = PriceIn(<<>>, v)
    BY DEF Price, PriceIn
  <2> QED
    BY <2>1, NothingSums
<1>7. Cost = Price(Ways) + (paid + left) + (IF hires = <<>> THEN 0 ELSE RoomFee)
  BY <1>3 DEF Cost, Ways
<1>8. paid \in Nat /\ left \in Nat /\ RoomFee \in Nat
  BY <1>3, MoneyAssumption
<1> HIDE DEF paid, left
<1> SUFFICES headline' + left = Cost + Price({"helper"})
  BY DEF left
<1>9. CASE Report
  <2>1. headline' = Amounts("serviced_mcp") + Amounts("hired")
                    + (IF Decided("run", "hired") = {} THEN 0 ELSE RoomFee + Price({"helper"}))
                    + Price({"helper", "replacement"})
    BY <1>9 DEF Report, Total, TotalOfHires, Coordination
  <2>2. CASE hires = <<>>
    <3>1. /\ Price({"helper"}) = 0 /\ Price({"foreman"}) = 0 /\ Price(Ways) = 0
          /\ Price({"helper", "replacement"}) = 0
      BY <1>6, <2>2
    <3>2. Cost = paid + left
      BY <1>7, <1>8, <2>2, <3>1
    <3>3. headline' = paid
      BY <1>4, <1>8, <2>1, <2>2, <3>1
    <3> QED
      BY <1>8, <3>1, <3>2, <3>3
  <2>3. CASE hires # <<>>
    <3>1. headline' = Amounts("serviced_mcp") + Amounts("hired") + RoomFee + Price({"helper"})
                      + Price({"helper", "replacement"})
      BY <1>4, <1>5, <1>8, <2>1, <2>3
    <3>2. Cost = Price(Ways) + (paid + left) + RoomFee
      BY <1>7, <2>3
    <3>3. /\ Price({"helper"}) \in Nat /\ Price({"foreman"}) \in Nat
          /\ Price({"helper", "replacement"}) \in Nat
      BY <1>5
    <3>4. Cost = Price({"foreman"}) + Price({"helper", "replacement"})
                 + (paid + left) + RoomFee
      BY <1>4, <3>2
    <3>5. headline' = paid + Price({"foreman"}) + RoomFee
                      + Price({"helper"}) + Price({"helper", "replacement"})
      BY <1>4, <3>1
    <3> QED
      BY <1>8, <3>3, <3>4, <3>5
  <2> QED
    BY <2>2, <2>3
<1>10. CASE Decide /\ Answers
  <2>1. headline' = Amounts("serviced_mcp") /\ Decided("run", "hired") = {}
    BY <1>10 DEF Decide, Answers
  <2> QED
    BY <2>1, <1>4, <1>6, <1>7, <1>8
<1> QED
  BY <1>9, <1>10

\* core/conductor.py, JobRun.spend_usd: for every plan, price and market, whatever the Room
\* hires and calls, however often a call is given up and whoever fails, the headline of a run
\* that returns is every escrow, the coordination and every call the run waited for, and
\* what it leaves out is the calls charged late or from the cache and the Room's own.
THEOREM HeadlineAccountCorrect == Spec => HeadlineAccount
<1>1. Spec => [](MoneyInv /\ PlanInv)
  BY MoneyInit, MoneyStep, PlanInit, PlanStep, PTL DEF Spec
<1>2. Spec => []OnceInv
  BY <1>1, OnceInit, OnceStep, PTL DEF Spec
<1>3. Spec => [](ProcInv /\ HiresInv)
  BY HireInit, NextHireInv, PTL DEF Spec
<1>4. Spec => []HeadInv
  BY <1>1, <1>2, <1>3, HeadInit, HeadStep, PTL DEF Spec
<1>5. MoneyInv /\ HiresInv /\ HeadInv /\ [Next]_vars =>
        [proc["run"].pc # proc'["run"].pc /\ proc'["run"].pc \in {"done", "answered"} =>
           headline' + Fee * (Cardinality(PaidTwice) + Cardinality(Called("room")))
             = Cost + Price({"helper"})]_vars
  <2> SUFFICES ASSUME MoneyInv, HiresInv, HeadInv, [Next]_vars,
                      proc["run"].pc # proc'["run"].pc, proc'["run"].pc \in {"done", "answered"}
               PROVE  headline' + Fee * (Cardinality(PaidTwice) + Cardinality(Called("room")))
                        = Cost + Price({"helper"})
    OBVIOUS
  <2>1. Report \/ (Decide /\ Answers)
    BY RunEnds DEF MoneyInv
  <2> QED
    BY <2>1, EndAccounts
<1> QED
  BY <1>1, <1>3, <1>4, <1>5, PTL DEF Spec, HeadlineAccount
=============================================================================
