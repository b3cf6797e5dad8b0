--------------------------- MODULE PipelineProofs ---------------------------
(***************************************************************************)
(* Theorems about module Pipeline, for any callers, queries, chunk size and *)
(* listing the assumption on the constants admits: the price rules, that no *)
(* route forgets or overcharges a caller, that none is given another       *)
(* query's answer, and that every step of a batch brings it to its end.    *)
(***************************************************************************)
EXTENDS Pipeline, FiniteSetTheorems, TLAPS

\* The flat priority discount never takes the price below the batched one, nor above
\* the full price, whether the call costs more or less than the discount.
LEMMA PriorityPriceBounds == HousePrice <= PriorityPrice /\ PriorityPrice <= OriginalPrice
<1> USE DEF PriorityPrice
<1>1. /\ OriginalPrice \in Nat /\ HousePrice \in Nat
      /\ PriorityDiscount \in Nat /\ SoloDiscount \in Nat
  BY PipelineAssumption
<1>2. HousePrice + SoloDiscount <= OriginalPrice
  BY PipelineAssumption
<1> QED
  BY <1>1, <1>2

\* pricing.py: while the mode stays what it was at the gate, no size of the batch makes
\* the settled price, or the price of a cached answer, exceed the ceiling.
THEOREM SettledWithinCeiling ==
  ASSUME NEW m \in Modes, NEW size \in Nat, NEW p \in BOOLEAN
  PROVE  /\ SettledPrice(m, size, p) <= CeilingPrice(m, p)
         /\ CallerPrice(m, p) <= CeilingPrice(m, p)
<1>1. /\ OriginalPrice \in Nat /\ HousePrice \in Nat
      /\ SoloDiscount \in Nat /\ CoordinationFee \in Nat
      /\ HousePrice + SoloDiscount <= OriginalPrice
  BY PipelineAssumption
<1>2. PriorityPrice \in Int
  BY PipelineAssumption DEF PriorityPrice
<1>3. CASE m \notin Aggregated
  <2>1. SettledPrice(m, size, p) = RoutePrice(m) /\ CallerPrice(m, p) = RoutePrice(m)
    BY <1>3 DEF SettledPrice, CallerPrice
  <2>2. CeilingPrice(m, p) = RoutePrice(m) /\ RoutePrice(m) \in Nat
    BY <1>1, <1>3 DEF CeilingPrice, RoutePrice
  <2> QED
    BY <2>1, <2>2
<1>4. CASE m \in Aggregated /\ p
  <2>1. SettledPrice(m, size, p) = PriorityPrice /\ CallerPrice(m, p) = PriorityPrice
    BY <1>4 DEF SettledPrice, CallerPrice
  <2>2. CeilingPrice(m, p) = PriorityPrice
    BY <1>4 DEF CeilingPrice
  <2> QED
    BY <2>1, <2>2, <1>2
<1>5. CASE m \in Aggregated /\ ~p
  <2>1. CeilingPrice(m, p) = OriginalPrice
    BY <1>5 DEF CeilingPrice, RoutePrice, Aggregated
  <2>2. SettledPrice(m, size, p) \in {HousePrice, OriginalPrice - SoloDiscount}
    BY <1>5 DEF SettledPrice
  <2>3. CallerPrice(m, p) = HousePrice
    BY <1>5 DEF CallerPrice
  <2> QED
    BY <2>1, <2>2, <2>3, <1>1
<1> QED
  BY <1>3, <1>4, <1>5

\* The converse of the exception in OverchargeNeedsModeChange: a demotion to the
\* parallel route between the gate and the fire charges every caller, whatever the
\* listing, above the ceiling it authorized.
THEOREM DemotionOvercharges ==
  ASSUME NEW m \in Aggregated, NEW size \in Nat, NEW p \in BOOLEAN, CoordinationFee > 0
  PROVE  SettledPrice("B_fanout", size, p) > CeilingPrice(m, p)
<1>1. SettledPrice("B_fanout", size, p) = OriginalPrice + CoordinationFee
  BY DEF SettledPrice, RoutePrice, Aggregated
<1>2. CeilingPrice(m, p) \in {PriorityPrice, OriginalPrice}
  BY DEF CeilingPrice, RoutePrice, Aggregated
<1>3. OriginalPrice \in Nat /\ CoordinationFee \in Nat
  BY PipelineAssumption
<1>4. PriorityPrice \in Int
  BY PipelineAssumption DEF PriorityPrice
<1> QED
  BY <1>1, <1>2, <1>3, <1>4, PriorityPriceBounds

-----------------------------------------------------------------------------
(* Sequences and finite sets of requests.                                  *)

Ids(s) == {s[i].id : i \in DOMAIN s}

\* A sequence that holds nothing twice, and deliveries of which no two are for one request.
OneEach(s) == \A i, j \in DOMAIN s : s[i] = s[j] => i = j
OneDelivery(s) == \A i, j \in DOMAIN s : s[i].id = s[j].id => i = j

LEMMA LeastElement ==
  ASSUME NEW T, T \subseteq Nat, T # {}
  PROVE  \E m \in T : \A n \in T : m <= n
<1> DEFINE R == {x \in Nat \X Nat : x[1] < x[2]}
<1>1. IsWellFoundedOn(R, Nat)
  BY NatLessThanWellFounded DEF OpToRel
<1> HIDE DEF R
<1>2. PICK m \in T : \A n \in T : ~ (<<n, m>> \in R)
  BY <1>1, WFMin
<1>3. ASSUME NEW n \in T PROVE m <= n
  <2>1. <<n, m>> \in Nat \X Nat /\ <<n, m>>[1] = n /\ <<n, m>>[2] = m
    OBVIOUS
  <2>2. ~ (n < m)
    BY <1>2, <2>1 DEF R
  <2> QED
    BY <2>2
<1> QED
  BY <1>3

LEMMA RequestsFinite == ASSUME NEW S \in SUBSET Requests
                        PROVE  IsFiniteSet(S) /\ Cardinality(S) \in Nat
<1>1. IsFiniteSet(Requests)
  BY PipelineAssumption, FS_Interval DEF Requests
<1>2. IsFiniteSet(S)
  BY <1>1, FS_Subset
<1> QED
  BY <1>2, FS_CardinalityType

\* Every finite set of requests has an enumeration in the order of arrival.
LEMMA InOrderExists ==
  ASSUME NEW S \in SUBSET Requests
  PROVE  \E s \in [1..Cardinality(S) -> S] :
           \A i, j \in 1..Cardinality(S) : i < j => s[i] < s[j]
<1> DEFINE Upto(r) == {t \in S : t <= r}
           rank == [r \in S |-> Cardinality(Upto(r))]
           N == Cardinality(S)
<1>1. IsFiniteSet(S) /\ N \in Nat
  BY RequestsFinite
<1>2. S \subseteq Nat
  BY DEF Requests
<1>3. \A r \in S : Upto(r) \in SUBSET S /\ r \in Upto(r)
  BY <1>2
<1>4. ASSUME NEW r \in S PROVE Cardinality(Upto(r)) \in 1..N
  <2>1. Upto(r) \in SUBSET S /\ r \in Upto(r)
    BY <1>3
  <2>2. IsFiniteSet(Upto(r)) /\ Cardinality(Upto(r)) <= N
    BY <1>1, <2>1, FS_Subset
  <2>3. Cardinality(Upto(r)) # 0
    BY <2>1, <2>2, FS_EmptySet
  <2>4. Cardinality(Upto(r)) \in Nat
    BY <2>2, FS_CardinalityType
  <2> HIDE DEF Upto, N
  <2> QED
    BY <1>1, <2>2, <2>3, <2>4
<1>5. ASSUME NEW r \in S, NEW t \in S, r < t PROVE Cardinality(Upto(r)) < Cardinality(Upto(t))
  <2>0. r \in Nat /\ t \in Nat
    BY <1>2
  <2>1. Upto(r) \subseteq Upto(t) /\ t \in Upto(t) /\ t \notin Upto(r)
    <3>1. ASSUME NEW x \in S, x <= r PROVE x <= t
      BY <1>2, <1>5, <2>0, <3>1
    <3>2. t <= t /\ ~(t <= r)
      BY <1>5, <2>0
    <3> QED
      BY <3>1, <3>2
  <2>2. IsFiniteSet(Upto(t))
    BY <1>1, <1>3, FS_Subset
  <2>3. Cardinality(Upto(r)) <= Cardinality(Upto(t)) /\ Cardinality(Upto(t)) # Cardinality(Upto(r))
    <3> HIDE DEF Upto
    <3> QED
      BY <2>1, <2>2, FS_Subset
  <2>4. Cardinality(Upto(r)) \in Nat /\ Cardinality(Upto(t)) \in Nat
    BY <1>4
  <2> HIDE DEF Upto
  <2> QED
    BY <2>3, <2>4
<1>6. rank \in Injection(S, 1..N)
  <2>1. rank \in [S -> 1..N]
    BY <1>4
  <2>2. ASSUME NEW r \in S, NEW t \in S, rank[r] = rank[t] PROVE r = t
    <3>1. Cardinality(Upto(r)) = Cardinality(Upto(t))
      BY <2>2
    <3>2. Cardinality(Upto(r)) \in Nat /\ Cardinality(Upto(t)) \in Nat
      BY <1>4
    <3> HIDE DEF Upto, rank
    <3>3. ~(r < t)
      <4> SUFFICES ASSUME r < t PROVE FALSE
        OBVIOUS
      <4>1. Cardinality(Upto(r)) < Cardinality(Upto(t))
        BY <1>5
      <4> QED
        BY <3>1, <3>2, <4>1
    <3>4. ~(t < r)
      <4> SUFFICES ASSUME t < r PROVE FALSE
        OBVIOUS
      <4>1. Cardinality(Upto(t)) < Cardinality(Upto(r))
        BY <1>5
      <4> QED
        BY <3>1, <3>2, <4>1
    <3>5. r \in Nat /\ t \in Nat
      BY <1>2
    <3> QED
      BY <3>3, <3>4, <3>5
  <2>3. IsInjective(rank)
    BY <2>1, <2>2 DEF IsInjective
  <2> QED
    BY <2>1, <2>3 DEF Injection
<1>7. rank \in Surjection(S, 1..N)
  <2>1. IsFiniteSet(1..N) /\ Cardinality(1..N) = N
    <3> HIDE DEF N
    <3> QED
      BY <1>1, FS_Interval
  <2> HIDE DEF rank
  <2> QED
    BY <1>6, <2>1, FS_Injection
<1> DEFINE s == [i \in 1..N |-> CHOOSE r \in S : rank[r] = i]
<1>8. ASSUME NEW i \in 1..N PROVE s[i] \in S /\ Cardinality(Upto(s[i])) = i
  <2>1. \E r \in S : rank[r] = i
    BY <1>7 DEF Surjection
  <2>2. s[i] \in S /\ rank[s[i]] = i
    <3> HIDE DEF rank, N
    <3> QED
      BY <2>1
  <2> QED
    BY <2>2
<1>9. s \in [1..N -> S]
  BY <1>8
<1>10. ASSUME NEW i \in 1..N, NEW j \in 1..N, i < j PROVE s[i] < s[j]
  <2>1. s[i] \in S /\ Cardinality(Upto(s[i])) = i /\ s[j] \in S /\ Cardinality(Upto(s[j])) = j
    BY <1>8
  <2> HIDE DEF s, Upto, N
  <2>2. ~(s[j] < s[i])
    <3> SUFFICES ASSUME s[j] < s[i] PROVE FALSE
      OBVIOUS
    <3>1. Cardinality(Upto(s[j])) < Cardinality(Upto(s[i]))
      BY <1>5, <2>1
    <3> QED
      BY <1>1, <1>10, <2>1, <3>1
  <2>3. s[j] # s[i]
    BY <1>1, <1>10, <2>1
  <2>4. s[i] \in Nat /\ s[j] \in Nat
    BY <1>2, <2>1
  <2> QED
    BY <2>2, <2>3, <2>4
<1> QED
  BY <1>9, <1>10

LEMMA InOrderType ==
  ASSUME NEW S \in SUBSET Requests
  PROVE  /\ InOrder(S) \in Seq(Requests)
         /\ OneEach(InOrder(S))
         /\ ToSet(InOrder(S)) = S
<1> DEFINE s == InOrder(S)
           N == Cardinality(S)
<1>1. IsFiniteSet(S) /\ N \in Nat
  BY RequestsFinite
<1>2. PICK t \in [1..N -> S] : \A i, j \in 1..N : i < j => t[i] < t[j]
  BY InOrderExists
<1>3. \A i, j \in DOMAIN t : i < j => t[i] < t[j]
  BY <1>2
<1>4. s \in [1..N -> S] /\ \A i, j \in DOMAIN s : i < j => s[i] < s[j]
  BY <1>2, <1>3 DEF InOrder
<1> HIDE DEF s, N
<1>5. S \subseteq Nat
  BY DEF Requests
<1>6. ASSUME NEW i \in 1..N, NEW j \in 1..N, s[i] = s[j] PROVE i = j
  <2>1. s[i] \in Nat /\ s[j] \in Nat
    BY <1>4, <1>5
  <2>2. ~(i < j) /\ ~(j < i)
    BY <1>4, <1>6, <2>1
  <2> QED
    BY <1>1, <2>2
<1>7. s \in Injection(1..N, S)
  BY <1>4, <1>6 DEF Injection, IsInjective
<1>8. s \in Surjection(1..N, S)
  <2>1. IsFiniteSet(1..N) /\ Cardinality(1..N) = N
    BY <1>1, FS_Interval
  <2> QED
    BY <1>1, <1>7, <2>1, FS_Injection DEF N
<1>9. s \in Seq(Requests)
  BY <1>1, <1>4
<1>10. OneEach(s)
  BY <1>4, <1>6 DEF OneEach
<1>11. ToSet(s) = S
  BY <1>4, <1>8 DEF ToSet, Surjection
<1> QED
  BY <1>9, <1>10, <1>11 DEF s

LEMMA SetToSeqType ==
  ASSUME NEW S \in SUBSET Requests
  PROVE  /\ SetToSeq(S) \in Seq(Requests)
         /\ OneEach(SetToSeq(S))
         /\ ToSet(SetToSeq(S)) \subseteq S
<1> DEFINE s == SetToSeq(S)
           N == Cardinality(S)
<1>1. IsFiniteSet(S) /\ N \in Nat
  BY RequestsFinite
<1>2. PICK t \in [1..N -> S] : \A i, j \in 1..N : i < j => t[i] < t[j]
  BY InOrderExists
<1>3. IsInjective(t)
  <2>1. ASSUME NEW i \in 1..N, NEW j \in 1..N, t[i] = t[j] PROVE i = j
    <3> HIDE DEF N
    <3>1. S \subseteq Nat
      BY DEF Requests
    <3>2. t[i] \in Nat
      BY <3>1
    <3>3. ~(i < j) /\ ~(j < i)
      BY <1>1, <1>2, <2>1, <3>2
    <3> QED
      BY <1>1, <3>3
  <2> QED
    BY <2>1 DEF IsInjective
<1>4. s \in [1..N -> S] /\ IsInjective(s)
  BY <1>2, <1>3 DEF SetToSeq
<1> HIDE DEF s, N
<1>5. s \in Seq(Requests) /\ OneEach(s) /\ ToSet(s) \subseteq S
  BY <1>1, <1>4 DEF OneEach, IsInjective, ToSet
<1> QED
  BY <1>5 DEF s

LEMMA EmptyParts == ToSet(<<>>) = {} /\ Ids(<<>>) = {} /\ OneEach(<<>>) /\ OneDelivery(<<>>)
BY DEF ToSet, Ids, OneEach, OneDelivery

LEMMA TailParts ==
  ASSUME NEW T, NEW s \in Seq(T), s # <<>>
  PROVE  /\ Head(s) \in T /\ Tail(s) \in Seq(T)
         /\ ToSet(s) = {Head(s)} \cup ToSet(Tail(s))
         /\ OneEach(s) => OneEach(Tail(s)) /\ Head(s) \notin ToSet(Tail(s))
<1>1. /\ Len(s) \in Nat /\ Len(s) > 0 /\ DOMAIN s = 1..Len(s)
      /\ Head(s) = s[1] /\ Tail(s) \in Seq(T)
      /\ DOMAIN Tail(s) = 1..(Len(s) - 1)
      /\ \A i \in 1..(Len(s) - 1) : Tail(s)[i] = s[i + 1]
  OBVIOUS
<1>2. ToSet(s) \subseteq {Head(s)} \cup ToSet(Tail(s))
  <2>1. ASSUME NEW i \in 1..Len(s) PROVE s[i] \in {Head(s)} \cup ToSet(Tail(s))
    <3>1. CASE i = 1
      BY <1>1, <3>1
    <3>2. CASE i # 1
      <4>1. i - 1 \in 1..(Len(s) - 1) /\ s[i] = Tail(s)[i - 1]
        BY <1>1, <3>2
      <4> QED
        BY <1>1, <4>1 DEF ToSet
    <3> QED
      BY <3>1, <3>2
  <2> QED
    BY <1>1, <2>1 DEF ToSet
<1>3. {Head(s)} \cup ToSet(Tail(s)) \subseteq ToSet(s)
  <2>1. \A i \in 1..(Len(s) - 1) : i + 1 \in 1..Len(s)
    BY <1>1
  <2>2. 1 \in 1..Len(s)
    BY <1>1
  <2> QED
    BY <1>1, <2>1, <2>2 DEF ToSet
<1>4. ASSUME OneEach(s) PROVE OneEach(Tail(s)) /\ Head(s) \notin ToSet(Tail(s))
  <2>1. \A i \in 1..(Len(s) - 1) : i + 1 \in 1..Len(s) /\ i + 1 # 1
    BY <1>1
  <2>2. 1 \in 1..Len(s)
    BY <1>1
  <2>3. Head(s) \notin ToSet(Tail(s))
    BY <1>1, <1>4, <2>1, <2>2 DEF OneEach, ToSet
  <2>4. ASSUME NEW i \in 1..(Len(s) - 1), NEW j \in 1..(Len(s) - 1), Tail(s)[i] = Tail(s)[j]
        PROVE i = j
    <3>1. i + 1 = j + 1
      BY <1>1, <1>4, <2>1, <2>4 DEF OneEach
    <3> QED
      BY <3>1
  <2> QED
    BY <1>1, <2>3, <2>4 DEF OneEach
<1>5. Head(s) \in T
  BY <1>1
<1> QED
  BY <1>1, <1>2, <1>3, <1>4, <1>5

LEMMA AppendParts ==
  ASSUME NEW T, NEW s \in Seq(T), NEW x \in T
  PROVE  /\ Append(s, x) \in Seq(T)
         /\ ToSet(Append(s, x)) = ToSet(s) \cup {x}
         /\ OneEach(s) /\ x \notin ToSet(s) => OneEach(Append(s, x))
<1> DEFINE a == Append(s, x)
<1>1. /\ a \in Seq(T) /\ Len(s) \in Nat /\ DOMAIN s = 1..Len(s)
      /\ DOMAIN a = 1..(Len(s) + 1)
      /\ \A i \in 1..Len(s) : a[i] = s[i]
      /\ a[Len(s) + 1] = x
  OBVIOUS
<1> HIDE DEF a
<1>2. /\ \A i \in 1..Len(s) : i \in 1..(Len(s) + 1)
      /\ Len(s) + 1 \in 1..(Len(s) + 1)
      /\ \A i \in 1..(Len(s) + 1) : i \in 1..Len(s) \/ i = Len(s) + 1
  BY <1>1
<1>3. ToSet(a) = ToSet(s) \cup {x}
  BY <1>1, <1>2 DEF ToSet
<1>4. OneEach(s) /\ x \notin ToSet(s) => OneEach(a)
  BY <1>1, <1>2 DEF OneEach, ToSet
<1> QED
  BY <1>1, <1>3, <1>4 DEF a

\* Cutting a sequence in two.
LEMMA CutParts ==
  ASSUME NEW T, NEW s \in Seq(T), NEW n \in 0..Len(s)
  PROVE  LET front == SubSeq(s, 1, n)
             rest  == SubSeq(s, n + 1, Len(s))
         IN  /\ front \in Seq(T) /\ rest \in Seq(T)
             /\ ToSet(s) = ToSet(front) \cup ToSet(rest)
             /\ OneEach(s) => /\ OneEach(front) /\ OneEach(rest)
                              /\ ToSet(front) \cap ToSet(rest) = {}
<1> DEFINE front == SubSeq(s, 1, n)
           rest == SubSeq(s, n + 1, Len(s))
           m == Len(s) - n
<1>1. /\ Len(s) \in Nat /\ DOMAIN s = 1..Len(s) /\ m \in Nat
      /\ \A i \in 1..Len(s) : s[i] \in T
  OBVIOUS
<1>2. /\ DOMAIN front = 1..n /\ \A i \in 1..n : front[i] = s[i]
  <2>1. front = [i \in 1..n |-> s[i]] \/ (DOMAIN front = 1..n /\ \A i \in 1..n : front[i] = s[i])
    BY <1>1
  <2> QED
    BY <2>1
<1>3. /\ DOMAIN rest = 1..m /\ \A i \in 1..m : rest[i] = s[i + n]
  BY <1>1
<1>4. front \in Seq(T) /\ rest \in Seq(T)
  BY <1>1
<1> HIDE DEF front, rest
<1>5. /\ \A i \in 1..n : i \in 1..Len(s)
      /\ \A i \in 1..m : i + n \in 1..Len(s) /\ i + n \notin 1..n
      /\ \A i \in 1..Len(s) : i \in 1..n \/ (i - n \in 1..m /\ i = (i - n) + n)
  BY <1>1
<1>6. ToSet(s) \subseteq ToSet(front) \cup ToSet(rest)
  <2>1. ASSUME NEW i \in 1..Len(s) PROVE s[i] \in ToSet(front) \cup ToSet(rest)
    <3>1. CASE i \in 1..n
      BY <1>2, <3>1 DEF ToSet
    <3>2. CASE i - n \in 1..m /\ i = (i - n) + n
      BY <1>3, <3>2 DEF ToSet
    <3> QED
      BY <1>5, <3>1, <3>2
  <2> QED
    BY <1>1, <2>1 DEF ToSet
<1>7. ToSet(front) \cup ToSet(rest) \subseteq ToSet(s)
  <2>1. ToSet(front) \subseteq ToSet(s)
    BY <1>1, <1>2, <1>5 DEF ToSet
  <2>2. ToSet(rest) \subseteq ToSet(s)
    BY <1>1, <1>3, <1>5 DEF ToSet
  <2> QED
    BY <2>1, <2>2
<1>8. ASSUME OneEach(s)
      PROVE OneEach(front) /\ OneEach(rest) /\ ToSet(front) \cap ToSet(rest) = {}
  <2>1. OneEach(front)
    BY <1>1, <1>2, <1>5, <1>8 DEF OneEach
  <2>2. ASSUME NEW i \in 1..m, NEW j \in 1..m, rest[i] = rest[j] PROVE i = j
    <3>1. i + n = j + n
      BY <1>1, <1>3, <1>5, <1>8, <2>2 DEF OneEach
    <3> QED
      BY <3>1
  <2>3. OneEach(rest)
    BY <1>3, <2>2 DEF OneEach
  <2>4. ASSUME NEW i \in 1..n, NEW j \in 1..m PROVE front[i] # rest[j]
    BY <1>1, <1>2, <1>3, <1>5, <1>8 DEF OneEach
  <2> QED
    BY <1>2, <1>3, <2>1, <2>3, <2>4 DEF ToSet
<1> QED
  BY <1>4, <1>6, <1>7, <1>8 DEF front, rest

\* Joining the deliveries of two steps.
LEMMA JoinParts ==
  ASSUME NEW T, NEW s \in Seq(T), NEW t \in Seq(T)
  PROVE  /\ s \o t \in Seq(T)
         /\ ToSet(s \o t) = ToSet(s) \cup ToSet(t)
         /\ Ids(s \o t) = Ids(s) \cup Ids(t)
         /\ OneDelivery(s) /\ OneDelivery(t) /\ Ids(s) \cap Ids(t) = {} => OneDelivery(s \o t)
<1> DEFINE a == s \o t
           n == Len(s)
           m == Len(t)
<1>1. /\ n \in Nat /\ m \in Nat /\ DOMAIN s = 1..n /\ DOMAIN t = 1..m
      /\ a \in Seq(T) /\ DOMAIN a = 1..(n + m)
      /\ \A i \in 1..n : a[i] = s[i]
      /\ \A i \in 1..m : a[i + n] = t[i]
  OBVIOUS
<1> HIDE DEF a, n, m
<1>2. /\ \A i \in 1..n : i \in 1..(n + m)
      /\ \A i \in 1..m : i + n \in 1..(n + m)
      /\ \A i \in 1..(n + m) : i \in 1..n \/ (i - n \in 1..m /\ i = (i - n) + n)
  BY <1>1
<1>3. ASSUME NEW i \in 1..(n + m)
      PROVE (i \in 1..n /\ a[i] = s[i]) \/ (i - n \in 1..m /\ a[i] = t[i - n])
  <2>1. CASE i \in 1..n
    BY <1>1, <2>1
  <2>2. CASE i - n \in 1..m /\ i = (i - n) + n
    <3>1. a[(i - n) + n] = t[i - n]
      BY <1>1, <2>2
    <3> QED
      BY <2>2, <3>1
  <2> QED
    BY <1>2, <2>1, <2>2
<1>4. ToSet(a) = ToSet(s) \cup ToSet(t)
  <2>1. ToSet(a) \subseteq ToSet(s) \cup ToSet(t)
    BY <1>1, <1>3 DEF ToSet
  <2>2. ToSet(s) \cup ToSet(t) \subseteq ToSet(a)
    BY <1>1, <1>2, ZenonT(40) DEF ToSet
  <2> QED
    BY <2>1, <2>2
<1>5. Ids(a) = Ids(s) \cup Ids(t)
  <2>1. Ids(a) \subseteq Ids(s) \cup Ids(t)
    BY <1>1, <1>3, ZenonT(40) DEF Ids
  <2>2. Ids(s) \subseteq Ids(a)
    BY <1>1, <1>2 DEF Ids
  <2>3. ASSUME NEW i \in 1..m PROVE t[i].id \in Ids(a)
    <3>1. i + n \in DOMAIN a /\ a[i + n] = t[i]
      BY <1>1, <1>2
    <3> QED
      BY <3>1 DEF Ids
  <2>4. Ids(t) \subseteq Ids(a)
    BY <1>1, <2>3 DEF Ids
  <2> QED
    BY <2>1, <2>2, <2>4
<1>6. ASSUME OneDelivery(s), OneDelivery(t), Ids(s) \cap Ids(t) = {} PROVE OneDelivery(a)
  <2> SUFFICES ASSUME NEW i \in 1..(n + m), NEW j \in 1..(n + m), a[i].id = a[j].id PROVE i = j
    BY <1>1 DEF OneDelivery
  <2>1. \A k \in 1..n, l \in 1..m : s[k].id # t[l].id
    BY <1>1, <1>6 DEF Ids
  <2>2. CASE i \in 1..n /\ j \in 1..n
    BY <1>1, <1>6, <2>2 DEF OneDelivery
  <2>3. CASE i - n \in 1..m /\ j - n \in 1..m /\ a[i] = t[i - n] /\ a[j] = t[j - n]
    <3>1. i - n = j - n
      BY <1>1, <1>6, <2>3, ZenonT(40) DEF OneDelivery
    <3> QED
      BY <1>1, <3>1
  <2> QED
    BY <1>3, <2>1, <2>2, <2>3
<1> QED
  BY <1>1, <1>4, <1>5, <1>6 DEF a

\* One more delivery.
LEMMA AppendDelivery ==
  ASSUME NEW s \in Seq(Deliveries), NEW d \in Deliveries
  PROVE  /\ Append(s, d) \in Seq(Deliveries)
         /\ ToSet(Append(s, d)) = ToSet(s) \cup {d}
         /\ Ids(Append(s, d)) = Ids(s) \cup {d.id}
         /\ OneDelivery(s) /\ d.id \notin Ids(s) => OneDelivery(Append(s, d))
<1>1. <<d>> \in Seq(Deliveries) /\ Append(s, d) = s \o <<d>>
  OBVIOUS
<1>2. ToSet(<<d>>) = {d} /\ Ids(<<d>>) = {d.id} /\ OneDelivery(<<d>>)
  BY DEF ToSet, Ids, OneDelivery
<1> DEFINE t == <<d>>
<1>3. /\ s \o t \in Seq(Deliveries) /\ ToSet(s \o t) = ToSet(s) \cup ToSet(t)
      /\ Ids(s \o t) = Ids(s) \cup Ids(t)
      /\ OneDelivery(s) /\ OneDelivery(t) /\ Ids(s) \cap Ids(t) = {} => OneDelivery(s \o t)
  <2>1. t \in Seq(Deliveries)
    BY <1>1
  <2> HIDE DEF t
  <2> QED
    BY <2>1, JoinParts
<1> QED
  BY <1>1, <1>2, <1>3

-----------------------------------------------------------------------------
(* The inductive invariant.                                                *)

\* Who has made no call asks nothing; who has, has authorized the gate's price.
Callers ==
  \A r \in Requests :
    /\ call[r].status = "new" <=> call[r].query = NoQuery
    /\ call[r].status = "new" => call[r].charged = 0 /\ call[r].answer = NoAnswer
    /\ call[r].status # "new" =>
         call[r].ceiling = CeilingPrice(call[r].gateMode, r \in Priority)

\* The queue holds each request once, none of the batch; a slot is owned by one of them.
Waiting ==
  /\ OneEach(queue)
  /\ \A r \in ToSet(queue) : call[r].status = "queued" /\ r \notin ToSet(b.requests)
  /\ \A q \in Queries : \A o \in pending[q] :
       o \in ToSet(queue) /\ call[o].query = q /\ call[o].keyed

\* A merged request is the member of one slot, and asks what the owner asks.
Members ==
  \A o \in Requests : \A m \in merged[o] :
    /\ call[m].status = "merged" /\ call[m].query = call[o].query
    /\ m \notin Ids(b.fanned)
    /\ \A p \in Requests : m \in merged[p] => p = o

\* The requests of a frame that are still to be called, together or on their own.
ToCall(f) == ToSet(f.direct) \cup ToSet(f.todo) \cup ToSet(f.sub)

\* Every request of a frame is at one place on its way to its delivery.
Sound(f) ==
  /\ OneEach(f.requests)
  /\ OneDelivery(f.out) /\ Ids(f.out) \subseteq ToSet(f.requests)
  /\ OneDelivery(f.fanned)
  /\ ToSet(f.fan) \subseteq ToSet(f.out)
  /\ OneEach(f.direct) /\ OneEach(f.todo) /\ OneEach(f.sub)
  /\ ToCall(f) \subseteq ToSet(f.requests) \ Ids(f.out)
  /\ ToSet(f.direct) \cap ToSet(f.todo) = {}
  /\ ToSet(f.sub) \cap ToSet(f.todo) = {}
  /\ f.retry \subseteq ToSet(f.sub)

\* The route forgets nobody: who has no delivery and no call to come had a call fail.
Covered(f) == ToSet(f.requests) \ f.failed \subseteq ToCall(f) \cup Ids(f.out)

\* Where process uses which part of its frame.
InUse(l, f) ==
  /\ l \in {"idle", "fire"} => f.requests = <<>>
  /\ l \in {"idle", "fire", "route", "fanout"} => f.out = <<>> /\ f.todo = <<>>
  /\ f.direct # <<>> => l = "direct"
  /\ f.sub # <<>> => l = "isolate"
  /\ l = "compound" => f.todo # <<>>
  /\ l = "deliver" => f.todo = <<>>
  /\ l # "deliver" => f.fan = <<>> /\ f.fanned = <<>>

\* A delivery priced by the route of its batch, at some size of it.
Priced(d, entry) == \E size \in Nat : d.charged = SettledPrice(entry, size, d.id \in Priority)

Batch ==
  /\ Sound(b)
  /\ pc \in {"direct", "compound", "isolate", "deliver"} => Covered(b)
  /\ InUse(pc, b)
  /\ \A r \in ToSet(b.requests) : call[r].status = "queued"
  /\ \A r \in Ids(b.fanned) : call[r].status = "merged"
  /\ \A d \in Billed : Priced(d, b.entry)

IInv ==
  /\ TypeOK /\ Callers /\ Waiting /\ Members /\ Batch
  /\ OverchargeNeedsModeChange

LEMMA PricesAreNat ==
  ASSUME NEW m \in Modes, NEW size \in Nat, NEW r
  PROVE  /\ SettledPrice(m, size, r \in Priority) \in Nat
         /\ CeilingPrice(m, r \in Priority) \in Nat
         /\ CallerPrice(m, r \in Priority) \in Nat
<1>1. /\ OriginalPrice \in Nat /\ HousePrice \in Nat
      /\ SoloDiscount \in Nat /\ CoordinationFee \in Nat
      /\ HousePrice + SoloDiscount <= OriginalPrice
      /\ PriorityDiscount \in Nat
  BY PipelineAssumption
<1>2. PriorityPrice \in Nat
  BY <1>1, PriorityPriceBounds DEF PriorityPrice
<1>3. RoutePrice(m) \in Nat
  BY <1>1 DEF RoutePrice
<1>4. OriginalPrice - SoloDiscount \in Nat
  BY <1>1
<1> QED
  BY <1>1, <1>2, <1>3, <1>4 DEF SettledPrice, CeilingPrice, CallerPrice

LEMMA AnswersType ==
  /\ NoAnswer \in Answers /\ Blob \in Answers
  /\ \A q \in Queries : AnswerTo(q) \in Answers
  /\ \A r \in Requests : NoticeFor(r) \in Answers
BY DEF Answers

LEMMA NoFrameType ==
  ASSUME NEW entry \in Modes
  PROVE  NoFrame \in Frames /\ [NoFrame EXCEPT !.entry = entry] \in Frames
<1>1. [r \in Requests |-> NoAnswer] \in [Requests -> Answers]
  BY AnswersType
<1>2. "manual_review" \in Modes
  BY DEF Modes
<1>3. NoFrame \in Frames
  BY <1>1, <1>2 DEF NoFrame, Frames
<1> QED
  BY <1>3 DEF Frames

\* Who has made its call asks something.
LEMMA Asking == TypeOK /\ Callers => \A r \in Requests : call[r].status # "new" => call[r].query \in Queries
BY DEF TypeOK, Callers, Calls

LEMMA InHand ==
  TypeOK => /\ \A s \in ToSet(b.requests) : s \in Requests
            /\ \A s \in Ids(b.fanned) : s \in Requests
            /\ \A s \in ToSet(queue) : s \in Requests
<1> SUFFICES ASSUME TypeOK
    PROVE /\ \A s \in ToSet(b.requests) : s \in Requests
          /\ \A s \in Ids(b.fanned) : s \in Requests
          /\ \A s \in ToSet(queue) : s \in Requests
  OBVIOUS
<1>1. b.requests \in Seq(Requests) /\ queue \in Seq(Requests) /\ b.fanned \in Seq(Deliveries)
  BY DEF TypeOK, Frames
<1>2. \A i \in DOMAIN b.fanned : b.fanned[i] \in Deliveries
  BY <1>1
<1>3. \A i \in DOMAIN b.fanned : b.fanned[i].id \in Requests
  BY <1>2 DEF Deliveries
<1> QED
  BY <1>1, <1>3 DEF ToSet, Ids

\* A step of process that leaves the requests of the batch, and all that is outside its
\* frame, alone.
LEMMA ProcessMoves ==
  ASSUME IInv, NEW f \in Frames, b' = f,
         UNCHANGED <<mode, changes, call, queue, pending, merged, cache>>,
         pc' \in {"route", "direct", "compound", "isolate", "fanout", "deliver"},
         f.requests = b.requests, f.fanned = b.fanned, f.entry = b.entry,
         Sound(f), InUse(pc', f),
         pc' \in {"direct", "compound", "isolate", "deliver"} => Covered(f),
         \A d \in ToSet(f.out) : Priced(d, f.entry)
  PROVE  IInv'
<1>1. TypeOK'
  BY DEF IInv, TypeOK
<1>2. Callers' /\ OverchargeNeedsModeChange'
  BY DEF IInv, Callers, OverchargeNeedsModeChange
<1>3. Waiting'
  BY DEF IInv, Waiting
<1>4. Members'
  BY DEF IInv, Members
<1>5. \A d \in Billed' : Priced(d, f.entry)
  BY DEF IInv, Batch, Billed
<1>6. Batch'
  BY <1>5 DEF IInv, Batch
<1> QED
  BY <1>1, <1>2, <1>3, <1>4, <1>6 DEF IInv

\* The route goes on with the next compound call, or with the delivery of what it has.
LEMMA AfterCallsMoves ==
  ASSUME IInv, NEW f \in Frames, AfterCalls(f),
         UNCHANGED <<mode, changes, call, queue, pending, merged, cache>>,
         pc # "deliver",
         f.requests = b.requests, f.fanned = b.fanned, f.entry = b.entry, f.fan = b.fan,
         Sound(f), f.direct = <<>>, f.sub = <<>>, Covered(f),
         \A d \in ToSet(f.out) : Priced(d, f.entry)
  PROVE  IInv'
<1>0. f.fan = <<>> /\ f.fanned = <<>>
  BY DEF IInv, Batch, InUse
<1>1. CASE f.todo # <<>>
  <2>1. pc' = "compound" /\ b' = f
    BY <1>1 DEF AfterCalls
  <2>2. InUse(pc', f)
    BY <1>0, <1>1, <2>1 DEF InUse
  <2> QED
    BY <2>1, <2>2, ProcessMoves
<1>2. CASE f.todo = <<>>
  <2> DEFINE g == [f EXCEPT !.fan = f.out]
  <2>1. pc' = "deliver" /\ b' = g
    BY <1>2 DEF AfterCalls
  <2>2. /\ g \in Frames
        /\ g.requests = f.requests /\ g.out = f.out /\ g.fanned = f.fanned /\ g.fan = f.out
        /\ g.direct = f.direct /\ g.todo = f.todo /\ g.sub = f.sub /\ g.failed = f.failed
        /\ g.entry = f.entry /\ g.retry = f.retry
    BY DEF Frames
  <2> HIDE DEF g
  <2>3. Sound(g) /\ Covered(g)
    BY <2>2 DEF Sound, Covered, ToCall
  <2>4. InUse(pc', g)
    BY <1>0, <1>2, <2>1, <2>2 DEF InUse
  <2> QED
    BY <2>1, <2>2, <2>3, <2>4, ProcessMoves
<1> QED
  BY <1>1, <1>2

LEMMA PayingCountType == IInv => PayingCount \in Nat
<1> SUFFICES ASSUME IInv PROVE PayingCount \in Nat
  OBVIOUS
<1> DEFINE M == UNION {merged[r] : r \in ToSet(b.requests)}
<1>1. b.requests \in Seq(Requests) /\ merged \in [Requests -> SUBSET Requests]
  BY DEF IInv, TypeOK, Frames
<1>2. ToSet(b.requests) \subseteq Requests
  BY <1>1 DEF ToSet
<1>3. M \in SUBSET Requests
  BY <1>1, <1>2
<1>4. Cardinality(M) \in Nat
  BY <1>3, RequestsFinite
<1>5. Len(b.requests) \in Nat
  BY <1>1
<1> HIDE DEF M
<1> QED
  BY <1>4, <1>5 DEF PayingCount, M

\* What a frame that is being routed still holds nothing of.
LEMMA InvRoute == IInv /\ Route => IInv'
<1> SUFFICES ASSUME IInv, Route PROVE IInv'
  OBVIOUS
<1>T. b \in Frames /\ PayingCount \in Nat /\ b.requests \in Seq(Requests) /\ ToSet(b.requests) \subseteq Requests
  <2>1. b \in Frames /\ b.requests \in Seq(Requests)
    BY DEF IInv, TypeOK, Frames
  <2> QED
    BY <2>1, PayingCountType DEF ToSet
<1>U. UNCHANGED <<mode, changes, call, queue, pending, merged, cache>> /\ pc = "route"
  BY DEF Route
<1>B. /\ Sound(b) /\ b.out = <<>> /\ b.todo = <<>> /\ b.direct = <<>> /\ b.sub = <<>>
      /\ b.fan = <<>> /\ b.fanned = <<>>
  BY <1>U DEF IInv, Batch, InUse
\* The batch is divided between the calls of its own and the compound ones.
<1>1. ASSUME NEW f \in Frames, b' = f, pc' \in {"direct", "compound"},
             f.requests = b.requests, f.fanned = b.fanned, f.entry = b.entry,
             f.out = b.out, f.fan = b.fan, f.sub = b.sub, f.retry = b.retry,
             OneEach(f.direct), OneEach(f.todo),
             ToSet(f.direct) \cup ToSet(f.todo) = ToSet(b.requests),
             ToSet(f.direct) \cap ToSet(f.todo) = {},
             f.direct # <<>> => pc' = "direct",
             pc' = "compound" => f.todo # <<>>
      PROVE IInv'
  <2>1. Sound(f)
    BY <1>1, <1>B, EmptyParts DEF Sound, ToCall
  <2>2. Covered(f)
    BY <1>1 DEF Covered, ToCall
  <2>3. InUse(pc', f)
    BY <1>1, <1>B DEF InUse
  <2>4. \A d \in ToSet(f.out) : Priced(d, f.entry)
    BY <1>1, <1>B, EmptyParts
  <2> QED
    BY <1>1, <1>U, <2>1, <2>2, <2>3, <2>4, ProcessMoves
<1> DEFINE n == PayingCount
           counted == [b EXCEPT !.tier = n, !.directTier = n]
           risky == InOrder(RiskyOnes)
           safe == InOrder(ToSet(b.requests) \ RiskyOnes)
           split == [counted EXCEPT !.directTier = 1, !.direct = risky, !.todo = safe]
<1>2. CASE b' = [counted EXCEPT !.direct = b.requests] /\ pc' = "direct"
  <2> DEFINE f == [counted EXCEPT !.direct = b.requests]
  <2>1. /\ f \in Frames /\ f.requests = b.requests /\ f.fanned = b.fanned /\ f.entry = b.entry
        /\ f.out = b.out /\ f.fan = b.fan /\ f.sub = b.sub /\ f.retry = b.retry
        /\ f.direct = b.requests /\ f.todo = b.todo
    BY <1>T DEF Frames
  <2> HIDE DEF f
  <2>2. b' = f
    BY <1>2 DEF f
  <2>3. OneEach(b.requests)
    BY <1>B DEF Sound
  <2> QED
    BY <1>1, <1>2, <1>B, <2>1, <2>2, <2>3, EmptyParts
<1>3. CASE b' = split /\ pc' = "direct"
  <2>1. RiskyOnes \in SUBSET Requests /\ RiskyOnes \subseteq ToSet(b.requests)
    BY <1>T DEF RiskyOnes
  <2>2. /\ risky \in Seq(Requests) /\ OneEach(risky) /\ ToSet(risky) = RiskyOnes
        /\ safe \in Seq(Requests) /\ OneEach(safe)
        /\ ToSet(safe) = ToSet(b.requests) \ RiskyOnes
    BY <1>T, <2>1, InOrderType
  <2> HIDE DEF risky, safe
  <2>3. /\ split \in Frames /\ split.requests = b.requests /\ split.fanned = b.fanned
        /\ split.entry = b.entry /\ split.out = b.out /\ split.fan = b.fan
        /\ split.sub = b.sub /\ split.retry = b.retry
        /\ split.direct = risky /\ split.todo = safe
    BY <1>T, <2>2 DEF Frames
  <2> HIDE DEF split
  <2> QED
    BY <1>1, <1>3, <2>1, <2>2, <2>3
<1>4. CASE b' = [counted EXCEPT !.todo = b.requests] /\ pc' = "compound" /\ n > 1
  <2> DEFINE f == [counted EXCEPT !.todo = b.requests]
  <2>1. /\ f \in Frames /\ f.requests = b.requests /\ f.fanned = b.fanned /\ f.entry = b.entry
        /\ f.out = b.out /\ f.fan = b.fan /\ f.sub = b.sub /\ f.retry = b.retry
        /\ f.direct = b.direct /\ f.todo = b.requests
    BY <1>T DEF Frames
  <2> HIDE DEF f
  <2>2. b' = f
    BY <1>4 DEF f
  <2>3. b.requests # <<>>
    <3> SUFFICES ASSUME b.requests = <<>> PROVE FALSE
      OBVIOUS
    <3>1. ToSet(b.requests) = {}
      BY EmptyParts
    <3> DEFINE M == UNION {merged[r] : r \in ToSet(b.requests)}
    <3>2. PayingCount = Len(b.requests) + Cardinality(M)
      BY DEF PayingCount
    <3>3. M = {}
      BY <3>1
    <3> HIDE DEF M
    <3>4. Cardinality({}) = 0
      BY FS_EmptySet
    <3>5. Len(b.requests) = 0
      OBVIOUS
    <3>6. PayingCount = 0
      BY <3>2, <3>3, <3>4, <3>5
    <3> QED
      BY <1>4, <3>6
  <2>4. OneEach(b.requests)
    BY <1>B DEF Sound
  <2> QED
    BY <1>1, <1>4, <1>B, <2>1, <2>2, <2>3, <2>4, EmptyParts
<1>5. CASE b' = counted /\ pc' = "fanout"
  <2>1. /\ counted \in Frames /\ counted.requests = b.requests /\ counted.fanned = b.fanned
        /\ counted.entry = b.entry /\ counted.out = b.out /\ counted.fan = b.fan
        /\ counted.sub = b.sub /\ counted.retry = b.retry
        /\ counted.direct = b.direct /\ counted.todo = b.todo
    BY <1>T DEF Frames
  <2> HIDE DEF counted
  <2>2. Sound(counted)
    BY <1>B, <2>1 DEF Sound, ToCall
  <2>3. InUse(pc', counted)
    BY <1>5, <1>B, <2>1 DEF InUse
  <2>4. \A d \in ToSet(counted.out) : Priced(d, counted.entry)
    BY <1>B, <2>1, EmptyParts
  <2> QED
    BY <1>5, <1>U, <2>1, <2>2, <2>3, <2>4, ProcessMoves
<1> QED
  BY <1>2, <1>3, <1>4, <1>5 DEF Route

\* A call of its own delivers at the price of the route, or fails.
LEMMA DeliveryType ==
  ASSUME IInv, NEW r \in Requests, call[r].status # "new", NEW size \in Nat
  PROVE  /\ Delivery(r, size) \in Deliveries /\ Delivery(r, size).id = r
         /\ Delivery(r, size).answer = AnswerTo(call[r].query)
         /\ Priced(Delivery(r, size), b.entry)
<1>1. call[r].query \in Queries /\ b.entry \in Modes
  BY Asking DEF IInv, TypeOK, Frames
<1>2. SettledPrice(b.entry, size, r \in Priority) \in Nat
  BY <1>1, PricesAreNat
<1>3. AnswerTo(call[r].query) \in Answers
  BY <1>1, AnswersType
<1> QED
  BY <1>2, <1>3 DEF Delivery, Deliveries, Priced

LEMMA InvDirectCall == IInv /\ DirectCall => IInv'
<1> SUFFICES ASSUME IInv, DirectCall PROVE IInv'
  OBVIOUS
<1> DEFINE r == Head(b.direct)
<1>T. /\ b \in Frames /\ b.direct \in Seq(Requests) /\ b.out \in Seq(Deliveries)
      /\ b.directTier \in Nat /\ b.failed \subseteq Requests
  BY DEF IInv, TypeOK, Frames
<1>U. /\ UNCHANGED <<mode, changes, call, queue, pending, merged, cache, pc>>
      /\ pc = "direct" /\ b.direct # <<>>
  BY DEF DirectCall
<1>B. /\ Sound(b) /\ Covered(b) /\ InUse("direct", b)
      /\ \A d \in ToSet(b.out) : Priced(d, b.entry)
  BY <1>U DEF IInv, Batch, Billed
<1>1. /\ r \in Requests /\ Tail(b.direct) \in Seq(Requests)
      /\ ToSet(b.direct) = {r} \cup ToSet(Tail(b.direct))
      /\ OneEach(Tail(b.direct)) /\ r \notin ToSet(Tail(b.direct))
  BY <1>T, <1>U, <1>B, TailParts DEF Sound
<1>2. r \in ToSet(b.requests) /\ r \notin Ids(b.out)
  BY <1>1, <1>B DEF Sound, ToCall
<1>3. call[r].status = "queued"
  BY <1>2 DEF IInv, Batch
<1>4. CASE b' = [b EXCEPT !.direct = Tail(@), !.out = Append(@, Delivery(r, b.directTier))]
  <2> DEFINE d == Delivery(r, b.directTier)
             f == [b EXCEPT !.direct = Tail(@), !.out = Append(@, d)]
  <2>1. d \in Deliveries /\ d.id = r /\ Priced(d, b.entry)
    BY <1>T, <1>1, <1>3, DeliveryType
  <2>0. b' = f
    BY <1>4
  <2> HIDE DEF d
  <2>2. /\ Append(b.out, d) \in Seq(Deliveries)
        /\ ToSet(Append(b.out, d)) = ToSet(b.out) \cup {d}
        /\ Ids(Append(b.out, d)) = Ids(b.out) \cup {r}
        /\ OneDelivery(Append(b.out, d))
    BY <1>T, <1>2, <1>B, <2>1, AppendDelivery DEF Sound
  <2>3. /\ f \in Frames /\ f.requests = b.requests /\ f.fanned = b.fanned /\ f.entry = b.entry
        /\ f.out = Append(b.out, d) /\ f.direct = Tail(b.direct) /\ f.todo = b.todo
        /\ f.sub = b.sub /\ f.fan = b.fan /\ f.failed = b.failed /\ f.retry = b.retry
    BY <1>T, <1>1, <2>2 DEF Frames
  <2> HIDE DEF f, r
  <2>4. Sound(f) /\ Covered(f)
    <3>1. b.sub = <<>> /\ b.fan = <<>>
      BY <1>B DEF InUse
    <3> QED
      BY <1>B, <1>1, <1>2, <2>2, <2>3, <3>1, EmptyParts DEF Sound, Covered, ToCall
  <2>5. InUse(pc', f)
    BY <1>U, <1>B, <2>3 DEF InUse
  <2>6. \A e \in ToSet(f.out) : Priced(e, f.entry)
    BY <1>B, <2>1, <2>2, <2>3
  <2> QED
    BY <1>U, <2>0, <2>3, <2>4, <2>5, <2>6, ProcessMoves
<1>5. CASE b' = [b EXCEPT !.direct = Tail(@), !.failed = @ \cup {r}]
  <2> DEFINE f == [b EXCEPT !.direct = Tail(@), !.failed = @ \cup {r}]
  <2>3. /\ f \in Frames /\ f.requests = b.requests /\ f.fanned = b.fanned /\ f.entry = b.entry
        /\ f.out = b.out /\ f.direct = Tail(b.direct) /\ f.todo = b.todo
        /\ f.sub = b.sub /\ f.fan = b.fan /\ f.failed = b.failed \cup {r} /\ f.retry = b.retry
    BY <1>T, <1>1 DEF Frames
  <2>0. b' = f
    BY <1>5
  <2> HIDE DEF f, r
  <2>4. Sound(f) /\ Covered(f)
    BY <1>B, <1>1, <1>2, <2>3 DEF Sound, Covered, ToCall
  <2>5. InUse(pc', f)
    BY <1>U, <1>B, <2>3 DEF InUse
  <2> QED
    BY <1>U, <1>B, <2>0, <2>3, <2>4, <2>5, ProcessMoves
<1> QED
  BY <1>4, <1>5 DEF DirectCall

LEMMA InvDirectDone == IInv /\ DirectDone => IInv'
<1> SUFFICES ASSUME IInv, DirectDone PROVE IInv'
  OBVIOUS
<1> DEFINE f == [b EXCEPT !.directTier = b.tier]
<1>1. /\ UNCHANGED <<mode, changes, call, queue, pending, merged, cache>>
      /\ pc = "direct" /\ b.direct = <<>> /\ AfterCalls(f)
  BY DEF DirectDone
<1>B. /\ Sound(b) /\ Covered(b) /\ InUse("direct", b)
      /\ \A d \in ToSet(b.out) : Priced(d, b.entry)
  BY <1>1 DEF IInv, Batch, Billed
<1>2. /\ f \in Frames /\ f.requests = b.requests /\ f.fanned = b.fanned /\ f.entry = b.entry
      /\ f.out = b.out /\ f.direct = b.direct /\ f.todo = b.todo
      /\ f.sub = b.sub /\ f.fan = b.fan /\ f.failed = b.failed /\ f.retry = b.retry
  BY DEF IInv, TypeOK, Frames
<1> HIDE DEF f
<1>3. Sound(f) /\ Covered(f)
  BY <1>B, <1>2 DEF Sound, Covered, ToCall
<1>4. f.sub = <<>>
  BY <1>B, <1>2 DEF InUse
<1> QED
  BY <1>1, <1>2, <1>3, <1>4, <1>B, AfterCallsMoves

\* The slot a position of a compound call shares has one owner, at that position or before.
LEMMA OwnerType ==
  ASSUME NEW sub \in Seq(Requests), NEW i \in DOMAIN sub
  PROVE  /\ Owner(sub, i) \in DOMAIN sub
         /\ b.entry # "B_native" => Owner(sub, i) = i
         /\ b.entry = "B_native" =>
              /\ Value[call[sub[Owner(sub, i)]].query] = Value[call[sub[i]].query]
              /\ \A k \in 1..(Owner(sub, i) - 1) :
                   Value[call[sub[k]].query] # Value[call[sub[i]].query]
<1>1. DOMAIN sub = 1..Len(sub) /\ Len(sub) \in Nat /\ i \in Nat /\ i \in 1..Len(sub)
  OBVIOUS
<1>2. CASE b.entry = "B_native"
  <2> DEFINE V(k) == Value[call[sub[k]].query]
             T == {j \in 1..i : V(j) = V(i)}
             O == CHOOSE j \in 1..i : V(j) = V(i) /\ \A k \in 1..(j - 1) : V(k) # V(i)
  <2>1. T \subseteq Nat /\ T # {}
    <3>1. i \in 1..i
      BY <1>1
    <3> QED
      BY <3>1
  <2>2. PICK m \in T : \A j \in T : m <= j
    <3> HIDE DEF T
    <3> QED
      BY <2>1, LeastElement
  <2>3. ASSUME NEW k \in 1..(m - 1) PROVE V(k) # V(i)
    <3>1. k \in 1..i /\ ~(m <= k)
      BY <1>1, <2>2
    <3> QED
      BY <2>2, <3>1
  <2>4. m \in 1..i /\ V(m) = V(i)
    BY <2>2
  <2> HIDE DEF V
  <2>5. O \in 1..i /\ V(O) = V(i) /\ \A k \in 1..(O - 1) : V(k) # V(i)
    BY <2>3, <2>4
  <2>6. Owner(sub, i) = O
    BY <1>2 DEF Owner, V
  <2> HIDE DEF O
  <2>7. O \in DOMAIN sub
    BY <1>1, <2>5
  <2> QED
    BY <1>2, <2>5, <2>6, <2>7 DEF V
<1>3. CASE b.entry # "B_native"
  BY <1>3 DEF Owner
<1> QED
  BY <1>2, <1>3

LEMMA SegmentType ==
  ASSUME IInv, NEW sub \in Seq(Requests), \A j \in DOMAIN sub : call[sub[j]].status # "new",
         NEW kept \in SUBSET DOMAIN sub, NEW i
  PROVE  Segment(sub, kept, i) \in Answers
<1> DEFINE A == Anchored(sub, kept, i)
           J == CHOOSE j \in A : \A k \in A : j <= k
<1>1. A \subseteq DOMAIN sub
  BY DEF Anchored
<1>2. A \subseteq Nat
  BY <1>1
<1> HIDE DEF A
<1>3. CASE A = {}
  BY <1>3, AnswersType DEF Segment, A
<1>4. CASE A # {}
  <2>1. \E m \in A : \A n \in A : m <= n
    BY <1>2, <1>4, LeastElement
  <2>2. J \in A
    BY <2>1
  <2>3. Segment(sub, kept, i) = AnswerTo(call[sub[J]].query)
    BY <1>4 DEF Segment, A
  <2> HIDE DEF J
  <2>4. J \in DOMAIN sub /\ sub[J] \in Requests
    BY <1>1, <2>2
  <2>5. call[sub[J]].query \in Queries
    BY <2>4, Asking DEF IInv
  <2> QED
    BY <2>3, <2>5, AnswersType
<1> QED
  BY <1>3, <1>4

LEMMA InvCompoundCall == IInv /\ CompoundCall => IInv'
<1> SUFFICES ASSUME IInv, CompoundCall PROVE IInv'
  OBVIOUS
<1> DEFINE sub == SubSeq(b.todo, 1, ChunkLen)
           rest == SubSeq(b.todo, ChunkLen + 1, Len(b.todo))
           left == [b EXCEPT !.todo = rest]
<1>T. b \in Frames /\ b.todo \in Seq(Requests) /\ Len(b.todo) \in Nat
  BY DEF IInv, TypeOK, Frames
<1>U. UNCHANGED <<mode, changes, call, queue, pending, merged, cache>> /\ pc = "compound"
  BY DEF CompoundCall
<1>B. /\ Sound(b) /\ Covered(b) /\ InUse("compound", b)
      /\ \A d \in ToSet(b.out) : Priced(d, b.entry)
      /\ b.direct = <<>> /\ b.sub = <<>> /\ b.fan = <<>> /\ b.fanned = <<>>
  BY <1>U DEF IInv, Batch, Billed, InUse
<1>1. ChunkLen \in 0..Len(b.todo)
  BY <1>T, PipelineAssumption DEF ChunkLen
<1>2. /\ sub \in Seq(Requests) /\ rest \in Seq(Requests)
      /\ ToSet(b.todo) = ToSet(sub) \cup ToSet(rest)
      /\ OneEach(sub) /\ OneEach(rest) /\ ToSet(sub) \cap ToSet(rest) = {}
  BY <1>1, <1>B, <1>T, CutParts DEF Sound
<1>3. /\ left \in Frames /\ left.requests = b.requests /\ left.fanned = b.fanned
      /\ left.entry = b.entry /\ left.out = b.out /\ left.fan = b.fan /\ left.sub = b.sub
      /\ left.direct = b.direct /\ left.failed = b.failed /\ left.todo = rest
      /\ left.retry = b.retry
  <2> HIDE DEF rest
  <2> QED
    BY <1>T, <1>2 DEF Frames
<1>S. ToSet(sub) \subseteq Requests
  <2> HIDE DEF sub
  <2> QED
    BY <1>2 DEF ToSet
<1>4. CASE /\ \E kept \in SUBSET Slots(sub) : b' = Split(left, sub, kept)
           /\ pc' = "isolate"
  <2>1. PICK kept \in SUBSET Slots(sub) : b' = Split(left, sub, kept)
    BY <1>4
  <2>2. kept \subseteq DOMAIN sub /\ Slots(sub) \subseteq DOMAIN sub
    BY DEF Slots
  <2>3. \A j \in DOMAIN sub : call[sub[j]].status # "new"
    <3>1. ToSet(sub) \subseteq ToSet(b.requests)
      BY <1>2, <1>B DEF Sound, ToCall
    <3> HIDE DEF sub
    <3> QED
      BY <3>1 DEF ToSet, IInv, Batch
  <2> DEFINE answers == [r \in Requests |->
                 IF \E i \in Slots(sub) : sub[i] = r
                 THEN Segment(sub, kept, CHOOSE i \in Slots(sub) : sub[i] = r) ELSE NoAnswer]
             silent == {sub[i] : i \in {j \in Slots(sub) : Anchored(sub, kept, j) = {}}}
             f == [left EXCEPT !.sub = sub, !.answers = answers, !.full = silent,
                               !.retry = silent]
  <2> HIDE DEF left, sub
  <2>4. answers \in [Requests -> Answers]
    BY <1>2, <2>2, <2>3, SegmentType, AnswersType
  <2>5. silent \subseteq ToSet(sub)
    BY <2>2 DEF ToSet
  <2>6. b' = f
    BY <2>1 DEF Split
  <2> HIDE DEF answers, silent
  <2>7. /\ f \in Frames /\ f.requests = b.requests /\ f.fanned = b.fanned /\ f.entry = b.entry
        /\ f.out = b.out /\ f.fan = b.fan /\ f.sub = sub /\ f.direct = b.direct
        /\ f.failed = b.failed /\ f.todo = rest /\ f.retry = silent
    BY <1>2, <1>3, <1>S, <2>4, <2>5 DEF Frames
  <2> HIDE DEF f, rest
  <2>8. Sound(f) /\ Covered(f)
    BY <1>B, <1>2, <2>5, <2>7 DEF Sound, Covered, ToCall
  <2>9. InUse(pc', f)
    BY <1>4, <1>B, <2>7 DEF InUse
  <2> QED
    BY <1>4, <1>B, <1>U, <2>6, <2>7, <2>8, <2>9, ProcessMoves
<1>5. CASE b' = [left EXCEPT !.direct = sub] /\ pc' = "direct"
  <2> DEFINE f == [left EXCEPT !.direct = sub]
  <2>1. b' = f
    BY <1>5
  <2> HIDE DEF left, sub
  <2>2. /\ f \in Frames /\ f.requests = b.requests /\ f.fanned = b.fanned /\ f.entry = b.entry
        /\ f.out = b.out /\ f.fan = b.fan /\ f.sub = b.sub /\ f.direct = sub
        /\ f.failed = b.failed /\ f.todo = rest /\ f.retry = b.retry
    BY <1>2, <1>3 DEF Frames
  <2> HIDE DEF f, rest
  <2>3. Sound(f) /\ Covered(f)
    BY <1>B, <1>2, <2>2, EmptyParts DEF Sound, Covered, ToCall
  <2>4. InUse(pc', f)
    BY <1>5, <1>B, <2>2 DEF InUse
  <2> QED
    BY <1>5, <1>B, <1>U, <2>1, <2>2, <2>3, <2>4, ProcessMoves
<1> QED
  BY <1>4, <1>5 DEF CompoundCall

LEMMA InvIsolate == IInv /\ Isolate => IInv'
<1> SUFFICES ASSUME IInv, Isolate PROVE IInv'
  OBVIOUS
<1>T. b \in Frames /\ b.answers \in [Requests -> Answers] /\ b.retry \subseteq Requests
  BY SMTT(30) DEF IInv, TypeOK, Frames
<1>U. UNCHANGED <<mode, changes, call, queue, pending, merged, cache>> /\ pc' = "isolate" /\ pc = "isolate"
  BY DEF Isolate
<1>B. /\ Sound(b) /\ Covered(b) /\ InUse("isolate", b)
      /\ \A d \in ToSet(b.out) : Priced(d, b.entry)
  BY <1>U DEF IInv, Batch, Billed
<1>1. PICK r \in b.retry :
        \/ b' = [b EXCEPT !.retry = @ \ {r}, !.full = @ \ {r},
                          !.answers[r] = AnswerTo(call[r].query)]
        \/ b' = [b EXCEPT !.retry = @ \ {r}, !.answers[r] = NoticeFor(r)]
  BY DEF Isolate
<1>2. AnswerTo(call[r].query) \in Answers /\ NoticeFor(r) \in Answers
  <2>1. call[r].status # "new"
    BY <1>B DEF Sound, ToCall, IInv, Batch
  <2>2. call[r].query \in Queries
    BY <1>T, <2>1, Asking DEF IInv
  <2> QED
    BY <1>T, <2>2, AnswersType
<1>3. PICK f \in Frames :
        /\ b' = f
        /\ f.requests = b.requests /\ f.fanned = b.fanned /\ f.entry = b.entry
        /\ f.out = b.out /\ f.fan = b.fan /\ f.sub = b.sub /\ f.direct = b.direct
        /\ f.failed = b.failed /\ f.todo = b.todo /\ f.retry = b.retry \ {r}
  <2>1. CASE b' = [b EXCEPT !.retry = @ \ {r}, !.full = @ \ {r},
                            !.answers[r] = AnswerTo(call[r].query)]
    <3> DEFINE a == AnswerTo(call[r].query)
               answers == [b.answers EXCEPT ![r] = a]
               f == [b EXCEPT !.retry = @ \ {r}, !.full = @ \ {r}, !.answers = answers]
    <3>1. b' = f
      BY <2>1
    <3> HIDE DEF a
    <3>2. answers \in [Requests -> Answers]
      BY <1>T, <1>2 DEF a
    <3> HIDE DEF answers
    <3>3. /\ f \in Frames
          /\ f.requests = b.requests /\ f.fanned = b.fanned /\ f.entry = b.entry
          /\ f.out = b.out /\ f.fan = b.fan /\ f.sub = b.sub /\ f.direct = b.direct
          /\ f.failed = b.failed /\ f.todo = b.todo /\ f.retry = b.retry \ {r}
      BY <1>T, <3>2 DEF Frames
    <3> HIDE DEF f
    <3> QED
      BY <3>1, <3>3
  <2>2. CASE b' = [b EXCEPT !.retry = @ \ {r}, !.answers[r] = NoticeFor(r)]
    <3> DEFINE a == NoticeFor(r)
               answers == [b.answers EXCEPT ![r] = a]
               f == [b EXCEPT !.retry = @ \ {r}, !.answers = answers]
    <3>1. b' = f
      BY <2>2
    <3> HIDE DEF a
    <3>2. answers \in [Requests -> Answers]
      BY <1>T, <1>2 DEF a
    <3> HIDE DEF answers
    <3>3. /\ f \in Frames
          /\ f.requests = b.requests /\ f.fanned = b.fanned /\ f.entry = b.entry
          /\ f.out = b.out /\ f.fan = b.fan /\ f.sub = b.sub /\ f.direct = b.direct
          /\ f.failed = b.failed /\ f.todo = b.todo /\ f.retry = b.retry \ {r}
      BY <1>T, <3>2 DEF Frames
    <3> HIDE DEF f
    <3> QED
      BY <3>1, <3>3
  <2> QED
    BY <1>1, <2>1, <2>2
<1>4. Sound(f) /\ Covered(f)
  BY <1>B, <1>3 DEF Sound, Covered, ToCall
<1>5. InUse(pc', f)
  BY <1>U, <1>B, <1>3 DEF InUse
<1> QED
  BY <1>B, <1>U, <1>3, <1>4, <1>5, ProcessMoves

LEMMA InvCollect == IInv /\ Collect => IInv'
<1> SUFFICES ASSUME IInv, Collect PROVE IInv'
  OBVIOUS
<1> DEFINE coll == [i \in DOMAIN b.sub |-> Collected(i)]
           f == [b EXCEPT !.out = @ \o coll, !.sub = <<>>, !.answers = NoFrame.answers,
                          !.full = {}]
<1>T. /\ b \in Frames /\ b.sub \in Seq(Requests) /\ b.out \in Seq(Deliveries)
      /\ b.answers \in [Requests -> Answers] /\ b.entry \in Modes /\ b.tier \in Nat
  BY DEF IInv, TypeOK, Frames
<1>U. /\ UNCHANGED <<mode, changes, call, queue, pending, merged, cache>>
      /\ pc = "isolate" /\ b.retry = {} /\ AfterCalls(f)
  BY DEF Collect
<1>B. /\ Sound(b) /\ Covered(b) /\ InUse("isolate", b)
      /\ \A d \in ToSet(b.out) : Priced(d, b.entry)
  BY <1>U DEF IInv, Batch, Billed
<1>1. ASSUME NEW i \in DOMAIN b.sub
      PROVE Collected(i) \in Deliveries /\ Collected(i).id = b.sub[i]
            /\ Priced(Collected(i), b.entry)
  <2>1. b.sub[i] \in Requests /\ b.sub[Owner(b.sub, i)] \in Requests
    BY <1>T, OwnerType
  <2>2. SettledPrice(b.entry, b.tier, b.sub[i] \in Priority) \in Nat
    BY <1>T, PricesAreNat
  <2> QED
    BY <1>T, <2>1, <2>2 DEF Collected, Deliveries, Priced
<1>2. coll \in Seq(Deliveries) /\ DOMAIN coll = DOMAIN b.sub
      /\ \A i \in DOMAIN coll : coll[i].id = b.sub[i] /\ Priced(coll[i], b.entry)
  <2>1. DOMAIN b.sub = 1..Len(b.sub) /\ Len(b.sub) \in Nat
    BY <1>T
  <2> QED
    BY <1>1, <2>1
<1> HIDE DEF coll
<1>3. OneDelivery(coll) /\ Ids(coll) = ToSet(b.sub)
  BY <1>2, <1>B DEF Sound, OneEach, OneDelivery, Ids, ToSet
<1>4. /\ b.out \o coll \in Seq(Deliveries)
      /\ ToSet(b.out \o coll) = ToSet(b.out) \cup ToSet(coll)
      /\ Ids(b.out \o coll) = Ids(b.out) \cup ToSet(b.sub)
      /\ OneDelivery(b.out \o coll)
  <2>1. Ids(b.out) \cap Ids(coll) = {}
    BY <1>3, <1>B DEF Sound, ToCall
  <2> QED
    BY <1>T, <1>2, <1>3, <1>B, <2>1, JoinParts DEF Sound
<1>5. NoFrame.answers \in [Requests -> Answers]
  BY AnswersType DEF NoFrame
<1>6. /\ f \in Frames /\ f.requests = b.requests /\ f.fanned = b.fanned /\ f.entry = b.entry
      /\ f.out = b.out \o coll /\ f.fan = b.fan /\ f.sub = <<>> /\ f.direct = b.direct
      /\ f.failed = b.failed /\ f.todo = b.todo /\ f.retry = b.retry
  <2> DEFINE out == b.out \o coll
             answers == NoFrame.answers
             g == [b EXCEPT !.out = out, !.sub = <<>>, !.answers = answers, !.full = {}]
  <2>1. out \in Seq(Deliveries) /\ answers \in [Requests -> Answers]
    BY <1>4, <1>5
  <2>2. f = g
    OBVIOUS
  <2> HIDE DEF out, answers, f
  <2>3. /\ g \in Frames /\ g.requests = b.requests /\ g.fanned = b.fanned
        /\ g.entry = b.entry /\ g.out = out /\ g.fan = b.fan /\ g.sub = <<>>
        /\ g.direct = b.direct /\ g.failed = b.failed /\ g.todo = b.todo
        /\ g.retry = b.retry
    <3>1. <<>> \in Seq(Requests) /\ {} \in SUBSET Requests
      OBVIOUS
    <3>2. g \in Frames
      BY <1>T, <2>1, <3>1 DEF Frames
    <3> QED
      BY <1>T, <3>2 DEF Frames
  <2> HIDE DEF g
  <2> QED
    BY <2>2, <2>3 DEF out
<1> HIDE DEF f
<1>7. b.direct = <<>> /\ b.fan = <<>>
  BY <1>B DEF InUse
<1>8. Sound(f) /\ Covered(f)
  BY <1>B, <1>U, <1>4, <1>6, <1>7, EmptyParts DEF Sound, Covered, ToCall
<1>9. \A d \in ToSet(f.out) : Priced(d, f.entry)
  <2>1. \A d \in ToSet(coll) : Priced(d, b.entry)
    BY <1>2 DEF ToSet
  <2> QED
    BY <1>B, <1>4, <1>6, <2>1
<1> QED
  BY <1>U, <1>6, <1>7, <1>8, <1>9, AfterCallsMoves

LEMMA InvFanOutCalls == IInv /\ FanOutCalls => IInv'
<1> SUFFICES ASSUME IInv, FanOutCalls PROVE IInv'
  OBVIOUS
<1>T. /\ b \in Frames /\ b.requests \in Seq(Requests) /\ b.tier \in Nat
      /\ ToSet(b.requests) \subseteq Requests
  <2>1. b \in Frames /\ b.requests \in Seq(Requests) /\ b.tier \in Nat
    BY DEF IInv, TypeOK, Frames
  <2> QED
    BY <2>1 DEF ToSet
<1>U. UNCHANGED <<mode, changes, call, queue, pending, merged, cache>> /\ pc = "fanout"
  BY DEF FanOutCalls
<1>B. /\ Sound(b) /\ InUse("fanout", b) /\ b.direct = <<>> /\ b.sub = <<>> /\ b.todo = <<>>
      /\ b.fan = <<>> /\ b.out = <<>>
      /\ \A r \in ToSet(b.requests) : call[r].status = "queued"
  BY <1>U DEF IInv, Batch, InUse
<1>1. PICK S \in SUBSET ToSet(b.requests) :
        AfterCalls([b EXCEPT !.out = [i \in DOMAIN InOrder(S) |-> Delivery(InOrder(S)[i], b.tier)],
                             !.failed = ToSet(b.requests) \ S])
  BY DEF FanOutCalls
<1> DEFINE ok == InOrder(S)
           out == [i \in DOMAIN ok |-> Delivery(ok[i], b.tier)]
           failed == ToSet(b.requests) \ S
           f == [b EXCEPT !.out = out, !.failed = failed]
<1>2. ok \in Seq(Requests) /\ OneEach(ok) /\ ToSet(ok) = S
  BY <1>T, InOrderType
<1>3. AfterCalls(f)
  BY <1>1
<1> HIDE DEF ok
<1>4. ASSUME NEW i \in DOMAIN ok
      PROVE /\ Delivery(ok[i], b.tier) \in Deliveries /\ Delivery(ok[i], b.tier).id = ok[i]
            /\ Priced(Delivery(ok[i], b.tier), b.entry)
  <2>1. ok[i] \in Requests /\ ok[i] \in ToSet(b.requests)
    BY <1>2, SMTT(30) DEF ToSet
  <2>2. call[ok[i]].status # "new"
    BY <1>B, <2>1
  <2> QED
    BY <1>T, <2>1, <2>2, DeliveryType
<1>5. out \in Seq(Deliveries) /\ DOMAIN out = DOMAIN ok
      /\ \A i \in DOMAIN out : out[i].id = ok[i] /\ Priced(out[i], b.entry)
  <2>1. DOMAIN ok = 1..Len(ok) /\ Len(ok) \in Nat
    BY <1>2
  <2> QED
    BY <1>4, <2>1
<1> HIDE DEF out
<1>6. OneDelivery(out) /\ Ids(out) = S
  BY <1>2, <1>5 DEF OneEach, OneDelivery, Ids, ToSet
<1>7. /\ f \in Frames /\ f.requests = b.requests /\ f.fanned = b.fanned /\ f.entry = b.entry
      /\ f.out = out /\ f.fan = b.fan /\ f.sub = b.sub /\ f.direct = b.direct
      /\ f.failed = failed /\ f.todo = b.todo /\ f.retry = b.retry
  <2>1. failed \subseteq Requests
    BY <1>T
  <2> HIDE DEF failed
  <2> QED
    BY <1>T, <1>5, <2>1 DEF Frames
<1> HIDE DEF f
<1>8. Sound(f) /\ Covered(f)
  BY <1>B, <1>6, <1>7, EmptyParts DEF Sound, Covered, ToCall
<1>9. \A d \in ToSet(f.out) : Priced(d, f.entry)
  BY <1>5, <1>7 DEF ToSet
<1> QED
  BY <1>3, <1>U, <1>B, <1>7, <1>8, <1>9, AfterCallsMoves

\* At the mode of the gate nobody is charged above the ceiling.
LEMMA WithinCeiling ==
  ASSUME NEW m \in Modes, NEW size \in Nat, NEW r
  PROVE  /\ SettledPrice(m, size, r \in Priority) <= CeilingPrice(m, r \in Priority)
         /\ CallerPrice(m, r \in Priority) <= CeilingPrice(m, r \in Priority)
<1>1. CASE r \in Priority
  <2>1. SettledPrice(m, size, TRUE) <= CeilingPrice(m, TRUE) /\ CallerPrice(m, TRUE) <= CeilingPrice(m, TRUE)
    BY SettledWithinCeiling
  <2> QED
    BY <1>1, <2>1 DEF SettledPrice, CeilingPrice, CallerPrice
<1>2. CASE r \notin Priority
  <2>1. SettledPrice(m, size, FALSE) <= CeilingPrice(m, FALSE) /\ CallerPrice(m, FALSE) <= CeilingPrice(m, FALSE)
    BY SettledWithinCeiling
  <2> QED
    BY <1>2, <2>1 DEF SettledPrice, CeilingPrice, CallerPrice
<1> QED
  BY <1>1, <1>2

\* A frame nothing has been put into.
LEMMA EmptyFrame ==
  ASSUME NEW entry \in Modes, NEW l \in {"idle", "fire"},
         NEW f, f = NoFrame \/ f = [NoFrame EXCEPT !.entry = entry]
  PROVE  /\ f \in Frames /\ Sound(f) /\ InUse(l, f)
         /\ f.requests = <<>> /\ f.out = <<>> /\ f.fanned = <<>>
         /\ f.sub = <<>> /\ f.fan = <<>>
<1>1. f \in Frames
  BY NoFrameType
<1>2. /\ f.requests = <<>> /\ f.out = <<>> /\ f.fanned = <<>> /\ f.fan = <<>>
      /\ f.direct = <<>> /\ f.todo = <<>> /\ f.sub = <<>> /\ f.retry = {}
  BY DEF NoFrame
<1>3. Sound(f) /\ InUse(l, f)
  BY <1>2, EmptyParts DEF Sound, ToCall, InUse
<1> QED
  BY <1>1, <1>2, <1>3

LEMMA InvInit == Init => IInv
<1> SUFFICES ASSUME Init PROVE IInv
  OBVIOUS
<1>1. "manual_review" \in Modes
  BY DEF Modes
<1>2. /\ b = NoFrame /\ pc = "idle" /\ queue = <<>>
      /\ \A q \in Queries : pending[q] = {}
      /\ \A r \in Requests : merged[r] = {}
      /\ \A r \in Requests : /\ call[r].status = "new" /\ call[r].query = NoQuery
                             /\ call[r].charged = 0 /\ call[r].ceiling = 0
                             /\ call[r].answer = NoAnswer
  BY DEF Init
<1>4. /\ b \in Frames /\ Sound(b) /\ InUse("idle", b)
      /\ b.requests = <<>> /\ b.out = <<>> /\ b.fanned = <<>>
  BY <1>1, <1>2, EmptyFrame
<1>5. call \in [Requests -> Calls]
  BY <1>1, AnswersType DEF Init, Calls, Status
<1>6. TypeOK
  <2>1. changes \in 0..MaxModeChanges
    BY PipelineAssumption DEF Init
  <2>2. cache \in [Queries -> Answers]
    BY AnswersType DEF Init
  <2>3. /\ pending \in [Queries -> SUBSET Requests]
        /\ merged \in [Requests -> SUBSET Requests]
    BY DEF Init
  <2>4. queue \in Seq(Requests) /\ mode \in Modes
    BY DEF Init
  <2> QED
    BY <1>2, <1>4, <1>5, <2>1, <2>2, <2>3, <2>4 DEF TypeOK
<1>7. Callers /\ OverchargeNeedsModeChange
  BY <1>2 DEF Callers, OverchargeNeedsModeChange
<1>8. Waiting /\ Members
  BY <1>2, EmptyParts DEF Waiting, Members
<1>9. Batch
  BY <1>2, <1>4, EmptyParts DEF Batch, Billed
<1> QED
  BY <1>6, <1>7, <1>8, <1>9 DEF IInv

LEMMA InvAuthorize == ASSUME NEW r \in Requests PROVE IInv /\ Authorize(r) => IInv'
<1> SUFFICES ASSUME IInv, Authorize(r) PROVE IInv'
  OBVIOUS
<1>1. PICK q \in Queries :
        call' = [call EXCEPT ![r].status = "authorized", ![r].query = q,
                             ![r].ceiling = CeilingPrice(mode, r \in Priority),
                             ![r].gateMode = mode]
  BY DEF Authorize
<1>2. /\ UNCHANGED <<mode, changes, queue, pending, merged, cache, pc, b>>
      /\ call[r].status = "new"
  BY DEF Authorize
<1>T. TypeOK /\ mode \in Modes /\ call \in [Requests -> Calls] /\ merged \in [Requests -> SUBSET Requests]
  BY DEF IInv, TypeOK
<1>3. CeilingPrice(mode, r \in Priority) \in Nat
  BY <1>T, PricesAreNat
<1>4. /\ call'[r].status = "authorized" /\ call'[r].query = q /\ call'[r].gateMode = mode
      /\ call'[r].ceiling = CeilingPrice(mode, r \in Priority)
      /\ call'[r].charged = call[r].charged
      /\ \A s \in Requests \ {r} : call'[s] = call[s]
  BY <1>1, <1>T DEF Calls
<1>5. call' \in [Requests -> Calls]
  <2> DEFINE ceiling == CeilingPrice(mode, r \in Priority)
  <2>1. ceiling \in Nat
    BY <1>3
  <2>2. call' = [call EXCEPT ![r].status = "authorized", ![r].query = q,
                             ![r].ceiling = ceiling, ![r].gateMode = mode]
    BY <1>1
  <2> HIDE DEF ceiling
  <2> DEFINE row == [call[r] EXCEPT !.status = "authorized", !.query = q,
                                    !.ceiling = ceiling, !.gateMode = mode]
  <2>3. row \in Calls
    BY <1>T, <2>1, ZenonT(40) DEF Calls, Status
  <2>4. call' = [call EXCEPT ![r] = row]
    BY <2>2
  <2> HIDE DEF row
  <2> QED
    BY <1>T, <2>3, <2>4
<1>6. q # NoQuery
  BY PipelineAssumption
<1>7. Callers'
  BY <1>2, <1>4, <1>6 DEF IInv, Callers
<1>8. OverchargeNeedsModeChange'
  <2>1. call[r].charged = 0
    BY <1>2 DEF IInv, Callers
  <2> QED
    BY <1>3, <1>4, <2>1 DEF IInv, OverchargeNeedsModeChange
<1>9. Waiting'
  <2>1. \A s \in ToSet(queue) : s \in Requests
    BY DEF IInv, TypeOK, ToSet
  <2>2. \A s \in ToSet(queue) : call'[s] = call[s]
    BY <1>2, <1>4, <2>1 DEF IInv, Waiting
  <2> QED
    BY <1>2, <2>2 DEF IInv, Waiting
<1>10. Members'
  <2>1. ASSUME NEW o \in Requests, NEW m \in merged[o] PROVE call'[m] = call[m] /\ call'[o] = call[o]
    <3>1. m \in Requests /\ call[m].status = "merged" /\ call[m].query = call[o].query
      BY <1>T DEF IInv, Members
    <3>2. call[m].query # NoQuery
      BY <3>1 DEF IInv, Callers
    <3>3. call[r].query = NoQuery
      BY <1>2 DEF IInv, Callers
    <3> QED
      BY <1>2, <1>4, <3>1, <3>2, <3>3
  <2> QED
    BY <1>2, <2>1 DEF IInv, Members
<1>11. Batch'
  <2>1. /\ \A s \in ToSet(b.requests) : s \in Requests
        /\ \A s \in Ids(b.fanned) : s \in Requests
    BY InHand DEF IInv
  <2>2. /\ \A s \in ToSet(b.requests) : call'[s] = call[s]
        /\ \A s \in Ids(b.fanned) : call'[s] = call[s]
    BY <1>2, <1>4, <2>1 DEF IInv, Batch
  <2> QED
    BY <1>2, <2>2 DEF IInv, Batch, Billed
<1>12. TypeOK'
  BY <1>2, <1>5 DEF IInv, TypeOK
<1> QED
  BY <1>7, <1>8, <1>9, <1>10, <1>11, <1>12 DEF IInv

\* A request that has been authorized takes its place: nobody else is concerned.
LEMMA Arrives ==
  ASSUME IInv, NEW r \in Requests, call[r].status = "authorized",
         call' \in [Requests -> Calls], \A s \in Requests \ {r} : call'[s] = call[s],
         call'[r].query = call[r].query, call'[r].ceiling = call[r].ceiling,
         call'[r].gateMode = call[r].gateMode, call'[r].status # "new",
         UNCHANGED <<pc, b>>
  PROVE  /\ Callers' /\ Batch'
         /\ \A s \in ToSet(queue) : s # r /\ s \in Requests /\ call'[s] = call[s]
         /\ r \notin ToSet(b.requests) /\ r \notin Ids(b.fanned)
         /\ \A o \in Requests : r \notin merged[o]
         /\ \A s \in Requests : call'[s].query = call[s].query
<1>1. /\ \A s \in ToSet(b.requests) : s \in Requests
      /\ \A s \in Ids(b.fanned) : s \in Requests
      /\ \A s \in ToSet(queue) : s \in Requests
  BY InHand DEF IInv
<1>2. /\ \A s \in ToSet(b.requests) : s # r
      /\ \A s \in Ids(b.fanned) : s # r
      /\ \A s \in ToSet(queue) : s # r
      /\ \A o \in Requests : r \notin merged[o]
  BY DEF IInv, Batch, Waiting, Members
<1>3. Callers'
  BY DEF IInv, Callers
<1>4. Batch'
  <2>1. /\ \A s \in ToSet(b.requests) : call'[s] = call[s]
        /\ \A s \in Ids(b.fanned) : call'[s] = call[s]
    BY <1>1, <1>2
  <2> QED
    BY <2>1 DEF IInv, Batch, Billed
<1> QED
  BY <1>1, <1>2, <1>3, <1>4

LEMMA InvAccept ==
  ASSUME NEW r \in Requests
  PROVE  IInv /\ (AcceptUnkeyed(r) \/ ServeCached(r) \/ AcceptKeyed(r)) => IInv'
<1> SUFFICES ASSUME IInv, AcceptUnkeyed(r) \/ ServeCached(r) \/ AcceptKeyed(r) PROVE IInv'
  OBVIOUS
<1> DEFINE q == call[r].query
<1>T. /\ TypeOK /\ mode \in Modes /\ call \in [Requests -> Calls] /\ queue \in Seq(Requests)
      /\ cache \in [Queries -> Answers] /\ pending \in [Queries -> SUBSET Requests]
      /\ merged \in [Requests -> SUBSET Requests]
  BY DEF IInv, TypeOK
<1>1. call[r].status = "authorized" /\ UNCHANGED <<mode, changes, cache, pc, b>>
  BY DEF AcceptUnkeyed, ServeCached, AcceptKeyed
<1>2. q \in Queries
  BY <1>1, Asking DEF IInv
\* It is queued: it was not there before.
<1>3. ASSUME queue' = Append(queue, r), merged' = merged, call'[r].status = "queued",
             call' \in [Requests -> Calls], \A s \in Requests \ {r} : call'[s] = call[s],
             call'[r].query = call[r].query, call'[r].ceiling = call[r].ceiling,
             call'[r].gateMode = call[r].gateMode, call'[r].charged = call[r].charged,
             call'[r].paidMode = call[r].paidMode,
             pending' \in [Queries -> SUBSET Requests],
             \A p \in Queries : \A o \in pending'[p] :
               o \in pending[p] \/ (o = r /\ p = q /\ call'[r].keyed)
      PROVE IInv'
  <2>1. /\ Callers' /\ Batch'
        /\ \A s \in ToSet(queue) : s # r /\ s \in Requests /\ call'[s] = call[s]
        /\ r \notin ToSet(b.requests) /\ \A o \in Requests : r \notin merged[o]
        /\ \A s \in Requests : call'[s].query = call[s].query
    BY <1>1, <1>3, Arrives
  <2>2. /\ queue' \in Seq(Requests) /\ ToSet(queue') = ToSet(queue) \cup {r} /\ OneEach(queue')
    BY <1>T, <1>3, <2>1, AppendParts DEF IInv, Waiting
  <2>3. TypeOK'
    BY <1>1, <1>3, <1>T, <2>2 DEF TypeOK
  <2>4. Waiting'
    BY <1>1, <1>3, <2>1, <2>2 DEF IInv, Waiting
  <2>5. Members'
    BY <1>1, <1>3, <1>T, <2>1 DEF IInv, Members
  <2>6. OverchargeNeedsModeChange'
    BY <1>3 DEF IInv, OverchargeNeedsModeChange
  <2> QED
    BY <2>1, <2>3, <2>4, <2>5, <2>6 DEF IInv
<1>4. CASE AcceptUnkeyed(r)
  <2>1. /\ queue' = Append(queue, r) /\ UNCHANGED <<pending, merged>>
        /\ call' = [call EXCEPT ![r].status = "queued"]
    BY <1>4 DEF AcceptUnkeyed
  <2>2. /\ call'[r].status = "queued"
        /\ call' \in [Requests -> Calls] /\ \A s \in Requests \ {r} : call'[s] = call[s]
        /\ call'[r].query = call[r].query /\ call'[r].ceiling = call[r].ceiling
        /\ call'[r].gateMode = call[r].gateMode /\ call'[r].charged = call[r].charged
        /\ call'[r].paidMode = call[r].paidMode
    BY <1>T, <2>1, ZenonT(40) DEF Calls, Status
  <2> QED
    BY <1>3, <1>T, <2>1, <2>2
<1>5. CASE AcceptKeyed(r) /\ pending[q] = {}
  <2>1. /\ queue' = Append(queue, r) /\ pending' = [pending EXCEPT ![q] = {r}]
        /\ merged' = merged
        /\ call' = [call EXCEPT ![r].status = "queued", ![r].keyed = TRUE]
    BY <1>5 DEF AcceptKeyed
  <2>2. /\ call'[r].status = "queued" /\ call'[r].keyed
        /\ call' \in [Requests -> Calls] /\ \A s \in Requests \ {r} : call'[s] = call[s]
        /\ call'[r].query = call[r].query /\ call'[r].ceiling = call[r].ceiling
        /\ call'[r].gateMode = call[r].gateMode /\ call'[r].charged = call[r].charged
        /\ call'[r].paidMode = call[r].paidMode
    BY <1>T, <2>1, ZenonT(40) DEF Calls, Status
  <2>3. /\ pending' \in [Queries -> SUBSET Requests]
        /\ \A p \in Queries : \A o \in pending'[p] :
             o \in pending[p] \/ (o = r /\ p = q /\ call'[r].keyed)
    BY <1>T, <1>2, <2>1, <2>2
  <2> HIDE DEF q
  <2> QED
    BY <1>3, <2>1, <2>2, <2>3
<1>6. CASE AcceptKeyed(r) /\ pending[q] # {}
  <2>1. PICK o \in pending[q] : merged' = [merged EXCEPT ![o] = @ \cup {r}]
    BY <1>6 DEF AcceptKeyed
  <2>2. /\ call' = [call EXCEPT ![r].status = "merged"] /\ UNCHANGED <<pending, queue>>
    BY <1>6 DEF AcceptKeyed
  <2>3. /\ call'[r].status = "merged"
        /\ call' \in [Requests -> Calls] /\ \A s \in Requests \ {r} : call'[s] = call[s]
        /\ call'[r].query = call[r].query /\ call'[r].ceiling = call[r].ceiling
        /\ call'[r].gateMode = call[r].gateMode /\ call'[r].charged = call[r].charged
        /\ call'[r].paidMode = call[r].paidMode
    BY <1>T, <2>2, ZenonT(40) DEF Calls, Status
  <2>4. /\ Callers' /\ Batch'
        /\ \A s \in ToSet(queue) : s # r /\ s \in Requests /\ call'[s] = call[s]
        /\ r \notin Ids(b.fanned) /\ \A p \in Requests : r \notin merged[p]
        /\ \A s \in Requests : call'[s].query = call[s].query
    BY <1>1, <2>3, Arrives
  <2>5. o \in Requests /\ call[o].query = q
    BY <1>T, <1>2 DEF IInv, Waiting
  <2>6. /\ merged' \in [Requests -> SUBSET Requests]
        /\ \A p \in Requests : merged'[p] = IF p = o THEN merged[o] \cup {r} ELSE merged[p]
    BY <1>T, <2>1, <2>5
  <2>7. TypeOK'
    BY <1>1, <1>T, <2>2, <2>3, <2>6 DEF TypeOK
  <2>8. Waiting'
    BY <1>1, <2>2, <2>4 DEF IInv, Waiting
  <2>9. Members'
    <3> SUFFICES ASSUME NEW p \in Requests, NEW m \in merged'[p]
        PROVE /\ call'[m].status = "merged" /\ call'[m].query = call'[p].query
              /\ m \notin Ids(b'.fanned)
              /\ \A p2 \in Requests : m \in merged'[p2] => p2 = p
      BY DEF Members
    <3>1. CASE m = r
      <4>1. p = o /\ \A p2 \in Requests : m \in merged'[p2] => p2 = o
        BY <2>4, <2>6, <3>1
      <4>2. call'[m].query = q /\ call'[p].query = q
        BY <2>4, <2>5, <3>1, <4>1
      <4> QED
        BY <1>1, <2>3, <2>4, <3>1, <4>1, <4>2
    <3>2. CASE m # r
      <4>1. m \in merged[p] /\ \A p2 \in Requests : m \in merged'[p2] => m \in merged[p2]
        BY <2>6, <3>2
      <4>2. m \in Requests
        BY <1>T, <4>1
      <4>3. /\ call[m].status = "merged" /\ call[m].query = call[p].query
            /\ m \notin Ids(b.fanned) /\ \A p2 \in Requests : m \in merged[p2] => p2 = p
        BY <4>1 DEF IInv, Members
      <4> QED
        BY <1>1, <2>3, <2>4, <3>2, <4>1, <4>2, <4>3
    <3> QED
      BY <3>1, <3>2
  <2>10. OverchargeNeedsModeChange'
    BY <2>3 DEF IInv, OverchargeNeedsModeChange
  <2> QED
    BY <2>4, <2>7, <2>8, <2>9, <2>10 DEF IInv
<1>7. CASE ServeCached(r)
  <2> DEFINE price == CallerPrice(mode, r \in Priority)
  <2>1. /\ call' = [call EXCEPT ![r].status = "cached", ![r].answer = cache[q],
                                ![r].paidMode = mode, ![r].charged = price]
        /\ UNCHANGED <<queue, pending, merged>>
    BY <1>7 DEF ServeCached
  <2>2. price \in Nat /\ price <= CeilingPrice(mode, r \in Priority)
    BY <1>T, PricesAreNat, WithinCeiling
  <2> HIDE DEF price
  <2>3. /\ call'[r].status = "cached" /\ call'[r].charged = price /\ call'[r].paidMode = mode
        /\ call' \in [Requests -> Calls] /\ \A s \in Requests \ {r} : call'[s] = call[s]
        /\ call'[r].query = call[r].query /\ call'[r].ceiling = call[r].ceiling
        /\ call'[r].gateMode = call[r].gateMode
    <3> DEFINE answer == cache[q]
               row == [call[r] EXCEPT !.status = "cached", !.answer = answer,
                                      !.paidMode = mode, !.charged = price]
    <3>1. answer \in Answers /\ call' = [call EXCEPT ![r] = row]
      BY <1>T, <1>2, <2>1
    <3> HIDE DEF answer
    <3>2. /\ row \in Calls /\ row.status = "cached" /\ row.charged = price
          /\ row.paidMode = mode /\ row.query = call[r].query
          /\ row.ceiling = call[r].ceiling /\ row.gateMode = call[r].gateMode
      BY <1>T, <2>2, <3>1, ZenonT(40) DEF Calls, Status
    <3> HIDE DEF row
    <3> QED
      BY <1>T, <3>1, <3>2
  <2>4. /\ Callers' /\ Batch'
        /\ \A s \in ToSet(queue) : s # r /\ s \in Requests /\ call'[s] = call[s]
        /\ \A o \in Requests : r \notin merged[o]
        /\ \A s \in Requests : call'[s].query = call[s].query
    BY <1>1, <2>3, Arrives
  <2>5. TypeOK'
    BY <1>1, <1>T, <2>1, <2>3 DEF TypeOK
  <2>6. Waiting'
    BY <1>1, <2>1, <2>4, ZenonT(40) DEF IInv, Waiting
  <2>7. Members'
    BY <1>1, <1>T, <2>1, <2>3, <2>4 DEF IInv, Members
  <2>8. OverchargeNeedsModeChange'
    <3>1. call[r].ceiling = CeilingPrice(call[r].gateMode, r \in Priority)
      BY <1>1 DEF IInv, Callers
    <3>2. call'[r].charged > call'[r].ceiling => call'[r].gateMode # call'[r].paidMode
      <4> SUFFICES ASSUME call[r].gateMode = mode PROVE ~(price > call[r].ceiling)
        BY <2>3
      <4>1. price <= call[r].ceiling
        BY <2>2, <3>1
      <4>2. call[r].ceiling \in Nat
        BY <1>T DEF Calls
      <4> QED
        BY <2>2, <4>1, <4>2
    <3> QED
      BY <2>3, <3>2 DEF IInv, OverchargeNeedsModeChange
  <2> QED
    BY <2>4, <2>5, <2>6, <2>7, <2>8 DEF IInv
<1> QED
  BY <1>4, <1>5, <1>6, <1>7

LEMMA InvLookUpEntry == IInv /\ LookUpEntry => IInv'
<1> SUFFICES ASSUME IInv, LookUpEntry PROVE IInv'
  OBVIOUS
<1>1. /\ pc' = "fire" /\ b' = [NoFrame EXCEPT !.entry = mode]
      /\ UNCHANGED <<mode, changes, call, queue, pending, merged, cache>>
  BY DEF LookUpEntry
<1>2. /\ b' \in Frames /\ Sound(b') /\ InUse("fire", b')
      /\ b'.requests = <<>> /\ b'.out = <<>> /\ b'.fanned = <<>>
  BY <1>1, EmptyFrame DEF IInv, TypeOK
<1>3. TypeOK'
  BY <1>1, <1>2 DEF IInv, TypeOK
<1>4. Callers' /\ OverchargeNeedsModeChange'
  BY <1>1 DEF IInv, Callers, OverchargeNeedsModeChange
<1>5. Waiting' /\ Members'
  BY <1>1, <1>2, EmptyParts DEF IInv, Waiting, Members
<1>6. Batch'
  BY <1>1, <1>2, EmptyParts DEF Batch, Billed
<1> QED
  BY <1>3, <1>4, <1>5, <1>6 DEF IInv

LEMMA InvFire == IInv /\ Fire => IInv'
<1> SUFFICES ASSUME IInv, Fire PROVE IInv'
  OBVIOUS
<1> DEFINE f == [b EXCEPT !.requests = queue]
<1>1. /\ pc = "fire" /\ pc' = "route" /\ b' = f /\ queue' = <<>>
      /\ pending' = [q \in Queries |->
                       IF \E r \in ToSet(queue) : call[r].keyed /\ call[r].query = q
                       THEN {} ELSE pending[q]]
      /\ UNCHANGED <<mode, changes, call, merged, cache>>
  BY DEF Fire
<1>T. TypeOK /\ b \in Frames /\ queue \in Seq(Requests)
  BY DEF IInv, TypeOK
<1>2. /\ f \in Frames /\ f.requests = queue /\ f.fanned = b.fanned /\ f.entry = b.entry
      /\ f.out = b.out /\ f.fan = b.fan /\ f.sub = b.sub /\ f.direct = b.direct
      /\ f.todo = b.todo /\ f.retry = b.retry
  BY <1>T DEF Frames
<1> HIDE DEF f
<1>B. /\ Sound(b) /\ b.out = <<>> /\ b.fanned = <<>> /\ b.fan = <<>>
      /\ b.direct = <<>> /\ b.todo = <<>> /\ b.sub = <<>>
  BY <1>1 DEF IInv, Batch, InUse
<1>3. \A q \in Queries : pending'[q] = {}
  BY <1>1 DEF IInv, Waiting
<1>4. TypeOK'
  <2>1. pending' \in [Queries -> SUBSET Requests]
    BY <1>1, <1>T DEF TypeOK
  <2>2. <<>> \in Seq(Requests)
    OBVIOUS
  <2> QED
    BY <1>1, <1>2, <1>T, <2>1, <2>2 DEF TypeOK
<1>5. Callers' /\ OverchargeNeedsModeChange'
  BY <1>1 DEF IInv, Callers, OverchargeNeedsModeChange
<1>6. Waiting'
  BY <1>1, <1>3, EmptyParts DEF Waiting
<1>7. Members'
  BY <1>1, <1>2 DEF IInv, Members
<1>8. Batch'
  <2>1. Sound(f) /\ InUse("route", f)
    BY <1>2, <1>B, EmptyParts DEF Sound, ToCall, InUse, IInv, Waiting
  <2>2. \A r \in ToSet(f.requests) : call[r].status = "queued"
    BY <1>2 DEF IInv, Waiting
  <2> QED
    BY <1>1, <1>2, <1>B, <2>1, <2>2, EmptyParts DEF Batch, Billed
<1> QED
  BY <1>4, <1>5, <1>6, <1>7, <1>8 DEF IInv

\* What the members of a slot get.
FannedTo(d) == LET members == SetToSeq(merged[d.id])
               IN [i \in DOMAIN members |->
                     [id |-> members[i], answer |-> d.answer, partial |-> FALSE,
                      charged |-> SettledPrice(b.entry, BreakEven, members[i] \in Priority)]]

LEMMA FannedToType ==
  ASSUME IInv, NEW d \in Deliveries
  PROVE  /\ FannedTo(d) \in Seq(Deliveries)
         /\ OneDelivery(FannedTo(d)) /\ Ids(FannedTo(d)) \subseteq merged[d.id]
         /\ \A e \in ToSet(FannedTo(d)) : /\ e.answer = d.answer /\ e.id \in merged[d.id]
                                          /\ Priced(e, b.entry)
<1> DEFINE s == SetToSeq(merged[d.id])
           D(i) == [id |-> s[i], answer |-> d.answer, partial |-> FALSE,
                    charged |-> SettledPrice(b.entry, BreakEven, s[i] \in Priority)]
           t == [i \in DOMAIN s |-> D(i)]
<1>T. b.entry \in Modes /\ merged[d.id] \in SUBSET Requests /\ d.answer \in Answers /\ BreakEven \in Nat
  BY PipelineAssumption DEF IInv, TypeOK, Frames, Deliveries
<1>1. /\ s \in Seq(Requests) /\ OneEach(s) /\ ToSet(s) \subseteq merged[d.id]
  BY <1>T, SetToSeqType
<1> HIDE DEF s
<1>2. ASSUME NEW i \in DOMAIN s
      PROVE /\ D(i) \in Deliveries /\ D(i).id = s[i] /\ D(i).answer = d.answer
            /\ Priced(D(i), b.entry)
  <2>1. s[i] \in Requests
    BY <1>1
  <2>2. SettledPrice(b.entry, BreakEven, s[i] \in Priority) \in Nat
    BY <1>T, PricesAreNat
  <2> QED
    BY <1>T, <2>1, <2>2 DEF Deliveries, Priced
<1> HIDE DEF D
<1>3. DOMAIN t = DOMAIN s /\ \A i \in DOMAIN s : t[i] = D(i)
  OBVIOUS
<1>4. t \in Seq(Deliveries)
  <2>1. DOMAIN s = 1..Len(s) /\ Len(s) \in Nat
    BY <1>1
  <2> QED
    BY <1>2, <2>1
<1>5. FannedTo(d) = t
  BY DEF FannedTo, D, s
<1> HIDE DEF t
<1>6. OneDelivery(t) /\ Ids(t) \subseteq merged[d.id]
  BY <1>1, <1>2, <1>3 DEF OneEach, OneDelivery, Ids, ToSet
<1>7. \A e \in ToSet(t) : e.answer = d.answer /\ e.id \in merged[d.id] /\ Priced(e, b.entry)
  BY <1>1, <1>2, <1>3 DEF ToSet
<1> QED
  BY <1>4, <1>5, <1>6, <1>7

\* What a fan-out step does to the frame and the slots.
LEMMA FanOutFacts ==
  ASSUME IInv, FanOut
  PROVE  LET d == Head(b.fan)
         IN /\ d \in Deliveries /\ d \in ToSet(b.out) /\ d.id \in ToSet(b.requests)
            /\ d.id \in Requests /\ call[d.id].query \in Queries
            /\ pc = "deliver" /\ UNCHANGED <<mode, changes, call, queue, pending, pc>>
            /\ cache' \in [Queries -> Answers]
            /\ b' \in Frames /\ b'.requests = b.requests /\ b'.entry = b.entry
            /\ b'.out = b.out /\ b'.direct = b.direct /\ b'.todo = b.todo /\ b'.sub = b.sub
            /\ b'.failed = b.failed /\ b'.retry = b.retry /\ b'.answers = b.answers
            /\ ToSet(b'.fan) \subseteq ToSet(b.fan)
            /\ b'.fanned = b.fanned \o FannedTo(d)
            /\ merged' \in [Requests -> SUBSET Requests]
            /\ \A o \in Requests : merged'[o] = IF o = d.id THEN {} ELSE merged[o]
<1> DEFINE d == Head(b.fan)
           fanned == b.fanned \o FannedTo(d)
           f == [b EXCEPT !.fan = Tail(@), !.fanned = fanned]
<1>T. /\ b \in Frames /\ b.fan \in Seq(Deliveries) /\ b.fanned \in Seq(Deliveries)
      /\ merged \in [Requests -> SUBSET Requests] /\ cache \in [Queries -> Answers]
  BY DEF IInv, TypeOK, Frames
<1>1. /\ pc = "deliver" /\ b.fan # <<>> /\ UNCHANGED <<mode, changes, call, queue, pending, pc>>
      /\ cache' = IF Cacheable(d) THEN [cache EXCEPT ![call[d.id].query] = d.answer] ELSE cache
      /\ b' = f /\ merged' = [merged EXCEPT ![d.id] = {}]
  BY DEF FanOut, FannedTo
<1>2. d \in Deliveries /\ Tail(b.fan) \in Seq(Deliveries)
      /\ ToSet(b.fan) = {d} \cup ToSet(Tail(b.fan))
  BY <1>1, <1>T, TailParts
<1>3. d \in ToSet(b.out) /\ d.id \in ToSet(b.requests)
  <2>1. d \in ToSet(b.out) /\ Ids(b.out) \subseteq ToSet(b.requests)
    BY <1>2 DEF IInv, Batch, Sound
  <2>2. d.id \in Ids(b.out)
    BY <2>1 DEF Ids, ToSet
  <2> QED
    BY <2>1, <2>2
<1>4. d.id \in Requests /\ call[d.id].query \in Queries
  <2>1. d.id \in Requests /\ call[d.id].status = "queued"
    BY <1>2, <1>3 DEF IInv, Batch, Deliveries
  <2> QED
    BY <2>1, Asking DEF IInv
<1>5. d.answer \in Answers
  BY <1>2 DEF Deliveries
<1> HIDE DEF d
<1>6. fanned \in Seq(Deliveries)
  BY <1>2, <1>T, FannedToType, JoinParts
<1> HIDE DEF fanned
<1>7. /\ f \in Frames /\ f.requests = b.requests /\ f.entry = b.entry
      /\ f.out = b.out /\ f.direct = b.direct /\ f.todo = b.todo /\ f.sub = b.sub
      /\ f.failed = b.failed /\ f.retry = b.retry /\ f.answers = b.answers
      /\ f.fan = Tail(b.fan) /\ f.fanned = fanned
  BY <1>2, <1>6, <1>T DEF Frames
<1> HIDE DEF f
<1>8. cache' \in [Queries -> Answers]
  BY <1>1, <1>4, <1>5, <1>T
<1>9. /\ merged' \in [Requests -> SUBSET Requests]
      /\ \A o \in Requests : merged'[o] = IF o = d.id THEN {} ELSE merged[o]
  BY <1>1, <1>4, <1>T
<1>10. ToSet(b'.fan) \subseteq ToSet(b.fan)
  BY <1>1, <1>2, <1>7
<1> QED
  BY <1>1, <1>2, <1>3, <1>4, <1>7, <1>8, <1>9, <1>10 DEF d, fanned

LEMMA InvFanOut == IInv /\ FanOut => IInv'
<1> SUFFICES ASSUME IInv, FanOut PROVE IInv'
  OBVIOUS
<1> DEFINE d == Head(b.fan)
           t == FannedTo(d)
<1>1. /\ d \in Deliveries /\ d.id \in Requests /\ pc = "deliver"
      /\ UNCHANGED <<mode, changes, call, queue, pending, pc>>
      /\ cache' \in [Queries -> Answers]
      /\ b' \in Frames /\ b'.requests = b.requests /\ b'.entry = b.entry
      /\ b'.out = b.out /\ b'.direct = b.direct /\ b'.todo = b.todo /\ b'.sub = b.sub
      /\ b'.failed = b.failed /\ b'.retry = b.retry
      /\ ToSet(b'.fan) \subseteq ToSet(b.fan) /\ b'.fanned = b.fanned \o t
      /\ merged' \in [Requests -> SUBSET Requests]
      /\ \A o \in Requests : merged'[o] = IF o = d.id THEN {} ELSE merged[o]
  BY FanOutFacts
<1> HIDE DEF d
<1>2. /\ t \in Seq(Deliveries) /\ OneDelivery(t) /\ Ids(t) \subseteq merged[d.id]
      /\ \A e \in ToSet(t) : Priced(e, b.entry)
  BY <1>1, FannedToType
<1> HIDE DEF t
<1>3. Ids(b.fanned) \cap Ids(t) = {}
  BY <1>1, <1>2 DEF IInv, Members
<1>4. /\ ToSet(b'.fanned) = ToSet(b.fanned) \cup ToSet(t)
      /\ Ids(b'.fanned) = Ids(b.fanned) \cup Ids(t)
      /\ OneDelivery(b'.fanned)
  <2>1. b.fanned \in Seq(Deliveries)
    BY DEF IInv, TypeOK, Frames
  <2> QED
    BY <1>1, <1>2, <1>3, <2>1, JoinParts DEF IInv, Batch, Sound
<1>5. TypeOK'
  BY <1>1 DEF IInv, TypeOK
<1>6. Callers' /\ OverchargeNeedsModeChange'
  BY <1>1 DEF IInv, Callers, OverchargeNeedsModeChange
<1>7. Waiting'
  BY <1>1 DEF IInv, Waiting
<1>8. Members'
  BY <1>1, <1>2, <1>4 DEF IInv, Members
<1>9. Batch'
  <2>1. Sound(b') /\ Covered(b')
    BY <1>1, <1>4 DEF IInv, Batch, Sound, Covered, ToCall
  <2>2. InUse("deliver", b')
    BY <1>1 DEF IInv, Batch, InUse
  <2>3. \A r \in Ids(b'.fanned) : call[r].status = "merged"
    BY <1>1, <1>2, <1>4 DEF IInv, Batch, Members
  <2>4. \A e \in ToSet(b'.out) \cup ToSet(b'.fanned) : Priced(e, b.entry)
    BY <1>1, <1>2, <1>4 DEF IInv, Batch, Billed
  <2> QED
    BY <1>1, <2>1, <2>2, <2>3, <2>4 DEF IInv, Batch, Billed
<1> QED
  BY <1>5, <1>6, <1>7, <1>8, <1>9 DEF IInv

\* What the commit writes into the rows.
LEMMA CommitFacts ==
  ASSUME IInv, Commit
  PROVE  /\ pc = "deliver" /\ pc' = "idle" /\ b' = NoFrame
         /\ UNCHANGED <<mode, changes, queue, pending, merged, cache>>
         /\ call' \in [Requests -> Calls]
         /\ \A r \in Requests :
              /\ call'[r].query = call[r].query /\ call'[r].ceiling = call[r].ceiling
              /\ call'[r].gateMode = call[r].gateMode /\ call'[r].keyed = call[r].keyed
              /\ \/ call'[r] = call[r] /\ \A d \in Billed : d.id # r
                 \/ \E d \in Billed :
                      /\ d.id = r /\ call[r].status \in {"queued", "merged"}
                      /\ call'[r].status = "delivered" /\ call'[r].answer = d.answer
                      /\ call'[r].charged = d.charged /\ call'[r].paidMode = b.entry
<1>T. /\ call \in [Requests -> Calls] /\ b \in Frames /\ b.out \in Seq(Deliveries)
      /\ b.fanned \in Seq(Deliveries) /\ b.entry \in Modes
  BY DEF IInv, TypeOK, Frames
<1>1. Billed \subseteq Deliveries
  BY <1>T DEF Billed, ToSet
<1>2. \A d \in Billed : d.id \in Ids(b.out) \/ d.id \in Ids(b.fanned)
  BY DEF Billed, ToSet, Ids
<1>3. \A d \in Billed : call[d.id].status \in {"queued", "merged"}
  BY <1>2 DEF IInv, Batch, Sound
<1> DEFINE D(r) == CHOOSE d \in Billed : d.id = r
           row(r) == [call[r] EXCEPT !.status = "delivered", !.answer = D(r).answer,
                                     !.charged = D(r).charged, !.paidMode = b.entry]
<1>4. /\ pc = "deliver" /\ pc' = "idle" /\ b' = NoFrame
      /\ UNCHANGED <<mode, changes, queue, pending, merged, cache>>
      /\ call' = [r \in Requests |-> IF \E d \in Billed : d.id = r THEN row(r) ELSE call[r]]
  BY DEF Commit
<1>5. ASSUME NEW r \in Requests, \E d \in Billed : d.id = r
      PROVE /\ D(r) \in Billed /\ D(r).id = r /\ row(r) \in Calls
            /\ row(r).query = call[r].query /\ row(r).ceiling = call[r].ceiling
            /\ row(r).gateMode = call[r].gateMode /\ row(r).keyed = call[r].keyed
            /\ row(r).status = "delivered" /\ row(r).answer = D(r).answer
            /\ row(r).charged = D(r).charged /\ row(r).paidMode = b.entry
  <2> HIDE DEF D
  <2>1. D(r) \in Billed /\ D(r).id = r
    BY <1>5 DEF D
  <2>2. D(r).answer \in Answers /\ D(r).charged \in Nat
    BY <1>1, <2>1 DEF Deliveries
  <2> QED
    BY <1>T, <2>1, <2>2, ZenonT(40) DEF Calls, Status
<1> HIDE DEF D, row
<1>6. call' \in [Requests -> Calls]
  BY <1>4, <1>5, <1>T
<1>7. ASSUME NEW r \in Requests
      PROVE /\ call'[r].query = call[r].query /\ call'[r].ceiling = call[r].ceiling
            /\ call'[r].gateMode = call[r].gateMode /\ call'[r].keyed = call[r].keyed
            /\ \/ call'[r] = call[r] /\ \A d \in Billed : d.id # r
               \/ \E d \in Billed :
                    /\ d.id = r /\ call[r].status \in {"queued", "merged"}
                    /\ call'[r].status = "delivered" /\ call'[r].answer = d.answer
                    /\ call'[r].charged = d.charged /\ call'[r].paidMode = b.entry
  <2>1. CASE \E d \in Billed : d.id = r
    <3>1. call'[r] = row(r)
      BY <1>4, <2>1
    <3>2. call[r].status \in {"queued", "merged"}
      BY <1>3, <2>1
    <3> QED
      BY <1>5, <2>1, <3>1, <3>2
  <2>2. CASE ~ \E d \in Billed : d.id = r
    BY <1>4, <2>2
  <2> QED
    BY <2>1, <2>2
<1> QED
  BY <1>4, <1>6, <1>7

LEMMA InvCommit == IInv /\ Commit => IInv'
<1> SUFFICES ASSUME IInv, Commit PROVE IInv'
  OBVIOUS
<1>1. /\ pc = "deliver" /\ pc' = "idle" /\ b' = NoFrame
      /\ UNCHANGED <<mode, changes, queue, pending, merged, cache>>
      /\ call' \in [Requests -> Calls]
      /\ \A r \in Requests :
           /\ call'[r].query = call[r].query /\ call'[r].ceiling = call[r].ceiling
           /\ call'[r].gateMode = call[r].gateMode /\ call'[r].keyed = call[r].keyed
           /\ \/ call'[r] = call[r] /\ \A d \in Billed : d.id # r
              \/ \E d \in Billed :
                   /\ d.id = r /\ call[r].status \in {"queued", "merged"}
                   /\ call'[r].status = "delivered" /\ call'[r].answer = d.answer
                   /\ call'[r].charged = d.charged /\ call'[r].paidMode = b.entry
  BY CommitFacts
<1>T. TypeOK /\ b.entry \in Modes /\ call \in [Requests -> Calls] /\ merged \in [Requests -> SUBSET Requests]
  BY DEF IInv, TypeOK, Frames
<1>2. /\ b' \in Frames /\ Sound(b') /\ InUse("idle", b')
      /\ b'.requests = <<>> /\ b'.out = <<>> /\ b'.fanned = <<>>
  BY <1>1, <1>T, EmptyFrame
<1>3. TypeOK'
  BY <1>1, <1>2 DEF IInv, TypeOK
<1>4. Callers'
  BY <1>1 DEF IInv, Callers
<1>5. \A d \in Billed : d.id \in Ids(b.out) \/ d.id \in Ids(b.fanned)
  BY DEF Billed, ToSet, Ids
<1>6. Waiting'
  <2>1. ASSUME NEW r \in ToSet(queue) PROVE call'[r] = call[r]
    <3>1. /\ r \in Requests /\ call[r].status = "queued" /\ r \notin ToSet(b.requests)
      BY InHand DEF IInv, Waiting
    <3>2. r \notin Ids(b.out) /\ r \notin Ids(b.fanned)
      BY <3>1 DEF IInv, Batch, Sound
    <3> QED
      BY <1>1, <1>5, <3>1, <3>2
  <2> QED
    BY <1>1, <1>2, <2>1, EmptyParts DEF IInv, Waiting
<1>7. Members'
  <2>1. ASSUME NEW o \in Requests, NEW m \in merged[o] PROVE call'[m] = call[m]
    <3>1. m \in Requests /\ call[m].status = "merged" /\ m \notin Ids(b.fanned)
      BY <1>T DEF IInv, Members
    <3>2. m \notin Ids(b.out)
      BY <3>1 DEF IInv, Batch, Sound
    <3> QED
      BY <1>1, <1>5, <3>1, <3>2
  <2> QED
    BY <1>1, <1>2, <1>T, <2>1, EmptyParts DEF IInv, Members
<1>8. Batch'
  BY <1>1, <1>2, EmptyParts DEF Batch, Billed
<1>9. OverchargeNeedsModeChange'
  <2> SUFFICES ASSUME NEW r \in Requests, call'[r].charged > call'[r].ceiling
      PROVE call'[r].gateMode # call'[r].paidMode
    BY DEF OverchargeNeedsModeChange
  <2>1. CASE call'[r] = call[r]
    BY <2>1 DEF IInv, OverchargeNeedsModeChange
  <2>2. CASE call'[r] # call[r]
    <3>1. PICK d \in Billed :
            /\ d.id = r /\ call[r].status \in {"queued", "merged"}
            /\ call'[r].charged = d.charged /\ call'[r].paidMode = b.entry
      BY <1>1, <2>2
    <3>2. PICK size \in Nat : d.charged = SettledPrice(b.entry, size, r \in Priority)
      BY <3>1 DEF IInv, Batch, Priced
    <3>3. d.charged <= CeilingPrice(b.entry, r \in Priority)
      BY <1>T, <3>2, WithinCeiling
    <3>4. call[r].ceiling = CeilingPrice(call[r].gateMode, r \in Priority)
      BY <3>1 DEF IInv, Callers
    <3>5. d.charged \in Nat
      BY <1>T, <3>2, PricesAreNat
    <3>6. call[r].ceiling \in Nat
      BY <1>T DEF Calls
    <3> SUFFICES ASSUME call[r].gateMode = b.entry PROVE FALSE
      BY <1>1, <3>1
    <3>7. d.charged <= call[r].ceiling /\ d.charged > call[r].ceiling
      BY <1>1, <3>1, <3>3, <3>4
    <3> QED
      BY <3>5, <3>6, <3>7
  <2> QED
    BY <2>1, <2>2
<1> QED
  BY <1>3, <1>4, <1>6, <1>7, <1>8, <1>9 DEF IInv

LEMMA InvStep == IInv /\ [Next]_vars => IInv'
<1> SUFFICES ASSUME IInv, [Next]_vars PROVE IInv'
  OBVIOUS
<1>1. CASE \E r \in Requests : Accept(r)
  BY <1>1, InvAuthorize, InvAccept DEF Accept
<1>2. CASE Process
  BY <1>2, InvLookUpEntry, InvFire, InvRoute, InvDirectCall, InvDirectDone, InvCompoundCall,
     InvIsolate, InvCollect, InvFanOutCalls, InvFanOut, InvCommit DEF Process
<1>3. CASE Demote \/ Reclassify \/ UNCHANGED vars
  <2>1. /\ mode' \in Modes /\ changes' \in 0..MaxModeChanges
        /\ UNCHANGED <<call, queue, pending, merged, cache, pc, b>>
    BY <1>3, PipelineAssumption DEF Demote, Reclassify, vars, IInv, TypeOK, Modes, DedupSafeModes
  <2>2. TypeOK'
    BY <2>1 DEF IInv, TypeOK
  <2>3. Callers' /\ Waiting' /\ Members' /\ Batch' /\ OverchargeNeedsModeChange'
    BY <2>1 DEF IInv, Callers, Waiting, Members, Batch, Billed, OverchargeNeedsModeChange
  <2> QED
    BY <2>2, <2>3 DEF IInv
<1> QED
  BY <1>1, <1>2, <1>3 DEF Next

LEMMA InvAlways == Spec => []IInv
BY InvInit, InvStep, PTL DEF Spec

\* The state of the pipeline has its type.
THEOREM PipelineTypeCorrect == Spec => []TypeOK
<1>1. IInv => TypeOK
  BY DEF IInv
<1> QED
  BY <1>1, InvAlways, PTL

\* Nobody is charged more than it authorized unless the mode of the target changed between
\* the gate and the charge: every charge is a price of its batch's mode (Priced), which the
\* ceiling of that mode covers.
THEOREM OverchargeNeedsModeChangeCorrect == Spec => []OverchargeNeedsModeChange
<1>1. IInv => OverchargeNeedsModeChange
  BY DEF IInv
<1> QED
  BY <1>1, InvAlways, PTL

\* No route forgets a request of its batch, charges one for two deliveries, or charges again
\* who has been answered: at delivery nothing is left to call, so who has no delivery had a
\* call fail, and the fired requests and their merged members are apart.
THEOREM NobodyForgottenCorrect == Spec => []NobodyForgotten
<1>1. IInv => NobodyForgotten
  <2> SUFFICES ASSUME IInv PROVE NobodyForgotten
    OBVIOUS
  <2> DEFINE all == b.out \o b.fanned
  <2>T. b.out \in Seq(Deliveries) /\ b.fanned \in Seq(Deliveries)
    BY DEF IInv, TypeOK, Frames
  <2>1. \A r \in Ids(b.out) : call[r].status = "queued"
    BY DEF IInv, Batch, Sound
  <2>2. \A r \in Ids(b.fanned) : call[r].status = "merged"
    BY DEF IInv, Batch
  <2>3. Ids(b.out) \cap Ids(b.fanned) = {}
    <3> SUFFICES ASSUME NEW r, r \in Ids(b.out), r \in Ids(b.fanned) PROVE FALSE
      OBVIOUS
    <3>1. call[r].status = "queued" /\ call[r].status = "merged"
      BY <2>1, <2>2
    <3> QED
      BY <3>1
  <2>4. OneDelivery(all) /\ Ids(all) = Ids(b.out) \cup Ids(b.fanned)
    BY <2>T, <2>3, JoinParts DEF IInv, Batch, Sound
  <2> HIDE DEF all
  <2>5. \A i, j \in DOMAIN all : all[i].id = all[j].id => i = j
    BY <2>4 DEF OneDelivery
  <2>6. \A i \in DOMAIN all : call[all[i].id].status \in {"queued", "merged"}
    <3> SUFFICES ASSUME NEW i \in DOMAIN all PROVE call[all[i].id].status \in {"queued", "merged"}
      OBVIOUS
    <3>1. all[i].id \in Ids(all)
      BY DEF Ids
    <3> QED
      BY <2>1, <2>2, <2>4, <3>1
  <2>7. ASSUME pc = "deliver"
        PROVE ToSet(b.requests) \ b.failed \subseteq {b.out[i].id : i \in DOMAIN b.out}
    <3>1. b.direct = <<>> /\ b.sub = <<>> /\ b.todo = <<>>
      BY <2>7 DEF IInv, Batch, InUse
    <3>2. ToCall(b) = {}
      BY <3>1, EmptyParts DEF ToCall
    <3>3. ToSet(b.requests) \ b.failed \subseteq Ids(b.out)
      BY <2>7, <3>2 DEF IInv, Batch, Covered
    <3> QED
      BY <3>3 DEF Ids
  <2> QED
    BY <2>5, <2>6, <2>7 DEF NobodyForgotten, all
<1> QED
  BY <1>1, InvAlways, PTL

-----------------------------------------------------------------------------
(* Nobody gets another caller's answer.                                    *)

\* Nothing, the answer to the query, or a failure notice.
Right(a, q) == a \in {NoAnswer, AnswerTo(q)} \cup {NoticeFor(o) : o \in Requests}

\* The position of a compound call has a slot of its own: see SlotOwner.
HasSlot(sub, i) ==
  b.entry = "B_native" =>
    \A k \in 1..(i - 1) : Value[call[sub[k]].query] # Value[call[sub[i]].query]

\* What is about to be delivered, and what the slots of a compound call hold so far, once
\* the missing segments have been retried.
OwnAnswers ==
  /\ \A d \in Billed : Right(d.answer, call[d.id].query)
  /\ \A i \in DOMAIN b.sub : HasSlot(b.sub, i) =>
       b.sub[i] \in b.retry \/ Right(b.answers[b.sub[i]], call[b.sub[i]].query)

AnswerInv == IInv /\ NoForeignAnswer /\ OwnAnswers

LEMMA RightAnswers == /\ \A q : Right(NoAnswer, q) /\ Right(AnswerTo(q), q)
                      /\ \A r \in Requests : \A q : Right(NoticeFor(r), q)
BY DEF Right

\* A position without a namesake before it owns its slot.
LEMMA SlotOwner ==
  ASSUME NEW sub \in Seq(Requests), NEW i \in DOMAIN sub
  PROVE  /\ HasSlot(sub, i) => Owner(sub, i) = i
         /\ HasSlot(sub, Owner(sub, i))
<1>1. DOMAIN sub = 1..Len(sub) /\ Len(sub) \in Nat /\ i \in Nat
  OBVIOUS
<1>2. CASE b.entry # "B_native"
  BY <1>2, OwnerType DEF HasSlot
<1>3. CASE b.entry = "B_native"
  <2> DEFINE V(k) == Value[call[sub[k]].query]
             O == Owner(sub, i)
  <2>1. O \in DOMAIN sub /\ V(O) = V(i) /\ \A k \in 1..(O - 1) : V(k) # V(i)
    BY <1>3, OwnerType
  <2> HIDE DEF O
  <2>2. HasSlot(sub, O)
    BY <2>1 DEF HasSlot
  <2>3. ASSUME HasSlot(sub, i) PROVE O = i
    <3>1. \A k \in 1..(i - 1) : V(k) # V(i)
      BY <1>3, <2>3 DEF HasSlot
    <3> HIDE DEF V
    <3>2. ~(O \in 1..(i - 1)) /\ ~(i \in 1..(O - 1))
      BY <2>1, <3>1
    <3> QED
      BY <1>1, <2>1, <3>2
  <2> QED
    BY <2>2, <2>3 DEF O
<1> QED
  BY <1>2, <1>3

\* Who is in hand has asked a query.
LEMMA AskedInHand ==
  IInv => /\ \A r \in ToSet(b.requests) : r \in Requests /\ call[r].status = "queued"
                                          /\ call[r].query \in Queries
          /\ \A i \in DOMAIN b.sub : b.sub[i] \in ToSet(b.requests)
          /\ \A d \in Billed : d.id \in Requests /\ call[d.id].status \in {"queued", "merged"}
<1> SUFFICES ASSUME IInv
    PROVE /\ \A r \in ToSet(b.requests) : r \in Requests /\ call[r].status = "queued"
                                          /\ call[r].query \in Queries
          /\ \A i \in DOMAIN b.sub : b.sub[i] \in ToSet(b.requests)
          /\ \A d \in Billed : d.id \in Requests /\ call[d.id].status \in {"queued", "merged"}
  OBVIOUS
<1>1. \A r \in ToSet(b.requests) : r \in Requests /\ call[r].status = "queued"
  BY InHand DEF IInv, Batch
<1>2. \A r \in ToSet(b.requests) : call[r].query \in Queries
  BY <1>1, Asking DEF IInv
<1>3. ToSet(b.sub) \subseteq ToSet(b.requests) /\ Ids(b.out) \subseteq ToSet(b.requests)
  BY DEF IInv, Batch, Sound, ToCall
<1>4. \A i \in DOMAIN b.sub : b.sub[i] \in ToSet(b.requests)
  BY <1>3 DEF ToSet
<1>5. \A d \in Billed : d.id \in Ids(b.out) \/ d.id \in Ids(b.fanned)
  BY DEF Billed, ToSet, Ids
<1>6. \A s \in Ids(b.fanned) : s \in Requests /\ call[s].status = "merged"
  BY InHand DEF IInv, Batch
<1> QED
  BY <1>1, <1>2, <1>3, <1>4, <1>5, <1>6

LEMMA AnswerInit == Init => AnswerInv
<1> SUFFICES ASSUME Init PROVE AnswerInv
  OBVIOUS
<1>1. /\ \A r \in Requests : call[r].answer = NoAnswer
      /\ \A q \in Queries : cache[q] = NoAnswer
      /\ b.out = <<>> /\ b.fanned = <<>> /\ b.sub = <<>>
  BY DEF Init, NoFrame
<1>2. NoForeignAnswer
  BY <1>1 DEF NoForeignAnswer
<1>3. OwnAnswers
  BY <1>1, EmptyParts DEF OwnAnswers, Billed
<1> QED
  BY <1>2, <1>3, InvInit DEF AnswerInv

\* A caller's step: it asks, or is answered from the cache; nobody else's row changes.
LEMMA AnswerAccept ==
  ASSUME NEW r \in Requests
  PROVE  AnswerInv /\ Accept(r) => NoForeignAnswer' /\ OwnAnswers'
<1> SUFFICES ASSUME AnswerInv, Accept(r) PROVE NoForeignAnswer' /\ OwnAnswers'
  OBVIOUS
<1>T. call \in [Requests -> Calls] /\ cache \in [Queries -> Answers]
  BY DEF AnswerInv, IInv, TypeOK
<1>1. UNCHANGED <<cache, b>> /\ \A s \in Requests \ {r} : call'[s] = call[s]
  BY <1>T DEF Accept, Authorize, AcceptUnkeyed, ServeCached, AcceptKeyed
<1>2. call[r].status \in {"new", "authorized"}
  BY DEF Accept, Authorize, AcceptUnkeyed, ServeCached, AcceptKeyed
<1>3. Right(call'[r].answer, call'[r].query)
  <2>1. CASE Authorize(r)
    <3>1. call[r].answer = NoAnswer
      BY <2>1 DEF Authorize, AnswerInv, IInv, Callers
    <3>2. call'[r].answer = call[r].answer
      BY <2>1, <1>T DEF Authorize, Calls
    <3> QED
      BY <3>1, <3>2, RightAnswers
  <2>2. CASE AcceptUnkeyed(r) \/ AcceptKeyed(r)
    <3>1. call'[r].answer = call[r].answer /\ call'[r].query = call[r].query
      BY <2>2, <1>T DEF AcceptUnkeyed, AcceptKeyed, Calls
    <3> QED
      BY <3>1 DEF AnswerInv, NoForeignAnswer, Right
  <2>3. CASE ServeCached(r)
    <3>1. call[r].status = "authorized"
      BY <2>3 DEF ServeCached
    <3>2. call[r].query \in Queries
      BY <3>1, Asking DEF AnswerInv, IInv
    <3>3. call'[r].answer = cache[call[r].query] /\ call'[r].query = call[r].query
      BY <2>3, <1>T DEF ServeCached, Calls
    <3> QED
      BY <3>2, <3>3 DEF AnswerInv, NoForeignAnswer, Right
  <2> QED
    BY <2>1, <2>2, <2>3 DEF Accept
<1>4. NoForeignAnswer'
  BY <1>1, <1>3 DEF AnswerInv, NoForeignAnswer, Right
<1>5. OwnAnswers'
  <2>1. \A d \in Billed : call'[d.id] = call[d.id]
    BY <1>1, <1>2, AskedInHand DEF AnswerInv
  <2>2. \A i \in DOMAIN b.sub : call'[b.sub[i]] = call[b.sub[i]]
    BY <1>1, <1>2, AskedInHand DEF AnswerInv
  <2>3. \A d \in Billed' : Right(d.answer, call'[d.id].query)
    BY <1>1, <2>1 DEF AnswerInv, OwnAnswers, Billed
  <2>4. ASSUME NEW i \in DOMAIN b.sub, HasSlot(b.sub, i)'
        PROVE b.sub[i] \in b.retry \/ Right(b.answers[b.sub[i]], call'[b.sub[i]].query)
    <3>1. \A k \in 1..(i - 1) : k \in DOMAIN b.sub
      BY DEF AnswerInv, IInv, TypeOK, Frames
    <3>2. HasSlot(b.sub, i)
      BY <1>1, <2>2, <2>4, <3>1 DEF HasSlot
    <3> QED
      BY <2>2, <3>2 DEF AnswerInv, OwnAnswers
  <2> QED
    BY <1>1, <2>3, <2>4 DEF OwnAnswers
<1> QED
  BY <1>4, <1>5

\* A step of process that leaves no compound reply in hand, and delivers the answer to
\* somebody's own query, if anything.
LEMMA AnswersCalled ==
  ASSUME AnswerInv, IInv', UNCHANGED <<call, cache>>, pc' # "isolate",
         b'.fanned = b.fanned \/ b'.fanned = <<>>,
         \A d \in ToSet(b'.out) : d \in ToSet(b.out) \/ Right(d.answer, call[d.id].query)
  PROVE  NoForeignAnswer' /\ OwnAnswers'
<1>1. NoForeignAnswer'
  BY DEF AnswerInv, NoForeignAnswer
<1>2. b'.sub = <<>>
  BY DEF IInv, Batch, InUse
<1>3. \A d \in Billed' : d \in Billed \/ Right(d.answer, call[d.id].query)
  BY EmptyParts DEF Billed
<1>4. \A d \in Billed' : Right(d.answer, call[d.id].query)
  BY <1>3 DEF AnswerInv, OwnAnswers
<1>5. OwnAnswers'
  BY <1>2, <1>4 DEF OwnAnswers, Right
<1> QED
  BY <1>1, <1>5

LEMMA AfterCallsOut ==
  ASSUME NEW f \in Frames, AfterCalls(f)
  PROVE  pc' # "isolate" /\ b'.out = f.out /\ b'.fanned = f.fanned
BY DEF AfterCalls, Frames

\* The steps before a target call, and the calls of requests on their own.
LEMMA AnswerDirect ==
  AnswerInv /\ IInv' /\ (LookUpEntry \/ Fire \/ Route \/ DirectCall \/ DirectDone)
    => NoForeignAnswer' /\ OwnAnswers'
<1> SUFFICES ASSUME AnswerInv, IInv', LookUpEntry \/ Fire \/ Route \/ DirectCall \/ DirectDone
    PROVE NoForeignAnswer' /\ OwnAnswers'
  OBVIOUS
<1>T. b \in Frames
  BY DEF AnswerInv, IInv, TypeOK
<1>U. UNCHANGED <<call, cache>>
  BY DEF LookUpEntry, Fire, Route, DirectCall, DirectDone
<1>1. CASE LookUpEntry
  <2>1. pc' = "fire" /\ b'.out = <<>> /\ b'.fanned = <<>>
    BY <1>1 DEF LookUpEntry, NoFrame
  <2> QED
    BY <1>U, <2>1, EmptyParts, AnswersCalled
<1>2. CASE Fire \/ Route
  <2>1. pc' # "isolate" /\ b'.out = b.out /\ b'.fanned = b.fanned
    BY <1>2, <1>T DEF Fire, Route, Frames
  <2> QED
    BY <1>U, <2>1, AnswersCalled
<1>3. CASE DirectCall
  <2> DEFINE r == Head(b.direct)
             d == Delivery(r, b.directTier)
  <2>1. b.direct \in Seq(Requests) /\ b.direct # <<>> /\ b.out \in Seq(Deliveries) /\ b.directTier \in Nat
    BY <1>3, <1>T DEF DirectCall, Frames
  <2>2. r \in ToSet(b.requests)
    <3>1. r \in ToSet(b.direct)
      BY <2>1, TailParts
    <3> QED
      BY <3>1 DEF AnswerInv, IInv, Batch, Sound, ToCall
  <2>3. d \in Deliveries /\ d.answer = AnswerTo(call[r].query) /\ d.id = r
    <3>1. r \in Requests /\ call[r].status # "new"
      BY <2>2, AskedInHand DEF AnswerInv
    <3> QED
      BY <2>1, <3>1, DeliveryType DEF AnswerInv
  <2>4. Right(d.answer, call[d.id].query)
    BY <2>3, RightAnswers
  <2>5. \/ b' = [b EXCEPT !.direct = Tail(@), !.out = Append(@, d)]
        \/ b' = [b EXCEPT !.direct = Tail(@), !.failed = @ \cup {r}]
    BY <1>3 DEF DirectCall
  <2>6. pc' # "isolate"
    BY <1>3 DEF DirectCall
  <2> HIDE DEF d, r
  <2>7. b'.fanned = b.fanned /\ (b'.out = b.out \/ b'.out = Append(b.out, d))
    BY <2>5, <1>T DEF Frames
  <2>8. \A e \in ToSet(b'.out) : e \in ToSet(b.out) \/ e = d
    <3>1. ToSet(Append(b.out, d)) = ToSet(b.out) \cup {d}
      BY <2>1, <2>3, AppendDelivery
    <3> QED
      BY <2>7, <3>1
  <2> QED
    BY <1>U, <2>4, <2>6, <2>7, <2>8, AnswersCalled
<1>4. CASE DirectDone
  <2> DEFINE f == [b EXCEPT !.directTier = b.tier]
  <2>1. f \in Frames /\ f.out = b.out /\ f.fanned = b.fanned
    BY <1>T DEF Frames
  <2>2. AfterCalls(f)
    BY <1>4 DEF DirectDone
  <2> HIDE DEF f
  <2>3. pc' # "isolate" /\ b'.out = b.out /\ b'.fanned = b.fanned
    BY <2>1, <2>2, AfterCallsOut
  <2> QED
    BY <1>U, <2>3, AnswersCalled
<1> QED
  BY <1>1, <1>2, <1>3, <1>4

\* Every call of a fan-out is somebody's own.
LEMMA AnswerFanOutCalls ==
  AnswerInv /\ IInv' /\ FanOutCalls => NoForeignAnswer' /\ OwnAnswers'
<1> SUFFICES ASSUME AnswerInv, IInv', FanOutCalls PROVE NoForeignAnswer' /\ OwnAnswers'
  OBVIOUS
<1>T. b \in Frames /\ b.tier \in Nat /\ ToSet(b.requests) \subseteq Requests
  BY AskedInHand DEF AnswerInv, IInv, TypeOK, Frames
<1>U. UNCHANGED <<call, cache>>
  BY DEF FanOutCalls
<1>1. PICK S \in SUBSET ToSet(b.requests) :
        AfterCalls([b EXCEPT !.out = [i \in DOMAIN InOrder(S) |-> Delivery(InOrder(S)[i], b.tier)],
                             !.failed = ToSet(b.requests) \ S])
  BY DEF FanOutCalls
<1> DEFINE ok == InOrder(S)
           out == [i \in DOMAIN ok |-> Delivery(ok[i], b.tier)]
           failed == ToSet(b.requests) \ S
           f == [b EXCEPT !.out = out, !.failed = failed]
<1>2. ok \in Seq(Requests) /\ ToSet(ok) = S
  BY <1>T, InOrderType
<1>3. AfterCalls(f)
  BY <1>1
<1> HIDE DEF ok
<1>4. ASSUME NEW i \in DOMAIN ok
      PROVE /\ Delivery(ok[i], b.tier) \in Deliveries
            /\ Right(Delivery(ok[i], b.tier).answer, call[Delivery(ok[i], b.tier).id].query)
  <2>1. ok[i] \in ToSet(b.requests)
    BY <1>2 DEF ToSet
  <2>2. ok[i] \in Requests /\ call[ok[i]].status # "new"
    BY <2>1, AskedInHand DEF AnswerInv
  <2>3. /\ Delivery(ok[i], b.tier) \in Deliveries /\ Delivery(ok[i], b.tier).id = ok[i]
        /\ Delivery(ok[i], b.tier).answer = AnswerTo(call[ok[i]].query)
    BY <1>T, <2>2, DeliveryType DEF AnswerInv
  <2> QED
    BY <2>3, RightAnswers
<1>5. out \in Seq(Deliveries) /\ \A e \in ToSet(out) : Right(e.answer, call[e.id].query)
  <2>1. DOMAIN ok = 1..Len(ok) /\ Len(ok) \in Nat
    BY <1>2
  <2> QED
    BY <1>4, <2>1 DEF ToSet
<1> HIDE DEF out
<1>6. f \in Frames /\ f.out = out /\ f.fanned = b.fanned
  <2>1. failed \subseteq Requests
    BY <1>T
  <2> HIDE DEF failed
  <2> QED
    BY <1>T, <1>5, <2>1 DEF Frames
<1> HIDE DEF f
<1>7. pc' # "isolate" /\ b'.out = out /\ b'.fanned = b.fanned
  BY <1>3, <1>6, AfterCallsOut
<1> QED
  BY <1>U, <1>5, <1>7, AnswersCalled

\* What the split relies on: no answer holds a numbered list of its own, which the splitter
\* would take for other callers' segments (see ForeignSegment), and the value the packer
\* takes from a call tells it from every other call.
ToldApart == ListAnswers = {} /\ \A p, q \in Queries : Value[p] = Value[q] => p = q

\* A compound reply gives a slot its own segment, or the slot is to be retried.
LEMMA AnswerCompoundCall ==
  ASSUME ListAnswers = {}
  PROVE  AnswerInv /\ IInv' /\ CompoundCall => NoForeignAnswer' /\ OwnAnswers'
<1> SUFFICES ASSUME AnswerInv, IInv', CompoundCall PROVE NoForeignAnswer' /\ OwnAnswers'
  OBVIOUS
<1> DEFINE sub == SubSeq(b.todo, 1, ChunkLen)
           rest == SubSeq(b.todo, ChunkLen + 1, Len(b.todo))
           left == [b EXCEPT !.todo = rest]
<1>T. b \in Frames /\ b.todo \in Seq(Requests) /\ Len(b.todo) \in Nat
  <2>1. b \in Frames
    BY DEF AnswerInv, IInv, TypeOK
  <2> QED
    BY <2>1 DEF Frames
<1>U. UNCHANGED <<call, cache>> /\ pc = "compound"
  BY DEF CompoundCall
<1>1. ChunkLen \in 0..Len(b.todo)
  BY <1>T, PipelineAssumption DEF ChunkLen
<1>2. sub \in Seq(Requests) /\ OneEach(sub)
  BY <1>1, <1>T, CutParts DEF AnswerInv, IInv, Batch, Sound
<1>3. left.out = b.out /\ left.fanned = b.fanned /\ left.entry = b.entry
  BY <1>T DEF Frames
<1> HIDE DEF sub
<1>4. CASE /\ \E kept \in SUBSET Slots(sub) : b' = Split(left, sub, kept)
           /\ pc' = "isolate"
  <2>1. PICK kept \in SUBSET Slots(sub) : b' = Split(left, sub, kept)
    BY <1>4
  <2> DEFINE A(i) == Anchored(sub, kept, i)
             answers == [r \in Requests |->
                 IF \E i \in Slots(sub) : sub[i] = r
                 THEN Segment(sub, kept, CHOOSE i \in Slots(sub) : sub[i] = r) ELSE NoAnswer]
             silent == {sub[i] : i \in {j \in Slots(sub) : A(j) = {}}}
             f == [left EXCEPT !.sub = sub, !.answers = answers, !.full = silent,
                               !.retry = silent]
  <2> HIDE DEF left
  <2>2. b' = f
    BY <2>1 DEF Split
  <2>3. ASSUME NEW i \in DOMAIN sub, HasSlot(sub, i)
        PROVE sub[i] \in silent \/ Right(answers[sub[i]], call[sub[i]].query)
    <3>1. i \in Slots(sub) /\ sub[i] \in Requests
      BY <1>2, <2>3, SlotOwner DEF Slots
    <3>2. A(i) = kept \cap {i}
      BY DEF Anchored
    <3>3. CASE A(i) = {}
      BY <3>1, <3>3
    <3>4. CASE A(i) # {}
      <4>1. A(i) = {i}
        BY <3>2, <3>4
      <4> DEFINE J == CHOOSE j \in A(i) : \A k \in A(i) : j <= k
                 I == CHOOSE j \in Slots(sub) : sub[j] = sub[i]
      <4>2. Segment(sub, kept, i) = AnswerTo(call[sub[J]].query)
        BY <3>4 DEF Segment
      <4>3. i <= i
        BY <1>2
      <4>4. J = i
        <5> HIDE DEF A
        <5> QED
          BY <4>1, <4>3
      <4>5. I = i
        <5>1. \A j \in Slots(sub) : sub[j] = sub[i] => j = i
          BY <1>2 DEF OneEach, Slots
        <5> HIDE DEF Slots
        <5> QED
          BY <3>1, <5>1
      <4>6. answers[sub[i]] = Segment(sub, kept, I)
        BY <3>1
      <4> HIDE DEF I, J, answers
      <4>7. answers[sub[i]] = AnswerTo(call[sub[i]].query)
        BY <4>2, <4>4, <4>5, <4>6
      <4> QED
        BY <4>7, RightAnswers
    <3> QED
      BY <3>3, <3>4
  <2> HIDE DEF answers, silent
  <2>4. /\ b'.out = b.out /\ b'.fanned = b.fanned /\ b'.entry = b.entry /\ b'.sub = sub
        /\ b'.answers = answers /\ b'.retry = silent
    <3>1. left \in [entry : Modes, requests : Seq(Requests), tier : Nat, todo : {rest},
             sub : Seq(Requests), answers : [Requests -> Answers], full : SUBSET Requests,
             retry : SUBSET Requests, direct : Seq(Requests), directTier : Nat,
             out : Seq(Deliveries), fan : Seq(Deliveries), fanned : Seq(Deliveries),
             failed : SUBSET Requests]
      <4> HIDE DEF rest
      <4> QED
        BY <1>T DEF Frames, left
    <3> QED
      BY <1>3, <2>2, <3>1
  <2> HIDE DEF f
  <2>5. NoForeignAnswer'
    BY <1>U DEF AnswerInv, NoForeignAnswer
  <2>6. \A d \in Billed' : Right(d.answer, call'[d.id].query)
    BY <1>U, <2>4 DEF AnswerInv, OwnAnswers, Billed
  <2>7. ASSUME NEW i \in DOMAIN b'.sub, HasSlot(b.sub, i)'
        PROVE b'.sub[i] \in b'.retry \/ Right(b'.answers[b'.sub[i]], call'[b'.sub[i]].query)
    <3>1. HasSlot(sub, i)
      BY <1>U, <2>4, <2>7 DEF HasSlot
    <3> QED
      BY <1>U, <2>3, <2>4, <3>1
  <2>8. OwnAnswers'
    BY <2>6, <2>7 DEF OwnAnswers, Right
  <2> QED
    BY <2>5, <2>8
<1>5. CASE b' = [left EXCEPT !.direct = sub] /\ pc' = "direct"
  <2>1. b'.out = b.out /\ b'.fanned = b.fanned
    BY <1>5, <1>T DEF Frames
  <2> QED
    BY <1>5, <1>U, <2>1, AnswersCalled
<1> QED
  BY <1>4, <1>5 DEF CompoundCall, sub

\* The own call of a missing segment answers it, or a notice does.
LEMMA AnswerIsolate == AnswerInv /\ Isolate => NoForeignAnswer' /\ OwnAnswers'
<1> SUFFICES ASSUME AnswerInv, Isolate PROVE NoForeignAnswer' /\ OwnAnswers'
  OBVIOUS
<1>T. /\ b \in Frames /\ b.answers \in [Requests -> Answers] /\ b.retry \subseteq Requests
      /\ \A i \in DOMAIN b.sub : b.sub[i] \in Requests
  BY DEF AnswerInv, IInv, TypeOK, Frames
<1>U. UNCHANGED <<call, cache>>
  BY DEF Isolate
<1>1. PICK r, a :
        /\ r \in b.retry /\ Right(a, call[r].query)
        /\ b'.retry = b.retry \ {r} /\ b'.answers = [b.answers EXCEPT ![r] = a]
        /\ b'.out = b.out /\ b'.fanned = b.fanned /\ b'.entry = b.entry /\ b'.sub = b.sub
  <2>1. PICK r \in b.retry :
          \/ b' = [b EXCEPT !.retry = @ \ {r}, !.full = @ \ {r},
                            !.answers[r] = AnswerTo(call[r].query)]
          \/ b' = [b EXCEPT !.retry = @ \ {r}, !.answers[r] = NoticeFor(r)]
    BY DEF Isolate
  <2> DEFINE a1 == AnswerTo(call[r].query)
             a2 == NoticeFor(r)
  <2>2. Right(a1, call[r].query) /\ Right(a2, call[r].query)
    BY <1>T, <2>1, RightAnswers
  <2> HIDE DEF a1, a2
  <2>3. CASE b' = [b EXCEPT !.retry = @ \ {r}, !.full = @ \ {r}, !.answers[r] = a1]
    <3>1. /\ b'.retry = b.retry \ {r} /\ b'.answers = [b.answers EXCEPT ![r] = a1]
          /\ b'.out = b.out /\ b'.fanned = b.fanned /\ b'.entry = b.entry /\ b'.sub = b.sub
      BY <1>T, <2>3 DEF Frames
    <3> QED
      BY <2>2, <3>1
  <2>4. CASE b' = [b EXCEPT !.retry = @ \ {r}, !.answers[r] = a2]
    <3>1. /\ b'.retry = b.retry \ {r} /\ b'.answers = [b.answers EXCEPT ![r] = a2]
          /\ b'.out = b.out /\ b'.fanned = b.fanned /\ b'.entry = b.entry /\ b'.sub = b.sub
      BY <1>T, <2>4 DEF Frames
    <3> QED
      BY <2>2, <3>1
  <2> QED
    BY <2>1, <2>3, <2>4 DEF a1, a2
<1>2. NoForeignAnswer'
  BY <1>U DEF AnswerInv, NoForeignAnswer
<1>3. \A d \in Billed' : Right(d.answer, call'[d.id].query)
  BY <1>U, <1>1 DEF AnswerInv, OwnAnswers, Billed
<1>4. ASSUME NEW i \in DOMAIN b.sub, HasSlot(b.sub, i)'
      PROVE b.sub[i] \in b'.retry \/ Right(b'.answers[b.sub[i]], call[b.sub[i]].query)
  <2>1. HasSlot(b.sub, i)
    BY <1>U, <1>1, <1>4 DEF HasSlot
  <2>2. b.sub[i] \in b.retry \/ Right(b.answers[b.sub[i]], call[b.sub[i]].query)
    BY <2>1 DEF AnswerInv, OwnAnswers
  <2>3. b.sub[i] \in Requests
    BY <1>T
  <2>4. CASE b.sub[i] = r
    BY <1>1, <1>T, <2>3, <2>4
  <2>5. CASE b.sub[i] # r
    BY <1>1, <1>T, <2>2, <2>3, <2>5
  <2> QED
    BY <2>4, <2>5
<1>5. OwnAnswers'
  BY <1>U, <1>1, <1>3, <1>4 DEF OwnAnswers, Right
<1> QED
  BY <1>2, <1>5

\* A member gets the answer of the slot it shares, which is the answer to its own query.
LEMMA AnswerCollect ==
  ASSUME \A p, q \in Queries : Value[p] = Value[q] => p = q
  PROVE  AnswerInv /\ IInv' /\ Collect => NoForeignAnswer' /\ OwnAnswers'
<1> SUFFICES ASSUME AnswerInv, IInv', Collect PROVE NoForeignAnswer' /\ OwnAnswers'
  OBVIOUS
<1> DEFINE coll == [i \in DOMAIN b.sub |-> Collected(i)]
           out == b.out \o coll
           answers == NoFrame.answers
           f == [b EXCEPT !.out = out, !.sub = <<>>, !.answers = answers, !.full = {}]
<1>T. /\ b \in Frames /\ b.sub \in Seq(Requests) /\ b.out \in Seq(Deliveries)
      /\ b.answers \in [Requests -> Answers] /\ b.entry \in Modes /\ b.tier \in Nat
  BY DEF AnswerInv, IInv, TypeOK, Frames
<1>U. UNCHANGED <<call, cache>> /\ b.retry = {} /\ AfterCalls(f)
  BY DEF Collect
<1>1. ASSUME NEW i \in DOMAIN b.sub
      PROVE /\ Collected(i) \in Deliveries
            /\ Right(Collected(i).answer, call[Collected(i).id].query)
  <2> DEFINE o == Owner(b.sub, i)
  <2>1. o \in DOMAIN b.sub /\ HasSlot(b.sub, o)
    BY <1>T, OwnerType, SlotOwner
  <2>2. b.sub[i] \in Requests /\ b.sub[o] \in Requests
    BY <1>T, <2>1
  <2>3. call[b.sub[i]].query \in Queries /\ call[b.sub[o]].query \in Queries
    BY <2>1, AskedInHand DEF AnswerInv
  <2>4. call[b.sub[o]].query = call[b.sub[i]].query
    <3>1. CASE b.entry = "B_native"
      <4>1. Value[call[b.sub[o]].query] = Value[call[b.sub[i]].query]
        BY <1>T, <3>1, OwnerType
      <4> QED
        BY <2>3, <4>1
    <3>2. CASE b.entry # "B_native"
      <4>1. o = i
        BY <1>T, <3>2, OwnerType
      <4> QED
        BY <4>1
    <3> QED
      BY <3>1, <3>2
  <2>5. Right(b.answers[b.sub[o]], call[b.sub[o]].query)
    BY <1>U, <2>1 DEF AnswerInv, OwnAnswers
  <2>6. SettledPrice(b.entry, b.tier, b.sub[i] \in Priority) \in Nat
    BY <1>T, PricesAreNat
  <2>7. Collected(i).id = b.sub[i] /\ Collected(i).answer = b.answers[b.sub[o]]
    BY DEF Collected
  <2>8. Collected(i) \in Deliveries
    BY <1>T, <2>2, <2>6 DEF Collected, Deliveries
  <2> QED
    BY <2>4, <2>5, <2>7, <2>8
<1>2. coll \in Seq(Deliveries) /\ \A e \in ToSet(coll) : Right(e.answer, call[e.id].query)
  <2>1. DOMAIN b.sub = 1..Len(b.sub) /\ Len(b.sub) \in Nat
    BY <1>T
  <2>2. coll \in Seq(Deliveries) /\ DOMAIN coll = DOMAIN b.sub
        /\ \A i \in DOMAIN b.sub : Right(coll[i].answer, call[coll[i].id].query)
    BY <1>1, <2>1
  <2> HIDE DEF coll
  <2> QED
    BY <2>2 DEF ToSet
<1> HIDE DEF coll
<1>3. out \in Seq(Deliveries) /\ ToSet(out) = ToSet(b.out) \cup ToSet(coll)
  BY <1>T, <1>2, JoinParts
<1>4. answers \in [Requests -> Answers]
  BY AnswersType DEF NoFrame
<1> HIDE DEF out, answers
<1>5. f \in Frames /\ f.out = out /\ f.fanned = b.fanned
  <2>1. <<>> \in Seq(Requests) /\ {} \in SUBSET Requests
    OBVIOUS
  <2>2. f \in Frames
    BY <1>T, <1>3, <1>4, <2>1 DEF Frames
  <2> QED
    BY <1>T, <2>2 DEF Frames
<1> HIDE DEF f
<1>6. pc' # "isolate" /\ b'.out = out /\ b'.fanned = b.fanned
  BY <1>U, <1>5, AfterCallsOut
<1>7. \A e \in ToSet(b'.out) : e \in ToSet(b.out) \/ Right(e.answer, call[e.id].query)
  BY <1>2, <1>3, <1>6
<1> QED
  BY <1>U, <1>6, <1>7, AnswersCalled

\* The answer of a slot's owner is cached for its query, and goes to the members of the
\* slot, who asked the same.
LEMMA AnswerFanOut == AnswerInv /\ FanOut => NoForeignAnswer' /\ OwnAnswers'
<1> SUFFICES ASSUME AnswerInv, FanOut PROVE NoForeignAnswer' /\ OwnAnswers'
  OBVIOUS
<1> DEFINE d == Head(b.fan)
<1>1. /\ d \in Deliveries /\ d \in ToSet(b.out) /\ d.id \in Requests
      /\ call[d.id].query \in Queries /\ pc = "deliver" /\ call' = call
      /\ b'.out = b.out /\ b'.sub = b.sub /\ b'.fanned = b.fanned \o FannedTo(d)
  BY FanOutFacts DEF AnswerInv
<1>2. Right(d.answer, call[d.id].query)
  BY <1>1 DEF AnswerInv, OwnAnswers, Billed
<1>3. \/ cache' = cache
      \/ cache' = [cache EXCEPT ![call[d.id].query] = d.answer]
  BY DEF FanOut
<1> HIDE DEF d
<1>4. FannedTo(d) \in Seq(Deliveries)
  BY <1>1, FannedToType DEF AnswerInv
<1>5. \A e \in ToSet(FannedTo(d)) : e.answer = d.answer /\ e.id \in merged[d.id]
  BY <1>1, FannedToType DEF AnswerInv
<1>6. \A e \in ToSet(FannedTo(d)) : Right(e.answer, call[e.id].query)
  <2>1. \A e \in ToSet(FannedTo(d)) : call[e.id].query = call[d.id].query
    BY <1>1, <1>5 DEF AnswerInv, IInv, Members
  <2> QED
    BY <1>2, <1>5, <2>1
<1>7. ToSet(b'.fanned) = ToSet(b.fanned) \cup ToSet(FannedTo(d))
  <2>1. b.fanned \in Seq(Deliveries)
    BY DEF AnswerInv, IInv, TypeOK, Frames
  <2> QED
    BY <1>1, <1>4, <2>1, JoinParts
<1>8. \A e \in Billed' : Right(e.answer, call'[e.id].query)
  BY <1>1, <1>6, <1>7 DEF AnswerInv, OwnAnswers, Billed
<1>9. NoForeignAnswer'
  <2>1. cache \in [Queries -> Answers]
    BY DEF AnswerInv, IInv, TypeOK
  <2>2. \A q \in Queries : Right(cache'[q], q)
    <3>1. \A q \in Queries : Right(cache[q], q)
      BY DEF AnswerInv, NoForeignAnswer, Right
    <3> QED
      BY <1>1, <1>2, <1>3, <2>1, <3>1
  <2> QED
    BY <1>1, <2>2 DEF AnswerInv, NoForeignAnswer, Right
<1>10. b'.sub = <<>>
  BY <1>1 DEF AnswerInv, IInv, Batch, InUse
<1>11. OwnAnswers'
  BY <1>8, <1>10 DEF OwnAnswers, Right
<1> QED
  BY <1>9, <1>11

\* The rows take over what is delivered.
LEMMA AnswerCommit == AnswerInv /\ Commit => NoForeignAnswer' /\ OwnAnswers'
<1> SUFFICES ASSUME AnswerInv, Commit PROVE NoForeignAnswer' /\ OwnAnswers'
  OBVIOUS
<1>1. /\ b' = NoFrame /\ cache' = cache
      /\ \A r \in Requests :
           /\ call'[r].query = call[r].query
           /\ \/ call'[r] = call[r]
              \/ \E d \in Billed : d.id = r /\ call'[r].answer = d.answer
  BY CommitFacts DEF AnswerInv
<1>2. \A r \in Requests : Right(call'[r].answer, call'[r].query)
  <2> SUFFICES ASSUME NEW r \in Requests PROVE Right(call'[r].answer, call'[r].query)
    OBVIOUS
  <2>1. CASE call'[r] = call[r]
    BY <2>1 DEF AnswerInv, NoForeignAnswer, Right
  <2>2. CASE \E d \in Billed : d.id = r /\ call'[r].answer = d.answer
    BY <1>1, <2>2 DEF AnswerInv, OwnAnswers
  <2> QED
    BY <1>1, <2>1, <2>2
<1>3. NoForeignAnswer'
  BY <1>1, <1>2 DEF AnswerInv, NoForeignAnswer, Right
<1>4. b'.out = <<>> /\ b'.fanned = <<>> /\ b'.sub = <<>>
  BY <1>1 DEF NoFrame
<1>5. OwnAnswers'
  BY <1>4, EmptyParts DEF OwnAnswers, Billed
<1> QED
  BY <1>3, <1>5

LEMMA AnswerStep ==
  ASSUME ToldApart
  PROVE  AnswerInv /\ [Next]_vars => AnswerInv'
<1> SUFFICES ASSUME AnswerInv, [Next]_vars PROVE AnswerInv'
  OBVIOUS
<1>1. IInv'
  BY InvStep DEF AnswerInv
<1>2. CASE \E r \in Requests : Accept(r)
  BY <1>1, <1>2, AnswerAccept DEF AnswerInv
<1>3. CASE Process
  BY <1>1, <1>3, AnswerDirect, AnswerFanOutCalls, AnswerCompoundCall, AnswerIsolate, AnswerCollect,
     AnswerFanOut, AnswerCommit DEF AnswerInv, Process, ToldApart
<1>4. CASE Demote \/ Reclassify \/ UNCHANGED vars
  <2>1. UNCHANGED <<call, cache, b>>
    BY <1>4 DEF Demote, Reclassify, vars
  <2> QED
    BY <1>1, <2>1 DEF AnswerInv, NoForeignAnswer, OwnAnswers, Billed, HasSlot, Right
<1> QED
  BY <1>2, <1>3, <1>4 DEF Next

\* No caller is ever answered, and nothing is ever cached, with another query's answer or
\* with a compound reply, whichever segments are missing, whichever calls fail, whatever
\* mode the target changes to, and however many requests share a slot: for any number of
\* requests and any chunk size, when the answers and the packed values tell the calls apart.
THEOREM NoForeignAnswerCorrect ==
  ASSUME ToldApart
  PROVE  Spec => []NoForeignAnswer
<1>1. AnswerInv /\ [Next]_vars => AnswerInv'
  BY AnswerStep
<1>2. AnswerInv => NoForeignAnswer
  BY DEF AnswerInv
<1> QED
  BY <1>1, <1>2, AnswerInit, PTL DEF Spec

-----------------------------------------------------------------------------
(* A batch comes to its end: what is left to do shrinks with every step.    *)

\* The length of a sequence.
Size(s) == Len(s)

\* What a frame has still to call and to collect, in steps: a request of a compound call
\* may need it, a call of its own, the look at it and its delivery.
ToGo(f) ==
  5 * Size(f.todo) + 2 * Size(f.direct) + Cardinality(f.retry) + Size(f.sub) + Size(f.out)

\* An upper bound of the steps process has before it.
Work(l, f) ==
  CASE l = "route"                 -> 5 * Size(f.requests) + 3
    [] l = "fanout"                -> Size(f.requests) + 2
    [] l \in {"direct", "isolate"} -> ToGo(f) + 2
    [] l = "compound"              -> ToGo(f) + 1
    [] l = "deliver"               -> Size(f.fan) + 1
    [] OTHER                       -> 0

\* The safety half of BatchEnds: whatever process does with a batch it has fired leaves
\* less to do, and neither callers nor mode changes add to it.
BatchShortens ==
  [][\/ UNCHANGED <<pc, b>>
     \/ pc \in {"idle", "fire"}
     \/ Work(pc, b)' \in Nat /\ Work(pc, b)' < Work(pc, b)]_vars

LEMMA Sizes ==
  ASSUME NEW T, NEW s \in Seq(T)
  PROVE  /\ Size(s) \in Nat /\ Size(s) = Len(s)
         /\ s = <<>> => Size(s) = 0
         /\ s # <<>> => Size(s) > 0 /\ Size(Tail(s)) = Size(s) - 1
         /\ \A x \in T : Size(Append(s, x)) = Size(s) + 1
         /\ \A t \in Seq(T) : Size(s \o t) = Size(s) + Size(t)
BY DEF Size

LEMMA FrameParts ==
  ASSUME NEW f \in Frames
  PROVE  /\ f.requests \in Seq(Requests) /\ f.todo \in Seq(Requests)
         /\ f.direct \in Seq(Requests) /\ f.sub \in Seq(Requests)
         /\ f.out \in Seq(Deliveries) /\ f.fan \in Seq(Deliveries)
         /\ f.retry \in SUBSET Requests /\ IsFiniteSet(f.retry)
BY RequestsFinite DEF Frames

\* The sizes of a frame are numbers.
Numbers(f) ==
  /\ Size(f.requests) \in Nat /\ Size(f.todo) \in Nat /\ Size(f.direct) \in Nat
  /\ Size(f.sub) \in Nat /\ Size(f.out) \in Nat /\ Size(f.fan) \in Nat
  /\ Cardinality(f.retry) \in Nat /\ ToGo(f) \in Nat

LEMMA FrameSizes == ASSUME NEW f \in Frames PROVE Numbers(f)
<1>1. Cardinality(f.retry) \in Nat
  BY FrameParts, RequestsFinite
<1>2. /\ Size(f.requests) \in Nat /\ Size(f.todo) \in Nat /\ Size(f.direct) \in Nat
      /\ Size(f.sub) \in Nat /\ Size(f.out) \in Nat /\ Size(f.fan) \in Nat
  BY FrameParts, Sizes
<1>3. ToGo(f) \in Nat
  BY <1>1, <1>2 DEF ToGo
<1> QED
  BY <1>1, <1>2, <1>3 DEF Numbers

\* What is left to do, label by label.
LEMMA WorkAt ==
  ASSUME NEW f, NEW l
  PROVE  /\ l = "route" => Work(l, f) = 5 * Size(f.requests) + 3
         /\ l = "fanout" => Work(l, f) = Size(f.requests) + 2
         /\ l \in {"direct", "isolate"} => Work(l, f) = ToGo(f) + 2
         /\ l = "compound" => Work(l, f) = ToGo(f) + 1
         /\ l = "deliver" => Work(l, f) = Size(f.fan) + 1
         /\ l \in {"idle", "fire"} => Work(l, f) = 0
BY DEF Work

LEMMA WorkType ==
  ASSUME NEW f \in Frames,
         NEW l \in {"idle", "fire", "route", "direct", "compound", "isolate", "fanout", "deliver"}
  PROVE  Work(l, f) \in Nat
BY FrameSizes, WorkAt DEF Numbers

\* A sequence that holds each request once is as long as what it holds.
LEMMA OneEachLen ==
  ASSUME NEW s \in Seq(Requests), OneEach(s)
  PROVE  /\ ToSet(s) \in SUBSET Requests /\ IsFiniteSet(ToSet(s))
         /\ Cardinality(ToSet(s)) = Size(s)
<1>1. ToSet(s) \in SUBSET Requests
  BY DEF ToSet
<1>2. DOMAIN s = 1..Size(s) /\ Size(s) \in Nat /\ s \in [1..Size(s) -> ToSet(s)]
  BY DEF ToSet, Size
<1>3. s \in Bijection(1..Size(s), ToSet(s))
  BY <1>2 DEF Bijection, Injection, Surjection, IsInjective, OneEach, ToSet
<1>4. IsFiniteSet(1..Size(s)) /\ Cardinality(1..Size(s)) = Size(s)
  BY <1>2, FS_Interval
<1>5. ExistsBijection(1..Size(s), ToSet(s))
  BY <1>3 DEF ExistsBijection
<1> QED
  BY <1>1, <1>4, <1>5, FS_Bijection

\* So are deliveries of which each is another request's.
LEMMA OneDeliveryLen ==
  ASSUME NEW s \in Seq(Deliveries), OneDelivery(s)
  PROVE  Cardinality(Ids(s)) = Size(s)
<1> DEFINE ids == [i \in 1..Size(s) |-> s[i].id]
<1>1. DOMAIN s = 1..Size(s) /\ Size(s) \in Nat /\ \A i \in 1..Size(s) : s[i] \in Deliveries
  BY DEF Size
<1>2. \A i \in 1..Size(s) : s[i].id \in Requests
  BY <1>1 DEF Deliveries
<1>3. ids \in Seq(Requests) /\ Size(ids) = Size(s) /\ DOMAIN ids = DOMAIN s
  BY <1>1, <1>2 DEF Size
<1>4. OneEach(ids)
  BY <1>1 DEF OneEach, OneDelivery
<1>5. ToSet(ids) = Ids(s)
  BY <1>1 DEF ToSet, Ids
<1> HIDE DEF ids
<1> QED
  BY <1>3, <1>4, <1>5, OneEachLen

\* What is called, retried or delivered of a batch is no more than the batch.
LEMMA BatchFits ==
  ASSUME NEW f \in Frames, Sound(f)
  PROVE  /\ Size(f.direct) + Size(f.todo) <= Size(f.requests)
         /\ Size(f.out) <= Size(f.requests)
         /\ Cardinality(f.retry) <= Size(f.sub)
         /\ f.sub = <<>> => Cardinality(f.retry) = 0
<1> DEFINE N == ToSet(f.requests)
           D == ToSet(f.direct)
           T == ToSet(f.todo)
<1>1. /\ OneEach(f.requests) /\ OneEach(f.direct) /\ OneEach(f.todo) /\ OneEach(f.sub)
      /\ OneDelivery(f.out)
      /\ D \cup T \subseteq N /\ D \cap T = {}
      /\ Ids(f.out) \subseteq N /\ f.retry \subseteq ToSet(f.sub)
  BY DEF Sound, ToCall
<1>2. /\ IsFiniteSet(N) /\ Cardinality(N) = Size(f.requests)
      /\ IsFiniteSet(D) /\ Cardinality(D) = Size(f.direct)
      /\ IsFiniteSet(T) /\ Cardinality(T) = Size(f.todo)
      /\ IsFiniteSet(ToSet(f.sub)) /\ Cardinality(ToSet(f.sub)) = Size(f.sub)
  BY <1>1, FrameParts, OneEachLen
<1>3. Cardinality(Ids(f.out)) = Size(f.out)
  BY <1>1, FrameParts, OneDeliveryLen
<1> HIDE DEF N, D, T
<1>4. Cardinality(D \cup T) = Size(f.direct) + Size(f.todo)
  <2>1. Cardinality(D \cup T) = Cardinality(D) + Cardinality(T) - Cardinality(D \cap T)
    BY <1>2, FS_Union
  <2>2. Cardinality(D \cap T) = 0
    BY <1>1, FS_EmptySet
  <2> QED
    BY <1>2, <2>1, <2>2, FrameSizes DEF Numbers
<1>5. Cardinality(D \cup T) <= Cardinality(N) /\ Cardinality(Ids(f.out)) <= Cardinality(N)
  BY <1>1, <1>2, FS_Subset
<1>6. Cardinality(f.retry) <= Cardinality(ToSet(f.sub))
  BY <1>1, <1>2, FS_Subset
<1>7. f.sub = <<>> => Cardinality(f.retry) = 0
  BY <1>1, EmptyParts, FS_EmptySet
<1> QED
  BY <1>2, <1>3, <1>4, <1>5, <1>6, <1>7

LEMMA FrameTyped == (IInv => b \in Frames) /\ (IInv' => b' \in Frames)
BY DEF IInv, TypeOK

\* Whichever way the route goes on, it is less work than another call.
LEMMA AfterCallsWork ==
  ASSUME NEW f \in Frames, AfterCalls(f)
  PROVE  Work(pc', b') <= ToGo(f) + 1
<1>1. CASE f.todo # <<>>
  <2>1. pc' = "compound" /\ b' = f
    BY <1>1 DEF AfterCalls
  <2> QED
    BY <2>1, FrameSizes, WorkAt DEF Numbers
<1>2. CASE f.todo = <<>>
  <2>1. pc' = "deliver" /\ b' = [f EXCEPT !.fan = f.out]
    BY <1>2 DEF AfterCalls
  <2>2. b'.fan = f.out
    BY <2>1 DEF Frames
  <2>3. Work(pc', b') = Size(f.out) + 1
    BY <2>1, <2>2, WorkAt
  <2>4. Size(f.out) <= ToGo(f)
    BY FrameSizes DEF ToGo, Numbers
  <2> QED
    BY <2>3, <2>4, FrameSizes DEF Numbers
<1> QED
  BY <1>1, <1>2

LEMMA WorkRoute == IInv /\ IInv' /\ Route => Work(pc', b') < Work(pc, b)
<1> SUFFICES ASSUME IInv, IInv', Route PROVE Work(pc', b') < Work(pc, b)
  OBVIOUS
<1>T. b \in Frames /\ b' \in Frames /\ Sound(b') /\ Sound(b)
  BY DEF IInv, TypeOK, Batch
<1>1. pc = "route" /\ pc' \in {"direct", "compound", "fanout"}
  BY DEF Route
<1>2. /\ b'.requests = b.requests /\ b'.out = b.out /\ b'.sub = b.sub /\ b'.retry = b.retry
  BY <1>T DEF Route, Frames
<1>3. b.out = <<>> /\ b.sub = <<>>
  BY <1>1 DEF IInv, Batch, InUse
<1>4. Cardinality(b.retry) = 0
  BY <1>T, <1>3, BatchFits
<1>5. Work(pc, b) = 5 * Size(b.requests) + 3
  BY <1>1, WorkAt
<1>6. Size(b'.direct) + Size(b'.todo) <= Size(b.requests)
  BY <1>T, <1>2, BatchFits
<1>7. Size(b.out) = 0 /\ Size(b.sub) = 0
  BY <1>3, <1>T, FrameParts, Sizes
<1>8. ToGo(b') = 5 * Size(b'.todo) + 2 * Size(b'.direct)
  BY <1>2, <1>4, <1>7, <1>T, FrameSizes DEF ToGo, Numbers
<1>9. CASE pc' \in {"direct", "compound"}
  <2>1. Work(pc', b') <= ToGo(b') + 2
    BY <1>9, <1>T, FrameSizes, WorkAt DEF Numbers
  <2>2. Size(b'.direct) \in Nat /\ Size(b'.todo) \in Nat /\ Size(b.requests) \in Nat
        /\ Work(pc', b') \in Nat
    BY <1>9, <1>T, FrameSizes, WorkType DEF Numbers
  <2> QED
    BY <1>5, <1>6, <1>8, <2>1, <2>2
<1>10. CASE pc' = "fanout"
  <2>1. Work(pc', b') = Size(b.requests) + 2
    BY <1>10, <1>2, WorkAt
  <2> QED
    BY <1>5, <1>T, <2>1, FrameSizes DEF Numbers
<1> QED
  BY <1>1, <1>9, <1>10

LEMMA WorkDirect ==
  IInv /\ IInv' /\ (DirectCall \/ DirectDone) => Work(pc', b') < Work(pc, b)
<1> SUFFICES ASSUME IInv, IInv', DirectCall \/ DirectDone PROVE Work(pc', b') < Work(pc, b)
  OBVIOUS
<1>T. b \in Frames /\ Work(pc', b') \in Nat
  BY WorkType DEF IInv, TypeOK
<1>L. pc = "direct"
  BY Zenon DEF DirectCall, DirectDone
<1>1. pc = "direct" /\ Work(pc, b) = ToGo(b) + 2
  BY <1>L, WorkAt
<1>2. CASE DirectCall
  <2> DEFINE r == Head(b.direct)
  <2>1. pc' = "direct" /\ b.direct # <<>>
    BY <1>1, <1>2 DEF DirectCall
  <2>2. /\ b'.direct = Tail(b.direct) /\ b'.todo = b.todo /\ b'.sub = b.sub
        /\ b'.retry = b.retry
        /\ b'.out = b.out \/ b'.out = Append(b.out, Delivery(r, b.directTier))
    BY <1>2, <1>T DEF DirectCall, Frames
  <2>3. Size(Tail(b.direct)) = Size(b.direct) - 1 /\ Size(b.direct) > 0
    BY <1>T, <2>1, FrameParts, Sizes
  <2>4. Size(b'.out) <= Size(b.out) + 1 /\ Size(b'.out) \in Nat
    <3>1. b.out \in Seq(Deliveries) /\ Delivery(r, b.directTier) \in Deliveries
      <4>1. r \in ToSet(b.requests) /\ r \in Requests
        BY <1>T, <2>1, FrameParts, TailParts DEF IInv, Batch, Sound, ToCall
      <4>2. call[r].status # "new" /\ b.directTier \in Nat
        BY <1>T, <4>1 DEF IInv, Batch, Frames
      <4> QED
        BY <1>T, <4>1, <4>2, FrameParts, DeliveryType
    <3> DEFINE more == Append(b.out, Delivery(r, b.directTier))
    <3>2. Size(b.out) \in Nat /\ Size(more) = Size(b.out) + 1
      BY <3>1, Sizes
    <3>3. b'.out = b.out \/ b'.out = more
      BY <2>2
    <3> HIDE DEF more
    <3> QED
      BY <3>2, <3>3
  <2>N. Numbers(b)
    BY <1>T, FrameSizes
  <2>5. /\ Size(b'.todo) = Size(b.todo) /\ Size(b'.sub) = Size(b.sub)
        /\ Cardinality(b'.retry) = Cardinality(b.retry)
        /\ Size(b'.direct) = Size(b.direct) - 1
    BY <2>2, <2>3
  <2>6. ToGo(b') \in Nat /\ ToGo(b') < ToGo(b)
    BY <2>3, <2>4, <2>5, <2>N DEF ToGo, Numbers
  <2>7. Work(pc', b') = ToGo(b') + 2
    BY <2>1, WorkAt
  <2> QED
    BY <1>1, <2>6, <2>7, <2>N DEF Numbers
<1>3. CASE DirectDone
  <2> DEFINE f == [b EXCEPT !.directTier = b.tier]
  <2>1. AfterCalls(f)
    BY <1>3 DEF DirectDone
  <2>2. f \in Frames /\ ToGo(f) = ToGo(b)
    BY <1>T DEF Frames, ToGo
  <2> HIDE DEF f
  <2>3. Work(pc', b') <= ToGo(f) + 1
    BY <2>1, <2>2, AfterCallsWork
  <2> QED
    BY <1>1, <1>T, <2>2, <2>3, FrameSizes DEF Numbers
<1> QED
  BY <1>2, <1>3

LEMMA WorkCompound == IInv /\ IInv' /\ CompoundCall => Work(pc', b') < Work(pc, b)
<1> SUFFICES ASSUME IInv, IInv', CompoundCall PROVE Work(pc', b') < Work(pc, b)
  OBVIOUS
<1> DEFINE sub == SubSeq(b.todo, 1, ChunkLen)
           rest == SubSeq(b.todo, ChunkLen + 1, Len(b.todo))
           left == [b EXCEPT !.todo = rest]
<1>F. b \in Frames
  BY FrameTyped
<1>T. b \in Frames /\ b' \in Frames /\ Sound(b') /\ Sound(b)
  BY FrameTyped DEF IInv, Batch
<1>L. pc = "compound"
  BY Zenon DEF CompoundCall
<1>1. pc = "compound" /\ Work(pc, b) = ToGo(b) + 1
  BY <1>L, WorkAt
<1>2. b.todo # <<>> /\ b.direct = <<>> /\ b.sub = <<>>
  BY <1>1 DEF IInv, Batch, InUse
<1>3. ChunkLen \in 1..Size(b.todo)
  <2>1. Len(b.todo) = Size(b.todo) /\ Size(b.todo) \in Nat /\ Size(b.todo) > 0
    BY <1>2, <1>T, FrameParts, Sizes
  <2> QED
    BY <2>1, PipelineAssumption DEF ChunkLen
<1>4. Size(sub) = ChunkLen /\ Size(rest) = Size(b.todo) - ChunkLen
  <2> DEFINE s == b.todo
  <2>1. s \in Seq(Requests) /\ ChunkLen \in 1..Len(s)
    BY <1>3, <1>T, FrameParts, Sizes
  <2> HIDE DEF s
  <2>2. /\ Len(SubSeq(s, 1, ChunkLen)) = ChunkLen
        /\ Len(SubSeq(s, ChunkLen + 1, Len(s))) = Len(s) - ChunkLen
    BY <2>1
  <2> QED
    BY <2>2 DEF s, Size
<1>5. Cardinality(b.retry) = 0
  BY <1>T, <1>2, BatchFits
<1>N. Numbers(b) /\ Numbers(b')
  BY <1>T, FrameSizes
<1>0. Size(b.direct) = 0 /\ Size(b.sub) = 0
  BY <1>2, <1>T, FrameParts, Sizes
<1>6. ToGo(b) = 5 * Size(b.todo) + Size(b.out)
  BY <1>0, <1>5, <1>N DEF ToGo, Numbers
<1> HIDE DEF sub, rest
<1>7. CASE /\ \E kept \in SUBSET Slots(sub) : b' = Split(left, sub, kept)
           /\ pc' = "isolate"
  <2>1. /\ b'.todo = rest /\ b'.sub = sub /\ b'.direct = b.direct /\ b'.out = b.out
    BY <1>7, <1>F DEF Split, Frames
  <2>2. Cardinality(b'.retry) <= ChunkLen
    BY <1>T, <1>4, <2>1, BatchFits
  <2>3. ToGo(b') <= 5 * (Size(b.todo) - ChunkLen) + 2 * ChunkLen + Size(b.out)
    BY <1>N, <1>0, <1>3, <1>4, <2>1, <2>2 DEF ToGo, Numbers
  <2>4. Work(pc', b') = ToGo(b') + 2
    BY <1>7, WorkAt
  <2>5. Size(b.todo) \in Nat /\ Size(b.out) \in Nat /\ ToGo(b') \in Nat
    BY <1>N DEF Numbers
  <2> QED
    BY <1>1, <1>3, <1>6, <2>3, <2>4, <2>5
<1>8. CASE b' = [left EXCEPT !.direct = sub] /\ pc' = "direct"
  <2>1. /\ b'.todo = rest /\ b'.sub = b.sub /\ b'.direct = sub /\ b'.out = b.out
        /\ b'.retry = b.retry
    BY <1>8, <1>F DEF Frames
  <2>2. ToGo(b') = 5 * (Size(b.todo) - ChunkLen) + 2 * ChunkLen + Size(b.out)
    BY <1>N, <1>0, <1>3, <1>4, <1>5, <2>1 DEF ToGo, Numbers
  <2>3. Work(pc', b') = ToGo(b') + 2
    BY <1>8, WorkAt
  <2> QED
    BY <1>1, <1>3, <1>6, <1>N, <2>2, <2>3 DEF Numbers
<1> QED
  BY <1>7, <1>8 DEF CompoundCall, sub, rest

LEMMA WorkIsolate == IInv /\ IInv' /\ (Isolate \/ Collect) => Work(pc', b') < Work(pc, b)
<1> SUFFICES ASSUME IInv, IInv', Isolate \/ Collect PROVE Work(pc', b') < Work(pc, b)
  OBVIOUS
<1>T. b \in Frames
  BY FrameTyped
<1>L. pc = "isolate"
  BY Zenon DEF Isolate, Collect
<1>1. pc = "isolate" /\ Work(pc, b) = ToGo(b) + 2
  BY <1>L, WorkAt
<1>2. CASE Isolate
  <2>1. PICK r \in b.retry :
          \/ b' = [b EXCEPT !.retry = @ \ {r}, !.full = @ \ {r},
                            !.answers[r] = AnswerTo(call[r].query)]
          \/ b' = [b EXCEPT !.retry = @ \ {r}, !.answers[r] = NoticeFor(r)]
    BY <1>2, Zenon DEF Isolate
  <2>2. /\ b'.todo = b.todo /\ b'.sub = b.sub /\ b'.direct = b.direct /\ b'.out = b.out
        /\ b'.retry = b.retry \ {r}
    BY <1>T, <2>1 DEF Frames
  <2>3. b.retry \in SUBSET Requests /\ IsFiniteSet(b.retry)
    BY <1>T, FrameParts
  <2>4. Cardinality(b.retry \ {r}) = Cardinality(b.retry) - 1
    BY <2>3, FS_RemoveElement
  <2>5. pc' = "isolate"
    BY <1>2, Zenon DEF Isolate
  <2>6. Work(pc', b') = ToGo(b') + 2
    BY <2>5, WorkAt
  <2>7. Numbers(b)
    BY <1>T, FrameSizes
  <2>8. ToGo(b') = ToGo(b) - 1
    BY <2>2, <2>4, <2>7 DEF ToGo, Numbers
  <2>9. ToGo(b) \in Nat
    BY <2>7 DEF Numbers
  <2> QED
    BY <1>1, <2>6, <2>8, <2>9
<1>3. CASE Collect
  <2> DEFINE coll == [i \in DOMAIN b.sub |-> Collected(i)]
             f == [b EXCEPT !.out = @ \o coll, !.sub = <<>>,
                            !.answers = NoFrame.answers, !.full = {}]
  <2>1. AfterCalls(f)
    BY <1>3 DEF Collect
  <2>2. /\ f.todo = b.todo /\ f.direct = b.direct /\ f.retry = b.retry /\ f.sub = <<>>
        /\ f.out = b.out \o coll
    <3> HIDE DEF coll
    <3> QED
      BY <1>T DEF Frames
  <2>3. Size(b.out \o coll) = Size(b.out) + Size(b.sub)
    <3>0. b.sub \in Seq(Requests) /\ DOMAIN b.sub = 1..Len(b.sub) /\ Len(b.sub) \in Nat
      BY <1>T, FrameParts
    <3>1. coll \in Seq({Collected(i) : i \in DOMAIN b.sub}) /\ Size(coll) = Size(b.sub)
      BY <3>0 DEF Size
    <3> DEFINE T == Deliveries \cup {Collected(i) : i \in DOMAIN b.sub}
    <3> HIDE DEF coll
    <3>2. coll \in Seq(T) /\ b.out \in Seq(T)
      BY <1>T, <3>1, FrameParts
    <3> HIDE DEF T
    <3> QED
      BY <3>1, <3>2, Sizes
  <2> HIDE DEF f, coll
  <2>4. Size(f.sub) = 0
    BY <2>2 DEF Size
  <2>N. Numbers(b)
    BY <1>T, FrameSizes
  <2>5. ToGo(f) = ToGo(b)
    <3>1. /\ Size(f.todo) = Size(b.todo) /\ Size(f.direct) = Size(b.direct)
          /\ Cardinality(f.retry) = Cardinality(b.retry)
          /\ Size(f.out) = Size(b.out) + Size(b.sub)
      BY <2>2, <2>3
    <3> QED
      BY <2>4, <2>N, <3>1 DEF ToGo, Numbers
  <2>6. CASE f.todo # <<>>
    <3>1. Work(pc', b') = ToGo(f) + 1
      BY <2>1, <2>6, WorkAt DEF AfterCalls
    <3> QED
      BY <1>1, <1>T, <2>5, <3>1, FrameSizes DEF Numbers
  <2>7. CASE f.todo = <<>>
    <3>1. pc' = "deliver" /\ b' = [f EXCEPT !.fan = f.out]
      BY <2>1, <2>7 DEF AfterCalls
    <3>2. b'.fan = b.out \o coll
      <4>1. DOMAIN b' = DOMAIN f
        BY <3>1
      <4>2. "fan" \in DOMAIN b'
        BY FrameTyped DEF Frames
      <4> QED
        BY <2>2, <3>1, <4>1, <4>2
    <3>3. Work(pc', b') = Size(b.out) + Size(b.sub) + 1
      BY <2>3, <3>1, <3>2, WorkAt
    <3>4. ToGo(b) >= Size(b.out) + Size(b.sub)
      BY <1>T, FrameSizes DEF ToGo, Numbers
    <3> QED
      BY <1>1, <1>T, <3>3, <3>4, FrameSizes DEF Numbers
  <2> QED
    BY <2>6, <2>7
<1> QED
  BY <1>2, <1>3

LEMMA WorkFanOutCalls == IInv /\ IInv' /\ FanOutCalls => Work(pc', b') < Work(pc, b)
<1> SUFFICES ASSUME IInv, IInv', FanOutCalls PROVE Work(pc', b') < Work(pc, b)
  OBVIOUS
<1>T. b \in Frames /\ b' \in Frames /\ Sound(b')
  BY DEF IInv, TypeOK, Batch
<1>L. pc = "fanout"
  BY Zenon DEF FanOutCalls
<1>1. pc = "fanout" /\ Work(pc, b) = Size(b.requests) + 2
  BY <1>L, WorkAt
<1>2. b.todo = <<>>
  BY <1>1 DEF IInv, Batch, InUse
<1>3. PICK S \in SUBSET ToSet(b.requests) :
        AfterCalls([b EXCEPT !.out = [i \in DOMAIN InOrder(S) |-> Delivery(InOrder(S)[i], b.tier)],
                             !.failed = ToSet(b.requests) \ S])
  BY DEF FanOutCalls
<1> DEFINE out == [i \in DOMAIN InOrder(S) |-> Delivery(InOrder(S)[i], b.tier)]
           failed == ToSet(b.requests) \ S
           f == [b EXCEPT !.out = out, !.failed = failed]
<1>7. AfterCalls(f)
  BY <1>3
<1> HIDE DEF out, failed
<1>4. pc' = "deliver" /\ b'.fan = b'.out /\ b'.requests = b.requests
  <2>1. f.todo = <<>> /\ f.requests = b.requests /\ "fan" \in DOMAIN f /\ "out" \in DOMAIN f
    BY <1>T, <1>2 DEF Frames
  <2> HIDE DEF f
  <2>2. pc' = "deliver" /\ b' = [f EXCEPT !.fan = f.out]
    BY <1>7, <2>1 DEF AfterCalls
  <2> QED
    BY <2>1, <2>2
<1>5. Work(pc', b') = Size(b'.out) + 1
  BY <1>4, WorkAt
<1>6. Size(b'.out) <= Size(b.requests)
  BY <1>T, <1>4, BatchFits
<1> QED
  BY <1>1, <1>5, <1>6, <1>T, FrameSizes DEF Numbers

LEMMA WorkDeliver == IInv /\ (FanOut \/ Commit) => Work(pc', b') < Work(pc, b)
<1> SUFFICES ASSUME IInv, FanOut \/ Commit PROVE Work(pc', b') < Work(pc, b)
  OBVIOUS
<1>T. b \in Frames
  BY FrameTyped
<1>L. pc = "deliver"
  BY Zenon DEF FanOut, Commit
<1>1. pc = "deliver" /\ Work(pc, b) = Size(b.fan) + 1
  BY <1>L, WorkAt
<1>2. CASE FanOut
  <2>1. b.fan # <<>> /\ b'.fan = Tail(b.fan) /\ pc' = "deliver"
    BY <1>1, <1>2, <1>T DEF FanOut, Frames
  <2>2. Size(Tail(b.fan)) = Size(b.fan) - 1
    BY <1>T, <2>1, FrameParts, Sizes
  <2>3. Work(pc', b') = Size(b.fan)
    BY <1>T, <2>1, <2>2, FrameSizes, WorkAt DEF Numbers
  <2> QED
    BY <1>1, <1>T, <2>3, FrameSizes DEF Numbers
<1>3. CASE Commit
  <2>1. Work(pc', b') = 0
    BY <1>3, WorkAt DEF Commit
  <2> QED
    BY <1>1, <1>T, <2>1, FrameSizes DEF Numbers
<1> QED
  BY <1>2, <1>3

\* The safety half of BatchEnds (BatchPipeline.process): every step of a batch that has been
\* fired leaves less to do, whichever calls fail or are answered in part, so that a batch of
\* n requests is over after 5n + 3 steps at most: no chunk is tried again, no request isolated
\* twice, and no call falls back on one that falls back on it.
THEOREM BatchShortensCorrect == Spec => BatchShortens
<1>1. IInv /\ IInv' /\ [Next]_vars =>
        [\/ UNCHANGED <<pc, b>>
         \/ pc \in {"idle", "fire"}
         \/ Work(pc, b)' \in Nat /\ Work(pc, b)' < Work(pc, b)]_vars
  <2> SUFFICES ASSUME IInv, IInv', [Next]_vars
      PROVE \/ UNCHANGED <<pc, b>>
            \/ pc \in {"idle", "fire"}
            \/ Work(pc', b') \in Nat /\ Work(pc', b') < Work(pc, b)
    OBVIOUS
  <2>T. Work(pc', b') \in Nat
    BY WorkType DEF IInv, TypeOK
  <2>1. CASE \E r \in Requests : Accept(r)
    BY <2>1 DEF Accept, Authorize, AcceptUnkeyed, ServeCached, AcceptKeyed
  <2>2. CASE LookUpEntry \/ Fire
    BY <2>2 DEF LookUpEntry, Fire
  <2>3. CASE Process /\ ~LookUpEntry /\ ~Fire
    BY <2>3, <2>T, WorkRoute, WorkDirect, WorkCompound, WorkIsolate, WorkFanOutCalls,
       WorkDeliver DEF Process
  <2>4. CASE Demote \/ Reclassify \/ UNCHANGED vars
    BY <2>4 DEF Demote, Reclassify, vars
  <2> QED
    BY <2>1, <2>2, <2>3, <2>4 DEF Next, Process
<1>2. IInv /\ [Next]_vars => IInv'
  BY InvStep
<1> QED
  BY <1>1, <1>2, InvAlways, PTL DEF Spec, BatchShortens
=============================================================================
