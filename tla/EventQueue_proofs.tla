-------------------------- MODULE EventQueue_proofs -------------------------
(***************************************************************************)
(* Safety of EventQueue for any number of events, handlers, bodies and     *)
(* turns.  TypeOK is not inductive: UpperBound finds its place only in a   *)
(* sorted list, and Recycle blanks an event wherever it still is.  The     *)
(* three invariants carry each other.                                      *)
(***************************************************************************)
EXTENDS EventQueue, FiniteSetTheorems, SequenceTheorems, WellFoundedInduction, TLAPS

-----------------------------------------------------------------------------
(* The list operations of EventQueue: what list::remove_if (Without) and   *)
(* the insertion after upper_bound (InsertEvent) do to a list, in terms of *)
(* positions.                                                              *)

(* The positions of a set of naturals 1..n can be counted off.              *)
LEMMA Ranks ==
    ASSUME NEW n \in Nat, NEW K \in SUBSET (1..n)
    PROVE  /\ IsFiniteSet(K) /\ Cardinality(K) \in Nat
           /\ \A i \in K : Rank(K, i) \in 1..Cardinality(K)
           /\ \A i, j \in K : i < j => Rank(K, i) < Rank(K, j)
           /\ \A c \in 1..Cardinality(K) : \E i \in K : Rank(K, i) = c
<1> DEFINE upto(i) == {j \in K : j <= i}
<1> DEFINE rank == [i \in K |-> Cardinality(upto(i))]
<1>1. IsFiniteSet(K) /\ Cardinality(K) \in Nat
  <2>1. IsFiniteSet(1..n)
    BY FS_Interval
  <2>2. IsFiniteSet(K)
    BY <2>1, FS_Subset
  <2> QED
    BY <2>2, FS_CardinalityType
<1>2. \A i \in K : upto(i) \in SUBSET K
  OBVIOUS
<1>3. \A i \in K : /\ IsFiniteSet(upto(i)) /\ Cardinality(upto(i)) \in Nat
                   /\ Cardinality(upto(i)) <= Cardinality(K)
                   /\ Cardinality(upto(i)) # 0
  <2> TAKE i \in K
  <2>1. IsFiniteSet(upto(i)) /\ Cardinality(upto(i)) <= Cardinality(K)
    BY <1>1, <1>2, FS_Subset
  <2>2. Cardinality(upto(i)) \in Nat
    BY <2>1, FS_CardinalityType
  <2>3. i \in upto(i)
    OBVIOUS
  <2>4. Cardinality(upto(i)) # 0
    BY <2>1, <2>3, FS_EmptySet
  <2> QED
    BY <2>1, <2>2, <2>4
<1>4. \A i \in K : Cardinality(upto(i)) \in 1..Cardinality(K)
  BY <1>1, <1>3
<1>5. \A i, j \in K : i < j => Cardinality(upto(i)) < Cardinality(upto(j))
  <2> SUFFICES ASSUME NEW i \in K, NEW j \in K, i < j
               PROVE  Cardinality(upto(i)) < Cardinality(upto(j))
    OBVIOUS
  <2>1. upto(i) \in SUBSET upto(j)
    <3>1. \A k \in K : k \in Int
      OBVIOUS
    <3>2. \A k \in upto(i) : k \in K /\ k <= j
      BY <3>1
    <3> QED
      BY <3>2
  <2>2. j \in upto(j) /\ j \notin upto(i)
    OBVIOUS
  <2>3. Cardinality(upto(i)) <= Cardinality(upto(j)) /\ Cardinality(upto(i)) # Cardinality(upto(j))
    BY <1>3, <2>1, <2>2, FS_Subset
  <2> QED
    BY <1>3, <2>3
<1>6. rank \in Injection(K, 1..Cardinality(K))
  <2>1. rank \in [K -> 1..Cardinality(K)]
    BY <1>4
  <2>2. \A i, j \in K : rank[i] = rank[j] => i = j
    <3> SUFFICES ASSUME NEW i \in K, NEW j \in K, i # j
                 PROVE  rank[i] # rank[j]
      OBVIOUS
    <3>1. Cardinality(upto(i)) # Cardinality(upto(j))
      <4>1. CASE i < j
        BY <4>1, <1>5, <1>3
      <4>2. CASE j < i
        BY <4>2, <1>5, <1>3
      <4> QED
        BY <4>1, <4>2
    <3> QED
      BY <3>1
  <2> QED
    BY <2>1, <2>2 DEF Injection, IsInjective
<1>7. rank \in Surjection(K, 1..Cardinality(K))
  <2>1. IsFiniteSet(1..Cardinality(K)) /\ Cardinality(1..Cardinality(K)) = Cardinality(K)
    BY <1>1, FS_Interval
  <2> QED
    BY <2>1, <1>6, FS_Injection
<1>8. \A c \in 1..Cardinality(K) : \E i \in K : rank[i] = c
  BY <1>7 DEF Surjection
<1>9. \A i \in K : Rank(K, i) = Cardinality(upto(i))
  BY DEF Rank
<1>10. \A i \in K : Rank(K, i) = rank[i]
  BY <1>9
<1> HIDE DEF upto, rank
<1> QED
  BY <1>1, <1>4, <1>5, <1>8, <1>9, <1>10

(* list::remove_if keeps exactly the elements not in R, in their order.     *)
LEMMA WithoutKeepsOrder ==
    ASSUME NEW S, NEW s \in Seq(S), NEW R
    PROVE  /\ Without(s, R) \in Seq(S)
           /\ \E m \in [1..Len(Without(s, R)) -> 1..Len(s)] :
                /\ \A k \in 1..Len(Without(s, R)) : /\ Without(s, R)[k] = s[m[k]]
                                                    /\ s[m[k]] \notin R
                /\ \A k, l \in 1..Len(Without(s, R)) : k < l => m[k] < m[l]
                /\ \A i \in 1..Len(s) : s[i] \notin R => \E k \in 1..Len(Without(s, R)) : m[k] = i
<1> DEFINE K == {i \in DOMAIN s : s[i] \notin R}
           nth(k) == CHOOSE i \in K : Rank(K, i) = k
           c == Cardinality(K)
           m == [k \in 1..c |-> nth(k)]
<1>1. DOMAIN s = 1..Len(s) /\ Len(s) \in Nat
  OBVIOUS
<1>2. K \in SUBSET (1..Len(s))
  BY <1>1
<1> HIDE DEF K
<1>3. c \in Nat /\ \A k \in 1..c : m[k] \in K /\ Rank(K, m[k]) = k
  BY <1>1, <1>2, Ranks
<1>4. \A i, j \in K : i < j => Rank(K, i) < Rank(K, j)
  BY <1>1, <1>2, Ranks
<1>5. \A i \in K : Rank(K, i) \in 1..c
  BY <1>1, <1>2, Ranks
<1>6. Without(s, R) = [k \in 1..c |-> s[m[k]]]
  BY DEF Without, K
<1>9. DOMAIN m = 1..c
  OBVIOUS
<1> HIDE DEF c, m
<1>7. \A k \in 1..c : m[k] \in 1..Len(s) /\ s[m[k]] \in S
  <2>1. \A i \in 1..Len(s) : s[i] \in S
    BY ElementOfSeq
  <2>2. \A i \in K : i \in 1..Len(s)
    BY <1>2
  <2> QED
    BY <1>3, <2>1, <2>2
<1>8. Without(s, R) \in Seq(S) /\ Len(Without(s, R)) = c
  BY <1>3, <1>6, <1>7
<1>10. \A k \in 1..c : Without(s, R)[k] = s[m[k]] /\ s[m[k]] \notin R
  BY <1>3, <1>6 DEF K
<1>11. \A k, l \in 1..c : k < l => m[k] < m[l]
  <2> SUFFICES ASSUME NEW k \in 1..c, NEW l \in 1..c, k < l
               PROVE  m[k] < m[l]
    OBVIOUS
  <2>1. m[k] \in Nat /\ m[l] \in Nat /\ m[k] \in K /\ m[l] \in K
    BY <1>3, <1>7
  <2>2. m[k] # m[l]
    BY <1>3
  <2>3. CASE m[l] < m[k]
    BY <2>1, <2>3, <1>3, <1>4
  <2> QED
    BY <2>1, <2>2, <2>3
<1>12. \A i \in 1..Len(s) : s[i] \notin R => \E k \in 1..c : m[k] = i
  <2> SUFFICES ASSUME NEW i \in 1..Len(s), s[i] \notin R
               PROVE  \E k \in 1..c : m[k] = i
    OBVIOUS
  <2>1. i \in K
    BY <1>1 DEF K
  <2> DEFINE k == Rank(K, i)
  <2>2. k \in 1..c
    BY <1>5, <2>1
  <2>3. m[k] \in K /\ Rank(K, m[k]) = k
    BY <1>3, <2>2
  <2>4. i \in Nat /\ m[k] \in Nat
    BY <1>7, <2>2
  <2>5. m[k] = i
    BY <2>1, <2>2, <2>3, <2>4, <1>4, <1>5
  <2> QED
    BY <2>2, <2>5
<1>14. m \in [1..c -> 1..Len(s)]
  BY <1>7, <1>9 DEF m
<1>13. \E f \in [1..c -> 1..Len(s)] :
         /\ \A k \in 1..c : Without(s, R)[k] = s[f[k]] /\ s[f[k]] \notin R
         /\ \A k, l \in 1..c : k < l => f[k] < f[l]
         /\ \A i \in 1..Len(s) : s[i] \notin R => \E k \in 1..c : f[k] = i
  <2>1. m \in [1..c -> 1..Len(s)]
    BY <1>14
  <2> WITNESS m \in [1..c -> 1..Len(s)]
  <2> QED
    BY <1>10, <1>11, <1>12
<1> QED
  BY <1>8, <1>13

(* In a sorted list upper_bound finds its partition point.                  *)
LEMMA UpperBoundExists ==
    ASSUME ev \in [Event -> Fields], NEW s \in Seq(Event), Sorted(s), NEW t \in Int,
           ConstantsAssumption
    PROVE  /\ UpperBound(s, t) \in 0..Len(s)
           /\ \A i \in 1..UpperBound(s, t) : ev[s[i]].handle <= t
           /\ \A i \in (UpperBound(s, t) + 1)..Len(s) : ev[s[i]].handle > t
<1> DEFINE K == {i \in 1..Len(s) : ev[s[i]].handle <= t}
           n == Cardinality(K)
<1>1. Len(s) \in Nat /\ \A i \in 1..Len(s) : s[i] \in Event
  BY ElementOfSeq, LenProperties
<1>2. \A i \in 1..Len(s) : ev[s[i]].handle \in Nat
  BY <1>1 DEF Fields, Blank, ConstantsAssumption
<1>3. IsFiniteSet(1..Len(s)) /\ Cardinality(1..Len(s)) = Len(s)
  <2>1. Len(s) \in Nat
    BY <1>1
  <2> HIDE DEF K, n
  <2> QED
    BY ONLY <2>1, FS_Interval
<1>4. IsFiniteSet(K) /\ n \in Nat /\ n <= Len(s)
  <2>1. K \in SUBSET (1..Len(s))
    OBVIOUS
  <2>2. IsFiniteSet(K) /\ n <= Len(s)
    BY <1>3, <2>1, FS_Subset
  <2> QED
    BY <2>2, FS_CardinalityType
<1>5. \A i \in K : i <= n
  <2> TAKE i \in K
  <2>1. i \in Nat /\ i <= Len(s)
    BY <1>1
  <2>2. 1..i \in SUBSET K
    <3> SUFFICES ASSUME NEW j \in 1..i PROVE j \in K
      OBVIOUS
    <3>1. j \in 1..Len(s) /\ j <= i
      BY <2>1, <1>1
    <3>2. CASE j = i
      BY <3>2
    <3>3. CASE j < i
      <4>1. ev[s[j]].handle <= ev[s[i]].handle
        BY <3>1, <3>3 DEF Sorted
      <4> QED
        BY <4>1, <3>1, <1>2
    <3> QED
      BY <3>1, <3>2, <3>3, <2>1
  <2>3. Cardinality(1..i) = i
    BY <2>1, FS_Interval
  <2>4. IsFiniteSet(K) /\ n \in Nat
    BY <1>4
  <2> HIDE DEF K
  <2>5. Cardinality(1..i) <= Cardinality(K)
    BY ONLY <2>2, <2>4, FS_Subset
  <2> QED
    BY <2>1, <2>3, <2>4, <2>5
<1>6. K = 1..n
  <2>1. IsFiniteSet(1..n) /\ Cardinality(1..n) = n
    BY <1>4, FS_Interval
  <2>2. K \in SUBSET (1..n)
    BY <1>4, <1>5
  <2> HIDE DEF K
  <2> QED
    BY <2>1, <2>2, FS_Subset
<1>7. \A i \in 1..n : ev[s[i]].handle <= t
  <2>1. \A i \in 1..n : i \in K
    BY <1>6
  <2> HIDE DEF n
  <2> QED
    BY <2>1
<1>8. \A i \in (n + 1)..Len(s) : ev[s[i]].handle > t
  <2> TAKE i \in (n + 1)..Len(s)
  <2>1. i \in 1..Len(s) /\ i \notin 1..n
    BY <1>4, <1>1
  <2>2. i \notin K
    BY <2>1, <1>6
  <2> QED
    BY <2>1, <2>2, <1>2
<1>9. n \in 0..Len(s)
  BY <1>4, <1>1
<1> HIDE DEF n
<1> QED
  BY <1>7, <1>8, <1>9 DEF UpperBound

(* What is where after an event was inserted: n events not later than it,   *)
(* the event, and the later ones.                                           *)
LEMMA InsertEventPositions ==
    ASSUME ev \in [Event -> Fields], NEW s \in Seq(Event), Sorted(s), NEW e \in Event,
           ConstantsAssumption
    PROVE  /\ InsertEvent(s, e) \in Seq(Event)
           /\ Len(InsertEvent(s, e)) = Len(s) + 1
           /\ \E n \in 0..Len(s) :
                /\ \A i \in 1..n : /\ InsertEvent(s, e)[i] = s[i]
                                    /\ ev[s[i]].handle <= ev[e].handle
                /\ InsertEvent(s, e)[n + 1] = e
                /\ \A i \in (n + 2)..(Len(s) + 1) : InsertEvent(s, e)[i] = s[i - 1]
                /\ \A i \in (n + 1)..Len(s) : ev[s[i]].handle > ev[e].handle
<1> DEFINE n == UpperBound(s, ev[e].handle)
           before == SubSeq(s, 1, n)
           after == SubSeq(s, n + 1, Len(s))
<1>1. Len(s) \in Nat /\ \A i \in 1..Len(s) : s[i] \in Event
  BY ElementOfSeq, LenProperties
<1>2. ev[e].handle \in Int
  BY DEF Fields, Blank, ConstantsAssumption
<1>3. /\ n \in 0..Len(s)
      /\ \A i \in 1..n : ev[s[i]].handle <= ev[e].handle
      /\ \A i \in (n + 1)..Len(s) : ev[s[i]].handle > ev[e].handle
  BY <1>2, UpperBoundExists
<1> HIDE DEF n
<1>4. /\ before \in Seq(Event) /\ Len(before) = n
      /\ \A i \in 1..n : before[i] = s[i]
  <2>1. \A i \in 1..n : s[i] \in Event
    BY <1>1, <1>3
  <2>2. n \in Int /\ 1 \in Int /\ (1 <= n => n - 1 + 1 = n) /\ (~(1 <= n) => n = 0)
    BY <1>3
  <2> QED
    BY <2>1, <2>2, SubSeqProperties
<1>5. /\ after \in Seq(Event) /\ Len(after) = Len(s) - n
      /\ \A i \in 1..(Len(s) - n) : after[i] = s[n + i]
  <2>1. \A i \in (n + 1)..Len(s) : s[i] \in Event
    BY <1>1, <1>3
  <2>2. n + 1 \in Int /\ Len(s) \in Int
    BY <1>1, <1>3
  <2>3. /\ SubSeq(s, n + 1, Len(s)) \in Seq(Event)
        /\ Len(SubSeq(s, n + 1, Len(s))) = IF n + 1 <= Len(s) THEN Len(s) - (n + 1) + 1 ELSE 0
        /\ \A i \in 1..(Len(s) - (n + 1) + 1) : SubSeq(s, n + 1, Len(s))[i] = s[n + 1 + i - 1]
    BY <2>1, <2>2, SubSeqProperties
  <2> QED
    BY <2>3, <1>1, <1>3
<1>6. InsertEvent(s, e) = (before \o <<e>>) \o after
  <2>1. (n + 1) - 1 = n
    BY <1>3
  <2> QED
    BY <2>1 DEF InsertEvent, InsertAt, n
<1> HIDE DEF before, after
<1>7. /\ before \o <<e>> \in Seq(Event) /\ Len(before \o <<e>>) = n + 1
      /\ \A i \in 1..n : (before \o <<e>>)[i] = s[i]
      /\ (before \o <<e>>)[n + 1] = e
  BY <1>3, <1>4, ConcatProperties
<1> DEFINE front == before \o <<e>>
<1>8. /\ front \o after \in Seq(Event) /\ Len(front \o after) = Len(s) + 1
      /\ \A i \in 1..(n + 1) : (front \o after)[i] = front[i]
      /\ \A i \in (n + 2)..(Len(s) + 1) : (front \o after)[i] = s[i - 1]
  <2> HIDE DEF front
  <2>1. front \in Seq(Event) /\ Len(front) = n + 1
    BY <1>7 DEF front
  <2>2. /\ front \o after \in Seq(Event) /\ Len(front \o after) = Len(s) + 1
        /\ \A i \in 1..(Len(s) + 1) :
              (front \o after)[i] = IF i <= n + 1 THEN front[i] ELSE after[i - (n + 1)]
    BY <2>1, <1>1, <1>3, <1>5, ConcatProperties
  <2>3. \A i \in (n + 2)..(Len(s) + 1) : (front \o after)[i] = s[i - 1]
    <3> TAKE i \in (n + 2)..(Len(s) + 1)
    <3>1. /\ i \in 1..(Len(s) + 1) /\ ~(i <= n + 1)
          /\ i - (n + 1) \in 1..(Len(s) - n)
          /\ n + (i - (n + 1)) = i - 1
      BY <1>1, <1>3
    <3>2. (front \o after)[i] = after[i - (n + 1)]
      BY <2>2, <3>1
    <3>3. after[i - (n + 1)] = s[n + (i - (n + 1))]
      BY <3>1, <1>5
    <3> QED
      BY <3>1, <3>2, <3>3
  <2>4. \A i \in 1..(n + 1) : i \in 1..(Len(s) + 1) /\ i <= n + 1
    BY <1>1, <1>3
  <2>5. \A i \in 1..(n + 1) : (front \o after)[i] = front[i]
    BY <2>2, <2>4
  <2> QED
    BY <2>2, <2>3, <2>5
<1>9. /\ \A i \in 1..n : InsertEvent(s, e)[i] = s[i]
      /\ InsertEvent(s, e)[n + 1] = e
  BY <1>3, <1>6, <1>7, <1>8
<1> HIDE DEF front
<1>10. /\ InsertEvent(s, e) \in Seq(Event) /\ Len(InsertEvent(s, e)) = Len(s) + 1
       /\ \A i \in (n + 2)..(Len(s) + 1) : InsertEvent(s, e)[i] = s[i - 1]
  BY <1>6, <1>8 DEF front
<1> QED
  BY <1>3, <1>9, <1>10

(***************************************************************************)
(* The same in terms of elements, for lists without repetitions.           *)
(***************************************************************************)
LEMMA WithoutElems ==
    ASSUME NEW s \in Seq(Event), NEW R
    PROVE  /\ Without(s, R) \in Seq(Event)
           /\ Elems(Without(s, R)) = Elems(s) \ R
           /\ IsInjective(s) => IsInjective(Without(s, R))
           /\ Sorted(s) => Sorted(Without(s, R))
<1> DEFINE w == Without(s, R)
<1>1. w \in Seq(Event)
  BY WithoutKeepsOrder
<1>2. PICK m \in [1..Len(w) -> 1..Len(s)] :
         /\ \A k \in 1..Len(w) : w[k] = s[m[k]] /\ s[m[k]] \notin R
         /\ \A k, l \in 1..Len(w) : k < l => m[k] < m[l]
         /\ \A i \in 1..Len(s) : s[i] \notin R => \E k \in 1..Len(w) : m[k] = i
  BY WithoutKeepsOrder
<1> HIDE DEF w
<1>3. DOMAIN s = 1..Len(s) /\ DOMAIN w = 1..Len(w) /\ Len(s) \in Nat /\ Len(w) \in Nat
  BY <1>1, LenProperties
<1>4. Elems(w) = Elems(s) \ R
  BY <1>2, <1>3 DEF Elems
<1>5. ASSUME IsInjective(s) PROVE IsInjective(w)
  <2> SUFFICES ASSUME NEW k \in 1..Len(w), NEW l \in 1..Len(w), k < l
               PROVE  w[k] # w[l]
    BY <1>3 DEF IsInjective
  <2>1. m[k] < m[l] /\ m[k] \in 1..Len(s) /\ m[l] \in 1..Len(s)
    BY <1>2
  <2> QED
    BY <2>1, <1>2, <1>3, <1>5 DEF IsInjective
<1>6. ASSUME Sorted(s) PROVE Sorted(w)
  BY <1>2, <1>6 DEF Sorted
<1> QED
  BY <1>1, <1>4, <1>5, <1>6 DEF w

LEMMA InsertElems ==
    ASSUME ev \in [Event -> Fields], NEW s \in Seq(Event), Sorted(s), NEW e \in Event,
           ConstantsAssumption, e \notin Elems(s), IsInjective(s)
    PROVE  /\ InsertEvent(s, e) \in Seq(Event)
           /\ Elems(InsertEvent(s, e)) = Elems(s) \cup {e}
           /\ IsInjective(InsertEvent(s, e))
           /\ Sorted(InsertEvent(s, e))
<1> DEFINE r == InsertEvent(s, e)
<1>1. r \in Seq(Event) /\ Len(r) = Len(s) + 1
  BY InsertEventPositions
<1>2. PICK n \in 0..Len(s) :
         /\ \A i \in 1..n : r[i] = s[i] /\ ev[s[i]].handle <= ev[e].handle
         /\ r[n + 1] = e
         /\ \A i \in (n + 2)..(Len(s) + 1) : r[i] = s[i - 1]
         /\ \A i \in (n + 1)..Len(s) : ev[s[i]].handle > ev[e].handle
  BY InsertEventPositions
<1> HIDE DEF r
<1>3. DOMAIN s = 1..Len(s) /\ DOMAIN r = 1..(Len(s) + 1) /\ Len(s) \in Nat
  BY <1>1, LenProperties
<1>4. \A i \in 1..Len(s) : s[i] \in Event /\ ev[s[i]].handle \in Nat
  <2>1. \A i \in 1..Len(s) : s[i] \in Event
    BY ElementOfSeq
  <2> QED
    BY <2>1 DEF Fields, Blank, ConstantsAssumption
<1>5. ev[e].handle \in Nat
  BY DEF Fields, Blank, ConstantsAssumption
<1> DEFINE from(i) == IF i <= n THEN i ELSE i - 1
<1>6. \A i \in 1..(Len(s) + 1) : i # n + 1 => from(i) \in 1..Len(s) /\ r[i] = s[from(i)]
  BY <1>2, <1>3
<1>7. Elems(r) = Elems(s) \cup {e}
  <2>1. ASSUME NEW x \in Elems(s) PROVE x \in Elems(r)
    <3>1. PICK i \in 1..Len(s) : x = s[i]
      BY <1>3 DEF Elems
    <3>2. CASE i <= n
      BY <3>1, <3>2, <1>2, <1>3 DEF Elems
    <3>3. CASE ~(i <= n)
      <4>1. PICK k \in (n + 2)..(Len(s) + 1) : k - 1 = i
        BY <3>3, <1>2, <1>3
      <4>2. r[k] = x /\ k \in DOMAIN r
        BY <4>1, <3>1, <1>2, <1>3
      <4> QED
        BY <4>2 DEF Elems
    <3> QED
      BY <3>2, <3>3
  <2>2. e \in Elems(r)
    BY <1>2, <1>3 DEF Elems
  <2>3. ASSUME NEW x \in Elems(r) PROVE x \in Elems(s) \cup {e}
    <3>1. PICK i \in 1..(Len(s) + 1) : x = r[i]
      BY <2>3, <1>3 DEF Elems
    <3>2. CASE i = n + 1
      BY <3>1, <3>2, <1>2
    <3>3. CASE i # n + 1
      <4>1. x = s[from(i)] /\ from(i) \in DOMAIN s
        BY <3>1, <3>3, <1>3, <1>6
      <4> HIDE DEF from
      <4> QED
        BY <4>1 DEF Elems
    <3> QED
      BY <3>2, <3>3
  <2> QED
    BY <2>1, <2>2, <2>3
<1>8. IsInjective(r)
  <2> SUFFICES ASSUME NEW i \in 1..(Len(s) + 1), NEW j \in 1..(Len(s) + 1), i < j, r[i] = r[j]
               PROVE  FALSE
    BY <1>3 DEF IsInjective
  <2>1. ASSUME NEW k \in 1..(Len(s) + 1), k # n + 1 PROVE r[k] # e
    <3>1. r[k] = s[from(k)] /\ from(k) \in DOMAIN s
      BY <2>1, <1>3, <1>6
    <3> HIDE DEF from
    <3> QED
      BY <3>1 DEF Elems
  <2>3. CASE i = n + 1 \/ j = n + 1
    BY <2>1, <2>3, <1>2
  <2>2. CASE i # n + 1 /\ j # n + 1
    <3>1. from(i) \in 1..Len(s) /\ from(j) \in 1..Len(s) /\ s[from(i)] = s[from(j)]
      BY <2>2, <1>6
    <3>2. from(i) # from(j)
      BY <2>2, <1>3
    <3> HIDE DEF from
    <3> QED
      BY <3>1, <3>2, <1>3 DEF IsInjective
  <2> QED
    BY <2>2, <2>3
<1>9. Sorted(r)
  <2> SUFFICES ASSUME NEW i \in 1..(Len(s) + 1), NEW j \in 1..(Len(s) + 1), i < j
               PROVE  ev[r[i]].handle <= ev[r[j]].handle
    BY <1>1 DEF Sorted
  <2>1. CASE i = n + 1
    BY <2>1, <1>2, <1>3, <1>4, <1>5
  <2>2. CASE j = n + 1
    BY <2>2, <1>2, <1>3, <1>4, <1>5
  <2>3. CASE i # n + 1 /\ j # n + 1
    <3>1. from(i) \in 1..Len(s) /\ from(j) \in 1..Len(s) /\ r[i] = s[from(i)] /\ r[j] = s[from(j)]
      BY <2>3, <1>6
    <3>2. from(i) < from(j)
      BY <2>3, <1>3
    <3> HIDE DEF from
    <3> QED
      BY <3>1, <3>2 DEF Sorted
  <2> QED
    BY <2>1, <2>2, <2>3
<1> QED
  BY <1>1, <1>7, <1>8, <1>9 DEF r

LEMMA PopFrontElems ==
    ASSUME NEW s \in Seq(Event), s # <<>>
    PROVE  /\ Head(s) \in Elems(s) /\ Head(s) \in Event
           /\ Tail(s) \in Seq(Event)
           /\ IsInjective(s) => Elems(Tail(s)) = Elems(s) \ {Head(s)} /\ IsInjective(Tail(s))
           /\ Sorted(s) => Sorted(Tail(s))
<1>1. /\ Head(s) \in Event /\ Tail(s) \in Seq(Event) /\ Len(Tail(s)) = Len(s) - 1
      /\ \A i \in 1..Len(Tail(s)) : Tail(s)[i] = s[i + 1]
  BY HeadTailProperties
<1>2. Head(s) = s[1] /\ Len(s) \in Nat \ {0}
  BY EmptySeq, LenProperties
<1>3. DOMAIN s = 1..Len(s) /\ DOMAIN Tail(s) = 1..(Len(s) - 1)
  BY <1>1, LenProperties
<1>4. Head(s) \in Elems(s)
  BY <1>2, <1>3 DEF Elems
<1>5. \A i \in 1..(Len(s) - 1) : i + 1 \in 1..Len(s) /\ i + 1 # 1
  BY <1>2
<1>6. ASSUME IsInjective(s) PROVE Elems(Tail(s)) = Elems(s) \ {Head(s)}
  <2>1. ASSUME NEW x \in Elems(Tail(s)) PROVE x \in Elems(s) \ {Head(s)}
    <3>1. PICK i \in 1..(Len(s) - 1) : x = Tail(s)[i]
      BY <2>1, <1>3 DEF Elems
    <3>2. x = s[i + 1] /\ i + 1 \in DOMAIN s /\ 1 \in DOMAIN s /\ i + 1 # 1
      BY <3>1, <1>1, <1>2, <1>3, <1>5
    <3> QED
      BY <3>2, <1>2, <1>6 DEF Elems, IsInjective
  <2>2. ASSUME NEW x \in Elems(s), x # Head(s) PROVE x \in Elems(Tail(s))
    <3>1. PICK i \in 1..Len(s) : x = s[i]
      BY <1>3 DEF Elems
    <3>2. i # 1
      BY <3>1, <2>2, <1>2
    <3>3. PICK k \in 1..(Len(s) - 1) : k + 1 = i
      <4>1. i - 1 \in 1..(Len(s) - 1) /\ (i - 1) + 1 = i
        BY <3>2, <1>2
      <4> QED
        BY <4>1
    <3>4. Tail(s)[k] = x
      BY <3>1, <3>3, <1>1
    <3> QED
      BY <3>4, <1>3 DEF Elems
  <2> QED
    BY <2>1, <2>2
<1>7. ASSUME IsInjective(s) PROVE IsInjective(Tail(s))
  <2> SUFFICES ASSUME NEW i \in 1..(Len(s) - 1), NEW j \in 1..(Len(s) - 1), Tail(s)[i] = Tail(s)[j]
               PROVE  i = j
    BY <1>3 DEF IsInjective
  <2>1. s[i + 1] = s[j + 1] /\ i + 1 \in DOMAIN s /\ j + 1 \in DOMAIN s
    BY <1>1, <1>3, <1>5
  <2>2. i + 1 = j + 1
    BY <2>1, <1>7 DEF IsInjective
  <2> QED
    BY <2>2
<1>8. ASSUME Sorted(s) PROVE Sorted(Tail(s))
  <2> SUFFICES ASSUME NEW i \in 1..(Len(s) - 1), NEW j \in 1..(Len(s) - 1), i < j
               PROVE  ev[Tail(s)[i]].handle <= ev[Tail(s)[j]].handle
    BY <1>1 DEF Sorted
  <2>1. /\ Tail(s)[i] = s[i + 1] /\ i + 1 \in 1..Len(s)
        /\ Tail(s)[j] = s[j + 1] /\ j + 1 \in 1..Len(s)
        /\ i + 1 < j + 1
    BY <1>1, <1>5
  <2> QED
    BY <2>1, <1>8 DEF Sorted
<1> QED
  BY <1>1, <1>4, <1>6, <1>7, <1>8

(* The least of some naturals, which Earliest and ScanTime choose.          *)
LEMMA LeastElement ==
    ASSUME NEW T \in SUBSET Nat, T # {}
    PROVE  \E t \in T : \A u \in T : t <= u
<1>1. PICK t \in T : \A u \in T : ~(<<u, t>> \in OpToRel(<, Nat))
  BY NatLessThanWellFounded, WFMin
<1>2. \A u \in T : ~(u < t)
  BY <1>1 DEF OpToRel
<1>3. t \in Nat /\ \A u \in T : u \in Nat
  OBVIOUS
<1> QED
  BY <1>2, <1>3

-----------------------------------------------------------------------------
(* The invariant.                                                          *)
IInv == TypeOK /\ OnePlace /\ SortedByHandleTime

(* What actions on the lists have to keep.                                  *)
ListsOK ==
    /\ ev \in [Event -> Fields] /\ sending \subseteq Event
    /\ queue \in [Priority -> Seq(Event)]
    /\ current \in Event \cup {NoEvent} /\ stage \in {"get", "taken", "running"}
    /\ OnePlace /\ SortedByHandleTime

LEMMA Times ==
    ASSUME ConstantsAssumption
    PROVE  /\ TimeMax \in Nat /\ MaxNow \in Nat /\ MaxDelay \in Nat
           /\ 0..MaxNow \subseteq Time /\ 0..(MaxNow + MaxDelay) \subseteq Time
           /\ TimeMax \in Time /\ Sub \subseteq Priority /\ IDLE \in Priority
           /\ Used \subseteq Priority /\ Time \subseteq Nat
BY DEF ConstantsAssumption, TimeMax, Time, Sub, Priority, IDLE

LEMMA FieldTypes ==
    ASSUME ConstantsAssumption, NEW f \in Fields
    PROVE  /\ f.prio \in Priority /\ f.handle \in Time /\ f.handle \in Nat /\ f.handle < TimeMax
           /\ f # Blank => f.owner \in Handler
<1>1. CASE f = Blank
  BY <1>1, Times DEF Blank, TimeMax, Time
<1>2. CASE f \in [owner : Handler, body : Body, prio : Used, send : 0..MaxNow, handle : 0..(MaxNow + MaxDelay)]
  <2>1. f.owner \in Handler /\ f.prio \in Used /\ f.handle \in 0..(MaxNow + MaxDelay)
    BY <1>2
  <2> QED
    BY <2>1, Times DEF TimeMax
<1> QED
  BY <1>1, <1>2 DEF Fields

LEMMA QueuedEvents ==
    ASSUME queue \in [Priority -> Seq(Event)]
    PROVE  /\ \A e : e \in Queued <=> \E p \in Priority : e \in Elems(queue[p])
           /\ \A p \in Priority : queue[p] \in Seq(Event) /\ Elems(queue[p]) \subseteq Event
           /\ Queued \subseteq Event
<1>1. \A e : e \in Queued <=> \E p \in Priority : e \in Elems(queue[p])
  BY DEF Queued
<1>2. ASSUME NEW p \in Priority PROVE queue[p] \in Seq(Event) /\ Elems(queue[p]) \subseteq Event
  <2>1. queue[p] \in Seq(Event)
    OBVIOUS
  <2>2. DOMAIN queue[p] = 1..Len(queue[p])
    BY <2>1, LenProperties
  <2>3. \A i \in 1..Len(queue[p]) : queue[p][i] \in Event
    BY <2>1, ElementOfSeq
  <2> QED
    BY <2>1, <2>2, <2>3 DEF Elems
<1> QED
  BY <1>1, <1>2

(* A list operation that reads the handle times only.                       *)
LEMMA SortedWhereEventsKept ==
    ASSUME NEW s \in Seq(Event), \A e \in Elems(s) : ev'[e] = ev[e], Sorted(s)
    PROVE  \A i, j \in 1..Len(s) : i < j => ev'[s[i]].handle <= ev'[s[j]].handle
<1>1. DOMAIN s = 1..Len(s)
  BY LenProperties
<1>2. \A i \in 1..Len(s) : ev'[s[i]] = ev[s[i]]
  BY <1>1 DEF Elems
<1> QED
  BY <1>2 DEF Sorted

(* remove_if over the five lists, the removed events recycled.              *)
LEMMA RemoveMatchingKeepsLists ==
    ASSUME ConstantsAssumption, ListsOK, NEW R, RemoveMatching(R)
    PROVE  ListsOK'
<1> DEFINE w(p) == Without(queue[p], R)
<1>1. /\ queue' = [p \in Priority |-> w(p)]
      /\ ev' = [e \in Event |-> IF e \in Queued \cap R THEN Blank ELSE ev[e]]
      /\ sending' = sending /\ current' = current /\ stage' = stage
  BY DEF RemoveMatching, Recycle, pickVars, loopVars
<1>2. ASSUME NEW p \in Priority
      PROVE  /\ w(p) \in Seq(Event) /\ Elems(w(p)) = Elems(queue[p]) \ R
             /\ IsInjective(w(p)) /\ Sorted(w(p))
  <2>1. queue[p] \in Seq(Event) /\ IsInjective(queue[p]) /\ Sorted(queue[p])
    BY DEF ListsOK, OnePlace, SortedByHandleTime
  <2> QED
    BY <2>1, WithoutElems
<1> HIDE DEF w
<1>3. queue' \in [Priority -> Seq(Event)]
  BY <1>1, <1>2
<1>4. ev' \in [Event -> Fields]
  BY <1>1 DEF ListsOK, Fields
<1>5. Queued' = Queued \ R
  <2>1. \A e : e \in Queued <=> \E p \in Priority : e \in Elems(queue[p])
    BY DEF Queued
  <2>2. \A e : e \in Queued' <=> \E p \in Priority : e \in Elems(queue'[p])
    BY DEF Queued, Elems
  <2>3. \A p \in Priority : Elems(queue'[p]) = Elems(queue[p]) \ R
    BY <1>1, <1>2
  <2> QED
    BY <2>1, <2>2, <2>3
<1>6. ASSUME NEW p \in Priority, NEW e \in Elems(queue'[p])
      PROVE  ev'[e] = ev[e] /\ ev[e].prio = p
  <2>1. e \in Elems(queue[p]) /\ e \notin R
    BY <1>1, <1>2, <1>6
  <2>2. e \in Event
    BY <2>1, QueuedEvents DEF ListsOK
  <2>3. ev[e].prio = p
    BY <2>1 DEF ListsOK, OnePlace
  <2> QED
    BY <1>1, <2>1, <2>2, <2>3
<1>7. ASSUME NEW p \in Priority PROVE Sorted(queue[p])'
  <2>1. \A i, j \in 1..Len(w(p)) : i < j => ev'[w(p)[i]].handle <= ev'[w(p)[j]].handle
    <3>1. \A e \in Elems(w(p)) : ev'[e] = ev[e]
      BY <1>1, <1>6
    <3> QED
      BY <3>1, <1>2, SortedWhereEventsKept
  <2> QED
    BY <2>1, <1>1 DEF Sorted
<1>8. OnePlace'
  <2>1. \A p \in Priority : IsInjective(queue'[p]) /\ \A e \in Elems(queue'[p]) : ev'[e].prio = p
    BY <1>1, <1>2, <1>6
  <2>2. /\ sending' \cap (Queued' \cup {current'}) = {} /\ current' \notin Queued'
        /\ (stage' = "get") <=> (current' = NoEvent)
    BY <1>1, <1>5 DEF ListsOK, OnePlace
  <2>3. ASSUME NEW e \in Event PROVE (e \in Free') <=> (ev'[e] = Blank)
    <3>1. (e \in Free) <=> (ev[e] = Blank)
      BY DEF ListsOK, OnePlace
    <3>2. CASE e \in Queued \cap R
      <4>1. ev'[e] = Blank /\ e \notin Queued'
        BY <1>1, <1>5, <3>2
      <4>2. e \notin sending' /\ e # current'
        BY <1>1, <3>2 DEF ListsOK, OnePlace
      <4> QED
        BY <4>1, <4>2 DEF Free
    <3>3. CASE e \notin Queued \cap R
      BY <1>1, <1>5, <3>1, <3>3 DEF Free
    <3> QED
      BY <3>2, <3>3
  <2> QED
    BY <2>1, <2>2, <2>3 DEF OnePlace, Elems
<1> QED
  BY <1>1, <1>3, <1>4, <1>7, <1>8 DEF ListsOK, SortedByHandleTime

(* The loop thread takes the first event of a list.                         *)
LEMMA TakeKeepsLists ==
    ASSUME ConstantsAssumption, ListsOK, NEW p \in Priority, queue[p] # <<>>, Take(p),
           stage = "get", UNCHANGED <<ev, sending>>
    PROVE  ListsOK'
<1>1. /\ queue' = [queue EXCEPT ![p] = Tail(queue[p])]
      /\ current' = Head(queue[p]) /\ stage' = "taken" /\ ev' = ev /\ sending' = sending
  BY DEF Take
<1>2. queue \in [Priority -> Seq(Event)] /\ current = NoEvent /\ OnePlace
  BY DEF ListsOK, OnePlace
<1>3. /\ Head(queue[p]) \in Elems(queue[p]) /\ Head(queue[p]) \in Event
      /\ Tail(queue[p]) \in Seq(Event)
      /\ Elems(Tail(queue[p])) = Elems(queue[p]) \ {Head(queue[p])}
      /\ IsInjective(Tail(queue[p])) /\ Sorted(Tail(queue[p]))
  <2>1. queue[p] \in Seq(Event) /\ IsInjective(queue[p]) /\ Sorted(queue[p])
    BY DEF ListsOK, OnePlace, SortedByHandleTime
  <2> QED
    BY <2>1, PopFrontElems
<1>4. queue' \in [Priority -> Seq(Event)]
  BY <1>1, <1>2, <1>3
<1>5. \A q \in Priority : q # p => queue'[q] = queue[q]
  BY <1>1, <1>2
<1>6. queue'[p] = Tail(queue[p])
  BY <1>1, <1>2
<1>7. \A q \in Priority : q # p => Head(queue[p]) \notin Elems(queue[q])
  BY <1>2, <1>3 DEF OnePlace
<1>8. Queued' = Queued \ {current'}
  <2>1. \A e : e \in Queued <=> \E q \in Priority : e \in Elems(queue[q])
    BY DEF Queued
  <2>2. \A e : e \in Queued' <=> \E q \in Priority : e \in Elems(queue'[q])
    BY DEF Queued, Elems
  <2>3. \A q \in Priority : Elems(queue'[q]) = Elems(queue[q]) \ {current'}
    BY <1>1, <1>3, <1>5, <1>6, <1>7
  <2>4. \A e : e \in Queued' <=> e \in Queued \ {current'}
    BY ONLY <2>1, <2>2, <2>3
  <2> QED
    BY <2>4
<1>9. current' \in Queued
  BY <1>1, <1>3 DEF Queued
<1>10. OnePlace'
  <2>1. ASSUME NEW q \in Priority
        PROVE  IsInjective(queue'[q]) /\ \A e \in Elems(queue'[q]) : ev'[e].prio = q
    BY <1>1, <1>2, <1>3, <1>5, <1>6 DEF OnePlace
  <2>2. /\ sending' \cap (Queued' \cup {current'}) = {} /\ current' \notin Queued'
        /\ current' # NoEvent
    BY <1>1, <1>2, <1>3, <1>8, <1>9 DEF OnePlace, ConstantsAssumption
  <2>3. Free' = Free
    BY <1>1, <1>2, <1>8, <1>9 DEF Free, ConstantsAssumption
  <2> QED
    BY <1>1, <1>2, <2>1, <2>2, <2>3 DEF OnePlace, Elems
<1>11. SortedByHandleTime'
  BY <1>1, <1>3, <1>5, <1>6 DEF ListsOK, SortedByHandleTime, Sorted
<1> QED
  BY <1>1, <1>3, <1>4, <1>10, <1>11 DEF ListsOK

-----------------------------------------------------------------------------
LEMMA InitIInv == ConstantsAssumption /\ Init => IInv
<1> SUFFICES ASSUME ConstantsAssumption, Init PROVE IInv
  OBVIOUS
<1>1. \A p \in Priority : queue[p] = <<>>
  BY DEF Init
<1>2. Queued = {}
  BY <1>1 DEF Queued, Elems
<1>3. TypeOK
  BY Times DEF Init, TypeOK, Fields, ConstantsAssumption
<1>4. OnePlace
  <2>1. \A p \in Priority : IsInjective(queue[p]) /\ \A e \in Elems(queue[p]) : ev[e].prio = p
    BY <1>1 DEF IsInjective, Elems
  <2>2. \A e \in Event : (e \in Free) <=> (ev[e] = Blank)
    BY <1>2 DEF Init, Free, ConstantsAssumption
  <2> QED
    BY <1>2, <2>1, <2>2 DEF OnePlace, Init
<1>5. SortedByHandleTime
  BY <1>1 DEF SortedByHandleTime, Sorted
<1> QED
  BY <1>3, <1>4, <1>5 DEF IInv

LEMMA ListsOfIInv == ASSUME IInv PROVE ListsOK
BY DEF IInv, ListsOK, TypeOK

(* A sender writes a slot that is in no list.                               *)
LEMMA StampKeepsLists ==
    ASSUME ConstantsAssumption, IInv, NEW e \in Free, NEW f \in Fields, f # Blank,
           ev' = [ev EXCEPT ![e] = f], sending' = sending \cup {e},
           UNCHANGED <<queue, current, stage>>
    PROVE  ListsOK'
<1>1. /\ ev' = [ev EXCEPT ![e] = f] /\ sending' = sending \cup {e}
      /\ queue' = queue /\ current' = current /\ stage' = stage
  OBVIOUS
<1>2. f \in Fields /\ f # Blank
  OBVIOUS
<1>3. ListsOK
  BY ListsOfIInv
<1>4. e \notin Queued /\ e \notin sending /\ e # current /\ e \in Event
  BY DEF Free
<1>5. ev' \in [Event -> Fields] /\ ev'[e] = f /\ \A x \in Event : x # e => ev'[x] = ev[x]
  BY <1>1, <1>2, <1>3, <1>4 DEF ListsOK
<1>6. \A p_1 \in Priority : /\ queue[p_1] \in Seq(Event) /\ Elems(queue[p_1]) \subseteq Event
                            /\ \A x \in Elems(queue[p_1]) : ev'[x] = ev[x]
  BY <1>3, <1>5, <1>4, QueuedEvents DEF ListsOK
<1>7. OnePlace'
  <2>1. Queued' = Queued
    BY <1>1 DEF Queued, Elems
  <2>2. \A q \in Priority : IsInjective(queue'[q]) /\ \A x \in Elems(queue'[q]) : ev'[x].prio = q
    BY <1>1, <1>3, <1>6 DEF ListsOK, OnePlace
  <2>3. ASSUME NEW x \in Event PROVE (x \in Free') <=> (ev'[x] = Blank)
    <3>1. (x \in Free) <=> (ev[x] = Blank)
      BY <1>3 DEF ListsOK, OnePlace
    <3>2. (x \in Free') <=> (x \in Free /\ x # e)
      BY <1>1, <2>1 DEF Free
    <3> QED
      BY <3>1, <3>2, <1>2, <1>5
  <2>4. sending' \cap (Queued' \cup {current'}) = {} /\ current' \notin Queued'
    BY <1>1, <1>3, <1>4, <2>1 DEF ListsOK, OnePlace
  <2> QED
    BY <1>1, <1>3, <2>2, <2>3, <2>4 DEF ListsOK, OnePlace, Elems
<1>8. SortedByHandleTime'
  <2>1. \A q \in Priority : \A i, j \in 1..Len(queue[q]) :
           i < j => ev'[queue[q][i]].handle <= ev'[queue[q][j]].handle
    BY <1>3, <1>6, SortedWhereEventsKept DEF ListsOK, SortedByHandleTime
  <2> QED
    BY <1>1, <2>1 DEF SortedByHandleTime, Sorted
<1> QED
  BY <1>1, <1>3, <1>5, <1>4, <1>7, <1>8 DEF ListsOK

LEMMA SendKeepsLists ==
    ASSUME ConstantsAssumption, IInv, Send
    PROVE  ListsOK'
<1>1. PICK h \in Handler, e \in Event, b \in Body, p \in Used, d \in 0..MaxDelay : SendEvent(h, e, b, p, d)
  BY DEF Send
<1> DEFINE f == [owner |-> h, body |-> b, prio |-> p, send |-> now, handle |-> now + d]
<1>2. /\ e \in Free
      /\ now + d <= MaxNow + MaxDelay
      /\ ev' = [ev EXCEPT ![e] = f]
      /\ sending' = sending \cup {e}
      /\ queue' = queue /\ current' = current /\ stage' = stage
  BY <1>1 DEF SendEvent, loopVars
<1>3. f \in Fields /\ f # Blank
  <2>1. now \in 0..MaxNow /\ now + d \in 0..(MaxNow + MaxDelay)
    BY <1>2, Times DEF IInv, TypeOK
  <2> QED
    BY <2>1 DEF Fields, Blank, ConstantsAssumption
<1> HIDE DEF f
<1> QED
  BY <1>2, <1>3, StampKeepsLists

(* Insert puts a stamped event after the last one that is not later.        *)
LEMMA InsertKeepsLists ==
    ASSUME ConstantsAssumption, IInv, NEW e \in Event, Insert(e)
    PROVE  ListsOK'
<1> DEFINE p == ev[e].prio
<1>1. /\ e \in sending /\ sending' = sending \ {e}
      /\ queue' = [queue EXCEPT ![p] = InsertEvent(queue[p], e)]
      /\ ev' = ev /\ current' = current /\ stage' = stage
  BY DEF Insert, loopVars
<1>2. ListsOK
  BY ListsOfIInv
<1>3. p \in Priority
  BY <1>2, FieldTypes DEF ListsOK
<1> HIDE DEF p
<1>4. e \notin Queued /\ e # current
  BY <1>1, <1>2 DEF ListsOK, OnePlace
<1>5. /\ InsertEvent(queue[p], e) \in Seq(Event)
      /\ Elems(InsertEvent(queue[p], e)) = Elems(queue[p]) \cup {e}
      /\ IsInjective(InsertEvent(queue[p], e)) /\ Sorted(InsertEvent(queue[p], e))
  <2>1. queue[p] \in Seq(Event) /\ IsInjective(queue[p]) /\ Sorted(queue[p])
    BY <1>2, <1>3 DEF ListsOK, OnePlace, SortedByHandleTime
  <2>2. e \notin Elems(queue[p])
    BY <1>3, <1>4 DEF Queued
  <2> QED
    BY <1>2, <2>1, <2>2, InsertElems DEF ListsOK
<1>6. \A q \in Priority : q # p => queue'[q] = queue[q]
  BY <1>1, <1>2 DEF ListsOK
<1>7. queue'[p] = InsertEvent(queue[p], e)
  BY <1>1, <1>2, <1>3 DEF ListsOK
<1>8. queue' \in [Priority -> Seq(Event)]
  BY <1>1, <1>2, <1>5 DEF ListsOK
<1>9. Queued' = Queued \cup {e}
  <2>1. \A x : x \in Queued <=> \E q \in Priority : x \in Elems(queue[q])
    BY DEF Queued
  <2>2. \A x : x \in Queued' <=> \E q \in Priority : x \in Elems(queue'[q])
    BY DEF Queued, Elems
  <2>3. \A x : x \in Queued' <=> x \in Queued \cup {e}
    BY ONLY <1>3, <1>5, <1>6, <1>7, <2>1, <2>2
  <2> QED
    BY <2>3
<1>10. OnePlace'
  <2>1. ASSUME NEW q \in Priority
        PROVE  IsInjective(queue'[q]) /\ \A x \in Elems(queue'[q]) : ev'[x].prio = q
    BY <1>1, <1>2, <1>5, <1>6, <1>7 DEF ListsOK, OnePlace, p
  <2>2. /\ sending' \cap (Queued' \cup {current'}) = {} /\ current' \notin Queued'
    BY <1>1, <1>2, <1>4, <1>9 DEF ListsOK, OnePlace
  <2>3. Free' = Free
    BY <1>1, <1>4, <1>9 DEF Free
  <2> QED
    BY <1>1, <1>2, <2>1, <2>2, <2>3 DEF ListsOK, OnePlace, Elems
<1>11. SortedByHandleTime'
  BY <1>1, <1>2, <1>5, <1>6, <1>7 DEF ListsOK, SortedByHandleTime, Sorted
<1> QED
  BY <1>1, <1>2, <1>8, <1>10, <1>11 DEF ListsOK

(* event.reset() of the event the loop thread held.                         *)
LEMMA ReleaseKeepsLists ==
    ASSUME ConstantsAssumption, IInv, ReleaseEvent
    PROVE  ListsOK'
<1>1. /\ stage # "get" /\ stage' = "get" /\ current' = NoEvent
      /\ ev' = [e \in Event |-> IF e \in {current} THEN Blank ELSE ev[e]]
      /\ queue' = queue /\ sending' = sending
  BY DEF ReleaseEvent, Recycle
<1>2. ListsOK
  BY ListsOfIInv
<1>3. current \in Event /\ current \notin Queued /\ current \notin sending
  BY <1>1, <1>2 DEF ListsOK, OnePlace
<1>4. ev' \in [Event -> Fields]
  BY <1>1, <1>2 DEF ListsOK, Fields
<1>5. \A p \in Priority : /\ queue[p] \in Seq(Event) /\ Elems(queue[p]) \subseteq Event
                          /\ \A x \in Elems(queue[p]) : ev'[x] = ev[x]
  BY <1>1, <1>2, <1>3, QueuedEvents DEF ListsOK
<1>6. OnePlace'
  <2>1. Queued' = Queued /\ Queued \subseteq Event
    BY <1>1, <1>2, QueuedEvents DEF ListsOK, Queued, Elems
  <2>2. \A q \in Priority : IsInjective(queue'[q]) /\ \A x \in Elems(queue'[q]) : ev'[x].prio = q
    BY <1>1, <1>2, <1>5 DEF ListsOK, OnePlace
  <2>3. ASSUME NEW x \in Event PROVE (x \in Free') <=> (ev'[x] = Blank)
    <3>1. (x \in Free) <=> (ev[x] = Blank)
      BY <1>2 DEF ListsOK, OnePlace
    <3>2. (x \in Free') <=> (x \in Free \/ x = current)
      BY <1>1, <1>3, <2>1 DEF Free, ConstantsAssumption
    <3> QED
      BY <3>1, <3>2, <1>1
  <2>4. sending' \cap (Queued' \cup {current'}) = {} /\ current' \notin Queued'
    BY <1>1, <1>2, <2>1 DEF ListsOK, OnePlace, ConstantsAssumption
  <2> QED
    BY <1>1, <2>2, <2>3, <2>4 DEF OnePlace, Elems
<1>7. SortedByHandleTime'
  <2>1. \A q \in Priority : \A i, j \in 1..Len(queue[q]) :
           i < j => ev'[queue[q][i]].handle <= ev'[queue[q][j]].handle
    BY <1>2, <1>5, SortedWhereEventsKept DEF ListsOK, SortedByHandleTime
  <2> QED
    BY <1>1, <2>1 DEF SortedByHandleTime, Sorted
<1> QED
  BY <1>1, <1>2, <1>4, <1>6, <1>7 DEF ListsOK

-----------------------------------------------------------------------------
(* The consumer's clock readings: handle times of list heads.               *)
LEMMA HeadTimes ==
    ASSUME ConstantsAssumption, ListsOK, NEW p \in Priority, queue[p] # <<>>
    PROVE  HeadTime(p) \in Time
<1>1. queue[p] \in Seq(Event)
  BY DEF ListsOK
<1>2. Head(queue[p]) \in Event
  BY <1>1, HeadTailProperties
<1> QED
  BY <1>2, FieldTypes DEF ListsOK, HeadTime

LEMMA EarliestTime ==
    ASSUME ConstantsAssumption, NEW T \in SUBSET Time
    PROVE  Earliest(T) \in Time /\ \A u \in T : Earliest(T) <= u
<1>1. T \cup {TimeMax} \in SUBSET Nat /\ T \cup {TimeMax} # {}
  BY Times
<1>2. \E t \in T \cup {TimeMax} : \A u \in T \cup {TimeMax} : t <= u
  BY <1>1, LeastElement
<1>3. \E t \in T \cup {TimeMax} : \A u \in T : t <= u
  BY <1>2
<1>4. Earliest(T) \in T \cup {TimeMax} /\ \A u \in T : Earliest(T) <= u
  BY <1>3 DEF Earliest
<1> QED
  BY <1>4, Times

LEMMA CandidateHeads ==
    ASSUME ConstantsAssumption, ListsOK
    PROVE  /\ Candidates \subseteq NonEmpty /\ NonEmpty \subseteq Sub
           /\ \A i \in NonEmpty : i \in Priority /\ queue[i] # <<>> /\ HeadTime(i) \in Time
           /\ {HeadTime(i) : i \in NonEmpty} \in SUBSET Time
           /\ Earliest({HeadTime(i) : i \in NonEmpty}) \in Time
<1>1. Candidates \subseteq NonEmpty /\ NonEmpty \subseteq Sub
  BY DEF Candidates, NonEmpty
<1>2. ASSUME NEW i \in NonEmpty PROVE i \in Priority /\ queue[i] # <<>> /\ HeadTime(i) \in Time
  <2>1. i \in Priority /\ queue[i] # <<>>
    BY Times DEF NonEmpty
  <2> QED
    BY <2>1, HeadTimes
<1>3. {HeadTime(i) : i \in NonEmpty} \in SUBSET Time
  BY <1>2
<1> QED
  BY <1>1, <1>2, <1>3, EarliestTime

LEMMA ScanTimes ==
    ASSUME ConstantsAssumption, ListsOK, NEW i \in Sub
    PROVE  ScanTime(i) \in Time
<1>1. CASE HasLower(i)
  <2> DEFINE First(j) == j > i /\ \A k \in Candidates : k > i => j <= k
             next == CHOOSE j \in Candidates : First(j)
  <2>1. {j \in Candidates : j > i} \in SUBSET Nat /\ {j \in Candidates : j > i} # {}
    BY <1>1, CandidateHeads DEF HasLower, Sub
  <2>2. PICK j \in {k \in Candidates : k > i} : \A k \in {k \in Candidates : k > i} : j <= k
    BY <2>1, LeastElement
  <2>3. \E k \in Candidates : First(k)
    BY <2>2
  <2>4. next \in Candidates
    BY <2>3
  <2>5. ScanTime(i) = HeadTime(next)
    BY <1>1 DEF ScanTime
  <2> HIDE DEF next
  <2> QED
    BY <2>4, <2>5, CandidateHeads
<1>2. CASE ~HasLower(i)
  BY <1>2, CandidateHeads DEF ScanTime
<1> QED
  BY <1>1, <1>2

(* The turns of a queue are counted only while it has some left.            *)
LEMMA TurnsBounded ==
    ASSUME ConstantsAssumption, handled \in [Sub -> 0..MaxHandled], NEW i \in Sub, PickEvent(i)
    PROVE  handled' \in [Sub -> 0..MaxHandled]
<1>1. HasLower(i) => handled[i] < MaxHandled
  BY DEF PickEvent, Picked
<1>2. handled' = [j \in Sub |-> IF j < i THEN 0
                                ELSE IF j = i /\ HasLower(i) THEN handled[j] + 1
                                ELSE handled[j]]
  BY DEF PickEvent, CountTurn
<1> QED
  BY <1>1, <1>2 DEF ConstantsAssumption

LEMMA GetExpiredEventKeepsIInv ==
    ASSUME ConstantsAssumption, IInv, GetExpiredEvent
    PROVE  IInv'
<1>1. ListsOK
  BY ListsOfIInv
<1>2. /\ stage = "get" /\ now' = now /\ ev' = ev /\ sending' = sending
      /\ currentHandler' = currentHandler /\ held' = held /\ dtor' = dtor
  BY DEF GetExpiredEvent, handlerVars
<1>3. Earliest({HeadTime(i) : i \in NonEmpty}) \in Time
  BY <1>1, CandidateHeads
<1>4. EnterIdle => /\ wakeUpTime' \in Time /\ isIdle' \in BOOLEAN
                   /\ idleTimeStamp' \in 0..MaxNow /\ handled' = handled
  BY <1>3 DEF EnterIdle, IInv, TypeOK
<1>5. CASE \E i \in Sub : PickEvent(i)
  <2>1. PICK i \in Sub : PickEvent(i)
    BY <1>5
  <2>2. Take(i) /\ wakeUpTime' = ScanTime(i) /\ isIdle' = FALSE /\ idleTimeStamp' = idleTimeStamp
    BY <2>1 DEF PickEvent
  <2>3. i \in Priority /\ queue[i] # <<>>
    <3>1. i \in NonEmpty
      BY <2>1, <1>1, CandidateHeads DEF PickEvent, Picked
    <3> QED
      BY <3>1, <1>1, CandidateHeads
  <2>4. ListsOK'
    BY <1>1, <1>2, <2>2, <2>3, TakeKeepsLists
  <2>5. handled' \in [Sub -> 0..MaxHandled]
    BY <2>1, TurnsBounded DEF IInv, TypeOK
  <2>6. wakeUpTime' \in Time
    BY <2>2, <1>1, ScanTimes
  <2> QED
    BY <1>2, <2>2, <2>4, <2>5, <2>6 DEF IInv, TypeOK, ListsOK
<1>6. CASE TakeIdleEvent
  <2>1. Take(IDLE) /\ queue[IDLE] # <<>> /\ EnterIdle
    BY <1>6 DEF TakeIdleEvent, IdleEventReady
  <2>2. ListsOK'
    BY <1>1, <1>2, <2>1, Times, TakeKeepsLists
  <2> QED
    BY <1>2, <1>4, <2>1, <2>2 DEF IInv, TypeOK, ListsOK
<1>7. CASE FindNothing
  <2>1. queue' = queue /\ stage' = stage /\ current' = current /\ EnterIdle
    BY <1>7 DEF FindNothing
  <2>2. OnePlace' /\ SortedByHandleTime'
    BY <1>2, <2>1 DEF IInv, OnePlace, SortedByHandleTime, Sorted, Free, Queued, Elems
  <2> QED
    BY <1>2, <1>4, <2>1, <2>2 DEF IInv, TypeOK
<1> QED
  BY <1>5, <1>6, <1>7 DEF GetExpiredEvent, FindEvent

(* Steps that move no event.                                                *)
LEMMA ListsUntouched ==
    ASSUME IInv, UNCHANGED <<ev, sending, queue, current>>, (stage = "get") <=> (stage' = "get")
    PROVE  OnePlace' /\ SortedByHandleTime'
BY DEF IInv, OnePlace, SortedByHandleTime, Sorted, Free, Queued, Elems

LEMMA CancelOrOrphanKeepsIInv ==
    ASSUME ConstantsAssumption, IInv, Cancel \/ \E h \in Handler : RemoveOrphan(h)
    PROVE  IInv'
<1>1. /\ \E R : RemoveMatching(R)
      /\ held' = held /\ dtor' \in [Handler -> {"no", "app", "loop", "done"}]
  <2>1. CASE Cancel
    <3>1. UNCHANGED handlerVars
      BY <2>1 DEF Cancel, RemoveAllEvents, RemoveEvent, RemoveTask
    <3>2. \E R : RemoveMatching(R)
      BY <2>1 DEF Cancel, RemoveAllEvents, RemoveEvent, RemoveTask
    <3> QED
      BY <3>1, <3>2 DEF handlerVars, IInv, TypeOK
  <2>2. ASSUME NEW h \in Handler, RemoveOrphan(h)
        PROVE  /\ \E R : RemoveMatching(R)
               /\ held' = held /\ dtor' \in [Handler -> {"no", "app", "loop", "done"}]
    <3>1. RemoveMatching(Orphans)
      BY <2>2 DEF RemoveOrphan
    <3>2. held' = held /\ dtor' = [dtor EXCEPT ![h] = "done"]
      BY <2>2 DEF RemoveOrphan
    <3> QED
      BY <3>1, <3>2 DEF IInv, TypeOK
  <2> QED
    BY <2>1, <2>2
<1>2. PICK R : RemoveMatching(R)
  BY <1>1
<1>3. ListsOK'
  BY <1>2, ListsOfIInv, RemoveMatchingKeepsLists
<1>4. UNCHANGED <<now, sending, pickVars, loopVars>>
  BY <1>2 DEF RemoveMatching
<1> QED
  BY <1>1, <1>3, <1>4 DEF IInv, TypeOK, ListsOK, pickVars, loopVars

LEMMA NextIInv ==
    ASSUME ConstantsAssumption, IInv, [Next]_vars
    PROVE  IInv'
<1>1. CASE Send
  <2>1. ListsOK'
    BY <1>1, SendKeepsLists
  <2>2. UNCHANGED <<now, pickVars, loopVars, handlerVars>>
    BY <1>1 DEF Send, SendEvent
  <2> QED
    BY <2>1, <2>2 DEF IInv, TypeOK, ListsOK, pickVars, loopVars, handlerVars
<1>2. CASE \E e \in Event : Insert(e)
  <2>1. ListsOK'
    BY <1>2, InsertKeepsLists
  <2>2. UNCHANGED <<now, pickVars, loopVars, handlerVars>>
    BY <1>2 DEF Insert
  <2> QED
    BY <2>1, <2>2 DEF IInv, TypeOK, ListsOK, pickVars, loopVars, handlerVars
<1>3. CASE Cancel
  BY <1>3, CancelOrOrphanKeepsIInv
<1>4. CASE \E h \in Handler : RemoveOrphan(h)
  BY <1>4, CancelOrOrphanKeepsIInv
<1>5. ASSUME NEW h \in Handler, Release(h) PROVE IInv'
  <2>1. UNCHANGED <<now, sending, queueVars, pickVars, loopVars>>
    BY <1>5 DEF Release
  <2>2. held' \subseteq Handler /\ dtor' \in [Handler -> {"no", "app", "loop", "done"}]
    BY <1>5 DEF Release, IInv, TypeOK
  <2>3. OnePlace' /\ SortedByHandleTime'
    BY <2>1, ListsUntouched DEF queueVars, loopVars
  <2> QED
    BY <2>1, <2>2, <2>3 DEF IInv, TypeOK, queueVars, pickVars, loopVars
<1>6. CASE GetExpiredEvent
  BY <1>6, GetExpiredEventKeepsIInv
<1>7. CASE DistributeEvent
  <2>1. /\ UNCHANGED <<now, sending, queueVars, pickVars, current, held>>
        /\ stage = "taken" /\ stage' = "running" /\ currentHandler' \in Handler
    BY <1>7 DEF DistributeEvent, Alive
  <2>2. dtor' \in [Handler -> {"no", "app", "loop", "done"}]
    BY <1>7 DEF DistributeEvent, IInv, TypeOK
  <2>3. OnePlace' /\ SortedByHandleTime'
    BY <2>1, ListsUntouched DEF queueVars
  <2> QED
    BY <2>1, <2>2, <2>3 DEF IInv, TypeOK, queueVars, pickVars
<1>8. CASE ReleaseEvent
  <2>1. ListsOK'
    BY <1>8, ReleaseKeepsLists
  <2>2. UNCHANGED <<now, pickVars, currentHandler, handlerVars>>
    BY <1>8 DEF ReleaseEvent
  <2> QED
    BY <2>1, <2>2 DEF IInv, TypeOK, ListsOK, pickVars, handlerVars
<1>9. CASE Tick
  <2>1. now' \in 0..MaxNow /\ UNCHANGED <<sending, queueVars, pickVars, loopVars, handlerVars>>
    BY <1>9, Times DEF Tick, IInv, TypeOK
  <2>2. OnePlace' /\ SortedByHandleTime'
    BY <2>1, ListsUntouched DEF queueVars, loopVars
  <2> QED
    BY <2>1, <2>2 DEF IInv, TypeOK, queueVars, pickVars, loopVars, handlerVars
<1>10. CASE UNCHANGED vars
  <2>1. OnePlace' /\ SortedByHandleTime'
    BY <1>10, ListsUntouched DEF vars, queueVars, loopVars
  <2> QED
    BY <1>10, <2>1 DEF IInv, TypeOK, vars, queueVars, pickVars, loopVars, handlerVars
<1> QED
  BY <1>1, <1>2, <1>3, <1>4, <1>5, <1>6, <1>7, <1>8, <1>9, <1>10 DEF Next, Destroy, Consume

\* Every variable keeps its type, whatever the number of events, handlers and
\* turns; every InnerEvent is in one place only; and every list is sorted by
\* handle time, so that the binary search of Insert is legitimate.
THEOREM QueueInvariant == Spec => []IInv
<1>1. Init => IInv
  BY InitIInv, ConstantsAssumption
<1>2. IInv /\ [Next]_vars => IInv'
  BY NextIInv, ConstantsAssumption
<1> QED
  BY <1>1, <1>2, PTL DEF Spec

\* The variables of the queue have their types: in particular no sub queue's
\* handledEventsCount exceeds maxHandledEventsCount.
THEOREM TypeCorrect == Spec => []TypeOK
<1>1. IInv => TypeOK
  BY DEF IInv
<1> QED
  BY <1>1, QueueInvariant, PTL

\* No InnerEvent is in two lists, twice in one list, or recycled while a list,
\* a sender or the loop thread refers to it.
THEOREM EventsAreInOnePlace == Spec => []OnePlace
<1>1. IInv => OnePlace
  BY DEF IInv
<1> QED
  BY <1>1, QueueInvariant, PTL

\* The lists stay sorted although events are stamped outside queueLock_.
THEOREM ListsStaySorted == Spec => []SortedByHandleTime
<1>1. IInv => SortedByHandleTime
  BY DEF IInv
<1> QED
  BY <1>1, QueueInvariant, PTL

-----------------------------------------------------------------------------
(* Which events can be in a list after a step, for those who wait for them. *)

LEMMA RemovedEventsOnly ==
    ASSUME ConstantsAssumption, IInv, NEW R, RemoveMatching(R), NEW p \in Sub,
           NEW e \in Elems(queue'[p])
    PROVE  e \in Elems(queue[p]) /\ ev'[e] = ev[e]
<1>1. ListsOK /\ p \in Priority
    BY ListsOfIInv, Times
<1>2. queue[p] \in Seq(Event)
    BY <1>1 DEF ListsOK
<1>3. queue'[p] = Without(queue[p], R)
    BY <1>1 DEF RemoveMatching
<1>4. e \in Elems(queue[p]) /\ e \notin R
    BY <1>2, <1>3, WithoutElems
<1>5. e \in Event
    BY <1>1, <1>4, QueuedEvents DEF ListsOK
<1> QED
    BY <1>4, <1>5 DEF RemoveMatching, Recycle

LEMMA StampedElsewhere ==
    ASSUME ConstantsAssumption, IInv, NEW e \in Free, NEW f, ev' = [ev EXCEPT ![e] = f],
           queue' = queue, NEW p \in Sub, NEW d \in Elems(queue'[p])
    PROVE  d \in Elems(queue[p]) /\ ev'[d] = ev[d]
<1>1. ListsOK /\ p \in Priority
    BY ListsOfIInv, Times
<1>2. d \in Queued /\ d \in Event
    BY <1>1, QueuedEvents DEF ListsOK
<1>3. d # e
    BY <1>2 DEF Free
<1> QED
    BY <1>1, <1>2, <1>3 DEF ListsOK

LEMMA InsertedEventOnly ==
    ASSUME ConstantsAssumption, IInv, NEW e \in Event, Insert(e), NEW p \in Sub,
           NEW d \in Elems(queue'[p])
    PROVE  d \in Elems(queue[p]) \/ (d = e /\ ev[e].prio # IDLE)
<1>1. ListsOK /\ p \in Priority /\ p # IDLE
  BY ListsOfIInv, Times DEF Sub, IDLE
<1>2. e \in sending /\ queue' = [queue EXCEPT ![ev[e].prio] = InsertEvent(queue[ev[e].prio], e)]
  BY DEF Insert
<1>3. CASE ev[e].prio = p
  <2>1. queue[p] \in Seq(Event) /\ Sorted(queue[p]) /\ IsInjective(queue[p]) /\ e \notin Elems(queue[p])
    BY <1>1, <1>2, QueuedEvents DEF ListsOK, OnePlace, SortedByHandleTime
  <2>2. Elems(InsertEvent(queue[p], e)) = Elems(queue[p]) \cup {e}
    BY <1>1, <2>1, InsertElems DEF ListsOK
  <2>3. queue'[p] = InsertEvent(queue[p], e)
    BY <1>1, <1>2, <1>3 DEF ListsOK
  <2> QED
    BY <1>1, <1>3, <2>2, <2>3
<1>4. CASE ev[e].prio # p
  BY <1>1, <1>2, <1>4 DEF ListsOK
<1> QED
  BY <1>3, <1>4

LEMMA HeadIsEarliest ==
    ASSUME ConstantsAssumption, IInv, NEW p \in Priority, NEW e \in Elems(queue[p])
    PROVE  /\ queue[p] # <<>> /\ HeadTime(p) <= ev[e].handle
           /\ HeadTime(p) \in Nat /\ ev[e].handle \in Nat
<1>1. ListsOK
  BY ListsOfIInv
<1>2. queue[p] \in Seq(Event) /\ Sorted(queue[p]) /\ DOMAIN queue[p] = 1..Len(queue[p])
  BY <1>1, LenProperties DEF ListsOK, SortedByHandleTime
<1>3. PICK i \in 1..Len(queue[p]) : queue[p][i] = e
  BY <1>2 DEF Elems
<1>4. queue[p] # <<>> /\ Head(queue[p]) = queue[p][1]
  BY <1>2, <1>3
<1>5. HeadTime(p) \in Nat
  BY <1>1, <1>4, HeadTimes, Times
<1>6. ev[e].handle \in Nat
  BY <1>1, <1>2, <1>3, FieldTypes DEF ListsOK
<1>7. CASE i = 1
  BY <1>3, <1>4, <1>5, <1>6, <1>7 DEF HeadTime
<1>8. CASE i # 1
  <2>1. 1 \in 1..Len(queue[p]) /\ 1 < i
    BY <1>3, <1>8
  <2>2. ev[queue[p][1]].handle <= ev[queue[p][i]].handle
    BY <1>2, <2>1 DEF Sorted
  <2> QED
    BY <1>3, <1>4, <1>5, <1>6, <2>2 DEF HeadTime
<1> QED
  BY <1>4, <1>5, <1>6, <1>7, <1>8

LEMMA ScanSeesAll ==
    ASSUME ConstantsAssumption, IInv, NEW p \in Sub, NEW e \in Elems(queue[p])
    PROVE  Earliest({HeadTime(j) : j \in NonEmpty}) <= ev[e].handle
<1>1. ListsOK /\ p \in Priority
  BY ListsOfIInv, Times
<1>2. /\ queue[p] # <<>> /\ HeadTime(p) <= ev[e].handle
      /\ HeadTime(p) \in Nat /\ ev[e].handle \in Nat
  BY <1>1, HeadIsEarliest
<1>3. p \in NonEmpty
  BY <1>2 DEF NonEmpty
<1>4. /\ Earliest({HeadTime(j) : j \in NonEmpty}) <= HeadTime(p)
      /\ Earliest({HeadTime(j) : j \in NonEmpty}) \in Nat
  BY <1>1, <1>3, CandidateHeads, EarliestTime, Times
<1> QED
  BY <1>2, <1>4
=============================================================================
