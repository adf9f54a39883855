--------------------------- MODULE SequenceLemmas ---------------------------
(***************************************************************************)
(* Facts that the proofs of several components need.  The queue of an       *)
(* asyncio lock (a deque of the waiting tasks): who waits in it after a     *)
(* task joins it, gets its turn, or is cancelled.  Sets of numbers: the     *)
(* least of them, which stands in for induction, and the places of a        *)
(* sequence counted in order.                                               *)
(***************************************************************************)
EXTENDS Integers, Sequences, SequenceTheorems, FiniteSetTheorems, TLAPS

\* Task t is in the queue q.
Waits(q, t) == \E i \in DOMAIN q : q[i] = t

\* The queue without its i-th task.
Without(q, i) == SubSeq(q, 1, i - 1) \o SubSeq(q, i + 1, Len(q))

LEMMA QueueJoin ==
  ASSUME NEW T, NEW q \in Seq(T), NEW t \in T
  PROVE  /\ Append(q, t) \in Seq(T)
         /\ Waits(Append(q, t), t)
         /\ \A u : Waits(q, u) => Waits(Append(q, t), u)
<1> DEFINE r == Append(q, t)
<1>1. r \in Seq(T) /\ Len(r) = Len(q) + 1 OBVIOUS
<1>2. r[Len(q) + 1] = t OBVIOUS
<1>3. \A i \in DOMAIN q : i \in DOMAIN r /\ r[i] = q[i] OBVIOUS
<1>4. Len(q) + 1 \in DOMAIN r BY <1>1
<1> HIDE DEF r
<1>5. Waits(r, t) BY <1>2, <1>4 DEF Waits
<1>6. \A u : Waits(q, u) => Waits(r, u) BY <1>3 DEF Waits
<1> QED BY <1>1, <1>5, <1>6 DEF r

LEMMA QueueTurn ==
  ASSUME NEW T, NEW q \in Seq(T), NEW t, Head(q) = t, Waits(q, t)
  PROVE  /\ q # <<>>
         /\ Tail(q) \in Seq(T)
         /\ \A u : u # t /\ Waits(q, u) => Waits(Tail(q), u)
<1>1. q # <<>> BY DEF Waits
<1>2. /\ Tail(q) \in Seq(T) /\ Len(Tail(q)) = Len(q) - 1
      /\ \A i \in 1..Len(Tail(q)) : Tail(q)[i] = q[i + 1]
  BY <1>1, HeadTailProperties
<1>3. ASSUME NEW u, u # t, Waits(q, u) PROVE Waits(Tail(q), u)
  <2>1. PICK i \in 1..Len(q) : q[i] = u BY <1>3 DEF Waits
  <2>2. i # 1 BY <2>1, <1>1, <1>3
  <2>3. i - 1 \in 1..Len(Tail(q)) BY <2>1, <2>2, <1>2
  <2>4. Tail(q)[i - 1] = q[i] BY <2>3, <1>2
  <2>5. DOMAIN Tail(q) = 1..Len(Tail(q)) BY <1>2
  <2> QED BY <2>1, <2>3, <2>4, <2>5 DEF Waits
<1> QED BY <1>1, <1>2, <1>3

LEMMA QueueLeave ==
  ASSUME NEW T, NEW q \in Seq(T), NEW k \in DOMAIN q
  PROVE  /\ Without(q, k) \in Seq(T)
         /\ \A u : u # q[k] /\ Waits(q, u) => Waits(Without(q, k), u)
<1> DEFINE front == SubSeq(q, 1, k - 1)
           back  == SubSeq(q, k + 1, Len(q))
<1>0. k \in 1..Len(q) /\ Len(q) \in Nat OBVIOUS
<1>1. /\ front \in Seq(T) /\ Len(front) = k - 1
      /\ \A i \in 1..(k - 1) : front[i] = q[i]
  BY <1>0
<1>2. /\ back \in Seq(T) /\ Len(back) = Len(q) - k
      /\ \A i \in 1..(Len(q) - k) : back[i] = q[k + i]
  BY <1>0
<1>3. Without(q, k) = front \o back BY DEF Without
<1> HIDE DEF front, back
<1> DEFINE r == front \o back
<1>4. /\ r \in Seq(T) /\ Len(r) = Len(front) + Len(back)
      /\ \A i \in 1..(Len(front) + Len(back)) :
           r[i] = IF i <= Len(front) THEN front[i] ELSE back[i - Len(front)]
  BY <1>1, <1>2, ConcatProperties
<1>5. DOMAIN r = 1..(Len(q) - 1) BY <1>0, <1>1, <1>2, <1>4
<1> HIDE DEF r
<1>6. ASSUME NEW u, u # q[k], Waits(q, u) PROVE Waits(r, u)
  <2>1. PICK i \in 1..Len(q) : q[i] = u BY <1>6 DEF Waits
  <2>2. CASE i < k
    <3>1. i \in 1..(k - 1) /\ i \in DOMAIN r BY <1>0, <1>5, <2>2
    <3>2. r[i] = u BY <3>1, <2>1, <1>0, <1>1, <1>2, <1>4
    <3> QED BY <3>1, <3>2 DEF Waits
  <2>3. CASE i > k
    <3>1. i - k \in 1..(Len(q) - k) /\ i - 1 \in DOMAIN r BY <1>0, <1>5, <2>3
    <3>2. r[i - 1] = back[i - k]
      <4>1. (i - 1) - Len(front) = i - k /\ ~(i - 1 <= Len(front)) BY <2>3, <1>0, <1>1
      <4>2. i - 1 \in 1..(Len(front) + Len(back)) BY <3>1, <1>0, <1>1, <1>2, <1>5
      <4> QED BY <4>1, <4>2, <1>4
    <3>3. back[i - k] = q[i] BY <3>1, <1>0, <1>2
    <3> QED BY <3>1, <3>2, <3>3, <2>1 DEF Waits
  <2> QED BY <2>1, <2>2, <2>3, <1>0, <1>6
<1> QED BY <1>3, <1>4, <1>6 DEF r
-----------------------------------------------------------------------------
(* Numbers and places.                                                     *)

LEMMA Least ==
  ASSUME NEW T \in SUBSET Nat, T # {}
  PROVE  \E m \in T : \A k \in T : m <= k
<1>1. \E R : IsWellFoundedOn(R, Nat) /\ \A x, y \in Nat : x < y => <<x, y>> \in R
  <2> DEFINE R == OpToRel(<, Nat)
  <2>1. \A x, y \in Nat : x < y => <<x, y>> \in R BY DEF OpToRel
  <2>2. IsWellFoundedOn(R, Nat) BY NatLessThanWellFounded
  <2> HIDE DEF R
  <2> QED BY <2>1, <2>2, Zenon
<1>2. PICK R : IsWellFoundedOn(R, Nat) /\ \A x, y \in Nat : x < y => <<x, y>> \in R
  BY <1>1
<1>3. T \subseteq Nat /\ T # {} OBVIOUS
<1>4. \E x \in T : \A y \in T : ~ (<<y, x>> \in R)
  <2>1. IsWellFoundedOn(R, Nat) BY <1>2
  <2> QED BY <2>1, <1>3, WFMin, Zenon
<1>5. PICK m \in T : \A y \in T : ~ (<<y, m>> \in R) BY <1>4
<1>6. ASSUME NEW k \in T PROVE m <= k
  <2>1. k \in Nat /\ m \in Nat OBVIOUS
  <2>2. ~ (k < m) BY <2>1, <1>2, <1>5
  <2> QED BY <2>1, <2>2
<1> QED BY <1>6

\* How many of the places are at i or before.
Rank(places, i) == Cardinality({j \in places : j <= i})

\* Every rank up to the last is that of a place.
LEMMA Ranked ==
  ASSUME NEW n \in Nat, NEW places \in SUBSET (1..n), NEW k \in 1..Cardinality(places)
  PROVE  \E i \in places : Rank(places, i) = k
<1> DEFINE upto(i) == {j \in places : j <= i}
           T == {i \in 0..n : Rank(places, i) >= k}
<1>1. IsFiniteSet(places) /\ Cardinality(places) \in Nat
  <2>1. IsFiniteSet(1..n) BY FS_Interval
  <2>2. IsFiniteSet(places) BY <2>1, FS_Subset
  <2> QED BY <2>2, FS_CardinalityType
<1>2. \A i : IsFiniteSet(upto(i)) /\ Cardinality(upto(i)) \in Nat
  <2>1. ASSUME NEW i PROVE IsFiniteSet(upto(i)) /\ Cardinality(upto(i)) \in Nat
    <3>1. upto(i) \in SUBSET places OBVIOUS
    <3>2. IsFiniteSet(upto(i)) BY <3>1, <1>1, FS_Subset
    <3> QED BY <3>2, FS_CardinalityType
  <2> QED BY <2>1
<1>3. \A i : Rank(places, i) = Cardinality(upto(i)) /\ Rank(places, i) \in Nat
  BY <1>2 DEF Rank
<1>4. ASSUME NEW i \in Int
      PROVE  /\ i \in places => upto(i) = upto(i - 1) \cup {i}
             /\ i \notin places => upto(i) = upto(i - 1)
  <2>1. \A j \in places : j \in Int /\ (j <= i <=> j <= i - 1 \/ j = i) OBVIOUS
  <2>2. \A j : j \in upto(i) <=> j \in places /\ (j \in upto(i - 1) \/ j = i) BY <2>1
  <2>3. \A j \in upto(i - 1) : j \in places OBVIOUS
  <2> HIDE DEF upto
  <2> QED BY <2>2, <2>3
<1>5. \A i \in Int : i \notin upto(i - 1)
  OBVIOUS
<1>6. upto(n) = places /\ upto(0) = {}
  <2>1. \A i \in places : i \in Nat /\ i <= n /\ ~ (i <= 0) OBVIOUS
  <2> QED BY <2>1
<1> HIDE DEF upto
<1>7. Rank(places, n) = Cardinality(places) /\ Rank(places, 0) = 0
  BY <1>3, <1>6, FS_EmptySet
<1>8. n \in T /\ 0 \notin T
  BY <1>7
<1>9. PICK m \in T : \A i \in T : m <= i
  <2>1. T \in SUBSET Nat /\ T # {} BY <1>8
  <2> HIDE DEF T
  <2> QED BY <2>1, Least
<1>10. m \in 1..n /\ m - 1 \in 0..n
  BY <1>8, <1>9
<1>11. m - 1 \notin T
  BY <1>9, <1>10
<1>12. Rank(places, m) >= k /\ Rank(places, m - 1) < k
  BY <1>3, <1>9, <1>10, <1>11
<1>13. m \in places
  <2>1. SUFFICES ASSUME m \notin places PROVE FALSE OBVIOUS
  <2>2. upto(m) = upto(m - 1) BY <2>1, <1>4, <1>10
  <2>3. Rank(places, m) = Rank(places, m - 1) BY <2>2, <1>3
  <2> QED BY <2>3, <1>12, <1>3
<1>14. Rank(places, m) = Rank(places, m - 1) + 1
  <2>1. upto(m) = upto(m - 1) \cup {m} BY <1>4, <1>10, <1>13
  <2>2. m \notin upto(m - 1) BY <1>5, <1>10
  <2>3. Cardinality(upto(m)) = Cardinality(upto(m - 1)) + 1
    BY <2>1, <2>2, <1>2, FS_AddElement
  <2> QED BY <2>3, <1>3
<1>15. Rank(places, m) = k
  BY <1>12, <1>14, <1>3
<1> QED BY <1>13, <1>15

=============================================================================
