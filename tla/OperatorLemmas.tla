---------------------------- MODULE OperatorLemmas ----------------------------
(***************************************************************************)
(* What the proofs about several components need to know of the operators  *)
(* those components use: the greatest element of a set (Max), and the      *)
(* entries of a log at some of its places, in order (InOrder).             *)
(***************************************************************************)
EXTENDS Selection, FiniteSetsExt, TLAPS, SequenceTheorems, FiniteSetTheorems,
        WellFoundedInduction

-----------------------------------------------------------------------------
(* Extremes of a finite set of integers that is not empty                  *)

\* Some element of the set is at least as great as all the others.
LEMMA GreatestExists ==
    ASSUME NEW S \in SUBSET Int, S # {}, IsFiniteSet(S)
    PROVE  \E m \in S : \A x \in S : m >= x
<1> DEFINE Dominating(T) == \A x \in S : \E y \in T : y >= x
           C == {T \in SUBSET S : Dominating(T)}
           R == StrictSubsetOrdering(S)
<1>1. IsWellFoundedOn(R, FiniteSubsetsOf(S))
  BY FS_StrictSubsetOrderingWellFounded
<1>2. C \subseteq FiniteSubsetsOf(S)
  BY FS_Subset DEF FiniteSubsetsOf
<1>3. S \in C
  BY SMT
<1>4. PICK T \in C : \A U \in C : <<U, T>> \notin R
  <2> HIDE DEF R, C
  <2>1. C # {}  BY <1>3
  <2> QED BY <1>1, <1>2, <2>1, WFMin
<1>5. PICK m \in T : TRUE
  BY <1>3
<1>6. \A x \in T : m >= x
  <2>1. SUFFICES ASSUME NEW x \in T, x > m PROVE FALSE
    BY SMT
  <2>2. T \ {m} \in C
    BY <2>1, SMT
  <2>3. <<T \ {m}, T>> \in R
    BY <1>5 DEF StrictSubsetOrdering
  <2> QED BY <1>4, <2>2, <2>3
<1> QED BY <1>6, SMT

\* The Max that init() uses to find the last line of the tail is that element.
LEMMA MaxIsGreatest ==
    ASSUME NEW S \in SUBSET Int, S # {}, IsFiniteSet(S)
    PROVE  Max(S) \in S /\ \A x \in S : Max(S) >= x
  BY GreatestExists DEF Max

\* A finite set of integers that is not empty has a least element.
LEMMA LeastExists ==
    ASSUME NEW S \in SUBSET Int, S # {}, IsFiniteSet(S)
    PROVE  \E m \in S : \A x \in S : m <= x
<1> DEFINE Bounding(T) == \A x \in S : \E y \in T : y <= x
           C == {T \in SUBSET S : Bounding(T)}
           R == StrictSubsetOrdering(S)
<1>1. IsWellFoundedOn(R, FiniteSubsetsOf(S))  BY FS_StrictSubsetOrderingWellFounded
<1>2. C \subseteq FiniteSubsetsOf(S)  BY FS_Subset DEF FiniteSubsetsOf
<1>3. S \in C  BY SMT
<1>4. PICK T \in C : \A U \in C : <<U, T>> \notin R
  <2> HIDE DEF R, C
  <2>1. C # {}  BY <1>3
  <2> QED BY <1>1, <1>2, <2>1, WFMin
<1>5. PICK m \in T : TRUE  BY <1>3
<1>6. \A x \in T : m <= x
  <2>1. SUFFICES ASSUME NEW x \in T, x < m PROVE FALSE  BY SMT
  <2>2. T \ {m} \in C  BY <2>1, SMT
  <2>3. <<T \ {m}, T>> \in R  BY <1>5 DEF StrictSubsetOrdering
  <2> QED BY <1>4, <2>2, <2>3
<1> QED BY <1>6, SMT

\* The Min that the verifiers use to find the first of some lines is the least.
LEMMA MinIsLeast ==
    ASSUME NEW S \in SUBSET Int, S # {}, IsFiniteSet(S)
    PROVE  Min(S) \in S /\ \A x \in S : Min(S) <= x
  BY LeastExists DEF Min

-----------------------------------------------------------------------------
(* Counting the places of a log                                            *)

\* Places of a log are a finite set, none of them beyond its end.
LEMMA PlacesFinite ==
    ASSUME NEW L \in Nat, NEW P \in SUBSET (1..L)
    PROVE  IsFiniteSet(P) /\ Cardinality(P) \in Nat
<1>1. IsFiniteSet(1..L)  BY FS_Interval
<1>2. IsFiniteSet(P)  BY <1>1, FS_Subset
<1> QED BY <1>2, FS_CardinalityType

\* Another place at the end comes after all the others.
LEMMA NthWithLast ==
    ASSUME NEW L \in Nat, NEW P \in SUBSET (1..L)
    PROVE  LET n == Cardinality(P)
           IN  /\ Cardinality(P \cup {L + 1}) = n + 1
               /\ \A k \in 1..n : Nth(P \cup {L + 1}, k) = Nth(P, k)
               /\ Nth(P \cup {L + 1}, n + 1) = L + 1
<1> DEFINE Q == P \cup {L + 1}
           n == Cardinality(P)
           Upto(T, i) == {j \in T : j <= i}
<1>1. IsFiniteSet(P) /\ n \in Nat  BY PlacesFinite
<1>2. IsFiniteSet(Q) /\ Cardinality(Q) = n + 1
  <2>1. L + 1 \notin P  OBVIOUS
  <2> QED BY <1>1, <2>1, FS_AddElement
<1>3. \A i \in P : Upto(Q, i) = Upto(P, i) /\ Cardinality(Upto(P, i)) <= n
  <2>1. ASSUME NEW i \in P PROVE Upto(Q, i) = Upto(P, i)
    OBVIOUS
  <2>2. ASSUME NEW i \in P PROVE Cardinality(Upto(P, i)) <= n
    <3>1. Upto(P, i) \in SUBSET P  OBVIOUS
    <3> HIDE DEF Upto
    <3> QED BY <1>1, <3>1, FS_Subset
  <2> QED BY <2>1, <2>2
<1>4. Upto(Q, L + 1) = Q
  <2>1. \A j \in Q : j <= L + 1  OBVIOUS
  <2> HIDE DEF Q
  <2> QED BY <2>1
<1>5. ASSUME NEW k \in 1..n PROVE Nth(Q, k) = Nth(P, k)
  <2>1. ASSUME NEW i PROVE i \in Q /\ Cardinality(Upto(Q, i)) = k
                           <=> i \in P /\ Cardinality(Upto(P, i)) = k
    <3> HIDE DEF Upto
    <3>1. CASE i \in P  BY <1>3, <3>1
    <3>2. CASE i = L + 1  BY <1>1, <1>2, <1>4, <3>2
    <3> QED BY <3>1, <3>2
  <2> HIDE DEF Q, Upto
  <2> QED BY <2>1 DEF Nth, Upto
<1>6. Nth(Q, n + 1) = L + 1
  <2>1. \A i \in Q : Cardinality(Upto(Q, i)) = n + 1 <=> i = L + 1
    <3> SUFFICES ASSUME NEW i \in Q PROVE Cardinality(Upto(Q, i)) = n + 1 <=> i = L + 1
      OBVIOUS
    <3>1. CASE i \in P
      <4>1. i # L + 1  BY <3>1
      <4>2. Cardinality(Upto(P, i)) \in Nat
        <5>1. Upto(P, i) \in SUBSET (1..L)  OBVIOUS
        <5> HIDE DEF Upto
        <5> QED BY <5>1, PlacesFinite
      <4>3. Upto(Q, i) = Upto(P, i) /\ Cardinality(Upto(P, i)) <= n  BY <1>3, <3>1
      <4> HIDE DEF Upto, Q
      <4> QED BY <1>1, <4>1, <4>2, <4>3
    <3>2. CASE i = L + 1  BY <1>2, <1>4, <3>2
    <3> QED BY <3>1, <3>2
  <2>2. L + 1 \in Q  OBVIOUS
  <2> HIDE DEF Q
  <2> QED BY <2>1, <2>2 DEF Nth
<1> HIDE DEF Q
<1> QED BY <1>2, <1>5, <1>6 DEF Q

\* The n-th place is one of the places, and n of them are not after it.
LEMMA NthCounts ==
    ASSUME NEW L \in Nat, NEW P \in SUBSET (1..L), NEW k \in 1..Cardinality(P)
    PROVE  Nth(P, k) \in P /\ Cardinality({j \in P : j <= Nth(P, k)}) = k
<1> DEFINE Upto(i) == {j \in P : j <= i}
           Late == {i \in P : Cardinality(Upto(i)) >= k}
<1>1. IsFiniteSet(P) /\ Cardinality(P) \in Nat  BY PlacesFinite
<1>2. \A i \in P : Upto(i) \in SUBSET (1..L) /\ IsFiniteSet(Upto(i)) /\ Cardinality(Upto(i)) \in Nat
  <2> SUFFICES ASSUME NEW i \in P
               PROVE  Upto(i) \in SUBSET (1..L) /\ IsFiniteSet(Upto(i)) /\ Cardinality(Upto(i)) \in Nat
    OBVIOUS
  <2>1. Upto(i) \in SUBSET (1..L)  OBVIOUS
  <2> HIDE DEF Upto
  <2> QED BY <2>1, PlacesFinite
<1>3. PICK m \in Late : \A i \in Late : m <= i
  <2>1. PICK g \in P : \A i \in P : g >= i
    <3>1. P # {}  BY <1>1, FS_EmptySet
    <3> QED BY <1>1, <3>1, GreatestExists
  <2>2. Upto(g) = P  BY <2>1
  <2>3. g \in Late
    <3> HIDE DEF Upto
    <3> QED BY <1>1, <2>2
  <2>4. Late \in SUBSET P /\ Late \in SUBSET Int
    <3>1. \A i \in Late : i \in P /\ i \in Int  OBVIOUS
    <3> HIDE DEF Late
    <3> QED BY <3>1
  <2>5. IsFiniteSet(Late)  BY <1>1, <2>4, FS_Subset
  <2> HIDE DEF Late
  <2> QED BY <2>3, <2>4, <2>5, LeastExists
<1>4. Cardinality(Upto(m)) = k
  <2> DEFINE Before == Upto(m) \ {m}
  <2>1. m \in Upto(m) /\ m \in P  OBVIOUS
  <2>2. Cardinality(Before) = Cardinality(Upto(m)) - 1 /\ IsFiniteSet(Before)
    <3> HIDE DEF Upto
    <3> QED BY <1>2, <2>1, FS_RemoveElement
  <2>3. Cardinality(Before) < k
    <3>1. CASE Before = {}
      BY <3>1, FS_EmptySet
    <3>2. CASE Before # {}
      <4>1. PICK g \in Before : \A i \in Before : g >= i
        <5>1. \A i \in Before : i \in Int  OBVIOUS
        <5> HIDE DEF Before
        <5> QED BY <2>2, <3>2, <5>1, GreatestExists
      <4>2. g \in P /\ g < m  OBVIOUS
      <4>3. Upto(g) = Before
        <5>1. \A j \in Upto(g) : j \in Before  BY <4>2
        <5>2. \A j \in Before : j \in Upto(g)  BY <4>1
        <5> HIDE DEF Before, Upto
        <5> QED BY <5>1, <5>2
      <4>4. ~(Cardinality(Upto(g)) >= k)
        <5> HIDE DEF Upto
        <5> QED BY <1>3, <4>2
      <4>5. Cardinality(Upto(g)) \in Nat  BY <1>2, <4>2
      <4> HIDE DEF Upto, Before
      <4> QED BY <4>3, <4>4, <4>5
    <3> QED BY <3>1, <3>2
  <2>4. Cardinality(Upto(m)) >= k /\ Cardinality(Upto(m)) \in Nat
    <3> HIDE DEF Upto
    <3> QED BY <1>2
  <2> HIDE DEF Upto, Before
  <2> QED BY <2>2, <2>3, <2>4
<1>5. m \in P /\ Cardinality({j \in P : j <= m}) = k  BY <1>4
<1> QED BY <1>5 DEF Nth

\* The n-th place is one of the places, if there are that many.
LEMMA NthIsPlace ==
    ASSUME NEW L \in Nat, NEW P \in SUBSET (1..L), NEW k \in 1..Cardinality(P)
    PROVE  Nth(P, k) \in P
  BY NthCounts

\* Of two places the one of the lower number comes first.
LEMMA NthInOrder ==
    ASSUME NEW L \in Nat, NEW P \in SUBSET (1..L),
           NEW k \in 1..Cardinality(P), NEW l \in 1..Cardinality(P), k < l
    PROVE  Nth(P, k) < Nth(P, l)
<1> DEFINE Upto(i) == {j \in P : j <= i}
           s == Nth(P, k)
           t == Nth(P, l)
<1>1. /\ s \in P /\ Cardinality(Upto(s)) = k
      /\ t \in P /\ Cardinality(Upto(t)) = l
  BY NthCounts
<1>2. s \in 1..L /\ t \in 1..L
  <2> HIDE DEF s, t
  <2> QED BY <1>1
<1> HIDE DEF s, t
<1>3. SUFFICES ASSUME t <= s PROVE FALSE  BY <1>2 DEF s, t
<1>4. Upto(t) \subseteq Upto(s)
  <2>1. \A j \in P : j \in Int  OBVIOUS
  <2>2. \A j \in P : j <= t => j <= s  BY <1>2, <1>3, <2>1
  <2> QED BY <2>2
<1>5. Upto(s) \in SUBSET (1..L)  BY <1>2
<1> HIDE DEF Upto
<1>6. Cardinality(Upto(t)) <= Cardinality(Upto(s))  BY <1>4, <1>5, PlacesFinite, FS_Subset
<1> QED BY <1>1, <1>6

\* Every place is the n-th, where n of them are not after it.
LEMMA PlaceIsNth ==
    ASSUME NEW L \in Nat, NEW P \in SUBSET (1..L), NEW s \in P
    PROVE  \E k \in 1..Cardinality(P) : Nth(P, k) = s
<1> DEFINE Upto(i) == {j \in P : j <= i}
           k == Cardinality(Upto(s))
           t == Nth(P, k)
<1>1. IsFiniteSet(P) /\ Cardinality(P) \in Nat  BY PlacesFinite
<1>2. \A i \in P : /\ Upto(i) \subseteq P /\ IsFiniteSet(Upto(i))
                   /\ Cardinality(Upto(i)) \in Nat /\ Cardinality(Upto(i)) <= Cardinality(P)
  <2> SUFFICES ASSUME NEW i \in P
               PROVE  /\ Upto(i) \subseteq P /\ IsFiniteSet(Upto(i))
                      /\ Cardinality(Upto(i)) \in Nat /\ Cardinality(Upto(i)) <= Cardinality(P)
    OBVIOUS
  <2>1. Upto(i) \subseteq P  OBVIOUS
  <2> HIDE DEF Upto
  <2> QED BY <1>1, <2>1, FS_Subset, FS_CardinalityType
\* Of two places the later has more places up to it.
<1>3. ASSUME NEW i \in P, NEW j \in P, i < j
      PROVE  Cardinality(Upto(i)) < Cardinality(Upto(j))
  <2>1. j \in Upto(j) /\ j \notin Upto(i) /\ Upto(i) \subseteq Upto(j)
    <3>1. \A l \in P : l \in Int  OBVIOUS
    <3>2. j <= j /\ ~(j <= i) /\ \A l \in P : l <= i => l <= j  BY <1>3, <3>1
    <3> QED BY <3>2
  <2> HIDE DEF Upto
  <2>2. Upto(i) \subseteq Upto(j) \ {j}  BY <2>1
  <2>3. IsFiniteSet(Upto(j) \ {j}) /\ Cardinality(Upto(j) \ {j}) = Cardinality(Upto(j)) - 1
    BY <1>2, <2>1, FS_RemoveElement
  <2>4. Cardinality(Upto(i)) <= Cardinality(Upto(j) \ {j})  BY <2>2, <2>3, FS_Subset
  <2> QED BY <1>2, <2>3, <2>4
<1>4. k \in 1..Cardinality(P)
  <2>1. s \in Upto(s)  OBVIOUS
  <2> HIDE DEF Upto
  <2>2. Cardinality(Upto(s)) # 0  BY <1>2, <2>1, FS_EmptySet
  <2> QED BY <1>1, <1>2, <2>2
<1>5. t \in P /\ Cardinality(Upto(t)) = k
  <2> HIDE DEF k
  <2> QED BY <1>4, NthCounts
<1> HIDE DEF t, Upto
<1>6. t \in Int /\ s \in Int  BY <1>5
<1>7. t = s  BY <1>2, <1>3, <1>5, <1>6
<1> QED BY <1>4, <1>7 DEF t

\* Nothing is selected from no places.
LEMMA SelectNone ==
    ASSUME NEW seq
    PROVE  InOrder(seq, {}) = <<>>
<1>1. Cardinality({}) = 0  BY FS_EmptySet
<1>2. 1..0 = {}  OBVIOUS
<1> QED BY <1>1, <1>2 DEF InOrder

\* What is selected are entries at the places.
LEMMA SelectType ==
    ASSUME NEW S, NEW seq \in Seq(S), NEW P \in SUBSET (1..Len(seq))
    PROVE  /\ InOrder(seq, P) \in Seq(S)
           /\ \A n \in DOMAIN InOrder(seq, P) : \E i \in P : InOrder(seq, P)[n] = seq[i]
<1>1. Len(seq) \in Nat  OBVIOUS
<1>2. Cardinality(P) \in Nat  BY <1>1, PlacesFinite
<1>3. \A n \in 1..Cardinality(P) : Nth(P, n) \in P  BY <1>1, NthIsPlace
<1>4. \A i \in P : seq[i] \in S  BY ElementOfSeq
<1>5. InOrder(seq, P) \in [1..Cardinality(P) -> S]
  BY <1>3, <1>4 DEF InOrder
<1>6. InOrder(seq, P) \in Seq(S)  BY <1>2, <1>5
<1> QED BY <1>3, <1>6 DEF InOrder

\* Another entry: it is not selected at the old places, and comes last if its
\* own place is selected too.
GrowsBy(seq, P, e) ==
    /\ InOrder(Append(seq, e), P) = InOrder(seq, P)
    /\ InOrder(Append(seq, e), P \cup {Len(seq) + 1}) = Append(InOrder(seq, P), e)

LEMMA SelectAppend ==
    ASSUME NEW S, NEW seq \in Seq(S), NEW e \in S, NEW P \in SUBSET (1..Len(seq))
    PROVE  GrowsBy(seq, P, e)
<1> DEFINE L == Len(seq)
           longer == Append(seq, e)
           n == Cardinality(P)
           Q == P \cup {L + 1}
<1>1. L \in Nat /\ \A i \in 1..L : longer[i] = seq[i]
  BY AppendProperties
<1>2. longer[L + 1] = e
  BY AppendProperties
<1>3. n \in Nat  BY <1>1, PlacesFinite
<1>4. \A k \in 1..n : Nth(P, k) \in 1..L  BY <1>1, NthIsPlace
<1>5. InOrder(longer, P) = InOrder(seq, P)
  <2> HIDE DEF longer, L
  <2> QED BY <1>1, <1>4 DEF InOrder
<1>6. InOrder(longer, Q) = Append(InOrder(seq, P), e)
  <2>1. /\ Cardinality(Q) = n + 1
        /\ \A k \in 1..n : Nth(Q, k) = Nth(P, k)
        /\ Nth(Q, n + 1) = L + 1
    BY <1>1, NthWithLast
  <2>2. InOrder(seq, P) \in Seq(S) /\ Len(InOrder(seq, P)) = n
    BY <1>3, SelectType DEF InOrder
  <2>3. /\ Append(InOrder(seq, P), e) \in Seq(S)
        /\ Len(Append(InOrder(seq, P), e)) = n + 1
        /\ \A k \in 1..n : Append(InOrder(seq, P), e)[k] = InOrder(seq, P)[k]
        /\ Append(InOrder(seq, P), e)[n + 1] = e
    BY <2>2, AppendProperties
  <2>4. \A k \in 1..n : InOrder(seq, P)[k] = seq[Nth(P, k)]
    BY DEF InOrder
  <2>5. \A k \in 1..(n + 1) : longer[Nth(Q, k)] = Append(InOrder(seq, P), e)[k]
    <3> SUFFICES ASSUME NEW k \in 1..(n + 1)
                 PROVE  longer[Nth(Q, k)] = Append(InOrder(seq, P), e)[k]
      OBVIOUS
    <3> HIDE DEF longer, L, Q
    <3>1. CASE k \in 1..n  BY <1>1, <1>4, <2>1, <2>3, <2>4, <3>1
    <3>2. CASE k = n + 1  BY <1>2, <2>1, <2>3, <3>2
    <3>3. k \in 1..n \/ k = n + 1
      <4>1. \A m \in Nat : \A i \in 1..(m + 1) : i \in 1..m \/ i = m + 1  OBVIOUS
      <4> QED BY <1>3, <4>1
    <3> QED BY <3>1, <3>2, <3>3
  <2>6. InOrder(longer, Q) = [k \in 1..(n + 1) |-> longer[Nth(Q, k)]]
    <3> HIDE DEF longer, Q
    <3> QED BY <2>1 DEF InOrder
  <2>7. Append(InOrder(seq, P), e) =
           [k \in 1..(n + 1) |-> Append(InOrder(seq, P), e)[k]]
    <3>1. ASSUME NEW m, NEW t \in Seq(S), Len(t) = m PROVE t = [k \in 1..m |-> t[k]]
      BY <3>1
    <3> QED BY <2>3, <3>1
  <2> HIDE DEF longer, Q
  <2> QED BY <2>5, <2>6, <2>7
<1> QED BY <1>5, <1>6 DEF GrowsBy

=============================================================================
