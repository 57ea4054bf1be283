---------------------------- MODULE Ranks_proofs -----------------------------
(***************************************************************************)
(* What a sorted read returns: InOrder(S) ascends through all of S, and it  *)
(* is the only sequence that does.  The rank of an element is an injection  *)
(* into as many numbers as S has elements, hence onto; no induction over S  *)
(* is needed.                                                               *)
(***************************************************************************)
EXTENDS Ranks, FiniteSetTheorems, TLAPS

Rank(S, x) == Cardinality(Below(S, x))

\* Ranks run from 0 to the size of the set, and order the elements as they are.
LEMMA RankOrders ==
  ASSUME NEW S, S \subseteq Int, IsFiniteSet(S)
  PROVE  /\ Cardinality(S) \in Nat
         /\ \A x \in S : Rank(S, x) \in 0..(Cardinality(S) - 1)
         /\ \A x, y \in S : x < y => Rank(S, x) < Rank(S, y)
<1>1. Cardinality(S) \in Nat
  BY FS_CardinalityType
<1>2. ASSUME NEW x \in S PROVE IsFiniteSet(Below(S, x)) /\ Rank(S, x) \in 0..(Cardinality(S) - 1)
  <2>1. IsFiniteSet(S \ {x}) /\ Cardinality(S \ {x}) = Cardinality(S) - 1
    BY FS_RemoveElement
  <2>2. Below(S, x) \in SUBSET (S \ {x})
    BY DEF Below
  <2>3. IsFiniteSet(Below(S, x)) /\ Cardinality(Below(S, x)) <= Cardinality(S) - 1
    BY <2>1, <2>2, FS_Subset
  <2>4. Cardinality(Below(S, x)) \in Nat
    BY <2>3, FS_CardinalityType
  <2> QED BY <1>1, <2>3, <2>4 DEF Rank
<1>3. ASSUME NEW x \in S, NEW y \in S, x < y PROVE Rank(S, x) < Rank(S, y)
  <2>1. Below(S, x) \in SUBSET Below(S, y) /\ Below(S, x) # Below(S, y)
    <3>1. \A z \in S : z < x => z < y
      BY <1>3
    <3>2. x \in Below(S, y) /\ x \notin Below(S, x)
      BY <1>3 DEF Below
    <3> QED BY <3>1, <3>2 DEF Below
  <2>2. Cardinality(Below(S, x)) <= Cardinality(Below(S, y))
        /\ Cardinality(Below(S, y)) # Cardinality(Below(S, x))
    BY <1>2, <2>1, FS_Subset
  <2> QED BY <1>2, <2>2 DEF Rank
<1> QED BY <1>1, <1>2, <1>3

\* Every rank is some element's.
LEMMA RankIsOnto ==
  ASSUME NEW S, S \subseteq Int, IsFiniteSet(S), NEW i \in 1..Cardinality(S)
  PROVE  \E x \in S : Rank(S, x) = i - 1
<1> DEFINE n == Cardinality(S)
           T == 0..(n - 1)
           rank == [x \in S |-> Rank(S, x)]
<1>1. n \in Nat /\ (\A x \in S : Rank(S, x) \in T)
      /\ \A x, y \in S : x < y => Rank(S, x) < Rank(S, y)
  BY RankOrders
<1>2. rank \in Injection(S, T)
  <2>1. rank \in [S -> T]
    BY <1>1
  <2>2. ASSUME NEW x \in S, NEW y \in S, Rank(S, x) = Rank(S, y) PROVE x = y
    <3>1. x \in Int /\ y \in Int /\ Rank(S, x) \in Int
      BY <1>1
    <3>2. ~ (x < y) /\ ~ (y < x)
      BY <1>1, <2>2, <3>1
    <3> QED BY <3>1, <3>2
  <2>3. IsInjective(rank)
    BY <2>2 DEF IsInjective
  <2> QED BY <2>1, <2>3 DEF Injection
<1>3. IsFiniteSet(T) /\ Cardinality(T) = n
  <2>1. n - 1 \in Int /\ (IF 0 > n - 1 THEN 0 ELSE n - 1 - 0 + 1) = n
    BY <1>1
  <2> HIDE DEF n
  <2> QED BY <2>1, FS_Interval
<1>4. rank \in Surjection(S, T)
  <2> HIDE DEF rank, T
  <2> QED BY <1>2, <1>3, FS_Injection
<1>5. i - 1 \in T
  BY <1>1
<1> QED BY <1>4, <1>5 DEF Surjection

\* A sorted read returns everything, each once, in ascending order.
THEOREM SortedRead ==
  ASSUME NEW S, S \subseteq Int, IsFiniteSet(S)
  PROVE  Ascends(InOrder(S), Cardinality(S), S)
<1> DEFINE n == Cardinality(S)
<1>1. n \in Nat /\ (\A x \in S : Rank(S, x) \in 0..(n - 1))
      /\ \A x, y \in S : x < y => Rank(S, x) < Rank(S, y)
  BY RankOrders
<1>2. \A i \in 1..n : InOrder(S)[i] \in S /\ Rank(S, InOrder(S)[i]) = i - 1
  BY RankIsOnto DEF InOrder, Rank
<1>3. InOrder(S) \in [1..n -> S]
  BY <1>2 DEF InOrder
<1>4. ASSUME NEW i \in 1..n, NEW j \in 1..n, i < j PROVE InOrder(S)[i] < InOrder(S)[j]
  <2> DEFINE x == InOrder(S)[i]
             y == InOrder(S)[j]
  <2>1. x \in S /\ y \in S /\ Rank(S, x) < Rank(S, y)
    BY <1>1, <1>2, <1>4
  <2> HIDE DEF x, y
  <2>2. x \in Int /\ y \in Int /\ Rank(S, x) \in Int /\ Rank(S, y) \in Int
    BY <1>1, <2>1
  <2>3. ~ (y < x) /\ x # y
    BY <1>1, <2>1, <2>2
  <2>4. x < y
    BY <2>2, <2>3
  <2> QED BY <2>4 DEF x, y
<1>5. ASSUME NEW x \in S PROVE \E i \in 1..n : InOrder(S)[i] = x
  <2>1. Rank(S, x) \in 0..(n - 1)
    BY <1>1
  <2>2. PICK i \in 1..n : i = Rank(S, x) + 1
    BY <1>1, <2>1
  <2> DEFINE y == InOrder(S)[i]
  <2>3. y \in S /\ Rank(S, y) = Rank(S, x)
    BY <1>2, <2>1, <2>2
  <2> HIDE DEF y
  <2>4. x \in Int /\ y \in Int /\ ~ (x < y) /\ ~ (y < x)
    BY <1>1, <2>1, <2>3
  <2>5. y = x
    BY <2>4
  <2> QED BY <2>5 DEF y
<1> QED BY <1>3, <1>4, <1>5 DEF Ascends

\* The positions below one that an ascending sequence passes are those of the
\* smaller elements.
LEMMA PositionIsRank ==
  ASSUME NEW S, S \subseteq Int, NEW n \in Nat, NEW f, Ascends(f, n, S), NEW i \in 1..n
  PROVE  IsFiniteSet(Below(S, f[i])) /\ Rank(S, f[i]) = i - 1
<1> DEFINE T == 1..(i - 1)
           B == Below(S, f[i])
           g == [k \in T |-> f[k]]
<1>1. \A k \in 1..n : f[k] \in S /\ f[k] \in Int
  BY DEF Ascends
<1>2. g \in Bijection(T, B)
  <2>1. \A k \in T : k \in 1..n /\ f[k] \in B
    BY <1>1 DEF Ascends, Below
  <2>2. g \in [T -> B]
    BY <2>1
  <2>3. IsInjective(g)
    <3>1. ASSUME NEW a \in T, NEW b \in T, f[a] = f[b] PROVE a = b
      <4>1. a \in 1..n /\ b \in 1..n
        OBVIOUS
      <4>2. ~ (f[a] < f[b]) /\ ~ (f[b] < f[a])
        BY <1>1, <3>1, <4>1
      <4>3. ~ (a < b) /\ ~ (b < a)
        BY <4>1, <4>2 DEF Ascends
      <4> QED BY <4>1, <4>3
    <3> QED BY <3>1 DEF IsInjective
  <2>4. ASSUME NEW x \in B PROVE \E k \in T : g[k] = x
    <3>1. PICK k \in 1..n : f[k] = x
      BY DEF Below, Ascends
    <3>2. f[k] < f[i]
      BY <3>1 DEF Below
    <3>3. ~ (i < k) /\ i # k
      BY <1>1, <3>2 DEF Ascends
    <3>4. k \in T
      BY <3>3
    <3> QED BY <3>1, <3>4
  <2> HIDE DEF g, T, B
  <2> QED BY <2>2, <2>3, <2>4 DEF Bijection, Injection, Surjection
<1>3. IsFiniteSet(T) /\ Cardinality(T) = i - 1
  BY FS_Interval
<1> HIDE DEF T, B, g
<1>4. IsFiniteSet(B) /\ Cardinality(B) = i - 1
  BY <1>2, <1>3, FS_Bijection DEF ExistsBijection
<1> QED BY <1>4 DEF B, Rank

\* An ascending sequence that passes all of S is the sorted read of S, and its
\* length is the number of elements.
THEOREM SortedReadIsUnique ==
  ASSUME NEW S, S \subseteq Int, NEW n \in Nat, NEW f, Ascends(f, n, S)
  PROVE  IsFiniteSet(S) /\ Cardinality(S) = n /\ InOrder(S) = f
<1>1. \A k \in 1..n : f[k] \in S /\ f[k] \in Int
  BY DEF Ascends
<1>2. IsFiniteSet(S) /\ Cardinality(S) = n
  <2> DEFINE T == 1..n
  <2>1. f \in Bijection(T, S)
    <3>1. ASSUME NEW a \in T, NEW b \in T, f[a] = f[b] PROVE a = b
      <4>1. ~ (f[a] < f[b]) /\ ~ (f[b] < f[a])
        BY <1>1, <3>1
      <4>2. ~ (a < b) /\ ~ (b < a)
        BY <4>1 DEF Ascends
      <4> QED BY <4>2
    <3>2. DOMAIN f = T /\ f \in [T -> S] /\ \A x \in S : \E k \in T : f[k] = x
      BY DEF Ascends
    <3> HIDE DEF T
    <3> QED BY <3>1, <3>2 DEF Bijection, Injection, Surjection, IsInjective
  <2>2. IsFiniteSet(T) /\ Cardinality(T) = n
    BY FS_Interval
  <2> HIDE DEF T
  <2> QED BY <2>1, <2>2, FS_Bijection DEF ExistsBijection
<1>3. ASSUME NEW i \in 1..n PROVE (CHOOSE x \in S : Rank(S, x) = i - 1) = f[i]
  <2>1. f[i] \in S /\ Rank(S, f[i]) = i - 1
    BY <1>1, PositionIsRank
  <2>2. ASSUME NEW x \in S, Rank(S, x) = i - 1 PROVE x = f[i]
    <3>1. PICK k \in 1..n : f[k] = x
      BY DEF Ascends
    <3>2. Rank(S, f[k]) = k - 1
      BY PositionIsRank
    <3>3. k = i
      BY <2>2, <3>1, <3>2
    <3> QED BY <3>1, <3>3
  <2> QED BY <2>1, <2>2
<1>4. f = [i \in 1..n |-> f[i]]
  BY DEF Ascends
<1>5. InOrder(S) = [i \in 1..n |-> CHOOSE x \in S : Rank(S, x) = i - 1]
  BY <1>2 DEF InOrder, Rank
<1> HIDE DEF Rank
<1> QED BY <1>2, <1>3, <1>4, <1>5
=============================================================================
