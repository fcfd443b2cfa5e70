----------------------------- MODULE RankLemmas -----------------------------
(***************************************************************************)
(* Counting along an order, for the proofs about Rooms, Conversation, Sync *)
(* and Roster: their lists are described by how many members come before   *)
(* one.                                                                    *)
(***************************************************************************)
EXTENDS Integers, FiniteSets, FiniteSetTheorems, TLAPS

\* The members of S that come before x, by their keys.
Below(S, key, x) == {y \in S : key[y] < key[x]}

\* Who comes later has more before it.
LEMMA RankMonotone ==
  ASSUME NEW S, IsFiniteSet(S), NEW key \in [S -> Int], NEW x \in S, NEW y \in S, key[x] < key[y]
  PROVE  /\ Cardinality(Below(S, key, x)) \in Nat /\ Cardinality(Below(S, key, y)) \in Nat
         /\ Cardinality(Below(S, key, x)) < Cardinality(Below(S, key, y))
<1>1. Below(S, key, x) \in SUBSET S /\ Below(S, key, y) \in SUBSET S
  BY DEF Below
<1>2. /\ IsFiniteSet(Below(S, key, x)) /\ IsFiniteSet(Below(S, key, y))
      /\ Cardinality(Below(S, key, x)) \in Nat /\ Cardinality(Below(S, key, y)) \in Nat
  BY <1>1, FS_Subset, FS_CardinalityType
<1>3. x \notin Below(S, key, x)
  BY DEF Below
<1>4. /\ IsFiniteSet(Below(S, key, x) \cup {x})
      /\ Cardinality(Below(S, key, x) \cup {x}) = Cardinality(Below(S, key, x)) + 1
  BY <1>2, <1>3, FS_AddElement
<1>5. Below(S, key, x) \cup {x} \in SUBSET Below(S, key, y)
  BY DEF Below
<1>6. Cardinality(Below(S, key, x) \cup {x}) <= Cardinality(Below(S, key, y))
  BY <1>2, <1>5, FS_Subset
<1> QED
  BY <1>2, <1>4, <1>6

LEMMA RankBound ==
  ASSUME NEW S, IsFiniteSet(S), NEW key \in [S -> Int], NEW x \in S
  PROVE  /\ Cardinality(S) \in Nat /\ Cardinality(Below(S, key, x)) \in Nat
         /\ Cardinality(Below(S, key, x)) < Cardinality(S)
<1>1. Below(S, key, x) \in SUBSET S /\ x \notin Below(S, key, x)
  BY DEF Below
<1>2. /\ IsFiniteSet(Below(S, key, x)) /\ Cardinality(Below(S, key, x)) \in Nat /\ Cardinality(S) \in Nat
  BY <1>1, FS_Subset, FS_CardinalityType
<1>3. Cardinality(Below(S, key, x)) <= Cardinality(S) /\ Cardinality(S) # Cardinality(Below(S, key, x))
  BY <1>1, FS_Subset
<1> QED
  BY <1>2, <1>3

\* With keys all different, every place in the order is somebody's.
LEMMA RankExists ==
  ASSUME NEW S, IsFiniteSet(S), NEW key \in [S -> Int], \A x, y \in S : key[x] = key[y] => x = y,
         NEW n \in 1..Cardinality(S)
  PROVE  \E x \in S : Cardinality(Below(S, key, x)) = n - 1
<1> DEFINE place == [x \in S |-> Cardinality(Below(S, key, x)) + 1]
<1>1. Cardinality(S) \in Nat
  BY FS_CardinalityType
<1>2. \A x \in S : place[x] \in 1..Cardinality(S)
  BY <1>1, RankBound
<1>3. \A x, y \in S : place[x] = place[y] => x = y
  <2>1. SUFFICES ASSUME NEW x \in S, NEW y \in S, x # y
                 PROVE  place[x] # place[y]
    OBVIOUS
  <2>2. key[x] \in Int /\ key[y] \in Int /\ key[x] # key[y]
    BY <2>1
  <2>3. CASE key[x] < key[y]
    BY <2>3, RankMonotone
  <2>4. CASE key[y] < key[x]
    BY <2>4, RankMonotone
  <2> QED
    BY <2>2, <2>3, <2>4
<1> HIDE DEF place
<1>4. place \in [S -> 1..Cardinality(S)]
  BY <1>2 DEF place
<1>5. place \in Injection(S, 1..Cardinality(S))
  BY <1>3, <1>4 DEF Injection, IsInjective
<1>6. IsFiniteSet(1..Cardinality(S)) /\ Cardinality(1..Cardinality(S)) = Cardinality(S)
  BY <1>1, FS_Interval
<1>7. place \in Surjection(S, 1..Cardinality(S))
  BY <1>5, <1>6, FS_Injection
<1>8. PICK x \in S : place[x] = n
  BY <1>7 DEF Surjection
<1>9. Cardinality(Below(S, key, x)) \in Nat
  BY RankBound
<1> QED
  BY <1>8, <1>9 DEF place

\* The places of a list, each counted by those before it.
LEMMA PlaceExists ==
  ASSUME NEW K, IsFiniteSet(K), K \subseteq Int, NEW n \in 1..Cardinality(K)
  PROVE  \E k \in K : Cardinality({j \in K : j < k}) = n - 1
<1> DEFINE key == [k \in K |-> k]
<1>1. key \in [K -> Int] /\ \A x, y \in K : key[x] = key[y] => x = y
  OBVIOUS
<1>2. \A k \in K : Below(K, key, k) = {j \in K : j < k}
  BY DEF Below
<1> HIDE DEF key
<1>3. \E k \in K : Cardinality(Below(K, key, k)) = n - 1
  BY <1>1, RankExists
<1> QED
  BY <1>2, <1>3

\* The highest of some numbers.
LEMMA HighestExists ==
  ASSUME NEW K, IsFiniteSet(K), K \subseteq Int, K # {}
  PROVE  \E n \in K : \A k \in K : k <= n
<1> DEFINE key == [k \in K |-> k]
<1>1. key \in [K -> Int] /\ \A x, y \in K : key[x] = key[y] => x = y
  OBVIOUS
<1>2. \A k \in K : key[k] = k
  OBVIOUS
<1> HIDE DEF key
<1>3. Cardinality(K) \in Nat /\ Cardinality(K) # 0
  BY FS_CardinalityType, FS_EmptySet
<1>4. Cardinality(K) \in 1..Cardinality(K)
  BY <1>3
<1>5. PICK n \in K : Cardinality(Below(K, key, n)) = Cardinality(K) - 1
  BY <1>1, <1>4, RankExists
<1>6. ASSUME NEW k \in K, n < k
      PROVE  FALSE
  <2>1. key[n] < key[k]
    BY <1>2, <1>6
  <2>2. Cardinality(Below(K, key, n)) < Cardinality(Below(K, key, k)) /\ Cardinality(Below(K, key, k)) \in Nat
    BY <1>1, <2>1, RankMonotone
  <2>3. Cardinality(Below(K, key, k)) < Cardinality(K)
    BY <1>1, RankBound
  <2> QED
    BY <1>3, <1>5, <2>2, <2>3
<1>7. \A k \in K : k <= n
  <2>1. \A k \in K : k \in Int /\ n \in Int
    BY <1>5
  <2> QED
    BY <1>6, <2>1
<1> QED
  BY <1>5, <1>7
=============================================================================
