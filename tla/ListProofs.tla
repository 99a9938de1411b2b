------------------------------ MODULE ListProofs ------------------------------
(* Facts about finite sets of numbers and about Kept, for the proofs of the *)
(* modules that use Lists.                                                  *)
EXTENDS Lists, Sequences, SequencesExt, FiniteSetsExt,
        FiniteSetTheorems, NaturalsInduction, SequenceTheorems, WellFoundedInduction, TLAPS

(* A function on 1..n is a list of length n.                               *)
LEMMA FunctionsAreLists ==
  ASSUME NEW T, NEW n \in Nat, NEW f \in [1..n -> T]
  PROVE  f \in Seq(T) /\ Len(f) = n
BY SeqDef

LEMMA LeastExists ==
  ASSUME NEW T, T \subseteq Nat, T # {}
  PROVE  \E x \in T : \A y \in T : x <= y
<1> DEFINE R == OpToRel(<, Nat)
<1>1. IsWellFoundedOn(R, Nat)
  BY NatLessThanWellFounded
<1>2. PICK x \in T : \A y \in T : ~(<<y, x>> \in R)
  <2> HIDE DEF R
  <2> QED BY <1>1, WFMin, Zenon
<1>3. \A y \in T : ~(y < x)
  BY <1>2 DEF OpToRel
<1> QED BY <1>3

(* A set of numbers up to n has a greatest.                                *)
LEMMA GreatestExists ==
  ASSUME NEW n \in Nat, NEW T, T \subseteq 1..n, T # {}
  PROVE  \E x \in T : \A y \in T : y <= x
<1> DEFINE U == {k \in Nat : n - k \in T}
<1>1. PICK t \in T : TRUE
  OBVIOUS
<1>2. t \in Nat /\ n - t \in Nat /\ n - (n - t) = t
  OBVIOUS
<1>3. U \subseteq Nat /\ n - t \in U
  BY <1>1, <1>2
<1>4. PICK k \in U : \A l \in U : k <= l
  <2> HIDE DEF U
  <2> QED BY <1>3, LeastExists
<1>5. n - k \in T
  BY <1>4
<1>6. \A y \in T : y <= n - k
  <2> TAKE y \in T
  <2>1. y \in Nat /\ n - y \in Nat /\ n - (n - y) = y
    OBVIOUS
  <2>2. n - y \in U
    BY <2>1
  <2>3. k <= n - y /\ k \in Nat
    BY <1>4, <2>2
  <2> QED BY <2>1, <2>3
<1> QED BY <1>5, <1>6

(* The ranks of a finite set's members are the numbers up to its size.     *)
LEMMA Ranks ==
  ASSUME NEW S, S \subseteq Nat, IsFiniteSet(S)
  PROVE  /\ Cardinality(S) \in Nat
         /\ \A k \in 1..Cardinality(S) : \E i \in S : Rank(S, i) = k
         /\ \A i \in S : Rank(S, i) \in 1..Cardinality(S)
         /\ \A i, j \in S : Rank(S, i) = Rank(S, j) => i = j
<1> DEFINE Upto(i) == {j \in S : j <= i}
           r == [i \in S |-> Rank(S, i)]
<1>1. \A i \in S : IsFiniteSet(Upto(i)) /\ Cardinality(Upto(i)) \in Nat /\ Cardinality(Upto(i)) <= Cardinality(S)
  BY FS_Subset, FS_CardinalityType
<1>2. Cardinality(S) \in Nat
  BY FS_CardinalityType
<1>3. ASSUME NEW i \in S, NEW j \in S, i < j PROVE Cardinality(Upto(i)) < Cardinality(Upto(j))
  <2>1. Upto(i) \subseteq Upto(j) /\ Upto(i) # Upto(j)
    <3>1. j \in Upto(j) /\ j \notin Upto(i)
      BY <1>3
    <3>2. ASSUME NEW k \in Upto(i) PROVE k \in Upto(j)
      <4>1. k \in Nat /\ i \in Nat /\ j \in Nat /\ k <= i
        BY <3>2
      <4> QED BY <4>1, <1>3
    <3> QED BY <3>1, <3>2
  <2> HIDE DEF Upto
  <2> QED BY <1>1, <2>1, FS_Subset
<1>4. \A i \in S : Cardinality(Upto(i)) > 0
  <2> SUFFICES ASSUME NEW i \in S PROVE Cardinality(Upto(i)) > 0
    OBVIOUS
  <2>1. Upto(i) # {}
    OBVIOUS
  <2> HIDE DEF Upto
  <2> QED BY <1>1, <2>1, FS_EmptySet
<1>5. \A i \in S : Rank(S, i) = Cardinality(Upto(i))
  BY DEF Rank
<1> HIDE DEF Upto
<1>6. \A i, j \in S : Rank(S, i) = Rank(S, j) => i = j
  BY <1>1, <1>3, <1>5
<1>7. \A i \in S : Rank(S, i) \in 1..Cardinality(S)
  BY <1>1, <1>2, <1>4, <1>5
<1>8. r \in Injection(S, 1..Cardinality(S))
  <2>1. r \in [S -> 1..Cardinality(S)]
    BY <1>7
  <2>2. \A i, j \in S : r[i] = r[j] => i = j
    BY <1>6
  <2> HIDE DEF r
  <2> QED BY <2>1, <2>2 DEF Injection, IsInjective
<1>9. IsFiniteSet(1..Cardinality(S)) /\ Cardinality(1..Cardinality(S)) = Cardinality(S)
  BY <1>2, FS_Interval
<1>10. r \in Surjection(S, 1..Cardinality(S))
  <2> HIDE DEF r
  <2> QED BY <1>8, <1>9, FS_Injection
<1> QED BY <1>2, <1>6, <1>7, <1>10 DEF Surjection

(* What is kept of a list is a list of exactly the items at those places.  *)
LEMMA KeptIs ==
  ASSUME NEW T, NEW list \in Seq(T), NEW S, S \subseteq DOMAIN list
  PROVE  /\ Kept(list, S) \in Seq(T)
         /\ \A k \in DOMAIN Kept(list, S) : \E i \in S : Kept(list, S)[k] = list[i]
         /\ \A i \in S : \E k \in DOMAIN Kept(list, S) : Kept(list, S)[k] = list[i]
<1> DEFINE At(k) == CHOOSE i \in S : Rank(S, i) = k
<1>1. DOMAIN list = 1..Len(list) /\ Len(list) \in Nat
  OBVIOUS
<1>2. S \subseteq Nat /\ IsFiniteSet(S)
  <2>1. IsFiniteSet(1..Len(list))
    BY <1>1, FS_Interval
  <2> QED BY <1>1, <2>1, FS_Subset
<1>3. \A k \in 1..Cardinality(S) : At(k) \in S /\ Rank(S, At(k)) = k
  BY <1>2, Ranks
<1>4. Kept(list, S) = [k \in 1..Cardinality(S) |-> list[At(k)]]
  BY DEF Kept
<1>5. Cardinality(S) \in Nat
  BY <1>2, Ranks
<1>6. \A i \in S : Rank(S, i) \in 1..Cardinality(S) /\ At(Rank(S, i)) = i
  BY <1>2, <1>3, Ranks
<1> HIDE DEF At
<1>7. Kept(list, S) \in [1..Cardinality(S) -> T]
  BY <1>3, <1>4
<1> QED BY <1>3, <1>4, <1>5, <1>6, <1>7, FunctionsAreLists


(* Where the kth kept item was: another place for every k.                 *)
PlaceKept(S, k) == CHOOSE i \in S : Rank(S, i) = k

LEMMA KeptAt ==
  ASSUME NEW T, NEW list \in Seq(T), NEW S, S \subseteq DOMAIN list
  PROVE  /\ DOMAIN Kept(list, S) = 1..Cardinality(S)
         /\ \A k \in 1..Cardinality(S) : PlaceKept(S, k) \in S /\ Kept(list, S)[k] = list[PlaceKept(S, k)]
         /\ \A k, l \in 1..Cardinality(S) : PlaceKept(S, k) = PlaceKept(S, l) => k = l
         /\ \A i \in S : Rank(S, i) \in 1..Cardinality(S) /\ Kept(list, S)[Rank(S, i)] = list[i]
<1>1. DOMAIN list = 1..Len(list) /\ Len(list) \in Nat
  OBVIOUS
<1>2. S \subseteq Nat /\ IsFiniteSet(S)
  <2>1. IsFiniteSet(1..Len(list))
    BY <1>1, FS_Interval
  <2> QED BY <1>1, <2>1, FS_Subset
<1>3. \A k \in 1..Cardinality(S) : PlaceKept(S, k) \in S /\ Rank(S, PlaceKept(S, k)) = k
  BY <1>2, Ranks DEF PlaceKept
<1>4. \A i \in S : Rank(S, i) \in 1..Cardinality(S) /\ PlaceKept(S, Rank(S, i)) = i
  BY <1>2, <1>3, Ranks
<1>5. Kept(list, S) = [k \in 1..Cardinality(S) |-> list[PlaceKept(S, k)]]
  BY DEF Kept, PlaceKept
<1> QED BY <1>3, <1>4, <1>5

(* A finite set of numbers has a greatest and a least, and Max and Min     *)
(* are they.                                                               *)
LEMMA MaxIs ==
  ASSUME NEW S, S \subseteq Nat, IsFiniteSet(S), S # {}
  PROVE  Max(S) \in S /\ \A y \in S : y <= Max(S)
<1>1. Cardinality(S) \in Nat /\ Cardinality(S) # 0
  BY FS_CardinalityType, FS_EmptySet
<1>2. PICK x \in S : Rank(S, x) = Cardinality(S)
  <2>1. Cardinality(S) \in 1..Cardinality(S)
    BY <1>1
  <2> QED BY <2>1, Ranks
<1>3. {j \in S : j <= x} = S
  BY <1>2, FS_Subset DEF Rank
<1>4. \A y \in S : x >= y
  BY <1>3
<1> QED BY <1>4 DEF Max

LEMMA MinIs ==
  ASSUME NEW S, S \subseteq Nat, S # {}
  PROVE  Min(S) \in S /\ \A y \in S : Min(S) <= y
BY LeastExists DEF Min

(* What is kept of a list without repetitions has none.                    *)
LEMMA KeptOnce ==
  ASSUME NEW T, NEW list \in Seq(T), IsInjective(list), NEW S, S \subseteq DOMAIN list
  PROVE  /\ Kept(list, S) \in Seq(T) /\ IsInjective(Kept(list, S))
         /\ \A c \in ToSet(Kept(list, S)) : \E i \in S : c = list[i]
         /\ \A i \in S : list[i] \in ToSet(Kept(list, S))
<1>1. /\ Kept(list, S) \in Seq(T)
      /\ \A k \in DOMAIN Kept(list, S) : \E i \in S : Kept(list, S)[k] = list[i]
      /\ \A i \in S : \E k \in DOMAIN Kept(list, S) : Kept(list, S)[k] = list[i]
  BY KeptIs
<1>2. /\ DOMAIN Kept(list, S) = 1..Cardinality(S)
      /\ \A k \in 1..Cardinality(S) : PlaceKept(S, k) \in S /\ Kept(list, S)[k] = list[PlaceKept(S, k)]
      /\ \A k, l \in 1..Cardinality(S) : PlaceKept(S, k) = PlaceKept(S, l) => k = l
  BY KeptAt
<1>3. IsInjective(Kept(list, S))
  <2> SUFFICES ASSUME NEW k \in 1..Cardinality(S), NEW l \in 1..Cardinality(S),
                      list[PlaceKept(S, k)] = list[PlaceKept(S, l)]
               PROVE  k = l
    BY <1>2 DEF IsInjective
  <2>1. PlaceKept(S, k) \in DOMAIN list /\ PlaceKept(S, l) \in DOMAIN list
    BY <1>2
  <2>2. PlaceKept(S, k) = PlaceKept(S, l)
    BY <2>1 DEF IsInjective
  <2> QED BY <1>2, <2>2
<1> QED BY <1>1, <1>3 DEF ToSet
=============================================================================
