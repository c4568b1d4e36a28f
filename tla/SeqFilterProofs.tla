-------------------------- MODULE SeqFilterProofs --------------------------
(* Filtering a sequence keeps its type, loses no match and repeats none.   *)
EXTENDS SeqFilter, FiniteSetTheorems, TLAPS

\* The matches are finitely many, and no two have the same rank.
LEMMA RankTypes ==
    ASSUME NEW D, NEW s \in Seq(D), NEW S
    PROVE  /\ IsFiniteSet(Matches(s, S)) /\ Cardinality(Matches(s, S)) \in Nat
           /\ Cardinality(Matches(s, S)) <= Len(s)
           /\ \A i \in Matches(s, S) :
                 i \in Nat /\ Rank(s, S, i) \in 1 .. Cardinality(Matches(s, S))
           /\ \A i, j \in Matches(s, S) : i < j => Rank(s, S, i) < Rank(s, S, j)
<1> DEFINE M == Matches(s, S)
           Up(i) == {j \in M : j <= i}
<1>1. DOMAIN s = 1 .. Len(s) /\ Len(s) \in Nat
  OBVIOUS
<1>2. IsFiniteSet(1 .. Len(s)) /\ Cardinality(1 .. Len(s)) = Len(s)
  <2>1. 1 \in Int /\ Len(s) \in Int
    BY <1>1
  <2>2. IsFiniteSet(1 .. Len(s)) /\ Cardinality(1 .. Len(s)) = IF 1 > Len(s) THEN 0 ELSE Len(s) - 1 + 1
    BY <2>1, FS_Interval
  <2> QED
    BY <1>1, <2>2
<1>3. M \subseteq 1 .. Len(s)
  BY <1>1 DEF Matches
<1>4. IsFiniteSet(M) /\ Cardinality(M) <= Len(s)
  BY <1>2, <1>3, FS_Subset
<1>5. Cardinality(M) \in Nat
  BY <1>4, FS_CardinalityType
<1>6. \A i \in M : i \in Nat
  BY <1>1, <1>3
<1>7. ASSUME NEW i \in M
      PROVE  /\ IsFiniteSet(Up(i)) /\ Cardinality(Up(i)) \in Nat
             /\ Cardinality(Up(i)) <= Cardinality(M) /\ Cardinality(Up(i)) # 0
  <2>1. Up(i) \subseteq M /\ i \in Up(i)
    BY <1>6
  <2>2. IsFiniteSet(Up(i)) /\ Cardinality(Up(i)) <= Cardinality(M)
    BY <1>4, <2>1, FS_Subset
  <2>3. Cardinality(Up(i)) # 0
    BY <2>1, <2>2, FS_EmptySet
  <2> QED
    BY <2>2, <2>3, FS_CardinalityType
<1>8. ASSUME NEW i \in M, NEW j \in M, i < j
      PROVE  Cardinality(Up(i)) < Cardinality(Up(j))
  <2>1. Up(i) \subseteq Up(j)
    BY <1>6, <1>8
  <2>2. j \in Up(j) /\ j \notin Up(i)
    BY <1>6, <1>8
  <2>3. Cardinality(Up(i)) <= Cardinality(Up(j)) /\ (Cardinality(Up(i)) = Cardinality(Up(j)) => Up(i) = Up(j))
    BY <1>7, <2>1, FS_Subset
  <2>4. Up(i) # Up(j)
    BY <2>2
  <2>5. Cardinality(Up(i)) \in Nat /\ Cardinality(Up(j)) \in Nat
    BY <1>7
  <2> HIDE DEF Up
  <2> QED
    BY <2>3, <2>4, <2>5
<1>9. \A i \in M : Rank(s, S, i) = Cardinality(Up(i))
  BY DEF Rank
<1> HIDE DEF Up
<1>10. \A i \in M : Rank(s, S, i) \in 1 .. Cardinality(M)
  BY <1>5, <1>7, <1>9
<1>11. \A i, j \in M : i < j => Rank(s, S, i) < Rank(s, S, j)
  BY <1>8, <1>9
<1> QED
  BY <1>4, <1>5, <1>6, <1>10, <1>11

\* So every rank is the rank of a match.
LEMMA RankOnto ==
    ASSUME NEW D, NEW s \in Seq(D), NEW S
    PROVE  \A k \in 1 .. Cardinality(Matches(s, S)) :
              \E i \in Matches(s, S) : Rank(s, S, i) = k
<1> DEFINE M == Matches(s, S)
           n == Cardinality(M)
           r == [i \in M |-> Rank(s, S, i)]
<1>1. IsFiniteSet(M) /\ n \in Nat /\ \A i \in M : i \in Nat /\ Rank(s, S, i) \in 1 .. n
  BY RankTypes
<1>2. \A i, j \in M : i < j => Rank(s, S, i) < Rank(s, S, j)
  BY RankTypes
<1>3. r \in Injection(M, 1 .. n)
  <2>1. r \in [M -> 1 .. n]
    BY <1>1
  <2>2. ASSUME NEW i \in M, NEW j \in M, r[i] = r[j]
        PROVE  i = j
    <3>1. i \in Nat /\ j \in Nat /\ Rank(s, S, i) = Rank(s, S, j)
      BY <1>1, <2>2
    <3>2. Rank(s, S, i) \in Nat /\ Rank(s, S, j) \in Nat
      BY <1>1
    <3> QED
      BY <1>2, <3>1, <3>2
  <2> QED
    BY <2>1, <2>2 DEF Injection, IsInjective
<1>4. IsFiniteSet(1 .. n) /\ Cardinality(1 .. n) = n
  <2>1. 1 \in Int /\ n \in Int
    BY <1>1
  <2>2. IsFiniteSet(1 .. n) /\ Cardinality(1 .. n) = IF 1 > n THEN 0 ELSE n - 1 + 1
    BY <2>1, FS_Interval
  <2> QED
    BY <1>1, <2>2
<1>5. r \in Surjection(M, 1 .. n)
  BY <1>1, <1>3, <1>4, FS_Injection DEF ExistsInjection
<1> QED
  BY <1>5 DEF Surjection

\* What Filter returns: a sequence of the matches, of all of them, in which none
\* is repeated if s repeats none.
LEMMA FilterKeeps ==
    ASSUME NEW D, NEW s \in Seq(D), NEW S
    PROVE  /\ Filter(s, S) \in Seq(D)
           /\ Len(Filter(s, S)) = Cardinality(Matches(s, S)) /\ Len(Filter(s, S)) <= Len(s)
           /\ Entries(Filter(s, S)) = Entries(s) \cap S
           /\ (\A i, j \in 1 .. Len(s) : s[i] = s[j] => i = j) =>
                 \A i, j \in 1 .. Len(Filter(s, S)) : Filter(s, S)[i] = Filter(s, S)[j] => i = j
<1> DEFINE M == Matches(s, S)
           n == Cardinality(M)
           at(k) == CHOOSE i \in M : Rank(s, S, i) = k
           f == Filter(s, S)
<1>1. n \in Nat /\ n <= Len(s) /\ \A i \in M : Rank(s, S, i) \in 1 .. n
  BY RankTypes
<1>2. \A k \in 1 .. n : at(k) \in M /\ Rank(s, S, at(k)) = k
  BY RankOnto
<1>3. f = [k \in 1 .. n |-> s[at(k)]]
  BY DEF Filter
<1>4. M = {i \in 1 .. Len(s) : s[i] \in S}
  BY DEF Matches
<1>5. \A i \in M : s[i] \in D /\ s[i] \in S /\ i \in 1 .. Len(s)
  BY <1>4
<1> HIDE DEF M, n, at, f
<1>6. f \in [1 .. n -> D] /\ \A k \in 1 .. n : f[k] = s[at(k)] /\ f[k] \in S
  BY <1>2, <1>3, <1>5
<1>7. f \in Seq(D) /\ Len(f) = n /\ DOMAIN f = 1 .. n
  BY <1>1, <1>6
<1>8. \A i \in M : Rank(s, S, i) \in 1 .. n /\ at(Rank(s, S, i)) = i
  <2> SUFFICES ASSUME NEW i \in M PROVE Rank(s, S, i) \in 1 .. n /\ at(Rank(s, S, i)) = i
    OBVIOUS
  <2> DEFINE k == Rank(s, S, i)
  <2>1. k \in 1 .. n /\ at(k) \in M /\ Rank(s, S, at(k)) = k
    BY <1>1, <1>2
  <2>2. \A x, y \in M : x < y => Rank(s, S, x) < Rank(s, S, y)
    BY RankTypes DEF M
  <2>3. i \in Nat /\ at(k) \in Nat
    BY <1>5, <2>1
  <2>4. ~(i < at(k)) /\ ~(at(k) < i)
    BY <2>1, <2>2
  <2> QED
    BY <2>1, <2>3, <2>4
<1>9. Entries(f) = Entries(s) \cap S
  <2>1. Entries(f) \subseteq Entries(s) \cap S
    <3>1. ASSUME NEW k \in 1 .. n PROVE f[k] \in Entries(s) \cap S
      <4>1. at(k) \in M /\ f[k] = s[at(k)]
        BY <1>2, <1>6
      <4> QED
        BY <1>5, <4>1 DEF Entries
    <3> QED
      BY <1>7, <3>1 DEF Entries
  <2>2. Entries(s) \cap S \subseteq Entries(f)
    <3>1. ASSUME NEW x \in 1 .. Len(s), s[x] \in S PROVE s[x] \in Entries(f)
      <4>1. x \in M
        BY <1>4, <3>1
      <4>2. f[Rank(s, S, x)] = s[x] /\ Rank(s, S, x) \in 1 .. n
        BY <1>6, <1>8, <4>1
      <4> QED
        BY <1>7, <4>2 DEF Entries
    <3> QED
      BY <3>1 DEF Entries
  <2> QED
    BY <2>1, <2>2
<1>10. ASSUME \A i, j \in 1 .. Len(s) : s[i] = s[j] => i = j,
              NEW i \in 1 .. n, NEW j \in 1 .. n, f[i] = f[j]
       PROVE  i = j
  <2>1. at(i) \in 1 .. Len(s) /\ at(j) \in 1 .. Len(s) /\ s[at(i)] = s[at(j)]
    BY <1>2, <1>5, <1>6, <1>10
  <2>2. at(i) = at(j)
    BY <1>10, <2>1
  <2> QED
    BY <1>2, <2>2
<1> QED
  BY <1>1, <1>7, <1>9, <1>10 DEF f, n, M

\* What is left keeps its order: it is s read at increasing indices.
LEMMA FilterKeepsOrder ==
    ASSUME NEW D, NEW s \in Seq(D), NEW S
    PROVE  \E at \in [1 .. Len(Filter(s, S)) -> 1 .. Len(s)] :
              /\ \A k \in DOMAIN at : Filter(s, S)[k] = s[at[k]]
              /\ \A k, l \in DOMAIN at : k < l => at[k] < at[l]
<1> DEFINE M == Matches(s, S)
           n == Cardinality(M)
           place(k) == CHOOSE i \in M : Rank(s, S, i) = k
           at == [k \in 1 .. n |-> place(k)]
<1>1. n \in Nat /\ Len(Filter(s, S)) = n
  BY RankTypes, FilterKeeps
<1>2. \A k \in 1 .. n : place(k) \in M /\ Rank(s, S, place(k)) = k
  BY RankOnto
<1>3. M \subseteq 1 .. Len(s)
  BY DEF Matches
<1>4. \A k \in 1 .. n : Filter(s, S)[k] = s[place(k)]
  BY DEF Filter
<1>5. \A i, j \in M : i < j => Rank(s, S, i) < Rank(s, S, j)
  BY RankTypes
<1>8. \A i \in M : i \in Nat
  BY RankTypes
<1> HIDE DEF M, n, place
<1>6. at \in [1 .. n -> 1 .. Len(s)] /\ \A k \in 1 .. n : Filter(s, S)[k] = s[at[k]]
  BY <1>2, <1>3, <1>4
<1>7. ASSUME NEW k \in 1 .. n, NEW l \in 1 .. n, k < l PROVE at[k] < at[l]
  <2>1. place(k) \in M /\ place(l) \in M
    BY <1>2
  <2>a. place(k) \in Nat /\ place(l) \in Nat
    BY <1>8, <2>1
  <2>2. place(k) # place(l) /\ ~(place(l) < place(k))
    BY <1>1, <1>2, <1>5, <1>7
  <2> QED
    BY <2>a, <2>2
<1> QED
  BY <1>1, <1>6, <1>7

\* What is left without the members of S.
LEMMA WithoutKeeps ==
    ASSUME NEW D, NEW s \in Seq(D), NEW S
    PROVE  /\ Without(s, S) \in Seq(D)
           /\ Entries(Without(s, S)) = Entries(s) \ S
           /\ (\A i, j \in 1 .. Len(s) : s[i] = s[j] => i = j) =>
                 \A i, j \in 1 .. Len(Without(s, S)) : Without(s, S)[i] = Without(s, S)[j] => i = j
<1> DEFINE T == Entries(s) \ S
<1>1. Entries(s) \cap T = Entries(s) \ S
  OBVIOUS
<1> HIDE DEF T
<1>2. /\ Filter(s, T) \in Seq(D)
      /\ Entries(Filter(s, T)) = Entries(s) \cap T
      /\ (\A i, j \in 1 .. Len(s) : s[i] = s[j] => i = j) =>
            \A i, j \in 1 .. Len(Filter(s, T)) : Filter(s, T)[i] = Filter(s, T)[j] => i = j
  BY FilterKeeps
<1>3. Without(s, S) = Filter(s, T)
  BY DEF Without, T
<1> QED
  BY <1>1, <1>2, <1>3

=============================================================================
