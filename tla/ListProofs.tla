------------------------------ MODULE ListProofs ------------------------------
(***************************************************************************)
(* Lemmas about the operators on sequences and numbers that several models *)
(* are built from: the least and the greatest of a set, what is left of a  *)
(* sequence, a sequence that lists a set, each element once, the ranks of  *)
(* the elements of a set, the sum over a set, and how many elements of a   *)
(* sequence are in a set.                                                  *)
(***************************************************************************)
EXTENDS Integers, Sequences, SequencesExt, FiniteSetsExt, SequenceTheorems,
        FiniteSetTheorems, TLAPS

\* Min is a least element: it is the number of those below all of S.
LEMMA MinProperties ==
    ASSUME NEW S \in SUBSET Nat, S # {}
    PROVE  Min(S) \in S /\ \A x \in S : Min(S) <= x
<1> DEFINE Below == {y \in Nat : \A x \in S : y < x}
<1>1. PICK n \in S : TRUE
  OBVIOUS
<1>2. ASSUME NEW x \in S
      PROVE  IsFiniteSet(Below) /\ Cardinality(Below) <= x
  <2>1. Below \subseteq 0 .. x - 1
    OBVIOUS
  <2>2. IsFiniteSet(0 .. x - 1) /\ Cardinality(0 .. x - 1) = x
    BY FS_Interval
  <2> QED
    BY <2>1, <2>2, FS_Subset
<1>3. Cardinality(Below) \in Nat
  BY <1>1, <1>2, FS_CardinalityType
<1>4. PICK c \in Nat : c = Cardinality(Below)
  BY <1>3
<1>5. c \notin Below
  <2> SUFFICES ASSUME c \in Below PROVE FALSE
    OBVIOUS
  <2>1. 0 .. c \subseteq Below
    OBVIOUS
  <2>2. IsFiniteSet(0 .. c) /\ Cardinality(0 .. c) = c + 1
    BY FS_Interval
  <2>3. c + 1 <= c
    <3>1. IsFiniteSet(Below)
      BY <1>1, <1>2
    <3> HIDE DEF Below
    <3>2. Cardinality(0 .. c) <= Cardinality(Below)
      BY <2>1, <3>1, FS_Subset
    <3> QED
      BY <1>4, <2>2, <3>2
  <2> QED
    BY <2>3
<1>6. PICK m \in S : m <= c
  BY <1>5
<1>7. m = c
  BY <1>2, <1>4, <1>6
<1>8. \A x \in S : m <= x
  BY <1>2, <1>4, <1>7
<1> QED
  BY <1>8 DEF Min

\* Max is a greatest element, where there is a bound.
LEMMA MaxProperties ==
    ASSUME NEW S \in SUBSET Nat, S # {}, NEW n \in Nat, \A x \in S : x <= n
    PROVE  Max(S) \in S /\ \A x \in S : x <= Max(S)
<1> DEFINE T == {y \in Nat : n - y \in S}
<1>1. T \in SUBSET Nat /\ T # {}
  <2>1. PICK x \in S : x <= n
    OBVIOUS
  <2>2. n - x \in Nat /\ n - (n - x) = x
    BY <2>1
  <2> QED
    BY <2>2
<1>2. PICK m \in T : \A y \in T : m <= y
  BY <1>1, MinProperties
<1>3. n - m \in S
  BY <1>2
<1>4. ASSUME NEW x \in S
      PROVE  n - m >= x
  <2>1. n - x \in Nat /\ n - (n - x) = x
    OBVIOUS
  <2>2. m <= n - x
    BY <1>2, <2>1
  <2> QED
    BY <1>2, <2>2
<1> QED
  BY <1>3, <1>4 DEF Max

-----------------------------------------------------------------------------
(* Sequences *)

\* What is left of a sequence, in its order.
LEMMA RemoveAtProperties ==
    ASSUME NEW S, NEW s \in Seq(S), NEW i \in 1 .. Len(s)
    PROVE  /\ RemoveAt(s, i) \in Seq(S) /\ Len(RemoveAt(s, i)) = Len(s) - 1
           /\ \A j \in 1 .. Len(s) - 1 : RemoveAt(s, i)[j] = IF j < i THEN s[j] ELSE s[j + 1]
<1>1. PICK n \in Nat : n = Len(s)
  OBVIOUS
<1>2. /\ i \in Nat /\ i - 1 \in Int /\ i + 1 \in Int /\ i >= 1 /\ i <= n
      /\ \A j \in 1 .. n : s[j] \in S
  BY <1>1
<1> DEFINE a == SubSeq(s, 1, i - 1)
           b == SubSeq(s, i + 1, n)
<1>3. a \in Seq(S) /\ Len(a) = i - 1 /\ \A j \in 1 .. i - 1 : a[j] = s[j]
  <2>1. \A j \in 1 .. i - 1 : s[j] \in S
    BY <1>2
  <2> QED
    BY <1>2, <2>1, SubSeqProperties
<1>4. b \in Seq(S) /\ Len(b) = n - i /\ \A j \in 1 .. n - i : b[j] = s[i + j]
  <2>1. \A j \in i + 1 .. n : s[j] \in S
    BY <1>2
  <2>2. /\ b \in Seq(S) /\ Len(b) = IF i + 1 <= n THEN n - (i + 1) + 1 ELSE 0
        /\ \A j \in 1 .. n - (i + 1) + 1 : b[j] = s[(i + 1) + j - 1]
    BY <1>1, <1>2, <2>1, SubSeqProperties
  <2> HIDE DEF b
  <2>3. \A j \in 1 .. n - i : (i + 1) + j - 1 = i + j
    BY <1>2
  <2>4. n - (i + 1) + 1 = n - i
    BY <1>1, <1>2
  <2>5. Len(b) = n - i
    <3>1. i + 1 <= n \/ n - i = 0
      BY <1>1, <1>2
    <3> QED
      BY <2>2, <2>4, <3>1
  <2> QED
    BY <2>2, <2>3, <2>4, <2>5
<1>5. RemoveAt(s, i) = a \o b
  BY <1>1 DEF RemoveAt
<1> HIDE DEF a, b
<1>6. /\ a \o b \in Seq(S) /\ Len(a \o b) = (i - 1) + (n - i)
      /\ \A j \in 1 .. (i - 1) + (n - i) :
            (a \o b)[j] = IF j <= i - 1 THEN a[j] ELSE b[j - (i - 1)]
  <2>1. /\ a \o b \in Seq(S) /\ Len(a \o b) = Len(a) + Len(b)
        /\ \A j \in 1 .. Len(a) + Len(b) :
              (a \o b)[j] = IF j <= Len(a) THEN a[j] ELSE b[j - Len(a)]
    <3>1. a \in Seq(S) /\ b \in Seq(S)
      BY <1>3, <1>4
    <3> QED
      BY <3>1, ConcatProperties
  <2>2. Len(a) = i - 1 /\ Len(b) = n - i
    BY <1>3, <1>4
  <2> QED
    BY <2>1, <2>2
<1>7. (i - 1) + (n - i) = n - 1
  BY <1>1, <1>2
<1>8. ASSUME NEW j \in 1 .. n - 1
      PROVE  (a \o b)[j] = IF j < i THEN s[j] ELSE s[j + 1]
  <2>1. CASE j < i
    <3>1. j \in 1 .. i - 1 /\ j <= i - 1
      BY <1>1, <1>2, <2>1
    <3> QED
      BY <1>3, <1>6, <1>7, <2>1, <3>1
  <2>2. CASE ~ (j < i)
    <3>1. ~ (j <= i - 1) /\ j - (i - 1) \in 1 .. n - i /\ i + (j - (i - 1)) = j + 1
      BY <1>1, <1>2, <2>2
    <3> QED
      BY <1>4, <1>6, <1>7, <2>2, <3>1
  <2> QED
    BY <2>1, <2>2
<1> QED
  BY <1>1, <1>5, <1>6, <1>7, <1>8

-----------------------------------------------------------------------------
(* Sequences that list a set *)

\* s has the elements of S, each once.
Lists(s, S) ==
    /\ \A i \in DOMAIN s : s[i] \in S
    /\ \A x \in S : \E i \in DOMAIN s : s[i] = x
    /\ \A i, j \in DOMAIN s : s[i] = s[j] => i = j

\* A new element at the end makes a list of a set one of the larger set.
LEMMA AppendLists ==
    ASSUME NEW T, NEW s \in Seq(T), NEW S \in SUBSET T, Lists(s, S), NEW x \in T, x \notin S
    PROVE  Append(s, x) \in Seq(T) /\ Lists(Append(s, x), S \cup {x})
<1>1. PICK n \in Nat : n = Len(s) /\ DOMAIN s = 1 .. n
  OBVIOUS
<1>2. PICK t : t = Append(s, x)
  OBVIOUS
<1>3. /\ t \in Seq(T) /\ DOMAIN t = 1 .. n + 1 /\ t[n + 1] = x
      /\ \A i \in 1 .. n : t[i] = s[i]
  BY <1>1, <1>2, AppendProperties
<1>4. /\ \A i \in 1 .. n + 1 : i \in 1 .. n \/ i = n + 1
      /\ 1 .. n \subseteq 1 .. n + 1 /\ n + 1 \in 1 .. n + 1
  BY <1>1
<1>5. \A i \in 1 .. n : s[i] \in S /\ s[i] # x
  BY <1>1 DEF Lists
<1>6. \A i \in DOMAIN t : t[i] \in S \cup {x}
  BY <1>3, <1>4, <1>5
<1>7. \A y \in S \cup {x} : \E i \in DOMAIN t : t[i] = y
  BY <1>1, <1>3, <1>4 DEF Lists
<1>8. \A i, j \in DOMAIN t : t[i] = t[j] => i = j
  BY <1>1, <1>3, <1>4, <1>5 DEF Lists
<1> QED
  BY <1>2, <1>3, <1>6, <1>7, <1>8 DEF Lists

\* A list without one of its entries is one of the smaller set.
LEMMA RemoveAtLists ==
    ASSUME NEW T, NEW s \in Seq(T), NEW S \in SUBSET T, Lists(s, S), NEW i \in 1 .. Len(s)
    PROVE  /\ RemoveAt(s, i) \in Seq(T) /\ Lists(RemoveAt(s, i), S \ {s[i]})
           /\ Len(RemoveAt(s, i)) = Len(s) - 1
<1>1. PICK n \in Nat : n = Len(s) /\ DOMAIN s = 1 .. n
  OBVIOUS
<1>2. i \in 1 .. n /\ n - 1 \in Nat
  BY <1>1
<1>3. PICK t : t = RemoveAt(s, i)
  OBVIOUS
<1>4. /\ t \in Seq(T) /\ Len(t) = n - 1 /\ DOMAIN t = 1 .. n - 1
      /\ \A j \in 1 .. n - 1 : t[j] = IF j < i THEN s[j] ELSE s[j + 1]
  <2>1. /\ t \in Seq(T) /\ Len(t) = Len(s) - 1
        /\ \A j \in 1 .. Len(s) - 1 : t[j] = IF j < i THEN s[j] ELSE s[j + 1]
    BY <1>3, RemoveAtProperties
  <2> QED
    BY <1>1, <1>2, <2>1
<1>5. \A j, k \in 1 .. n : s[j] = s[k] => j = k
  BY <1>1 DEF Lists
<1>6. \A j \in DOMAIN t : t[j] \in S \ {s[i]}
  <2> SUFFICES ASSUME NEW j \in 1 .. n - 1 PROVE t[j] \in S \ {s[i]}
    BY <1>4
  <2>1. CASE j < i
    <3>1. j \in 1 .. n /\ j # i
      BY <1>2, <2>1
    <3> QED
      BY <1>1, <1>2, <1>4, <1>5, <2>1, <3>1 DEF Lists
  <2>2. CASE ~ (j < i)
    <3>1. j + 1 \in 1 .. n /\ j + 1 # i
      BY <1>2, <2>2
    <3> QED
      BY <1>1, <1>2, <1>4, <1>5, <2>2, <3>1 DEF Lists
  <2> QED
    BY <2>1, <2>2
<1>7. \A x \in S \ {s[i]} : \E j \in DOMAIN t : t[j] = x
  <2> SUFFICES ASSUME NEW x \in S, x # s[i] PROVE \E j \in 1 .. n - 1 : t[j] = x
    BY <1>4
  <2>1. PICK k \in 1 .. n : s[k] = x
    BY <1>1 DEF Lists
  <2>2. CASE k < i
    <3>1. k \in 1 .. n - 1
      BY <1>2, <2>2
    <3> QED
      BY <1>4, <2>1, <2>2, <3>1
  <2>3. CASE k > i
    <3>1. k - 1 \in 1 .. n - 1 /\ ~ (k - 1 < i) /\ (k - 1) + 1 = k
      BY <1>2, <2>3
    <3> QED
      BY <1>4, <2>1, <3>1
  <2>4. k # i
    BY <2>1
  <2> QED
    BY <1>2, <2>2, <2>3, <2>4
<1>8. \A j, k \in DOMAIN t : t[j] = t[k] => j = k
  <2> SUFFICES ASSUME NEW j \in 1 .. n - 1, NEW k \in 1 .. n - 1, t[j] = t[k] PROVE j = k
    BY <1>4
  <2>1. j \in 1 .. n /\ k \in 1 .. n /\ j + 1 \in 1 .. n /\ k + 1 \in 1 .. n
    BY <1>2
  <2> QED
    <3>1. /\ t[j] = IF j < i THEN s[j] ELSE s[j + 1]
          /\ t[k] = IF k < i THEN s[k] ELSE s[k + 1]
      BY <1>4
    <3>2. (IF j < i THEN j ELSE j + 1) = (IF k < i THEN k ELSE k + 1)
      BY <1>5, <2>1, <3>1
    <3> QED
      BY <1>2, <3>2
<1> QED
  BY <1>1, <1>3, <1>4, <1>6, <1>7, <1>8 DEF Lists

\* The same elements in another order.
LEMMA PermutedLists ==
    ASSUME NEW T, NEW s \in Seq(T), NEW S \in SUBSET T, Lists(s, S),
           NEW p \in [DOMAIN s -> DOMAIN s],
           \A i, j \in DOMAIN s : p[i] = p[j] => i = j,
           \A j \in DOMAIN s : \E i \in DOMAIN s : p[i] = j,
           NEW t \in Seq(T), DOMAIN t = DOMAIN s, \A i \in DOMAIN s : t[i] = s[p[i]]
    PROVE  Lists(t, S)
<1>1. \A x \in S : \E i \in DOMAIN t : t[i] = x
  <2> SUFFICES ASSUME NEW x \in S PROVE \E i \in DOMAIN t : t[i] = x
    OBVIOUS
  <2>1. PICK j \in DOMAIN s : s[j] = x
    BY DEF Lists
  <2>2. PICK i \in DOMAIN s : p[i] = j
    OBVIOUS
  <2> QED
    BY <2>1, <2>2
<1>2. \A i \in DOMAIN t : t[i] \in S
  BY DEF Lists
<1>3. \A i, j \in DOMAIN t : t[i] = t[j] => i = j
  BY DEF Lists
<1> QED
  BY <1>1, <1>2, <1>3 DEF Lists

\* The rank of an element in a finite set of naturals, the number of those up to it,
\* lists the set in its order.
Rank(I, i) == Cardinality({j \in I : j <= i})

\* Ranks number the elements from one, in their order.
LEMMA RankProperties ==
    ASSUME NEW n \in Nat, NEW I \in SUBSET (1 .. n)
    PROVE  \E m \in Nat : m = Cardinality(I) /\ \E f \in [1 .. m -> I] :
              /\ \A k \in 1 .. m, i \in I : Rank(I, i) = k <=> i = f[k]
              /\ \A k, l \in 1 .. m : k < l => f[k] < f[l]
              /\ \A i \in I : \E k \in 1 .. m : f[k] = i
<1>0. \A i \in I : i \in Int
  OBVIOUS
<1>1. IsFiniteSet(I)
  <2>1. IsFiniteSet(1 .. n)
    BY FS_Interval
  <2> QED
    BY <2>1, FS_Subset
<1>2. PICK m \in Nat : m = Cardinality(I)
  BY <1>1, FS_CardinalityType
<1>3. IsFiniteSet(1 .. m) /\ Cardinality(1 .. m) = m
  BY FS_Interval
<1>4. PICK upto : upto = [i \in I |-> {j \in I : j <= i}]
  OBVIOUS
<1>5. \A i \in I : /\ upto[i] \subseteq I /\ IsFiniteSet(upto[i]) /\ i \in upto[i]
                   /\ Rank(I, i) = Cardinality(upto[i]) /\ Rank(I, i) \in Nat
  <2> SUFFICES ASSUME NEW i \in I
               PROVE  /\ upto[i] \subseteq I /\ IsFiniteSet(upto[i]) /\ i \in upto[i]
                      /\ Rank(I, i) = Cardinality(upto[i]) /\ Rank(I, i) \in Nat
    OBVIOUS
  <2>1. upto[i] = {j \in I : j <= i}
    BY <1>4
  <2>2. upto[i] \subseteq I /\ i \in upto[i]
    BY <1>0, <2>1
  <2>3. IsFiniteSet(upto[i])
    BY <1>1, <2>2, FS_Subset
  <2>4. Cardinality(upto[i]) \in Nat
    BY <2>3, FS_CardinalityType
  <2> QED
    BY <2>1, <2>2, <2>3, <2>4 DEF Rank
<1>6. \A i \in I : Rank(I, i) \in 1 .. m
  <2> SUFFICES ASSUME NEW i \in I PROVE Rank(I, i) \in 1 .. m
    OBVIOUS
  <2>1. Rank(I, i) <= m
    BY <1>1, <1>2, <1>5, FS_Subset
  <2>2. Rank(I, i) # 0
    BY <1>5, FS_EmptySet
  <2> QED
    BY <1>5, <2>1, <2>2
<1>7. \A i, j \in I : i < j => Rank(I, i) < Rank(I, j)
  <2> SUFFICES ASSUME NEW i \in I, NEW j \in I, i < j PROVE Rank(I, i) < Rank(I, j)
    OBVIOUS
  <2>1. upto[i] \subseteq upto[j] /\ j \notin upto[i]
    <3>1. upto[i] = {x \in I : x <= i} /\ upto[j] = {x \in I : x <= j}
      BY <1>4
    <3>2. ~ (j <= i) /\ \A x \in I : x <= i => x <= j
      BY <1>0
    <3> QED
      BY <3>1, <3>2
  <2>2. Cardinality(upto[i]) <= Cardinality(upto[j])
    BY <1>5, <2>1, FS_Subset
  <2>3. Cardinality(upto[j]) # Cardinality(upto[i])
    BY <1>5, <2>1, FS_Subset
  <2> QED
    BY <1>5, <2>2, <2>3
<1>8. PICK rank : rank = [i \in I |-> Rank(I, i)]
  OBVIOUS
<1>9. rank \in Injection(I, 1 .. m) /\ \A i, j \in I : Rank(I, i) = Rank(I, j) => i = j
  <2>1. rank \in [I -> 1 .. m]
    BY <1>6, <1>8
  <2>2. \A i, j \in I : i < j \/ j < i \/ i = j
    OBVIOUS
  <2>3. \A i, j \in I : rank[i] = rank[j] => i = j
    BY <1>6, <1>7, <1>8, <2>2
  <2>4. \A i, j \in I : Rank(I, i) = Rank(I, j) => i = j
    BY <1>8, <2>3
  <2> QED
    BY <2>1, <2>3, <2>4 DEF Injection, IsInjective
<1>10. rank \in Surjection(I, 1 .. m)
  BY <1>2, <1>3, <1>9, FS_Injection
<1>11. \A k \in 1 .. m : \E i \in I : Rank(I, i) = k
  BY <1>8, <1>10 DEF Surjection
<1>12. PICK f : f = [k \in 1 .. m |-> CHOOSE i \in I : Rank(I, i) = k]
  OBVIOUS
<1>13. \A k \in 1 .. m : f[k] \in I /\ Rank(I, f[k]) = k
  BY <1>11, <1>12
<1>14. f \in [1 .. m -> I]
  BY <1>12, <1>13
<1>15. ASSUME NEW k \in 1 .. m, NEW l \in 1 .. m, k < l
       PROVE  f[k] < f[l]
  <2>1. f[k] \in I /\ f[l] \in I /\ Rank(I, f[k]) = k /\ Rank(I, f[l]) = l
    BY <1>13
  <2>2. f[l] # f[k]
    BY <1>15, <2>1
  <2>3. f[l] < f[k] => l < k
    BY <1>7, <2>1
  <2>4. ~ (l < k)
    BY <1>15
  <2>5. \A x, y \in Int : x < y \/ y < x \/ x = y
    OBVIOUS
  <2>6. f[k] \in Int /\ f[l] \in Int
    BY <1>0, <2>1
  <2> QED
    BY <2>2, <2>3, <2>4, <2>5, <2>6
<1>16. ASSUME NEW i \in I
       PROVE  \E k \in 1 .. m : f[k] = i
  <2>1. PICK k \in 1 .. m : k = Rank(I, i)
    BY <1>6
  <2>2. f[k] \in I /\ Rank(I, f[k]) = k
    BY <1>13
  <2>3. (f[k] < i => k < k) /\ (i < f[k] => k < k)
    BY <1>7, <2>1, <2>2
  <2>4. ~ (k < k)
    OBVIOUS
  <2>5. \A x, y \in Int : x < y \/ y < x \/ x = y
    OBVIOUS
  <2>6. f[k] \in Int /\ i \in Int
    BY <1>0, <2>2
  <2> QED
    BY <2>3, <2>4, <2>5, <2>6
<1> QED
  <2>1. \A k \in 1 .. m, i \in I : Rank(I, i) = k <=> i = f[k]
    BY <1>9, <1>13
  <2> QED
    BY <1>2, <1>14, <1>15, <1>16, <2>1

-----------------------------------------------------------------------------
(* Induction, and sums *)

\* Induction, for a set of naturals.
LEMMA InductionOnNat ==
    ASSUME NEW G \in SUBSET Nat, 0 \in G, \A n \in G : n + 1 \in G
    PROVE  G = Nat
<1> SUFFICES ASSUME Nat \ G # {} PROVE FALSE
  OBVIOUS
<1>1. PICK m \in Nat \ G : \A x \in Nat \ G : m <= x
  <2>1. Nat \ G \in SUBSET Nat
    OBVIOUS
  <2> QED
    BY <2>1, MinProperties
<1>2. m # 0
  BY <1>1
<1>3. m - 1 \in Nat
  BY <1>1, <1>2
<1>4. m - 1 \in G
  BY <1>1, <1>3
<1>5. m - 1 + 1 = m
  BY <1>1
<1> QED
  BY <1>1, <1>4, <1>5

\* Induction on the subsets of a finite set, for a set of them.
LEMMA InductionOnSubsets ==
    ASSUME NEW S, IsFiniteSet(S), NEW Good \in SUBSET (SUBSET S),
           \A s \in SUBSET S : (\A x \in s : s \ {x} \in Good) => s \in Good
    PROVE  Good = SUBSET S
<1> DEFINE G == {n \in Nat : \A s \in SUBSET S : Cardinality(s) = n => s \in Good}
<1>1. \A s \in SUBSET S : IsFiniteSet(s) /\ Cardinality(s) \in Nat
  BY FS_Subset, FS_CardinalityType
<1>2. 0 \in G
  <2> SUFFICES ASSUME NEW s \in SUBSET S, Cardinality(s) = 0 PROVE s \in Good
    OBVIOUS
  <2>1. s = {}
    BY <1>1, FS_EmptySet
  <2> QED
    BY <2>1
<1>3. ASSUME NEW n \in G
      PROVE  n + 1 \in G
  <2> SUFFICES ASSUME NEW s \in SUBSET S, Cardinality(s) = n + 1 PROVE s \in Good
    OBVIOUS
  <2>1. ASSUME NEW x \in s
        PROVE  s \ {x} \in Good
    <3>1. Cardinality(s \ {x}) = Cardinality(s) - 1
      BY <1>1, FS_RemoveElement
    <3>2. Cardinality(s \ {x}) = n
      BY <1>1, <3>1
    <3>3. s \ {x} \in SUBSET S
      OBVIOUS
    <3> QED
      BY <3>2, <3>3
  <2> QED
    BY <2>1
<1>4. G = Nat
  <2>1. G \in SUBSET Nat
    OBVIOUS
  <2> HIDE DEF G
  <2> QED
    BY <1>2, <1>3, <2>1, InductionOnNat
<1> QED
  BY <1>1, <1>4

\* The sum of g over S, as MapThenSumSet takes it: element by element.
SumOver(g, S) == MapThenSumSet(LAMBDA x : g[x], S)
SumStep(g, h, s) == IF s = {} THEN 0
                 ELSE g[CHOOSE x \in s : TRUE] + h[s \ {CHOOSE x \in s : TRUE}]

\* The sum is a recursive function of the subsets.
LEMMA SumIs ==
    ASSUME NEW g, NEW S
    PROVE  SumOver(g, S) = (CHOOSE h : h = [s \in SUBSET S |-> SumStep(g, h, s)])[S]
BY DEF SumOver, MapThenSumSet, MapThenFoldSet, SumStep

\* There is such a function.
LEMMA SumExists ==
    ASSUME NEW S, IsFiniteSet(S), NEW g \in [S -> Int]
    PROVE  \E h \in [SUBSET S -> Int] : \A s \in SUBSET S : h[s] = SumStep(g, h, s)
<1> DEFINE Upto(n, h) == \A s \in SUBSET S : Cardinality(s) <= n => h[s] = SumStep(g, h, s)
           G == {n \in Nat : \E h \in [SUBSET S -> Int] : Upto(n, h)}
<1>1. \A s \in SUBSET S : IsFiniteSet(s) /\ Cardinality(s) \in Nat
  BY FS_Subset, FS_CardinalityType
<1>2. \A s \in SUBSET S : s # {} => (CHOOSE x \in s : TRUE) \in s
  OBVIOUS
<1>3. \A h \in [SUBSET S -> Int], s \in SUBSET S : SumStep(g, h, s) \in Int
  BY <1>2 DEF SumStep
<1>4. 0 \in G
  <2>1. \A s \in SUBSET S : Cardinality(s) <= 0 => s = {}
    BY <1>1, FS_EmptySet
  <2>2. PICK h : h = [s \in SUBSET S |-> 0]
    OBVIOUS
  <2>3. h \in [SUBSET S -> Int] /\ Upto(0, h)
    BY <2>1, <2>2 DEF SumStep
  <2> QED
    BY <2>3
<1>5. ASSUME NEW n \in G
      PROVE  n + 1 \in G
  <2>1. PICK h \in [SUBSET S -> Int] : Upto(n, h)
    OBVIOUS
  <2>2. PICK f : f = [s \in SUBSET S |-> SumStep(g, h, s)]
    OBVIOUS
  <2>3. f \in [SUBSET S -> Int]
    BY <1>3, <2>2
  <2>4. ASSUME NEW s \in SUBSET S, Cardinality(s) <= n + 1
        PROVE  f[s] = SumStep(g, f, s)
    <3>1. CASE s = {}
      BY <2>2, <3>1 DEF SumStep
    <3>2. CASE s # {}
      <4>1. PICK c \in s : c = CHOOSE x \in s : TRUE
        BY <3>2
      <4>2. Cardinality(s \ {c}) = Cardinality(s) - 1
        BY <1>1, <4>1, FS_RemoveElement
      <4>3. s \ {c} \in SUBSET S /\ Cardinality(s \ {c}) <= n
        BY <1>1, <2>4, <4>2
      <4>4. f[s \ {c}] = h[s \ {c}]
        BY <2>1, <2>2, <4>3
      <4>5. f[s] = g[c] + h[s \ {c}]
        BY <2>2, <3>2, <4>1 DEF SumStep
      <4> QED
        BY <3>2, <4>1, <4>4, <4>5 DEF SumStep
    <3> QED
      BY <3>1, <3>2
  <2>5. Upto(n + 1, f)
    BY <2>4
  <2> QED
    BY <2>3, <2>5
<1>6. Cardinality(S) \in G
  <2>1. G \in SUBSET Nat
    OBVIOUS
  <2> HIDE DEF G
  <2>2. G = Nat
    BY <1>4, <1>5, <2>1, InductionOnNat
  <2> QED
    BY <1>1, <2>2
<1>7. PICK h \in [SUBSET S -> Int] : Upto(Cardinality(S), h)
  BY <1>6
<1>8. \A s \in SUBSET S : Cardinality(s) <= Cardinality(S)
  BY FS_Subset
<1>9. \A s \in SUBSET S : h[s] = SumStep(g, h, s)
  BY <1>7, <1>8
<1> QED
  BY <1>7, <1>9

\* All of them agree where both are defined.
LEMMA SumUnique ==
    ASSUME NEW T, IsFiniteSet(T), NEW g, NEW h, NEW f,
           \A s \in SUBSET T : h[s] = SumStep(g, h, s), \A s \in SUBSET T : f[s] = SumStep(g, f, s)
    PROVE  \A s \in SUBSET T : f[s] = h[s]
<1> DEFINE Good == {s \in SUBSET T : f[s] = h[s]}
<1>2. ASSUME NEW s \in SUBSET T, \A x \in s : s \ {x} \in Good
      PROVE  s \in Good
  <2>1. f[s] = SumStep(g, f, s) /\ h[s] = SumStep(g, h, s)
    OBVIOUS
  <2>2. s # {} => (CHOOSE x \in s : TRUE) \in s
    OBVIOUS
  <2> QED
    BY <1>2, <2>1, <2>2 DEF SumStep
<1>3. Good \in SUBSET (SUBSET T)
  OBVIOUS
<1> HIDE DEF Good
<1>4. Good = SUBSET T
  BY <1>2, <1>3, InductionOnSubsets
<1> QED
  BY <1>4 DEF Good

\* What g is outside of S does not matter.
LEMMA SumAgrees ==
    ASSUME NEW S, NEW g, NEW f, \A x \in S : g[x] = f[x]
    PROVE  SumOver(g, S) = SumOver(f, S)
<1> DEFINE G(h) == [s \in SUBSET S |-> SumStep(g, h, s)]
           F(h) == [s \in SUBSET S |-> SumStep(f, h, s)]
<1>1. \A h : G(h) = F(h)
  <2>1. \A s \in SUBSET S : s # {} => (CHOOSE x \in s : TRUE) \in S
    OBVIOUS
  <2> QED
    BY <2>1 DEF SumStep
<1>2. SumOver(g, S) = (CHOOSE h : h = G(h))[S] /\ SumOver(f, S) = (CHOOSE h : h = F(h))[S]
  BY SumIs
<1> HIDE DEF F, G
<1>3. (CHOOSE h : h = G(h)) = (CHOOSE h : h = F(h))
  BY <1>1
<1> QED
  BY <1>2, <1>3

\* The sums over the subsets of S are such a function, whatever is taken first.
LEMMA SumProperties ==
    ASSUME NEW S, IsFiniteSet(S), NEW g \in [S -> Int]
    PROVE  /\ SumOver(g, {}) = 0
           /\ \A T \in SUBSET S : SumOver(g, T) \in Int
           /\ \A T \in SUBSET S : \A x \in T : SumOver(g, T) = g[x] + SumOver(g, T \ {x})
<1>1. PICK h \in [SUBSET S -> Int] : \A s \in SUBSET S : h[s] = SumStep(g, h, s)
  BY SumExists
<1>3. ASSUME NEW T \in SUBSET S
      PROVE  SumOver(g, T) = h[T]
  <2>1. IsFiniteSet(T)
    BY FS_Subset
  <2>2. PICK e : e = [s \in SUBSET T |-> h[s]]
    OBVIOUS
  <2>3. ASSUME NEW s \in SUBSET T
        PROVE  e[s] = SumStep(g, e, s)
    <3>1. h[s] = SumStep(g, h, s) /\ e[s] = h[s]
      BY <1>1, <2>2
    <3>2. s \ {CHOOSE x \in s : TRUE} \in SUBSET T
      OBVIOUS
    <3> QED
      BY <2>2, <3>1, <3>2 DEF SumStep
  <2>4. e = [s \in SUBSET T |-> SumStep(g, e, s)]
    <3>1. [s \in SUBSET T |-> h[s]] = [s \in SUBSET T |-> SumStep(g, e, s)]
      BY <2>2, <2>3
    <3> QED
      BY <2>2, <3>1
  <2>5. PICK f : f = (CHOOSE h2 : h2 = [s \in SUBSET T |-> SumStep(g, h2, s)])
    OBVIOUS
  <2>6. f = [s \in SUBSET T |-> SumStep(g, f, s)]
    BY <2>4, <2>5, Zenon
  <2>7. \A s \in SUBSET T : f[s] = SumStep(g, f, s)
    BY <2>6
  <2>8. \A s \in SUBSET T : h[s] = SumStep(g, h, s)
    BY <1>1
  <2>9. f[T] = h[T]
    BY <2>1, <2>7, <2>8, SumUnique
  <2> QED
    BY <2>5, <2>9, SumIs
<1> DEFINE Good == {s \in SUBSET S : \A x \in s : h[s] = g[x] + h[s \ {x}]}
<1>4. ASSUME NEW s \in SUBSET S, \A x \in s : s \ {x} \in Good
      PROVE  s \in Good
  <2> SUFFICES ASSUME NEW x \in s PROVE h[s] = g[x] + h[s \ {x}]
    OBVIOUS
  <2>1. PICK c \in s : c = CHOOSE y \in s : TRUE
    OBVIOUS
  <2>2. h[s] = g[c] + h[s \ {c}]
    BY <1>1, <2>1 DEF SumStep
  <2>3. CASE x = c
    BY <2>2, <2>3
  <2>4. CASE x # c
    <3>1. h[s \ {c}] = g[x] + h[(s \ {c}) \ {x}]
      BY <1>4, <2>4
    <3>2. h[s \ {x}] = g[c] + h[(s \ {x}) \ {c}]
      BY <1>4, <2>4
    <3>3. PICK k \in Int : k = h[(s \ {c}) \ {x}]
      OBVIOUS
    <3>4. (s \ {c}) \ {x} = (s \ {x}) \ {c}
      OBVIOUS
    <3>5. k = h[(s \ {x}) \ {c}]
      BY <3>3, <3>4
    <3>6. g[x] \in Int /\ g[c] \in Int
      OBVIOUS
    <3> QED
      BY <2>2, <3>1, <3>2, <3>3, <3>5, <3>6
  <2> QED
    BY <2>3, <2>4
<1>5. Good = SUBSET S
  <2>1. Good \in SUBSET (SUBSET S)
    OBVIOUS
  <2> HIDE DEF Good
  <2> QED
    BY <1>4, <2>1, InductionOnSubsets
<1>6. h[{}] = 0
  BY <1>1 DEF SumStep
<1>7. \A T \in SUBSET S : \A x \in T : T \ {x} \in SUBSET S
  OBVIOUS
<1> QED
  BY <1>1, <1>3, <1>5, <1>6, <1>7

-----------------------------------------------------------------------------
(* How many elements of a sequence are in a set *)

PlacesIn(q, S) == {i \in DOMAIN q : q[i] \in S}
CountIn(q, S) == Cardinality(PlacesIn(q, S))

\* It is a number.
LEMMA CountType ==
    ASSUME NEW T, NEW q \in Seq(T), NEW S
    PROVE  IsFiniteSet(PlacesIn(q, S)) /\ CountIn(q, S) \in Nat
<1>1. PICK n \in Nat : n = Len(q) /\ DOMAIN q = 1 .. n
  OBVIOUS
<1>2. IsFiniteSet(1 .. n) /\ PlacesIn(q, S) \subseteq 1 .. n
  BY <1>1, FS_Interval DEF PlacesIn
<1>3. IsFiniteSet(PlacesIn(q, S))
  BY <1>2, FS_Subset
<1> QED
  BY <1>3, FS_CardinalityType DEF CountIn

\* Nothing is in the empty sequence, and of a list all of whose elements are meant
\* there are as many as it is long.
LEMMA CountAll ==
    ASSUME NEW T, NEW q \in Seq(T), NEW S, \A i \in DOMAIN q : q[i] \in S
    PROVE  CountIn(q, S) = Len(q)
<1>1. PICK n \in Nat : n = Len(q) /\ DOMAIN q = 1 .. n
  OBVIOUS
<1>2. PlacesIn(q, S) = 1 .. n
  BY <1>1 DEF PlacesIn
<1>3. Cardinality(1 .. n) = n
  BY FS_Interval
<1> QED
  BY <1>1, <1>2, <1>3 DEF CountIn

\* In two sequences there are as many as in the one and in the other.
LEMMA CountConcat ==
    ASSUME NEW T, NEW q \in Seq(T), NEW r \in Seq(T), NEW S
    PROVE  CountIn(q \o r, S) = CountIn(q, S) + CountIn(r, S)
<1>1. PICK n \in Nat, m \in Nat :
         n = Len(q) /\ DOMAIN q = 1 .. n /\ m = Len(r) /\ DOMAIN r = 1 .. m
  OBVIOUS
<1>2. PICK u : u = q \o r
  OBVIOUS
<1>3. /\ u \in Seq(T) /\ DOMAIN u = 1 .. n + m
      /\ \A i \in 1 .. n + m : u[i] = IF i <= n THEN q[i] ELSE r[i - n]
  BY <1>1, <1>2, ConcatProperties
<1>4. PICK moved : moved = {i \in n + 1 .. n + m : u[i] \in S}
  OBVIOUS
<1>5. PlacesIn(u, S) = PlacesIn(q, S) \cup moved
  <2>1. ASSUME NEW i \in PlacesIn(u, S)
        PROVE  i \in PlacesIn(q, S) \cup moved
    <3>1. i \in 1 .. n + m /\ u[i] \in S
      BY <1>3 DEF PlacesIn
    <3>2. CASE i <= n
      BY <1>1, <1>3, <3>1, <3>2 DEF PlacesIn
    <3>3. CASE ~ (i <= n)
      BY <1>1, <1>4, <3>1, <3>3
    <3> QED
      BY <3>2, <3>3
  <2>2. ASSUME NEW i \in PlacesIn(q, S)
        PROVE  i \in PlacesIn(u, S)
    <3>1. i \in 1 .. n /\ q[i] \in S
      BY <1>1 DEF PlacesIn
    <3>2. i \in 1 .. n + m /\ i <= n
      BY <1>1, <3>1
    <3> QED
      BY <1>3, <3>1, <3>2 DEF PlacesIn
  <2>3. ASSUME NEW i \in moved
        PROVE  i \in PlacesIn(u, S)
    <3>1. i \in 1 .. n + m /\ u[i] \in S
      BY <1>1, <1>4
    <3> QED
      BY <1>3, <3>1 DEF PlacesIn
  <2> QED
    BY <2>1, <2>2, <2>3
<1>6. PlacesIn(q, S) \cap moved = {}
  <2>1. \A i \in PlacesIn(q, S) : i \in Nat /\ i <= n
    BY <1>1 DEF PlacesIn
  <2>2. \A i \in moved : ~ (i <= n)
    BY <1>1, <1>4
  <2> QED
    BY <2>1, <2>2
<1>7. ExistsBijection(PlacesIn(r, S), moved)
  <2>1. PICK f : f = [i \in PlacesIn(r, S) |-> i + n]
    OBVIOUS
  <2>2. \A i \in PlacesIn(r, S) : i \in 1 .. m /\ r[i] \in S
    BY <1>1 DEF PlacesIn
  <2>3. \A i \in PlacesIn(r, S) : f[i] = i + n /\ f[i] \in n + 1 .. n + m
    BY <1>1, <2>1, <2>2
  <2>4. ASSUME NEW i \in PlacesIn(r, S)
        PROVE  f[i] \in moved
    <3>1. i \in 1 .. m /\ i + n \in 1 .. n + m /\ ~ (i + n <= n) /\ i + n - n = i
      BY <1>1, <2>2
    <3>2. u[i + n] = r[i]
      BY <1>3, <3>1
    <3> QED
      BY <1>4, <2>2, <2>3, <3>2
  <2>5. ASSUME NEW j \in moved
        PROVE  \E i \in PlacesIn(r, S) : f[i] = j
    <3>1. j \in n + 1 .. n + m /\ u[j] \in S
      BY <1>4
    <3>2. j - n \in 1 .. m /\ j \in 1 .. n + m /\ ~ (j <= n) /\ j - n + n = j
      BY <1>1, <3>1
    <3>3. r[j - n] \in S
      BY <1>3, <3>1, <3>2
    <3>4. j - n \in PlacesIn(r, S)
      BY <1>1, <3>2, <3>3 DEF PlacesIn
    <3> QED
      BY <2>3, <3>2, <3>4
  <2>6. f \in [PlacesIn(r, S) -> moved]
    BY <2>1, <2>4
  <2>7. \A i, j \in PlacesIn(r, S) : f[i] = f[j] => i = j
    BY <1>1, <2>2, <2>3
  <2>8. f \in Injection(PlacesIn(r, S), moved)
    BY <2>6, <2>7 DEF Injection, IsInjective
  <2>9. f \in Surjection(PlacesIn(r, S), moved)
    BY <2>5, <2>6 DEF Surjection
  <2> QED
    BY <2>8, <2>9 DEF Bijection, ExistsBijection
<1>8. IsFiniteSet(PlacesIn(q, S)) /\ IsFiniteSet(PlacesIn(r, S))
  BY CountType
<1>9. IsFiniteSet(moved) /\ Cardinality(moved) = Cardinality(PlacesIn(r, S))
  BY <1>7, <1>8, FS_Bijection
<1>10. Cardinality(PlacesIn(q, S) \cup moved) = Cardinality(PlacesIn(q, S)) + Cardinality(moved)
  <2>1. Cardinality({}) = 0
    BY FS_EmptySet
  <2>2. /\ Cardinality(PlacesIn(q, S)) \in Nat /\ Cardinality(moved) \in Nat
        /\ Cardinality(PlacesIn(q, S) \cup moved)
             = Cardinality(PlacesIn(q, S)) + Cardinality(moved) - Cardinality(PlacesIn(q, S) \cap moved)
    BY <1>8, <1>9, FS_Union, FS_CardinalityType
  <2>3. Cardinality(PlacesIn(q, S) \cap moved) = 0
    BY <1>6, <2>1
  <2>4. PICK a \in Nat, b \in Nat : a = Cardinality(PlacesIn(q, S)) /\ b = Cardinality(moved)
    BY <2>2
  <2>5. Cardinality(PlacesIn(q, S) \cup moved) = a + b - 0
    BY <2>2, <2>3, <2>4
  <2> QED
    BY <2>4, <2>5
<1> QED
  BY <1>2, <1>5, <1>9, <1>10 DEF CountIn

\* One element more at the end.
LEMMA CountAppend ==
    ASSUME NEW T, NEW q \in Seq(T), NEW x \in T, NEW S
    PROVE  CountIn(Append(q, x), S) = CountIn(q, S) + (IF x \in S THEN 1 ELSE 0)
<1>1. PICK r : r = <<x>>
  OBVIOUS
<1>2. r \in Seq(T) /\ Append(q, x) = q \o r /\ DOMAIN r = 1 .. 1 /\ r[1] = x /\ Len(r) = 1
  BY <1>1
<1>3. CountIn(Append(q, x), S) = CountIn(q, S) + CountIn(r, S)
  BY <1>2, CountConcat
<1>4. CASE x \in S
  <2>1. CountIn(r, S) = 1
    BY <1>2, <1>4, CountAll
  <2> QED
    BY <1>3, <1>4, <2>1
<1>5. CASE x \notin S
  <2>1. PlacesIn(r, S) = {}
    BY <1>2, <1>5 DEF PlacesIn
  <2>2. CountIn(r, S) = 0
    BY <2>1, FS_EmptySet DEF CountIn
  <2> QED
    BY <1>3, <1>5, <2>2
<1> QED
  BY <1>4, <1>5

\* One element less at the front.
LEMMA CountTail ==
    ASSUME NEW T, NEW q \in Seq(T), q # <<>>, NEW S
    PROVE  CountIn(q, S) = (IF Head(q) \in S THEN 1 ELSE 0) + CountIn(Tail(q), S)
<1>1. PICK e : e = << >>
  OBVIOUS
<1>2. e \in Seq(T) /\ DOMAIN e = {}
  BY <1>1
<1>3. CountIn(e, S) = 0
  <2>1. PlacesIn(e, S) = {}
    BY <1>2 DEF PlacesIn
  <2> QED
    BY <2>1, FS_EmptySet DEF CountIn
<1>4. PICK x \in T : x = Head(q)
  OBVIOUS
<1>5. PICK h : h = Append(e, x)
  OBVIOUS
<1>6. h \in Seq(T) /\ Len(h) = 1 /\ h[1] = x
  BY <1>1, <1>2, <1>5
<1>7. PICK n \in Nat : n = Len(q) /\ n > 0
  OBVIOUS
<1>8. PICK t \in Seq(T) :
         t = Tail(q) /\ Len(t) = n - 1 /\ \A i \in 1 .. Len(t) : t[i] = q[i + 1]
  BY <1>7, HeadTailProperties
<1>9. q = h \o t
  <2>1. PICK u : u = h \o t
    OBVIOUS
  <2>2. /\ u \in Seq(T) /\ Len(u) = n
        /\ \A i \in 1 .. n : u[i] = IF i <= 1 THEN h[i] ELSE t[i - 1]
    <3>1. /\ h \o t \in Seq(T) /\ Len(h \o t) = Len(h) + Len(t)
          /\ \A i \in 1 .. Len(h) + Len(t) :
                (h \o t)[i] = IF i <= Len(h) THEN h[i] ELSE t[i - Len(h)]
      <4>1. h \in Seq(T) /\ t \in Seq(T)
        BY <1>6, <1>8
      <4> QED
        BY <4>1, ConcatProperties, Zenon
    <3>2. Len(h) + Len(t) = n
      BY <1>6, <1>7, <1>8
    <3> QED
      BY <1>6, <2>1, <3>1, <3>2
  <2>3. ASSUME NEW i \in 1 .. n
        PROVE  u[i] = q[i]
    <3>1. CASE i = 1
      BY <1>4, <1>6, <2>2, <3>1
    <3>2. CASE i # 1
      <4>1. ~ (i <= 1) /\ i - 1 \in 1 .. Len(t) /\ i - 1 + 1 = i
        BY <1>7, <1>8, <3>2
      <4> QED
        BY <1>8, <2>2, <4>1
    <3> QED
      BY <3>1, <3>2
  <2> QED
    BY <1>7, <2>1, <2>2, <2>3, SeqEqual
<1>10. CountIn(h, S) = 0 + (IF x \in S THEN 1 ELSE 0)
  <2>1. CountIn(Append(e, x), S) = CountIn(e, S) + (IF x \in S THEN 1 ELSE 0)
    BY <1>2, CountAppend
  <2> QED
    BY <1>3, <1>5, <2>1
<1>11. CountIn(h \o t, S) = CountIn(h, S) + CountIn(t, S)
  BY <1>6, CountConcat
<1>12. CountIn(t, S) \in Nat
  BY CountType
<1> QED
  <2>1. PICK k \in Nat : k = CountIn(t, S)
    BY <1>12
  <2>2. CountIn(q, S) = CountIn(h, S) + k
    BY <1>9, <1>11, <2>1
  <2> QED
    BY <1>4, <1>8, <1>10, <2>1, <2>2

\* One element in the place of another.
LEMMA CountReplace ==
    ASSUME NEW T, NEW q \in Seq(T), NEW k \in DOMAIN q, NEW x \in T, NEW S
    PROVE  CountIn([q EXCEPT ![k] = x], S) + (IF q[k] \in S THEN 1 ELSE 0)
             = CountIn(q, S) + (IF x \in S THEN 1 ELSE 0)
<1>1. PICK r : r = [q EXCEPT ![k] = x]
  OBVIOUS
<1>2. DOMAIN r = DOMAIN q /\ r[k] = x /\ \A i \in DOMAIN q : i # k => r[i] = q[i]
  BY <1>1
<1>3. r \in Seq(T)
  BY <1>1, ExceptSeq
<1>4. PICK rest : rest = PlacesIn(q, S) \ {k}
  OBVIOUS
<1>5. k \notin rest /\ PlacesIn(r, S) \ {k} = rest
  BY <1>2, <1>4 DEF PlacesIn
<1>6. IsFiniteSet(PlacesIn(q, S)) /\ IsFiniteSet(PlacesIn(r, S))
  BY <1>3, CountType
<1>7. IsFiniteSet(rest)
  BY <1>4, <1>6, FS_Subset
<1>8. PICK c \in Nat : c = Cardinality(rest)
  BY <1>7, FS_CardinalityType
<1>9. Cardinality(rest \cup {k}) = c + 1
  BY <1>5, <1>7, <1>8, FS_AddElement
<1>10. CountIn(q, S) = c + (IF q[k] \in S THEN 1 ELSE 0)
  <2>1. CASE q[k] \in S
    <3>1. PlacesIn(q, S) = rest \cup {k}
      BY <1>4, <2>1 DEF PlacesIn
    <3> QED
      BY <1>9, <2>1, <3>1 DEF CountIn
  <2>2. CASE q[k] \notin S
    <3>1. PlacesIn(q, S) = rest
      BY <1>4, <2>2 DEF PlacesIn
    <3> QED
      BY <1>8, <2>2, <3>1 DEF CountIn
  <2> QED
    BY <2>1, <2>2
<1>11. CountIn(r, S) = c + (IF x \in S THEN 1 ELSE 0)
  <2>1. CASE x \in S
    <3>1. PlacesIn(r, S) = rest \cup {k}
      BY <1>2, <1>5, <2>1 DEF PlacesIn
    <3> QED
      BY <1>9, <2>1, <3>1 DEF CountIn
  <2>2. CASE x \notin S
    <3>1. PlacesIn(r, S) = rest
      BY <1>2, <1>5, <2>2 DEF PlacesIn
    <3> QED
      BY <1>8, <2>2, <3>1 DEF CountIn
  <2> QED
    BY <2>1, <2>2
<1> QED
  BY <1>1, <1>10, <1>11

\* A sequence of the same length that has some of the places of another: what is
\* left is what is at the other places.
LEMMA CountSplit ==
    ASSUME NEW T, NEW q \in Seq(T), NEW r \in Seq(T), NEW u \in Seq(T), NEW S,
           PlacesIn(q, S) = PlacesIn(r, S) \cup PlacesIn(u, S), PlacesIn(r, S) \cap PlacesIn(u, S) = {}
    PROVE  CountIn(q, S) = CountIn(r, S) + CountIn(u, S)
<1>1. IsFiniteSet(PlacesIn(r, S)) /\ IsFiniteSet(PlacesIn(u, S))
  BY CountType
<1>2. PICK a \in Nat, b \in Nat : a = Cardinality(PlacesIn(r, S)) /\ b = Cardinality(PlacesIn(u, S))
  BY <1>1, FS_CardinalityType
<1>3. Cardinality(PlacesIn(r, S) \cap PlacesIn(u, S)) = 0
  BY FS_EmptySet
<1>4. Cardinality(PlacesIn(q, S)) = a + b - 0
  BY <1>1, <1>2, <1>3, FS_Union
<1> QED
  BY <1>2, <1>4 DEF CountIn

\* One element less at any place.
LEMMA CountRemove ==
    ASSUME NEW T, NEW q \in Seq(T), NEW i \in 1 .. Len(q), NEW S
    PROVE  CountIn(q, S) = CountIn(RemoveAt(q, i), S) + (IF q[i] \in S THEN 1 ELSE 0)
<1>1. PICK n \in Nat : n = Len(q)
  OBVIOUS
<1>2. i \in Nat /\ 1 <= i /\ i <= n /\ \A j \in 1 .. n : q[j] \in T
  BY <1>1
<1>3. PICK a, b : a = SubSeq(q, 1, i - 1) /\ b = SubSeq(q, i + 1, n)
  OBVIOUS
<1>4. a \in Seq(T) /\ Len(a) = i - 1 /\ \A j \in 1 .. i - 1 : a[j] = q[j]
  <2>1. \A j \in 1 .. i - 1 : q[j] \in T
    BY <1>2
  <2> QED
    BY <1>2, <1>3, <2>1, SubSeqProperties
<1>5. b \in Seq(T) /\ Len(b) = n - i /\ \A j \in 1 .. n - i : b[j] = q[i + j]
  <2>1. \A j \in i + 1 .. n : q[j] \in T
    BY <1>2
  <2>2. /\ b \in Seq(T) /\ Len(b) = IF i + 1 <= n THEN n - (i + 1) + 1 ELSE 0
        /\ \A j \in 1 .. n - (i + 1) + 1 : b[j] = q[(i + 1) + j - 1]
    BY <1>1, <1>2, <1>3, <2>1, SubSeqProperties
  <2>3. \A j \in 1 .. n - i : (i + 1) + j - 1 = i + j
    BY <1>2
  <2>4. n - (i + 1) + 1 = n - i
    BY <1>1, <1>2
  <2>5. Len(b) = n - i
    <3>1. i + 1 <= n \/ n - i = 0
      BY <1>1, <1>2
    <3> QED
      BY <2>2, <2>4, <3>1
  <2> QED
    BY <2>2, <2>3, <2>4, <2>5
<1>6. PICK x, c, u : x = q[i] /\ c = Append(a, x) /\ u = c \o b
  OBVIOUS
<1>7. x \in T
  BY <1>1, <1>2, <1>6
<1>8. /\ c \in Seq(T) /\ Len(c) = i /\ c[i] = x
      /\ \A j \in 1 .. i - 1 : c[j] = q[j]
  BY <1>2, <1>4, <1>6, <1>7, AppendProperties
<1>9. /\ u \in Seq(T) /\ Len(u) = i + (n - i)
      /\ \A j \in 1 .. i + (n - i) : u[j] = IF j <= i THEN c[j] ELSE b[j - i]
  <2>1. /\ c \o b \in Seq(T) /\ Len(c \o b) = Len(c) + Len(b)
        /\ \A j \in 1 .. Len(c) + Len(b) :
              (c \o b)[j] = IF j <= Len(c) THEN c[j] ELSE b[j - Len(c)]
    BY <1>5, <1>8, ConcatProperties
  <2> QED
    BY <1>5, <1>6, <1>8, <2>1
<1>10. ASSUME NEW j \in 1 .. n
       PROVE  u[j] = q[j]
  <2>1. CASE j < i
    BY <1>1, <1>2, <1>8, <1>9, <2>1
  <2>2. CASE j = i
    BY <1>1, <1>2, <1>6, <1>8, <1>9, <2>2
  <2>3. CASE j > i
    <3>1. j - i \in 1 .. n - i /\ i + (j - i) = j
      BY <1>1, <1>2, <2>3
    <3> QED
      BY <1>1, <1>2, <1>5, <1>9, <2>3, <3>1
  <2> QED
    BY <1>2, <2>1, <2>2, <2>3
<1>11. u = q
  <2>1. Len(u) = n
    BY <1>1, <1>2, <1>9
  <2> QED
    BY <1>1, <1>9, <1>10, <2>1, SeqEqual
<1>12. RemoveAt(q, i) = a \o b
  BY <1>1, <1>3 DEF RemoveAt
<1>13. CountIn(a \o b, S) = CountIn(a, S) + CountIn(b, S)
  BY <1>4, <1>5, CountConcat
<1>14. CountIn(u, S) = CountIn(c, S) + CountIn(b, S)
  <2>1. CountIn(c \o b, S) = CountIn(c, S) + CountIn(b, S)
    BY <1>5, <1>8, CountConcat
  <2> QED
    BY <1>6, <2>1
<1>15. CountIn(c, S) = CountIn(a, S) + (IF x \in S THEN 1 ELSE 0)
  BY <1>4, <1>6, <1>7, CountAppend
<1>16. PICK k \in Nat, m \in Nat : k = CountIn(a, S) /\ m = CountIn(b, S)
  BY <1>4, <1>5, CountType
<1> QED
  BY <1>6, <1>11, <1>12, <1>13, <1>14, <1>15, <1>16
=============================================================================
