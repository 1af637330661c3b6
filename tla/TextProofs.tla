----------------------------- MODULE TextProofs -----------------------------
(***************************************************************************)
(* What the string functions return, for texts and lists of any length.    *)
(*                                                                         *)
(* Induction is taken from WFMin, that a set of natural numbers has a      *)
(* smallest one, which speaks of sets: SetInduction is induction for a     *)
(* set of numbers.                                                         *)
(***************************************************************************)
EXTENDS Text, Integers, TLAPS, FiniteSetTheorems, SequenceTheorems,
        WellFoundedInduction

-----------------------------------------------------------------------------
(***************************************************************************)
(* Induction, and the smallest and the largest of a set.                   *)
(***************************************************************************)

\* The order of the natural numbers is well-founded.
LEMMA LessIsWellFounded ==
  \E R : IsWellFoundedOn(R, Nat) /\ \A x, y \in Nat : x < y => <<x, y>> \in R
<1> DEFINE R == OpToRel(<, Nat)
<1>1. IsWellFoundedOn(R, Nat)
  BY NatLessThanWellFounded
<1>2. \A x, y \in Nat : x < y => <<x, y>> \in R
  BY DEF OpToRel
<1> QED
  BY <1>1, <1>2, Zenon

\* Induction on the natural numbers, for a set of numbers.
LEMMA SetInduction ==
  ASSUME NEW S, 0 \in S, \A n \in Nat : n \in S => n + 1 \in S
  PROVE  \A n \in Nat : n \in S
<1> DEFINE T == {n \in Nat : n \notin S}
<1>1. SUFFICES ASSUME T # {} PROVE FALSE
  OBVIOUS
<1>2. PICK R : IsWellFoundedOn(R, Nat) /\ \A x, y \in Nat : x < y => <<x, y>> \in R
  BY LessIsWellFounded
<1>3. IsWellFoundedOn(R, Nat) /\ T \subseteq Nat
  BY <1>2
<1> HIDE DEF T
<1>4. \E x \in T : \A y \in T : ~ (<<y, x>> \in R)
  BY <1>1, <1>3, WFMin, Zenon
<1>5. PICK x \in T : \A y \in T : ~ (<<y, x>> \in R)
  BY <1>4
<1>6. x \in Nat /\ x \notin S
  BY DEF T
<1>7. x # 0 /\ x - 1 \in Nat /\ x - 1 < x
  BY <1>6
<1>8. x - 1 \in S
  BY <1>2, <1>5, <1>6, <1>7 DEF T
<1> QED
  BY <1>6, <1>7, <1>8

\* The smallest of a set of numbers is one of them.
LEMMA MinIn ==
  ASSUME NEW T, T \subseteq Nat, T # {}
  PROVE  Min(T) \in T
<1>1. PICK R : IsWellFoundedOn(R, Nat) /\ \A x, y \in Nat : x < y => <<x, y>> \in R
  BY LessIsWellFounded
<1>2. IsWellFoundedOn(R, Nat)
  BY <1>1
<1>3. \E x \in T : \A y \in T : ~ (<<y, x>> \in R)
  BY <1>2, WFMin, Zenon
<1>4. PICK x \in T : \A y \in T : ~ (<<y, x>> \in R)
  BY <1>3
<1>5. ASSUME NEW y \in T PROVE x <= y
  <2>1. x \in Nat /\ y \in Nat
    OBVIOUS
  <2>2. ~ (y < x)
    BY <1>1, <1>4, <2>1
  <2> QED
    BY <2>1, <2>2
<1>6. \E z \in T : \A y \in T : z <= y
  BY <1>5
<1> QED
  BY <1>6, Zenon DEF Min

\* And none is smaller.
LEMMA MinLeast ==
  ASSUME NEW T, T \subseteq Nat, T # {}
  PROVE  \A y \in T : Min(T) <= y
<1>1. PICK R : IsWellFoundedOn(R, Nat) /\ \A x, y \in Nat : x < y => <<x, y>> \in R
  BY LessIsWellFounded
<1>2. IsWellFoundedOn(R, Nat)
  BY <1>1
<1>3. \E x \in T : \A y \in T : ~ (<<y, x>> \in R)
  BY <1>2, WFMin, Zenon
<1>4. PICK x \in T : \A y \in T : ~ (<<y, x>> \in R)
  BY <1>3
<1>5. ASSUME NEW y \in T PROVE x <= y
  <2>1. x \in Nat /\ y \in Nat
    OBVIOUS
  <2>2. ~ (y < x)
    BY <1>1, <1>4, <2>1
  <2> QED
    BY <2>1, <2>2
<1> QED
  BY <1>5, Zenon DEF Min

\* The largest of a bounded set of numbers is one of them.
LEMMA MaxIn ==
  ASSUME NEW T, T \subseteq Nat, T # {}, NEW n \in Nat, \A i \in T : i <= n
  PROVE  Max(T) \in T
<1> DEFINE D == {n - i : i \in T}
<1>1. D \subseteq Nat /\ D # {}
  <2>1. \A i \in T : i \in Nat /\ n - i \in Nat
    OBVIOUS
  <2> QED
    BY <2>1
<1>2. \A d \in D : n - d \in T
  OBVIOUS
<1> HIDE DEF D
<1>3. PICK R : IsWellFoundedOn(R, Nat) /\ \A x, y \in Nat : x < y => <<x, y>> \in R
  BY LessIsWellFounded
<1>4. IsWellFoundedOn(R, Nat)
  BY <1>3
<1>5. \E x \in D : \A y \in D : ~ (<<y, x>> \in R)
  BY <1>1, <1>4, WFMin, Zenon
<1>6. PICK x \in D : \A y \in D : ~ (<<y, x>> \in R)
  BY <1>5
<1>7. n - x \in T /\ x \in Nat
  BY <1>1, <1>2
<1>8. ASSUME NEW i \in T PROVE i <= n - x
  <2>1. n - i \in D /\ n - i \in Nat /\ i \in Nat
    BY <1>1 DEF D
  <2>2. ~ (n - i < x)
    BY <1>3, <1>6, <1>7, <2>1
  <2> QED
    BY <1>7, <2>1, <2>2
<1>9. \E z \in T : \A i \in T : z >= i
  <2>1. n - x \in Int /\ \A i \in T : i \in Int
    BY <1>7
  <2>2. \A i \in T : n - x >= i
    BY <1>8, <2>1
  <2> QED
    BY <1>7, <2>2
<1> QED
  BY <1>9, Zenon DEF Max

-----------------------------------------------------------------------------
(***************************************************************************)
(* Sequences.                                                              *)
(***************************************************************************)

\* A function on 1 .. n is a sequence.
LEMMA FunctionIsSeq ==
  ASSUME NEW V, NEW n \in Nat, NEW f \in [1 .. n -> V]
  PROVE  f \in Seq(V) /\ Len(f) = n
OBVIOUS

\* A sequence belongs to every set of sequences that has its elements.
LEMMA SeqInto ==
  ASSUME NEW U, NEW t \in Seq(U), NEW V, \A k \in 1 .. Len(t) : t[k] \in V
  PROVE  t \in Seq(V)
<1>1. Len(t) \in Nat /\ t \in [1 .. Len(t) -> V]
  OBVIOUS
<1> QED
  BY <1>1, FunctionIsSeq

\* An element of a sequence.
LEMMA Element ==
  ASSUME NEW V, NEW t \in Seq(V), NEW k \in 1 .. Len(t)
  PROVE  t[k] \in V /\ k \in DOMAIN t /\ t[k] \in Range(t)
BY DEF Range

\* Texts over fewer units.
LEMMA TextsInto ==
  ASSUME NEW U, NEW V, U \subseteq V, NEW p \in Seq(Seq(U))
  PROVE  p \in Seq(Seq(V))
<1>1. ASSUME NEW k \in 1 .. Len(p) PROVE p[k] \in Seq(V)
  <2>1. PICK t : t = p[k]
    OBVIOUS
  <2>2. t \in Seq(U)
    BY <2>1
  <2>3. \A j \in 1 .. Len(t) : t[j] \in V
    BY <2>2
  <2> QED
    BY <2>1, <2>2, <2>3, SeqInto
<1> QED
  BY <1>1, SeqInto

\* Two units.
LEMMA TwoUnits ==
  ASSUME NEW U, NEW a \in U, NEW b \in U
  PROVE  <<a, b>> \in Seq(U)
OBVIOUS

\* The text of the first unit.
LEMMA OneUnit ==
  ASSUME NEW U, NEW s \in Seq(U), Len(s) >= 1
  PROVE  SubSeq(s, 1, 2 - 1) = <<s[1]>>
<1> DEFINE t == SubSeq(s, 1, 1)
<1>1. t \in Seq(U) /\ Len(t) = 1 /\ t[1] = s[1]
  OBVIOUS
<1>2. <<s[1]>> \in Seq(U) /\ Len(<<s[1]>>) = 1 /\ <<s[1]>>[1] = s[1]
  OBVIOUS
<1> HIDE DEF t
<1>3. \A i \in 1 .. Len(t) : t[i] = <<s[1]>>[i]
  BY <1>1, <1>2
<1>4. t = <<s[1]>>
  BY <1>1, <1>2, <1>3, SeqEqual
<1> QED
  BY <1>4 DEF t

-----------------------------------------------------------------------------
(***************************************************************************)
(* What Split does with any text.  Its cut(k) is the place with exactly k  *)
(* places before it: there is one, and only one.                           *)
(***************************************************************************)

Rank(C, i) == Cardinality({j \in C : j < i})

\* A rank is below the size of the set.
LEMMA RankType ==
  ASSUME NEW C, C \subseteq Nat, IsFiniteSet(C), NEW i \in C
  PROVE  /\ IsFiniteSet({j \in C : j < i})
         /\ Rank(C, i) \in Nat /\ Rank(C, i) < Cardinality(C)
<1> DEFINE B == {j \in C : j < i}
<1>1. B \in SUBSET C /\ i \notin B /\ Rank(C, i) = Cardinality(B)
  BY DEF Rank
<1> HIDE DEF B
<1>2. /\ IsFiniteSet(B) /\ Cardinality(B) <= Cardinality(C)
      /\ Cardinality(C) = Cardinality(B) => C = B
  BY <1>1, FS_Subset
<1>3. Cardinality(B) \in Nat /\ Cardinality(C) \in Nat
  BY <1>2, FS_CardinalityType
<1> QED
  BY <1>1, <1>2, <1>3 DEF B

\* Ranks grow with the numbers.
LEMMA RankGrows ==
  ASSUME NEW C, C \subseteq Nat, IsFiniteSet(C), NEW i \in C, NEW j \in C, i < j
  PROVE  Rank(C, i) < Rank(C, j)
<1> DEFINE Below(m) == {a \in C : a < m}
<1>1. \A m \in C : /\ IsFiniteSet(Below(m)) /\ Rank(C, m) = Cardinality(Below(m))
                   /\ Rank(C, m) \in Nat
  BY RankType DEF Rank
<1>2. Cardinality(Below(i)) < Cardinality(Below(j))
  <2>1. i \notin Below(i) /\ Below(i) \cup {i} \in SUBSET Below(j)
    <3>1. i \in Nat /\ j \in Nat
      OBVIOUS
    <3>2. ASSUME NEW m \in Below(i) PROVE m \in Below(j)
      BY <3>1, <3>2
    <3>3. i \in Below(j) /\ i \notin Below(i)
      BY <3>1
    <3> HIDE DEF Below
    <3> QED
      BY <3>2, <3>3
  <2> HIDE DEF Below
  <2>2. Cardinality(Below(i) \cup {i}) = Cardinality(Below(i)) + 1
    BY <1>1, <2>1, FS_AddElement
  <2>3. Cardinality(Below(i) \cup {i}) <= Cardinality(Below(j))
    BY <1>1, <2>1, FS_Subset
  <2> QED
    BY <1>1, <2>2, <2>3
<1> HIDE DEF Below
<1> QED
  BY <1>1, <1>2

\* Different numbers have different ranks.
LEMMA RankInjective ==
  ASSUME NEW C, C \subseteq Nat, IsFiniteSet(C), NEW i \in C, NEW j \in C,
         Rank(C, i) = Rank(C, j)
  PROVE  i = j
<1>1. i \in Nat /\ j \in Nat /\ Rank(C, i) \in Nat /\ Rank(C, j) \in Nat
  BY RankType
<1>2. CASE i < j
  <2>1. Rank(C, i) < Rank(C, j)
    BY <1>2, RankGrows
  <2> QED
    BY <1>1, <2>1
<1>3. CASE j < i
  <2>1. Rank(C, j) < Rank(C, i)
    BY <1>3, RankGrows
  <2> QED
    BY <1>1, <2>1
<1> QED
  BY <1>1, <1>2, <1>3

\* Every number below the size of the set is a rank.
LEMMA Ranked ==
  ASSUME NEW C, C \subseteq Nat, IsFiniteSet(C), NEW k \in 0 .. (Cardinality(C) - 1)
  PROVE  \E i \in C : Rank(C, i) = k
<1> DEFINE T == 0 .. (Cardinality(C) - 1)
           f == [i \in C |-> Rank(C, i)]
<1>1. Cardinality(C) \in Nat
  BY FS_CardinalityType
<1>2. f \in Injection(C, T)
  <2>1. f \in [C -> T]
    <3>1. \A i \in C : Rank(C, i) \in Nat /\ Rank(C, i) < Cardinality(C)
      BY RankType
    <3> QED
      BY <1>1, <3>1
  <2>2. ASSUME NEW i \in C, NEW j \in C, f[i] = f[j] PROVE i = j
    <3>1. Rank(C, i) = Rank(C, j)
      BY <2>2
    <3> QED
      BY <3>1, RankInjective
  <2> HIDE DEF f, T
  <2> QED
    BY <2>1, <2>2 DEF Injection, IsInjective
<1>3. IsFiniteSet(T) /\ Cardinality(T) = Cardinality(C)
  <2>1. 0 \in Int /\ Cardinality(C) - 1 \in Int
    BY <1>1
  <2>2. IsFiniteSet(T) /\ Cardinality(T) = IF 0 > Cardinality(C) - 1 THEN 0
                                           ELSE Cardinality(C) - 1 - 0 + 1
    BY <2>1, FS_Interval
  <2> QED
    BY <1>1, <2>2
<1>4. f \in Surjection(C, T)
  <2> HIDE DEF f, T
  <2> QED
    BY <1>2, <1>3, FS_Injection
<1>5. \E i \in C : f[i] = k
  <2> HIDE DEF f
  <2> QED
    BY <1>4 DEF Surjection
<1> QED
  BY <1>5

\* The places of the separators, with both ends.
Cuts(s, c) == {i \in DOMAIN s : s[i] = c} \cup {0, Len(s) + 1}

Cut(s, c, k) == CHOOSE i \in Cuts(s, c) : Rank(Cuts(s, c), i) = k

\* Split in these terms.
LEMMA SplitIs ==
  ASSUME NEW s, NEW c
  PROVE  Split(s, c) = [k \in 1 .. (Cardinality(Cuts(s, c)) - 1) |->
                          SubSeq(s, Cut(s, c, k - 1) + 1, Cut(s, c, k) - 1)]
BY DEF Split, Cuts, Cut, Rank

\* The places are in the text or at its ends, and there are two at least.
LEMMA CutsType ==
  ASSUME NEW U, NEW s \in Seq(U), NEW c
  PROVE  /\ Len(s) \in Nat
         /\ Cuts(s, c) \subseteq 0 .. (Len(s) + 1) /\ Cuts(s, c) \subseteq Nat
         /\ 0 \in Cuts(s, c) /\ Len(s) + 1 \in Cuts(s, c)
         /\ IsFiniteSet(Cuts(s, c))
         /\ Cardinality(Cuts(s, c)) \in Nat /\ Cardinality(Cuts(s, c)) >= 2
<1>1. /\ Len(s) \in Nat
      /\ Cuts(s, c) \subseteq 0 .. (Len(s) + 1) /\ Cuts(s, c) \subseteq Nat
      /\ 0 \in Cuts(s, c) /\ Len(s) + 1 \in Cuts(s, c)
  BY DEF Cuts
<1>2. IsFiniteSet(Cuts(s, c))
  <2>1. /\ Cuts(s, c) \in SUBSET Nat /\ Len(s) + 1 \in Nat
        /\ \A i \in Cuts(s, c) : i <= Len(s) + 1
    BY <1>1
  <2> QED
    BY <2>1, FS_BoundedSetOfNaturals
<1>3. Cardinality(Cuts(s, c)) \in Nat
  BY <1>2, FS_CardinalityType
<1>4. Rank(Cuts(s, c), 0) < Rank(Cuts(s, c), Len(s) + 1)
  BY <1>1, <1>2, RankGrows
<1>5. /\ Rank(Cuts(s, c), 0) \in Nat /\ Rank(Cuts(s, c), Len(s) + 1) \in Nat
      /\ Rank(Cuts(s, c), Len(s) + 1) < Cardinality(Cuts(s, c))
  BY <1>1, <1>2, RankType
<1> QED
  BY <1>1, <1>2, <1>3, <1>4, <1>5

\* A place is the cut of its rank.
LEMMA CutOfRank ==
  ASSUME NEW U, NEW s \in Seq(U), NEW c, NEW i \in Cuts(s, c)
  PROVE  Cut(s, c, Rank(Cuts(s, c), i)) = i
<1> DEFINE C == Cuts(s, c)
<1>1. C \subseteq Nat /\ IsFiniteSet(C)
  BY CutsType
<1> HIDE DEF C
<1>2. ASSUME NEW j \in C, Rank(C, j) = Rank(C, i), i \in C PROVE j = i
  BY <1>1, <1>2, RankInjective
<1> QED
  BY <1>2 DEF Cut, C

\* The pieces of a text: there is one at least, and none is longer than it.
LEMMA SplitPieces ==
  ASSUME NEW U, NEW s \in Seq(U), NEW c
  PROVE  /\ Split(s, c) \in Seq(Seq(U))
         /\ Len(Split(s, c)) = Cardinality(Cuts(s, c)) - 1
         /\ \A k \in 1 .. Len(Split(s, c)) : Len(Split(s, c)[k]) <= Len(s)
<1> DEFINE C == Cuts(s, c)
           n == Cardinality(C) - 1
           piece(k) == SubSeq(s, Cut(s, c, k - 1) + 1, Cut(s, c, k) - 1)
<1>1. Split(s, c) = [k \in 1 .. n |-> piece(k)]
  BY SplitIs
<1>2. /\ C \subseteq 0 .. (Len(s) + 1) /\ C \subseteq Nat /\ IsFiniteSet(C)
      /\ n \in Nat /\ n > 0 /\ Len(s) \in Nat
  BY CutsType
<1>3. ASSUME NEW k \in 0 .. n PROVE Cut(s, c, k) \in 0 .. (Len(s) + 1)
  <2>1. \E i \in C : Rank(C, i) = k
    <3> HIDE DEF C
    <3> QED
      BY <1>2, Ranked
  <2>2. Cut(s, c, k) \in C
    BY <2>1 DEF Cut
  <2> QED
    BY <1>2, <2>2
<1> HIDE DEF n
<1>4. ASSUME NEW k \in 1 .. n PROVE piece(k) \in Seq(U) /\ Len(piece(k)) <= Len(s)
  <2>1. Cut(s, c, k - 1) \in 0 .. (Len(s) + 1) /\ Cut(s, c, k) \in 0 .. (Len(s) + 1)
    BY <1>2, <1>3
  <2> QED
    BY <1>2, <2>1
<1> HIDE DEF piece
<1>5. Split(s, c) \in [1 .. n -> Seq(U)]
  BY <1>1, <1>4
<1>6. Split(s, c) \in Seq(Seq(U)) /\ Len(Split(s, c)) = n
  BY <1>2, <1>5, FunctionIsSeq
<1>7. \A k \in 1 .. n : Len(Split(s, c)[k]) <= Len(s)
  BY <1>1, <1>4
<1> QED
  BY <1>6, <1>7 DEF n

\* The first piece ends before the first separator.
LEMMA FirstPiece ==
  ASSUME NEW U, NEW s \in Seq(U), NEW c, NEW n \in 1 .. (Len(s) + 1),
         \A i \in 1 .. (n - 1) : s[i] # c, n = Len(s) + 1 \/ s[n] = c
  PROVE  /\ Split(s, c)[1] = SubSeq(s, 1, n - 1)
         /\ Len(Split(s, c)) = 1 <=> n = Len(s) + 1
<1> DEFINE C == Cuts(s, c)
<1>1. /\ Len(s) \in Nat /\ C \subseteq 0 .. (Len(s) + 1) /\ C \subseteq Nat
      /\ 0 \in C /\ Len(s) + 1 \in C /\ IsFiniteSet(C)
      /\ Cardinality(C) \in Nat /\ Cardinality(C) >= 2
  BY CutsType
<1>2. n \in C
  BY <1>1 DEF Cuts
<1>3. {j \in C : j < 0} = {} /\ {j \in C : j < n} = {0}
  <2>1. ASSUME NEW j \in C, j < n PROVE j = 0
    <3>1. j \in 0 .. (n - 1)
      BY <1>1, <2>1
    <3>2. j \in {i \in DOMAIN s : s[i] = c} \cup {0, Len(s) + 1}
      BY DEF Cuts
    <3> QED
      BY <1>1, <2>1, <3>1, <3>2
  <2> HIDE DEF C
  <2>2. {j \in C : j < 0} = {}
    <3>1. ASSUME NEW j \in C PROVE ~ (j < 0)
      BY <1>1
    <3> QED
      BY <3>1
  <2>3. 0 < n
    OBVIOUS
  <2>4. {j \in C : j < n} = {0}
    BY <1>1, <2>1, <2>3
  <2> QED
    BY <2>2, <2>4
<1>4. Rank(C, 0) = 0 /\ Rank(C, n) = 1
  <2> HIDE DEF C
  <2> QED
    BY <1>3, FS_EmptySet, FS_Singleton DEF Rank
<1>5. Cut(s, c, 0) = 0 /\ Cut(s, c, 1) = n
  BY <1>1, <1>2, <1>4, CutOfRank
<1>6. Split(s, c)[1] = SubSeq(s, 1, n - 1)
  <2>1. Split(s, c)[1] = SubSeq(s, Cut(s, c, 1 - 1) + 1, Cut(s, c, 1) - 1)
    <3>1. 1 \in 1 .. (Cardinality(C) - 1)
      BY <1>1
    <3> QED
      BY <3>1, SplitIs
  <2> QED
    BY <1>5, <2>1
<1>7. ASSUME n = Len(s) + 1 PROVE Cardinality(C) = 2
  <2>1. C = {0} \cup {n}
    <3>1. ASSUME NEW j \in C PROVE j = 0 \/ j = n
      <4>1. j < n \/ j = n
        BY <1>1, <1>7
      <4> QED
        BY <1>3, <4>1
    <3> HIDE DEF C
    <3> QED
      BY <1>1, <1>2, <3>1
  <2>2. IsFiniteSet({0}) /\ Cardinality({0}) = 1
    BY FS_Singleton
  <2>3. n \notin {0}
    OBVIOUS
  <2>4. Cardinality({0} \cup {n}) = 1 + 1
    BY <2>2, <2>3, FS_AddElement
  <2>5. Cardinality(C) = 1 + 1
    BY <2>1, <2>4, Zenon
  <2> HIDE DEF C
  <2> QED
    BY <2>5
<1>8. ASSUME n # Len(s) + 1 PROVE Cardinality(C) > 2
  <2>1. n < Len(s) + 1
    BY <1>1, <1>8
  <2> HIDE DEF C
  <2>2. Rank(C, n) < Rank(C, Len(s) + 1)
    BY <1>1, <1>2, <2>1, RankGrows
  <2>3. Rank(C, Len(s) + 1) \in Nat /\ Rank(C, Len(s) + 1) < Cardinality(C)
    BY <1>1, RankType
  <2> QED
    BY <1>1, <1>4, <2>2, <2>3
<1>9. Len(Split(s, c)) = Cardinality(C) - 1
  BY SplitPieces
<1> QED
  BY <1>1, <1>6, <1>7, <1>8, <1>9

\* Split at the first separator.
LEMMA SplitOnceType ==
  ASSUME NEW U, NEW s \in Seq(U), NEW c
  PROVE  /\ SplitOnce(s, c)[1] \in Seq(U)
         /\ Len(SplitOnce(s, c)) # 1 => /\ SplitOnce(s, c)[2] \in Seq(U)
                                        /\ Len(SplitOnce(s, c)[2]) <= Len(s)
<1> DEFINE parts == Split(s, c)
           head == parts[1]
           rest == SubSeq(s, Len(head) + 2, Len(s))
<1>1. SplitOnce(s, c) = IF Len(parts) = 1 THEN <<head>> ELSE <<head, rest>>
  BY DEF SplitOnce
<1>2. /\ parts \in Seq(Seq(U)) /\ Len(parts) >= 1 /\ Len(s) \in Nat
  <2>1. Cardinality(Cuts(s, c)) \in Nat /\ Cardinality(Cuts(s, c)) >= 2
    BY CutsType
  <2>2. parts \in Seq(Seq(U)) /\ Len(parts) = Cardinality(Cuts(s, c)) - 1
    BY SplitPieces
  <2> HIDE DEF parts
  <2> QED
    BY <2>1, <2>2
<1> HIDE DEF parts
<1>3. head \in Seq(U)
  BY <1>2
<1>4. Len(head) \in Nat
  BY <1>3
<1>5. rest \in Seq(U) /\ Len(rest) <= Len(s)
  <2> HIDE DEF head
  <2> QED
    BY <1>2, <1>4
<1> HIDE DEF head, rest
<1> QED
  BY <1>1, <1>3, <1>5

\* A word, a separator and a text: split at the first separator.
LEMMA SplitWord ==
  ASSUME NEW U, NEW e \in Seq(U), NEW word, NEW c, word # c
  PROVE  LET parts == SplitOnce(<<word, c>> \o e, c)
         IN  parts[1] = <<word>> /\ parts[2] = e /\ Len(parts) # 1
<1> DEFINE s == <<word, c>> \o e
           V == U \cup {word, c}
           parts == SplitOnce(s, c)
<1>1. Split(s, c)[1] = <<word>> /\ Len(Split(s, c)) # 1
  <2>1. /\ s \in Seq(V) /\ Len(s) = Len(e) + 2 /\ Len(e) \in Nat /\ s[1] = word /\ s[2] = c
    OBVIOUS
  <2> HIDE DEF s, V
  <2>2. SubSeq(s, 1, 2 - 1) = <<word>>
    BY <2>1, OneUnit
  <2>3. /\ 2 \in 1 .. (Len(s) + 1) /\ \A i \in 1 .. (2 - 1) : s[i] # c
        /\ 2 # Len(s) + 1
    BY <2>1
  <2>4. Split(s, c)[1] = SubSeq(s, 1, 2 - 1) /\ (Len(Split(s, c)) = 1 <=> 2 = Len(s) + 1)
    BY <2>1, <2>3, FirstPiece
  <2> QED
    BY <2>2, <2>3, <2>4
<1>2. SubSeq(s, Len(<<word>>) + 2, Len(s)) = e
  OBVIOUS
<1>3. parts = <<<<word>>, e>>
  <2> HIDE DEF s
  <2> QED
    BY <1>1, <1>2, Zenon DEF SplitOnce
<1>4. parts[1] = <<word>> /\ parts[2] = e /\ Len(parts) # 1
  <2> HIDE DEF parts
  <2> QED
    BY <1>3
<1> QED
  BY <1>4

\* A text without the separator is one piece.
LEMMA SplitWhole ==
  ASSUME NEW U, NEW t \in Seq(U), NEW c, \A k \in 1 .. Len(t) : t[k] # c
  PROVE  Split(t, c) = <<t>>
<1>1. Len(t) \in Nat /\ Len(t) + 1 \in 1 .. (Len(t) + 1)
  OBVIOUS
<1>2. Split(t, c)[1] = SubSeq(t, 1, Len(t) + 1 - 1) /\ Len(Split(t, c)) = 1
  BY <1>1, FirstPiece
<1>3. SubSeq(t, 1, Len(t) + 1 - 1) = t
  <2>1. Len(t) + 1 - 1 = Len(t)
    BY <1>1
  <2>2. SubSeq(t, 1, Len(t)) = t
    BY SubSeqFull
  <2> QED
    BY <2>1, <2>2
<1>4. Split(t, c) \in Seq(Seq(U))
  BY SplitPieces
<1>5. PICK s : s = Split(t, c)
  OBVIOUS
<1>6. s \in Seq(Seq(U)) /\ Len(s) = 1 /\ s[1] = t
  BY <1>2, <1>3, <1>4, <1>5
<1>7. <<t>> \in Seq(Seq(U)) /\ Len(<<t>>) = 1 /\ <<t>>[1] = t
  OBVIOUS
<1>8. s = <<t>>
  BY <1>6, <1>7, SeqEqual
<1> QED
  BY <1>5, <1>8

\* The empty text is one empty piece.
LEMMA SplitNothing ==
  ASSUME NEW c
  PROVE  Split(<<>>, c) = << <<>> >>
<1>1. PICK e, U : e = <<>> /\ U = {}
  OBVIOUS
<1>2. e \in Seq(U) /\ \A k \in 1 .. Len(e) : e[k] # c
  BY <1>1
<1>3. Split(e, c) = <<e>>
  BY <1>2, SplitWhole
<1> QED
  BY <1>1, <1>3

\* A separator and a piece more: the places before it stay, with their ranks.
LEMMA SplitMore ==
  ASSUME NEW U, NEW s \in Seq(U), NEW c \in U, NEW t \in Seq(U),
         \A k \in 1 .. Len(t) : t[k] # c
  PROVE  Split(s \o <<c>> \o t, c) = Append(Split(s, c), t)
<1>0. PICK m \in Nat, n \in Nat, w \in Seq(U) :
        /\ m = Len(s) /\ n = Len(t) /\ w = s \o <<c>> \o t /\ Len(w) = m + 1 + n
        /\ \A k \in 1 .. m : w[k] = s[k]
        /\ w[m + 1] = c
        /\ \A k \in 1 .. n : w[m + 1 + k] = t[k]
  <2>0. Len(s) \in Nat /\ Len(t) \in Nat /\ <<c>> \in Seq(U)
    OBVIOUS
  <2>1. PICK m \in Nat, n \in Nat, d \in Seq(U) :
          m = Len(s) /\ n = Len(t) /\ d = <<c>>
    BY <2>0, Zenon
  <2>2. d \in Seq(U) /\ Len(d) = 1 /\ d[1] = c
    BY <2>1
  <2>3. PICK v : v = s \o d
    OBVIOUS
  <2>4. /\ v \in Seq(U) /\ Len(v) = m + 1
        /\ \A k \in 1 .. (m + 1) : v[k] = IF k <= m THEN s[k] ELSE d[k - m]
    BY <2>1, <2>2, <2>3, ConcatProperties
  <2>5. PICK w : w = v \o t
    OBVIOUS
  <2>6. /\ w \in Seq(U) /\ Len(w) = m + 1 + n
        /\ \A k \in 1 .. (m + 1 + n) :
             w[k] = IF k <= m + 1 THEN v[k] ELSE t[k - (m + 1)]
    BY <2>1, <2>4, <2>5, ConcatProperties
  <2>7. \A k \in 1 .. m : w[k] = s[k]
    BY <2>4, <2>6
  <2>8. w[m + 1] = c
    BY <2>2, <2>4, <2>6
  <2>9. \A k \in 1 .. n : w[m + 1 + k] = t[k]
    BY <2>6
  <2>10. w = s \o <<c>> \o t
    BY <2>1, <2>3, <2>5
  <2> QED
    BY <2>1, <2>6, <2>7, <2>8, <2>9, <2>10
<1> DEFINE C == Cuts(s, c)
           D == Cuts(w, c)
           e == Len(w) + 1
<1>1. /\ C \subseteq 0 .. (m + 1) /\ C \subseteq Nat /\ IsFiniteSet(C) /\ 0 \in C /\ m + 1 \in C
      /\ Cardinality(C) \in Nat /\ Cardinality(C) >= 2
  BY <1>0, CutsType
<1>2. /\ D \subseteq Nat /\ IsFiniteSet(D) /\ e \in D
      /\ Cardinality(D) \in Nat /\ Cardinality(D) >= 2
  BY <1>0, CutsType
<1>3. e \notin C /\ e \in Nat
  BY <1>0, <1>1
<1>4. D = C \cup {e}
  <2>1. DOMAIN w = 1 .. (m + 1 + n) /\ DOMAIN s = 1 .. m
    BY <1>0
  <2>2. ASSUME NEW j \in D PROVE j \in C \cup {e}
    <3>1. j \in {i \in DOMAIN w : w[i] = c} \/ j = 0 \/ j = e
      BY DEF Cuts
    <3>2. CASE j \in {i \in DOMAIN w : w[i] = c}
      <4>1. j \in 1 .. (m + 1 + n) /\ w[j] = c
        BY <2>1, <3>2
      <4>2. CASE j \in 1 .. m
        BY <1>0, <2>1, <4>1, <4>2 DEF Cuts
      <4>3. CASE j = m + 1
        BY <1>1, <4>3
      <4>4. CASE j > m + 1
        <5>1. j - (m + 1) \in 1 .. n /\ m + 1 + (j - (m + 1)) = j
          BY <4>1, <4>4
        <5> QED
          BY <1>0, <4>1, <5>1
      <4> QED
        BY <4>1, <4>2, <4>3, <4>4
    <3> QED
      BY <1>1, <3>1, <3>2
  <2>3. ASSUME NEW j \in C PROVE j \in D
    <3>1. j \in {i \in DOMAIN s : s[i] = c} \/ j = 0 \/ j = m + 1
      BY <1>0 DEF Cuts
    <3>2. CASE j \in {i \in DOMAIN s : s[i] = c}
      BY <1>0, <2>1, <3>2 DEF Cuts
    <3>3. CASE j = m + 1
      BY <1>0, <2>1, <3>3 DEF Cuts
    <3>4. CASE j = 0
      BY <3>4 DEF Cuts
    <3> QED
      BY <3>1, <3>2, <3>3, <3>4
  <2> HIDE DEF C, D, e
  <2> QED
    BY <1>2, <2>2, <2>3
<1>5. Cardinality(D) = Cardinality(C) + 1
  <2> HIDE DEF C, D, e
  <2> QED
    BY <1>1, <1>3, <1>4, FS_AddElement
<1>6. ASSUME NEW i \in C PROVE Rank(D, i) = Rank(C, i) /\ i \in D
  <2>1. i \in Nat /\ ~(e < i)
    BY <1>0, <1>1
  <2> HIDE DEF C, D, e
  <2>2. {j \in D : j < i} = {j \in C : j < i}
    BY <1>4, <2>1
  <2> QED
    BY <1>4, <2>2, Zenon DEF Rank
<1>7. Rank(D, e) = Cardinality(C)
  <2>1. \A j \in C : j < e
    BY <1>0, <1>1
  <2>2. ~(e < e)
    BY <1>3
  <2> HIDE DEF C, D, e
  <2>3. {j \in D : j < e} = C
    BY <1>4, <2>1, <2>2
  <2> QED
    BY <2>3, Zenon DEF Rank
<1>8. Cut(w, c, Cardinality(C)) = e
  BY <1>2, <1>7, CutOfRank
<1>9. ASSUME NEW k \in 0 .. (Cardinality(C) - 1)
      PROVE  Cut(w, c, k) = Cut(s, c, k) /\ Cut(s, c, k) \in C
  <2>1. PICK i \in C : Rank(C, i) = k
    <3> HIDE DEF C
    <3> QED
      BY <1>1, Ranked
  <2>2. Cut(s, c, k) = i
    BY <2>1, CutOfRank
  <2>3. Cut(w, c, k) = i
    BY <1>6, <2>1, CutOfRank
  <2> QED
    BY <2>1, <2>2, <2>3
<1>10. Rank(C, m + 1) = Cardinality(C) - 1
  <2>1. {j \in C : j < m + 1} = C \ {m + 1}
    <3>1. \A j \in C : j < m + 1 <=> j # m + 1
      BY <1>1
    <3> HIDE DEF C
    <3> QED
      BY <3>1
  <2> HIDE DEF C
  <2>2. Cardinality(C \ {m + 1}) = Cardinality(C) - 1
    BY <1>1, FS_RemoveElement
  <2> QED
    BY <2>1, <2>2 DEF Rank
<1>11. Cut(s, c, Cardinality(C) - 1) = m + 1
  BY <1>1, <1>10, CutOfRank
<1> DEFINE N == Cardinality(C) - 1
           a == Split(s, c)
           b == Split(w, c)
<1>12. N \in Nat /\ N >= 1 /\ Cardinality(C) = N + 1 /\ Cardinality(D) = N + 2
  <2> HIDE DEF C, D
  <2> QED
    BY <1>1, <1>5
<1>13. /\ a = [k \in 1 .. N |-> SubSeq(s, Cut(s, c, k - 1) + 1, Cut(s, c, k) - 1)]
       /\ b = [k \in 1 .. (N + 1) |-> SubSeq(w, Cut(w, c, k - 1) + 1, Cut(w, c, k) - 1)]
  <2>1. a = [k \in 1 .. (Cardinality(C) - 1) |->
               SubSeq(s, Cut(s, c, k - 1) + 1, Cut(s, c, k) - 1)]
    BY SplitIs
  <2>2. b = [k \in 1 .. (Cardinality(D) - 1) |->
               SubSeq(w, Cut(w, c, k - 1) + 1, Cut(w, c, k) - 1)]
    BY SplitIs
  <2>3. Cardinality(D) - 1 = N + 1
    <3> HIDE DEF C, D
    <3> QED
      BY <1>1, <1>5
  <2> HIDE DEF a, b
  <2> QED
    BY <2>1, <2>2, <2>3
<1>14. a \in Seq(Seq(U)) /\ b \in Seq(Seq(U)) /\ Len(a) = N /\ Len(b) = N + 1
  <2>1. a \in Seq(Seq(U)) /\ Len(a) = Cardinality(C) - 1
    BY SplitPieces
  <2>2. b \in Seq(Seq(U)) /\ Len(b) = Cardinality(D) - 1
    BY SplitPieces
  <2> HIDE DEF a, b, C, D
  <2> QED
    BY <1>1, <1>5, <2>1, <2>2
<1>15. ASSUME NEW k \in 1 .. N PROVE b[k] = a[k]
  <2>1. /\ k \in 1 .. (N + 1) /\ k - 1 \in 0 .. (Cardinality(C) - 1)
        /\ k \in 0 .. (Cardinality(C) - 1)
    BY <1>12
  <2>2. PICK x, y : /\ x = Cut(s, c, k - 1) /\ y = Cut(s, c, k)
                    /\ x = Cut(w, c, k - 1) /\ y = Cut(w, c, k) /\ x \in C /\ y \in C
    BY <1>9, <2>1
  <2>3. a[k] = SubSeq(s, x + 1, y - 1) /\ b[k] = SubSeq(w, x + 1, y - 1)
    <3> HIDE DEF a, b, N
    <3> QED
      BY <1>13, <2>1, <2>2
  <2>4. x \in 0 .. (m + 1) /\ y \in 0 .. (m + 1)
    BY <1>1, <2>2
  <2>5. SubSeq(s, x + 1, y - 1) = SubSeq(w, x + 1, y - 1)
    BY <1>0, <2>4
  <2> QED
    BY <2>3, <2>5
<1>16. b[N + 1] = t
  <2>1. b[N + 1] = SubSeq(w, Cut(w, c, (N + 1) - 1) + 1, Cut(w, c, N + 1) - 1)
    <3>1. N + 1 \in 1 .. (N + 1)
      BY <1>12
    <3> HIDE DEF b, N
    <3> QED
      BY <1>13, <3>1
  <2>2. Cut(w, c, (N + 1) - 1) = m + 1 /\ Cut(w, c, N + 1) = e
    <3>1. N \in 0 .. (Cardinality(C) - 1) /\ (N + 1) - 1 = N /\ N + 1 = Cardinality(C)
      BY <1>12
    <3>2. Cut(w, c, N) = Cut(s, c, N)
      BY <1>9, <3>1
    <3> QED
      BY <1>8, <1>11, <3>1, <3>2
  <2>3. SubSeq(w, m + 1 + 1, e - 1) = t
    <3>1. e - 1 = m + 1 + n
      BY <1>0
    <3>2. PICK v : v = SubSeq(w, m + 1 + 1, m + 1 + n)
      OBVIOUS
    <3>3. v \in Seq(U) /\ Len(v) = n /\ \A k \in 1 .. n : v[k] = w[m + 1 + k]
      BY <1>0, <3>2
    <3>4. t \in Seq(U) /\ Len(t) = n /\ \A k \in 1 .. n : v[k] = t[k]
      BY <1>0, <3>3
    <3>5. v = t
      BY <3>3, <3>4, SeqEqual
    <3> QED
      BY <3>1, <3>2, <3>5
  <2> QED
    BY <2>1, <2>2, <2>3
<1>17. b = Append(a, t)
  <2> HIDE DEF a, b, N
  <2>1. PICK d : d = Append(a, t)
    OBVIOUS
  <2>2. /\ d \in Seq(Seq(U)) /\ Len(d) = N + 1 /\ d[N + 1] = t
        /\ \A k \in 1 .. N : d[k] = a[k]
    BY <1>12, <1>14, <2>1, AppendProperties
  <2>3. ASSUME NEW k \in 1 .. Len(b) PROVE b[k] = d[k]
    <3>1. k \in 1 .. N \/ k = N + 1
      BY <1>12, <1>14
    <3> QED
      BY <1>15, <1>16, <2>2, <3>1
  <2>4. b = d
    BY <1>14, <2>2, <2>3, SeqEqual
  <2> QED
    BY <2>1, <2>4
<1> QED
  BY <1>0, <1>17

\* Two texts that begin with the same n units, or two lists with the same n pieces.
Alike(s, t, n) == \A k \in 1 .. n : s[k] = t[k]

\* What stands behind a separator does not change the pieces before it.
LEMMA SplitPrefix ==
  ASSUME NEW U, NEW s \in Seq(U), NEW w \in Seq(U), NEW c, Len(s) < Len(w),
         Alike(w, s, Len(s)), w[Len(s) + 1] = c
  PROVE  /\ Len(Split(s, c)) <= Len(Split(w, c))
         /\ \A k \in 1 .. Len(Split(s, c)) : Split(w, c)[k] = Split(s, c)[k]
<1> USE DEF Alike
<1>0. PICK m \in Nat, n \in Nat : m = Len(s) /\ n = Len(w) /\ m < n
  OBVIOUS
<1> DEFINE C == Cuts(s, c)
           D == Cuts(w, c)
<1>1. /\ C \subseteq 0 .. (m + 1) /\ C \subseteq Nat /\ IsFiniteSet(C)
      /\ Cardinality(C) \in Nat /\ Cardinality(C) >= 2
  BY <1>0, CutsType
<1>2. D \subseteq Nat /\ IsFiniteSet(D) /\ Cardinality(D) \in Nat /\ Cardinality(D) >= 2
  BY CutsType
<1>3. ASSUME NEW j \in Nat PROVE j \in C <=> j \in D /\ j <= m + 1
  <2>1. DOMAIN w = 1 .. n /\ DOMAIN s = 1 .. m
    BY <1>0
  <2>2. CASE j \in 1 .. m
    BY <1>0, <2>1, <2>2 DEF Cuts
  <2>3. CASE j = m + 1
    BY <1>0, <2>1, <2>3 DEF Cuts
  <2>4. CASE j = 0
    BY <2>4 DEF Cuts
  <2>5. CASE j > m + 1
    BY <1>1, <2>5
  <2> QED
    BY <2>2, <2>3, <2>4, <2>5
<1> HIDE DEF C, D
<1>4. C \in SUBSET D
  BY <1>1, <1>3
<1>5. Cardinality(C) <= Cardinality(D)
  BY <1>2, <1>4, FS_Subset
<1>6. ASSUME NEW i \in C PROVE Rank(D, i) = Rank(C, i) /\ i \in D
  <2>1. i \in Nat /\ i <= m + 1
    BY <1>1
  <2>2. ASSUME NEW j \in Nat PROVE j \in D /\ j < i <=> j \in C /\ j < i
    BY <1>3, <2>1
  <2>3. {j \in D : j < i} = {j \in C : j < i}
    BY <1>1, <1>2, <2>2
  <2> QED
    BY <1>4, <2>3, Zenon DEF Rank
<1>7. ASSUME NEW k \in 0 .. (Cardinality(C) - 1)
      PROVE  Cut(w, c, k) = Cut(s, c, k) /\ Cut(s, c, k) \in C
  <2>1. PICK i \in C : Rank(C, i) = k
    BY <1>1, Ranked
  <2>2. Cut(s, c, k) = i
    BY <2>1, CutOfRank DEF C
  <2>3. Cut(w, c, k) = i
    BY <1>6, <2>1, CutOfRank DEF D
  <2> QED
    BY <2>1, <2>2, <2>3
<1>8. PICK N, M : N = Cardinality(C) - 1 /\ M = Cardinality(D) - 1
  OBVIOUS
<1>9. N \in Nat /\ N >= 1 /\ M \in Nat /\ N <= M
  <2>1. PICK K, J : K = Cardinality(C) /\ J = Cardinality(D)
    OBVIOUS
  <2>2. K \in Nat /\ J \in Nat /\ K >= 2 /\ K <= J /\ N = K - 1 /\ M = J - 1
    BY <1>1, <1>2, <1>5, <1>8, <2>1, Zenon
  <2> QED
    BY <2>2
<1>10. PICK a, b : a = Split(s, c) /\ b = Split(w, c)
  OBVIOUS
<1>11. /\ a = [k \in 1 .. N |-> SubSeq(s, Cut(s, c, k - 1) + 1, Cut(s, c, k) - 1)]
       /\ b = [k \in 1 .. M |-> SubSeq(w, Cut(w, c, k - 1) + 1, Cut(w, c, k) - 1)]
  BY <1>8, <1>10, SplitIs DEF C, D
<1>12. Len(a) = N /\ Len(b) = M
  BY <1>8, <1>10, SplitPieces DEF C, D
<1>13. ASSUME NEW k \in 1 .. N PROVE b[k] = a[k]
  <2>1. k \in 1 .. M /\ k - 1 \in 0 .. (Cardinality(C) - 1) /\ k \in 0 .. (Cardinality(C) - 1)
    <3>1. k \in 1 .. M /\ k - 1 \in 0 .. N /\ k \in 0 .. N
      BY <1>9
    <3> QED
      BY <1>8, <3>1, Zenon
  <2>2. PICK x, y : /\ x = Cut(s, c, k - 1) /\ y = Cut(s, c, k)
                    /\ x = Cut(w, c, k - 1) /\ y = Cut(w, c, k) /\ x \in C /\ y \in C
    BY <1>7, <2>1
  <2>3. a[k] = SubSeq(s, x + 1, y - 1) /\ b[k] = SubSeq(w, x + 1, y - 1)
    BY <1>11, <2>1, <2>2
  <2>4. x \in 0 .. (m + 1) /\ y \in 0 .. (m + 1)
    BY <1>1, <2>2
  <2>5. SubSeq(s, x + 1, y - 1) = SubSeq(w, x + 1, y - 1)
    <3>1. \A i \in 1 .. m : w[i] = s[i]
      BY <1>0
    <3>2. PICK f, g : f = x + 1 /\ g = y - 1
      OBVIOUS
    <3>3. f \in 1 .. (m + 2) /\ g \in (-1) .. m
      BY <1>0, <2>4, <3>2
    <3>4. SubSeq(s, f, g) = [i \in 1 .. (1 + g - f) |-> s[i + f - 1]]
      BY <1>0, <3>3
    <3>5. SubSeq(w, f, g) = [i \in 1 .. (1 + g - f) |-> w[i + f - 1]]
      BY <1>0, <3>3
    <3>6. \A i \in 1 .. (1 + g - f) : i + f - 1 \in 1 .. m
      BY <1>0, <3>3
    <3> QED
      BY <3>1, <3>2, <3>4, <3>5, <3>6
  <2> QED
    BY <2>3, <2>5
<1> QED
  BY <1>9, <1>10, <1>12, <1>13

-----------------------------------------------------------------------------
(***************************************************************************)
(* Join is a recursive function.  That there is one that obeys its         *)
(* recursion, and what it computes, is shown by induction.                 *)
(***************************************************************************)

\* The recursion of Join: text[k] is made of the first k pieces.
JoinStep(p, c, text, k) ==
  IF k = 0 THEN <<>>
  ELSE IF k = 1 THEN p[1]
  ELSE text[k - 1] \o <<c>> \o p[k]

\* There is a function that obeys it.
LEMMA JoinExists ==
  ASSUME NEW p, NEW c, NEW n \in Nat
  PROVE  \E text : text = [k \in 0 .. n |-> JoinStep(p, c, text, k)]
<1> DEFINE S == {m \in Nat : \E text : text = [k \in 0 .. m |-> JoinStep(p, c, text, k)]}
<1>1. 0 \in S
  <2>1. PICK text : text = [k \in 0 .. 0 |-> <<>>]
    OBVIOUS
  <2>2. text = [k \in 0 .. 0 |-> JoinStep(p, c, text, k)]
    BY <2>1 DEF JoinStep
  <2> QED
    BY <2>2
<1>2. ASSUME NEW m \in Nat, m \in S PROVE m + 1 \in S
  <2>1. PICK text : text = [k \in 0 .. m |-> JoinStep(p, c, text, k)]
    BY <1>2
  <2>2. PICK more : more = [k \in 0 .. (m + 1) |-> JoinStep(p, c, text, k)]
    OBVIOUS
  <2>3. \A k \in 0 .. m : more[k] = text[k]
    BY <2>1, <2>2
  <2>4. ASSUME NEW k \in 0 .. (m + 1) PROVE JoinStep(p, c, more, k) = JoinStep(p, c, text, k)
    <3>1. k = 0 \/ k - 1 \in 0 .. m
      OBVIOUS
    <3> QED
      BY <2>3, <3>1 DEF JoinStep
  <2>5. more = [k \in 0 .. (m + 1) |-> JoinStep(p, c, more, k)]
    BY <2>2, <2>4
  <2> QED
    BY <2>5
<1> HIDE DEF S
<1>3. \A m \in Nat : m \in S
  BY <1>1, <1>2, SetInduction
<1> QED
  BY <1>3 DEF S

\* Join is its last value.
LEMMA JoinIs ==
  ASSUME NEW p, NEW c, Len(p) \in Nat
  PROVE  \E text : /\ Join(p, c) = text[Len(p)]
                   /\ \A k \in 0 .. Len(p) : text[k] = JoinStep(p, c, text, k)
<1> DEFINE text == CHOOSE text : text = [k \in 0 .. Len(p) |-> JoinStep(p, c, text, k)]
<1>1. Join(p, c) = text[Len(p)]
  BY Zenon DEF Join, JoinStep
<1>2. text = [k \in 0 .. Len(p) |-> JoinStep(p, c, text, k)]
  BY JoinExists
<1> HIDE DEF text
<1>3. \A k \in 0 .. Len(p) : text[k] = JoinStep(p, c, text, k)
  BY <1>2
<1> QED
  BY <1>1, <1>3

\* What holds of every text[k] holds of Join: its units are those of the
\* pieces and separators.
LEMMA JoinType ==
  ASSUME NEW U, NEW p \in Seq(Seq(U)), NEW c \in U
  PROVE  Join(p, c) \in Seq(U)
<1>0. Len(p) \in Nat /\ \A k \in 1 .. Len(p) : p[k] \in Seq(U)
  OBVIOUS
<1>1. PICK text : /\ Join(p, c) = text[Len(p)]
                  /\ \A k \in 0 .. Len(p) : text[k] = JoinStep(p, c, text, k)
  BY <1>0, JoinIs
<1> DEFINE S == {k \in Nat : k <= Len(p) => text[k] \in Seq(U)}
<1>2. 0 \in S
  <2>1. 0 \in 0 .. Len(p)
    BY <1>0
  <2>2. text[0] = <<>>
    BY <1>1, <2>1 DEF JoinStep
  <2>3. <<>> \in Seq(U)
    OBVIOUS
  <2> QED
    BY <2>2, <2>3
<1>3. ASSUME NEW k \in Nat, k \in S PROVE k + 1 \in S
  <2>1. SUFFICES ASSUME k + 1 <= Len(p) PROVE text[k + 1] \in Seq(U)
    OBVIOUS
  <2>2. k + 1 \in 0 .. Len(p) /\ k + 1 \in 1 .. Len(p) /\ k + 1 # 0 /\ (k + 1) - 1 = k
    BY <1>0, <2>1
  <2>3. text[k + 1] = JoinStep(p, c, text, k + 1)
    BY <1>1, <2>2
  <2>4. p[k + 1] \in Seq(U) /\ text[k] \in Seq(U) /\ <<c>> \in Seq(U)
    BY <1>0, <1>3, <2>1, <2>2
  <2>5. text[k] \o <<c>> \in Seq(U)
    BY <2>4, ConcatProperties
  <2>6. text[k] \o <<c>> \o p[k + 1] \in Seq(U)
    BY <2>4, <2>5, ConcatProperties
  <2> QED
    BY <2>2, <2>3, <2>4, <2>6 DEF JoinStep
<1> HIDE DEF S
<1>4. \A k \in Nat : k \in S
  BY <1>2, <1>3, SetInduction
<1> QED
  BY <1>0, <1>1, <1>4 DEF S

\* The empty list has the empty text.
LEMMA JoinEmpty ==
  ASSUME NEW c
  PROVE  Join(<<>>, c) = <<>>
<1>1. PICK p : p = <<>>
  OBVIOUS
<1>2. Len(p) = 0
  BY <1>1
<1>3. PICK text : /\ Join(p, c) = text[Len(p)]
                  /\ \A k \in 0 .. Len(p) : text[k] = JoinStep(p, c, text, k)
  BY <1>2, JoinIs
<1>4. text[0] = <<>>
  BY <1>2, <1>3 DEF JoinStep
<1> QED
  BY <1>1, <1>2, <1>3, <1>4

\* Splitting undoes joining: SubscribeCommand's Display joins fields and names,
\* its FromStr splits them, and a list without the separator in its pieces
\* comes back, whatever its length.
THEOREM SplitJoin ==
  ASSUME NEW U, NEW p \in Seq(Seq(U)), NEW c \in U, p # <<>>,
         \A k \in 1 .. Len(p) : \A j \in 1 .. Len(p[k]) : p[k][j] # c
  PROVE  Split(Join(p, c), c) = p
<1>0. Len(p) \in Nat /\ Len(p) >= 1 /\ \A k \in 1 .. Len(p) : p[k] \in Seq(U)
  OBVIOUS
<1>1. PICK text : /\ Join(p, c) = text[Len(p)]
                  /\ \A k \in 0 .. Len(p) : text[k] = JoinStep(p, c, text, k)
  BY <1>0, JoinIs
<1> DEFINE S == {k \in Nat : k + 1 <= Len(p) =>
                    text[k + 1] \in Seq(U) /\ Split(text[k + 1], c) = SubSeq(p, 1, k + 1)}
<1>2. 0 \in S
  <2>1. 0 + 1 = 1 /\ 1 \in 0 .. Len(p) /\ 1 \in 1 .. Len(p)
    BY <1>0
  <2>2. text[1] = p[1]
    BY <1>1, <2>1 DEF JoinStep
  <2>3. text[1] \in Seq(U) /\ Split(text[1], c) = <<p[1]>>
    BY <1>0, <2>1, <2>2, SplitWhole
  <2>4. SubSeq(p, 1, 2 - 1) = <<p[1]>>
    BY <1>0, OneUnit
  <2>5. Split(text[1], c) = SubSeq(p, 1, 1)
    BY <2>3, <2>4
  <2> QED
    BY <2>1, <2>3, <2>5
<1>3. ASSUME NEW k \in Nat, k \in S PROVE k + 1 \in S
  <2> DEFINE h == k + 1
  <2>0. h \in Nat /\ h >= 1
    OBVIOUS
  <2>1. h <= Len(p) => text[h] \in Seq(U) /\ Split(text[h], c) = SubSeq(p, 1, h)
    BY <1>3
  <2> HIDE DEF h
  <2>2. SUFFICES ASSUME h + 1 <= Len(p)
                 PROVE  text[h + 1] \in Seq(U) /\ Split(text[h + 1], c) = SubSeq(p, 1, h + 1)
    BY <2>0 DEF h
  <2>3. /\ h <= Len(p) /\ h + 1 \in 0 .. Len(p) /\ h + 1 \in 1 .. Len(p)
        /\ h + 1 # 0 /\ h + 1 # 1 /\ (h + 1) - 1 = h
    BY <1>0, <2>0, <2>2
  <2>4. text[h + 1] = JoinStep(p, c, text, h + 1)
    BY <1>1, <2>3
  <2>5. text[h + 1] = text[h] \o <<c>> \o p[h + 1]
    BY <2>3, <2>4 DEF JoinStep
  <2>6. PICK s, t, w : s = text[h] /\ t = p[h + 1] /\ w = text[h + 1]
    OBVIOUS
  <2>7. /\ s \in Seq(U) /\ t \in Seq(U) /\ w = s \o <<c>> \o t
        /\ \A j \in 1 .. Len(t) : t[j] # c
    BY <1>0, <2>1, <2>3, <2>5, <2>6
  <2>8. Split(w, c) = Append(Split(s, c), t)
    BY <2>7, SplitMore, Zenon
  <2>9. w \in Seq(U)
    <3>1. <<c>> \in Seq(U)
      OBVIOUS
    <3>2. s \o <<c>> \in Seq(U)
      BY <2>7, <3>1, ConcatProperties
    <3> QED
      BY <2>7, <3>2, ConcatProperties
  <2>10. Append(SubSeq(p, 1, h), p[h + 1]) = SubSeq(p, 1, h + 1)
    <3>1. PICK a, b : a = Append(SubSeq(p, 1, h), p[h + 1]) /\ b = SubSeq(p, 1, h + 1)
      OBVIOUS
    <3>2. /\ b \in Seq(Seq(U)) /\ Len(b) = h + 1
          /\ \A j \in 1 .. (h + 1) : b[j] = p[j]
      BY <1>0, <2>0, <2>3, <3>1
    <3>3. PICK d : d = SubSeq(p, 1, h)
      OBVIOUS
    <3>7. d \in Seq(Seq(U)) /\ Len(d) = h /\ \A j \in 1 .. h : d[j] = p[j]
      BY <1>0, <2>0, <2>3, <3>3
    <3>4. /\ a \in Seq(Seq(U)) /\ Len(a) = h + 1 /\ a[h + 1] = p[h + 1]
          /\ \A j \in 1 .. h : a[j] = d[j]
      BY <1>0, <2>0, <2>3, <3>1, <3>3, <3>7, AppendProperties
    <3>5. ASSUME NEW j \in 1 .. (h + 1) PROVE a[j] = b[j]
      <4>1. j \in 1 .. h \/ j = h + 1
        BY <2>0
      <4> QED
        BY <3>2, <3>4, <3>7, <4>1
    <3>6. a = b
      BY <3>2, <3>4, <3>5, SeqEqual
    <3> QED
      BY <3>1, <3>6
  <2> QED
    BY <2>1, <2>3, <2>6, <2>8, <2>9, <2>10
<1> HIDE DEF S
<1>4. \A k \in Nat : k \in S
  BY <1>2, <1>3, SetInduction
<1>5. PICK n \in Nat : n + 1 = Len(p)
  <2>1. Len(p) - 1 \in Nat /\ (Len(p) - 1) + 1 = Len(p)
    BY <1>0
  <2> QED
    BY <2>1
<1>6. Split(text[n + 1], c) = SubSeq(p, 1, n + 1)
  <2>1. n \in S /\ n + 1 <= Len(p)
    BY <1>0, <1>4, <1>5
  <2> QED
    BY <2>1 DEF S
<1>7. SubSeq(p, 1, Len(p)) = p
  BY SubSeqFull
<1> QED
  BY <1>1, <1>5, <1>6, <1>7

\* Texts over units among which the separator is not.
LEMMA SplitJoinApart ==
  ASSUME NEW V, NEW p \in Seq(Seq(V)), p # <<>>, NEW c, c \notin V
  PROVE  Split(Join(p, c), c) = p /\ \E W : Join(p, c) \in Seq(W)
<1> DEFINE W == V \cup {c}
<1>1. c \in W /\ V \subseteq W
  OBVIOUS
<1> HIDE DEF W
<1>2. p \in Seq(Seq(W))
  BY <1>1, TextsInto
<1>3. ASSUME NEW k \in 1 .. Len(p), NEW j \in 1 .. Len(p[k]) PROVE p[k][j] # c
  <2>1. p[k] \in Seq(V)
    BY Element
  <2>2. p[k][j] \in V
    BY <2>1, Element
  <2> QED
    BY <2>2
<1>4. Split(Join(p, c), c) = p
  BY <1>1, <1>2, <1>3, SplitJoin
<1>5. Join(p, c) \in Seq(W)
  BY <1>1, <1>2, JoinType
<1> QED
  BY <1>4, <1>5

\* Five pieces joined: four and a separator, and then the last.
Lead(r, c) == (((r[1] \o <<c>> \o r[2]) \o <<c>> \o r[3]) \o <<c>> \o r[4]) \o <<c>>

LEMMA JoinFive ==
  ASSUME NEW U, NEW c \in U, NEW r \in Seq(Seq(U)), Len(r) = 5
  PROVE  Lead(r, c) \in Seq(U) /\ Join(r, c) = Lead(r, c) \o r[5]
<1>1. Join(r, c) = Lead(r, c) \o r[5]
  <2>1. PICK text : /\ Join(r, c) = text[5]
                    /\ \A k \in 0 .. 5 : text[k] = JoinStep(r, c, text, k)
    <3>1. Len(r) \in Nat
      OBVIOUS
    <3>2. \E text : /\ Join(r, c) = text[Len(r)]
                    /\ \A k \in 0 .. Len(r) : text[k] = JoinStep(r, c, text, k)
      BY <3>1, JoinIs
    <3> QED
      BY <3>2
  <2>2. text[1] = r[1]
    BY <2>1 DEF JoinStep
  <2>3. ASSUME NEW k \in 2 .. 5 PROVE text[k] = text[k - 1] \o <<c>> \o r[k]
    <3>1. k \in 0 .. 5 /\ k # 0 /\ k # 1
      OBVIOUS
    <3>2. text[k] = JoinStep(r, c, text, k)
      BY <2>1, <3>1
    <3> QED
      BY <3>1, <3>2, Zenon DEF JoinStep
  <2>4. /\ 2 - 1 = 1 /\ 3 - 1 = 2 /\ 4 - 1 = 3 /\ 5 - 1 = 4
        /\ 2 \in 2 .. 5 /\ 3 \in 2 .. 5 /\ 4 \in 2 .. 5 /\ 5 \in 2 .. 5
    OBVIOUS
  <2>5. /\ text[2] = text[1] \o <<c>> \o r[2] /\ text[3] = text[2] \o <<c>> \o r[3]
        /\ text[4] = text[3] \o <<c>> \o r[4] /\ text[5] = text[4] \o <<c>> \o r[5]
    BY <2>3, <2>4
  <2> QED
    BY <2>1, <2>2, <2>5, Zenon DEF Lead
<1>2. r[1] \in Seq(U) /\ r[2] \in Seq(U) /\ r[3] \in Seq(U) /\ r[4] \in Seq(U)
  <2>1. \A k \in 1 .. Len(r) : r[k] \in Seq(U)
    BY Element
  <2>2. 1 \in 1 .. Len(r) /\ 2 \in 1 .. Len(r) /\ 3 \in 1 .. Len(r) /\ 4 \in 1 .. Len(r)
    OBVIOUS
  <2> QED
    BY <2>1, <2>2, Zenon
<1>3. Lead(r, c) \in Seq(U)
  <2>1. PICK d \in Seq(U) : d = <<c>>
    <3>1. <<c>> \in Seq(U)
      OBVIOUS
    <3> QED
      BY <3>1, Zenon
  <2>2. \A v \in Seq(U), w \in Seq(U) : v \o w \in Seq(U)
    BY ConcatProperties
  <2>3. (((r[1] \o d \o r[2]) \o d \o r[3]) \o d \o r[4]) \o d \in Seq(U)
    BY <1>2, <2>2, Zenon
  <2> QED
    BY <2>1, <2>3, Zenon DEF Lead
<1> QED
  BY <1>1, <1>3

\* The first n pieces hold no separator.
Free(p, c, n) == \A k \in 1 .. n : \A j \in 1 .. Len(p[k]) : p[k][j] # c

LEMMA SplitJoinFree ==
  ASSUME NEW U, NEW p \in Seq(Seq(U)), NEW c \in U, p # <<>>, Free(p, c, Len(p))
  PROVE  Split(Join(p, c), c) = p
<1>1. ASSUME NEW k \in 1 .. Len(p), NEW j \in 1 .. Len(p[k]) PROVE p[k][j] # c
  BY Zenon DEF Free
<1> QED
  BY <1>1, SplitJoin

\* A separator in the last of five pieces takes nothing from the first four,
\* and cuts the last one short.
LEMMA SplitFive ==
  ASSUME NEW U, NEW c \in U, NEW p \in Seq(Seq(U)), Len(p) = 5, Free(p, c, 4)
  PROVE  LET parts == Split(Join(p, c), c)
         IN  /\ \A k \in 1 .. 4 : parts[k] = p[k]
             /\ parts[5] = Split(p[5], c)[1]
<1>1. PICK t \in Seq(U) : t = p[5]
  <2>1. 5 \in 1 .. Len(p)
    OBVIOUS
  <2>2. p[5] \in Seq(U)
    BY <2>1, Element
  <2> QED
    BY <2>2, Zenon
<1>2. CASE \A j \in 1 .. Len(t) : t[j] # c
  <2>1. Free(p, c, Len(p))
    <3>1. ASSUME NEW k \in 1 .. Len(p), NEW j \in 1 .. Len(p[k]) PROVE p[k][j] # c
      <4>1. k \in 1 .. 4 \/ k = 5
        OBVIOUS
      <4> QED
        BY <1>1, <1>2, <4>1, Zenon DEF Free
    <3> QED
      BY <3>1, Zenon DEF Free
  <2>2. p # <<>>
    <3>1. Len(<<>>) # 5
      OBVIOUS
    <3> QED
      BY <3>1, Zenon
  <2>3. Split(Join(p, c), c) = p
    BY <2>1, <2>2, SplitJoinFree, Zenon
  <2>4. Split(t, c) = <<t>>
    BY <1>2, SplitWhole
  <2>5. <<t>>[1] = t
    OBVIOUS
  <2> QED
    BY <1>1, <2>3, <2>4, <2>5, Zenon
<1>3. CASE ~ \A j \in 1 .. Len(t) : t[j] # c
  <2> DEFINE S == {j \in 1 .. Len(t) : t[j] = c}
  <2>1. S \subseteq Nat /\ S # {}
    BY <1>3
  <2>2. Min(S) \in S /\ \A j \in S : Min(S) <= j
    <3>1. Min(S) \in S
      BY <2>1, MinIn
    <3> HIDE DEF S
    <3> QED
      BY <2>1, <3>1, MinLeast
  <2>3. PICK n \in 1 .. Len(t) : t[n] = c /\ \A j \in 1 .. (n - 1) : t[j] # c
    <3>1. PICK n \in S : \A j \in S : n <= j
      BY <2>2, Zenon
    <3>2. n \in 1 .. Len(t) /\ t[n] = c
      BY <3>1
    <3>3. ASSUME NEW j \in 1 .. (n - 1), t[j] = c PROVE FALSE
      <4>1. j \in 1 .. Len(t) /\ ~ (n <= j)
        BY <3>2
      <4> QED
        BY <3>1, <3>3, <4>1
    <3> QED
      BY <3>2, <3>3
  <2>4. PICK h \in Seq(U) : h = SubSeq(t, 1, n - 1)
    <3>1. SubSeq(t, 1, n - 1) \in Seq(U)
      BY SubSeqProperties
    <3> QED
      BY <3>1, Zenon
  <2>5. Len(h) = n - 1 /\ \A j \in 1 .. (n - 1) : h[j] = t[j]
    BY <2>3, <2>4
  <2>6. Split(t, c)[1] = h
    <3>1. n \in 1 .. (Len(t) + 1)
      BY <2>3
    <3> QED
      BY <2>3, <2>4, <3>1, FirstPiece
  <2>7. PICK q : q = [k \in 1 .. 5 |-> IF k = 5 THEN h ELSE p[k]]
    OBVIOUS
  <2>8. /\ q \in Seq(Seq(U)) /\ Len(q) = 5 /\ q[5] = h /\ q # <<>>
        /\ \A k \in 1 .. 4 : q[k] = p[k]
    <3>1. PICK T : T = Seq(U) /\ h \in T /\ \A k \in 1 .. 5 : p[k] \in T
      <4>1. \A k \in 1 .. Len(p) : p[k] \in Seq(U)
        BY Element
      <4>2. \A k \in 1 .. 5 : p[k] \in Seq(U)
        BY <4>1
      <4> QED
        BY <4>2, Zenon
    <3>2. /\ q \in Seq(T) /\ Len(q) = 5 /\ q[5] = h /\ q # <<>>
          /\ \A k \in 1 .. 4 : q[k] = p[k]
      BY <2>7, <3>1
    <3> QED
      BY <3>1, <3>2
  <2>9. Split(Join(q, c), c) = q
    <3>1. ASSUME NEW k \in 1 .. Len(q), NEW j \in 1 .. Len(q[k]) PROVE q[k][j] # c
      <4>1. k \in 1 .. 4 \/ k = 5
        BY <2>8
      <4>2. CASE k \in 1 .. 4
        BY <2>8, <4>2, Zenon DEF Free
      <4>3. CASE k = 5
        <5>1. j \in 1 .. Len(h) /\ q[k][j] = h[j]
          BY <2>8, <4>3
        <5> QED
          BY <2>3, <2>5, <5>1
      <4> QED
        BY <4>1, <4>2, <4>3
    <3>2. q \in Seq(Seq(U)) /\ q # <<>> /\ Free(q, c, Len(q))
      BY <2>8, <3>1, Zenon DEF Free
    <3> QED
      BY <3>2, SplitJoinFree, Zenon
  <2>10. PICK y \in Seq(U) : Join(p, c) = y \o t /\ Join(q, c) = y \o h
    <3>1. Alike(p, q, 4)
      BY <2>8, Zenon DEF Alike
    <3>2. Lead(p, c) \in Seq(U) /\ Join(p, c) = Lead(p, c) \o p[5]
      BY JoinFive
    <3>3. q \in Seq(Seq(U)) /\ Len(q) = 5
      BY <2>8, Zenon
    <3>4. Join(q, c) = Lead(q, c) \o q[5]
      BY <3>3, JoinFive
    <3>5. 1 \in 1 .. 4 /\ 2 \in 1 .. 4 /\ 3 \in 1 .. 4 /\ 4 \in 1 .. 4
      OBVIOUS
    <3>6. Lead(q, c) = Lead(p, c)
      BY <3>1, <3>5, Zenon DEF Alike, Lead
    <3> QED
      BY <1>1, <2>8, <3>2, <3>4, <3>6, Zenon
  <2>11. PICK w \in Seq(U), s \in Seq(U) : w = y \o t /\ s = y \o h
    BY ConcatProperties
  <2>12. /\ Len(s) < Len(w) /\ w[Len(s) + 1] = c
         /\ \A k \in 1 .. Len(s) : w[k] = s[k]
    <3>1. PICK m \in Nat, l \in Nat : m = Len(y) /\ l = Len(t)
      OBVIOUS
    <3>2. /\ Len(w) = m + l
          /\ \A k \in 1 .. (m + l) : w[k] = IF k <= m THEN y[k] ELSE t[k - m]
      BY <2>11, <3>1, ConcatProperties
    <3>3. /\ Len(s) = m + (n - 1)
          /\ \A k \in 1 .. (m + (n - 1)) : s[k] = IF k <= m THEN y[k] ELSE h[k - m]
      <4>1. PICK i \in Nat : i = n - 1 /\ Len(h) = i
        BY <2>5
      <4>2. /\ Len(s) = m + i
            /\ \A k \in 1 .. (m + i) : s[k] = IF k <= m THEN y[k] ELSE h[k - m]
        <5>1. s = y \o h
          BY <2>11, Zenon
        <5> QED
          BY <3>1, <4>1, <5>1, ConcatProperties
      <4> QED
        BY <4>1, <4>2, Zenon
    <3>4. n \in 1 .. l
      BY <2>3, <3>1
    <3>5. w[m + n] = t[n]
      BY <3>2, <3>4
    <3>6. ASSUME NEW k \in 1 .. (m + (n - 1)) PROVE w[k] = s[k]
      <4>1. CASE k <= m
        BY <3>1, <3>2, <3>3, <3>4, <4>1
      <4>2. CASE ~ (k <= m)
        <5>1. k - m \in 1 .. (n - 1) /\ k \in 1 .. (m + l)
          BY <3>1, <3>4, <4>2
        <5> QED
          BY <2>5, <3>2, <3>3, <4>2, <5>1
      <4> QED
        BY <4>1, <4>2
    <3>7. Len(s) + 1 = m + n /\ Len(s) < Len(w)
      BY <3>1, <3>2, <3>3, <3>4
    <3> QED
      BY <2>3, <3>3, <3>5, <3>6, <3>7
  <2>13. \A k \in 1 .. Len(Split(s, c)) : Split(w, c)[k] = Split(s, c)[k]
    <3>1. /\ Len(s) < Len(w) /\ w[Len(s) + 1] = c
          /\ Alike(w, s, Len(s))
      BY <2>12, Zenon DEF Alike
    <3> QED
      BY <3>1, SplitPrefix
  <2>14. Split(s, c) = q /\ Split(w, c) = Split(Join(p, c), c)
    BY <2>9, <2>10, <2>11, Zenon
  <2>15. \A k \in 1 .. 5 : Split(Join(p, c), c)[k] = q[k]
    BY <2>8, <2>13, <2>14, Zenon
  <2>16. \A k \in 1 .. 4 : k \in 1 .. 5
    OBVIOUS
  <2> QED
    BY <1>1, <2>6, <2>8, <2>15, <2>16
<1> QED
  BY <1>2, <1>3

-----------------------------------------------------------------------------
(***************************************************************************)
(* The client's lists: names that are not empty, and trimmed texts.        *)
(***************************************************************************)

\* A list without empty names.
KeepStep(p, kept, k) ==
  IF k = 0 THEN <<>>
  ELSE IF p[k] = <<>> THEN kept[k - 1]
  ELSE Append(kept[k - 1], p[k])

\* There is a function that obeys the recursion of NonEmpty.
LEMMA KeptExists ==
  ASSUME NEW p, NEW n \in Nat
  PROVE  \E kept : kept = [k \in 0 .. n |-> KeepStep(p, kept, k)]
<1> DEFINE S == {m \in Nat : \E kept : kept = [k \in 0 .. m |-> KeepStep(p, kept, k)]}
<1>1. 0 \in S
  <2>1. PICK kept : kept = [k \in 0 .. 0 |-> <<>>]
    OBVIOUS
  <2>2. kept = [k \in 0 .. 0 |-> KeepStep(p, kept, k)]
    BY <2>1 DEF KeepStep
  <2> QED
    BY <2>2
<1>2. ASSUME NEW m \in Nat, m \in S PROVE m + 1 \in S
  <2>1. PICK kept : kept = [k \in 0 .. m |-> KeepStep(p, kept, k)]
    BY <1>2
  <2>2. PICK more : more = [k \in 0 .. (m + 1) |-> KeepStep(p, kept, k)]
    OBVIOUS
  <2>3. \A k \in 0 .. m : more[k] = kept[k]
    BY <2>1, <2>2
  <2>4. ASSUME NEW k \in 0 .. (m + 1) PROVE KeepStep(p, more, k) = KeepStep(p, kept, k)
    <3>1. k = 0 \/ k - 1 \in 0 .. m
      OBVIOUS
    <3> QED
      BY <2>3, <3>1 DEF KeepStep
  <2>5. more = [k \in 0 .. (m + 1) |-> KeepStep(p, more, k)]
    BY <2>2, <2>4
  <2> QED
    BY <2>5
<1> HIDE DEF S
<1>3. \A m \in Nat : m \in S
  BY <1>1, <1>2, SetInduction
<1> QED
  BY <1>3 DEF S

\* What NonEmpty keeps is a list of the same kind.
LEMMA NonEmptyType ==
  ASSUME NEW V, NEW p \in Seq(V)
  PROVE  NonEmpty(p) \in Seq(V)
<1>0. Len(p) \in Nat /\ \A k \in 1 .. Len(p) : p[k] \in V
  OBVIOUS
<1> DEFINE f == CHOOSE kept : kept = [k \in 0 .. Len(p) |-> KeepStep(p, kept, k)]
<1>1. NonEmpty(p) = f[Len(p)]
  BY Zenon DEF NonEmpty, KeepStep
<1>2. f = [k \in 0 .. Len(p) |-> KeepStep(p, f, k)]
  BY <1>0, KeptExists
<1> HIDE DEF f
<1>3. \A k \in 0 .. Len(p) : f[k] = KeepStep(p, f, k)
  BY <1>2
<1> DEFINE S == {k \in Nat : k <= Len(p) => f[k] \in Seq(V)}
<1>4. 0 \in S
  <2>1. 0 \in 0 .. Len(p)
    BY <1>0
  <2>2. f[0] = <<>>
    BY <1>3, <2>1 DEF KeepStep
  <2>3. <<>> \in Seq(V)
    OBVIOUS
  <2> QED
    BY <2>2, <2>3
<1>5. ASSUME NEW k \in Nat, k \in S PROVE k + 1 \in S
  <2>1. SUFFICES ASSUME k + 1 <= Len(p) PROVE f[k + 1] \in Seq(V)
    OBVIOUS
  <2>2. k + 1 \in 0 .. Len(p) /\ k + 1 \in 1 .. Len(p) /\ k + 1 # 0 /\ (k + 1) - 1 = k
    BY <1>0, <2>1
  <2>3. f[k + 1] = KeepStep(p, f, k + 1)
    BY <1>3, <2>2
  <2>4. p[k + 1] \in V /\ f[k] \in Seq(V)
    BY <1>0, <1>5, <2>1, <2>2
  <2>5. Append(f[k], p[k + 1]) \in Seq(V)
    BY <2>4, AppendProperties
  <2> QED
    BY <2>2, <2>3, <2>4, <2>5 DEF KeepStep
<1> HIDE DEF S
<1>6. \A k \in Nat : k \in S
  BY <1>4, <1>5, SetInduction
<1> QED
  BY <1>0, <1>1, <1>6 DEF S

\* A trimmed text is a text.
LEMMA TrimType ==
  ASSUME NEW U, NEW s \in Seq(U)
  PROVE  Trim(s) \in Seq(U)
<1> DEFINE solid == {i \in DOMAIN s : s[i] # " "}
<1>1. Trim(s) = IF solid = {} THEN <<>> ELSE SubSeq(s, Min(solid), Max(solid))
  BY DEF Trim
<1>2. Len(s) \in Nat /\ solid \subseteq 1 .. Len(s)
  <2>1. Len(s) \in Nat /\ DOMAIN s = 1 .. Len(s)
    OBVIOUS
  <2> QED
    BY <2>1
<1> HIDE DEF solid
<1>3. CASE solid = {}
  BY <1>1, <1>3
<1>4. CASE solid # {}
  <2>1. solid \subseteq Nat /\ \A i \in solid : i <= Len(s)
    BY <1>2
  <2>2. Min(solid) \in 1 .. Len(s)
    BY <1>2, <1>4, <2>1, MinIn
  <2>3. Max(solid) \in 1 .. Len(s)
    BY <1>2, <1>4, <2>1, MaxIn
  <2>4. SubSeq(s, Min(solid), Max(solid)) \in Seq(U)
    BY <1>2, <2>2, <2>3
  <2> QED
    BY <1>1, <1>4, <2>4
<1> QED
  BY <1>3, <1>4
=============================================================================
