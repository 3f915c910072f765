---------------------------- MODULE SequenceLemmas ----------------------------
(***************************************************************************)
(* What the operators on sequences do to the set of the elements and to    *)
(* sequences without repetition, for the proofs of the other modules.      *)
(***************************************************************************)
EXTENDS Integers, SequencesExt, FiniteSetTheorems, WellFoundedInduction, TLAPS

LEMMA ToSetTyped ==
  ASSUME NEW S, NEW s \in Seq(S)
  PROVE  ToSet(s) \subseteq S /\ (ToSet(s) = {} <=> s = <<>>)
  BY DEF ToSet

LEMMA ToSetAppend ==
  ASSUME NEW S, NEW s \in Seq(S), NEW x \in S
  PROVE  /\ Append(s, x) \in Seq(S) /\ Append(s, x) # <<>>
         /\ ToSet(Append(s, x)) = ToSet(s) \cup {x}
<1>1. Append(s, x) \in Seq(S) /\ Len(Append(s, x)) = Len(s) + 1
  OBVIOUS
<1>2. Append(s, x)[Len(s) + 1] = x /\ \A i \in 1..Len(s) : Append(s, x)[i] = s[i]
  OBVIOUS
<1>. QED
  BY <1>1, <1>2 DEF ToSet

LEMMA InjectiveAppend ==
  ASSUME NEW S, NEW s \in Seq(S), NEW x \in S, IsInjective(s), x \notin ToSet(s)
  PROVE  IsInjective(Append(s, x))
<1>1. \A i \in DOMAIN s : s[i] # x
  BY DEF ToSet
<1>. QED
  BY <1>1 DEF IsInjective

LEMMA ToSetCons ==
  ASSUME NEW S, NEW s \in Seq(S), NEW x \in S
  PROVE  /\ <<x>> \o s \in Seq(S) /\ <<x>> \o s # <<>>
         /\ Len(<<x>> \o s) = Len(s) + 1
         /\ ToSet(<<x>> \o s) = ToSet(s) \cup {x}
<1>. DEFINE t == <<x>> \o s
<1>1. t \in Seq(S) /\ Len(t) = Len(s) + 1
  OBVIOUS
<1>2. t[1] = x /\ \A i \in 1..Len(s) : t[i + 1] = s[i]
  OBVIOUS
<1>3. \A i \in 2..Len(t) : i - 1 \in 1..Len(s) /\ t[i] = s[i - 1]
  BY <1>1, <1>2
<1>4. DOMAIN t = 1..Len(s) + 1 /\ DOMAIN s = 1..Len(s)
  BY <1>1
<1>5. ToSet(t) \subseteq ToSet(s) \cup {x}
  <2>1. ASSUME NEW i \in DOMAIN t PROVE t[i] \in ToSet(s) \cup {x}
    BY <1>2, <1>3, <1>4, <1>1 DEF ToSet
  <2>. QED BY <2>1 DEF ToSet
<1>6. ToSet(s) \cup {x} \subseteq ToSet(t)
  <2>1. ASSUME NEW i \in DOMAIN s PROVE s[i] \in ToSet(t)
    <3>1. i + 1 \in DOMAIN t /\ t[i + 1] = s[i]
      BY <1>2, <1>4
    <3>. QED BY <3>1, Zenon DEF ToSet
  <2>2. x \in ToSet(t)
    BY <1>2, <1>4 DEF ToSet
  <2>. QED BY <2>1, <2>2 DEF ToSet
<1>. QED
  BY <1>1, <1>5, <1>6

LEMMA InjectiveCons ==
  ASSUME NEW S, NEW s \in Seq(S), NEW x \in S, IsInjective(s), x \notin ToSet(s)
  PROVE  IsInjective(<<x>> \o s)
<1>. DEFINE t == <<x>> \o s
<1>1. t \in Seq(S) /\ Len(t) = Len(s) + 1 /\ t[1] = x
  OBVIOUS
<1>2. \A i \in 2..Len(t) : i - 1 \in DOMAIN s /\ t[i] = s[i - 1]
  OBVIOUS
<1>3. \A i \in DOMAIN s : s[i] # x
  BY DEF ToSet
<1>4. ASSUME NEW i \in DOMAIN t, NEW j \in DOMAIN t, t[i] = t[j]
      PROVE  i = j
  <2>1. CASE i = 1 \/ j = 1
    BY <1>1, <1>2, <1>3, <1>4, <2>1
  <2>2. CASE i # 1 /\ j # 1
    <3>1. i \in 2..Len(t) /\ j \in 2..Len(t)
      BY <1>1, <2>2
    <3>2. s[i - 1] = s[j - 1]
      BY <1>2, <1>4, <3>1
    <3>. QED BY <1>2, <3>1, <3>2 DEF IsInjective
  <2>. QED BY <2>1, <2>2
<1>. QED
  BY <1>4 DEF IsInjective

LEMMA HeadTail ==
  ASSUME NEW S, NEW s \in Seq(S), s # <<>>
  PROVE  /\ Head(s) \in S /\ Tail(s) \in Seq(S)
         /\ ToSet(s) = {Head(s)} \cup ToSet(Tail(s))
         /\ IsInjective(s) => IsInjective(Tail(s)) /\ Head(s) \notin ToSet(Tail(s))
<1>1. Len(s) \in Nat \ {0} /\ DOMAIN s = 1..Len(s) /\ Head(s) = s[1] /\ Head(s) \in S
  OBVIOUS
<1>2. Tail(s) \in Seq(S) /\ Len(Tail(s)) = Len(s) - 1
  OBVIOUS
<1>3. \A i \in 1..Len(s) - 1 : Tail(s)[i] = s[i + 1]
  OBVIOUS
<1>4. DOMAIN Tail(s) = 1..Len(s) - 1
  BY <1>1, <1>2
<1>5. ASSUME NEW i \in DOMAIN s PROVE s[i] \in {Head(s)} \cup ToSet(Tail(s))
  <2>1. CASE i = 1
    BY <1>1, <2>1
  <2>2. CASE i # 1
    <3>1. i - 1 \in DOMAIN Tail(s) /\ Tail(s)[i - 1] = s[i]
      BY <1>1, <1>3, <1>4, <2>2
    <3>. QED BY <3>1, Zenon DEF ToSet
  <2>. QED BY <2>1, <2>2
<1>6. ASSUME NEW i \in DOMAIN Tail(s) PROVE Tail(s)[i] \in ToSet(s)
  BY <1>1, <1>3, <1>4 DEF ToSet
<1>7. ToSet(s) = {Head(s)} \cup ToSet(Tail(s))
  BY <1>1, <1>5, <1>6 DEF ToSet
<1>8. \A i \in DOMAIN Tail(s) : i + 1 \in DOMAIN s /\ i + 1 # 1 /\ Tail(s)[i] = s[i + 1]
  BY <1>1, <1>3, <1>4
<1>9. ASSUME IsInjective(s) PROVE IsInjective(Tail(s))
  <2>1. ASSUME NEW i \in DOMAIN Tail(s), NEW j \in DOMAIN Tail(s), Tail(s)[i] = Tail(s)[j]
        PROVE  i = j
    <3>1. i + 1 = j + 1
      BY <1>8, <1>9, <2>1 DEF IsInjective
    <3>. QED BY <1>4, <3>1
  <2>. QED BY <2>1 DEF IsInjective
<1>10. ASSUME IsInjective(s) PROVE Head(s) \notin ToSet(Tail(s))
  <2>1. \A i \in DOMAIN Tail(s) : Tail(s)[i] # Head(s)
    BY <1>1, <1>8, <1>10 DEF IsInjective
  <2>. QED BY <2>1 DEF ToSet
<1>. QED
  BY <1>1, <1>2, <1>7, <1>9, <1>10

LEMMA ConcatAt ==
  ASSUME NEW S, NEW a \in Seq(S), NEW b \in Seq(S)
  PROVE  /\ a \o b \in Seq(S) /\ Len(a \o b) = Len(a) + Len(b)
         /\ \A i \in 1..Len(a) : (a \o b)[i] = a[i]
         /\ \A i \in 1..Len(a) + Len(b) :
              i > Len(a) => (a \o b)[i] = b[i - Len(a)]
  OBVIOUS

\* Taking one element out of a sequence without repetition.
LEMMA RemoveAtSet ==
  ASSUME NEW S, NEW s \in Seq(S), NEW k \in DOMAIN s, IsInjective(s)
  PROVE  /\ RemoveAt(s, k) \in Seq(S) /\ Len(RemoveAt(s, k)) = Len(s) - 1
         /\ IsInjective(RemoveAt(s, k))
         /\ ToSet(RemoveAt(s, k)) = ToSet(s) \ {s[k]}
<1>. DEFINE t == RemoveAt(s, k)
            a == SubSeq(s, 1, k - 1)
            b == SubSeq(s, k + 1, Len(s))
            At(i) == IF i < k THEN i ELSE i + 1
<1>1. k \in Nat /\ 1 <= k /\ k <= Len(s) /\ Len(s) \in Nat /\ DOMAIN s = 1..Len(s)
  OBVIOUS
<1>2. a \in Seq(S) /\ Len(a) = k - 1 /\ \A i \in 1..k-1 : a[i] = s[i]
  BY <1>1
<1>3. b \in Seq(S) /\ Len(b) = Len(s) - k /\ \A i \in 1..Len(s) - k : b[i] = s[k + i]
  BY <1>1
<1>4. t = a \o b
  BY DEF RemoveAt
<1>a. /\ t \in Seq(S) /\ Len(t) = Len(a) + Len(b)
      /\ \A i \in 1..Len(a) : t[i] = a[i]
      /\ \A i \in 1..Len(a) + Len(b) : i > Len(a) => t[i] = b[i - Len(a)]
  BY <1>2, <1>3, <1>4, ConcatAt, SMTT(30)
<1>. HIDE DEF t, a, b
<1>5. t \in Seq(S) /\ Len(t) = Len(s) - 1 /\ DOMAIN t = 1..Len(s) - 1
  BY <1>1, <1>2, <1>3, <1>a
<1>6. \A i \in DOMAIN t : At(i) \in DOMAIN s \ {k} /\ t[i] = s[At(i)]
  <2>1. ASSUME NEW i \in DOMAIN t PROVE At(i) \in DOMAIN s \ {k} /\ t[i] = s[At(i)]
    <3>1. CASE i < k
      <4>1. i \in 1..k-1 /\ t[i] = a[i]
        BY <1>1, <1>2, <1>3, <1>a, <1>5, <3>1
      <4>. QED BY <1>1, <1>2, <3>1, <4>1
    <3>2. CASE i >= k
      <4>4. i \in Nat /\ i >= k /\ i <= Len(s) - 1
        BY <1>1, <1>5, <3>2
      <4>5. i \in 1..Len(a) + Len(b) /\ i > Len(a)
        BY <1>1, <1>2, <1>3, <4>4
      <4>6. t[i] = b[i - Len(a)]
        BY <1>a, <4>5
      <4>1. i - (k - 1) \in 1..Len(s) - k /\ t[i] = b[i - (k - 1)]
        BY <1>1, <1>2, <4>4, <4>6
      <4>2. k + (i - (k - 1)) = i + 1
        BY <1>1, <1>5
      <4>3. t[i] = s[i + 1]
        BY <1>3, <4>1, <4>2
      <4>. QED BY <1>1, <1>5, <3>2, <4>3
    <3>. QED BY <1>1, <1>5, <3>1, <3>2
  <2>. QED BY <2>1
<1>7. IsInjective(t)
  BY <1>1, <1>5, <1>6 DEF IsInjective
<1>8. ASSUME NEW i \in DOMAIN t PROVE t[i] \in ToSet(s) \ {s[k]}
  BY <1>6 DEF ToSet, IsInjective
<1>9. ASSUME NEW j \in DOMAIN s, j # k PROVE s[j] \in ToSet(t)
  <2>1. PICK i \in DOMAIN t : At(i) = j
    <3>1. CASE j < k
      BY <1>1, <1>5, <3>1
    <3>2. CASE j > k
      <4>1. j - 1 \in DOMAIN t /\ At(j - 1) = j
        BY <1>1, <1>5, <3>2
      <4>. QED BY <4>1
    <3>. QED BY <1>1, <1>9, <3>1, <3>2
  <2>2. t[i] = s[j]
    BY <1>6, <2>1
  <2>. QED BY <2>2 DEF ToSet
<1>10. ToSet(t) = ToSet(s) \ {s[k]}
  BY <1>8, <1>9 DEF ToSet
<1>. QED
  BY <1>5, <1>7, <1>10 DEF t

\* A set of numbers that is not empty has a least one.
LEMMA LeastNumber ==
  ASSUME NEW T, T \subseteq Nat, T # {}
  PROVE  \E m \in T : \A n \in T : m <= n
<1>. DEFINE R == OpToRel(<, Nat)
<1>1. \A x, y \in Nat : x < y => <<x, y>> \in R
  BY DEF OpToRel
<1>2. IsWellFoundedOn(R, Nat)
  BY NatLessThanWellFounded
<1>. HIDE DEF R
<1>3. \E x \in T : \A y \in T : ~ (<<y, x>> \in R)
  BY <1>2, WFMin
<1>4. PICK x \in T : \A y \in T : ~ (<<y, x>> \in R)
  BY <1>3
<1>5. ASSUME NEW n \in T PROVE x <= n
  <2>1. x \in Nat /\ n \in Nat /\ ~ (<<n, x>> \in R)
    BY <1>4
  <2>2. ~ (n < x)
    BY <1>1, <2>1
  <2>. QED BY <2>1, <2>2
<1>. QED BY <1>5

\* A set of numbers with a bound has a greatest one.
LEMMA GreatestNumber ==
  ASSUME NEW n \in Nat, NEW I \in SUBSET (1 .. n), I # {}
  PROVE  \E m \in I : \A i \in I : i <= m
<1>. DEFINE T == {k \in Nat : \A i \in I : i <= k}
<1>1. n \in T
  OBVIOUS
<1>2. PICK m \in T : \A k \in T : m <= k
  BY <1>1, LeastNumber
<1>3. m \in I
  <2>1. SUFFICES ASSUME m \notin I PROVE FALSE
    OBVIOUS
  <2>2. PICK i \in I : TRUE
    OBVIOUS
  <2>3. m \in Nat /\ m >= 1 /\ \A j \in I : j \in Nat /\ j <= m /\ j # m
    BY <2>1, <2>2
  <2>4. m - 1 \in T
    BY <2>3
  <2>. QED BY <1>2, <2>3, <2>4
<1>. QED BY <1>2, <1>3

\* The elements of a finite set of numbers, counted from below: each number up
\* to its size is the place of one element.
LEMMA PlaceExists ==
  ASSUME NEW n \in Nat, NEW I \in SUBSET (1 .. n), NEW p \in 1 .. Cardinality(I)
  PROVE  \E i \in I : Cardinality({h \in I : h <= i}) = p
<1>. DEFINE Up(m) == {h \in I : h <= m}
            T == {m \in Nat : Cardinality(Up(m)) >= p}
<1>0. \A h \in I : h \in Nat /\ 1 <= h /\ h <= n
  OBVIOUS
<1>1. IsFiniteSet(I) /\ Cardinality(I) \in Nat
  <2>1. IsFiniteSet(1 .. n)
    BY FS_Interval
  <2>2. IsFiniteSet(I)
    BY <2>1, FS_Subset
  <2>. QED BY <2>2, FS_CardinalityType
<1>2. \A m \in Nat : IsFiniteSet(Up(m)) /\ Cardinality(Up(m)) \in Nat
  <2>1. ASSUME NEW m \in Nat PROVE IsFiniteSet(Up(m))
    <3>1. Up(m) \in SUBSET I
      OBVIOUS
    <3>. QED BY <1>1, <3>1, FS_Subset
  <2>. QED BY <2>1, FS_CardinalityType
<1>3. n \in T
  <2>1. Up(n) = I
    BY <1>0
  <2>. QED BY <1>1, <2>1
<1>4. PICK m \in T : \A k \in T : m <= k
  <2>1. T \subseteq Nat /\ T # {}
    BY <1>3
  <2>. HIDE DEF T
  <2>. QED BY <2>1, LeastNumber
<1>5. m # 0
  <2>0. \A h \in I : ~ (h <= 0)
    BY <1>0
  <2>1. Up(0) = {}
    BY <2>0
  <2>2. Cardinality(Up(0)) = 0
    BY <2>1, FS_EmptySet
  <2>3. p \in Nat /\ p > 0
    BY <1>1
  <2>. QED BY <1>4, <2>2, <2>3
<1>6. m \in Nat /\ m - 1 \in Nat /\ m - 1 \notin T
  <2>1. m \in Nat /\ m - 1 \in Nat
    BY <1>4, <1>5
  <2>2. ~ (m <= m - 1)
    BY <2>1
  <2>. HIDE DEF T
  <2>. QED BY <1>4, <2>1, <2>2
<1>7. Cardinality(Up(m)) >= p /\ Cardinality(Up(m - 1)) < p
  <2>1. Cardinality(Up(m)) >= p
    BY <1>4
  <2>2. ~ (Cardinality(Up(m - 1)) >= p)
    BY <1>6
  <2>3. p \in Nat
    BY <1>1
  <2>. HIDE DEF Up
  <2>. QED BY <1>2, <1>6, <2>1, <2>2, <2>3
<1>8. Up(m) = IF m \in I THEN Up(m - 1) \cup {m} ELSE Up(m - 1)
  <2>1. \A h \in I : h <= m <=> h <= m - 1 \/ h = m
    BY <1>0, <1>6
  <2>2. m <= m
    BY <1>6
  <2>. QED BY <2>1, <2>2
<1>9. m \notin Up(m - 1)
  BY <1>6
<1>. HIDE DEF Up, T
<1>10. Cardinality(Up(m - 1) \cup {m}) = Cardinality(Up(m - 1)) + 1
  BY <1>2, <1>6, <1>9, FS_AddElement
<1>11. Cardinality(Up(m)) \in Nat /\ Cardinality(Up(m - 1)) \in Nat
  BY <1>2, <1>6
<1>12. m \in I /\ Cardinality(Up(m)) = p
  BY <1>7, <1>8, <1>10, <1>11
<1>. QED BY <1>12 DEF Up

\* An element that is lower has a lower place.
LEMMA PlaceOnce ==
  ASSUME NEW n \in Nat, NEW I \in SUBSET (1 .. n), NEW i \in I, NEW k \in I,
         Cardinality({h \in I : h <= i}) = Cardinality({h \in I : h <= k})
  PROVE  i = k
<1>. DEFINE Up(m) == {h \in I : h <= m}
<1>1. \A m \in I : IsFiniteSet(Up(m))
  <2>1. IsFiniteSet(1 .. n)
    BY FS_Interval
  <2>2. ASSUME NEW m \in I PROVE Up(m) \in SUBSET (1 .. n)
    OBVIOUS
  <2>. QED BY <2>1, <2>2, FS_Subset
<1>0. \A h \in I : h \in Nat
  OBVIOUS
<1>2. Up(i) \subseteq Up(k) \/ Up(k) \subseteq Up(i)
  <2>1. ASSUME NEW a \in I, NEW b \in I, a <= b PROVE Up(a) \subseteq Up(b)
    <3>1. \A h \in I : h <= a => h <= b
      BY <1>0, <2>1
    <3>. QED BY <3>1
  <2>2. i <= k \/ k <= i
    BY <1>0
  <2>. QED BY <1>0, <2>1, <2>2
<1>3. i \in Up(i) /\ k \in Up(k)
  BY <1>0
<1>4. Up(i) = Up(k)
  <2>1. Cardinality(Up(i)) = Cardinality(Up(k))
    OBVIOUS
  <2>2. IsFiniteSet(Up(i)) /\ IsFiniteSet(Up(k))
    BY <1>1
  <2>. HIDE DEF Up
  <2>3. CASE Up(i) \subseteq Up(k)
    BY <2>1, <2>2, <2>3, FS_Subset
  <2>4. CASE Up(k) \subseteq Up(i)
    BY <2>1, <2>2, <2>4, FS_Subset
  <2>. QED BY <1>2, <2>3, <2>4
<1>5. i <= k /\ k <= i
  BY <1>3, <1>4
<1>. QED BY <1>0, <1>5


-----------------------------------------------------------------------------
(* Induction, with sets in the place of predicates.                        *)

\* Induction over the numbers, stated for a set of them.
LEMMA NumberInduction ==
  ASSUME NEW T, 0 \in T, \A n \in Nat : n \in T => n + 1 \in T
  PROVE  Nat \subseteq T
<1>. DEFINE U == {n \in Nat : n \notin T}
<1>1. SUFFICES ASSUME U # {} PROVE FALSE
  OBVIOUS
<1>2. U \subseteq Nat
  OBVIOUS
<1>3. \E n \in U : \A m \in U : n <= m
  <2>. HIDE DEF U
  <2>. QED BY <1>1, <1>2, LeastNumber
<1>4. PICK n \in U : \A m \in U : n <= m
  BY <1>3
<1>5. n \in Nat /\ n # 0 /\ n - 1 \in Nat /\ n - 1 \notin U
  BY <1>4
<1>6. (n - 1) + 1 \in T
  BY <1>5
<1>. QED BY <1>4, <1>5, <1>6

\* A family of subsets of a finite set that is not empty has a smallest one.
LEMMA MinimalSubset ==
  ASSUME NEW S, NEW F, F \subseteq SUBSET S, IsFiniteSet(S), F # {}
  PROVE  \E A \in F : \A B \in F : B \subseteq A => B = A
<1>1. F \subseteq FiniteSubsetsOf(S)
  BY FS_FiniteSubsetsOfFinite
<1>2. IsWellFoundedOn(StrictSubsetOrdering(S), FiniteSubsetsOf(S))
  BY FS_StrictSubsetOrderingWellFounded
<1>3. PICK A \in F : \A B \in F : ~ (<<B, A>> \in StrictSubsetOrdering(S))
  BY <1>1, <1>2, WFMin
<1>. QED BY <1>3 DEF StrictSubsetOrdering

\* Induction over the subsets of a finite set, stated for a set of them.
LEMMA SubsetInduction ==
  ASSUME NEW S, IsFiniteSet(S), NEW F,
         \A A \in SUBSET S : (\A B \in SUBSET S : B \subseteq A /\ B # A => B \in F) => A \in F
  PROVE  SUBSET S \subseteq F
<1>. DEFINE G == {A \in SUBSET S : A \notin F}
<1>1. SUFFICES ASSUME G # {} PROVE FALSE
  OBVIOUS
<1>2. G \subseteq SUBSET S
  OBVIOUS
<1>3. \E A \in G : \A B \in G : B \subseteq A => B = A
  <2>. HIDE DEF G
  <2>. QED BY <1>1, <1>2, MinimalSubset
<1>. QED BY <1>3

-----------------------------------------------------------------------------
(* Folds.  What FoldLeft computes is given by a function on the subsets of *)
(* the domain that calls itself; that there is such a function has to be   *)
(* proved before anything can be said of the result.                       *)

\* step[i] is what the element at i does to the result, pick the place taken
\* first.
FoldRule(it, D, base, step, pick) ==
  it = [A \in SUBSET D |-> IF A = {} THEN base ELSE step[pick[A]][it[A \ {pick[A]}]]]

Picks(pick, D) == \A A \in SUBSET D : A # {} => pick[A] \in A

LEMMA FoldExists ==
  ASSUME NEW D, IsFiniteSet(D), NEW S, NEW base \in S, NEW step \in [D -> [S -> S]],
         NEW pick, Picks(pick, D)
  PROVE  \E it \in [SUBSET D -> S] : FoldRule(it, D, base, step, pick)
<1>. DEFINE Apply(it) == [A \in SUBSET D |->
                            IF A = {} THEN base ELSE step[pick[A]][it[A \ {pick[A]}]]]
            Holds(n) == \E it \in [SUBSET D -> S] :
                          \A A \in SUBSET D : Cardinality(A) <= n => it[A] = Apply(it)[A]
            T == {n \in Nat : Holds(n)}
<1>1. ASSUME NEW it \in [SUBSET D -> S] PROVE Apply(it) \in [SUBSET D -> S]
  <2>1. ASSUME NEW A \in SUBSET D, A # {} PROVE step[pick[A]][it[A \ {pick[A]}]] \in S
    <3>1. pick[A] \in D /\ A \ {pick[A]} \in SUBSET D
      BY <2>1 DEF Picks
    <3>2. it[A \ {pick[A]}] \in S /\ step[pick[A]] \in [S -> S]
      BY <3>1
    <3>. QED BY <3>2
  <2>. QED BY <2>1
<1>2. ASSUME NEW A \in SUBSET D
      PROVE  /\ Cardinality(A) \in Nat /\ (Cardinality(A) = 0 <=> A = {})
             /\ A # {} => Cardinality(A \ {pick[A]}) = Cardinality(A) - 1
  <2>1. IsFiniteSet(A)
    BY FS_Subset
  <2>2. A # {} => pick[A] \in A
    BY DEF Picks
  <2>3. Cardinality(A) \in Nat /\ (Cardinality(A) = 0 <=> A = {})
    BY <2>1, FS_CardinalityType, FS_EmptySet
  <2>4. A # {} => Cardinality(A \ {pick[A]}) = Cardinality(A) - 1
    <3>1. IsFiniteSet(A) => Cardinality(A \ {pick[A]}) =
                              IF pick[A] \in A THEN Cardinality(A) - 1 ELSE Cardinality(A)
      BY FS_RemoveElement
    <3>. QED BY <3>1, <2>1, <2>2
  <2>. QED BY <2>3, <2>4
<1>3. 0 \in T
  <2>. DEFINE one == [A \in SUBSET D |-> base]
  <2>1. one \in [SUBSET D -> S]
    OBVIOUS
  <2>2. ASSUME NEW A \in SUBSET D, Cardinality(A) <= 0 PROVE one[A] = Apply(one)[A]
    <3>1. Cardinality(A) \in Nat /\ (Cardinality(A) = 0 <=> A = {})
      BY <1>2
    <3>2. A = {}
      BY <3>1, <2>2
    <3>. QED BY <3>2
  <2>. QED BY <2>1, <2>2
<1>4. ASSUME NEW n \in Nat, n \in T PROVE n + 1 \in T
  <2>1. PICK it \in [SUBSET D -> S] :
          \A A \in SUBSET D : Cardinality(A) <= n => it[A] = Apply(it)[A]
    BY <1>4
  <2>. DEFINE new == Apply(it)
  <2>2. new \in [SUBSET D -> S]
    BY <1>1
  <2>3. ASSUME NEW A \in SUBSET D, Cardinality(A) <= n + 1 PROVE new[A] = Apply(new)[A]
    <3>1. CASE A = {}
      BY <3>1
    <3>2. CASE A # {}
      <4>. DEFINE B == A \ {pick[A]}
      <4>1. B \in SUBSET D /\ Cardinality(B) <= n
        BY <3>2, <1>2, <2>3
      <4>2. it[B] = new[B]
        BY <4>1, <2>1
      <4>. QED BY <3>2, <4>1, <4>2
    <3>. QED BY <3>1, <3>2
  <2>4. Holds(n + 1)
    <3>. HIDE DEF new, Apply
    <3>. QED BY <2>2, <2>3
  <2>. HIDE DEF Holds
  <2>. QED BY <2>4
<1>5. Nat \subseteq T
  <2>. HIDE DEF T
  <2>. QED BY <1>3, <1>4, NumberInduction
<1>6. Cardinality(D) \in T
  BY <1>5, FS_CardinalityType
<1>7. PICK it \in [SUBSET D -> S] :
        \A A \in SUBSET D : Cardinality(A) <= Cardinality(D) => it[A] = Apply(it)[A]
  BY <1>6
<1>8. \A A \in SUBSET D : it[A] = Apply(it)[A]
  BY <1>7, FS_Subset
<1>9. it = Apply(it)
  BY <1>8, <1>7
<1>. QED BY <1>9 DEF FoldRule

\* What a fold keeps: if every element keeps the result in S, S is kept.
LEMMA FoldTyped ==
  ASSUME NEW D, IsFiniteSet(D), NEW S, NEW pick, Picks(pick, D), NEW it, it[{}] \in S,
         \A A \in SUBSET D : A # {} /\ it[A \ {pick[A]}] \in S => it[A] \in S
  PROVE  it[D] \in S
<1>. DEFINE F == {A \in SUBSET D : it[A] \in S}
<1>1. ASSUME NEW A \in SUBSET D,
             \A B \in SUBSET D : B \subseteq A /\ B # A => B \in F
      PROVE  A \in F
  <2>1. CASE A = {}
    BY <2>1
  <2>2. CASE A # {}
    <3>1. pick[A] \in A
      BY <2>2 DEF Picks
    <3>2. A \ {pick[A]} \in F
      BY <3>1, <1>1
    <3>. QED BY <3>2, <2>2
  <2>. QED BY <2>1, <2>2
<1>2. SUBSET D \subseteq F
  <2>. HIDE DEF F
  <2>. QED BY <1>1, SubsetInduction
<1>. QED BY <1>2

\* FoldLeft takes the last place first.
LEMMA MaxPicks ==
  ASSUME NEW n \in Nat
  PROVE  /\ IsFiniteSet(1 .. n)
         /\ \A A \in SUBSET (1 .. n) : A # {} => Max(A) \in A
<1>1. ASSUME NEW A \in SUBSET (1 .. n), A # {} PROVE Max(A) \in A
  <2>1. \E m \in A : \A i \in A : i <= m
    BY <1>1, GreatestNumber
  <2>2. \E m \in A : \A i \in A : m >= i
    BY <2>1
  <2>. QED BY <2>2 DEF Max
<1>. QED BY <1>1, FS_Interval

-----------------------------------------------------------------------------
(* Sequences whose elements come from no set that is known beforehand.     *)

IsSeq(s) == \E S : s \in Seq(S)

LEMMA SeqKnown ==
  ASSUME NEW s, IsSeq(s)
  PROVE  Len(s) \in Nat /\ DOMAIN s = 1 .. Len(s) /\ (s = <<>> <=> Len(s) = 0)
<1>1. PICK S : s \in Seq(S)
  BY DEF IsSeq
<1>. QED BY <1>1

LEMMA SeqEmpty == IsSeq(<<>>) /\ Len(<<>>) = 0
<1>1. <<>> \in Seq({})
  OBVIOUS
<1>. QED BY <1>1 DEF IsSeq

LEMMA SeqTail ==
  ASSUME NEW s, IsSeq(s), s # <<>>
  PROVE  /\ IsSeq(Tail(s)) /\ Len(Tail(s)) = Len(s) - 1 /\ Len(s) >= 1 /\ Head(s) = s[1]
         /\ \A k \in 1 .. Len(s) - 1 : Tail(s)[k] = s[k + 1]
<1>1. PICK S : s \in Seq(S)
  BY DEF IsSeq
<1>2. Tail(s) \in Seq(S)
  BY <1>1
<1>. QED BY <1>1, <1>2 DEF IsSeq

LEMMA SeqConcat ==
  ASSUME NEW s, NEW t, IsSeq(s), IsSeq(t)
  PROVE  /\ IsSeq(s \o t) /\ Len(s \o t) = Len(s) + Len(t)
         /\ \A k \in 1 .. Len(s) : (s \o t)[k] = s[k]
         /\ \A k \in 1 .. Len(t) : (s \o t)[Len(s) + k] = t[k]
<1>1. PICK S : s \in Seq(S)
  BY DEF IsSeq
<1>2. PICK T : t \in Seq(T)
  BY DEF IsSeq
<1>3. s \in Seq(S \cup T) /\ t \in Seq(S \cup T)
  BY <1>1, <1>2
<1>4. s \o t \in Seq(S \cup T)
  BY <1>3
<1>. QED BY <1>3, <1>4 DEF IsSeq

LEMMA SeqOne ==
  ASSUME NEW x
  PROVE  IsSeq(<<x>>) /\ Len(<<x>>) = 1 /\ <<x>>[1] = x
<1>1. <<x>> \in Seq({x})
  OBVIOUS
<1>. QED BY <1>1 DEF IsSeq

LEMMA SeqAppend ==
  ASSUME NEW s, NEW x, IsSeq(s)
  PROVE  /\ IsSeq(Append(s, x)) /\ Len(Append(s, x)) = Len(s) + 1
         /\ \A k \in 1 .. Len(s) : Append(s, x)[k] = s[k]
         /\ Append(s, x)[Len(s) + 1] = x
<1>1. PICK S : s \in Seq(S)
  BY DEF IsSeq
<1>2. s \in Seq(S \cup {x})
  BY <1>1
<1>3. Append(s, x) \in Seq(S \cup {x})
  BY <1>2
<1>. QED BY <1>2, <1>3 DEF IsSeq

LEMMA SeqPart ==
  ASSUME NEW s, NEW m \in Nat \ {0}, NEW n \in Nat, IsSeq(s), n <= Len(s)
  PROVE  /\ IsSeq(SubSeq(s, m, n))
         /\ Len(SubSeq(s, m, n)) = (IF m <= n THEN n - m + 1 ELSE 0)
         /\ \A k \in 1 .. Len(SubSeq(s, m, n)) : SubSeq(s, m, n)[k] = s[m + k - 1]
<1>1. PICK S : s \in Seq(S)
  BY DEF IsSeq
<1>2. SubSeq(s, m, n) \in Seq(S)
  BY <1>1
<1>. QED BY <1>1, <1>2 DEF IsSeq

\* The first n + 1 elements are the first n and the next one.
LEMMA SeqGrows ==
  ASSUME NEW s, IsSeq(s), NEW n \in Nat, n < Len(s)
  PROVE  Append(SubSeq(s, 1, n), s[n + 1]) = SubSeq(s, 1, n + 1)
<1>1. PICK S : s \in Seq(S)
  BY DEF IsSeq
<1>. DEFINE a == Append(SubSeq(s, 1, n), s[n + 1])
            b == SubSeq(s, 1, n + 1)
<1>2. SubSeq(s, 1, n) \in Seq(S) /\ s[n + 1] \in S /\ Len(SubSeq(s, 1, n)) = n
  BY <1>1
<1>3. a \in Seq(S) /\ Len(a) = n + 1 /\ b \in Seq(S) /\ Len(b) = n + 1
  BY <1>1, <1>2
<1>4. \A k \in 1 .. n : a[k] = s[k] /\ b[k] = s[k]
  BY <1>1, <1>2
<1>5. a[n + 1] = s[n + 1] /\ b[n + 1] = s[n + 1]
  BY <1>1, <1>2
<1>6. \A k \in 1 .. n + 1 : a[k] = b[k]
  BY <1>4, <1>5
<1>7. DOMAIN a = 1 .. n + 1 /\ DOMAIN b = 1 .. n + 1
  BY <1>3
<1>8. a = [k \in DOMAIN a |-> a[k]] /\ b = [k \in DOMAIN b |-> b[k]]
  BY <1>3
<1>. QED BY <1>6, <1>7, <1>8

LEMMA SeqWhole ==
  ASSUME NEW s, IsSeq(s)
  PROVE  SubSeq(s, 1, Len(s)) = s /\ SubSeq(s, 1, 0) = <<>>
<1>1. PICK S : s \in Seq(S)
  BY DEF IsSeq
<1>. QED BY <1>1
=============================================================================
