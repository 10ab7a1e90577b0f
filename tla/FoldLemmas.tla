----------------------------- MODULE FoldLemmas -----------------------------
(***************************************************************************)
(* Induction over data, and what a fold over a sequence computes.          *)
(*                                                                         *)
(* A property of numbers is stated as the set of the numbers that have it, *)
(* and NatInd shows from the well-foundedness of < that the set is all of  *)
(* Nat.  The folds of the community modules are CHOOSE f : f = [t \in      *)
(* SUBSET S |-> ...]: FoldExists shows that there is such a function, by   *)
(* induction on the cardinality of t, and so that it is what its equation  *)
(* says.                                                                   *)
(***************************************************************************)
EXTENDS Integers, SequencesExt, FiniteSetTheorems, SequenceTheorems, WellFoundedInduction, TLAPS

\* Induction on the natural numbers.
LEMMA NatInd ==
  ASSUME NEW S, 0 \in S, \A n \in Nat : n \in S => n + 1 \in S
  PROVE  Nat \subseteq S
<1> DEFINE T == Nat \ S
           R == OpToRel(<, Nat)
<1> SUFFICES ASSUME T # {} PROVE FALSE
  OBVIOUS
<1>1. IsWellFoundedOn(R, Nat)
  BY NatLessThanWellFounded
<1>2. \A x, y \in Nat : y < x => <<y, x>> \in R
  BY DEF OpToRel
<1> HIDE DEF R
<1>3. PICK x \in T : \A y \in T : <<y, x>> \notin R
  BY <1>1, WFMin
<1>4. x \in Nat /\ x # 0 /\ x - 1 \in Nat /\ x - 1 < x
  BY <1>3
<1>5. x - 1 \in S
  BY <1>2, <1>3, <1>4
<1> QED BY <1>3, <1>4, <1>5

\* Induction on sequences, by their length.
LEMMA SeqInd ==
  ASSUME NEW L, NEW T, <<>> \in T, \A s \in Seq(L), e \in L : s \in T => Append(s, e) \in T
  PROVE  Seq(L) \subseteq T
<1> DEFINE N == {n \in Nat : \A s \in Seq(L) : Len(s) = n => s \in T}
<1>1. 0 \in N
  BY EmptySeq
<1>2. ASSUME NEW n \in Nat, n \in N PROVE n + 1 \in N
  <2> SUFFICES ASSUME NEW s \in Seq(L), Len(s) = n + 1 PROVE s \in T
    OBVIOUS
  <2> DEFINE f == SubSeq(s, 1, n)
             e == s[n + 1]
  <2>1. f \in Seq(L) /\ Len(f) = n /\ \A i \in 1 .. n : f[i] = s[i]
    BY SubSeqProperties
  <2>2. e \in L
    OBVIOUS
  <2> HIDE DEF f
  <2>3. s = Append(f, e)
    BY <2>1
  <2> HIDE DEF e
  <2> QED BY <1>2, <2>1, <2>2, <2>3
<1>3. Nat \subseteq N
  <2> HIDE DEF N
  <2> QED BY <1>1, <1>2, NatInd
<1> SUFFICES ASSUME NEW s \in Seq(L) PROVE s \in T
  OBVIOUS
<1> QED BY <1>3

\* ch is a choice from the nonempty subsets of S.
Picks(ch, S) == \A t \in SUBSET S : t # {} => ch[t] \in t
\* f folds step over the subsets of S, element by element as ch chooses them.
Folding(f, S, V, base, ch, step) ==
  /\ f \in [SUBSET S -> V]
  /\ \A t \in SUBSET S : f[t] = IF t = {} THEN base ELSE step[<<ch[t], f[t \ {ch[t]}]>>]

\* A fold over a finite set exists.
LEMMA FoldExists ==
  ASSUME NEW S, IsFiniteSet(S), NEW V, NEW base \in V, NEW ch, Picks(ch, S),
         NEW step \in [S \X V -> V]
  PROVE  \E f : \* f folds step over the subsets of S, element by element as ch chooses them.
Folding(f, S, V, base, ch, step)
<1> USE DEF Picks
<1> DEFINE Up(k) == {t \in SUBSET S : Cardinality(t) <= k}
           Rest(t) == t \ {ch[t]}
           Eq(f, k) == f = [t \in Up(k) |-> IF t = {} THEN base ELSE step[<<ch[t], f[Rest(t)]>>]]
           K == {k \in Nat : \E f \in [Up(k) -> V] : Eq(f, k)}
<1>1. \A t \in SUBSET S : IsFiniteSet(t) /\ Cardinality(t) \in Nat /\ (Cardinality(t) = 0 <=> t = {})
  BY FS_Subset, FS_CardinalityType, FS_EmptySet
<1>2. \A t \in SUBSET S : t # {} => Rest(t) \in SUBSET S /\ Cardinality(Rest(t)) = Cardinality(t) - 1
  BY <1>1, FS_RemoveElement
<1>3. 0 \in K
  <2>1. Up(0) = {{}}
    BY <1>1
  <2> DEFINE f == [t \in Up(0) |-> base]
  <2>2. f \in [Up(0) -> V]
    OBVIOUS
  <2>3. Eq(f, 0)
    BY <2>1
  <2> QED BY <2>2, <2>3
<1>4. ASSUME NEW k \in Nat, k \in K PROVE k + 1 \in K
  <2>1. PICK f \in [Up(k) -> V] : Eq(f, k)
    BY <1>4
  <2> DEFINE g == [t \in Up(k + 1) |-> IF t = {} THEN base ELSE step[<<ch[t], f[Rest(t)]>>]]
  <2>2. \A t \in Up(k + 1) : t # {} => Rest(t) \in Up(k) /\ ch[t] \in S
    BY <1>1, <1>2
  <2>3. g \in [Up(k + 1) -> V]
    BY <2>2
  <2>4. \A t \in Up(k) : t \in Up(k + 1) /\ g[t] = f[t]
    <3> SUFFICES ASSUME NEW t \in Up(k) PROVE t \in Up(k + 1) /\ g[t] = f[t]
      OBVIOUS
    <3>1. t \in Up(k + 1)
      BY <1>1
    <3>2. f[t] = IF t = {} THEN base ELSE step[<<ch[t], f[Rest(t)]>>]
      <4> HIDE DEF Up
      <4> QED BY <2>1
    <3> HIDE DEF Up
    <3> QED BY <3>1, <3>2
  <2>5. \A t \in Up(k + 1) : g[t] = IF t = {} THEN base ELSE step[<<ch[t], g[Rest(t)]>>]
    <3> HIDE DEF Up, Rest
    <3> QED BY <2>2, <2>4
  <2>6. Eq(g, k + 1)
    <3> HIDE DEF Up, Rest
    <3>1. g = [t \in Up(k + 1) |-> g[t]]
      OBVIOUS
    <3> HIDE DEF g
    <3> QED BY <3>1, <2>5
  <2> HIDE DEF Up, Eq, g
  <2> QED BY <2>3, <2>6
<1>5. Cardinality(S) \in K
  <2> HIDE DEF K
  <2> QED BY <1>3, <1>4, NatInd, FS_CardinalityType
<1>6. Up(Cardinality(S)) = SUBSET S
  BY FS_Subset, FS_CardinalityType
<1>7. PICK f \in [SUBSET S -> V] : Eq(f, Cardinality(S))
  BY <1>5, <1>6
<1>8. \A t \in SUBSET S : f[t] = IF t = {} THEN base ELSE step[<<ch[t], f[t \ {ch[t]}]>>]
  <2> HIDE DEF Up
  <2> QED BY <1>6, <1>7
<1> QED BY <1>7, <1>8 DEF Folding

\* A nonempty set of numbers up to n has a largest and a smallest.
LEMMA MaxOfPrefix ==
  ASSUME NEW n \in Nat, NEW t \in SUBSET (1 .. n), t # {} PROVE Max(t) \in t
<1> DEFINE S == {k \in Nat : \A u \in SUBSET (1 .. k) : u # {} => \E x \in u : \A y \in u : x >= y}
<1>1. 0 \in S
  <2>1. 1 .. 0 = {}
    OBVIOUS
  <2> QED BY <2>1
<1>2. ASSUME NEW k \in Nat, k \in S PROVE k + 1 \in S
  <2> SUFFICES ASSUME NEW u \in SUBSET (1 .. k + 1), u # {} PROVE \E x \in u : \A y \in u : x >= y
    OBVIOUS
  <2>1. CASE k + 1 \in u
    BY <2>1
  <2>2. CASE k + 1 \notin u
    <3>1. u \in SUBSET (1 .. k)
      BY <2>2
    <3> QED BY <1>2, <3>1
  <2> QED BY <2>1, <2>2
<1>3. n \in S
  <2> HIDE DEF S
  <2> QED BY <1>1, <1>2, NatInd
<1> QED BY <1>3 DEF Max

\* Likewise the smallest.
LEMMA MinOfPrefix ==
  ASSUME NEW n \in Nat, NEW t \in SUBSET (1 .. n), t # {} PROVE Min(t) \in t
<1> DEFINE R == OpToRel(<, Nat)
<1>1. IsWellFoundedOn(R, Nat) /\ \A x, y \in Nat : y < x => <<y, x>> \in R
  BY NatLessThanWellFounded DEF OpToRel
<1>2. t \subseteq Nat
  OBVIOUS
<1> HIDE DEF R
<1>3. PICK x \in t : \A y \in t : <<y, x>> \notin R
  BY <1>1, <1>2, WFMin
<1>4. ASSUME NEW y \in t PROVE x <= y
  <2>1. x \in Nat /\ y \in Nat /\ <<y, x>> \notin R
    BY <1>2, <1>3
  <2>2. ~(y < x)
    BY <1>1, <2>1
  <2> QED BY <2>1, <2>2
<1> QED BY <1>4 DEF Min

\* The intervals that a fold from the right goes through.
LEMMA FromTheRight ==
  ASSUME NEW n \in Nat, NEW i \in 1 .. n
  PROVE  /\ i .. n \in SUBSET (1 .. n) /\ i .. n # {}
         /\ Min(i .. n) = i /\ (i .. n) \ {i} = i + 1 .. n
<1>1. i \in i .. n /\ \A k \in i .. n : k \in 1 .. n /\ i <= k
  OBVIOUS
<1>2. Min(i .. n) = i
  BY <1>1 DEF Min
<1> QED BY <1>1, <1>2

(***************************************************************************)
(* Sums.                                                                   *)
(***************************************************************************)
SumOf(s) == FoldLeft(LAMBDA sum, x : sum + x, 0, s)

\* f[k] is the sum of the first k elements of s.
Partial(f, s) ==
  /\ f \in [0 .. Len(s) -> Int] /\ f[0] = 0
  /\ \A k \in 1 .. Len(s) : f[k] = f[k - 1] + s[k]

\* The sum of a sequence of integers is the last of its partial sums.
LEMMA SumPartial ==
  ASSUME NEW s \in Seq(Int)
  PROVE  \E f : Partial(f, s) /\ SumOf(s) = f[Len(s)]
<1> DEFINE n == Len(s)
           S == 1 .. n
           Eq(f) == f = [t \in SUBSET S |-> IF t = {} THEN 0 ELSE f[t \ {Max(t)}] + s[Max(t)]]
           ch == [t \in SUBSET S |-> Max(t)]
           step == [p \in S \X Int |-> p[2] + s[p[1]]]
<1>0. n \in Nat /\ DOMAIN s = S /\ IsFiniteSet(S)
  BY FS_Interval
<1>m. \A t \in SUBSET S : t # {} => Max(t) \in t
  BY <1>0, MaxOfPrefix
<1>1. \E f \in [SUBSET S -> Int] : Eq(f)
  <2>1. step \in [S \X Int -> Int]
    BY <1>0
  <2>2. Picks(ch, S)
    BY <1>m DEF Picks
  <2>3. PICK f : Folding(f, S, Int, 0, ch, step)
    <3> HIDE DEF step, ch, S
    <3>1. 0 \in Int
      OBVIOUS
    <3> QED BY <1>0, <2>1, <2>2, <3>1, FoldExists
  <2>4. f \in [SUBSET S -> Int]
        /\ \A t \in SUBSET S : f[t] = IF t = {} THEN 0 ELSE f[t \ {Max(t)}] + s[Max(t)]
    BY <1>m, <2>3 DEF Folding
  <2>5. f = [t \in SUBSET S |-> f[t]]
    BY <2>4
  <2> QED BY <2>4, <2>5
<1> DEFINE I == CHOOSE f : Eq(f)
<1>2. Eq(I)
  BY <1>1
<1>3. SumOf(s) = I[S]
  BY <1>0 DEF SumOf, FoldLeft, MapThenFoldSet
<1>4. I[{}] = 0 /\ \A t \in SUBSET S : t # {} => I[t] = I[t \ {Max(t)}] + s[Max(t)]
  <2> HIDE DEF I
  <2> QED BY <1>2
<1> HIDE DEF I
<1>5. \A k \in 1 .. n : I[1 .. k] = I[1 .. k - 1] + s[k]
  <2> SUFFICES ASSUME NEW k \in 1 .. n PROVE I[1 .. k] = I[1 .. k - 1] + s[k]
    OBVIOUS
  <2>1. Max(1 .. k) = k
    BY <1>0 DEF Max
  <2>2. 1 .. k \in SUBSET S /\ 1 .. k # {}
    <3>1. k \in 1 .. k /\ \A i \in 1 .. k : i \in 1 .. n
      BY <1>0
    <3> QED BY <3>1
  <2>3. (1 .. k) \ {k} = 1 .. k - 1
    BY <1>0
  <2> QED BY <1>4, <2>1, <2>2, <2>3
<1>6. \A k \in 0 .. n : I[1 .. k] \in Int
  <2> DEFINE T == {k \in Nat : k <= n => I[1 .. k] \in Int}
  <2>1. 0 \in T
    <3>1. 1 .. 0 = {}
      OBVIOUS
    <3> QED BY <1>4, <3>1
  <2>2. ASSUME NEW k \in Nat, k \in T PROVE k + 1 \in T
    <3> SUFFICES ASSUME k + 1 <= n PROVE I[1 .. k + 1] \in Int
      OBVIOUS
    <3>1. I[1 .. k] \in Int /\ k + 1 \in 1 .. n /\ (k + 1) - 1 = k
      BY <1>0, <2>2
    <3>2. s[k + 1] \in Int
      BY <3>1
    <3> QED BY <1>5, <3>1, <3>2
  <2>3. Nat \subseteq T
    <3> HIDE DEF T
    <3> QED BY <2>1, <2>2, NatInd
  <2> QED BY <1>0, <2>3
<1> DEFINE f == [k \in 0 .. n |-> I[1 .. k]]
<1>7. f \in [0 .. n -> Int]
  BY <1>6
<1>8. f[0] = 0 /\ f[n] = SumOf(s)
  <2>1. 1 .. 0 = {} /\ 0 \in 0 .. n /\ n \in 0 .. n
    BY <1>0
  <2> QED BY <1>3, <1>4, <2>1
<1>9. \A k \in 1 .. n : f[k] = f[k - 1] + s[k]
  BY <1>0, <1>5
<1> HIDE DEF f
<1> QED BY <1>7, <1>8, <1>9 DEF Partial

\* A sequence has no other partial sums.
LEMMA PartialOnly ==
  ASSUME NEW s \in Seq(Int), NEW f, Partial(f, s), NEW g, Partial(g, s)
  PROVE  f = g
<1> DEFINE T == {k \in Nat : k <= Len(s) => f[k] = g[k]}
<1>1. 0 \in T
  BY DEF Partial
<1>2. ASSUME NEW k \in Nat, k \in T PROVE k + 1 \in T
  <2> SUFFICES ASSUME k + 1 <= Len(s) PROVE f[k + 1] = g[k + 1]
    OBVIOUS
  <2>1. k + 1 \in 1 .. Len(s) /\ (k + 1) - 1 = k /\ f[k] = g[k]
    BY <1>2
  <2> QED BY <2>1 DEF Partial
<1>3. Nat \subseteq T
  <2> HIDE DEF T
  <2> QED BY <1>1, <1>2, NatInd
<1>4. \A k \in 0 .. Len(s) : f[k] = g[k]
  BY <1>3
<1> QED BY <1>4 DEF Partial

\* To know a sum it is enough to show its partial sums.
LEMMA SumIs ==
  ASSUME NEW s \in Seq(Int), NEW f, Partial(f, s)
  PROVE  SumOf(s) = f[Len(s)]
BY SumPartial, PartialOnly

\* A sum of integers is an integer.
LEMMA SumInt ==
  ASSUME NEW s \in Seq(Int) PROVE SumOf(s) \in Int
BY SumPartial DEF Partial

\* One element more, anywhere.
LEMMA SumOneMore ==
  ASSUME NEW s \in Seq(Int), NEW i \in 1 .. Len(s) + 1, NEW t \in Seq(Int), Len(t) = Len(s) + 1,
         \A k \in 1 .. Len(s) : t[IF k < i THEN k ELSE k + 1] = s[k]
  PROVE  SumOf(t) = SumOf(s) + t[i]
<1>1. PICK f : Partial(f, s) /\ SumOf(s) = f[Len(s)]
  BY SumPartial
<1> DEFINE n == Len(s)
           g == [k \in 0 .. n + 1 |-> IF k < i THEN f[k] ELSE f[k - 1] + t[i]]
<1>2. n \in Nat /\ Len(t) = n + 1 /\ t[i] \in Int /\ i \in 1 .. n + 1
  OBVIOUS
<1>s. ASSUME NEW k \in 1 .. n PROVE s[k] \in Int /\ (k < i => t[k] = s[k]) /\ (k >= i => t[k + 1] = s[k])
  <2>1. t[IF k < i THEN k ELSE k + 1] = s[k] /\ s[k] \in Int
    OBVIOUS
  <2> QED BY <2>1
<1>3. f \in [0 .. n -> Int] /\ f[0] = 0 /\ \A k \in 1 .. n : f[k] = f[k - 1] + s[k]
  BY <1>1 DEF Partial
<1> HIDE DEF n
<1>4. g \in [0 .. n + 1 -> Int] /\ g[0] = 0
  <2>1. ASSUME NEW k \in 0 .. n + 1 PROVE (IF k < i THEN f[k] ELSE f[k - 1] + t[i]) \in Int
    <3>1. CASE k < i
      <4>1. k \in 0 .. n
        BY <1>2, <3>1
      <4> QED BY <1>3, <3>1, <4>1
    <3>2. CASE ~(k < i)
      <4>1. k - 1 \in 0 .. n
        BY <1>2, <3>2
      <4>2. f[k - 1] \in Int
        BY <1>3, <4>1
      <4> QED BY <1>2, <3>2, <4>2
    <3> QED BY <3>1, <3>2
  <2>2. 0 \in 0 .. n + 1 /\ 0 < i
    BY <1>2
  <2> QED BY <1>3, <2>1, <2>2
<1>5. ASSUME NEW k \in 1 .. n + 1 PROVE g[k] = g[k - 1] + t[k]
  <2>1. CASE k < i
    <3>1. k \in 1 .. n /\ t[k] = s[k]
      BY <1>2, <1>s, <2>1
    <3> QED BY <1>2, <1>3, <2>1, <3>1
  <2>2. CASE k = i
    BY <1>2, <1>3, <2>2
  <2>3. CASE k > i
    <3>1. k - 1 \in 1 .. n /\ t[k] = s[k - 1]
      <4>1. k - 1 \in 1 .. n /\ k - 1 >= i /\ (k - 1) + 1 = k
        BY <1>2, <2>3
      <4> QED BY <1>s, <4>1
    <3>2. f[k - 1] = f[(k - 1) - 1] + s[k - 1]
      BY <1>3, <3>1
    <3>3. f[k - 1] \in Int /\ f[(k - 1) - 1] \in Int /\ s[k - 1] \in Int
      <4>1. k - 1 \in 0 .. n /\ (k - 1) - 1 \in 0 .. n
        BY <1>2, <3>1
      <4> QED BY <1>3, <1>s, <3>1, <4>1
    <3>4. g[k] = f[k - 1] + t[i] /\ g[k - 1] = f[(k - 1) - 1] + t[i]
      BY <1>2, <2>3, <3>1, k \in 0 .. n + 1, k - 1 \in 0 .. n + 1, ~(k < i), ~(k - 1 < i)
    <3> HIDE DEF g
    <3>5. f[k - 1] + t[i] = (f[(k - 1) - 1] + t[i]) + s[k - 1]
      <4>1. ASSUME NEW a \in Int, NEW b \in Int, NEW c \in Int, NEW d \in Int, a = b + c
            PROVE  a + d = (b + d) + c
        BY <4>1
      <4> QED BY <1>2, <3>2, <3>3, <4>1
    <3> QED BY <3>1, <3>4, <3>5
  <2> QED BY <1>2, <2>1, <2>2, <2>3
<1>6. Partial(g, t)
  <2> HIDE DEF g
  <2> QED BY <1>2, <1>4, <1>5 DEF Partial
<1>7. g[n + 1] = f[n] + t[i]
  BY <1>2
<1> QED BY <1>1, <1>2, <1>6, <1>7, SumIs DEF n

\* One element changed.
LEMMA SumChanged ==
  ASSUME NEW s \in Seq(Int), NEW i \in 1 .. Len(s), NEW t \in Seq(Int), Len(t) = Len(s),
         \A k \in 1 .. Len(s) : k # i => t[k] = s[k]
  PROVE  SumOf(t) = SumOf(s) - s[i] + t[i]
<1>1. PICK f : Partial(f, s) /\ SumOf(s) = f[Len(s)]
  BY SumPartial
<1> DEFINE n == Len(s)
           g == [k \in 0 .. n |-> IF k < i THEN f[k] ELSE f[k] - s[i] + t[i]]
<1>2. n \in Nat /\ Len(t) = n /\ t[i] \in Int /\ s[i] \in Int
  OBVIOUS
<1>3. f \in [0 .. n -> Int] /\ f[0] = 0 /\ \A k \in 1 .. n : f[k] = f[k - 1] + s[k]
  BY <1>1 DEF Partial
<1>k. \A k \in 1 .. n : s[k] \in Int /\ t[k] \in Int /\ (k # i => t[k] = s[k])
  OBVIOUS
<1>i. i \in 1 .. n
  OBVIOUS
<1> HIDE DEF n
<1>4. g \in [0 .. n -> Int] /\ g[0] = 0
  <2>1. ASSUME NEW k \in 0 .. n PROVE f[k] \in Int /\ f[k] - s[i] + t[i] \in Int
    <3>1. f[k] \in Int
      BY <1>3
    <3> QED BY <1>2, <3>1
  <2>2. 0 \in 0 .. n /\ 0 < i
    BY <1>2, <1>i
  <2> QED BY <1>3, <2>1, <2>2
<1>5. ASSUME NEW k \in 1 .. n PROVE g[k] = g[k - 1] + t[k]
  <2>1. f[k] = f[k - 1] + s[k] /\ f[k] \in Int /\ f[k - 1] \in Int
    <3>1. k - 1 \in 0 .. n /\ k \in 0 .. n
      BY <1>2
    <3> QED BY <1>3, <3>1
  <2>2. s[k] \in Int /\ t[k] \in Int /\ (k # i => t[k] = s[k])
    BY <1>k
  <2>3. g[k] = IF k < i THEN f[k] ELSE f[k] - s[i] + t[i]
    BY <1>2
  <2>4. g[k - 1] = IF k - 1 < i THEN f[k - 1] ELSE f[k - 1] - s[i] + t[i]
    BY <1>2
  <2> HIDE DEF g
  <2>5. CASE k < i
    BY <1>2, <1>i, <2>1, <2>2, <2>3, <2>4, <2>5
  <2>6. CASE k = i
    BY <1>2, <1>i, <2>1, <2>2, <2>3, <2>4, <2>6
  <2>7. CASE k > i
    <3>1. ~(k < i) /\ ~(k - 1 < i) /\ k # i
      BY <1>2, <1>i, <2>7
    <3>2. g[k] = f[k] - s[i] + t[i] /\ g[k - 1] = f[k - 1] - s[i] + t[i] /\ t[k] = s[k]
      BY <2>2, <2>3, <2>4, <3>1
    <3> QED BY <1>2, <2>1, <2>2, <3>2
  <2>8. k < i \/ k = i \/ k > i
    BY <1>i
  <2> QED BY <2>5, <2>6, <2>7, <2>8
<1>6. Partial(g, t)
  <2> HIDE DEF g
  <2> QED BY <1>2, <1>4, <1>5 DEF Partial
<1>7. g[n] = f[n] - s[i] + t[i]
  BY <1>2, <1>i
<1> QED BY <1>1, <1>2, <1>6, <1>7, SumIs DEF n

\* A sum of zeros.
LEMMA SumZeros ==
  ASSUME NEW s \in Seq(Int), \A k \in 1 .. Len(s) : s[k] = 0
  PROVE  SumOf(s) = 0
<1>1. Partial([k \in 0 .. Len(s) |-> 0], s)
  BY DEF Partial
<1> QED BY <1>1, SumIs

\* A sum of numbers that are not negative bounds each of them.
LEMMA SumBounds ==
  ASSUME NEW s \in Seq(Int), \A k \in 1 .. Len(s) : s[k] >= 0
  PROVE  SumOf(s) >= 0 /\ \A k \in 1 .. Len(s) : s[k] <= SumOf(s)
<1>1. PICK f : Partial(f, s) /\ SumOf(s) = f[Len(s)]
  BY SumPartial
<1> DEFINE n == Len(s)
           T == {k \in Nat : k <= n => f[k] >= 0 /\ \A j \in 1 .. k : s[j] <= f[k]}
<1>2. n \in Nat /\ f \in [0 .. n -> Int] /\ f[0] = 0
      /\ \A k \in 1 .. n : f[k] = f[k - 1] + s[k] /\ s[k] \in Int /\ s[k] >= 0
  BY <1>1 DEF Partial
<1>3. 0 \in T
  BY <1>2
<1>4. ASSUME NEW k \in Nat, k \in T PROVE k + 1 \in T
  <2> SUFFICES ASSUME k + 1 <= n PROVE f[k + 1] >= 0 /\ \A j \in 1 .. k + 1 : s[j] <= f[k + 1]
    OBVIOUS
  <2> HIDE DEF n
  <2>1. k + 1 \in 1 .. n /\ (k + 1) - 1 = k /\ f[k] >= 0 /\ f[k] \in Int
    BY <1>2, <1>4
  <2>2. f[k + 1] = f[k] + s[k + 1] /\ s[k + 1] \in Int /\ s[k + 1] >= 0
    BY <1>2, <2>1
  <2>3. ASSUME NEW j \in 1 .. k PROVE s[j] <= f[k + 1]
    <3>1. k <= n /\ j \in 1 .. n
      BY <1>2, <2>1
    <3>2. s[j] <= f[k] /\ s[j] \in Int
      BY <1>2, <1>4, <3>1
    <3> QED BY <2>1, <2>2, <3>2
  <2> QED BY <2>1, <2>2, <2>3
<1>5. n \in T
  <2> HIDE DEF T
  <2> QED BY <1>2, <1>3, <1>4, NatInd
<1> QED BY <1>1, <1>2, <1>5

(***************************************************************************)
(* Sequences.                                                              *)
(***************************************************************************)
LEMMA Prepended ==
  ASSUME NEW S, NEW e \in S, NEW s \in Seq(S)
  PROVE  /\ <<e>> \o s \in Seq(S) /\ Len(<<e>> \o s) = Len(s) + 1 /\ (<<e>> \o s)[1] = e
         /\ \A k \in 1 .. Len(s) : (<<e>> \o s)[k + 1] = s[k]
OBVIOUS

\* What InsertAt returns.
LEMMA Inserted ==
  ASSUME NEW S, NEW s \in Seq(S), NEW i \in 1 .. Len(s) + 1, NEW e \in S
  PROVE  /\ InsertAt(s, i, e) \in Seq(S) /\ Len(InsertAt(s, i, e)) = Len(s) + 1
         /\ InsertAt(s, i, e)[i] = e
         /\ \A k \in 1 .. Len(s) : InsertAt(s, i, e)[IF k < i THEN k ELSE k + 1] = s[k]
<1> DEFINE a == SubSeq(s, 1, i - 1)
           b == SubSeq(s, i, Len(s))
           c == a \o <<e>>
<1>1. a \in Seq(S) /\ Len(a) = i - 1 /\ \A k \in 1 .. i - 1 : a[k] = s[k]
  OBVIOUS
<1>2. b \in Seq(S) /\ Len(b) = Len(s) - i + 1 /\ \A k \in 1 .. Len(s) - i + 1 : b[k] = s[i + k - 1]
  OBVIOUS
<1> HIDE DEF a, b
<1>3. c \in Seq(S) /\ Len(c) = i /\ c[i] = e /\ \A k \in 1 .. i - 1 : c[k] = s[k]
  BY <1>1
<1>4. InsertAt(s, i, e) = c \o b
  BY DEF InsertAt, a, b
<1> HIDE DEF c
<1>5. c \o b \in Seq(S) /\ Len(c \o b) = Len(s) + 1 /\ \A k \in 1 .. i : (c \o b)[k] = c[k]
  BY <1>2, <1>3
<1>6. ASSUME NEW k \in 1 .. Len(s), ~(k < i) PROVE (c \o b)[k + 1] = s[k]
  <2>1. (c \o b)[k + 1] = b[(k + 1) - i] /\ (k + 1) - i \in 1 .. Len(s) - i + 1
    BY <1>2, <1>3, <1>6
  <2>2. b[(k + 1) - i] = s[i + ((k + 1) - i) - 1] /\ i + ((k + 1) - i) - 1 = k
    BY <1>2, <2>1
  <2> QED BY <2>1, <2>2
<1>7. ASSUME NEW k \in 1 .. Len(s), k < i PROVE (c \o b)[k] = s[k]
  BY <1>3, <1>5, <1>7
<1>8. (c \o b)[i] = e
  BY <1>3, <1>5
<1> QED BY <1>4, <1>5, <1>6, <1>7, <1>8
=============================================================================
