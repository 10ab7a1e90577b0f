------------------------- MODULE ServerQueue_proofs -------------------------
(***************************************************************************)
(* Proofs about the server daemon, for any lines, capacities and numbers   *)
(* of attempts, strays and crashes.                                        *)
(*                                                                         *)
(* First what the operators on sequences do (Kept, which FirstTimes and    *)
(* Owed are made of).  Then the types: QTypes, which the other proofs      *)
(* need, and with RestTypes all of TypeOK.  On them rest the inductive     *)
(* invariants: what is acknowledged (AckInv), what is on disk (DiskInv),   *)
(* what the request under way has to do with the buffer (CopyInv, which    *)
(* gives the action property KeepsTillEntered), and with it where each     *)
(* line may be and in which order (OrderInv, which gives the refinement    *)
(* of Delivery).                                                           *)
(***************************************************************************)
EXTENDS ServerQueue, FoldLemmas

(***************************************************************************)
(* Sequences and their elements.                                           *)
(***************************************************************************)
LEMMA ToSetEmpty == ToSet(<<>>) = {}
  BY DEF ToSet

\* What is in a sequence of S is in S.
LEMMA ToSetIn ==
  ASSUME NEW S, NEW s \in Seq(S) PROVE ToSet(s) \subseteq S
  BY DEF ToSet

\* What is in two joined sequences is in one of them.
LEMMA ToSetConcat ==
  ASSUME NEW S, NEW s \in Seq(S), NEW t \in Seq(S)
  PROVE  ToSet(s \o t) = ToSet(s) \cup ToSet(t)
<1>1. ToSet(s \o t) \subseteq ToSet(s) \cup ToSet(t)
  BY DEF ToSet
<1>2. ToSet(s) \subseteq ToSet(s \o t)
  <2> SUFFICES ASSUME NEW i \in DOMAIN s PROVE s[i] \in ToSet(s \o t)
    BY DEF ToSet
  <2>1. i \in DOMAIN (s \o t) /\ (s \o t)[i] = s[i]
    OBVIOUS
  <2> QED BY <2>1 DEF ToSet
<1>3. ToSet(t) \subseteq ToSet(s \o t)
  <2> SUFFICES ASSUME NEW i \in DOMAIN t PROVE t[i] \in ToSet(s \o t)
    BY DEF ToSet
  <2>1. Len(s) + i \in DOMAIN (s \o t) /\ (s \o t)[Len(s) + i] = t[i]
    OBVIOUS
  <2> QED BY <2>1 DEF ToSet
<1> QED BY <1>1, <1>2, <1>3

\* What is appended is in the sequence.
LEMMA ToSetAppend ==
  ASSUME NEW S, NEW s \in Seq(S), NEW e \in S
  PROVE  ToSet(Append(s, e)) = ToSet(s) \cup {e}
<1>1. ToSet(Append(s, e)) \subseteq ToSet(s) \cup {e}
  BY DEF ToSet
<1>2. ToSet(s) \subseteq ToSet(Append(s, e))
  <2> SUFFICES ASSUME NEW i \in DOMAIN s PROVE s[i] \in ToSet(Append(s, e))
    BY DEF ToSet
  <2>1. i \in DOMAIN Append(s, e) /\ Append(s, e)[i] = s[i]
    OBVIOUS
  <2> QED BY <2>1 DEF ToSet
<1>3. e \in ToSet(Append(s, e))
  <2>1. Len(s) + 1 \in DOMAIN Append(s, e) /\ Append(s, e)[Len(s) + 1] = e
    OBVIOUS
  <2> QED BY <2>1 DEF ToSet
<1> QED BY <1>1, <1>2, <1>3

\* What is in a sequence is its head or in its tail.
LEMMA ToSetHeadTail ==
  ASSUME NEW S, NEW s \in Seq(S), s # <<>>
  PROVE  ToSet(s) \subseteq {Head(s)} \cup ToSet(Tail(s))
<1> SUFFICES ASSUME NEW i \in DOMAIN s, i # 1 PROVE s[i] \in ToSet(Tail(s))
  BY DEF ToSet
<1>1. i - 1 \in DOMAIN Tail(s) /\ Tail(s)[i - 1] = s[i]
  OBVIOUS
<1> QED BY <1>1 DEF ToSet

(***************************************************************************)
(* What is kept of a sequence.                                             *)
(***************************************************************************)
\* A[i] is what is kept of the first i lines.
Run(A, s, S) ==
  /\ A[0] = <<>>
  /\ \A i \in 1 .. Len(s) : A[i] = IF s[i] \in S THEN Append(A[i - 1], s[i]) ELSE A[i - 1]

\* So what is kept of all of them is the last of such an A.
LEMMA KeptRun ==
  ASSUME NEW L, NEW s \in Seq(L), NEW S
  PROVE  \E A : Run(A, s, S) /\ Kept(s, S) = A[Len(s)]
<1> DEFINE n == Len(s)
           Dom == 1 .. n
           V == Seq(L)
           Plus(i, kept) == IF s[i] \in S THEN Append(kept, s[i]) ELSE kept
           Eq(f) == f = [t \in SUBSET Dom |-> IF t = {} THEN <<>> ELSE Plus(Max(t), f[t \ {Max(t)}])]
           ch == [t \in SUBSET Dom |-> Max(t)]
           step == [p \in Dom \X V |-> Plus(p[1], p[2])]
<1>0. n \in Nat /\ DOMAIN s = Dom /\ IsFiniteSet(Dom) /\ \A i \in Dom : s[i] \in L
  BY FS_Interval
<1>m. \A t \in SUBSET Dom : t # {} => Max(t) \in t
  BY <1>0, MaxOfPrefix
<1>b. <<>> \in V
  OBVIOUS
<1>c. ASSUME NEW i \in Dom, NEW kept \in V PROVE Plus(i, kept) \in V
  <2>1. s[i] \in L
    BY <1>0
  <2> QED BY <2>1
<1>1. \E f \in [SUBSET Dom -> V] : Eq(f)
  <2>1. step \in [Dom \X V -> V]
    <3> HIDE DEF V, Dom, Plus
    <3> QED BY <1>c
  <2>2. Picks(ch, Dom)
    BY <1>m DEF Picks
  <2>3. PICK f : Folding(f, Dom, V, <<>>, ch, step)
    <3> HIDE DEF step, ch, Dom, V
    <3> QED BY <1>0, <1>b, <2>1, <2>2, FoldExists
  <2>4. f \in [SUBSET Dom -> V]
        /\ \A t \in SUBSET Dom : f[t] = IF t = {} THEN <<>> ELSE Plus(Max(t), f[t \ {Max(t)}])
    <3>1. \A t \in SUBSET Dom : t # {} => Max(t) \in Dom /\ f[t \ {Max(t)}] \in V
      <4> HIDE DEF V, Dom, step, ch
      <4> QED BY <1>m, <2>3 DEF Folding
    <3> HIDE DEF V, Dom, Plus
    <3> QED BY <2>3, <3>1 DEF Folding
  <2>5. f = [t \in SUBSET Dom |-> f[t]]
    BY <2>4
  <2> HIDE DEF V, Dom, Plus
  <2> QED BY <2>4, <2>5
<1> DEFINE I == CHOOSE f : Eq(f)
<1>2. Eq(I)
  BY <1>1
<1>3. Kept(s, S) = I[Dom]
  BY <1>0 DEF Kept, FoldLeft, MapThenFoldSet
<1> HIDE DEF V, Plus
<1>4. I[{}] = <<>> /\ \A t \in SUBSET Dom : t # {} => I[t] = Plus(Max(t), I[t \ {Max(t)}])
  <2> HIDE DEF I
  <2> QED BY <1>2
<1> HIDE DEF I
<1> DEFINE A == [i \in 0 .. n |-> I[1 .. i]]
<1>5. ASSUME NEW i \in 1 .. n PROVE A[i] = Plus(i, A[i - 1])
  <2> DEFINE t == 1 .. i
  <2>1. Max(t) = i
    BY <1>0 DEF Max
  <2>2. t \in SUBSET Dom /\ t # {}
    <3>1. i \in t /\ \A j \in t : j \in Dom
      BY <1>0
    <3> QED BY <3>1
  <2>3. t \ {i} = 1 .. i - 1 /\ i \in 0 .. n /\ i - 1 \in 0 .. n
    BY <1>0
  <2> HIDE DEF t
  <2>4. I[t] = Plus(i, I[1 .. i - 1])
    BY <1>4, <2>1, <2>2, <2>3
  <2> QED BY <2>3, <2>4 DEF t
<1>6. A[0] = <<>> /\ A[n] = I[Dom]
  <2>1. 1 .. 0 = {} /\ 0 \in 0 .. n /\ n \in 0 .. n
    BY <1>0
  <2> QED BY <1>4, <2>1
<1> HIDE DEF A
<1>7. Run(A, s, S)
  BY <1>5, <1>6 DEF Run, Plus
<1> QED BY <1>3, <1>6, <1>7

\* What is kept of two sequences that begin alike is alike.
LEMMA RunsAgree ==
  ASSUME NEW s, NEW t, NEW S, NEW A, Run(A, s, S), NEW B, Run(B, t, S),
         NEW k \in Nat, Len(s) \in Nat, Len(t) \in Nat, k <= Len(s), k <= Len(t),
         \A i \in 1 .. k : s[i] = t[i]
  PROVE  A[k] = B[k]
<1> DEFINE T == {j \in Nat : j <= k => A[j] = B[j]}
<1>1. 0 \in T
  BY DEF Run
<1>2. ASSUME NEW j \in Nat, j \in T PROVE j + 1 \in T
  <2> SUFFICES ASSUME j + 1 <= k PROVE A[j + 1] = B[j + 1]
    OBVIOUS
  <2>1. j + 1 \in 1 .. k /\ j + 1 \in 1 .. Len(s) /\ j + 1 \in 1 .. Len(t)
        /\ (j + 1) - 1 = j /\ A[j] = B[j]
    BY <1>2
  <2> QED BY <2>1 DEF Run
<1>3. Nat \subseteq T
  <2> HIDE DEF T
  <2> QED BY <1>1, <1>2, NatInd
<1> QED BY <1>3

\* Of nothing, nothing is kept.
LEMMA KeptEmpty == ASSUME NEW S PROVE Kept(<<>>, S) = <<>>
<1> DEFINE s == <<>>
<1>0. s \in Seq({}) /\ Len(s) = 0
  OBVIOUS
<1> HIDE DEF s
<1>1. PICK A : Run(A, s, S) /\ Kept(s, S) = A[Len(s)]
  BY <1>0, KeptRun
<1> QED BY <1>0, <1>1 DEF Run, s

\* A line appended is kept or not.
LEMMA KeptAppend ==
  ASSUME NEW L, NEW s \in Seq(L), NEW e \in L, NEW S
  PROVE  Kept(Append(s, e), S) = IF e \in S THEN Append(Kept(s, S), e) ELSE Kept(s, S)
<1> DEFINE t == Append(s, e)
           n == Len(s)
<1>0. t \in Seq(L) /\ n \in Nat /\ Len(t) = n + 1 /\ t[n + 1] = e /\ \A i \in 1 .. n : s[i] = t[i]
  OBVIOUS
<1> HIDE DEF t
<1>1. PICK A : Run(A, s, S) /\ Kept(s, S) = A[n]
  BY KeptRun
<1>2. PICK B : Run(B, t, S) /\ Kept(t, S) = B[n + 1]
  BY <1>0, KeptRun
<1>3. A[n] = B[n]
  <2>1. n <= Len(s) /\ n <= Len(t) /\ Len(s) \in Nat /\ Len(t) \in Nat
    BY <1>0
  <2> QED BY <1>0, <1>1, <1>2, <2>1, RunsAgree
<1>4. B[n + 1] = IF e \in S THEN Append(B[n], e) ELSE B[n]
  <2>1. n + 1 \in 1 .. Len(t) /\ (n + 1) - 1 = n
    BY <1>0
  <2> QED BY <1>0, <1>2, <2>1 DEF Run
<1> QED BY <1>1, <1>2, <1>3, <1>4 DEF t

\* What is kept is a sequence of what was to be kept.
LEMMA KeptType ==
  ASSUME NEW L, NEW S, NEW s \in Seq(L)
  PROVE  Kept(s, S) \in Seq(L \cap S)
<1> DEFINE T == {t \in Seq(L) : Kept(t, S) \in Seq(L \cap S)}
<1>1. <<>> \in T
  <2>1. <<>> \in Seq(L) /\ <<>> \in Seq(L \cap S)
    OBVIOUS
  <2> QED BY <2>1, KeptEmpty
<1>2. ASSUME NEW t \in Seq(L), NEW e \in L, t \in T PROVE Append(t, e) \in T
  <2>1. Kept(Append(t, e), S) = IF e \in S THEN Append(Kept(t, S), e) ELSE Kept(t, S)
    BY KeptAppend
  <2>2. Kept(t, S) \in Seq(L \cap S)
    BY <1>2
  <2>3. Kept(Append(t, e), S) \in Seq(L \cap S)
    BY <2>1, <2>2
  <2> QED BY <2>3
<1>3. Seq(L) \subseteq T
  <2> HIDE DEF T
  <2> QED BY <1>1, <1>2, SeqInd
<1> QED BY <1>3

\* What is kept is a sequence of what there was.
LEMMA KeptIn ==
  ASSUME NEW L, NEW S, NEW s \in Seq(L)
  PROVE  Kept(s, S) \in Seq(L)
<1> DEFINE k == Kept(s, S)
           M == L \cap S
<1>1. k \in Seq(M) /\ M \subseteq L
  BY KeptType
<1> HIDE DEF k, M
<1>2. k \in Seq(L)
  BY <1>1
<1> QED BY <1>2 DEF k

\* What is kept of two sequences is kept of each.
LEMMA KeptConcat ==
  ASSUME NEW L, NEW S, NEW s \in Seq(L), NEW u \in Seq(L)
  PROVE  Kept(s \o u, S) = Kept(s, S) \o Kept(u, S)
<1> DEFINE T == {t \in Seq(L) : Kept(s \o t, S) = Kept(s, S) \o Kept(t, S)}
<1>0. Kept(s, S) \in Seq(L \cap S)
  BY KeptType
<1>1. <<>> \in T
  <2>1. Kept(<<>>, S) = <<>>
    BY KeptEmpty
  <2>2. s \o <<>> = s /\ Kept(s, S) \o <<>> = Kept(s, S) /\ <<>> \in Seq(L)
    BY <1>0, ConcatEmptySeq
  <2>3. Kept(s \o <<>>, S) = Kept(s, S) \o Kept(<<>>, S)
    BY <2>1, <2>2
  <2> QED BY <2>2, <2>3
<1>2. ASSUME NEW t \in Seq(L), NEW e \in L, t \in T PROVE Append(t, e) \in T
  <2>1. s \o Append(t, e) = Append(s \o t, e) /\ s \o t \in Seq(L)
    OBVIOUS
  <2>2. /\ Kept(Append(t, e), S) = IF e \in S THEN Append(Kept(t, S), e) ELSE Kept(t, S)
        /\ Kept(Append(s \o t, e), S) = IF e \in S THEN Append(Kept(s \o t, S), e) ELSE Kept(s \o t, S)
    BY <2>1, KeptAppend
  <2>3. Kept(t, S) \in Seq(L \cap S)
    BY KeptType
  <2>4. e \in S => Kept(s, S) \o Append(Kept(t, S), e) = Append(Kept(s, S) \o Kept(t, S), e)
    BY <1>0, <2>3
  <2>5. Kept(s \o Append(t, e), S) = Kept(s, S) \o Kept(Append(t, e), S)
    BY <1>2, <2>1, <2>2, <2>4
  <2> QED BY <2>5
<1>3. Seq(L) \subseteq T
  <2> HIDE DEF T
  <2> QED BY <1>1, <1>2, SeqInd
<1> QED BY <1>3

\* What is kept is what there is of it.
LEMMA KeptSet ==
  ASSUME NEW L, NEW S, NEW s \in Seq(L)
  PROVE  ToSet(Kept(s, S)) = ToSet(s) \cap S
<1> DEFINE T == {t \in Seq(L) : ToSet(Kept(t, S)) = ToSet(t) \cap S}
<1>1. <<>> \in T
  BY KeptEmpty, ToSetEmpty
<1>2. ASSUME NEW t \in Seq(L), NEW e \in L, t \in T PROVE Append(t, e) \in T
  <2>1. Kept(Append(t, e), S) = IF e \in S THEN Append(Kept(t, S), e) ELSE Kept(t, S)
    BY KeptAppend
  <2>2. Kept(t, S) \in Seq(L \cap S)
    BY KeptType
  <2>3. e \in S => ToSet(Append(Kept(t, S), e)) = ToSet(Kept(t, S)) \cup {e}
    BY <2>2, ToSetAppend
  <2>4. ToSet(Append(t, e)) = ToSet(t) \cup {e}
    BY ToSetAppend
  <2>5. ToSet(Kept(Append(t, e), S)) = ToSet(Append(t, e)) \cap S
    BY <1>2, <2>1, <2>3, <2>4
  <2> QED BY <2>5
<1>3. Seq(L) \subseteq T
  <2> HIDE DEF T
  <2> QED BY <1>1, <1>2, SeqInd
<1> QED BY <1>3

\* Of what was kept, all of it or less is kept.
LEMMA KeptTwice ==
  ASSUME NEW L, NEW S, NEW U, NEW s \in Seq(L)
  PROVE  Kept(Kept(s, S), U) = Kept(s, S \cap U)
<1> DEFINE T == {t \in Seq(L) : Kept(Kept(t, S), U) = Kept(t, S \cap U)}
<1>1. <<>> \in T
  BY KeptEmpty
<1>2. ASSUME NEW t \in Seq(L), NEW e \in L, t \in T PROVE Append(t, e) \in T
  <2>1. /\ Kept(Append(t, e), S) = IF e \in S THEN Append(Kept(t, S), e) ELSE Kept(t, S)
        /\ Kept(Append(t, e), S \cap U)
           = IF e \in S \cap U THEN Append(Kept(t, S \cap U), e) ELSE Kept(t, S \cap U)
    BY KeptAppend
  <2>2. Kept(t, S) \in Seq(L)
    BY KeptIn
  <2>3. Kept(Append(Kept(t, S), e), U)
        = IF e \in U THEN Append(Kept(Kept(t, S), U), e) ELSE Kept(Kept(t, S), U)
    BY <2>2, KeptAppend
  <2>4. Kept(Kept(Append(t, e), S), U) = Kept(Append(t, e), S \cap U)
    <3>1. CASE e \in S
      <4>1. Kept(Kept(Append(t, e), S), U) = Kept(Append(Kept(t, S), e), U)
        BY <2>1, <3>1
      <4> QED BY <1>2, <2>1, <2>3, <3>1, <4>1
    <3>2. CASE e \notin S
      <4>1. Kept(Kept(Append(t, e), S), U) = Kept(Kept(t, S), U)
        BY <2>1, <3>2
      <4> QED BY <1>2, <2>1, <3>2, <4>1
    <3> QED BY <3>1, <3>2
  <2> QED BY <2>4
<1>3. Seq(L) \subseteq T
  <2> HIDE DEF T
  <2> QED BY <1>1, <1>2, SeqInd
<1> QED BY <1>3

\* Nothing is kept of a sequence that has nothing to keep, and all of one that has
\* nothing else.
LEMMA KeptNone ==
  ASSUME NEW L, NEW S, NEW s \in Seq(L), ToSet(s) \cap S = {}
  PROVE  Kept(s, S) = <<>>
<1>1. Kept(s, S) \in Seq(L \cap S) /\ ToSet(Kept(s, S)) = {}
  BY KeptType, KeptSet
<1> DEFINE k == Kept(s, S)
<1> HIDE DEF k
<1>2. k \in Seq(L \cap S) => (ToSet(k) = {} => k = <<>>)
  <2> SUFFICES ASSUME k \in Seq(L \cap S), k # <<>> PROVE ToSet(k) # {}
    OBVIOUS
  <2>1. 1 \in DOMAIN k
    OBVIOUS
  <2> QED BY <2>1 DEF ToSet
<1> QED BY <1>1, <1>2 DEF k

\* A filter that passes everything changes nothing.
LEMMA KeptAll ==
  ASSUME NEW L, NEW S, NEW s \in Seq(L), ToSet(s) \subseteq S
  PROVE  Kept(s, S) = s
<1> DEFINE T == {t \in Seq(L) : ToSet(t) \subseteq S => Kept(t, S) = t}
<1>1. <<>> \in T
  BY KeptEmpty
<1>2. ASSUME NEW t \in Seq(L), NEW e \in L, t \in T PROVE Append(t, e) \in T
  <2>1. Kept(Append(t, e), S) = IF e \in S THEN Append(Kept(t, S), e) ELSE Kept(t, S)
    BY KeptAppend
  <2>2. ToSet(Append(t, e)) = ToSet(t) \cup {e}
    BY ToSetAppend
  <2>3. ToSet(Append(t, e)) \subseteq S => Kept(Append(t, e), S) = Append(t, e)
    BY <1>2, <2>1, <2>2
  <2> QED BY <2>3
<1>3. Seq(L) \subseteq T
  <2> HIDE DEF T
  <2> QED BY <1>1, <1>2, SeqInd
<1> QED BY <1>3

(***************************************************************************)
(* Sequences of different lines.                                           *)
(***************************************************************************)
LEMMA DifferentConcat ==
  ASSUME NEW S, NEW s \in Seq(S), NEW t \in Seq(S)
  PROVE  IsInjective(s \o t) <=> IsInjective(s) /\ IsInjective(t) /\ ToSet(s) \cap ToSet(t) = {}
<1> DEFINE u == s \o t
<1>1. /\ DOMAIN u = 1 .. Len(s) + Len(t) /\ DOMAIN s = 1 .. Len(s) /\ DOMAIN t = 1 .. Len(t)
      /\ Len(s) \in Nat /\ Len(t) \in Nat
      /\ \A i \in 1 .. Len(s) : u[i] = s[i]
      /\ \A i \in 1 .. Len(t) : u[Len(s) + i] = t[i]
  OBVIOUS
<1> HIDE DEF u
<1>2. ASSUME IsInjective(u) PROVE IsInjective(s) /\ IsInjective(t) /\ ToSet(s) \cap ToSet(t) = {}
  <2>1. ASSUME NEW i \in 1 .. Len(s), NEW j \in 1 .. Len(s), s[i] = s[j] PROVE i = j
    <3>1. i \in DOMAIN u /\ j \in DOMAIN u /\ u[i] = u[j]
      BY <1>1, <2>1
    <3> QED BY <1>2, <3>1 DEF IsInjective
  <2>2. ASSUME NEW i \in 1 .. Len(t), NEW j \in 1 .. Len(t), t[i] = t[j] PROVE i = j
    <3>1. Len(s) + i \in DOMAIN u /\ Len(s) + j \in DOMAIN u /\ u[Len(s) + i] = u[Len(s) + j]
      BY <1>1, <2>2
    <3>2. Len(s) + i = Len(s) + j
      BY <1>2, <3>1 DEF IsInjective
    <3> QED BY <1>1, <3>2
  <2>3. ASSUME NEW i \in 1 .. Len(s), NEW j \in 1 .. Len(t), s[i] = t[j] PROVE FALSE
    <3>1. i \in DOMAIN u /\ Len(s) + j \in DOMAIN u /\ u[i] = u[Len(s) + j] /\ i # Len(s) + j
      BY <1>1, <2>3
    <3> QED BY <1>2, <3>1 DEF IsInjective
  <2> QED BY <1>1, <2>1, <2>2, <2>3 DEF IsInjective, ToSet
<1>3. ASSUME IsInjective(s), IsInjective(t), ToSet(s) \cap ToSet(t) = {} PROVE IsInjective(u)
  <2> SUFFICES ASSUME NEW i \in DOMAIN u, NEW j \in DOMAIN u, u[i] = u[j] PROVE i = j
    BY DEF IsInjective
  <2>1. ASSUME NEW a \in 1 .. Len(s), NEW b \in 1 .. Len(t) PROVE s[a] # t[b]
    BY <1>1, <1>3 DEF ToSet
  <2>2. CASE i <= Len(s) /\ j <= Len(s)
    <3>1. i \in DOMAIN s /\ j \in DOMAIN s /\ s[i] = s[j]
      BY <1>1, <2>2
    <3> QED BY <1>3, <3>1 DEF IsInjective
  <2>3. CASE i > Len(s) /\ j > Len(s)
    <3> DEFINE a == i - Len(s)
               b == j - Len(s)
    <3>1. a \in DOMAIN t /\ b \in DOMAIN t /\ Len(s) + a = i /\ Len(s) + b = j
      BY <1>1, <2>3
    <3>2. t[a] = t[b]
      BY <1>1, <3>1
    <3>3. a = b
      BY <1>3, <3>1, <3>2 DEF IsInjective
    <3> QED BY <3>1, <3>3
  <2>4. CASE i <= Len(s) /\ j > Len(s)
    <3> DEFINE b == j - Len(s)
    <3>1. b \in 1 .. Len(t) /\ Len(s) + b = j /\ i \in 1 .. Len(s)
      BY <1>1, <2>4
    <3> QED BY <1>1, <2>1, <3>1
  <2>5. CASE i > Len(s) /\ j <= Len(s)
    <3> DEFINE a == i - Len(s)
    <3>1. a \in 1 .. Len(t) /\ Len(s) + a = i /\ j \in 1 .. Len(s)
      BY <1>1, <2>5
    <3> QED BY <1>1, <2>1, <3>1
  <2> QED BY <1>1, <2>2, <2>3, <2>4, <2>5
<1> QED BY <1>2, <1>3 DEF u

\* A new line at the end is different from the others.
LEMMA DifferentAppend ==
  ASSUME NEW S, NEW s \in Seq(S), NEW e \in S
  PROVE  IsInjective(Append(s, e)) <=> IsInjective(s) /\ e \notin ToSet(s)
<1> DEFINE t == <<e>>
<1>1. t \in Seq(S) /\ Append(s, e) = s \o t /\ IsInjective(t) /\ ToSet(t) = {e}
  BY DEF IsInjective, ToSet
<1> HIDE DEF t
<1> QED BY <1>1, DifferentConcat

\* Lines that are different are so among what is kept.
LEMMA KeptDifferent ==
  ASSUME NEW L, NEW S, NEW s \in Seq(L), IsInjective(s)
  PROVE  IsInjective(Kept(s, S))
<1> DEFINE T == {t \in Seq(L) : IsInjective(t) => IsInjective(Kept(t, S))}
<1>1. <<>> \in T
  BY KeptEmpty
<1>2. ASSUME NEW t \in Seq(L), NEW e \in L, t \in T PROVE Append(t, e) \in T
  <2>1. Kept(Append(t, e), S) = IF e \in S THEN Append(Kept(t, S), e) ELSE Kept(t, S)
    BY KeptAppend
  <2>2. Kept(t, S) \in Seq(L) /\ ToSet(Kept(t, S)) = ToSet(t) \cap S
    BY KeptIn, KeptSet
  <2>3. IsInjective(Append(Kept(t, S), e)) <=> IsInjective(Kept(t, S)) /\ e \notin ToSet(Kept(t, S))
    BY <2>2, DifferentAppend
  <2>4. IsInjective(Append(t, e)) <=> IsInjective(t) /\ e \notin ToSet(t)
    BY DifferentAppend
  <2>5. IsInjective(Append(t, e)) => IsInjective(Kept(Append(t, e), S))
    BY <1>2, <2>1, <2>2, <2>3, <2>4
  <2> QED BY <2>5
<1>3. Seq(L) \subseteq T
  <2> HIDE DEF T
  <2> QED BY <1>1, <1>2, SeqInd
<1> QED BY <1>3

(***************************************************************************)
(* Types.                                                                  *)
(***************************************************************************)
\* The part of TypeOK that is about the buffer, the file, the requests and the messages.
QTypes ==
  /\ pc \in Places /\ loaded \in BOOLEAN /\ cut \in BOOLEAN
  /\ ret \in Seq(Lines) /\ raw \in Seq(Lines) /\ vol \in Seq(Volatile)
  /\ acks \subseteq Messages /\ news \subseteq Messages /\ mail \subseteq Messages
  /\ saved \in BOOLEAN /\ file \in [lines : Seq(Lines), cut : BOOLEAN] /\ restored \subseteq Lines
  /\ cur \in Copies /\ strays \in Seq(Copies) /\ unread \in Seq(Lines)

\* No lines, no copy and no file are of their types.
LEMMA Empties ==
  /\ <<>> \in Seq(Lines) /\ <<>> \in Seq(Volatile) /\ <<>> \in Seq(Copies)
  /\ NoCopy \in Copies /\ NoFile \in [lines : Seq(Lines), cut : BOOLEAN]
<1>1. <<>> \in Seq(Lines) /\ <<>> \in Seq(Volatile) /\ <<>> \in Seq(Copies)
  OBVIOUS
<1> QED BY <1>1 DEF NoCopy, NoFile, Copies

\* A sequence without one of its members is a sequence.
LEMMA RemoveAtType ==
  ASSUME NEW S, NEW s \in Seq(S), NEW i \in 1 .. Len(s)
  PROVE  RemoveAt(s, i) \in Seq(S) /\ ToSet(RemoveAt(s, i)) \subseteq ToSet(s)
<1> DEFINE a == SubSeq(s, 1, i - 1)
           b == SubSeq(s, i + 1, Len(s))
<1>1. a \in Seq(S) /\ ToSet(a) \subseteq ToSet(s)
  <2>1. a \in Seq(S) /\ Len(a) = i - 1 /\ \A j \in 1 .. Len(a) : a[j] = s[j]
    BY SubSeqProperties
  <2> QED BY <2>1 DEF ToSet
<1>2. b \in Seq(S) /\ ToSet(b) \subseteq ToSet(s)
  <2>1. b \in Seq(S) /\ Len(b) = Len(s) - i /\ \A j \in 1 .. Len(b) : b[j] = s[j + i]
    BY SubSeqProperties
  <2> QED BY <2>1 DEF ToSet
<1>3. RemoveAt(s, i) = a \o b
  BY DEF RemoveAt
<1> HIDE DEF a, b
<1> QED BY <1>1, <1>2, <1>3, ToSetConcat

\* What is given up is a copy.
LEMMA AbandonType ==
  ASSUME cur \in Copies, strays \in Seq(Copies), Abandon
  PROVE  strays' \in Seq(Copies)
BY DEF Abandon

\* What is saved is a file.
LEMMA SaveType ==
  ASSUME NEW ls \in Seq(Lines), NEW c \in BOOLEAN, Save(ls, c)
  PROVE  file' \in [lines : Seq(Lines), cut : BOOLEAN]
BY DEF Save

\* So is what is kept up to date.
LEMMA UpdateType ==
  ASSUME file \in [lines : Seq(Lines), cut : BOOLEAN], NEW ls \in Seq(Lines), UpdateSaveState(ls)
  PROVE  file' \in [lines : Seq(Lines), cut : BOOLEAN]
BY SaveType DEF UpdateSaveState

\* The kiosk's own steps keep the types.
LEMMA DaemonTypes == QTypes /\ (Daemon \/ Read) => QTypes'
<1> SUFFICES ASSUME QTypes, Daemon \/ Read PROVE QTypes'
  OBVIOUS
<1> USE Empties DEF QTypes, Places, buffer, disk, wire, kiosk, server
<1>1. CASE Load
  BY <1>1, ToSetIn DEF Load
<1>2. CASE TryAgain
  BY <1>2 DEF TryAgain
<1>3. CASE BeginSort
  BY <1>3 DEF BeginSort, Unsorted
<1>4. CASE SortLine
  <2>1. Head(raw) \in Lines /\ Tail(raw) \in Seq(Lines)
    BY <1>4 DEF SortLine
  <2> QED BY <1>4, <2>1 DEF SortLine
<1>5. CASE EndSort
  BY <1>5, UpdateType DEF EndSort
<1>6. CASE Start
  BY <1>6 DEF Start
<1>7. CASE Read
  <2>1. PICK n \in 1 .. Len(unread) :
           raw' = SubSeq(unread, 1, n) /\ unread' = SubSeq(unread, n + 1, Len(unread))
    BY <1>7 DEF Read
  <2>2. raw' \in Seq(Lines) /\ unread' \in Seq(Lines)
    BY <2>1, SubSeqProperties
  <2> QED BY <1>7, <2>2 DEF Read
<1> QED BY <1>1, <1>2, <1>3, <1>4, <1>5, <1>6, <1>7 DEF Daemon

\* The steps of a request keep the types.
LEMMA ExchangeTypes == QTypes /\ Exchange => QTypes'
<1> SUFFICES ASSUME QTypes, Exchange PROVE QTypes'
  OBVIOUS
<1> USE Empties DEF QTypes, Places, buffer, disk, wire, kiosk, server
<1>1. CASE Offline
  BY <1>1 DEF Offline, Failed
<1>2. CASE Send
  <2>1. cur' \in Copies
    BY <1>2 DEF Send, NoCopy, Copies
  <2> QED BY <1>2, <2>1 DEF Send
<1>3. CASE Retry
  <2>1. cur' \in Copies /\ strays' \in Seq(Copies)
    BY <1>3, AbandonType DEF Retry, Copies
  <2> QED BY <1>3, <2>1 DEF Retry
<1>4. CASE GiveUp
  BY <1>4, AbandonType DEF GiveUp, Failed
<1>5. CASE Accepted
  <2>1. acks' \subseteq Messages
    BY <1>5 DEF Accepted, ApplyMessages, Messages
  <2> QED BY <1>5, <2>1, UpdateType DEF Accepted
<1>6. CASE Resynced
  BY <1>6, UpdateType DEF Resynced
<1> QED BY <1>1, <1>2, <1>3, <1>4, <1>5, <1>6 DEF Exchange

\* The steps of the server, of the patch program and of the power keep the types.
LEMMA OtherTypes == QTypes /\ (Server \/ TakePatches \/ Faults) => QTypes'
<1> SUFFICES ASSUME QTypes, Server \/ TakePatches \/ Faults PROVE QTypes'
  OBVIOUS
<1> USE Empties DEF QTypes, Places, buffer, disk, wire, kiosk, server, unserved
<1>1. CASE AnswerResync
  BY <1>1 DEF AnswerResync
<1>2. CASE AnswerOk
  BY <1>2 DEF AnswerOk, Enter
<1>3. CASE AnswerError
  BY <1>3 DEF AnswerError, RollBack
<1>4. CASE ServeStray
  BY <1>4, RemoveAtType DEF ServeStray, Enter, RollBack
<1>5. CASE Post
  BY <1>5 DEF Post, NewMessage
<1>6. CASE TakePatches
  BY <1>6 DEF TakePatches
<1>7. CASE PowerAlarm
  <2>1. Counted \in Seq(Lines)
    BY DEF Counted
  <2>2. file' \in [lines : Seq(Lines), cut : BOOLEAN]
    BY <1>7, <2>1, SaveType DEF PowerAlarm
  <2> QED BY <1>7, <2>2 DEF PowerAlarm
<1>8. CASE PowerOK
  BY <1>8 DEF PowerOK
<1>9. CASE Term \/ Kill
  <2>1. strays' \in Seq(Copies)
    BY <1>9, AbandonType DEF Term, Kill, Dies
  <2>2. file' \in [lines : Seq(Lines), cut : BOOLEAN]
    <3>1. Counted \in Seq(Lines)
      BY DEF Counted
    <3> QED BY <1>9, <3>1, SaveType DEF Term, Kill
  <2> QED BY <1>9, <2>1, <2>2 DEF Term, Kill, Dies
<1> QED BY <1>1, <1>2, <1>3, <1>4, <1>5, <1>6, <1>7, <1>8, <1>9 DEF Server, Faults

\* Nothing is of its type by accident: every step that changes nothing keeps it.
LEMMA StutterTypes == QTypes /\ UNCHANGED vars => QTypes'
  BY DEF QTypes, vars, buffer, disk, wire, kiosk, server

\* The kiosk and its server start with the types.
LEMMA InitTypes == Init => QTypes
  BY Empties, Bounds DEF Init, InitServer, QTypes, Places

\* Every step keeps the types.
LEMMA NextTypes == QTypes /\ [Next]_vars => QTypes'
  BY DaemonTypes, ExchangeTypes, OtherTypes, StutterTypes DEF Next

(***************************************************************************)
(* What is acknowledged was applied.                                       *)
(***************************************************************************)
\* An acknowledgment in the buffer, in the request under way or in one that was
\* given up, is of a message that was applied; so is each message deleted.
AckInv ==
  /\ acks \subseteq applied
  /\ cur.acks \subseteq applied
  /\ \A i \in 1 .. Len(strays) : strays[i].acks \subseteq applied
  /\ AckedIsApplied

\* Entering a request deletes what the request acknowledges, and no more.
LEMMA EnterDeletes ==
  ASSUME NEW c, Enter(c), mailed \ mail \subseteq applied, c.acks \subseteq applied
  PROVE  mailed' \ mail' \subseteq applied
BY DEF Enter, Deleted

\* Giving a request up keeps its acknowledgments known.
LEMMA AbandonAcks ==
  ASSUME QTypes, AckInv, Abandon
  PROVE  \A i \in 1 .. Len(strays') : strays'[i].acks \subseteq applied
<1>1. CASE strays' = strays
  BY <1>1 DEF AckInv
<1>2. CASE strays' = Append(strays, cur)
  BY <1>2 DEF AckInv, QTypes
<1> QED BY <1>1, <1>2 DEF Abandon

\* Nothing but an answer adds an acknowledgment, and it applies what it adds.
LEMMA NextAcks == QTypes /\ AckInv /\ [Next]_vars => AckInv'
<1> SUFFICES ASSUME QTypes, AckInv, [Next]_vars PROVE AckInv'
  OBVIOUS
<1>0. NoCopy.acks = {}
  BY DEF NoCopy
<1> USE DEF buffer, disk, wire, kiosk, server, unserved
<1>1. CASE UNCHANGED vars \/ Daemon \/ Read \/ TakePatches \/ PowerAlarm \/ PowerOK
  <2>1. UNCHANGED <<acks, cur, strays, applied, mail, mailed>>
    BY <1>1 DEF vars, Daemon, Load, TryAgain, BeginSort, SortLine, EndSort, Start, Read,
       TakePatches, PowerAlarm, PowerOK
  <2> QED BY <2>1 DEF AckInv, AckedIsApplied
<1>2. CASE Offline \/ Send \/ Retry \/ GiveUp
  <2>1. acks' \subseteq acks /\ UNCHANGED <<applied, mail, mailed>>
    BY <1>2 DEF Offline, Send, Retry, GiveUp, Failed
  <2>2. cur'.acks \subseteq acks \cup cur.acks
    <3>1. CASE Send
      BY <3>1 DEF Send, NoCopy
    <3>2. CASE Retry
      BY <3>2 DEF Retry, QTypes, Copies
    <3> QED BY <1>0, <1>2, <3>1, <3>2 DEF Offline, GiveUp, Failed
  <2>3. strays' = strays \/ Abandon
    BY <1>2 DEF Offline, Send, Retry, GiveUp
  <2> QED BY <2>1, <2>2, <2>3, AbandonAcks DEF AckInv, AckedIsApplied
<1>3. CASE Accepted \/ Resynced
  BY <1>0, <1>3 DEF Accepted, Resynced, ApplyMessages, AckInv, AckedIsApplied
<1>4. CASE AnswerResync \/ AnswerOk \/ AnswerError \/ Post
  <2>1. UNCHANGED <<acks, cur, strays, applied>>
    BY <1>4 DEF AnswerResync, AnswerOk, AnswerError, Post
  <2>2. mailed' \ mail' \subseteq applied
    BY <1>4, EnterDeletes
       DEF AnswerResync, AnswerOk, AnswerError, RollBack, Post, NewMessage, AckInv, AckedIsApplied
  <2> QED BY <2>1, <2>2 DEF AckInv, AckedIsApplied
<1>5. CASE ServeStray
  <2>1. PICK i \in 1 .. Len(strays) :
           strays' = RemoveAt(strays, i) /\ (Enter(strays[i]) \/ RollBack(strays[i]))
    BY <1>5 DEF ServeStray
  <2>2. strays' \in Seq(Copies) /\ ToSet(strays') \subseteq ToSet(strays)
    BY <2>1, RemoveAtType DEF QTypes
  <2>3. \A j \in 1 .. Len(strays') : strays'[j].acks \subseteq applied
    <3> SUFFICES ASSUME NEW j \in 1 .. Len(strays') PROVE strays'[j].acks \subseteq applied
      OBVIOUS
    <3>1. strays'[j] \in ToSet(strays')
      <4>1. j \in DOMAIN strays'
        BY <2>2
      <4> QED BY <4>1 DEF ToSet
    <3>2. PICK k \in DOMAIN strays : strays'[j] = strays[k]
      BY <2>2, <3>1, Zenon DEF ToSet
    <3>3. k \in 1 .. Len(strays)
      BY DEF QTypes
    <3> QED BY <3>2, <3>3 DEF AckInv
  <2>4. mailed' \ mail' \subseteq applied
    BY <2>1, EnterDeletes DEF AckInv, AckedIsApplied, RollBack
  <2>5. UNCHANGED <<acks, cur, applied>>
    BY <1>5 DEF ServeStray
  <2> QED BY <2>3, <2>4, <2>5 DEF AckInv, AckedIsApplied
<1>6. CASE Term \/ Kill
  <2>1. acks' = {} /\ cur'.acks = {} /\ UNCHANGED <<applied, mail, mailed>>
    BY <1>0, <1>6 DEF Term, Kill, Dies
  <2>2. strays' = strays \/ Abandon
    BY <1>6 DEF Term, Kill, Dies
  <2> QED BY <2>1, <2>2, AbandonAcks DEF AckInv, AckedIsApplied
<1> QED BY <1>1, <1>2, <1>3, <1>4, <1>5, <1>6 DEF Next, Exchange, Server, Faults

\* A message that the server has deleted was applied by the kiosk (do_msg appends the
\* acknowledgment after doPatch, do_request deletes what the request acknowledges).
THEOREM AckSafe == SafeSpec => []AckedIsApplied
<1>1. Init => QTypes /\ AckInv
  BY InitTypes DEF Init, InitServer, AckInv, AckedIsApplied, NoCopy
<1>2. QTypes /\ AckInv /\ [Next]_vars => (QTypes /\ AckInv)'
  BY NextTypes, NextAcks
<1>3. AckInv => AckedIsApplied
  BY DEF AckInv
<1> QED BY <1>1, <1>2, <1>3, PTL DEF SafeSpec

(***************************************************************************)
(* What is on disk.                                                        *)
(***************************************************************************)
\* SavedIsKept, and what a daemon that is down or about to load knows of the file.
DiskInv == SavedIsKept /\ (pc \in {"down", "load"} => ~loaded)

\* The buffer changes with the file, or is marked as not to be compared with it.
LEMMA NextDisk == QTypes /\ DiskInv /\ [Next]_vars => DiskInv'
<1> SUFFICES ASSUME QTypes, DiskInv, [Next]_vars PROVE DiskInv'
  OBVIOUS
<1> USE DEF DiskInv, SavedIsKept, buffer, disk, wire, kiosk, server, unserved
<1>1. CASE UNCHANGED vars \/ Server \/ TakePatches \/ TryAgain \/ Offline \/ Send \/ Retry \/ GiveUp
  BY <1>1 DEF vars, Server, AnswerResync, AnswerOk, AnswerError, ServeStray, Post, TakePatches,
     TryAgain, Offline, Send, Retry, GiveUp, Failed
<1>2. CASE Accepted
  BY <1>2, ToSetEmpty DEF Accepted
<1>3. CASE Resynced
  BY <1>3 DEF Resynced, UpdateSaveState, Save
<1>4. CASE Load
  BY <1>4 DEF Load
<1>5. CASE BeginSort \/ SortLine \/ Start \/ Read
  BY <1>5 DEF BeginSort, SortLine, Start, Read
<1>6. CASE EndSort
  BY <1>6 DEF EndSort, UpdateSaveState, Save
<1>7. CASE PowerAlarm
  <2>1. ToSet(ret) \subseteq ToSet(Counted)
    BY ToSetConcat DEF Counted, QTypes
  <2> QED BY <1>7, <2>1 DEF PowerAlarm, Save
<1>8. CASE PowerOK
  BY <1>8 DEF PowerOK
<1>9. CASE Term \/ Kill
  BY <1>9 DEF Term, Kill, Dies
<1> QED BY <1>1, <1>2, <1>3, <1>4, <1>5, <1>6, <1>7, <1>8, <1>9 DEF Next, Daemon, Exchange, Faults

\* What the kiosk holds while the power fails is on disk, or was just read from there
\* (saveState on the alarm, updateSaveState after each change of the buffer).
THEOREM SavedSafe == SafeSpec => []SavedIsKept
<1>1. Init => QTypes /\ DiskInv
  BY InitTypes DEF Init, DiskInv, SavedIsKept
<1>2. QTypes /\ DiskInv /\ [Next]_vars => (QTypes /\ DiskInv)'
  BY NextTypes, NextDisk
<1>3. DiskInv => SavedIsKept
  BY DEF DiskInv
<1> QED BY <1>1, <1>2, <1>3, PTL DEF SafeSpec

(***************************************************************************)
(* What is retained is kept.                                               *)
(***************************************************************************)
\* A request that was accepted is with the server.
Answered ==
  reply = "ok" =>
    /\ pc = "sent" /\ ToSet(cur.ret) \subseteq entered
    /\ ~(Batch(cur) = {} /\ cur.acks = {})

\* The request under way is the buffer, or empty; no line is unsorted but while lines
\* are sorted, or when the last of them is not complete.
CopyInv ==
  /\ pc = "sent" => cur.ret = ret \/ (cur.ret = <<>> /\ cur.vol = <<>> /\ cur.acks = {})
  /\ Answered
  /\ raw # <<>> => pc \in {"read", "sort"} \/ (pc = "wait" /\ cut)
  /\ pc \in {"down", "load"} => ~loaded

\* What is entered stays entered.
LEMMA EnteredGrows == [Next]_vars => entered \subseteq entered'
<1> USE DEF server, unserved
<1>1. CASE Server
  BY <1>1 DEF Server, AnswerResync, AnswerOk, AnswerError, ServeStray, Post, Enter, RollBack, NewMessage
<1>2. CASE UNCHANGED vars \/ Daemon \/ Read \/ Exchange \/ TakePatches \/ Faults
  BY <1>2 DEF vars, Daemon, Load, TryAgain, BeginSort, SortLine, EndSort, Start, Read,
     Exchange, Offline, Send, Retry, GiveUp, Failed, Accepted, Resynced, TakePatches,
     Faults, PowerAlarm, PowerOK, Term, Kill, Dies
<1> QED BY <1>1, <1>2 DEF Next

\* The request follows the buffer until it is answered.
LEMMA NextCopy == QTypes /\ CopyInv /\ [Next]_vars => CopyInv'
<1> SUFFICES ASSUME QTypes, CopyInv, [Next]_vars PROVE CopyInv'
  OBVIOUS
<1> USE EnteredGrows DEF CopyInv, Answered, buffer, disk, wire, kiosk, server, unserved
<1>1. CASE UNCHANGED vars \/ TakePatches \/ PowerAlarm \/ PowerOK \/ Post \/ ServeStray
  BY <1>1 DEF vars, TakePatches, PowerAlarm, PowerOK, Post, ServeStray, Batch
<1>2. CASE Load \/ TryAgain \/ BeginSort \/ SortLine \/ EndSort \/ Start \/ Read
  BY <1>2 DEF Load, TryAgain, Outstanding, BeginSort, SortLine, EndSort, Start, Read
<1>3. CASE Send
  BY <1>3 DEF Send, NoCopy
<1>4. CASE Retry
  BY <1>4 DEF Retry, QTypes, Copies
<1>5. CASE Offline \/ GiveUp \/ Accepted \/ Resynced
  BY <1>5 DEF Offline, GiveUp, Failed, Accepted, Resynced
<1>6. CASE AnswerOk
  <2>1. ToSet(cur.ret) \subseteq Batch(cur)
    BY ToSetConcat DEF Batch, QTypes, Copies, Lines
  <2>2. UNCHANGED <<pc, cur, ret, raw, loaded, cut>>
    BY <1>6 DEF AnswerOk
  <2>3. reply' = "ok" /\ pc = "sent" /\ ~Resync(cur) /\ entered' = entered \cup Batch(cur)
    BY <1>6 DEF AnswerOk, Waiting, Enter
  <2> QED BY <2>1, <2>2, <2>3 DEF Resync, Batch
<1>7. CASE AnswerResync \/ AnswerError
  BY <1>7 DEF AnswerResync, AnswerError
<1>8. CASE Term \/ Kill
  BY <1>8 DEF Term, Kill, Dies
<1> QED BY <1>1, <1>2, <1>3, <1>4, <1>5, <1>6, <1>7, <1>8 DEF Next, Daemon, Exchange, Server, Faults

\* A step that is not a crash keeps what is retained, or the server has it.
LEMMA StepKeeps ==
  ASSUME QTypes, CopyInv, [Next]_vars, pc' # "down"
  PROVE  ToSet(Held) \cap Retained \subseteq ToSet(Held') \cup entered'
<1> USE DEF buffer, disk, wire, kiosk, server, unserved
<1>0. ret \in Seq(Lines) /\ raw \in Seq(Lines)
  BY DEF QTypes
<1>1. CASE UNCHANGED vars \/ TryAgain \/ Start \/ Offline \/ Send \/ Retry \/ GiveUp
           \/ Server \/ TakePatches
  <2>1. UNCHANGED <<loaded, ret, raw, file>>
    BY <1>1 DEF vars, TryAgain, Start, Offline, Send, Retry, GiveUp, Failed, TakePatches,
       Server, AnswerResync, AnswerOk, AnswerError, ServeStray, Post
  <2> QED BY <2>1 DEF Held
<1>2. CASE EndSort \/ Resynced \/ PowerAlarm \/ PowerOK
  <2>1. UNCHANGED <<loaded, ret, raw>> /\ (loaded \/ file' = file)
    BY <1>2 DEF EndSort, Resynced, PowerAlarm, PowerOK, UpdateSaveState
  <2> QED BY <2>1 DEF Held
<1>3. CASE Accepted
  <2>1. UNCHANGED <<loaded, raw>> /\ (loaded \/ file' = file)
    BY <1>3 DEF Accepted, UpdateSaveState
  <2>2. ToSet(ret) \subseteq entered
    <3>1. Batch(cur) = {} \/ cur.ret # <<>> \/ cur.vol # <<>>
      <4>1. <<>> \o <<>> = <<>>
        OBVIOUS
      <4> QED BY <4>1, ToSetEmpty DEF Batch
    <3> QED BY <1>3, <3>1 DEF Accepted, CopyInv, Answered
  <2>3. ToSet(ret \o raw) \subseteq entered \cup ToSet(raw)
    BY <1>0, <2>2, ToSetConcat
  <2>4. ret' \o raw' = raw
    BY <1>0, <1>3, <2>1 DEF Accepted
  <2> QED BY <2>1, <2>3, <2>4, EnteredGrows DEF Held
<1>4. CASE Load
  <2>1. ~loaded /\ loaded' /\ raw = <<>>
    BY <1>4 DEF Load, CopyInv
  <2>2. ret' \o raw' = file.lines
    BY <1>4, <2>1 DEF Load, QTypes
  <2> QED BY <2>1, <2>2 DEF Held
<1>5. CASE Read
  <2>1. raw = <<>> /\ UNCHANGED <<loaded, ret, file>>
    BY <1>5 DEF Read, CopyInv
  <2>2. raw' \in Seq(Lines)
    BY <1>5, DaemonTypes DEF QTypes
  <2>3. ToSet(ret \o raw) \subseteq ToSet(ret' \o raw')
    BY <1>0, <2>1, <2>2, ToSetConcat
  <2> QED BY <2>1, <2>3 DEF Held
<1>6. CASE BeginSort
  <2>1. ret' \o raw' = ret \o raw
    BY <1>0, <1>6 DEF BeginSort, Unsorted
  <2> QED BY <1>6, <2>1 DEF BeginSort, Held
<1>7. CASE SortLine
  <2> DEFINE l == Head(raw)
  <2>1. l \in Lines /\ Tail(raw) \in Seq(Lines)
    BY <1>0, <1>7 DEF SortLine
  <2>2. ToSet(ret \o raw) \subseteq ToSet(ret) \cup {l} \cup ToSet(Tail(raw))
    BY <1>0, <1>7, ToSetConcat, ToSetHeadTail DEF SortLine
  <2>3. ret' \in Seq(Lines) /\ ToSet(ret) \cup ({l} \cap Retained) \subseteq ToSet(ret')
    <3>1. CASE l \in Retained
      BY <1>0, <1>7, <2>1, <3>1, ToSetAppend DEF SortLine
    <3>2. CASE l \notin Retained
      BY <1>0, <1>7, <3>2 DEF SortLine
    <3> QED BY <3>1, <3>2
  <2>4. ToSet(ret' \o raw') = ToSet(ret') \cup ToSet(Tail(raw))
    <3>1. raw' = Tail(raw)
      BY <1>7 DEF SortLine
    <3> QED BY <2>1, <2>3, <3>1, ToSetConcat
  <2>5. UNCHANGED <<loaded, file>>
    BY <1>7 DEF SortLine
  <2> HIDE DEF l
  <2> QED BY <2>2, <2>3, <2>4, <2>5 DEF Held
<1>8. ~(Term \/ Kill)
  BY DEF Term, Kill, Dies
<1> QED BY <1>1, <1>2, <1>3, <1>4, <1>5, <1>6, <1>7, <1>8 DEF Next, Daemon, Exchange, Faults

\* No retry, resync, failure, sort, alarm, restart or load drops a notice or a new
\* member that the server has not entered (process_message, reshuffle_message).
THEOREM RetainedKept == SafeSpec => KeepsTillEntered
<1>1. Init => QTypes /\ CopyInv
  BY InitTypes DEF Init, CopyInv, Answered
<1>2. QTypes /\ CopyInv /\ [Next]_vars => (QTypes /\ CopyInv)'
  BY NextTypes, NextCopy
<1>3. QTypes /\ CopyInv /\ [Next]_vars
      => [pc' # "down" => (ToSet(Held) \cap Retained \subseteq ToSet(Held') \cup entered')]_vars
  BY StepKeeps
<1> QED BY <1>1, <1>2, <1>3, PTL DEF SafeSpec, KeepsTillEntered

(***************************************************************************)
(* Cutting and joining sequences.                                          *)
(***************************************************************************)
\* Cutting a sequence where two were joined gives the two.
LEMMA CutConcat ==
  ASSUME NEW S, NEW p \in Seq(S), NEW r \in Seq(S)
  PROVE  /\ Len(p) \in 0 .. Len(p \o r)
         /\ SubSeq(p \o r, 1, Len(p)) = p
         /\ SubSeq(p \o r, Len(p) + 1, Len(p \o r)) = r
OBVIOUS

\* What the parts of two joined sequences are.
LEMMA Parts ==
  ASSUME NEW S, NEW s \in Seq(S), NEW t \in Seq(S)
  PROVE  /\ s \o t \in Seq(S) /\ Len(s \o t) = Len(s) + Len(t)
         /\ Len(s) \in Nat /\ Len(t) \in Nat
         /\ \A i \in 1 .. Len(s) : (s \o t)[i] = s[i]
         /\ \A i \in 1 .. Len(t) : (s \o t)[Len(s) + i] = t[i]
OBVIOUS

\* A sequence with the parts of two is the two joined.
LEMMA Joined ==
  ASSUME NEW S, NEW s \in Seq(S), NEW t \in Seq(S), NEW u \in Seq(S), Len(u) = Len(s) + Len(t),
         \A i \in 1 .. Len(s) : u[i] = s[i], \A i \in 1 .. Len(t) : u[Len(s) + i] = t[i]
  PROVE  u = s \o t
<1> DEFINE v == s \o t
<1>1. /\ v \in Seq(S) /\ Len(v) = Len(s) + Len(t) /\ Len(s) \in Nat /\ Len(t) \in Nat
      /\ \A i \in 1 .. Len(s) : v[i] = s[i]
      /\ \A k \in 1 .. Len(t) : v[Len(s) + k] = t[k]
  BY Parts
<1> HIDE DEF v
<1>2. ASSUME NEW i \in 1 .. Len(u) PROVE u[i] = v[i]
  <2>1. CASE i <= Len(s)
    <3>1. i \in 1 .. Len(s)
      BY <1>1, <2>1
    <3> QED BY <1>1, <3>1
  <2>2. CASE i > Len(s)
    <3>1. i - Len(s) \in 1 .. Len(t) /\ Len(s) + (i - Len(s)) = i
      BY <1>1, <2>2
    <3>2. u[Len(s) + (i - Len(s))] = t[i - Len(s)] /\ v[Len(s) + (i - Len(s))] = t[i - Len(s)]
      BY <1>1, <3>1
    <3> QED BY <3>1, <3>2
  <2> QED BY <1>1, <2>1, <2>2
<1>3. u = v
  BY <1>1, <1>2, SeqEqual
<1> QED BY <1>3 DEF v

\* A sequence is what it is cut into.
LEMMA ConcatCut ==
  ASSUME NEW S, NEW s \in Seq(S), NEW n \in 0 .. Len(s)
  PROVE  /\ SubSeq(s, 1, n) \in Seq(S) /\ SubSeq(s, n + 1, Len(s)) \in Seq(S)
         /\ Len(SubSeq(s, 1, n)) = n
         /\ s = SubSeq(s, 1, n) \o SubSeq(s, n + 1, Len(s))
<1> DEFINE a == SubSeq(s, 1, n)
           b == SubSeq(s, n + 1, Len(s))
<1>1. /\ a \in Seq(S) /\ Len(a) = n /\ \A i \in 1 .. n : a[i] = s[i]
      /\ b \in Seq(S) /\ Len(b) = Len(s) - n /\ \A i \in 1 .. Len(b) : b[i] = s[n + i]
      /\ Len(s) \in Nat
  OBVIOUS
<1> HIDE DEF a, b
<1>2. Len(s) = Len(a) + Len(b)
  BY <1>1
<1>3. (\A i \in 1 .. Len(a) : s[i] = a[i]) /\ (\A i \in 1 .. Len(b) : s[Len(a) + i] = b[i])
  BY <1>1
<1>4. s = a \o b
  BY <1>1, <1>2, <1>3, Joined
<1> QED BY <1>1, <1>4 DEF a, b

\* a is c and more, which is where d begins.
More(S, a, b, c, d) == \E x \in Seq(S) : a = c \o x /\ d = x \o b

\* Of two beginnings of a sequence the longer begins with the shorter.
LEMMA Longer ==
  ASSUME NEW S, NEW a \in Seq(S), NEW b \in Seq(S), NEW c \in Seq(S), NEW d \in Seq(S),
         a \o b = c \o d, Len(c) <= Len(a)
  PROVE  More(S, a, b, c, d)
<1> DEFINE n == Len(c)
           x == SubSeq(a, n + 1, Len(a))
<1>1. /\ Len(a \o b) = Len(a) + Len(b) /\ Len(a) \in Nat /\ Len(b) \in Nat
      /\ \A i \in 1 .. Len(a) : (a \o b)[i] = a[i]
      /\ \A i \in 1 .. Len(b) : (a \o b)[Len(a) + i] = b[i]
  <2>1. Len(a \o b) = Len(a) + Len(b) /\ Len(a) \in Nat /\ Len(b) \in Nat
    BY Parts
  <2>2. \A i \in 1 .. Len(a) : (a \o b)[i] = a[i]
    BY Parts
  <2>3. \A i \in 1 .. Len(b) : (a \o b)[Len(a) + i] = b[i]
    BY Parts
  <2> QED BY <2>1, <2>2, <2>3
<1>2. /\ Len(a \o b) = n + Len(d) /\ n \in Nat /\ Len(d) \in Nat
      /\ \A i \in 1 .. n : (a \o b)[i] = c[i]
      /\ \A i \in 1 .. Len(d) : (a \o b)[n + i] = d[i]
  <2>1. /\ Len(c \o d) = Len(c) + Len(d) /\ Len(c) \in Nat /\ Len(d) \in Nat
        /\ \A i \in 1 .. Len(c) : (c \o d)[i] = c[i]
        /\ \A i \in 1 .. Len(d) : (c \o d)[Len(c) + i] = d[i]
    BY Parts
  <2> QED BY <2>1, Zenon
<1>3. x \in Seq(S) /\ Len(x) = Len(a) - n /\ \A i \in 1 .. Len(x) : x[i] = a[n + i]
  BY <1>2
<1> DEFINE w == a \o b
<1> HIDE DEF n, x, w
<1>4. a = c \o x
  <2>1. Len(a) = n + Len(x)
    BY <1>1, <1>2, <1>3
  <2>2. \A i \in 1 .. n : a[i] = c[i]
    BY <1>1, <1>2 DEF n
  <2>3. \A i \in 1 .. Len(x) : a[n + i] = x[i]
    BY <1>3
  <2> QED BY <1>3, <2>1, <2>2, <2>3, Joined DEF n
<1>5. d = x \o b
  <2>1. Len(d) = Len(x) + Len(b)
    BY <1>1, <1>2, <1>3
  <2>2. \A i \in 1 .. Len(x) : d[i] = x[i]
    <3> SUFFICES ASSUME NEW i \in 1 .. Len(x) PROVE d[i] = x[i]
      OBVIOUS
    <3>1. i \in 1 .. Len(d) /\ n + i \in 1 .. Len(a)
      BY <1>1, <1>2, <1>3, <2>1
    <3> QED BY <1>1, <1>2, <1>3, <3>1
  <2>3. \A i \in 1 .. Len(b) : d[Len(x) + i] = b[i]
    <3> SUFFICES ASSUME NEW i \in 1 .. Len(b) PROVE d[Len(x) + i] = b[i]
      OBVIOUS
    <3>1. Len(x) + i \in 1 .. Len(d) /\ n + (Len(x) + i) = Len(a) + i
      BY <1>1, <1>2, <1>3, <2>1
    <3>2. (a \o b)[n + (Len(x) + i)] = d[Len(x) + i]
      BY <1>2, <3>1
    <3> QED BY <1>1, <3>1, <3>2
  <2> QED BY <1>3, <2>1, <2>2, <2>3, Joined
<1> QED BY <1>3, <1>4, <1>5 DEF More

\* Of two beginnings of a sequence one begins with the other.
LEMMA Overlap ==
  ASSUME NEW S, NEW a \in Seq(S), NEW b \in Seq(S), NEW c \in Seq(S), NEW d \in Seq(S),
         a \o b = c \o d
  PROVE  More(S, a, b, c, d) \/ More(S, c, d, a, b)
<1>1. Len(a) \in Nat /\ Len(c) \in Nat
  OBVIOUS
<1>2. CASE Len(c) <= Len(a)
  BY <1>2, Longer
<1>3. CASE Len(a) <= Len(c)
  <2>1. c \o d = a \o b
    OBVIOUS
  <2> QED BY <1>3, <2>1, Longer
<1>4. Len(c) <= Len(a) \/ Len(a) <= Len(c)
  BY <1>1
<1> QED BY <1>2, <1>3, <1>4, Zenon

\* A sequence of different members of S is one of their permutations.
LEMMA Permuted ==
  ASSUME NEW S, NEW s \in Seq(S), IsInjective(s)
  PROVE  s \in D!SetToAllKPermutations(S)
<1> DEFINE T == ToSet(s)
           n == Len(s)
<1>1. n \in Nat /\ s \in [1 .. n -> T] /\ T \in SUBSET S
  BY DEF ToSet
<1>2. s \in Surjection(1 .. n, T)
  BY <1>1 DEF ToSet, Surjection
<1>3. s \in Injection(1 .. n, T)
  BY <1>1 DEF Injection, IsInjective
<1>4. IsFiniteSet(1 .. n) /\ Cardinality(1 .. n) = n
  BY <1>1, FS_Interval
<1> HIDE DEF T, n
<1>5. IsFiniteSet(T) /\ (Cardinality(T) = Cardinality(1 .. n) <=> s \in Injection(1 .. n, T))
  BY <1>2, <1>4, FS_Surjection
<1>6. Cardinality(T) = n
  BY <1>3, <1>4, <1>5
<1>7. \A i, j \in 1 .. n : i # j => s[i] # s[j]
  BY <1>3 DEF Injection, IsInjective
<1>8. D!Cardinality(T) = Cardinality(T)
  BY DEF Cardinality, D!Cardinality
<1>9. s \in D!SetToSeqs(T)
  BY <1>1, <1>6, <1>7, <1>8 DEF D!SetToSeqs
<1> QED BY <1>1, <1>9 DEF D!SetToAllKPermutations

(***************************************************************************)
(* The rest of the types.                                                  *)
(***************************************************************************)
\* The rest of TypeOK.  Messages are finitely many, so that patches can be counted.
RestTypes ==
  /\ firstMsg \in BOOLEAN /\ skew \in BOOLEAN /\ tries \in 0 .. MaxTries
  /\ reply \in {"none", "resync", "ok", "error"}
  /\ applied \subseteq Messages /\ places \in 0 .. PatchPlaces /\ crashes \in 0 .. MaxCrashes
  /\ entered \subseteq Lines /\ log \in Seq(Retained)
  /\ mail \subseteq mailed /\ mailed \subseteq Messages
  /\ IsFiniteSet(mail) /\ IsFiniteSet(news)

\* What a request enters is lines, and of the retained ones the log has the first times.
LEMMA EnterTypes ==
  ASSUME QTypes, RestTypes, NEW c \in Copies, Enter(c) \/ RollBack(c)
  PROVE  /\ entered' \subseteq Lines /\ log' \in Seq(Retained)
         /\ mail' \subseteq mail /\ mailed' = mailed /\ IsFiniteSet(mail')
<1>1. \A ls \in Seq(Lines) : log \o FirstTimes(ls) \in Seq(Retained)
  <2> SUFFICES ASSUME NEW ls \in Seq(Lines) PROVE log \o FirstTimes(ls) \in Seq(Retained)
    OBVIOUS
  <2> DEFINE S == Lines \cap (Retained \ entered)
             k == FirstTimes(ls)
  <2>1. k \in Seq(S) /\ S \subseteq Retained
    BY KeptType DEF FirstTimes
  <2> HIDE DEF S, k
  <2>2. k \in Seq(Retained)
    BY <2>1
  <2> QED BY <2>2 DEF RestTypes, k
<1>2. c.ret \in Seq(Lines) /\ c.vol \in Seq(Lines)
  BY DEF Copies, Lines
<1>3. CASE Enter(c)
  <2>1. Batch(c) \subseteq Lines
    BY <1>2, ToSetIn, ToSetConcat DEF Batch
  <2> QED BY <1>1, <1>2, <1>3, <2>1, FS_Subset DEF Enter, Deleted, RestTypes
<1>4. CASE RollBack(c)
  <2>1. PICK n \in 0 .. Len(c.ret) : /\ entered' = entered \cup ToSet(SubSeq(c.ret, 1, n))
                                     /\ log' = log \o FirstTimes(SubSeq(c.ret, 1, n))
    BY <1>4 DEF RollBack
  <2>2. SubSeq(c.ret, 1, n) \in Seq(Lines)
    BY <1>2, ConcatCut
  <2>3. ToSet(SubSeq(c.ret, 1, n)) \subseteq Lines
    BY <2>2, ToSetIn
  <2> QED BY <1>1, <1>4, <2>1, <2>2, <2>3 DEF RollBack, RestTypes
<1> QED BY <1>3, <1>4

\* The patches that get a place are no more than there are places.
LEMMA PlacesTypes ==
  ASSUME QTypes, RestTypes, ApplyMessages
  PROVE  places' \in 0 .. PatchPlaces /\ applied' \subseteq Messages
<1> DEFINE patches == news \cap (Patches \cup BadPatches)
           n == IF Cardinality(patches) < FreePlaces THEN Cardinality(patches) ELSE FreePlaces
<1>1. places' = places + n
  BY DEF ApplyMessages
<1>2. Cardinality(patches) \in Nat
  <2>1. IsFiniteSet(patches)
    BY FS_Subset DEF RestTypes
  <2> QED BY <2>1, FS_CardinalityType
<1>3. applied' \subseteq Messages
  BY DEF ApplyMessages, RestTypes, Messages
<1> HIDE DEF patches
<1> QED BY <1>1, <1>2, <1>3, Bounds DEF FreePlaces, RestTypes

\* Every step keeps the rest of the types.
LEMMA NextRest == QTypes /\ RestTypes /\ [Next]_vars => RestTypes'
<1> SUFFICES ASSUME QTypes, RestTypes, [Next]_vars PROVE RestTypes'
  OBVIOUS
<1> USE DEF buffer, disk, wire, kiosk, server, unserved
<1>1. CASE UNCHANGED vars \/ Load \/ TryAgain \/ BeginSort \/ SortLine \/ EndSort \/ Start \/ Read
           \/ TakePatches \/ PowerAlarm \/ PowerOK \/ Offline
  BY <1>1, Bounds DEF RestTypes, vars, Load, TryAgain, BeginSort, SortLine, EndSort, Start, Read, TakePatches,
     PowerAlarm, PowerOK, Offline, Failed
<1>2. CASE Send \/ Retry \/ GiveUp \/ Resynced
  <2>1. tries' \in 0 .. MaxTries
    BY <1>2, Bounds DEF RestTypes, Send, Retry, GiveUp, Failed, Resynced
  <2>2. IsFiniteSet(news')
    BY <1>2, FS_EmptySet DEF RestTypes, Send, Retry, GiveUp, Failed, Resynced
  <2> QED BY <1>2, <2>1, <2>2 DEF RestTypes, Send, Retry, GiveUp, Failed, Resynced
<1>3. CASE Accepted
  BY <1>3, PlacesTypes DEF Accepted, RestTypes
<1>4. CASE AnswerResync \/ Post
  <2>1. \A m : IsFiniteSet(mail \cup {m})
    BY FS_AddElement DEF RestTypes
  <2> QED BY <1>4, <2>1 DEF AnswerResync, Post, NewMessage, RestTypes
<1>5. CASE AnswerOk \/ AnswerError
  <2>1. Enter(cur) \/ RollBack(cur)
    BY <1>5 DEF AnswerOk, AnswerError
  <2>2. /\ entered' \subseteq Lines /\ log' \in Seq(Retained)
        /\ mail' \subseteq mail /\ mailed' = mailed /\ IsFiniteSet(mail')
    BY <2>1, EnterTypes DEF QTypes
  <2> QED BY <1>5, <2>2 DEF AnswerOk, AnswerError, RestTypes
<1>6. CASE ServeStray
  <2>1. PICK i \in 1 .. Len(strays) : Enter(strays[i]) \/ RollBack(strays[i])
    BY <1>6 DEF ServeStray
  <2>2. strays[i] \in Copies
    BY DEF QTypes
  <2>3. /\ entered' \subseteq Lines /\ log' \in Seq(Retained)
        /\ mail' \subseteq mail /\ mailed' = mailed /\ IsFiniteSet(mail')
    BY <2>1, <2>2, EnterTypes
  <2> QED BY <1>6, <2>3 DEF ServeStray, RestTypes
<1>7. CASE Term \/ Kill
  <2>1. Dies
    BY <1>7 DEF Term, Kill
  <2>2. tries' \in 0 .. MaxTries /\ crashes' \in 0 .. MaxCrashes /\ places' \in 0 .. PatchPlaces
    BY <2>1, Bounds DEF Dies, RestTypes
  <2> QED BY <2>1, <2>2, FS_EmptySet DEF Dies, RestTypes
<1> QED BY <1>1, <1>2, <1>3, <1>4, <1>5, <1>6, <1>7
    DEF Next, Daemon, Exchange, Server, Faults

\* The rest of the types hold at the start.
LEMMA InitRest == Init => RestTypes
<1>1. <<>> \in Seq(Retained)
  OBVIOUS
<1> QED BY <1>1, Bounds, FS_EmptySet DEF Init, InitServer, RestTypes

\* Every variable of the daemon and its server has a value of its kind: the places for
\* patches are counted right, and the server's log has nothing but retained lines, whatever
\* fails and is tried again (do_msg, do_request).
THEOREM QueueTypeCorrect == SafeSpec => []TypeOK
<1>1. Init => QTypes /\ RestTypes
  BY InitTypes, InitRest
<1>2. QTypes /\ RestTypes /\ [Next]_vars => (QTypes /\ RestTypes)'
  BY NextTypes, NextRest
<1>3. QTypes /\ RestTypes => TypeOK
  BY DEF QTypes, RestTypes, TypeOK
<1> QED BY <1>1, <1>2, <1>3, PTL DEF SafeSpec

(***************************************************************************)
(* What is new to the server, and what is ahead.                           *)
(***************************************************************************)
\* Retained lines are lines.
LEMMA RetainedLines == \A s \in Seq(Retained) : s \in Seq(Lines)
<1> DEFINE L == Lines
<1>1. Retained \subseteq L
  BY DEF Lines
<1> HIDE DEF L
<1>2. \A s \in Seq(Retained) : s \in Seq(L)
  BY <1>1
<1> QED BY <1>2 DEF L

\* o begins with p.
Starts(p, o) == \E r \in Seq(Retained) : o = p \o r

\* What of s a server that has e would enter for the first time.
New(s, e) == Kept(s, Retained \ e)

\* Of what is new in s, the beginning is the beginning of o, and the rest is lost: neither
\* in o nor in u.
AheadOf(s, o, e, u) ==
  \E p, q, r \in Seq(Retained) :
    /\ New(s, e) = p \o q /\ o = p \o r
    /\ ToSet(q) \cap (ToSet(u) \cup ToSet(o)) = {}

\* What is new is retained, not entered, different where the lines are, and of the set.
LEMMA NewIs ==
  ASSUME NEW s \in Seq(Lines), NEW e
  PROVE  /\ New(s, e) \in Seq(Retained)
         /\ ToSet(New(s, e)) = ToSet(s) \cap (Retained \ e)
         /\ IsInjective(s) => IsInjective(New(s, e))
<1> DEFINE S == Lines \cap (Retained \ e)
           k == New(s, e)
<1>1. k \in Seq(S) /\ S \subseteq Retained
  BY KeptType DEF New
<1>2. ToSet(k) = ToSet(s) \cap (Retained \ e)
  BY KeptSet DEF New
<1>3. IsInjective(s) => IsInjective(k)
  BY KeptDifferent DEF New
<1> HIDE DEF S, k
<1>4. k \in Seq(Retained)
  BY <1>1
<1> QED BY <1>2, <1>3, <1>4 DEF k

\* When more is entered, less is new: of what was new.
LEMMA NewLess ==
  ASSUME NEW s \in Seq(Lines), NEW e, NEW f, e \subseteq f
  PROVE  New(s, f) = New(New(s, e), f)
<1>1. (Retained \ e) \cap (Retained \ f) = Retained \ f
  OBVIOUS
<1>2. Kept(Kept(s, Retained \ e), Retained \ f) = Kept(s, (Retained \ e) \cap (Retained \ f))
  BY KeptTwice
<1> QED BY <1>1, <1>2 DEF New

\* What is new of two sequences is new of each.
LEMMA NewConcat ==
  ASSUME NEW S, NEW s \in Seq(S), NEW t \in Seq(S), NEW e
  PROVE  New(s \o t, e) = New(s, e) \o New(t, e)
<1>1. Kept(s \o t, Retained \ e) = Kept(s, Retained \ e) \o Kept(t, Retained \ e)
  BY KeptConcat
<1> QED BY <1>1 DEF New

\* What was new is new as long as none of it is entered; what is entered is not.
LEMMA NewAll ==
  ASSUME NEW s \in Seq(Retained), NEW e, ToSet(s) \cap e = {}
  PROVE  New(s, e) = s
<1>1. ToSet(s) \subseteq Retained \ e
  BY ToSetIn
<1> QED BY <1>1, KeptAll DEF New

\* Nothing is new of what was entered.
LEMMA NewNone ==
  ASSUME NEW s \in Seq(Retained), NEW e, ToSet(s) \subseteq e
  PROVE  New(s, e) = <<>>
<1>1. ToSet(s) \cap (Retained \ e) = {}
  OBVIOUS
<1> QED BY <1>1, KeptNone DEF New

\* What is ahead stays so when more is entered.
LEMMA AheadEntered ==
  ASSUME NEW s \in Seq(Lines), NEW o \in Seq(Retained), NEW e, NEW f, e \subseteq f, NEW u,
         AheadOf(s, o, e, u)
  PROVE  AheadOf(s, New(o, f), f, u)
<1>1. PICK p, q, r \in Seq(Retained) : /\ New(s, e) = p \o q /\ o = p \o r
                                       /\ ToSet(q) \cap (ToSet(u) \cup ToSet(o)) = {}
  BY DEF AheadOf
<1>2. p \in Seq(Lines) /\ q \in Seq(Lines) /\ r \in Seq(Lines) /\ o \in Seq(Lines)
  BY RetainedLines
<1>3. New(p, f) \in Seq(Retained) /\ New(q, f) \in Seq(Retained) /\ New(r, f) \in Seq(Retained)
  BY <1>2, NewIs
<1>4. New(s, f) = New(New(s, e), f)
  BY NewLess
<1>5. New(p \o r, f) = New(p, f) \o New(r, f)
  BY NewConcat
<1>6. New(p \o q, f) = New(p, f) \o New(q, f)
  BY NewConcat
<1>7. ToSet(New(q, f)) \subseteq ToSet(q)
  BY <1>2, NewIs
<1>8. ToSet(New(o, f)) \subseteq ToSet(o)
  BY <1>2, NewIs
<1>9. ToSet(New(q, f)) \cap (ToSet(u) \cup ToSet(New(o, f))) = {}
  BY <1>1, <1>7, <1>8
<1>10. New(o, f) = New(p, f) \o New(r, f) /\ New(s, f) = New(p, f) \o New(q, f)
  BY <1>1, <1>4, <1>5, <1>6
<1> QED BY <1>3, <1>9, <1>10 DEF AheadOf

\* What is new of s stays the beginning when more is entered.
LEMMA StartsEntered ==
  ASSUME NEW s \in Seq(Lines), NEW o \in Seq(Retained), NEW e, NEW f, e \subseteq f,
         Starts(New(s, e), o)
  PROVE  Starts(New(s, f), New(o, f))
<1> DEFINE p == New(s, e)
<1>1. p \in Seq(Retained)
  BY NewIs
<1>2. New(s, f) = New(p, f)
  BY NewLess
<1> HIDE DEF p
<1>3. PICK r \in Seq(Retained) : o = p \o r
  BY DEF Starts, p
<1>4. New(p \o r, f) = New(p, f) \o New(r, f)
  BY <1>1, NewConcat
<1>5. New(r, f) \in Seq(Retained)
  BY RetainedLines, NewIs
<1> QED BY <1>2, <1>3, <1>4, <1>5 DEF Starts

\* What a crash leaves of o is as far as what is ahead can be followed.
LEMMA AheadCrash ==
  ASSUME NEW s \in Seq(Lines), NEW o \in Seq(Retained), NEW o2 \in Seq(Retained), NEW e, NEW u,
         AheadOf(s, o, e, u), Starts(o2, o), IsInjective(o), ToSet(o) \cap ToSet(u) = {}
  PROVE  AheadOf(s, o2, e, u)
<1>1. PICK p, q, r \in Seq(Retained) : /\ New(s, e) = p \o q /\ o = p \o r
                                       /\ ToSet(q) \cap (ToSet(u) \cup ToSet(o)) = {}
  BY DEF AheadOf
<1>2. PICK t \in Seq(Retained) : o = o2 \o t
  BY DEF Starts
<1>3. ToSet(o) = ToSet(o2) \cup ToSet(t) /\ ToSet(o2) \cap ToSet(t) = {}
  BY <1>2, ToSetConcat, DifferentConcat
<1>4. CASE More(Retained, p, r, o2, t)
  <2>1. PICK x \in Seq(Retained) : p = o2 \o x /\ t = x \o r
    BY <1>4 DEF More
  <2>2. x \o q \in Seq(Retained) /\ p \o q = o2 \o (x \o q)
    BY <2>1, ConcatAssociative, ConcatProperties
  <2>3. ToSet(x \o q) = ToSet(x) \cup ToSet(q) /\ ToSet(x) \subseteq ToSet(t)
    BY <2>1, ToSetConcat
  <2>4. ToSet(x \o q) \cap (ToSet(u) \cup ToSet(o2)) = {}
    BY <1>1, <1>3, <2>3
  <2>5. o2 = o2 \o <<>> /\ <<>> \in Seq(Retained)
    BY ConcatEmptySeq
  <2> QED BY <1>1, <2>2, <2>4, <2>5 DEF AheadOf
<1>5. CASE More(Retained, o2, t, p, r)
  <2>1. PICK x \in Seq(Retained) : o2 = p \o x
    BY <1>5 DEF More
  <2>2. ToSet(q) \cap (ToSet(u) \cup ToSet(o2)) = {}
    BY <1>1, <1>3
  <2> QED BY <1>1, <2>1, <2>2 DEF AheadOf
<1>6. p \o r = o2 \o t
  BY <1>1, <1>2
<1> QED BY <1>4, <1>5, <1>6, Overlap

\* What is read comes behind.
LEMMA AheadRead ==
  ASSUME NEW s \in Seq(Lines), NEW o \in Seq(Retained), NEW new \in Seq(Retained), NEW e,
         NEW u, NEW u2, ToSet(new) \cup ToSet(u2) \subseteq ToSet(u), AheadOf(s, o, e, u)
  PROVE  AheadOf(s, o \o new, e, u2)
<1>1. PICK p, q, r \in Seq(Retained) : /\ New(s, e) = p \o q /\ o = p \o r
                                       /\ ToSet(q) \cap (ToSet(u) \cup ToSet(o)) = {}
  BY DEF AheadOf
<1>2. ToSet(o \o new) = ToSet(o) \cup ToSet(new)
  BY ToSetConcat
<1>3. ToSet(q) \cap (ToSet(u2) \cup ToSet(o \o new)) = {}
  BY <1>1, <1>2
<1>4. r \o new \in Seq(Retained) /\ o \o new = p \o (r \o new)
  BY <1>1, ConcatAssociative, ConcatProperties
<1> QED BY <1>1, <1>3, <1>4 DEF AheadOf

\* The buffer's own beginning is ahead.
LEMMA AheadSelf ==
  ASSUME NEW s \in Seq(Lines), NEW t \in Seq(Lines), NEW e, NEW u
  PROVE  AheadOf(s, New(s \o t, e), e, u)
<1> DEFINE k == New(s, e)
           r == New(t, e)
<1>1. k \in Seq(Retained) /\ r \in Seq(Retained)
  BY NewIs
<1>2. New(s \o t, e) = k \o r
  BY NewConcat
<1>3. k = k \o <<>> /\ <<>> \in Seq(Retained)
  BY <1>1, ConcatEmptySeq
<1>4. ToSet(<<>>) = {}
  BY ToSetEmpty
<1> HIDE DEF r
<1> QED BY <1>1, <1>2, <1>3, <1>4 DEF AheadOf

\* Nothing is ahead of anything.
LEMMA AheadEmpty ==
  ASSUME NEW o \in Seq(Retained), NEW e, NEW u
  PROVE  AheadOf(<<>>, o, e, u)
<1>1. New(<<>>, e) = <<>> \o <<>> /\ <<>> \in Seq(Retained) /\ o = <<>> \o o
  BY KeptEmpty, ConcatEmptySeq DEF New
<1> QED BY <1>1, ToSetEmpty DEF AheadOf

(***************************************************************************)
(* What the three steps of Delivery do to what is owed and missing.        *)
(***************************************************************************)
\* Joining is associative.
LEMMA Regroup ==
  ASSUME NEW S, NEW s \in Seq(S), NEW t \in Seq(S), NEW r \in Seq(S), NEW p, NEW o,
         p = s \o t, o = p \o r
  PROVE  o = s \o (t \o r)
BY ConcatAssociative

\* Of what is ahead, the beginning is ahead.
LEMMA AheadCut ==
  ASSUME NEW s \in Seq(Lines), NEW t \in Seq(Lines), NEW o \in Seq(Retained), NEW e, NEW u,
         AheadOf(s \o t, o, e, u)
  PROVE  AheadOf(s, o, e, u)
<1> DEFINE k == New(s, e)
           m == New(t, e)
<1>1. k \in Seq(Retained) /\ m \in Seq(Retained)
  BY NewIs
<1>2. New(s \o t, e) = k \o m
  BY NewConcat
<1> HIDE DEF k, m
<1>3. PICK p, q, r \in Seq(Retained) : /\ k \o m = p \o q /\ o = p \o r
                                       /\ ToSet(q) \cap (ToSet(u) \cup ToSet(o)) = {}
  BY <1>2 DEF AheadOf
<1>4. \E p1, q1, r1 \in Seq(Retained) : /\ k = p1 \o q1 /\ o = p1 \o r1
                                        /\ ToSet(q1) \cap (ToSet(u) \cup ToSet(o)) = {}
  <2>1. CASE More(Retained, p, q, k, m)
    <3>1. PICK x \in Seq(Retained) : p = k \o x
      BY <2>1 DEF More
    <3>2. x \o r \in Seq(Retained) /\ o = k \o (x \o r)
      <4>1. x \o r \in Seq(Retained)
        BY ConcatProperties
      <4>2. o = k \o (x \o r)
        <5>a. k \in Seq(Retained) 
          BY <1>1
        <5>b. p = k \o x
          BY <3>1
        <5>c. o = p \o r
          BY <1>3
        <5> QED BY <5>a, <5>b, <5>c, Regroup
      <4> QED BY <4>1, <4>2
    <3>3. k = k \o <<>> /\ <<>> \in Seq(Retained) /\ ToSet(<<>>) = {}
      BY <1>1, ConcatEmptySeq, ToSetEmpty
    <3> QED BY <1>1, <3>2, <3>3
  <2>2. CASE More(Retained, k, m, p, q)
    <3>1. PICK x \in Seq(Retained) : k = p \o x /\ q = x \o m
      BY <2>2 DEF More
    <3>2. ToSet(x) \subseteq ToSet(q)
      BY <1>1, <3>1, ToSetConcat
    <3> QED BY <1>3, <3>1, <3>2
  <2>3. More(Retained, p, q, k, m) \/ More(Retained, k, m, p, q)
    BY <1>1, <1>3, Overlap
  <2> QED BY <2>1, <2>2, <2>3
<1>5. New(s, e) = k
  BY DEF k
<1> QED BY <1>4, <1>5 DEF AheadOf

\* Different lines, and none of them among those to come.
Apart(s, u) == IsInjective(s) /\ ToSet(s) \cap ToSet(u) = {}

\* The retained lines that are neither entered, nor to be read, nor owed.
Missing(e, u, o) == (Retained \ e) \ (ToSet(u) \cup ToSet(o))

\* So says Lost.
LEMMA MissingIs ==
  ASSUME NEW h \in Seq(Lines), NEW e, NEW u
  PROVE  Retained \ (ToSet(u) \cup e \cup ToSet(h)) = Missing(e, u, New(h, e))
<1>1. ToSet(New(h, e)) = ToSet(h) \cap (Retained \ e)
  BY NewIs
<1> QED BY <1>1 DEF Missing

\* A sequence is of what is in it.
LEMMA SeqWithin ==
  ASSUME NEW L, NEW s \in Seq(L), NEW S, ToSet(s) \subseteq S
  PROVE  s \in Seq(S)
<1>1. Len(s) \in Nat /\ s \in [1 .. Len(s) -> ToSet(s)]
  BY DEF ToSet
<1>2. s \in [1 .. Len(s) -> S]
  BY <1>1
<1> QED BY <1>1, <1>2, SeqDef

\* What is new of d is the beginning of o and lines that are missing, and neither is owed
\* or missing any more when f is entered.
Enters(d, o, e, f, u) ==
  \E n \in 0 .. Len(o), x \in D!SetToAllKPermutations(Missing(e, u, o)) :
    /\ x \in Seq(Retained) /\ New(d, e) = SubSeq(o, 1, n) \o x
    /\ New(o, f) = SubSeq(o, n + 1, Len(o))
    /\ Missing(f, u, New(o, f)) = Missing(e, u, o) \ ToSet(x)

\* Entering lines that are ahead: they are the beginning of what is owed, and lost ones.
LEMMA EnterAhead ==
  ASSUME NEW d \in Seq(Lines), NEW o \in Seq(Retained), NEW e, NEW f, NEW u,
         Apart(d, u), IsInjective(o), ToSet(o) \cap e = {}, AheadOf(d, o, e, u),
         f \cap Retained = (e \cup ToSet(d)) \cap Retained
  PROVE  Enters(d, o, e, f, u)
<1>1. PICK p, q, r \in Seq(Retained) : /\ New(d, e) = p \o q /\ o = p \o r
                                       /\ ToSet(q) \cap (ToSet(u) \cup ToSet(o)) = {}
  BY DEF AheadOf
<1>2. /\ Len(p) \in 0 .. Len(p \o r) /\ SubSeq(p \o r, 1, Len(p)) = p
      /\ SubSeq(p \o r, Len(p) + 1, Len(p \o r)) = r
  BY CutConcat
<1>3. ToSet(o) = ToSet(p) \cup ToSet(r) /\ ToSet(p \o q) = ToSet(p) \cup ToSet(q)
  BY <1>1, ToSetConcat
<1>4. ToSet(p \o q) = ToSet(d) \cap (Retained \ e)
  BY <1>1, NewIs
<1>5. IsInjective(p \o q)
  <2>1. IsInjective(d) => IsInjective(New(d, e))
    BY NewIs
  <2> QED BY <1>1, <2>1 DEF Apart
<1>6. ToSet(p) \cap ToSet(r) = {}
  BY <1>1, DifferentConcat
<1>7. ToSet(p) \subseteq Retained /\ ToSet(q) \subseteq Retained /\ ToSet(r) \subseteq Retained
  BY ToSetIn
<1>8. ToSet(p) \subseteq f
  BY <1>3, <1>4, <1>7
<1>9. ToSet(r) \cap f = {}
  BY <1>1, <1>3, <1>4, <1>6, <1>7
<1>10. New(o, f) = r
  <2>1. New(p \o r, f) = New(p, f) \o New(r, f)
    BY NewConcat
  <2>2. New(p, f) = <<>> /\ New(r, f) = r
    BY <1>8, <1>9, NewAll, NewNone
  <2> QED BY <1>1, <2>1, <2>2, ConcatEmptySeq
<1>11. Missing(f, u, r) = Missing(e, u, o) \ ToSet(q)
  BY <1>3, <1>4, <1>7 DEF Missing
<1>12. q \in D!SetToAllKPermutations(Missing(e, u, o))
  <2> DEFINE M == Missing(e, u, o)
  <2>1. ToSet(q) \subseteq M
    BY <1>1, <1>3, <1>4 DEF Missing
  <2>2. IsInjective(q)
    BY <1>5, DifferentConcat
  <2> HIDE DEF M
  <2>3. q \in Seq(M)
    BY <2>1, SeqWithin
  <2> QED BY <2>2, <2>3, Permuted DEF M
<1> QED BY <1>1, <1>2, <1>10, <1>11, <1>12 DEF Enters

\* What a crash leaves of what is owed is its beginning; the rest is lost.
LEMMA CrashLoses ==
  ASSUME NEW o \in Seq(Retained), NEW o2 \in Seq(Retained), Starts(o2, o), NEW e, NEW u,
         IsInjective(o), ToSet(o) \cap e = {}, ToSet(o) \cap ToSet(u) = {}
  PROVE  \E n \in 0 .. Len(o) :
           /\ o2 = SubSeq(o, 1, n)
           /\ Missing(e, u, o2) = Missing(e, u, o) \cup ToSet(SubSeq(o, n + 1, Len(o)))
<1>1. PICK r \in Seq(Retained) : o = o2 \o r
  BY DEF Starts
<1>2. /\ Len(o2) \in 0 .. Len(o2 \o r) /\ SubSeq(o2 \o r, 1, Len(o2)) = o2
      /\ SubSeq(o2 \o r, Len(o2) + 1, Len(o2 \o r)) = r
  BY CutConcat
<1>3. ToSet(o) = ToSet(o2) \cup ToSet(r) /\ ToSet(o2) \cap ToSet(r) = {}
  BY <1>1, ToSetConcat, DifferentConcat
<1>4. ToSet(r) \subseteq Retained
  BY ToSetIn
<1>5. Missing(e, u, o2) = Missing(e, u, o) \cup ToSet(r)
  BY <1>3, <1>4 DEF Missing
<1> QED BY <1>1, <1>2, <1>5

\* Lines that are read come behind what is owed, and nothing is lost.
LEMMA ReadAccepts ==
  ASSUME NEW o \in Seq(Retained), NEW new \in Seq(Lines), NEW rest \in Seq(Lines), NEW e, NEW k,
         IsInjective(new \o rest), e \cap Retained \cap ToSet(new \o rest) = {},
         ToSet(o) \cap ToSet(new \o rest) = {}, k \subseteq e
  PROVE  /\ New(new, e) \in D!SetToAllKPermutations(
                              Retained \ (ToSet(o) \cup k \cup Missing(e, new \o rest, o)))
         /\ Missing(e, rest, o \o New(new, e)) = Missing(e, new \o rest, o)
<1> DEFINE s == New(new, e)
           M == Retained \ (ToSet(o) \cup k \cup Missing(e, new \o rest, o))
<1>1. s \in Seq(Retained) /\ ToSet(s) = ToSet(new) \cap (Retained \ e)
  BY NewIs
<1>2. IsInjective(s)
  BY NewIs, DifferentConcat
<1>3. /\ ToSet(new \o rest) = ToSet(new) \cup ToSet(rest) /\ ToSet(new) \cap ToSet(rest) = {}
  BY ToSetConcat, DifferentConcat
<1>4. ToSet(s) \subseteq M
  BY <1>1, <1>3 DEF Missing
<1>5. ToSet(o \o s) = ToSet(o) \cup ToSet(s)
  BY <1>1, ToSetConcat
<1>6. Missing(e, rest, o \o s) = Missing(e, new \o rest, o)
  BY <1>1, <1>3, <1>5 DEF Missing
<1> HIDE DEF M, s
<1>7. s \in Seq(M)
  BY <1>1, <1>4, SeqWithin
<1>8. s \in D!SetToAllKPermutations(M)
  BY <1>2, <1>7, Permuted
<1> QED BY <1>6, <1>8 DEF M, s

(***************************************************************************)
(* The inductive invariant of the refinement.                              *)
(***************************************************************************)
\* Each request given up has different lines, none still to be read, that are ahead.
StraysAhead(ss, o, e, u) ==
  \A i \in 1 .. Len(ss) : Apart(ss[i].ret, u) /\ AheadOf(ss[i].ret, o, e, u)

\* What the refinement rests on.  Every line is in the buffer once, and none of them is still
\* in the FIFO; the same of the file, and of each request given up.  Such a request has first
\* the beginning of what is owed, and then lines that a crash took.  What the file would give
\* back after a crash is the beginning of what is owed.
OrderInv ==
  /\ pc \in {"wait", "read", "sort"} => loaded
  /\ ~loaded => ret = <<>> /\ raw = <<>>
  /\ IsInjective(unread) /\ Apart(ret \o raw, unread) /\ Apart(file.lines, unread)
  /\ StraysAhead(strays, Owed, entered, unread)
  /\ entered \cap Retained \cap ToSet(unread) = {}
  /\ ToSet(log) \subseteq entered
  /\ loaded => Starts(New(file.lines, entered), Owed)

\* What is owed is what is new of what is held, and the rest that is new is lost.
LEMMA OwedIs ==
  ASSUME QTypes
  PROVE  /\ Held \in Seq(Lines) /\ Owed = New(Held, entered)
         /\ Lost = Missing(entered, unread, Owed)
<1>1. Held \in Seq(Lines)
  BY DEF Held, QTypes
<1>2. Owed = New(Held, entered)
  BY DEF Owed, FirstTimes, New
<1>3. Lost = Missing(entered, unread, New(Held, entered))
  BY <1>1, MissingIs DEF Lost
<1> QED BY <1>1, <1>2, <1>3

\* So it is after a step.
LEMMA OwedIsNext ==
  ASSUME QTypes'
  PROVE  /\ Held' \in Seq(Lines) /\ Owed' = New(Held', entered')
         /\ Lost' = Missing(entered', unread', Owed')
<1>1. Held' \in Seq(Lines)
  BY DEF Held, QTypes
<1>2. Owed' = New(Held', entered')
  BY DEF Owed, FirstTimes, New
<1>3. Lost' = Retained \ (ToSet(unread') \cup entered' \cup ToSet(Held'))
  BY DEF Lost
<1> DEFINE h == Held'
           e == entered'
           u == unread'
<1> HIDE DEF h, e, u
<1>4. h \in Seq(Lines)
  BY <1>1 DEF h
<1>5. Retained \ (ToSet(u) \cup e \cup ToSet(h)) = Missing(e, u, New(h, e))
  BY <1>4, MissingIs
<1> QED BY <1>1, <1>2, <1>3, <1>5 DEF h, e, u

\* What is owed are different lines, not entered and not to be read.
LEMMA OwedApart ==
  ASSUME QTypes, OrderInv
  PROVE  /\ Owed \in Seq(Retained) /\ IsInjective(Owed)
         /\ ToSet(Owed) \cap entered = {} /\ ToSet(Owed) \cap ToSet(unread) = {}
<1>1. Apart(Held, unread)
  BY DEF Held, OrderInv
<1>2. Held \in Seq(Lines) /\ Owed = New(Held, entered)
  BY OwedIs
<1>3. Owed \in Seq(Retained) /\ ToSet(Owed) = ToSet(Held) \cap (Retained \ entered)
  BY <1>2, NewIs
<1>4. IsInjective(Held) => IsInjective(Owed)
  BY <1>2, NewIs
<1> QED BY <1>1, <1>3, <1>4 DEF Apart

\* The request under way can be given up.
LEMMA CurAhead ==
  ASSUME QTypes, CopyInv, OrderInv, pc = "sent"
  PROVE  Apart(cur.ret, unread) /\ AheadOf(cur.ret, Owed, entered, unread)
<1>1. cur.ret = ret \/ cur.ret = <<>>
  BY DEF CopyInv
<1>2. raw = <<>> /\ ret \in Seq(Lines)
  BY DEF CopyInv, QTypes
<1>3. ret \o raw = ret
  BY <1>2, ConcatEmptySeq
<1>4. Owed \in Seq(Retained)
  BY OwedApart
<1>5. CASE cur.ret = <<>>
  <2>1. Apart(<<>>, unread)
    BY ToSetEmpty DEF Apart, IsInjective
  <2>2. AheadOf(<<>>, Owed, entered, unread)
    BY <1>4, AheadEmpty
  <2> QED BY <1>5, <2>1, <2>2
<1>6. CASE cur.ret = ret /\ loaded
  <2>1. Owed = New(ret \o raw, entered)
    BY <1>6, OwedIs DEF Held
  <2>2. AheadOf(ret, New(ret \o raw, entered), entered, unread)
    BY <1>2, AheadSelf DEF QTypes
  <2> QED BY <1>3, <1>6, <2>1, <2>2 DEF OrderInv
<1> QED BY <1>1, <1>5, <1>6 DEF OrderInv

\* So the requests given up stay ahead.
LEMMA AbandonAhead ==
  ASSUME QTypes, CopyInv, OrderInv, pc = "sent", Abandon
  PROVE  StraysAhead(strays', Owed, entered, unread)
<1>1. CASE strays' = strays
  BY <1>1 DEF OrderInv
<1>2. CASE strays' = Append(strays, cur)
  <2>1. Apart(cur.ret, unread) /\ AheadOf(cur.ret, Owed, entered, unread)
    BY CurAhead
  <2>2. StraysAhead(strays, Owed, entered, unread)
    BY DEF OrderInv
  <2>3. \A i \in 1 .. Len(strays') : strays'[i] = cur \/ (i \in 1 .. Len(strays) /\ strays'[i] = strays[i])
    BY <1>2 DEF QTypes
  <2> QED BY <2>1, <2>2, <2>3 DEF StraysAhead
<1> QED BY <1>1, <1>2 DEF Abandon

(***************************************************************************)
(* The steps that Delivery does not see.                                   *)
(***************************************************************************)
\* Nothing changes of what is owed, entered or to be read, and the buffer and the file are as
\* the invariant has them.
Quiet ==
  /\ Owed' = Owed /\ UNCHANGED <<entered, log, unread>>
  /\ pc' \in {"wait", "read", "sort"} => loaded'
  /\ ~loaded' => ret' = <<>> /\ raw' = <<>>
  /\ Apart(ret' \o raw', unread) /\ Apart(file'.lines, unread)
  /\ loaded' => Starts(New(file'.lines, entered), Owed)
  /\ StraysAhead(strays', Owed, entered, unread)

\* Such a step keeps the invariant, and is none of Delivery's.
LEMMA QuietKeeps ==
  ASSUME QTypes, QTypes', OrderInv, Quiet
  PROVE  OrderInv' /\ UNCHANGED <<Owed, log, Lost>>
<1>1. Lost' = Lost
  BY OwedIs, OwedIsNext DEF Quiet
<1>2. OrderInv'
  BY DEF Quiet, OrderInv
<1> QED BY <1>1, <1>2 DEF Quiet

\* The same lines held are the same lines owed.
LEMMA SameOwed ==
  ASSUME QTypes, QTypes', UNCHANGED entered, Held' = Held
  PROVE  Owed' = Owed
BY OwedIs, OwedIsNext

\* Steps that touch neither the buffer nor the file.
LEMMA QuietElsewhere ==
  ASSUME QTypes, QTypes', CopyInv, OrderInv,
         UNCHANGED vars \/ TryAgain \/ Start \/ Offline \/ Send \/ Retry \/ GiveUp
         \/ AnswerResync \/ Post \/ TakePatches
  PROVE  Quiet
<1> USE DEF buffer, disk, wire, kiosk, server, unserved
<1>1. UNCHANGED <<loaded, ret, raw, file, entered, log, unread>>
  BY DEF vars, TryAgain, Start, Offline, Send, Retry, GiveUp, Failed, AnswerResync, Post, NewMessage,
     TakePatches
<1>2. Owed' = Owed
  BY <1>1, SameOwed DEF Held
<1>3. pc' \in {"wait", "read", "sort"} => loaded
  BY DEF vars, TryAgain, Start, Offline, Send, Retry, GiveUp, Failed, AnswerResync, Post,
     TakePatches, OrderInv
<1>4. strays' = strays \/ (pc = "sent" /\ Abandon)
  BY DEF vars, TryAgain, Start, Offline, Send, Retry, GiveUp, AnswerResync, Post, TakePatches
<1>5. StraysAhead(strays', Owed, entered, unread)
  BY <1>4, AbandonAhead DEF OrderInv
<1> QED BY <1>1, <1>2, <1>3, <1>5 DEF Quiet, OrderInv

\* The beginning of what is held is the beginning of what is owed.
LEMMA StartsHeld ==
  ASSUME NEW s \in Seq(Lines), NEW t \in Seq(Lines), NEW e
  PROVE  Starts(New(s, e), New(s \o t, e))
<1> DEFINE k == New(s, e)
           m == New(t, e)
<1>1. New(s \o t, e) = k \o m
  BY NewConcat
<1>2. m \in Seq(Retained)
  BY NewIs
<1> HIDE DEF m
<1> QED BY <1>1, <1>2 DEF Starts

\* Nothing is the beginning of everything, and everything its own.
LEMMA StartsEmpty ==
  ASSUME NEW o \in Seq(Retained), NEW e
  PROVE  Starts(New(<<>>, e), o)
<1>1. New(<<>>, e) = <<>> /\ o = <<>> \o o
  BY KeptEmpty, ConcatEmptySeq DEF New
<1> QED BY <1>1 DEF Starts

\* A sequence is its own beginning.
LEMMA StartsSelf ==
  ASSUME NEW o \in Seq(Retained)
  PROVE  Starts(o, o)
<1>1. o = o \o <<>> /\ <<>> \in Seq(Retained)
  BY ConcatEmptySeq
<1> QED BY <1>1 DEF Starts

\* No lines are different and not to be read.
LEMMA EmptyApart == \A u : Apart(<<>>, u)
BY ToSetEmpty DEF Apart, IsInjective

\* Of joined lines that are apart each is.
LEMMA ApartParts ==
  ASSUME NEW s \in Seq(Lines), NEW t \in Seq(Lines), NEW u, Apart(s \o t, u)
  PROVE  Apart(s, u) /\ Apart(t, u)
BY DifferentConcat, ToSetConcat DEF Apart

\* Steps that save what is held, or remove the file.
LEMMA QuietSaves ==
  ASSUME QTypes, QTypes', CopyInv, OrderInv, EndSort \/ Resynced \/ PowerAlarm \/ PowerOK
  PROVE  Quiet
<1> USE DEF buffer, disk, wire, kiosk, server
<1>1. UNCHANGED <<loaded, ret, raw, entered, log, unread, strays>>
  BY DEF EndSort, Resynced, PowerAlarm, PowerOK
<1>2. loaded \/ file' = file
  BY DEF EndSort, Resynced, PowerAlarm, PowerOK, UpdateSaveState
<1>3. Owed' = Owed
  BY <1>1, <1>2, SameOwed DEF Held
<1>4. pc' \in {"wait", "read", "sort"} => loaded
  BY DEF EndSort, Resynced, PowerAlarm, PowerOK, OrderInv
<1>5. ret \in Seq(Lines) /\ raw \in Seq(Lines)
  BY DEF QTypes
<1>6. file' = file \/ file'.lines = <<>> \/ file'.lines = ret \/ file'.lines = ret \o raw
  BY DEF EndSort, Resynced, PowerAlarm, PowerOK, UpdateSaveState, Save, Counted, NoFile
<1>7. Apart(file'.lines, unread)
  BY <1>5, <1>6, EmptyApart, ApartParts DEF OrderInv
<1>8. ASSUME loaded PROVE Starts(New(file'.lines, entered), Owed)
  <2>1. Owed = New(ret \o raw, entered) /\ Owed \in Seq(Retained)
    BY <1>8, OwedIs, OwedApart DEF Held
  <2>2. Starts(New(ret, entered), Owed)
    BY <1>5, <2>1, StartsHeld
  <2>3. Starts(New(ret \o raw, entered), Owed)
    BY <2>1, StartsSelf
  <2>4. Starts(New(<<>>, entered), Owed)
    BY <2>1, StartsEmpty
  <2> QED BY <1>6, <1>8, <2>2, <2>3, <2>4 DEF OrderInv
<1> QED BY <1>1, <1>3, <1>4, <1>7, <1>8 DEF Quiet, OrderInv

\* The file is read; what it had is in the buffer.
LEMMA QuietLoad == ASSUME QTypes, QTypes', CopyInv, OrderInv, Load PROVE Quiet
<1> USE DEF disk, wire, kiosk, server
<1>1. ~loaded /\ raw = <<>> /\ loaded'
  BY DEF Load, CopyInv, OrderInv
<1>2. ret' = file.lines /\ raw' = <<>> /\ file'.lines = <<>> /\ file.lines \in Seq(Lines)
  BY <1>1 DEF Load, NoFile, QTypes
<1>3. UNCHANGED <<entered, log, unread, strays>>
  BY DEF Load
<1>4. ret' \o raw' = file.lines
  BY <1>2, ConcatEmptySeq
<1>5. Owed' = Owed
  <2>1. Held = file.lines /\ Held' = ret' \o raw'
    BY <1>1 DEF Held
  <2> QED BY <1>3, <1>4, <2>1, SameOwed
<1>6. Starts(New(<<>>, entered), Owed)
  BY OwedApart, StartsEmpty
<1> QED BY <1>1, <1>2, <1>3, <1>4, <1>5, <1>6, EmptyApart DEF Quiet, OrderInv

\* Sorting begins: the lines are the same.
LEMMA QuietBeginSort == ASSUME QTypes, QTypes', CopyInv, OrderInv, BeginSort PROVE Quiet
<1> USE DEF disk, wire, kiosk, server
<1>1. ret' \o raw' = ret \o raw /\ UNCHANGED <<loaded, file, entered, log, unread, strays>> /\ loaded
  BY ConcatEmptySeq DEF BeginSort, Unsorted, QTypes, OrderInv
<1>2. Owed' = Owed
  <2>1. Held' = Held
    BY <1>1 DEF Held
  <2> QED BY <1>1, <2>1, SameOwed
<1> QED BY <1>1, <1>2 DEF Quiet, OrderInv

\* Taking a line that is not retained out of a sequence changes nothing of what is new.
LEMMA Dropped ==
  ASSUME NEW s \in Seq(Lines), NEW l \in Lines \ Retained, NEW t \in Seq(Lines), NEW e, NEW u,
         Apart(s \o (<<l>> \o t), u)
  PROVE  Apart(s \o t, u) /\ New(s \o t, e) = New(s \o (<<l>> \o t), e)
<1> DEFINE d == <<l>>
           w == d \o t
<1>1. d \in Seq(Lines) /\ w \in Seq(Lines) /\ ToSet(d) = {l}
  <2>1. ToSet(<<l>>) = {l}
    BY DEF ToSet
  <2> QED BY <2>1
<1>2. New(d, e) = <<>>
  <2>1. ToSet(d) \cap (Retained \ e) = {}
    BY <1>1
  <2> QED BY <1>1, <2>1, KeptNone DEF New
<1>3. Apart(s \o w, u)
  OBVIOUS
<1> HIDE DEF d
<1>4. New(w, e) = New(d, e) \o New(t, e)
  BY <1>1, NewConcat
<1>5. ToSet(w) = ToSet(d) \cup ToSet(t) /\ (IsInjective(w) => IsInjective(t))
  BY <1>1, DifferentConcat, ToSetConcat
<1> HIDE DEF w
<1>6. New(t, e) \in Seq(Retained)
  BY NewIs
<1>7. New(w, e) = New(t, e)
  BY <1>2, <1>4, <1>6, ConcatEmptySeq
<1>8. New(s \o w, e) = New(s, e) \o New(w, e)
  BY <1>1, NewConcat
<1>9. New(s \o t, e) = New(s, e) \o New(t, e)
  BY NewConcat
<1>10. IsInjective(s) /\ IsInjective(w) /\ ToSet(s) \cap ToSet(w) = {}
  BY <1>1, <1>3, DifferentConcat DEF Apart
<1>11. ToSet(s \o w) = ToSet(s) \cup ToSet(w)
  BY <1>1, ToSetConcat
<1>12. IsInjective(s \o t) /\ ToSet(s \o t) = ToSet(s) \cup ToSet(t)
  BY <1>5, <1>10, DifferentConcat, ToSetConcat
<1>13. Apart(s \o t, u)
  BY <1>3, <1>5, <1>11, <1>12 DEF Apart
<1> QED BY <1>7, <1>8, <1>9, <1>13 DEF d, w

\* A line is sorted: a retained one stays where it is, another one is dropped.
LEMMA QuietSortLine == ASSUME QTypes, QTypes', CopyInv, OrderInv, SortLine PROVE Quiet
<1> USE DEF disk, wire, kiosk, server
<1> DEFINE l == Head(raw)
           t == Tail(raw)
<1>1. ret \in Seq(Lines) /\ raw \in Seq(Lines) /\ raw # <<>>
  BY DEF QTypes, SortLine
<1>2. l \in Lines /\ t \in Seq(Lines) /\ raw = <<l>> \o t
  BY <1>1
<1>3. raw' = t /\ ret' = IF l \in Retained THEN Append(ret, l) ELSE ret
  BY DEF SortLine
<1>4. loaded /\ UNCHANGED <<loaded, file, entered, log, unread, strays>>
  BY DEF SortLine, OrderInv
<1> HIDE DEF l, t
<1>5. Held = ret \o raw /\ Held' = ret' \o raw'
  BY <1>4 DEF Held
<1>6. Apart(ret \o raw, unread)
  BY DEF OrderInv
<1>7. Apart(ret' \o raw', unread) /\ New(ret' \o raw', entered) = New(ret \o raw, entered)
  <2>1. CASE l \in Retained
    <3>1. Append(ret, l) \o t = ret \o (<<l>> \o t)
      BY <1>1, <1>2
    <3> QED BY <1>2, <1>3, <1>6, <2>1, <3>1
  <2>2. CASE l \notin Retained
    <3>1. Apart(ret \o (<<l>> \o t), unread) /\ l \in Lines \ Retained
      BY <1>2, <1>6, <2>2
    <3>2. Apart(ret \o t, unread) /\ New(ret \o t, entered) = New(ret \o (<<l>> \o t), entered)
      BY <1>1, <1>2, <3>1, Dropped
    <3> QED BY <1>2, <1>3, <2>2, <3>2
  <2> QED BY <2>1, <2>2
<1>8. Owed' = Owed
  BY <1>4, <1>5, <1>7, OwedIs, OwedIsNext
<1> QED BY <1>4, <1>7, <1>8 DEF Quiet, OrderInv

\* What is accepted has been entered: the buffer owed nothing any more.
LEMMA QuietAccepted == ASSUME QTypes, QTypes', CopyInv, OrderInv, Accepted PROVE Quiet
<1> USE DEF server
<1>1. ret \in Seq(Lines) /\ raw = <<>> /\ raw' = <<>> /\ ret' = <<>>
  BY DEF QTypes, Accepted, CopyInv
<1>2. UNCHANGED <<loaded, entered, log, unread, strays>>
  BY DEF Accepted
<1>3. ToSet(ret) \subseteq entered
  <2>1. Batch(cur) = {} \/ cur.ret # <<>> \/ cur.vol # <<>>
    <3>1. <<>> \o <<>> = <<>>
      OBVIOUS
    <3> QED BY <3>1, ToSetEmpty DEF Batch
  <2> QED BY <2>1 DEF Accepted, CopyInv, Answered
<1>4. ret \o raw = ret /\ ret' \o raw' = <<>>
  BY <1>1, ConcatEmptySeq
<1>5. New(<<>>, entered) = <<>>
  BY KeptEmpty DEF New
<1>6. New(ret, entered) = <<>>
  <2>1. ToSet(ret) \cap (Retained \ entered) = {}
    BY <1>3
  <2> QED BY <1>1, <2>1, KeptNone DEF New
<1>7. loaded \/ file' = file
  BY DEF Accepted, UpdateSaveState
<1>8. file' = file \/ file'.lines = <<>>
  BY DEF Accepted, UpdateSaveState, Save
<1>9. Owed' = Owed
  <2>1. CASE loaded
    BY <1>2, <1>4, <1>5, <1>6, <2>1, OwedIs, OwedIsNext DEF Held
  <2>2. CASE ~loaded
    BY <1>2, <1>7, <2>2, SameOwed DEF Held
  <2> QED BY <2>1, <2>2
<1>10. Starts(New(<<>>, entered), Owed)
  BY OwedApart, StartsEmpty
<1>11. pc' \in {"wait", "read", "sort"} => loaded
  BY DEF Accepted, OrderInv
<1> QED BY <1>1, <1>2, <1>4, <1>8, <1>9, <1>10, <1>11, EmptyApart DEF Quiet, OrderInv

(***************************************************************************)
(* Reading is accepting.                                                   *)
(***************************************************************************)
\* What Delivery knows.
LEMMA KnownIs == D!Known = ToSet(Owed) \cup ToSet(log) \cup Lost
BY DEF D!Known, D!ToSet, ToSet

\* The request that was given up has lines.
LEMMA StrayLines == QTypes => \A i \in 1 .. Len(strays) : strays[i].ret \in Seq(Lines)
<1> SUFFICES ASSUME QTypes, NEW i \in 1 .. Len(strays) PROVE strays[i].ret \in Seq(Lines)
  OBVIOUS
<1>1. strays[i] \in Copies
  BY DEF QTypes
<1> QED BY <1>1 DEF Copies

\* Reading keeps the invariant and is a step of Delivery.
LEMMA ReadStep ==
  ASSUME QTypes, QTypes', CopyInv, OrderInv, Read
  PROVE  OrderInv' /\ D!Accept
<1> USE DEF disk, wire, kiosk, server
<1>1. PICK n \in 1 .. Len(unread) : /\ raw' = SubSeq(unread, 1, n)
                                    /\ unread' = SubSeq(unread, n + 1, Len(unread))
  BY DEF Read
<1> DEFINE new == raw'
           rest == unread'
           s == New(new, entered)
<1>2. new \in Seq(Lines) /\ rest \in Seq(Lines) /\ unread = new \o rest
  BY <1>1, ConcatCut DEF QTypes
<1>3. loaded /\ raw = <<>> /\ UNCHANGED <<loaded, ret, file, strays, entered, log>>
  BY DEF Read, CopyInv, OrderInv
<1> HIDE DEF new, rest
<1>4. ret \in Seq(Lines) /\ ret \o raw = ret
  BY <1>3, ConcatEmptySeq DEF QTypes
<1>5. Apart(ret, unread) /\ IsInjective(unread)
  BY <1>4 DEF OrderInv
<1>6. IsInjective(new) /\ ToSet(new) \cap ToSet(rest) = {}
      /\ ToSet(unread) = ToSet(new) \cup ToSet(rest)
  BY <1>2, <1>5, DifferentConcat, ToSetConcat
<1>7. IsInjective(ret \o new) /\ ToSet(ret \o new) = ToSet(ret) \cup ToSet(new)
  BY <1>2, <1>4, <1>5, <1>6, DifferentConcat, ToSetConcat DEF Apart
<1>8. Apart(ret \o new, rest)
  BY <1>5, <1>6, <1>7 DEF Apart
<1>9. Owed = New(ret, entered) /\ Owed' = New(ret \o new, entered)
  <2>1. Held = ret /\ Held' = ret \o new
    BY <1>3, <1>4 DEF Held, new
  <2> QED BY <1>3, <2>1, OwedIs, OwedIsNext
<1>10. Owed' = Owed \o s
  <2>1. New(ret \o new, entered) = New(ret, entered) \o New(new, entered)
    BY <1>2, <1>4, NewConcat
  <2> QED BY <1>9, <2>1
<1>11. Owed \in Seq(Retained) /\ ToSet(Owed) \cap ToSet(unread) = {}
  BY OwedApart
<1>12. ToSet(log) \subseteq entered /\ entered \cap Retained \cap ToSet(unread) = {}
  BY DEF OrderInv
<1>13. Lost = Missing(entered, unread, Owed) /\ Lost' = Missing(entered, rest, Owed \o s)
  BY <1>3, <1>10, OwedIs, OwedIsNext DEF rest
<1>14. /\ s \in D!SetToAllKPermutations(
                  Retained \ (ToSet(Owed) \cup ToSet(log) \cup Missing(entered, unread, Owed)))
       /\ Missing(entered, rest, Owed \o s) = Missing(entered, unread, Owed)
  BY <1>2, <1>5, <1>11, <1>12, ReadAccepts
<1>15. s \in Seq(Retained) /\ ToSet(s) \cup ToSet(rest) \subseteq ToSet(unread)
  <2>1. s \in Seq(Retained) /\ ToSet(s) \subseteq ToSet(new)
    BY <1>2, NewIs
  <2> QED BY <1>6, <2>1
<1> HIDE DEF s
<1>16. D!Accept
  <2>1. s \in D!SetToAllKPermutations(Retained \ D!Known)
    BY <1>13, <1>14, KnownIs
  <2> QED BY <1>3, <1>10, <1>13, <1>14, <2>1 DEF D!Accept
<1>17. OrderInv'
  <2>1. pc' \in {"wait", "read", "sort"} => loaded'
    BY <1>3
  <2>2. IsInjective(rest) /\ Apart(file.lines, rest)
    <3>1. Apart(file.lines, unread)
      BY DEF OrderInv
    <3> QED BY <1>2, <1>5, <1>6, <3>1, DifferentConcat DEF Apart
  <2>3. StraysAhead(strays, Owed \o s, entered, rest)
    <3> SUFFICES ASSUME NEW i \in 1 .. Len(strays)
                 PROVE  Apart(strays[i].ret, rest) /\ AheadOf(strays[i].ret, Owed \o s, entered, rest)
      BY DEF StraysAhead
    <3>1. Apart(strays[i].ret, unread) /\ AheadOf(strays[i].ret, Owed, entered, unread)
      BY DEF OrderInv, StraysAhead
    <3>2. strays[i].ret \in Seq(Lines)
      BY StrayLines
    <3>3. Apart(strays[i].ret, rest)
      BY <1>6, <3>1 DEF Apart
    <3>4. AheadOf(strays[i].ret, Owed \o s, entered, rest)
      BY <1>11, <1>15, <3>1, <3>2, AheadRead
    <3> QED BY <3>3, <3>4
  <2>4. entered \cap Retained \cap ToSet(rest) = {}
    BY <1>6, <1>12
  <2>5. Starts(New(file.lines, entered), Owed \o s)
    <3>1. PICK r \in Seq(Retained) : Owed = New(file.lines, entered) \o r
      BY <1>3 DEF OrderInv, Starts
    <3>2. New(file.lines, entered) \in Seq(Retained)
      BY NewIs DEF QTypes
    <3>3. Owed \o s = New(file.lines, entered) \o (r \o s) /\ r \o s \in Seq(Retained)
      <4>1. r \o s \in Seq(Retained)
        BY <1>15
      <4> DEFINE q == New(file.lines, entered)
                 o == Owed
                 w == Owed \o s
      <4>2. q \in Seq(Retained) /\ s \in Seq(Retained) /\ o = q \o r /\ w = o \o s
        BY <1>15, <3>1, <3>2
      <4> HIDE DEF q, o, w
      <4>3. w = q \o (r \o s)
        BY <4>2, Regroup
      <4> QED BY <4>1, <4>3 DEF q, o, w
    <3> QED BY <3>3 DEF Starts
  <2>6. Apart(ret' \o raw', rest)
    BY <1>3, <1>8 DEF new
  <2> QED BY <1>3, <1>10, <1>12, <2>1, <2>2, <2>3, <2>4, <2>5, <2>6 DEF OrderInv, rest
<1> QED BY <1>16, <1>17

(***************************************************************************)
(* Entering.                                                               *)
(***************************************************************************)
\* A server that enters lines that are ahead keeps the invariant, and that is a step of
\* Delivery.
LEMMA EnterStep ==
  ASSUME QTypes, QTypes', RestTypes, OrderInv, NEW d \in Seq(Lines),
         Apart(d, unread), AheadOf(d, Owed, entered, unread),
         entered \subseteq entered',
         entered' \cap Retained = (entered \cup ToSet(d)) \cap Retained,
         log' = log \o FirstTimes(d), UNCHANGED <<pc, loaded, ret, raw, file, unread>>,
         ToSet(strays') \subseteq ToSet(strays)
  PROVE  OrderInv' /\ D!Enter
<1> DEFINE f == entered'
<1>1. /\ Owed \in Seq(Retained) /\ IsInjective(Owed)
      /\ ToSet(Owed) \cap entered = {} /\ ToSet(Owed) \cap ToSet(unread) = {}
  BY OwedApart
<1>2. FirstTimes(d) = New(d, entered)
  BY DEF FirstTimes, New
<1>3. Owed' = New(Owed, f)
  <2>1. Held' = Held
    BY DEF Held
  <2>2. Owed' = New(Held, f) /\ Owed = New(Held, entered) /\ Held \in Seq(Lines)
    BY <2>1, OwedIs, OwedIsNext
  <2>3. New(Held, f) = New(New(Held, entered), f)
    BY <2>2, NewLess
  <2> QED BY <2>2, <2>3
<1>4. Lost = Missing(entered, unread, Owed) /\ Lost' = Missing(f, unread, Owed')
  BY OwedIs, OwedIsNext
<1>5. f \cap Retained = (entered \cup ToSet(d)) \cap Retained /\ entered \subseteq f
  OBVIOUS
<1> HIDE DEF f
<1>6. PICK n \in 0 .. Len(Owed), x \in D!SetToAllKPermutations(Missing(entered, unread, Owed)) :
         /\ x \in Seq(Retained) /\ New(d, entered) = SubSeq(Owed, 1, n) \o x
         /\ New(Owed, f) = SubSeq(Owed, n + 1, Len(Owed))
         /\ Missing(f, unread, New(Owed, f)) = Missing(entered, unread, Owed) \ ToSet(x)
  <2>1. Enters(d, Owed, entered, f, unread)
    BY <1>1, <1>5, EnterAhead
  <2> QED BY <2>1 DEF Enters
<1>7. D!Enter
  <2>1. log \o (SubSeq(Owed, 1, n) \o x) = log \o SubSeq(Owed, 1, n) \o x
    <3> DEFINE a == SubSeq(Owed, 1, n)
    <3>1. a \in Seq(Retained)
      BY <1>1, ConcatCut
    <3>2. log \in Seq(Retained) /\ x \in Seq(Retained)
      BY <1>6 DEF RestTypes
    <3> HIDE DEF a
    <3>3. (log \o a) \o x = log \o (a \o x)
      BY <3>1, <3>2, Regroup
    <3> QED BY <3>3 DEF a
  <2>2. log' = log \o SubSeq(Owed, 1, n) \o x
    BY <1>2, <1>6, <2>1
  <2>3. ToSet(x) = D!ToSet(x)
    BY DEF ToSet, D!ToSet
  <2> QED BY <1>3, <1>4, <1>6, <2>2, <2>3 DEF D!Enter
<1>8. OrderInv'
  <2>1. f \cap Retained \cap ToSet(unread) = {}
    BY <1>5 DEF OrderInv, Apart
  <2>2. ToSet(log') \subseteq f
    <3>1. New(d, entered) \in Seq(Retained) /\ ToSet(New(d, entered)) = ToSet(d) \cap (Retained \ entered)
      BY NewIs
    <3>2. ToSet(log \o New(d, entered)) = ToSet(log) \cup ToSet(New(d, entered))
      BY <3>1, ToSetConcat DEF RestTypes
    <3> QED BY <1>2, <1>5, <3>1, <3>2 DEF OrderInv
  <2>3. StraysAhead(strays', Owed', f, unread)
    <3> SUFFICES ASSUME NEW i \in 1 .. Len(strays')
                 PROVE  Apart(strays'[i].ret, unread) /\ AheadOf(strays'[i].ret, Owed', f, unread)
      BY DEF StraysAhead
    <3>1. strays'[i] \in ToSet(strays')
      <4>1. i \in DOMAIN strays'
        BY DEF QTypes
      <4> QED BY <4>1 DEF ToSet
    <3>2. PICK k \in 1 .. Len(strays) : strays'[i] = strays[k]
      <4>1. DOMAIN strays = 1 .. Len(strays)
        BY DEF QTypes
      <4>2. strays'[i] \in ToSet(strays)
        BY <3>1
      <4> QED BY <4>1, <4>2, Zenon DEF ToSet
    <3>3. Apart(strays[k].ret, unread) /\ AheadOf(strays[k].ret, Owed, entered, unread)
      BY DEF OrderInv, StraysAhead
    <3>4. strays[k].ret \in Seq(Lines)
      BY StrayLines
    <3>5. AheadOf(strays[k].ret, New(Owed, f), f, unread)
      BY <1>1, <1>5, <3>3, <3>4, AheadEntered
    <3> QED BY <1>3, <3>2, <3>3, <3>5
  <2>4. loaded => Starts(New(file.lines, f), Owed')
    <3>1. file.lines \in Seq(Lines)
      BY DEF QTypes
    <3> QED BY <1>1, <1>3, <1>5, <3>1, StartsEntered DEF OrderInv
  <2>5. pc \in {"wait", "read", "sort"} => loaded
    BY DEF OrderInv
  <2>6. (~loaded => ret = <<>> /\ raw = <<>>)
        /\ IsInjective(unread) /\ Apart(ret \o raw, unread) /\ Apart(file.lines, unread)
    BY DEF OrderInv
  <2> QED BY <2>1, <2>2, <2>3, <2>4, <2>5, <2>6 DEF OrderInv, f
<1> QED BY <1>7, <1>8

\* A request whose lines are ahead may be entered, wholly or as far as the script gets.
LEMMA EntersOrdered ==
  ASSUME QTypes, QTypes', RestTypes, OrderInv, NEW c \in Copies, Apart(c.ret, unread),
         AheadOf(c.ret, Owed, entered, unread), Enter(c) \/ RollBack(c),
         UNCHANGED <<pc, loaded, ret, raw, file, unread>>, ToSet(strays') \subseteq ToSet(strays)
  PROVE  OrderInv' /\ D!Enter
<1>1. c.ret \in Seq(Lines) /\ c.vol \in Seq(Volatile)
  BY DEF Copies
<1>2. CASE Enter(c)
  <2>1. c.vol \in Seq(Lines)
    BY <1>1 DEF Lines
  <2>2. ToSet(c.vol) \cap Retained = {}
    <3>1. ToSet(c.vol) \subseteq Volatile
      BY <1>1, ToSetIn
    <3> QED BY <3>1, KindsDisjoint
  <2>3. Batch(c) = ToSet(c.ret) \cup ToSet(c.vol)
    BY <1>1, <2>1, ToSetConcat DEF Batch
  <2>4. /\ entered \subseteq entered' /\ log' = log \o FirstTimes(c.ret)
        /\ entered' \cap Retained = (entered \cup ToSet(c.ret)) \cap Retained
    BY <1>2, <2>2, <2>3 DEF Enter
  <2> QED BY <1>1, <2>4, EnterStep
<1>3. CASE RollBack(c)
  <2>1. PICK n \in 0 .. Len(c.ret) : /\ entered' = entered \cup ToSet(SubSeq(c.ret, 1, n))
                                     /\ log' = log \o FirstTimes(SubSeq(c.ret, 1, n))
    BY <1>3 DEF RollBack
  <2> DEFINE d == SubSeq(c.ret, 1, n)
             z == SubSeq(c.ret, n + 1, Len(c.ret))
  <2>2. d \in Seq(Lines) /\ z \in Seq(Lines) /\ c.ret = d \o z
    BY <1>1, ConcatCut
  <2>3. /\ entered \subseteq entered' /\ log' = log \o FirstTimes(d)
        /\ entered' \cap Retained = (entered \cup ToSet(d)) \cap Retained
    BY <2>1
  <2> HIDE DEF d, z
  <2>4. Apart(d, unread)
    <3>1. Apart(d \o z, unread)
      BY <2>2
    <3> QED BY <2>2, <3>1, ApartParts
  <2>5. AheadOf(d, Owed, entered, unread)
    <3>1. AheadOf(d \o z, Owed, entered, unread)
      BY <2>2
    <3>2. Owed \in Seq(Retained)
      BY OwedApart
    <3> QED BY <2>2, <3>1, <3>2, AheadCut
  <2> QED BY <2>2, <2>3, <2>4, <2>5, EnterStep
<1> QED BY <1>2, <1>3

\* So may the request under way and any that was given up.
LEMMA ServerStep ==
  ASSUME QTypes, QTypes', RestTypes, CopyInv, OrderInv, AnswerOk \/ AnswerError \/ ServeStray
  PROVE  OrderInv' /\ D!Enter
<1> USE DEF buffer, disk, wire, kiosk, unserved
<1>1. CASE AnswerOk \/ AnswerError
  <2>1. Enter(cur) \/ RollBack(cur)
    BY <1>1 DEF AnswerOk, AnswerError
  <2>2. pc = "sent" /\ UNCHANGED <<pc, loaded, ret, raw, file, unread, strays>>
    BY <1>1 DEF AnswerOk, AnswerError, Waiting
  <2>3. Apart(cur.ret, unread) /\ AheadOf(cur.ret, Owed, entered, unread)
    BY <2>2, CurAhead
  <2>4. cur \in Copies
    BY DEF QTypes
  <2> QED BY <2>1, <2>2, <2>3, <2>4, EntersOrdered
<1>2. CASE ServeStray
  <2>1. PICK i \in 1 .. Len(strays) :
           strays' = RemoveAt(strays, i) /\ (Enter(strays[i]) \/ RollBack(strays[i]))
    BY <1>2 DEF ServeStray
  <2>2. ToSet(strays') \subseteq ToSet(strays)
    BY <2>1, RemoveAtType DEF QTypes
  <2>3. UNCHANGED <<pc, loaded, ret, raw, file, unread>>
    BY <1>2 DEF ServeStray
  <2>4. Apart(strays[i].ret, unread) /\ AheadOf(strays[i].ret, Owed, entered, unread)
    BY DEF OrderInv, StraysAhead
  <2>5. strays[i] \in Copies
    BY DEF QTypes
  <2> QED BY <2>1, <2>2, <2>3, <2>4, <2>5, EntersOrdered
<1> QED BY <1>1, <1>2

(***************************************************************************)
(* Crashing.                                                               *)
(***************************************************************************)
\* A crash keeps the invariant and is a step of Delivery.
LEMMA CrashStep ==
  ASSUME QTypes, QTypes', CopyInv, OrderInv, Term \/ Kill
  PROVE  OrderInv' /\ D!Crash
<1> USE DEF disk, wire, kiosk, server
<1>1. Dies
  BY DEF Term, Kill
<1>2. /\ pc' = "down" /\ loaded' = FALSE /\ ret' = <<>> /\ raw' = <<>>
      /\ UNCHANGED <<entered, log, unread>>
      /\ (strays' = strays \/ (pc = "sent" /\ Abandon))
  BY <1>1 DEF Dies
<1>3. /\ Owed \in Seq(Retained) /\ IsInjective(Owed)
      /\ ToSet(Owed) \cap entered = {} /\ ToSet(Owed) \cap ToSet(unread) = {}
  BY OwedApart
<1>4. ret \in Seq(Lines) /\ raw \in Seq(Lines) /\ file'.lines \in Seq(Lines)
  BY DEF QTypes
<1>5. Owed' = New(file'.lines, entered)
  BY <1>2, OwedIsNext DEF Held
<1>6. file' = file \/ (loaded /\ (file'.lines = ret \/ file'.lines = ret \o raw))
  BY DEF Term, Kill, Save, Counted
<1>7. Apart(file'.lines, unread)
  BY <1>4, <1>6, ApartParts DEF OrderInv
<1>8. Starts(Owed', Owed)
  <2>1. CASE ~loaded
    <3>1. Owed' = Owed
      BY <1>5, <1>6, <2>1, OwedIs DEF Held
    <3> QED BY <1>3, <3>1, StartsSelf
  <2>2. CASE loaded /\ file' = file
    BY <1>5, <2>2 DEF OrderInv
  <2>3. CASE loaded /\ file'.lines = ret
    <3>1. Owed = New(ret \o raw, entered)
      BY <2>3, OwedIs DEF Held
    <3> QED BY <1>4, <1>5, <2>3, <3>1, StartsHeld
  <2>4. CASE loaded /\ file'.lines = ret \o raw
    <3>1. Owed' = Owed
      BY <1>5, <2>4, OwedIs DEF Held
    <3> QED BY <1>3, <3>1, StartsSelf
  <2> QED BY <1>6, <2>1, <2>2, <2>3, <2>4
<1>9. Owed' \in Seq(Retained)
  BY <1>4, <1>5, NewIs
<1>10. D!Crash
  <2> DEFINE o2 == Owed'
  <2>1. o2 \in Seq(Retained) /\ Starts(o2, Owed)
    BY <1>8, <1>9
  <2>2. Lost = Missing(entered, unread, Owed) /\ Lost' = Missing(entered, unread, o2)
    BY <1>2, OwedIs, OwedIsNext
  <2> HIDE DEF o2
  <2>3. \E n \in 0 .. Len(Owed) :
           /\ o2 = SubSeq(Owed, 1, n)
           /\ Missing(entered, unread, o2)
              = Missing(entered, unread, Owed) \cup ToSet(SubSeq(Owed, n + 1, Len(Owed)))
    BY <1>3, <2>1, CrashLoses
  <2>4. \A s : ToSet(s) = D!ToSet(s)
    BY DEF ToSet, D!ToSet
  <2> QED BY <1>2, <2>2, <2>3, <2>4 DEF D!Crash, o2
<1>11. StraysAhead(strays', Owed', entered, unread)
  <2>1. StraysAhead(strays', Owed, entered, unread)
    BY <1>2, AbandonAhead DEF OrderInv
  <2> SUFFICES ASSUME NEW i \in 1 .. Len(strays')
               PROVE  Apart(strays'[i].ret, unread) /\ AheadOf(strays'[i].ret, Owed', entered, unread)
    BY DEF StraysAhead
  <2>2. Apart(strays'[i].ret, unread) /\ AheadOf(strays'[i].ret, Owed, entered, unread)
    BY <2>1 DEF StraysAhead
  <2>3. strays'[i].ret \in Seq(Lines)
    <3>1. strays'[i] \in Copies
      BY DEF QTypes
    <3> QED BY <3>1 DEF Copies
  <2>4. AheadOf(strays'[i].ret, Owed', entered, unread)
    BY <1>3, <1>8, <1>9, <2>2, <2>3, AheadCrash
  <2> QED BY <2>2, <2>4
<1>12. Apart(<<>> \o <<>>, unread)
  <2>1. <<>> \o <<>> = <<>>
    OBVIOUS
  <2> QED BY <2>1, EmptyApart
<1>13. OrderInv'
  BY <1>2, <1>7, <1>11, <1>12 DEF OrderInv
<1> QED BY <1>10, <1>13

(***************************************************************************)
(* The refinement.                                                         *)
(***************************************************************************)
\* Every step keeps the invariant, and is a step of Delivery or none.
LEMMA NextOrder ==
  ASSUME QTypes, QTypes', RestTypes, CopyInv, OrderInv, [Next]_vars
  PROVE  OrderInv' /\ [D!Next]_<<Owed, log, Lost>>
<1>1. CASE Read
  BY <1>1, ReadStep DEF D!Next
<1>2. CASE AnswerOk \/ AnswerError \/ ServeStray
  BY <1>2, ServerStep DEF D!Next
<1>3. CASE Term \/ Kill
  BY <1>3, CrashStep DEF D!Next
<1>4. CASE UNCHANGED vars \/ Daemon \/ Exchange \/ AnswerResync \/ Post \/ TakePatches
           \/ PowerAlarm \/ PowerOK
  <2>1. Quiet
    BY <1>4, QuietElsewhere, QuietSaves, QuietLoad, QuietBeginSort, QuietSortLine, QuietAccepted
       DEF Daemon, Exchange
  <2> QED BY <2>1, QuietKeeps
<1> QED BY <1>1, <1>2, <1>3, <1>4 DEF Next, Server, Faults

\* Nothing is owed, entered or lost at the start, when every retained line is still to come.
LEMMA InitOrder ==
  ASSUME Init, \A w \in Writes : Retained \subseteq ToSet(w)
  PROVE  OrderInv /\ D!Init
<1>1. QTypes
  BY InitTypes
<1>2. /\ ~loaded /\ pc = "send" /\ ret = <<>> /\ raw = <<>> /\ file.lines = <<>> /\ strays = <<>>
      /\ entered = {} /\ log = <<>> /\ unread \in Writes
  BY DEF Init, InitServer, NoFile
<1>3. Owed = <<>>
  BY <1>1, <1>2, OwedIs, KeptEmpty DEF Held, New
<1>4. Lost = {}
  BY <1>2 DEF Lost
<1>5. Apart(<<>>, unread) /\ <<>> \o <<>> = <<>> /\ Len(<<>>) = 0
  BY EmptyApart
<1>6. IsInjective(unread)
  BY <1>2, Bounds
<1>7. StraysAhead(strays, Owed, entered, unread)
  BY <1>2, <1>5 DEF StraysAhead
<1>8. OrderInv
  BY <1>2, <1>5, <1>6, <1>7, ToSetEmpty DEF OrderInv
<1> QED BY <1>2, <1>3, <1>4, <1>8 DEF D!Init

\* When what is retained is what is written to the FIFO, the daemon and the server do what
\* Delivery asks of them: the lines are entered in the order in which the daemon read them,
\* each for a first time once, through timeouts, requests given up here and not there,
\* resyncs, sorts, alarms and restarts (sendMessage, process_resp, reshuffle_message,
\* do_request).
THEOREM Ordered ==
  ASSUME \A w \in Writes : Retained \subseteq ToSet(w)
  PROVE  SafeSpec => InOrder
<1> DEFINE Inv == QTypes /\ RestTypes /\ CopyInv /\ OrderInv
<1>1. Init => Inv /\ D!Init
  <2>1. Init => QTypes /\ RestTypes
    BY InitRest, InitTypes
  <2>2. Init => CopyInv
    BY DEF Init, CopyInv, Answered
  <2> QED BY <2>1, <2>2, InitOrder
<1>2. Inv /\ [Next]_vars => Inv' /\ [D!Next]_<<Owed, log, Lost>>
  <2>1. QTypes /\ RestTypes /\ CopyInv /\ [Next]_vars => QTypes' /\ RestTypes' /\ CopyInv'
    BY NextTypes, NextRest, NextCopy
  <2> QED BY <2>1, NextOrder
<1> QED BY <1>1, <1>2, PTL DEF SafeSpec, InOrder, D!Spec
=============================================================================
