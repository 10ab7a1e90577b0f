------------------------ MODULE ServerLedger_proofs -------------------------
(***************************************************************************)
(* The books of the server, for any customer, prices and number of times   *)
(* the same lines come.                                                    *)
(*                                                                         *)
(* Kinds of rows are kept by every line (LedgerTypes).  BooksInv says whose *)
(* the books are: only a member whose the card is has sales and pays for   *)
(* them.  With it                                                          *)
(*   - a new member's line makes one member (MadeInv);                     *)
(*   - a payment covers what the sales are short of or is used up, so that *)
(*     what they are short of is owed (Owed);                              *)
(*   - a capture that comes again is identical to the row it made, because *)
(*     no other line of its transaction can have taken the row's place, so *)
(*     that the credit is the balance (CaptureInv, Balanced).              *)
(***************************************************************************)
EXTENDS ServerLedger, FoldLemmas

(***************************************************************************)
(* Kinds of rows, sessions and lines.                                      *)
(***************************************************************************)
Items == {"fuel", "renewal", "upgrade", "membership"}
Statuses == {"PREAUTH", "CAPTURED", "VOIDED", "ERROR"}
MemberRecords ==
  [type : MemberTypes \cup {"none"}, status : MemberStatuses \cup {"none"}, credit : Int,
   renewed : Nat, expires : Nat]
SaleRecords == [item : Items, amount : Nat \ {0}, credit : Nat, paidBy : Nat, at : Nat]
RowRecords ==
  [hold : Holds, status : Statuses, amount : Nat, owner : {"customer", "nobody"}, at : Nat,
   known : BOOLEAN]
SaleLines == [kind : {"sale"}, item : Items, amount : Nat \ {0}, at : Nat]
CardLines ==
  [kind : {"cc"}, hold : Holds, status : Statuses, amount : Nat, owner : {"customer", "nobody"},
   at : Nat]
JoinLines == [kind : {"new_memb"}, type : {"FULL", "ONE-DAY"}, hold : Holds]

Sessions == [who : {"nobody", "new", "member"}, fuel : BOOLEAN, renewal : BOOLEAN, upgrade : BOOLEAN]

\* The books.
BookTypes ==
  /\ member \in MemberRecords
  /\ card \in {"unseen", "nobody", "member", "gone"}
  /\ sales \in Seq(SaleRecords) /\ rows \in Seq(RowRecords)
  /\ \A i \in 1 .. Len(sales) : sales[i].credit <= sales[i].amount /\ sales[i].paidBy <= Len(rows)
  /\ made \in Nat

LedgerTypes ==
  /\ BookTypes
  /\ now \in Nat
  /\ session \in Sessions
  /\ holds \in [Holds -> Statuses \cup {"none"}]
  /\ sent \subseteq SaleLines \cup CardLines \cup JoinLines

(***************************************************************************)
(* Sales.                                                                  *)
(***************************************************************************)
\* Memberships change only in fields of their kind.
LEMMA ActivatedRecord ==
  ASSUME NEW m \in MemberRecords, now \in Nat
  PROVE  /\ Activated(m) \in MemberRecords
         /\ Activated(m).credit = m.credit /\ Activated(m).type = m.type
<1> DEFINE active == [m EXCEPT !.status = IF @ = "PENDING" THEN "ACTIVE" ELSE @]
<1>s. "ACTIVE" \in MemberStatuses
  BY DEF MemberStatuses
<1>1. active \in MemberRecords /\ active.credit = m.credit /\ active.type = m.type
  <2>1. PICK status \in MemberStatuses \cup {"none"} : active = [m EXCEPT !.status = status]
    <3>1. m.status \in MemberStatuses \cup {"none"} /\ active = [m EXCEPT !.status = IF m.status = "PENDING" THEN "ACTIVE" ELSE m.status]
      BY DEF MemberRecords
    <3> QED BY <1>s, <3>1
  <2> QED BY <2>1 DEF MemberRecords
<1>2. Activated(m) = IF active.status = "PENDING" /\ active.type = "ONE-DAY"
                     THEN [active EXCEPT !.status = "ACTIVE", !.renewed = now] ELSE active
  BY DEF Activated
<1> HIDE DEF active
<1>3. [active EXCEPT !.status = "ACTIVE", !.renewed = now] \in MemberRecords
      /\ [active EXCEPT !.status = "ACTIVE", !.renewed = now].credit = active.credit
      /\ [active EXCEPT !.status = "ACTIVE", !.renewed = now].type = active.type
  <2>1. PICK status \in MemberStatuses \cup {"none"} : status = "ACTIVE"
    BY <1>s
  <2>2. [active EXCEPT !.status = status, !.renewed = now] \in MemberRecords
      /\ [active EXCEPT !.status = status, !.renewed = now].credit = active.credit
      /\ [active EXCEPT !.status = status, !.renewed = now].type = active.type
    BY <1>1 DEF MemberRecords
  <2> QED BY <2>1, <2>2
<1> QED BY <1>1, <1>2, <1>3

\* A renewal or upgrade leaves the credit alone.
LEMMA RenewedRecord ==
  ASSUME NEW m \in MemberRecords, now \in Nat, NEW item
  PROVE  /\ RenewedMember(m, item) \in MemberRecords
         /\ RenewedMember(m, item).credit = m.credit
         /\ RenewedMember(m, item).type \in {"FULL", m.type}
<1>1. now + Year \in Nat /\ m.expires + Year \in Nat
  BY Units DEF MemberRecords
<1>2. PICK type \in {"FULL", m.type}, expires \in Nat, renewed \in Nat, status \in MemberStatuses \cup {"none"} :
        RenewedMember(m, item) =
          [m EXCEPT !.type = type, !.expires = expires, !.renewed = renewed, !.status = status]
  <2>1. m.expires \in Nat /\ m.renewed \in Nat /\ m.status \in MemberStatuses \cup {"none"}
    BY DEF MemberRecords
  <2>2. \E grace, dues, free : RenewedMember(m, item) =
          [m EXCEPT
            !.type = IF item = "upgrade" THEN "FULL" ELSE m.type,
            !.expires = IF ~dues THEN m.expires ELSE IF grace THEN m.expires + Year ELSE now + Year,
            !.renewed = IF dues THEN now ELSE m.renewed,
            !.status = IF free THEN m.status ELSE "ACTIVE"]
    BY Zenon DEF RenewedMember
  <2>3. "ACTIVE" \in MemberStatuses
    BY DEF MemberStatuses
  <2>4. PICK grace, dues, free : RenewedMember(m, item) =
          [m EXCEPT
            !.type = IF item = "upgrade" THEN "FULL" ELSE m.type,
            !.expires = IF ~dues THEN m.expires ELSE IF grace THEN m.expires + Year ELSE now + Year,
            !.renewed = IF dues THEN now ELSE m.renewed,
            !.status = IF free THEN m.status ELSE "ACTIVE"]
    BY <2>2
  <2> DEFINE type == IF item = "upgrade" THEN "FULL" ELSE m.type
             expires == IF ~dues THEN m.expires ELSE IF grace THEN m.expires + Year ELSE now + Year
             renewed == IF dues THEN now ELSE m.renewed
             status == IF free THEN m.status ELSE "ACTIVE"
  <2>5. type \in {"FULL", m.type} /\ expires \in Nat /\ renewed \in Nat /\ status \in MemberStatuses \cup {"none"}
    BY <1>1, <2>1, <2>3
  <2>6. RenewedMember(m, item) =
          [m EXCEPT !.type = type, !.expires = expires, !.renewed = renewed, !.status = status]
    BY <2>4
  <2> HIDE DEF type, expires, renewed, status
  <2> QED BY <2>5, <2>6
<1> QED BY <1>2 DEF MemberRecords, MemberTypes

\* A sale is taken from the credit; it gives a member a type, or leaves it.
LEMMA ChargedRecord ==
  ASSUME NEW m \in MemberRecords, now \in Nat, NEW n, n.amount \in Int
  PROVE  /\ Charged(m, n) \in MemberRecords
         /\ Charged(m, n).credit = m.credit - n.amount
         /\ Charged(m, n).type \in {"FULL", m.type}
<1> DEFINE c == [m EXCEPT !.credit = @ - n.amount]
<1>1. c \in MemberRecords /\ c.credit = m.credit - n.amount /\ c.type = m.type
  BY DEF MemberRecords
<1> HIDE DEF c
<1>2. Activated(c) \in MemberRecords /\ Activated(c).credit = c.credit /\ Activated(c).type = c.type
  BY <1>1, ActivatedRecord
<1>3. RenewedMember(Activated(c), n.item) \in MemberRecords
      /\ RenewedMember(Activated(c), n.item).credit = c.credit
      /\ RenewedMember(Activated(c), n.item).type \in {"FULL", c.type}
  BY <1>2, RenewedRecord
<1>4. Charged(m, n) = RenewedMember(Activated(c), n.item)
  BY DEF Charged, c
<1> QED BY <1>1, <1>3, <1>4

\* A sale is entered with credit for no more than it costs, and for all of it if there
\* is as much.
LEMMA SaleRecord ==
  ASSUME NEW m \in MemberRecords, NEW n, n.item \in Items, n.amount \in Nat \ {0}, n.at \in Nat
  PROVE  /\ SaleOf(m, n) \in SaleRecords
         /\ SaleOf(m, n).amount = n.amount /\ SaleOf(m, n).paidBy = 0
         /\ SaleOf(m, n).credit = CreditUsed(m.credit, n.amount)
         /\ SaleOf(m, n).credit <= n.amount
<1>1. CreditUsed(m.credit, n.amount) \in Nat /\ CreditUsed(m.credit, n.amount) <= n.amount
  BY DEF CreditUsed, MemberRecords
<1> QED BY <1>1 DEF SaleOf, SaleRecords

\* A sale is entered at a place of its own.
LEMMA EnteredSale ==
  ASSUME sales \in Seq(SaleRecords), NEW s \in SaleRecords
  PROVE  \E i \in 1 .. Len(sales) + 1 :
           /\ Entered(s) \in Seq(SaleRecords) /\ Len(Entered(s)) = Len(sales) + 1
           /\ Entered(s)[i] = s
           /\ \A k \in 1 .. Len(sales) : Entered(s)[IF k < i THEN k ELSE k + 1] = sales[k]
<1> DEFINE E == {i \in 1 .. Len(sales) : sales[i].at <= s.at}
           i == Cardinality(E) + 1
<1>n. Len(sales) \in Nat
  OBVIOUS
<1>1. IsFiniteSet(1 .. Len(sales)) /\ Cardinality(1 .. Len(sales)) = Len(sales)
  BY <1>n, FS_Interval, Len(sales) - 1 + 1 = Len(sales)
<1>2. Cardinality(E) \in Nat /\ Cardinality(E) <= Len(sales)
  BY <1>1, FS_Subset, FS_CardinalityType
<1> HIDE DEF E
<1>3. i \in 1 .. Len(sales) + 1
  BY <1>2
<1>4. Entered(s) = InsertAt(sales, i, s)
  BY DEF Entered, E
<1> HIDE DEF i
<1>5. /\ InsertAt(sales, i, s) \in Seq(SaleRecords) /\ Len(InsertAt(sales, i, s)) = Len(sales) + 1
      /\ InsertAt(sales, i, s)[i] = s
      /\ \A k \in 1 .. Len(sales) : InsertAt(sales, i, s)[IF k < i THEN k ELSE k + 1] = sales[k]
  BY <1>3, Inserted
<1> QED BY <1>3, <1>4, <1>5

(***************************************************************************)
(* Consolidation.                                                          *)
(***************************************************************************)
\* What a sale has not been paid.
Short(s) == IF s.paidBy = 0 THEN s.amount - s.credit ELSE 0

\* The row of a card transaction covers of a sale what is left, never more.
LEMMA CoveredSale ==
  ASSUME NEW s \in SaleRecords, s.credit <= s.amount, NEW left \in Int, NEW row \in Nat \ {0}
  PROVE  /\ Covered(row, s, left) \in SaleRecords /\ LeftAfter(s, left) \in Int
         /\ Covered(row, s, left).amount = s.amount
         /\ Covered(row, s, left).credit <= s.amount
         /\ Covered(row, s, left).paidBy \in {s.paidBy, row}
BY DEF Covered, LeftAfter, Unpaid, SaleRecords

\* It leaves no sale shorter; of what is left, it takes what the sale was short of, or
\* takes all of it.
LEMMA CoveredShort ==
  ASSUME NEW s \in SaleRecords, s.credit <= s.amount, NEW left \in Int, NEW row \in Nat \ {0}
  PROVE  /\ Short(s) \in Nat /\ Short(Covered(row, s, left)) \in Nat
         /\ Short(Covered(row, s, left)) <= Short(s)
         /\ left >= 0 =>
              \/ /\ Short(Covered(row, s, left)) = 0 /\ LeftAfter(s, left) >= 0
                 /\ LeftAfter(s, left) = left - Short(s)
              \/ Short(s) - Short(Covered(row, s, left)) >= left
BY DEF Covered, LeftAfter, Unpaid, SaleRecords, Short

\* Left is what is left before each sale, from the last one to the first; new are the
\* sales that come of it.
Covering(Left, new, row, amount) ==
  /\ Left \in [0 .. Len(sales) -> Int] /\ Left[Len(sales)] = Spendable(member.credit, amount)
  /\ new \in Seq(SaleRecords) /\ Len(new) = Len(sales)
  /\ \A i \in 1 .. Len(sales) :
       new[i] = Covered(row, sales[i], Left[i]) /\ Left[i - 1] = LeftAfter(sales[i], Left[i])

\* consolidateCC's loop is a covering: the fold is what its equation says.
LEMMA ConsolidatedIs ==
  ASSUME LedgerTypes, NEW row \in Nat \ {0}, NEW amount \in Int
  PROVE  \E Left : Covering(Left, Consolidated(row, amount), row, amount)
<1> DEFINE n == Len(sales)
           S == 1 .. n
           V == [left : Int, done : Seq(SaleRecords)]
           base == [left |-> Spendable(member.credit, amount), done |-> <<>>]
           Eq(f) == f = [t \in SUBSET S |-> IF t = {} THEN base
                                           ELSE Cover(row, sales[Min(t)], f[t \ {Min(t)}])]
           ch == [t \in SUBSET S |-> Min(t)]
           step == [p \in S \X V |-> Cover(row, sales[p[1]], p[2])]
<1>0. n \in Nat /\ DOMAIN sales = S /\ IsFiniteSet(S)
  BY FS_Interval DEF LedgerTypes, BookTypes
<1>s. \A i \in S : sales[i] \in SaleRecords /\ sales[i].credit <= sales[i].amount
  BY DEF LedgerTypes, BookTypes
<1>m. \A t \in SUBSET S : t # {} => Min(t) \in t
  BY <1>0, MinOfPrefix
<1>b. base \in V
  BY DEF LedgerTypes, BookTypes, MemberRecords, Spendable
<1>c. ASSUME NEW i \in S, NEW acc \in V PROVE Cover(row, sales[i], acc) \in V
  <2>1. LeftAfter(sales[i], acc.left) \in Int /\ Covered(row, sales[i], acc.left) \in SaleRecords
    BY <1>s, CoveredSale
  <2> QED BY <2>1 DEF Cover
<1>1. \E f \in [SUBSET S -> V] : Eq(f)
  <2>1. step \in [S \X V -> V]
    <3> HIDE DEF V, S
    <3> QED BY <1>c
  <2>2. Picks(ch, S)
    BY <1>m DEF Picks
  <2>3. PICK f : Folding(f, S, V, base, ch, step)
    <3> HIDE DEF step, ch, S, V, base
    <3> QED BY <1>0, <1>b, <2>1, <2>2, FoldExists
  <2>4. f \in [SUBSET S -> V]
        /\ \A t \in SUBSET S : f[t] = IF t = {} THEN base ELSE Cover(row, sales[Min(t)], f[t \ {Min(t)}])
    <3>1. \A t \in SUBSET S : t # {} => Min(t) \in S /\ f[t \ {Min(t)}] \in V
      <4> HIDE DEF V, S, base, step, ch
      <4> QED BY <1>m, <2>3 DEF Folding
    <3> HIDE DEF V, S, base
    <3> QED BY <2>3, <3>1 DEF Folding
  <2>5. f = [t \in SUBSET S |-> f[t]]
    BY <2>4
  <2> HIDE DEF V, S, base
  <2> QED BY <2>4, <2>5
<1> DEFINE I == CHOOSE f : Eq(f)
<1>2. Eq(I)
  BY <1>1
<1>3. Consolidated(row, amount) = I[S].done
  BY <1>0 DEF Consolidated, FoldRight, MapThenFoldSet
<1> HIDE DEF V, base
<1>4. I[{}] = base /\ \A t \in SUBSET S : t # {} => I[t] = Cover(row, sales[Min(t)], I[t \ {Min(t)}])
  <2> HIDE DEF I
  <2> QED BY <1>2
<1> HIDE DEF I
<1> DEFINE A(i) == I[i + 1 .. n]
<1>5. A(n) = base
  <2>1. n + 1 .. n = {}
    BY <1>0
  <2> QED BY <1>4, <2>1
<1>6. ASSUME NEW i \in 1 .. n PROVE A(i - 1) = Cover(row, sales[i], A(i))
  <2>1. (i - 1) + 1 = i
    OBVIOUS
  <2> DEFINE t == i .. n
  <2>2. t \in SUBSET S /\ t # {} /\ Min(t) = i /\ t \ {i} = i + 1 .. n
    <3> HIDE DEF n
    <3> QED BY <1>0, FromTheRight
  <2> HIDE DEF t
  <2>3. I[t] = Cover(row, sales[i], I[i + 1 .. n])
    <3> HIDE DEF S
    <3> QED BY <1>4, <2>2
  <2> QED BY <2>1, <2>3 DEF t
<1> DEFINE C(i) == Covered(row, sales[i], A(i).left)
<1>7. ASSUME NEW i \in 1 .. n, A(i) \in V
      PROVE  /\ A(i - 1).left = LeftAfter(sales[i], A(i).left)
             /\ A(i - 1).done = <<C(i)>> \o A(i).done
             /\ A(i - 1) \in V /\ C(i) \in SaleRecords
  <2> DEFINE acc == A(i)
  <2>1. A(i - 1) = Cover(row, sales[i], acc) /\ acc \in V
    BY <1>6, <1>7
  <2>2. A(i - 1) = [left |-> LeftAfter(sales[i], acc.left), done |-> <<C(i)>> \o acc.done]
    <3> HIDE DEF A
    <3> QED BY <2>1 DEF Cover
  <2>3. acc.left \in Int /\ C(i) = Covered(row, sales[i], acc.left)
    BY <2>1 DEF V
  <2> HIDE DEF A, acc, C
  <2>4. C(i) \in SaleRecords
    BY <1>s, <2>3, CoveredSale
  <2> QED BY <1>c, <2>1, <2>2, <2>4 DEF acc
<1> HIDE DEF C
<1>8. \A i \in 0 .. n : A(i) \in V
  <2> DEFINE T == {k \in Nat : k <= n => A(n - k) \in V}
  <2>1. 0 \in T
    <3>1. n - 0 = n
      BY <1>0
    <3> HIDE DEF A
    <3> QED BY <1>5, <1>b, <3>1
  <2>2. ASSUME NEW k \in Nat, k \in T PROVE k + 1 \in T
    <3> SUFFICES ASSUME k + 1 <= n PROVE A(n - (k + 1)) \in V
      OBVIOUS
    <3>1. n - k \in 1 .. n /\ (n - k) - 1 = n - (k + 1) /\ k <= n
      BY <1>0
    <3> HIDE DEF A
    <3> QED BY <1>7, <2>2, <3>1
  <2>3. Nat \subseteq T
    <3> HIDE DEF T
    <3> QED BY <2>1, <2>2, NatInd
  <2> SUFFICES ASSUME NEW i \in 0 .. n PROVE A(i) \in V
    OBVIOUS
  <2>4. n - i \in Nat /\ n - i <= n /\ n - (n - i) = i
    BY <1>0
  <2>5. n - i \in T
    BY <2>3, <2>4
  <2> HIDE DEF A
  <2> QED BY <2>4, <2>5
<1> DEFINE Good(i) == /\ Len(A(i).done) = n - i
                      /\ \A j \in 1 .. n - i : A(i).done[j] = C(i + j)
<1>9. Good(n)
  <2>1. A(n).done = <<>> /\ n - n = 0 /\ 1 .. 0 = {}
    <3> HIDE DEF A
    <3> QED BY <1>0, <1>5 DEF base
  <2> HIDE DEF A
  <2> QED BY <2>1
<1>10. ASSUME NEW i \in 1 .. n, Good(i) PROVE Good(i - 1)
  <2> DEFINE d == A(i).done
             e == A(i - 1).done
  <2>1. d \in Seq(SaleRecords) /\ e = <<C(i)>> \o d /\ Len(d) = n - i /\ C(i) \in SaleRecords
    <3>1. i \in 0 .. n
      BY <1>0
    <3>2. A(i) \in V
      BY <1>8, <3>1
    <3> HIDE DEF A
    <3> QED BY <1>7, <1>10, <3>2 DEF V
  <2>2. \A j \in 1 .. n - i : d[j] = C(i + j)
    BY <1>10
  <2> HIDE DEF d, e, A
  <2>3. Len(e) = n - (i - 1) /\ e[1] = C(i)
    <3>1. Len(e) = Len(d) + 1 /\ e[1] = C(i)
      BY <2>1, Prepended
    <3> QED BY <1>0, <2>1, <3>1
  <2>4. ASSUME NEW j \in 1 .. n - (i - 1) PROVE e[j] = C((i - 1) + j)
    <3>1. CASE j = 1
      <4>1. (i - 1) + 1 = i
        OBVIOUS
      <4> QED BY <2>3, <3>1, <4>1
    <3>2. CASE j # 1
      <4>1. j - 1 \in 1 .. n - i /\ (i - 1) + j = i + (j - 1) /\ j - 1 \in 1 .. Len(d)
        BY <1>0, <2>1, <3>2
      <4>2. e[j] = d[j - 1]
        <5> DEFINE c == C(i)
        <5>1. c \in SaleRecords /\ e = <<c>> \o d /\ d \in Seq(SaleRecords)
          BY <2>1
        <5> HIDE DEF c
        <5>2. \A k \in 1 .. Len(d) : (<<c>> \o d)[k + 1] = d[k]
          BY <5>1, Prepended
        <5>3. (j - 1) + 1 = j
          OBVIOUS
        <5> QED BY <4>1, <5>1, <5>2, <5>3
      <4> QED BY <2>2, <4>1, <4>2
    <3> QED BY <3>1, <3>2
  <2> QED BY <2>3, <2>4 DEF d, e
<1>11. Good(0)
  <2> DEFINE T == {k \in Nat : k <= n => Good(n - k)}
  <2>1. 0 \in T
    <3>1. n - 0 = n
      BY <1>0
    <3> HIDE DEF Good
    <3> QED BY <1>9, <3>1
  <2>2. ASSUME NEW k \in Nat, k \in T PROVE k + 1 \in T
    <3> HIDE DEF Good
    <3> SUFFICES ASSUME k + 1 <= n PROVE Good(n - (k + 1))
      OBVIOUS
    <3>1. n - k \in 1 .. n /\ (n - k) - 1 = n - (k + 1) /\ k <= n
      BY <1>0
    <3>2. Good(n - k)
      BY <2>2, <3>1
    <3> QED BY <1>10, <3>1, <3>2
  <2>3. n \in T /\ n - n = 0
    <3> HIDE DEF T
    <3> QED BY <1>0, <2>1, <2>2, NatInd
  <2> HIDE DEF Good
  <2> QED BY <1>0, <2>3
<1> DEFINE Left == [i \in 0 .. n |-> A(i).left]
           new == I[S].done
<1>12. A(0).done = new
  BY <1>0, 0 + 1 = 1
<1>13. Left \in [0 .. n -> Int] /\ Left[n] = Spendable(member.credit, amount) /\ \A i \in 0 .. n : Left[i] = A(i).left
  <2>1. n \in 0 .. n /\ A(n).left = Spendable(member.credit, amount)
    <3> HIDE DEF A
    <3> QED BY <1>0, <1>5 DEF base
  <2> HIDE DEF A
  <2> QED BY <1>8, <2>1 DEF V
<1>14. new \in Seq(SaleRecords)
  <2>1. A(0) \in V
    BY <1>0, <1>8
  <2> HIDE DEF A
  <2> QED BY <1>12, <2>1 DEF V
<1>15. Len(new) = n /\ \A i \in 1 .. n : new[i] = C(i)
  <2>1. n - 0 = n /\ \A i \in 1 .. n : 0 + i = i
    BY <1>0
  <2> HIDE DEF A, new
  <2> QED BY <1>11, <1>12, <2>1
<1>16. ASSUME NEW i \in 1 .. n
       PROVE new[i] = Covered(row, sales[i], Left[i]) /\ Left[i - 1] = LeftAfter(sales[i], Left[i])
  <2>1. i \in 0 .. n /\ i - 1 \in 0 .. n
    BY <1>0
  <2>2. A(i) \in V
    BY <1>8, <2>1
  <2>3. Left[i] = A(i).left /\ Left[i - 1] = A(i - 1).left
    BY <1>13, <2>1
  <2> HIDE DEF A, new, Left
  <2> QED BY <1>7, <1>15, <2>2, <2>3 DEF C
<1> HIDE DEF new, Left
<1>17. Covering(Left, new, row, amount)
  BY <1>13, <1>14, <1>15, <1>16 DEF Covering
<1> QED BY <1>3, <1>17 DEF new

(***************************************************************************)
(* Sums over the books.                                                    *)
(***************************************************************************)
AmountsOf(s) == [i \in DOMAIN s |-> s[i].amount]
ShortOf(s) == [i \in DOMAIN s |-> Short(s[i])]
PaidOf(r) == [i \in DOMAIN r |-> IF Paid(r[i]) THEN r[i].amount ELSE 0]

\* The sums over sales are of integers, one for each sale.
LEMMA SumTypes ==
  ASSUME NEW s \in Seq(SaleRecords)
  PROVE  /\ AmountsOf(s) \in Seq(Int) /\ Len(AmountsOf(s)) = Len(s)
         /\ \A i \in 1 .. Len(s) : AmountsOf(s)[i] = s[i].amount
         /\ ShortOf(s) \in Seq(Int) /\ Len(ShortOf(s)) = Len(s)
         /\ \A i \in 1 .. Len(s) : ShortOf(s)[i] = Short(s[i])
<1>1. ASSUME NEW i \in DOMAIN s PROVE s[i].amount \in Int /\ Short(s[i]) \in Int
  <2>1. s[i] \in SaleRecords
    OBVIOUS
  <2> QED BY <2>1 DEF SaleRecords, Short
<1>2. Len(s) \in Nat /\ DOMAIN s = 1 .. Len(s)
  OBVIOUS
<1> QED BY <1>1, <1>2 DEF AmountsOf, ShortOf

\* So is the sum over rows.
LEMMA PaidTypes ==
  ASSUME NEW r \in Seq(RowRecords)
  PROVE  /\ PaidOf(r) \in Seq(Int) /\ Len(PaidOf(r)) = Len(r)
         /\ \A i \in 1 .. Len(r) : PaidOf(r)[i] = IF Paid(r[i]) THEN r[i].amount ELSE 0
<1>1. ASSUME NEW i \in DOMAIN r PROVE (IF Paid(r[i]) THEN r[i].amount ELSE 0) \in Int
  <2>1. r[i] \in RowRecords
    OBVIOUS
  <2> QED BY <2>1 DEF RowRecords
<1>2. Len(r) \in Nat /\ DOMAIN r = 1 .. Len(r)
  OBVIOUS
<1> QED BY <1>1, <1>2 DEF PaidOf

\* A sale that is entered adds what it costs, and what it is short of.
LEMMA SumEntered ==
  ASSUME sales \in Seq(SaleRecords), NEW s \in SaleRecords
  PROVE  /\ SumOf(AmountsOf(Entered(s))) = SumOf(AmountsOf(sales)) + s.amount
         /\ SumOf(ShortOf(Entered(s))) = SumOf(ShortOf(sales)) + Short(s)
<1>1. PICK i \in 1 .. Len(sales) + 1 :
        /\ Entered(s) \in Seq(SaleRecords) /\ Len(Entered(s)) = Len(sales) + 1
        /\ Entered(s)[i] = s
        /\ \A k \in 1 .. Len(sales) : Entered(s)[IF k < i THEN k ELSE k + 1] = sales[k]
  BY EnteredSale
<1> DEFINE e == Entered(s)
<1>2. \A k \in 1 .. Len(sales) : (IF k < i THEN k ELSE k + 1) \in 1 .. Len(e)
  BY <1>1
<1> HIDE DEF e
<1>3. \A k \in 1 .. Len(sales) :
        /\ AmountsOf(e)[IF k < i THEN k ELSE k + 1] = AmountsOf(sales)[k]
        /\ ShortOf(e)[IF k < i THEN k ELSE k + 1] = ShortOf(sales)[k]
  <2> SUFFICES ASSUME NEW k \in 1 .. Len(sales)
               PROVE  /\ AmountsOf(e)[IF k < i THEN k ELSE k + 1] = AmountsOf(sales)[k]
                      /\ ShortOf(e)[IF k < i THEN k ELSE k + 1] = ShortOf(sales)[k]
    OBVIOUS
  <2> DEFINE j == IF k < i THEN k ELSE k + 1
  <2>1. j \in 1 .. Len(e) /\ e[j] = sales[k] /\ e \in Seq(SaleRecords)
    BY <1>1, <1>2 DEF e
  <2> HIDE DEF j
  <2>2. AmountsOf(e)[j] = sales[k].amount /\ ShortOf(e)[j] = Short(sales[k])
    BY <2>1, SumTypes
  <2> QED BY <2>2, SumTypes DEF j
<1>4. e \in Seq(SaleRecords) /\ Len(e) = Len(sales) + 1 /\ i \in 1 .. Len(e) /\ e[i] = s
  BY <1>1 DEF e
<1>5. AmountsOf(e)[i] = s.amount /\ ShortOf(e)[i] = Short(s)
  BY <1>4, SumTypes
<1>6. /\ AmountsOf(sales) \in Seq(Int) /\ Len(AmountsOf(sales)) = Len(sales)
      /\ ShortOf(sales) \in Seq(Int) /\ Len(ShortOf(sales)) = Len(sales)
  BY SumTypes
<1>7. /\ AmountsOf(e) \in Seq(Int) /\ Len(AmountsOf(e)) = Len(sales) + 1
      /\ ShortOf(e) \in Seq(Int) /\ Len(ShortOf(e)) = Len(sales) + 1
  BY <1>4, SumTypes
<1>8. SumOf(AmountsOf(e)) = SumOf(AmountsOf(sales)) + AmountsOf(e)[i]
  <2> DEFINE a == AmountsOf(sales)
             b == AmountsOf(e)
  <2> HIDE DEF a, b
  <2>1. a \in Seq(Int) /\ b \in Seq(Int) /\ i \in 1 .. Len(a) + 1 /\ Len(b) = Len(a) + 1
    BY <1>6, <1>7 DEF a, b
  <2>2. \A k \in 1 .. Len(a) : b[IF k < i THEN k ELSE k + 1] = a[k]
    BY <1>3, <1>6 DEF a, b
  <2> QED BY <2>1, <2>2, SumOneMore DEF a, b
<1>9. SumOf(ShortOf(e)) = SumOf(ShortOf(sales)) + ShortOf(e)[i]
  <2> DEFINE a == ShortOf(sales)
             b == ShortOf(e)
  <2> HIDE DEF a, b
  <2>1. a \in Seq(Int) /\ b \in Seq(Int) /\ i \in 1 .. Len(a) + 1 /\ Len(b) = Len(a) + 1
    BY <1>6, <1>7 DEF a, b
  <2>2. \A k \in 1 .. Len(a) : b[IF k < i THEN k ELSE k + 1] = a[k]
    BY <1>3, <1>6 DEF a, b
  <2> QED BY <2>1, <2>2, SumOneMore DEF a, b
<1> QED BY <1>5, <1>8, <1>9 DEF e

\* Consolidation changes no amount.
LEMMA SameAmounts ==
  ASSUME LedgerTypes, NEW row \in Nat \ {0}, NEW amount \in Int, NEW Left, NEW new,
         Covering(Left, new, row, amount)
  PROVE  AmountsOf(new) = AmountsOf(sales)
<1>1. \A i \in 1 .. Len(sales) : new[i].amount = sales[i].amount
  <2> SUFFICES ASSUME NEW i \in 1 .. Len(sales) PROVE new[i].amount = sales[i].amount
    OBVIOUS
  <2>1. sales[i] \in SaleRecords /\ sales[i].credit <= sales[i].amount /\ i \in 0 .. Len(sales)
    BY DEF LedgerTypes, BookTypes
  <2>2. Left[i] \in Int /\ new[i] = Covered(row, sales[i], Left[i])
    BY <2>1 DEF Covering
  <2>3. Covered(row, sales[i], Left[i]).amount = sales[i].amount
    BY <2>1, <2>2, CoveredSale
  <2> QED BY <2>2, <2>3
<1>2. new \in Seq(SaleRecords) /\ sales \in Seq(SaleRecords) /\ Len(new) = Len(sales)
  BY DEF LedgerTypes, BookTypes, Covering
<1>3. DOMAIN new = 1 .. Len(sales) /\ DOMAIN sales = 1 .. Len(sales)
  BY <1>2
<1> QED BY <1>1, <1>3 DEF AmountsOf

\* A payment covers what the sales are short of, as far as it goes.
LEMMA ShortLess ==
  ASSUME LedgerTypes, NEW row \in Nat \ {0}, NEW amount \in Nat, NEW Left, NEW new,
         Covering(Left, new, row, amount)
  PROVE  /\ SumOf(ShortOf(new)) \in Nat /\ SumOf(ShortOf(new)) <= SumOf(ShortOf(sales))
         /\ \/ SumOf(ShortOf(new)) = 0
            \/ SumOf(ShortOf(new)) <= SumOf(ShortOf(sales)) - Spendable(member.credit, amount)
<1> DEFINE n == Len(sales)
           money == Spendable(member.credit, amount)
<1>0. sales \in Seq(SaleRecords) /\ new \in Seq(SaleRecords) /\ n \in Nat /\ Len(new) = n
  BY DEF LedgerTypes, BookTypes, Covering
<1>m. money \in Int /\ money >= 0
  BY DEF LedgerTypes, BookTypes, MemberRecords, Spendable
<1>1. PICK f : Partial(f, ShortOf(sales)) /\ SumOf(ShortOf(sales)) = f[n]
  BY <1>0, SumTypes, SumPartial
<1>2. PICK g : Partial(g, ShortOf(new)) /\ SumOf(ShortOf(new)) = g[n]
  BY <1>0, SumTypes, SumPartial
<1>3. f \in [0 .. n -> Int] /\ f[0] = 0 /\ \A k \in 1 .. n : f[k] = f[k - 1] + Short(sales[k])
  BY <1>0, <1>1, SumTypes DEF Partial
<1>4. g \in [0 .. n -> Int] /\ g[0] = 0 /\ \A k \in 1 .. n : g[k] = g[k - 1] + Short(new[k])
  BY <1>0, <1>2, SumTypes DEF Partial
<1>5. Left \in [0 .. n -> Int] /\ Left[n] = money
  BY DEF Covering
<1>6. ASSUME NEW i \in 1 .. n
      PROVE  /\ Short(sales[i]) \in Nat /\ Short(new[i]) \in Nat /\ Short(new[i]) <= Short(sales[i])
             /\ Left[i] >= 0 =>
                  \/ /\ Short(new[i]) = 0 /\ Left[i - 1] >= 0
                     /\ Left[i - 1] = Left[i] - Short(sales[i])
                  \/ Short(sales[i]) - Short(new[i]) >= Left[i]
  <2>1. sales[i] \in SaleRecords /\ sales[i].credit <= sales[i].amount /\ i \in 0 .. n
    BY DEF LedgerTypes, BookTypes
  <2>2. Left[i] \in Int /\ new[i] = Covered(row, sales[i], Left[i])
        /\ Left[i - 1] = LeftAfter(sales[i], Left[i])
    BY <1>5, <2>1 DEF Covering
  <2> QED BY <2>1, <2>2, CoveredShort
<1> HIDE DEF n, money
<1> DEFINE Drop(i) == (f[n] - f[i]) - (g[n] - g[i])
           Good(i) == /\ Drop(i) >= 0
                      /\ \/ Drop(i) >= money
                         \/ Left[i] = money - (f[n] - f[i]) /\ Left[i] >= 0 /\ g[n] = g[i]
<1>7. Good(n)
  <2>1. f[n] \in Int /\ g[n] \in Int
    BY <1>0, <1>3, <1>4
  <2> QED BY <1>m, <1>5, <2>1
<1>8. ASSUME NEW i \in 1 .. n, Good(i) PROVE Good(i - 1)
  <2>1. i \in 0 .. n /\ i - 1 \in 0 .. n /\ n \in 0 .. n
    BY <1>0
  <2>2. f[n] \in Int /\ f[i] \in Int /\ f[i - 1] \in Int /\ g[n] \in Int /\ g[i] \in Int
        /\ g[i - 1] \in Int /\ Left[i] \in Int /\ Left[i - 1] \in Int
    BY <1>3, <1>4, <1>5, <2>1
  <2>3. f[i] = f[i - 1] + Short(sales[i]) /\ g[i] = g[i - 1] + Short(new[i])
    BY <1>3, <1>4
  <2> QED BY <1>m, <1>6, <1>8, <2>2, <2>3
<1>9. Good(0)
  <2> DEFINE T == {k \in Nat : k <= n => Good(n - k)}
  <2> HIDE DEF Good
  <2>1. 0 \in T
    BY <1>0, <1>7, n - 0 = n
  <2>2. ASSUME NEW k \in Nat, k \in T PROVE k + 1 \in T
    <3> SUFFICES ASSUME k + 1 <= n PROVE Good(n - (k + 1))
      OBVIOUS
    <3>1. n - k \in 1 .. n /\ (n - k) - 1 = n - (k + 1) /\ k <= n
      BY <1>0
    <3>2. Good(n - k)
      BY <2>2, <3>1
    <3> QED BY <1>8, <3>1, <3>2
  <2>3. n \in T /\ n - n = 0
    <3> HIDE DEF T
    <3> QED BY <1>0, <2>1, <2>2, NatInd
  <2> QED BY <1>0, <2>3
<1>10. f[n] \in Int /\ g[n] \in Int
  BY <1>0, <1>3, <1>4
<1>11. g[n] >= 0
  <2>1. \A k \in 1 .. Len(ShortOf(new)) : ShortOf(new)[k] >= 0
    BY <1>0, <1>6, SumTypes DEF n
  <2> QED BY <1>0, <1>2, <2>1, SumTypes, SumBounds
<1>12. g[n] <= f[n] /\ (g[n] = 0 \/ g[n] <= f[n] - money)
  BY <1>m, <1>3, <1>4, <1>9, <1>10
<1> QED BY <1>1, <1>2, <1>10, <1>11, <1>12 DEF money

(***************************************************************************)
(* Lines.                                                                  *)
(***************************************************************************)
Lines == SaleLines \cup CardLines \cup JoinLines

\* What the kiosk sends again may be any line.
LEMMA Kinds ==
  ASSUME NEW n \in Lines
  PROVE  /\ n.kind = "sale" <=> n \in SaleLines
         /\ n.kind = "cc" <=> n \in CardLines
         /\ n.kind = "new_memb" <=> n \in JoinLines
BY DEF Lines, SaleLines, CardLines, JoinLines

\* Entering a sale, for the member m that is charged.
LEMMA SaleEntered ==
  ASSUME LedgerTypes, NEW m \in MemberRecords, NEW n,
         n.item \in Items, n.amount \in Nat \ {0}, n.at \in Nat,
         member' = Charged(m, n), sales' = Entered(SaleOf(m, n)), Len(rows') >= Len(rows), Len(rows') \in Nat
  PROVE  /\ member' \in MemberRecords /\ member'.credit = m.credit - n.amount
         /\ member'.type \in {"FULL", m.type}
         /\ sales' \in Seq(SaleRecords)
         /\ \A i \in 1 .. Len(sales') : sales'[i].credit <= sales'[i].amount /\ sales'[i].paidBy <= Len(rows')
         /\ SumOf(AmountsOf(sales')) = SumOf(AmountsOf(sales)) + n.amount
         /\ SumOf(ShortOf(sales')) = SumOf(ShortOf(sales)) + (n.amount - CreditUsed(m.credit, n.amount))
<1>1. member' \in MemberRecords /\ member'.credit = m.credit - n.amount /\ member'.type \in {"FULL", m.type}
  BY ChargedRecord DEF LedgerTypes, BookTypes
<1> DEFINE s == SaleOf(m, n)
<1>2. /\ s \in SaleRecords /\ s.amount = n.amount /\ s.paidBy = 0
      /\ s.credit = CreditUsed(m.credit, n.amount) /\ s.credit <= n.amount
  BY SaleRecord
<1> HIDE DEF s
<1>3. sales \in Seq(SaleRecords) /\ sales' = Entered(s)
  BY DEF LedgerTypes, BookTypes, s
<1>4. PICK j \in 1 .. Len(sales) + 1 :
        /\ sales' \in Seq(SaleRecords) /\ Len(sales') = Len(sales) + 1
        /\ sales'[j] = s
        /\ \A k \in 1 .. Len(sales) : sales'[IF k < j THEN k ELSE k + 1] = sales[k]
  <2>1. \E i \in 1 .. Len(sales) + 1 :
           /\ Entered(s) \in Seq(SaleRecords) /\ Len(Entered(s)) = Len(sales) + 1
           /\ Entered(s)[i] = s
           /\ \A k \in 1 .. Len(sales) : Entered(s)[IF k < i THEN k ELSE k + 1] = sales[k]
    BY <1>2, <1>3, EnteredSale
  <2> QED BY <1>3, <2>1, Zenon
<1>5. ASSUME NEW i \in 1 .. Len(sales')
      PROVE  sales'[i].credit <= sales'[i].amount /\ sales'[i].paidBy <= Len(rows')
  <2>1. CASE i = j
    BY <1>2, <1>4, <2>1
  <2>2. CASE i # j
    <3>1. PICK k \in 1 .. Len(sales) : i = IF k < j THEN k ELSE k + 1
      <4>1. Len(sales) \in Nat
        BY <1>3
      <4>2. CASE i < j
        <5>1. i \in 1 .. Len(sales)
          BY <1>4, <4>1, <4>2
        <5> QED BY <4>2, <5>1
      <4>3. CASE i > j
        <5>1. i - 1 \in 1 .. Len(sales) /\ ~(i - 1 < j) /\ i = (i - 1) + 1
          BY <1>4, <4>1, <4>3
        <5> QED BY <5>1
      <4> QED BY <2>2, <4>1, <4>2, <4>3, <1>4
    <3>2. sales'[i] = sales[k]
      BY <1>4, <3>1
    <3>3. /\ sales[k].credit <= sales[k].amount /\ sales[k].paidBy <= Len(rows) /\ sales[k].paidBy \in Nat
          /\ Len(rows) \in Nat
      <4>1. sales[k] \in SaleRecords
        BY <1>3
      <4>2. sales[k].paidBy \in Nat
        BY <4>1 DEF SaleRecords
      <4> QED BY <4>2 DEF LedgerTypes, BookTypes
    <3> QED BY <3>2, <3>3
  <2> QED BY <2>1, <2>2
<1>6. SumOf(AmountsOf(sales')) = SumOf(AmountsOf(sales)) + s.amount
      /\ SumOf(ShortOf(sales')) = SumOf(ShortOf(sales)) + Short(s)
  BY <1>2, <1>3, SumEntered
<1>7. Short(s) = n.amount - CreditUsed(m.credit, n.amount)
  BY <1>2 DEF Short
<1> QED BY <1>1, <1>2, <1>4, <1>5, <1>6, <1>7

\* Consolidation of the line n, entered as the given row.
LEMMA Consolidates ==
  ASSUME LedgerTypes, NEW n \in CardLines, NEW row \in Nat \ {0}, Consolidate(row, n),
         Len(rows') \in Nat, row <= Len(rows'), Len(rows) <= Len(rows')
  PROVE  /\ member' \in MemberRecords /\ member'.type = member.type
         /\ member'.credit = member.credit + IF Paid(n) THEN n.amount ELSE 0
         /\ sales' \in Seq(SaleRecords) /\ Len(sales') = Len(sales)
         /\ \A i \in 1 .. Len(sales') : sales'[i].credit <= sales'[i].amount /\ sales'[i].paidBy <= Len(rows')
         /\ AmountsOf(sales') = AmountsOf(sales)
         /\ Paid(n) => /\ SumOf(ShortOf(sales')) \in Nat /\ SumOf(ShortOf(sales')) <= SumOf(ShortOf(sales))
                       /\ \/ SumOf(ShortOf(sales')) = 0
                          \/ SumOf(ShortOf(sales')) <= SumOf(ShortOf(sales)) - Spendable(member.credit, n.amount)
         /\ ~Paid(n) => sales' = sales
<1>0. /\ n.amount \in Nat /\ Len(rows) \in Nat /\ member \in MemberRecords /\ sales \in Seq(SaleRecords)
      /\ \A i \in 1 .. Len(sales) : /\ sales[i] \in SaleRecords /\ sales[i].paidBy \in Nat
                                    /\ sales[i].credit <= sales[i].amount /\ sales[i].paidBy <= Len(rows)
  <2>1. n.amount \in Nat
    BY DEF CardLines
  <2>2. /\ Len(rows) \in Nat /\ member \in MemberRecords /\ sales \in Seq(SaleRecords)
        /\ \A i \in 1 .. Len(sales) : sales[i].credit <= sales[i].amount /\ sales[i].paidBy <= Len(rows)
    BY DEF LedgerTypes, BookTypes
  <2>3. \A i \in 1 .. Len(sales) : sales[i] \in SaleRecords
    BY <2>2
  <2>4. \A s \in SaleRecords : s.paidBy \in Nat
    BY DEF SaleRecords
  <2> QED BY <2>1, <2>2, <2>3, <2>4
<1>1. CASE Paid(n)
  <2>1. sales' = Consolidated(row, n.amount) /\ member' = [member EXCEPT !.credit = @ + n.amount]
    BY <1>1 DEF Consolidate
  <2>2. PICK Left : Covering(Left, sales', row, n.amount)
    BY <1>0, <2>1, ConsolidatedIs
  <2>3. member' \in MemberRecords /\ member'.type = member.type /\ member'.credit = member.credit + n.amount
    <3>1. member.credit + n.amount \in Int
      BY <1>0 DEF MemberRecords
    <3> QED BY <1>0, <2>1, <3>1 DEF MemberRecords
  <2>4. sales' \in Seq(SaleRecords) /\ Len(sales') = Len(sales)
    BY <2>2 DEF Covering
  <2>5. ASSUME NEW i \in 1 .. Len(sales')
        PROVE  sales'[i].credit <= sales'[i].amount /\ sales'[i].paidBy <= Len(rows')
    <3>1. i \in 1 .. Len(sales) /\ i \in 0 .. Len(sales)
      BY <2>4
    <3>2. Left[i] \in Int /\ sales'[i] = Covered(row, sales[i], Left[i])
      BY <2>2, <3>1 DEF Covering
    <3>3. /\ sales'[i].amount = sales[i].amount /\ sales'[i].credit <= sales[i].amount
          /\ sales'[i].paidBy \in {sales[i].paidBy, row}
      BY <1>0, <3>1, <3>2, CoveredSale
    <3> QED BY <1>0, <3>1, <3>3
  <2>6. AmountsOf(sales') = AmountsOf(sales)
    BY <1>0, <2>2, SameAmounts
  <2>7. /\ SumOf(ShortOf(sales')) \in Nat /\ SumOf(ShortOf(sales')) <= SumOf(ShortOf(sales))
        /\ \/ SumOf(ShortOf(sales')) = 0
           \/ SumOf(ShortOf(sales')) <= SumOf(ShortOf(sales)) - Spendable(member.credit, n.amount)
    BY <1>0, <2>2, ShortLess
  <2> QED BY <1>1, <2>3, <2>4, <2>5, <2>6, <2>7
<1>2. CASE ~Paid(n)
  <2>1. sales' = sales /\ member' = member
    BY <1>2 DEF Consolidate
  <2> QED BY <1>0, <1>2, <2>1 DEF MemberRecords
<1> QED BY <1>1, <1>2

\* Entering a line of a card transaction: it is the same as before, or a row of its own,
\* or takes the place of the transaction's last row.
NewRow(n, known, amount) == [Row(n, known) EXCEPT !.amount = amount]

\* The row that a card line makes.
LEMMA NewRowIs ==
  ASSUME NEW n \in CardLines, NEW known \in BOOLEAN, NEW amount \in Nat
  PROVE  /\ NewRow(n, known, amount) \in RowRecords
         /\ NewRow(n, known, n.amount) = Row(n, known) /\ Row(n, known) \in RowRecords
         /\ NewRow(n, known, amount).status = n.status /\ NewRow(n, known, amount).owner = n.owner
         /\ NewRow(n, known, amount).amount = amount
BY DEF NewRow, Row, CardLines, RowRecords

\* A card line is one that came before, makes a row, or takes the place of its transaction's row.
LEMMA CardCases ==
  ASSUME LedgerTypes, NEW n \in CardLines, EnterCC(n)
  PROVE  /\ UNCHANGED <<card, made>>
         /\ \/ Identical(n) /\ UNCHANGED <<member, sales, rows>>
            \/ \E known \in BOOLEAN :
                 /\ KnownCard(n) => known
                 /\ rows' = Append(rows, Row(n, known)) /\ Consolidate(Len(rows) + 1, n)
            \/ /\ ~Identical(n) /\ n.status # "PREAUTH"
               /\ \E i \in 1 .. Len(rows), known \in BOOLEAN, amount \in Nat :
                    /\ rows[i].hold = n.hold
                    /\ KnownCard(n) => known
                    /\ n.status = "CAPTURED" => amount = n.amount
                    /\ rows' = [rows EXCEPT ![i] = NewRow(n, known, amount)]
                    /\ Consolidate(i, n)
<1>0. KnownCard(n) \in BOOLEAN
  BY DEF KnownCard
<1>r. ASSUME NEW i \in LastRows(n.hold)
      PROVE  i \in 1 .. Len(rows) /\ rows[i].hold = n.hold /\ rows[i].known \in BOOLEAN /\ rows[i].amount \in Nat
  <2>1. i \in 1 .. Len(rows) /\ rows[i].hold = n.hold
    BY DEF LastRows
  <2>2. rows[i] \in RowRecords
    BY <2>1 DEF LedgerTypes, BookTypes
  <2> QED BY <2>1, <2>2 DEF RowRecords
<1>n. n.amount \in Nat
  BY DEF CardLines
<1>1. UNCHANGED <<card, made>>
  BY DEF EnterCC
<1>2. CASE Identical(n) /\ UNCHANGED <<member, sales, rows>>
  BY <1>1, <1>2
<1>3. CASE /\ ~Identical(n) /\ (n.status = "PREAUTH" \/ LastRows(n.hold) = {})
           /\ \E known \in IF LastRows(n.hold) = {} THEN {KnownCard(n)}
                           ELSE {rows[i].known \/ KnownCard(n) : i \in LastRows(n.hold)} :
                rows' = Append(rows, Row(n, known))
           /\ Consolidate(Len(rows) + 1, n)
  <2>1. PICK known \in IF LastRows(n.hold) = {} THEN {KnownCard(n)}
                       ELSE {rows[i].known \/ KnownCard(n) : i \in LastRows(n.hold)} :
               rows' = Append(rows, Row(n, known))
    BY <1>3
  <2>2. KnownCard(n) => known
    <3>1. CASE LastRows(n.hold) = {}
      BY <1>0, <2>1, <3>1
    <3>2. CASE LastRows(n.hold) # {}
      BY <1>0, <1>r, <2>1, <3>2, Zenon
    <3> QED BY <3>1, <3>2
  <2>3. known \in BOOLEAN
    BY <1>0, <1>r, <2>1, Zenon
  <2> QED BY <1>1, <1>3, <2>1, <2>2, <2>3
<1>4. CASE /\ ~Identical(n) /\ n.status # "PREAUTH"
           /\ \E i \in LastRows(n.hold) :
                /\ rows' = [rows EXCEPT
                     ![i] = [Row(n, @.known \/ KnownCard(n)) EXCEPT
                              !.amount = IF n.status = "CAPTURED" THEN n.amount ELSE rows[i].amount]]
                /\ Consolidate(i, n)
  <2>1. PICK i \in LastRows(n.hold) :
          /\ rows' = [rows EXCEPT
               ![i] = [Row(n, rows[i].known \/ KnownCard(n)) EXCEPT
                        !.amount = IF n.status = "CAPTURED" THEN n.amount ELSE rows[i].amount]]
          /\ Consolidate(i, n)
    BY <1>4
  <2> DEFINE known == rows[i].known \/ KnownCard(n)
             amount == IF n.status = "CAPTURED" THEN n.amount ELSE rows[i].amount
  <2>2. i \in 1 .. Len(rows) /\ rows[i].hold = n.hold /\ rows[i].known \in BOOLEAN /\ rows[i].amount \in Nat
    BY <1>r
  <2>3. known \in BOOLEAN /\ (KnownCard(n) => known)
    BY <1>0, <2>2, Zenon
  <2>4. amount \in Nat /\ (n.status = "CAPTURED" => amount = n.amount)
    BY <1>n, <2>2
  <2>5. rows' = [rows EXCEPT ![i] = NewRow(n, known, amount)]
    BY <2>1 DEF NewRow
  <2> HIDE DEF known, amount
  <2> QED BY <1>1, <1>4, <2>1, <2>2, <2>3, <2>4, <2>5
<1> QED BY <1>2, <1>3, <1>4 DEF EnterCC

\* Entering a new member.
LEMMA JoinCases ==
  ASSUME LedgerTypes, NEW n \in JoinLines, EnterNewMember(n), ~DuplicateCC
  PROVE  /\ made' = made + 1 /\ card' = Registered(TRUE)
         /\ \/ rows' = rows
            \/ \E i \in 1 .. Len(rows) :
                 rows' = [rows EXCEPT ![i].owner = "customer", ![i].known = (card' = "member")]
         /\ rows' \in Seq(RowRecords) /\ Len(rows') = Len(rows)
         /\ member' \in MemberRecords /\ member'.type \in {"FULL", "ONE-DAY"} /\ member'.credit <= 0
         /\ sales' \in Seq(SaleRecords)
         /\ \A i \in 1 .. Len(sales') : sales'[i].credit <= sales'[i].amount /\ sales'[i].paidBy <= Len(rows')
         /\ SumOf(AmountsOf(sales')) = SumOf(AmountsOf(sales)) - member'.credit
         /\ SumOf(ShortOf(sales')) = SumOf(ShortOf(sales)) - member'.credit
<1>1. /\ made' = made + 1 /\ card' = Registered(TRUE)
      /\ LET full == n.type = "FULL"
             sale == [item |-> "membership", amount |-> Fee, at |-> now]
         IN /\ member' = IF full THEN Charged(Joined(n), sale) ELSE Joined(n)
            /\ sales' = IF full THEN Entered(SaleOf(Joined(n), sale)) ELSE sales
      /\ IF LastRows(n.hold) = {} THEN UNCHANGED rows
         ELSE \E i \in LastRows(n.hold) :
                rows' = [rows EXCEPT ![i].owner = "customer", ![i].known = (card' = "member")]
  BY Zenon DEF EnterNewMember
<1>2. \/ rows' = rows
      \/ \E i \in 1 .. Len(rows) :
           rows' = [rows EXCEPT ![i].owner = "customer", ![i].known = (card' = "member")]
  BY <1>1 DEF LastRows
<1>3. rows' \in Seq(RowRecords) /\ Len(rows') = Len(rows)
  <2>1. rows \in Seq(RowRecords)
    BY DEF LedgerTypes, BookTypes
  <2>2. ASSUME NEW i \in 1 .. Len(rows),
               rows' = [rows EXCEPT ![i].owner = "customer", ![i].known = (card' = "member")]
        PROVE  rows' \in Seq(RowRecords) /\ Len(rows') = Len(rows)
    <3> DEFINE r == [rows[i] EXCEPT !.owner = "customer", !.known = (card' = "member")]
    <3>1. rows[i] \in RowRecords
      BY <2>1
    <3>2. r \in RowRecords
      BY <3>1 DEF RowRecords
    <3>3. rows' = [rows EXCEPT ![i] = r]
      BY <2>1, <2>2
    <3> HIDE DEF r
    <3> QED BY <2>1, <3>2, <3>3
  <2> QED BY <1>2, <2>1, <2>2
<1>4. Joined(n) \in MemberRecords /\ Joined(n).credit = 0 /\ Joined(n).type = n.type /\ n.type \in {"FULL", "ONE-DAY"}
  BY Units DEF Joined, JoinLines, MemberRecords, MemberTypes, MemberStatuses, LedgerTypes
<1>5. Len(rows) \in Nat /\ Len(rows') \in Nat /\ Len(rows') >= Len(rows)
  BY <1>3 DEF LedgerTypes, BookTypes
<1>6. CASE n.type = "FULL"
  <2> DEFINE sale == [item |-> "membership", amount |-> Fee, at |-> now]
  <2>1. sale.item \in Items /\ sale.amount \in Nat \ {0} /\ sale.at \in Nat /\ sale.amount = Fee
    BY Units DEF Items, LedgerTypes
  <2>2. member' = Charged(Joined(n), sale) /\ sales' = Entered(SaleOf(Joined(n), sale))
    BY <1>1, <1>6
  <2> HIDE DEF sale
  <2>3. /\ member' \in MemberRecords /\ member'.credit = Joined(n).credit - sale.amount
        /\ member'.type \in {"FULL", Joined(n).type}
        /\ sales' \in Seq(SaleRecords)
        /\ \A i \in 1 .. Len(sales') : sales'[i].credit <= sales'[i].amount /\ sales'[i].paidBy <= Len(rows')
        /\ SumOf(AmountsOf(sales')) = SumOf(AmountsOf(sales)) + sale.amount
        /\ SumOf(ShortOf(sales')) = SumOf(ShortOf(sales)) + (sale.amount - CreditUsed(Joined(n).credit, sale.amount))
    BY <1>4, <1>5, <2>1, <2>2, SaleEntered
  <2>4. CreditUsed(Joined(n).credit, sale.amount) = 0
    BY <1>4 DEF CreditUsed
  <2>5. SumOf(AmountsOf(sales)) \in Int /\ SumOf(ShortOf(sales)) \in Int
    BY SumTypes, SumInt DEF LedgerTypes, BookTypes
  <2>6. /\ SumOf(AmountsOf(sales')) = SumOf(AmountsOf(sales)) - member'.credit
        /\ SumOf(ShortOf(sales')) = SumOf(ShortOf(sales)) - member'.credit
        /\ member'.credit <= 0
    BY <1>4, <2>1, <2>3, <2>4, <2>5
  <2> QED BY <1>1, <1>2, <1>3, <1>4, <1>6, <2>3, <2>6
<1>7. CASE n.type # "FULL"
  <2>1. member' = Joined(n) /\ sales' = sales
    BY <1>1, <1>7
  <2>2. SumOf(AmountsOf(sales)) \in Int /\ SumOf(ShortOf(sales)) \in Int
    BY SumTypes, SumInt DEF LedgerTypes, BookTypes
  <2>3. \A i \in 1 .. Len(sales') : sales'[i].credit <= sales'[i].amount /\ sales'[i].paidBy <= Len(rows')
    BY <1>3, <2>1 DEF LedgerTypes, BookTypes
  <2>4. sales' \in Seq(SaleRecords)
    BY <2>1 DEF LedgerTypes, BookTypes
  <2>5. /\ SumOf(AmountsOf(sales')) = SumOf(AmountsOf(sales)) - member'.credit
        /\ SumOf(ShortOf(sales')) = SumOf(ShortOf(sales)) - member'.credit
    <3>1. member'.credit = 0 /\ \A k \in Int : k - 0 = k
      BY <1>4, <2>1
    <3> QED BY <2>1, <2>2, <3>1
  <2>6. member' \in MemberRecords /\ member'.type \in {"FULL", "ONE-DAY"} /\ member'.credit <= 0
    BY <1>4, <2>1
  <2> QED BY <1>1, <1>2, <1>3, <2>3, <2>4, <2>5, <2>6
<1> QED BY <1>6, <1>7

\* However a line is entered, the books keep their kinds of rows.
LEMMA ProcessTypes ==
  ASSUME LedgerTypes, NEW n \in Lines, Process(n)
  PROVE  BookTypes' /\ Len(rows') >= Len(rows)
<1>0. /\ Len(rows) \in Nat /\ rows \in Seq(RowRecords) /\ sales \in Seq(SaleRecords) /\ member \in MemberRecords
      /\ card \in {"unseen", "nobody", "member", "gone"} /\ made \in Nat
      /\ \A i \in 1 .. Len(sales) : sales[i].credit <= sales[i].amount /\ sales[i].paidBy <= Len(rows)
  BY DEF LedgerTypes, BookTypes
<1>1. CASE n.kind = "sale"
  <2>1. n \in SaleLines /\ EnterSale(n)
    BY <1>1, Kinds DEF Process
  <2>2. n.item \in Items /\ n.amount \in Nat \ {0} /\ n.at \in Nat
    BY <2>1 DEF SaleLines
  <2>3. member' = Charged(member, n) /\ sales' = Entered(SaleOf(member, n)) /\ UNCHANGED <<card, rows, made>>
    BY <2>1 DEF EnterSale
  <2>4. /\ member' \in MemberRecords /\ sales' \in Seq(SaleRecords)
        /\ \A i \in 1 .. Len(sales') : sales'[i].credit <= sales'[i].amount /\ sales'[i].paidBy <= Len(rows')
    BY <1>0, <2>2, <2>3, SaleEntered
  <2> QED BY <1>0, <2>3, <2>4 DEF BookTypes
<1>2. CASE n.kind = "cc"
  <2>1. n \in CardLines /\ EnterCC(n)
    BY <1>2, Kinds DEF Process
  <2>2. UNCHANGED <<card, made>>
    BY <2>1, CardCases
  <2>3. CASE UNCHANGED <<member, sales, rows>>
    BY <1>0, <2>2, <2>3 DEF BookTypes
  <2>4. ASSUME NEW row \in Nat \ {0}, Consolidate(row, n), rows' \in Seq(RowRecords),
               row <= Len(rows'), Len(rows) <= Len(rows')
        PROVE  BookTypes' /\ Len(rows') >= Len(rows)
    <3>1. Len(rows') \in Nat
      BY <2>4
    <3>2. /\ member' \in MemberRecords /\ sales' \in Seq(SaleRecords)
          /\ \A i \in 1 .. Len(sales') : sales'[i].credit <= sales'[i].amount /\ sales'[i].paidBy <= Len(rows')
      BY <2>1, <2>4, <3>1, Consolidates
    <3> QED BY <1>0, <2>2, <2>4, <3>1, <3>2 DEF BookTypes
  <2>5. ASSUME NEW known \in BOOLEAN, rows' = Append(rows, Row(n, known)), Consolidate(Len(rows) + 1, n)
        PROVE  BookTypes' /\ Len(rows') >= Len(rows)
    <3>1. Row(n, known) \in RowRecords
      BY <2>1, NewRowIs DEF CardLines
    <3>2. rows' \in Seq(RowRecords) /\ Len(rows') = Len(rows) + 1
      BY <1>0, <2>5, <3>1
    <3> QED BY <1>0, <2>4, <2>5, <3>2
  <2>6. ASSUME NEW i \in 1 .. Len(rows), NEW known \in BOOLEAN, NEW amount \in Nat,
               rows' = [rows EXCEPT ![i] = NewRow(n, known, amount)], Consolidate(i, n)
        PROVE  BookTypes' /\ Len(rows') >= Len(rows)
    <3>1. NewRow(n, known, amount) \in RowRecords
      BY <2>1, NewRowIs
    <3>2. rows' \in Seq(RowRecords) /\ Len(rows') = Len(rows)
      BY <1>0, <2>6, <3>1
    <3> QED BY <1>0, <2>4, <2>6, <3>2
  <2> QED BY <2>1, <2>3, <2>5, <2>6, CardCases
<1>3. CASE n.kind = "new_memb"
  <2>1. n \in JoinLines /\ EnterNewMember(n)
    BY <1>3, Kinds DEF Process
  <2>2. CASE DuplicateCC
    <3>1. UNCHANGED books
      BY <2>1, <2>2 DEF EnterNewMember
    <3> QED BY <1>0, <3>1 DEF BookTypes, books
  <2>3. CASE ~DuplicateCC
    <3>1. /\ made' = made + 1 /\ card' = Registered(TRUE)
          /\ rows' \in Seq(RowRecords) /\ Len(rows') = Len(rows)
          /\ member' \in MemberRecords /\ sales' \in Seq(SaleRecords)
          /\ \A i \in 1 .. Len(sales') : sales'[i].credit <= sales'[i].amount /\ sales'[i].paidBy <= Len(rows')
      BY <2>1, <2>3, JoinCases
    <3>2. card' \in {"unseen", "nobody", "member", "gone"}
      BY <1>0, <3>1 DEF Registered
    <3>3. made' \in Nat /\ Len(rows') >= Len(rows)
      BY <1>0, <3>1
    <3>4. BookTypes'
      BY <3>1, <3>2, <3>3, Zenon DEF BookTypes
    <3> QED BY <3>3, <3>4
  <2> QED BY <2>2, <2>3
<1> QED BY <1>1, <1>2, <1>3 DEF Lines, SaleLines, CardLines, JoinLines

\* A card transaction that was captured, voided or given up.
Settled(n) == n \in CardLines /\ n.status # "PREAUTH"

\* What the kiosk sends for the first time: a sale or a capture only of a member; one
\* line for each transaction that is settled.
Fresh(n) ==
  /\ n \in SaleLines => session.who = "member"
  /\ n \in CardLines /\ n.status = "CAPTURED" => session.who = "member" /\ n.owner = "customer"
  /\ \/ ~Settled(n) /\ UNCHANGED holds
     \/ /\ ~Settled(n)
        /\ \E h \in Holds : holds[h] = "none" /\ holds' = [holds EXCEPT ![h] = "PREAUTH"]
     \/ /\ Settled(n) /\ holds[n.hold] = "PREAUTH"
        /\ holds' = [holds EXCEPT ![n.hold] = n.status]
  /\ session' \in Sessions
  /\ \/ session'.who \in {session.who, "nobody"}
     \/ n \in JoinLines /\ session'.who \in {"nobody", "member"}

\* Each of the kiosk's operations sends one line.
LEMMA Sends ==
  ASSUME LedgerTypes, Sell \/ \E h \in Holds : PreAuth(h) \/ Join(h) \/ Settle(h)
  PROVE  \E n \in Lines : Send(n) /\ Fresh(n)
<1>0. now \in Nat /\ Owner \in {"customer", "nobody"} /\ (session.who = "member" => Owner = "customer")
  BY DEF LedgerTypes, Owner
<1>s. session \in Sessions /\ NoSession \in Sessions
  BY DEF LedgerTypes, NoSession, Sessions
<1>1. CASE Sell
  <2>1. PICK item \in Items, a \in Nat \ {0} :
          Send([kind |-> "sale", item |-> item, amount |-> a, at |-> now])
    BY <1>1, Units DEF Sell, Items
  <2>2. session.who = "member" /\ session'.who = session.who /\ UNCHANGED holds
    BY <1>1, <1>s DEF Sell, Sessions
  <2>5. session' \in Sessions
    BY <1>1, <1>s DEF Sell, Sessions
  <2> DEFINE n == [kind |-> "sale", item |-> item, amount |-> a, at |-> now]
  <2>3. n \in SaleLines /\ n \in Lines /\ n \notin CardLines
    BY <1>0 DEF SaleLines, Lines, CardLines
  <2> HIDE DEF n
  <2>4. Fresh(n)
    BY <2>2, <2>3, <2>5 DEF Fresh, Settled
  <2> QED BY <2>1, <2>3, <2>4 DEF n
<1>2. ASSUME NEW h \in Holds, PreAuth(h) PROVE \E n \in Lines : Send(n) /\ Fresh(n)
  <2> DEFINE n == [kind |-> "cc", hold |-> h, status |-> "PREAUTH", amount |-> 0, owner |-> Owner, at |-> now]
  <2>1. Send(n) /\ session' = session /\ holds[h] = "none" /\ holds' = [holds EXCEPT ![h] = "PREAUTH"]
    BY <1>2 DEF PreAuth
  <2>2. n \in CardLines /\ n \in Lines /\ n \notin SaleLines /\ n.status = "PREAUTH"
    BY <1>0 DEF SaleLines, Lines, CardLines, Statuses
  <2> HIDE DEF n
  <2>3. Fresh(n)
    BY <1>s, <2>1, <2>2 DEF Fresh, Settled
  <2> QED BY <2>1, <2>2, <2>3
<1>3. ASSUME NEW h \in Holds, Join(h) PROVE \E n \in Lines : Send(n) /\ Fresh(n)
  <2>1. PICK t \in {"FULL", "ONE-DAY"} : Send([kind |-> "new_memb", type |-> t, hold |-> h])
    BY <1>3 DEF Join
  <2>2. session'.who \in {"nobody", "member"} /\ session' \in Sessions /\ UNCHANGED holds
    BY <1>3 DEF Join, NoSession, Sessions
  <2> DEFINE n == [kind |-> "new_memb", type |-> t, hold |-> h]
  <2>3. n \in JoinLines /\ n \in Lines /\ n \notin CardLines /\ n \notin SaleLines
    BY DEF SaleLines, Lines, CardLines, JoinLines
  <2> HIDE DEF n
  <2>4. Fresh(n)
    BY <2>2, <2>3 DEF Fresh, Settled
  <2> QED BY <2>1, <2>3, <2>4 DEF n
<1>4. ASSUME NEW h \in Holds, Settle(h) PROVE \E n \in Lines : Send(n) /\ Fresh(n)
  <2>1. PICK s \in {"CAPTURED", "VOIDED", "ERROR"}, a \in Amounts \cup {0} :
          /\ IF s = "CAPTURED" THEN session.who = "member" /\ a # 0 ELSE a = 0
          /\ holds' = [holds EXCEPT ![h] = s]
          /\ Send([kind |-> "cc", hold |-> h, status |-> s, amount |-> a, owner |-> Owner, at |-> now])
    BY <1>4 DEF Settle
  <2>2. holds[h] = "PREAUTH" /\ session'.who = "nobody" /\ session' \in Sessions /\ a \in Nat
    BY <1>4, Units DEF Settle, NoSession, Sessions
  <2> DEFINE n == [kind |-> "cc", hold |-> h, status |-> s, amount |-> a, owner |-> Owner, at |-> now]
  <2>3. /\ n \in CardLines /\ n \in Lines /\ n \notin SaleLines /\ n.status = s /\ s # "PREAUTH"
        /\ n.hold = h /\ n.owner = Owner
    BY <1>0, <2>2 DEF SaleLines, Lines, CardLines, Statuses
  <2> HIDE DEF n
  <2>4. Fresh(n)
    BY <1>0, <2>1, <2>2, <2>3 DEF Fresh, Settled
  <2> QED BY <2>1, <2>3, <2>4 DEF n
<1> QED BY <1>1, <1>2, <1>3, <1>4

\* The steps: nothing but the session, an authorization, time, a line again, and a line
\* for the first time.
LEMMA Steps ==
  ASSUME LedgerTypes, [Next]_vars
  PROVE  \/ UNCHANGED <<books, holds, sent, now>> /\ session' \in {session, NoSession}
         \/ Authorize \/ Tick \/ Again
         \/ \E n \in Lines : Send(n) /\ Fresh(n)
<1>1. CASE UNCHANGED vars
  BY <1>1 DEF vars
<1>2. CASE Leave
  BY <1>2 DEF Leave
<1>3. CASE Sell \/ \E h \in Holds : PreAuth(h) \/ Join(h) \/ Settle(h)
  BY <1>3, Sends
<1> QED BY <1>1, <1>2, <1>3 DEF Next

\* Time goes by: only the status of the member changes.
LEMMA TickMember ==
  ASSUME LedgerTypes, Tick
  PROVE  /\ UNCHANGED <<card, sales, rows, made, session, holds, sent>> /\ now' \in Nat
         /\ member' \in MemberRecords /\ member'.credit = member.credit /\ member'.type = member.type
         /\ member = NoMember => member' = NoMember
<1>1. UNCHANGED <<card, sales, rows, made, session, holds, sent>> /\ now' \in Nat
  BY DEF Tick, LedgerTypes
<1>2. member \in MemberRecords
  BY DEF LedgerTypes, BookTypes
<1>3. PICK s \in {member.status, "ASK_RENEWAL"} :
        /\ member' = [member EXCEPT !.status = s]
        /\ member.type \notin {"FULL", "NON-FUELING"} => s = member.status
  BY DEF Tick
<1>4. s \in MemberStatuses \cup {"none"}
  BY <1>2, <1>3 DEF MemberRecords, MemberStatuses
<1>5. member' \in MemberRecords /\ member'.credit = member.credit /\ member'.type = member.type
  BY <1>2, <1>3, <1>4 DEF MemberRecords
<1>6. member = NoMember => member' = NoMember
  BY <1>2, <1>3 DEF MemberRecords, NoMember
<1> QED BY <1>1, <1>5, <1>6

\* An authorization finds out whose the card is, and starts the session with it.
LEMMA AuthorizeSession ==
  ASSUME LedgerTypes, Authorize
  PROVE  /\ UNCHANGED <<member, sales, rows, made, holds, sent, now>>
         /\ session' \in Sessions
         /\ \E b \in BOOLEAN : /\ card' = Registered(b)
                               /\ b => Exists
                               /\ session'.who = "member" => b
<1>1. PICK right, named \in BOOLEAN :
        /\ card' = Registered(Found(named) /\ right)
        /\ session' =
             IF Found(named) /\ right
             THEN [who |-> "member", fuel |-> TRUE,
                   renewal |-> member.status \in {"ASK_RENEWAL", "EXPIRED"},
                   upgrade |-> member.type \notin {"FULL", "EMPLOYEE"}]
             ELSE IF Found(named) THEN NoSession ELSE [NoSession EXCEPT !.who = "new"]
  BY DEF Authorize
<1>2. UNCHANGED <<member, sales, rows, made, holds, sent, now>>
  BY DEF Authorize
<1>3. CASE Found(named) /\ right
  <2>1. session' = [who |-> "member", fuel |-> TRUE,
                    renewal |-> member.status \in {"ASK_RENEWAL", "EXPIRED"},
                    upgrade |-> member.type \notin {"FULL", "EMPLOYEE"}]
        /\ card' = Registered(TRUE)
    BY <1>1, <1>3
  <2>2. session' \in Sessions
    BY <2>1 DEF Sessions
  <2> QED BY <1>2, <1>3, <2>1, <2>2 DEF Found
<1>4. CASE ~(Found(named) /\ right)
  <2>1. card' = Registered(FALSE) /\ session' \in {NoSession, [NoSession EXCEPT !.who = "new"]}
    BY <1>1, <1>4
  <2>2. /\ NoSession \in Sessions /\ NoSession.who # "member"
        /\ [NoSession EXCEPT !.who = "new"] \in Sessions /\ [NoSession EXCEPT !.who = "new"].who # "member"
    BY DEF NoSession, Sessions
  <2>3. session' \in Sessions /\ session'.who # "member"
    BY <2>1, <2>2
  <2> QED BY <1>2, <2>1, <2>3
<1> QED BY <1>3, <1>4

\* A line that is sent for the first time is a line.
LEMMA FreshTypes ==
  ASSUME LedgerTypes, NEW n \in Lines, Send(n), Fresh(n)
  PROVE  LedgerTypes'
<1>1. Process(n) /\ sent' = sent \cup {n} /\ now' = now
  BY DEF Send
<1>2. BookTypes'
  BY <1>1, ProcessTypes
<1>3. session' \in Sessions
  BY DEF Fresh
<1>4. holds' \in [Holds -> Statuses \cup {"none"}]
  BY DEF Fresh, LedgerTypes, Settled, CardLines, Statuses
<1> QED BY <1>1, <1>2, <1>3, <1>4 DEF LedgerTypes, Lines

\* Every step keeps the kinds.
LEMMA NextTypes == LedgerTypes /\ [Next]_vars => LedgerTypes'
<1> SUFFICES ASSUME LedgerTypes, [Next]_vars PROVE LedgerTypes'
  OBVIOUS
<1>0. NoSession \in Sessions
  BY DEF NoSession, Sessions
<1>1. CASE UNCHANGED <<books, holds, sent, now>> /\ session' \in {session, NoSession}
  BY <1>0, <1>1 DEF LedgerTypes, BookTypes, books
<1>2. CASE Authorize
  <2>1. UNCHANGED <<member, sales, rows, made, holds, sent, now>> /\ session' \in Sessions
    BY <1>2, AuthorizeSession
  <2>2. PICK b \in BOOLEAN : card' = Registered(b)
    BY <1>2, AuthorizeSession
  <2>3. card' \in {"unseen", "nobody", "member", "gone"}
    BY <2>2 DEF LedgerTypes, BookTypes, Registered
  <2> QED BY <2>1, <2>3 DEF LedgerTypes, BookTypes
<1>3. CASE Tick
  <2>1. /\ UNCHANGED <<card, sales, rows, made, session, holds, sent>> /\ now' \in Nat
        /\ member' \in MemberRecords
    BY <1>3, TickMember
  <2> QED BY <2>1 DEF LedgerTypes, BookTypes
<1>4. CASE Again
  <2>1. PICK n \in sent : Process(n) /\ UNCHANGED <<session, holds, sent, now>>
    BY <1>4 DEF Again
  <2>2. BookTypes'
    BY <2>1, ProcessTypes DEF LedgerTypes, Lines
  <2> QED BY <2>1, <2>2 DEF LedgerTypes
<1> QED BY <1>1, <1>2, <1>3, <1>4, Steps, FreshTypes

\* The books start with their kinds.
LEMMA InitTypes == Init => LedgerTypes
<1> SUFFICES ASSUME Init PROVE LedgerTypes
  OBVIOUS
<1>1. member \in MemberRecords
  BY Units DEF Init, MemberRows, NoMember, MemberRecords
<1>2. session \in Sessions /\ holds \in [Holds -> Statuses \cup {"none"}]
  BY DEF Init, NoSession, Sessions
<1>3. card \in {"unseen", "nobody", "member", "gone"}
  BY Units DEF Init
<1>4. sales \in Seq(SaleRecords) /\ Len(sales) = 0 /\ rows \in Seq(RowRecords) /\ made \in Nat /\ now \in Nat /\ sent = {}
  BY DEF Init
<1> QED BY <1>1, <1>2, <1>3, <1>4 DEF LedgerTypes, BookTypes

\* Every row has fields of its kind, and no sale shows more credit than it costs or is paid
\* by a card transaction that is not there, however often its line comes (do_notice,
\* do_new_memb, consolidateCC).
THEOREM LedgerTypeCorrect == Spec => []TypeOK
<1>1. LedgerTypes => TypeOK
  <2> SUFFICES ASSUME LedgerTypes PROVE TypeOK
    OBVIOUS
  <2>1. member.credit \in Int /\ member.type \in MemberTypes \cup {"none"}
        /\ card \in {"unseen", "nobody", "member", "gone"}
    BY DEF LedgerTypes, BookTypes, MemberRecords
  <2>2. ASSUME NEW s \in ToSet(sales) PROVE s.credit \in 0 .. s.amount /\ s.paidBy \in 0 .. Len(rows)
    <3>1. PICK i \in 1 .. Len(sales) : s = sales[i]
      BY DEF ToSet, LedgerTypes, BookTypes
    <3>2. s \in SaleRecords /\ s.credit <= s.amount /\ s.paidBy <= Len(rows) /\ Len(rows) \in Nat
      BY <3>1 DEF LedgerTypes, BookTypes
    <3> QED BY <3>2 DEF SaleRecords
  <2>3. ASSUME NEW r \in ToSet(rows) PROVE r.status \in {"PREAUTH", "CAPTURED", "VOIDED", "ERROR"}
    <3>1. PICK i \in 1 .. Len(rows) : r = rows[i]
      BY DEF ToSet, LedgerTypes, BookTypes
    <3>2. r \in RowRecords
      BY <3>1 DEF LedgerTypes, BookTypes
    <3> QED BY <3>2 DEF RowRecords, Statuses
  <2> QED BY <2>1, <2>2, <2>3 DEF TypeOK
<1> QED BY <1>1, InitTypes, NextTypes, PTL DEF Spec

(***************************************************************************)
(* Whose the books are.                                                    *)
(***************************************************************************)
\* A line that money depends on.
Money(n) == n \in SaleLines \/ (n \in CardLines /\ n.status = "CAPTURED")

\* Only a member whose the card is has sales and pays for them; what is sold to a member
\* comes after he was found by his card or has just been given it.
BooksInv ==
  /\ LedgerTypes
  /\ card # "gone"
  /\ member.type = "none" => member = NoMember
  /\ card = "member" => member.type # "none"
  /\ session.who = "member" => card = "member"
  /\ card # "member" => sales = <<>> /\ \A n \in sent : ~Money(n)

\* What there is of a line that is entered for the first time or again.
LEMMA ProcessBooks ==
  ASSUME BooksInv, NEW n \in Lines, Process(n), Money(n) => card = "member"
  PROVE  /\ card' # "gone" /\ (card = "member" => card' = "member")
         /\ member'.type = "none" => member' = NoMember
         /\ card' = "member" => member'.type # "none"
         /\ card' # "member" => sales' = <<>>
         /\ n \in JoinLines => card' = "member"
<1>0. LedgerTypes /\ member \in MemberRecords
  BY DEF BooksInv, LedgerTypes, BookTypes
<1>1. CASE n.kind = "sale"
  <2>1. n \in SaleLines /\ n \notin JoinLines /\ EnterSale(n) /\ card = "member"
    BY <1>1, Kinds DEF Process, Money, JoinLines
  <2>2. n.amount \in Int
    BY <2>1 DEF SaleLines
  <2>3. member' = Charged(member, n) /\ card' = card
    BY <2>1 DEF EnterSale
  <2>4. member'.type \in {"FULL", member.type}
    BY <1>0, <2>2, <2>3, ChargedRecord DEF LedgerTypes
  <2> QED BY <2>1, <2>3, <2>4 DEF BooksInv
<1>2. CASE n.kind = "cc"
  <2>1. n \in CardLines /\ n \notin JoinLines /\ EnterCC(n)
    BY <1>2, Kinds DEF Process, JoinLines
  <2>2. card' = card
    BY <1>0, <2>1, CardCases
  <2>3. CASE card = "member"
    <3>1. member'.type = member.type
      <4>1. member' = member \/ member' = [member EXCEPT !.credit = @ + n.amount]
        BY <2>1 DEF EnterCC, Consolidate
      <4> QED BY <1>0, <4>1 DEF MemberRecords
    <3> QED BY <2>1, <2>2, <2>3, <3>1 DEF BooksInv
  <2>4. CASE card # "member"
    <3>1. ~Paid(n)
      BY <2>1, <2>4 DEF Money, Paid
    <3>2. member' = member /\ sales' = sales
      BY <2>1, <3>1 DEF EnterCC, Consolidate
    <3> QED BY <2>1, <2>2, <2>4, <3>2 DEF BooksInv
  <2> QED BY <2>3, <2>4
<1>3. CASE n.kind = "new_memb"
  <2>1. n \in JoinLines /\ EnterNewMember(n)
    BY <1>3, Kinds DEF Process
  <2>2. CASE DuplicateCC
    <3>1. UNCHANGED books /\ card = "member"
      BY <2>1, <2>2 DEF EnterNewMember, DuplicateCC
    <3> QED BY <3>1 DEF BooksInv, books
  <2>3. CASE ~DuplicateCC
    <3>1. card' = Registered(TRUE) /\ member'.type \in {"FULL", "ONE-DAY"}
      BY <1>0, <2>1, <2>3, JoinCases
    <3>2. card' = "member"
      BY <3>1 DEF Registered, BooksInv, LedgerTypes, BookTypes
    <3> QED BY <3>1, <3>2
  <2> QED BY <2>2, <2>3
<1> QED BY <1>1, <1>2, <1>3 DEF Lines, SaleLines, CardLines, JoinLines

\* Every step leaves sales and payments to a member whose the card is.
LEMMA NextBooks == BooksInv /\ [Next]_vars => BooksInv'
<1> SUFFICES ASSUME BooksInv, [Next]_vars PROVE BooksInv'
  OBVIOUS
<1>0. LedgerTypes /\ LedgerTypes'
  BY NextTypes DEF BooksInv
<1>1. CASE UNCHANGED <<books, holds, sent, now>> /\ session' \in {session, NoSession}
  BY <1>0, <1>1 DEF BooksInv, books, NoSession
<1>2. CASE Authorize
  <2>1. UNCHANGED <<member, sales, rows, made, holds, sent, now>>
    BY <1>0, <1>2, AuthorizeSession
  <2>2. PICK b \in BOOLEAN : card' = Registered(b) /\ (b => Exists) /\ (session'.who = "member" => b)
    BY <1>0, <1>2, AuthorizeSession
  <2>3. card # "gone" /\ card \in {"unseen", "nobody", "member", "gone"}
    BY <1>0 DEF BooksInv, LedgerTypes, BookTypes
  <2>4. /\ card' # "gone" /\ (card = "member" => card' = "member") /\ (b => card' = "member")
        /\ (card' = "member" => b \/ card = "member")
    BY <2>2, <2>3 DEF Registered
  <2>5. Exists => member.type # "none"
    BY DEF BooksInv, Exists
  <2> QED BY <1>0, <2>1, <2>2, <2>4, <2>5 DEF BooksInv
<1>3. CASE Tick
  <2>1. /\ UNCHANGED <<card, sales, rows, made, session, holds, sent>>
        /\ member'.type = member.type /\ (member = NoMember => member' = NoMember)
    BY <1>0, <1>3, TickMember
  <2> QED BY <1>0, <2>1 DEF BooksInv
<1>4. CASE Again
  <2>1. PICK n \in sent : Process(n) /\ UNCHANGED <<session, holds, sent, now>>
    BY <1>4 DEF Again
  <2>2. n \in Lines /\ (Money(n) => card = "member")
    BY <1>0 DEF LedgerTypes, Lines, BooksInv
  <2>3. /\ card' # "gone" /\ (card = "member" => card' = "member")
        /\ (member'.type = "none" => member' = NoMember)
        /\ (card' = "member" => member'.type # "none")
        /\ (card' # "member" => sales' = <<>>)
    BY <2>1, <2>2, ProcessBooks
  <2> QED BY <1>0, <2>1, <2>3 DEF BooksInv
<1>5. ASSUME NEW n \in Lines, Send(n), Fresh(n) PROVE BooksInv'
  <2>1. Process(n) /\ sent' = sent \cup {n}
    BY <1>5 DEF Send
  <2>2. Money(n) => card = "member"
    BY <1>5 DEF Money, Fresh, BooksInv
  <2>3. /\ card' # "gone" /\ (card = "member" => card' = "member")
        /\ (member'.type = "none" => member' = NoMember)
        /\ (card' = "member" => member'.type # "none")
        /\ (card' # "member" => sales' = <<>>)
        /\ (n \in JoinLines => card' = "member")
    BY <2>1, <2>2, ProcessBooks
  <2>4. session'.who = "member" => card' = "member"
    BY <1>5, <2>3 DEF Fresh, BooksInv
  <2>5. card' # "member" => \A m \in sent' : ~Money(m)
    BY <2>1, <2>2, <2>3 DEF BooksInv
  <2> QED BY <1>0, <2>3, <2>4, <2>5 DEF BooksInv
<1> QED BY <1>0, <1>1, <1>2, <1>3, <1>4, <1>5, Steps

\* A customer who is not known has bought nothing.
LEMMA InitBooks ==
  ASSUME Cards \subseteq {"unseen", "nobody", "member"}
  PROVE  Init => BooksInv
<1> SUFFICES ASSUME Init PROVE BooksInv
  OBVIOUS
<1>1. LedgerTypes
  BY InitTypes
<1>2. card # "gone" /\ sales = <<>> /\ sent = {} /\ session.who = "nobody"
  BY DEF Init, NoSession
<1>3. member.type = "none" => member = NoMember
  BY Units DEF Init, MemberRows, MemberTypes
<1>4. card = "member" => member # NoMember
  BY DEF Init, Exists
<1> QED BY <1>1, <1>2, <1>3, <1>4 DEF BooksInv

\* The test for duplicates finds the card of a member, and no other.
LEMMA DuplicateIs ==
  ASSUME BooksInv
  PROVE  DuplicateCC <=> card = "member"
BY DEF BooksInv, DuplicateCC, Exists, NoMember

(***************************************************************************)
(* One member for one line.                                                *)
(***************************************************************************)
\* The card of a member who was made is his: this is what the test for duplicates sees.
MadeInv == BooksInv /\ made \in {0, 1} /\ (made = 1 => card = "member")

\* A new member's line makes a member only where the card is not yet a member's.
LEMMA ProcessMade ==
  ASSUME MadeInv, NEW n \in Lines, Process(n), Money(n) => card = "member"
  PROVE  made' \in {0, 1} /\ (made' = 1 => card' = "member")
<1>0. BooksInv /\ LedgerTypes
  BY DEF MadeInv, BooksInv
<1>1. card = "member" => card' = "member"
  BY <1>0, ProcessBooks
<1>2. CASE n.kind = "sale"
  <2>1. made' = made
    BY <1>2 DEF Process, EnterSale
  <2> QED BY <1>1, <2>1 DEF MadeInv
<1>3. CASE n.kind = "cc"
  <2>1. made' = made
    BY <1>3 DEF Process, EnterCC
  <2> QED BY <1>1, <2>1 DEF MadeInv
<1>4. CASE n.kind = "new_memb"
  <2>1. n \in JoinLines /\ EnterNewMember(n)
    BY <1>4, Kinds DEF Process
  <2>2. card' = "member"
    BY <1>0, <2>1, ProcessBooks
  <2>3. CASE DuplicateCC
    <3>1. UNCHANGED books
      BY <2>1, <2>3 DEF EnterNewMember
    <3> QED BY <2>2, <3>1 DEF MadeInv, books
  <2>4. CASE ~DuplicateCC
    <3>1. made = 0 /\ made' = made + 1
      BY <1>0, <2>1, <2>4, JoinCases, DuplicateIs DEF MadeInv
    <3> QED BY <2>2, <3>1
  <2> QED BY <2>3, <2>4
<1> QED BY <1>2, <1>3, <1>4 DEF Lines, SaleLines, CardLines, JoinLines

\* Every step leaves one member made at most, with the card.
LEMMA NextMade == MadeInv /\ [Next]_vars => MadeInv'
<1> SUFFICES ASSUME MadeInv, [Next]_vars PROVE MadeInv'
  OBVIOUS
<1>0. BooksInv /\ BooksInv' /\ LedgerTypes
  BY NextBooks DEF MadeInv, BooksInv
<1>1. CASE UNCHANGED <<books, holds, sent, now>> /\ session' \in {session, NoSession}
  BY <1>0, <1>1 DEF MadeInv, books
<1>2. CASE Authorize
  <2>1. UNCHANGED made
    BY <1>0, <1>2, AuthorizeSession
  <2>2. card = "member" => card' = "member"
    <3>1. PICK b \in BOOLEAN : card' = Registered(b)
      BY <1>0, <1>2, AuthorizeSession
    <3> QED BY <3>1 DEF Registered
  <2> QED BY <1>0, <2>1, <2>2 DEF MadeInv
<1>3. CASE Tick
  BY <1>0, <1>3, TickMember DEF MadeInv
<1>4. CASE Again
  <2>1. PICK n \in sent : Process(n)
    BY <1>4 DEF Again
  <2>2. n \in Lines /\ (Money(n) => card = "member")
    BY <1>0 DEF LedgerTypes, Lines, BooksInv
  <2> QED BY <1>0, <2>1, <2>2, ProcessMade DEF MadeInv
<1>5. ASSUME NEW n \in Lines, Send(n), Fresh(n) PROVE MadeInv'
  <2>1. Process(n) /\ (Money(n) => card = "member")
    BY <1>0, <1>5 DEF Send, Money, Fresh, BooksInv
  <2> QED BY <1>0, <2>1, ProcessMade DEF MadeInv
<1> QED BY <1>0, <1>1, <1>2, <1>3, <1>4, <1>5, Steps

\* However often the line of a new member comes, one member is made of it (do_new_memb
\* and DUPLICATE_CC_CHECK), unless the card is one that stayed with a member who is gone.
THEOREM OneMember ==
  ASSUME Cards \subseteq {"unseen", "nobody", "member"}
  PROVE  Spec => []OneMemberMade
<1>1. Init => MadeInv
  BY InitBooks DEF Init, MadeInv
<1>2. MadeInv => OneMemberMade
  BY DEF MadeInv, OneMemberMade
<1> QED BY <1>1, <1>2, NextMade, PTL DEF Spec

(***************************************************************************)
(* What is not covered is owed.                                            *)
(***************************************************************************)
LEMMA UncoveredIs == Uncovered = SumOf(ShortOf(sales))
BY DEF Uncovered, Total, SumOf, ShortOf, Short

\* Before the first sale.
LEMMA EmptySums == SumOf(ShortOf(<<>>)) = 0 /\ SumOf(AmountsOf(<<>>)) = 0
<1>1. <<>> \in Seq(SaleRecords) /\ Len(<<>>) = 0
  OBVIOUS
<1>2. /\ ShortOf(<<>>) \in Seq(Int) /\ Len(ShortOf(<<>>)) = 0
      /\ AmountsOf(<<>>) \in Seq(Int) /\ Len(AmountsOf(<<>>)) = 0
  BY <1>1, SumTypes
<1> QED BY <1>2, SumZeros

Owed == SumOf(ShortOf(sales)) <= Debt

\* No line leaves more of the sales unpaid than is owed.
LEMMA ProcessOwed ==
  ASSUME BooksInv, Owed, NEW n \in Lines, Process(n), Money(n) => card = "member"
  PROVE  Owed'
<1>0. LedgerTypes /\ member \in MemberRecords /\ member.credit \in Int /\ sales \in Seq(SaleRecords)
      /\ Len(rows) \in Nat
  BY DEF BooksInv, LedgerTypes, BookTypes, MemberRecords
<1>u. SumOf(ShortOf(sales)) \in Nat
  <2>1. \A k \in 1 .. Len(ShortOf(sales)) : ShortOf(sales)[k] >= 0
    <3> SUFFICES ASSUME NEW k \in 1 .. Len(ShortOf(sales)) PROVE ShortOf(sales)[k] >= 0
      OBVIOUS
    <3>1. k \in 1 .. Len(sales) /\ ShortOf(sales)[k] = Short(sales[k])
      BY <1>0, SumTypes
    <3>2. sales[k] \in SaleRecords /\ sales[k].credit <= sales[k].amount
      BY <1>0, <3>1 DEF LedgerTypes, BookTypes
    <3> QED BY <3>1, <3>2 DEF Short, SaleRecords
  <2> QED BY <1>0, <2>1, SumTypes, SumInt, SumBounds
<1>1. CASE n.kind = "sale"
  <2>1. n \in SaleLines /\ EnterSale(n)
    BY <1>1, Kinds DEF Process
  <2>2. n.item \in Items /\ n.amount \in Nat \ {0} /\ n.at \in Nat
    BY <2>1 DEF SaleLines
  <2>3. member' = Charged(member, n) /\ sales' = Entered(SaleOf(member, n)) /\ rows' = rows
    BY <2>1 DEF EnterSale
  <2>4. /\ member'.credit = member.credit - n.amount
        /\ SumOf(ShortOf(sales')) = SumOf(ShortOf(sales)) + (n.amount - CreditUsed(member.credit, n.amount))
    <3>1. Len(rows') \in Nat /\ Len(rows') >= Len(rows)
      BY <1>0, <2>3
    <3> QED BY <1>0, <2>2, <2>3, <3>1, SaleEntered
  <2> QED BY <1>0, <1>u, <2>2, <2>4 DEF Owed, Debt, CreditUsed
<1>2. CASE n.kind = "cc"
  <2>1. n \in CardLines /\ EnterCC(n) /\ n.amount \in Nat
    BY <1>2, Kinds DEF Process, CardLines
  <2>2. CASE UNCHANGED <<member, sales, rows>>
    BY <2>2 DEF Owed, Debt
  <2>3. ASSUME NEW row \in Nat \ {0}, Consolidate(row, n), Len(rows') \in Nat,
               row <= Len(rows'), Len(rows) <= Len(rows')
        PROVE  Owed'
    <3>1. /\ member'.credit = member.credit + IF Paid(n) THEN n.amount ELSE 0
          /\ Paid(n) => /\ SumOf(ShortOf(sales')) \in Nat /\ SumOf(ShortOf(sales')) <= SumOf(ShortOf(sales))
                        /\ \/ SumOf(ShortOf(sales')) = 0
                           \/ SumOf(ShortOf(sales')) <= SumOf(ShortOf(sales)) - Spendable(member.credit, n.amount)
          /\ ~Paid(n) => sales' = sales
      BY <1>0, <2>1, <2>3, Consolidates
    <3>2. CASE Paid(n)
      BY <1>0, <1>u, <2>1, <3>1, <3>2 DEF Owed, Debt, Spendable
    <3>3. CASE ~Paid(n)
      BY <1>0, <3>1, <3>3 DEF Owed, Debt
    <3> QED BY <3>2, <3>3
  <2>4. ASSUME NEW known \in BOOLEAN, rows' = Append(rows, Row(n, known)), Consolidate(Len(rows) + 1, n)
        PROVE  Owed'
    <3>1. rows \in Seq(RowRecords) /\ Row(n, known) \in RowRecords
      BY <1>0, <2>1, NewRowIs DEF LedgerTypes, BookTypes
    <3>2. Len(rows') = Len(rows) + 1
      BY <2>4, <3>1
    <3> QED BY <1>0, <2>3, <2>4, <3>2
  <2>5. ASSUME NEW i \in 1 .. Len(rows), NEW known \in BOOLEAN, NEW amount \in Nat,
               rows' = [rows EXCEPT ![i] = NewRow(n, known, amount)], Consolidate(i, n)
        PROVE  Owed'
    <3>1. rows \in Seq(RowRecords) /\ NewRow(n, known, amount) \in RowRecords
      BY <1>0, <2>1, NewRowIs DEF LedgerTypes, BookTypes
    <3>2. Len(rows') = Len(rows)
      BY <2>5, <3>1
    <3> QED BY <1>0, <2>3, <2>5, <3>2
  <2> QED BY <1>0, <2>1, <2>2, <2>4, <2>5, CardCases
<1>3. CASE n.kind = "new_memb"
  <2>1. n \in JoinLines /\ EnterNewMember(n)
    BY <1>3, Kinds DEF Process
  <2>2. CASE DuplicateCC
    <3>1. UNCHANGED books
      BY <2>1, <2>2 DEF EnterNewMember
    <3> QED BY <3>1 DEF Owed, Debt, books
  <2>3. CASE ~DuplicateCC
    <3>1. /\ member' \in MemberRecords /\ member'.credit <= 0
          /\ SumOf(ShortOf(sales')) = SumOf(ShortOf(sales)) - member'.credit
      BY <1>0, <2>1, <2>3, JoinCases
    <3>2. SumOf(ShortOf(sales)) = 0
      BY <2>3, DuplicateIs, EmptySums DEF BooksInv
    <3>3. member'.credit \in Int
      BY <3>1 DEF MemberRecords
    <3> QED BY <3>1, <3>2, <3>3 DEF Owed, Debt
  <2> QED BY <2>2, <2>3
<1> QED BY <1>1, <1>2, <1>3 DEF Lines, SaleLines, CardLines, JoinLines

\* Nor does any other step.
LEMMA NextOwed == BooksInv /\ Owed /\ [Next]_vars => Owed'
<1> SUFFICES ASSUME BooksInv, Owed, [Next]_vars PROVE Owed'
  OBVIOUS
<1>0. LedgerTypes
  BY DEF BooksInv
<1>1. CASE UNCHANGED <<books, holds, sent, now>> /\ session' \in {session, NoSession}
  BY <1>1 DEF Owed, Debt, books
<1>2. CASE Authorize
  BY <1>0, <1>2, AuthorizeSession DEF Owed, Debt
<1>3. CASE Tick
  BY <1>0, <1>3, TickMember DEF Owed, Debt
<1>4. CASE Again
  <2>1. PICK n \in sent : Process(n)
    BY <1>4 DEF Again
  <2>2. n \in Lines /\ (Money(n) => card = "member")
    BY <1>0 DEF LedgerTypes, Lines, BooksInv
  <2> QED BY <2>1, <2>2, ProcessOwed
<1>5. ASSUME NEW n \in Lines, Send(n), Fresh(n) PROVE Owed'
  <2>1. Process(n) /\ (Money(n) => card = "member")
    BY <1>5 DEF Send, Money, Fresh, BooksInv
  <2> QED BY <2>1, ProcessOwed
<1> QED BY <1>0, <1>1, <1>2, <1>3, <1>4, <1>5, Steps

\* The sales never show more unpaid than the customer owes, for any customer, prices and
\* order of sales and payments, new and again (CreditUsed, consolidateCC), unless the card is
\* one that stayed with a member who is gone.
THEOREM UncoveredOwed ==
  ASSUME Cards \subseteq {"unseen", "nobody", "member"}
  PROVE  Spec => []UncoveredIsOwed
<1>1. Init => BooksInv /\ Owed
  <2> SUFFICES ASSUME Init PROVE BooksInv /\ Owed
    OBVIOUS
  <2>1. BooksInv /\ sales = <<>>
    BY InitBooks DEF Init
  <2>2. member.credit \in Int
    BY <2>1 DEF BooksInv, LedgerTypes, BookTypes, MemberRecords
  <2> QED BY <2>1, <2>2, EmptySums DEF Owed, Debt
<1>2. BooksInv /\ Owed /\ [Next]_vars => (BooksInv /\ Owed)'
  BY NextBooks, NextOwed
<1>3. BooksInv /\ Owed => UncoveredIsOwed
  BY UncoveredIs DEF Owed, UncoveredIsOwed
<1> QED BY <1>1, <1>2, <1>3, PTL DEF Spec

(***************************************************************************)
(* The credit is the balance.                                              *)
(***************************************************************************)
LEMMA BalanceIs ==
  CreditIsBalance <=> member.credit = SumOf(PaidOf(rows)) - SumOf(AmountsOf(sales))
BY DEF CreditIsBalance, Total, SumOf, PaidOf, AmountsOf

Balanced == member.credit = SumOf(PaidOf(rows)) - SumOf(AmountsOf(sales))

\* The line n is the only one that settles its transaction.
Settles(n) == Settled(n) => \A m \in sent : Settled(m) /\ m.hold = n.hold => m = n

\* Every capture that was entered is a line of the customer that the kiosk sent, and no
\* other line settles its transaction: so it is identical when it comes again.
CaptureInv ==
  /\ card # "member" => member.credit = 0 /\ \A i \in 1 .. Len(rows) : rows[i].status # "CAPTURED"
  /\ \A n \in sent : Settles(n)
  /\ \A n \in sent : /\ Settled(n) => holds[n.hold] = n.status
                     /\ n \in CardLines /\ n.status = "CAPTURED" => n.owner = "customer"
  /\ \A i \in 1 .. Len(rows) : rows[i].status = "CAPTURED" =>
       \E n \in sent : Settled(n) /\ rows[i] = Row(n, TRUE)

\* A row that is not paid, or was not, changes the sum by what it comes to.
LEMMA PaidAppended ==
  ASSUME NEW r \in Seq(RowRecords), NEW x \in RowRecords
  PROVE  SumOf(PaidOf(Append(r, x))) = SumOf(PaidOf(r)) + (IF Paid(x) THEN x.amount ELSE 0)
<1> DEFINE t == Append(r, x)
<1>1. t \in Seq(RowRecords) /\ Len(t) = Len(r) + 1 /\ t[Len(r) + 1] = x /\ Len(r) \in Nat
      /\ \A k \in 1 .. Len(r) : t[k] = r[k]
  OBVIOUS
<1> HIDE DEF t
<1>2. PaidOf(r) \in Seq(Int) /\ PaidOf(t) \in Seq(Int) /\ Len(PaidOf(r)) = Len(r) /\ Len(PaidOf(t)) = Len(r) + 1
  BY <1>1, PaidTypes
<1>3. PaidOf(t)[Len(r) + 1] = IF Paid(x) THEN x.amount ELSE 0
  <2>1. Len(r) + 1 \in 1 .. Len(t)
    BY <1>1
  <2> QED BY <1>1, <2>1, PaidTypes
<1>4. ASSUME NEW k \in 1 .. Len(PaidOf(r))
      PROVE  PaidOf(t)[IF k < Len(r) + 1 THEN k ELSE k + 1] = PaidOf(r)[k]
  <2>1. k \in 1 .. Len(r) /\ k < Len(r) + 1 /\ k \in 1 .. Len(t)
    BY <1>1, <1>2
  <2>2. PaidOf(t)[k] = PaidOf(r)[k]
    BY <1>1, <2>1, PaidTypes
  <2> QED BY <2>1, <2>2
<1>5. Len(r) + 1 \in 1 .. Len(PaidOf(r)) + 1
  BY <1>1, <1>2
<1>6. SumOf(PaidOf(t)) = SumOf(PaidOf(r)) + PaidOf(t)[Len(r) + 1]
  <2> DEFINE a == PaidOf(r)
             b == PaidOf(t)
             i == Len(r) + 1
  <2>1. a \in Seq(Int) /\ b \in Seq(Int) /\ i \in 1 .. Len(a) + 1 /\ Len(b) = Len(a) + 1
        /\ \A k \in 1 .. Len(a) : b[IF k < i THEN k ELSE k + 1] = a[k]
    BY <1>2, <1>4, <1>5
  <2> HIDE DEF a, b, i
  <2>2. SumOf(b) = SumOf(a) + b[i]
    BY <2>1, SumOneMore
  <2> QED BY <2>2 DEF a, b, i
<1> QED BY <1>3, <1>6 DEF t

\* A row that was not paid is replaced by one that may be.
LEMMA PaidReplaced ==
  ASSUME NEW r \in Seq(RowRecords), NEW i \in 1 .. Len(r), NEW x \in RowRecords, ~Paid(r[i])
  PROVE  SumOf(PaidOf([r EXCEPT ![i] = x])) = SumOf(PaidOf(r)) + (IF Paid(x) THEN x.amount ELSE 0)
<1> DEFINE t == [r EXCEPT ![i] = x]
<1>1. t \in Seq(RowRecords) /\ Len(t) = Len(r) /\ t[i] = x /\ Len(r) \in Nat
      /\ \A k \in 1 .. Len(r) : k # i => t[k] = r[k]
  OBVIOUS
<1> HIDE DEF t
<1> DEFINE a == PaidOf(r)
           b == PaidOf(t)
<1>2. a \in Seq(Int) /\ b \in Seq(Int) /\ Len(b) = Len(a) /\ Len(a) = Len(r)
  BY <1>1, PaidTypes
<1>3. b[i] = (IF Paid(x) THEN x.amount ELSE 0) /\ a[i] = 0
  BY <1>1, PaidTypes
<1>4. ASSUME NEW k \in 1 .. Len(a), k # i PROVE b[k] = a[k]
  BY <1>1, <1>2, <1>4, PaidTypes
<1> HIDE DEF a, b
<1>5. SumOf(b) = SumOf(a) - a[i] + b[i]
  BY <1>2, <1>4, SumChanged
<1>6. SumOf(a) \in Int
  BY <1>2, SumInt
<1>7. SumOf(b) = SumOf(a) + b[i]
  <2>1. b[i] \in Int
    BY <1>2
  <2> QED BY <1>3, <1>5, <1>6, <2>1
<1> QED BY <1>3, <1>7 DEF a, b, t

\* A row that was captured is a line that comes no other way, so the row of another line
\* never takes its place.
LEMMA NeverReplaced ==
  ASSUME BooksInv, CaptureInv, SameWords, NEW n \in CardLines, Settled(n), Settles(n), ~Identical(n),
         NEW i \in 1 .. Len(rows), rows[i].hold = n.hold
  PROVE  rows[i].status # "CAPTURED"
<1> SUFFICES ASSUME rows[i].status = "CAPTURED" PROVE FALSE
  OBVIOUS
<1>1. PICK m \in sent : Settled(m) /\ rows[i] = Row(m, TRUE)
  BY DEF CaptureInv
<1>2. m.hold = n.hold /\ m.status = "CAPTURED"
  BY <1>1 DEF Row
<1>3. m = n
  BY <1>1, <1>2 DEF Settles
<1>4. n.owner = "customer" /\ card = "member"
  BY <1>1, <1>2, <1>3 DEF CaptureInv
<1>5. Row(n, TRUE) \in ToSet(rows)
  <2>1. i \in DOMAIN rows
    BY DEF BooksInv, LedgerTypes, BookTypes
  <2> QED BY <1>1, <1>3, <2>1 DEF ToSet
<1> QED BY <1>4, <1>5 DEF Identical, KnownCard

\* A line changes the credit by what it changes the sums by.
LEMMA ProcessBalanced ==
  ASSUME BooksInv, CaptureInv, Balanced, SameWords, NEW n \in Lines, Process(n),
         Money(n) => card = "member", Settles(n),
         n \in CardLines /\ n.status = "CAPTURED" => n.owner = "customer"
  PROVE  /\ Balanced'
         /\ card' # "member" => member'.credit = 0 /\ \A i \in 1 .. Len(rows') : rows'[i].status # "CAPTURED"
         /\ \A i \in 1 .. Len(rows') : rows'[i].status = "CAPTURED" =>
              \E m \in sent \cup {n} : Settled(m) /\ rows'[i] = Row(m, TRUE)
<1>0. /\ LedgerTypes /\ member \in MemberRecords /\ member.credit \in Int
      /\ sales \in Seq(SaleRecords) /\ rows \in Seq(RowRecords) /\ Len(rows) \in Nat
      /\ SumOf(PaidOf(rows)) \in Int /\ SumOf(AmountsOf(sales)) \in Int
  <2>1. /\ LedgerTypes /\ member \in MemberRecords /\ member.credit \in Int
        /\ sales \in Seq(SaleRecords) /\ rows \in Seq(RowRecords) /\ Len(rows) \in Nat
    BY DEF BooksInv, LedgerTypes, BookTypes, MemberRecords
  <2> QED BY <2>1, SumTypes, PaidTypes, SumInt
<1>r. \A i \in 1 .. Len(rows) : rows[i].status = "CAPTURED" => \E m \in sent : Settled(m) /\ rows[i] = Row(m, TRUE)
  BY DEF CaptureInv
<1>1. CASE n.kind = "sale"
  <2>1. n \in SaleLines /\ EnterSale(n) /\ card = "member"
    BY <1>1, Kinds DEF Process, Money
  <2>2. n.item \in Items /\ n.amount \in Nat \ {0} /\ n.at \in Nat
    BY <2>1 DEF SaleLines
  <2>3. member' = Charged(member, n) /\ sales' = Entered(SaleOf(member, n)) /\ UNCHANGED <<card, rows>>
    BY <2>1 DEF EnterSale
  <2>4. /\ member'.credit = member.credit - n.amount
        /\ SumOf(AmountsOf(sales')) = SumOf(AmountsOf(sales)) + n.amount
    <3>1. Len(rows') \in Nat /\ Len(rows') >= Len(rows)
      BY <1>0, <2>3
    <3> QED BY <1>0, <2>2, <2>3, <3>1, SaleEntered
  <2>5. Balanced'
    <3>1. SumOf(PaidOf(rows')) = SumOf(PaidOf(rows))
      BY <2>3
    <3> QED BY <1>0, <2>2, <2>4, <3>1 DEF Balanced
  <2> QED BY <1>r, <2>1, <2>3, <2>5
<1>2. CASE n.kind = "cc"
  <2>1. n \in CardLines /\ EnterCC(n) /\ n.amount \in Nat
    BY <1>2, Kinds DEF Process, CardLines
  <2>c. card' = card
    BY <1>0, <2>1, CardCases
  <2>p. n.status = "CAPTURED" => Paid(n) /\ KnownCard(n) /\ card = "member" /\ Settled(n)
    BY <2>1 DEF Paid, KnownCard, Money, Settled
  <2>2. CASE UNCHANGED <<member, sales, rows>>
    BY <1>r, <2>2, <2>c DEF Balanced, CaptureInv
  <2>3. ASSUME NEW row \in Nat \ {0}, Consolidate(row, n), rows' \in Seq(RowRecords),
               row <= Len(rows'), Len(rows) <= Len(rows'),
               SumOf(PaidOf(rows')) = SumOf(PaidOf(rows)) + (IF Paid(n) THEN n.amount ELSE 0),
               \A i \in 1 .. Len(rows') :
                 \/ i \in 1 .. Len(rows) /\ rows'[i] = rows[i]
                 \/ rows'[i].status = n.status /\ (n.status = "CAPTURED" => rows'[i] = Row(n, TRUE))
        PROVE  /\ Balanced'
               /\ card' # "member" => member'.credit = 0 /\ \A i \in 1 .. Len(rows') : rows'[i].status # "CAPTURED"
               /\ \A i \in 1 .. Len(rows') : rows'[i].status = "CAPTURED" =>
                    \E m \in sent \cup {n} : Settled(m) /\ rows'[i] = Row(m, TRUE)
    <3>0. Len(rows') \in Nat
      BY <2>3
    <3>1. /\ member'.credit = member.credit + IF Paid(n) THEN n.amount ELSE 0
          /\ AmountsOf(sales') = AmountsOf(sales)
      BY <1>0, <2>1, <2>3, <3>0, Consolidates
    <3>2. Balanced'
      BY <1>0, <2>1, <2>3, <3>1 DEF Balanced
    <3>3. CASE card # "member"
      <4>1. n.status # "CAPTURED" /\ ~Paid(n)
        BY <2>p, <3>3 DEF Paid
      <4>2. member'.credit = 0
        BY <1>0, <3>1, <3>3, <4>1 DEF CaptureInv
      <4>3. \A i \in 1 .. Len(rows') : rows'[i].status # "CAPTURED"
        BY <2>3, <3>3, <4>1 DEF CaptureInv
      <4> QED BY <3>2, <4>2, <4>3
    <3>4. CASE card = "member"
      <4>1. ASSUME NEW i \in 1 .. Len(rows'), rows'[i].status = "CAPTURED"
            PROVE  \E m \in sent \cup {n} : Settled(m) /\ rows'[i] = Row(m, TRUE)
        <5>1. CASE i \in 1 .. Len(rows) /\ rows'[i] = rows[i]
          BY <1>r, <4>1, <5>1
        <5>2. CASE rows'[i].status = n.status /\ (n.status = "CAPTURED" => rows'[i] = Row(n, TRUE))
          BY <2>p, <4>1, <5>2
        <5> QED BY <2>3, <5>1, <5>2
      <4> QED BY <2>c, <3>2, <3>4, <4>1
    <3> QED BY <3>3, <3>4
  <2>4. ASSUME NEW known \in BOOLEAN, KnownCard(n) => known, rows' = Append(rows, Row(n, known)),
               Consolidate(Len(rows) + 1, n)
        PROVE  /\ Balanced'
               /\ card' # "member" => member'.credit = 0 /\ \A i \in 1 .. Len(rows') : rows'[i].status # "CAPTURED"
               /\ \A i \in 1 .. Len(rows') : rows'[i].status = "CAPTURED" =>
                    \E m \in sent \cup {n} : Settled(m) /\ rows'[i] = Row(m, TRUE)
    <3> DEFINE x == Row(n, known)
    <3>1. x \in RowRecords /\ x.status = n.status /\ x.amount = n.amount /\ (Paid(x) <=> Paid(n))
      BY <2>1, NewRowIs DEF Row, Paid
    <3>2. n.status = "CAPTURED" => x = Row(n, TRUE)
      BY <2>4, <2>p
    <3> HIDE DEF x
    <3>3. /\ rows' \in Seq(RowRecords) /\ Len(rows') = Len(rows) + 1 /\ rows'[Len(rows) + 1] = x
          /\ \A i \in 1 .. Len(rows) : rows'[i] = rows[i]
      BY <1>0, <2>4, <3>1 DEF x
    <3>4. SumOf(PaidOf(rows')) = SumOf(PaidOf(rows)) + (IF Paid(n) THEN n.amount ELSE 0)
      <4>1. SumOf(PaidOf(Append(rows, x))) = SumOf(PaidOf(rows)) + (IF Paid(x) THEN x.amount ELSE 0)
        BY <1>0, <3>1, PaidAppended
      <4>2. rows' = Append(rows, x)
        BY <2>4 DEF x
      <4> QED BY <3>1, <4>1, <4>2
    <3>5. ASSUME NEW i \in 1 .. Len(rows')
          PROVE  \/ i \in 1 .. Len(rows) /\ rows'[i] = rows[i]
                 \/ rows'[i].status = n.status /\ (n.status = "CAPTURED" => rows'[i] = Row(n, TRUE))
      <4>1. i \in 1 .. Len(rows) \/ i = Len(rows) + 1
        BY <1>0, <3>3
      <4> QED BY <3>1, <3>2, <3>3, <4>1
    <3>6. Len(rows) + 1 \in Nat \ {0} /\ Len(rows) + 1 <= Len(rows') /\ Len(rows) <= Len(rows')
      BY <1>0, <3>3
    <3> QED BY <2>3, <2>4, <3>3, <3>4, <3>5, <3>6
  <2>5. ASSUME NEW i \in 1 .. Len(rows), NEW known \in BOOLEAN, NEW amount \in Nat,
               ~Identical(n), n.status # "PREAUTH", rows[i].hold = n.hold,
               KnownCard(n) => known, n.status = "CAPTURED" => amount = n.amount,
               rows' = [rows EXCEPT ![i] = NewRow(n, known, amount)], Consolidate(i, n)
        PROVE  /\ Balanced'
               /\ card' # "member" => member'.credit = 0 /\ \A j \in 1 .. Len(rows') : rows'[j].status # "CAPTURED"
               /\ \A j \in 1 .. Len(rows') : rows'[j].status = "CAPTURED" =>
                    \E m \in sent \cup {n} : Settled(m) /\ rows'[j] = Row(m, TRUE)
    <3> DEFINE x == NewRow(n, known, amount)
    <3>1. x \in RowRecords /\ x.status = n.status /\ (Paid(x) <=> Paid(n)) /\ (Paid(n) => x.amount = n.amount)
      BY <2>1, <2>5, NewRowIs DEF Paid
    <3>2. n.status = "CAPTURED" => x = Row(n, TRUE)
      BY <2>1, <2>5, <2>p, NewRowIs
    <3>3. /\ rows' \in Seq(RowRecords) /\ Len(rows') = Len(rows) /\ rows'[i] = x
          /\ \A j \in 1 .. Len(rows) : j # i => rows'[j] = rows[j]
      <4> HIDE DEF x
      <4>1. rows' = [rows EXCEPT ![i] = x]
        BY <2>5 DEF x
      <4> QED BY <1>0, <3>1, <4>1
    <3>4. ~Paid(rows[i])
      <4>1. Settled(n)
        BY <2>1, <2>5 DEF Settled
      <4>2. rows[i].status # "CAPTURED"
        BY <2>1, <2>5, <4>1, NeverReplaced
      <4> QED BY <4>2 DEF Paid
    <3> HIDE DEF x
    <3>5. SumOf(PaidOf(rows')) = SumOf(PaidOf(rows)) + (IF Paid(n) THEN n.amount ELSE 0)
      <4>1. SumOf(PaidOf([rows EXCEPT ![i] = x])) = SumOf(PaidOf(rows)) + (IF Paid(x) THEN x.amount ELSE 0)
        BY <1>0, <3>1, <3>4, PaidReplaced
      <4>2. rows' = [rows EXCEPT ![i] = x]
        BY <2>5 DEF x
      <4> QED BY <3>1, <4>1, <4>2
    <3>6. ASSUME NEW j \in 1 .. Len(rows')
          PROVE  \/ j \in 1 .. Len(rows) /\ rows'[j] = rows[j]
                 \/ rows'[j].status = n.status /\ (n.status = "CAPTURED" => rows'[j] = Row(n, TRUE))
      BY <3>1, <3>2, <3>3
    <3>7. i \in Nat \ {0} /\ i <= Len(rows') /\ Len(rows) <= Len(rows')
      BY <1>0, <3>3
    <3> QED BY <2>3, <2>5, <3>3, <3>5, <3>6, <3>7
  <2> QED BY <1>0, <2>1, <2>2, <2>4, <2>5, CardCases
<1>3. CASE n.kind = "new_memb"
  <2>1. n \in JoinLines /\ EnterNewMember(n)
    BY <1>3, Kinds DEF Process
  <2>2. CASE DuplicateCC
    <3>1. UNCHANGED books /\ card = "member"
      BY <2>1, <2>2 DEF EnterNewMember, DuplicateCC
    <3> QED BY <1>r, <3>1 DEF Balanced, books
  <2>3. CASE ~DuplicateCC
    <3>1. card # "member" /\ sales = <<>> /\ member.credit = 0
      BY <2>3, DuplicateIs DEF BooksInv, CaptureInv
    <3>2. /\ card' = Registered(TRUE)
          /\ rows' \in Seq(RowRecords) /\ Len(rows') = Len(rows)
          /\ \/ rows' = rows
             \/ \E i \in 1 .. Len(rows) :
                  rows' = [rows EXCEPT ![i].owner = "customer", ![i].known = (card' = "member")]
          /\ member' \in MemberRecords
          /\ SumOf(AmountsOf(sales')) = SumOf(AmountsOf(sales)) - member'.credit
      BY <1>0, <2>1, <2>3, JoinCases
    <3>3. \A i \in 1 .. Len(rows) : rows[i].status # "CAPTURED"
      BY <3>1 DEF CaptureInv
    <3>4. \A i \in 1 .. Len(rows') : rows'[i].status # "CAPTURED"
      <4>1. ASSUME NEW j \in 1 .. Len(rows),
                   rows' = [rows EXCEPT ![j].owner = "customer", ![j].known = (card' = "member")]
            PROVE  \A i \in 1 .. Len(rows) : rows'[i].status = rows[i].status
        <5> DEFINE r == [rows[j] EXCEPT !.owner = "customer", !.known = (card' = "member")]
        <5>1. rows[j] \in RowRecords
          BY <1>0
        <5>2. r \in RowRecords /\ r.status = rows[j].status
          BY <5>1 DEF RowRecords
        <5>3. rows' = [rows EXCEPT ![j] = r]
          BY <1>0, <4>1
        <5> HIDE DEF r
        <5> QED BY <1>0, <5>2, <5>3
      <4> QED BY <3>2, <3>3, <4>1
    <3>5. SumOf(PaidOf(rows)) = 0 /\ SumOf(PaidOf(rows')) = 0
      <4>1. \A i \in 1 .. Len(PaidOf(rows)) : PaidOf(rows)[i] = 0
        BY <1>0, <3>3, PaidTypes DEF Paid
      <4>2. \A i \in 1 .. Len(PaidOf(rows')) : PaidOf(rows')[i] = 0
        BY <3>2, <3>4, PaidTypes DEF Paid
      <4> QED BY <1>0, <3>2, <4>1, <4>2, PaidTypes, SumZeros
    <3>6. Balanced'
      <4>1. SumOf(AmountsOf(sales)) = 0 /\ member'.credit \in Int
        BY <3>1, <3>2, EmptySums DEF MemberRecords
      <4> QED BY <3>2, <3>5, <4>1 DEF Balanced
    <3>7. card' = "member"
      BY <3>2 DEF Registered, BooksInv, LedgerTypes, BookTypes
    <3> QED BY <3>4, <3>6, <3>7
  <2> QED BY <2>2, <2>3
<1> QED BY <1>1, <1>2, <1>3 DEF Lines, SaleLines, CardLines, JoinLines

BalanceInv == BooksInv /\ CaptureInv /\ Balanced

\* What settles a transaction is sent while it is on hold, and so is the only line that does.
LEMMA FreshSettles ==
  ASSUME CaptureInv, LedgerTypes, NEW n \in Lines, Fresh(n), sent' = sent \cup {n}
  PROVE  /\ Settles(n)
         /\ \A m \in sent' : Settles(m)'
         /\ \A m \in sent' : Settled(m) => holds'[m.hold] = m.status
<1>1. ASSUME NEW m \in sent, Settled(m) PROVE holds[m.hold] = m.status /\ m.hold \in Holds /\ m.status \in Statuses \ {"PREAUTH"}
  BY <1>1 DEF CaptureInv, Settled, CardLines
<1>2. Settled(n) => holds[n.hold] = "PREAUTH" /\ n.hold \in Holds
  BY DEF Fresh, Settled, CardLines
<1>3. ASSUME Settled(n), NEW m \in sent, Settled(m) PROVE m.hold # n.hold
  BY <1>1, <1>2, <1>3
<1>4. Settles(n)
  BY <1>3 DEF Settles
<1>5. ASSUME NEW m \in sent' PROVE Settles(m)'
  <2> SUFFICES ASSUME Settled(m), NEW k \in sent', Settled(k), k.hold = m.hold PROVE k = m
    BY DEF Settles, Settled
  <2>1. CASE m = n \/ k = n
    BY <1>3, <2>1
  <2>2. CASE m \in sent /\ k \in sent
    BY <2>2 DEF CaptureInv, Settles
  <2> QED BY <2>1, <2>2
<1>6. ASSUME NEW m \in sent', Settled(m) PROVE holds'[m.hold] = m.status
  <2>1. CASE m \in sent
    <3>1. holds[m.hold] = m.status /\ m.hold \in Holds /\ m.status \in Statuses \ {"PREAUTH"}
      BY <1>1, <1>6, <2>1
    <3>2. holds \in [Holds -> Statuses \cup {"none"}] /\ m.status # "none"
      BY <3>1 DEF LedgerTypes, Statuses
    <3>3. CASE UNCHANGED holds
      BY <3>1, <3>3
    <3>4. ASSUME NEW h \in Holds, holds[h] = "none", holds' = [holds EXCEPT ![h] = "PREAUTH"]
          PROVE  holds'[m.hold] = m.status
      BY <3>1, <3>2, <3>4
    <3>5. CASE Settled(n) /\ holds[n.hold] = "PREAUTH" /\ holds' = [holds EXCEPT ![n.hold] = n.status]
      BY <1>2, <3>1, <3>2, <3>5
    <3> QED BY <3>3, <3>4, <3>5 DEF Fresh
  <2>2. CASE m = n
    <3>1. holds' = [holds EXCEPT ![n.hold] = n.status] /\ n.hold \in Holds
      BY <1>2, <1>6, <2>2 DEF Fresh
    <3>2. holds \in [Holds -> Statuses \cup {"none"}]
      BY DEF LedgerTypes
    <3> QED BY <2>2, <3>1, <3>2
  <2> QED BY <2>1, <2>2
<1> QED BY <1>4, <1>5, <1>6

\* Every step keeps the balance.
LEMMA NextBalanced == SameWords /\ BalanceInv /\ [Next]_vars => CaptureInv' /\ Balanced'
<1> SUFFICES ASSUME SameWords, BooksInv, CaptureInv, Balanced, [Next]_vars PROVE CaptureInv' /\ Balanced'
  BY DEF BalanceInv
<1>0. LedgerTypes
  BY DEF BooksInv
<1> USE DEF Settled, Settles
<1>1. CASE UNCHANGED <<books, holds, sent, now>> /\ session' \in {session, NoSession}
  BY <1>1 DEF CaptureInv, Balanced, books
<1>2. CASE Authorize
  <2>1. UNCHANGED <<member, sales, rows, made, holds, sent, now>>
    BY <1>0, <1>2, AuthorizeSession
  <2>2. card = "member" => card' = "member"
    <3>1. PICK b \in BOOLEAN : card' = Registered(b)
      BY <1>0, <1>2, AuthorizeSession
    <3> QED BY <3>1 DEF Registered
  <2> QED BY <2>1, <2>2 DEF CaptureInv, Balanced
<1>3. CASE Tick
  <2>1. UNCHANGED <<card, sales, rows, made, session, holds, sent>> /\ member'.credit = member.credit
    BY <1>0, <1>3, TickMember
  <2> QED BY <2>1 DEF CaptureInv, Balanced
<1> USE DEF CardLines
<1>4. CASE Again
  <2>1. PICK n \in sent : Process(n) /\ UNCHANGED <<session, holds, sent, now>>
    BY <1>4 DEF Again
  <2>2. /\ n \in Lines /\ (Money(n) => card = "member") /\ Settles(n)
        /\ (n \in CardLines /\ n.status = "CAPTURED" => n.owner = "customer")
    BY <1>0 DEF LedgerTypes, Lines, BooksInv, CaptureInv
  <2>3. /\ Balanced'
        /\ card' # "member" => member'.credit = 0 /\ \A i \in 1 .. Len(rows') : rows'[i].status # "CAPTURED"
        /\ \A i \in 1 .. Len(rows') : rows'[i].status = "CAPTURED" =>
             \E m \in sent \cup {n} : Settled(m) /\ rows'[i] = Row(m, TRUE)
    BY <2>1, <2>2, ProcessBalanced
  <2>4. sent' = sent \cup {n} /\ sent' = sent /\ holds' = holds
    BY <2>1
  <2> HIDE DEF CardLines, Settled, Settles
  <2>5. \A m \in sent' : Settles(m)'
    BY <2>4 DEF CaptureInv, Settles
  <2>6. \A m \in sent' : /\ Settled(m) => holds'[m.hold] = m.status
                         /\ m \in CardLines /\ m.status = "CAPTURED" => m.owner = "customer"
    BY <2>4 DEF CaptureInv
  <2> QED BY <2>3, <2>4, <2>5, <2>6 DEF CaptureInv, Row
<1> HIDE DEF CardLines, Settled, Settles
<1>5. ASSUME NEW n \in Lines, Send(n), Fresh(n) PROVE CaptureInv' /\ Balanced'
  <2>1. Process(n) /\ sent' = sent \cup {n}
    BY <1>5 DEF Send
  <2>2. /\ Settles(n) /\ \A m \in sent' : Settles(m)'
        /\ \A m \in sent' : Settled(m) => holds'[m.hold] = m.status
    BY <1>0, <1>5, <2>1, FreshSettles
  <2>3. /\ Money(n) => card = "member"
        /\ n \in CardLines /\ n.status = "CAPTURED" => n.owner = "customer"
    BY <1>5 DEF Fresh, Money, BooksInv
  <2>4. /\ Balanced'
        /\ card' # "member" => member'.credit = 0 /\ \A i \in 1 .. Len(rows') : rows'[i].status # "CAPTURED"
        /\ \A i \in 1 .. Len(rows') : rows'[i].status = "CAPTURED" =>
             \E m \in sent \cup {n} : Settled(m) /\ rows'[i] = Row(m, TRUE)
    BY <2>1, <2>2, <2>3, ProcessBalanced
  <2>5. \A m \in sent' : m \in CardLines /\ m.status = "CAPTURED" => m.owner = "customer"
    BY <2>1, <2>3 DEF CaptureInv
  <2> QED BY <2>1, <2>2, <2>4, <2>5 DEF CaptureInv, Row
<1> QED BY <1>0, <1>1, <1>2, <1>3, <1>4, <1>5, Steps

\* The customer's credit is what was captured less what was sold, for any prices and however
\* often the kiosk sends the same lines (do_notice, CHK_IDENT_CC_TRANS), if he had no credit
\* before, the gateway says the same of an authorization and its capture, and the card is not
\* one that stayed with a member who is gone.
THEOREM CreditBalanced ==
  ASSUME Cards \subseteq {"unseen", "nobody", "member"}, SameWords, \A m \in Members : m.credit = 0
  PROVE  Spec => []CreditIsBalance
<1>1. Init => BalanceInv
  <2> SUFFICES ASSUME Init PROVE BooksInv /\ CaptureInv /\ Balanced
    BY DEF BalanceInv
  <2>1. BooksInv
    BY InitBooks
  <2>2. member.credit = 0 /\ sales = <<>> /\ rows = <<>> /\ sent = {}
    BY DEF Init
  <2>3. CaptureInv
    BY <2>2 DEF CaptureInv
  <2>4. SumOf(PaidOf(<<>>)) = 0
    <3>1. <<>> \in Seq(RowRecords) /\ Len(<<>>) = 0
      OBVIOUS
    <3>2. PaidOf(<<>>) \in Seq(Int) /\ Len(PaidOf(<<>>)) = 0
      BY <3>1, PaidTypes
    <3> QED BY <3>2, SumZeros
  <2>5. Balanced
    BY <2>2, <2>4, EmptySums DEF Balanced
  <2> QED BY <2>1, <2>3, <2>5
<1>2. BalanceInv /\ [Next]_vars => BalanceInv'
  BY NextBooks, NextBalanced DEF BalanceInv
<1>3. BalanceInv => CreditIsBalance
  BY BalanceIs DEF BalanceInv, Balanced
<1> QED BY <1>1, <1>2, <1>3, PTL DEF Spec
=============================================================================
