---------------------------- MODULE ServerLedger ----------------------------
(***************************************************************************)
(* What the lines of a kiosk's request do to the books of the server: the  *)
(* authorization of a customer, the new membership, the sales and card     *)
(* transactions of one customer with one card (do_auth, do_new_memb and    *)
(* do_notice of BBD-kiosk.pl).  A line comes once, and any number of times *)
(* again, for the kiosk sends a batch again when it missed the answer.     *)
(*                                                                         *)
(* Abstractions.  Amounts count units of the smallest price; time counts   *)
(* units of the grace period, a timestamp its unit.  One request is one    *)
(* step.  The kiosk has its own connection to the gateway, and tells of    *)
(* each transaction by notices.  Receipts, alerts and fuel are left out.   *)
(***************************************************************************)
EXTENDS Integers, SequencesExt

CONSTANTS
  Holds,      \* transaction IDs of the gateway
  Amounts,    \* what a delivery or a capture may come to
  Fee,        \* the price of a membership, renewal or upgrade
  Members,    \* what the customer may be at the beginning
  Cards,      \* whose the card may be at the beginning
  SameWords,  \* the gateway says the same of an authorization and its capture
  Year, Before, After, Ask,  \* a membership's year, grace period and first reminder
  MaxSales, MaxRows, MaxTime \* bounds

NoMember == [type |-> "none", status |-> "none", credit |-> 0, renewed |-> 0, expires |-> 0]

MemberTypes == {"FULL", "EMPLOYEE", "ONE-DAY", "NON-FUELING", "SUPPLIER"}
MemberStatuses == {"ACTIVE", "PENDING", "ASK_RENEWAL", "EXPIRED"}
MemberRows ==
  {NoMember} \cup
  [type : MemberTypes, status : MemberStatuses, credit : Int, renewed : Nat, expires : Nat]

ASSUME Units ==
  /\ Amounts \subseteq Nat \ {0} /\ Fee \in Nat \ {0} /\ SameWords \in BOOLEAN
  /\ {Year, Before, After, Ask, MaxSales, MaxRows, MaxTime} \subseteq Nat
  /\ Members \subseteq MemberRows /\ Cards \subseteq {"unseen", "nobody", "member", "gone"}

VARIABLES
  member,   \* the customer's row of members and memberships
  card,     \* member_ccs: the customer's, another's who is gone, nobody's, or unseen
  sales,    \* sorted by time stamp; paidBy is cc_trans_id
  rows,     \* cc_transactions, by cc_trans_id
  made,     \* members that do_new_memb made
  session,  \* what the kiosk makes of the last authorization
  holds,    \* what the kiosk has told of each transaction
  sent,     \* lines that may come again
  now

books == <<member, card, sales, rows, made>>
vars == <<books, session, holds, sent, now>>

NoSession == [who |-> "nobody", fuel |-> FALSE, renewal |-> FALSE, upgrade |-> FALSE]

Exists == member # NoMember

Init ==
  /\ member \in Members /\ card \in Cards
  /\ card = "member" => Exists
  /\ sales = <<>> /\ rows = <<>> /\ made = 0
  /\ session = NoSession /\ holds = [h \in Holds |-> "none"] /\ sent = {} /\ now = 1

(***************************************************************************)
(* Cards and authorization.                                                *)
(***************************************************************************)
\* save_CC_name: a card is registered once, and to one member.
Registered(toMember) ==
  IF card \in {"unseen", "nobody"} THEN (IF toMember THEN "member" ELSE "nobody") ELSE card

\* By the card, else by the name on it.
Found(named) == Exists /\ (card = "member" \/ named)

\* do_auth: what it answers is what the kiosk may sell: fuel, a renewal, an
\* upgrade, or a membership.
Authorize ==
  /\ session = NoSession
  /\ \E right, named \in BOOLEAN :
       /\ card' = Registered(Found(named) /\ right)
       /\ session' =
            IF Found(named) /\ right
            THEN [who |-> "member", fuel |-> TRUE,
                  renewal |-> member.status \in {"ASK_RENEWAL", "EXPIRED"},
                  upgrade |-> member.type \notin {"FULL", "EMPLOYEE"}]
            ELSE IF Found(named) THEN NoSession ELSE [NoSession EXCEPT !.who = "new"]
  /\ UNCHANGED <<member, sales, rows, made, holds, sent, now>>

(***************************************************************************)
(* Sales.                                                                  *)
(***************************************************************************)
\* set_expiration: a year more within the grace period, else a year from now;
\* any sale makes the membership active, but for the upgrade of a non-fueling one.
RenewedMember(m, item) ==
  LET grace == m.expires - Before < now /\ now < m.expires + After
      free == item = "upgrade" /\ m.type = "NON-FUELING"
      dues == item \in {"renewal", "membership", "upgrade"} /\ ~free
  IN [m EXCEPT
       !.type = IF item = "upgrade" THEN "FULL" ELSE @,
       !.expires = IF ~dues THEN @ ELSE IF grace THEN @ + Year ELSE now + Year,
       !.renewed = IF dues THEN now ELSE @,
       !.status = IF free THEN @ ELSE "ACTIVE"]

\* UPDATE_MEMBERSHIP_PENDING, and then UPDATE_ONE_DAY_MEMBERSHIP_PENDING.
Activated(m) ==
  LET active == [m EXCEPT !.status = IF @ = "PENDING" THEN "ACTIVE" ELSE @]
  IN IF active.status = "PENDING" /\ active.type = "ONE-DAY"
     THEN [active EXCEPT !.status = "ACTIVE", !.renewed = now]
     ELSE active

\* Mutant: a debt is credit too.
CreditUsedOwing(credit, amount) == IF amount > credit THEN credit ELSE amount

\* What the credit covers of a sale.
CreditUsed(credit, amount) == IF credit <= 0 THEN 0 ELSE IF amount > credit THEN credit ELSE amount

\* The sale is entered with what the credit covers of it, and taken from the credit.
SaleOf(m, n) ==
  [item |-> n.item, amount |-> n.amount, credit |-> CreditUsed(m.credit, n.amount),
   paidBy |-> 0, at |-> n.at]
Charged(m, n) == RenewedMember(Activated([m EXCEPT !.credit = @ - n.amount]), n.item)

Entered(s) ==
  LET earlier == Cardinality({i \in 1 .. Len(sales) : sales[i].at <= s.at})
  IN InsertAt(sales, earlier + 1, s)

EnterSale(n) ==
  /\ Len(sales) < MaxSales
  /\ member' = Charged(member, n)
  /\ sales' = Entered(SaleOf(member, n))
  /\ UNCHANGED <<card, rows, made>>

(***************************************************************************)
(* Card transactions.                                                      *)
(***************************************************************************)
\* Mutant: with what is owed before.
SpendableOwing(credit, amount) == amount + credit

\* Only positive credit helps to cover.
Spendable(credit, amount) == amount + (IF credit < 0 THEN 0 ELSE credit)

\* consolidateCC, a sale at a time: covered, covered in part, or not.
Unpaid(s) == s.paidBy = 0 /\ s.credit < s.amount

Covered(row, s, left) ==
  IF Unpaid(s) /\ s.amount - s.credit <= left THEN [s EXCEPT !.paidBy = row]
  ELSE IF Unpaid(s) /\ left > 0 THEN [s EXCEPT !.credit = @ + left]
  ELSE s

\* The money left less the sale, whether or not it was covered; of one that was
\* covered in part, less what it is still short of.
LeftAfter(s, left) ==
  LET need == s.amount - s.credit
  IN IF ~Unpaid(s) THEN left
     ELSE IF 0 < left /\ left < need THEN left - (need - left)
     ELSE left - need

Cover(row, s, acc) ==
  [left |-> LeftAfter(s, acc.left), done |-> <<Covered(row, s, acc.left)>> \o acc.done]

\* The latest sales first.
Consolidated(row, amount) ==
  FoldRight(LAMBDA s, acc : Cover(row, s, acc), sales,
            [left |-> Spendable(member.credit, amount), done |-> <<>>]).done

\* A capture of the customer's card.
Paid(n) == n.status = "CAPTURED" /\ n.owner = "customer"

Consolidate(row, n) ==
  IF Paid(n)
  THEN /\ sales' = Consolidated(row, n.amount)
       /\ member' = [member EXCEPT !.credit = @ + n.amount]
  ELSE UNCHANGED <<sales, member>>

\* The last row of a transaction.
LastRows(h) ==
  {i \in 1 .. Len(rows) :
     rows[i].hold = h /\ \A j \in 1 .. Len(rows) : rows[j].hold = h => rows[j].at <= rows[i].at}

KnownCard(n) == n.owner = "customer" /\ card = "member"

Row(n, known) ==
  [hold |-> n.hold, status |-> n.status, amount |-> n.amount, owner |-> n.owner, at |-> n.at,
   known |-> known]

\* Mutant: no test for a transaction that was entered before.
IdenticalNever(n) == FALSE

\* The same was entered less than 600 seconds apart; a card that is not known
\* (NULL) is like no other.
Identical(n) == SameWords /\ KnownCard(n) /\ Row(n, TRUE) \in ToSet(rows)

EnterCC(n) ==
  /\ UNCHANGED <<card, made>>
  /\ \/ Identical(n) /\ UNCHANGED <<member, sales, rows>>
     \/ /\ ~Identical(n) /\ (n.status = "PREAUTH" \/ LastRows(n.hold) = {})
        /\ Len(rows) < MaxRows
        /\ \E known \in IF LastRows(n.hold) = {} THEN {KnownCard(n)}
                        ELSE {rows[i].known \/ KnownCard(n) : i \in LastRows(n.hold)} :
             rows' = Append(rows, Row(n, known))
        /\ Consolidate(Len(rows) + 1, n)
     \/ /\ ~Identical(n) /\ n.status # "PREAUTH"
        /\ \E i \in LastRows(n.hold) :
             /\ rows' = [rows EXCEPT
                  ![i] = [Row(n, @.known \/ KnownCard(n)) EXCEPT
                           !.amount = IF n.status = "CAPTURED" THEN n.amount ELSE rows[i].amount]]
             /\ Consolidate(i, n)

(***************************************************************************)
(* New members.                                                            *)
(***************************************************************************)
\* Mutant: no test for a card that is registered.
DuplicateCCNever == FALSE

DuplicateCC == Exists /\ card = "member"

Joined(n) ==
  [type |-> n.type, status |-> "ACTIVE", credit |-> 0, renewed |-> now, expires |-> now + Year]

\* A member and a card are made, the authorization is theirs, and for a full
\* membership the sale is entered.
EnterNewMember(n) ==
  LET full == n.type = "FULL"
      sale == [item |-> "membership", amount |-> Fee, at |-> now]
  IN \/ DuplicateCC /\ UNCHANGED books
     \/ /\ ~DuplicateCC
        /\ full => Len(sales) < MaxSales
        /\ made' = made + 1
        /\ card' = Registered(TRUE)
        /\ member' = IF full THEN Charged(Joined(n), sale) ELSE Joined(n)
        /\ sales' = IF full THEN Entered(SaleOf(Joined(n), sale)) ELSE sales
        /\ IF LastRows(n.hold) = {} THEN UNCHANGED rows
           ELSE \E i \in LastRows(n.hold) :
             rows' = [rows EXCEPT ![i].owner = "customer", ![i].known = (card' = "member")]

Process(n) ==
  CASE n.kind = "sale" -> EnterSale(n)
    [] n.kind = "cc" -> EnterCC(n)
    [] n.kind = "new_memb" -> EnterNewMember(n)

(***************************************************************************)
(* What the kiosk sends, in the order of a session.                        *)
(***************************************************************************)
Send(n) == Process(n) /\ sent' = sent \cup {n} /\ UNCHANGED now

Owner == IF session.who = "member" THEN "customer" ELSE "nobody"

PreAuth(h) ==
  /\ session # NoSession /\ holds[h] = "none" /\ \A g \in Holds : holds[g] # "PREAUTH"
  /\ holds' = [holds EXCEPT ![h] = "PREAUTH"]
  /\ Send([kind |-> "cc", hold |-> h, status |-> "PREAUTH", amount |-> 0, owner |-> Owner, at |-> now])
  /\ UNCHANGED session

Join(h) ==
  /\ session.who = "new" /\ holds[h] = "PREAUTH"
  /\ \E t \in {"FULL", "ONE-DAY"} : Send([kind |-> "new_memb", type |-> t, hold |-> h])
  /\ session' = IF DuplicateCC THEN NoSession ELSE [NoSession EXCEPT !.who = "member", !.fuel = TRUE]
  /\ UNCHANGED holds

Sell ==
  /\ session.who = "member"
  /\ \/ /\ session.fuel /\ session' = [session EXCEPT !.fuel = FALSE]
        /\ \E a \in Amounts : Send([kind |-> "sale", item |-> "fuel", amount |-> a, at |-> now])
     \/ /\ session.renewal /\ session' = [session EXCEPT !.renewal = FALSE]
        /\ Send([kind |-> "sale", item |-> "renewal", amount |-> Fee, at |-> now])
     \/ /\ session.upgrade /\ session' = [session EXCEPT !.upgrade = FALSE]
        /\ Send([kind |-> "sale", item |-> "upgrade", amount |-> Fee, at |-> now])
  /\ UNCHANGED holds

\* The transaction is captured, voided or given up, whoever began it.
Settle(h) ==
  /\ holds[h] = "PREAUTH"
  /\ \E s \in {"CAPTURED", "VOIDED", "ERROR"}, a \in Amounts \cup {0} :
       /\ IF s = "CAPTURED" THEN session.who = "member" /\ a # 0 ELSE a = 0
       /\ holds' = [holds EXCEPT ![h] = s]
       /\ Send([kind |-> "cc", hold |-> h, status |-> s, amount |-> a, owner |-> Owner, at |-> now])
  /\ session' = NoSession

Leave ==
  /\ session # NoSession /\ \A h \in Holds : holds[h] # "PREAUTH"
  /\ session' = NoSession
  /\ UNCHANGED <<books, holds, sent, now>>

\* A batch comes again.
Again == \E n \in sent : Process(n) /\ UNCHANGED <<session, holds, sent, now>>

\* Time goes by; every night the memberships that end soon are marked.
Tick ==
  /\ now < MaxTime /\ session = NoSession
  /\ now' = now + 1
  /\ member' = [member EXCEPT
       !.status = IF member.type \in {"FULL", "NON-FUELING"} /\ @ # "EXPIRED"
                       /\ member.expires - now' < Ask
                  THEN "ASK_RENEWAL" ELSE @]
  /\ UNCHANGED <<card, sales, rows, made, session, holds, sent>>

Next ==
  \/ Authorize \/ Sell \/ Leave \/ Again \/ Tick
  \/ \E h \in Holds : PreAuth(h) \/ Join(h) \/ Settle(h)

Spec == Init /\ [][Next]_vars

(***************************************************************************)
(* Properties.                                                             *)
(***************************************************************************)
Total(s) == FoldLeft(LAMBDA sum, x : sum + x, 0, s)

\* Every row has fields of its kind, and no sale is paid by more credit than it costs.
TypeOK ==
  /\ member.credit \in Int /\ member.type \in MemberTypes \cup {"none"}
  /\ card \in {"unseen", "nobody", "member", "gone"}
  /\ \A s \in ToSet(sales) : s.credit \in 0 .. s.amount /\ s.paidBy \in 0 .. Len(rows)
  /\ \A r \in ToSet(rows) : r.status \in {"PREAUTH", "CAPTURED", "VOIDED", "ERROR"}

\* The customer's credit is what was captured less what was sold, however often
\* the kiosk sent the same transaction (do_notice, CHK_IDENT_CC_TRANS).
CreditIsBalance ==
  member.credit =
    Total([i \in DOMAIN rows |-> IF Paid(rows[i]) THEN rows[i].amount ELSE 0])
      - Total([i \in DOMAIN sales |-> sales[i].amount])

Uncovered ==
  Total([i \in DOMAIN sales |-> IF sales[i].paidBy = 0 THEN sales[i].amount - sales[i].credit ELSE 0])
Debt == IF member.credit < 0 THEN -member.credit ELSE 0

\* The sales never show more unpaid than the customer owes (consolidateCC).
UncoveredIsOwed == Uncovered <= Debt

\* And what he owes is what they show: a payment covers sales "until we run out of
\* money", after "Subtract the sale amount wether or not it was covered".
DebtIsUncovered == Debt <= Uncovered

\* A new member's line, which the kiosk keeps until it has an answer, makes one
\* member however often it comes (do_new_memb).
OneMemberMade == made <= 1
=============================================================================
