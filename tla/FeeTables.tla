------------------------------ MODULE FeeTables ------------------------------
(***************************************************************************)
(* The accounting tables of the fee service and the arithmetic on their    *)
(* rows: what one payment, refund, award or reversal does to a bill, and   *)
(* the conditions under which fee_service.py accepts it.  FeeAccounts and  *)
(* FeeLedger are both written with these operators; the first applies them *)
(* to the tables at once, the second to the copies a session has loaded.   *)
(*                                                                         *)
(* Amounts are whole paisa.  Bills are numbered by their place in the      *)
(* order (due_date_ad, id) every query of the service sorts by.  A row of  *)
(* fee_payments, fee_refunds or scholarships is stored under the request   *)
(* id its unique index covers; the row's own uuid is that id.  Payment     *)
(* method, reference, remarks, reason and award name travel with the       *)
(* amount in the replay comparison and are represented by it.              *)
(***************************************************************************)
EXTENDS Integers, FiniteSets, Functions

CONSTANTS Students, Heads, Years,
          Bills,      \* the ledger rows that generation has produced
          Terms,      \* the columns of a bill that never change
          Requests,   \* client-chosen request ids
          Commands,   \* the calls the clients may make
          NoRow,      \* what a lookup that finds nothing returns
          NoHead      \* a payment command that names no fee head

NoBill == 0           \* a payment command that names no bill

Money    == Nat
PosMoney == Nat \ {0}

CollectCommand ==
    {c \in [op: {"collect"}, req: Requests, student: Students,
            ledger: Bills \cup {NoBill}, head: Heads \cup {NoHead},
            amount: PosMoney] : c.ledger # NoBill \/ c.head # NoHead}

RefundCommand == [op: {"refund"}, req: Requests, payment: Requests,
                  amount: PosMoney]

\* bills = {} is "ledger_ids": null, every unpaid bill of the year
AwardCommand ==
    {c \in [op: {"award"}, req: Requests, student: Students, year: Years,
            kind: {"fixed", "percentage"}, value: PosMoney,
            bills: SUBSET Bills] : c.kind = "percentage" => c.value <= 100}

ReverseCommand == [op: {"reverse"}, award: Requests]

BillStatus == {"open", "paid", "waived"}

BillRow == [due: Money, paid: Money, discount: Money, balance: Money,
            status: BillStatus]

PaymentRow == [student: Students, bill: Bills, amount: PosMoney,
               refunded: Money]

RefundRow == [payment: Requests, amount: PosMoney]

AwardRow == [student: Students, year: Years, kind: {"fixed", "percentage"},
             value: PosMoney, bills: SUBSET Bills, active: BOOLEAN,
             applied: PosMoney, alloc: [Bills -> Money]]

ASSUME BillsAssumption == Bills \subseteq Nat \ {0} /\ IsFiniteSet(Bills)
ASSUME TermsAssumption ==
    Terms \in [Bills -> [student: Students, head: Heads, year: Years,
                         amount: PosMoney]]
ASSUME CommandsAssumption ==
    Commands \subseteq CollectCommand \cup RefundCommand \cup AwardCommand
                         \cup ReverseCommand
ASSUME NoHeadAssumption == NoHead \notin Heads
ASSUME NoRowAssumption ==
    NoRow \notin BillRow \cup PaymentRow \cup RefundRow \cup AwardRow

-----------------------------------------------------------------------------
(* Rows of fee_ledger. *)

\* pending, partial and overdue differ by the date and are one status here
LedgerStatus(due, balance) ==
    IF balance # 0 THEN "open" ELSE IF due = 0 THEN "waived" ELSE "paid"

\* a bill as generation writes it
NewBill(b) == [due |-> Terms[b].amount, paid |-> 0, discount |-> 0,
               balance |-> Terms[b].amount, status |-> "open"]

\* money received (amount > 0) or returned (amount < 0)
Pay(row, amount) ==
    LET paid == row.paid + amount
    IN  [row EXCEPT !.paid = paid, !.balance = row.due - paid,
                    !.status = LedgerStatus(row.due, row.due - paid)]

\* a concession granted (amount > 0) or taken back (amount < 0)
Discount(row, amount) ==
    [row EXCEPT !.due = @ - amount, !.discount = @ + amount,
                !.balance = @ - amount,
                !.status = LedgerStatus(row.due - amount, row.balance - amount)]

\* a concession spread over some of the bills
DiscountAll(rows, entries, alloc) ==
    [b \in Bills |-> IF b \in entries THEN Discount(rows[b], alloc[b])
                     ELSE rows[b]]

\* the CHECK constraints of the table
MeetsChecks(b, row) ==
    /\ row \in BillRow
    /\ row.balance = row.due - row.paid
    /\ row.due <= Terms[b].amount
    /\ row.discount = Terms[b].amount - row.due

-----------------------------------------------------------------------------
(* collect_fee *)

PayableBills(c, rows) ==
    {b \in Bills : /\ Terms[b].student = c.student
                   /\ IF c.ledger # NoBill THEN b = c.ledger
                      ELSE Terms[b].head = c.head /\ rows[b].balance > 0}

\* mutant: the balance is not compared with the amount
PaysBillUnchecked(c, b, rows) ==
    /\ b \in PayableBills(c, rows)
    /\ \A other \in PayableBills(c, rows) : b <= other
    /\ c.head # NoHead => Terms[b].head = c.head

\* the bill the query's ORDER BY ... LIMIT 1 returns accepts the payment
PaysBill(c, b, rows) ==
    /\ b \in PayableBills(c, rows)
    /\ \A other \in PayableBills(c, rows) : b <= other
    /\ c.head # NoHead => Terms[b].head = c.head
    /\ c.amount <= rows[b].balance

NewPayment(c, b) == [student |-> c.student, bill |-> b, amount |-> c.amount,
                     refunded |-> 0]

SamePayment(c, row) ==
    /\ row.student = c.student
    /\ row.amount = c.amount
    /\ c.ledger # NoBill => row.bill = c.ledger
    /\ c.head # NoHead => Terms[row.bill].head = c.head

-----------------------------------------------------------------------------
(* refund_payment *)

RefundAllowed(c, paid, row) ==
    /\ c.amount <= paid.amount - paid.refunded
    /\ c.amount <= row.paid

\* mutant: the refunded amount is replaced, not increased
AddRefundOverwrites(paid, amount) == [paid EXCEPT !.refunded = amount]

AddRefund(paid, amount) == [paid EXCEPT !.refunded = @ + amount]

NewRefund(c) == [payment |-> c.payment, amount |-> c.amount]

SameRefund(c, row) == row = NewRefund(c)

-----------------------------------------------------------------------------
(* apply_scholarship and reverse_scholarship *)

\* ROUND_HALF_UP to a whole paisa of n/d
HalfUp(n, d) == (2 * n + d) \div (2 * d)

AwardEntries(c, rows) ==
    {b \in Bills : /\ Terms[b].student = c.student
                   /\ Terms[b].year = c.year
                   /\ rows[b].balance > 0
                   /\ c.bills # {} => b \in c.bills}

Outstanding(rows, entries) ==
    SumFunction([b \in entries |-> rows[b].balance])

Budget(c, outstanding) ==
    IF c.kind = "fixed" THEN c.value ELSE HalfUp(outstanding * c.value, 100)

\* mutant: a budget that rounds to nothing is not refused
AwardAllowedZero(c, rows) ==
    LET entries     == AwardEntries(c, rows)
        outstanding == Outstanding(rows, entries)
    IN  /\ c.bills # {} => entries = c.bills
        /\ outstanding # 0
        /\ Budget(c, outstanding) <= outstanding

AwardAllowed(c, rows) ==
    LET entries     == AwardEntries(c, rows)
        outstanding == Outstanding(rows, entries)
    IN  /\ c.bills # {} => entries = c.bills
        /\ Budget(c, outstanding) \in 1 .. outstanding

\* mutant: every bill's part of a percentage is rounded by itself
ShareRoundedAlone(c, rows, entries, b) ==
    LET before == Outstanding(rows, {e \in entries : e < b})
        left   == IF before < c.value THEN c.value - before ELSE 0
    IN  IF c.kind = "percentage"
        THEN HalfUp(rows[b].balance * c.value, 100)
        ELSE IF left < rows[b].balance THEN left ELSE rows[b].balance

\* What the loop gives bill b, after the entries before it took their part.
Share(c, rows, entries, b) ==
    LET before == Outstanding(rows, {e \in entries : e < b})
        upTo   == before + rows[b].balance
        left   == IF before < c.value THEN c.value - before ELSE 0
    IN  IF c.kind = "percentage"
        THEN HalfUp(upTo * c.value, 100) - HalfUp(before * c.value, 100)
        ELSE IF left < rows[b].balance THEN left ELSE rows[b].balance

Shares(c, rows, entries) ==
    [b \in Bills |-> IF b \in entries THEN Share(c, rows, entries, b) ELSE 0]

NewAward(c, rows, entries) ==
    [student |-> c.student, year |-> c.year, kind |-> c.kind,
     value |-> c.value, bills |-> c.bills, active |-> TRUE,
     applied |-> Budget(c, Outstanding(rows, entries)),
     alloc |-> Shares(c, rows, entries)]

SameAward(c, row) ==
    /\ row.student = c.student
    /\ row.year = c.year
    /\ row.kind = c.kind
    /\ row.value = c.value
    /\ row.bills = c.bills

Negated(alloc) == [b \in Bills |-> -alloc[b]]

Allocated(row) == {b \in Bills : row.alloc[b] > 0}

ReversalAllowed(row, rows) ==
    /\ Allocated(row) # {}
    /\ SumFunction(row.alloc) = row.applied
    /\ \A b \in Allocated(row) : row.alloc[b] <= rows[b].discount

-----------------------------------------------------------------------------
\* The student whose row a command locks, given the payment or award it is
\* about.
StudentFor(c, paid, awarded) ==
    IF c.op = "refund" THEN paid.student
    ELSE IF c.op = "reverse" THEN awarded.student
    ELSE c.student

(* The bills a command loads and changes, given the payment or award it is  *)
(* about; none if one of the checks above refuses the command.              *)
Selected(c, paid, awarded, rows) ==
    {b \in Bills :
       \/ c.op = "collect" /\ PaysBill(c, b, rows)
       \/ c.op = "refund" /\ b = paid.bill /\ RefundAllowed(c, paid, rows[b])
       \/ c.op = "award" /\ AwardAllowed(c, rows) /\ b \in AwardEntries(c, rows)
       \/ c.op = "reverse" /\ ReversalAllowed(awarded, rows) /\ b \in Allocated(awarded)}

=============================================================================
