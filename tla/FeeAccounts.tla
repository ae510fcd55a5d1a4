----------------------------- MODULE FeeAccounts -----------------------------
(***************************************************************************)
(* What the fee service promises about money: the calls of all cashiers    *)
(* take effect one at a time, each on the tables as they are, and a call   *)
(* is acknowledged only with a row that records exactly that call.  There  *)
(* are no sessions, locks or copies of rows here; FeeLedger implements it. *)
(***************************************************************************)
EXTENDS FeeTables

VARIABLES bill,      \* fee_ledger
          payment,   \* fee_payments
          refund,    \* fee_refunds
          award,     \* scholarships with fee_discount_allocations
          acked      \* the commands some client was told have succeeded

vars == <<bill, payment, refund, award, acked>>

TypeOK ==
    /\ bill \in [Bills -> BillRow]
    /\ payment \in [Requests -> PaymentRow \cup {NoRow}]
    /\ refund \in [Requests -> RefundRow \cup {NoRow}]
    /\ award \in [Requests -> AwardRow \cup {NoRow}]
    /\ acked \subseteq Commands

Init ==
    /\ bill = [b \in Bills |-> NewBill(b)]
    /\ payment = [r \in Requests |-> NoRow]
    /\ refund = [r \in Requests |-> NoRow]
    /\ award = [r \in Requests |-> NoRow]
    /\ acked = {}

Acknowledge(c) == acked' = acked \cup {c}

Collect(c) ==
    /\ c.op = "collect"
    /\ payment[c.req] = NoRow
    /\ \E b \in Bills :
         /\ PaysBill(c, b, bill)
         /\ bill' = [bill EXCEPT ![b] = Pay(@, c.amount)]
         /\ payment' = [payment EXCEPT ![c.req] = NewPayment(c, b)]
    /\ Acknowledge(c)
    /\ UNCHANGED <<refund, award>>

Refund(c) ==
    /\ c.op = "refund"
    /\ refund[c.req] = NoRow
    /\ payment[c.payment] # NoRow
    /\ LET paid == payment[c.payment]
       IN  /\ RefundAllowed(c, paid, bill[paid.bill])
           /\ bill' = [bill EXCEPT ![paid.bill] = Pay(@, -c.amount)]
           /\ payment' = [payment EXCEPT ![c.payment] = AddRefund(paid, c.amount)]
    /\ refund' = [refund EXCEPT ![c.req] = NewRefund(c)]
    /\ Acknowledge(c)
    /\ UNCHANGED award

Award(c) ==
    /\ c.op = "award"
    /\ award[c.req] = NoRow
    /\ AwardAllowed(c, bill)
    /\ LET entries == AwardEntries(c, bill)
           new     == NewAward(c, bill, entries)
       IN  /\ bill' = DiscountAll(bill, entries, new.alloc)
           /\ award' = [award EXCEPT ![c.req] = new]
    /\ Acknowledge(c)
    /\ UNCHANGED <<payment, refund>>

Reverse(c) ==
    /\ c.op = "reverse"
    /\ award[c.award] # NoRow
    /\ award[c.award].active
    /\ ReversalAllowed(award[c.award], bill)
    /\ LET old == award[c.award]
       IN  bill' = DiscountAll(bill, Allocated(old), Negated(old.alloc))
    /\ award' = [award EXCEPT ![c.award].active = FALSE]
    /\ Acknowledge(c)
    /\ UNCHANGED <<payment, refund>>

\* A row of the tables records the command's effect.
Recorded(c) ==
    \/ /\ c.op = "collect"
       /\ payment[c.req] # NoRow
       /\ SamePayment(c, payment[c.req])
    \/ /\ c.op = "refund"
       /\ refund[c.req] # NoRow
       /\ SameRefund(c, refund[c.req])
    \/ /\ c.op = "award"
       /\ award[c.req] # NoRow
       /\ SameAward(c, award[c.req])
    \/ /\ c.op = "reverse"
       /\ award[c.award] # NoRow
       /\ ~award[c.award].active

\* A retry of a recorded command is told it succeeded and changes nothing.
Repeat(c) ==
    /\ Recorded(c)
    /\ Acknowledge(c)
    /\ UNCHANGED <<bill, payment, refund, award>>

Next == \E c \in Commands :
            Collect(c) \/ Refund(c) \/ Award(c) \/ Reverse(c) \/ Repeat(c)

Spec == Init /\ [][Next]_vars
=============================================================================
