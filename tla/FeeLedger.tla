------------------------------ MODULE FeeLedger ------------------------------
(***************************************************************************)
(* The money operations of FeeService as the sessions of the API workers   *)
(* run them: collect_fee, refund_payment, apply_scholarship and            *)
(* reverse_scholarship, one action per statement that waits for a lock or  *)
(* reads a row a decision depends on.                                      *)
(*                                                                         *)
(* Every call is one READ COMMITTED transaction (get_db): its locks are    *)
(* held until it ends, its writes appear at once when it commits, and a    *)
(* failure anywhere rolls all of it back.  A session works on the copies   *)
(* of rows it has loaded, so a copy read before a lock was granted may be  *)
(* stale, and a commit writes what was computed from the copies.           *)
(***************************************************************************)
EXTENDS FeeTables

CONSTANTS Sessions,
          NoCommand    \* an idle session's command

VARIABLES bill, payment, refund, award, acked,   \* as in FeeAccounts
          pc,            \* what each session does next
          cmd,           \* the command it executes
          held,          \* the advisory and row locks it holds
          billView,      \* the ledger rows it has loaded, NoRow elsewhere
          paymentView,   \* the payment row it has loaded
          awardView      \* the scholarship row it has loaded

tables   == <<bill, payment, refund, award>>
views    == <<billView, paymentView, awardView>>
sessions == <<pc, cmd, held, views>>
vars     == <<tables, acked, sessions>>

ASSUME NoCommandAssumption == NoCommand \notin Commands

Phases == {"idle", "request", "find", "student", "replay", "payment",
           "bills", "commit"}

\* pg_advisory_xact_lock keys and rows locked FOR UPDATE
RequestLock(r) == <<"request", r>>
StudentLock(i) == <<"student", i>>
PaymentLock(r) == <<"payment", r>>
BillLock(b)    == <<"bill", b>>

Locks == {RequestLock(r) : r \in Requests} \cup {StudentLock(i) : i \in Students}
           \cup {PaymentLock(r) : r \in Requests} \cup {BillLock(b) : b \in Bills}

NoBillView == [b \in Bills |-> NoRow]

TypeOK ==
    /\ bill \in [Bills -> BillRow]
    /\ payment \in [Requests -> PaymentRow \cup {NoRow}]
    /\ refund \in [Requests -> RefundRow \cup {NoRow}]
    /\ award \in [Requests -> AwardRow \cup {NoRow}]
    /\ acked \subseteq Commands
    /\ pc \in [Sessions -> Phases]
    /\ cmd \in [Sessions -> Commands \cup {NoCommand}]
    /\ held \in [Sessions -> SUBSET Locks]
    /\ billView \in [Sessions -> [Bills -> BillRow \cup {NoRow}]]
    /\ paymentView \in [Sessions -> PaymentRow \cup {NoRow}]
    /\ awardView \in [Sessions -> AwardRow \cup {NoRow}]

Init ==
    /\ bill = [b \in Bills |-> NewBill(b)]
    /\ payment = [r \in Requests |-> NoRow]
    /\ refund = [r \in Requests |-> NoRow]
    /\ award = [r \in Requests |-> NoRow]
    /\ acked = {}
    /\ pc = [s \in Sessions |-> "idle"]
    /\ cmd = [s \in Sessions |-> NoCommand]
    /\ held = [s \in Sessions |-> {}]
    /\ billView = [s \in Sessions |-> NoBillView]
    /\ paymentView = [s \in Sessions |-> NoRow]
    /\ awardView = [s \in Sessions |-> NoRow]

-----------------------------------------------------------------------------

Free(s, locks) == \A other \in Sessions \ {s} : held[other] \cap locks = {}

\* waits until no other transaction holds any of the locks
Acquire(s, locks) ==
    /\ Free(s, locks)
    /\ held' = [held EXCEPT ![s] = @ \cup locks]

GoTo(s, phase) == pc' = [pc EXCEPT ![s] = phase]

\* mutant: a failed or finished call leaves its locks behind
EndKeepsLocks(s) ==
    /\ GoTo(s, "idle")
    /\ cmd' = [cmd EXCEPT ![s] = NoCommand]
    /\ billView' = [billView EXCEPT ![s] = NoBillView]
    /\ paymentView' = [paymentView EXCEPT ![s] = NoRow]
    /\ awardView' = [awardView EXCEPT ![s] = NoRow]
    /\ UNCHANGED held

\* commit or rollback: the session forgets its rows, its locks are released
End(s) ==
    /\ GoTo(s, "idle")
    /\ cmd' = [cmd EXCEPT ![s] = NoCommand]
    /\ held' = [held EXCEPT ![s] = {}]
    /\ billView' = [billView EXCEPT ![s] = NoBillView]
    /\ paymentView' = [paymentView EXCEPT ![s] = NoRow]
    /\ awardView' = [awardView EXCEPT ![s] = NoRow]

\* the client receives the success response after the commit
Acknowledge(s) == acked' = acked \cup {cmd[s]}

Loaded(s) == {b \in Bills : billView[s][b] # NoRow}

StudentOf(s) == StudentFor(cmd[s], paymentView[s], awardView[s])

-----------------------------------------------------------------------------
(* A client calls, possibly for the second time or from two sessions. *)
Submit(s) ==
    /\ pc[s] = "idle"
    /\ \E c \in Commands :
         /\ cmd' = [cmd EXCEPT ![s] = c]
         /\ GoTo(s, IF c.op = "reverse" THEN "find" ELSE "request")
    /\ UNCHANGED <<tables, acked, held, views>>

\* _request_lock; reverse_scholarship takes none
LockRequest(s) ==
    /\ pc[s] = "request"
    /\ Acquire(s, {RequestLock(cmd[s].req)})
    /\ GoTo(s, IF cmd[s].op = "refund" THEN "find" ELSE "student")
    /\ UNCHANGED <<tables, acked, cmd, views>>

\* mutant: the bill of the payment is locked with the payment's first read
FindPaymentLocksBill(s) ==
    /\ pc[s] = "find" /\ cmd[s].op = "refund"
    /\ payment[cmd[s].payment] # NoRow
    /\ Acquire(s, {BillLock(payment[cmd[s].payment].bill)})
    /\ paymentView' = [paymentView EXCEPT ![s] = payment[cmd[s].payment]]
    /\ GoTo(s, "student")
    /\ UNCHANGED <<tables, acked, cmd, billView, awardView>>

\* The payment to refund is looked up before any row is locked.
FindPayment(s) ==
    /\ pc[s] = "find" /\ cmd[s].op = "refund"
    /\ payment[cmd[s].payment] # NoRow
    /\ paymentView' = [paymentView EXCEPT ![s] = payment[cmd[s].payment]]
    /\ GoTo(s, "student")
    /\ UNCHANGED <<tables, acked, cmd, held, billView, awardView>>

\* So is the award to reverse.
FindAward(s) ==
    /\ pc[s] = "find" /\ cmd[s].op = "reverse"
    /\ award[cmd[s].award] # NoRow
    /\ awardView' = [awardView EXCEPT ![s] = award[cmd[s].award]]
    /\ GoTo(s, "student")
    /\ UNCHANGED <<tables, acked, cmd, held, billView, paymentView>>

\* mutant: the student row is read without FOR UPDATE
LockStudentNoWait(s) ==
    /\ pc[s] = "student"
    /\ GoTo(s, "replay")
    /\ UNCHANGED <<tables, acked, cmd, held, views>>

\* _student(lock=True)
LockStudent(s) ==
    /\ pc[s] = "student"
    /\ Acquire(s, {StudentLock(StudentOf(s))})
    /\ GoTo(s, "replay")
    /\ UNCHANGED <<tables, acked, cmd, views>>

\* The request id has been used before, the award been reversed before;
\* reverse_scholarship refreshes its copy of the award to see that.
UsedBefore(s) ==
    \/ cmd[s].op = "collect" /\ payment[cmd[s].req] # NoRow
    \/ cmd[s].op = "refund"  /\ refund[cmd[s].req] # NoRow
    \/ cmd[s].op = "award"   /\ award[cmd[s].req] # NoRow
    \/ cmd[s].op = "reverse" /\ ~award[cmd[s].award].active

\* mutant: any earlier use of the request id is taken for the same call
SameAsBeforeAlways(s) == TRUE

\* that use was the same call
SameAsBefore(s) ==
    \/ cmd[s].op = "collect" /\ SamePayment(cmd[s], payment[cmd[s].req])
    \/ cmd[s].op = "refund"  /\ SameRefund(cmd[s], refund[cmd[s].req])
    \/ cmd[s].op = "award"   /\ SameAward(cmd[s], award[cmd[s].req])
    \/ cmd[s].op = "reverse"

\* The request id is new, the award still active: the operation goes on.
StartFresh(s) ==
    /\ pc[s] = "replay"
    /\ ~UsedBefore(s)
    /\ GoTo(s, IF cmd[s].op = "refund" THEN "payment" ELSE "bills")
    /\ IF cmd[s].op = "reverse"
       THEN awardView' = [awardView EXCEPT ![s] = award[cmd[s].award]]
       ELSE UNCHANGED awardView
    /\ UNCHANGED <<tables, acked, cmd, held, billView, paymentView>>

\* A retry is answered with the earlier result.
Replay(s) ==
    /\ pc[s] = "replay"
    /\ UsedBefore(s) /\ SameAsBefore(s)
    /\ Acknowledge(s)
    /\ End(s)
    /\ UNCHANGED tables

\* mutant: the locking SELECT does not overwrite the loaded payment
LockPaymentKeepsCopy(s) ==
    /\ pc[s] = "payment"
    /\ Acquire(s, {PaymentLock(cmd[s].payment)})
    /\ GoTo(s, "bills")
    /\ UNCHANGED <<tables, acked, cmd, views>>

\* refund_payment loads the payment again, under its row lock
LockPayment(s) ==
    /\ pc[s] = "payment"
    /\ Acquire(s, {PaymentLock(cmd[s].payment)})
    /\ paymentView' = [paymentView EXCEPT ![s] = payment[cmd[s].payment]]
    /\ GoTo(s, "bills")
    /\ UNCHANGED <<tables, acked, cmd, billView, awardView>>

\* the bills the operation works on, none if it is refused
Selection(s) == Selected(cmd[s], paymentView[s], awardView[s], bill)

\* SELECT ... FOR UPDATE with populate_existing on the bills, then the checks
LockBills(s) ==
    /\ pc[s] = "bills"
    /\ Selection(s) # {}
    /\ Acquire(s, {BillLock(b) : b \in Selection(s)})
    /\ billView' = [billView EXCEPT ![s] =
                      [b \in Bills |-> IF b \in Selection(s) THEN bill[b] ELSE NoRow]]
    /\ GoTo(s, "commit")
    /\ UNCHANGED <<tables, acked, cmd, paymentView, awardView>>

\* The call is refused (404, 409 or 400) and rolled back.
Refuse(s) ==
    /\ \/ pc[s] = "find" /\ cmd[s].op = "refund"
            /\ payment[cmd[s].payment] = NoRow
       \/ pc[s] = "find" /\ cmd[s].op = "reverse"
            /\ award[cmd[s].award] = NoRow
       \/ pc[s] = "replay" /\ UsedBefore(s) /\ ~SameAsBefore(s)
       \/ pc[s] = "bills" /\ Selection(s) = {}
    /\ End(s)
    /\ UNCHANGED <<tables, acked>>

-----------------------------------------------------------------------------
(* The flushes and the commit: the rows computed from the session's copies  *)
(* are written, if they pass the CHECK constraints and the unique index on  *)
(* the request id.                                                          *)

PaidBills(s, amount) ==
    [b \in Bills |-> IF b \in Loaded(s) THEN Pay(billView[s][b], amount)
                     ELSE bill[b]]

DiscountedBills(s, alloc) ==
    [b \in Bills |-> IF b \in Loaded(s) THEN Discount(billView[s][b], alloc[b])
                     ELSE bill[b]]

PassChecks(rows) == \A b \in Bills : MeetsChecks(b, rows[b])

\* what the database asks of the rows of each kind of call
PaymentFits(s) ==
    /\ Loaded(s) # {}
    /\ PassChecks(PaidBills(s, cmd[s].amount))
    /\ payment[cmd[s].req] = NoRow

CommitPayment(s) ==
    /\ pc[s] = "commit" /\ cmd[s].op = "collect"
    /\ PaymentFits(s)
    /\ bill' = PaidBills(s, cmd[s].amount)
    /\ \E b \in Loaded(s) :
         payment' = [payment EXCEPT ![cmd[s].req] = NewPayment(cmd[s], b)]
    /\ Acknowledge(s)
    /\ End(s)
    /\ UNCHANGED <<refund, award>>

RefundedPayment(s) == AddRefund(paymentView[s], cmd[s].amount)

RefundFits(s) ==
    /\ PassChecks(PaidBills(s, -cmd[s].amount))
    /\ RefundedPayment(s).refunded <= RefundedPayment(s).amount
    /\ refund[cmd[s].req] = NoRow

CommitRefund(s) ==
    /\ pc[s] = "commit" /\ cmd[s].op = "refund"
    /\ RefundFits(s)
    /\ bill' = PaidBills(s, -cmd[s].amount)
    /\ payment' = [payment EXCEPT ![cmd[s].payment] = RefundedPayment(s)]
    /\ refund' = [refund EXCEPT ![cmd[s].req] = NewRefund(cmd[s])]
    /\ Acknowledge(s)
    /\ End(s)
    /\ UNCHANGED award

GrantedAward(s) == NewAward(cmd[s], billView[s], Loaded(s))

AwardFits(s) ==
    /\ PassChecks(DiscountedBills(s, GrantedAward(s).alloc))
    /\ GrantedAward(s).alloc \in [Bills -> Money]
    /\ award[cmd[s].req] = NoRow

CommitAward(s) ==
    /\ pc[s] = "commit" /\ cmd[s].op = "award"
    /\ AwardFits(s)
    /\ bill' = DiscountedBills(s, GrantedAward(s).alloc)
    /\ award' = [award EXCEPT ![cmd[s].req] = GrantedAward(s)]
    /\ Acknowledge(s)
    /\ End(s)
    /\ UNCHANGED <<payment, refund>>

ReversalFits(s) == PassChecks(DiscountedBills(s, Negated(awardView[s].alloc)))

\* mutant: the reversal deletes the allocation rows
CommitReversalDeletes(s) ==
    /\ pc[s] = "commit" /\ cmd[s].op = "reverse"
    /\ ReversalFits(s)
    /\ bill' = DiscountedBills(s, Negated(awardView[s].alloc))
    /\ award' = [award EXCEPT ![cmd[s].award].active = FALSE,
                             ![cmd[s].award].alloc = [b \in Bills |-> 0]]
    /\ Acknowledge(s)
    /\ End(s)
    /\ UNCHANGED <<payment, refund>>

CommitReversal(s) ==
    /\ pc[s] = "commit" /\ cmd[s].op = "reverse"
    /\ ReversalFits(s)
    /\ bill' = DiscountedBills(s, Negated(awardView[s].alloc))
    /\ award' = [award EXCEPT ![cmd[s].award].active = FALSE]
    /\ Acknowledge(s)
    /\ End(s)
    /\ UNCHANGED <<payment, refund>>

\* The connection drops, the worker stops, or the database refuses a statement.
Abort(s) ==
    /\ pc[s] # "idle"
    /\ End(s)
    /\ UNCHANGED <<tables, acked>>

-----------------------------------------------------------------------------

Commit(s) == CommitPayment(s) \/ CommitRefund(s) \/ CommitAward(s) \/ CommitReversal(s)

\* the steps of a call that wait for no other session
Work(s) == FindPayment(s) \/ FindAward(s) \/ StartFresh(s) \/ Replay(s)
             \/ Refuse(s) \/ Commit(s)

\* the steps that may have to wait
Wait(s) == LockRequest(s) \/ LockStudent(s) \/ LockPayment(s) \/ LockBills(s)

Next == \E s \in Sessions : Submit(s) \/ Wait(s) \/ Work(s) \/ Abort(s)

Spec == Init /\ [][Next]_vars

\* A running call goes on, and PostgreSQL grants a lock to its waiters in
\* turn; nobody has to call, and nothing has to fail.
Fairness == \A s \in Sessions : WF_vars(Work(s)) /\ SF_vars(Wait(s))

FairSpec == Spec /\ Fairness

-----------------------------------------------------------------------------
(* Properties. *)

Accounts == INSTANCE FeeAccounts

NetPayments(b) ==
    SumFunction([r \in {q \in Requests : payment[q] # NoRow /\ payment[q].bill = b}
                   |-> payment[r].amount - payment[r].refunded])

Concessions(b) ==
    SumFunction([r \in {q \in Requests : award[q] # NoRow /\ award[q].active}
                   |-> award[r].alloc[b]])

Returned(p) ==
    SumFunction([r \in {q \in Requests : refund[q] # NoRow /\ refund[q].payment = p}
                   |-> refund[r].amount])

\* Every total the tables store agrees with the rows it summarises: what a
\* bill says is paid is what its payments still hold, its discount is what
\* the awards in force allocate to it, and a payment's refunded amount is
\* the sum of its refunds (FeeService, "Row locks below separately serialize
\* different operations on the same student").
Reconciled ==
    /\ \A b \in Bills : /\ bill[b].paid = NetPayments(b)
                        /\ bill[b].discount = Concessions(b)
    /\ \A r \in Requests : payment[r] # NoRow => payment[r].refunded = Returned(r)

\* The allocation rows of an award add up to what it applied, to the paisa,
\* so that reverse_scholarship never meets an award it must refuse as
\* incomplete.
AwardsWhole ==
    \A r \in Requests :
        award[r] # NoRow => SumFunction(award[r].alloc) = award[r].applied

\* The books balance: the totals with the rows they summarise, and every award
\* with its parts.
BooksBalance == Reconciled /\ AwardsWhole

\* When a call is about to write, every row it computed the new values from
\* is still the row in the table: no update of another session is lost.
WritesFromCurrentRows ==
    \A s \in Sessions : pc[s] = "commit" =>
        /\ \A b \in Loaded(s) : billView[s][b] = bill[b]
        /\ cmd[s].op = "refund" => paymentView[s] = payment[cmd[s].payment]
        /\ cmd[s].op = "reverse" => awardView[s] = award[cmd[s].award]

\* A call that has passed the service's own checks is never refused by a
\* CHECK constraint or a unique index, whatever committed since it was called:
\* the checks on the locked rows imply the constraints on the rows it writes.
AcceptedCanCommit ==
    \A s \in Sessions : pc[s] = "commit" =>
        \/ cmd[s].op = "collect" /\ PaymentFits(s)
        \/ cmd[s].op = "refund"  /\ RefundFits(s)
        \/ cmd[s].op = "award"   /\ AwardFits(s)
        \/ cmd[s].op = "reverse" /\ ReversalFits(s)

\* Session s waits until session t ends.
WaitsFor(s, t) ==
    /\ s # t
    /\ \/ pc[s] = "request" /\ RequestLock(cmd[s].req) \in held[t]
       \/ pc[s] = "student" /\ StudentLock(StudentOf(s)) \in held[t]
       \/ pc[s] = "payment" /\ PaymentLock(cmd[s].payment) \in held[t]
       \/ pc[s] = "bills" /\ \E b \in Selection(s) : BillLock(b) \in held[t]

\* Among any sessions there is one that waits for none of them, so no circle
\* of calls waits for each other's locks: all take the request's lock, the
\* student's row, the payment's and the bills in this order.
NoCircularWait ==
    \A S \in (SUBSET Sessions) \ {{}} :
        \E s \in S : \A t \in S : ~WaitsFor(s, t)

\* A call the client was told has succeeded is recorded with exactly the
\* details of that call, also after retries, races for one request id,
\* refunds and reversals.
AckedIsRecorded == \A c \in acked : Accounts!Recorded(c)

HistoryStep ==
    \A r \in Requests :
      /\ payment[r] # NoRow =>
           /\ payment'[r] # NoRow
           /\ payment'[r].refunded >= payment[r].refunded
           /\ payment'[r] = [payment[r] EXCEPT !.refunded = payment'[r].refunded]
      /\ refund[r] # NoRow => refund'[r] = refund[r]
      /\ award[r] # NoRow =>
           \/ award'[r] = award[r]
           \/ award[r].active /\ award'[r] = [award[r] EXCEPT !.active = FALSE]

\* The money history only grows: a payment keeps its details and can only be
\* refunded further, a refund never changes, an award changes only by being
\* reversed, once, and keeps its allocation ("Immutable bill-level evidence
\* for a concession, retained on reversal").
HistoryKept == [][HistoryStep]_vars

\* Whatever the interleaving, the tables change as if each call had run alone
\* at the moment it committed.
OneAtATime == Accounts!Spec

\* Every call comes to an end: the locks are taken in an order in which two
\* calls never wait for each other.
CallsEnd == \A s \in Sessions : pc[s] # "idle" ~> pc[s] = "idle"


-----------------------------------------------------------------------------
(* The inductive invariant: what each phase of a call may rely on, because   *)
(* of the locks its session holds.                                           *)

AfterFind    == {"student", "replay", "payment", "bills", "commit"}
AfterStudent == {"replay", "payment", "bills", "commit"}
AfterReplay  == {"payment", "bills", "commit"}
AfterLoad    == {"bills", "commit"}

LocksApart ==
    \A s1, s2 \in Sessions : s1 # s2 => held[s1] \cap held[s2] = {}

PhaseFits(s) ==
    /\ pc[s] # "idle" => cmd[s] \in Commands
    /\ pc[s] = "request" => cmd[s].op # "reverse"
    /\ pc[s] = "find" => cmd[s].op \in {"refund", "reverse"}
    /\ pc[s] = "payment" => cmd[s].op = "refund"

HoldsLocks(s) ==
    /\ pc[s] \notin {"idle", "request"} /\ cmd[s].op # "reverse" =>
         RequestLock(cmd[s].req) \in held[s]
    /\ pc[s] \in AfterStudent => StudentLock(StudentOf(s)) \in held[s]
    /\ pc[s] \in AfterLoad /\ cmd[s].op = "refund" =>
         PaymentLock(cmd[s].payment) \in held[s]

CopiesFit(s) ==
    /\ pc[s] \in AfterFind /\ cmd[s].op = "refund" =>
         /\ paymentView[s] # NoRow
         /\ payment[cmd[s].payment] # NoRow
         /\ paymentView[s].student = payment[cmd[s].payment].student
    /\ pc[s] \in AfterFind /\ cmd[s].op = "reverse" =>
         /\ awardView[s] # NoRow
         /\ award[cmd[s].award] # NoRow
         /\ awardView[s].student = award[cmd[s].award].student
    /\ pc[s] \in AfterLoad /\ cmd[s].op = "refund" =>
         paymentView[s] = payment[cmd[s].payment]
    /\ pc[s] \in AfterLoad /\ cmd[s].op = "reverse" =>
         awardView[s] = award[cmd[s].award] /\ awardView[s].active

RequestIsNew(s) ==
    pc[s] \in AfterReplay =>
      /\ cmd[s].op = "collect" => payment[cmd[s].req] = NoRow
      /\ cmd[s].op = "refund" => refund[cmd[s].req] = NoRow
      /\ cmd[s].op = "award" => award[cmd[s].req] = NoRow

SelectionStands(s) ==
    pc[s] = "commit" =>
      /\ Loaded(s) # {}
      /\ Loaded(s) = Selection(s)
      /\ \A b \in Loaded(s) : billView[s][b] = bill[b]

SessionInv(s) ==
    /\ PhaseFits(s)
    /\ HoldsLocks(s)
    /\ CopiesFit(s)
    /\ RequestIsNew(s)
    /\ SelectionStands(s)

\* A session holds no lock before the step that takes it, so the order of the
\* phases is the order of the locks.
HeldInOrder(s) ==
    /\ pc[s] \in {"idle", "request"} => held[s] = {}
    /\ \A i \in Students : StudentLock(i) \in held[s] => pc[s] \in AfterStudent
    /\ \A r \in Requests : PaymentLock(r) \in held[s] => pc[s] \in AfterLoad
    /\ \A b \in Bills : BillLock(b) \in held[s] => pc[s] = "commit"

LocksInOrder == \A s \in Sessions : HeldInOrder(s)

RowsBelong ==
    \A r \in Requests :
      /\ payment[r] # NoRow => Terms[payment[r].bill].student = payment[r].student
      /\ award[r] # NoRow =>
           \A b \in Allocated(award[r]) : Terms[b].student = award[r].student

IInv ==
    /\ TypeOK
    /\ LocksApart
    /\ RowsBelong
    /\ AckedIsRecorded
    /\ \A s \in Sessions : SessionInv(s)

\* What the books need besides: sums are over finitely many rows, and what a
\* refund gives back was paid.
RowsFinite ==
    /\ IsFiniteSet({r \in Requests : payment[r] # NoRow})
    /\ IsFiniteSet({r \in Requests : refund[r] # NoRow})
    /\ IsFiniteSet({r \in Requests : award[r] # NoRow})

RefundsBelong ==
    \A r \in Requests : refund[r] # NoRow => payment[refund[r].payment] # NoRow

BooksInv == BooksBalance /\ RowsFinite /\ RefundsBelong

=============================================================================
