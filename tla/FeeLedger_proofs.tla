--------------------------- MODULE FeeLedger_proofs ---------------------------
(***************************************************************************)
(* Proofs about FeeLedger for any sessions, students, bills, request ids   *)
(* and commands: the inductive invariant IInv, the safety properties that  *)
(* follow from it, and that FeeLedger implements FeeAccounts.              *)
(***************************************************************************)
EXTENDS FeeLedger, SumLemmas

-----------------------------------------------------------------------------
(* The operators on rows. *)

\* What a command carries depends on its operation.
LEMMA CommandFields ==
    ASSUME NEW c \in Commands
    PROVE  /\ c.op \in {"collect", "refund", "award", "reverse"}
           /\ c.op = "collect" => c \in CollectCommand
           /\ c.op = "refund" => c \in RefundCommand
           /\ c.op = "award" => c \in AwardCommand
           /\ c.op = "reverse" => c \in ReverseCommand
  BY CommandsAssumption
     DEF CollectCommand, RefundCommand, AwardCommand, ReverseCommand

\* Which bill a payment goes to depends on the student's own bills only.
LEMMA PaysBillStable ==
    ASSUME NEW c, NEW rows1, NEW rows2,
           \A b \in Bills : Terms[b].student = c.student => rows1[b] = rows2[b]
    PROVE  \A b \in Bills : PaysBill(c, b, rows1) <=> PaysBill(c, b, rows2)
<1>1. PayableBills(c, rows1) = PayableBills(c, rows2)
  BY DEF PayableBills
<1>2. ASSUME NEW b \in PayableBills(c, rows1)
      PROVE  b \in Bills /\ rows1[b] = rows2[b]
  BY DEF PayableBills
<1>3. ASSUME NEW b \in Bills
      PROVE  PaysBill(c, b, rows1) <=> PaysBill(c, b, rows2)
  BY <1>1, <1>2 DEF PaysBill
<1>4. QED
  BY <1>3

LEMMA OutstandingStable ==
    ASSUME NEW entries, NEW rows1, NEW rows2,
           \A b \in entries : rows1[b] = rows2[b]
    PROVE  Outstanding(rows1, entries) = Outstanding(rows2, entries)
<1>1. [b \in entries |-> rows1[b].balance] = [b \in entries |-> rows2[b].balance]
  OBVIOUS
<1>2. QED
  BY <1>1 DEF Outstanding

\* So do the bills an award is spread over and whether it is accepted.
LEMMA AwardStable ==
    ASSUME NEW c, NEW rows1, NEW rows2,
           \A b \in Bills : Terms[b].student = c.student => rows1[b] = rows2[b]
    PROVE  /\ AwardEntries(c, rows1) = AwardEntries(c, rows2)
           /\ AwardAllowed(c, rows1) <=> AwardAllowed(c, rows2)
<1>1. AwardEntries(c, rows1) = AwardEntries(c, rows2)
  BY DEF AwardEntries
<1>2. \A b \in AwardEntries(c, rows1) : rows1[b] = rows2[b]
  BY DEF AwardEntries
<1>3. Outstanding(rows1, AwardEntries(c, rows1)) = Outstanding(rows2, AwardEntries(c, rows1))
  BY <1>2, OutstandingStable
<1>4. QED
  BY <1>1, <1>3 DEF AwardAllowed

\* The payment or award a command is about lies on bills of its student.
CopiesBelong(c, paid, awarded) ==
    /\ c.op = "refund" =>
         paid.bill \in Bills /\ Terms[paid.bill].student = paid.student
    /\ c.op = "reverse" =>
         \A b \in Allocated(awarded) : Terms[b].student = awarded.student

\* The selection of a command is decided by the bills of one student.
LEMMA SelectedStable ==
    ASSUME NEW c \in Commands, NEW paid, NEW awarded, NEW rows1, NEW rows2,
           CopiesBelong(c, paid, awarded),
           \A b \in Bills :
             Terms[b].student = StudentFor(c, paid, awarded) => rows1[b] = rows2[b]
    PROVE  Selected(c, paid, awarded, rows1) = Selected(c, paid, awarded, rows2)
<1>1. CASE c.op = "collect"
  <2>1. \A b \in Bills : Terms[b].student = c.student => rows1[b] = rows2[b]
    BY <1>1 DEF StudentFor
  <2>2. \A b \in Bills : PaysBill(c, b, rows1) <=> PaysBill(c, b, rows2)
    BY <2>1, PaysBillStable
  <2>3. QED
    BY <1>1, <2>2 DEF Selected
<1>2. CASE c.op = "refund"
  <2>1. rows1[paid.bill] = rows2[paid.bill]
    BY <1>2 DEF StudentFor, CopiesBelong
  <2>2. QED
    BY <1>2, <2>1 DEF Selected
<1>3. CASE c.op = "award"
  <2>1. \A b \in Bills : Terms[b].student = c.student => rows1[b] = rows2[b]
    BY <1>3 DEF StudentFor
  <2>2. /\ AwardEntries(c, rows1) = AwardEntries(c, rows2)
        /\ AwardAllowed(c, rows1) <=> AwardAllowed(c, rows2)
    BY <2>1, AwardStable
  <2>3. QED
    BY <1>3, <2>2 DEF Selected
<1>4. CASE c.op = "reverse"
  <2>1. \A b \in Allocated(awarded) : rows1[b] = rows2[b]
    BY <1>4 DEF Allocated, StudentFor, CopiesBelong
  <2>2. ReversalAllowed(awarded, rows1) <=> ReversalAllowed(awarded, rows2)
    BY <2>1 DEF ReversalAllowed
  <2>3. QED
    BY <1>4, <2>2 DEF Selected
<1>5. QED
  BY <1>1, <1>2, <1>3, <1>4, CommandFields

\* A selected bill is a bill of the command's student.
LEMMA SelectedBelongs ==
    ASSUME NEW c \in Commands, NEW paid, NEW awarded, NEW rows,
           CopiesBelong(c, paid, awarded),
           NEW b \in Selected(c, paid, awarded, rows)
    PROVE  b \in Bills /\ Terms[b].student = StudentFor(c, paid, awarded)
<1>1. CASE c.op = "collect"
  BY <1>1 DEF Selected, PaysBill, PayableBills, StudentFor
<1>2. CASE c.op = "refund"
  BY <1>2 DEF Selected, StudentFor, CopiesBelong
<1>3. CASE c.op = "award"
  BY <1>3 DEF Selected, AwardEntries, StudentFor
<1>4. CASE c.op = "reverse"
  BY <1>4 DEF Selected, Allocated, StudentFor, CopiesBelong
<1>5. QED
  BY <1>1, <1>2, <1>3, <1>4, CommandFields

\* At most one bill takes a payment.
LEMMA OneBillPays ==
    ASSUME NEW c, NEW rows, NEW b1 \in Bills, NEW b2 \in Bills,
           PaysBill(c, b1, rows), PaysBill(c, b2, rows)
    PROVE  b1 = b2
<1>1. b1 \in Nat /\ b2 \in Nat
  BY BillsAssumption
<1>2. b1 <= b2 /\ b2 <= b1
  BY DEF PaysBill
<1>3. QED
  BY <1>1, <1>2

\* The service's refusals leave an award with a budget of at least one paisa.
LEMMA BudgetPositive ==
    ASSUME NEW c, NEW rows, AwardAllowed(c, rows)
    PROVE  Budget(c, Outstanding(rows, AwardEntries(c, rows))) \in PosMoney
  BY DEF AwardAllowed, PosMoney

\* Locks of one kind differ when their keys do.
LEMMA LocksDiffer ==
    /\ \A x, y : RequestLock(x) = RequestLock(y) => x = y
    /\ \A x, y : StudentLock(x) = StudentLock(y) => x = y
    /\ \A x, y : PaymentLock(x) = PaymentLock(y) => x = y
  BY DEF RequestLock, StudentLock, PaymentLock

-----------------------------------------------------------------------------
(* Steps that leave the tables alone. *)

\* A session whose own state and tables do not change keeps its invariant.
LEMMA OthersKeep ==
    ASSUME NEW t \in Sessions, SessionInv(t), UNCHANGED tables,
           pc'[t] = pc[t], cmd'[t] = cmd[t], held'[t] = held[t],
           billView'[t] = billView[t], paymentView'[t] = paymentView[t],
           awardView'[t] = awardView[t]
    PROVE  SessionInv(t)'
<1>1. StudentOf(t)' = StudentOf(t) /\ Loaded(t)' = Loaded(t) /\ Selection(t)' = Selection(t)
  BY DEF StudentOf, Loaded, Selection, tables
<1>2. PhaseFits(t)' /\ HoldsLocks(t)'
  BY <1>1 DEF SessionInv, PhaseFits, HoldsLocks
<1>3. CopiesFit(t)' /\ RequestIsNew(t)'
  BY DEF SessionInv, CopiesFit, RequestIsNew, tables
<1>4. SelectionStands(t)'
  BY <1>1 DEF SessionInv, SelectionStands, tables
<1>5. QED
  BY <1>2, <1>3, <1>4 DEF SessionInv

\* An idle session relies on nothing.
LEMMA IdleKeeps ==
    ASSUME NEW s \in Sessions, pc[s] = "idle"
    PROVE  SessionInv(s)
  BY DEF SessionInv, PhaseFits, HoldsLocks, CopiesFit, RequestIsNew,
         SelectionStands, AfterFind, AfterStudent, AfterReplay, AfterLoad

\* The end of a call, whatever it wrote.
LEMMA EndKeeps ==
    ASSUME TypeOK, LocksApart, NEW s \in Sessions, End(s)
    PROVE  /\ pc' \in [Sessions -> Phases]
           /\ cmd' \in [Sessions -> Commands \cup {NoCommand}]
           /\ held' \in [Sessions -> SUBSET Locks]
           /\ billView' \in [Sessions -> [Bills -> BillRow \cup {NoRow}]]
           /\ paymentView' \in [Sessions -> PaymentRow \cup {NoRow}]
           /\ awardView' \in [Sessions -> AwardRow \cup {NoRow}]
           /\ LocksApart'
           /\ SessionInv(s)'
           /\ \A t \in Sessions \ {s} :
                /\ pc'[t] = pc[t] /\ cmd'[t] = cmd[t] /\ held'[t] = held[t]
                /\ billView'[t] = billView[t] /\ paymentView'[t] = paymentView[t]
                /\ awardView'[t] = awardView[t]
<1>1. pc' \in [Sessions -> Phases] /\ pc'[s] = "idle"
  BY DEF TypeOK, End, GoTo, Phases
<1>2. /\ cmd' \in [Sessions -> Commands \cup {NoCommand}]
      /\ held' \in [Sessions -> SUBSET Locks]
  BY DEF TypeOK, End
<1>3. billView' \in [Sessions -> [Bills -> BillRow \cup {NoRow}]]
  BY DEF TypeOK, End, NoBillView
<1>4. /\ paymentView' \in [Sessions -> PaymentRow \cup {NoRow}]
      /\ awardView' \in [Sessions -> AwardRow \cup {NoRow}]
  BY DEF TypeOK, End
<1>5. LocksApart'
  BY DEF TypeOK, End, LocksApart
<1>6. SessionInv(s)'
  BY <1>1 DEF SessionInv, PhaseFits, HoldsLocks, CopiesFit, RequestIsNew,
         SelectionStands, AfterFind, AfterStudent, AfterReplay, AfterLoad
<1>7. ASSUME NEW t \in Sessions \ {s}
      PROVE  /\ pc'[t] = pc[t] /\ cmd'[t] = cmd[t] /\ held'[t] = held[t]
             /\ billView'[t] = billView[t] /\ paymentView'[t] = paymentView[t]
             /\ awardView'[t] = awardView[t]
  BY DEF TypeOK, End, GoTo
<1>8. QED
  BY <1>1, <1>2, <1>3, <1>4, <1>5, <1>6, <1>7

\* Taking free locks keeps the sessions' locks apart.
LEMMA AcquireKeeps ==
    ASSUME TypeOK, LocksApart, NEW s \in Sessions,
           NEW locks \in SUBSET Locks, Acquire(s, locks)
    PROVE  /\ held' \in [Sessions -> SUBSET Locks]
           /\ LocksApart'
           /\ held'[s] = held[s] \cup locks
           /\ \A t \in Sessions \ {s} : held'[t] = held[t]
  BY DEF TypeOK, LocksApart, Acquire, Free

\* What is recorded stays recorded while the tables do not change.
LEMMA RecordedKeeps ==
    ASSUME UNCHANGED tables, NEW c, Accounts!Recorded(c)
    PROVE  Accounts!Recorded(c)'
  BY DEF tables, Accounts!Recorded

\* The parts of the invariant that only the tables and acked decide.
LEMMA TablesKeep ==
    ASSUME IInv, UNCHANGED <<tables, acked>>
    PROVE  RowsBelong' /\ AckedIsRecorded'
<1>1. RowsBelong'
  BY DEF IInv, RowsBelong, tables
<1>2. AckedIsRecorded'
  BY RecordedKeeps DEF IInv, AckedIsRecorded
<1>3. QED
  BY <1>1, <1>2

LEMMA SubmitKeeps ==
    ASSUME IInv, NEW s \in Sessions, Submit(s)
    PROVE  IInv'
<1>1. PICK c \in Commands :
        /\ cmd' = [cmd EXCEPT ![s] = c]
        /\ pc' = [pc EXCEPT ![s] = IF c.op = "reverse" THEN "find" ELSE "request"]
  BY DEF Submit, GoTo
<1>2. TypeOK'
  BY <1>1 DEF IInv, TypeOK, Submit, tables, views, Phases
<1>3. LocksApart'
  BY DEF IInv, LocksApart, Submit
<1>4. RowsBelong' /\ AckedIsRecorded'
  BY TablesKeep DEF Submit
<1>5. SessionInv(s)'
  <2>1. cmd'[s] = c /\ pc'[s] = IF c.op = "reverse" THEN "find" ELSE "request"
    BY <1>1 DEF IInv, TypeOK
  <2>2. QED
    BY <2>1 DEF SessionInv, PhaseFits, HoldsLocks, CopiesFit, RequestIsNew,
         SelectionStands, AfterFind, AfterStudent, AfterReplay, AfterLoad
<1>6. ASSUME NEW t \in Sessions \ {s}
      PROVE  SessionInv(t)'
  <2>1. SessionInv(t) /\ UNCHANGED tables
    BY DEF IInv, Submit
  <2>2. /\ pc'[t] = pc[t] /\ cmd'[t] = cmd[t] /\ held'[t] = held[t]
        /\ billView'[t] = billView[t] /\ paymentView'[t] = paymentView[t]
        /\ awardView'[t] = awardView[t]
    BY <1>1 DEF IInv, TypeOK, Submit, views
  <2>3. QED
    BY <2>1, <2>2, OthersKeep
<1>7. QED
  BY <1>2, <1>3, <1>4, <1>5, <1>6 DEF IInv

\* A step of session s that only takes locks, loads copies and moves on.
LEMMA MoveKeeps ==
    ASSUME IInv, NEW s \in Sessions, UNCHANGED <<tables, acked, cmd>>,
           NEW phase \in Phases, GoTo(s, phase),
           held' \in [Sessions -> SUBSET Locks], LocksApart',
           billView' \in [Sessions -> [Bills -> BillRow \cup {NoRow}]],
           paymentView' \in [Sessions -> PaymentRow \cup {NoRow}],
           awardView' \in [Sessions -> AwardRow \cup {NoRow}],
           \A t \in Sessions \ {s} :
             /\ held'[t] = held[t] /\ billView'[t] = billView[t]
             /\ paymentView'[t] = paymentView[t] /\ awardView'[t] = awardView[t],
           SessionInv(s)'
    PROVE  IInv'
<1>1. TypeOK'
  BY DEF IInv, TypeOK, GoTo, tables
<1>2. RowsBelong' /\ AckedIsRecorded'
  BY TablesKeep
<1>3. ASSUME NEW t \in Sessions \ {s}
      PROVE  SessionInv(t)'
  <2>1. SessionInv(t)
    BY DEF IInv
  <2>2. pc'[t] = pc[t] /\ cmd'[t] = cmd[t]
    BY DEF IInv, TypeOK, GoTo
  <2>3. QED
    BY <2>1, <2>2, OthersKeep
<1>4. QED
  BY <1>1, <1>2, <1>3 DEF IInv

LEMMA LockRequestKeeps ==
    ASSUME IInv, NEW s \in Sessions, LockRequest(s)
    PROVE  IInv'
<1> DEFINE phase == IF cmd[s].op = "refund" THEN "find" ELSE "student"
<1>1. TypeOK /\ LocksApart /\ SessionInv(s)
  BY DEF IInv
<1>2. cmd[s] \in Commands /\ cmd[s].op # "reverse"
  BY <1>1 DEF SessionInv, PhaseFits, LockRequest
<1>3. RequestLock(cmd[s].req) \in Locks
  BY <1>2, CommandFields DEF Locks, CollectCommand, RefundCommand, AwardCommand
<1>4. /\ held' \in [Sessions -> SUBSET Locks]
      /\ LocksApart'
      /\ held'[s] = held[s] \cup {RequestLock(cmd[s].req)}
      /\ \A t \in Sessions \ {s} : held'[t] = held[t]
  BY <1>1, <1>3, AcquireKeeps DEF LockRequest
<1>5. pc'[s] = phase
  BY <1>1 DEF LockRequest, GoTo, TypeOK
<1>6. SessionInv(s)'
  BY <1>2, <1>4, <1>5 DEF LockRequest, SessionInv, PhaseFits, HoldsLocks,
     CopiesFit, RequestIsNew, SelectionStands, AfterFind, AfterStudent,
     AfterReplay, AfterLoad
<1>7. QED
  <2>1. phase \in Phases
    BY DEF Phases
  <2>2. QED
    BY <1>1, <1>4, <1>6, <2>1, MoveKeeps DEF LockRequest, views, TypeOK

LEMMA FindPaymentKeeps ==
    ASSUME IInv, NEW s \in Sessions, FindPayment(s)
    PROVE  IInv'
<1>1. TypeOK /\ LocksApart /\ SessionInv(s)
  BY DEF IInv
<1>2. cmd[s] \in Commands /\ cmd[s].op = "refund" /\ cmd[s].payment \in Requests
  BY <1>1, CommandFields DEF SessionInv, PhaseFits, FindPayment, RefundCommand
<1>3. /\ paymentView' \in [Sessions -> PaymentRow \cup {NoRow}]
      /\ paymentView'[s] = payment[cmd[s].payment]
      /\ \A t \in Sessions \ {s} : paymentView'[t] = paymentView[t]
  BY <1>1, <1>2 DEF FindPayment, TypeOK
<1>4. pc'[s] = "student"
  BY <1>1 DEF FindPayment, GoTo, TypeOK
<1>5. SessionInv(s)'
  BY <1>1, <1>2, <1>3, <1>4 DEF FindPayment, tables, SessionInv, PhaseFits,
     HoldsLocks, CopiesFit, RequestIsNew, SelectionStands, AfterFind,
     AfterStudent, AfterReplay, AfterLoad
<1>6. QED
  <2>1. "student" \in Phases
    BY DEF Phases
  <2>2. QED
    BY <1>1, <1>3, <1>5, <2>1, MoveKeeps DEF FindPayment, TypeOK, LocksApart

LEMMA FindAwardKeeps ==
    ASSUME IInv, NEW s \in Sessions, FindAward(s)
    PROVE  IInv'
<1>1. TypeOK /\ LocksApart /\ SessionInv(s)
  BY DEF IInv
<1>2. cmd[s] \in Commands /\ cmd[s].op = "reverse" /\ cmd[s].award \in Requests
  BY <1>1, CommandFields DEF SessionInv, PhaseFits, FindAward, ReverseCommand
<1>3. /\ awardView' \in [Sessions -> AwardRow \cup {NoRow}]
      /\ awardView'[s] = award[cmd[s].award]
      /\ \A t \in Sessions \ {s} : awardView'[t] = awardView[t]
  BY <1>1, <1>2 DEF FindAward, TypeOK
<1>4. pc'[s] = "student"
  BY <1>1 DEF FindAward, GoTo, TypeOK
<1>5. SessionInv(s)'
  BY <1>1, <1>2, <1>3, <1>4 DEF FindAward, tables, SessionInv, PhaseFits,
     HoldsLocks, CopiesFit, RequestIsNew, SelectionStands, AfterFind,
     AfterStudent, AfterReplay, AfterLoad
<1>6. QED
  <2>1. "student" \in Phases
    BY DEF Phases
  <2>2. QED
    BY <1>1, <1>3, <1>5, <2>1, MoveKeeps DEF FindAward, TypeOK, LocksApart

LEMMA LockStudentKeeps ==
    ASSUME IInv, NEW s \in Sessions, LockStudent(s)
    PROVE  IInv'
<1>1. TypeOK /\ LocksApart /\ SessionInv(s)
  BY DEF IInv
<1>2. cmd[s] \in Commands
  BY <1>1 DEF SessionInv, PhaseFits, LockStudent
<1>3. StudentOf(s) \in Students
  <2>1. CASE cmd[s].op = "refund"
    BY <1>1, <2>1 DEF SessionInv, CopiesFit, LockStudent, AfterFind, StudentOf,
       StudentFor, TypeOK, PaymentRow
  <2>2. CASE cmd[s].op = "reverse"
    BY <1>1, <2>2 DEF SessionInv, CopiesFit, LockStudent, AfterFind, StudentOf,
       StudentFor, TypeOK, AwardRow
  <2>3. CASE cmd[s].op \in {"collect", "award"}
    BY <1>2, <2>3, CommandFields DEF StudentOf, StudentFor, CollectCommand, AwardCommand
  <2>4. QED
    BY <1>2, <2>1, <2>2, <2>3, CommandFields
<1>4. /\ held' \in [Sessions -> SUBSET Locks]
      /\ LocksApart'
      /\ held'[s] = held[s] \cup {StudentLock(StudentOf(s))}
      /\ \A t \in Sessions \ {s} : held'[t] = held[t]
  BY <1>1, <1>3, AcquireKeeps DEF LockStudent, Locks
<1>5. pc'[s] = "replay"
  BY <1>1 DEF LockStudent, GoTo, TypeOK
<1>6. StudentOf(s)' = StudentOf(s)
  BY DEF LockStudent, StudentOf, views
<1>7. SessionInv(s)'
  BY <1>1, <1>2, <1>4, <1>5, <1>6 DEF LockStudent, tables, views, SessionInv,
     PhaseFits, HoldsLocks, CopiesFit, RequestIsNew, SelectionStands,
     AfterFind, AfterStudent, AfterReplay, AfterLoad
<1>8. QED
  <2>1. "replay" \in Phases
    BY DEF Phases
  <2>2. QED
    BY <1>1, <1>4, <1>7, <2>1, MoveKeeps DEF LockStudent, views, TypeOK

LEMMA StartFreshKeeps ==
    ASSUME IInv, NEW s \in Sessions, StartFresh(s)
    PROVE  IInv'
<1> DEFINE phase == IF cmd[s].op = "refund" THEN "payment" ELSE "bills"
<1>1. TypeOK /\ LocksApart /\ SessionInv(s)
  BY DEF IInv
<1>2. cmd[s] \in Commands
  BY <1>1 DEF SessionInv, PhaseFits, StartFresh
<1>3. cmd[s].op = "reverse" => cmd[s].award \in Requests
  BY <1>2, CommandFields DEF ReverseCommand
<1>4. cmd[s].op = "reverse" => awardView' = [awardView EXCEPT ![s] = award[cmd[s].award]]
  BY DEF StartFresh
<1>5. cmd[s].op # "reverse" => awardView' = awardView
  BY DEF StartFresh
<1>6. /\ awardView' \in [Sessions -> AwardRow \cup {NoRow}]
      /\ cmd[s].op = "reverse" => awardView'[s] = award[cmd[s].award]
      /\ \A t \in Sessions \ {s} : awardView'[t] = awardView[t]
  BY <1>1, <1>3, <1>4, <1>5 DEF TypeOK
<1>7. pc'[s] = phase
  BY <1>1 DEF StartFresh, GoTo, TypeOK
<1>8. StudentOf(s)' = StudentOf(s)
  BY <1>1, <1>5, <1>6 DEF StartFresh, StudentOf, StudentFor, SessionInv,
     CopiesFit, AfterFind
<1>9. PhaseFits(s)' /\ HoldsLocks(s)'
  BY <1>1, <1>2, <1>7, <1>8 DEF StartFresh, SessionInv, PhaseFits, HoldsLocks,
     AfterStudent, AfterLoad
<1>10. CopiesFit(s)'
  BY <1>1, <1>6, <1>7 DEF StartFresh, tables, UsedBefore, SessionInv, CopiesFit,
     AfterFind, AfterLoad
<1>11. RequestIsNew(s)' /\ SelectionStands(s)'
  BY <1>7 DEF StartFresh, tables, UsedBefore, RequestIsNew, SelectionStands, AfterReplay
<1>12. QED
  <2>1. phase \in Phases
    BY DEF Phases
  <2>2. SessionInv(s)'
    BY <1>9, <1>10, <1>11 DEF SessionInv
  <2>3. QED
    BY <1>1, <1>6, <2>1, <2>2, MoveKeeps DEF StartFresh, TypeOK, LocksApart

LEMMA LockPaymentKeeps ==
    ASSUME IInv, NEW s \in Sessions, LockPayment(s)
    PROVE  IInv'
<1>1. TypeOK /\ LocksApart /\ SessionInv(s)
  BY DEF IInv
<1>2. cmd[s] \in Commands /\ cmd[s].op = "refund" /\ cmd[s].payment \in Requests
  BY <1>1, CommandFields DEF SessionInv, PhaseFits, LockPayment, RefundCommand
<1>3. /\ held' \in [Sessions -> SUBSET Locks]
      /\ LocksApart'
      /\ held'[s] = held[s] \cup {PaymentLock(cmd[s].payment)}
      /\ \A t \in Sessions \ {s} : held'[t] = held[t]
  BY <1>1, <1>2, AcquireKeeps DEF LockPayment, Locks
<1>4. /\ paymentView' \in [Sessions -> PaymentRow \cup {NoRow}]
      /\ paymentView'[s] = payment[cmd[s].payment]
      /\ \A t \in Sessions \ {s} : paymentView'[t] = paymentView[t]
  BY <1>1, <1>2 DEF LockPayment, TypeOK
<1>5. pc'[s] = "bills"
  BY <1>1 DEF LockPayment, GoTo, TypeOK
<1>6. StudentOf(s)' = StudentOf(s)
  BY <1>1, <1>2, <1>4 DEF LockPayment, StudentOf, StudentFor, SessionInv,
     CopiesFit, AfterFind
<1>7. SessionInv(s)'
  BY <1>1, <1>2, <1>3, <1>4, <1>5, <1>6 DEF LockPayment, tables, SessionInv,
     PhaseFits, HoldsLocks, CopiesFit, RequestIsNew, SelectionStands,
     AfterFind, AfterStudent, AfterReplay, AfterLoad
<1>8. QED
  <2>1. "bills" \in Phases
    BY DEF Phases
  <2>2. QED
    BY <1>1, <1>3, <1>4, <1>7, <2>1, MoveKeeps DEF LockPayment, TypeOK

LEMMA LockBillsKeeps ==
    ASSUME IInv, NEW s \in Sessions, LockBills(s)
    PROVE  IInv'
<1>1. TypeOK /\ LocksApart /\ SessionInv(s)
  BY DEF IInv
<1>2. Selection(s) \subseteq Bills
  BY DEF Selection, Selected
<1>3. /\ held' \in [Sessions -> SUBSET Locks]
      /\ LocksApart'
      /\ held'[s] = held[s] \cup {BillLock(b) : b \in Selection(s)}
      /\ \A t \in Sessions \ {s} : held'[t] = held[t]
  <2>1. {BillLock(b) : b \in Selection(s)} \in SUBSET Locks
    BY <1>2 DEF Locks
  <2>2. QED
    BY <1>1, <2>1, AcquireKeeps DEF LockBills
<1>4. /\ billView' \in [Sessions -> [Bills -> BillRow \cup {NoRow}]]
      /\ \A b \in Bills : billView'[s][b] = IF b \in Selection(s) THEN bill[b] ELSE NoRow
      /\ \A t \in Sessions \ {s} : billView'[t] = billView[t]
  BY <1>1 DEF LockBills, TypeOK
<1>5. pc'[s] = "commit"
  BY <1>1 DEF LockBills, GoTo, TypeOK
<1>6. StudentOf(s)' = StudentOf(s) /\ Selection(s)' = Selection(s)
  BY DEF LockBills, StudentOf, Selection, tables
<1>7. Loaded(s)' = Selection(s)
  <2>1. ASSUME NEW b \in Bills
        PROVE  bill[b] # NoRow
    BY <1>1, NoRowAssumption DEF TypeOK
  <2>2. QED
    BY <1>2, <1>4, <2>1 DEF Loaded
<1>8. SelectionStands(s)'
  BY <1>2, <1>4, <1>6, <1>7 DEF LockBills, tables, SelectionStands
<1>9. PhaseFits(s)' /\ HoldsLocks(s)'
  BY <1>1, <1>3, <1>5, <1>6 DEF LockBills, SessionInv, PhaseFits, HoldsLocks,
     AfterStudent, AfterLoad
<1>10. CopiesFit(s)' /\ RequestIsNew(s)'
  BY <1>1, <1>5 DEF LockBills, tables, SessionInv, CopiesFit, RequestIsNew,
     AfterFind, AfterReplay, AfterLoad
<1>11. QED
  <2>1. "commit" \in Phases
    BY DEF Phases
  <2>2. SessionInv(s)'
    BY <1>8, <1>9, <1>10 DEF SessionInv
  <2>3. QED
    BY <1>1, <1>3, <1>4, <2>1, <2>2, MoveKeeps DEF LockBills, TypeOK

\* A call that ends without writing.
LEMMA RollbackKeeps ==
    ASSUME IInv, NEW s \in Sessions, End(s), UNCHANGED tables,
           acked' \subseteq Commands, AckedIsRecorded'
    PROVE  IInv'
<1>1. TypeOK /\ LocksApart /\ RowsBelong
  BY DEF IInv
<1>2. TypeOK'
  BY <1>1, EndKeeps DEF TypeOK, tables
<1>3. LocksApart' /\ SessionInv(s)'
  BY <1>1, EndKeeps
<1>4. RowsBelong'
  BY <1>1 DEF RowsBelong, tables
<1>5. ASSUME NEW t \in Sessions \ {s}
      PROVE  SessionInv(t)'
  <2>1. SessionInv(t)
    BY DEF IInv
  <2>2. QED
    BY <1>1, <2>1, EndKeeps, OthersKeep
<1>6. QED
  BY <1>2, <1>3, <1>4, <1>5 DEF IInv

LEMMA RefuseKeeps ==
    ASSUME IInv, NEW s \in Sessions, Refuse(s) \/ Abort(s)
    PROVE  IInv'
<1>1. End(s) /\ UNCHANGED <<tables, acked>>
  BY DEF Refuse, Abort
<1>2. acked' \subseteq Commands /\ AckedIsRecorded'
  BY <1>1, TablesKeep DEF IInv, TypeOK
<1>3. QED
  BY <1>1, <1>2, RollbackKeeps

\* What a retry finds is a record of the very same call.
LEMMA ReplayFinds ==
    ASSUME IInv, NEW s \in Sessions, Replay(s)
    PROVE  cmd[s] \in Commands /\ Accounts!Recorded(cmd[s])
<1>1. SessionInv(s)
  BY DEF IInv
<1>2. cmd[s] \in Commands
  BY <1>1 DEF SessionInv, PhaseFits, Replay
<1>3. cmd[s].op = "reverse" => award[cmd[s].award] # NoRow
  BY <1>1 DEF SessionInv, CopiesFit, Replay, AfterFind
<1>4. QED
  BY <1>2, <1>3 DEF Replay, UsedBefore, SameAsBefore, Accounts!Recorded,
     Accounts!SamePayment, SamePayment, Accounts!SameRefund, SameRefund,
     Accounts!NewRefund, NewRefund, Accounts!SameAward, SameAward,
     Accounts!NoBill, NoBill

LEMMA ReplayKeeps ==
    ASSUME IInv, NEW s \in Sessions, Replay(s)
    PROVE  IInv'
<1>1. cmd[s] \in Commands /\ Accounts!Recorded(cmd[s])
  BY ReplayFinds
<1>2. UNCHANGED tables /\ acked' = acked \cup {cmd[s]} /\ End(s)
  BY DEF Replay, Acknowledge
<1>3. ASSUME NEW c \in acked'
      PROVE  Accounts!Recorded(c)'
  <2>1. Accounts!Recorded(c)
    BY <1>1, <1>2 DEF IInv, AckedIsRecorded
  <2>2. QED
    BY <1>2, <2>1, RecordedKeeps
<1>4. acked' \subseteq Commands /\ AckedIsRecorded'
  BY <1>1, <1>2, <1>3 DEF IInv, TypeOK, AckedIsRecorded
<1>5. QED
  BY <1>2, <1>4, RollbackKeeps

-----------------------------------------------------------------------------
(* Commits. *)

\* A record survives any step that keeps the history.
LEMMA HistoryKeepsRecords ==
    ASSUME TypeOK, HistoryStep, NEW c \in Commands, Accounts!Recorded(c)
    PROVE  Accounts!Recorded(c)'
<1>1. CASE c.op = "collect"
  <2>1. c.req \in Requests /\ payment[c.req] # NoRow /\ SamePayment(c, payment[c.req])
    BY <1>1, CommandFields DEF Accounts!Recorded, Accounts!SamePayment, SamePayment,
       Accounts!NoBill, NoBill, CollectCommand
  <2>2. payment[c.req] \in PaymentRow
    BY <2>1 DEF TypeOK
  <2>3. /\ payment'[c.req] # NoRow
        /\ payment'[c.req].student = payment[c.req].student
        /\ payment'[c.req].amount = payment[c.req].amount
        /\ payment'[c.req].bill = payment[c.req].bill
    BY <2>1, <2>2 DEF HistoryStep, PaymentRow
  <2>4. QED
    BY <1>1, <2>1, <2>3 DEF Accounts!Recorded, Accounts!SamePayment, SamePayment,
       Accounts!NoBill, NoBill
<1>2. CASE c.op = "refund"
  <2>1. c.req \in Requests /\ refund[c.req] # NoRow
    BY <1>2, CommandFields DEF Accounts!Recorded, RefundCommand
  <2>2. refund'[c.req] = refund[c.req]
    BY <2>1 DEF HistoryStep
  <2>3. QED
    BY <1>2, <2>1, <2>2 DEF Accounts!Recorded, Accounts!SameRefund, Accounts!NewRefund
<1>3. CASE c.op = "award"
  <2>1. c.req \in Requests /\ award[c.req] # NoRow
    BY <1>3, CommandFields DEF Accounts!Recorded, AwardCommand
  <2>2. award[c.req] \in AwardRow
    BY <2>1 DEF TypeOK
  <2>3. /\ award'[c.req] # NoRow
        /\ award'[c.req].student = award[c.req].student
        /\ award'[c.req].year = award[c.req].year
        /\ award'[c.req].kind = award[c.req].kind
        /\ award'[c.req].value = award[c.req].value
        /\ award'[c.req].bills = award[c.req].bills
    <3>1. [award[c.req] EXCEPT !.active = FALSE] \in AwardRow
      BY <2>2 DEF AwardRow
    <3>2. QED
      BY ZenonT(30), <2>1, <2>2, <3>1, NoRowAssumption DEF HistoryStep, AwardRow
  <2>4. QED
    BY <1>3, <2>3 DEF Accounts!Recorded, Accounts!SameAward
<1>4. CASE c.op = "reverse"
  <2>1. c.award \in Requests /\ award[c.award] # NoRow /\ ~award[c.award].active
    BY <1>4, CommandFields DEF Accounts!Recorded, ReverseCommand
  <2>2. award'[c.award] = award[c.award]
    BY <2>1 DEF HistoryStep
  <2>3. QED
    BY <1>4, <2>1, <2>2 DEF Accounts!Recorded
<1>5. QED
  BY <1>1, <1>2, <1>3, <1>4, CommandFields

\* What a session about to commit has loaded lies on its student's bills.
LEMMA CopiesAtCommit ==
    ASSUME IInv, NEW s \in Sessions, pc[s] = "commit"
    PROVE  CopiesBelong(cmd[s], paymentView[s], awardView[s])
<1>1. SessionInv(s) /\ cmd[s] \in Commands
  BY DEF IInv, SessionInv, PhaseFits
<1>2. CASE cmd[s].op = "refund"
  <2>1. /\ cmd[s].payment \in Requests
        /\ payment[cmd[s].payment] # NoRow
        /\ paymentView[s] = payment[cmd[s].payment]
    BY <1>1, <1>2, CommandFields
       DEF SessionInv, CopiesFit, AfterFind, AfterLoad, RefundCommand
  <2>2. QED
    BY <1>2, <2>1 DEF IInv, TypeOK, RowsBelong, PaymentRow, CopiesBelong
<1>3. CASE cmd[s].op = "reverse"
  <2>1. /\ cmd[s].award \in Requests
        /\ award[cmd[s].award] # NoRow
        /\ awardView[s] = award[cmd[s].award]
    BY <1>1, <1>3, CommandFields
       DEF SessionInv, CopiesFit, AfterFind, AfterLoad, ReverseCommand
  <2>2. QED
    BY <1>3, <2>1 DEF IInv, RowsBelong, CopiesBelong
<1>4. QED
  BY <1>2, <1>3 DEF CopiesBelong

\* Session s changes only rows that the locks it holds cover.
WritesUnderLocks(s) ==
    /\ StudentLock(StudentOf(s)) \in held[s]
    /\ \A b \in Bills : Terms[b].student # StudentOf(s) => bill'[b] = bill[b]
    /\ \A r \in Requests :
         \/ payment'[r] = payment[r]
         \/ payment[r] = NoRow /\ RequestLock(r) \in held[s]
         \/ /\ payment[r] # NoRow /\ payment'[r] # NoRow
            /\ PaymentLock(r) \in held[s]
            /\ payment'[r].student = payment[r].student
    /\ \A r \in Requests : refund'[r] = refund[r] \/ RequestLock(r) \in held[s]
    /\ \A r \in Requests :
         \/ award'[r] = award[r]
         \/ award[r] = NoRow /\ RequestLock(r) \in held[s]
         \/ /\ award[r] # NoRow /\ award'[r] # NoRow
            /\ award[r].student = StudentOf(s)
            /\ award'[r].student = award[r].student

\* Such writes do not disturb what another session relies on.
LEMMA OthersKeepWrites ==
    ASSUME IInv, NEW s \in Sessions, NEW t \in Sessions \ {s}, WritesUnderLocks(s),
           pc'[t] = pc[t], cmd'[t] = cmd[t], held'[t] = held[t],
           billView'[t] = billView[t], paymentView'[t] = paymentView[t],
           awardView'[t] = awardView[t]
    PROVE  SessionInv(t)'
<1>1. SessionInv(t) /\ held[s] \cap held[t] = {}
  BY DEF IInv, LocksApart
<1>2. StudentOf(t)' = StudentOf(t) /\ Loaded(t)' = Loaded(t)
  BY DEF StudentOf, Loaded
<1>3. PhaseFits(t)' /\ HoldsLocks(t)'
  BY <1>1, <1>2 DEF SessionInv, PhaseFits, HoldsLocks
<1>4. pc[t] # "idle" => cmd[t] \in Commands
  BY <1>1 DEF SessionInv, PhaseFits
<1>5. pc[t] \in AfterStudent => StudentOf(t) # StudentOf(s)
  BY <1>1 DEF SessionInv, HoldsLocks, WritesUnderLocks
<1>6. CopiesFit(t)'
  <2>1. CASE cmd[t].op = "refund" /\ pc[t] \in AfterFind
    <3>1. cmd[t].payment \in Requests
      BY <1>4, <2>1, CommandFields DEF RefundCommand, AfterFind
    <3>2. pc[t] \in AfterLoad => PaymentLock(cmd[t].payment) \notin held[s]
      BY <1>1, <2>1 DEF SessionInv, HoldsLocks
    <3>3. QED
      BY <1>1, <2>1, <3>1, <3>2 DEF SessionInv, CopiesFit, WritesUnderLocks
  <2>2. CASE cmd[t].op = "reverse" /\ pc[t] \in AfterFind
    <3>1. cmd[t].award \in Requests
      BY <1>4, <2>2, CommandFields DEF ReverseCommand, AfterFind
    <3>2. pc[t] \in AfterLoad => award[cmd[t].award].student # StudentOf(s)
      BY <1>1, <1>5, <2>2 DEF SessionInv, CopiesFit, StudentOf, StudentFor,
         AfterLoad, AfterStudent
    <3>3. QED
      BY <1>1, <2>2, <3>1, <3>2 DEF SessionInv, CopiesFit, WritesUnderLocks
  <2>3. QED
    BY <2>1, <2>2 DEF CopiesFit, AfterFind, AfterLoad
<1>7. RequestIsNew(t)'
  <2>1. CASE pc[t] \in AfterReplay /\ cmd[t].op # "reverse"
    <3>1. cmd[t].req \in Requests
      BY <1>4, <2>1, CommandFields
         DEF CollectCommand, RefundCommand, AwardCommand, AfterReplay
    <3>2. RequestLock(cmd[t].req) \notin held[s]
      BY <1>1, <2>1 DEF SessionInv, HoldsLocks, AfterReplay
    <3>3. QED
      BY <1>1, <2>1, <3>1, <3>2 DEF SessionInv, RequestIsNew, WritesUnderLocks
  <2>2. QED
    BY <2>1 DEF RequestIsNew
<1>8. SelectionStands(t)'
  <2>1. CASE pc[t] = "commit"
    <3>1. cmd[t] \in Commands /\ StudentOf(t) # StudentOf(s)
      BY <1>4, <1>5, <2>1 DEF AfterStudent
    <3>2. \A b \in Bills : Terms[b].student = StudentOf(t) => bill'[b] = bill[b]
      BY <3>1 DEF WritesUnderLocks
    <3>3. CopiesBelong(cmd[t], paymentView[t], awardView[t])
      BY <1>1, <2>1, CopiesAtCommit
    <3>4. Selection(t)' = Selection(t)
      <4>1. Selected(cmd[t], paymentView[t], awardView[t], bill')
              = Selected(cmd[t], paymentView[t], awardView[t], bill)
        BY <3>1, <3>2, <3>3, SelectedStable DEF StudentOf
      <4>2. QED
        BY <4>1 DEF Selection
    <3>5. ASSUME NEW b \in Loaded(t)
          PROVE  b \in Bills /\ Terms[b].student = StudentOf(t)
      <4>1. b \in Selected(cmd[t], paymentView[t], awardView[t], bill)
        BY <1>1, <2>1 DEF SessionInv, SelectionStands, Selection
      <4>2. QED
        BY <3>1, <3>3, <4>1, SelectedBelongs DEF StudentOf
    <3>6. QED
      BY <1>1, <1>2, <2>1, <3>2, <3>4, <3>5 DEF SessionInv, SelectionStands
  <2>2. QED
    BY <2>1 DEF SelectionStands
<1>9. QED
  BY <1>3, <1>6, <1>7, <1>8 DEF SessionInv

\* A commit that writes well-typed rows under its locks, keeps the history
\* and records its command preserves the invariant.
LEMMA CommitKeeps ==
    ASSUME IInv, NEW s \in Sessions, NEW call \in Commands, cmd[s] = call,
           End(s), Acknowledge(s),
           bill' \in [Bills -> BillRow],
           payment' \in [Requests -> PaymentRow \cup {NoRow}],
           refund' \in [Requests -> RefundRow \cup {NoRow}],
           award' \in [Requests -> AwardRow \cup {NoRow}],
           RowsBelong', HistoryStep, WritesUnderLocks(s),
           Accounts!Recorded(call)'
    PROVE  IInv'
<1>1. TypeOK /\ LocksApart
  BY DEF IInv
<1>2. acked' \subseteq Commands
  BY <1>1 DEF TypeOK, Acknowledge
<1>3. TypeOK'
  BY <1>1, <1>2, EndKeeps DEF TypeOK
<1>4. AckedIsRecorded'
  <2>1. ASSUME NEW c \in acked'
        PROVE  Accounts!Recorded(c)'
    <3>1. CASE c \in acked
      BY <1>1, <3>1, HistoryKeepsRecords DEF IInv, TypeOK, AckedIsRecorded
    <3>2. CASE c = call
      BY <3>2
    <3>3. QED
      BY <3>1, <3>2 DEF Acknowledge
  <2>2. QED
    BY <2>1 DEF AckedIsRecorded
<1>5. LocksApart' /\ SessionInv(s)'
  BY <1>1, EndKeeps
<1>6. ASSUME NEW t \in Sessions \ {s}
      PROVE  SessionInv(t)'
  BY <1>1, EndKeeps, OthersKeepWrites
<1>7. QED
  BY <1>3, <1>4, <1>5, <1>6 DEF IInv

\* What a session about to commit knows.
LEMMA AtCommit ==
    ASSUME IInv, NEW s \in Sessions, pc[s] = "commit"
    PROVE  /\ cmd[s] \in Commands
           /\ Loaded(s) # {}
           /\ Loaded(s) = Selected(cmd[s], paymentView[s], awardView[s], bill)
           /\ \A b \in Loaded(s) : /\ b \in Bills
                                   /\ billView[s][b] = bill[b]
                                   /\ Terms[b].student = StudentOf(s)
           /\ StudentLock(StudentOf(s)) \in held[s]
           /\ cmd[s].op # "reverse" => RequestLock(cmd[s].req) \in held[s]
<1>1. SessionInv(s) /\ cmd[s] \in Commands
  BY DEF IInv, SessionInv, PhaseFits
<1>2. CopiesBelong(cmd[s], paymentView[s], awardView[s])
  BY CopiesAtCommit
<1>3. /\ Loaded(s) # {}
      /\ Loaded(s) = Selected(cmd[s], paymentView[s], awardView[s], bill)
      /\ \A b \in Loaded(s) : billView[s][b] = bill[b]
  BY <1>1 DEF SessionInv, SelectionStands, Selection
<1>4. ASSUME NEW b \in Loaded(s)
      PROVE  b \in Bills /\ Terms[b].student = StudentOf(s)
  BY <1>1, <1>2, <1>3, SelectedBelongs DEF StudentOf
<1>5. QED
  BY <1>1, <1>3, <1>4 DEF SessionInv, HoldsLocks, AfterStudent

LEMMA ChecksGiveRows ==
    ASSUME NEW rows, DOMAIN rows = Bills, rows = [b \in DOMAIN rows |-> rows[b]],
           PassChecks(rows)
    PROVE  rows \in [Bills -> BillRow]
  BY DEF PassChecks, MeetsChecks

LEMMA CommitPaymentKeeps ==
    ASSUME IInv, NEW s \in Sessions, CommitPayment(s)
    PROVE  IInv' /\ HistoryStep
<1>1. TypeOK /\ RowsBelong /\ pc[s] = "commit"
  BY DEF IInv, CommitPayment
<1>2. PICK c \in Commands : c = cmd[s]
  BY <1>1, AtCommit
<1>3. c.op = "collect" /\ c \in CollectCommand
  BY <1>2, CommandFields DEF CommitPayment
<1>4. c.req \in Requests /\ c.student \in Students /\ c.amount \in PosMoney
  BY <1>3 DEF CollectCommand
<1>5. StudentOf(s) = c.student
  BY <1>2, <1>3 DEF StudentOf, StudentFor
<1>6. PICK b \in Loaded(s) : payment' = [payment EXCEPT ![c.req] = NewPayment(c, b)]
  BY <1>2 DEF CommitPayment
<1>7. b \in Bills /\ Terms[b].student = c.student /\ PaysBill(c, b, bill)
  BY <1>1, <1>2, <1>3, <1>5, <1>6, AtCommit DEF Selected
<1>8. NewPayment(c, b) \in PaymentRow
  BY <1>4, <1>7 DEF NewPayment, PaymentRow, Money, PosMoney
<1>9. payment[c.req] = NoRow /\ payment'[c.req] = NewPayment(c, b)
  BY <1>1, <1>2, <1>4, <1>6 DEF CommitPayment, PaymentFits, TypeOK
<1>10. \A r \in Requests : r # c.req => payment'[r] = payment[r]
  BY <1>1, <1>6 DEF TypeOK
<1>11. /\ bill' \in [Bills -> BillRow]
       /\ \A x \in Bills : x \notin Loaded(s) => bill'[x] = bill[x]
  <2>1. bill' = PaidBills(s, cmd[s].amount) /\ PassChecks(bill')
    BY DEF CommitPayment, PaymentFits
  <2>2. QED
    BY <2>1, ChecksGiveRows DEF PaidBills
<1>12. /\ payment' \in [Requests -> PaymentRow \cup {NoRow}]
       /\ refund' \in [Requests -> RefundRow \cup {NoRow}]
       /\ award' \in [Requests -> AwardRow \cup {NoRow}]
  BY <1>1, <1>6, <1>8 DEF TypeOK, CommitPayment
<1>13. RowsBelong'
  BY <1>1, <1>4, <1>7, <1>9, <1>10 DEF RowsBelong, CommitPayment, NewPayment
<1>14. HistoryStep
  <2>1. ASSUME NEW r \in Requests, payment[r] # NoRow
        PROVE  /\ payment'[r] # NoRow
               /\ payment'[r].refunded >= payment[r].refunded
               /\ payment'[r] = [payment[r] EXCEPT !.refunded = payment'[r].refunded]
    <3>1. payment'[r] = payment[r] /\ payment[r] \in PaymentRow
      BY <1>1, <1>9, <1>10, <2>1 DEF TypeOK
    <3>2. QED
      BY <2>1, <3>1 DEF PaymentRow, Money
  <2>2. QED
    BY <2>1 DEF HistoryStep, CommitPayment
<1>15. WritesUnderLocks(s)
  <2>1. RequestLock(c.req) \in held[s] /\ StudentLock(StudentOf(s)) \in held[s]
    BY <1>1, <1>2, <1>3, AtCommit
  <2>2. \A x \in Bills : Terms[x].student # StudentOf(s) => bill'[x] = bill[x]
    BY <1>1, <1>11, AtCommit
  <2>3. QED
    BY <1>9, <1>10, <2>1, <2>2 DEF WritesUnderLocks, CommitPayment
<1>16. Accounts!Recorded(c)'
  <2>1. NewPayment(c, b) # NoRow
    BY <1>8, NoRowAssumption
  <2>2. /\ c.ledger # NoBill => b = c.ledger
        /\ c.head # NoHead => Terms[b].head = c.head
    BY <1>7 DEF PaysBill, PayableBills
  <2>3. QED
    BY <1>3, <1>9, <2>1, <2>2 DEF Accounts!Recorded, Accounts!SamePayment,
       Accounts!NoBill, NoBill, NewPayment
<1>17. QED
  BY <1>2, <1>11, <1>12, <1>13, <1>14, <1>15, <1>16, CommitKeeps DEF CommitPayment

LEMMA CommitRefundKeeps ==
    ASSUME IInv, NEW s \in Sessions, CommitRefund(s)
    PROVE  IInv' /\ HistoryStep
<1>1. TypeOK /\ RowsBelong /\ pc[s] = "commit"
  BY DEF IInv, CommitRefund
<1>2. PICK c \in Commands : c = cmd[s]
  BY <1>1, AtCommit
<1>3. c.op = "refund" /\ c \in RefundCommand
  BY <1>2, CommandFields DEF CommitRefund
<1>4. c.req \in Requests /\ c.payment \in Requests /\ c.amount \in PosMoney
  BY <1>3 DEF RefundCommand
<1>5. /\ payment[c.payment] # NoRow
      /\ paymentView[s] = payment[c.payment]
      /\ PaymentLock(c.payment) \in held[s]
  BY <1>1, <1>2, <1>3 DEF IInv, SessionInv, CopiesFit, HoldsLocks, AfterFind, AfterLoad
<1> DEFINE paid == payment[c.payment]
           new == AddRefund(paid, c.amount)
<1>6. paid \in PaymentRow
  BY <1>1, <1>4, <1>5 DEF TypeOK
<1>7. /\ new \in PaymentRow /\ new # NoRow
      /\ new.refunded >= paid.refunded
      /\ new = [paid EXCEPT !.refunded = new.refunded]
      /\ new.student = paid.student /\ new.bill = paid.bill
  BY <1>4, <1>6, NoRowAssumption DEF AddRefund, PaymentRow, Money, PosMoney
<1>8. payment' = [payment EXCEPT ![c.payment] = new] /\ payment'[c.payment] = new
  BY <1>1, <1>2, <1>4, <1>5 DEF CommitRefund, RefundedPayment, TypeOK
<1>9. \A r \in Requests : r # c.payment => payment'[r] = payment[r]
  BY <1>1, <1>8 DEF TypeOK
<1>10. /\ refund[c.req] = NoRow
       /\ refund' = [refund EXCEPT ![c.req] = NewRefund(c)]
       /\ NewRefund(c) \in RefundRow
  BY <1>2, <1>4 DEF CommitRefund, RefundFits, NewRefund, RefundRow
<1>11. /\ bill' \in [Bills -> BillRow]
       /\ \A x \in Bills : x \notin Loaded(s) => bill'[x] = bill[x]
  <2>1. bill' = PaidBills(s, -cmd[s].amount) /\ PassChecks(bill')
    BY DEF CommitRefund, RefundFits
  <2>2. QED
    BY <2>1, ChecksGiveRows DEF PaidBills
<1>12. /\ payment' \in [Requests -> PaymentRow \cup {NoRow}]
       /\ refund' \in [Requests -> RefundRow \cup {NoRow}]
       /\ award' \in [Requests -> AwardRow \cup {NoRow}]
  <2>1. payment' \in [Requests -> PaymentRow \cup {NoRow}]
    <3> HIDE DEF new
    <3>1. QED
      BY <1>1, <1>7, <1>8 DEF TypeOK
  <2>2. refund' \in [Requests -> RefundRow \cup {NoRow}]
    BY <1>1, <1>10 DEF TypeOK
  <2>3. QED
    BY <1>1, <2>1, <2>2 DEF TypeOK, CommitRefund
<1>13. RowsBelong'
  BY <1>1, <1>4, <1>5, <1>7, <1>8, <1>9 DEF RowsBelong, CommitRefund
<1>14. HistoryStep
  <2>1. ASSUME NEW r \in Requests, payment[r] # NoRow
        PROVE  /\ payment'[r] # NoRow
               /\ payment'[r].refunded >= payment[r].refunded
               /\ payment'[r] = [payment[r] EXCEPT !.refunded = payment'[r].refunded]
    <3>1. CASE r = c.payment
      BY <1>7, <1>8, <3>1
    <3>2. CASE r # c.payment
      <4>1. payment'[r] = payment[r] /\ payment[r] \in PaymentRow
        BY <1>1, <1>9, <2>1, <3>2 DEF TypeOK
      <4>2. QED
        BY <2>1, <4>1 DEF PaymentRow, Money
    <3>3. QED
      BY <3>1, <3>2
  <2>2. \A r \in Requests : refund[r] # NoRow => refund'[r] = refund[r]
    BY <1>1, <1>10 DEF TypeOK
  <2>3. QED
    BY <2>1, <2>2 DEF HistoryStep, CommitRefund
<1>15. WritesUnderLocks(s)
  <2>1. RequestLock(c.req) \in held[s] /\ StudentLock(StudentOf(s)) \in held[s]
    BY <1>1, <1>2, <1>3, AtCommit
  <2>2. \A x \in Bills : Terms[x].student # StudentOf(s) => bill'[x] = bill[x]
    BY <1>1, <1>11, AtCommit
  <2>3. \A r \in Requests : refund'[r] = refund[r] \/ RequestLock(r) \in held[s]
    BY <1>1, <1>10, <2>1 DEF TypeOK
  <2>4. QED
    BY <1>5, <1>7, <1>8, <1>9, <2>1, <2>2, <2>3 DEF WritesUnderLocks, CommitRefund
<1>16. Accounts!Recorded(c)'
  <2>1. refund'[c.req] = NewRefund(c) /\ NewRefund(c) # NoRow
    BY <1>1, <1>4, <1>10, NoRowAssumption DEF TypeOK
  <2>2. QED
    BY <1>3, <2>1 DEF Accounts!Recorded, Accounts!SameRefund, Accounts!NewRefund, NewRefund
<1>17. QED
  BY <1>2, <1>11, <1>12, <1>13, <1>14, <1>15, <1>16, CommitKeeps DEF CommitRefund

LEMMA CommitAwardKeeps ==
    ASSUME IInv, NEW s \in Sessions, CommitAward(s)
    PROVE  IInv' /\ HistoryStep
<1>1. TypeOK /\ RowsBelong /\ pc[s] = "commit"
  BY DEF IInv, CommitAward
<1>2. PICK c \in Commands : c = cmd[s]
  BY <1>1, AtCommit
<1>3. c.op = "award" /\ c \in AwardCommand
  BY <1>2, CommandFields DEF CommitAward
<1>4. /\ c.req \in Requests /\ c.student \in Students /\ c.year \in Years
      /\ c.kind \in {"fixed", "percentage"} /\ c.value \in PosMoney
      /\ c.bills \in SUBSET Bills
  BY <1>3 DEF AwardCommand
<1>5. StudentOf(s) = c.student
  BY <1>2, <1>3 DEF StudentOf, StudentFor
<1> DEFINE new == NewAward(c, billView[s], Loaded(s))
<1>6. /\ bill' = DiscountedBills(s, new.alloc)
      /\ PassChecks(bill')
      /\ new.alloc \in [Bills -> Money]
      /\ award[c.req] = NoRow
      /\ award' = [award EXCEPT ![c.req] = new]
  BY <1>2 DEF CommitAward, AwardFits, GrantedAward
<1>7. AwardAllowed(c, bill) /\ Loaded(s) = AwardEntries(c, bill)
  <2>1. /\ Loaded(s) = Selected(c, paymentView[s], awardView[s], bill)
        /\ Loaded(s) # {}
    BY <1>1, <1>2, AtCommit
  <2>2. Loaded(s) = {b \in Bills : AwardAllowed(c, bill) /\ b \in AwardEntries(c, bill)}
    BY <1>3, <2>1 DEF Selected
  <2>3. QED
    BY <2>1, <2>2 DEF AwardEntries
<1>8. new.applied \in PosMoney
  <2>1. Outstanding(billView[s], Loaded(s)) = Outstanding(bill, Loaded(s))
    BY <1>1, AtCommit, OutstandingStable
  <2>2. Budget(c, Outstanding(billView[s], Loaded(s))) \in PosMoney
    BY <1>7, <2>1, BudgetPositive
  <2>3. QED
    BY <2>2 DEF NewAward
<1>9. new \in AwardRow /\ new # NoRow
  <2>1. new \in AwardRow
    BY <1>4, <1>6, <1>8 DEF NewAward, AwardRow
  <2>2. QED
    BY <2>1, NoRowAssumption
<1>10. /\ new.student = c.student /\ new.year = c.year /\ new.kind = c.kind
       /\ new.value = c.value /\ new.bills = c.bills
  BY DEF NewAward
<1>11. \A b \in Allocated(new) : Terms[b].student = c.student
  <2>1. ASSUME NEW b \in Bills, b \notin Loaded(s)
        PROVE  new.alloc[b] = 0
    BY <2>1 DEF NewAward, Shares
  <2>2. \A b \in Loaded(s) : Terms[b].student = c.student
    BY <1>1, <1>5, AtCommit
  <2>3. QED
    BY <2>1, <2>2 DEF Allocated
<1> HIDE DEF new
<1>12. award'[c.req] = new /\ \A r \in Requests : r # c.req => award'[r] = award[r]
  BY <1>1, <1>4, <1>6 DEF TypeOK
<1>13. /\ bill' \in [Bills -> BillRow]
       /\ \A x \in Bills : x \notin Loaded(s) => bill'[x] = bill[x]
  BY <1>6, ChecksGiveRows DEF DiscountedBills
<1>14. /\ payment' \in [Requests -> PaymentRow \cup {NoRow}]
       /\ refund' \in [Requests -> RefundRow \cup {NoRow}]
       /\ award' \in [Requests -> AwardRow \cup {NoRow}]
  <2>1. /\ payment' = payment /\ refund' = refund
        /\ payment \in [Requests -> PaymentRow \cup {NoRow}]
        /\ refund \in [Requests -> RefundRow \cup {NoRow}]
        /\ award \in [Requests -> AwardRow \cup {NoRow}]
    BY <1>1 DEF TypeOK, CommitAward
  <2>2. new \in AwardRow \cup {NoRow}
    BY <1>9
  <2>3. award' \in [Requests -> AwardRow \cup {NoRow}]
    BY <1>6, <2>1, <2>2
  <2>4. QED
    BY <2>1, <2>3
<1>15. RowsBelong'
  BY <1>1, <1>10, <1>11, <1>12 DEF RowsBelong, CommitAward
<1>16. HistoryStep
  <2>1. ASSUME NEW r \in Requests, payment[r] # NoRow
        PROVE  /\ payment'[r] # NoRow
               /\ payment'[r].refunded >= payment[r].refunded
               /\ payment'[r] = [payment[r] EXCEPT !.refunded = payment'[r].refunded]
    <3>1. payment'[r] = payment[r] /\ payment[r] \in PaymentRow
      BY <1>1, <2>1 DEF TypeOK, CommitAward
    <3>2. QED
      BY <2>1, <3>1 DEF PaymentRow, Money
  <2>2. \A r \in Requests : award[r] # NoRow => award'[r] = award[r]
    BY <1>6, <1>12
  <2>3. QED
    BY <2>1, <2>2 DEF HistoryStep, CommitAward
<1>17. WritesUnderLocks(s)
  <2>1. RequestLock(c.req) \in held[s] /\ StudentLock(StudentOf(s)) \in held[s]
    BY <1>1, <1>2, <1>3, AtCommit
  <2>2. \A x \in Bills : Terms[x].student # StudentOf(s) => bill'[x] = bill[x]
    BY <1>1, <1>13, AtCommit
  <2>3. QED
    BY <1>6, <1>12, <2>1, <2>2 DEF WritesUnderLocks, CommitAward
<1>18. Accounts!Recorded(c)'
  BY <1>3, <1>9, <1>10, <1>12 DEF Accounts!Recorded, Accounts!SameAward
<1>19. QED
  BY <1>2, <1>13, <1>14, <1>15, <1>16, <1>17, <1>18, CommitKeeps DEF CommitAward

LEMMA CommitReversalKeeps ==
    ASSUME IInv, NEW s \in Sessions, CommitReversal(s)
    PROVE  IInv' /\ HistoryStep
<1>1. TypeOK /\ RowsBelong /\ pc[s] = "commit"
  BY DEF IInv, CommitReversal
<1>2. PICK c \in Commands : c = cmd[s]
  BY <1>1, AtCommit
<1>3. c.op = "reverse" /\ c.award \in Requests
  BY <1>2, CommandFields DEF CommitReversal, ReverseCommand
<1>4. award[c.award] # NoRow /\ awardView[s] = award[c.award] /\ award[c.award].active
  BY <1>1, <1>2, <1>3 DEF IInv, SessionInv, CopiesFit, AfterFind, AfterLoad
<1> DEFINE old == award[c.award]
           new == [old EXCEPT !.active = FALSE]
<1>5. StudentOf(s) = old.student
  BY <1>2, <1>3, <1>4 DEF StudentOf, StudentFor
<1>6. old \in AwardRow
  BY <1>1, <1>3, <1>4 DEF TypeOK
<1>7. /\ new \in AwardRow /\ new # NoRow /\ ~new.active
      /\ new.student = old.student /\ new.alloc = old.alloc
  BY <1>6, NoRowAssumption DEF AwardRow
<1>8. award' = [award EXCEPT ![c.award] = new]
  BY <1>2 DEF CommitReversal
<1>9. award'[c.award] = new /\ \A r \in Requests : r # c.award => award'[r] = award[r]
  BY <1>1, <1>3, <1>8 DEF TypeOK
<1>10. /\ bill' \in [Bills -> BillRow]
       /\ \A x \in Bills : x \notin Loaded(s) => bill'[x] = bill[x]
  <2>1. bill' = DiscountedBills(s, Negated(awardView[s].alloc)) /\ PassChecks(bill')
    BY DEF CommitReversal, ReversalFits
  <2>2. QED
    BY <2>1, ChecksGiveRows DEF DiscountedBills
<1>11. /\ payment' \in [Requests -> PaymentRow \cup {NoRow}]
       /\ refund' \in [Requests -> RefundRow \cup {NoRow}]
       /\ award' \in [Requests -> AwardRow \cup {NoRow}]
  <2> HIDE DEF new
  <2>1. QED
    BY <1>1, <1>7, <1>8 DEF TypeOK, CommitReversal
<1>12. RowsBelong'
  <2>1. ASSUME NEW r \in Requests, award'[r] # NoRow, NEW b \in Allocated(award'[r])
        PROVE  Terms[b].student = award'[r].student
    <3>1. CASE r = c.award
      <4>1. Allocated(new) = Allocated(old)
        BY <1>7 DEF Allocated
      <4>2. \A x \in Allocated(old) : Terms[x].student = old.student
        BY <1>1, <1>3, <1>4 DEF RowsBelong
      <4>3. QED
        BY <1>7, <1>9, <2>1, <3>1, <4>1, <4>2
    <3>2. CASE r # c.award
      BY <1>1, <1>9, <2>1, <3>2 DEF RowsBelong
    <3>3. QED
      BY <3>1, <3>2
  <2>2. QED
    BY <1>1, <2>1 DEF RowsBelong, CommitReversal
<1>13. HistoryStep
  <2>1. ASSUME NEW r \in Requests, payment[r] # NoRow
        PROVE  /\ payment'[r] # NoRow
               /\ payment'[r].refunded >= payment[r].refunded
               /\ payment'[r] = [payment[r] EXCEPT !.refunded = payment'[r].refunded]
    <3>1. payment'[r] = payment[r] /\ payment[r] \in PaymentRow
      BY <1>1, <2>1 DEF TypeOK, CommitReversal
    <3>2. QED
      BY <2>1, <3>1 DEF PaymentRow, Money
  <2>2. ASSUME NEW r \in Requests, award[r] # NoRow
        PROVE  \/ award'[r] = award[r]
               \/ award[r].active /\ award'[r] = [award[r] EXCEPT !.active = FALSE]
    BY <1>4, <1>9
  <2>3. QED
    BY <2>1, <2>2 DEF HistoryStep, CommitReversal
<1>14. WritesUnderLocks(s)
  <2>1. StudentLock(StudentOf(s)) \in held[s]
    BY <1>1, AtCommit
  <2>2. \A x \in Bills : Terms[x].student # StudentOf(s) => bill'[x] = bill[x]
    BY <1>1, <1>10, AtCommit
  <2>3. ASSUME NEW r \in Requests
        PROVE  \/ award'[r] = award[r]
               \/ /\ award[r] # NoRow /\ award'[r] # NoRow
                  /\ award[r].student = StudentOf(s)
                  /\ award'[r].student = award[r].student
    BY <1>4, <1>5, <1>7, <1>9
  <2>4. QED
    BY <2>1, <2>2, <2>3 DEF WritesUnderLocks, CommitReversal
<1>15. Accounts!Recorded(c)'
  BY <1>3, <1>7, <1>9 DEF Accounts!Recorded
<1>16. QED
  BY <1>2, <1>10, <1>11, <1>12, <1>13, <1>14, <1>15, CommitKeeps DEF CommitReversal

-----------------------------------------------------------------------------
(* The theorems. *)

LEMMA InitGivesInv == Init => IInv
<1> SUFFICES ASSUME Init PROVE IInv
  OBVIOUS
<1>1. \A b \in Bills : NewBill(b) \in BillRow
  BY TermsAssumption DEF NewBill, BillRow, BillStatus, Money, PosMoney
<1>2. TypeOK
  BY <1>1 DEF Init, TypeOK, Phases, NoBillView
<1>3. LocksApart /\ RowsBelong /\ AckedIsRecorded
  BY DEF Init, LocksApart, RowsBelong, AckedIsRecorded
<1>4. \A s \in Sessions : SessionInv(s)
  BY IdleKeeps DEF Init
<1>5. QED
  BY <1>2, <1>3, <1>4 DEF IInv

\* Rows that stay as they are keep the history.
LEMMA StillHistory ==
    ASSUME TypeOK, UNCHANGED tables
    PROVE  HistoryStep
<1>1. ASSUME NEW r \in Requests, payment[r] # NoRow
      PROVE  /\ payment'[r].refunded >= payment[r].refunded
             /\ payment'[r] = [payment[r] EXCEPT !.refunded = payment'[r].refunded]
  <2>1. payment[r] \in PaymentRow /\ payment'[r] = payment[r]
    BY <1>1 DEF TypeOK, tables
  <2>2. QED
    BY <2>1 DEF PaymentRow, Money
<1>2. QED
  BY <1>1 DEF HistoryStep, tables

LEMMA NextKeeps == IInv /\ [Next]_vars => IInv' /\ HistoryStep
<1> SUFFICES ASSUME IInv, [Next]_vars PROVE IInv' /\ HistoryStep
  OBVIOUS
<1>1. TypeOK
  BY DEF IInv
<1>2. ASSUME NEW s \in Sessions, Submit(s) PROVE IInv' /\ HistoryStep
  BY <1>1, <1>2, SubmitKeeps, StillHistory DEF Submit
<1>3. ASSUME NEW s \in Sessions, Wait(s) PROVE IInv' /\ HistoryStep
  <2>1. CASE LockRequest(s)
    BY <1>1, <2>1, LockRequestKeeps, StillHistory DEF LockRequest
  <2>2. CASE LockStudent(s)
    BY <1>1, <2>2, LockStudentKeeps, StillHistory DEF LockStudent
  <2>3. CASE LockPayment(s)
    BY <1>1, <2>3, LockPaymentKeeps, StillHistory DEF LockPayment
  <2>4. CASE LockBills(s)
    BY <1>1, <2>4, LockBillsKeeps, StillHistory DEF LockBills
  <2>5. QED
    BY <1>3, <2>1, <2>2, <2>3, <2>4 DEF Wait
<1>4. ASSUME NEW s \in Sessions, Work(s) PROVE IInv' /\ HistoryStep
  <2>1. CASE FindPayment(s)
    BY <1>1, <2>1, FindPaymentKeeps, StillHistory DEF FindPayment
  <2>2. CASE FindAward(s)
    BY <1>1, <2>2, FindAwardKeeps, StillHistory DEF FindAward
  <2>3. CASE StartFresh(s)
    BY <1>1, <2>3, StartFreshKeeps, StillHistory DEF StartFresh
  <2>4. CASE Replay(s)
    BY <1>1, <2>4, ReplayKeeps, StillHistory DEF Replay
  <2>5. CASE Refuse(s)
    BY <1>1, <2>5, RefuseKeeps, StillHistory DEF Refuse
  <2>6. CASE Commit(s)
    BY <2>6, CommitPaymentKeeps, CommitRefundKeeps, CommitAwardKeeps,
       CommitReversalKeeps DEF Commit
  <2>7. QED
    BY <1>4, <2>1, <2>2, <2>3, <2>4, <2>5, <2>6 DEF Work
<1>5. ASSUME NEW s \in Sessions, Abort(s) PROVE IInv' /\ HistoryStep
  BY <1>1, <1>5, RefuseKeeps, StillHistory DEF Abort
<1>6. CASE UNCHANGED vars
  <2>1. UNCHANGED <<tables, acked>>
    BY <1>6 DEF vars
  <2>2. ASSUME NEW t \in Sessions PROVE SessionInv(t)'
    BY <1>6, OthersKeep DEF IInv, vars, sessions, views
  <2>3. TypeOK' /\ LocksApart'
    BY <1>6 DEF IInv, TypeOK, LocksApart, vars, tables, sessions, views
  <2>4. QED
    BY <1>1, <2>1, <2>2, <2>3, TablesKeep, StillHistory DEF IInv
<1>7. QED
  BY <1>2, <1>3, <1>4, <1>5, <1>6 DEF Next

\* The inductive invariant holds in every state of every execution.
THEOREM Invariance == Spec => []IInv
<1>1. Init => IInv
  BY InitGivesInv
<1>2. IInv /\ [Next]_vars => IInv'
  BY NextKeeps
<1>3. QED
  BY <1>1, <1>2, PTL DEF Spec

\* Every table keeps well-formed rows, every session well-formed copies: in
\* particular no bill ever has a negative amount due, paid or outstanding.
THEOREM TypeCorrect == Spec => []TypeOK
<1>1. IInv => TypeOK
  BY DEF IInv
<1>2. QED
  BY <1>1, Invariance, PTL

\* Every acknowledged call is recorded with its own details.
THEOREM AckedStaysRecorded == Spec => []AckedIsRecorded
<1>1. IInv => AckedIsRecorded
  BY DEF IInv
<1>2. QED
  BY <1>1, Invariance, PTL

\* What a call computes its writes from is what the tables hold when it
\* writes: the locks exclude lost updates.
THEOREM NoLostUpdates == Spec => []WritesFromCurrentRows
<1>1. IInv => WritesFromCurrentRows
  <2> SUFFICES ASSUME IInv, NEW s \in Sessions, pc[s] = "commit"
               PROVE  /\ \A b \in Loaded(s) : billView[s][b] = bill[b]
                      /\ cmd[s].op = "refund" => paymentView[s] = payment[cmd[s].payment]
                      /\ cmd[s].op = "reverse" => awardView[s] = award[cmd[s].award]
    BY DEF WritesFromCurrentRows
  <2>1. SessionInv(s)
    BY DEF IInv
  <2>2. QED
    BY <2>1 DEF SessionInv, SelectionStands, CopiesFit, AfterLoad
<1>2. QED
  BY <1>1, Invariance, PTL

\* No call rewrites or removes money history.
THEOREM HistoryIsKept == Spec => HistoryKept
<1>1. IInv /\ [Next]_vars => [HistoryStep]_vars
  BY NextKeeps
<1>2. QED
  BY <1>1, Invariance, PTL DEF Spec, HistoryKept

-----------------------------------------------------------------------------
(* FeeLedger implements FeeAccounts: whatever the interleaving, the tables   *)
(* and the acknowledgements change as if every call had run alone.  The      *)
(* refinement mapping is the identity on the tables and on acked; commits    *)
(* map to the operations, replays to Repeat, all other steps to stutters.    *)

-----------------------------------------------------------------------------
(* Both specifications use the operators of FeeTables; these lemmas identify *)
(* the copies the instance Accounts carries.                                 *)

LEMMA SameSum ==
    ASSUME NEW f
    PROVE  Accounts!SumFunction(f) = SumFunction(f)
  BY DEF Accounts!SumFunction, SumFunction, Accounts!SumFunctionOnSet,
         SumFunctionOnSet, Accounts!FoldFunctionOnSet, FoldFunctionOnSet,
         Accounts!MapThenFoldSet, MapThenFoldSet

LEMMA SameRowOperators ==
    ASSUME NEW row, NEW amount
    PROVE  /\ Accounts!Pay(row, amount) = Pay(row, amount)
           /\ Accounts!Discount(row, amount) = Discount(row, amount)
           /\ Accounts!AddRefund(row, amount) = AddRefund(row, amount)
  BY DEF Accounts!Pay, Pay, Accounts!Discount, Discount, Accounts!AddRefund,
         AddRefund, Accounts!LedgerStatus, LedgerStatus

LEMMA SamePaysBill ==
    ASSUME NEW c, NEW b, NEW rows
    PROVE  /\ Accounts!PaysBill(c, b, rows) <=> PaysBill(c, b, rows)
           /\ Accounts!NewPayment(c, b) = NewPayment(c, b)
  BY DEF Accounts!PaysBill, PaysBill, Accounts!PayableBills, PayableBills,
         Accounts!NoBill, NoBill, Accounts!NewPayment, NewPayment

LEMMA SameRefundOperators ==
    ASSUME NEW c, NEW paid, NEW row
    PROVE  /\ Accounts!RefundAllowed(c, paid, row) <=> RefundAllowed(c, paid, row)
           /\ Accounts!NewRefund(c) = NewRefund(c)
  BY DEF Accounts!RefundAllowed, RefundAllowed, Accounts!NewRefund, NewRefund

LEMMA SameOutstanding ==
    ASSUME NEW rows, NEW entries
    PROVE  Accounts!Outstanding(rows, entries) = Outstanding(rows, entries)
  BY SameSum DEF Accounts!Outstanding, Outstanding

LEMMA SameBudget ==
    ASSUME NEW c, NEW n
    PROVE  Accounts!Budget(c, n) = Budget(c, n)
  BY DEF Accounts!Budget, Budget, Accounts!HalfUp, HalfUp

LEMMA SameAwardAllowed ==
    ASSUME NEW c, NEW rows
    PROVE  /\ Accounts!AwardEntries(c, rows) = AwardEntries(c, rows)
           /\ Accounts!AwardAllowed(c, rows) <=> AwardAllowed(c, rows)
<1>1. Accounts!AwardEntries(c, rows) = AwardEntries(c, rows)
  BY DEF Accounts!AwardEntries, AwardEntries
<1>2. QED
  BY <1>1, SameOutstanding, SameBudget DEF Accounts!AwardAllowed, AwardAllowed

LEMMA SameShares ==
    ASSUME NEW c, NEW rows, NEW entries
    PROVE  Accounts!Shares(c, rows, entries) = Shares(c, rows, entries)
<1>1. ASSUME NEW b \in Bills
      PROVE  Accounts!Share(c, rows, entries, b) = Share(c, rows, entries, b)
  BY SameOutstanding DEF Accounts!Share, Share, Accounts!HalfUp, HalfUp
<1>2. QED
  BY <1>1 DEF Accounts!Shares, Shares

LEMMA SameNewAward ==
    ASSUME NEW c, NEW rows, NEW entries
    PROVE  Accounts!NewAward(c, rows, entries) = NewAward(c, rows, entries)
  BY SameShares, SameOutstanding, SameBudget DEF Accounts!NewAward, NewAward

LEMMA SameAllocation ==
    ASSUME NEW row, NEW rows, NEW entries, NEW alloc
    PROVE  /\ Accounts!Allocated(row) = Allocated(row)
           /\ Accounts!ReversalAllowed(row, rows) <=> ReversalAllowed(row, rows)
           /\ Accounts!Negated(alloc) = Negated(alloc)
           /\ Accounts!DiscountAll(rows, entries, alloc) = DiscountAll(rows, entries, alloc)
<1>1. Accounts!Allocated(row) = Allocated(row)
  BY DEF Accounts!Allocated, Allocated
<1>2. Accounts!ReversalAllowed(row, rows) <=> ReversalAllowed(row, rows)
  BY <1>1, SameSum DEF Accounts!ReversalAllowed, ReversalAllowed
<1>3. Accounts!Negated(alloc) = Negated(alloc)
  BY DEF Accounts!Negated, Negated
<1>4. Accounts!DiscountAll(rows, entries, alloc) = DiscountAll(rows, entries, alloc)
  BY SameRowOperators DEF Accounts!DiscountAll, DiscountAll
<1>5. QED
  BY <1>1, <1>2, <1>3, <1>4

\* What a session loads for an award depends on the loaded rows only.
LEMMA SharesStable ==
    ASSUME NEW c, NEW entries, NEW rows1, NEW rows2,
           \A b \in entries : rows1[b] = rows2[b]
    PROVE  NewAward(c, rows1, entries) = NewAward(c, rows2, entries)
<1>1. Outstanding(rows1, entries) = Outstanding(rows2, entries)
  BY OutstandingStable
<1>2. ASSUME NEW b \in entries
      PROVE  Share(c, rows1, entries, b) = Share(c, rows2, entries, b)
  <2>1. Outstanding(rows1, {e \in entries : e < b}) = Outstanding(rows2, {e \in entries : e < b})
    BY OutstandingStable
  <2>2. QED
    BY <2>1 DEF Share
<1>3. Shares(c, rows1, entries) = Shares(c, rows2, entries)
  BY <1>2 DEF Shares
<1>4. QED
  BY <1>1, <1>3 DEF NewAward

-----------------------------------------------------------------------------
(* Each commit is the operation. *)

LEMMA PaymentImplements ==
    ASSUME IInv, NEW s \in Sessions, CommitPayment(s)
    PROVE  Accounts!Next
<1>1. TypeOK /\ pc[s] = "commit"
  BY DEF IInv, CommitPayment
<1>2. PICK c \in Commands : c = cmd[s]
  BY <1>1, AtCommit
<1>3. c.op = "collect"
  BY <1>2 DEF CommitPayment
<1>4. PICK b \in Loaded(s) : payment' = [payment EXCEPT ![c.req] = NewPayment(c, b)]
  BY <1>2 DEF CommitPayment
<1>5. \A x \in Loaded(s) : x \in Bills /\ PaysBill(c, x, bill) /\ billView[s][x] = bill[x]
  BY <1>1, <1>2, <1>3, AtCommit DEF Selected
<1>6. \A x \in Loaded(s) : x = b
  BY <1>5, OneBillPays
<1>7. bill' = [bill EXCEPT ![b] = Pay(@, c.amount)]
  <2>1. bill' = [x \in Bills |-> IF x \in Loaded(s) THEN Pay(billView[s][x], c.amount)
                                 ELSE bill[x]]
    BY <1>2 DEF CommitPayment, PaidBills
  <2>2. QED
    BY <1>1, <1>4, <1>5, <1>6, <2>1 DEF TypeOK
<1>8. Accounts!Collect(c)
  <2>1. payment[c.req] = NoRow /\ acked' = acked \cup {c} /\ UNCHANGED <<refund, award>>
    BY <1>2 DEF CommitPayment, PaymentFits, Acknowledge
  <2>2. /\ Accounts!PaysBill(c, b, bill)
        /\ bill' = [bill EXCEPT ![b] = Accounts!Pay(@, c.amount)]
        /\ payment' = [payment EXCEPT ![c.req] = Accounts!NewPayment(c, b)]
    BY <1>4, <1>5, <1>7, SamePaysBill, SameRowOperators
  <2>3. QED
    BY <1>3, <1>5, <2>1, <2>2 DEF Accounts!Collect, Accounts!Acknowledge
<1>9. QED
  BY <1>8 DEF Accounts!Next

LEMMA RefundImplements ==
    ASSUME IInv, NEW s \in Sessions, CommitRefund(s)
    PROVE  Accounts!Next
<1>1. TypeOK /\ pc[s] = "commit"
  BY DEF IInv, CommitRefund
<1>2. PICK c \in Commands : c = cmd[s]
  BY <1>1, AtCommit
<1>3. c.op = "refund" /\ c.payment \in Requests
  BY <1>2, CommandFields DEF CommitRefund, RefundCommand
<1>4. payment[c.payment] # NoRow /\ paymentView[s] = payment[c.payment]
  BY <1>1, <1>2, <1>3 DEF IInv, SessionInv, CopiesFit, AfterFind, AfterLoad
<1> DEFINE paid == payment[c.payment]
<1>5. \A x \in Loaded(s) : /\ x \in Bills /\ x = paid.bill /\ billView[s][x] = bill[x]
                           /\ RefundAllowed(c, paid, bill[x])
  BY <1>1, <1>2, <1>3, <1>4, AtCommit DEF Selected
<1>6. paid.bill \in Loaded(s)
  BY <1>1, <1>5, AtCommit
<1>7. bill' = [bill EXCEPT ![paid.bill] = Pay(@, -c.amount)]
  <2>1. bill' = [x \in Bills |-> IF x \in Loaded(s) THEN Pay(billView[s][x], -c.amount)
                                 ELSE bill[x]]
    BY <1>2 DEF CommitRefund, PaidBills
  <2>2. QED
    BY <1>1, <1>5, <1>6, <2>1 DEF TypeOK
<1>8. Accounts!Refund(c)
  <2>1. /\ refund[c.req] = NoRow
        /\ payment' = [payment EXCEPT ![c.payment] = AddRefund(paid, c.amount)]
        /\ refund' = [refund EXCEPT ![c.req] = NewRefund(c)]
        /\ acked' = acked \cup {c} /\ UNCHANGED award
    BY <1>2, <1>4 DEF CommitRefund, RefundFits, RefundedPayment, Acknowledge
  <2>2. /\ Accounts!RefundAllowed(c, paid, bill[paid.bill])
        /\ bill' = [bill EXCEPT ![paid.bill] = Accounts!Pay(@, -c.amount)]
        /\ payment' = [payment EXCEPT ![c.payment] = Accounts!AddRefund(paid, c.amount)]
        /\ refund' = [refund EXCEPT ![c.req] = Accounts!NewRefund(c)]
    BY <1>5, <1>6, <1>7, <2>1, SameRefundOperators, SameRowOperators
  <2>3. QED
    BY <1>3, <1>4, <2>1, <2>2 DEF Accounts!Refund, Accounts!Acknowledge
<1>9. QED
  BY <1>8 DEF Accounts!Next

LEMMA AwardImplements ==
    ASSUME IInv, NEW s \in Sessions, CommitAward(s)
    PROVE  Accounts!Next
<1>1. TypeOK /\ pc[s] = "commit"
  BY DEF IInv, CommitAward
<1>2. PICK c \in Commands : c = cmd[s]
  BY <1>1, AtCommit
<1>3. c.op = "award"
  BY <1>2 DEF CommitAward
<1>4. AwardAllowed(c, bill) /\ Loaded(s) = AwardEntries(c, bill)
  <2>1. /\ Loaded(s) = Selected(c, paymentView[s], awardView[s], bill)
        /\ Loaded(s) # {}
    BY <1>1, <1>2, AtCommit
  <2>2. Loaded(s) = {b \in Bills : AwardAllowed(c, bill) /\ b \in AwardEntries(c, bill)}
    BY <1>3, <2>1 DEF Selected
  <2>3. QED
    BY <2>1, <2>2 DEF AwardEntries
<1>5. \A b \in Loaded(s) : billView[s][b] = bill[b]
  BY <1>1, AtCommit
<1> DEFINE entries == AwardEntries(c, bill)
           new == NewAward(c, bill, entries)
<1>6. NewAward(c, billView[s], Loaded(s)) = new
  BY <1>4, <1>5, SharesStable
<1>7. /\ bill' = DiscountedBills(s, new.alloc)
      /\ award[c.req] = NoRow
      /\ award' = [award EXCEPT ![c.req] = new]
      /\ acked' = acked \cup {c} /\ UNCHANGED <<payment, refund>>
  BY <1>2, <1>6 DEF CommitAward, AwardFits, GrantedAward, Acknowledge
<1>8. bill' = DiscountAll(bill, entries, new.alloc)
  <2> HIDE DEF new
  <2>1. QED
    BY <1>4, <1>5, <1>7 DEF DiscountedBills, DiscountAll
<1>9. Accounts!Award(c)
  <2>1. entries = Accounts!AwardEntries(c, bill) /\ Accounts!AwardAllowed(c, bill)
    BY <1>4, SameAwardAllowed
  <2>2. new = Accounts!NewAward(c, bill, Accounts!AwardEntries(c, bill))
    BY <2>1, SameNewAward
  <2>3. bill' = Accounts!DiscountAll(bill, entries, new.alloc)
    BY <1>8, SameAllocation
  <2> HIDE DEF new, entries
  <2>4. QED
    BY <1>3, <1>7, <2>1, <2>2, <2>3 DEF Accounts!Award, Accounts!Acknowledge
<1>10. QED
  BY <1>9 DEF Accounts!Next

LEMMA ReversalImplements ==
    ASSUME IInv, NEW s \in Sessions, CommitReversal(s)
    PROVE  Accounts!Next
<1>1. TypeOK /\ pc[s] = "commit"
  BY DEF IInv, CommitReversal
<1>2. PICK c \in Commands : c = cmd[s]
  BY <1>1, AtCommit
<1>3. c.op = "reverse"
  BY <1>2 DEF CommitReversal
<1>4. award[c.award] # NoRow /\ awardView[s] = award[c.award] /\ award[c.award].active
  BY <1>1, <1>2, <1>3 DEF IInv, SessionInv, CopiesFit, AfterFind, AfterLoad
<1> DEFINE old == award[c.award]
<1>5. ReversalAllowed(old, bill) /\ Loaded(s) = Allocated(old)
  <2>1. /\ Loaded(s) = Selected(c, paymentView[s], awardView[s], bill)
        /\ Loaded(s) # {}
    BY <1>1, <1>2, AtCommit
  <2>2. Loaded(s) = {b \in Bills : ReversalAllowed(old, bill) /\ b \in Allocated(old)}
    BY <1>3, <1>4, <2>1 DEF Selected
  <2>3. QED
    BY <2>1, <2>2 DEF Allocated
<1>6. \A b \in Loaded(s) : billView[s][b] = bill[b]
  BY <1>1, AtCommit
<1>7. /\ bill' = DiscountedBills(s, Negated(old.alloc))
      /\ award' = [award EXCEPT ![c.award].active = FALSE]
      /\ acked' = acked \cup {c} /\ UNCHANGED <<payment, refund>>
  BY <1>2, <1>4 DEF CommitReversal, Acknowledge
<1>8. bill' = DiscountAll(bill, Allocated(old), Negated(old.alloc))
  BY <1>5, <1>6, <1>7 DEF DiscountedBills, DiscountAll
<1>9. Accounts!Reverse(c)
  <2>1. /\ Accounts!ReversalAllowed(old, bill)
        /\ bill' = Accounts!DiscountAll(bill, Accounts!Allocated(old), Accounts!Negated(old.alloc))
    BY <1>5, <1>8, SameAllocation
  <2>2. QED
    BY <1>3, <1>4, <1>7, <2>1 DEF Accounts!Reverse, Accounts!Acknowledge
<1>10. QED
  BY <1>9 DEF Accounts!Next

LEMMA ReplayImplements ==
    ASSUME IInv, NEW s \in Sessions, Replay(s)
    PROVE  Accounts!Next
<1>1. cmd[s] \in Commands /\ Accounts!Recorded(cmd[s])
  BY ReplayFinds
<1>2. Accounts!Repeat(cmd[s])
  BY <1>1 DEF Replay, tables, Acknowledge, Accounts!Repeat, Accounts!Acknowledge
<1>3. QED
  BY <1>1, <1>2 DEF Accounts!Next

-----------------------------------------------------------------------------

LEMMA StepImplements == IInv /\ [Next]_vars => [Accounts!Next]_(Accounts!vars)
<1> SUFFICES ASSUME IInv, [Next]_vars PROVE [Accounts!Next]_(Accounts!vars)
  OBVIOUS
<1>1. ASSUME NEW s \in Sessions, Submit(s) \/ Wait(s) \/ Abort(s)
      PROVE  UNCHANGED Accounts!vars
  BY <1>1 DEF Submit, Wait, LockRequest, LockStudent, LockPayment, LockBills,
     Abort, tables, Accounts!vars
<1>2. ASSUME NEW s \in Sessions, Work(s)
      PROVE  Accounts!Next \/ UNCHANGED Accounts!vars
  <2>1. CASE FindPayment(s) \/ FindAward(s) \/ StartFresh(s) \/ Refuse(s)
    BY <2>1 DEF FindPayment, FindAward, StartFresh, Refuse, tables, Accounts!vars
  <2>2. CASE Replay(s)
    BY <2>2, ReplayImplements
  <2>3. CASE Commit(s)
    BY <2>3, PaymentImplements, RefundImplements, AwardImplements,
       ReversalImplements DEF Commit
  <2>4. QED
    BY <1>2, <2>1, <2>2, <2>3 DEF Work
<1>3. CASE UNCHANGED vars
  BY <1>3 DEF vars, tables, Accounts!vars
<1>4. QED
  BY <1>1, <1>2, <1>3 DEF Next

\* Every execution of the sessions is, on the tables and acknowledgements, an
\* execution of the calls one at a time.
THEOREM Refinement == Spec => OneAtATime
<1>1. Init => Accounts!Init
  BY DEF Init, Accounts!Init, NewBill, Accounts!NewBill
<1>2. IInv /\ [Next]_vars => [Accounts!Next]_(Accounts!vars)
  BY StepImplements
<1>3. QED
  BY <1>1, <1>2, Invariance, PTL DEF Spec, OneAtATime, Accounts!Spec

-----------------------------------------------------------------------------
(* The books balance.  What the sums of BooksBalance range over, as          *)
(* functions of the tables, and how a written row changes each sum.          *)

HeldBy(pay, b) ==
    [r \in {q \in Requests : pay[q] # NoRow /\ pay[q].bill = b}
       |-> pay[r].amount - pay[r].refunded]

AllottedBy(aw, b) ==
    [r \in {q \in Requests : aw[q] # NoRow /\ aw[q].active} |-> aw[r].alloc[b]]

RefundedBy(ref, p) ==
    [r \in {q \in Requests : ref[q] # NoRow /\ ref[q].payment = p} |-> ref[r].amount]

LEMMA SumsOfTables ==
    /\ \A b : NetPayments(b) = SumFunction(HeldBy(payment, b))
    /\ \A b : Concessions(b) = SumFunction(AllottedBy(award, b))
    /\ \A p : Returned(p) = SumFunction(RefundedBy(refund, p))
    /\ \A b : NetPayments(b)' = SumFunction(HeldBy(payment', b))
    /\ \A b : Concessions(b)' = SumFunction(AllottedBy(award', b))
    /\ \A p : Returned(p)' = SumFunction(RefundedBy(refund', p))
  BY DEF NetPayments, Concessions, Returned, HeldBy, AllottedBy, RefundedBy

LEMMA FinitelyHeld ==
    ASSUME NEW pay \in [Requests -> PaymentRow \cup {NoRow}], NEW b,
           IsFiniteSet({r \in Requests : pay[r] # NoRow})
    PROVE  Summable(HeldBy(pay, b))
<1>1. DOMAIN HeldBy(pay, b) \subseteq {r \in Requests : pay[r] # NoRow}
  BY DEF HeldBy
<1>2. ASSUME NEW r \in DOMAIN HeldBy(pay, b) PROVE HeldBy(pay, b)[r] \in Int
  <2>1. pay[r] \in PaymentRow /\ HeldBy(pay, b)[r] = pay[r].amount - pay[r].refunded
    BY DEF HeldBy
  <2>2. QED
    BY <2>1 DEF PaymentRow, Money, PosMoney
<1>3. QED
  BY <1>1, <1>2, FS_Subset DEF Summable

LEMMA FinitelyAllotted ==
    ASSUME NEW aw \in [Requests -> AwardRow \cup {NoRow}], NEW b \in Bills,
           IsFiniteSet({r \in Requests : aw[r] # NoRow})
    PROVE  Summable(AllottedBy(aw, b))
<1>1. DOMAIN AllottedBy(aw, b) \subseteq {r \in Requests : aw[r] # NoRow}
  BY DEF AllottedBy
<1>2. ASSUME NEW r \in DOMAIN AllottedBy(aw, b) PROVE AllottedBy(aw, b)[r] \in Int
  <2>1. aw[r] \in AwardRow /\ AllottedBy(aw, b)[r] = aw[r].alloc[b]
    BY DEF AllottedBy
  <2>2. QED
    BY <2>1 DEF AwardRow, Money
<1>3. QED
  BY <1>1, <1>2, FS_Subset DEF Summable

LEMMA FinitelyRefunded ==
    ASSUME NEW ref \in [Requests -> RefundRow \cup {NoRow}], NEW p,
           IsFiniteSet({r \in Requests : ref[r] # NoRow})
    PROVE  Summable(RefundedBy(ref, p))
<1>1. DOMAIN RefundedBy(ref, p) \subseteq {r \in Requests : ref[r] # NoRow}
  BY DEF RefundedBy
<1>2. ASSUME NEW r \in DOMAIN RefundedBy(ref, p) PROVE RefundedBy(ref, p)[r] \in Int
  <2>1. ref[r] \in RefundRow /\ RefundedBy(ref, p)[r] = ref[r].amount
    BY DEF RefundedBy
  <2>2. QED
    BY <2>1 DEF RefundRow, PosMoney
<1>3. QED
  BY <1>1, <1>2, FS_Subset DEF Summable

\* A new payment is held by its bill.
LEMMA PaymentCounts ==
    ASSUME NEW pay \in [Requests -> PaymentRow \cup {NoRow}], NEW b,
           IsFiniteSet({r \in Requests : pay[r] # NoRow}),
           NEW r \in Requests, pay[r] = NoRow, NEW new \in PaymentRow, new.refunded = 0
    PROVE  SumFunction(HeldBy([pay EXCEPT ![r] = new], b)) =
             SumFunction(HeldBy(pay, b)) + (IF new.bill = b THEN new.amount ELSE 0)
<1> DEFINE pay2 == [pay EXCEPT ![r] = new]
           f == HeldBy(pay, b)
           g == HeldBy(pay2, b)
<1>1. pay2[r] = new /\ \A q \in Requests : q # r => pay2[q] = pay[q]
  OBVIOUS
<1>2. new # NoRow /\ new.amount \in Int
  BY NoRowAssumption DEF PaymentRow, PosMoney
<1>3. Summable(f) /\ SumFunction(f) \in Int
  BY FinitelyHeld, TotalInt
<1>4. CASE new.bill = b
  <2>1. DOMAIN g = DOMAIN f \cup {r} /\ r \notin DOMAIN f
    BY <1>1, <1>2, <1>4 DEF HeldBy
  <2>2. g[r] = new.amount /\ \A q \in DOMAIN f : g[q] = f[q]
    BY <1>1, <1>2, <1>4 DEF HeldBy
  <2> HIDE DEF f, g
  <2>3. SumFunction(g) = SumFunction(f) + g[r]
    BY <1>2, <1>3, <2>1, <2>2, TotalAdd
  <2>4. QED
    BY <1>4, <2>2, <2>3 DEF f, g
<1>5. CASE new.bill # b
  <2>1. g = f
    BY <1>1, <1>2, <1>5 DEF HeldBy
  <2>2. QED
    BY <1>3, <1>5, <2>1
<1>6. QED
  BY <1>4, <1>5

\* A refund lowers what the bill of the payment holds.
LEMMA RefundCounts ==
    ASSUME NEW pay \in [Requests -> PaymentRow \cup {NoRow}], NEW b,
           IsFiniteSet({r \in Requests : pay[r] # NoRow}),
           NEW r \in Requests, pay[r] # NoRow, NEW amount \in PosMoney
    PROVE  SumFunction(HeldBy([pay EXCEPT ![r] = AddRefund(pay[r], amount)], b)) =
             SumFunction(HeldBy(pay, b)) - (IF pay[r].bill = b THEN amount ELSE 0)
<1> DEFINE new == AddRefund(pay[r], amount)
           pay2 == [pay EXCEPT ![r] = new]
           f == HeldBy(pay, b)
           g == HeldBy(pay2, b)
<1>1. pay2[r] = new /\ \A q \in Requests : q # r => pay2[q] = pay[q]
  OBVIOUS
<1>2. pay[r] \in PaymentRow
  OBVIOUS
<1>3. /\ new.bill = pay[r].bill /\ new.amount = pay[r].amount
      /\ new.refunded = pay[r].refunded + amount
      /\ pay[r].amount \in Int /\ pay[r].refunded \in Int /\ amount \in Int
      /\ new # NoRow
  <2>1. /\ new.bill = pay[r].bill /\ new.amount = pay[r].amount
        /\ new.refunded = pay[r].refunded + amount
        /\ pay[r].amount \in Int /\ pay[r].refunded \in Int /\ amount \in Int
    BY <1>2 DEF AddRefund, PaymentRow, Money, PosMoney
  <2>2. new # NoRow
    BY <1>2, NoRowAssumption DEF AddRefund, PaymentRow, Money, PosMoney
  <2>3. QED
    BY <2>1, <2>2
<1>4. Summable(f) /\ SumFunction(f) \in Int
  BY FinitelyHeld, TotalInt
<1>5. CASE pay[r].bill = b
  <2>1. DOMAIN g = DOMAIN f /\ r \in DOMAIN f
    BY <1>1, <1>3, <1>5 DEF HeldBy
  <2>2. /\ f[r] = pay[r].amount - pay[r].refunded
        /\ g[r] = pay[r].amount - (pay[r].refunded + amount)
        /\ \A q \in DOMAIN f \ {r} : g[q] = f[q]
    BY <1>1, <1>3, <1>5 DEF HeldBy
  <2>3. g[r] \in Int /\ f[r] \in Int /\ g[r] = f[r] - amount
    BY <1>3, <2>2
  <2> HIDE DEF f, g
  <2>4. SumFunction(g) = SumFunction(f) - f[r] + g[r]
    BY <1>4, <2>1, <2>2, <2>3, TotalChange
  <2>5. SumFunction(g) = SumFunction(f) - amount
    BY <1>3, <1>4, <2>3, <2>4
  <2>6. QED
    BY <1>5, <2>5 DEF f, g
<1>6. CASE pay[r].bill # b
  <2>1. g = f
    BY <1>1, <1>3, <1>6 DEF HeldBy
  <2>2. QED
    BY <1>4, <1>6, <2>1
<1>7. QED
  BY <1>5, <1>6

\* A refund row counts for the payment it names.
LEMMA RefundRowCounts ==
    ASSUME NEW ref \in [Requests -> RefundRow \cup {NoRow}], NEW p,
           IsFiniteSet({r \in Requests : ref[r] # NoRow}),
           NEW r \in Requests, ref[r] = NoRow, NEW new \in RefundRow
    PROVE  SumFunction(RefundedBy([ref EXCEPT ![r] = new], p)) =
             SumFunction(RefundedBy(ref, p)) + (IF new.payment = p THEN new.amount ELSE 0)
<1> DEFINE ref2 == [ref EXCEPT ![r] = new]
           f == RefundedBy(ref, p)
           g == RefundedBy(ref2, p)
<1>1. ref2[r] = new /\ \A q \in Requests : q # r => ref2[q] = ref[q]
  OBVIOUS
<1>2. new # NoRow /\ new.amount \in Int
  BY NoRowAssumption DEF RefundRow, PosMoney
<1>3. Summable(f) /\ SumFunction(f) \in Int
  BY FinitelyRefunded, TotalInt
<1>4. CASE new.payment = p
  <2>1. DOMAIN g = DOMAIN f \cup {r} /\ r \notin DOMAIN f
    BY <1>1, <1>2, <1>4 DEF RefundedBy
  <2>2. g[r] = new.amount /\ \A q \in DOMAIN f : g[q] = f[q]
    BY <1>1, <1>2, <1>4 DEF RefundedBy
  <2> HIDE DEF f, g
  <2>3. SumFunction(g) = SumFunction(f) + g[r]
    BY <1>2, <1>3, <2>1, <2>2, TotalAdd
  <2>4. QED
    BY <1>4, <2>2, <2>3 DEF f, g
<1>5. CASE new.payment # p
  <2>1. g = f
    BY <1>1, <1>2, <1>5 DEF RefundedBy
  <2>2. QED
    BY <1>3, <1>5, <2>1
<1>6. QED
  BY <1>4, <1>5

\* A new award adds its part of every bill, a reversed one takes it back.
LEMMA AwardCounts ==
    ASSUME NEW aw \in [Requests -> AwardRow \cup {NoRow}], NEW b \in Bills,
           IsFiniteSet({r \in Requests : aw[r] # NoRow}),
           NEW r \in Requests, aw[r] = NoRow, NEW new \in AwardRow, new.active
    PROVE  SumFunction(AllottedBy([aw EXCEPT ![r] = new], b)) =
             SumFunction(AllottedBy(aw, b)) + new.alloc[b]
<1> DEFINE aw2 == [aw EXCEPT ![r] = new]
           f == AllottedBy(aw, b)
           g == AllottedBy(aw2, b)
<1>1. aw2[r] = new /\ \A q \in Requests : q # r => aw2[q] = aw[q]
  OBVIOUS
<1>2. new # NoRow /\ new.alloc[b] \in Int
  BY NoRowAssumption DEF AwardRow, Money
<1>3. Summable(f)
  BY FinitelyAllotted
<1>4. DOMAIN g = DOMAIN f \cup {r} /\ r \notin DOMAIN f
  BY <1>1, <1>2 DEF AllottedBy
<1>5. g[r] = new.alloc[b] /\ \A q \in DOMAIN f : g[q] = f[q]
  BY <1>1, <1>2 DEF AllottedBy
<1> HIDE DEF f, g
<1>6. SumFunction(g) = SumFunction(f) + g[r]
  BY <1>2, <1>3, <1>4, <1>5, TotalAdd
<1>7. QED
  BY <1>5, <1>6 DEF f, g

LEMMA ReversalCounts ==
    ASSUME NEW aw \in [Requests -> AwardRow \cup {NoRow}], NEW b \in Bills,
           IsFiniteSet({r \in Requests : aw[r] # NoRow}),
           NEW r \in Requests, aw[r] # NoRow, aw[r].active,
           NEW new, ~new.active
    PROVE  SumFunction(AllottedBy([aw EXCEPT ![r] = new], b)) =
             SumFunction(AllottedBy(aw, b)) - aw[r].alloc[b]
<1> DEFINE aw2 == [aw EXCEPT ![r] = new]
           f == AllottedBy(aw, b)
           g == AllottedBy(aw2, b)
<1>1. aw2[r] = new /\ \A q \in Requests : q # r => aw2[q] = aw[q]
  OBVIOUS
<1>2. aw[r].alloc[b] \in Int
  BY DEF AwardRow, Money
<1>3. Summable(f)
  BY FinitelyAllotted
<1>4. DOMAIN f = DOMAIN g \cup {r} /\ r \notin DOMAIN g
  BY <1>1 DEF AllottedBy
<1>5. f[r] = aw[r].alloc[b] /\ \A q \in DOMAIN g : f[q] = g[q]
  BY <1>1, <1>4 DEF AllottedBy
<1> HIDE DEF f, g
<1>6. Summable(g)
  BY <1>3, <1>4, <1>5, FS_Subset DEF Summable
<1>7. SumFunction(f) = SumFunction(g) + f[r]
  BY <1>2, <1>4, <1>5, <1>6, TotalAdd
<1>8. SumFunction(g) \in Int
  BY <1>6, TotalInt
<1>9. SumFunction(g) = SumFunction(f) - f[r]
  BY <1>2, <1>5, <1>7, <1>8
<1>10. QED
  BY <1>5, <1>9 DEF f, g

-----------------------------------------------------------------------------
(* The parts of an award add up: the loop of apply_scholarship gives each    *)
(* bill what its budget up to and including the bill exceeds the budget      *)
(* before it, so the parts of the first bills add up to their budget.        *)

\* what the first bills are given, when they owe x altogether
GivenUpTo(c, x) ==
    IF c.kind = "percentage" THEN HalfUp(x * c.value, 100)
    ELSE IF x <= c.value THEN x ELSE c.value

LEMMA HalfUpZero == HalfUp(0, 100) = 0
<1>1. (2 * 0 + 100) \div (2 * 100) = 0
  OBVIOUS
<1>2. QED
  BY <1>1 DEF HalfUp

LEMMA HalfUpInt ==
    ASSUME NEW n \in Int
    PROVE  HalfUp(n, 100) \in Int
<1>1. (2 * n + 100) \div (2 * 100) \in Int
  OBVIOUS
<1>2. QED
  BY <1>1 DEF HalfUp

\* Parts are computed from exact sums of balances.
LEMMA ShareGrows ==
    ASSUME NEW c, c.value \in Nat, NEW rows, NEW entries, IsFiniteSet(entries),
           \A e \in entries : rows[e].balance \in Nat, NEW b \in entries
    PROVE  LET before == Outstanding(rows, {e \in entries : e < b})
           IN  /\ before \in Nat
               /\ Share(c, rows, entries, b) =
                    GivenUpTo(c, before + rows[b].balance) - GivenUpTo(c, before)
               /\ Share(c, rows, entries, b) \in Int
<1> DEFINE S == {e \in entries : e < b}
           owed == [e \in S |-> rows[e].balance]
           before == Outstanding(rows, S)
           upTo == before + rows[b].balance
<1>1. before \in Nat
  <2>1. IsFiniteSet(S) /\ DOMAIN owed = S /\ \A e \in S : owed[e] \in Nat
    BY FS_Subset
  <2>2. SumOn(owed, S) \in Nat
    <3> HIDE DEF S, owed
    <3>1. QED
      BY <2>1, SumNat
  <2>3. QED
    BY <2>1, <2>2, SumOnDef DEF Outstanding, SumFunction
<1>2. rows[b].balance \in Nat
  OBVIOUS
<1> HIDE DEF S, before
<1>3. CASE c.kind = "percentage"
  <2>1. upTo * c.value \in Int /\ before * c.value \in Int
    BY <1>1, <1>2
  <2>2. HalfUp(upTo * c.value, 100) \in Int /\ HalfUp(before * c.value, 100) \in Int
    BY <2>1, HalfUpInt
  <2>3. Share(c, rows, entries, b) =
          HalfUp(upTo * c.value, 100) - HalfUp(before * c.value, 100)
    BY <1>3 DEF Share, before, S
  <2>4. QED
    BY <1>1, <1>3, <2>2, <2>3 DEF GivenUpTo, before, S
<1>4. CASE c.kind # "percentage"
  <2> DEFINE left == IF before < c.value THEN c.value - before ELSE 0
  <2>1. Share(c, rows, entries, b) =
          IF left < rows[b].balance THEN left ELSE rows[b].balance
    BY <1>4 DEF Share, before, S
  <2>2. /\ GivenUpTo(c, upTo) = IF upTo <= c.value THEN upTo ELSE c.value
        /\ GivenUpTo(c, before) = IF before <= c.value THEN before ELSE c.value
    BY <1>4 DEF GivenUpTo
  <2>3. /\ Share(c, rows, entries, b) = GivenUpTo(c, upTo) - GivenUpTo(c, before)
        /\ Share(c, rows, entries, b) \in Int
    BY <1>1, <1>2, <2>1, <2>2
  <2>4. QED
    BY <1>1, <2>3 DEF before, S
<1>5. QED
  BY <1>3, <1>4

\* the first entries, in the order of the bills
FirstOf(s, entries) == \A x \in s, y \in entries : y < x => y \in s

\* The first entries are the last of them and all entries before it.
LEMMA LastOfFirst ==
    ASSUME NEW entries, Naturals(entries), IsFiniteSet(entries),
           NEW s \in SUBSET entries, s # {}, FirstOf(s, entries)
    PROVE  \E m \in s : s \ {m} = {e \in entries : e < m} /\ FirstOf(s \ {m}, entries)
<1>1. IsFiniteSet(s) /\ Naturals(s)
  BY FS_Subset DEF Naturals
<1>2. PICK m \in s : \A x \in s : x <= m
  BY <1>1, GreatestNat
<1>3. entries \subseteq Nat
  BY DEF Naturals
<1>4. \A x \in s : x # m => x < m
  BY <1>2, <1>3
<1>5. \A y \in entries : y < m => y \in s /\ y # m
  BY <1>2, <1>3 DEF FirstOf
<1>6. s \ {m} = {e \in entries : e < m}
  BY <1>4, <1>5
<1>7. FirstOf(s \ {m}, entries)
  <2>1. ASSUME NEW x \in s \ {m}, NEW y \in entries, y < x PROVE y \in s \ {m}
    <3>1. x < m /\ x \in Nat /\ m \in Nat /\ y \in Nat
      BY <1>3, <1>4, <2>1
    <3>2. y \in s /\ y < m
      BY <2>1, <3>1 DEF FirstOf
    <3>3. QED
      BY <3>1, <3>2
  <2>2. QED
    BY <2>1 DEF FirstOf
<1>8. QED
  BY <1>6, <1>7

LEMMA GivenTyped ==
    ASSUME NEW c, c.value \in Nat, NEW x \in Nat
    PROVE  GivenUpTo(c, x) \in Int
<1>1. x * c.value \in Int
  OBVIOUS
<1>2. HalfUp(x * c.value, 100) \in Int
  BY <1>1, HalfUpInt
<1>3. QED
  BY <1>2 DEF GivenUpTo

\* What the first bills are given is what the sum they owe entitles them to.
LEMMA SharesTelescope ==
    ASSUME NEW c, c.value \in Nat, NEW rows, NEW entries,
           IsFiniteSet(entries), Naturals(entries),
           \A e \in entries : rows[e].balance \in Nat,
           NEW owed, owed = [e \in entries |-> rows[e].balance],
           NEW given, given = [e \in entries |-> Share(c, rows, entries, e)]
    PROVE  SumOn(given, entries) = GivenUpTo(c, SumOn(owed, entries))
<1> DEFINE Bad == {s \in SUBSET entries :
                     FirstOf(s, entries) /\ SumOn(given, s) # GivenUpTo(c, SumOn(owed, s))}
<1>1. \A e \in entries : owed[e] \in Nat /\ given[e] \in Int
  BY ShareGrows
<1>2. GivenUpTo(c, 0) = 0
  BY HalfUpZero DEF GivenUpTo
<1>3. {} \notin Bad
  <2>1. SumOn(given, {}) = 0 /\ SumOn(owed, {}) = 0
    BY FS_EmptySet, SumStep
  <2>2. QED
    BY <1>2, <2>1
<1>4. ASSUME Bad # {} PROVE FALSE
  <2>1. PICK s \in Bad : \A u \in Bad : u \subseteq s => u = s
    <3>1. Bad \in SUBSET SUBSET entries
      OBVIOUS
    <3> HIDE DEF Bad
    <3>2. QED
      BY <1>4, <3>1, SmallestSet
  <2>2. s \in SUBSET entries /\ s # {} /\ FirstOf(s, entries) /\ IsFiniteSet(s)
    BY <1>3, <2>1, FS_Subset
  <2>3. PICK m \in s : /\ s \ {m} = {e \in entries : e < m}
                       /\ FirstOf(s \ {m}, entries)
    BY <2>2, LastOfFirst
  <2> DEFINE rest == s \ {m}
             before == SumOn(owed, rest)
  <2>4. SumOn(given, rest) = GivenUpTo(c, before)
    BY <2>1, <2>2, <2>3
  <2>5. SumOn(given, s) = given[m] + SumOn(given, rest)
    <3>1. \A y \in s : given[y] \in Int
      BY <1>1, <2>2
    <3>2. QED
      BY SMTT(40), <2>2, <3>1, SumRemove
  <2>6. SumOn(owed, s) = owed[m] + before
    <3>1. \A y \in s : owed[y] \in Int
      BY <1>1, <2>2
    <3>2. QED
      BY <2>2, <3>1, SumRemove
  <2>7. Outstanding(rows, rest) = before
    <3> DEFINE part == [e \in rest |-> rows[e].balance]
    <3>1. IsFiniteSet(rest) /\ DOMAIN part = rest /\ \A e \in rest : part[e] = owed[e]
      BY <2>2, FS_Subset
    <3>2. SumOn(part, rest) = SumOn(owed, rest)
      <4> HIDE DEF part, rest
      <4>1. QED
        BY <3>1, SumSame
    <3>3. QED
      BY <3>1, <3>2, SumOnDef DEF Outstanding, SumFunction
  <2>8. /\ before \in Nat
        /\ given[m] = GivenUpTo(c, before + owed[m]) - GivenUpTo(c, before)
    <3>1. m \in entries
      BY <2>2, <2>3
    <3> HIDE DEF rest, before
    <3>2. LET b == Outstanding(rows, {e \in entries : e < m})
          IN  /\ b \in Nat
              /\ Share(c, rows, entries, m) =
                   GivenUpTo(c, b + rows[m].balance) - GivenUpTo(c, b)
      BY <3>1, ShareGrows
    <3>3. Outstanding(rows, {e \in entries : e < m}) = before
      BY <2>3, <2>7 DEF rest
    <3>4. QED
      BY <3>1, <3>2, <3>3
  <2>9. before + owed[m] = owed[m] + before /\ given[m] \in Int
    BY <1>1, <2>2, <2>3, <2>8
  <2>10. SumOn(given, rest) \in Int
    <3>1. IsFiniteSet(rest) /\ \A y \in rest : given[y] \in Int
      BY <1>1, <2>2, FS_Subset
    <3> HIDE DEF rest
    <3>2. QED
      BY <3>1, SumInt
  <2> HIDE DEF rest, before
  <2>11. SumOn(given, s) = GivenUpTo(c, SumOn(owed, s))
    <3>1. GivenUpTo(c, before) \in Int
      BY <2>4, <2>10
    <3>2. given[m] + GivenUpTo(c, before) = GivenUpTo(c, before + owed[m])
      <4>1. before + owed[m] \in Nat
        BY <1>1, <2>2, <2>3, <2>8
      <4>2. GivenUpTo(c, before + owed[m]) \in Int
        BY <4>1, GivenTyped
      <4>3. QED
        BY <2>8, <2>9, <3>1, <4>2
    <3>3. QED
      BY <2>4, <2>5, <2>6, <2>9, <3>2
  <2>12. QED
    BY <2>1, <2>11
<1>5. entries \notin Bad
  BY <1>4
<1>6. FirstOf(entries, entries)
  BY DEF FirstOf
<1>7. QED
  BY <1>5, <1>6

\* The parts of an award add up to what it applies.
LEMMA SharesWhole ==
    ASSUME NEW c, c.kind \in {"fixed", "percentage"}, c.value \in Nat,
           NEW rows, NEW entries \in SUBSET Bills,
           \A e \in entries : rows[e].balance \in Nat,
           Budget(c, Outstanding(rows, entries)) <= Outstanding(rows, entries)
    PROVE  SumFunction(Shares(c, rows, entries)) = Budget(c, Outstanding(rows, entries))
<1> DEFINE owed == [e \in entries |-> rows[e].balance]
           given == [e \in entries |-> Share(c, rows, entries, e)]
           all == Shares(c, rows, entries)
<1>1. IsFiniteSet(entries) /\ Naturals(entries)
  BY BillsAssumption, FS_Subset DEF Naturals
<1>2. SumOn(given, entries) = GivenUpTo(c, SumOn(owed, entries))
  BY <1>1, SharesTelescope
<1>3. Outstanding(rows, entries) = SumOn(owed, entries) /\ SumOn(owed, entries) \in Nat
  <2>1. DOMAIN owed = entries /\ \A e \in entries : owed[e] \in Nat
    OBVIOUS
  <2>2. SumOn(owed, entries) \in Nat
    <3> HIDE DEF owed
    <3>1. QED
      BY <1>1, <2>1, SumNat
  <2>3. QED
    BY <2>1, <2>2, SumOnDef DEF Outstanding, SumFunction
<1>4. GivenUpTo(c, SumOn(owed, entries)) = Budget(c, Outstanding(rows, entries))
  <2> HIDE DEF owed
  <2>1. CASE c.kind = "percentage"
    BY <1>3, <2>1 DEF GivenUpTo, Budget
  <2>2. CASE c.kind = "fixed"
    BY <1>3, <2>2 DEF GivenUpTo, Budget
  <2>3. QED
    BY <2>1, <2>2
<1>5. SumFunction(all) = SumOn(given, entries)
  <2>1. DOMAIN all = Bills /\ \A e \in entries : all[e] = given[e]
    BY DEF Shares
  <2>2. \A b \in Bills \ entries : all[b] = 0
    BY DEF Shares
  <2>3. \A e \in entries : given[e] \in Int
    BY <1>1, ShareGrows
  <2>4. \A b \in Bills : all[b] \in Int
    BY <2>1, <2>2, <2>3
  <2> HIDE DEF all, given
  <2>5. SumOn(all, Bills) = SumOn(all, entries)
    BY <2>2, <2>4, BillsAssumption, SumWiden
  <2>6. SumOn(all, entries) = SumOn(given, entries)
    BY <1>1, <2>1, SumSame
  <2>7. QED
    BY <2>1, <2>5, <2>6, SumOnDef DEF SumFunction
<1>6. QED
  BY <1>2, <1>4, <1>5

-----------------------------------------------------------------------------
(* Each commit keeps the books. *)

RowsOf(f) == {q \in Requests : f[q] # NoRow}

LEMMA OneMoreFinite ==
    ASSUME NEW f, NEW g, NEW r, IsFiniteSet(RowsOf(f)),
           \A q \in Requests : q # r => g[q] = f[q]
    PROVE  IsFiniteSet(RowsOf(g))
<1>1. IsFiniteSet(RowsOf(f) \cup {r})
  BY FS_AddElement
<1>2. RowsOf(g) \subseteq RowsOf(f) \cup {r}
  BY DEF RowsOf
<1>3. QED
  BY <1>1, <1>2, FS_Subset

LEMMA PayChanges ==
    ASSUME NEW row \in BillRow, NEW amount \in Int
    PROVE  /\ Pay(row, amount).paid = row.paid + amount
           /\ Pay(row, amount).discount = row.discount
           /\ row.paid + 0 = row.paid
  BY DEF Pay, BillRow, Money

LEMMA DiscountChanges ==
    ASSUME NEW row \in BillRow, NEW amount \in Int
    PROVE  /\ Discount(row, amount).paid = row.paid
           /\ Discount(row, amount).discount = row.discount + amount
           /\ row.discount + 0 = row.discount
  BY DEF Discount, BillRow, Money

LEMMA CommitPaymentBalances ==
    ASSUME IInv, BooksInv, NEW s \in Sessions, CommitPayment(s)
    PROVE  BooksInv'
<1>1. TypeOK /\ pc[s] = "commit"
  BY DEF IInv, CommitPayment
<1>2. PICK c \in Commands : c = cmd[s]
  BY <1>1, AtCommit
<1>3. c.op = "collect" /\ c \in CollectCommand
  BY <1>2, CommandFields DEF CommitPayment
<1>4. c.req \in Requests /\ c.student \in Students /\ c.amount \in PosMoney
  BY <1>3 DEF CollectCommand
<1>5. PICK b \in Loaded(s) : payment' = [payment EXCEPT ![c.req] = NewPayment(c, b)]
  BY <1>2 DEF CommitPayment
<1>6. \A x \in Loaded(s) : x \in Bills /\ PaysBill(c, x, bill) /\ billView[s][x] = bill[x]
  BY <1>1, <1>2, <1>3, AtCommit DEF Selected
<1>7. b \in Bills /\ \A x \in Loaded(s) : x = b
  BY <1>6, OneBillPays
<1> DEFINE new == NewPayment(c, b)
<1>8. /\ new \in PaymentRow /\ new # NoRow
      /\ new.refunded = 0 /\ new.bill = b /\ new.amount = c.amount
  <2>1. new \in PaymentRow
    BY <1>4, <1>7 DEF NewPayment, PaymentRow, Money, PosMoney
  <2>2. QED
    BY <2>1, NoRowAssumption DEF NewPayment
<1> HIDE DEF new
<1>9. payment' = [payment EXCEPT ![c.req] = new] /\ payment[c.req] = NoRow
  BY <1>2, <1>5 DEF CommitPayment, PaymentFits, new
<1>10. payment'[c.req] = new /\ \A r \in Requests : r # c.req => payment'[r] = payment[r]
  BY <1>1, <1>4, <1>9 DEF TypeOK
<1>11. \A x \in Bills : bill'[x] = IF x = b THEN Pay(bill[x], c.amount) ELSE bill[x]
  BY <1>2, <1>6, <1>7 DEF CommitPayment, PaidBills
<1>12. refund' = refund /\ award' = award
  BY DEF CommitPayment
<1>13. ASSUME NEW x \in Bills
       PROVE  bill'[x].paid = NetPayments(x)' /\ bill'[x].discount = Concessions(x)'
  <2>1. bill[x].paid = NetPayments(x) /\ bill[x].discount = Concessions(x)
    BY DEF BooksInv, BooksBalance, Reconciled
  <2>2. bill[x] \in BillRow
    BY <1>1 DEF TypeOK
  <2>3. NetPayments(x)' = NetPayments(x) + (IF b = x THEN c.amount ELSE 0)
    <3>1. IsFiniteSet({r \in Requests : payment[r] # NoRow})
      BY DEF BooksInv, RowsFinite
    <3>2. payment \in [Requests -> PaymentRow \cup {NoRow}]
      BY <1>1 DEF TypeOK
    <3>3. SumFunction(HeldBy(payment', x)) =
            SumFunction(HeldBy(payment, x)) + (IF new.bill = x THEN new.amount ELSE 0)
      BY <1>4, <1>8, <1>9, <3>1, <3>2, PaymentCounts
    <3>4. QED
      BY <1>8, <3>3, SumsOfTables
  <2>4. Concessions(x)' = Concessions(x)
    BY <1>12, SumsOfTables
  <2>5. /\ bill'[x].paid = bill[x].paid + (IF b = x THEN c.amount ELSE 0)
        /\ bill'[x].discount = bill[x].discount
    BY <1>4, <1>11, <2>2, PayChanges DEF PosMoney
  <2>6. QED
    BY <2>1, <2>3, <2>4, <2>5
<1>14. ASSUME NEW r \in Requests, payment'[r] # NoRow
       PROVE  payment'[r].refunded = Returned(r)'
  <2>1. Returned(r)' = Returned(r)
    BY <1>12, SumsOfTables
  <2>2. CASE r # c.req
    BY <1>10, <1>14, <2>1, <2>2 DEF BooksInv, BooksBalance, Reconciled
  <2>3. CASE r = c.req
    <3>1. \A q \in Requests : refund[q] # NoRow => refund[q].payment # r
      BY <1>9, <2>3 DEF BooksInv, RefundsBelong
    <3>2. DOMAIN RefundedBy(refund, r) = {}
      BY <3>1 DEF RefundedBy
    <3>3. Returned(r) = 0
      BY <3>2, TotalNone, SumsOfTables
    <3>4. QED
      BY <1>8, <1>10, <2>1, <2>3, <3>3
  <2>4. QED
    BY <2>2, <2>3
<1>15. AwardsWhole'
  BY <1>12 DEF BooksInv, BooksBalance, AwardsWhole
<1>16. RowsFinite'
  <2>1. IsFiniteSet({r \in Requests : payment'[r] # NoRow})
    <3>1. IsFiniteSet(RowsOf(payment))
      BY DEF BooksInv, RowsFinite, RowsOf
    <3>2. IsFiniteSet(RowsOf(payment'))
      BY <1>10, <3>1, OneMoreFinite
    <3>3. QED
      BY <3>2 DEF RowsOf
  <2>2. QED
    BY <1>12, <2>1 DEF BooksInv, RowsFinite
<1>17. RefundsBelong'
  <2>1. \A r \in Requests : refund[r] # NoRow => refund[r].payment \in Requests
    BY <1>1 DEF TypeOK, RefundRow
  <2>2. QED
    BY <1>8, <1>10, <1>12, <2>1 DEF BooksInv, RefundsBelong
<1>18. QED
  BY <1>13, <1>14, <1>15, <1>16, <1>17 DEF BooksInv, BooksBalance, Reconciled

LEMMA CommitRefundBalances ==
    ASSUME IInv, BooksInv, NEW s \in Sessions, CommitRefund(s)
    PROVE  BooksInv'
<1>1. TypeOK /\ pc[s] = "commit"
  BY DEF IInv, CommitRefund
<1>2. PICK c \in Commands : c = cmd[s]
  BY <1>1, AtCommit
<1>3. c.op = "refund" /\ c \in RefundCommand
  BY <1>2, CommandFields DEF CommitRefund
<1>4. c.req \in Requests /\ c.payment \in Requests /\ c.amount \in PosMoney
  BY <1>3 DEF RefundCommand
<1>5. payment[c.payment] # NoRow /\ paymentView[s] = payment[c.payment]
  BY <1>1, <1>2, <1>3 DEF IInv, SessionInv, CopiesFit, AfterFind, AfterLoad
<1> DEFINE paid == payment[c.payment]
           new == AddRefund(paid, c.amount)
           back == NewRefund(c)
<1>6. \A x \in Loaded(s) : x \in Bills /\ x = paid.bill /\ billView[s][x] = bill[x]
  BY <1>1, <1>2, <1>3, <1>5, AtCommit DEF Selected
<1>7. paid.bill \in Loaded(s) /\ paid.bill \in Bills
  BY <1>1, <1>6, AtCommit
<1>8. paid \in PaymentRow
  BY <1>1, <1>4, <1>5 DEF TypeOK
<1>9. /\ new \in PaymentRow /\ new # NoRow
      /\ new.refunded = paid.refunded + c.amount
  BY <1>4, <1>8, NoRowAssumption DEF AddRefund, PaymentRow, Money, PosMoney
<1>10. back \in RefundRow /\ back.payment = c.payment /\ back.amount = c.amount
  BY <1>4 DEF NewRefund, RefundRow
<1>11. /\ payment' = [payment EXCEPT ![c.payment] = new]
       /\ refund' = [refund EXCEPT ![c.req] = back] /\ refund[c.req] = NoRow
       /\ award' = award
  BY <1>2, <1>5 DEF CommitRefund, RefundFits, RefundedPayment
<1>12. /\ payment'[c.payment] = new
       /\ \A r \in Requests : r # c.payment => payment'[r] = payment[r]
       /\ refund'[c.req] = back
       /\ \A r \in Requests : r # c.req => refund'[r] = refund[r]
  BY <1>1, <1>4, <1>11 DEF TypeOK
<1>13. \A x \in Bills : bill'[x] = IF x = paid.bill THEN Pay(bill[x], -c.amount) ELSE bill[x]
  BY <1>2, <1>6, <1>7 DEF CommitRefund, PaidBills
<1>14. /\ IsFiniteSet({r \in Requests : payment[r] # NoRow})
       /\ IsFiniteSet({r \in Requests : refund[r] # NoRow})
       /\ payment \in [Requests -> PaymentRow \cup {NoRow}]
       /\ refund \in [Requests -> RefundRow \cup {NoRow}]
  BY <1>1 DEF TypeOK, BooksInv, RowsFinite
<1>15. ASSUME NEW x \in Bills
       PROVE  bill'[x].paid = NetPayments(x)' /\ bill'[x].discount = Concessions(x)'
  <2>1. bill[x].paid = NetPayments(x) /\ bill[x].discount = Concessions(x)
    BY DEF BooksInv, BooksBalance, Reconciled
  <2>2. bill[x] \in BillRow
    BY <1>1 DEF TypeOK
  <2>3. NetPayments(x)' = NetPayments(x) - (IF paid.bill = x THEN c.amount ELSE 0)
    <3>1. SumFunction(HeldBy(payment', x)) =
            SumFunction(HeldBy(payment, x)) - (IF paid.bill = x THEN c.amount ELSE 0)
      BY ZenonT(30), <1>4, <1>5, <1>11, <1>14, RefundCounts
    <3>2. QED
      BY <3>1, SumsOfTables
  <2>4. Concessions(x)' = Concessions(x)
    BY <1>11, SumsOfTables
  <2>5. c.amount \in Int /\ -c.amount \in Int /\ bill[x].paid \in Int
    BY <1>4, <2>2 DEF PosMoney, BillRow, Money
  <2>6. /\ bill'[x].paid = bill[x].paid - (IF paid.bill = x THEN c.amount ELSE 0)
        /\ bill'[x].discount = bill[x].discount
    <3>1. CASE x = paid.bill
      <4>1. /\ bill'[x].paid = bill[x].paid + (-c.amount)
            /\ bill'[x].discount = bill[x].discount
        BY <1>13, <2>2, <2>5, <3>1, PayChanges
      <4>2. QED
        BY <2>5, <3>1, <4>1
    <3>2. CASE x # paid.bill
      BY <1>13, <2>5, <3>2
    <3>3. QED
      BY <3>1, <3>2
  <2>7. QED
    BY <2>1, <2>3, <2>4, <2>6
<1>16. ASSUME NEW r \in Requests, payment'[r] # NoRow
       PROVE  payment'[r].refunded = Returned(r)'
  <2>1. Returned(r)' = Returned(r) + (IF c.payment = r THEN c.amount ELSE 0)
    <3>1. SumFunction(RefundedBy(refund', r)) =
            SumFunction(RefundedBy(refund, r)) + (IF c.payment = r THEN c.amount ELSE 0)
      <4> HIDE DEF back
      <4>1. PICK row \in RefundRow : row = back
        BY <1>10
      <4>2. SumFunction(RefundedBy([refund EXCEPT ![c.req] = row], r)) =
              SumFunction(RefundedBy(refund, r))
                + (IF row.payment = r THEN row.amount ELSE 0)
        BY <1>4, <1>11, <1>14, RefundRowCounts
      <4>3. QED
        BY <1>10, <1>11, <4>1, <4>2
    <3>2. QED
      BY <3>1, SumsOfTables
  <2>2. payment[r] # NoRow
    BY <1>5, <1>12, <1>16
  <2>3. payment[r].refunded = Returned(r) /\ payment[r].refunded \in Int
    BY <1>1, <2>2 DEF BooksInv, BooksBalance, Reconciled, TypeOK, PaymentRow, Money
  <2>4. CASE r = c.payment
    BY <1>9, <1>12, <2>1, <2>3, <2>4
  <2>5. CASE r # c.payment
    BY <1>12, <2>1, <2>3, <2>5
  <2>6. QED
    BY <2>4, <2>5
<1>17. AwardsWhole'
  BY <1>11 DEF BooksInv, BooksBalance, AwardsWhole
<1>18. RowsFinite'
  <2>1. IsFiniteSet(RowsOf(payment)) /\ IsFiniteSet(RowsOf(refund))
    BY <1>14 DEF RowsOf
  <2>2. IsFiniteSet(RowsOf(payment')) /\ IsFiniteSet(RowsOf(refund'))
    BY <1>12, <2>1, OneMoreFinite
  <2>3. QED
    BY <1>11, <2>2 DEF BooksInv, RowsFinite, RowsOf
<1>19. RefundsBelong'
  <2>1. ASSUME NEW r \in Requests, refund'[r] # NoRow
        PROVE  payment'[refund'[r].payment] # NoRow
    <3>1. CASE r = c.req
      BY <1>9, <1>10, <1>12, <3>1
    <3>2. CASE r # c.req
      <4>1. refund[r] # NoRow /\ refund'[r] = refund[r] /\ refund[r].payment \in Requests
        BY <1>12, <1>14, <2>1, <3>2 DEF RefundRow
      <4>2. payment[refund[r].payment] # NoRow
        BY <4>1 DEF BooksInv, RefundsBelong
      <4>3. QED
        BY <1>9, <1>12, <4>1, <4>2
    <3>3. QED
      BY <3>1, <3>2
  <2>2. QED
    BY <2>1 DEF RefundsBelong
<1>20. QED
  BY <1>15, <1>16, <1>17, <1>18, <1>19 DEF BooksInv, BooksBalance, Reconciled

LEMMA CommitAwardBalances ==
    ASSUME IInv, BooksInv, NEW s \in Sessions, CommitAward(s)
    PROVE  BooksInv'
<1>1. TypeOK /\ pc[s] = "commit"
  BY DEF IInv, CommitAward
<1>2. PICK c \in Commands : c = cmd[s]
  BY <1>1, AtCommit
<1>3. c.op = "award" /\ c \in AwardCommand
  BY <1>2, CommandFields DEF CommitAward
<1>4. /\ c.req \in Requests /\ c.student \in Students /\ c.year \in Years
      /\ c.kind \in {"fixed", "percentage"} /\ c.value \in PosMoney
      /\ c.bills \in SUBSET Bills
  BY <1>3 DEF AwardCommand
<1>5. AwardAllowed(c, bill) /\ Loaded(s) = AwardEntries(c, bill)
  <2>1. /\ Loaded(s) = Selected(c, paymentView[s], awardView[s], bill)
        /\ Loaded(s) # {}
    BY <1>1, <1>2, AtCommit
  <2>2. Loaded(s) = {b \in Bills : AwardAllowed(c, bill) /\ b \in AwardEntries(c, bill)}
    BY <1>3, <2>1 DEF Selected
  <2>3. QED
    BY <2>1, <2>2 DEF AwardEntries
<1>6. \A b \in Loaded(s) : b \in Bills /\ billView[s][b] = bill[b]
  BY <1>1, AtCommit
<1> DEFINE entries == AwardEntries(c, bill)
           shares == Shares(c, bill, entries)
           owed == Outstanding(bill, entries)
<1>7. PICK new : new = NewAward(c, bill, entries)
  OBVIOUS
<1>8. NewAward(c, billView[s], Loaded(s)) = new
  BY <1>5, <1>6, <1>7, SharesStable
<1>9. /\ bill' = DiscountedBills(s, new.alloc)
      /\ new.alloc \in [Bills -> Money]
      /\ award[c.req] = NoRow
      /\ award' = [award EXCEPT ![c.req] = new]
      /\ payment' = payment /\ refund' = refund
  BY <1>2, <1>8 DEF CommitAward, AwardFits, GrantedAward
<1>10. Budget(c, owed) \in PosMoney /\ Budget(c, owed) <= owed
  BY <1>5, BudgetPositive DEF AwardAllowed
<1>11. new.alloc = shares /\ new.applied = Budget(c, owed) /\ new.active
  BY <1>7 DEF NewAward
<1>12. new \in AwardRow /\ new # NoRow
  <2>1. new \in AwardRow
    BY <1>4, <1>7, <1>9, <1>10, <1>11 DEF NewAward, AwardRow
  <2>2. QED
    BY <2>1, NoRowAssumption
<1>13. SumFunction(new.alloc) = new.applied
  <2>1. entries \in SUBSET Bills /\ \A e \in entries : bill[e].balance \in Nat
    BY <1>1 DEF TypeOK, AwardEntries, BillRow, Money
  <2>2. c.value \in Nat
    BY <1>4 DEF PosMoney
  <2>3. SumFunction(shares) = Budget(c, owed)
    <3> HIDE DEF entries
    <3>1. QED
      BY <1>4, <1>10, <2>1, <2>2, SharesWhole
  <2>4. QED
    BY <1>11, <2>3
<1>14. \A b \in Bills \ Loaded(s) : new.alloc[b] = 0
  BY <1>5, <1>11 DEF Shares
<1> HIDE DEF entries, shares, owed
<1>15. award'[c.req] = new /\ \A r \in Requests : r # c.req => award'[r] = award[r]
  BY <1>1, <1>4, <1>9 DEF TypeOK
<1>16. ASSUME NEW x \in Bills
       PROVE  bill'[x].paid = NetPayments(x)' /\ bill'[x].discount = Concessions(x)'
  <2>1. bill[x].paid = NetPayments(x) /\ bill[x].discount = Concessions(x)
    BY DEF BooksInv, BooksBalance, Reconciled
  <2>2. bill[x] \in BillRow
    BY <1>1 DEF TypeOK
  <2>3. NetPayments(x)' = NetPayments(x)
    BY <1>9, SumsOfTables
  <2>4. Concessions(x)' = Concessions(x) + new.alloc[x]
    <3>1. IsFiniteSet({r \in Requests : award[r] # NoRow})
      BY DEF BooksInv, RowsFinite
    <3>2. award \in [Requests -> AwardRow \cup {NoRow}]
      BY <1>1 DEF TypeOK
    <3>3. SumFunction(AllottedBy(award', x)) =
            SumFunction(AllottedBy(award, x)) + new.alloc[x]
      BY <1>4, <1>9, <1>11, <1>12, <3>1, <3>2, AwardCounts
    <3>4. QED
      BY <3>3, SumsOfTables
  <2>5. new.alloc[x] \in Int /\ bill[x].discount \in Int
    BY <1>9, <2>2 DEF BillRow, Money
  <2>6. /\ bill'[x].paid = bill[x].paid
        /\ bill'[x].discount = bill[x].discount + new.alloc[x]
    <3>1. CASE x \in Loaded(s)
      <4>1. bill'[x] = Discount(bill[x], new.alloc[x])
        BY <1>6, <1>9, <3>1 DEF DiscountedBills
      <4>2. QED
        BY <2>2, <2>5, <4>1, DiscountChanges
    <3>2. CASE x \notin Loaded(s)
      <4>1. bill'[x] = bill[x] /\ new.alloc[x] = 0
        BY <1>9, <1>14, <3>2 DEF DiscountedBills
      <4>2. QED
        BY <2>5, <4>1
    <3>3. QED
      BY <3>1, <3>2
  <2>7. QED
    BY <2>1, <2>3, <2>4, <2>6
<1>17. ASSUME NEW r \in Requests, payment'[r] # NoRow
       PROVE  payment'[r].refunded = Returned(r)'
  <2>1. Returned(r)' = Returned(r)
    BY <1>9, SumsOfTables
  <2>2. QED
    BY <1>9, <1>17, <2>1 DEF BooksInv, BooksBalance, Reconciled
<1>18. AwardsWhole'
  BY <1>13, <1>15 DEF BooksInv, BooksBalance, AwardsWhole
<1>19. RowsFinite'
  <2>1. IsFiniteSet(RowsOf(award))
    BY DEF BooksInv, RowsFinite, RowsOf
  <2>2. IsFiniteSet(RowsOf(award'))
    BY <1>15, <2>1, OneMoreFinite
  <2>3. QED
    BY <1>9, <2>2 DEF BooksInv, RowsFinite, RowsOf
<1>20. RefundsBelong'
  BY <1>9 DEF BooksInv, RefundsBelong
<1>21. QED
  BY <1>16, <1>17, <1>18, <1>19, <1>20 DEF BooksInv, BooksBalance, Reconciled

LEMMA CommitReversalBalances ==
    ASSUME IInv, BooksInv, NEW s \in Sessions, CommitReversal(s)
    PROVE  BooksInv'
<1>1. TypeOK /\ pc[s] = "commit"
  BY DEF IInv, CommitReversal
<1>2. PICK c \in Commands : c = cmd[s]
  BY <1>1, AtCommit
<1>3. c.op = "reverse" /\ c.award \in Requests
  BY <1>2, CommandFields DEF CommitReversal, ReverseCommand
<1>4. award[c.award] # NoRow /\ awardView[s] = award[c.award] /\ award[c.award].active
  BY <1>1, <1>2, <1>3 DEF IInv, SessionInv, CopiesFit, AfterFind, AfterLoad
<1>5. PICK old : old = award[c.award]
  OBVIOUS
<1>6. PICK new : new = [old EXCEPT !.active = FALSE]
  OBVIOUS
<1>7. old \in AwardRow
  BY <1>1, <1>3, <1>4, <1>5 DEF TypeOK
<1>8. /\ new # NoRow /\ ~new.active
      /\ new.alloc = old.alloc /\ new.applied = old.applied
  <2>1. new \in AwardRow
    BY <1>6, <1>7 DEF AwardRow
  <2>2. QED
    BY <1>6, <1>7, <2>1, NoRowAssumption DEF AwardRow
<1>9. Loaded(s) = Allocated(old)
  <2>1. /\ Loaded(s) = Selected(c, paymentView[s], awardView[s], bill)
        /\ Loaded(s) # {}
    BY <1>1, <1>2, AtCommit
  <2>2. Loaded(s) = {b \in Bills : ReversalAllowed(old, bill) /\ b \in Allocated(old)}
    BY <1>3, <1>4, <1>5, <2>1 DEF Selected
  <2>3. QED
    BY <2>1, <2>2 DEF Allocated
<1>10. \A b \in Loaded(s) : b \in Bills /\ billView[s][b] = bill[b]
  BY <1>1, AtCommit
<1>11. /\ bill' = DiscountedBills(s, Negated(old.alloc))
       /\ award' = [award EXCEPT ![c.award] = new]
       /\ payment' = payment /\ refund' = refund
  BY <1>2, <1>4, <1>5, <1>6 DEF CommitReversal
<1>12. award'[c.award] = new /\ \A r \in Requests : r # c.award => award'[r] = award[r]
  BY <1>1, <1>3, <1>11 DEF TypeOK
<1>13. ASSUME NEW x \in Bills
       PROVE  bill'[x].paid = NetPayments(x)' /\ bill'[x].discount = Concessions(x)'
  <2>1. bill[x].paid = NetPayments(x) /\ bill[x].discount = Concessions(x)
    BY DEF BooksInv, BooksBalance, Reconciled
  <2>2. bill[x] \in BillRow
    BY <1>1 DEF TypeOK
  <2>3. NetPayments(x)' = NetPayments(x)
    BY <1>11, SumsOfTables
  <2>4. Concessions(x)' = Concessions(x) - old.alloc[x]
    <3>1. IsFiniteSet({r \in Requests : award[r] # NoRow})
      BY DEF BooksInv, RowsFinite
    <3>2. award \in [Requests -> AwardRow \cup {NoRow}]
      BY <1>1 DEF TypeOK
    <3>3. SumFunction(AllottedBy(award', x)) =
            SumFunction(AllottedBy(award, x)) - old.alloc[x]
      BY <1>3, <1>4, <1>5, <1>8, <1>11, <3>1, <3>2, ReversalCounts
    <3>4. QED
      BY <3>3, SumsOfTables
  <2>5. old.alloc[x] \in Nat /\ -old.alloc[x] \in Int /\ bill[x].discount \in Int
    BY <1>7, <2>2 DEF AwardRow, BillRow, Money
  <2>6. /\ bill'[x].paid = bill[x].paid
        /\ bill'[x].discount = bill[x].discount - old.alloc[x]
    <3>1. CASE x \in Loaded(s)
      <4>1. bill'[x] = Discount(bill[x], -old.alloc[x])
        BY <1>10, <1>11, <3>1 DEF DiscountedBills, Negated
      <4>2. /\ bill'[x].paid = bill[x].paid
            /\ bill'[x].discount = bill[x].discount + (-old.alloc[x])
        BY <2>2, <2>5, <4>1, DiscountChanges
      <4>3. QED
        BY <2>5, <4>2
    <3>2. CASE x \notin Loaded(s)
      <4>1. bill'[x] = bill[x] /\ old.alloc[x] = 0
        BY <1>9, <1>11, <2>5, <3>2 DEF DiscountedBills, Allocated
      <4>2. QED
        BY <2>5, <4>1
    <3>3. QED
      BY <3>1, <3>2
  <2>7. QED
    BY <2>1, <2>3, <2>4, <2>6
<1>14. ASSUME NEW r \in Requests, payment'[r] # NoRow
       PROVE  payment'[r].refunded = Returned(r)'
  <2>1. Returned(r)' = Returned(r)
    BY <1>11, SumsOfTables
  <2>2. QED
    BY <1>11, <1>14, <2>1 DEF BooksInv, BooksBalance, Reconciled
<1>15. AwardsWhole'
  <2>1. SumFunction(old.alloc) = old.applied
    BY <1>3, <1>4, <1>5 DEF BooksInv, BooksBalance, AwardsWhole
  <2>2. QED
    BY <1>8, <1>12, <2>1 DEF BooksInv, BooksBalance, AwardsWhole
<1>16. RowsFinite'
  <2>1. IsFiniteSet(RowsOf(award))
    BY DEF BooksInv, RowsFinite, RowsOf
  <2>2. IsFiniteSet(RowsOf(award'))
    BY <1>12, <2>1, OneMoreFinite
  <2>3. QED
    BY <1>11, <2>2 DEF BooksInv, RowsFinite, RowsOf
<1>17. RefundsBelong'
  BY <1>11 DEF BooksInv, RefundsBelong
<1>18. QED
  BY <1>13, <1>14, <1>15, <1>16, <1>17 DEF BooksInv, BooksBalance, Reconciled

-----------------------------------------------------------------------------

\* The books depend on the tables alone.
LEMMA StillBalanced ==
    ASSUME BooksInv, UNCHANGED tables
    PROVE  BooksInv'
<1>1. bill' = bill /\ payment' = payment /\ refund' = refund /\ award' = award
  BY DEF tables
<1>2. /\ \A b : NetPayments(b)' = NetPayments(b) /\ Concessions(b)' = Concessions(b)
      /\ \A p : Returned(p)' = Returned(p)
  BY <1>1, SumsOfTables
<1>3. Reconciled'
  BY <1>1, <1>2 DEF BooksInv, BooksBalance, Reconciled
<1>4. AwardsWhole' /\ RowsFinite' /\ RefundsBelong'
  BY <1>1 DEF BooksInv, BooksBalance, AwardsWhole, RowsFinite, RefundsBelong
<1>5. QED
  BY <1>3, <1>4 DEF BooksInv, BooksBalance

LEMMA NoRowsBalance == Init => BooksInv
<1> SUFFICES ASSUME Init PROVE BooksInv
  OBVIOUS
<1>1. \A b \in Bills : NetPayments(b) = 0 /\ Concessions(b) = 0
  <2>1. \A b \in Bills : /\ DOMAIN HeldBy(payment, b) = {}
                         /\ DOMAIN AllottedBy(award, b) = {}
    BY DEF Init, HeldBy, AllottedBy
  <2>2. QED
    BY <2>1, TotalNone, SumsOfTables
<1>2. Reconciled
  BY <1>1 DEF Init, Reconciled, NewBill
<1>3. AwardsWhole /\ RefundsBelong
  BY DEF Init, AwardsWhole, RefundsBelong
<1>4. RowsFinite
  <2>1. /\ {r \in Requests : payment[r] # NoRow} = {}
        /\ {r \in Requests : refund[r] # NoRow} = {}
        /\ {r \in Requests : award[r] # NoRow} = {}
    BY DEF Init
  <2>2. QED
    BY <2>1, FS_EmptySet DEF RowsFinite
<1>5. QED
  BY <1>2, <1>3, <1>4 DEF BooksInv, BooksBalance

LEMMA StepBalances == IInv /\ BooksInv /\ [Next]_vars => BooksInv'
<1> SUFFICES ASSUME IInv, BooksInv, [Next]_vars PROVE BooksInv'
  OBVIOUS
<1>1. ASSUME NEW s \in Sessions, Submit(s) \/ Wait(s) \/ Abort(s) PROVE BooksInv'
  <2>1. UNCHANGED tables
    BY <1>1 DEF Submit, Wait, LockRequest, LockStudent, LockPayment, LockBills, Abort
  <2>2. QED
    BY <2>1, StillBalanced
<1>2. ASSUME NEW s \in Sessions, Work(s) PROVE BooksInv'
  <2>1. CASE Commit(s)
    BY <2>1, CommitPaymentBalances, CommitRefundBalances, CommitAwardBalances,
       CommitReversalBalances DEF Commit
  <2>2. CASE FindPayment(s) \/ FindAward(s) \/ StartFresh(s) \/ Replay(s) \/ Refuse(s)
    <3>1. UNCHANGED tables
      BY <2>2 DEF FindPayment, FindAward, StartFresh, Replay, Refuse
    <3>2. QED
      BY <3>1, StillBalanced
  <2>3. QED
    BY <1>2, <2>1, <2>2 DEF Work
<1>3. CASE UNCHANGED vars
  BY <1>3, StillBalanced DEF vars
<1>4. QED
  BY <1>1, <1>2, <1>3 DEF Next

\* In every state of every execution the totals on bills and payments are the
\* sums of the rows they summarise, and an award's parts add up to what it
\* applied, however the collections, refunds, awards and reversals interleave.
THEOREM BooksStayBalanced == Spec => []BooksBalance
<1>1. Init => BooksInv
  BY NoRowsBalance
<1>2. IInv /\ BooksInv /\ [Next]_vars => BooksInv'
  BY StepBalances
<1>3. BooksInv => BooksBalance
  BY DEF BooksInv
<1>4. QED
  BY <1>1, <1>2, <1>3, Invariance, PTL DEF Spec

-----------------------------------------------------------------------------
(* The service's checks imply the constraints: a call that reaches its commit *)
(* is not refused there.                                                      *)

LEMMA NewRowsMeetChecks == Init => PassChecks(bill)
<1> SUFFICES ASSUME Init, NEW b \in Bills PROVE MeetsChecks(b, bill[b])
  BY DEF PassChecks
<1>1. Terms[b].amount \in Nat
  BY TermsAssumption DEF PosMoney
<1>2. bill[b] = NewBill(b)
  BY DEF Init
<1>3. QED
  BY <1>1, <1>2 DEF NewBill, MeetsChecks, BillRow, BillStatus, Money

LEMMA StepMeetsChecks == PassChecks(bill) /\ [Next]_vars => PassChecks(bill')
<1> SUFFICES ASSUME PassChecks(bill), [Next]_vars PROVE PassChecks(bill')
  OBVIOUS
<1>1. ASSUME NEW s \in Sessions, Submit(s) \/ Wait(s) \/ Abort(s)
      PROVE  bill' = bill
  BY <1>1 DEF Submit, Wait, LockRequest, LockStudent, LockPayment, LockBills,
     Abort, tables
<1>2. ASSUME NEW s \in Sessions, Work(s)
      PROVE  bill' = bill \/ PassChecks(bill')
  <2>1. CASE FindPayment(s) \/ FindAward(s) \/ StartFresh(s) \/ Replay(s) \/ Refuse(s)
    BY <2>1 DEF FindPayment, FindAward, StartFresh, Replay, Refuse, tables
  <2>2. CASE Commit(s)
    BY <2>2 DEF Commit, CommitPayment, PaymentFits, CommitRefund, RefundFits,
       CommitAward, AwardFits, CommitReversal, ReversalFits
  <2>3. QED
    BY <1>2, <2>1, <2>2 DEF Work
<1>3. CASE UNCHANGED vars
  BY <1>3 DEF vars, tables
<1>4. QED
  BY <1>1, <1>2, <1>3 DEF Next

\* A payment up to the balance, or its return up to what was paid, leaves a
\* bill within its constraints.
LEMMA PayMeetsChecks ==
    ASSUME NEW b \in Bills, NEW row, MeetsChecks(b, row), NEW amount \in Int,
           amount <= row.balance, -amount <= row.paid
    PROVE  MeetsChecks(b, Pay(row, amount))
<1>1. /\ row \in BillRow /\ row.due \in Nat /\ row.paid \in Nat
      /\ row.discount \in Nat /\ row.balance = row.due - row.paid
  BY DEF MeetsChecks, BillRow, Money
<1>2. row.paid + amount \in Nat /\ row.due - (row.paid + amount) \in Nat
  BY <1>1
<1>3. LedgerStatus(row.due, row.due - (row.paid + amount)) \in BillStatus
  BY DEF LedgerStatus, BillStatus
<1>4. /\ Pay(row, amount) \in BillRow
      /\ Pay(row, amount).due = row.due
      /\ Pay(row, amount).paid = row.paid + amount
      /\ Pay(row, amount).discount = row.discount
      /\ Pay(row, amount).balance = row.due - (row.paid + amount)
  BY <1>1, <1>2, <1>3 DEF Pay, BillRow, Money
<1>5. QED
  BY <1>4 DEF MeetsChecks

\* So does a discount up to the balance, or its return up to what was given.
LEMMA DiscountMeetsChecks ==
    ASSUME NEW b \in Bills, NEW row, MeetsChecks(b, row), NEW amount \in Int,
           amount <= row.balance, -amount <= row.discount
    PROVE  MeetsChecks(b, Discount(row, amount))
<1>1. /\ row \in BillRow /\ row.due \in Nat /\ row.paid \in Nat
      /\ row.discount \in Nat /\ row.balance \in Nat
      /\ row.balance = row.due - row.paid
      /\ row.discount = Terms[b].amount - row.due
  BY DEF MeetsChecks, BillRow, Money
<1>2. Terms[b].amount \in Nat
  BY TermsAssumption DEF PosMoney
<1>3. /\ row.due - amount \in Nat /\ row.balance - amount \in Nat
      /\ row.discount + amount \in Nat
  BY <1>1
<1>4. LedgerStatus(row.due - amount, row.balance - amount) \in BillStatus
  BY DEF LedgerStatus, BillStatus
<1>5. /\ Discount(row, amount) \in BillRow
      /\ Discount(row, amount).due = row.due - amount
      /\ Discount(row, amount).paid = row.paid
      /\ Discount(row, amount).discount = row.discount + amount
      /\ Discount(row, amount).balance = row.balance - amount
  BY <1>1, <1>3, <1>4 DEF Discount, BillRow, Money
<1>6. QED
  BY <1>1, <1>2, <1>5 DEF MeetsChecks

\* ROUND_HALF_UP of at most a whole more is at most one more.
LEMMA HalfUpGrows ==
    ASSUME NEW n \in Nat, NEW k \in Nat, NEW m \in Nat, m <= 100 * k
    PROVE  /\ HalfUp(n, 100) <= HalfUp(n + m, 100)
           /\ HalfUp(n + m, 100) <= HalfUp(n, 100) + k
<1>1. /\ (2 * n + 100) \div 200 <= (2 * (n + m) + 100) \div 200
      /\ (2 * (n + m) + 100) \div 200 <= (2 * n + 100) \div 200 + k
  OBVIOUS
<1>2. QED
  BY <1>1 DEF HalfUp

\* What an award gives a bill is at most what the bill is still owed.
LEMMA ShareFits ==
    ASSUME NEW c, c.kind \in {"fixed", "percentage"}, c.value \in Nat,
           c.kind = "percentage" => c.value <= 100,
           NEW rows, NEW entries, IsFiniteSet(entries),
           \A e \in entries : rows[e].balance \in Nat, NEW b \in entries
    PROVE  /\ Share(c, rows, entries, b) \in Nat
           /\ Share(c, rows, entries, b) <= rows[b].balance
<1> DEFINE before == Outstanding(rows, {e \in entries : e < b})
           balance == rows[b].balance
<1>1. before \in Nat /\ balance \in Nat
  BY ShareGrows
<1>2. Share(c, rows, entries, b) =
        GivenUpTo(c, before + balance) - GivenUpTo(c, before)
  BY ShareGrows
<1> HIDE DEF before, balance
<1>3. CASE c.kind = "percentage"
  <2>1. /\ before * c.value \in Nat /\ balance * c.value \in Nat
        /\ balance * c.value <= 100 * balance
        /\ (before + balance) * c.value = before * c.value + balance * c.value
    BY <1>1, <1>3
  <2>2. /\ HalfUp(before * c.value, 100) \in Int
        /\ HalfUp(before * c.value + balance * c.value, 100) \in Int
    BY <2>1, HalfUpInt
  <2>3. /\ HalfUp(before * c.value, 100) <= HalfUp(before * c.value + balance * c.value, 100)
        /\ HalfUp(before * c.value + balance * c.value, 100)
             <= HalfUp(before * c.value, 100) + balance
    BY <1>1, <2>1, HalfUpGrows
  <2>4. /\ GivenUpTo(c, before) = HalfUp(before * c.value, 100)
        /\ GivenUpTo(c, before + balance) = HalfUp(before * c.value + balance * c.value, 100)
    BY <1>3, <2>1 DEF GivenUpTo
  <2>5. QED
    BY <1>1, <1>2, <2>2, <2>3, <2>4 DEF balance
<1>4. CASE c.kind = "fixed"
  <2>1. /\ GivenUpTo(c, before) = IF before <= c.value THEN before ELSE c.value
        /\ GivenUpTo(c, before + balance) =
             IF before + balance <= c.value THEN before + balance ELSE c.value
    BY <1>4 DEF GivenUpTo
  <2>2. QED
    BY <1>1, <1>2, <2>1 DEF balance
<1>5. QED
  BY <1>3, <1>4

LEMMA PaymentIsFit ==
    ASSUME IInv, PassChecks(bill), NEW s \in Sessions, pc[s] = "commit",
           cmd[s].op = "collect"
    PROVE  PaymentFits(s)
<1>1. PICK c \in Commands : c = cmd[s]
  BY AtCommit
<1>2. c.op = "collect" /\ c \in CollectCommand /\ c.amount \in Nat
  BY <1>1, CommandFields DEF CollectCommand, PosMoney
<1>3. \A x \in Loaded(s) : x \in Bills /\ PaysBill(c, x, bill) /\ billView[s][x] = bill[x]
  BY <1>1, <1>2, AtCommit DEF Selected
<1>4. ASSUME NEW b \in Bills
      PROVE  MeetsChecks(b, PaidBills(s, c.amount)[b])
  <2>1. MeetsChecks(b, bill[b])
    BY DEF PassChecks
  <2>2. CASE b \in Loaded(s)
    <3>1. bill[b].paid \in Nat
      BY <2>1 DEF MeetsChecks, BillRow, Money
    <3>2. c.amount <= bill[b].balance /\ -c.amount <= bill[b].paid
      BY <1>2, <1>3, <2>2, <3>1 DEF PaysBill
    <3>3. MeetsChecks(b, Pay(bill[b], c.amount))
      BY <1>2, <2>1, <3>2, PayMeetsChecks
    <3>4. QED
      BY <1>3, <2>2, <3>3 DEF PaidBills
  <2>3. QED
    BY <2>1, <2>2 DEF PaidBills
<1>5. Loaded(s) # {} /\ payment[c.req] = NoRow
  <2>1. SessionInv(s)
    BY DEF IInv
  <2>2. QED
    BY <1>1, <1>2, <2>1, AtCommit DEF SessionInv, RequestIsNew, AfterReplay
<1>6. QED
  BY <1>1, <1>4, <1>5 DEF PaymentFits, PassChecks

LEMMA RefundIsFit ==
    ASSUME IInv, PassChecks(bill), NEW s \in Sessions, pc[s] = "commit",
           cmd[s].op = "refund"
    PROVE  RefundFits(s)
<1>1. PICK c \in Commands : c = cmd[s]
  BY AtCommit
<1>2. /\ c.op = "refund" /\ c \in RefundCommand
      /\ c.payment \in Requests /\ c.amount \in Nat
  BY <1>1, CommandFields DEF RefundCommand, PosMoney
<1>3. SessionInv(s) /\ TypeOK
  BY DEF IInv
<1>4. payment[c.payment] # NoRow /\ paymentView[s] = payment[c.payment]
  BY <1>1, <1>2, <1>3 DEF SessionInv, CopiesFit, AfterFind, AfterLoad
<1> DEFINE paid == payment[c.payment]
<1>5. paid.amount \in Nat /\ paid.refunded \in Nat /\ paid \in PaymentRow
  BY <1>2, <1>3, <1>4 DEF TypeOK, PaymentRow, Money, PosMoney
<1>6. \A x \in Loaded(s) : /\ x \in Bills /\ billView[s][x] = bill[x]
                           /\ RefundAllowed(c, paid, bill[x])
  BY <1>1, <1>2, <1>4, AtCommit DEF Selected
<1>7. ASSUME NEW b \in Bills
      PROVE  MeetsChecks(b, PaidBills(s, -c.amount)[b])
  <2>1. MeetsChecks(b, bill[b])
    BY DEF PassChecks
  <2>2. CASE b \in Loaded(s)
    <3>1. bill[b].balance \in Nat /\ -(-c.amount) = c.amount /\ -c.amount \in Int
      BY <1>2, <2>1 DEF MeetsChecks, BillRow, Money
    <3>2. -c.amount <= bill[b].balance /\ -(-c.amount) <= bill[b].paid
      BY <1>2, <1>6, <2>2, <3>1 DEF RefundAllowed
    <3>3. MeetsChecks(b, Pay(bill[b], -c.amount))
      BY <2>1, <3>1, <3>2, PayMeetsChecks
    <3>4. QED
      BY <1>6, <2>2, <3>3 DEF PaidBills
  <2>3. QED
    BY <2>1, <2>2 DEF PaidBills
<1>8. RefundedPayment(s).refunded <= RefundedPayment(s).amount
  <2>1. PICK x \in Loaded(s) : RefundAllowed(c, paid, bill[x])
    BY <1>6, AtCommit
  <2>2. /\ RefundedPayment(s).refunded = paid.refunded + c.amount
        /\ RefundedPayment(s).amount = paid.amount
    BY <1>1, <1>4, <1>5 DEF RefundedPayment, AddRefund, PaymentRow
  <2>3. QED
    BY <1>2, <1>5, <2>1, <2>2 DEF RefundAllowed
<1>9. refund[c.req] = NoRow
  BY <1>1, <1>2, <1>3 DEF SessionInv, RequestIsNew, AfterReplay
<1>10. QED
  BY <1>1, <1>7, <1>8, <1>9 DEF RefundFits, PassChecks

LEMMA AwardIsFit ==
    ASSUME IInv, PassChecks(bill), NEW s \in Sessions, pc[s] = "commit",
           cmd[s].op = "award"
    PROVE  AwardFits(s)
<1>1. PICK c \in Commands : c = cmd[s]
  BY AtCommit
<1>2. /\ c.op = "award" /\ c.kind \in {"fixed", "percentage"} /\ c.value \in Nat
      /\ c.kind = "percentage" => c.value <= 100
  BY <1>1, CommandFields DEF AwardCommand, PosMoney
<1>3. \A x \in Loaded(s) : x \in Bills /\ billView[s][x] = bill[x]
  BY AtCommit
<1>4. IsFiniteSet(Loaded(s))
  BY BillsAssumption, FS_Subset DEF Loaded
<1>5. \A x \in Loaded(s) : billView[s][x].balance \in Nat
  BY <1>3 DEF PassChecks, MeetsChecks, BillRow, Money
<1> DEFINE alloc == GrantedAward(s).alloc
<1>6. alloc = Shares(c, billView[s], Loaded(s))
  BY <1>1 DEF GrantedAward, NewAward
<1>7. ASSUME NEW b \in Loaded(s)
      PROVE  alloc[b] \in Nat /\ alloc[b] <= bill[b].balance
  <2>1. alloc[b] = Share(c, billView[s], Loaded(s), b)
    BY <1>3, <1>6 DEF Shares
  <2>2. Share(c, billView[s], Loaded(s), b) \in Nat
    BY <1>2, <1>4, <1>5, ShareFits
  <2>3. Share(c, billView[s], Loaded(s), b) <= billView[s][b].balance
    BY <1>2, <1>4, <1>5, ShareFits
  <2>4. QED
    BY <1>3, <2>1, <2>2, <2>3
<1>8. alloc \in [Bills -> Money]
  <2>1. \A b \in Bills : b \notin Loaded(s) => alloc[b] = 0
    BY <1>6 DEF Shares
  <2>2. \A b \in Bills : alloc[b] \in Money
    BY <1>7, <2>1 DEF Money
  <2>3. QED
    BY <1>6, <2>2 DEF Shares
<1> HIDE DEF alloc
<1>9. ASSUME NEW b \in Bills
      PROVE  MeetsChecks(b, DiscountedBills(s, alloc)[b])
  <2>1. MeetsChecks(b, bill[b])
    BY DEF PassChecks
  <2>2. CASE b \in Loaded(s)
    <3>1. bill[b].discount \in Nat /\ alloc[b] \in Int
      BY <1>7, <2>1, <2>2 DEF MeetsChecks, BillRow, Money
    <3>2. alloc[b] <= bill[b].balance /\ -alloc[b] <= bill[b].discount
      BY <1>7, <2>2, <3>1
    <3>3. MeetsChecks(b, Discount(bill[b], alloc[b]))
      BY <2>1, <3>1, <3>2, DiscountMeetsChecks
    <3>4. QED
      BY <1>3, <2>2, <3>3 DEF DiscountedBills
  <2>3. QED
    BY <2>1, <2>2 DEF DiscountedBills
<1>10. award[c.req] = NoRow
  <2>1. SessionInv(s)
    BY DEF IInv
  <2>2. QED
    BY <1>1, <1>2, <2>1 DEF SessionInv, RequestIsNew, AfterReplay
<1>11. QED
  BY <1>1, <1>8, <1>9, <1>10 DEF AwardFits, PassChecks, alloc

LEMMA ReversalIsFit ==
    ASSUME IInv, PassChecks(bill), NEW s \in Sessions, pc[s] = "commit",
           cmd[s].op = "reverse"
    PROVE  ReversalFits(s)
<1>1. PICK c \in Commands : c = cmd[s]
  BY AtCommit
<1>2. c.op = "reverse" /\ c.award \in Requests
  BY <1>1, CommandFields DEF ReverseCommand
<1>3. SessionInv(s) /\ TypeOK
  BY DEF IInv
<1>4. award[c.award] # NoRow /\ awardView[s] = award[c.award]
  BY <1>1, <1>2, <1>3 DEF SessionInv, CopiesFit, AfterFind, AfterLoad
<1> DEFINE old == award[c.award]
           back == Negated(old.alloc)
<1>5. old \in AwardRow
  BY <1>2, <1>3, <1>4 DEF TypeOK
<1>6. \A x \in Loaded(s) : /\ x \in Allocated(old) /\ billView[s][x] = bill[x]
                           /\ ReversalAllowed(old, bill)
  BY <1>1, <1>2, <1>4, AtCommit DEF Selected
<1>7. ASSUME NEW b \in Bills
      PROVE  MeetsChecks(b, DiscountedBills(s, back)[b])
  <2>1. MeetsChecks(b, bill[b])
    BY DEF PassChecks
  <2>2. old.alloc[b] \in Nat /\ back[b] = -old.alloc[b]
    BY <1>5 DEF AwardRow, Money, Negated
  <2>3. CASE b \in Loaded(s)
    <3>1. bill[b].balance \in Nat /\ back[b] \in Int /\ -back[b] = old.alloc[b]
      BY <2>1, <2>2 DEF MeetsChecks, BillRow, Money
    <3>2. old.alloc[b] <= bill[b].discount
      BY <1>6, <2>3 DEF ReversalAllowed
    <3>3. back[b] <= bill[b].balance /\ -back[b] <= bill[b].discount
      BY <2>2, <3>1, <3>2
    <3>4. MeetsChecks(b, Discount(bill[b], back[b]))
      BY <2>1, <3>1, <3>3, DiscountMeetsChecks
    <3>5. QED
      BY <1>6, <2>3, <3>4 DEF DiscountedBills
  <2>4. QED
    BY <2>1, <2>3 DEF DiscountedBills
<1>8. QED
  BY <1>4, <1>7 DEF ReversalFits, PassChecks

\* What the service has checked on the locked rows is enough for every CHECK
\* constraint and unique index its commit meets.
LEMMA ChecksSuffice == IInv /\ PassChecks(bill) => AcceptedCanCommit
<1> SUFFICES ASSUME IInv, PassChecks(bill), NEW s \in Sessions, pc[s] = "commit"
             PROVE  \/ cmd[s].op = "collect" /\ PaymentFits(s)
                    \/ cmd[s].op = "refund"  /\ RefundFits(s)
                    \/ cmd[s].op = "award"   /\ AwardFits(s)
                    \/ cmd[s].op = "reverse" /\ ReversalFits(s)
  BY DEF AcceptedCanCommit
<1>1. cmd[s].op \in {"collect", "refund", "award", "reverse"}
  BY AtCommit, CommandFields
<1>2. QED
  BY <1>1, PaymentIsFit, RefundIsFit, AwardIsFit, ReversalIsFit

\* The commit of a call that has passed the checks of collect_fee,
\* refund_payment, apply_scholarship or reverse_scholarship meets every CHECK
\* constraint and unique index of the tables it writes.
THEOREM AcceptedIsNeverRefused == Spec => []AcceptedCanCommit
<1>1. Init => PassChecks(bill)
  BY NewRowsMeetChecks
<1>2. PassChecks(bill) /\ [Next]_vars => PassChecks(bill)'
  BY StepMeetsChecks DEF PassChecks
<1>3. IInv /\ PassChecks(bill) => AcceptedCanCommit
  BY ChecksSuffice
<1>4. QED
  BY <1>1, <1>2, <1>3, Invariance, PTL DEF Spec

-----------------------------------------------------------------------------
(* No circle of calls waits for each other: a session that holds a lock has   *)
(* passed the phase that takes it, so a session another one waits for is in a *)
(* later phase.                                                               *)

LEMMA LockClasses ==
    ASSUME NEW r, NEW i
    PROVE  /\ RequestLock(r) # StudentLock(i) /\ RequestLock(r) # PaymentLock(i)
           /\ RequestLock(r) # BillLock(i) /\ StudentLock(r) # PaymentLock(i)
           /\ StudentLock(r) # BillLock(i) /\ PaymentLock(r) # BillLock(i)
  BY DEF RequestLock, StudentLock, PaymentLock, BillLock

LEMMA EndInOrder ==
    ASSUME TypeOK, LocksInOrder, NEW s \in Sessions, End(s)
    PROVE  LocksInOrder'
<1>1. ASSUME NEW t \in Sessions
      PROVE  HeldInOrder(t)'
  <2>1. CASE t = s
    BY <2>1 DEF HeldInOrder, TypeOK, End, GoTo
  <2>2. CASE t # s
    BY <2>2 DEF LocksInOrder, HeldInOrder, TypeOK, End, GoTo
  <2>3. QED
    BY <2>1, <2>2
<1>2. QED
  BY <1>1 DEF LocksInOrder

\* A step of session s to another phase, with the locks in new taken.
LEMMA GoesInOrder ==
    ASSUME TypeOK, LocksInOrder, NEW s \in Sessions, NEW phase, NEW new,
           GoTo(s, phase), held' = [held EXCEPT ![s] = @ \cup new],
           phase \notin {"idle", "request"} \/ held[s] \cup new = {},
           \A i \in Students :
             StudentLock(i) \in held[s] \cup new => phase \in AfterStudent,
           \A r \in Requests :
             PaymentLock(r) \in held[s] \cup new => phase \in AfterLoad,
           \A b \in Bills : BillLock(b) \in held[s] \cup new => phase = "commit"
    PROVE  LocksInOrder'
<1>1. ASSUME NEW t \in Sessions
      PROVE  HeldInOrder(t)'
  <2>1. CASE t = s
    <3>1. held'[s] = held[s] \cup new /\ pc'[s] = phase
      BY DEF TypeOK, GoTo
    <3>2. QED
      BY <2>1, <3>1 DEF HeldInOrder
  <2>2. CASE t # s
    <3>1. held'[t] = held[t] /\ pc'[t] = pc[t]
      BY <2>2 DEF TypeOK, GoTo
    <3>2. QED
      BY <3>1 DEF LocksInOrder, HeldInOrder
  <2>3. QED
    BY <2>1, <2>2
<1>2. QED
  BY <1>1 DEF LocksInOrder

LEMMA NoNewLocks ==
    ASSUME TypeOK, NEW s \in Sessions, UNCHANGED held
    PROVE  held' = [held EXCEPT ![s] = @ \cup {}]
  BY DEF TypeOK

LEMMA WaitInOrder ==
    ASSUME IInv, LocksInOrder, NEW s \in Sessions, Wait(s)
    PROVE  LocksInOrder'
<1> USE DEF AfterStudent, AfterLoad
<1>1. TypeOK /\ HeldInOrder(s) /\ PhaseFits(s)
  BY DEF IInv, SessionInv, LocksInOrder
<1>2. CASE LockRequest(s)
  <2>1. PICK phase \in {"find", "student"} : GoTo(s, phase)
    BY <1>2 DEF LockRequest
  <2>2. held[s] = {} /\ held' = [held EXCEPT ![s] = @ \cup {RequestLock(cmd[s].req)}]
    BY <1>1, <1>2 DEF LockRequest, Acquire, HeldInOrder
  <2>3. \A x : x \in held[s] \cup {RequestLock(cmd[s].req)} => x = RequestLock(cmd[s].req)
    BY <2>2
  <2>4. /\ \A i \in Students :
             StudentLock(i) \notin held[s] \cup {RequestLock(cmd[s].req)}
        /\ \A r \in Requests :
             PaymentLock(r) \notin held[s] \cup {RequestLock(cmd[s].req)}
        /\ \A b \in Bills : BillLock(b) \notin held[s] \cup {RequestLock(cmd[s].req)}
    BY <2>3, LockClasses
  <2>5. QED
    BY <1>1, <2>1, <2>2, <2>4, GoesInOrder
<1>3. CASE LockStudent(s)
  <2>1. /\ GoTo(s, "replay") /\ pc[s] = "student"
        /\ held' = [held EXCEPT ![s] = @ \cup {StudentLock(StudentOf(s))}]
    BY <1>3 DEF LockStudent, Acquire
  <2>2. /\ \A r \in Requests :
             PaymentLock(r) \notin held[s] \cup {StudentLock(StudentOf(s))}
        /\ \A b \in Bills : BillLock(b) \notin held[s] \cup {StudentLock(StudentOf(s))}
    BY <1>1, <2>1, LockClasses DEF HeldInOrder
  <2>3. QED
    BY <1>1, <2>1, <2>2, GoesInOrder
<1>4. CASE LockPayment(s)
  <2>1. /\ GoTo(s, "bills") /\ pc[s] = "payment"
        /\ held' = [held EXCEPT ![s] = @ \cup {PaymentLock(cmd[s].payment)}]
    BY <1>4 DEF LockPayment, Acquire
  <2>2. \A b \in Bills : BillLock(b) \notin held[s] \cup {PaymentLock(cmd[s].payment)}
    BY <1>1, <2>1, LockClasses DEF HeldInOrder
  <2>3. QED
    BY <1>1, <2>1, <2>2, GoesInOrder
<1>5. CASE LockBills(s)
  <2>1. /\ GoTo(s, "commit") /\ pc[s] = "bills"
        /\ held' = [held EXCEPT ![s] = @ \cup {BillLock(b) : b \in Selection(s)}]
    BY <1>5 DEF LockBills, Acquire
  <2>2. QED
    BY <1>1, <2>1, GoesInOrder
<1>6. QED
  BY <1>2, <1>3, <1>4, <1>5 DEF Wait

LEMMA WorkInOrder ==
    ASSUME IInv, LocksInOrder, NEW s \in Sessions,
           Submit(s) \/ Work(s) \/ Abort(s)
    PROVE  LocksInOrder'
<1> USE DEF AfterStudent, AfterLoad
<1>1. TypeOK /\ HeldInOrder(s) /\ PhaseFits(s)
  BY DEF IInv, SessionInv, LocksInOrder
<1>2. CASE Submit(s)
  <2>1. PICK phase \in {"find", "request"} : GoTo(s, phase)
    BY <1>2 DEF Submit
  <2>2. held[s] = {} /\ held' = [held EXCEPT ![s] = @ \cup {}]
    BY <1>1, <1>2, NoNewLocks DEF Submit, HeldInOrder
  <2>3. QED
    BY <1>1, <2>1, <2>2, GoesInOrder
<1>3. CASE FindPayment(s) \/ FindAward(s)
  <2>1. GoTo(s, "student") /\ pc[s] = "find" /\ UNCHANGED held
    BY <1>3 DEF FindPayment, FindAward
  <2>2. held' = [held EXCEPT ![s] = @ \cup {}]
    BY <1>1, <2>1, NoNewLocks
  <2>3. QED
    BY <1>1, <2>1, <2>2, GoesInOrder DEF HeldInOrder
<1>4. CASE StartFresh(s)
  <2>1. PICK phase \in {"payment", "bills"} : GoTo(s, phase)
    BY <1>4 DEF StartFresh
  <2>2. pc[s] = "replay" /\ held' = [held EXCEPT ![s] = @ \cup {}]
    BY <1>1, <1>4, NoNewLocks DEF StartFresh
  <2>3. QED
    BY <1>1, <2>1, <2>2, GoesInOrder DEF HeldInOrder
<1>5. CASE Replay(s) \/ Refuse(s) \/ Commit(s) \/ Abort(s)
  <2>1. End(s)
    BY <1>5 DEF Replay, Refuse, Abort, Commit, CommitPayment, CommitRefund,
       CommitAward, CommitReversal
  <2>2. QED
    BY <1>1, <2>1, EndInOrder
<1>6. QED
  BY <1>2, <1>3, <1>4, <1>5 DEF Work

LEMMA StepInOrder == IInv /\ LocksInOrder /\ [Next]_vars => LocksInOrder'
<1> SUFFICES ASSUME IInv, LocksInOrder, [Next]_vars PROVE LocksInOrder'
  OBVIOUS
<1>1. ASSUME NEW s \in Sessions, Submit(s) \/ Wait(s) \/ Work(s) \/ Abort(s)
      PROVE  LocksInOrder'
  BY <1>1, WaitInOrder, WorkInOrder
<1>2. CASE UNCHANGED vars
  BY <1>2 DEF vars, sessions, LocksInOrder, HeldInOrder
<1>3. QED
  BY <1>1, <1>2 DEF Next

\* how many of the four kinds of lock a session in the phase is done with
Progress(phase) ==
    CASE phase \in {"idle", "request"}       -> 0
      [] phase \in {"find", "student"}       -> 1
      [] phase \in {"replay", "payment"}     -> 2
      [] phase = "bills"                     -> 3
      [] OTHER                               -> 4

\* A session waits only for sessions further along, which is the case whatever
\* they wait for themselves.
LEMMA WaitsForLater ==
    ASSUME IInv, LocksInOrder, NEW s \in Sessions, NEW t \in Sessions, WaitsFor(s, t)
    PROVE  Progress(pc[s]) < Progress(pc[t])
<1> USE DEF AfterStudent, AfterLoad, AfterFind
<1>1. /\ HeldInOrder(t) /\ PhaseFits(s) /\ pc[t] \in Phases
      /\ pc[s] # "idle" => cmd[s] \in Commands
  BY DEF IInv, TypeOK, SessionInv, PhaseFits, LocksInOrder
<1>2. CASE pc[s] = "request" /\ RequestLock(cmd[s].req) \in held[t]
  <2>1. pc[t] \notin {"idle", "request"}
    BY <1>1, <1>2 DEF HeldInOrder
  <2>2. QED
    BY <1>1, <1>2, <2>1 DEF Progress, Phases
<1>3. CASE pc[s] = "student" /\ StudentLock(StudentOf(s)) \in held[t]
  <2>1. StudentOf(s) \in Students
    <3>1. SessionInv(s) /\ TypeOK
      BY DEF IInv
    <3>2. CASE cmd[s].op = "refund"
      BY <1>1, <1>3, <3>1, <3>2, CommandFields
         DEF SessionInv, CopiesFit, StudentOf, StudentFor, TypeOK, PaymentRow,
         RefundCommand
    <3>3. CASE cmd[s].op = "reverse"
      BY <1>1, <1>3, <3>1, <3>3, CommandFields
         DEF SessionInv, CopiesFit, StudentOf, StudentFor, TypeOK, AwardRow,
         ReverseCommand
    <3>4. CASE cmd[s].op \in {"collect", "award"}
      BY <1>1, <1>3, <3>4, CommandFields
         DEF StudentOf, StudentFor, CollectCommand, AwardCommand
    <3>5. QED
      BY <1>1, <1>3, <3>2, <3>3, <3>4, CommandFields
  <2>2. pc[t] \in {"replay", "payment", "bills", "commit"}
    BY <1>1, <1>3, <2>1 DEF HeldInOrder
  <2>3. QED
    BY <1>3, <2>2 DEF Progress
<1>4. CASE pc[s] = "payment" /\ PaymentLock(cmd[s].payment) \in held[t]
  <2>1. cmd[s].payment \in Requests
    BY <1>1, <1>4, CommandFields DEF PhaseFits, RefundCommand
  <2>2. pc[t] \in {"bills", "commit"}
    BY <1>1, <1>4, <2>1 DEF HeldInOrder
  <2>3. QED
    BY <1>4, <2>2 DEF Progress
<1>5. CASE pc[s] = "bills" /\ \E b \in Selection(s) : BillLock(b) \in held[t]
  <2>1. pc[t] = "commit"
    BY <1>1, <1>5 DEF HeldInOrder, Selection, Selected
  <2>2. QED
    BY <1>5, <2>1 DEF Progress
<1>6. QED
  BY <1>2, <1>3, <1>4, <1>5 DEF WaitsFor

\* A set of sessions, however large, has one that is furthest along.
LEMMA FurthestAlong ==
    ASSUME NEW S \in SUBSET Sessions, S # {}
    PROVE  \E s \in S : \A t \in S : Progress(pc[t]) <= Progress(pc[s])
<1> DEFINE At(n) == \E s \in S : Progress(pc[s]) = n
<1>1. \A s \in S : Progress(pc[s]) \in {0, 1, 2, 3, 4}
  BY DEF Progress
<1>2. CASE At(4)
  BY <1>1, <1>2
<1>3. CASE ~At(4) /\ At(3)
  BY <1>1, <1>3
<1>4. CASE ~At(4) /\ ~At(3) /\ At(2)
  BY <1>1, <1>4
<1>5. CASE ~At(4) /\ ~At(3) /\ ~At(2) /\ At(1)
  BY <1>1, <1>5
<1>6. CASE ~At(4) /\ ~At(3) /\ ~At(2) /\ ~At(1)
  BY <1>1, <1>6
<1>7. QED
  BY <1>2, <1>3, <1>4, <1>5, <1>6

\* However many sessions of FeeService run, none of the circles they could
\* form is one of calls waiting for each other's locks.
THEOREM NeverCircularWait == Spec => []NoCircularWait
<1>1. Init => LocksInOrder
  BY DEF Init, LocksInOrder, HeldInOrder
<1>2. IInv /\ LocksInOrder /\ [Next]_vars => LocksInOrder'
  BY StepInOrder
<1>3. IInv /\ LocksInOrder => NoCircularWait
  <2> SUFFICES ASSUME IInv, LocksInOrder, NEW S \in SUBSET Sessions, S # {}
               PROVE  \E s \in S : \A t \in S : ~WaitsFor(s, t)
    BY DEF NoCircularWait
  <2>1. PICK s \in S : \A t \in S : Progress(pc[t]) <= Progress(pc[s])
    BY FurthestAlong
  <2>2. ASSUME NEW t \in S, WaitsFor(s, t)
        PROVE  FALSE
    <3>1. Progress(pc[s]) < Progress(pc[t])
      BY <2>2, WaitsForLater
    <3>2. Progress(pc[s]) \in Nat /\ Progress(pc[t]) \in Nat
      BY DEF Progress
    <3>3. QED
      BY <2>1, <3>1, <3>2
  <2>3. QED
    BY <2>2
<1>4. QED
  BY <1>1, <1>2, <1>3, Invariance, PTL DEF Spec

================================================================================
