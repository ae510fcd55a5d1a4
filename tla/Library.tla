------------------------------- MODULE Library -------------------------------
(***************************************************************************)
(* The commands of LibraryService as concurrent transactions: issue,       *)
(* return, renew and mark lost, new titles, new copies, changes of a title *)
(* or a copy, and the lending policy.  One action per statement that waits *)
(* or reads what a decision depends on; the writes of a call appear when   *)
(* it commits.                                                             *)
(*                                                                         *)
(* Rows of book_copies and book_issues are locked only by sessions that    *)
(* hold the row of their title, so the title's lock stands for theirs.  A  *)
(* loan is stored under the request id that made it, a copy under its      *)
(* accession; the number n is LIB-n of the automatic numbering.  A date is *)
(* represented by the days a loan is past its due date.                    *)
(***************************************************************************)
EXTENDS Integers, FiniteSets, FiniteSetsExt

CONSTANTS Sessions, Requests, Commands,
          Books, Borrowers,
          Kind,          \* whether a borrower is a student or on the staff
          Leavers,       \* the borrowers who may leave and come back
          Accessions,    \* numbers copies have or may get
          Stock,         \* the copies the library starts with and their titles
          Policies,      \* the lending policies the office may choose
          FirstPolicy,
          MaxLate,       \* days a loan can be late
          NoRow, NoCommand, NoCopy, NoFine

Kinds == {"student", "staff"}
Money == Nat

PolicyRow == [limit: [Kinds -> Nat \ {0}], renewals: Nat, lateRenewal: BOOLEAN,
              rate: Money, cap: Money]

CopyStatus == {"available", "issued", "damaged", "lost", "withdrawn"}

BookRow == [total: Nat, available: Nat, active: BOOLEAN, lendable: BOOLEAN]
CopyRow == [book: Books, status: CopyStatus]
LoanRow == [copy: Accessions, borrower: Borrowers,
            status: {"issued", "returned", "lost"}, fine: Money, renewals: Nat,
            policy: Policies]

IssueCommand  == [op: {"issue"}, req: Requests, book: Books,
                  copy: Accessions \cup {NoCopy}, borrower: Borrowers]
ReturnCommand == [op: {"return"}, req: Requests, loan: Requests,
                  good: BOOLEAN, fine: Money \cup {NoFine}]
RenewCommand  == [op: {"renew"}, req: Requests, loan: Requests]
LostCommand   == [op: {"lost"}, req: Requests, loan: Requests, fine: Money]
\* numbers = {} asks for automatic accession numbers
AddCommand    == [op: {"create", "add"}, req: Requests, book: Books,
                  count: Nat \ {0}, numbers: SUBSET Accessions]
BookCommand   == [op: {"book"}, req: Requests, book: Books,
                  active: BOOLEAN, lendable: BOOLEAN]
CopyCommand   == [op: {"copy"}, req: Requests, copy: Accessions,
                  status: CopyStatus \ {"issued"}]
PolicyCommand == [op: {"policy"}, req: Requests, policy: Policies]

ASSUME LibraryCommandsAssumption ==
    \A c \in Commands :
        \/ c \in IssueCommand \/ c \in ReturnCommand \/ c \in RenewCommand
        \/ c \in LostCommand \/ c \in BookCommand \/ c \in CopyCommand
        \/ c \in PolicyCommand
        \/ /\ c \in AddCommand
           /\ c.numbers # {} => Cardinality(c.numbers) = c.count /\ c.op = "add"
ASSUME LibraryConstantsAssumption ==
    /\ Kind \in [Borrowers -> Kinds] /\ Leavers \subseteq Borrowers
    /\ Accessions \subseteq Nat \ {0} /\ IsFiniteSet(Accessions)
    /\ DOMAIN Stock \subseteq Accessions /\ \A c \in DOMAIN Stock : Stock[c] \in Books
    /\ Policies \subseteq PolicyRow /\ FirstPolicy \in Policies
    /\ MaxLate \in Nat
ASSUME NoLibraryRowAssumption ==
    /\ NoRow \notin BookRow \cup CopyRow \cup LoanRow \cup Policies \cup Commands
    /\ NoCopy \notin Accessions /\ NoFine \notin Money /\ NoCommand \notin Commands

VARIABLES book, copy, loan,   \* the tables
          policy,             \* library_policies, without its counter
          nextNumber,         \* next_accession_number
          event,              \* library_events: the command a request id carried
          acked,              \* the commands some client was told have succeeded
          eligible,           \* borrowers enrolled or employed
          late,               \* days each loan is past its due date
          pc, cmd, held,
          policyView,         \* the policy a session has read
          loanView,           \* the loan row it has loaded under its lock
          chosen              \* the copies it is about to issue or to add

tables   == <<book, copy, loan, policy, nextNumber, event>>
world    == <<eligible, late>>
sessions == <<pc, cmd, held, policyView, loanView, chosen>>
vars     == <<tables, acked, world, sessions>>

Phases == {"idle", "request", "policy", "find", "stock", "borrower", "person",
           "book", "commit"}

RequestLock(r)  == <<"request", r>>
PolicyLock      == <<"policy">>
BorrowerLock(p) == <<"borrower", p>>   \* the advisory lock
PersonLock(p)   == <<"person", p>>     \* the row of the student or staff member
BookLock(b)     == <<"book", b>>

Locks == {RequestLock(r) : r \in Requests} \cup {PolicyLock}
           \cup {BorrowerLock(p) : p \in Borrowers}
           \cup {PersonLock(p) : p \in Borrowers} \cup {BookLock(b) : b \in Books}

TypeOK ==
    /\ book \in [Books -> BookRow \cup {NoRow}]
    /\ copy \in [Accessions -> CopyRow \cup {NoRow}]
    /\ loan \in [Requests -> LoanRow \cup {NoRow}]
    /\ policy \in Policies
    /\ nextNumber \in Nat
    /\ event \in [Requests -> Commands \cup {NoRow}]
    /\ acked \subseteq Commands
    /\ eligible \subseteq Borrowers
    /\ late \in [Requests -> 0 .. MaxLate]
    /\ pc \in [Sessions -> Phases]
    /\ cmd \in [Sessions -> Commands \cup {NoCommand}]
    /\ held \in [Sessions -> SUBSET Locks]
    /\ policyView \in [Sessions -> Policies \cup {NoRow}]
    /\ loanView \in [Sessions -> LoanRow \cup {NoRow}]
    /\ chosen \in [Sessions -> SUBSET Accessions]
    /\ \A s \in Sessions : pc[s] = "idle" => cmd[s] = NoCommand /\ held[s] = {}

-----------------------------------------------------------------------------
(* Stock and fines. *)

CopiesOf(copies, b) == {c \in Accessions : copies[c] # NoRow /\ copies[c].book = b}

OnShelf(copies, b) == {c \in CopiesOf(copies, b) : copies[c].status = "available"}

\* _sync_stock: the counters are counted again from the copies
SyncStock(row, copies, b) ==
    [row EXCEPT !.total = Cardinality({c \in CopiesOf(copies, b) :
                                         copies[c].status # "withdrawn"}),
                !.available = Cardinality(OnShelf(copies, b))]

\* mutant: the fine of an earlier period does not count towards the cap
EstimatedFineAnew(row, days) ==
    LET accrued == row.policy.rate * days
    IN  row.fine + (IF accrued < row.policy.cap THEN accrued ELSE row.policy.cap)

\* estimated_fine of an open loan: the cap of its policy limits what it accrues
EstimatedFine(row, days) ==
    LET accrued   == row.policy.rate * days
        remaining == IF row.fine < row.policy.cap THEN row.policy.cap - row.fine ELSE 0
    IN  row.fine + (IF accrued < remaining THEN accrued ELSE remaining)

\* The loans that hold a copy: out with the borrower, or lost and not recovered.
LoansOn(c, statuses) ==
    {r \in Requests : loan[r] # NoRow /\ loan[r].copy = c /\ loan[r].status \in statuses}

OpenLoans(p) ==
    {r \in Requests : loan[r] # NoRow /\ loan[r].borrower = p /\ loan[r].status = "issued"}

Title(r) == copy[loan[r].copy].book

\* The first numbers from the counter on that no copy carries.
FreshNumbers(count) ==
    LET free == {n \in Accessions : n >= nextNumber /\ copy[n] = NoRow}
    IN  {n \in free : Cardinality({m \in free : m < n}) < count}

-----------------------------------------------------------------------------

Init ==
    /\ copy = [c \in Accessions |->
                 IF c \in DOMAIN Stock THEN [book |-> Stock[c], status |-> "available"]
                 ELSE NoRow]
    /\ book = [b \in Books |->
                 IF CopiesOf(copy, b) = {} THEN NoRow
                 ELSE SyncStock([total |-> 0, available |-> 0, active |-> TRUE,
                                 lendable |-> TRUE], copy, b)]
    /\ loan = [r \in Requests |-> NoRow]
    /\ policy = FirstPolicy
    /\ nextNumber = 1
    /\ event = [r \in Requests |-> NoRow]
    /\ acked = {}
    /\ eligible = Borrowers
    /\ late = [r \in Requests |-> 0]
    /\ pc = [s \in Sessions |-> "idle"]
    /\ cmd = [s \in Sessions |-> NoCommand]
    /\ held = [s \in Sessions |-> {}]
    /\ policyView = [s \in Sessions |-> NoRow]
    /\ loanView = [s \in Sessions |-> NoRow]
    /\ chosen = [s \in Sessions |-> {}]

Free(s, locks) == \A other \in Sessions \ {s} : held[other] \cap locks = {}

\* waits until no other transaction holds any of the locks
Acquire(s, locks) ==
    /\ Free(s, locks)
    /\ held' = [held EXCEPT ![s] = @ \cup locks]

GoTo(s, phase) == pc' = [pc EXCEPT ![s] = phase]

End(s) ==
    /\ GoTo(s, "idle")
    /\ cmd' = [cmd EXCEPT ![s] = NoCommand]
    /\ held' = [held EXCEPT ![s] = {}]
    /\ policyView' = [policyView EXCEPT ![s] = NoRow]
    /\ loanView' = [loanView EXCEPT ![s] = NoRow]
    /\ chosen' = [chosen EXCEPT ![s] = {}]

\* 404, 409 or 400, and rollback
Refuse(s) == End(s) /\ UNCHANGED <<tables, acked, world>>

Submit(s) ==
    /\ pc[s] = "idle"
    /\ \E c \in Commands : cmd' = [cmd EXCEPT ![s] = c]
    /\ GoTo(s, "request")
    /\ UNCHANGED <<tables, acked, world, held, policyView, loanView, chosen>>

-----------------------------------------------------------------------------
(* The statements before the commit. *)

FirstPhase(op) ==
    CASE op = "issue"                              -> "policy"
      [] op \in {"return", "renew", "lost", "copy"} -> "find"
      [] op \in {"policy", "create", "add"}        -> "stock"
      [] OTHER                                     -> "book"

\* mutant: a known request id is answered without comparing the details
SameDetailsAlways(s) == TRUE

SameDetails(s) == event[cmd[s].req] = cmd[s]

\* _begin: a known request id is answered from the log, if it carried the
\* same action and details, and a conflict otherwise
Begin(s) ==
    LET known == event[cmd[s].req] # NoRow IN
    /\ pc[s] = "request"
    /\ Free(s, {RequestLock(cmd[s].req)})
    /\ \/ /\ ~known
          /\ held' = [held EXCEPT ![s] = @ \cup {RequestLock(cmd[s].req)}]
          /\ GoTo(s, FirstPhase(cmd[s].op))
          /\ UNCHANGED <<acked, cmd, policyView, loanView, chosen>>
       \/ known /\ SameDetails(s) /\ acked' = acked \cup {cmd[s]} /\ End(s)
       \/ known /\ ~SameDetails(s) /\ UNCHANGED acked /\ End(s)
    /\ UNCHANGED <<tables, world>>

\* issue_book reads the policy without a lock
ReadPolicy(s) ==
    /\ pc[s] = "policy"
    /\ policyView' = [policyView EXCEPT ![s] = policy]
    /\ GoTo(s, "borrower")
    /\ UNCHANGED <<tables, acked, world, cmd, held, loanView, chosen>>

\* the plain SELECT that finds the loan or the copy, and so what to lock
Find(s) ==
    /\ pc[s] = "find"
    /\ IF cmd[s].op = "copy" THEN copy[cmd[s].copy] # NoRow ELSE loan[cmd[s].loan] # NoRow
    /\ GoTo(s, IF cmd[s].op = "copy" THEN "book" ELSE "borrower")
    /\ UNCHANGED <<tables, acked, world, cmd, held, policyView, loanView, chosen>>

FindNothing(s) ==
    /\ pc[s] = "find"
    /\ IF cmd[s].op = "copy" THEN copy[cmd[s].copy] = NoRow ELSE loan[cmd[s].loan] = NoRow
    /\ Refuse(s)

\* mutant: the policy row is read without FOR UPDATE
LockPolicyNoWait(s) ==
    /\ pc[s] = "stock"
    /\ chosen' = [chosen EXCEPT ![s] = IF cmd[s].op = "create"
                                       THEN FreshNumbers(cmd[s].count) ELSE {}]
    /\ GoTo(s, IF cmd[s].op = "add" THEN "book" ELSE "commit")
    /\ UNCHANGED <<tables, acked, world, cmd, held, policyView, loanView>>

\* policy(lock=True); create_book goes on to number its copies
LockPolicy(s) ==
    /\ pc[s] = "stock"
    /\ Acquire(s, {PolicyLock})
    /\ chosen' = [chosen EXCEPT ![s] = IF cmd[s].op = "create"
                                       THEN FreshNumbers(cmd[s].count) ELSE {}]
    /\ GoTo(s, IF cmd[s].op = "add" THEN "book" ELSE "commit")
    /\ UNCHANGED <<tables, acked, world, cmd, policyView, loanView>>

BorrowerOf(s) == IF cmd[s].op = "issue" THEN cmd[s].borrower ELSE loan[cmd[s].loan].borrower

AfterBorrower(op) == IF op = "issue" THEN "person" ELSE "book"

\* mutant: the borrower's advisory lock is not taken
LockBorrowerNot(s) ==
    /\ pc[s] = "borrower"
    /\ GoTo(s, AfterBorrower(cmd[s].op))
    /\ UNCHANGED <<tables, acked, world, cmd, held, policyView, loanView, chosen>>

\* the advisory lock on a borrower
LockBorrower(s) ==
    /\ pc[s] = "borrower"
    /\ Acquire(s, {BorrowerLock(BorrowerOf(s))})
    /\ GoTo(s, AfterBorrower(cmd[s].op))
    /\ UNCHANGED <<tables, acked, world, cmd, policyView, loanView, chosen>>

-----------------------------------------------------------------------------
(* Under the lock of the title. *)

BookOf(s) ==
    CASE cmd[s].op \in {"return", "renew", "lost"} -> Title(cmd[s].loan)
      [] cmd[s].op = "copy"                        -> copy[cmd[s].copy].book
      [] OTHER                                     -> cmd[s].book

Lendable(b) == book[b].active /\ book[b].lendable

\* the copies an issue may take, the first of which it takes
Candidates(c) ==
    {n \in OnShelf(copy, c.book) : c.copy # NoCopy => n = c.copy}

IssueAllowed(c, rules) ==
    LET open == OpenLoans(c.borrower) IN
    /\ Lendable(c.book)
    /\ Cardinality(open) < rules.limit[Kind[c.borrower]]
    /\ \A r \in open : Title(r) # c.book
    /\ Candidates(c) # {}

\* what return_book, mark_lost and renew_book find when they hold the loan
LoanChangeAllowed(c) ==
    LET row == loan[c.loan]
        st  == copy[row.copy].status
    IN  IF c.op = "return"
        THEN row.status \in {"issued", "lost"} /\ st \in {"issued", "lost", "withdrawn"}
        ELSE row.status = "issued" /\ st = "issued"

\* the terms of a renewal
RenewalAllowed(row, days) ==
    /\ Lendable(copy[row.copy].book)
    /\ row.renewals < row.policy.renewals
    /\ days > 0 => row.policy.lateRenewal

\* update_copy: a copy with an unresolved loan can only be withdrawn
CopyChangeAllowed(c) ==
    /\ copy[c.copy].status # "issued"
    /\ LoansOn(c.copy, {"issued", "lost"}) # {} => c.status = "withdrawn"

Accepted(s) ==
    LET c == cmd[s] IN
    CASE c.op = "issue"                      -> book[c.book] # NoRow /\ IssueAllowed(c, policyView[s])
      [] c.op \in {"return", "renew", "lost"} -> LoanChangeAllowed(c)
      [] c.op = "copy"                       -> CopyChangeAllowed(c)
      [] OTHER                               -> book[c.book] # NoRow

\* what the call is about to issue or to add
Choice(s) ==
    LET c == cmd[s] IN
    CASE c.op = "issue" -> {Min(Candidates(c))}
      [] c.op = "add"   -> IF c.numbers = {} THEN FreshNumbers(c.count) ELSE c.numbers
      [] OTHER          -> {}

IsLoanOp(c) == c.op \in {"return", "renew", "lost"}

AfterBook(op) == IF op = "renew" THEN "person" ELSE "commit"

\* mutant: the title is not locked
LockBookNot(s) ==
    /\ pc[s] = "book"
    /\ IF ~Accepted(s) THEN Refuse(s)
       ELSE /\ chosen' = [chosen EXCEPT ![s] = Choice(s)]
            /\ loanView' = [loanView EXCEPT ![s] =
                              IF IsLoanOp(cmd[s]) THEN loan[cmd[s].loan] ELSE NoRow]
            /\ GoTo(s, AfterBook(cmd[s].op))
            /\ UNCHANGED <<tables, acked, world, cmd, held, policyView>>

\* _book(lock=True), then the loan and the copies under their locks, and the checks
LockBook(s) ==
    /\ pc[s] = "book"
    /\ Free(s, {BookLock(BookOf(s))})
    /\ IF ~Accepted(s) THEN Refuse(s)
       ELSE /\ held' = [held EXCEPT ![s] = @ \cup {BookLock(BookOf(s))}]
            /\ chosen' = [chosen EXCEPT ![s] = Choice(s)]
            /\ loanView' = [loanView EXCEPT ![s] =
                              IF IsLoanOp(cmd[s]) THEN loan[cmd[s].loan] ELSE NoRow]
            /\ GoTo(s, AfterBook(cmd[s].op))
            /\ UNCHANGED <<tables, acked, world, cmd, policyView>>

\* mutant: the status of the borrower is read without FOR UPDATE
LockPersonNot(s) ==
    /\ pc[s] = "person"
    /\ IF /\ BorrowerOf(s) \in eligible
          /\ cmd[s].op = "renew" => RenewalAllowed(loanView[s], late[cmd[s].loan])
       THEN /\ GoTo(s, IF cmd[s].op = "issue" THEN "book" ELSE "commit")
            /\ UNCHANGED <<tables, acked, world, cmd, held, policyView, loanView, chosen>>
       ELSE Refuse(s)

\* _borrower(lock=True): the row of the student or staff member, before the
\* title for a new loan and after it for a renewal
LockPerson(s) ==
    /\ pc[s] = "person"
    /\ Free(s, {PersonLock(BorrowerOf(s))})
    /\ IF /\ BorrowerOf(s) \in eligible
          /\ cmd[s].op = "renew" => RenewalAllowed(loanView[s], late[cmd[s].loan])
       THEN /\ held' = [held EXCEPT ![s] = @ \cup {PersonLock(BorrowerOf(s))}]
            /\ GoTo(s, IF cmd[s].op = "issue" THEN "book" ELSE "commit")
            /\ UNCHANGED <<tables, acked, world, cmd, policyView, loanView, chosen>>
       ELSE Refuse(s)

-----------------------------------------------------------------------------
(* The flushes and the commit. *)

\* _event, the commit and the response
Record(s) ==
    /\ event' = [event EXCEPT ![cmd[s].req] = cmd[s]]
    /\ acked' = acked \cup {cmd[s]}
    /\ End(s)

\* mutant: the counters are not counted again
RestockNot(b) == UNCHANGED book

Restock(b) == book' = [book EXCEPT ![b] = SyncStock(@, copy', b)]

\* What the unique indexes on the open loan of a copy and on the accession number
\* refuse; a new title has a new id.
Refused(s) ==
    CASE cmd[s].op = "issue"  -> \E c \in chosen[s] : LoansOn(c, {"issued"}) # {}
      [] cmd[s].op = "add"    -> \E c \in chosen[s] : copy[c] # NoRow
      [] cmd[s].op = "create" -> \/ \E c \in chosen[s] : copy[c] # NoRow
                                 \/ book[cmd[s].book] # NoRow
      [] OTHER                -> FALSE

CommitIssue(s) ==
    /\ pc[s] = "commit" /\ cmd[s].op = "issue"
    /\ ~Refused(s)
    /\ \E c \in chosen[s] :
         /\ copy' = [copy EXCEPT ![c].status = "issued"]
         /\ loan' = [loan EXCEPT ![cmd[s].req] =
                [copy |-> c, borrower |-> cmd[s].borrower, status |-> "issued",
                 fine |-> 0, renewals |-> 0, policy |-> policyView[s]]]
    /\ Restock(cmd[s].book)
    /\ Record(s)
    /\ UNCHANGED <<policy, nextNumber, world>>

\* mutant: the assessment is stored also when there is none
ReturnFineGiven(s) == cmd[s].fine

\* the assessed fine, or what the open loan has accrued
ReturnFine(s) ==
    IF cmd[s].fine # NoFine THEN cmd[s].fine
    ELSE IF loanView[s].status = "issued" THEN EstimatedFine(loanView[s], late[cmd[s].loan])
    ELSE loanView[s].fine

CommitReturn(s) ==
    LET row == loanView[s] IN
    /\ pc[s] = "commit" /\ cmd[s].op = "return"
    /\ loan' = [loan EXCEPT ![cmd[s].loan] =
                  [row EXCEPT !.status = "returned", !.fine = ReturnFine(s)]]
    /\ copy' = [copy EXCEPT ![row.copy].status = IF cmd[s].good THEN "available" ELSE "damaged"]
    /\ Restock(copy[row.copy].book)
    /\ late' = [late EXCEPT ![cmd[s].loan] = 0]
    /\ Record(s)
    /\ UNCHANGED <<policy, nextNumber, eligible>>

CommitLost(s) ==
    LET row == loanView[s] IN
    /\ pc[s] = "commit" /\ cmd[s].op = "lost"
    /\ loan' = [loan EXCEPT ![cmd[s].loan] = [row EXCEPT !.status = "lost", !.fine = cmd[s].fine]]
    /\ copy' = [copy EXCEPT ![row.copy].status = "lost"]
    /\ Restock(copy[row.copy].book)
    /\ late' = [late EXCEPT ![cmd[s].loan] = 0]
    /\ Record(s)
    /\ UNCHANGED <<policy, nextNumber, eligible>>

\* the new due date is in the future
CommitRenew(s) ==
    LET row == loanView[s] IN
    /\ pc[s] = "commit" /\ cmd[s].op = "renew"
    /\ loan' = [loan EXCEPT ![cmd[s].loan] =
                  [row EXCEPT !.fine = EstimatedFine(row, late[cmd[s].loan]),
                              !.renewals = @ + 1]]
    /\ late' = [late EXCEPT ![cmd[s].loan] = 0]
    /\ Record(s)
    /\ UNCHANGED <<book, copy, policy, nextNumber, eligible>>

CommitCopy(s) ==
    LET c == cmd[s] IN
    /\ pc[s] = "commit" /\ c.op = "copy"
    /\ copy' = [copy EXCEPT ![c.copy].status = c.status]
    /\ Restock(copy[c.copy].book)
    /\ Record(s)
    /\ UNCHANGED <<loan, policy, nextNumber, world>>

\* create_book and add_copies; the loop leaves the counter behind its last number
CommitStock(s) ==
    LET c == cmd[s] IN
    /\ pc[s] = "commit" /\ c.op \in {"create", "add"}
    /\ ~Refused(s)
    /\ Cardinality(chosen[s]) = c.count    \* the bound: Accessions may run out
    /\ copy' = [n \in Accessions |-> IF n \in chosen[s]
                                     THEN [book |-> c.book, status |-> "available"]
                                     ELSE copy[n]]
    /\ LET row == IF c.op = "create" THEN [total |-> 0, available |-> 0, active |-> TRUE,
                                           lendable |-> TRUE]
                  ELSE book[c.book]
       IN  book' = [book EXCEPT ![c.book] = SyncStock(row, copy', c.book)]
    /\ nextNumber' = IF c.numbers = {} THEN Max(chosen[s]) + 1 ELSE nextNumber
    /\ Record(s)
    /\ UNCHANGED <<loan, policy, world>>

CommitBook(s) ==
    /\ pc[s] = "commit" /\ cmd[s].op = "book"
    /\ book' = [book EXCEPT ![cmd[s].book].active = cmd[s].active,
                            ![cmd[s].book].lendable = cmd[s].lendable]
    /\ Record(s)
    /\ UNCHANGED <<copy, loan, policy, nextNumber, world>>

CommitPolicy(s) ==
    /\ pc[s] = "commit" /\ cmd[s].op = "policy"
    /\ policy' = cmd[s].policy
    /\ Record(s)
    /\ UNCHANGED <<book, copy, loan, nextNumber, world>>

Collide(s) == pc[s] = "commit" /\ Refused(s) /\ Refuse(s)

\* The connection drops, the worker stops, or the database refuses a statement.
Abort(s) == pc[s] # "idle" /\ Refuse(s)

-----------------------------------------------------------------------------
(* Around the library. *)

\* A student leaves or returns, a staff member is dismissed or employed: the
\* UPDATE of the other service waits for the row lock.
ChangeStatus(p) ==
    /\ \A s \in Sessions : PersonLock(p) \notin held[s]
    /\ eligible' = IF p \in eligible THEN eligible \ {p} ELSE eligible \cup {p}
    /\ UNCHANGED <<tables, acked, late, sessions>>

\* A day passes for an open loan that is due.
DayPasses(r) ==
    /\ loan[r] # NoRow /\ loan[r].status = "issued"
    /\ late[r] < MaxLate
    /\ late' = [late EXCEPT ![r] = @ + 1]
    /\ UNCHANGED <<tables, acked, eligible, sessions>>

-----------------------------------------------------------------------------

Commit(s) == CommitIssue(s) \/ CommitReturn(s) \/ CommitLost(s) \/ CommitRenew(s)
               \/ CommitCopy(s) \/ CommitStock(s) \/ CommitBook(s) \/ CommitPolicy(s)

Work(s) == ReadPolicy(s) \/ Find(s) \/ FindNothing(s) \/ Commit(s) \/ Collide(s)

Wait(s) == Begin(s) \/ LockPolicy(s) \/ LockBorrower(s) \/ LockPerson(s) \/ LockBook(s)

Next ==
    \/ \E s \in Sessions : Submit(s) \/ Work(s) \/ Wait(s) \/ Abort(s)
    \/ \E p \in Leavers : ChangeStatus(p)
    \/ \E r \in Requests : DayPasses(r)

Spec == Init /\ [][Next]_vars

-----------------------------------------------------------------------------
(* Properties. *)

\* where copy c is according to its row and its loans together
CustodyOf(c) ==
    LET out  == LoansOn(c, {"issued"})
        lost == LoansOn(c, {"lost"})
    IN  IF copy[c] = NoRow THEN <<"absent">>
        ELSE IF copy[c].status = "issued" /\ lost = {} /\ Cardinality(out) = 1
             THEN <<"out", CHOOSE r \in out : TRUE>>
        ELSE IF copy[c].status \in {"lost", "withdrawn"} /\ out = {} /\ Cardinality(lost) = 1
             THEN <<"lost", CHOOSE r \in lost : TRUE>>
        ELSE IF out \cup lost # {} THEN <<"torn">>
        ELSE IF copy[c].status = "available" THEN <<"shelf">> ELSE <<"aside">>

Custody == INSTANCE LibraryCustody WITH custody <- [c \in Accessions |-> CustodyOf(c)]

\* A copy leaves the shelf only through a new loan and comes back from a loan,
\* lost or withdrawn meanwhile or not, only through that loan ("Lost loans
\* retain their original accession and can be recovered through that same loan").
CustodyKept == Custody!Spec

\* "Stock counters are recomputed from accession rows within the same
\* transaction": in every state they are what counting the copies gives.
StockCounted ==
    \A b \in Books : book[b] # NoRow => book[b] = SyncStock(book[b], copy, b)

\* A new loan goes to somebody who may borrow at that moment, of a title that
\* may be lent at that moment, who has fewer loans than the limit in the
\* policy the loan records and no other copy of the title.
LendingRules ==
    [][\A r \in Requests : loan[r] = NoRow /\ loan'[r] # NoRow =>
          LET new  == loan'[r]
              open == OpenLoans(new.borrower)
          IN  /\ new.borrower \in eligible
              /\ Lendable(copy[new.copy].book)
              /\ Cardinality(open) < new.policy.limit[Kind[new.borrower]]
              /\ \A o \in open : Title(o) # copy[new.copy].book]_vars

\* "An allowed overdue renewal retains accrued fines and the per-loan cap": an
\* open loan never exceeds the cap or the renewals of the policy it was made under.
LoanTermsKept ==
    \A r \in Requests : loan[r] # NoRow /\ loan[r].status = "issued" =>
        /\ EstimatedFine(loan[r], late[r]) <= loan[r].policy.cap
        /\ loan[r].renewals <= loan[r].policy.renewals

\* "A matching retry returns the existing result without applying it twice;
\* reusing a UUID for another intent conflicts": what a client was told has
\* succeeded is logged under its request id, and its effect is there.
AckedIsRecorded ==
    \A c \in acked :
        /\ event[c.req] = c
        /\ c.op = "issue" => /\ loan[c.req] # NoRow
                             /\ loan[c.req].borrower = c.borrower
                             /\ Title(c.req) = c.book
                             /\ c.copy # NoCopy => loan[c.req].copy = c.copy
        /\ c.op = "return" => loan[c.loan].status = "returned"
        /\ c.op = "lost" => loan[c.loan].status \in {"lost", "returned"}

\* Automatic accession numbers are still free when the copies are inserted,
\* whatever numbers other sessions add by hand meanwhile.
NumbersFresh ==
    \A s \in Sessions :
        pc[s] = "commit" /\ cmd[s].op \in {"create", "add"} /\ cmd[s].numbers = {}
        => \A c \in chosen[s] : copy[c] = NoRow

\* What the rows of the library say of each other: the counters of a title,
\* the numbers of its copies and the terms of its loans, whichever calls were
\* cut short or overlapped.
RowsAgree == StockCounted /\ NumbersFresh /\ LoanTermsKept

\* the locks a session is waiting for
Wanted(s) ==
    CASE pc[s] = "request"  -> {RequestLock(cmd[s].req)}
      [] pc[s] = "stock"    -> {PolicyLock}
      [] pc[s] = "borrower" -> {BorrowerLock(BorrowerOf(s))}
      [] pc[s] = "person"   -> {PersonLock(BorrowerOf(s))}
      [] pc[s] = "book"     -> {BookLock(BookOf(s))}
      [] OTHER              -> {}

\* Session s waits until session t ends.
WaitsFor(s, t) == s # t /\ Wanted(s) \cap held[t] # {}

\* Among any sessions there is one that waits for none of them, so no circle
\* of calls waits for each other's locks, although a new loan locks the
\* borrower's row before the title and a renewal after it: the advisory lock on
\* the borrower keeps the two apart.
NoCircularWait ==
    \A S \in (SUBSET Sessions) \ {{}} :
        \E s \in S : \A t \in S : ~WaitsFor(s, t)

-----------------------------------------------------------------------------
(* The inductive invariant. *)

LocksApart == \A s, t \in Sessions : s # t => held[s] \cap held[t] = {}

\* The locks a call holds, by the statement it has reached.
HasBegun(s) == pc[s] \notin {"idle", "request"}

HoldsPolicy(s) ==
    pc[s] \in {"book", "commit"} /\ cmd[s].op \in {"create", "add", "policy"}

HoldsBorrower(s) ==
    /\ pc[s] \in {"person", "book", "commit"}
    /\ cmd[s].op \in {"issue", "return", "renew", "lost"}

HoldsPerson(s) ==
    \/ pc[s] \in {"book", "commit"} /\ cmd[s].op = "issue"
    \/ pc[s] = "commit" /\ cmd[s].op = "renew"

HoldsBook(s) ==
    \/ pc[s] = "commit" /\ cmd[s].op \notin {"create", "policy"}
    \/ pc[s] = "person" /\ cmd[s].op = "renew"

LocksFit(s) ==
    /\ \A r \in Requests : RequestLock(r) \in held[s] <=> HasBegun(s) /\ cmd[s].req = r
    /\ PolicyLock \in held[s] <=> HoldsPolicy(s)
    /\ \A p \in Borrowers : BorrowerLock(p) \in held[s] <=> HoldsBorrower(s) /\ BorrowerOf(s) = p
    /\ \A p \in Borrowers : PersonLock(p) \in held[s] <=> HoldsPerson(s) /\ BorrowerOf(s) = p
    /\ \A b \in Books : BookLock(b) \in held[s] <=> HoldsBook(s) /\ BookOf(s) = b

\* The statements of a call follow from its operation.
StepFits(s) ==
    /\ pc[s] # "idle" => cmd[s] \in Commands
    /\ pc[s] = "policy" => cmd[s].op = "issue"
    /\ pc[s] = "find" => cmd[s].op \in {"return", "renew", "lost", "copy"}
    /\ pc[s] = "stock" => cmd[s].op \in {"policy", "create", "add"}
    /\ pc[s] = "borrower" => cmd[s].op \in {"issue", "return", "renew", "lost"}
    /\ pc[s] = "person" => cmd[s].op \in {"issue", "renew"}
    /\ pc[s] = "book" => cmd[s].op \notin {"create", "policy"}

\* What a call has found is still there.
RowsFound(s) ==
    /\ HasBegun(s) => event[cmd[s].req] = NoRow
    /\ pc[s] \in {"borrower", "person", "book", "commit"} =>
         /\ IsLoanOp(cmd[s]) => loan[cmd[s].loan] # NoRow
         /\ cmd[s].op = "copy" => copy[cmd[s].copy] # NoRow
         /\ cmd[s].op = "issue" => policyView[s] \in Policies
    /\ HoldsPerson(s) => BorrowerOf(s) \in eligible

\* What a call has decided under its locks would be decided again.
DecisionStands(s) ==
    /\ HoldsBook(s) => /\ Accepted(s)
                       /\ chosen[s] = Choice(s)
                       /\ IsLoanOp(cmd[s]) => loanView[s] = loan[cmd[s].loan]
    /\ pc[s] = "commit" /\ cmd[s].op = "create" => chosen[s] = FreshNumbers(cmd[s].count)
    /\ pc[s] = "commit" /\ cmd[s].op = "renew" =>
         loanView[s].renewals < loanView[s].policy.renewals

SessionInv(s) == LocksFit(s) /\ StepFits(s) /\ RowsFound(s) /\ DecisionStands(s)

\* Rows refer to rows that exist.
RowsBelong ==
    /\ \A c \in Accessions : copy[c] # NoRow => book[copy[c].book] # NoRow
    /\ \A r \in Requests : loan[r] # NoRow => copy[loan[r].copy] # NoRow /\ event[r] # NoRow
    /\ \A r \in Requests : loan[r] = NoRow => late[r] = 0

Unresolved(r) == loan[r] # NoRow /\ loan[r].status \in {"issued", "lost"}

\* A copy is held by one loan at most, and its row says so.
CopiesHeld ==
    /\ \A r \in Requests : Unresolved(r) =>
         /\ loan[r].status = "issued" => copy[loan[r].copy].status = "issued"
         /\ loan[r].status = "lost" => copy[loan[r].copy].status \in {"lost", "withdrawn"}
    /\ \A c \in Accessions : copy[c] # NoRow /\ copy[c].status = "issued" =>
         \E r \in Requests : Unresolved(r) /\ loan[r].copy = c
    /\ \A q, r \in Requests : Unresolved(q) /\ Unresolved(r) /\ loan[q].copy = loan[r].copy
         => q = r

WithinCap ==
    \A r \in Requests : loan[r] # NoRow /\ loan[r].status = "issued" =>
        loan[r].fine <= loan[r].policy.cap /\ loan[r].renewals <= loan[r].policy.renewals

\* The effect of a command that has been logged.
Effected(c) ==
    /\ c.op = "issue" => /\ loan[c.req] # NoRow
                         /\ loan[c.req].borrower = c.borrower
                         /\ Title(c.req) = c.book
                         /\ c.copy # NoCopy => loan[c.req].copy = c.copy
    /\ c.op = "return" => loan[c.loan] # NoRow /\ loan[c.loan].status = "returned"
    /\ c.op = "lost" => loan[c.loan] # NoRow /\ loan[c.loan].status \in {"lost", "returned"}

EventsEffected ==
    /\ \A r \in Requests : event[r] # NoRow => event[r].req = r /\ Effected(event[r])
    /\ \A c \in acked : event[c.req] = c

IInv ==
    /\ TypeOK
    /\ LocksApart
    /\ RowsBelong /\ CopiesHeld /\ WithinCap
    /\ StockCounted
    /\ EventsEffected
    /\ \A s \in Sessions : SessionInv(s)

=============================================================================
