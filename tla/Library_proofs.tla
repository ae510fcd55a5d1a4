---------------------------- MODULE Library_proofs ----------------------------
(***************************************************************************)
(* Proofs about Library for any sessions, requests, titles, borrowers,      *)
(* accessions, policies and commands: the inductive invariant IInv, the     *)
(* safety properties that follow from it, and that Library implements       *)
(* LibraryCustody.                                                          *)
(***************************************************************************)
EXTENDS Library, SumLemmas

-----------------------------------------------------------------------------
(* Commands and rows. *)

\* What a command carries depends on its operation.
CommandFits(c) ==
    /\ c.op \in {"issue", "return", "renew", "lost", "create", "add", "book", "copy", "policy"}
    /\ c.req \in Requests
    /\ c.op \in {"issue", "create", "add", "book"} => c.book \in Books
    /\ c.op = "issue" => c.borrower \in Borrowers /\ c.copy \in Accessions \cup {NoCopy}
    /\ c.op \in {"return", "renew", "lost"} => c.loan \in Requests
    /\ c.op = "return" => c.good \in BOOLEAN /\ c.fine \in Money \cup {NoFine}
    /\ c.op = "lost" => c.fine \in Money
    /\ c.op \in {"create", "add"} => c.count \in Nat \ {0} /\ c.numbers \subseteq Accessions
    /\ c.op = "create" => c.numbers = {}
    /\ c.op = "add" /\ c.numbers # {} => Cardinality(c.numbers) = c.count
    /\ c.op = "book" => c.active \in BOOLEAN /\ c.lendable \in BOOLEAN
    /\ c.op = "copy" => c.copy \in Accessions /\ c.status \in CopyStatus \ {"issued"}
    /\ c.op = "policy" => c.policy \in Policies

LEMMA CommandFields ==
    ASSUME NEW c \in Commands
    PROVE  CommandFits(c)
<1>1. CASE c \in IssueCommand
  BY <1>1 DEF CommandFits, IssueCommand
<1>2. CASE c \in ReturnCommand
  BY <1>2 DEF CommandFits, ReturnCommand
<1>3. CASE c \in RenewCommand
  BY <1>3 DEF CommandFits, RenewCommand
<1>4. CASE c \in LostCommand
  BY <1>4 DEF CommandFits, LostCommand
<1>5. CASE c \in BookCommand
  BY <1>5 DEF CommandFits, BookCommand
<1>6. CASE c \in CopyCommand
  BY <1>6 DEF CommandFits, CopyCommand
<1>7. CASE c \in PolicyCommand
  BY <1>7 DEF CommandFits, PolicyCommand
<1>8. CASE /\ c \in AddCommand
           /\ c.numbers # {} => Cardinality(c.numbers) = c.count /\ c.op = "add"
  BY <1>8 DEF CommandFits, AddCommand
<1>9. QED
  BY <1>1, <1>2, <1>3, <1>4, <1>5, <1>6, <1>7, <1>8, LibraryCommandsAssumption

LEMMA NoRowApart ==
    /\ NoRow \notin BookRow /\ NoRow \notin CopyRow /\ NoRow \notin LoanRow
    /\ NoRow \notin Policies /\ NoRow \notin Commands
  BY NoLibraryRowAssumption

\* The locks of different kinds never meet, nor do those of different rows.
LEMMA LocksDiffer ==
    /\ \A r, q : RequestLock(r) = RequestLock(q) => r = q
    /\ \A r, q : BorrowerLock(r) = BorrowerLock(q) => r = q
    /\ \A r, q : PersonLock(r) = PersonLock(q) => r = q
    /\ \A r, q : BookLock(r) = BookLock(q) => r = q
    /\ \A r : RequestLock(r) # PolicyLock /\ BorrowerLock(r) # PolicyLock
              /\ PersonLock(r) # PolicyLock /\ BookLock(r) # PolicyLock
    /\ \A r, q : RequestLock(r) # BorrowerLock(q) /\ RequestLock(r) # PersonLock(q)
                 /\ RequestLock(r) # BookLock(q) /\ BorrowerLock(r) # PersonLock(q)
                 /\ BorrowerLock(r) # BookLock(q) /\ PersonLock(r) # BookLock(q)
  BY DEF RequestLock, PolicyLock, BorrowerLock, PersonLock, BookLock

LEMMA LocksNamed ==
    /\ \A r \in Requests : RequestLock(r) \in Locks
    /\ PolicyLock \in Locks
    /\ \A p \in Borrowers : BorrowerLock(p) \in Locks /\ PersonLock(p) \in Locks
    /\ \A b \in Books : BookLock(b) \in Locks
  BY DEF Locks

\* What an open loan owes stays within the cap if its fine does.
LEMMA FineWithinCap ==
    ASSUME NEW row \in LoanRow, NEW days \in Nat
    PROVE  /\ EstimatedFine(row, days) \in Nat
           /\ row.fine <= row.policy.cap => EstimatedFine(row, days) <= row.policy.cap
<1>1. /\ row.fine \in Nat /\ row.policy.cap \in Nat /\ row.policy.rate \in Nat
  BY LibraryConstantsAssumption DEF LoanRow, PolicyRow, Money
<1>2. row.policy.rate * days \in Nat
  BY <1>1
<1> DEFINE accrued == row.policy.rate * days
<1>3. EstimatedFine(row, days) =
        row.fine + (IF accrued < (IF row.fine < row.policy.cap THEN row.policy.cap - row.fine
                                  ELSE 0)
                    THEN accrued
                    ELSE (IF row.fine < row.policy.cap THEN row.policy.cap - row.fine ELSE 0))
  BY DEF EstimatedFine
<1>4. accrued \in Nat
  BY <1>2
<1> HIDE DEF accrued
<1>5. QED
  BY <1>1, <1>3, <1>4

-----------------------------------------------------------------------------
(* Counting copies. *)

LEMMA AccessionSets ==
    ASSUME NEW S \in SUBSET Accessions
    PROVE  IsFiniteSet(S) /\ Cardinality(S) \in Nat /\ Naturals(S)
<1>1. IsFiniteSet(S)
  BY LibraryConstantsAssumption, FS_Subset
<1>2. QED
  BY <1>1, FS_CardinalityType, LibraryConstantsAssumption DEF Naturals

LEMMA SyncStockTyped ==
    ASSUME NEW row \in BookRow, NEW copies, NEW b
    PROVE  /\ SyncStock(row, copies, b) \in BookRow
           /\ SyncStock(row, copies, b).active = row.active
           /\ SyncStock(row, copies, b).lendable = row.lendable
           /\ SyncStock(SyncStock(row, copies, b), copies, b) = SyncStock(row, copies, b)
<1> DEFINE kept == {c \in CopiesOf(copies, b) : copies[c].status # "withdrawn"}
<1>1. kept \in SUBSET Accessions /\ OnShelf(copies, b) \in SUBSET Accessions
  BY DEF CopiesOf, OnShelf
<1>2. Cardinality(kept) \in Nat /\ Cardinality(OnShelf(copies, b)) \in Nat
  BY <1>1, AccessionSets
<1>3. \A any : SyncStock(any, copies, b) =
        [any EXCEPT !.total = Cardinality(kept), !.available = Cardinality(OnShelf(copies, b))]
  BY DEF SyncStock
<1> HIDE DEF kept
<1>4. QED
  BY ZenonT(30), <1>2, <1>3 DEF BookRow

\* Rows with the same counters are counted alike.
LEMMA SyncStockFixed ==
    ASSUME NEW row \in BookRow, NEW other \in BookRow, NEW copies, NEW b,
           row = SyncStock(row, copies, b),
           other.total = row.total, other.available = row.available
    PROVE  other = SyncStock(other, copies, b)
<1> DEFINE n == Cardinality({c \in CopiesOf(copies, b) : copies[c].status # "withdrawn"})
           m == Cardinality(OnShelf(copies, b))
<1>1. \A any : SyncStock(any, copies, b) = [any EXCEPT !.total = n, !.available = m]
  BY DEF SyncStock
<1> HIDE DEF n, m
<1>2. row = [row EXCEPT !.total = n, !.available = m]
  BY <1>1
<1>3. row.total = n /\ row.available = m
  BY <1>2 DEF BookRow
<1>4. other = [other EXCEPT !.total = n, !.available = m]
  BY <1>3 DEF BookRow
<1>5. QED
  BY <1>1, <1>4

\* The counters of a title depend on its own copies alone.
LEMMA SyncStockSame ==
    ASSUME NEW row, NEW b, NEW old, NEW new,
           \A c \in Accessions :
             \/ new[c] = old[c]
             \/ /\ old[c] # NoRow => old[c].book # b
                /\ new[c] # NoRow => new[c].book # b
    PROVE  /\ SyncStock(row, new, b) = SyncStock(row, old, b)
           /\ OnShelf(new, b) = OnShelf(old, b)
<1>1. CopiesOf(new, b) = CopiesOf(old, b)
  BY DEF CopiesOf
<1>2. \A c \in CopiesOf(old, b) : new[c] = old[c]
  BY DEF CopiesOf
<1>3. OnShelf(new, b) = OnShelf(old, b)
  BY <1>1, <1>2 DEF OnShelf
<1>4. {c \in CopiesOf(new, b) : new[c].status # "withdrawn"}
        = {c \in CopiesOf(old, b) : old[c].status # "withdrawn"}
  BY <1>1, <1>2
<1>5. QED
  BY <1>3, <1>4 DEF SyncStock

LEMMA MinIn ==
    ASSUME NEW S \in SUBSET Accessions, S # {}
    PROVE  Min(S) \in S
<1>1. S \in SUBSET Nat
  BY LibraryConstantsAssumption
<1>2. \E n \in S : \A m \in S : n <= m
  BY <1>1, SmallestNat
<1>3. QED
  BY <1>2 DEF Min

LEMMA MaxIn ==
    ASSUME NEW S \in SUBSET Accessions, S # {}
    PROVE  Max(S) \in S /\ Max(S) \in Nat
<1>1. \E n \in S : \A m \in S : m <= n
  BY AccessionSets, GreatestNat
<1>2. S \subseteq Nat
  BY LibraryConstantsAssumption
<1>3. \E n \in S : \A m \in S : n >= m
  BY <1>1, <1>2
<1>4. Max(S) \in S
  BY <1>3 DEF Max
<1>5. QED
  BY <1>2, <1>4

-----------------------------------------------------------------------------
(* What a step has to leave alone. *)

TablesTyped ==
    /\ book \in [Books -> BookRow \cup {NoRow}]
    /\ copy \in [Accessions -> CopyRow \cup {NoRow}]
    /\ loan \in [Requests -> LoanRow \cup {NoRow}]
    /\ policy \in Policies
    /\ nextNumber \in Nat
    /\ event \in [Requests -> Commands \cup {NoRow}]
    /\ acked \subseteq Commands
    /\ eligible \subseteq Borrowers
    /\ late \in [Requests -> 0 .. MaxLate]

TablesStand == RowsBelong /\ CopiesHeld /\ WithinCap /\ StockCounted /\ EventsEffected

SessionsTyped ==
    /\ pc \in [Sessions -> Phases]
    /\ cmd \in [Sessions -> Commands \cup {NoCommand}]
    /\ held \in [Sessions -> SUBSET Locks]
    /\ policyView \in [Sessions -> Policies \cup {NoRow}]
    /\ loanView \in [Sessions -> LoanRow \cup {NoRow}]
    /\ chosen \in [Sessions -> SUBSET Accessions]
    /\ \A s \in Sessions : pc[s] = "idle" => cmd[s] = NoCommand /\ held[s] = {}

LEMMA Parts ==
    IInv <=> /\ TablesTyped /\ TablesStand /\ SessionsTyped /\ LocksApart
             /\ \A s \in Sessions : SessionInv(s)
  BY DEF IInv, TypeOK, TablesTyped, SessionsTyped, TablesStand

LEMMA PartsNext ==
    IInv' <=> /\ TablesTyped' /\ TablesStand' /\ SessionsTyped' /\ LocksApart'
              /\ \A s \in Sessions : SessionInv(s)'
  BY DEF IInv, TypeOK, TablesTyped, SessionsTyped, TablesStand

\* What a session at work has sent, and the rows it has found.
LEMMA AtWork ==
    ASSUME IInv, NEW s \in Sessions, pc[s] # "idle"
    PROVE  /\ cmd[s] \in Commands /\ CommandFits(cmd[s])
           /\ pc[s] \in {"borrower", "person", "book", "commit"} =>
                /\ IsLoanOp(cmd[s]) => /\ loan[cmd[s].loan] \in LoanRow
                                       /\ loan[cmd[s].loan].copy \in Accessions
                                       /\ copy[loan[cmd[s].loan].copy] \in CopyRow
                                       /\ BookOf(s) = Title(cmd[s].loan)
                                       /\ BorrowerOf(s) = loan[cmd[s].loan].borrower
                /\ cmd[s].op = "copy" => /\ copy[cmd[s].copy] \in CopyRow
                                         /\ BookOf(s) = copy[cmd[s].copy].book
                /\ cmd[s].op \in {"issue", "add", "book"} => BookOf(s) = cmd[s].book
                /\ cmd[s].op = "issue" => BorrowerOf(s) = cmd[s].borrower
                /\ cmd[s].op \notin {"create", "policy"} => BookOf(s) \in Books
                /\ cmd[s].op = "issue" \/ IsLoanOp(cmd[s]) => BorrowerOf(s) \in Borrowers
<1>1. cmd[s] \in Commands /\ CommandFits(cmd[s])
  BY CommandFields DEF IInv, SessionInv, StepFits
<1>2. ASSUME pc[s] \in {"borrower", "person", "book", "commit"}, IsLoanOp(cmd[s])
      PROVE  /\ loan[cmd[s].loan] \in LoanRow
             /\ loan[cmd[s].loan].copy \in Accessions
             /\ copy[loan[cmd[s].loan].copy] \in CopyRow
             /\ BookOf(s) = Title(cmd[s].loan)
             /\ BorrowerOf(s) = loan[cmd[s].loan].borrower
             /\ BookOf(s) \in Books /\ BorrowerOf(s) \in Borrowers
  <2>1. cmd[s].loan \in Requests /\ cmd[s].op \in {"return", "renew", "lost"}
    BY <1>1, <1>2 DEF CommandFits, IsLoanOp
  <2>2. loan[cmd[s].loan] \in LoanRow
    BY <1>2, <2>1 DEF IInv, TypeOK, SessionInv, RowsFound
  <2>3. loan[cmd[s].loan].copy \in Accessions /\ loan[cmd[s].loan].borrower \in Borrowers
    BY <2>2 DEF LoanRow
  <2>4. loan[cmd[s].loan] # NoRow
    BY <2>2, NoLibraryRowAssumption
  <2>5. copy[loan[cmd[s].loan].copy] \in CopyRow
    BY <2>1, <2>3, <2>4 DEF IInv, TypeOK, RowsBelong
  <2>6. Title(cmd[s].loan) \in Books
    BY <2>5 DEF Title, CopyRow
  <2>7. QED
    BY <2>1, <2>2, <2>3, <2>5, <2>6 DEF BookOf, BorrowerOf
<1>3. ASSUME pc[s] \in {"borrower", "person", "book", "commit"}, cmd[s].op = "copy"
      PROVE  /\ copy[cmd[s].copy] \in CopyRow
             /\ BookOf(s) = copy[cmd[s].copy].book
             /\ BookOf(s) \in Books
  <2>1. cmd[s].copy \in Accessions
    BY <1>1, <1>3 DEF CommandFits
  <2>2. copy[cmd[s].copy] \in CopyRow
    BY <1>3, <2>1 DEF IInv, TypeOK, SessionInv, RowsFound
  <2>3. QED
    BY <1>3, <2>2 DEF BookOf, CopyRow
<1>4. ASSUME cmd[s].op \in {"issue", "add", "book"}
      PROVE  BookOf(s) = cmd[s].book /\ cmd[s].book \in Books
  BY <1>1, <1>4 DEF CommandFits, BookOf
<1>5. ASSUME cmd[s].op = "issue"
      PROVE  BorrowerOf(s) = cmd[s].borrower /\ cmd[s].borrower \in Borrowers
  BY <1>1, <1>5 DEF CommandFits, BorrowerOf
<1>6. cmd[s].op \notin {"create", "policy"} =>
        IsLoanOp(cmd[s]) \/ cmd[s].op = "copy" \/ cmd[s].op \in {"issue", "add", "book"}
  BY <1>1 DEF CommandFits, IsLoanOp
<1>7. ~(IsLoanOp(cmd[s]) /\ cmd[s].op = "issue")
  BY DEF IsLoanOp
<1>8. QED
  BY <1>1, <1>2, <1>3, <1>4, <1>5, <1>6

\* Session s changes the rows it has locked, and adds rows nobody has seen.
Touches(s) ==
    /\ \A r \in Requests : event'[r] = event[r] \/ RequestLock(r) \in held[s]
    /\ \A r \in Requests : loan'[r] # loan[r] =>
         /\ loan'[r] # NoRow
         /\ loan[r] # NoRow => /\ loan'[r].copy = loan[r].copy
                               /\ loan'[r].borrower = loan[r].borrower
         /\ BookLock(copy[loan'[r].copy].book) \in held[s]
         /\ BorrowerLock(loan'[r].borrower) \in held[s]
    /\ \A c \in Accessions : copy'[c] # copy[c] =>
         /\ copy'[c] # NoRow
         /\ IF copy[c] = NoRow
            THEN /\ PolicyLock \in held[s]
                 /\ BookLock(copy'[c].book) \in held[s] \/ book[copy'[c].book] = NoRow
            ELSE copy'[c].book = copy[c].book /\ BookLock(copy[c].book) \in held[s]
    /\ \A b \in Books : book'[b] # book[b] =>
         book'[b] # NoRow /\ (book[b] = NoRow \/ BookLock(b) \in held[s])
    /\ nextNumber' = nextNumber \/ PolicyLock \in held[s]

SessionKept(t) ==
    /\ pc'[t] = pc[t] /\ cmd'[t] = cmd[t] /\ held'[t] = held[t]
    /\ policyView'[t] = policyView[t] /\ loanView'[t] = loanView[t]
    /\ chosen'[t] = chosen[t]

\* Rows that exist keep their identity.
LEMMA RowsStay ==
    ASSUME IInv, NEW s \in Sessions, Touches(s)
    PROVE  /\ \A b \in Books : book[b] # NoRow => book'[b] # NoRow
           /\ \A c \in Accessions : copy[c] # NoRow =>
                copy'[c] # NoRow /\ copy'[c].book = copy[c].book
           /\ \A r \in Requests : loan[r] # NoRow =>
                /\ loan'[r] # NoRow /\ loan'[r].copy = loan[r].copy
                /\ loan'[r].borrower = loan[r].borrower
                /\ Title(r)' = Title(r)
<1>1. \A b \in Books : book[b] # NoRow => book'[b] # NoRow
  BY DEF Touches
<1>2. \A c \in Accessions : copy[c] # NoRow =>
        copy'[c] # NoRow /\ copy'[c].book = copy[c].book
  BY DEF Touches
<1>3. ASSUME NEW r \in Requests, loan[r] # NoRow
      PROVE  /\ loan'[r] # NoRow /\ loan'[r].copy = loan[r].copy
             /\ loan'[r].borrower = loan[r].borrower
             /\ Title(r)' = Title(r)
  <2>1. /\ loan'[r] # NoRow /\ loan'[r].copy = loan[r].copy
        /\ loan'[r].borrower = loan[r].borrower
    BY <1>3 DEF Touches
  <2>2. loan[r] \in LoanRow
    BY <1>3 DEF IInv, TypeOK
  <2>3. loan[r].copy \in Accessions
    BY <2>2 DEF LoanRow
  <2>4. copy[loan[r].copy] # NoRow
    BY <1>3 DEF IInv, RowsBelong
  <2>5. copy'[loan'[r].copy].book = copy[loan[r].copy].book
    BY <1>2, <2>1, <2>3, <2>4
  <2>6. QED
    BY <2>1, <2>5 DEF Title
<1>4. QED
  BY <1>1, <1>2, <1>3

\* While a session holds the policy, the free numbers stay free.
LEMMA NumbersKept ==
    ASSUME IInv, NEW s \in Sessions, NEW t \in Sessions, s # t, Touches(s),
           HoldsPolicy(t), NEW n
    PROVE  FreshNumbers(n)' = FreshNumbers(n)
<1>1. PolicyLock \in held[t]
  BY DEF IInv, SessionInv, LocksFit
<1>2. PolicyLock \notin held[s]
  BY <1>1 DEF IInv, LocksApart
<1>3. nextNumber' = nextNumber /\ \A c \in Accessions : copy'[c] = NoRow <=> copy[c] = NoRow
  BY <1>2 DEF Touches
<1>4. QED
  BY <1>3 DEF FreshNumbers

\* A title nobody else has locked keeps its row, its copies and their loans.
LEMMA TitleKept ==
    ASSUME IInv, NEW s \in Sessions, Touches(s), NEW b \in Books,
           BookLock(b) \notin held[s], book[b] # NoRow
    PROVE  /\ book'[b] = book[b]
           /\ \A c \in Accessions :
                \/ copy'[c] = copy[c]
                \/ /\ copy[c] # NoRow => copy[c].book # b
                   /\ copy'[c] # NoRow => copy'[c].book # b
           /\ \A r \in Requests :
                loan'[r] = loan[r] \/ copy[loan'[r].copy].book # b
           /\ OnShelf(copy', b) = OnShelf(copy, b)
<1>1. book'[b] = book[b]
  BY DEF Touches
<1>2. ASSUME NEW c \in Accessions, copy'[c] # copy[c]
      PROVE  /\ copy[c] # NoRow => copy[c].book # b
             /\ copy'[c] # NoRow => copy'[c].book # b
  <2>1. CASE copy[c] = NoRow
    BY <1>2, <2>1 DEF Touches
  <2>2. CASE copy[c] # NoRow
    BY <1>2, <2>2 DEF Touches
  <2>3. QED
    BY <2>1, <2>2
<1>3. ASSUME NEW r \in Requests, loan'[r] # loan[r]
      PROVE  copy[loan'[r].copy].book # b
  BY <1>3 DEF Touches
<1>4. OnShelf(copy', b) = OnShelf(copy, b)
  BY <1>2, SyncStockSame
<1>5. QED
  BY <1>1, <1>2, <1>3, <1>4

\* What a session has decided under the lock of a title is not disturbed.
LEMMA OthersDecided ==
    ASSUME IInv, TablesTyped', NEW s \in Sessions, NEW t \in Sessions, s # t, SessionKept(t),
           Touches(s), HoldsBook(t), SessionInv(t)
    PROVE  /\ Accepted(t)' /\ chosen'[t] = Choice(t)'
           /\ IsLoanOp(cmd[t]) => loanView'[t] = loan'[cmd[t].loan]
<1>1. PICK c \in Commands : c = cmd[t]
  BY AtWork DEF HoldsBook
<1>2. /\ CommandFits(c) /\ c = cmd[t] /\ c = cmd'[t]
      /\ policyView'[t] = policyView[t] /\ loanView'[t] = loanView[t] /\ chosen'[t] = chosen[t]
  BY <1>1, CommandFields DEF SessionKept
<1>3. pc[t] \in {"person", "commit"} /\ c.op \notin {"create", "policy"}
  BY <1>1 DEF HoldsBook
<1>4. Accepted(t) /\ chosen[t] = Choice(t) /\ (IsLoanOp(c) => loanView[t] = loan[c.loan])
  BY <1>1 DEF SessionInv, DecisionStands
<1>5. PICK b \in Books : b = BookOf(t)
  BY <1>1, <1>3, AtWork
<1>6. BookLock(b) \in held[t]
  BY <1>1, <1>5 DEF SessionInv, LocksFit
<1>7. BookLock(b) \notin held[s]
  BY <1>6 DEF IInv, LocksApart
<1>8. CASE c.op = "issue"
  <2>1. c.book = b /\ book[b] # NoRow /\ IssueAllowed(c, policyView[t])
    BY <1>1, <1>3, <1>4, <1>5, <1>8, AtWork DEF Accepted
  <2>2. book'[b] = book[b] /\ OnShelf(copy', b) = OnShelf(copy, b)
    BY <1>7, <2>1, TitleKept
  <2>3. Lendable(b)' /\ Candidates(c)' = Candidates(c) /\ Candidates(c) # {}
    BY <2>1, <2>2 DEF IssueAllowed, Lendable, Candidates
  <2>4. BorrowerLock(c.borrower) \notin held[s]
    <3>1. HoldsBorrower(t) /\ BorrowerOf(t) = c.borrower
      BY <1>1, <1>3, <1>8 DEF HoldsBorrower, HoldsBook, BorrowerOf
    <3>2. BorrowerLock(c.borrower) \in held[t]
      BY <1>2, <1>8, <3>1 DEF SessionInv, LocksFit, CommandFits
    <3>3. QED
      BY <3>2 DEF IInv, LocksApart
  <2>5. OpenLoans(c.borrower)' = OpenLoans(c.borrower)
    <3>1. ASSUME NEW r \in Requests, loan'[r] # loan[r]
          PROVE  /\ loan'[r].borrower # c.borrower
                 /\ loan[r] # NoRow => loan[r].borrower # c.borrower
      BY <2>4, <3>1 DEF Touches
    <3>2. QED
      BY <3>1 DEF OpenLoans
  <2>6. \A r \in OpenLoans(c.borrower) : Title(r)' = Title(r)
    BY RowsStay DEF OpenLoans
  <2>7. IssueAllowed(c, policyView[t])'
    <3>1. /\ Cardinality(OpenLoans(c.borrower)) < policyView[t].limit[Kind[c.borrower]]
          /\ \A r \in OpenLoans(c.borrower) : Title(r) # c.book
      BY <2>1 DEF IssueAllowed
    <3>2. \A r \in OpenLoans(c.borrower)' : Title(r)' # c.book
      BY <2>5, <2>6, <3>1
    <3>3. Cardinality(OpenLoans(c.borrower))' < policyView'[t].limit[Kind[c.borrower]]
      BY <1>2, <2>5, <3>1
    <3>4. Lendable(c.book)' /\ Candidates(c)' # {}
      BY <2>1, <2>3
    <3>5. QED
      BY <3>2, <3>3, <3>4 DEF IssueAllowed
  <2>8. Accepted(t)'
    BY <1>1, <1>2, <1>8, <2>1, <2>2, <2>7 DEF Accepted
  <2>9. Choice(t)' = Choice(t)
    BY <1>1, <1>2, <1>8, <2>3 DEF Choice
  <2>10. QED
    BY <1>2, <1>4, <1>8, <2>8, <2>9 DEF IsLoanOp
<1>9. CASE IsLoanOp(c)
  <2>1. /\ c.loan \in Requests /\ loan[c.loan] # NoRow /\ loan[c.loan].copy \in Accessions
        /\ copy[loan[c.loan].copy] # NoRow /\ copy[loan[c.loan].copy].book = b
    <3>1. pc[t] # "idle" /\ cmd[t] = c /\ IsLoanOp(cmd[t])
      BY <1>1, <1>3, <1>9
    <3>2. /\ loan[c.loan] \in LoanRow /\ loan[c.loan].copy \in Accessions
          /\ copy[loan[c.loan].copy] \in CopyRow /\ Title(c.loan) = b
      BY <1>1, <1>3, <1>5, <3>1, AtWork
    <3>3. QED
      BY <1>2, <1>9, <3>2, NoRowApart DEF Title, CommandFits, IsLoanOp
  <2>2. book[b] # NoRow
    BY <2>1 DEF IInv, RowsBelong
  <2>3. loan'[c.loan] = loan[c.loan]
    BY <1>7, <2>1, <2>2, TitleKept, RowsStay
  <2>4. copy'[loan[c.loan].copy] = copy[loan[c.loan].copy]
    BY <1>7, <2>1, <2>2, TitleKept
  <2>5. LoanChangeAllowed(c)' = LoanChangeAllowed(c)
    BY <2>3, <2>4 DEF LoanChangeAllowed
  <2>6. Accepted(t)' /\ Choice(t)' = Choice(t)
    BY <1>1, <1>2, <1>4, <1>9, <2>5 DEF Accepted, Choice, IsLoanOp
  <2>7. QED
    BY <1>2, <1>4, <2>3, <2>6
<1>10. CASE c.op = "copy"
  <2>1. c.copy \in Accessions /\ copy[c.copy] # NoRow /\ copy[c.copy].book = b
    <3>1. pc[t] # "idle" /\ cmd[t] = c
      BY <1>1, <1>3
    <3>2. copy[c.copy] \in CopyRow /\ copy[c.copy].book = b
      BY <1>1, <1>3, <1>5, <1>10, <3>1, AtWork
    <3>3. QED
      BY <1>2, <1>10, <3>2, NoRowApart DEF CommandFits
  <2>2. book[b] # NoRow
    BY <2>1 DEF IInv, RowsBelong
  <2>3. copy'[c.copy] = copy[c.copy]
    BY <1>7, <2>1, <2>2, TitleKept
  <2>4. \A statuses : LoansOn(c.copy, statuses)' = LoansOn(c.copy, statuses)
    <3>1. ASSUME NEW r \in Requests, loan'[r] # loan[r]
          PROVE  loan'[r].copy # c.copy /\ (loan[r] # NoRow => loan[r].copy # c.copy)
      <4>1. loan'[r].copy # c.copy
        BY <1>7, <2>1, <2>2, <3>1, TitleKept
      <4>2. QED
        BY <4>1, RowsStay
    <3>2. QED
      BY <3>1 DEF LoansOn
  <2>5. CopyChangeAllowed(c)' = CopyChangeAllowed(c)
    BY <2>3, <2>4 DEF CopyChangeAllowed
  <2>6. Accepted(t)' /\ Choice(t)' = Choice(t)
    BY <1>1, <1>2, <1>4, <1>10, <2>5 DEF Accepted, Choice
  <2>7. QED
    BY <1>2, <1>4, <1>10, <2>6 DEF IsLoanOp
<1>11. CASE c.op \in {"add", "book"}
  <2>1. c.book = b /\ book[b] # NoRow
    BY <1>1, <1>3, <1>4, <1>5, <1>11, AtWork DEF Accepted
  <2>2. Accepted(t)'
    BY <1>1, <1>2, <1>7, <1>11, <2>1, TitleKept DEF Accepted
  <2>3. Choice(t)' = Choice(t)
    <3>1. CASE c.op = "book"
      BY <1>1, <1>2, <3>1 DEF Choice
    <3>2. CASE c.op = "add"
      <4>1. FreshNumbers(c.count)' = FreshNumbers(c.count)
        BY <1>1, <1>3, <3>2, NumbersKept DEF HoldsPolicy, HoldsBook
      <4>2. QED
        BY <1>1, <1>2, <3>2, <4>1 DEF Choice
    <3>3. QED
      BY <1>11, <3>1, <3>2
  <2>4. QED
    BY <1>2, <1>4, <1>11, <2>2, <2>3 DEF IsLoanOp
<1>12. QED
  BY <1>2, <1>3, <1>8, <1>9, <1>10, <1>11 DEF CommandFits, IsLoanOp

\* A step of one session leaves what the others know and hold in order.
LEMMA OthersKeep ==
    ASSUME IInv, TablesTyped', NEW s \in Sessions, NEW t \in Sessions, s # t,
           SessionKept(t), Touches(s),
           \A p \in Borrowers : PersonLock(p) \in held[t] /\ p \in eligible => p \in eligible'
    PROVE  SessionInv(t)'
<1>1. /\ pc'[t] = pc[t] /\ cmd'[t] = cmd[t] /\ held'[t] = held[t]
      /\ policyView'[t] = policyView[t] /\ loanView'[t] = loanView[t]
      /\ chosen'[t] = chosen[t] /\ SessionInv(t)
  BY DEF SessionKept, IInv
<1>2. CASE pc[t] = "idle"
  BY <1>1, <1>2 DEF SessionInv, LocksFit, StepFits, RowsFound, DecisionStands,
     HasBegun, HoldsPolicy, HoldsBorrower, HoldsPerson, HoldsBook
<1>3. CASE pc[t] # "idle"
  <2>1. PICK c \in Commands : c = cmd[t]
    BY <1>3, AtWork
  <2>2. CommandFits(c) /\ cmd'[t] = c /\ cmd[t] = c
    BY <1>1, <2>1, CommandFields
  <2>3. /\ HasBegun(t)' = HasBegun(t) /\ HoldsPolicy(t)' = HoldsPolicy(t)
        /\ HoldsBorrower(t)' = HoldsBorrower(t) /\ HoldsPerson(t)' = HoldsPerson(t)
        /\ HoldsBook(t)' = HoldsBook(t)
    BY <1>1 DEF HasBegun, HoldsPolicy, HoldsBorrower, HoldsPerson, HoldsBook
  <2>4. StepFits(t)'
    BY <1>1 DEF SessionInv, StepFits
  <2>5. ASSUME pc[t] \in {"borrower", "person", "book", "commit"}
        PROVE  /\ IsLoanOp(c) => loan[c.loan] # NoRow /\ loan'[c.loan] # NoRow
               /\ c.op = "copy" => copy[c.copy] # NoRow /\ copy'[c.copy] # NoRow
               /\ c.op = "issue" => policyView'[t] \in Policies
               /\ BookOf(t)' = BookOf(t)
               /\ c.op = "issue" \/ IsLoanOp(c) => BorrowerOf(t)' = BorrowerOf(t)
    <3>1. /\ IsLoanOp(c) => loan[c.loan] # NoRow
          /\ c.op = "copy" => copy[c.copy] # NoRow
          /\ c.op = "issue" => policyView[t] \in Policies
      BY <1>1, <2>1, <2>5 DEF SessionInv, RowsFound
    <3>2. CASE IsLoanOp(c)
      <4>1. c.loan \in Requests /\ c.op \in {"return", "renew", "lost"}
        BY <2>2, <3>2 DEF CommandFits, IsLoanOp
      <4>2. loan'[c.loan] # NoRow /\ loan'[c.loan].borrower = loan[c.loan].borrower
            /\ Title(c.loan)' = Title(c.loan)
        BY <3>1, <3>2, <4>1, RowsStay
      <4>3. BookOf(t)' = BookOf(t) /\ BorrowerOf(t)' = BorrowerOf(t)
        BY <2>2, <4>1, <4>2 DEF BookOf, BorrowerOf
      <4>4. QED
        BY <3>1, <3>2, <4>1, <4>2, <4>3
    <3>3. CASE c.op = "copy"
      <4>1. c.copy \in Accessions
        BY <2>2, <3>3 DEF CommandFits
      <4>2. copy'[c.copy] # NoRow /\ copy'[c.copy].book = copy[c.copy].book
        BY <3>1, <3>3, <4>1, RowsStay
      <4>3. BookOf(t)' = BookOf(t)
        BY <2>2, <3>3, <4>2 DEF BookOf
      <4>4. QED
        BY <3>1, <3>3, <4>2, <4>3 DEF IsLoanOp
    <3>4. CASE ~IsLoanOp(c) /\ c.op # "copy"
      <4>1. BookOf(t)' = BookOf(t)
        BY <2>2, <3>4 DEF BookOf, IsLoanOp
      <4>2. QED
        BY <1>1, <2>2, <3>1, <3>4, <4>1 DEF BorrowerOf
    <3>5. QED
      BY <3>2, <3>3, <3>4
  <2>6. LocksFit(t)'
    <3>1. LocksFit(t)
      BY <1>1 DEF SessionInv
    <3>2. /\ \A r \in Requests : (RequestLock(r) \in held[t] <=> HasBegun(t) /\ cmd[t].req = r)'
          /\ (PolicyLock \in held[t] <=> HoldsPolicy(t))'
      BY <1>1, <2>3, <3>1 DEF LocksFit
    <3>3. /\ HoldsBorrower(t) => BorrowerOf(t)' = BorrowerOf(t)
          /\ HoldsPerson(t) => BorrowerOf(t)' = BorrowerOf(t)
          /\ HoldsBook(t) => BookOf(t)' = BookOf(t)
      BY <2>2, <2>5 DEF HoldsBorrower, HoldsPerson, HoldsBook, IsLoanOp
    <3>4. /\ \A p \in Borrowers :
               (BorrowerLock(p) \in held[t] <=> HoldsBorrower(t) /\ BorrowerOf(t) = p)'
          /\ \A p \in Borrowers :
               (PersonLock(p) \in held[t] <=> HoldsPerson(t) /\ BorrowerOf(t) = p)'
          /\ \A b \in Books : (BookLock(b) \in held[t] <=> HoldsBook(t) /\ BookOf(t) = b)'
      BY <1>1, <2>3, <3>1, <3>3 DEF LocksFit
    <3>5. QED
      BY <3>2, <3>4 DEF LocksFit
  <2>7. RowsFound(t)'
    <3>1. ASSUME HasBegun(t) PROVE event'[c.req] = NoRow
      <4>1. RequestLock(c.req) \in held[t]
        BY <1>1, <2>2, <3>1 DEF SessionInv, LocksFit, CommandFits
      <4>2. RequestLock(c.req) \notin held[s]
        BY <4>1 DEF IInv, LocksApart
      <4>3. event'[c.req] = event[c.req]
        BY <2>2, <4>2 DEF Touches, CommandFits
      <4>4. QED
        BY <1>1, <2>1, <3>1, <4>3 DEF SessionInv, RowsFound
    <3>2. ASSUME HoldsPerson(t) PROVE BorrowerOf(t)' \in eligible'
      <4>1. pc[t] \in {"book", "commit"} /\ c.op \in {"issue", "renew"}
        BY <2>2, <3>2 DEF HoldsPerson
      <4>2. BorrowerOf(t) \in Borrowers /\ BorrowerOf(t)' = BorrowerOf(t)
        BY <1>3, <2>1, <2>5, <4>1, AtWork DEF IsLoanOp
      <4>3. BorrowerOf(t) \in eligible /\ PersonLock(BorrowerOf(t)) \in held[t]
        BY <1>1, <3>2, <4>2 DEF SessionInv, RowsFound, LocksFit
      <4>4. QED
        BY <4>2, <4>3
    <3>3. QED
      BY <1>1, <2>2, <2>3, <2>5, <3>1, <3>2 DEF RowsFound
  <2>8. DecisionStands(t)'
    <3>1. HoldsBook(t) =>
            /\ Accepted(t)' /\ chosen'[t] = Choice(t)'
            /\ IsLoanOp(cmd[t]) => loanView'[t] = loan'[cmd[t].loan]
      BY <1>1, OthersDecided
    <3>2. ASSUME pc[t] = "commit", c.op = "create"
          PROVE  chosen'[t] = FreshNumbers(c.count)'
      <4>1. FreshNumbers(c.count)' = FreshNumbers(c.count)
        BY <2>1, <3>2, NumbersKept DEF HoldsPolicy
      <4>2. QED
        BY <1>1, <2>1, <3>2, <4>1 DEF SessionInv, DecisionStands
    <3>3. pc[t] = "commit" /\ c.op = "renew" =>
            loanView'[t].renewals < loanView'[t].policy.renewals
      BY <1>1, <2>1 DEF SessionInv, DecisionStands
    <3>4. QED
      BY <1>1, <2>2, <2>3, <3>1, <3>2, <3>3 DEF DecisionStands, IsLoanOp
  <2>9. QED
    BY <2>4, <2>6, <2>7, <2>8 DEF SessionInv
<1>4. QED
  BY <1>2, <1>3

-----------------------------------------------------------------------------
(* Steps that write no table. *)

LEMMA QuietTables ==
    ASSUME IInv, UNCHANGED <<tables, world>>,
           acked' \subseteq Commands, \A c \in acked' : event[c.req] = c
    PROVE  TablesTyped' /\ TablesStand'
<1>1. /\ book' = book /\ copy' = copy /\ loan' = loan /\ policy' = policy
      /\ nextNumber' = nextNumber /\ event' = event /\ eligible' = eligible /\ late' = late
  BY DEF tables, world
<1>2. TablesTyped'
  BY <1>1 DEF IInv, TypeOK, TablesTyped
<1>3. RowsBelong' /\ WithinCap'
  BY <1>1 DEF IInv, RowsBelong, WithinCap
<1>4. CopiesHeld'
  BY <1>1 DEF IInv, CopiesHeld, Unresolved
<1>5. StockCounted'
  BY <1>1 DEF IInv, StockCounted
<1>6. EventsEffected'
  BY <1>1 DEF IInv, EventsEffected, Effected, Title
<1>7. QED
  BY <1>2, <1>3, <1>4, <1>5, <1>6 DEF TablesStand

\* The tables are the same for the session that moves on.
LEMMA SameView ==
    ASSUME NEW s \in Sessions, UNCHANGED tables, cmd'[s] = cmd[s]
    PROVE  /\ BookOf(s)' = BookOf(s) /\ BorrowerOf(s)' = BorrowerOf(s)
           /\ Choice(s)' = Choice(s)
           /\ FreshNumbers(cmd[s].count)' = FreshNumbers(cmd[s].count)
           /\ policyView'[s] = policyView[s] => Accepted(s)' = Accepted(s)
<1>1. /\ book' = book /\ copy' = copy /\ loan' = loan /\ policy' = policy
      /\ nextNumber' = nextNumber /\ event' = event
  BY DEF tables
<1>2. BookOf(s)' = BookOf(s) /\ BorrowerOf(s)' = BorrowerOf(s)
  BY <1>1 DEF BookOf, BorrowerOf, Title
<1>3. FreshNumbers(cmd[s].count)' = FreshNumbers(cmd[s].count)
  BY <1>1 DEF FreshNumbers
<1>4. Candidates(cmd[s])' = Candidates(cmd[s])
  BY <1>1 DEF Candidates, OnShelf, CopiesOf
<1>5. Choice(s)' = Choice(s)
  BY <1>3, <1>4 DEF Choice
<1>6. ASSUME policyView'[s] = policyView[s] PROVE Accepted(s)' = Accepted(s)
  <2>1. LoanChangeAllowed(cmd[s])' = LoanChangeAllowed(cmd[s])
    BY <1>1 DEF LoanChangeAllowed
  <2>2. CopyChangeAllowed(cmd[s])' = CopyChangeAllowed(cmd[s])
    BY <1>1 DEF CopyChangeAllowed, LoansOn
  <2>3. IssueAllowed(cmd[s], policyView[s])' = IssueAllowed(cmd[s], policyView[s])
    BY <1>1, <1>4, <1>6 DEF IssueAllowed, Lendable, OpenLoans, Title
  <2>4. QED
    BY <1>1, <2>1, <2>2, <2>3 DEF Accepted
<1>7. QED
  BY <1>2, <1>3, <1>5, <1>6

\* A step that writes no table has only the session's own part to answer for.
LEMMA QuietKeeps ==
    ASSUME IInv, NEW s \in Sessions, UNCHANGED <<tables, world>>,
           acked' \subseteq Commands, \A c \in acked' : event[c.req] = c,
           \A t \in Sessions \ {s} : SessionKept(t),
           SessionsTyped', LocksApart', SessionInv(s)'
    PROVE  IInv'
<1>1. TablesTyped' /\ TablesStand'
  BY QuietTables
<1>2. Touches(s) /\ eligible' = eligible
  BY DEF Touches, tables, world
<1>3. \A t \in Sessions \ {s} : SessionInv(t)'
  BY <1>1, <1>2, OthersKeep
<1>4. QED
  BY <1>1, <1>3, PartsNext

LEMMA EndKeeps ==
    ASSUME IInv, NEW s \in Sessions, End(s)
    PROVE  /\ \A t \in Sessions \ {s} : SessionKept(t)
           /\ SessionsTyped' /\ LocksApart' /\ SessionInv(s)'
<1>1. IInv /\ pc'[s] = "idle" /\ held'[s] = {}
  BY DEF End, GoTo, IInv, TypeOK
<1>2. \A t \in Sessions \ {s} : SessionKept(t)
  BY DEF End, GoTo, SessionKept, IInv, TypeOK
<1>3. SessionsTyped'
  BY DEF End, GoTo, IInv, TypeOK, SessionsTyped, Phases
<1>4. LocksApart'
  BY <1>1, <1>2 DEF LocksApart, SessionKept, IInv
<1>5. SessionInv(s)'
  BY <1>1 DEF SessionInv, LocksFit, StepFits, RowsFound, DecisionStands,
     HasBegun, HoldsPolicy, HoldsBorrower, HoldsPerson, HoldsBook
<1>6. QED
  BY <1>2, <1>3, <1>4, <1>5

LEMMA RefuseKeeps ==
    ASSUME IInv, NEW s \in Sessions, Refuse(s)
    PROVE  IInv'
<1>1. End(s) /\ UNCHANGED <<tables, world>> /\ acked' = acked
  BY DEF Refuse
<1>2. acked' \subseteq Commands /\ \A c \in acked' : event[c.req] = c
  BY <1>1 DEF IInv, TypeOK, EventsEffected
<1>3. QED
  BY <1>1, <1>2, EndKeeps, QuietKeeps

\* A session takes a lock, or none, and moves on with the call it has.
Moves(s, locks) ==
    /\ UNCHANGED <<tables, acked, world>> /\ cmd' = cmd
    /\ Free(s, locks) /\ held' = [held EXCEPT ![s] = @ \cup locks]
    /\ \E phase \in Phases : GoTo(s, phase)
    /\ \A t \in Sessions \ {s} : SessionKept(t)
    /\ policyView' \in [Sessions -> Policies \cup {NoRow}]
    /\ loanView' \in [Sessions -> LoanRow \cup {NoRow}]
    /\ chosen' \in [Sessions -> SUBSET Accessions]

LEMMA MoveKeeps ==
    ASSUME IInv, NEW s \in Sessions, NEW locks \in SUBSET Locks, Moves(s, locks),
           pc'[s] # "idle", SessionInv(s)'
    PROVE  IInv'
<1>1. /\ UNCHANGED <<tables, world>> /\ acked' = acked /\ cmd' = cmd
      /\ held' = [held EXCEPT ![s] = @ \cup locks]
      /\ \A t \in Sessions \ {s} : SessionKept(t)
  BY DEF Moves
<1>2. SessionsTyped'
  BY <1>1 DEF Moves, GoTo, IInv, TypeOK, SessionsTyped, SessionKept
<1>3. LocksApart'
  BY <1>1 DEF Moves, Free, LocksApart, IInv, TypeOK
<1>4. acked' \subseteq Commands /\ \A c \in acked' : event[c.req] = c
  BY <1>1 DEF IInv, TypeOK, EventsEffected
<1>5. QED
  BY <1>1, <1>2, <1>3, <1>4, QuietKeeps

\* A session that moves on sees what it saw before.
LEMMA Moved ==
    ASSUME IInv, NEW s \in Sessions, NEW locks \in SUBSET Locks, Moves(s, locks),
           pc[s] # "idle"
    PROVE  /\ cmd'[s] = cmd[s] /\ held'[s] = held[s] \cup locks
           /\ cmd[s] \in Commands /\ CommandFits(cmd[s]) /\ SessionInv(s)
           /\ BookOf(s)' = BookOf(s) /\ BorrowerOf(s)' = BorrowerOf(s)
           /\ Choice(s)' = Choice(s)
           /\ FreshNumbers(cmd[s].count)' = FreshNumbers(cmd[s].count)
           /\ policyView'[s] = policyView[s] => Accepted(s)' = Accepted(s)
           /\ loan' = loan /\ copy' = copy /\ event' = event /\ eligible' = eligible
           /\ nextNumber' = nextNumber
<1>1. UNCHANGED tables /\ cmd' = cmd /\ held' = [held EXCEPT ![s] = @ \cup locks]
      /\ eligible' = eligible
  BY DEF Moves, world
<1>2. cmd[s] \in Commands /\ CommandFits(cmd[s])
  BY AtWork
<1>3. held'[s] = held[s] \cup locks
  BY <1>1 DEF IInv, TypeOK
<1>4. QED
  BY <1>1, <1>2, <1>3, SameView DEF IInv, tables

LEMMA SubmitKeeps ==
    ASSUME IInv, NEW s \in Sessions, Submit(s)
    PROVE  IInv'
<1>1. PICK c \in Commands : cmd' = [cmd EXCEPT ![s] = c]
  BY DEF Submit
<1>2. /\ pc[s] = "idle" /\ pc' = [pc EXCEPT ![s] = "request"]
      /\ UNCHANGED <<tables, world>> /\ acked' = acked /\ held' = held
      /\ policyView' = policyView /\ loanView' = loanView /\ chosen' = chosen
  BY DEF Submit, GoTo
<1>3. SessionsTyped'
  BY <1>1, <1>2 DEF IInv, TypeOK, SessionsTyped, Phases
<1>4. \A t \in Sessions \ {s} : SessionKept(t)
  BY <1>1, <1>2 DEF SessionKept, IInv, TypeOK
<1>5. LocksApart'
  BY <1>2 DEF LocksApart, IInv
<1>6. SessionInv(s)'
  <2>1. pc'[s] = "request" /\ cmd'[s] = c /\ held'[s] = {}
    BY <1>1, <1>2 DEF IInv, TypeOK
  <2>2. QED
    BY <2>1 DEF SessionInv, LocksFit, StepFits, RowsFound, DecisionStands,
       HasBegun, HoldsPolicy, HoldsBorrower, HoldsPerson, HoldsBook
<1>7. acked' \subseteq Commands /\ \A a \in acked' : event[a.req] = a
  BY <1>2 DEF IInv, TypeOK, EventsEffected
<1>8. QED
  BY <1>2, <1>3, <1>4, <1>5, <1>6, <1>7, QuietKeeps

LEMMA FirstPhases ==
    ASSUME NEW c \in Commands
    PROVE  /\ FirstPhase(c.op) \in {"policy", "find", "stock", "book"}
           /\ FirstPhase(c.op) = "policy" => c.op = "issue"
           /\ FirstPhase(c.op) = "find" => c.op \in {"return", "renew", "lost", "copy"}
           /\ FirstPhase(c.op) = "stock" => c.op \in {"policy", "create", "add"}
           /\ FirstPhase(c.op) = "book" => c.op = "book"
<1>1. CommandFits(c)
  BY CommandFields
<1>2. QED
  BY <1>1 DEF CommandFits, FirstPhase

LEMMA BeginKeeps ==
    ASSUME IInv, NEW s \in Sessions, Begin(s)
    PROVE  IInv'
<1>1. pc[s] = "request" /\ Free(s, {RequestLock(cmd[s].req)}) /\ UNCHANGED <<tables, world>>
  BY DEF Begin
<1>2. PICK c \in Commands : c = cmd[s]
  BY <1>1, AtWork
<1>3. c.req \in Requests /\ CommandFits(c)
  BY CommandFields DEF CommandFits
<1>4. CASE /\ event[c.req] = NoRow
           /\ held' = [held EXCEPT ![s] = @ \cup {RequestLock(c.req)}]
           /\ GoTo(s, FirstPhase(c.op))
           /\ UNCHANGED <<acked, cmd, policyView, loanView, chosen>>
  <2> DEFINE locks == {RequestLock(c.req)}
  <2>1. locks \in SUBSET Locks
    BY <1>3, LocksNamed
  <2>2. FirstPhase(c.op) \in Phases
    BY FirstPhases DEF Phases
  <2>3. Moves(s, locks)
    BY <1>1, <1>2, <1>4, <2>2 DEF Moves, GoTo, SessionKept, IInv, TypeOK
  <2>4. pc'[s] = FirstPhase(c.op)
    BY <1>4 DEF GoTo, IInv, TypeOK
  <2>5. /\ cmd'[s] = c /\ held'[s] = held[s] \cup locks /\ event' = event
        /\ SessionInv(s)
    BY <1>1, <1>2, <2>1, <2>3, Moved
  <2>6. StepFits(s)'
    BY <2>4, <2>5, FirstPhases DEF StepFits
  <2>7. LocksFit(s)'
    <3>1. /\ \A r \in Requests : RequestLock(r) \notin held[s]
          /\ PolicyLock \notin held[s]
          /\ \A p \in Borrowers : BorrowerLock(p) \notin held[s] /\ PersonLock(p) \notin held[s]
          /\ \A b \in Books : BookLock(b) \notin held[s]
      BY <1>1, <2>5 DEF SessionInv, LocksFit, HasBegun, HoldsPolicy, HoldsBorrower,
         HoldsPerson, HoldsBook
    <3>2. HasBegun(s)' /\ ~HoldsPolicy(s)' /\ ~HoldsBorrower(s)' /\ ~HoldsPerson(s)'
          /\ ~HoldsBook(s)'
      BY <2>4, <2>5, FirstPhases DEF HasBegun, HoldsPolicy, HoldsBorrower, HoldsPerson, HoldsBook
    <3>3. QED
      BY <2>5, <3>1, <3>2, LocksDiffer DEF LocksFit
  <2>8. RowsFound(s)'
    BY <1>4, <2>4, <2>5, FirstPhases DEF RowsFound, HoldsPerson, IsLoanOp
  <2>9. DecisionStands(s)'
    BY <2>4, <2>5, FirstPhases DEF DecisionStands, HoldsBook
  <2>10. SessionInv(s)' /\ pc'[s] # "idle"
    BY <2>4, <2>6, <2>7, <2>8, <2>9, FirstPhases DEF SessionInv
  <2>11. QED
    BY <2>1, <2>3, <2>10, MoveKeeps
<1>5. CASE event[c.req] = c /\ acked' = acked \cup {c} /\ End(s)
  <2>1. acked' \subseteq Commands /\ \A a \in acked' : event[a.req] = a
    BY <1>5 DEF IInv, TypeOK, EventsEffected
  <2>2. QED
    BY <1>1, <1>5, <2>1, EndKeeps, QuietKeeps
<1>6. CASE UNCHANGED acked /\ End(s)
  <2>1. Refuse(s)
    BY <1>1, <1>6 DEF Refuse
  <2>2. QED
    BY <2>1, RefuseKeeps
<1>7. QED
  BY <1>2, <1>4, <1>5, <1>6 DEF Begin, SameDetails

LEMMA ReadPolicyKeeps ==
    ASSUME IInv, NEW s \in Sessions, ReadPolicy(s)
    PROVE  IInv'
<1>1. /\ pc[s] = "policy" /\ pc' = [pc EXCEPT ![s] = "borrower"]
      /\ policyView' = [policyView EXCEPT ![s] = policy]
      /\ UNCHANGED <<tables, acked, world, cmd, held, loanView, chosen>>
  BY DEF ReadPolicy, GoTo
<1>2. Moves(s, {}) /\ {} \in SUBSET Locks
  BY <1>1 DEF Moves, Free, GoTo, SessionKept, Phases, IInv, TypeOK
<1>3. /\ cmd'[s] = cmd[s] /\ held'[s] = held[s] /\ SessionInv(s) /\ event' = event
      /\ loan' = loan /\ BorrowerOf(s)' = BorrowerOf(s) /\ BookOf(s)' = BookOf(s)
      /\ cmd[s] \in Commands /\ cmd[s].op = "issue"
  BY <1>1, <1>2, Moved DEF SessionInv, StepFits
<1>4. pc'[s] = "borrower" /\ policyView'[s] \in Policies
  BY <1>1 DEF IInv, TypeOK
<1>5. LocksFit(s)'
  BY <1>1, <1>3, <1>4 DEF SessionInv, LocksFit, HasBegun, HoldsPolicy, HoldsBorrower,
     HoldsPerson, HoldsBook
<1>6. StepFits(s)' /\ DecisionStands(s)'
  BY <1>3, <1>4 DEF StepFits, DecisionStands, HoldsBook
<1>7. RowsFound(s)'
  BY <1>1, <1>3, <1>4 DEF SessionInv, RowsFound, HasBegun, HoldsPerson, IsLoanOp
<1>8. QED
  BY <1>2, <1>4, <1>5, <1>6, <1>7, MoveKeeps DEF SessionInv

LEMMA FindKeeps ==
    ASSUME IInv, NEW s \in Sessions, Find(s)
    PROVE  IInv'
<1>1. /\ pc[s] = "find"
      /\ IF cmd[s].op = "copy" THEN copy[cmd[s].copy] # NoRow ELSE loan[cmd[s].loan] # NoRow
      /\ pc' = [pc EXCEPT ![s] = IF cmd[s].op = "copy" THEN "book" ELSE "borrower"]
      /\ UNCHANGED <<tables, acked, world, cmd, held, policyView, loanView, chosen>>
  BY DEF Find, GoTo
<1>2. Moves(s, {}) /\ {} \in SUBSET Locks
  BY <1>1 DEF Moves, Free, GoTo, SessionKept, Phases, IInv, TypeOK
<1>3. /\ cmd'[s] = cmd[s] /\ held'[s] = held[s] /\ SessionInv(s) /\ event' = event
      /\ loan' = loan /\ copy' = copy
      /\ cmd[s] \in Commands /\ cmd[s].op \in {"return", "renew", "lost", "copy"}
  BY <1>1, <1>2, Moved DEF SessionInv, StepFits
<1>4. /\ pc'[s] \in {"book", "borrower"}
      /\ pc'[s] = "book" <=> cmd[s].op = "copy"
  BY <1>1 DEF IInv, TypeOK
<1>5. LocksFit(s)'
  BY <1>1, <1>3, <1>4 DEF SessionInv, LocksFit, HasBegun, HoldsPolicy, HoldsBorrower,
     HoldsPerson, HoldsBook
<1>6. StepFits(s)' /\ DecisionStands(s)'
  BY <1>3, <1>4 DEF StepFits, DecisionStands, HoldsBook
<1>7. RowsFound(s)'
  BY <1>1, <1>3, <1>4 DEF SessionInv, RowsFound, HasBegun, HoldsPerson, IsLoanOp
<1>8. QED
  BY <1>2, <1>4, <1>5, <1>6, <1>7, MoveKeeps DEF SessionInv

LEMMA LockPolicyKeeps ==
    ASSUME IInv, NEW s \in Sessions, LockPolicy(s)
    PROVE  IInv'
<1> DEFINE locks == {PolicyLock}
<1>1. /\ pc[s] = "stock" /\ Free(s, locks) /\ held' = [held EXCEPT ![s] = @ \cup locks]
      /\ chosen' = [chosen EXCEPT ![s] = IF cmd[s].op = "create"
                                         THEN FreshNumbers(cmd[s].count) ELSE {}]
      /\ pc' = [pc EXCEPT ![s] = IF cmd[s].op = "add" THEN "book" ELSE "commit"]
      /\ UNCHANGED <<tables, acked, world, cmd, policyView, loanView>>
  BY DEF LockPolicy, GoTo, Acquire
<1>2. FreshNumbers(cmd[s].count) \subseteq Accessions
  BY DEF FreshNumbers
<1>3. Moves(s, locks) /\ locks \in SUBSET Locks
  BY <1>1, <1>2, LocksNamed DEF Moves, GoTo, SessionKept, Phases, IInv, TypeOK
<1>4. /\ cmd'[s] = cmd[s] /\ held'[s] = held[s] \cup locks /\ SessionInv(s) /\ event' = event
      /\ cmd[s] \in Commands /\ cmd[s].op \in {"policy", "create", "add"}
      /\ FreshNumbers(cmd[s].count)' = FreshNumbers(cmd[s].count)
  <2> HIDE DEF locks
  <2>1. QED
    BY <1>1, <1>3, Moved DEF SessionInv, StepFits
<1>5. /\ pc'[s] \in {"book", "commit"}
      /\ pc'[s] = "book" <=> cmd[s].op = "add"
      /\ cmd[s].op = "create" => chosen'[s] = FreshNumbers(cmd[s].count)
  BY <1>1 DEF IInv, TypeOK
<1>6. LocksFit(s)'
  <2>1. /\ \A r \in Requests : RequestLock(r) \in held[s] <=> cmd[s].req = r
        /\ PolicyLock \notin held[s]
        /\ \A p \in Borrowers : BorrowerLock(p) \notin held[s] /\ PersonLock(p) \notin held[s]
        /\ \A b \in Books : BookLock(b) \notin held[s]
    BY <1>1, <1>4 DEF SessionInv, LocksFit, HasBegun, HoldsPolicy, HoldsBorrower,
       HoldsPerson, HoldsBook
  <2>2. HasBegun(s)' /\ HoldsPolicy(s)' /\ ~HoldsBorrower(s)' /\ ~HoldsPerson(s)'
    BY <1>4, <1>5 DEF HasBegun, HoldsPolicy, HoldsBorrower, HoldsPerson
  <2>3. ~HoldsBook(s)'
    BY <1>4, <1>5 DEF HoldsBook
  <2>4. QED
    BY <1>4, <2>1, <2>2, <2>3, LocksDiffer DEF LocksFit
<1>7. StepFits(s)' /\ DecisionStands(s)'
  BY <1>4, <1>5 DEF StepFits, DecisionStands, HoldsBook
<1>8. RowsFound(s)'
  BY <1>1, <1>4, <1>5 DEF SessionInv, RowsFound, HasBegun, HoldsPerson, IsLoanOp
<1>9. QED
  BY <1>3, <1>5, <1>6, <1>7, <1>8, MoveKeeps DEF SessionInv

LEMMA LockBorrowerKeeps ==
    ASSUME IInv, NEW s \in Sessions, LockBorrower(s)
    PROVE  IInv'
<1> DEFINE locks == {BorrowerLock(BorrowerOf(s))}
<1>1. /\ pc[s] = "borrower" /\ Free(s, locks) /\ held' = [held EXCEPT ![s] = @ \cup locks]
      /\ pc' = [pc EXCEPT ![s] = AfterBorrower(cmd[s].op)]
      /\ UNCHANGED <<tables, acked, world, cmd, policyView, loanView, chosen>>
  BY DEF LockBorrower, GoTo, Acquire
<1>2. PICK p \in Borrowers : p = BorrowerOf(s)
  <2>1. cmd[s].op \in {"issue", "return", "renew", "lost"}
    BY <1>1 DEF IInv, SessionInv, StepFits
  <2>2. QED
    BY <1>1, <2>1, AtWork DEF IsLoanOp
<1>3. Moves(s, locks) /\ locks \in SUBSET Locks
  BY <1>1, <1>2, LocksNamed DEF Moves, GoTo, SessionKept, Phases, IInv, TypeOK, AfterBorrower
<1>4. /\ cmd'[s] = cmd[s] /\ held'[s] = held[s] \cup {BorrowerLock(p)} /\ SessionInv(s)
      /\ cmd[s] \in Commands /\ cmd[s].op \in {"issue", "return", "renew", "lost"}
      /\ BorrowerOf(s)' = p /\ event' = event /\ loan' = loan
  <2>1. pc[s] # "idle" /\ locks = {BorrowerLock(p)}
    BY <1>1, <1>2
  <2> HIDE DEF locks
  <2>2. /\ cmd'[s] = cmd[s] /\ held'[s] = held[s] \cup locks /\ SessionInv(s)
        /\ cmd[s] \in Commands /\ BorrowerOf(s)' = BorrowerOf(s) /\ event' = event
        /\ loan' = loan
    BY <1>3, <2>1, Moved
  <2>3. QED
    BY <1>1, <1>2, <2>1, <2>2 DEF SessionInv, StepFits
<1>5. /\ pc'[s] \in {"person", "book"}
      /\ pc'[s] = "person" <=> cmd[s].op = "issue"
      /\ policyView' = policyView
  BY <1>1 DEF IInv, TypeOK, AfterBorrower
<1>6. LocksFit(s)'
  <2>1. /\ \A r \in Requests : RequestLock(r) \in held[s] <=> cmd[s].req = r
        /\ PolicyLock \notin held[s]
        /\ \A q \in Borrowers : BorrowerLock(q) \notin held[s] /\ PersonLock(q) \notin held[s]
        /\ \A b \in Books : BookLock(b) \notin held[s]
    BY <1>1, <1>4 DEF SessionInv, LocksFit, HasBegun, HoldsPolicy, HoldsBorrower,
       HoldsPerson, HoldsBook
  <2>2. HasBegun(s)' /\ ~HoldsPolicy(s)' /\ HoldsBorrower(s)' /\ ~HoldsPerson(s)'
        /\ ~HoldsBook(s)'
    BY <1>4, <1>5 DEF HasBegun, HoldsPolicy, HoldsBorrower, HoldsPerson, HoldsBook
  <2>3. QED
    BY <1>4, <2>1, <2>2, LocksDiffer DEF LocksFit
<1>7. StepFits(s)' /\ DecisionStands(s)'
  BY <1>4, <1>5 DEF StepFits, DecisionStands, HoldsBook
<1>8. RowsFound(s)'
  BY <1>1, <1>4, <1>5 DEF SessionInv, RowsFound, HasBegun, HoldsPerson, IsLoanOp
<1>9. QED
  BY <1>3, <1>5, <1>6, <1>7, <1>8, MoveKeeps DEF SessionInv

LEMMA LockPersonKeeps ==
    ASSUME IInv, NEW s \in Sessions, LockPerson(s)
    PROVE  IInv'
<1> DEFINE locks == {PersonLock(BorrowerOf(s))}
<1>1. CASE Refuse(s)
  BY <1>1, RefuseKeeps
<1>2. CASE /\ BorrowerOf(s) \in eligible
           /\ cmd[s].op = "renew" => RenewalAllowed(loanView[s], late[cmd[s].loan])
           /\ held' = [held EXCEPT ![s] = @ \cup locks]
           /\ GoTo(s, IF cmd[s].op = "issue" THEN "book" ELSE "commit")
           /\ UNCHANGED <<tables, acked, world, cmd, policyView, loanView, chosen>>
  <2>1. /\ pc[s] = "person" /\ Free(s, locks)
        /\ pc' = [pc EXCEPT ![s] = IF cmd[s].op = "issue" THEN "book" ELSE "commit"]
    BY <1>2 DEF LockPerson, GoTo
  <2>2. PICK p \in Borrowers : p = BorrowerOf(s)
    <3>1. cmd[s].op \in {"issue", "renew"}
      BY <2>1 DEF IInv, SessionInv, StepFits
    <3>2. QED
      BY <2>1, <3>1, AtWork DEF IsLoanOp
  <2>3. Moves(s, locks) /\ locks \in SUBSET Locks
    BY <1>2, <2>1, <2>2, LocksNamed DEF Moves, GoTo, SessionKept, Phases, IInv, TypeOK
  <2>4. /\ cmd'[s] = cmd[s] /\ held'[s] = held[s] \cup {PersonLock(p)} /\ SessionInv(s)
        /\ cmd[s] \in Commands /\ cmd[s].op \in {"issue", "renew"}
        /\ BorrowerOf(s)' = p /\ BookOf(s)' = BookOf(s) /\ event' = event /\ loan' = loan
        /\ Accepted(s)' = Accepted(s) /\ Choice(s)' = Choice(s) /\ eligible' = eligible
    <3>1. pc[s] # "idle" /\ locks = {PersonLock(p)} /\ policyView'[s] = policyView[s]
      BY <1>2, <2>1, <2>2
    <3> HIDE DEF locks
    <3>2. /\ cmd'[s] = cmd[s] /\ held'[s] = held[s] \cup locks /\ SessionInv(s)
          /\ cmd[s] \in Commands /\ BorrowerOf(s)' = BorrowerOf(s) /\ event' = event
          /\ BookOf(s)' = BookOf(s) /\ loan' = loan /\ eligible' = eligible
          /\ Accepted(s)' = Accepted(s) /\ Choice(s)' = Choice(s)
      BY <2>3, <3>1, Moved
    <3>3. QED
      BY <2>1, <2>2, <3>1, <3>2 DEF SessionInv, StepFits
  <2>5. /\ pc'[s] \in {"book", "commit"}
        /\ pc'[s] = "book" <=> cmd[s].op = "issue"
        /\ policyView' = policyView /\ loanView' = loanView /\ chosen' = chosen
    BY <1>2, <2>1 DEF IInv, TypeOK
  <2>6. HasBegun(s)' /\ ~HoldsPolicy(s)' /\ HoldsBorrower(s)' /\ HoldsPerson(s)'
        /\ HoldsBook(s)' = HoldsBook(s)
    BY <2>1, <2>4, <2>5 DEF HasBegun, HoldsPolicy, HoldsBorrower, HoldsPerson, HoldsBook
  <2>7. LocksFit(s)'
    <3>1. /\ \A r \in Requests : RequestLock(r) \in held[s] <=> cmd[s].req = r
          /\ PolicyLock \notin held[s]
          /\ \A q \in Borrowers : BorrowerLock(q) \in held[s] <=> q = p
          /\ \A q \in Borrowers : PersonLock(q) \notin held[s]
          /\ \A b \in Books : BookLock(b) \in held[s] <=> HoldsBook(s) /\ BookOf(s) = b
      BY <2>1, <2>2, <2>4 DEF SessionInv, LocksFit, HasBegun, HoldsPolicy, HoldsBorrower,
         HoldsPerson
    <3>2. QED
      BY <2>4, <2>6, <3>1, LocksDiffer DEF LocksFit
  <2>8. StepFits(s)'
    BY <2>4, <2>5 DEF StepFits
  <2>9. RowsFound(s)'
    BY <1>2, <2>1, <2>2, <2>4, <2>5 DEF SessionInv, RowsFound, HasBegun, IsLoanOp
  <2>10. DecisionStands(s)'
    <3>1. cmd[s].op = "renew" => loanView[s].renewals < loanView[s].policy.renewals
      BY <1>2 DEF RenewalAllowed
    <3>2. QED
      BY <2>4, <2>5, <2>6, <3>1 DEF SessionInv, DecisionStands
  <2>11. QED
    BY <2>3, <2>5, <2>7, <2>8, <2>9, <2>10, MoveKeeps DEF SessionInv
<1>3. QED
  BY <1>1, <1>2 DEF LockPerson

LEMMA LockBookKeeps ==
    ASSUME IInv, NEW s \in Sessions, LockBook(s)
    PROVE  IInv'
<1> DEFINE locks == {BookLock(BookOf(s))}
<1>1. CASE Refuse(s)
  BY <1>1, RefuseKeeps
<1>2. CASE /\ Accepted(s)
           /\ held' = [held EXCEPT ![s] = @ \cup locks]
           /\ chosen' = [chosen EXCEPT ![s] = Choice(s)]
           /\ loanView' = [loanView EXCEPT ![s] =
                             IF IsLoanOp(cmd[s]) THEN loan[cmd[s].loan] ELSE NoRow]
           /\ GoTo(s, AfterBook(cmd[s].op))
           /\ UNCHANGED <<tables, acked, world, cmd, policyView>>
  <2>1. /\ pc[s] = "book" /\ Free(s, locks)
        /\ pc' = [pc EXCEPT ![s] = AfterBook(cmd[s].op)]
    BY <1>2 DEF LockBook, GoTo
  <2>2. PICK c \in Commands : c = cmd[s]
    BY <2>1, AtWork
  <2>3. CommandFits(c) /\ c.op \notin {"create", "policy"} /\ SessionInv(s)
    BY <2>1, <2>2, CommandFields DEF IInv, SessionInv, StepFits
  <2>4. PICK b \in Books : b = BookOf(s)
    BY <2>1, <2>2, <2>3, AtWork
  <2>5. Choice(s) \subseteq Accessions
    <3>1. CASE c.op = "issue"
      <4>1. Candidates(c) # {} /\ Candidates(c) \subseteq Accessions
        BY <1>2, <2>2, <3>1 DEF Accepted, IssueAllowed, Candidates, OnShelf, CopiesOf
      <4>2. QED
        BY <2>2, <3>1, <4>1, MinIn DEF Choice
    <3>2. CASE c.op # "issue"
      BY <2>2, <2>3, <3>2 DEF Choice, FreshNumbers, CommandFits
    <3>3. QED
      BY <3>1, <3>2
  <2>6. loanView'[s] \in LoanRow \cup {NoRow}
        /\ (IsLoanOp(c) => loanView'[s] = loan[c.loan])
    <3>1. IsLoanOp(c) => loan[c.loan] \in LoanRow
      BY <2>1, <2>2, AtWork
    <3>2. loanView'[s] = IF IsLoanOp(c) THEN loan[c.loan] ELSE NoRow
      BY <1>2, <2>2 DEF IInv, TypeOK
    <3>3. QED
      BY <3>1, <3>2
  <2>7. Moves(s, locks) /\ locks \in SUBSET Locks
    <3>1. locks \in SUBSET Locks
      BY <2>4, LocksNamed
    <3>2. AfterBook(cmd[s].op) \in Phases
      BY DEF AfterBook, Phases
    <3>3. \A t \in Sessions \ {s} : SessionKept(t)
      BY <1>2, <2>1 DEF SessionKept, IInv, TypeOK
    <3>4. loanView' \in [Sessions -> LoanRow \cup {NoRow}]
      <4>1. (IF IsLoanOp(cmd[s]) THEN loan[cmd[s].loan] ELSE NoRow) \in LoanRow \cup {NoRow}
        BY <1>2, <2>6 DEF IInv, TypeOK
      <4>2. QED
        BY <1>2, <4>1 DEF IInv, TypeOK
    <3>5. chosen' \in [Sessions -> SUBSET Accessions]
      BY <1>2, <2>5 DEF IInv, TypeOK
    <3>6. policyView' \in [Sessions -> Policies \cup {NoRow}]
      BY <1>2 DEF IInv, TypeOK
    <3>7. QED
      BY <1>2, <2>1, <3>1, <3>2, <3>3, <3>4, <3>5, <3>6 DEF Moves, GoTo
  <2>8. /\ cmd'[s] = c /\ held'[s] = held[s] \cup {BookLock(b)}
        /\ BorrowerOf(s)' = BorrowerOf(s) /\ BookOf(s)' = b /\ event' = event
        /\ loan' = loan /\ copy' = copy /\ eligible' = eligible
        /\ Accepted(s)' = Accepted(s) /\ Choice(s)' = Choice(s)
    <3>1. pc[s] # "idle" /\ locks = {BookLock(b)} /\ policyView'[s] = policyView[s]
      BY <1>2, <2>1, <2>4
    <3> HIDE DEF locks
    <3>2. QED
      BY <2>2, <2>4, <2>7, <3>1, Moved
  <2>9. /\ pc'[s] \in {"person", "commit"}
        /\ pc'[s] = "person" <=> c.op = "renew"
        /\ policyView' = policyView /\ chosen'[s] = Choice(s)
    BY <1>2, <2>1, <2>2 DEF IInv, TypeOK, AfterBook
  <2>10. HasBegun(s)' /\ HoldsPolicy(s)' = HoldsPolicy(s)
         /\ HoldsBorrower(s)' = HoldsBorrower(s) /\ HoldsPerson(s)' = HoldsPerson(s)
         /\ HoldsBook(s)' /\ ~HoldsBook(s)
    BY <2>1, <2>2, <2>3, <2>8, <2>9
       DEF HasBegun, HoldsPolicy, HoldsBorrower, HoldsPerson, HoldsBook
  <2>11. LocksFit(s)'
    <3>1. /\ \A r \in Requests : RequestLock(r) \in held[s] <=> c.req = r
          /\ PolicyLock \in held[s] <=> HoldsPolicy(s)
          /\ \A q \in Borrowers : BorrowerLock(q) \in held[s] <=> HoldsBorrower(s) /\ BorrowerOf(s) = q
          /\ \A q \in Borrowers : PersonLock(q) \in held[s] <=> HoldsPerson(s) /\ BorrowerOf(s) = q
          /\ \A x \in Books : BookLock(x) \notin held[s]
      BY <2>1, <2>2, <2>3, <2>10 DEF SessionInv, LocksFit, HasBegun
    <3>2. QED
      BY <2>8, <2>10, <3>1, LocksDiffer DEF LocksFit
  <2>12. StepFits(s)'
    BY <2>3, <2>8, <2>9 DEF StepFits
  <2>13. RowsFound(s)'
    BY <2>1, <2>2, <2>3, <2>8, <2>9, <2>10 DEF SessionInv, RowsFound, HasBegun
  <2>14. DecisionStands(s)'
    BY <1>2, <2>2, <2>3, <2>6, <2>8, <2>9 DEF DecisionStands
  <2>15. QED
    BY <2>7, <2>9, <2>11, <2>12, <2>13, <2>14, MoveKeeps DEF SessionInv
<1>3. QED
  BY <1>1, <1>2 DEF LockBook

-----------------------------------------------------------------------------
(* The commits. *)

\* What a session that commits has in its hands.
LEMMA AtCommit ==
    ASSUME IInv, NEW s \in Sessions, pc[s] = "commit"
    PROVE  /\ cmd[s] \in Commands /\ CommandFits(cmd[s]) /\ cmd[s].req \in Requests
           /\ event[cmd[s].req] = NoRow /\ loan[cmd[s].req] = NoRow /\ late[cmd[s].req] = 0
           /\ RequestLock(cmd[s].req) \in held[s]
           /\ cmd[s].op \notin {"create", "policy"} =>
                /\ Accepted(s) /\ chosen[s] = Choice(s)
                /\ BookOf(s) \in Books /\ BookLock(BookOf(s)) \in held[s]
           /\ cmd[s].op \in {"create", "add"} => PolicyLock \in held[s]
           /\ cmd[s].op = "issue" \/ IsLoanOp(cmd[s]) =>
                BorrowerOf(s) \in Borrowers /\ BorrowerLock(BorrowerOf(s)) \in held[s]
<1>1. cmd[s] \in Commands /\ CommandFits(cmd[s]) /\ SessionInv(s) /\ cmd[s].req \in Requests
  BY AtWork DEF IInv, CommandFits
<1>2. event[cmd[s].req] = NoRow /\ RequestLock(cmd[s].req) \in held[s]
  BY <1>1 DEF SessionInv, RowsFound, LocksFit, HasBegun
<1>3. loan[cmd[s].req] = NoRow /\ late[cmd[s].req] = 0
  BY <1>1, <1>2 DEF IInv, RowsBelong
<1>4. ASSUME cmd[s].op \notin {"create", "policy"}
      PROVE  /\ Accepted(s) /\ chosen[s] = Choice(s)
             /\ BookOf(s) \in Books /\ BookLock(BookOf(s)) \in held[s]
  <2>1. HoldsBook(s) /\ BookOf(s) \in Books
    BY <1>4, AtWork DEF HoldsBook
  <2>2. QED
    BY <1>1, <2>1 DEF SessionInv, DecisionStands, LocksFit
<1>5. cmd[s].op \in {"create", "add"} => PolicyLock \in held[s]
  BY <1>1 DEF SessionInv, LocksFit, HoldsPolicy
<1>6. ASSUME cmd[s].op = "issue" \/ IsLoanOp(cmd[s])
      PROVE  BorrowerOf(s) \in Borrowers /\ BorrowerLock(BorrowerOf(s)) \in held[s]
  <2>1. HoldsBorrower(s) /\ BorrowerOf(s) \in Borrowers
    BY <1>6, AtWork DEF HoldsBorrower, IsLoanOp
  <2>2. QED
    BY <1>1, <2>1 DEF SessionInv, LocksFit
<1>7. QED
  BY <1>1, <1>2, <1>3, <1>4, <1>5, <1>6

\* The loan a return, a renewal or a loss is about to change.
LEMMA LoanAtCommit ==
    ASSUME IInv, NEW s \in Sessions, pc[s] = "commit", IsLoanOp(cmd[s])
    PROVE  /\ cmd[s].loan \in Requests
           /\ loanView[s] = loan[cmd[s].loan] /\ loan[cmd[s].loan] \in LoanRow
           /\ loan[cmd[s].loan].copy \in Accessions
           /\ copy[loan[cmd[s].loan].copy] \in CopyRow
           /\ copy[loan[cmd[s].loan].copy].book \in Books
           /\ book[copy[loan[cmd[s].loan].copy].book] # NoRow
           /\ BookLock(copy[loan[cmd[s].loan].copy].book) \in held[s]
           /\ BorrowerLock(loan[cmd[s].loan].borrower) \in held[s]
           /\ LoanChangeAllowed(cmd[s]) /\ Unresolved(cmd[s].loan)
           /\ event[cmd[s].loan] # NoRow
<1>1. cmd[s].loan \in Requests /\ cmd[s].op \in {"return", "renew", "lost"}
  BY AtCommit DEF CommandFits, IsLoanOp
<1>2. loanView[s] = loan[cmd[s].loan]
  BY <1>1 DEF IInv, SessionInv, DecisionStands, HoldsBook
<1>3. /\ loan[cmd[s].loan] \in LoanRow
      /\ loan[cmd[s].loan].copy \in Accessions
      /\ copy[loan[cmd[s].loan].copy] \in CopyRow
      /\ BookOf(s) = copy[loan[cmd[s].loan].copy].book
      /\ BorrowerOf(s) = loan[cmd[s].loan].borrower
  BY AtWork DEF Title
<1>4. /\ copy[loan[cmd[s].loan].copy].book \in Books
      /\ BookLock(copy[loan[cmd[s].loan].copy].book) \in held[s]
      /\ BorrowerLock(loan[cmd[s].loan].borrower) \in held[s]
      /\ Accepted(s)
  BY <1>1, <1>3, AtCommit
<1>5. LoanChangeAllowed(cmd[s])
  BY <1>1, <1>4 DEF Accepted
<1>6. loan[cmd[s].loan] # NoRow /\ copy[loan[cmd[s].loan].copy] # NoRow
  BY <1>3, NoRowApart
<1>7. Unresolved(cmd[s].loan)
  BY <1>1, <1>5, <1>6 DEF LoanChangeAllowed, Unresolved
<1>8. book[copy[loan[cmd[s].loan].copy].book] # NoRow /\ event[cmd[s].loan] # NoRow
  BY <1>1, <1>3, <1>6 DEF IInv, RowsBelong
<1>9. QED
  BY <1>1, <1>2, <1>3, <1>4, <1>5, <1>7, <1>8

\* Loans never come back from where they went.
LoansGoOn ==
    \A r \in Requests : loan[r] # NoRow =>
        /\ loan[r].status = "returned" => loan'[r].status = "returned"
        /\ loan[r].status = "lost" => loan'[r].status \in {"lost", "returned"}

LEMMA EventsKeep ==
    ASSUME IInv, NEW s \in Sessions, pc[s] = "commit", Record(s), Touches(s), LoansGoOn,
           NEW c \in Commands, c = cmd[s], Effected(c)'
    PROVE  /\ EventsEffected' /\ acked' \subseteq Commands
           /\ event' \in [Requests -> Commands \cup {NoRow}]
           /\ \A r \in Requests : event[r] # NoRow => event'[r] # NoRow
           /\ event'[c.req] # NoRow
<1>1. /\ event' = [event EXCEPT ![c.req] = c] /\ acked' = acked \cup {c}
      /\ c.req \in Requests /\ event[c.req] = NoRow
  BY AtCommit DEF Record
<1>2. /\ event \in [Requests -> Commands \cup {NoRow}] /\ acked \subseteq Commands
      /\ \A r \in Requests : event[r] # NoRow => event[r].req = r /\ Effected(event[r])
      /\ \A a \in acked : event[a.req] = a
  BY DEF IInv, TypeOK, EventsEffected
<1>3. ASSUME NEW e \in Commands, Effected(e)
      PROVE  Effected(e)'
  <2>1. CommandFits(e)
    BY CommandFields
  <2>2. CASE e.op = "issue"
    <3>1. /\ e.req \in Requests /\ loan[e.req] # NoRow /\ loan[e.req].borrower = e.borrower
          /\ Title(e.req) = e.book /\ (e.copy # NoCopy => loan[e.req].copy = e.copy)
      BY <1>3, <2>1, <2>2 DEF Effected, CommandFits
    <3>2. /\ loan'[e.req] # NoRow /\ loan'[e.req].borrower = loan[e.req].borrower
          /\ loan'[e.req].copy = loan[e.req].copy /\ Title(e.req)' = Title(e.req)
      BY <3>1, RowsStay
    <3>3. QED
      BY <2>2, <3>1, <3>2 DEF Effected
  <2>3. CASE e.op \in {"return", "lost"}
    <3>1. e.loan \in Requests /\ loan[e.loan] # NoRow
      BY <1>3, <2>1, <2>3 DEF Effected, CommandFits
    <3>2. loan'[e.loan] # NoRow
      BY <3>1, RowsStay
    <3>3. QED
      BY <1>3, <2>3, <3>1, <3>2 DEF Effected, LoansGoOn
  <2>4. CASE e.op \notin {"issue", "return", "lost"}
    BY <2>4 DEF Effected
  <2>5. QED
    BY <2>2, <2>3, <2>4
<1>4. ASSUME NEW r \in Requests, event'[r] # NoRow
      PROVE  event'[r].req = r /\ Effected(event[r])'
  <2>1. CASE r = c.req
    BY <1>1, <1>2, <2>1
  <2>2. CASE r # c.req
    <3>1. PICK e \in Commands : e = event[r] /\ e = event'[r]
      BY <1>1, <1>2, <1>4, <2>2
    <3>2. e.req = r /\ Effected(e)
      BY <1>2, <3>1, NoRowApart
    <3>3. Effected(e)'
      BY <1>3, <3>2
    <3>4. QED
      BY <3>1, <3>2, <3>3
  <2>3. QED
    BY <2>1, <2>2
<1>5. \A a \in acked' : event'[a.req] = a
  <2>1. ASSUME NEW a \in acked PROVE event'[a.req] = a
    <3>1. event[a.req] = a /\ a # NoRow
      BY <1>2, NoRowApart
    <3>2. a.req # c.req
      BY <1>1, <3>1
    <3>3. a.req \in Requests
      BY <1>2, CommandFields DEF CommandFits
    <3>4. QED
      BY <1>1, <1>2, <3>1, <3>2, <3>3
  <2>2. event'[c.req] = c
    BY <1>1, <1>2
  <2>3. QED
    BY <1>1, <2>1, <2>2
<1>6. EventsEffected'
  BY <1>4, <1>5 DEF EventsEffected
<1>7. acked' \subseteq Commands /\ event' \in [Requests -> Commands \cup {NoRow}]
  BY <1>1, <1>2
<1>8. event'[c.req] # NoRow /\ \A r \in Requests : event[r] # NoRow => event'[r] # NoRow
  BY <1>1, <1>2, NoRowApart
<1>9. QED
  BY <1>6, <1>7, <1>8

LEMMA CommitKeeps ==
    ASSUME IInv, NEW s \in Sessions, Record(s), Touches(s), TablesTyped', TablesStand',
           eligible' = eligible
    PROVE  IInv'
<1>1. End(s)
  BY DEF Record
<1>2. /\ \A t \in Sessions \ {s} : SessionKept(t)
      /\ SessionsTyped' /\ LocksApart' /\ SessionInv(s)'
  BY <1>1, EndKeeps
<1>3. \A t \in Sessions \ {s} : SessionInv(t)'
  BY <1>2, OthersKeep
<1>4. QED
  BY <1>2, <1>3, PartsNext

\* A title is counted again after a change of its copies.
LEMMA RestockKeeps ==
    ASSUME IInv, NEW b \in Books, book[b] # NoRow, Restock(b),
           \A c \in Accessions : copy'[c] # copy[c] =>
             /\ copy[c] # NoRow /\ copy[c].book = b
             /\ copy'[c] # NoRow /\ copy'[c].book = b
    PROVE  /\ book' \in [Books -> BookRow \cup {NoRow}]
           /\ book'[b] # NoRow /\ \A x \in Books \ {b} : book'[x] = book[x]
           /\ \A c \in Accessions : copy'[c] # NoRow => book'[copy'[c].book] # NoRow
           /\ StockCounted'
<1>1. book' = [book EXCEPT ![b] = SyncStock(book[b], copy', b)]
  BY DEF Restock
<1>2. book \in [Books -> BookRow \cup {NoRow}] /\ book[b] \in BookRow
  BY DEF IInv, TypeOK
<1>3. /\ book'[b] = SyncStock(book[b], copy', b)
      /\ \A x \in Books \ {b} : book'[x] = book[x]
  BY <1>1, <1>2
<1>4. book'[b] \in BookRow /\ SyncStock(book'[b], copy', b) = book'[b]
  BY <1>2, <1>3, SyncStockTyped
<1>5. book' \in [Books -> BookRow \cup {NoRow}] /\ book'[b] # NoRow
  BY <1>1, <1>2, <1>3, <1>4, NoRowApart
<1>6. ASSUME NEW x \in Books, book'[x] # NoRow
      PROVE  book'[x] = SyncStock(book'[x], copy', x)
  <2>1. CASE x = b
    BY <1>4, <2>1
  <2>2. CASE x # b
    <3>1. book'[x] = book[x] /\ book[x] = SyncStock(book[x], copy, x)
      BY <1>3, <1>6, <2>2 DEF IInv, StockCounted
    <3>2. SyncStock(book[x], copy', x) = SyncStock(book[x], copy, x)
      BY <2>2, SyncStockSame
    <3>3. QED
      BY <3>1, <3>2
  <2>3. QED
    BY <2>1, <2>2
<1>7. ASSUME NEW c \in Accessions, copy'[c] # NoRow PROVE book'[copy'[c].book] # NoRow
  <2>1. CASE copy'[c] # copy[c]
    BY <1>5, <2>1
  <2>2. CASE copy'[c] = copy[c]
    <3>1. book[copy[c].book] # NoRow /\ copy[c].book \in Books
      BY <1>7, <2>2 DEF IInv, TypeOK, RowsBelong, CopyRow
    <3>2. QED
      BY <1>3, <1>5, <2>2, <3>1
  <2>3. QED
    BY <2>1, <2>2
<1>8. QED
  BY <1>3, <1>5, <1>6, <1>7 DEF StockCounted

LoanBecomes(r, row) == loan' = [loan EXCEPT ![r] = row]

CopyBecomes(c, state) == copy' = [copy EXCEPT ![c].status = state]

Logs(s) == event' = [event EXCEPT ![cmd[s].req] = cmd[s]] /\ nextNumber' = nextNumber

\* One loan and the copy it holds change, within a title that is counted again.
LEMMA OneLoanChanges ==
    ASSUME IInv, NEW s \in Sessions, NEW r \in Requests, NEW c \in Accessions,
           NEW row \in LoanRow, NEW state \in CopyStatus,
           LoanBecomes(r, row), CopyBecomes(c, state), copy[c] # NoRow, row.copy = c,
           BookLock(copy[c].book) \in held[s], BorrowerLock(row.borrower) \in held[s],
           loan[r] # NoRow => loan[r].copy = c /\ loan[r].borrower = row.borrower,
           Restock(copy[c].book), Logs(s), RequestLock(cmd[s].req) \in held[s]
    PROVE  /\ Touches(s) /\ StockCounted' /\ book' \in [Books -> BookRow \cup {NoRow}]
           /\ \A x \in Accessions : copy'[x] # NoRow => book'[copy'[x].book] # NoRow
           /\ loan' \in [Requests -> LoanRow \cup {NoRow}]
           /\ copy' \in [Accessions -> CopyRow \cup {NoRow}]
           /\ loan'[r] = row /\ \A q \in Requests \ {r} : loan'[q] = loan[q]
           /\ copy'[c] # NoRow /\ copy'[c].status = state /\ copy'[c].book = copy[c].book
           /\ \A x \in Accessions \ {c} : copy'[x] = copy[x]
<1>1. /\ copy[c] \in CopyRow /\ copy[c].book \in Books /\ book[copy[c].book] # NoRow
      /\ copy \in [Accessions -> CopyRow \cup {NoRow}]
      /\ loan \in [Requests -> LoanRow \cup {NoRow}]
      /\ event \in [Requests -> Commands \cup {NoRow}]
  BY DEF IInv, TypeOK, RowsBelong, CopyRow
<1>2. /\ copy'[c] = [copy[c] EXCEPT !.status = state]
      /\ \A x \in Accessions \ {c} : copy'[x] = copy[x]
  BY <1>1 DEF CopyBecomes
<1>3. copy'[c] \in CopyRow /\ copy'[c].status = state /\ copy'[c].book = copy[c].book
  BY <1>1, <1>2 DEF CopyRow
<1>4. copy'[c] # NoRow /\ copy' \in [Accessions -> CopyRow \cup {NoRow}]
  BY <1>1, <1>2, <1>3, NoRowApart DEF CopyBecomes
<1>5. /\ loan' \in [Requests -> LoanRow \cup {NoRow}] /\ loan'[r] = row /\ row # NoRow
      /\ \A q \in Requests \ {r} : loan'[q] = loan[q]
  BY <1>1, NoRowApart DEF LoanBecomes
<1>6. \A x \in Accessions : copy'[x] # copy[x] =>
        /\ copy[x] # NoRow /\ copy[x].book = copy[c].book
        /\ copy'[x] # NoRow /\ copy'[x].book = copy[c].book
  BY <1>2, <1>3, <1>4
<1>7. /\ StockCounted' /\ book' \in [Books -> BookRow \cup {NoRow}]
      /\ book'[copy[c].book] # NoRow
      /\ \A x \in Books \ {copy[c].book} : book'[x] = book[x]
      /\ \A x \in Accessions : copy'[x] # NoRow => book'[copy'[x].book] # NoRow
  BY <1>1, <1>6, RestockKeeps
<1>8. Touches(s)
  <2>1. \A q \in Requests : event'[q] = event[q] \/ RequestLock(q) \in held[s]
    BY <1>1 DEF Logs
  <2>2. \A q \in Requests : loan'[q] # loan[q] =>
          /\ loan'[q] # NoRow
          /\ loan[q] # NoRow => /\ loan'[q].copy = loan[q].copy
                                /\ loan'[q].borrower = loan[q].borrower
          /\ BookLock(copy[loan'[q].copy].book) \in held[s]
          /\ BorrowerLock(loan'[q].borrower) \in held[s]
    BY <1>5
  <2>3. \A x \in Accessions : copy'[x] # copy[x] =>
          /\ copy'[x] # NoRow
          /\ IF copy[x] = NoRow
             THEN /\ PolicyLock \in held[s]
                  /\ BookLock(copy'[x].book) \in held[s] \/ book[copy'[x].book] = NoRow
             ELSE copy'[x].book = copy[x].book /\ BookLock(copy[x].book) \in held[s]
    BY <1>6
  <2>4. \A b \in Books : book'[b] # book[b] =>
          book'[b] # NoRow /\ (book[b] = NoRow \/ BookLock(b) \in held[s])
    BY <1>7
  <2>5. QED
    BY <2>1, <2>2, <2>3, <2>4 DEF Touches, Logs
<1>9. QED
  BY <1>2, <1>3, <1>4, <1>5, <1>7, <1>8

\* The same for what the rows say of each other.
LEMMA OneLoanStands ==
    ASSUME IInv, NEW r \in Requests, NEW c \in Accessions, NEW row \in LoanRow,
           NEW state \in CopyStatus,
           loan \in [Requests -> LoanRow \cup {NoRow}],
           loan'[r] = row, \A q \in Requests \ {r} : loan'[q] = loan[q],
           row.copy = c, copy'[c] # NoRow, copy'[c].status = state,
           \A x \in Accessions \ {c} : copy'[x] = copy[x],
           \A x \in Accessions : copy[x] # NoRow => copy'[x] # NoRow,
           \A x \in Accessions : copy'[x] # NoRow => book'[copy'[x].book] # NoRow,
           \A q \in Requests : event[q] # NoRow => event'[q] # NoRow,
           event'[r] # NoRow,
           late'[r] = 0 \/ loan[r] # NoRow, \A q \in Requests \ {r} : late'[q] = late[q],
           Unresolved(r) \/ (loan[r] = NoRow /\ copy[c].status = "available"),
           Unresolved(r) => loan[r].copy = c,
           row.status = "issued" => /\ state = "issued" /\ row.fine <= row.policy.cap
                                    /\ row.renewals <= row.policy.renewals,
           row.status = "lost" => state = "lost",
           row.status = "returned" => state # "issued"
    PROVE  RowsBelong' /\ CopiesHeld' /\ WithinCap'
<1>1. row # NoRow /\ row.status \in {"issued", "returned", "lost"}
  BY NoRowApart DEF LoanRow
<1>2. \A q \in Requests : loan[q] # NoRow => loan[q].copy \in Accessions
  BY DEF LoanRow
<1>3. \A q \in Requests : Unresolved(q) /\ q # r => loan[q].copy # c
  <2>1. CASE Unresolved(r)
    BY <2>1 DEF IInv, CopiesHeld
  <2>2. CASE copy[c].status = "available"
    BY <2>2 DEF IInv, CopiesHeld, Unresolved
  <2>3. QED
    BY <2>1, <2>2
<1>4. \A q \in Requests \ {r} : Unresolved(q)' <=> Unresolved(q)
  BY DEF Unresolved
<1>5. Unresolved(r)' <=> row.status \in {"issued", "lost"}
  BY <1>1 DEF Unresolved
<1>6. RowsBelong'
  <2>1. \A q \in Requests : loan'[q] # NoRow => copy'[loan'[q].copy] # NoRow /\ event'[q] # NoRow
    <3>1. ASSUME NEW q \in Requests, q # r, loan'[q] # NoRow
          PROVE  copy'[loan'[q].copy] # NoRow /\ event'[q] # NoRow
      BY <1>2, <3>1 DEF IInv, RowsBelong
    <3>2. QED
      BY <3>1
  <2>2. \A q \in Requests : loan'[q] = NoRow => late'[q] = 0
    BY <1>1 DEF IInv, RowsBelong
  <2>3. QED
    BY <2>1, <2>2 DEF RowsBelong
<1>7. CopiesHeld'
  <2>1. ASSUME NEW q \in Requests, Unresolved(q)'
        PROVE  /\ loan'[q].status = "issued" => copy'[loan'[q].copy].status = "issued"
               /\ loan'[q].status = "lost" => copy'[loan'[q].copy].status \in {"lost", "withdrawn"}
    <3>1. CASE q = r
      BY <3>1
    <3>2. CASE q # r
      <4>1. Unresolved(q) /\ loan[q].copy # c /\ loan[q].copy \in Accessions /\ loan'[q] = loan[q]
        BY <1>2, <1>3, <1>4, <2>1, <3>2 DEF Unresolved
      <4>2. QED
        BY <4>1 DEF IInv, CopiesHeld
    <3>3. QED
      BY <3>1, <3>2
  <2>2. ASSUME NEW x \in Accessions, copy'[x] # NoRow, copy'[x].status = "issued"
        PROVE  \E q \in Requests : Unresolved(q)' /\ loan'[q].copy = x
    <3>1. CASE x = c
      BY <1>1, <1>5, <2>2, <3>1
    <3>2. CASE x # c
      <4>1. PICK q \in Requests : Unresolved(q) /\ loan[q].copy = x
        BY <2>2, <3>2 DEF IInv, CopiesHeld
      <4>2. q # r
        BY <3>2, <4>1
      <4>3. QED
        BY <1>4, <4>1, <4>2
    <3>3. QED
      BY <3>1, <3>2
  <2>3. \A p, q \in Requests :
          (Unresolved(p) /\ Unresolved(q) /\ loan[p].copy = loan[q].copy => p = q)'
    BY <1>3, <1>4 DEF IInv, CopiesHeld
  <2>4. QED
    BY <2>1, <2>2, <2>3 DEF CopiesHeld
<1>8. WithinCap'
  BY DEF IInv, WithinCap
<1>9. QED
  BY <1>6, <1>7, <1>8

LEMMA LateTyped ==
    ASSUME IInv, NEW r \in Requests, late' = [late EXCEPT ![r] = 0]
    PROVE  /\ late' \in [Requests -> 0 .. MaxLate] /\ late'[r] = 0
           /\ \A q \in Requests \ {r} : late'[q] = late[q]
<1>1. 0 \in 0 .. MaxLate
  BY LibraryConstantsAssumption
<1>2. QED
  BY <1>1 DEF IInv, TypeOK

\* The loan a new issue finds a copy for.
LEMMA CommitIssueKeeps ==
    ASSUME IInv, NEW s \in Sessions, CommitIssue(s)
    PROVE  IInv'
<1>1. /\ pc[s] = "commit" /\ cmd[s].op = "issue" /\ Restock(cmd[s].book) /\ Record(s)
      /\ policy' = policy /\ nextNumber' = nextNumber /\ eligible' = eligible /\ late' = late
  BY DEF CommitIssue, world
<1>2. PICK c \in chosen[s] :
        /\ copy' = [copy EXCEPT ![c].status = "issued"]
        /\ loan' = [loan EXCEPT ![cmd[s].req] =
              [copy |-> c, borrower |-> cmd[s].borrower, status |-> "issued",
               fine |-> 0, renewals |-> 0, policy |-> policyView[s]]]
  BY DEF CommitIssue
<1>3. PICK a \in Commands : a = cmd[s]
  BY <1>1, AtCommit
<1>4. /\ a.op = "issue" /\ a.req \in Requests /\ a.book \in Books /\ a.borrower \in Borrowers
      /\ event[a.req] = NoRow /\ loan[a.req] = NoRow /\ late[a.req] = 0
      /\ RequestLock(a.req) \in held[s] /\ BookLock(a.book) \in held[s]
      /\ BorrowerLock(a.borrower) \in held[s]
      /\ Accepted(s) /\ chosen[s] = Choice(s)
  BY <1>1, <1>3, AtCommit, CommandFields DEF CommandFits, BookOf, BorrowerOf
<1>5. /\ c \in Accessions /\ copy[c] # NoRow /\ copy[c].book = a.book
      /\ copy[c].status = "available" /\ (a.copy # NoCopy => c = a.copy)
  <2>1. Candidates(a) # {} /\ Candidates(a) \in SUBSET Accessions
    BY <1>3, <1>4 DEF Accepted, IssueAllowed, Candidates, OnShelf, CopiesOf
  <2>2. c = Min(Candidates(a))
    BY <1>2, <1>3, <1>4 DEF Choice
  <2>3. c \in Candidates(a)
    BY <2>1, <2>2, MinIn
  <2>4. QED
    BY <2>3 DEF Candidates, OnShelf, CopiesOf
<1> DEFINE row == [copy |-> c, borrower |-> a.borrower, status |-> "issued",
                   fine |-> 0, renewals |-> 0, policy |-> policyView[s]]
<1>6. policyView[s] \in Policies
  BY <1>1 DEF IInv, SessionInv, RowsFound
<1>7. row \in LoanRow /\ row.copy = c /\ row.borrower = a.borrower /\ row.status = "issued"
      /\ row.fine <= row.policy.cap /\ row.renewals <= row.policy.renewals
  <2>1. policyView[s].cap \in Nat /\ policyView[s].renewals \in Nat
    BY <1>6, LibraryConstantsAssumption DEF PolicyRow, Money
  <2>2. QED
    BY <1>4, <1>5, <1>6, <2>1 DEF LoanRow, Money
<1>8. loan' = [loan EXCEPT ![a.req] = row]
  BY <1>2, <1>3
<1>9. Restock(copy[c].book) /\ event' = [event EXCEPT ![cmd[s].req] = cmd[s]]
      /\ "issued" \in CopyStatus /\ RequestLock(cmd[s].req) \in held[s]
      /\ BookLock(copy[c].book) \in held[s]
  BY <1>1, <1>3, <1>4, <1>5 DEF Record, CopyStatus
<1> HIDE DEF row
<1>10. /\ Touches(s) /\ StockCounted' /\ book' \in [Books -> BookRow \cup {NoRow}]
       /\ \A x \in Accessions : copy'[x] # NoRow => book'[copy'[x].book] # NoRow
       /\ loan' \in [Requests -> LoanRow \cup {NoRow}]
       /\ copy' \in [Accessions -> CopyRow \cup {NoRow}]
       /\ loan'[a.req] = row /\ \A q \in Requests \ {a.req} : loan'[q] = loan[q]
       /\ copy'[c] # NoRow /\ copy'[c].status = "issued" /\ copy'[c].book = copy[c].book
       /\ \A x \in Accessions \ {c} : copy'[x] = copy[x]
  <2>1. /\ a.req \in Requests /\ c \in Accessions /\ row \in LoanRow /\ "issued" \in CopyStatus
        /\ LoanBecomes(a.req, row) /\ CopyBecomes(c, "issued")
        /\ copy[c] # NoRow /\ row.copy = c
        /\ BookLock(copy[c].book) \in held[s] /\ BorrowerLock(row.borrower) \in held[s]
        /\ loan[a.req] # NoRow => loan[a.req].copy = c /\ loan[a.req].borrower = row.borrower
        /\ Restock(copy[c].book) /\ Logs(s) /\ RequestLock(cmd[s].req) \in held[s]
    BY <1>1, <1>2, <1>4, <1>5, <1>7, <1>8, <1>9 DEF LoanBecomes, CopyBecomes, Logs
  <2>2. QED
    BY ONLY IInv, s \in Sessions, <2>1, OneLoanChanges
<1>11. LoansGoOn
  BY <1>4, <1>10 DEF LoansGoOn
<1>12. Effected(a)'
  <2>1. row # NoRow
    BY <1>7, NoRowApart
  <2>2. QED
    BY <1>4, <1>5, <1>7, <1>10, <2>1 DEF Effected, Title
<1>13. /\ EventsEffected' /\ acked' \subseteq Commands
       /\ event' \in [Requests -> Commands \cup {NoRow}]
       /\ \A r \in Requests : event[r] # NoRow => event'[r] # NoRow
       /\ event'[a.req] # NoRow
  BY <1>1, <1>3, <1>10, <1>11, <1>12, EventsKeep
<1>14. RowsBelong' /\ CopiesHeld' /\ WithinCap'
  <2>1. ~Unresolved(a.req) /\ "issued" \in CopyStatus /\ late'[a.req] = 0
        /\ loan \in [Requests -> LoanRow \cup {NoRow}]
        /\ \A x \in Accessions : copy[x] # NoRow => copy'[x] # NoRow
    BY <1>1, <1>4, <1>10 DEF Unresolved, CopyStatus, IInv, TypeOK
  <2>2. QED
    BY <1>1, <1>4, <1>5, <1>7, <1>10, <1>13, <2>1, OneLoanStands
<1>15. TablesTyped' /\ TablesStand'
  BY <1>1, <1>10, <1>13, <1>14 DEF TablesTyped, TablesStand, IInv, TypeOK
<1>16. QED
  BY <1>1, <1>10, <1>15, CommitKeeps

\* A return and a loss differ in what becomes of the loan and its copy.
LEMMA LoanEndKeeps ==
    ASSUME IInv, NEW s \in Sessions, pc[s] = "commit", IsLoanOp(cmd[s]), Record(s),
           NEW row \in LoanRow, NEW state \in CopyStatus,
           row.copy = loanView[s].copy, row.borrower = loanView[s].borrower,
           loan' = [loan EXCEPT ![cmd[s].loan] = row],
           copy' = [copy EXCEPT ![loanView[s].copy].status = state],
           Restock(copy[loanView[s].copy].book),
           late' = [late EXCEPT ![cmd[s].loan] = 0],
           UNCHANGED <<policy, nextNumber, eligible>>,
           \/ row.status = "lost" /\ state = "lost"
           \/ row.status = "returned" /\ state # "issued",
           cmd[s].op = "return" => row.status = "returned",
           row.status = "lost" => loanView[s].status = "issued"
    PROVE  IInv'
<1>1. PICK a \in Commands : a = cmd[s]
  BY AtCommit
<1> DEFINE l == a.loan
           c == loan[l].copy
<1>2. /\ l \in Requests /\ loanView[s] = loan[l] /\ loan[l] \in LoanRow
      /\ c \in Accessions /\ copy[c] \in CopyRow
      /\ BookLock(copy[c].book) \in held[s] /\ BorrowerLock(loan[l].borrower) \in held[s]
      /\ Unresolved(l) /\ event[l] # NoRow
  BY <1>1, LoanAtCommit
<1>3. /\ a.op \in {"return", "renew", "lost"} /\ a.req \in Requests
      /\ RequestLock(cmd[s].req) \in held[s] /\ event[a.req] = NoRow
  BY <1>1, AtCommit DEF IsLoanOp
<1>4. loan[l] # NoRow /\ copy[c] # NoRow
  BY <1>2, NoRowApart
<1>5. /\ loan' = [loan EXCEPT ![l] = row] /\ copy' = [copy EXCEPT ![c].status = state]
      /\ Restock(copy[c].book) /\ late' = [late EXCEPT ![l] = 0]
      /\ row.copy = c /\ row.borrower = loan[l].borrower
      /\ row.status = "lost" => loan[l].status = "issued"
      /\ a.op = "return" => row.status = "returned"
      /\ event' = [event EXCEPT ![cmd[s].req] = cmd[s]] /\ nextNumber' = nextNumber
  BY <1>1, <1>2 DEF Record
<1> HIDE DEF l, c
<1>6. /\ Touches(s) /\ StockCounted' /\ book' \in [Books -> BookRow \cup {NoRow}]
      /\ \A x \in Accessions : copy'[x] # NoRow => book'[copy'[x].book] # NoRow
      /\ loan' \in [Requests -> LoanRow \cup {NoRow}]
      /\ copy' \in [Accessions -> CopyRow \cup {NoRow}]
      /\ loan'[l] = row /\ \A q \in Requests \ {l} : loan'[q] = loan[q]
      /\ copy'[c] # NoRow /\ copy'[c].status = state /\ copy'[c].book = copy[c].book
      /\ \A x \in Accessions \ {c} : copy'[x] = copy[x]
  <2>1. loan[l].copy = c
    BY DEF c
  <2>2. /\ l \in Requests /\ c \in Accessions /\ row \in LoanRow /\ state \in CopyStatus
        /\ LoanBecomes(l, row) /\ CopyBecomes(c, state)
        /\ copy[c] # NoRow /\ row.copy = c
        /\ BookLock(copy[c].book) \in held[s] /\ BorrowerLock(row.borrower) \in held[s]
        /\ loan[l] # NoRow => loan[l].copy = c /\ loan[l].borrower = row.borrower
        /\ Restock(copy[c].book) /\ Logs(s) /\ RequestLock(cmd[s].req) \in held[s]
    BY <1>2, <1>3, <1>4, <1>5, <2>1 DEF LoanBecomes, CopyBecomes, Logs
  <2>3. QED
    BY ONLY IInv, s \in Sessions, <2>2, OneLoanChanges
<1>7. LoansGoOn
  <2>1. loan[l].status \in {"issued", "lost"}
    BY <1>2 DEF Unresolved
  <2>2. row.status \in {"lost", "returned"}
    OBVIOUS
  <2>3. QED
    BY <1>6, <2>1, <2>2 DEF LoansGoOn
<1>8. Effected(a)'
  <2>1. loan'[a.loan] = row /\ row # NoRow /\ row.status \in {"lost", "returned"}
    BY <1>6, NoRowApart DEF l
  <2>2. QED
    BY <1>3, <1>5, <2>1 DEF Effected
<1>9. /\ EventsEffected' /\ acked' \subseteq Commands
      /\ event' \in [Requests -> Commands \cup {NoRow}]
      /\ \A r \in Requests : event[r] # NoRow => event'[r] # NoRow
  BY <1>1, <1>6, <1>7, <1>8, EventsKeep
<1>10. late' \in [Requests -> 0 .. MaxLate] /\ \A q \in Requests \ {l} : late'[q] = late[q]
  BY <1>2, <1>5, LateTyped
<1>11. RowsBelong' /\ CopiesHeld' /\ WithinCap'
  <2>1. /\ loan \in [Requests -> LoanRow \cup {NoRow}]
        /\ \A x \in Accessions : copy[x] # NoRow => copy'[x] # NoRow
        /\ event'[l] # NoRow
        /\ loan[l].copy = c
        /\ row.status # "issued" /\ (row.status = "lost" => state = "lost")
        /\ row.status = "returned" => state # "issued"
    BY <1>2, <1>6, <1>9 DEF IInv, TypeOK, c
  <2>2. QED
    BY <1>2, <1>4, <1>5, <1>6, <1>9, <1>10, <2>1, OneLoanStands
<1>12. TablesTyped' /\ TablesStand'
  BY <1>6, <1>9, <1>10, <1>11 DEF TablesTyped, TablesStand, IInv, TypeOK
<1>13. QED
  BY <1>6, <1>12, CommitKeeps

LEMMA CommitReturnKeeps ==
    ASSUME IInv, NEW s \in Sessions, CommitReturn(s)
    PROVE  IInv'
<1> DEFINE row == [loanView[s] EXCEPT !.status = "returned", !.fine = ReturnFine(s)]
           state == IF cmd[s].good THEN "available" ELSE "damaged"
<1>1. /\ pc[s] = "commit" /\ cmd[s].op = "return"
      /\ loan' = [loan EXCEPT ![cmd[s].loan] = row]
      /\ copy' = [copy EXCEPT ![loanView[s].copy].status = state]
      /\ Restock(copy[loanView[s].copy].book)
      /\ late' = [late EXCEPT ![cmd[s].loan] = 0]
      /\ Record(s)
      /\ UNCHANGED <<policy, nextNumber, eligible>>
  BY DEF CommitReturn
<1>2. IsLoanOp(cmd[s])
  BY <1>1 DEF IsLoanOp
<1>3. cmd[s].loan \in Requests /\ loanView[s] \in LoanRow
  BY <1>1, <1>2, LoanAtCommit
<1>4. ReturnFine(s) \in Money
  <2>1. late[cmd[s].loan] \in Nat
    BY <1>3, LibraryConstantsAssumption DEF IInv, TypeOK
  <2>2. EstimatedFine(loanView[s], late[cmd[s].loan]) \in Nat
    BY <1>3, <2>1, FineWithinCap
  <2>3. cmd[s].fine # NoFine => cmd[s].fine \in Money
    BY <1>1, AtCommit DEF CommandFits
  <2>4. loanView[s].fine \in Money
    BY <1>3 DEF LoanRow
  <2>5. QED
    BY <2>2, <2>3, <2>4 DEF ReturnFine, Money
<1>5. /\ row \in LoanRow /\ row.copy = loanView[s].copy /\ row.borrower = loanView[s].borrower
      /\ row.status = "returned"
  BY <1>3, <1>4 DEF LoanRow
<1>6. state \in CopyStatus /\ state # "issued"
  BY DEF CopyStatus
<1> HIDE DEF row, state
<1>7. QED
  BY <1>1, <1>2, <1>5, <1>6, LoanEndKeeps

LEMMA CommitLostKeeps ==
    ASSUME IInv, NEW s \in Sessions, CommitLost(s)
    PROVE  IInv'
<1> DEFINE row == [loanView[s] EXCEPT !.status = "lost", !.fine = cmd[s].fine]
<1>1. /\ pc[s] = "commit" /\ cmd[s].op = "lost"
      /\ loan' = [loan EXCEPT ![cmd[s].loan] = row]
      /\ copy' = [copy EXCEPT ![loanView[s].copy].status = "lost"]
      /\ Restock(copy[loanView[s].copy].book)
      /\ late' = [late EXCEPT ![cmd[s].loan] = 0]
      /\ Record(s)
      /\ UNCHANGED <<policy, nextNumber, eligible>>
  BY DEF CommitLost
<1>2. IsLoanOp(cmd[s])
  BY <1>1 DEF IsLoanOp
<1>3. loanView[s] \in LoanRow /\ loanView[s].status = "issued"
  BY <1>1, <1>2, LoanAtCommit DEF LoanChangeAllowed
<1>4. cmd[s].fine \in Money
  BY <1>1, AtCommit DEF CommandFits
<1>5. /\ row \in LoanRow /\ row.copy = loanView[s].copy /\ row.borrower = loanView[s].borrower
      /\ row.status = "lost"
  BY <1>3, <1>4 DEF LoanRow
<1>6. "lost" \in CopyStatus /\ cmd[s].op # "return"
  BY <1>1 DEF CopyStatus
<1> HIDE DEF row
<1>7. QED
  BY <1>1, <1>2, <1>3, <1>5, <1>6, LoanEndKeeps

LEMMA CommitRenewKeeps ==
    ASSUME IInv, NEW s \in Sessions, CommitRenew(s)
    PROVE  IInv'
<1>1. PICK a \in Commands : a = cmd[s]
  BY AtCommit DEF CommitRenew
<1> DEFINE l == a.loan
           fine == EstimatedFine(loanView[s], late[l])
           row == [loanView[s] EXCEPT !.fine = fine, !.renewals = loanView[s].renewals + 1]
<1>2. /\ pc[s] = "commit" /\ a.op = "renew" /\ Record(s)
      /\ loan' = [loan EXCEPT ![l] = row] /\ late' = [late EXCEPT ![l] = 0]
      /\ book' = book /\ copy' = copy /\ policy' = policy /\ nextNumber' = nextNumber
      /\ eligible' = eligible
  BY <1>1 DEF CommitRenew
<1>3. IsLoanOp(cmd[s])
  BY <1>1, <1>2 DEF IsLoanOp
<1>4. /\ l \in Requests /\ loanView[s] = loan[l] /\ loan[l] \in LoanRow
      /\ loan[l].copy \in Accessions /\ copy[loan[l].copy] \in CopyRow
      /\ BookLock(copy[loan[l].copy].book) \in held[s]
      /\ BorrowerLock(loan[l].borrower) \in held[s]
      /\ LoanChangeAllowed(a) /\ Unresolved(l) /\ event[l] # NoRow
  BY <1>1, <1>2, <1>3, LoanAtCommit
<1>5. loan[l].status = "issued" /\ copy[loan[l].copy].status = "issued" /\ loan[l] # NoRow
  BY <1>2, <1>4, NoRowApart DEF LoanChangeAllowed
<1>6. loan[l].renewals < loan[l].policy.renewals
  BY <1>1, <1>2, <1>4 DEF IInv, SessionInv, DecisionStands
<1>7. fine \in Nat /\ fine <= loan[l].policy.cap
  <2>1. late[l] \in Nat
    BY <1>4, LibraryConstantsAssumption DEF IInv, TypeOK
  <2>2. loan[l].fine <= loan[l].policy.cap
    BY <1>4, <1>5 DEF IInv, WithinCap
  <2>3. QED
    BY <1>4, <2>1, <2>2, FineWithinCap
<1> HIDE DEF fine
<1>8. /\ row \in LoanRow /\ row.copy = loan[l].copy /\ row.borrower = loan[l].borrower
      /\ row.status = "issued" /\ row.fine <= row.policy.cap
      /\ row.renewals <= row.policy.renewals
  <2>1. loan[l].renewals \in Nat /\ loan[l].policy.renewals \in Nat
    BY <1>4, LibraryConstantsAssumption DEF LoanRow, PolicyRow
  <2>2. loan[l].renewals + 1 \in Nat /\ loan[l].renewals + 1 <= loan[l].policy.renewals
    BY <1>6, <2>1
  <2>3. /\ row.fine = fine /\ row.renewals = loan[l].renewals + 1
        /\ row.policy = loan[l].policy /\ row.copy = loan[l].copy
        /\ row.borrower = loan[l].borrower /\ row.status = loan[l].status
    BY <1>4 DEF LoanRow
  <2>4. row \in LoanRow
    BY <1>4, <1>7, <2>2 DEF LoanRow, Money
  <2>5. QED
    BY <1>5, <1>7, <2>2, <2>3, <2>4
<1> HIDE DEF row, l
<1>9. /\ loan \in [Requests -> LoanRow \cup {NoRow}] /\ row # NoRow
      /\ loan' \in [Requests -> LoanRow \cup {NoRow}] /\ loan'[l] = row
      /\ \A q \in Requests \ {l} : loan'[q] = loan[q]
  BY <1>2, <1>4, <1>8, NoRowApart DEF IInv, TypeOK
<1>10. /\ a.req \in Requests /\ RequestLock(a.req) \in held[s]
       /\ event \in [Requests -> Commands \cup {NoRow}]
       /\ event' = [event EXCEPT ![a.req] = a]
  BY <1>1, <1>2, AtCommit DEF Record, IInv, TypeOK
<1>11. Touches(s)
  <2>1. \A q \in Requests : event'[q] = event[q] \/ RequestLock(q) \in held[s]
    BY <1>10
  <2>2. \A q \in Requests : loan'[q] # loan[q] =>
          /\ loan'[q] # NoRow
          /\ loan[q] # NoRow => /\ loan'[q].copy = loan[q].copy
                                /\ loan'[q].borrower = loan[q].borrower
          /\ BookLock(copy[loan'[q].copy].book) \in held[s]
          /\ BorrowerLock(loan'[q].borrower) \in held[s]
    BY <1>4, <1>8, <1>9
  <2>3. QED
    BY <1>2, <2>1, <2>2 DEF Touches
<1>12. LoansGoOn
  BY <1>5, <1>9 DEF LoansGoOn
<1>13. Effected(a)'
  BY <1>2 DEF Effected
<1>14. /\ EventsEffected' /\ acked' \subseteq Commands
       /\ event' \in [Requests -> Commands \cup {NoRow}]
       /\ \A r \in Requests : event[r] # NoRow => event'[r] # NoRow
  BY <1>1, <1>2, <1>11, <1>12, <1>13, EventsKeep
<1>15. late' \in [Requests -> 0 .. MaxLate] /\ \A q \in Requests \ {l} : late'[q] = late[q]
  BY <1>2, <1>4, LateTyped
<1>16. \A x \in Accessions : copy[x] # NoRow => book[copy[x].book] # NoRow
  BY DEF IInv, RowsBelong
<1>17. copy[loan[l].copy] # NoRow
  BY <1>4, NoRowApart
<1>18. RowsBelong' /\ CopiesHeld' /\ WithinCap'
  <2> DEFINE c == loan[l].copy
  <2>1. /\ c \in Accessions /\ "issued" \in CopyStatus /\ row.copy = c
        /\ copy'[c] # NoRow /\ copy'[c].status = "issued"
        /\ \A x \in Accessions \ {c} : copy'[x] = copy[x]
        /\ \A x \in Accessions : copy[x] # NoRow => copy'[x] # NoRow
        /\ \A x \in Accessions : copy'[x] # NoRow => book'[copy'[x].book] # NoRow
        /\ event'[l] # NoRow /\ loan[l] # NoRow /\ loan[l].copy = c
    BY <1>2, <1>4, <1>5, <1>8, <1>14, <1>16, <1>17 DEF CopyStatus
  <2> HIDE DEF c
  <2>2. QED
    BY <1>4, <1>8, <1>9, <1>14, <1>15, <2>1, OneLoanStands
<1>19. StockCounted'
  BY <1>2 DEF IInv, StockCounted
<1>20. TablesTyped' /\ TablesStand'
  BY <1>2, <1>9, <1>14, <1>15, <1>18, <1>19 DEF TablesTyped, TablesStand, IInv, TypeOK
<1>21. QED
  BY <1>2, <1>11, <1>20, CommitKeeps

LEMMA CommitCopyKeeps ==
    ASSUME IInv, NEW s \in Sessions, CommitCopy(s)
    PROVE  IInv'
<1>1. PICK a \in Commands : a = cmd[s]
  BY AtCommit DEF CommitCopy
<1> DEFINE c == a.copy
           b == copy[c].book
<1>2. /\ pc[s] = "commit" /\ a.op = "copy" /\ Record(s) /\ Restock(b)
      /\ copy' = [copy EXCEPT ![c].status = a.status]
      /\ loan' = loan /\ policy' = policy /\ nextNumber' = nextNumber
      /\ eligible' = eligible /\ late' = late
  BY <1>1 DEF CommitCopy, world
<1>3. /\ c \in Accessions /\ a.status \in CopyStatus \ {"issued"} /\ a.req \in Requests
  BY <1>2, CommandFields DEF CommandFits
<1>4. /\ Accepted(s) /\ copy[c] \in CopyRow /\ b \in Books /\ BookLock(b) \in held[s]
      /\ RequestLock(a.req) \in held[s]
  BY <1>1, <1>2, AtCommit, AtWork
<1>5. /\ copy[c].status # "issued"
      /\ LoansOn(c, {"issued", "lost"}) # {} => a.status = "withdrawn"
  BY <1>1, <1>2, <1>4 DEF Accepted, CopyChangeAllowed
<1>6. /\ copy \in [Accessions -> CopyRow \cup {NoRow}] /\ copy[c] # NoRow
      /\ loan \in [Requests -> LoanRow \cup {NoRow}]
      /\ \A q \in Requests : loan[q] # NoRow => loan[q].copy \in Accessions
  BY <1>4, NoRowApart DEF IInv, TypeOK, LoanRow
<1>7. /\ copy'[c] = [copy[c] EXCEPT !.status = a.status]
      /\ \A x \in Accessions \ {c} : copy'[x] = copy[x]
  BY <1>2, <1>3, <1>6
<1>8. copy'[c] \in CopyRow /\ copy'[c].status = a.status /\ copy'[c].book = b
  BY <1>3, <1>4, <1>7 DEF CopyRow
<1>9. copy'[c] # NoRow /\ copy' \in [Accessions -> CopyRow \cup {NoRow}]
  BY <1>2, <1>3, <1>6, <1>7, <1>8, NoRowApart
<1>10. book[b] # NoRow
  BY <1>3, <1>6 DEF IInv, RowsBelong
<1> HIDE DEF b
<1>11. \A x \in Accessions : copy'[x] # copy[x] =>
         copy[x] # NoRow /\ copy[x].book = b /\ copy'[x] # NoRow /\ copy'[x].book = b
  BY <1>6, <1>7, <1>8, <1>9 DEF b
<1>12. /\ StockCounted' /\ book' \in [Books -> BookRow \cup {NoRow}]
       /\ book'[b] # NoRow /\ \A x \in Books \ {b} : book'[x] = book[x]
       /\ \A x \in Accessions : copy'[x] # NoRow => book'[copy'[x].book] # NoRow
  BY <1>2, <1>4, <1>10, <1>11, RestockKeeps
<1>13. /\ event \in [Requests -> Commands \cup {NoRow}]
       /\ event' = [event EXCEPT ![a.req] = a]
  BY <1>1, <1>2 DEF Record, IInv, TypeOK
<1>14. Touches(s)
  <2>1. \A q \in Requests : event'[q] = event[q] \/ RequestLock(q) \in held[s]
    BY <1>4, <1>13
  <2>2. \A x \in Accessions : copy'[x] # copy[x] =>
          copy'[x] # NoRow /\ copy[x] # NoRow /\ copy'[x].book = copy[x].book
          /\ BookLock(copy[x].book) \in held[s]
    BY <1>4, <1>11
  <2>3. \A x \in Books : book'[x] # book[x] => book'[x] # NoRow /\ BookLock(x) \in held[s]
    BY <1>4, <1>12
  <2>4. QED
    BY <1>2, <2>1, <2>2, <2>3 DEF Touches
<1>15. LoansGoOn /\ Effected(a)'
  BY <1>2 DEF LoansGoOn, Effected
<1>16. /\ EventsEffected' /\ acked' \subseteq Commands
       /\ event' \in [Requests -> Commands \cup {NoRow}]
       /\ \A r \in Requests : event[r] # NoRow => event'[r] # NoRow
  BY <1>1, <1>2, <1>14, <1>15, EventsKeep
<1>17. RowsBelong' /\ WithinCap'
  <2>1. \A x \in Accessions : copy[x] # NoRow => copy'[x] # NoRow
    BY <1>7, <1>9
  <2>2. QED
    BY <1>2, <1>6, <1>12, <1>16, <2>1 DEF IInv, RowsBelong, WithinCap
<1>18. CopiesHeld'
  <2>1. \A q \in Requests : Unresolved(q)' <=> Unresolved(q)
    BY <1>2 DEF Unresolved
  <2>2. ASSUME NEW q \in Requests, Unresolved(q)
        PROVE  /\ loan[q].status = "issued" => copy'[loan[q].copy].status = "issued"
               /\ loan[q].status = "lost" => copy'[loan[q].copy].status \in {"lost", "withdrawn"}
    <3>1. CASE loan[q].copy = c
      <4>1. LoansOn(c, {"issued", "lost"}) # {} /\ loan[q].status # "issued"
        BY <1>5, <2>2, <3>1 DEF LoansOn, Unresolved, IInv, CopiesHeld
      <4>2. QED
        BY <1>5, <1>8, <3>1, <4>1
    <3>2. CASE loan[q].copy # c
      <4>1. loan[q].copy \in Accessions
        BY <1>6, <2>2 DEF Unresolved
      <4>2. QED
        BY <1>7, <2>2, <3>2, <4>1 DEF IInv, CopiesHeld
    <3>3. QED
      BY <3>1, <3>2
  <2>3. ASSUME NEW x \in Accessions, copy'[x] # NoRow, copy'[x].status = "issued"
        PROVE  \E q \in Requests : Unresolved(q) /\ loan[q].copy = x
    <3>1. x # c
      BY <1>3, <1>8, <2>3
    <3>2. QED
      BY <1>7, <2>3, <3>1 DEF IInv, CopiesHeld
  <2>4. \A p, q \in Requests : Unresolved(p) /\ Unresolved(q) /\ loan[p].copy = loan[q].copy
          => p = q
    BY DEF IInv, CopiesHeld
  <2>5. QED
    BY <1>2, <2>1, <2>2, <2>3, <2>4 DEF CopiesHeld
<1>19. TablesTyped' /\ TablesStand'
  BY <1>2, <1>9, <1>12, <1>16, <1>17, <1>18 DEF TablesTyped, TablesStand, IInv, TypeOK
<1>20. QED
  BY <1>2, <1>14, <1>19, CommitKeeps

LEMMA CommitStockKeeps ==
    ASSUME IInv, NEW s \in Sessions, CommitStock(s)
    PROVE  IInv'
<1>1. PICK a \in Commands : a = cmd[s]
  BY AtCommit DEF CommitStock
<1> DEFINE b == a.book
           first == [total |-> 0, available |-> 0, active |-> TRUE, lendable |-> TRUE]
           row == IF a.op = "create" THEN first ELSE book[b]
           new == [book |-> b, status |-> "available"]
<1>2. /\ pc[s] = "commit" /\ a.op \in {"create", "add"} /\ Record(s) /\ ~Refused(s)
      /\ Cardinality(chosen[s]) = a.count
      /\ copy' = [n \in Accessions |-> IF n \in chosen[s] THEN new ELSE copy[n]]
      /\ book' = [book EXCEPT ![b] = SyncStock(row, copy', b)]
      /\ nextNumber' = IF a.numbers = {} THEN Max(chosen[s]) + 1 ELSE nextNumber
      /\ loan' = loan /\ policy' = policy /\ eligible' = eligible /\ late' = late
  BY <1>1 DEF CommitStock, world
<1>3. b \in Books /\ a.count \in Nat \ {0} /\ a.req \in Requests
  BY <1>2, CommandFields DEF CommandFits
<1>4. /\ RequestLock(a.req) \in held[s] /\ PolicyLock \in held[s]
      /\ a.op = "add" => BookLock(b) \in held[s] /\ book[b] # NoRow
  BY <1>1, <1>2, AtCommit DEF BookOf, Accepted
<1>5. /\ \A n \in chosen[s] : copy[n] = NoRow
      /\ a.op = "create" => book[b] = NoRow
  BY <1>1, <1>2 DEF Refused
<1>6. /\ book \in [Books -> BookRow \cup {NoRow}] /\ copy \in [Accessions -> CopyRow \cup {NoRow}]
      /\ chosen[s] \in SUBSET Accessions /\ nextNumber \in Nat
      /\ event \in [Requests -> Commands \cup {NoRow}]
      /\ loan \in [Requests -> LoanRow \cup {NoRow}]
  BY DEF IInv, TypeOK
<1>7. row \in BookRow
  <2>1. first \in BookRow
    BY DEF BookRow
  <2>2. a.op = "add" => book[b] \in BookRow
    BY <1>3, <1>4, <1>6
  <2> HIDE DEF first
  <2>3. QED
    BY <1>2, <2>1, <2>2
<1>8. new \in CopyRow /\ new # NoRow /\ new.book = b /\ new.status = "available"
  <2>1. new \in CopyRow
    BY <1>3 DEF CopyRow, CopyStatus
  <2>2. QED
    BY <2>1, NoRowApart
<1> HIDE DEF row, new, first
<1>9. /\ copy' \in [Accessions -> CopyRow \cup {NoRow}]
      /\ \A x \in Accessions : copy'[x] = IF x \in chosen[s] THEN new ELSE copy[x]
  BY <1>2, <1>6, <1>8
<1>10. \A x \in Accessions : copy'[x] # copy[x] =>
         copy[x] = NoRow /\ copy'[x] # NoRow /\ copy'[x].book = b
         /\ copy'[x].status = "available"
  BY <1>5, <1>8, <1>9
<1>11. book'[b] = SyncStock(row, copy', b) /\ \A x \in Books \ {b} : book'[x] = book[x]
  BY <1>2, <1>3, <1>6
<1>12. book'[b] \in BookRow /\ SyncStock(book'[b], copy', b) = book'[b]
  BY <1>7, <1>11, SyncStockTyped
<1>13. book' \in [Books -> BookRow \cup {NoRow}] /\ book'[b] # NoRow
  BY <1>2, <1>3, <1>6, <1>11, <1>12, NoRowApart
<1>14. StockCounted'
  <2>1. ASSUME NEW x \in Books, book'[x] # NoRow
        PROVE  book'[x] = SyncStock(book'[x], copy', x)
    <3>1. CASE x = b
      BY <1>12, <3>1
    <3>2. CASE x # b
      <4>1. book'[x] = book[x] /\ book[x] = SyncStock(book[x], copy, x)
        BY <1>11, <2>1, <3>2 DEF IInv, StockCounted
      <4>2. SyncStock(book[x], copy', x) = SyncStock(book[x], copy, x)
        BY <1>10, <3>2, SyncStockSame
      <4>3. QED
        BY <4>1, <4>2
    <3>3. QED
      BY <3>1, <3>2
  <2>2. QED
    BY <2>1 DEF StockCounted
<1>15. nextNumber' \in Nat
  <2>1. chosen[s] # {}
    BY <1>2, <1>3, FS_EmptySet
  <2>2. Max(chosen[s]) \in Nat
    BY <1>6, <2>1, MaxIn
  <2>3. QED
    BY <1>2, <1>6, <2>2
<1>16. event' = [event EXCEPT ![a.req] = a]
  BY <1>1, <1>2 DEF Record
<1>17. Touches(s)
  <2>1. \A q \in Requests : event'[q] = event[q] \/ RequestLock(q) \in held[s]
    BY <1>4, <1>6, <1>16
  <2>2. \A x \in Accessions : copy'[x] # copy[x] =>
          /\ copy'[x] # NoRow /\ copy[x] = NoRow /\ PolicyLock \in held[s]
          /\ BookLock(copy'[x].book) \in held[s] \/ book[copy'[x].book] = NoRow
    BY <1>2, <1>4, <1>5, <1>10
  <2>3. \A x \in Books : book'[x] # book[x] =>
          book'[x] # NoRow /\ (book[x] = NoRow \/ BookLock(x) \in held[s])
    BY <1>2, <1>4, <1>5, <1>11, <1>13
  <2>4. QED
    BY <1>2, <1>4, <2>1, <2>2, <2>3 DEF Touches
<1>18. LoansGoOn /\ Effected(a)'
  BY <1>2 DEF LoansGoOn, Effected
<1>19. /\ EventsEffected' /\ acked' \subseteq Commands
       /\ event' \in [Requests -> Commands \cup {NoRow}]
       /\ \A r \in Requests : event[r] # NoRow => event'[r] # NoRow
  BY <1>1, <1>2, <1>17, <1>18, EventsKeep
<1>20. \A x \in Accessions : copy[x] # NoRow => copy'[x] = copy[x]
  BY <1>10
<1>21. \A q \in Requests : loan[q] # NoRow =>
         loan[q].copy \in Accessions /\ copy[loan[q].copy] # NoRow
  BY <1>6 DEF IInv, RowsBelong, LoanRow
<1>22. RowsBelong' /\ WithinCap'
  <2>1. ASSUME NEW x \in Accessions, copy'[x] # NoRow PROVE book'[copy'[x].book] # NoRow
    <3>1. CASE copy'[x] # copy[x]
      BY <1>10, <1>13, <3>1
    <3>2. CASE copy'[x] = copy[x]
      <4>1. book[copy[x].book] # NoRow /\ copy[x].book \in Books
        BY <1>6, <2>1, <3>2 DEF IInv, RowsBelong, CopyRow
      <4>2. QED
        BY <1>11, <1>13, <3>2, <4>1
    <3>3. QED
      BY <3>1, <3>2
  <2>2. QED
    BY <1>2, <1>19, <1>20, <1>21, <2>1 DEF IInv, RowsBelong, WithinCap
<1>23. CopiesHeld'
  <2>1. \A q \in Requests : Unresolved(q)' <=> Unresolved(q)
    BY <1>2 DEF Unresolved
  <2>2. \A q \in Requests : Unresolved(q) => copy'[loan[q].copy] = copy[loan[q].copy]
    BY <1>20, <1>21 DEF Unresolved
  <2>3. \A x \in Accessions : copy'[x] # NoRow /\ copy'[x].status = "issued" =>
          copy[x] # NoRow /\ copy[x].status = "issued"
    BY <1>10
  <2>4. QED
    BY <1>2, <2>1, <2>2, <2>3 DEF IInv, CopiesHeld
<1>24. TablesTyped' /\ TablesStand'
  BY <1>2, <1>9, <1>13, <1>14, <1>15, <1>19, <1>22, <1>23 DEF TablesTyped, TablesStand, IInv, TypeOK
<1>25. QED
  BY <1>2, <1>17, <1>24, CommitKeeps

LEMMA CommitBookKeeps ==
    ASSUME IInv, NEW s \in Sessions, CommitBook(s)
    PROVE  IInv'
<1>1. PICK a \in Commands : a = cmd[s]
  BY AtCommit DEF CommitBook
<1> DEFINE b == a.book
<1>2. /\ pc[s] = "commit" /\ a.op = "book" /\ Record(s)
      /\ book' = [book EXCEPT ![b].active = a.active, ![b].lendable = a.lendable]
      /\ copy' = copy /\ loan' = loan /\ policy' = policy /\ nextNumber' = nextNumber
      /\ eligible' = eligible /\ late' = late
  BY <1>1 DEF CommitBook, world
<1>3. /\ b \in Books /\ a.active \in BOOLEAN /\ a.lendable \in BOOLEAN /\ a.req \in Requests
  BY <1>2, CommandFields DEF CommandFits
<1>4. /\ RequestLock(a.req) \in held[s] /\ BookLock(b) \in held[s] /\ book[b] # NoRow
  BY <1>1, <1>2, AtCommit DEF BookOf, Accepted
<1>5. book \in [Books -> BookRow \cup {NoRow}] /\ book[b] \in BookRow
  BY <1>3, <1>4 DEF IInv, TypeOK
<1>6. /\ book'[b] = [book[b] EXCEPT !.active = a.active, !.lendable = a.lendable]
      /\ \A x \in Books \ {b} : book'[x] = book[x]
      /\ DOMAIN book' = Books
  BY <1>2, <1>3, <1>5
<1>7. /\ book'[b] \in BookRow /\ book'[b].total = book[b].total
      /\ book'[b].available = book[b].available
  BY <1>3, <1>5, <1>6 DEF BookRow
<1>8. book' \in [Books -> BookRow \cup {NoRow}] /\ book'[b] # NoRow
  BY <1>2, <1>3, <1>5, <1>6, <1>7, NoRowApart
<1>9. StockCounted'
  <2>1. \A x \in Books : book[x] # NoRow => book[x] = SyncStock(book[x], copy, x)
    BY DEF IInv, StockCounted
  <2>2. book'[b] = SyncStock(book'[b], copy, b)
    BY <1>3, <1>4, <1>5, <1>7, <2>1, SyncStockFixed
  <2>3. QED
    BY <1>2, <1>6, <2>1, <2>2 DEF StockCounted
<1>10. /\ event \in [Requests -> Commands \cup {NoRow}]
       /\ event' = [event EXCEPT ![a.req] = a]
  BY <1>1, <1>2 DEF Record, IInv, TypeOK
<1>11. Touches(s)
  <2>1. \A q \in Requests : event'[q] = event[q] \/ RequestLock(q) \in held[s]
    BY <1>4, <1>10
  <2>2. \A x \in Books : book'[x] # book[x] => book'[x] # NoRow /\ BookLock(x) \in held[s]
    BY <1>4, <1>6, <1>8
  <2>3. QED
    BY <1>2, <2>1, <2>2 DEF Touches
<1>12. LoansGoOn /\ Effected(a)'
  BY <1>2 DEF LoansGoOn, Effected
<1>13. /\ EventsEffected' /\ acked' \subseteq Commands
       /\ event' \in [Requests -> Commands \cup {NoRow}]
       /\ \A r \in Requests : event[r] # NoRow => event'[r] # NoRow
  BY <1>1, <1>2, <1>11, <1>12, EventsKeep
<1>14. RowsBelong' /\ WithinCap'
  <2>1. \A x \in Books : book[x] # NoRow => book'[x] # NoRow
    BY <1>6, <1>8
  <2>2. \A x \in Accessions : copy[x] # NoRow => copy[x].book \in Books
    BY DEF IInv, TypeOK, CopyRow
  <2>3. QED
    BY <1>2, <1>13, <2>1, <2>2 DEF IInv, RowsBelong, WithinCap
<1>15. CopiesHeld'
  BY <1>2 DEF IInv, CopiesHeld, Unresolved
<1>16. TablesTyped' /\ TablesStand'
  BY <1>2, <1>8, <1>9, <1>13, <1>14, <1>15 DEF TablesTyped, TablesStand, IInv, TypeOK
<1>17. QED
  BY <1>2, <1>11, <1>16, CommitKeeps

LEMMA CommitPolicyKeeps ==
    ASSUME IInv, NEW s \in Sessions, CommitPolicy(s)
    PROVE  IInv'
<1>1. PICK a \in Commands : a = cmd[s]
  BY AtCommit DEF CommitPolicy
<1>2. /\ pc[s] = "commit" /\ a.op = "policy" /\ Record(s) /\ policy' = a.policy
      /\ book' = book /\ copy' = copy /\ loan' = loan /\ nextNumber' = nextNumber
      /\ eligible' = eligible /\ late' = late
  BY <1>1 DEF CommitPolicy, world
<1>3. a.policy \in Policies /\ a.req \in Requests /\ RequestLock(a.req) \in held[s]
  BY <1>1, <1>2, CommandFields, AtCommit DEF CommandFits
<1>4. /\ event \in [Requests -> Commands \cup {NoRow}]
      /\ event' = [event EXCEPT ![a.req] = a]
  BY <1>1, <1>2 DEF Record, IInv, TypeOK
<1>5. Touches(s)
  BY <1>2, <1>3, <1>4 DEF Touches
<1>6. LoansGoOn /\ Effected(a)'
  BY <1>2 DEF LoansGoOn, Effected
<1>7. /\ EventsEffected' /\ acked' \subseteq Commands
      /\ event' \in [Requests -> Commands \cup {NoRow}]
      /\ \A r \in Requests : event[r] # NoRow => event'[r] # NoRow
  BY <1>1, <1>2, <1>5, <1>6, EventsKeep
<1>8. RowsBelong' /\ WithinCap' /\ StockCounted'
  BY <1>2, <1>7 DEF IInv, RowsBelong, WithinCap, StockCounted
<1>9. CopiesHeld'
  BY <1>2 DEF IInv, CopiesHeld, Unresolved
<1>10. TablesTyped' /\ TablesStand'
  BY <1>2, <1>3, <1>7, <1>8, <1>9 DEF TablesTyped, TablesStand, IInv, TypeOK
<1>11. QED
  BY <1>2, <1>5, <1>10, CommitKeeps

-----------------------------------------------------------------------------
(* The world around the library, the start, and every step together. *)

\* A change of the borrowers or of the days that no session has locked out.
LEMMA WorldKeeps ==
    ASSUME IInv, UNCHANGED <<tables, acked, sessions>>, TablesTyped', RowsBelong',
           \A t \in Sessions, p \in Borrowers :
             PersonLock(p) \in held[t] /\ p \in eligible => p \in eligible'
    PROVE  IInv'
<1>1. /\ book' = book /\ copy' = copy /\ loan' = loan /\ event' = event /\ acked' = acked
      /\ pc' = pc /\ cmd' = cmd /\ held' = held /\ policyView' = policyView
      /\ loanView' = loanView /\ chosen' = chosen
  BY DEF tables, sessions
<1>2. CopiesHeld' /\ StockCounted'
  BY <1>1 DEF IInv, CopiesHeld, Unresolved, StockCounted
<1>3. WithinCap' /\ EventsEffected'
  BY <1>1 DEF IInv, WithinCap, EventsEffected, Effected, Title
<1>4. SessionsTyped' /\ LocksApart'
  BY <1>1 DEF IInv, TypeOK, SessionsTyped, LocksApart
<1>5. ASSUME NEW t \in Sessions PROVE SessionInv(t)'
  <2>1. /\ BookOf(t)' = BookOf(t) /\ BorrowerOf(t)' = BorrowerOf(t)
        /\ Choice(t)' = Choice(t) /\ Accepted(t)' = Accepted(t)
        /\ FreshNumbers(cmd[t].count)' = FreshNumbers(cmd[t].count)
    BY <1>1, SameView
  <2>2. /\ HasBegun(t)' = HasBegun(t) /\ HoldsPolicy(t)' = HoldsPolicy(t)
        /\ HoldsBorrower(t)' = HoldsBorrower(t) /\ HoldsPerson(t)' = HoldsPerson(t)
        /\ HoldsBook(t)' = HoldsBook(t)
    BY <1>1 DEF HasBegun, HoldsPolicy, HoldsBorrower, HoldsPerson, HoldsBook
  <2>3. SessionInv(t)
    BY DEF IInv
  <2>4. LocksFit(t)' /\ StepFits(t)'
    BY <1>1, <2>1, <2>2, <2>3 DEF SessionInv, LocksFit, StepFits
  <2>5. DecisionStands(t)'
    BY <1>1, <2>1, <2>2, <2>3 DEF SessionInv, DecisionStands
  <2>6. HoldsPerson(t) => BorrowerOf(t) \in eligible'
    <3>1. ASSUME HoldsPerson(t) PROVE BorrowerOf(t) \in Borrowers
      <4>1. pc[t] \in {"book", "commit"} /\ cmd[t].op \in {"issue", "renew"}
        BY <3>1 DEF HoldsPerson
      <4>2. QED
        BY <4>1, AtWork DEF IsLoanOp
    <3>2. QED
      BY <2>3, <3>1 DEF SessionInv, LocksFit, RowsFound
  <2>7. RowsFound(t)'
    BY <1>1, <2>1, <2>2, <2>3, <2>6 DEF SessionInv, RowsFound
  <2>8. QED
    BY <2>4, <2>5, <2>7 DEF SessionInv
<1>6. QED
  BY <1>2, <1>3, <1>4, <1>5, PartsNext DEF TablesStand

LEMMA ChangeStatusKeeps ==
    ASSUME IInv, NEW p \in Leavers, ChangeStatus(p)
    PROVE  IInv'
<1>1. /\ UNCHANGED <<tables, acked, sessions>> /\ late' = late
      /\ \A s \in Sessions : PersonLock(p) \notin held[s]
      /\ eligible' = IF p \in eligible THEN eligible \ {p} ELSE eligible \cup {p}
  BY DEF ChangeStatus
<1>2. p \in Borrowers
  BY LibraryConstantsAssumption
<1>3. TablesTyped'
  BY <1>1, <1>2 DEF tables, IInv, TypeOK, TablesTyped
<1>4. RowsBelong'
  BY <1>1 DEF tables, IInv, RowsBelong
<1>5. \A t \in Sessions, q \in Borrowers :
        PersonLock(q) \in held[t] /\ q \in eligible => q \in eligible'
  BY <1>1
<1>6. QED
  BY <1>1, <1>3, <1>4, <1>5, WorldKeeps

LEMMA DayPassesKeeps ==
    ASSUME IInv, NEW r \in Requests, DayPasses(r)
    PROVE  IInv'
<1>1. /\ UNCHANGED <<tables, acked, sessions>> /\ eligible' = eligible
      /\ loan[r] # NoRow /\ late[r] < MaxLate /\ late' = [late EXCEPT ![r] = late[r] + 1]
  BY DEF DayPasses
<1>2. late \in [Requests -> 0 .. MaxLate] /\ MaxLate \in Nat
  BY LibraryConstantsAssumption DEF IInv, TypeOK
<1>3. late[r] + 1 \in 0 .. MaxLate
  BY <1>1, <1>2
<1>4. late' \in [Requests -> 0 .. MaxLate] /\ \A q \in Requests \ {r} : late'[q] = late[q]
  BY <1>1, <1>2, <1>3
<1>5. TablesTyped'
  BY <1>1, <1>4 DEF tables, IInv, TypeOK, TablesTyped
<1>6. RowsBelong'
  BY <1>1, <1>4 DEF tables, IInv, RowsBelong
<1>7. QED
  BY <1>1, <1>5, <1>6, WorldKeeps

LEMMA InitIInv == Init => IInv
<1> SUFFICES ASSUME Init PROVE IInv
  OBVIOUS
<1>1. /\ copy = [c \in Accessions |->
                   IF c \in DOMAIN Stock THEN [book |-> Stock[c], status |-> "available"]
                   ELSE NoRow]
      /\ book = [b \in Books |->
                   IF CopiesOf(copy, b) = {} THEN NoRow
                   ELSE SyncStock([total |-> 0, available |-> 0, active |-> TRUE,
                                   lendable |-> TRUE], copy, b)]
      /\ loan = [r \in Requests |-> NoRow] /\ event = [r \in Requests |-> NoRow]
      /\ policy = FirstPolicy /\ nextNumber = 1 /\ acked = {} /\ eligible = Borrowers
      /\ late = [r \in Requests |-> 0]
      /\ pc = [s \in Sessions |-> "idle"] /\ cmd = [s \in Sessions |-> NoCommand]
      /\ held = [s \in Sessions |-> {}] /\ policyView = [s \in Sessions |-> NoRow]
      /\ loanView = [s \in Sessions |-> NoRow] /\ chosen = [s \in Sessions |-> {}]
  BY DEF Init
<1>2. \A c \in Accessions : copy[c] # NoRow =>
        copy[c] \in CopyRow /\ copy[c].status = "available"
  BY <1>1, LibraryConstantsAssumption DEF CopyRow, CopyStatus
<1>3. copy \in [Accessions -> CopyRow \cup {NoRow}]
  BY <1>1, <1>2
<1> DEFINE first == [total |-> 0, available |-> 0, active |-> TRUE, lendable |-> TRUE]
<1>4. first \in BookRow
  BY DEF BookRow
<1>5. \A b \in Books : book[b] = IF CopiesOf(copy, b) = {} THEN NoRow
                                 ELSE SyncStock(first, copy, b)
  BY <1>1
<1> HIDE DEF first
<1>6. \A b \in Books : SyncStock(first, copy, b) \in BookRow
        /\ SyncStock(SyncStock(first, copy, b), copy, b) = SyncStock(first, copy, b)
  BY <1>4, SyncStockTyped
<1>7. book \in [Books -> BookRow \cup {NoRow}] /\ StockCounted
  BY <1>1, <1>5, <1>6 DEF StockCounted
<1>8. \A c \in Accessions : copy[c] # NoRow => book[copy[c].book] # NoRow
  <2>1. ASSUME NEW c \in Accessions, copy[c] # NoRow PROVE book[copy[c].book] # NoRow
    <3>1. copy[c].book \in Books /\ c \in CopiesOf(copy, copy[c].book)
      BY <1>2, <2>1 DEF CopyRow, CopiesOf
    <3>2. QED
      BY <1>5, <1>6, <3>1, NoRowApart
  <2>2. QED
    BY <2>1
<1>9. TypeOK
  <2>1. 0 \in 0 .. MaxLate /\ FirstPolicy \in Policies
    BY LibraryConstantsAssumption
  <2>2. QED
    BY <1>1, <1>3, <1>7, <2>1 DEF TypeOK, Phases
<1>10. RowsBelong /\ WithinCap /\ EventsEffected
  BY <1>1, <1>8 DEF RowsBelong, WithinCap, EventsEffected
<1>11. CopiesHeld
  BY <1>1, <1>2 DEF CopiesHeld, Unresolved
<1>12. LocksApart
  BY <1>1 DEF LocksApart
<1>13. \A s \in Sessions : SessionInv(s)
  BY <1>1 DEF SessionInv, LocksFit, StepFits, RowsFound, DecisionStands,
     HasBegun, HoldsPolicy, HoldsBorrower, HoldsPerson, HoldsBook
<1>14. QED
  BY <1>7, <1>9, <1>10, <1>11, <1>12, <1>13 DEF IInv

LEMMA StepKeeps == IInv /\ [Next]_vars => IInv'
<1> SUFFICES ASSUME IInv, [Next]_vars PROVE IInv'
  OBVIOUS
<1>1. ASSUME NEW s \in Sessions, Submit(s) \/ Work(s) \/ Wait(s) \/ Abort(s)
      PROVE  IInv'
  <2>1. CASE Submit(s)
    BY <2>1, SubmitKeeps
  <2>2. CASE ReadPolicy(s)
    BY <2>2, ReadPolicyKeeps
  <2>3. CASE Find(s)
    BY <2>3, FindKeeps
  <2>4. CASE FindNothing(s) \/ Collide(s) \/ Abort(s)
    BY <2>4, RefuseKeeps DEF FindNothing, Collide, Abort
  <2>5. CASE Commit(s)
    BY <2>5, CommitIssueKeeps, CommitReturnKeeps, CommitLostKeeps, CommitRenewKeeps,
       CommitCopyKeeps, CommitStockKeeps, CommitBookKeeps, CommitPolicyKeeps DEF Commit
  <2>6. CASE Wait(s)
    BY <2>6, BeginKeeps, LockPolicyKeeps, LockBorrowerKeeps, LockPersonKeeps,
       LockBookKeeps DEF Wait
  <2>7. QED
    BY <1>1, <2>1, <2>2, <2>3, <2>4, <2>5, <2>6 DEF Work
<1>2. CASE \E p \in Leavers : ChangeStatus(p)
  BY <1>2, ChangeStatusKeeps
<1>3. CASE \E r \in Requests : DayPasses(r)
  BY <1>3, DayPassesKeeps
<1>4. CASE UNCHANGED vars
  <2>1. UNCHANGED <<tables, acked, sessions>> /\ UNCHANGED world
    BY <1>4 DEF vars
  <2>2. TablesTyped' /\ RowsBelong'
    BY <2>1 DEF tables, world, IInv, TypeOK, TablesTyped, RowsBelong
  <2>3. eligible' = eligible
    BY <2>1 DEF world
  <2>4. QED
    BY <2>1, <2>2, <2>3, WorldKeeps
<1>5. QED
  BY <1>1, <1>2, <1>3, <1>4 DEF Next

\* In every reachable state the invariant of LibraryService's locks, rows and
\* decisions holds.
THEOREM Invariance == Spec => []IInv
  BY InitIInv, StepKeeps, PTL DEF Spec

\* The tables and the sessions of LibraryService always have their types.
THEOREM TypeCorrect == Spec => []TypeOK
<1>1. IInv => TypeOK
  BY DEF IInv
<1>2. QED
  BY <1>1, Invariance, PTL

\* The counters of a title, the free numbers of a new copy and the terms of an
\* open loan agree with the rows they were taken from, whichever calls of
\* LibraryService were cut short or overlapped.
THEOREM RowsStayAgreed == Spec => []RowsAgree
<1>1. IInv => RowsAgree
  <2> SUFFICES ASSUME IInv PROVE RowsAgree
    OBVIOUS
  <2>1. NumbersFresh
    <3>1. ASSUME NEW s \in Sessions, pc[s] = "commit", cmd[s].op \in {"create", "add"},
                 cmd[s].numbers = {}, NEW c \in chosen[s]
          PROVE  copy[c] = NoRow
      <4>1. chosen[s] = FreshNumbers(cmd[s].count)
        <5>1. CASE cmd[s].op = "create"
          BY <3>1, <5>1 DEF IInv, SessionInv, DecisionStands
        <5>2. CASE cmd[s].op = "add"
          <6>1. chosen[s] = Choice(s)
            BY <3>1, <5>2, AtCommit
          <6>2. QED
            BY <3>1, <5>2, <6>1 DEF Choice
        <5>3. QED
          BY <3>1, <5>1, <5>2
      <4>2. QED
        BY <4>1 DEF FreshNumbers
    <3>2. QED
      BY <3>1 DEF NumbersFresh
  <2>2. LoanTermsKept
    <3>1. ASSUME NEW r \in Requests, loan[r] # NoRow, loan[r].status = "issued"
          PROVE  /\ EstimatedFine(loan[r], late[r]) <= loan[r].policy.cap
                 /\ loan[r].renewals <= loan[r].policy.renewals
      <4>1. loan[r] \in LoanRow /\ late[r] \in Nat
        BY <3>1, LibraryConstantsAssumption DEF IInv, TypeOK
      <4>2. loan[r].fine <= loan[r].policy.cap /\ loan[r].renewals <= loan[r].policy.renewals
        BY <3>1 DEF IInv, WithinCap
      <4>3. QED
        BY <4>1, <4>2, FineWithinCap
    <3>2. QED
      BY <3>1 DEF LoanTermsKept
  <2>3. QED
    BY <2>1, <2>2 DEF RowsAgree, IInv
<1>2. QED
  BY <1>1, Invariance, PTL

\* What a client was told has succeeded is in library_events under its request
\* id, and its loan, return or loss is in the tables for good.
THEOREM AckedStaysRecorded == Spec => []AckedIsRecorded
<1>1. IInv => AckedIsRecorded
  <2> SUFFICES ASSUME IInv, NEW c \in acked
               PROVE  event[c.req] = c /\ Effected(c)
    BY DEF AckedIsRecorded, Effected
  <2>1. c \in Commands /\ event[c.req] = c
    BY DEF IInv, TypeOK, EventsEffected
  <2>2. c.req \in Requests /\ event[c.req] # NoRow
    BY <2>1, CommandFields, NoRowApart DEF CommandFits
  <2>3. QED
    BY <2>1, <2>2 DEF IInv, EventsEffected
<1>2. QED
  BY <1>1, Invariance, PTL

\* How far the call in this phase has come on the way from the request to the
\* commit; a renewal that waits for the person has the title already.
Progress(phase) ==
    CASE phase \in {"idle", "request"}                      -> 0
      [] phase \in {"policy", "find", "stock", "borrower"}  -> 1
      [] phase = "book"                                     -> 2
      [] OTHER                                              -> 3

\* Who holds a lock another call wants has come further, except that nobody
\* holds the row of a person without the advisory lock on the borrower.
LEMMA WaitsForLater ==
    ASSUME IInv, NEW s \in Sessions, NEW t \in Sessions, WaitsFor(s, t)
    PROVE  Progress(pc[s]) < Progress(pc[t])
<1>1. PICK l \in held[t] : l \in Wanted(s)
  BY DEF WaitsFor
<1>2. /\ l \in Locks /\ pc[t] \in Phases /\ s # t
      /\ LocksFit(s) /\ StepFits(s) /\ LocksFit(t) /\ StepFits(t)
  BY <1>1 DEF IInv, TypeOK, SessionInv, WaitsFor
<1>3. CASE pc[s] = "request"
  <2>1. l = RequestLock(cmd[s].req)
    BY <1>1, <1>3 DEF Wanted
  <2>2. PICK r \in Requests : l = RequestLock(r)
    BY <1>2, <2>1, LocksDiffer DEF Locks
  <2>3. pc[t] \notin {"idle", "request"}
    BY <1>1, <1>2, <2>2 DEF LocksFit, HasBegun
  <2>4. QED
    BY <1>2, <1>3, <2>3 DEF Progress, Phases
<1>4. CASE pc[s] = "stock"
  <2>1. l = PolicyLock
    BY <1>1, <1>4 DEF Wanted
  <2>2. pc[t] \in {"book", "commit"}
    BY <1>1, <1>2, <2>1 DEF LocksFit, HoldsPolicy
  <2>3. QED
    BY <1>4, <2>2 DEF Progress
<1>5. CASE pc[s] = "borrower"
  <2>1. l = BorrowerLock(BorrowerOf(s))
    BY <1>1, <1>5 DEF Wanted
  <2>2. PICK p \in Borrowers : l = BorrowerLock(p)
    BY <1>2, <2>1, LocksDiffer DEF Locks
  <2>3. pc[t] \in {"person", "book", "commit"}
    BY <1>1, <1>2, <2>2 DEF LocksFit, HoldsBorrower
  <2>4. QED
    BY <1>5, <2>3 DEF Progress
<1>6. CASE pc[s] = "person"
  <2>1. l = PersonLock(BorrowerOf(s))
    BY <1>1, <1>6 DEF Wanted
  <2>2. PICK p \in Borrowers : l = PersonLock(p)
    BY <1>2, <2>1, LocksDiffer DEF Locks
  <2>3. HoldsBorrower(s) /\ BorrowerOf(s) = p
    BY <1>2, <1>6, <2>1, <2>2, LocksDiffer DEF StepFits, HoldsBorrower
  <2>4. HoldsBorrower(t) /\ BorrowerOf(t) = p
    BY <1>1, <1>2, <2>2 DEF LocksFit, HoldsPerson, HoldsBorrower
  <2>5. BorrowerLock(p) \in held[s] \cap held[t]
    BY <1>2, <2>3, <2>4 DEF LocksFit
  <2>6. QED
    BY <1>2, <2>5 DEF IInv, LocksApart
<1>7. CASE pc[s] = "book"
  <2>1. l = BookLock(BookOf(s))
    BY <1>1, <1>7 DEF Wanted
  <2>2. PICK b \in Books : l = BookLock(b)
    BY <1>2, <2>1, LocksDiffer DEF Locks
  <2>3. pc[t] \in {"person", "commit"}
    BY <1>1, <1>2, <2>2 DEF LocksFit, HoldsBook
  <2>4. QED
    BY <1>7, <2>3 DEF Progress
<1>8. QED
  BY <1>1, <1>3, <1>4, <1>5, <1>6, <1>7 DEF Wanted

\* However many calls of LibraryService run, no circle of them waits for each
\* other's locks.
THEOREM NeverCircularWait == Spec => []NoCircularWait
<1>1. IInv => NoCircularWait
  <2> SUFFICES ASSUME IInv, NEW S \in (SUBSET Sessions) \ {{}}
               PROVE  \E s \in S : \A t \in S : ~WaitsFor(s, t)
    BY DEF NoCircularWait
  <2> DEFINE At(n) == \E s \in S : Progress(pc[s]) = n
  <2>1. \A s \in S : Progress(pc[s]) \in {0, 1, 2, 3}
    BY DEF Progress
  <2>2. \E s \in S : \A t \in S : Progress(pc[t]) <= Progress(pc[s])
    <3>1. CASE At(3)
      BY <2>1, <3>1
    <3>2. CASE ~At(3) /\ At(2)
      BY <2>1, <3>2
    <3>3. CASE ~At(3) /\ ~At(2) /\ At(1)
      BY <2>1, <3>3
    <3>4. CASE ~At(3) /\ ~At(2) /\ ~At(1)
      BY <2>1, <3>4
    <3>5. QED
      BY <3>1, <3>2, <3>3, <3>4
  <2>3. PICK s \in S : \A t \in S : Progress(pc[t]) <= Progress(pc[s])
    BY <2>2
  <2>4. ASSUME NEW t \in S, WaitsFor(s, t)
        PROVE  FALSE
    <3>1. Progress(pc[s]) < Progress(pc[t])
      BY <2>4, WaitsForLater
    <3>2. QED
      BY <2>1, <2>3, <3>1
  <2>5. QED
    BY <2>4
<1>2. QED
  BY <1>1, Invariance, PTL

\* Only a new issue makes a loan, and the loan is the one of its command.
LEMMA WhoLends ==
    ASSUME IInv, [Next]_vars, NEW r \in Requests, loan[r] = NoRow, loan'[r] # NoRow
    PROVE  \E s \in Sessions : CommitIssue(s) /\ r = cmd[s].req
<1>1. ASSUME NEW s \in Sessions, Submit(s) \/ Work(s) \/ Wait(s) \/ Abort(s)
      PROVE  CommitIssue(s) /\ r = cmd[s].req
  <2>1. CASE CommitIssue(s)
    <3>1. r = cmd[s].req
      BY <2>1 DEF CommitIssue, IInv, TypeOK
    <3>2. QED
      BY <2>1, <3>1
  <2>2. CASE CommitReturn(s) \/ CommitLost(s) \/ CommitRenew(s)
    <3>1. pc[s] = "commit" /\ IsLoanOp(cmd[s])
      BY <2>2 DEF CommitReturn, CommitLost, CommitRenew, IsLoanOp
    <3>2. cmd[s].loan \in Requests /\ loan[cmd[s].loan] # NoRow
      BY <3>1, LoanAtCommit, NoRowApart
    <3>3. loan'[r] = loan[r]
      BY <2>2, <3>2 DEF CommitReturn, CommitLost, CommitRenew, IInv, TypeOK
    <3>4. QED
      BY <3>3
  <2>3. CASE CommitCopy(s) \/ CommitStock(s) \/ CommitBook(s) \/ CommitPolicy(s)
    BY <2>3 DEF CommitCopy, CommitStock, CommitBook, CommitPolicy
  <2>4. CASE Submit(s) \/ ReadPolicy(s) \/ Find(s) \/ FindNothing(s) \/ Collide(s) \/ Abort(s)
    BY <2>4 DEF Submit, ReadPolicy, Find, FindNothing, Collide, Abort, Refuse, tables
  <2>5. CASE Begin(s) \/ LockPolicy(s) \/ LockBorrower(s)
    BY <2>5 DEF Begin, LockPolicy, LockBorrower, tables
  <2>6. CASE LockPerson(s) \/ LockBook(s)
    BY <2>6 DEF LockPerson, LockBook, Refuse, tables
  <2>7. QED
    BY <1>1, <2>1, <2>2, <2>3, <2>4, <2>5, <2>6 DEF Work, Wait, Commit
<1>2. CASE \E p \in Leavers : ChangeStatus(p)
  BY <1>2 DEF ChangeStatus, tables
<1>3. CASE \E q \in Requests : DayPasses(q)
  BY <1>3 DEF DayPasses, tables
<1>4. CASE UNCHANGED vars
  BY <1>4 DEF vars, tables
<1>5. QED
  BY <1>1, <1>2, <1>3, <1>4 DEF Next

LentRightly(r) ==
    LET new  == loan'[r]
        open == OpenLoans(new.borrower)
    IN  /\ new.borrower \in eligible
        /\ Lendable(copy[new.copy].book)
        /\ Cardinality(open) < new.policy.limit[Kind[new.borrower]]
        /\ \A o \in open : Title(o) # copy[new.copy].book

LEMMA LoansLentRightly ==
    ASSUME IInv, [Next]_vars, NEW r \in Requests, loan[r] = NoRow, loan'[r] # NoRow
    PROVE  LentRightly(r)
<1>1. PICK s \in Sessions : CommitIssue(s) /\ r = cmd[s].req
  BY WhoLends
<1>2. PICK a \in Commands : a = cmd[s]
  BY <1>1, AtCommit DEF CommitIssue
<1>3. /\ pc[s] = "commit" /\ a.op = "issue" /\ a.book \in Books /\ a.borrower \in Borrowers
      /\ Accepted(s) /\ chosen[s] = Choice(s) /\ SessionInv(s)
  BY <1>1, <1>2, AtCommit, CommandFields DEF CommitIssue, CommandFits, IInv
<1>4. PICK c \in chosen[s] :
        loan' = [loan EXCEPT ![a.req] =
          [copy |-> c, borrower |-> a.borrower, status |-> "issued",
           fine |-> 0, renewals |-> 0, policy |-> policyView[s]]]
  BY <1>1, <1>2 DEF CommitIssue
<1>5. IssueAllowed(a, policyView[s])
  BY <1>2, <1>3 DEF Accepted
<1>6. copy[c].book = a.book
  <2>1. Candidates(a) # {} /\ Candidates(a) \in SUBSET Accessions
    BY <1>5 DEF IssueAllowed, Candidates, OnShelf, CopiesOf
  <2>2. c = Min(Candidates(a))
    BY <1>2, <1>3, <1>4 DEF Choice
  <2>3. c \in Candidates(a)
    BY <2>1, <2>2, MinIn
  <2>4. QED
    BY <2>3 DEF Candidates, OnShelf, CopiesOf
<1>7. /\ loan'[r].borrower = a.borrower /\ loan'[r].copy = c
      /\ loan'[r].policy = policyView[s]
  BY <1>1, <1>2, <1>4 DEF IInv, TypeOK
<1>8. a.borrower \in eligible
  BY <1>2, <1>3 DEF SessionInv, RowsFound, HoldsPerson, BorrowerOf
<1>9. QED
  BY <1>5, <1>6, <1>7, <1>8 DEF LentRightly, IssueAllowed

\* A new loan of issue_book goes to somebody who may borrow, of a title that
\* may be lent, who stays within the limit of the policy the loan records and
\* has no other copy of the title, all at the moment of the commit.
THEOREM LendingIsRight == Spec => LendingRules
<1>1. IInv /\ [Next]_vars =>
        [\A r \in Requests : loan[r] = NoRow /\ loan'[r] # NoRow =>
            LET new  == loan'[r]
                open == OpenLoans(new.borrower)
            IN  /\ new.borrower \in eligible
                /\ Lendable(copy[new.copy].book)
                /\ Cardinality(open) < new.policy.limit[Kind[new.borrower]]
                /\ \A o \in open : Title(o) # copy[new.copy].book]_vars
  BY LoansLentRightly DEF LentRightly
<1>2. QED
  BY <1>1, Invariance, PTL DEF Spec, LendingRules

-----------------------------------------------------------------------------
(* Library implements LibraryCustody. *)

Keeper(c, r) == Unresolved(r) /\ loan[r].copy = c

CustodyFits(c) ==
    /\ copy[c] = NoRow => CustodyOf(c) = <<"absent">>
    /\ \A r \in Requests : Keeper(c, r) /\ loan[r].status = "issued" =>
         CustodyOf(c) = <<"out", r>>
    /\ \A r \in Requests : Keeper(c, r) /\ loan[r].status = "lost" =>
         CustodyOf(c) = <<"lost", r>>
    /\ copy[c] # NoRow /\ (\A r \in Requests : ~Keeper(c, r)) =>
         CustodyOf(c) = IF copy[c].status = "available" THEN <<"shelf">> ELSE <<"aside">>

\* The custody of a copy is that of the one loan that holds it, if there is one.
LEMMA CustodyIs ==
    ASSUME IInv, NEW c \in Accessions
    PROVE  CustodyFits(c)
<1>1. copy[c] = NoRow => CustodyOf(c) = <<"absent">>
  BY DEF CustodyOf
<1>2. ASSUME NEW r \in Requests, Keeper(c, r)
      PROVE  /\ copy[c] # NoRow /\ loan[r].status \in {"issued", "lost"}
             /\ loan[r].status = "issued" =>
                  /\ LoansOn(c, {"issued"}) = {r} /\ LoansOn(c, {"lost"}) = {}
                  /\ copy[c].status = "issued"
             /\ loan[r].status = "lost" =>
                  /\ LoansOn(c, {"lost"}) = {r} /\ LoansOn(c, {"issued"}) = {}
                  /\ copy[c].status \in {"lost", "withdrawn"}
  <2>1. \A q \in Requests : loan[q] # NoRow /\ loan[q].copy = c
                            /\ loan[q].status \in {"issued", "lost"} => q = r
    BY <1>2 DEF IInv, CopiesHeld, Keeper, Unresolved
  <2>2. QED
    BY <1>2, <2>1 DEF IInv, CopiesHeld, RowsBelong, Keeper, Unresolved, LoansOn
<1>3. \A r : Cardinality({r}) = 1 /\ (CHOOSE q \in {r} : TRUE) = r
  BY FS_Singleton
<1>4. ASSUME NEW r \in Requests, Keeper(c, r), loan[r].status = "issued"
      PROVE  CustodyOf(c) = <<"out", r>>
  BY <1>2, <1>3, <1>4 DEF CustodyOf
<1>5. ASSUME NEW r \in Requests, Keeper(c, r), loan[r].status = "lost"
      PROVE  CustodyOf(c) = <<"lost", r>>
  <2>1. Cardinality({}) = 0
    BY FS_EmptySet
  <2>2. QED
    BY <1>2, <1>3, <1>5, <2>1 DEF CustodyOf
<1>6. ASSUME copy[c] # NoRow, \A r \in Requests : ~Keeper(c, r)
      PROVE  CustodyOf(c) = IF copy[c].status = "available" THEN <<"shelf">> ELSE <<"aside">>
  <2>1. LoansOn(c, {"issued"}) = {} /\ LoansOn(c, {"lost"}) = {}
    BY <1>6 DEF LoansOn, Keeper, Unresolved
  <2>2. Cardinality(LoansOn(c, {"issued"})) = 0 /\ Cardinality(LoansOn(c, {"lost"})) = 0
    BY <2>1, FS_EmptySet
  <2>3. QED
    BY <1>6, <2>1, <2>2 DEF CustodyOf
<1>7. QED
  BY <1>1, <1>4, <1>5, <1>6 DEF CustodyFits

LEMMA CustodyAll == IInv => \A c \in Accessions : CustodyFits(c)
  BY CustodyIs

LEMMA CustodyAllNext == IInv' => (\A c \in Accessions : CustodyFits(c))'
  BY CustodyAll, PTL

LEMMA CustodySame ==
    ASSUME IInv, IInv', NEW c \in Accessions, copy'[c] = copy[c],
           \A r \in Requests : /\ Keeper(c, r)' <=> Keeper(c, r)
                               /\ Keeper(c, r) => loan'[r].status = loan[r].status
    PROVE  CustodyOf(c)' = CustodyOf(c)
<1>1. CustodyFits(c) /\ CustodyFits(c)'
  BY CustodyAll, CustodyAllNext
<1>2. CASE copy[c] = NoRow
  BY <1>1, <1>2 DEF CustodyFits
<1>3. CASE copy[c] # NoRow /\ \E r \in Requests : Keeper(c, r)
  <2>1. PICK r \in Requests : Keeper(c, r)
    BY <1>3
  <2>2. loan[r].status \in {"issued", "lost"} /\ Keeper(c, r)' /\ loan'[r].status = loan[r].status
    BY <2>1 DEF Keeper, Unresolved
  <2>3. QED
    BY <1>1, <2>1, <2>2 DEF CustodyFits
<1>4. CASE copy[c] # NoRow /\ \A r \in Requests : ~Keeper(c, r)
  BY <1>1, <1>4 DEF CustodyFits
<1>5. QED
  BY <1>2, <1>3, <1>4

LEMMA ElsewhereSame ==
    ASSUME IInv, IInv', NEW r \in Requests, NEW c \in Accessions,
           \A q \in Requests \ {r} : loan'[q] = loan[q],
           \A x \in Accessions \ {c} : copy'[x] = copy[x],
           loan'[r].copy = c, loan[r] # NoRow => loan[r].copy = c
    PROVE  \A x \in Accessions \ {c} : CustodyOf(x)' = CustodyOf(x)
<1>1. ASSUME NEW x \in Accessions, x # c
      PROVE  CustodyOf(x)' = CustodyOf(x)
  <2>1. \A q \in Requests : /\ Keeper(x, q)' <=> Keeper(x, q)
                            /\ Keeper(x, q) => loan'[q].status = loan[q].status
    BY <1>1 DEF Keeper, Unresolved
  <2>2. QED
    BY <1>1, <2>1, CustodySame
<1>2. QED
  BY <1>1

Bar == [c \in Accessions |-> CustodyOf(c)]

LEMMA BarOne ==
    ASSUME NEW c \in Accessions, \A x \in Accessions \ {c} : CustodyOf(x)' = CustodyOf(x)
    PROVE  Bar' = [Bar EXCEPT ![c] = CustodyOf(c)']
  BY DEF Bar

\* A loan that holds no copy is in nobody's custody.
LEMMA NoCustody ==
    ASSUME IInv, NEW r \in Requests, loan[r] = NoRow, NEW c \in Accessions
    PROVE  CustodyOf(c) \notin {<<"out", r>>, <<"lost", r>>}
<1>1. CustodyFits(c)
  BY CustodyAll
<1>2. CASE copy[c] = NoRow
  BY <1>1, <1>2 DEF CustodyFits
<1>3. CASE copy[c] # NoRow /\ \E q \in Requests : Keeper(c, q)
  <2>1. PICK q \in Requests : Keeper(c, q)
    BY <1>3
  <2>2. q # r /\ loan[q].status \in {"issued", "lost"}
    BY <2>1 DEF Keeper, Unresolved
  <2>3. CustodyOf(c) = <<"out", q>> \/ CustodyOf(c) = <<"lost", q>>
    BY <1>1, <2>1, <2>2 DEF CustodyFits
  <2>4. QED
    BY <2>2, <2>3
<1>4. CASE copy[c] # NoRow /\ \A q \in Requests : ~Keeper(c, q)
  BY <1>1, <1>4 DEF CustodyFits
<1>5. QED
  BY <1>2, <1>3, <1>4

LEMMA IssueImplements ==
    ASSUME IInv, IInv', NEW s \in Sessions, CommitIssue(s)
    PROVE  Custody!Next
<1>1. PICK a \in Commands : a = cmd[s]
  BY AtCommit DEF CommitIssue
<1>2. PICK c \in chosen[s] :
        /\ copy' = [copy EXCEPT ![c].status = "issued"]
        /\ loan' = [loan EXCEPT ![a.req] =
              [copy |-> c, borrower |-> a.borrower, status |-> "issued",
               fine |-> 0, renewals |-> 0, policy |-> policyView[s]]]
  BY <1>1 DEF CommitIssue
<1>3. /\ pc[s] = "commit" /\ a.op = "issue" /\ a.req \in Requests /\ loan[a.req] = NoRow
      /\ Accepted(s) /\ chosen[s] = Choice(s)
  BY <1>1, AtCommit DEF CommitIssue
<1>4. c \in Accessions /\ copy[c] # NoRow /\ copy[c].status = "available"
  <2>1. Candidates(a) # {} /\ Candidates(a) \in SUBSET Accessions
    BY <1>1, <1>3 DEF Accepted, IssueAllowed, Candidates, OnShelf, CopiesOf
  <2>2. c = Min(Candidates(a))
    BY <1>1, <1>2, <1>3 DEF Choice
  <2>3. c \in Candidates(a)
    BY <2>1, <2>2, MinIn
  <2>4. QED
    BY <2>3 DEF Candidates, OnShelf, CopiesOf
<1>5. /\ \A q \in Requests \ {a.req} : loan'[q] = loan[q]
      /\ \A x \in Accessions \ {c} : copy'[x] = copy[x]
      /\ loan'[a.req].copy = c /\ loan'[a.req].status = "issued" /\ loan'[a.req] # NoRow
  <2>1. /\ loan \in [Requests -> LoanRow \cup {NoRow}] /\ copy \in [Accessions -> CopyRow \cup {NoRow}]
        /\ loan' \in [Requests -> LoanRow \cup {NoRow}]
    BY DEF IInv, TypeOK
  <2>2. \A q \in Requests \ {a.req} : loan'[q] = loan[q]
    BY <1>2, <1>3, <2>1
  <2>3. \A x \in Accessions \ {c} : copy'[x] = copy[x]
    BY <1>2, <1>4, <2>1
  <2>4. loan'[a.req].copy = c /\ loan'[a.req].status = "issued"
    BY <1>2, <1>3, <2>1
  <2>5. loan'[a.req] # NoRow
    <3>1. event'[a.req] = a
      BY <1>1, <1>3 DEF CommitIssue, Record, IInv, TypeOK
    <3>2. Effected(a)'
      BY <1>1, <1>3, <3>1, NoRowApart DEF IInv, EventsEffected
    <3>3. QED
      BY <1>3, <3>2 DEF Effected
  <2>6. QED
    BY <2>2, <2>3, <2>4, <2>5
<1>6. \A x \in Accessions \ {c} : CustodyOf(x)' = CustodyOf(x)
  BY <1>3, <1>4, <1>5, ElsewhereSame
<1>7. CustodyOf(c) = <<"shelf">>
  <2>1. \A q \in Requests : ~Keeper(c, q)
    BY <1>4 DEF IInv, CopiesHeld, Keeper, Unresolved
  <2>2. QED
    BY <1>4, <2>1, CustodyAll DEF CustodyFits
<1>8. CustodyOf(c)' = <<"out", a.req>>
  <2>1. Keeper(c, a.req)'
    BY <1>5 DEF Keeper, Unresolved
  <2>2. QED
    BY <1>3, <1>4, <1>5, <2>1, CustodyAllNext DEF CustodyFits
<1>9. Bar' = [Bar EXCEPT ![c] = <<"out", a.req>>]
  BY <1>4, <1>6, <1>8, BarOne
<1>10. /\ Bar[c] = <<"shelf">>
       /\ \A x \in Accessions : Bar[x] \notin {<<"out", a.req>>, <<"lost", a.req>>}
  BY <1>3, <1>4, <1>7, NoCustody DEF Bar
<1>11. Custody!Lend(c, a.req)
  BY <1>9, <1>10 DEF Custody!Lend, Bar
<1>12. Bar'[c] # Bar[c]
  BY <1>4, <1>9, <1>10 DEF Bar
<1>13. QED
  BY <1>3, <1>4, <1>11, <1>12 DEF Custody!Next, Custody!Passes, Bar

LEMMA LoanEndImplements ==
    ASSUME IInv, IInv', NEW s \in Sessions, CommitReturn(s) \/ CommitLost(s)
    PROVE  Custody!Next
<1>1. PICK a \in Commands : a = cmd[s]
  BY AtCommit DEF CommitReturn, CommitLost
<1>2. pc[s] = "commit" /\ a.op \in {"return", "lost"} /\ IsLoanOp(cmd[s])
  BY <1>1 DEF CommitReturn, CommitLost, IsLoanOp
<1>3. PICK r \in Requests : r = a.loan
  BY <1>1, <1>2, LoanAtCommit
<1>4. PICK c \in Accessions : c = loan[r].copy
  BY <1>1, <1>2, <1>3, LoanAtCommit
<1>5. /\ r \in Requests /\ loanView[s] = loan[r] /\ loan[r] \in LoanRow
      /\ c \in Accessions /\ copy[c] \in CopyRow
      /\ LoanChangeAllowed(a) /\ Unresolved(r)
  BY <1>1, <1>2, <1>3, <1>4, LoanAtCommit
<1>6. /\ loan \in [Requests -> LoanRow \cup {NoRow}] /\ copy \in [Accessions -> CopyRow \cup {NoRow}]
      /\ loan[r] # NoRow /\ copy[c] # NoRow
  BY <1>5, NoRowApart DEF IInv, TypeOK
<1>7. /\ \A q \in Requests \ {r} : loan'[q] = loan[q]
      /\ \A x \in Accessions \ {c} : copy'[x] = copy[x]
      /\ loan'[r].copy = c
      /\ \/ /\ a.op = "return" /\ loan'[r].status = "returned"
            /\ copy'[c].status \in {"available", "damaged"}
         \/ a.op = "lost" /\ loan'[r].status = "lost"
  <2>1. CASE a.op = "return"
    <3>1. /\ loan' = [loan EXCEPT ![r] = [loan[r] EXCEPT !.status = "returned",
                                                         !.fine = ReturnFine(s)]]
          /\ copy' = [copy EXCEPT ![c].status = IF a.good THEN "available" ELSE "damaged"]
      BY <1>1, <1>5, <1>3, <1>4, <2>1 DEF CommitReturn, CommitLost
    <3>2. loan'[r] = [loan[r] EXCEPT !.status = "returned", !.fine = ReturnFine(s)]
      BY <1>5, <1>6, <3>1
    <3>3. copy'[c] = [copy[c] EXCEPT !.status = IF a.good THEN "available" ELSE "damaged"]
      BY <1>5, <1>6, <3>1
    <3>4. loan'[r].copy = c /\ loan'[r].status = "returned"
      BY <1>5, <1>4, <3>2 DEF LoanRow
    <3>5. copy'[c].status \in {"available", "damaged"}
      BY <1>5, <3>3 DEF CopyRow
    <3>6. \A q \in Requests \ {r} : loan'[q] = loan[q]
      BY <1>5, <1>6, <3>1
    <3>7. \A x \in Accessions \ {c} : copy'[x] = copy[x]
      BY <1>5, <1>6, <3>1
    <3>8. QED
      BY <2>1, <3>4, <3>5, <3>6, <3>7
  <2>2. CASE a.op = "lost"
    <3>1. /\ loan' = [loan EXCEPT ![r] = [loan[r] EXCEPT !.status = "lost", !.fine = a.fine]]
          /\ copy' = [copy EXCEPT ![c].status = "lost"]
      BY <1>1, <1>5, <1>3, <1>4, <2>2 DEF CommitReturn, CommitLost
    <3>2. loan'[r] = [loan[r] EXCEPT !.status = "lost", !.fine = a.fine]
      BY <1>5, <1>6, <3>1
    <3>3. loan'[r].copy = c /\ loan'[r].status = "lost"
      BY <1>5, <1>4, <3>2 DEF LoanRow
    <3>4. \A q \in Requests \ {r} : loan'[q] = loan[q]
      BY <1>5, <1>6, <3>1
    <3>5. \A x \in Accessions \ {c} : copy'[x] = copy[x]
      BY <1>5, <1>6, <3>1
    <3>6. QED
      BY <2>2, <3>3, <3>4, <3>5
  <2>3. QED
    BY <1>2, <2>1, <2>2
<1>8. Keeper(c, r) /\ \A q \in Requests : Keeper(c, q) => q = r
  BY <1>5, <1>4 DEF Keeper, IInv, CopiesHeld
<1>9. \A x \in Accessions \ {c} : CustodyOf(x)' = CustodyOf(x)
  BY <1>5, <1>7, <1>8, ElsewhereSame DEF Keeper
<1>10. Bar' = [Bar EXCEPT ![c] = CustodyOf(c)']
  BY <1>5, <1>9, BarOne
<1>11. loan'[r] # NoRow /\ copy'[c] # NoRow
  <2>1. Effected(a)'
    <3>1. event'[a.req] = a /\ a.req \in Requests
      BY <1>1, <1>2, AtCommit DEF CommitReturn, CommitLost, Record, IInv, TypeOK
    <3>2. QED
      BY <3>1, NoRowApart DEF IInv, EventsEffected
  <2>2. loan'[r] # NoRow
    BY <1>2, <1>3, <2>1 DEF Effected
  <2>3. QED
    BY <1>5, <1>7, <2>2 DEF IInv, RowsBelong
<1>12. CustodyFits(c) /\ CustodyFits(c)'
  BY <1>5, CustodyAll, CustodyAllNext
<1>13. CASE a.op = "return"
  <2>1. \A q \in Requests : ~Keeper(c, q)'
    BY <1>2, <1>7, <1>8, <1>13 DEF Keeper, Unresolved
  <2>2. CustodyOf(c)' \in {<<"shelf">>, <<"aside">>}
    BY <1>11, <1>12, <2>1 DEF CustodyFits
  <2>3. CustodyOf(c) \in {<<"out", r>>, <<"lost", r>>}
    BY <1>5, <1>8, <1>12 DEF CustodyFits, Unresolved
  <2>4. Bar[c] \in {<<"out", r>>, <<"lost", r>>} /\ Bar'[c] = CustodyOf(c)'
    BY <1>5, <1>10, <2>3 DEF Bar
  <2>5. Custody!Return(c, r)
    BY <1>10, <2>2, <2>4 DEF Custody!Return, Bar
  <2>6. Bar'[c] # Bar[c]
    BY <2>2, <2>4
  <2>7. QED
    BY <1>5, <2>5, <2>6 DEF Custody!Next, Custody!Passes, Bar
<1>14. CASE a.op = "lost"
  <2>1. loan[r].status = "issued"
    BY <1>5, <1>14, <1>3 DEF LoanChangeAllowed
  <2>2. CustodyOf(c) = <<"out", r>>
    BY <1>5, <1>8, <1>12, <2>1 DEF CustodyFits
  <2>3. Keeper(c, r)' /\ loan'[r].status = "lost"
    BY <1>7, <1>11, <1>14 DEF Keeper, Unresolved
  <2>4. CustodyOf(c)' = <<"lost", r>>
    BY <1>5, <1>12, <2>3 DEF CustodyFits
  <2>5. Bar[c] = <<"out", r>> /\ Bar'[c] = <<"lost", r>>
    BY <1>5, <1>10, <2>2, <2>4 DEF Bar
  <2>6. Custody!Lose(c, r)
    BY <1>10, <2>4, <2>5 DEF Custody!Lose, Bar
  <2>7. Bar'[c] # Bar[c]
    BY <2>5
  <2>8. QED
    BY <1>5, <2>6, <2>7 DEF Custody!Next, Custody!Passes, Bar
<1>15. QED
  BY <1>2, <1>13, <1>14

LEMMA BarSame ==
    ASSUME \A c \in Accessions : CustodyOf(c)' = CustodyOf(c)
    PROVE  Bar' = Bar
  BY DEF Bar

LEMMA RenewImplements ==
    ASSUME IInv, IInv', NEW s \in Sessions, CommitRenew(s)
    PROVE  Bar' = Bar
<1>1. pc[s] = "commit" /\ cmd[s].op = "renew" /\ IsLoanOp(cmd[s])
  BY DEF CommitRenew, IsLoanOp
<1>2. PICK r \in Requests : r = cmd[s].loan
  BY <1>1, LoanAtCommit
<1>3. loanView[s] = loan[r] /\ loan[r] \in LoanRow
  BY <1>1, <1>2, LoanAtCommit
<1>4. /\ loan' = [loan EXCEPT ![r] =
                    [loan[r] EXCEPT !.fine = EstimatedFine(loanView[s], late[r]),
                                    !.renewals = loan[r].renewals + 1]]
      /\ copy' = copy
  BY <1>2, <1>3 DEF CommitRenew
<1>5. /\ \A q \in Requests \ {r} : loan'[q] = loan[q]
      /\ loan'[r] = [loan[r] EXCEPT !.fine = EstimatedFine(loanView[s], late[r]),
                                    !.renewals = loan[r].renewals + 1]
  BY <1>4 DEF IInv, TypeOK
<1>6. loan'[r].copy = loan[r].copy /\ loan'[r].status = loan[r].status
  BY <1>3, <1>5 DEF LoanRow
<1>7. loan'[r] # NoRow /\ loan[r] # NoRow
  <2>1. loan[r] \in LoanRow /\ loan[r].renewals \in Nat
    BY <1>3 DEF LoanRow
  <2>2. EstimatedFine(loanView[s], late[r]) \in Nat
    <3>1. late[r] \in Nat
      BY <1>2, LibraryConstantsAssumption DEF IInv, TypeOK
    <3>2. QED
      BY <1>3, <3>1, FineWithinCap
  <2>3. loan[r].renewals + 1 \in Nat
    BY <2>1
  <2>4. loan'[r] \in LoanRow
    BY <1>5, <2>1, <2>2, <2>3 DEF LoanRow, Money
  <2>5. QED
    BY <2>1, <2>4, NoRowApart
<1>8. \A c \in Accessions, q \in Requests :
        /\ Keeper(c, q)' <=> Keeper(c, q)
        /\ Keeper(c, q) => loan'[q].status = loan[q].status
  BY <1>5, <1>6, <1>7 DEF Keeper, Unresolved
<1>9. QED
  BY <1>4, <1>8, CustodySame, BarSame

LEMMA CopyImplements ==
    ASSUME IInv, IInv', NEW s \in Sessions, CommitCopy(s)
    PROVE  Custody!Next \/ Bar' = Bar
<1>1. PICK a \in Commands : a = cmd[s]
  BY AtCommit DEF CommitCopy
<1>2. /\ pc[s] = "commit" /\ a.op = "copy" /\ loan' = loan
      /\ copy' = [copy EXCEPT ![a.copy].status = a.status]
  BY <1>1 DEF CommitCopy
<1>3. PICK c \in Accessions : c = a.copy
  BY <1>2, CommandFields DEF CommandFits
<1>4. Accepted(s) /\ copy[c] \in CopyRow
  BY <1>1, <1>2, <1>3, AtCommit, AtWork
<1>5. copy[c].status # "issued"
  BY <1>1, <1>2, <1>3, <1>4 DEF Accepted, CopyChangeAllowed
<1>6. copy[c] # NoRow
  BY <1>4, NoRowApart
<1>7. \A x \in Accessions \ {c} : copy'[x] = copy[x]
  BY <1>2, <1>3 DEF IInv, TypeOK
<1>8. \A x \in Accessions, q \in Requests : Keeper(x, q)' <=> Keeper(x, q)
  BY <1>2 DEF Keeper, Unresolved
<1>9. \A x \in Accessions \ {c} : CustodyOf(x)' = CustodyOf(x)
  BY <1>2, <1>7, <1>8, CustodySame
<1>10. CustodyFits(c) /\ CustodyFits(c)'
  BY CustodyAll, CustodyAllNext
<1>11. CASE \E q \in Requests : Keeper(c, q)
  <2>1. PICK q \in Requests : Keeper(c, q)
    BY <1>11
  <2>2. loan[q].status \in {"issued", "lost"} /\ Keeper(c, q)' /\ loan'[q] = loan[q]
    BY <1>2, <1>8, <2>1 DEF Keeper, Unresolved
  <2>3. CustodyOf(c)' = CustodyOf(c)
    BY <1>10, <2>1, <2>2 DEF CustodyFits
  <2>4. QED
    BY <1>9, <2>3, BarSame
<1>12. CASE \A q \in Requests : ~Keeper(c, q)
  <2>1. copy'[c] # NoRow
    <3>1. copy'[c] = [copy[c] EXCEPT !.status = a.status]
      BY <1>2, <1>3 DEF IInv, TypeOK
    <3>2. copy'[c] \in CopyRow
      BY <1>2, <1>4, <3>1, CommandFields DEF CommandFits, CopyRow
    <3>3. QED
      BY <3>2, NoRowApart
  <2>2. CustodyOf(c) \in {<<"shelf">>, <<"aside">>}
    BY <1>6, <1>10, <1>12 DEF CustodyFits
  <2>3. CustodyOf(c)' \in {<<"shelf">>, <<"aside">>}
    BY <1>8, <1>10, <1>12, <2>1 DEF CustodyFits
  <2>4. Bar' = [Bar EXCEPT ![c] = CustodyOf(c)'] /\ Bar[c] = CustodyOf(c)
    BY <1>9, BarOne DEF Bar
  <2>5. Custody!Recondition(c)
    BY <2>2, <2>3, <2>4 DEF Custody!Recondition, Bar
  <2>6. CASE Bar'[c] # Bar[c]
    BY <2>5, <2>6 DEF Custody!Next, Custody!Passes, Bar
  <2>7. CASE Bar'[c] = Bar[c]
    <3>1. CustodyOf(c)' = CustodyOf(c)
      BY <2>7 DEF Bar
    <3>2. QED
      BY <1>9, <3>1, BarSame
  <2>8. QED
    BY <2>6, <2>7
<1>13. QED
  BY <1>11, <1>12

LEMMA StockImplements ==
    ASSUME IInv, IInv', NEW s \in Sessions, CommitStock(s)
    PROVE  Custody!Next
<1>1. PICK new \in SUBSET Accessions : new = chosen[s]
  BY DEF IInv, TypeOK
<1>2. /\ \A x \in new : copy[x] = NoRow
      /\ \A x \in Accessions : copy'[x] = IF x \in new
                                          THEN [book |-> cmd[s].book, status |-> "available"]
                                          ELSE copy[x]
      /\ loan' = loan
  BY <1>1 DEF CommitStock, Refused
<1>3. \A x \in new : copy'[x] # NoRow /\ copy'[x].status = "available"
  <2>1. cmd[s].book \in Books
    BY AtCommit DEF CommitStock, CommandFits
  <2>2. [book |-> cmd[s].book, status |-> "available"] \in CopyRow
    BY <2>1 DEF CopyRow, CopyStatus
  <2>3. QED
    BY <1>2, <2>2, NoRowApart
<1>4. \A x \in Accessions, q \in Requests : Keeper(x, q)' <=> Keeper(x, q)
  BY <1>2 DEF Keeper, Unresolved
<1>5. \A x \in Accessions \ new : CustodyOf(x)' = CustodyOf(x)
  BY <1>2, <1>4, CustodySame
<1>6. \A x \in new : CustodyOf(x) = <<"absent">> /\ CustodyOf(x)' = <<"shelf">>
  <2>1. ASSUME NEW x \in new
        PROVE  CustodyOf(x) = <<"absent">> /\ CustodyOf(x)' = <<"shelf">>
    <3>1. CustodyFits(x) /\ CustodyFits(x)'
      BY CustodyAll, CustodyAllNext
    <3>2. \A q \in Requests : ~Keeper(x, q)
      BY <1>2 DEF Keeper, Unresolved, IInv, RowsBelong
    <3>3. QED
      BY <1>2, <1>3, <1>4, <3>1, <3>2 DEF CustodyFits
  <2>2. QED
    BY <2>1
<1>7. new \in SUBSET {x \in Accessions : Bar[x] = <<"absent">>}
  BY <1>6 DEF Bar
<1>8. Bar' = [x \in Accessions |-> IF x \in new THEN <<"shelf">> ELSE Bar[x]]
  BY <1>5, <1>6 DEF Bar
<1>9. Custody!Acquire(new)
  BY <1>8 DEF Custody!Acquire, Bar
<1>10. QED
  BY <1>7, <1>9 DEF Custody!Next, Bar

LEMMA QuietImplements ==
    ASSUME UNCHANGED <<copy, loan>>
    PROVE  Bar' = Bar
<1>1. \A c \in Accessions : CustodyOf(c)' = CustodyOf(c)
  BY DEF CustodyOf, LoansOn
<1>2. QED
  BY <1>1, BarSame

LEMMA StepImplements == IInv /\ IInv' /\ [Next]_vars => [Custody!Next]_Bar
<1> SUFFICES ASSUME IInv, IInv', [Next]_vars PROVE Custody!Next \/ Bar' = Bar
  OBVIOUS
<1>1. ASSUME NEW s \in Sessions, Submit(s) \/ Work(s) \/ Wait(s) \/ Abort(s)
      PROVE  Custody!Next \/ Bar' = Bar
  <2>1. CASE Commit(s)
    <3>1. CASE CommitBook(s) \/ CommitPolicy(s)
      BY <3>1, QuietImplements DEF CommitBook, CommitPolicy
    <3>2. QED
      BY <2>1, <3>1, IssueImplements, LoanEndImplements, RenewImplements, CopyImplements,
         StockImplements DEF Commit
  <2>2. CASE Submit(s) \/ ReadPolicy(s) \/ Find(s) \/ FindNothing(s) \/ Collide(s) \/ Abort(s)
    <3>1. UNCHANGED <<copy, loan>>
      BY <2>2 DEF Submit, ReadPolicy, Find, FindNothing, Collide, Abort, Refuse, tables
    <3>2. QED
      BY <3>1, QuietImplements
  <2>3. CASE Wait(s)
    <3>1. UNCHANGED <<copy, loan>>
      BY <2>3 DEF Wait, Begin, LockPolicy, LockBorrower, LockPerson, LockBook, Refuse, tables
    <3>2. QED
      BY <3>1, QuietImplements
  <2>4. QED
    BY <1>1, <2>1, <2>2, <2>3 DEF Work
<1>2. CASE \/ \E p \in Leavers : ChangeStatus(p)
           \/ \E r \in Requests : DayPasses(r)
           \/ UNCHANGED vars
  <2>1. UNCHANGED <<copy, loan>>
    BY <1>2 DEF ChangeStatus, DayPasses, vars, tables
  <2>2. QED
    BY <2>1, QuietImplements
<1>3. QED
  BY <1>1, <1>2 DEF Next

\* Every execution of LibraryService passes its physical copies on the way
\* LibraryCustody says: off the shelf only through a new loan, and back from a
\* loan, lost or withdrawn meanwhile or not, only through that loan.
THEOREM Refinement == Spec => CustodyKept
<1>1. Init => Custody!Init
  <2> SUFFICES ASSUME Init PROVE Custody!Init
    OBVIOUS
  <2>1. IInv
    BY InitIInv
  <2>2. \A c \in Accessions : CustodyOf(c) \in {<<"absent">>, <<"shelf">>}
    <3>1. ASSUME NEW c \in Accessions
          PROVE  CustodyOf(c) \in {<<"absent">>, <<"shelf">>}
      <4>1. CustodyFits(c)
        BY <2>1, CustodyAll
      <4>2. \A r \in Requests : ~Keeper(c, r)
        BY DEF Init, Keeper, Unresolved
      <4>3. copy[c] # NoRow => copy[c].status = "available"
        BY DEF Init
      <4>4. QED
        BY <4>1, <4>2, <4>3 DEF CustodyFits
    <3>2. QED
      BY <3>1
  <2>3. QED
    BY <2>2 DEF Custody!Init
<1>2. IInv /\ IInv' /\ [Next]_vars => [Custody!Next]_Bar
  BY StepImplements
<1>3. QED
  BY <1>1, <1>2, Invariance, PTL DEF Spec, CustodyKept, Custody!Spec, Bar

===============================================================================
