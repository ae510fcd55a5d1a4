------------------------------ MODULE FeeBilling ------------------------------
(***************************************************************************)
(* Fee structures, their heads, and the generation of bills from them, as  *)
(* concurrent transactions of FeeService: create_fee_structure,            *)
(* update_fee_structure, add_fee_head, change_fee_head and                 *)
(* generate_ledger_entries, next to StudentService changing a student's    *)
(* status.  One action per statement that waits or that a decision hangs   *)
(* on; the writes of a call appear at once when it commits.                *)
(*                                                                         *)
(* A cohort is one grade in one academic year.  Students are numbered in   *)
(* the order of their ids.  What happens to a bill afterwards is FeeLedger. *)
(***************************************************************************)
EXTENDS Integers, FiniteSets, FiniteSetsExt

CONSTANTS Sessions,
          Students,      \* students of the cohorts, numbered by id
          Structures,    \* ids of fee structures, used or still to be used
          Cohorts, Cohort,
          Heads,         \* ids of fee heads
          Names,         \* head names up to case
          Commands, NoRow, NoCommand, NoStructure,
          MaxHeads       \* heads a structure may have (50)

Frequencies == {"monthly", "quarterly", "annual", "one_time"}

HeadTerms == [name: Names, amount: Nat \ {0}, frequency: Frequencies,
              optional: BOOLEAN]

HeadRow == [structure: Structures, terms: HeadTerms]

\* month_bs of a bill; 0 is NULL, the whole year
Periods == 0 .. 12

BillRow == [student: Students, head: Heads, period: Periods, name: Names,
            amount: Nat \ {0}]

\* heads maps the head ids the new structure is to have to their terms
CreateCommand == [op: {"create"}, structure: Structures,
                  heads: UNION {[H -> HeadTerms] : H \in SUBSET Heads}]
StatusCommand == [op: {"archive", "restore"}, structure: Structures]
AddCommand    == [op: {"add", "change"}, structure: Structures, head: Heads,
                  terms: HeadTerms]
RemoveCommand == [op: {"remove"}, structure: Structures, head: Heads]
GenerateCommand ==
    [op: {"generate"}, structure: Structures \cup {NoStructure}, cohort: Cohorts,
     students: (SUBSET Students) \ {{}}, months: (SUBSET (1 .. 12)) \ {{}},
     chosen: SUBSET Heads]

ASSUME StudentsAssumption == Students \subseteq Nat
ASSUME CohortAssumption == Cohort \in [Structures -> Cohorts]
ASSUME BillingCommandsAssumption ==
    \A c \in Commands :
        \/ c \in StatusCommand \/ c \in AddCommand \/ c \in RemoveCommand
        \/ c \in GenerateCommand
        \/ /\ c.op = "create" /\ c.structure \in Structures
           /\ DOMAIN c.heads \subseteq Heads
           /\ \A h \in DOMAIN c.heads : c.heads[h] \in HeadTerms
           \* FeeStructureCreate.distinct_heads
           /\ \A h, k \in DOMAIN c.heads :
                c.heads[h].name = c.heads[k].name => h = k
ASSUME NoRowAssumption == NoRow \notin HeadRow
ASSUME NoStructureAssumption == NoStructure \notin Structures

VARIABLES structure,   \* Structures -> "none", "active" or "archived"
          head,        \* Heads -> HeadRow or NoRow
          bill,        \* fee_ledger, as generation writes it
          enrolled,    \* students with an active status
          pc, cmd, held,
          target,      \* the structure a generation has looked up
          headView     \* the heads a session has loaded with a structure

tables   == <<structure, head, bill>>
sessions == <<pc, cmd, held, target, headView>>
vars     == <<tables, enrolled, sessions>>

Phases == {"idle", "active", "billed", "insert", "find", "structure", "others",
           "unbilled", "write", "students", "bills"}

StructureLock(x) == <<"structure", x>>
StudentLock(i)   == <<"student", i>>
Locks == {StructureLock(x) : x \in Structures} \cup {StudentLock(i) : i \in Students}

NoHeadView == [h \in Heads |-> NoRow]

TypeOK ==
    /\ structure \in [Structures -> {"none", "active", "archived"}]
    /\ head \in [Heads -> HeadRow \cup {NoRow}]
    /\ bill \subseteq BillRow
    /\ enrolled \subseteq Students
    /\ pc \in [Sessions -> Phases]
    /\ cmd \in [Sessions -> Commands \cup {NoCommand}]
    /\ held \in [Sessions -> SUBSET Locks]
    /\ target \in [Sessions -> Structures \cup {NoStructure}]
    /\ headView \in [Sessions -> [Heads -> HeadRow \cup {NoRow}]]
    /\ \A s \in Sessions : pc[s] = "idle" => cmd[s] = NoCommand /\ held[s] = {}

Init ==
    /\ structure = [x \in Structures |-> "none"]
    /\ head = NoHeadView
    /\ bill = {}
    /\ enrolled = Students
    /\ pc = [s \in Sessions |-> "idle"]
    /\ cmd = [s \in Sessions |-> NoCommand]
    /\ held = [s \in Sessions |-> {}]
    /\ target = [s \in Sessions |-> NoStructure]
    /\ headView = [s \in Sessions |-> NoHeadView]

-----------------------------------------------------------------------------

HeadsOf(x) == {h \in Heads : head[h] # NoRow /\ head[h].structure = x}
BilledIn(k) == {b \in bill : Cohort[head[b.head].structure] = k}
ActiveIn(k) == {x \in Structures : Cohort[x] = k /\ structure[x] = "active"}

\* The heads of structure x a session has loaded.
Viewed(s) == {h \in Heads : headView[s][h] # NoRow}

\* Whether other transactions leave the lock free.
Free(s, lock) == \A other \in Sessions \ {s} : lock \notin held[other]

GoTo(s, phase) == pc' = [pc EXCEPT ![s] = phase]

\* mutant: a call ends without its transaction ending
EndKeepsLocks(s) ==
    /\ GoTo(s, "idle")
    /\ cmd' = [cmd EXCEPT ![s] = NoCommand]
    /\ target' = [target EXCEPT ![s] = NoStructure]
    /\ headView' = [headView EXCEPT ![s] = NoHeadView]
    /\ UNCHANGED held

End(s) ==
    /\ GoTo(s, "idle")
    /\ cmd' = [cmd EXCEPT ![s] = NoCommand]
    /\ held' = [held EXCEPT ![s] = {}]
    /\ target' = [target EXCEPT ![s] = NoStructure]
    /\ headView' = [headView EXCEPT ![s] = NoHeadView]

\* A refusal: 404, 409 or 400, and rollback.
Refuse(s) == End(s) /\ UNCHANGED <<tables, enrolled>>

Proceed(s, phase) ==
    /\ GoTo(s, phase)
    /\ UNCHANGED <<tables, enrolled, cmd, held, target, headView>>

FirstPhase(c) ==
    CASE c.op = "create" -> "active"
      [] c.op = "generate" /\ c.structure = NoStructure -> "find"
      [] OTHER -> "structure"

Submit(s) ==
    /\ pc[s] = "idle"
    /\ \E c \in Commands :
         /\ cmd' = [cmd EXCEPT ![s] = c]
         /\ GoTo(s, FirstPhase(c))
         /\ target' = [target EXCEPT ![s] = c.structure]
    /\ UNCHANGED <<tables, enrolled, held, headView>>

-----------------------------------------------------------------------------
(* create_fee_structure: two plain SELECTs, then the insert. *)

CheckNoneActive(s) ==
    /\ pc[s] = "active"
    /\ IF ActiveIn(Cohort[cmd[s].structure]) = {} THEN Proceed(s, "billed")
       ELSE Refuse(s)

CheckNoneBilled(s) ==
    /\ pc[s] = "billed"
    /\ IF BilledIn(Cohort[cmd[s].structure]) = {} THEN Proceed(s, "insert")
       ELSE Refuse(s)

\* uq_fee_structure_active refuses a second active structure of the cohort;
\* ids are new uuids.
InsertStructure(s) ==
    /\ pc[s] = "insert"
    /\ LET c == cmd[s] IN
       IF /\ ActiveIn(Cohort[c.structure]) = {}
          /\ structure[c.structure] = "none"
          /\ \A h \in DOMAIN c.heads : head[h] = NoRow
       THEN /\ structure' = [structure EXCEPT ![c.structure] = "active"]
            /\ head' = [h \in Heads |->
                          IF h \in DOMAIN c.heads
                          THEN [structure |-> c.structure, terms |-> c.heads[h]]
                          ELSE head[h]]
            /\ UNCHANGED <<bill, enrolled>>
            /\ End(s)
       ELSE Refuse(s)

-----------------------------------------------------------------------------
(* _structure(lock=True) and what follows it. *)

\* generate_ledger_entries without a structure id looks the active one up.
FindActive(s) ==
    /\ pc[s] = "find"
    /\ IF ActiveIn(cmd[s].cohort) = {} THEN Refuse(s)
       ELSE /\ \E x \in ActiveIn(cmd[s].cohort) : target' = [target EXCEPT ![s] = x]
            /\ GoTo(s, "structure")
            /\ UNCHANGED <<tables, enrolled, cmd, held, headView>>

NextPhase(c) ==
    CASE c.op = "restore" -> "others"
      [] c.op \in {"change", "remove"} -> "unbilled"
      [] c.op = "generate" -> "students"
      [] OTHER -> "write"

\* the checks on the locked structure row and the heads loaded with it
StructureAccepts(c, x) ==
    LET heads == HeadsOf(x) IN
    /\ structure[x] # "none"
    /\ c.op = "add" =>
         /\ structure[x] = "active"
         /\ c.terms.name \notin {head[h].terms.name : h \in heads}
         /\ Cardinality(heads) < MaxHeads
    /\ c.op \in {"change", "remove"} => c.head \in heads
    /\ c.op = "generate" => structure[x] = "active" /\ Cohort[x] = c.cohort

\* mutant: the structure row is read without FOR UPDATE
LockStructureNoWait(s) ==
    /\ pc[s] = "structure"
    /\ LET c == cmd[s]
           x == target[s]
       IN  IF StructureAccepts(c, x)
           THEN /\ headView' = [headView EXCEPT ![s] =
                     [h \in Heads |-> IF h \in HeadsOf(x) THEN head[h] ELSE NoRow]]
                /\ GoTo(s, NextPhase(c))
                /\ UNCHANGED <<tables, enrolled, cmd, held, target>>
           ELSE Refuse(s)

LockStructure(s) ==
    /\ pc[s] = "structure"
    /\ Free(s, StructureLock(target[s]))
    /\ LET c == cmd[s]
           x == target[s]
       IN  IF StructureAccepts(c, x)
           THEN /\ held' = [held EXCEPT ![s] = @ \cup {StructureLock(x)}]
                /\ headView' = [headView EXCEPT ![s] =
                     [h \in Heads |-> IF h \in HeadsOf(x) THEN head[h] ELSE NoRow]]
                /\ GoTo(s, NextPhase(c))
                /\ UNCHANGED <<tables, enrolled, cmd, target>>
           ELSE Refuse(s)

\* update_fee_structure: another structure of the cohort must not be active
CheckOthersArchived(s) ==
    /\ pc[s] = "others"
    /\ LET x == target[s] IN
       IF ActiveIn(Cohort[x]) \ {x} = {} THEN Proceed(s, "write") ELSE Refuse(s)

\* mutant: a restore is not held to the partial unique index
WriteStatusUnindexed(s) ==
    /\ pc[s] = "write" /\ cmd[s].op \in {"archive", "restore"}
    /\ structure' = [structure EXCEPT ![target[s]] =
                       IF cmd[s].op = "archive" THEN "archived" ELSE "active"]
    /\ UNCHANGED <<head, bill, enrolled>>
    /\ End(s)

WriteStatus(s) ==
    /\ pc[s] = "write" /\ cmd[s].op \in {"archive", "restore"}
    /\ IF cmd[s].op = "restore" /\ ActiveIn(Cohort[target[s]]) \ {target[s]} # {}
       THEN Refuse(s)
       ELSE /\ structure' = [structure EXCEPT ![target[s]] =
                               IF cmd[s].op = "archive" THEN "archived" ELSE "active"]
            /\ UNCHANGED <<head, bill, enrolled>>
            /\ End(s)

\* mutant: only a deletion looks for bills
CheckUnbilledSkipped(s) ==
    /\ pc[s] = "unbilled"
    /\ IF cmd[s].op = "remove" => \A b \in bill : b.head # cmd[s].head
       THEN Proceed(s, "write")
       ELSE Refuse(s)

\* change_fee_head: a billed head is locked; a new name must differ from the
\* names of the other loaded heads
CheckUnbilled(s) ==
    /\ pc[s] = "unbilled"
    /\ LET c == cmd[s] IN
       IF /\ \A b \in bill : b.head # c.head
          /\ c.op = "change" =>
               \A h \in Viewed(s) \ {c.head} : headView[s][h].terms.name # c.terms.name
       THEN Proceed(s, "write")
       ELSE Refuse(s)

\* add_fee_head and change_fee_head write the head; uq_fee_head_name guards
\* the name, the foreign key of fee_ledger a deletion
WriteHead(s) ==
    /\ pc[s] = "write" /\ cmd[s].op \in {"add", "change", "remove"}
    /\ LET c == cmd[s]
           x == target[s]
       IN  IF \/ c.op = "add" /\ head[c.head] # NoRow
              \/ c.op # "remove" /\ \E h \in HeadsOf(x) \ {c.head} :
                                      head[h].terms.name = c.terms.name
           THEN Refuse(s)
           ELSE /\ head' = [head EXCEPT ![c.head] =
                              IF c.op = "remove" THEN NoRow
                              ELSE [structure |-> x, terms |-> c.terms]]
                /\ UNCHANGED <<structure, bill, enrolled>>
                /\ End(s)

-----------------------------------------------------------------------------
(* generate_ledger_entries, after the structure is locked. *)

Waiting(s) == {i \in cmd[s].students : StudentLock(i) \notin held[s]}

\* mutant: the student rows are locked in no particular order
NextStudentUnordered(s, i) == i \in Waiting(s)

\* SELECT ... ORDER BY id FOR UPDATE locks one row after the other
NextStudent(s, i) == i \in Waiting(s) /\ \A other \in Waiting(s) : i <= other

\* mutant: the student rows are read without FOR UPDATE
LockStudentNot(s) ==
    /\ pc[s] = "students"
    /\ IF cmd[s].students \subseteq enrolled THEN Proceed(s, "bills") ELSE Refuse(s)

\* A student who is not active any more when the lock is granted is missing
\* from the result, and the call is refused.
LockStudent(s) ==
    /\ pc[s] = "students"
    /\ \E i \in Students :
         /\ NextStudent(s, i)
         /\ Free(s, StudentLock(i))
         /\ IF i \in enrolled
            THEN /\ held' = [held EXCEPT ![s] = @ \cup {StudentLock(i)}]
                 /\ GoTo(s, IF Waiting(s) = {i} THEN "bills" ELSE "students")
                 /\ UNCHANGED <<tables, enrolled, cmd, target, headView>>
            ELSE Refuse(s)

\* the months a head of the given frequency is charged in
PeriodsOf(frequency, months) ==
    CASE frequency = "monthly"   -> months
      [] frequency = "quarterly" -> months \cap {1, 4, 7, 10}
      [] OTHER                   -> IF 1 \in months THEN {0} ELSE {}

\* the optional heads must be optional heads of the structure, the others
\* are always charged
ChargedHeads(s) ==
    {h \in Viewed(s) : headView[s][h].terms.optional => h \in cmd[s].chosen}

ChoiceFits(s) ==
    \A h \in cmd[s].chosen : h \in Viewed(s) /\ headView[s][h].terms.optional

NewBills(s) ==
    UNION { LET terms == headView[s][h].terms IN
            { [student |-> i, head |-> h, period |-> p, name |-> terms.name,
               amount |-> terms.amount]
              : i \in cmd[s].students, p \in PeriodsOf(terms.frequency, cmd[s].months) }
            : h \in ChargedHeads(s) }

SameKey(b1, b2) ==
    b1.student = b2.student /\ b1.head = b2.head /\ b1.period = b2.period

\* INSERT ... ON CONFLICT DO NOTHING on uq_fee_ledger_period
InsertBills(s) ==
    /\ pc[s] = "bills"
    /\ IF ChoiceFits(s) /\ NewBills(s) # {}
       THEN /\ bill' = bill \cup {b \in NewBills(s) : \A old \in bill : ~SameKey(b, old)}
            /\ UNCHANGED <<structure, head, enrolled>>
            /\ End(s)
       ELSE Refuse(s)

-----------------------------------------------------------------------------

\* StudentService.update_student or delete_student: the UPDATE waits for the
\* row lock.
ChangeStatus(i) ==
    /\ \A s \in Sessions : StudentLock(i) \notin held[s]
    /\ enrolled' = IF i \in enrolled THEN enrolled \ {i} ELSE enrolled \cup {i}
    /\ UNCHANGED <<tables, sessions>>

Abort(s) == pc[s] # "idle" /\ Refuse(s)

Work(s) == CheckNoneActive(s) \/ CheckNoneBilled(s) \/ InsertStructure(s)
             \/ FindActive(s) \/ CheckOthersArchived(s) \/ WriteStatus(s)
             \/ CheckUnbilled(s) \/ WriteHead(s) \/ InsertBills(s)

Wait(s) == LockStructure(s) \/ LockStudent(s)

Next ==
    \/ \E s \in Sessions : Submit(s) \/ Work(s) \/ Wait(s) \/ Abort(s)
    \/ \E i \in Students : ChangeStatus(i)

Spec == Init /\ [][Next]_vars

\* As in FeeLedger: running calls go on and a waiter gets its lock in turn.
FairSpec == Spec /\ \A s \in Sessions : WF_vars(Work(s)) /\ SF_vars(Wait(s))

-----------------------------------------------------------------------------
(* Properties. *)

\* "Billed fee heads are locked. Existing bills and receipts must retain
\* their terms": the head of every bill still exists and says what the bill
\* says, however changes of heads and generations interleave.
BillsKeepTerms ==
    \A b \in bill : /\ head[b.head] # NoRow
                    /\ head[b.head].terms.name = b.name
                    /\ head[b.head].terms.amount = b.amount

\* Within one structure no student is charged twice for one fee and period,
\* however often and with whatever overlap bills are generated.
ChargedOncePerStructure ==
    \A b1, b2 \in bill :
        /\ b1.student = b2.student /\ b1.name = b2.name /\ b1.period = b2.period
        /\ head[b1.head] # NoRow /\ head[b2.head] # NoRow
        /\ head[b1.head].structure = head[b2.head].structure
        => b1 = b2

\* "Only one structure can be active for a grade and year."
OneActiveStructure == \A k \in Cohorts : Cardinality(ActiveIn(k)) <= 1

\* Nothing is charged twice: one structure in force for a class and year, and
\* within it one bill of a student for a fee and period.
NothingChargedTwice == ChargedOncePerStructure /\ OneActiveStructure

\* New bills come from a structure that is active, and go to students who are
\* enrolled, at the moment they are written ("Select an active structure",
\* "Every selected student must be active").
ChargedWhileActive ==
    [][\A b \in bill' \ bill : /\ b.student \in enrolled
                               /\ structure[head[b.head].structure] = "active"]_vars

\* Session s waits until session t ends.
WaitsFor(s, t) ==
    /\ s # t
    /\ \/ pc[s] = "structure" /\ StructureLock(target[s]) \in held[t]
       \/ /\ pc[s] = "students"
          /\ \E i \in Students : NextStudent(s, i) /\ StudentLock(i) \in held[t]

\* Among any finitely many sessions there is one that waits for none of them,
\* so no circle of calls waits for each other's locks, also when generations
\* for two years share any number of students: the structure comes first, and
\* the students in one order for all.
NoCircularWait ==
    \A S \in (SUBSET Sessions) \ {{}} :
        IsFiniteSet(S) => \E s \in S : \A t \in S : ~WaitsFor(s, t)

\* Every call comes to an end, also when two generations share students.
CallsEnd == \A s \in Sessions : pc[s] # "idle" ~> pc[s] = "idle"

\* "A billed structure also cannot be replaced by a new structure for the
\* same grade/year ... This prevents accidental rebilling under new head IDs"
\* (docs/fees-and-payments.md): no student is charged twice for one fee and
\* period of one year.
NoPeriodChargedTwice ==
    \A b1, b2 \in bill :
        /\ b1.student = b2.student /\ b1.name = b2.name /\ b1.period = b2.period
        /\ Cohort[head[b1.head].structure] = Cohort[head[b2.head].structure]
        => b1 = b2

-----------------------------------------------------------------------------
(* The inductive invariant: what a call may rely on because it holds the row *)
(* lock of its structure, and what the rows themselves keep.                 *)

\* the phases after _structure(lock=True)
AfterStructure == {"others", "unbilled", "write", "students", "bills"}

LocksApart ==
    \A s1, s2 \in Sessions : s1 # s2 => held[s1] \cap held[s2] = {}

PhaseFits(s) ==
    /\ pc[s] # "idle" => cmd[s] \in Commands
    /\ pc[s] \in {"active", "billed", "insert"} => cmd[s].op = "create"
    /\ pc[s] \in {"find", "students", "bills"} => cmd[s].op = "generate"
    /\ pc[s] = "structure" => cmd[s].op # "create"
    /\ pc[s] = "others" => cmd[s].op = "restore"
    /\ pc[s] = "unbilled" => cmd[s].op \in {"change", "remove"}
    /\ pc[s] = "write" => cmd[s].op \notin {"create", "generate"}
    /\ pc[s] \in AfterStructure \cup {"structure"} => target[s] \in Structures

HoldsLocks(s) ==
    /\ pc[s] \in AfterStructure => StructureLock(target[s]) \in held[s]
    /\ pc[s] = "bills" => \A i \in cmd[s].students : StudentLock(i) \in held[s]
    /\ \A i \in Students : StudentLock(i) \in held[s] => i \in enrolled

\* Students are locked by a generation that holds its structure, each before
\* the ones with a greater id.
HeldInOrder(s) ==
    /\ pc[s] \notin AfterStructure => held[s] = {}
    /\ \A i \in Students : StudentLock(i) \in held[s] => pc[s] \in {"students", "bills"}
    /\ pc[s] = "students" =>
         \A i, j \in Students : StudentLock(i) \in held[s] /\ j \in Waiting(s) => i < j

LocksInOrder == \A s \in Sessions : HeldInOrder(s)

\* what the loaded copy of the structure and its heads still says of the rows
CopiesFit(s) ==
    pc[s] \in AfterStructure =>
      /\ structure[target[s]] # "none"
      /\ headView[s] = [h \in Heads |-> IF h \in HeadsOf(target[s]) THEN head[h]
                                        ELSE NoRow]
      /\ cmd[s].op = "generate" => structure[target[s]] = "active"
      /\ cmd[s].op \in {"change", "remove"} => cmd[s].head \in HeadsOf(target[s])

HeadUnbilled(s) ==
    pc[s] = "write" /\ cmd[s].op \in {"change", "remove"} =>
      \A b \in bill : b.head # cmd[s].head

SessionInv(s) == PhaseFits(s) /\ HoldsLocks(s) /\ CopiesFit(s) /\ HeadUnbilled(s)

\* uq_fee_head_name, and the foreign key of a head
HeadsStand ==
    \A h \in Heads : head[h] # NoRow =>
      /\ structure[head[h].structure] # "none"
      /\ \A k \in HeadsOf(head[h].structure) :
           head[k].terms.name = head[h].terms.name => k = h

\* uq_fee_ledger_period
BillsApart == \A b1, b2 \in bill : SameKey(b1, b2) => b1 = b2

\* uq_fee_structure_active
ActiveApart ==
    \A x, y \in Structures :
      structure[x] = "active" /\ structure[y] = "active" /\ Cohort[x] = Cohort[y] => x = y

IInv ==
    /\ TypeOK
    /\ LocksApart
    /\ HeadsStand
    /\ BillsKeepTerms
    /\ BillsApart
    /\ ActiveApart
    /\ \A s \in Sessions : SessionInv(s)

=============================================================================
