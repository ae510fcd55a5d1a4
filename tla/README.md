# Formal models of the school management system

TLA+ models, model-checking configurations and machine-checked proofs for the
backend under `src/backend`: a FastAPI application (one process image, several
uvicorn workers) over PostgreSQL, with Redis for authentication and a Next.js
frontend.  Line numbers of every modelled definition are in `PROJECT.json`,
section `map`.

## 1. The system

### How requests run

Every HTTP request gets one `AsyncSession` from `get_db`
(`shared/database/base.py`).  The session is one PostgreSQL transaction at READ
COMMITTED: it commits when the handler returns and rolls back when it raises.
Workers share nothing but the database, so all coordination is done by

* `SELECT ... FOR UPDATE` row locks,
* transaction-level advisory locks (`pg_advisory_xact_lock`), keyed by a request
  id, a borrower, or a whole school,
* unique and partial unique indexes, foreign keys and CHECK constraints.

Sessions are created with `autoflush=False` and `expire_on_commit=False`: a row
that has been loaded keeps its loaded attributes unless a statement asks for
`populate_existing` or the row is refreshed, and an UPDATE carries only the
columns whose value differs from the loaded one.  Both facts matter below.

### Components

| Component | State it keeps | Operations | Hard behaviour | What makes it correct |
|---|---|---|---|---|
| **fee ledger** (`fee_service.py`) | `fee_ledger`, `fee_payments`, `fee_refunds`, `scholarships`, `fee_discount_allocations` | collect, refund, apply and reverse a scholarship | concurrent cashiers, retries with one request id, copies read before a lock, rounding, deadlock | totals agree with the rows they summarise; no lost update; a call takes effect once; history is kept |
| **fee structures and billing** (`fee_service.py`) | `fee_structures`, `fee_heads`, `fee_ledger` | create, archive, restore, add/change/remove head, generate bills | generation against head changes and against other generations, students leaving meanwhile | bills keep their terms, nothing is charged twice, one active structure |
| **fee statements and reports** | none | read only | several statements without a snapshot | – |
| **examinations** (`exam_service.py`) | `exams`, `exam_subjects`, `marks`, `results` | create, update, move status, enter marks, calculate, publish, delete, print cards | nothing is locked; every check is made on a read that may be stale at the write | results come from one calculation, a published exam is frozen, points fit marks |
| **library** (`library_service.py`) | books, copies, loans, policy, request log | issue, return, renew, mark lost, stock changes, policy | lending limits, copy status against loans, retries, lock order | a copy is in one place, counts agree with copies |
| **hostel** (`hostel_service.py`) | hostels, rooms, beds, stays, leave, visits, registers, charges | allocate, vacate, transfer, leave, visits, registers, billing | one advisory lock per school, which other services do not take; optimistic register versions; cached occupancy | one bed per student, counters and rosters agree, a month is charged once as agreed |
| **transport** (`transport_service.py`) | vehicles, routes, runs, agreements, trips, maintenance, charges | schedule, assign, start/complete/cancel trips, board and alight, billing | capacity over time, changes under a running trip, fee heads changing under a bill | no overlapping runs, no overloaded run, trips end consistently, fares as agreed |
| **live tracking** (`tracking_service.py`) | phone sessions, positions, stop progress, links of parents | issue/revoke phone, ingest, progress, link/revoke parent, feed | late, repeated and reordered reports racing trip completion; a feed of several tables | positions advance, a revoked phone writes nothing, parents see linked journeys only |
| **students** (`student_service.py`) | students, photos on disk | admit, import, update, delete, photo | other services check a status that changes without their locks; an import fails half-way | a summary accounts for every row handed over, no row of the table names a missing photo |
| **attendance** | student attendance | mark (bulk upsert), correct, reports | overlapping bulk upserts | registers do not mix, the answer has the sheet |
| **staff** | staff, leave, attendance | hire, change, request/decide leave, mark a day | two decisions on one request, rows inserted twice | status and name of a decision are of one call |
| **inventory** | assets, movements | create, change, move stock | read-modify-write without a lock, price and total rounded one by one | the value is that of the quantity beside it |
| **tenants** | schools | create, change, switch grades 11-12 | two switches at once | level and switch agree |
| **SMS** | messages | send, send bulk | two gateways that refuse in different ways or do not answer | a record stands for what the gateways answered |
| **calendar** | none (tables) | convert, range, months, year | ends of months, midnight in a call | conversions invert, ranges and years have no gap |
| **reports** (`report_service.py`) | reports, saved rows, activity | preview, generate, export, detail, archive | rows change between statements, retries, archive races | a snapshot is whole, archived once, retries answered alike |
| **authentication** | users, sessions, Redis blocklist and attempt counters | login, MFA, refresh, logout | two stores without a common transaction | not modelled (section 7) |
| **academic, notification worker** | reference data | CRUD, logging | – | not modelled (section 7) |
| **frontend, migrations, seed scripts** | – | – | – | – |

Interactions.  Students are the shared state: fee, exam, library, hostel and
transport all refer to `students.status`, and fee, library, hostel and transport
lock the student row for some operations.  Hostel and transport write bills into
`fee_ledger` through a fee head of an active structure.  Tracking locks the trips
of transport.  Reports read the tables of all the others.  No component calls
another over a network; there are no callbacks inside the backend.

The full list of hazards, each at the line where it bites, is in `PROJECT.json`
(`hazards`); those that no property covers yet say so.

## 2. Modelling conventions

* A **session** is one request being served.  Its actions are the statements
  that wait for a lock or read a row a decision depends on.  Between two of them
  other sessions run.
* **Locks** are sets of lock names held by sessions; a lock step is enabled only
  when no other session holds what it needs, and locks are released when the
  transaction ends.
* **Copies.**  A row read before a decision is kept as a view of the session.
  The writes of a call are computed from the views and appear at once, in the
  commit step.  This is exact for READ COMMITTED transactions whose statements
  after the last read only write: nobody can see them before the commit.
* **Constraints** of the tables (CHECKs, unique indexes) are conditions of the
  committing step, so that a property can ask whether they are ever needed.
* **Abort** lets any call fail at any point: lost connection, stopped worker,
  database error.  All of it is rolled back; a client may submit again.
* **Requests repeat.**  Sessions may run any command of the configuration any
  number of times, also at once: retries, duplicates and conflicting uses of one
  request id are all behaviours.
* Amounts are whole paisa, except the price of an asset, which a client types with any
  number of decimals; a BS date, a name, a remark, a payment method or the
  wording of an error is left out unless a property is about it.

## 3. Modules

### Fee ledger

| Module | Role |
|---|---|
| `FeeTables` | the rows of the accounting tables and the arithmetic on them: paying, refunding, discounting, splitting an award, the checks of the service and of the tables |
| `FeeAccounts` | the abstract specification: calls take effect one at a time on the tables as they are |
| `FeeLedger` | the concurrent sessions of `collect_fee`, `refund_payment`, `apply_scholarship`, `reverse_scholarship` |
| `FeeLedger_proofs` | the safety theorems, and that `FeeLedger` implements `FeeAccounts` |
| `SumLemmas` | sums over finite sets, for the proofs of several components |
| `MCFeeLedger` | instance for TLC |

The phases of a session follow the code: `request` (`_request_lock`), `find`
(the unlocked lookup of the payment to refund or the award to reverse),
`student` (`_student(lock=True)`), `replay` (the lookup by request id and the
comparison of the details), `payment` (the payment row again, `FOR UPDATE`),
`bills` (the ledger rows, `FOR UPDATE` with `populate_existing`, and the checks),
`commit`.  `reverse_scholarship` has no request id and starts at `find`.  A bill's
status keeps only what the amounts decide: pending, partial and overdue, which
depend on the date, are one value.

### Fee structures and billing

`FeeBilling` models `create_fee_structure`, `update_fee_structure`,
`add_fee_head`, `change_fee_head` (change and delete) and
`generate_ledger_entries`, with `StudentService` changing a student's status next
to them.  `create_fee_structure` is two plain SELECTs and an insert; the other
calls lock the structure row first, and a generation then locks its student rows
one by one in the order of their ids.  A bill records the terms it was charged
on, so that the properties can compare them with its head later.  What happens to
a bill after it is written is `FeeLedger`'s business; the two models share the
convention, not the state.  `FeeBilling_proofs` has its theorems.

### Examinations

`ExamResults` models one exam from its creation on: `update_exam_status`,
`enter_marks`, `calculate_results`, `publish_results` and `delete_exam`, including
the grade-point bands, percentages, pass/fail/absent and ranking.  No call takes a
lock, so every check is a step of its own, separated from the write.  Two details
of the ORM and the database are part of the model: an UPDATE of a mark carries only
the columns that changed against the loaded row, and a `DELETE FROM results` waits
for a calculation that has deleted the same rows, does not see the rows that
calculation inserts, and so runs into the unique index.

`get_marks` (`sheet`) reads the marks once; `get_report_card` (`card`) reads the
result and then, in another statement, the marks, so that a calculation may commit
in between.

Abstractions: the subjects of an exam are fixed and have one pair of full and pass
marks; `create_exam` is the initial state; `update_exam` (`edit`) passes its checks and
writes columns, name and dates, that are left out, as is the comparison of the
actor's school.  Equal values may be sorted in any order of the rows the database
returned.  `ExamResults_proofs` has its theorems.

### Library

| Module | Role |
|---|---|
| `LibraryCustody` | the abstract specification: where each copy is, and the ways it may move |
| `Library` | the concurrent sessions of every command of `LibraryService` |
| `Library_proofs` | the safety theorems, and that `Library` implements `LibraryCustody` |
| `MCLibrary` | instance for TLC |

A session passes the phases its command needs, in the order of the code:
`request` (`_begin`: the advisory lock on the request id and the lookup in
`library_events`), `policy` (the unlocked read of `issue_book`) or `stock`
(`policy(lock=True)` of `create_book`, `add_copies`, `update_policy`), `find` (the
plain SELECT of the loan or copy), `borrower` (the advisory lock on a borrower),
`person` (`_borrower(lock=True)`: the row of the student or staff member, before the
title for a new loan and after it for a renewal), `book` (`_book(lock=True)` with the
loan and copy rows and all checks made under it), `commit`.  Copy and loan rows are
only locked under their title's lock, which stands for theirs.  A loan is stored
under the request id that made it; that names it without a second set of
identifiers, because `_begin` lets a request id make one loan at most.

Abstractions: the due date of a loan is represented by the days it is late, and
days pass for each loan on its own, so `due_days` and the lengths of periods do not
matter; a stored status OVERDUE, which the service reads but never writes, is the
same as ISSUED.  Of a title only the two lending flags are kept; a changed ISBN that
collides, a `total_copies` that disagrees and a missing reason for a fine or a change
end a call without effect, like `Abort`.  A new title is lendable.  The policy row
exists from the start.  Automatic and typed accession numbers share one set of
numbers, as a typed number may have the automatic form.

### Hostel

| Module | Role |
|---|---|
| `HostelResidence` | the abstract specification: where each student lives, is away and is visited, and the ways this may change |
| `Hostel` | the sessions of every command of `HostelService`, next to the services that do not take its lock |
| `Hostel_proofs` | the theorems, and that `Hostel` implements `HostelResidence` |
| `MCHostel` | instance for TLC |

All commands begin with the advisory lock of the school
(`command`), so what a command decides is one step (`Decide`) and its writes appear in `Commit`.  What makes it hard is what does not
take that lock: `ChangeStatus` (the student service), `ChangeHead`, `GenerateBill`
and `ArchivePlan` (the fee service), which a command meets through the row locks of
the student (`LockStudent`) and of the fee structure (`LockStructure`), and `DayPasses`.
A register is saved from a page (`OpenPage`, `SavePage`) that may be as old as one
likes.  A stay, a leave and a visit are stored under the request id that made them.

Abstractions: contact data, the range of the BS year, the 365 days a leave may last,
the optional flag of a head, and one of the two sessions of a register's day.

### Transport and tracking

| Module | Role |
|---|---|
| `BusRides` | the abstract specification of `Transport`: seats and journeys of the students |
| `Transport` | every command of `TransportService` on vehicles, drivers, routes, stops, runs, agreements, trips and boarding, under the advisory lock of the school |
| `Tracking` | extends it with the staff's and the phones' calls (`issue`, `revoke`, `ingest`, `progress`), which take the row lock of the trip only |
| `Transport_proofs` | the theorems about both, and that both implement `BusRides` |
| `MCTransport`, `MCTracking` | instances |

In `Tracking` a call is drawn from `Calls` any number of times and in any order: a
phone that repeats, delays or reorders what it sends.  A token stands for its phone
session, a position for the time it was taken at.  `CONSTANT Callers` gives Transport
the names that may hold a trip's row; `MCTransport` has none.

Abstractions: coordinates and their checks, contact data, the text of the guidance
and its number of stops away; a driver stands for a recorded licence, and a vehicle is
`ready` when a driver is named and no recorded document has expired.

### Office: the smaller services

`Office` composes eleven modules behind one desk (`Desk`: a session, its
request, its view, commit and rollback).  They share the sessions and no table, except
that `Fares` and `Families` record their commands in `BusDesk`'s log of events.  Each
module ends with an inductive invariant over its own table (`AttendanceInv`, `StaffInv`
and so on); `Office` takes them together as `IInv`, and `Office_proofs` has the theorems.

| Module | Code | Notes |
|---|---|---|
| `Attendance` | `attendance_service.py` | the upsert takes rows in the order of the request and waits for each; a deadlock ends in `RollBack` |
| `Staff` | `staff_service.py` | a flush sets the columns that differ from the loaded copy; a day may get several rows of a member (`MaxDayRows`) |
| `Students` | `student_service.py`, photos in `shared/storage.py` | a file is read whole first: a row that cannot be read ends the call, a blank one (no name, or grade 0) is dropped and in no count; the import then commits row by row; after a failed flush its session is dead, the call ends in an error and the rows before it stay; `born` stands for the columns an update cannot change, names and addresses are left out |
| `Inventory` | `inventory_service.py` | price and total of a new asset are rounded to paisa one by one (`Paisa`); one of two movements may be lost; movements are recorded and never read by a decision, so they are left out |
| `Tenants` | `tenant_service.py` | `upgrade_plan` has no caller; plans are those at the start |
| `Messages` | `sms_service.py` | a gateway accepts, refuses in the body of an answer 200, answers another status, or its answer is lost; `TakenAsSent` is where they differ: of Aakash any 200 is taken as sent, of Sparrow only one whose body says so; the record commits after they were asked; a bulk call counts every message as sent |
| `Calendar` | `calendar_service.py`, `nepali_calendar.py` | the month table is a constant, midnight passes inside a call |
| `Reports` | `report_service.py` | one report of `SourceRows`, posted to by other services between statements; report ids are named in the order of creation; the events of exports, which have no request id, are left out; `MaxRows` stands for 10,000; `ReportArchive` is their abstract specification |
| `BusDesk` | `transport_service.py` | maintenance log, positions entered by hand, replay of commands by request id |
| `Fares` | `transport_service.py:_bill` | the monthly fare next to the fee office; one fee structure, whose deleted head is one that is not monthly |
| `Families` | `tracking_service.py` | links of parents, the feed of journeys, the list of links |

`menu` bounds the instance: a behaviour chooses one set of calls at the start and
clients make calls of that set only, so that calls which share tables meet and the
product with all other services is not explored.

The code shows some behaviours no property excludes, because no document does: a
school created at the higher-secondary level can have level and switch torn apart by
two switches at once (`LevelFollowsSwitch` is about the schools that began below it),
and so can the time it was switched on; a deleted student keeps the EMIS number; a
day of two staff rows counts twice; holidays count in the denominator of attendance;
the totals of a preview, a feed or a list and its rows come from two statements and
may disagree; a parent can be linked to a student who leaves meanwhile, whose journeys
the join of the feed then hides; the calendar uses `date.today()` and not the time of
Nepal; the blank rows of an imported file are neither imported nor failed nor in its
total, and an error names the row by its place among the others; a message that Aakash
refuses in the body of an answer 200 is recorded as sent; an asset with a price of 33.333
has 33.33 and, for three pieces, 100.00 in its row, and because a movement that leaves
their number alone then writes the total only, overlapping movements can leave the
quantity of one beside the value of the other.

## 4. Runs

| Run | Configuration | Question | Result |
|---|---|---|---|
| `fee_ledger` | `MCFeeLedger.cfg` | Do two cashiers with shared request ids ever break the books, lose an update, have an accepted call refused by a constraint, wait in a circle, or differ from one-at-a-time execution? | holds, about 500 000 states |
| `fee_ledger_live` | `MCFeeLedgerLive.cfg` | Does every money call end? | holds, about 5 000 states |
| `fee_billing` | `MCFeeBilling.cfg` | Do bills keep their terms, is nobody charged twice in a structure, is there no circle of waiting calls, do calls end? | holds, about 190 000 states |
| `fee_rebilling` | `MCFeeRebilling.cfg` | Does the documented rule against rebilling a year hold? | **violated** |
| `exam_results` | `MCExamResults.cfg` | Are results always those of one calculation, with ranks in order and no subject missing, also on a card? | holds, about 1.1 million states |
| `exam_lock` | `MCExamLock.cfg` | Are the marks of a locked exam frozen? | **violated** |
| `exam_sheet` | `MCExamSheet.cfg` | Does a mark's grade point always fit its marks? | **violated** |
| `library` | `MCLibrary.cfg` | Are copies, loans, counters and retries consistent under concurrent desk work, is a loan lawful when it is made, is there no circle of waiting calls? | holds, about 470 000 states |
| `hostel` | `MCHostel.cfg` | Do beds, counters, whereabouts, registers and charges agree while students and fees change outside the lock, and do students move only as `HostelResidence` allows? | holds, about 680 000 states |
| `transport` | `MCTransport.cfg` | Does the plan always fit its reservations, every journey its plan, and is every seat given and journey made as `BusRides` says? | holds, about 490 000 states |
| `tracking` | `MCTracking.cfg` | Do delayed and repeated phone calls only move a journey forward, and only while it is open and theirs? | holds, about 430 000 states |
| `office` | `MCOffice.cfg` | Do the smaller services keep what they promise when their calls overlap or fail half-way, and are reports kept as `ReportArchive` says? | holds, about 910 000 states |

### Properties

A run checks at most a handful of properties; a name that a configuration lists may
be the conjunction of parts, and the parts are named here as well.

Fee ledger.  `BooksBalance`: `Reconciled` (paid, discount and refunded totals equal the
sums of payments, awards in force and refunds) and `AwardsWhole` (the per-bill parts of
an award add up to what it applied; otherwise `reverse_scholarship` would refuse it for
ever).  `WritesFromCurrentRows`: no call writes from a stale copy.
`AcceptedCanCommit`: the service's own checks imply the database constraints, so that a
call that has passed them is never answered with a database error.
`AckedIsRecorded`: what a client was told has succeeded is on record with exactly
those details.  `OneAtATime`: refinement of `FeeAccounts`.  `CallsEnd`: every call ends.
Two more are theorems that no run checks, because a checked property implies them:
`HistoryKept` (payments, refunds and awards are never rewritten; no step of `FeeAccounts`
does) and `NoCircularWait` (among any sessions one waits for none of the others; if some
waited in a circle and nobody aborted, none of their calls would end).

Billing.  `BillsKeepTerms`: a billed head cannot change under its bills, although
the change and the generation run in different sessions.  `NothingChargedTwice`: one
bill per student, fee name and period within a structure, and one active structure of
a grade and year (the partial unique index covers creations racing restores).
`ChargedWhileActive`: when bills are written the structure is active and the
students are enrolled.  `CallsEnd`: with the fairness below every call ends, also when
generations share students.  `NoCircularWait`, again a theorem that no run checks: the
structure first and the students in the order of their ids exclude deadlock.

Examinations.  `ResultsStand`: `RanksFollowValues`, `LockedHasResults`,
`ResultsNeedAllMarks` and `CardsComplete`; the results table is that of one complete
calculation even when calculations overlap with each other, with mark entry, with
publication and with the printing of cards.

Library.  `CustodyKept`: refinement of `LibraryCustody`; a copy is in one place, leaves
the shelf only through a new loan, and a lost one comes back only through its own loan.
`RowsAgree`: the stored counters are those of the copies (`StockCounted`), the fine
estimated over all renewals stays within the cap saved on the loan (`LoanTermsKept`),
and automatic accession numbers are still free when they are inserted (`NumbersFresh`).
`LendingRules`: at the moment a loan appears its borrower may borrow, the title may be
lent, and number and titles of the borrower's loans are within the rules.
`AckedIsRecorded`: as for fees, with the effect of issue, return and loss.
`NoCircularWait`: no circle of calls waits for each other, although renewals and new
loans lock the borrower's row and the title in opposite orders; the advisory lock on the
borrower is what keeps them apart.  It says, as a state predicate, what deadlock freedom
needs; liveness is not stated for the library.

`docs/library.md:43` says "the borrower limit uses the current school policy".  The
limit is that of the policy row read at the start of `issue_book`; a change that
commits while the call waits for its locks is not seen.  `LendingRules` therefore
measures a loan against the policy saved on it.

Hostel.  `HostelConsistent`: `ResidentsHoused` (counters are those of beds and active
stays, and nobody shares a bed or lives where bed, room or hostel are closed or meant
for others) and `WhereaboutsKnown` (whoever is away or visited is a resident; a dated
roster has each student once, and today's has every resident).  `NoStaleDecision`:
`AdmittedWhileEnrolled` (a stay begins while its student is enrolled and keeps its terms)
and `MarksNotOverwritten` (a mark gives way only to a user whose page showed it).
`ChargesAsAgreed` (one charge per student and month, over transfers, of the agreed fee).
`ResidenceKept`: refinement of `HostelResidence`; a student changes beds in one step,
gives a bed up only when back from leave and without open visits, a leave ends only once
and a visit belongs to one resident, whatever the other services change.

Transport.  `DispatchConsistent`: `PlanConsistent` (runs fit seats, vehicles and
drivers do not overlap, agreements name active runs and stops) and `TripsConsistent`
(one open trip per vehicle and driver, an open trip keeps its run and its
agreements, a closed one has nobody on board).  `NoStaleDecision`: boarding marks and
agreements are not written from a stale page or a stale enrolment.  `RidesKept`:
refinement of `BusRides`; one current seat for a student, changed in one step and not
taken back during a journey; journeys of riders with a seat on the run, each of whom goes
from pending over boarded to alighted or is absent; nothing changes on a closed journey.
How many seats there are is `DispatchConsistent`'s.

Tracking.  `LiveTypeOK` contains the `TypeOK` of `Transport`, which the run of transport
alone does not repeat.  `SharingEnds`: nothing is written for a closed trip nor by a phone that has
been revoked, replaced or had expired, and a trip has one usable phone.
`JourneyForward`: positions and stop progress never go back nor count twice.

Office.  `RollsWhole`: registers saved at once do not mix, and the answer has
the sheet.  `ImportsWhole`: a summary accounts for every row that `bulk_import` was handed (not
for the blank rows of the file), what it counts as imported stands as it was sent, each of those rows that
is valid has its number in the table, and no row names a photo that is not on the disk.  `RowsNotTorn`: a decided leave names the user of that
decision, the value of an asset is that of its quantity if its price is in whole
paisa, level and switch of a school agree.  `RecordsTellTheTruth`: sent by Sparrow means that Sparrow has
accepted the message and Aakash was not asked; sent by Aakash that Aakash answered 200, whatever its
body says, to a message that Sparrow, if enabled, was asked first and did not accept; failed that every
enabled gateway was asked and none accepted; queued that none is enabled.  `CalendarAgrees`: conversions invert each other, ranges and years have no
gap.  `ReportsStand`: a snapshot stays what was sealed, is archived once, and retries are
answered alike.  `ReportsKept`: refinement of `ReportArchive`; the rows of a report are
what the tables showed at one moment while it was asked for, a request has one report, and
a kept one changes only by being archived, once and with a reason.  `RidersServed`: bus commands are done and recorded once, fares
charged once as agreed, links opened and revoked once, and the feed shows parents the
journeys of their linked children only, and of those the ones that were current students
when the call read them.

### Findings

1. **Rebilling** (`fee_rebilling`).  `docs/fees-and-payments.md:45` promises that
   a billed structure cannot be replaced in its year.  `create_fee_structure`
   checks it, `update_fee_structure` does not: create A, archive it unbilled,
   create and bill B, archive B, restore A, bill A.
2. **Locked exam** (`exam_lock`).  `enter_marks` and `calculate_results` test
   `is_locked` in a plain SELECT and write later; a call that began before
   `publish_results` committed changes a published exam.
3. **Torn mark** (`exam_sheet`).  Two sessions saving one mark each write only the
   columns that differ from what they loaded, and the row can end with one
   session's marks and the other's grade point.

The model of messages contains a fourth, which no run checks.  `communication.py:40-41`
documents 200 as sent or queued and 503 as a gateway error, but `send_sms` catches the
error, records the message as failed and returns it: the answer is 200, and
`send_bulk_sms` counts such a message under `sent` (`CommitSms`).

The exam model also shows behaviours no document excludes and no property is
stated about: a late status change can set a published exam back while it stays
locked, results may be older than the marks they are published with, and a draft can
be deleted while marks are being saved for it.  Outside the model, two overlapping
calls of `update_exam` that each change one date can leave the end before the start
(`exam_service.py:187` compares each with the other date it has loaded).

### Bounds and why they are enough

* Two sessions.  The properties relate what one call has read to what one other
  has written; a third session only adds another writer.  The proofs are for any
  number of sessions.
* Fee ledger: two students, one with two bills of one year, two request ids, eleven
  commands chosen so that request ids collide within and across operations,
  payments, refunds, fixed and percentage awards meet on one bill, an award spans two
  bills with rounding, and one award would round to nothing.
* Billing: two structures competing for one grade and year and a third of another
  year that bills the same students, with a monthly, an annual, a quarterly and an
  optional head.  `MaxHeads` is the limit of 50 heads, set to 2 to be reachable.
* Exams: two subjects, two students, full marks 10 instead of 100, junior and
  senior grading both as initial states, sheets in which the order of the students
  changes, an absence, and a mark above the limit.  Order reversals need two
  students; a ranking with three is not covered.
* Library: two titles with three copies and a third to be created, two borrowers, a
  policy and a stricter one, four request ids of which each is used by three or four
  commands, so that at most four changes happen in one behaviour: enough for issue,
  late renewal, loss and recovery of one copy with another command in between.  `Accessions` has
  room for two new copies, `MaxLate` is one day (the cap is reached after one), and
  `Leavers` lets only the pupil leave and return.
* Hostel: a mixed hostel of two rooms with a bed each, a room and a girls' hostel to
  come, a boy who comes, moves and goes and a girl who wants his bed, two days in two
  months, four request ids.  `BedLimit` is the limit of 500 beds, set to 1 to be reachable.
* Transport: two vans of one driver and one to come, a route with two stops, its
  morning run with one seat taken, a second run and route to come, two days, five
  request ids.  `StopLimit` is the limit of 200 stops, set to 2.
* Tracking: a van with two pupils and two stops, two trips, three phones, two calls in
  flight, three times.  `Old`, `Ahead`, `Gap` and `Life` stand for 120, 15 and 5
  seconds and 8 hours; with them a position can be
  too old, too early or too soon, and a phone session can expire.
* Office: fourteen menus of three to twelve calls.  `Grain` is 10, and of two assets one
  has a price with a fraction of a paisa, whose total for one number of pieces is not that
  number times the stored price; the files have valid, invalid, blank and unreadable rows.  `MaxStock`, `MaxDayRows`,
  `LastMoment` and `FirstDay .. LastDay` bound stock, duplicate rows, the age of a position
  and the clock; three years of month lengths have months of 29 to 32 days; five request
  ids and three report ids are more than a retry, a conflict and a second command need.
* Sessions are symmetric and reduced by symmetry in the safety runs; the runs with
  liveness properties use none.

### Fairness

`WF` on the steps of a session that wait for nobody: a running handler goes on.
`SF` on the steps that wait for a lock: PostgreSQL queues waiters, so a lock that
is free again and again is granted.  Nothing is assumed about `Submit` (nobody has to
call), `Abort` (nothing has to fail) or `ChangeStatus`.  The other models are checked
for safety only and assume no fairness: their commands are serialised by one advisory
lock, or wait for nothing.

## 5. Proofs

The theorems hold for any number of sessions, rows, requests and commands.  They use
only the named assumptions of the models on their constants: commands have one of the
forms the schemas accept, amounts and limits are naturals, null values are not rows,
what one request or one school can hold is finite, and the rows a model starts from are
rows the constraints allow.

None of the checked properties is inductive: that a call writes from current rows
depends on what it has locked since it read them.  Every model therefore ends with an
inductive invariant, `IInv` (`LiveIInv` in `Tracking`).  It is the conjunction of the
type invariant, of what the rows keep among themselves, and of a `SessionInv` for each
session: its phase fits its command, it holds the locks of its phase, what it has read
under them is still in the tables, and what it has decided would be decided again.  The
proofs have one lemma for each action that the invariant is kept by the session that
moves, and lemmas that the other sessions keep theirs; the safety theorems follow from
the invariant, the action properties from the invariant and the commit.

| Component | Invariant rests on | Theorems |
|---|---|---|
| fee ledger | row lock of the student, request lock | `TypeCorrect`, `NoLostUpdates` (`WritesFromCurrentRows`), `AckedStaysRecorded`, `HistoryIsKept`, `BooksStayBalanced`, `AcceptedIsNeverRefused`, `NeverCircularWait`, `Refinement` (`OneAtATime`) |
| billing | row lock of the structure, row locks of the students | `TypeCorrect`, `TermsKept`, `ChargedOnce`, `BilledWhileActive`, `NeverCircularWait` |
| examinations | nothing is locked: what no call undoes | `TypeCorrect`, `ResultsAlwaysStand` |
| library | request, borrower, person and title locks | `TypeCorrect`, `RowsStayAgreed`, `AckedStaysRecorded`, `NeverCircularWait`, `LendingIsRight`, `Refinement` (`CustodyKept`) |
| hostel | advisory lock of the school, row locks of student and structure | `TypeCorrect`, `RegistersAgree`, `ChargesAgree`, `DecisionsFresh` (`NoStaleDecision`, from `AdmittedEnrolled` and `MarksKept`), `Refinement` (`ResidenceKept`) |
| transport | advisory lock of the school, row locks of student and trip | `TypeCorrect`, `DispatchStands`, `DecisionsFresh`, `Refinement` (`RidesKept`) |
| tracking | row lock of the trip | `LiveTypeCorrect`, `DispatchStandsLive`, `SharingStops`, `JourneysGoOn`, `RefinementLive` (`RidesKept`) |
| smaller services | mostly no lock: rows that are never removed; locks on request ids (reports, bus commands), on rows written and on the fare plan | `OfficeTypeCorrect`, `RollsAreWhole`, `ImportsAreWhole`, `RowsWhole`, `RecordsAreTrue`, `CalendarIsOne`, `ReportsAreStanding`, `ReportsAreKept` (`ReportsKept`), `RidersAreServed` |

**Fee ledger.**  A call holds the row of its student, and `RowsBelong` (payments and the
allocations of an award lie on bills of the student they name) makes that lock cover all
bills it may touch.  Another session's commit is then either for the same student, which
contradicts `LocksApart`, or on bills of another student, on which nothing this session
has selected depends (`SelectedStable`).  The request lock gives the same for retries.
`BooksBalance` is about sums.  A sum of the community modules takes elements out of a set
in a fixed order, and the provers cannot instantiate the library's induction; `SumLemmas`
proves what is needed (a sum depends on its summands only, and an element may be taken
out) with a minimal counterexample, a smallest set on which it fails.  The parts of an
award add up to the award because each share is the difference of two rounded running
totals, so that the sum telescopes.  For `Refinement` every commit is a step of
`FeeAccounts` on the tables as they are, every replay a `Repeat`, all else stutters.
`AcceptedIsNeverRefused` is arithmetic on the rows of the invariant: an amount the service
admits is at most the balance of the locked rows, and the shares of an award, rounded half
up, stay below the balances they are parts of.  `NeverCircularWait` ranks a session by how
far it is in the order of the locks: a session waits only for one that is further, so the
one of the highest rank in any set of sessions waits for none of them.

**Billing.**  Heads change only under the row of their structure, which a generation
holds from its first look at the heads to its commit; a head that is about to change has
no bill (`HeadUnbilled`) because a bill could only have come from a generation under the
same row.  The students of a generation are locked when they have been found enrolled,
and leaving takes the same row.  Generations take the rows in the order of the ids, so a
session that waits for a student's row waits for one that is past this id; who waits for
a structure holds nothing yet.

**Examinations.**  There is no lock to rest on.  What a call may rely on although any
other may commit in between is what no call undoes: no statement deletes a mark, and the
results of a draft are replaced but never become empty.  That a mark has been seen for
every subject of every student therefore stays true up to the insert, and the ranks of
the rows inserted are those of one list of sums, whatever happens to the marks.

**Library.**  `LocksFit` says of each kind of lock exactly when it is held.  The title's
row covers its copies and loans, so that what a call has chosen and checked under it
stands until it commits; each commit changes only rows of the title, the borrower and the
request it has locked.  `NoCircularWait` follows from the phases: a call that waits for a
person while it has a title is a renewal of the borrower whose advisory lock it holds, and
the call that has this person would need the same one; the other waits follow one order.  `CustodyKept` follows case by
case: issue, return, loss, a copy found or withdrawn, new copies, or a stutter.

**Hostel and transport.**  One command at a time has the lock of the school, so what it
decides stands until it commits, except for what other services change: a student who
leaves and a fee that changes are kept out by the rows the command has locked.  The
counters of rooms and hostels are cardinalities that change with one bed or stay at a
time.  A page may be old; a mark it replaces has the version the page has shown, and a
version never comes back with another mark.  `ResidenceKept` follows command by command: a
student has at most one stay, what a stay needs to be closed (`MayClose`) is that its
student is back and without visitors, the reckoning of counters at the end of a command
moves nobody, and `ResidentsHoused` of the next state says that whatever is closed or
given to others still fits those who live there.  In transport the plan (who sits on which
run) and the trips (who is on board) are tied by `RidersSeated`: who is on the roster of
an open trip keeps the seat.  `RidesKept` follows from four commits, as no other step
touches agreements, trips or marks: what the commit was decided on still stands
(`DecisionStands`), and the row of a new seat's student is locked while it is written.

**Tracking** extends the transport invariant.  Phones do not take the school's lock; a
call has the row of its trip when it checks the phone and the last position, and
completion, cancellation, dispatch and revocation need the same row, so the checks still
stand when the call writes (`CallStands`).

**Smaller services.**  For each service there is a lemma that the steps of all others
leave its invariant alone (`InventoryStays`, `StaffStays` and so on), one that it holds at the
start (`...Starts`) and one for each action that the service keeps it; the desk is dealt with once (`Went`,
`Left`, `Quiet`: what a step does to the sessions), so that no proof looks into another
service.  Most of these calls lock nothing, and their invariants say what is left to rely on:

* Attendance: no two calls hold the key of one upserted row, so a register that is half
  written belongs to one call, and the answer is read while its rows are still held.
* Staff, inventory, tenants: rows are never removed, and a flush writes columns that mean
  something together in the same call or not at all: what a call has loaded was a
  consistent row (`seen[s] \in ...Row` with its relation), whatever is in the table now.
  For assets this needs a price in whole paisa: then rounding a multiple of it changes
  nothing (`WholeStays`, `WholeMultiplies`), and the total follows in every write.
* Students: at every row the counts make up the rows handed over before it
  (`HandedNext`), and what an import has counted is in the table, because nothing removes
  a row or gives its number to another child (`RowsCounted`); a session whose flush failed answers nothing.
* Messages: a message under way has not been recorded, no other call has it, and the
  call knows what the gateways were asked and said (`Said`, `MessagesSession`).
* Calendar: proved for any table of consecutive years.  Sums over the months are folds
  over twelve lengths; the first days of the years are a recursive function, whose order
  is proved by a smallest counterexample, as in `SumLemmas`.  `YearFound` says what
  midnight cannot change about a year that was looked up before it.
* Reports: the lock on the request id makes `OfKey` of an id empty up to the insert; the
  row lock of an archive keeps what it has read; a sealed row is never written again.
  For `ReportsKept` a request that is being answered is alone with its id, so what its
  session has read is what was read for the id: reading is `Read`, the insert is `Keep`, a
  conflict or a rollback is `Drop`, and every other call of any service leaves reports alone.
* Bus commands: one session commands at a time; agreements, charges and links are tied to
  the command that made them in the log of events, so that the log decides a retry.

**Model-checked only.**  `CallsEnd` (fee ledger, billing) is liveness under fairness, which
TLAPS does not handle; its safety part, that no circle of calls can wait, is proved.  The
three properties of the findings are false.  Every other property of a run has a theorem.

## 6. Plan

The runs are complete: every component with state whose rules its own code or documents
state has a model, and every safety property of a run that holds is proved.  What remains
is to keep both in step with the code, and three extensions in the order of their use:

1. Authentication, once the driver's handling of time zones is settled (section 7).
2. Progress of the other services, as `CallsEnd` states it for fees: for the library
   `NoCircularWait` already excludes deadlock, under the advisory lock of hostel and
   transport it is a question of fairness only.
3. An abstract specification of the bus commands, as `FeeAccounts`, `LibraryCustody`,
   `HostelResidence`, `BusRides` and `ReportArchive` are for their services; their
   invariant already says what it needs.

## 7. Not modelled

* **Authentication.**  Sessions live in PostgreSQL, the blocklist and the attempt
  counters in Redis.  The code compares `expires_at`, a column declared with time zone,
  with `datetime.utcnow()`, which has none (`models/session.py:145`,
  `auth_service.py:209`); which branches run depends on what the driver returns, and a
  model that guessed would not be faithful.
* **Academic structure and timetable.**  Create, update, list and deactivate on single
  rows.  Its checks are made by plain reads (a section may be created in a grade that
  is being deactivated, a subject may move to another faculty under its streams); no
  other service's decision waits for them.
* **Statements, dashboards, rosters and exports** only read.  Where an answer is put
  together from several statements and a document promises something of it, it is
  modelled (report cards, registers, snapshots, the feed).
* **Report queries** stand as one read of rows; the SQL and the layout of files are left
  out.
* `send_from_template` (SMS) and `upgrade_plan` (tenants) have no caller.
* **Notification worker**: events are formatted and logged; nothing is delivered.
* Permissions and input validation by the schemas appear only as the sets of commands
  the models accept.  The frontend, migrations and seed scripts keep no state the
  backend's correctness depends on.
