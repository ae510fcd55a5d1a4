------------------------------ MODULE Attendance ------------------------------
(***************************************************************************)
(* AttendanceService for one day: the register of a class is saved with    *)
(* one upsert, a single record is corrected by id, and reports read what   *)
(* is committed.  A record has the key its unique indexes give it, a pupil *)
(* and a period (0 for the daily register, whose period is NULL).          *)
(***************************************************************************)
EXTENDS Desk, Integers, Sequences, FiniteSets

CONSTANTS Pupils, Classes, Teachers, Periods

AttendanceStatus == {"present", "absent", "late", "leave", "holiday"}

RecordKeys == Pupils \X Periods

AttendanceRow == [class: Classes, status: AttendanceStatus, by: Teachers]

ASSUME RollAssumption == NoRow \notin AttendanceRow

\* validate_unique_students: a sheet is a sequence of entries, each of
\* another pupil
MarkRequest == [op: {"mark"}, class: Classes, period: Periods, by: Teachers,
                sheet: {e \in Seq([pupil: Pupils, status: AttendanceStatus]) :
                          \A i, j \in DOMAIN e : e[i].pupil = e[j].pupil => i = j}]
FixRequest  == [op: {"fix"}, record: RecordKeys, status: AttendanceStatus, by: Teachers]
RollRequest == [op: {"register"}, class: Classes, period: Periods]
               \cup [op: {"month"}, class: Classes] \cup [op: {"history"}, pupil: Pupils]

VARIABLE roll    \* attendances

AttendanceInit == roll = [k \in RecordKeys |-> NoRow]

AttendanceTypeOK == roll \in [RecordKeys -> AttendanceRow \cup {NoRow}]

\* the rows a session has written and not yet committed: it holds their locks
Written(s) == IF pc[s] \in {"list", "commit"} /\ cmd[s].op \in {"mark", "fix"}
              THEN DOMAIN seen[s].rows ELSE {}

Free(s, k) == \A t \in Sessions \ {s} : k \notin Written(t)

\* the table as the session itself sees it
Own(s) == [k \in RecordKeys |-> IF k \in DOMAIN seen[s].rows THEN seen[s].rows[k]
                                                             ELSE roll[k]]

\* mutant: a record that is marked again keeps its class
MarkedRowOldClass(k, c, i) ==
    [class |-> IF roll[k] = NoRow THEN c.class ELSE roll[k].class,
     status |-> c.sheet[i].status, by |-> c.by]

\* the row entry i of a sheet leaves, inserted or updated (set_)
MarkedRow(k, c, i) == [class |-> c.class, status |-> c.sheet[i].status, by |-> c.by]

\* get_attendance_by_date
Register(table, c) == {k \in RecordKeys : /\ table[k] # NoRow
                                          /\ k[2] = c.period /\ table[k].class = c.class}

-----------------------------------------------------------------------------
(* mark_attendance: PostgreSQL takes the rows of the one statement in the  *)
(* order of the request, waiting for each that another session has written. *)

StartMark(s) == /\ At(s, "mark", "start")
                /\ Goto(s, "list", [rows |-> <<>>, answer |-> {}])
                /\ UNCHANGED roll

\* mutant: every entry is committed by itself
UpsertEntryAlone(s) ==
    /\ At(s, "mark", "list")
    /\ LET c == cmd[s]
           i == Cardinality(DOMAIN seen[s].rows) + 1
           k == <<c.sheet[i].pupil, c.period>>
       IN  /\ i \in DOMAIN c.sheet /\ roll' = [roll EXCEPT ![k] = MarkedRow(k, c, i)]
           /\ Goto(s, "list", [seen[s] EXCEPT !.rows =
                [q \in DOMAIN @ \cup {k} |-> IF q = k THEN MarkedRow(k, c, i) ELSE @[q]]])

UpsertEntry(s) ==
    /\ At(s, "mark", "list")
    /\ LET c == cmd[s]
           i == Cardinality(DOMAIN seen[s].rows) + 1
           k == <<c.sheet[i].pupil, c.period>>
       IN  /\ i \in DOMAIN c.sheet
           /\ Free(s, k)
           /\ Goto(s, "list", [seen[s] EXCEPT !.rows =
                [q \in DOMAIN @ \cup {k} |-> IF q = k THEN MarkedRow(k, c, i) ELSE @[q]]])
    /\ UNCHANGED roll

ListRegister(s) ==
    /\ At(s, "mark", "list")
    /\ Cardinality(DOMAIN seen[s].rows) = Len(cmd[s].sheet)
    /\ Goto(s, "commit", [seen[s] EXCEPT !.answer = Register(Own(s), cmd[s])])
    /\ UNCHANGED roll

-----------------------------------------------------------------------------
(* update_attendance: the record is read without a lock, and the UPDATE    *)
(* sets the columns that differ from what was read.                        *)

ReadRecord(s) ==
    /\ At(s, "fix", "start")
    /\ IF roll[cmd[s].record] = NoRow
       THEN Finish(s)
       ELSE Goto(s, "write", roll[cmd[s].record])
    /\ UNCHANGED roll

WriteRecord(s) ==
    /\ At(s, "fix", "write")
    /\ LET c == cmd[s]
           k == c.record
           now == [roll[k] EXCEPT
                     !.status = IF seen[s].status = c.status THEN @ ELSE c.status,
                     !.by = IF seen[s].by = c.by THEN @ ELSE c.by]
       IN  IF seen[s].status = c.status /\ seen[s].by = c.by
           THEN Finish(s)
           ELSE Free(s, k) /\ Goto(s, "commit", [rows |-> [q \in {k} |-> now], answer |-> {k}])
    /\ UNCHANGED roll

CommitRecords(s) == /\ \E op \in {"mark", "fix"} : At(s, op, "commit")
                    /\ roll' = Own(s)
                    /\ Finish(s)

-----------------------------------------------------------------------------
(* Reports: one statement each. *)

\* get_attendance_by_date
ReadRegister(s) == /\ At(s, "register", "start")
                   /\ Goto(s, "answer", [records |-> Register(roll, cmd[s])])
                   /\ UNCHANGED roll

\* get_monthly_summary: the records of the class counted by status, those of
\* the periods of a day among those of the day
CountMonth(s) ==
    /\ At(s, "month", "start")
    /\ Goto(s, "answer", [st \in AttendanceStatus |->
          Cardinality({k \in RecordKeys : /\ roll[k] # NoRow /\ roll[k].status = st
                                          /\ roll[k].class = cmd[s].class})])
    /\ UNCHANGED roll

\* get_student_attendance: all the periods of a day are counted as days
ReadHistory(s) == /\ At(s, "history", "start")
                  /\ Goto(s, "answer", [records |-> {k \in RecordKeys : /\ k[1] = cmd[s].pupil
                                                                    /\ roll[k] # NoRow}])
                  /\ UNCHANGED roll

AnswerReport(s) == /\ \E op \in {"register", "month", "history"} : At(s, op, "answer")
                   /\ Finish(s)
                   /\ UNCHANGED roll

AttendanceNext(s) ==
    \/ StartMark(s) \/ UpsertEntry(s) \/ ListRegister(s)
    \/ ReadRecord(s) \/ WriteRecord(s) \/ CommitRecords(s)
    \/ ReadRegister(s) \/ CountMonth(s) \/ ReadHistory(s) \/ AnswerReport(s)

-----------------------------------------------------------------------------
(* Properties. *)

SheetPupils(c) == {c.sheet[i].pupil : i \in DOMAIN c.sheet}

\* Two sheets that name the same two pupils never leave one pupil as the one
\* sheet says and the other as the other: registers saved at once do not mix,
\* whatever the order of their entries ("re-marking will update existing
\* records").  A record tells its sheet by the user, so the users who save
\* these sheets save no other and correct no single records here.
OneSheetPerRoll ==
    \A c, d \in {e \in menu : e.op = "mark"} :
        /\ c.period = d.period /\ c.by # d.by
        /\ \A f \in menu : f.op \in {"mark", "fix"} /\ f.by \in {c.by, d.by} => f \in {c, d}
        =>
            \A x, y \in SheetPupils(c) \cap SheetPupils(d) :
                LET rx == roll[<<x, c.period>>]
                    ry == roll[<<y, c.period>>]
                IN  rx # NoRow /\ ry # NoRow => ~(rx.by = c.by /\ ry.by = d.by)

\* "AttendanceListResponse with all records for that class/date": the answer
\* to a sheet has every entry of it, with the status that was sent, although
\* the list is read by class and the pupil had a record in another class.
AnswerHasSheet ==
    \A s \in Sessions : At(s, "mark", "commit") =>
        \A i \in DOMAIN cmd[s].sheet :
            LET k == <<cmd[s].sheet[i].pupil, cmd[s].period>>
            IN  k \in seen[s].answer /\ Own(s)[k].status = cmd[s].sheet[i].status

\* What a register and the call that saves it promise under concurrent saves.
RollsWhole == OneSheetPerRoll /\ AnswerHasSheet

-----------------------------------------------------------------------------
(* The inductive invariant.                                                *)

KeyOf(c, i) == <<c.sheet[i].pupil, c.period>>

\* the entries of a sheet are taken in their order, each with its lock
SheetTaken(s) ==
    LET c == cmd[s]
        rows == seen[s].rows
        n == Cardinality(DOMAIN rows)
    IN  /\ DOMAIN seen[s] = {"rows", "answer"}
        /\ IsFiniteSet(DOMAIN rows) /\ n <= Len(c.sheet)
        /\ DOMAIN rows = {KeyOf(c, i) : i \in 1 .. n}
        /\ \A i \in 1 .. n : rows[KeyOf(c, i)] = MarkedRow(KeyOf(c, i), c, i)
        /\ pc[s] = "commit" => n = Len(c.sheet) /\ DOMAIN rows \subseteq seen[s].answer

\* a corrected record is the committed one but for its status and its user,
\* which is the caller if the call has set it
RecordCorrected(s) ==
    LET k == cmd[s].record
        rows == seen[s].rows
    IN  /\ DOMAIN rows = {k} /\ roll[k] # NoRow
        /\ rows[k] \in AttendanceRow /\ rows[k].by \in {cmd[s].by, roll[k].by}

AttendanceSession(s) ==
    /\ At(s, "mark", "list") \/ At(s, "mark", "commit") => SheetTaken(s)
    /\ At(s, "fix", "write") => roll[cmd[s].record] # NoRow
    /\ At(s, "fix", "commit") => RecordCorrected(s)

AttendanceInv ==
    /\ AttendanceTypeOK /\ OneSheetPerRoll
    /\ \A s \in Sessions : AttendanceSession(s)
    /\ \A s, t \in Sessions : s # t => Written(s) \cap Written(t) = {}
=============================================================================
