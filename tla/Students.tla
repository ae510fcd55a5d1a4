------------------------------- MODULE Students -------------------------------
(***************************************************************************)
(* StudentService: single students, the import of a file, and the photos   *)
(* on the disk.  A student is stored under its EMIS number, which is       *)
(* unique over all schools; children without a number, whom nothing keeps  *)
(* apart, are not in the instance.                                         *)
(***************************************************************************)
EXTENDS Desk, Integers, Sequences, FiniteSets

CONSTANTS EmisIds, BirthDates, Files, NoPhoto

StudentStatus == {"active", "inactive", "graduated", "transferred", "dropped"}
\* born stands for the columns a student is created with and StudentUpdate does
\* not have; the names, addresses and grade it can change are left out
StudentRow == [born: BirthDates, status: StudentStatus, deleted: BOOLEAN,
               photo: Files \cup {NoPhoto}]

ASSUME StudentsAssumption == NoRow \notin StudentRow

CreateRequest == [op: {"create"}, emis: EmisIds, born: BirthDates]
\* what a row of the file is: it passes StudentCreate or not, it has no name or
\* grade 0, or a column is missing or holds no number where one is read
RowKinds == {"valid", "invalid", "blank", "unreadable"}
ImportRequest == [op: {"import"},
                  rows: Seq([emis: EmisIds, born: BirthDates, kind: RowKinds])]
ChangeRequest == [op: {"change"}, emis: EmisIds, status: StudentStatus]
EraseRequest  == [op: {"erase"}, emis: EmisIds]
PhotoRequest  == [op: {"photo", "show"}, emis: EmisIds, file: Files]
ListRequest   == [op: {"roster"}]

VARIABLES student,
          disk       \* the photos save_student_photo has written

studentTables == <<student, disk>>

StudentsInit == student = [e \in EmisIds |-> NoRow] /\ disk = {}

StudentsTypeOK == student \in [EmisIds -> StudentRow \cup {NoRow}] /\ disk \subseteq Files

Enrolled(e) == student[e] # NoRow /\ ~student[e].deleted    \* get_student

NewStudent(born) == [born |-> born, status |-> "active", deleted |-> FALSE,
                     photo |-> NoPhoto]

-----------------------------------------------------------------------------
(* create_student: the plain check, then one commit for the student, the   *)
(* guardians and the enrolment.  The unique index lets one of two equal    *)
(* numbers pass; a deleted student keeps its number.                       *)

CheckEmis(s) == /\ At(s, "create", "start")
                /\ IF student[cmd[s].emis] = NoRow THEN Goto(s, "write", NoView)
                                                   ELSE Finish(s)
                /\ UNCHANGED studentTables

CommitStudent(s) ==
    /\ At(s, "create", "write")
    /\ IF student[cmd[s].emis] = NoRow
       THEN student' = [student EXCEPT ![cmd[s].emis] = NewStudent(cmd[s].born)]
       ELSE UNCHANGED student
    /\ Finish(s)
    /\ UNCHANGED disk

-----------------------------------------------------------------------------
(* bulk_import_students: the whole file is read first, and a number that is *)
(* none ends the call; a blank row is dropped, and nothing says so.  Then   *)
(* bulk_import: create_student for one row after the other, each committed *)
(* by itself and every exception counted.  A commit that meets the index   *)
(* leaves the session waiting for a rollback nobody makes: every later     *)
(* statement fails, the last commit too, and the call ends in an error.    *)

StartImport(s) ==
    /\ At(s, "import", "start")
    /\ IF \E i \in DOMAIN cmd[s].rows : cmd[s].rows[i].kind = "unreadable"
       THEN Finish(s)
       ELSE Goto(s, "list", [row |-> 1, checked |-> FALSE, dead |-> FALSE,
                             imported |-> {}, failed |-> {}])
    /\ UNCHANGED studentTables

SkipRow(s) ==
    /\ At(s, "import", "list")
    /\ seen[s].row \in DOMAIN cmd[s].rows /\ cmd[s].rows[seen[s].row].kind = "blank"
    /\ Goto(s, "list", [seen[s] EXCEPT !.row = @ + 1])
    /\ UNCHANGED studentTables

\* the row under work: an invalid one and a known number are counted
CheckRow(s) ==
    /\ At(s, "import", "list")
    /\ LET v == seen[s]
           row == cmd[s].rows[v.row]
       IN  /\ v.row \in DOMAIN cmd[s].rows /\ row.kind # "blank" /\ ~v.checked
           /\ Goto(s, "list",
                IF row.kind # "valid" \/ v.dead \/ student[row.emis] # NoRow
                THEN [v EXCEPT !.row = @ + 1, !.failed = @ \cup {v.row}]
                ELSE [v EXCEPT !.checked = TRUE])
    /\ UNCHANGED studentTables

CommitRow(s) ==
    /\ At(s, "import", "list") /\ seen[s].checked
    /\ LET v == [seen[s] EXCEPT !.row = @ + 1, !.checked = FALSE]
           row == cmd[s].rows[seen[s].row]
       IN  IF student[row.emis] = NoRow
           THEN /\ student' = [student EXCEPT ![row.emis] = NewStudent(row.born)]
                /\ Goto(s, "list", [v EXCEPT !.imported = @ \cup {seen[s].row}])
           ELSE /\ UNCHANGED student
                /\ Goto(s, "list", [v EXCEPT !.failed = @ \cup {seen[s].row}, !.dead = TRUE])
    /\ UNCHANGED disk

\* mutant: the last commit is not reached by a session that is waiting for a
\* rollback, and the summary is answered
EndImportAlways(s) ==
    /\ At(s, "import", "list") /\ seen[s].row = Len(cmd[s].rows) + 1
    /\ Goto(s, "answer", seen[s])
    /\ UNCHANGED studentTables

EndImport(s) ==
    /\ At(s, "import", "list") /\ seen[s].row = Len(cmd[s].rows) + 1
    /\ IF seen[s].dead THEN Finish(s) ELSE Goto(s, "answer", seen[s])
    /\ UNCHANGED studentTables

-----------------------------------------------------------------------------
(* Changes of a student: read without a lock, the changed columns written. *)

ReadStudent(s) ==
    /\ \E op \in {"change", "erase", "photo", "show"} : At(s, op, "start")
    /\ IF Enrolled(cmd[s].emis) THEN Goto(s, "write", student[cmd[s].emis]) ELSE Finish(s)
    /\ UNCHANGED studentTables

CommitChange(s) ==
    /\ At(s, "change", "write")
    /\ student' = IF cmd[s].status = seen[s].status THEN student
                  ELSE [student EXCEPT ![cmd[s].emis].status = cmd[s].status]
    /\ Finish(s)
    /\ UNCHANGED disk

\* delete_student: deleted, and inactive unless it was read so
CommitErase(s) ==
    /\ At(s, "erase", "write")
    /\ LET row == student[cmd[s].emis]
       IN  student' = [student EXCEPT ![cmd[s].emis] =
             [row EXCEPT !.deleted = TRUE,
                         !.status = IF seen[s].status = "inactive" THEN row.status
                                    ELSE "inactive"]]
    /\ Finish(s)
    /\ UNCHANGED disk

\* mutant: the row names the photo before the file is written
SavePhotoLater(s) == /\ At(s, "photo", "write")
                     /\ student' = [student EXCEPT ![cmd[s].emis].photo = cmd[s].file]
                     /\ Goto(s, "commit", seen[s])
                     /\ UNCHANGED disk

\* upload_student_photo: the file first, the row that names it afterwards
SavePhoto(s) == /\ At(s, "photo", "write")
                /\ disk' = disk \cup {cmd[s].file}
                /\ Goto(s, "commit", seen[s])
                /\ UNCHANGED student

CommitPhoto(s) == /\ At(s, "photo", "commit")
                  /\ student' = [student EXCEPT ![cmd[s].emis].photo = cmd[s].file]
                  /\ Finish(s)
                  /\ UNCHANGED disk

\* get_student_photo serves the current photo only
ShowPhoto(s) == /\ At(s, "show", "write")
                /\ IF seen[s].photo = cmd[s].file /\ cmd[s].file \in disk
                   THEN Goto(s, "answer", seen[s]) ELSE Finish(s)
                /\ UNCHANGED studentTables

-----------------------------------------------------------------------------
(* get_roster, list_students, search_students: one statement. *)

ReadRoster(s) == /\ At(s, "roster", "start")
                 /\ Goto(s, "answer", [roster |->
                      {e \in EmisIds : Enrolled(e) /\ student[e].status = "active"}])
                 /\ UNCHANGED studentTables

AnswerStudents(s) == /\ \E op \in {"import", "show", "roster"} : At(s, op, "answer")
                     /\ Finish(s)
                     /\ UNCHANGED studentTables

StudentsNext(s) ==
    \/ CheckEmis(s) \/ CommitStudent(s)
    \/ StartImport(s) \/ SkipRow(s) \/ CheckRow(s) \/ CommitRow(s) \/ EndImport(s)
    \/ ReadStudent(s) \/ CommitChange(s) \/ CommitErase(s)
    \/ SavePhoto(s) \/ CommitPhoto(s) \/ ShowPhoto(s)
    \/ ReadRoster(s) \/ AnswerStudents(s)

-----------------------------------------------------------------------------
(* Properties. *)

\* of the first n rows of a file, those that bulk_import is handed
Handed(rows, n) == {i \in 1 .. n : rows[i].kind # "blank"}

\* "Import complete (with summary)": a summary accounts for every row that
\* bulk_import was handed, which leaves out the blank rows of the file, in no
\* count and not in total_rows.  After it none of those rows that is valid is
\* missing in the table, because an import that has lost a number to another
\* session cannot answer; and what it counts as imported stands as it was sent.
SummaryAccounts ==
    \A s \in Sessions : At(s, "import", "answer") =>
        LET v == seen[s]
            rows == cmd[s].rows
        IN  /\ v.imported \cup v.failed = Handed(rows, Len(rows))
            /\ v.imported \cap v.failed = {}
            /\ \A i \in DOMAIN rows : rows[i].kind = "valid" => student[rows[i].emis] # NoRow
            /\ \A i \in v.imported : student[rows[i].emis].born = rows[i].born

\* A row never names a photo that is not on the disk, whatever is lost
\* between the file and the commit.
PhotosExist == \A e \in EmisIds : student[e] # NoRow /\ student[e].photo # NoPhoto
                                      => student[e].photo \in disk

\* What the student service stores is whole after a call that failed half-way.
ImportsWhole == SummaryAccounts /\ PhotosExist

-----------------------------------------------------------------------------
(* The inductive invariant.                                                *)

ImportView == [row: Nat \ {0}, checked: BOOLEAN, dead: BOOLEAN,
               imported: SUBSET Nat, failed: SUBSET Nat]

\* the rows handed over before the one under work are counted, and what was counted as
\* imported, or as known by a session that is not dead, is in the table
RowsCounted(s) ==
    LET v == seen[s]
        rows == cmd[s].rows
    IN  /\ v \in ImportView /\ v.row <= Len(rows) + 1
        /\ v.imported \cup v.failed = Handed(rows, v.row - 1)
        /\ v.imported \cap v.failed = {}
        /\ v.checked => v.row <= Len(rows) /\ rows[v.row].kind = "valid" /\ ~v.dead
        /\ ~v.dead => \A i \in v.failed :
                          rows[i].kind = "valid" => student[rows[i].emis] # NoRow
        /\ \A i \in v.imported : /\ student[rows[i].emis] # NoRow
                                 /\ student[rows[i].emis].born = rows[i].born
        /\ pc[s] = "answer" => ~v.dead /\ v.row = Len(rows) + 1

StudentsSession(s) ==
    /\ At(s, "import", "list") \/ At(s, "import", "answer") => RowsCounted(s)
    /\ pc[s] \in {"write", "commit"} /\ cmd[s].op \in {"change", "erase", "photo", "show"} =>
         student[cmd[s].emis] # NoRow
    /\ At(s, "photo", "commit") => cmd[s].file \in disk

StudentsInv ==
    /\ StudentsTypeOK /\ PhotosExist
    /\ \A s \in Sessions : StudentsSession(s)
=============================================================================
