----------------------------- MODULE ExamResults -----------------------------
(***************************************************************************)
(* One examination in ExamService: its status, the marks teachers enter,   *)
(* the results calculated from them and their publication, as concurrent   *)
(* transactions.  No call of this service locks a row: each reads what is  *)
(* committed, decides, and writes later.  One action per statement whose   *)
(* answer a later one uses; writes appear when the call commits.           *)
(*                                                                         *)
(* Grade points are in tenths, a GPA and a percentage in hundredths.       *)
(* Dates, names, remarks and the author of a mark are left out.            *)
(***************************************************************************)
EXTENDS Integers, FiniteSets, FiniteSetsExt, SequencesExt

CONSTANTS Sessions, Students,
          Subjects,               \* the exam subjects, fixed at creation
          FullMarks, PassMarks,   \* of every subject
          Commands, NoCommand, NoMark, NoResult

NoPoint == -1    \* grade_point NULL: grades 11 and 12
NoRank  == 0     \* rank NULL

Statuses == {"draft", "scheduled", "ongoing", "completed", "published"}

MarkRow == [marks: 0 .. FullMarks, absent: BOOLEAN,
            point: {NoPoint, 0, 20, 24, 28, 32, 36, 40}]

ResultRow == [value: 0 .. 10000, status: {"pass", "fail", "absent"},
              rank: 0 .. Cardinality(Students)]

EnterCommand(c) ==
    /\ c.op = "enter" /\ c.subject \in Subjects
    /\ DOMAIN c.entries \in (SUBSET Students) \ {{}}
    /\ \A i \in DOMAIN c.entries :
         /\ c.entries[i] \in [marks: Nat, absent: BOOLEAN]
         \* MarkEntry.validate_mark_or_absence
         /\ c.entries[i].absent => c.entries[i].marks = 0

ASSUME MarksAssumption == PassMarks \in Nat /\ FullMarks \in Nat \ {0}
ASSUME ExamRowsAssumption == IsFiniteSet(Students) /\ IsFiniteSet(Subjects)
ASSUME ExamCommandsAssumption ==
    \A c \in Commands :
        \/ EnterCommand(c)
        \/ c \in [op: {"calculate", "publish", "edit", "delete"}]
        \/ c \in [op: {"card"}, student: Students] \cup [op: {"sheet"}, subject: Subjects]
        \/ c \in [op: {"status"}, to: Statuses]
ASSUME NoExamRowAssumption ==
    NoMark \notin MarkRow /\ NoResult \notin ResultRow /\ NoCommand \notin Commands

VARIABLES senior,        \* whether the exam is of grade 11 or 12
          exam,          \* its status, is_locked and deleted_at
          mark,          \* Subjects -> Students -> MarkRow or NoMark
          result,        \* Students -> ResultRow or NoResult
          pc, cmd,
          seen           \* the marks a session has loaded

sessions == <<pc, cmd, seen>>
vars == <<senior, exam, mark, result, sessions>>

Phases == {"idle", "exam", "count", "write", "marks", "save", "replace",
           "queued", "insert", "conflict", "answer"}

MarkTable == [Subjects -> [Students -> MarkRow \cup {NoMark}]]
NoMarks == [x \in Subjects |-> [i \in Students |-> NoMark]]

TypeOK ==
    /\ senior \in BOOLEAN
    /\ exam \in [status: Statuses, locked: BOOLEAN, deleted: BOOLEAN]
    /\ mark \in MarkTable
    /\ result \in [Students -> ResultRow \cup {NoResult}]
    /\ pc \in [Sessions -> Phases]
    /\ cmd \in [Sessions -> Commands \cup {NoCommand}]
    /\ seen \in [Sessions -> MarkTable]

\* create_exam has inserted the exam and its subjects.
Init ==
    /\ senior \in BOOLEAN
    /\ exam = [status |-> "draft", locked |-> FALSE, deleted |-> FALSE]
    /\ mark = NoMarks
    /\ result = [i \in Students |-> NoResult]
    /\ pc = [s \in Sessions |-> "idle"]
    /\ cmd = [s \in Sessions |-> NoCommand]
    /\ seen = [s \in Sessions |-> NoMarks]

-----------------------------------------------------------------------------
(* Grading. *)

HalfUp(n, d) == (2 * n + d) \div (2 * d)

\* GPA_TABLE: percentage from which a grade point is given, descending
Bands == <<<<90, 40>>, <<80, 36>>, <<70, 32>>, <<60, 28>>, <<50, 24>>, <<40, 20>>, <<0, 0>>>>

calculate_grade_point(marks) ==
    LET reached == {k \in DOMAIN Bands : Bands[k][1] * FullMarks <= 100 * marks}
    IN  Bands[Min(reached)][2]

GradePoint(entry) ==
    IF senior THEN NoPoint
    ELSE IF entry.absent THEN 0 ELSE calculate_grade_point(entry.marks)

Marked(rows) == {i \in Students : \E x \in Subjects : rows[x][i] # NoMark}
MarkedIn(rows, i) == {x \in Subjects : rows[x][i] # NoMark}

Sum(rows, i, column) == MapThenSumSet(LAMBDA x : rows[x][i][column], MarkedIn(rows, i))

\* what a student is ranked by: the percentage in grades 11 and 12, else the
\* average of the grade points
Value(rows, i) ==
    LET n == Cardinality(MarkedIn(rows, i)) IN
    IF senior THEN HalfUp(10000 * Sum(rows, i, "marks"), n * FullMarks)
    ELSE HalfUp(10 * Sum(rows, i, "point"), n)

\* absence comes before failure, except that a senior without a division fails
Outcome(rows, i) ==
    LET marks == {rows[x][i] : x \in MarkedIn(rows, i)} IN
    IF senior /\ Value(rows, i) < 3200 THEN "fail"
    ELSE IF \E m \in marks : m.absent THEN "absent"
    ELSE IF \E m \in marks : m.marks < PassMarks THEN "fail"
    ELSE "pass"

\* the orders the sort may leave the marked students in: equal values stay
\* in the order the database returned their marks
Orders(rows) ==
    {order \in SetToSeqs(Marked(rows)) :
        \A j, k \in DOMAIN order :
            j < k => Value(rows, order[j]) >= Value(rows, order[k])}

\* A passing student ranks at the place of the first passing student with
\* the same value; those who did not pass take up places but have no rank.
Rank(rows, order, i) ==
    IF Outcome(rows, i) # "pass" THEN NoRank
    ELSE Min({k \in DOMAIN order : /\ Outcome(rows, order[k]) = "pass"
                                   /\ Value(rows, order[k]) = Value(rows, i)})

Calculated(rows, order) ==
    [i \in Students |->
        IF i \in Marked(rows)
        THEN [value |-> Value(rows, i), status |-> Outcome(rows, i),
              rank |-> Rank(rows, order, i)]
        ELSE NoResult]

-----------------------------------------------------------------------------

GoTo(s, phase) == pc' = [pc EXCEPT ![s] = phase]

Finish(s, phases) ==
    /\ pc' = [phases EXCEPT ![s] = "idle"]
    /\ cmd' = [cmd EXCEPT ![s] = NoCommand]
    /\ seen' = [seen EXCEPT ![s] = NoMarks]

\* 400, 404 or 500, and rollback; or the end of a call that has only read
Refuse(s) == Finish(s, pc) /\ UNCHANGED <<senior, exam, mark, result>>

Proceed(s, phase) == GoTo(s, phase) /\ UNCHANGED <<senior, exam, mark, result, cmd, seen>>

Submit(s) ==
    /\ pc[s] = "idle"
    /\ \E c \in Commands : cmd' = [cmd EXCEPT ![s] = c]
    /\ GoTo(s, "exam")
    /\ UNCHANGED <<senior, exam, mark, result, seen>>

\* valid_transitions of update_exam_status
Allowed(from) ==
    CASE from = "draft"     -> {"scheduled"}
      [] from = "scheduled" -> {"ongoing", "draft"}
      [] from = "ongoing"   -> {"completed"}
      [] OTHER              -> {}

(* The checks a call makes on the exam it has read. *)

\* enter_marks and get_marks come by the subject and do not see deleted_at
MayEnter == ~exam.locked /\ exam.status # "published"

\* get_exam
Visible == ~exam.deleted
MayCalculate == Visible /\ ~exam.locked
MayMove(to)  == Visible /\ to \in Allowed(exam.status)
MayPublish   == Visible /\ exam.status = "completed"
MayRevise    == Visible /\ exam.status = "draft"

Accepts(c) ==
    \/ c.op = "enter" /\ MayEnter
    \/ c.op = "calculate" /\ MayCalculate
    \/ c.op = "status" /\ MayMove(c.to)
    \/ c.op = "publish" /\ MayPublish
    \/ c.op \in {"edit", "delete"} /\ MayRevise
    \/ c.op = "card" /\ Visible
    \/ c.op = "sheet"

AfterExam(op) ==
    CASE op \in {"enter", "calculate", "sheet"} -> "marks"
      [] op \in {"publish", "delete", "card"}   -> "count"
      [] op \in {"status", "edit"}              -> "write"

ReadExam(s) ==
    /\ pc[s] = "exam"
    /\ IF Accepts(cmd[s]) THEN Proceed(s, AfterExam(cmd[s].op)) ELSE Refuse(s)

\* mutant: publish_results does not look for results
CountResultsUnchecked(s) ==
    /\ pc[s] = "count" /\ cmd[s].op = "publish"
    /\ Proceed(s, "write")

\* publish_results: "Cannot publish - no results calculated"
CountResults(s) ==
    /\ pc[s] = "count" /\ cmd[s].op = "publish"
    /\ IF \E i \in Students : result[i] # NoResult THEN Proceed(s, "write") ELSE Refuse(s)

\* delete_exam: "An exam with entered marks cannot be deleted"
CountMarks(s) ==
    /\ pc[s] = "count" /\ cmd[s].op = "delete"
    /\ IF Marked(mark) = {} THEN Proceed(s, "write") ELSE Refuse(s)

\* get_report_card: the student's result, then the marks
ReadResult(s) ==
    /\ pc[s] = "count" /\ cmd[s].op = "card"
    /\ IF result[cmd[s].student] # NoResult THEN Proceed(s, "marks") ELSE Refuse(s)

\* A call writes the columns it assigns and no others.
Write(s, op, columns) ==
    /\ pc[s] = "write" /\ cmd[s].op = op
    /\ exam' = columns
    /\ Finish(s, pc)
    /\ UNCHANGED <<senior, mark, result>>

MoveExam(s)    == Write(s, "status", [exam EXCEPT !.status = cmd[s].to])
PublishExam(s) == Write(s, "publish", [exam EXCEPT !.status = "published", !.locked = TRUE])
DeleteExam(s)  == Write(s, "delete", [exam EXCEPT !.deleted = TRUE])
\* update_exam, whose columns are left out
EditExam(s)    == Write(s, "edit", exam)

-----------------------------------------------------------------------------
(* enter_marks and calculate_results. *)

\* the rows a call loads: those of its subject and its students, of a subject,
\* of a student, or all of the exam
Loads(c, x, i) ==
    /\ c.op \in {"enter", "sheet"} => x = c.subject
    /\ c.op = "enter" => i \in DOMAIN c.entries
    /\ c.op = "card" => i = c.student

ReadMarks(s) ==
    /\ pc[s] = "marks"
    /\ IF cmd[s].op = "calculate" /\ Marked(mark) = {} THEN Refuse(s)
       ELSE /\ seen' = [seen EXCEPT ![s] = [x \in Subjects |-> [i \in Students |->
                          IF Loads(cmd[s], x, i) THEN mark[x][i] ELSE NoMark]]]
            /\ GoTo(s, CASE cmd[s].op = "enter"     -> "save"
                         [] cmd[s].op = "calculate" -> "replace"
                         [] OTHER                   -> "answer")
            /\ UNCHANGED <<senior, exam, mark, result, cmd>>

\* The row after an entry: an existing row gets the columns whose new value
\* differs from the value this session had loaded.
Entered(s, i, current) ==
    LET entry == cmd[s].entries[i]
        old   == seen[s][cmd[s].subject][i]
        point == GradePoint(entry)
    IN  IF old = NoMark
        THEN [marks |-> entry.marks, absent |-> entry.absent, point |-> point]
        ELSE [marks  |-> IF entry.marks # old.marks THEN entry.marks ELSE current.marks,
              absent |-> IF entry.absent # old.absent THEN entry.absent ELSE current.absent,
              point  |-> IF point # old.point THEN point ELSE current.point]

\* mutant: marks above the full marks are not refused
MarksFitAlways(entries) == TRUE

MarksFit(entries) == \A i \in DOMAIN entries : entries[i].marks <= FullMarks

\* uq_mark_subject_student refuses a row another session inserted meanwhile.
SaveMarks(s) ==
    /\ pc[s] = "save"
    /\ LET c       == cmd[s]
           current == mark[c.subject]
           taken   == {i \in DOMAIN c.entries :
                         seen[s][c.subject][i] = NoMark /\ current[i] # NoMark}
       IN  IF MarksFit(c.entries) /\ taken = {}
           THEN /\ mark' = [mark EXCEPT ![c.subject] =
                      [i \in Students |-> IF i \in DOMAIN c.entries
                                          THEN Entered(s, i, current[i])
                                          ELSE current[i]]]
                /\ Finish(s, pc)
                /\ UNCHANGED <<senior, exam, result>>
           ELSE Refuse(s)

OthersIn(s, phases) == {t \in Sessions \ {s} : pc[t] \in phases}

\* mutant: students with a missing mark are calculated all the same
EveryStudentMarkedAlways(rows) == TRUE

\* "Marks or absence must be entered for every subject before calculating"
EveryStudentMarked(rows) == \A i \in Marked(rows) : MarkedIn(rows, i) = Subjects

\* DELETE FROM results.  Rows another calculation has deleted are waited for.
DeleteResults(s) ==
    /\ pc[s] = "replace"
    /\ IF ~EveryStudentMarked(seen[s]) THEN Refuse(s)
       ELSE IF (\E i \in Students : result[i] # NoResult) /\ OthersIn(s, {"insert"}) # {}
            THEN Proceed(s, "queued")
            ELSE Proceed(s, "insert")

\* The calculation that deleted the rows was rolled back.
StopWaiting(s) ==
    /\ pc[s] = "queued" /\ OthersIn(s, {"insert"}) = {}
    /\ Proceed(s, "insert")

\* mutant: results are inserted ON CONFLICT DO NOTHING, none deleted
InsertResultsKeeping(s) ==
    /\ pc[s] = "insert"
    /\ \E order \in Orders(seen[s]) :
         result' = [i \in Students |-> IF result[i] = NoResult
                                       THEN Calculated(seen[s], order)[i]
                                       ELSE result[i]]
    /\ Finish(s, pc)
    /\ UNCHANGED <<senior, exam, mark>>

\* Calculations that overlap this one do not see its rows when they delete
\* and run into uq_result_exam_student when they insert.
InsertResults(s) ==
    /\ pc[s] = "insert"
    /\ \E order \in Orders(seen[s]) : result' = Calculated(seen[s], order)
    /\ Finish(s, [t \in Sessions |-> IF pc[t] \in {"insert", "queued"}
                                     THEN "conflict" ELSE pc[t]])
    /\ UNCHANGED <<senior, exam, mark>>

UniqueViolation(s) == pc[s] = "conflict" /\ Refuse(s)

-----------------------------------------------------------------------------

\* get_marks and get_report_card answer what they have read
Show(s) == pc[s] = "answer" /\ Refuse(s)

\* An error, a lost connection, or a student who is not active in the grade
Abort(s) == pc[s] # "idle" /\ Refuse(s)

Next == \E s \in Sessions :
            \/ Submit(s) \/ ReadExam(s) \/ CountResults(s) \/ CountMarks(s)
            \/ MoveExam(s) \/ PublishExam(s) \/ DeleteExam(s) \/ EditExam(s)
            \/ ReadResult(s) \/ ReadMarks(s) \/ Show(s) \/ SaveMarks(s)
            \/ DeleteResults(s) \/ StopWaiting(s) \/ InsertResults(s)
            \/ UniqueViolation(s) \/ Abort(s)

Spec == Init /\ [][Next]_vars

-----------------------------------------------------------------------------
(* Properties. *)

Ranked == {i \in Students : result[i] # NoResult /\ result[i].status = "pass"}

\* The stored results are those of one calculation: every student who passed
\* has a rank, and of two of them the better has the smaller rank and equals
\* have the same, whichever calculations overlapped.
RanksFollowValues ==
    \A i, j \in Ranked :
        /\ result[i].rank # NoRank
        /\ result[i].rank < result[j].rank <=> result[i].value > result[j].value

\* "Cannot publish - no results calculated": a locked exam has results, also
\* when a calculation was replacing them while publish_results counted them.
LockedHasResults == exam.locked => \E i \in Students : result[i] # NoResult

\* Nobody has a result without a mark or an absence in every subject.
ResultsNeedAllMarks ==
    \A i \in Students : result[i] # NoResult =>
        \A x \in Subjects : mark[x][i] # NoMark

\* "Generate a complete report card": who gets a card gets it with a mark or
\* an absence in every subject, although the result and the marks are read in
\* two statements and calculations replace the results meanwhile.
CardsComplete ==
    \A s \in Sessions : pc[s] = "answer" /\ cmd[s].op = "card" =>
        MarkedIn(seen[s], cmd[s].student) = Subjects

\* What the results table promises while calculations, publications and mark
\* sheets overlap: one calculation's ranks, a result behind every publication,
\* and marks behind every result and report card.
ResultsStand ==
    RanksFollowValues /\ LockedHasResults /\ ResultsNeedAllMarks /\ CardsComplete

\* "Publish exam results - locks marks" (publish_results endpoint): once an
\* exam is locked its marks and results do not change.
LockedMarksFrozen == [][exam.locked => UNCHANGED <<mark, result>>]_vars

\* "Automatically calculates grade points" (enter_marks endpoint): the grade
\* point stored with a mark is the one its marks earn.
PointsFitMarks ==
    \A x \in Subjects, i \in Students :
        mark[x][i] # NoMark => mark[x][i].point = GradePoint(mark[x][i])

-----------------------------------------------------------------------------
(* The inductive invariant.                                                 *)

\* grade_point is NULL in grades 11 and 12 and in no other.
PointsFitGrade(rows) ==
    \A x \in Subjects, i \in Students :
        rows[x][i] # NoMark => (rows[x][i].point = NoPoint <=> senior)

HasResults == \E i \in Students : result[i] # NoResult

\* the operations whose calls come to a phase
Comers(phase) ==
    CASE phase \in {"replace", "queued", "insert", "conflict"} -> {"calculate"}
      [] phase = "save"   -> {"enter"}
      [] phase = "marks"  -> {"enter", "calculate", "sheet", "card"}
      [] phase = "count"  -> {"publish", "delete", "card"}
      [] phase = "write"  -> {"status", "publish", "edit", "delete"}
      [] phase = "answer" -> {"sheet", "card"}
      [] OTHER -> {"enter", "calculate", "publish", "edit", "delete", "card", "sheet", "status"}

\* What a call has seen, and may still rely on although it holds no lock: no
\* statement deletes a mark, and no calculation leaves the exam without results.
SessionInv(s) ==
    /\ pc[s] # "idle" => cmd[s] \in Commands /\ cmd[s].op \in Comers(pc[s])
    /\ PointsFitGrade(seen[s])
    /\ \A x \in Subjects, i \in Students : seen[s][x][i] # NoMark => mark[x][i] # NoMark
    /\ pc[s] \in {"replace", "queued", "insert"} => Marked(seen[s]) # {}
    /\ pc[s] \in {"queued", "insert"} => EveryStudentMarked(seen[s])
    /\ pc[s] = "write" /\ cmd[s].op = "publish" => HasResults
    /\ pc[s] = "marks" /\ cmd[s].op = "card" => MarkedIn(mark, cmd[s].student) = Subjects

IInv ==
    /\ TypeOK /\ ResultsStand
    /\ PointsFitGrade(mark)
    /\ \A s \in Sessions : SessionInv(s)
=============================================================================
