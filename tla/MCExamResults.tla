--------------------------- MODULE MCExamResults ---------------------------
(* Two teachers or offices at work on an exam of two subjects and two        *)
(* students, full marks 10.                                                  *)
EXTENDS ExamResults, TLC

CONSTANTS maths, nepali, asha, bina

Present(m) == [marks |-> m, absent |-> FALSE]
Absent == [marks |-> 0, absent |-> TRUE]
Enter(x, e) == [op |-> "enter", subject |-> x, entries |-> e]
Only(i, entry) == [j \in {i} |-> entry]
Both(a, b) == [j \in {asha, bina} |-> IF j = asha THEN a ELSE b]
Call(op) == [op |-> op]
MoveTo(status) == [op |-> "status", to |-> status]

Moves == {MoveTo(t) : t \in {"draft", "scheduled", "ongoing", "completed"}}

\* Two versions of the maths sheet, in which the order of the two students
\* differs, an absence in nepali, and a mark above the full marks.
MCCommands ==
    { Enter(maths, Both(Present(9), Present(5))),
      Enter(maths, Only(bina, Present(10))),
      Enter(maths, Only(asha, Present(11))),
      Enter(nepali, Both(Present(6), Absent)),
      Enter(nepali, Only(bina, Present(6))),
      Call("calculate"), Call("publish"), Call("edit"), Call("delete"),
      [op |-> "card", student |-> asha], [op |-> "sheet", subject |-> maths] } \cup Moves

\* one subject, one student: what a mark or a result does after the lock
MCLockCommands ==
    { Enter(maths, Only(asha, Present(9))), Enter(maths, Only(asha, Present(5))),
      Call("calculate"), Call("publish") } \cup Moves

\* two marks that earn the same point and one that does not
MCSheetCommands ==
    { Enter(maths, Only(asha, Present(m))) : m \in {5, 9, 10} }

MCSymmetry == Permutations(Sessions)
=============================================================================
