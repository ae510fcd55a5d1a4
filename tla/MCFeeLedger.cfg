SPECIFICATION Spec
CONSTANTS
    Sessions = {s1, s2}
    ana = ana
    bo = bo
    Students = {ana, bo}
    tuition = tuition
    exam = exam
    Heads = {tuition, exam}
    y1 = y1
    Years = {y1}
    r1 = r1
    r2 = r2
    Requests = {r1, r2}
    Bills <- MCBills
    Terms <- MCTerms
    Commands <- MCCommands
    NoRow = NoRow
    NoHead = NoHead
    NoCommand = NoCommand
SYMMETRY MCSymmetry
INVARIANTS TypeOK BooksBalance WritesFromCurrentRows AcceptedCanCommit AckedIsRecorded
PROPERTIES OneAtATime

