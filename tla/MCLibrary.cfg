SPECIFICATION Spec
CONSTANTS
    Sessions = {s1, s2}
    pupil = pupil
    teacher = teacher
    Borrowers = {pupil, teacher}
    Kind <- MCKind
    Leavers = {pupil}
    nepali = nepali
    maths = maths
    english = english
    Books = {nepali, maths, english}
    Accessions = {1, 2, 3, 4, 5}
    Stock <- MCStock
    q1 = q1
    q2 = q2
    q3 = q3
    q4 = q4
    Requests = {q1, q2, q3, q4}
    Policies <- MCPolicies
    FirstPolicy <- Default
    Commands <- MCCommands
    MaxLate = 1
    NoRow = NoRow
    NoCommand = NoCommand
    NoCopy = NoCopy
    NoFine = NoFine
SYMMETRY MCSymmetry
INVARIANTS TypeOK RowsAgree AckedIsRecorded NoCircularWait
PROPERTIES CustodyKept LendingRules
