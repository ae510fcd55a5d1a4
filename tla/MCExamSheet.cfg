SPECIFICATION Spec
CONSTANTS
    Sessions = {s1, s2}
    asha = asha
    bina = bina
    Students = {asha}
    maths = maths
    nepali = nepali
    Subjects = {maths}
    FullMarks = 10
    PassMarks = 4
    Commands <- MCSheetCommands
    NoCommand = NoCommand
    NoMark = NoMark
    NoResult = NoResult
INVARIANT PointsFitMarks
