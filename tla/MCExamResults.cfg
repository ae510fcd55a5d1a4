SPECIFICATION Spec
CONSTANTS
    Sessions = {s1, s2}
    asha = asha
    bina = bina
    Students = {asha, bina}
    maths = maths
    nepali = nepali
    Subjects = {maths, nepali}
    FullMarks = 10
    PassMarks = 4
    Commands <- MCCommands
    NoCommand = NoCommand
    NoMark = NoMark
    NoResult = NoResult
SYMMETRY MCSymmetry
INVARIANTS TypeOK ResultsStand
