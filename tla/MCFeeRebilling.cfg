SPECIFICATION Spec
CONSTANTS
    Sessions = {s1}
    Students = {1}
    A = A
    B = B
    C = C
    Structures = {A, B}
    year1 = year1
    year2 = year2
    Cohorts = {year1}
    Cohort <- MCCohort
    hA = hA
    hB = hB
    hC = hC
    Heads = {hA, hB}
    tuition = tuition
    exam = exam
    Names = {tuition, exam}
    Commands <- MCRebillCommands
    NoRow = NoRow
    NoCommand = NoCommand
    NoStructure = NoStructure
    MaxHeads = 2
INVARIANT NoPeriodChargedTwice
