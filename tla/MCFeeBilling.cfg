SPECIFICATION FairSpec
CONSTANTS
    Sessions = {s1, s2}
    Students = {1, 2}
    A = A
    B = B
    C = C
    Structures = {A, B, C}
    year1 = year1
    year2 = year2
    Cohorts = {year1, year2}
    Cohort <- MCCohort
    hA = hA
    hB = hB
    hC = hC
    Heads = {hA, hB, hC}
    tuition = tuition
    exam = exam
    Names = {tuition, exam}
    Commands <- MCCommands
    NoRow = NoRow
    NoCommand = NoCommand
    NoStructure = NoStructure
    MaxHeads = 2
INVARIANTS TypeOK BillsKeepTerms NothingChargedTwice
PROPERTIES ChargedWhileActive CallsEnd
