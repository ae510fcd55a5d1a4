SPECIFICATION Spec
CONSTANTS
    Sessions = {s1, s2}
    block = block
    annex = annex
    Hostels = {block, annex}
    one = one
    two = two
    three = three
    Rooms = {one, two, three}
    Labels = {1, 2, 3}
    BedLimit = 1
    ram = ram
    sita = sita
    Students = {ram, sita}
    Gender <- MCGender
    Leavers = {ram}
    Days = {0, 1}
    MonthOf <- MCMonthOf
    boarding = boarding
    Heads = {boarding}
    Amounts = {1, 2}
    FirstHostel <- MCFirstHostel
    FirstRooms <- MCFirstRooms
    FirstHeads <- MCFirstHeads
    q1 = q1
    q2 = q2
    q3 = q3
    q4 = q4
    Requests = {q1, q2, q3, q4}
    Commands <- MCCommands
    NoRow = NoRow
    NoCommand = NoCommand
    NoLabel = NoLabel
    NoDay = NoDay
SYMMETRY MCSymmetry
INVARIANTS TypeOK HostelConsistent ChargesAsAgreed
PROPERTIES NoStaleDecision ResidenceKept
