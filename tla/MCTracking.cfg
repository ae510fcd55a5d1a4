SPECIFICATION LiveSpec
CONSTANTS
    Sessions = {s1}
    Callers = {x1, x2}
    red = red
    Vehicles = {red}
    Drivers = {}
    valley = valley
    Routes = {valley}
    gate = gate
    well = well
    Stops = {gate, well}
    StopLimit = 2
    morning = morning
    Runs = {morning}
    ram = ram
    sita = sita
    Students = {ram, sita}
    Leavers = {}
    Days = {0}
    WeekdayOf <- MCWeekdayOf
    FirstVehicles <- MCFirstVehicles
    FirstStops <- MCFirstStops
    FirstRuns <- MCFirstRuns
    FirstAgreements <- MCFirstAgreements
    a1 = a1
    a2 = a2
    q1 = q1
    q2 = q2
    q3 = q3
    Requests = {a1, a2, q1, q2, q3}
    Commands <- MCCommands
    k1 = k1
    k2 = k2
    k3 = k3
    Tokens = {k1, k2, k3}
    Calls <- MCCalls
    Clock = {0, 1, 2}
    Old = 1
    Ahead = 0
    Gap = 1
    Life = 2
    NoRow = NoRow
    NoCommand = NoCommand
SYMMETRY MCSymmetry
INVARIANTS LiveTypeOK
PROPERTIES SharingEnds JourneyForward
