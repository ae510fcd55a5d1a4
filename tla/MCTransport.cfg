SPECIFICATION Spec
CONSTANTS
    Sessions = {s1, s2}
    Callers = {}
    red = red
    blue = blue
    green = green
    Vehicles = {red, blue, green}
    dorje = dorje
    Drivers = {dorje}
    valley = valley
    hill = hill
    Routes = {valley, hill}
    gate = gate
    well = well
    peak = peak
    Stops = {gate, well, peak}
    StopLimit = 2
    morning = morning
    late = late
    Runs = {morning, late}
    ram = ram
    sita = sita
    Students = {ram, sita}
    Leavers = {sita}
    Days = {0, 1}
    WeekdayOf <- MCWeekdayOf
    FirstVehicles <- MCFirstVehicles
    FirstStops <- MCFirstStops
    FirstRuns <- MCFirstRuns
    FirstAgreements <- MCFirstAgreements
    a1 = a1
    q1 = q1
    q2 = q2
    q3 = q3
    q4 = q4
    q5 = q5
    Requests = {a1, q1, q2, q3, q4, q5}
    Commands <- MCCommands
    NoRow = NoRow
    NoCommand = NoCommand
SYMMETRY MCSymmetry
INVARIANTS DispatchConsistent
PROPERTIES NoStaleDecision RidesKept
