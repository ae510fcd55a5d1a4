SPECIFICATION OfficeSpec
CONSTANTS
    s1 = s1
    s2 = s2
    Sessions = {s1, s2}
    Menus <- MCMenus
    NoCommand = NoCommand
    NoView = NoView
    NoRow = NoRow
    asha = asha
    bina = bina
    Pupils = {asha, bina}
    c5 = c5
    c6 = c6
    Classes = {c5, c6}
    t1 = t1
    t2 = t2
    t3 = t3
    Teachers = {t1, t2, t3}
    Periods = {0}
    m1 = m1
    m2 = m2
    Members = {m1, m2}
    Hired = {m1}
    l1 = l1
    Leaves = {l1}
    h1 = h1
    h2 = h2
    Heads = {h1, h2}
    TscNumbers = {"TSC-00001"}
    NoTsc = NoTsc
    NoHead = NoHead
    NoTimes = NoTimes
    Times = {"nine", "ten"}
    MaxDayRows = 2
    EmisIds = {1, 2, 3}
    may5 = may5
    may6 = may6
    BirthDates = {may5, may6}
    file1 = file1
    Files = {file1}
    NoPhoto = NoPhoto
    chalk = chalk
    paint = paint
    Assets = {chalk, paint}
    bed = bed
    ground = ground
    Places = {bed, ground}
    NoPlace = NoPlace
    Price <- MCPrice
    Grain = 10
    MaxStock = 6
    kafal = kafal
    tal = tal
    Schools = {kafal, tal}
    OnBoard = {kafal}
    PlanOf <- MCPlanOf
    EmisCodeOf <- MCEmisCode
    msg1 = msg1
    msg2 = msg2
    msg3 = msg3
    MessageIds = {msg1, msg2, msg3}
    NoProvider = NoProvider
    BsYears = {2082, 2083, 2084}
    MonthLengths <- MCLengths
    FirstDay = 363
    LastDay = 366
    r0 = r0
    r1 = r1
    r2 = r2
    ReportIds = {r0, r1, r2}
    LegacyReport = r0
    k1 = k1
    k2 = k2
    k3 = k3
    RequestKeys = {k1, k2, k3}
    row1 = row1
    row2 = row2
    SourceRows = {row1, row2}
    Reasons = {"superseded", "mistaken"}
    NotArchived = NotArchived
    MaxRows = 1
    q0 = q0
    q1 = q1
    q2 = q2
    q3 = q3
    q4 = q4
    BusRequests = {q0, q1, q2, q3, q4}
    bus = bus
    Buses = {bus}
    LastMoment = 2
    ram = ram
    rita = rita
    Riders = {ram, rita}
    monthly = monthly
    yearly = yearly
    FareHeads = {monthly, yearly}
    BsMonths = {0, 1, 2}
    ThisMonth = 2
    FirstAgreement = q0
    FirstFare <- MCFirstFare
    maya = maya
    Parents = {maya}
    StaffViewer = StaffViewer
    trip1 = trip1
    trip2 = trip2
    Trips = {trip1, trip2}
    FirstTrips <- MCFirstTrips
SYMMETRY MCSymmetry
INVARIANTS OfficeTypeOK RollsWhole ImportsWhole RowsNotTorn RecordsTellTheTruth
  CalendarAgrees ReportsStand RidersServed
PROPERTIES ReportsKept
