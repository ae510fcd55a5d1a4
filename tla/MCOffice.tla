-------------------------------- MODULE MCOffice --------------------------------
(* An instance of Office: for each service the calls that meet in its tables. *)
EXTENDS Office, TLC

CONSTANTS s1, s2, asha, bina, may5, may6, c5, c6, t1, t2, t3, m1, m2, l1, h1, h2,
          file1, bed, ground, chalk, paint, kafal, tal, msg1, msg2, msg3,
          r0, r1, r2, k1, k2, k3, row1, row2,
          q0, q1, q2, q3, q4, ram, rita, bus, monthly, yearly, maya, trip1, trip2

MCPlanOf == (kafal :> "standard") @@ (tal :> "free")
MCEmisCode == (kafal :> 1) @@ (tal :> 2)
\* 5 paisa, and 3.3
MCPrice == (chalk :> 50) @@ (paint :> 33)

\* months of 2082 to 2084; the clock starts two days before the new year
MCLengths == (2082 :> <<31, 31, 32, 31, 31, 31, 30, 29, 30, 29, 30, 30>>)
             @@ (2083 :> <<31, 31, 32, 31, 31, 30, 30, 30, 29, 30, 30, 30>>)
             @@ (2084 :> <<31, 31, 32, 31, 31, 30, 30, 30, 29, 30, 30, 30>>)
Day(y, m, d) == [year |-> y, month |-> m, day |-> d]

Entry(p, st) == [pupil |-> p, status |-> st]
Sheet(class, period, by, sheet) ==
    [op |-> "mark", class |-> class, period |-> period, by |-> by, sheet |-> sheet]

RollMenu ==
    {Sheet(c5, 0, t1, <<Entry(asha, "present"), Entry(bina, "absent")>>),
     Sheet(c6, 0, t2, <<Entry(bina, "late"), Entry(asha, "present")>>),
     [op |-> "fix", record |-> <<bina, 0>>, status |-> "leave", by |-> t3],
     [op |-> "register", class |-> c5, period |-> 0],
     [op |-> "month", class |-> c5], [op |-> "history", pupil |-> asha]}

LeaveMenu ==
    {[op |-> "ask", leave |-> l1, member |-> m1, days |-> 2],
     [op |-> "ask", leave |-> l1, member |-> m1, days |-> 0],
     [op |-> "decide", leave |-> l1, by |-> h1, decision |-> "approved"],
     [op |-> "decide", leave |-> l1, by |-> h2, decision |-> "approved"],
     [op |-> "decide", leave |-> l1, by |-> h2, decision |-> "rejected"],
     [op |-> "retire", member |-> m1]}

StaffMenu ==
    {[op |-> "hire", member |-> m2, tsc |-> "TSC-00001"],
     [op |-> "amend", member |-> m1, tsc |-> "TSC-00001"],
     [op |-> "amend", member |-> m1, status |-> "on_leave"],
     [op |-> "retire", member |-> m1], [op |-> "staff", member |-> m2],
     [op |-> "day", entries |-> (m1 :> [status |-> "present", times |-> "nine"])],
     [op |-> "day", entries |-> (m1 :> [status |-> "late", times |-> "ten"])
                                @@ (m2 :> [status |-> "leave", times |-> NoTimes])],
     [op |-> "attendance", member |-> m1]}

Row(e, born, kind) == [emis |-> e, born |-> born, kind |-> kind]

StudentMenu ==
    {[op |-> "create", emis |-> 1, born |-> may5],
     [op |-> "import", rows |-> <<Row(1, may6, "valid"), Row(3, may5, "blank"),
                                  Row(2, may5, "valid"), Row(3, may6, "invalid")>>],
     [op |-> "import", rows |-> <<Row(3, may5, "valid"), Row(2, may6, "unreadable")>>],
     [op |-> "change", emis |-> 1, status |-> "active"],
     [op |-> "erase", emis |-> 1], [op |-> "roster"],
     [op |-> "photo", emis |-> 1, file |-> file1],
     [op |-> "show", emis |-> 1, file |-> file1]}

StockMenu ==
    {[op |-> "asset", asset |-> chalk, quantity |-> 2, location |-> ground],
     [op |-> "edit", asset |-> chalk, active |-> FALSE],
     [op |-> "edit", asset |-> chalk, active |-> TRUE],
     [op |-> "move", asset |-> chalk, type |-> "purchase", quantity |-> 2,
      location |-> NoPlace],
     [op |-> "move", asset |-> chalk, type |-> "issued", quantity |-> 3,
      location |-> NoPlace],
     [op |-> "move", asset |-> chalk, type |-> "transferred", quantity |-> 1,
      location |-> bed],
     [op |-> "stock", threshold |-> 2]}

PaintMenu ==
    {[op |-> "asset", asset |-> paint, quantity |-> 3, location |-> ground],
     [op |-> "move", asset |-> paint, type |-> "purchase", quantity |-> 2,
      location |-> NoPlace],
     [op |-> "move", asset |-> paint, type |-> "transferred", quantity |-> 1,
      location |-> bed],
     [op |-> "stock", threshold |-> 3]}

SchoolMenu ==
    {[op |-> "found", school |-> tal, level |-> "higher_secondary"],
     [op |-> "school", school |-> kafal], [op |-> "subscription", school |-> tal]}
    \cup {[op |-> "toggle", school |-> t, enable |-> e] : t \in {kafal, tal}, e \in BOOLEAN}

SmsMenu == {[op |-> "sms", phones |-> 1], [op |-> "sms", phones |-> 2], [op |-> "messages"]}

DateMenu ==
    {[op |-> "year"], [op |-> "months", year |-> 2083],
     [op |-> "to_ad", date |-> Day(2083, 3, 32)], [op |-> "to_ad", date |-> Day(2083, 2, 32)],
     [op |-> "to_ad", date |-> Day(2082, 12, 30)], [op |-> "to_bs", day |-> 364],
     [op |-> "to_bs", day |-> -1], [op |-> "to_bs", day |-> 365],
     [op |-> "range", first |-> Day(2082, 12, 29), last |-> Day(2083, 1, 2)],
     [op |-> "range", first |-> Day(2083, 1, 2), last |-> Day(2082, 12, 29)]}

Archive(k, r, reason) == [op |-> "archive", key |-> k, report |-> r, reason |-> reason]
Open(op, r) == [op |-> op, report |-> r]

ReportMenu ==
    {[op |-> "generate", key |-> k1, intent |-> "csv"],
     [op |-> "generate", key |-> k1, intent |-> "excel"],
     [op |-> "generate", key |-> k2, intent |-> "csv"],
     Archive(k2, r1, "superseded"), Archive(k3, r1, "mistaken"),
     Open("export", r0), Open("export", r1), Open("detail", r1),
     [op |-> "preview"], [op |-> "reports"],
     [op |-> "post", row |-> row1, amount |-> 2], [op |-> "post", row |-> row2, amount |-> 1]}

Log(q, at) == [op |-> "position", req |-> q, bus |-> bus, at |-> at]
Upkeep(q, on, due) == [op |-> "service", req |-> q, bus |-> bus, day |-> on, due |-> due]

FleetMenu ==
    {Log(q1, 0), Log(q1, 1), Log(q2, 2), Upkeep(q2, 1, 2), Upkeep(q3, 0, NoDue),
     Upkeep(q3, 1, 0), [op |-> "maintenance", bus |-> bus], [op |-> "location", bus |-> bus]}

MCFirstFare == [rider |-> ram, fee |-> 5, first |-> 1, last |-> NoEnd]
Fare(q, a, h, m) == [op |-> "fare", req |-> q, agreement |-> a, head |-> h, month |-> m]
Switch(q, a, fee) == [op |-> "agree", req |-> q, agreement |-> a, fee |-> fee]

FareMenu ==
    {Fare(q1, q0, monthly, 2), Fare(q2, q0, yearly, 2), Fare(q4, q3, monthly, 2),
     Fare(q1, q0, monthly, 0), Switch(q3, q0, 5), Switch(q2, q0, 6),
     [op |-> "price", head |-> monthly, amount |-> 6, monthly |-> TRUE],
     [op |-> "price", head |-> yearly, amount |-> 5, monthly |-> FALSE],
     [op |-> "assess", rider |-> ram, head |-> monthly, month |-> 2],
     [op |-> "offer", active |-> FALSE], [op |-> "promote", rider |-> ram],
     [op |-> "options", agreement |-> q0]}

MCFirstTrips ==
    (trip1 :> [direction |-> "pickup", day |-> "today", riders |-> {ram}])
    @@ (trip2 :> [direction |-> "drop", day |-> "earlier", riders |-> {ram, rita}])
Link(q, p, g) == [op |-> "link", req |-> q, rider |-> p, parent |-> g]
Unlink(q, x) == [op |-> "unlink", req |-> q, link |-> x]
Ride(op, t, p) == [op |-> op, trip |-> t, rider |-> p]

LinkMenu ==
    {Link(q1, ram, maya), Link(q2, ram, maya), Unlink(q3, q1), Unlink(q4, q1),
     [op |-> "leave", rider |-> ram], [op |-> "demote", parent |-> maya],
     [op |-> "feed", viewer |-> maya], [op |-> "families"]}

RideMenu ==
    {Link(q1, ram, maya), Unlink(q3, q1),
     Ride("absent", trip1, ram), Ride("board", trip1, ram), Ride("alight", trip1, ram),
     [op |-> "complete", trip |-> trip1], [op |-> "call_off", trip |-> trip2],
     [op |-> "feed", viewer |-> maya], [op |-> "feed", viewer |-> StaffViewer]}

MCMenus == {RollMenu, LeaveMenu, StaffMenu, StudentMenu, StockMenu, PaintMenu, SchoolMenu,
            SmsMenu, DateMenu, ReportMenu, FleetMenu, FareMenu, LinkMenu, RideMenu}

MCSymmetry == Permutations(Sessions) \cup Permutations(MessageIds)
=============================================================================
