----------------------------- MODULE Hostel_proofs -----------------------------
(***************************************************************************)
(* Proofs about Hostel for any sessions, students, hostels, rooms, days and *)
(* commands: the inductive invariant IInv and the safety properties that    *)
(* follow from it.                                                          *)
(***************************************************************************)
EXTENDS Hostel, SumLemmas

-----------------------------------------------------------------------------
(* Commands and rows. *)

\* What a command carries depends on its operation.
CommandFits(c) ==
    /\ c.op \in {"create_hostel", "update_hostel", "create_room", "update_room",
                 "add_beds", "update_bed", "allocate", "transfer", "vacate", "leave",
                 "visit", "return_leave", "depart_visit", "save_register", "bill"}
    /\ c.req \in Requests
    /\ c.op \in {"create_hostel", "update_hostel", "create_room"} => c.hostel \in Hostels
    /\ c.op \in {"create_hostel", "update_hostel"} => c.kind \in Kinds
    /\ c.op \in {"create_hostel", "update_hostel", "update_room"} => c.active \in BOOLEAN
    /\ c.op \in {"create_room", "update_room", "add_beds", "update_bed", "allocate",
                 "transfer"} => c.room \in Rooms
    /\ c.op \in {"create_room", "update_room"} => c.fee \in Amounts
    /\ c.op \in {"create_room", "add_beds"} => c.count \in Nat \ {0}
    /\ c.op = "add_beds" => c.labels \subseteq Labels
    /\ c.op = "update_bed" => c.label \in Labels /\ c.status \in Conditions
    /\ c.op \in {"allocate", "transfer"} => c.label \in Labels \cup {NoLabel}
    /\ c.op = "allocate" => c.student \in Students
    /\ c.op \in {"transfer", "vacate", "leave", "visit", "bill"} => c.stay \in Requests
    /\ c.op \in {"return_leave", "depart_visit"} => c.away \in Requests
    /\ c.op = "save_register" =>
         c.day \in Days /\ c.entries \subseteq Requests /\ c.status \in Marks
    /\ c.op = "bill" => c.head \in Heads /\ c.month \in Months

LEMMA CommandFields ==
    ASSUME NEW c \in Commands
    PROVE  CommandFits(c)
<1>1. CASE c \in HostelCommand
  BY <1>1 DEF CommandFits, HostelCommand
<1>2. CASE c \in CreateRoom
  BY <1>2 DEF CommandFits, CreateRoom
<1>3. CASE c \in UpdateRoom
  BY <1>3 DEF CommandFits, UpdateRoom
<1>4. CASE c \in UpdateBed
  BY <1>4 DEF CommandFits, UpdateBed
<1>5. CASE c \in Allocate
  BY <1>5 DEF CommandFits, Allocate
<1>6. CASE c \in Transfer
  BY <1>6 DEF CommandFits, Transfer
<1>7. CASE c \in StayCommand
  BY <1>7 DEF CommandFits, StayCommand
<1>8. CASE c \in BackCommand
  BY <1>8 DEF CommandFits, BackCommand
<1>9. CASE c \in BillCommand
  BY <1>9 DEF CommandFits, BillCommand
<1>10. CASE c \in AddBeds
  BY <1>10 DEF CommandFits, AddBeds
<1>11. CASE c \in RegisterCommand
  BY <1>11 DEF CommandFits, RegisterCommand
<1>12. QED
  BY <1>1, <1>2, <1>3, <1>4, <1>5, <1>6, <1>7, <1>8, <1>9, <1>10, <1>11,
     HostelCommandsAssumption

\* The three kinds of locks never meet, and students' locks differ.
LEMMA LocksDiffer ==
    /\ SchoolLock # StructureLock
    /\ \A p : SchoolLock # StudentLock(p) /\ StructureLock # StudentLock(p)
    /\ \A p, q : StudentLock(p) = StudentLock(q) => p = q
  BY DEF SchoolLock, StructureLock, StudentLock

LEMMA LabelsFinite ==
    /\ IsFiniteSet(Labels) /\ Labels \subseteq Int /\ Cardinality(Labels) \in Nat
    /\ BedLimit \in Nat /\ BedLimit <= Cardinality(Labels) /\ Amounts \subseteq Nat
    /\ Days \subseteq Nat
<1>1. Cardinality(Labels) \in Nat /\ Cardinality(Days) \in Nat
  BY HostelConstantsAssumption, FS_CardinalityType
<1>2. QED
  BY <1>1, HostelConstantsAssumption

Resident(stays, r) ==
    {q \in Requests : stays[q] # NoRow /\ stays[q].room = r /\ stays[q].to = NoDay}

OpenRooms(rooms, h) ==
    {r \in Rooms : rooms[r] # NoRow /\ rooms[r].hostel = h /\ rooms[r].active}

Beds(rooms, h) == SumFunction([r \in OpenRooms(rooms, h) |-> rooms[r].capacity])

\* What _sync has written in a row is what it would write again.
LEMMA RoomCounted ==
    ASSUME NEW row \in RoomRow, NEW r, NEW beds, NEW stays
    PROVE  (row = CountRoom(row, r, beds, stays)) <=>
           /\ row.capacity = Cardinality(Registered(beds[r]))
           /\ row.occupied = Cardinality(Resident(stays, r))
  BY DEF CountRoom, Resident, RoomRow

LEMMA HostelCounted ==
    ASSUME NEW row \in HostelRow, NEW h, NEW rooms
    PROVE  (row = CountHostel(row, h, rooms)) <=>
           /\ row.rooms = Cardinality(OpenRooms(rooms, h))
           /\ row.capacity = Beds(rooms, h)
  BY DEF CountHostel, OpenRooms, Beds, HostelRow

LEMMA BedsTyped ==
    ASSUME NEW rooms \in [Rooms -> RoomRow \cup {NoRow}], NEW h,
           IsFiniteSet({r \in Rooms : rooms[r] # NoRow})
    PROVE  Beds(rooms, h) \in Nat /\ Cardinality(OpenRooms(rooms, h)) \in Nat
<1> DEFINE S == OpenRooms(rooms, h)
           f == [r \in S |-> rooms[r].capacity]
<1>1. IsFiniteSet(S)
  <2>1. S \in SUBSET {r \in Rooms : rooms[r] # NoRow}
    BY DEF OpenRooms
  <2>2. QED
    BY <2>1, FS_Subset
<1>2. \A r \in S : f[r] \in Nat
  BY DEF OpenRooms, RoomRow
<1>3. SumOn(f, S) \in Nat
  <2> HIDE DEF f, S
  <2>1. QED
    BY <1>1, <1>2, SumNat
<1>4. Beds(rooms, h) = SumFunctionOnSet(f, S)
  BY DEF Beds, SumFunction
<1>5. QED
  BY <1>1, <1>3, <1>4, SumOnDef, FS_CardinalityType

LEMMA CountHostelTyped ==
    ASSUME NEW rooms \in [Rooms -> RoomRow \cup {NoRow}], NEW h, NEW row \in HostelRow,
           IsFiniteSet({r \in Rooms : rooms[r] # NoRow})
    PROVE  /\ CountHostel(row, h, rooms) \in HostelRow
           /\ CountHostel(row, h, rooms).kind = row.kind
           /\ CountHostel(row, h, rooms).active = row.active
           /\ CountHostel(row, h, rooms).rooms = Cardinality(OpenRooms(rooms, h))
           /\ CountHostel(row, h, rooms).capacity = Beds(rooms, h)
<1>1. CountHostel(row, h, rooms) =
        [row EXCEPT !.rooms = Cardinality(OpenRooms(rooms, h)), !.capacity = Beds(rooms, h)]
  BY DEF CountHostel, OpenRooms, Beds
<1>2. Beds(rooms, h) \in Nat /\ Cardinality(OpenRooms(rooms, h)) \in Nat
  BY BedsTyped
<1>3. QED
  BY <1>1, <1>2 DEF HostelRow

LEMMA CountRoomTyped ==
    ASSUME NEW row \in RoomRow, NEW r, NEW beds, NEW stays,
           IsFiniteSet({q \in Requests : stays[q] # NoRow})
    PROVE  /\ CountRoom(row, r, beds, stays) \in RoomRow
           /\ CountRoom(row, r, beds, stays).hostel = row.hostel
           /\ CountRoom(row, r, beds, stays).fee = row.fee
           /\ CountRoom(row, r, beds, stays).active = row.active
           /\ CountRoom(row, r, beds, stays).capacity = Cardinality(Registered(beds[r]))
           /\ CountRoom(row, r, beds, stays).occupied = Cardinality(Resident(stays, r))
<1>1. CountRoom(row, r, beds, stays) =
        [row EXCEPT !.capacity = Cardinality(Registered(beds[r])),
                    !.occupied = Cardinality(Resident(stays, r))]
  BY DEF CountRoom, Resident
<1>2. Resident(stays, r) \in SUBSET {q \in Requests : stays[q] # NoRow}
  BY DEF Resident
<1>3. Cardinality(Resident(stays, r)) \in Nat
  BY <1>2, FS_Subset, FS_CardinalityType
<1>4. Registered(beds[r]) \in SUBSET Labels
  BY DEF Registered
<1>5. Cardinality(Registered(beds[r])) \in Nat
  BY <1>4, FS_Subset, FS_CardinalityType, LabelsFinite
<1>6. QED
  BY <1>1, <1>3, <1>5 DEF RoomRow


-----------------------------------------------------------------------------
(* What a step has to leave alone. *)

\* The parts of the type invariant and of the inductive invariant that only
\* the tables and the day decide.
HostelTyped ==
    /\ hostel \in [Hostels -> HostelRow \cup {NoRow}]
    /\ room \in [Rooms -> RoomRow \cup {NoRow}]
    /\ bed \in [Rooms -> [Labels -> Conditions \cup {NoRow}]]
    /\ stay \in [Requests -> StayRow \cup {NoRow}]
    /\ leave \in [Requests -> AwayRow \cup {NoRow}]
    /\ visit \in [Requests -> AwayRow \cup {NoRow}]
    /\ register \in [Requests -> [Days -> MarkRow \cup {NoRow}]]
    /\ charge \subseteq ChargeRow
    /\ event \in [Requests -> Commands \cup {NoRow}]
    /\ \A r \in Requests : stay[r] # NoRow /\ stay[r].to # NoDay => stay[r].from <= stay[r].to

FeesTyped ==
    /\ head \in [Heads -> Amounts \cup {NoRow}]
    /\ planActive \in BOOLEAN
    /\ bill \subseteq BillRow

WorldTyped == enrolled \subseteq Students /\ today \in Days

TablesTyped == HostelTyped /\ FeesTyped /\ WorldTyped

TablesStand ==
    /\ RowsFinite /\ RequestsLogged /\ RowsBelong /\ ResidentsHoused
    /\ StaysInOrder /\ AbsencesFit /\ ChargesAsAgreed

SessionsTyped ==
    /\ pc \in [Sessions -> Phases]
    /\ cmd \in [Sessions -> Commands \cup {NoCommand}]
    /\ held \in [Sessions -> SUBSET Locks]
    /\ headView \in [Sessions -> Amounts \cup {NoRow}]
    /\ page \in [Sessions -> [Requests -> MarkRow \cup {NoRow}]]
    /\ plan \in [Sessions -> [labels: SUBSET Labels, day: Days]]
    /\ \A s \in Sessions : pc[s] = "idle" => cmd[s] = NoCommand /\ held[s] = {}

LEMMA Parts ==
    IInv <=> /\ TablesTyped /\ TablesStand /\ SessionsTyped /\ LocksApart
             /\ \A s \in Sessions : SessionInv(s)
  BY DEF IInv, TypeOK, TablesTyped, HostelTyped, FeesTyped, WorldTyped, SessionsTyped,
         TablesStand

\* The day and the fees may change without the tables of the hostel.
LEMMA TablesKeep ==
    ASSUME TablesStand, TablesTyped, UNCHANGED hostelTables, UNCHANGED fees, UNCHANGED world
    PROVE  TablesStand' /\ TablesTyped'
<1>1. /\ hostel' = hostel /\ room' = room /\ bed' = bed /\ stay' = stay
      /\ leave' = leave /\ visit' = visit /\ register' = register /\ charge' = charge
      /\ event' = event /\ head' = head /\ planActive' = planActive /\ bill' = bill
      /\ enrolled' = enrolled /\ today' = today
  BY DEF hostelTables, fees, world
<1>2. TablesTyped'
  BY <1>1 DEF TablesTyped, HostelTyped, FeesTyped, WorldTyped
<1>3. RowsFinite' /\ RequestsLogged' /\ RowsBelong'
  BY <1>1 DEF TablesStand, RowsFinite, RequestsLogged, RowsBelong, Stays
<1>4. ResidentsHoused'
  BY <1>1 DEF TablesStand, ResidentsHoused, ActiveStays, Stays
<1>5. StaysInOrder' /\ AbsencesFit' /\ ChargesAsAgreed'
  BY <1>1 DEF TablesStand, StaysInOrder, AbsencesFit, ChargesAsAgreed, ActiveStays, Stays,
     OpenFor
<1>6. QED
  BY <1>2, <1>3, <1>4, <1>5 DEF TablesStand

\* A mark stays or gets a higher version.
MarkGrows(old, new) == old = new \/ Version(old) < Version(new)

LEMMA VersionTyped ==
    ASSUME NEW mark \in MarkRow \cup {NoRow}
    PROVE  Version(mark) \in Nat
  BY DEF Version, MarkRow

\* A decision depends on the hostel's tables and, for a bill, on the fees.
LEMMA AcceptsKeeps ==
    ASSUME NEW s \in Sessions, NEW c \in Commands, cmd[s] = c, cmd'[s] = c,
           headView'[s] = headView[s], page'[s] = page[s],
           UNCHANGED hostelTables, TablesTyped, TablesTyped', today <= today',
           c.op = "bill" => UNCHANGED fees,
           Accepts(s)
    PROVE  Accepts(s)' /\ Chosen(cmd[s])' = Chosen(cmd[s])
<1>1. /\ hostel' = hostel /\ room' = room /\ bed' = bed /\ stay' = stay
      /\ leave' = leave /\ visit' = visit /\ register' = register /\ charge' = charge
  BY DEF hostelTables
<1>2. Stays' = Stays /\ ActiveStays' = ActiveStays
  BY <1>1 DEF Stays, ActiveStays
<1>3. /\ \A r, besides : FreeBeds(r, besides)' = FreeBeds(r, besides)
      /\ \A r, n : AutoLabels(r, n)' = AutoLabels(r, n)
      /\ \A d : Roster(d)' = Roster(d)
  BY <1>1, <1>2 DEF FreeBeds, AutoLabels, Roster, Covers, Later
<1>4. Chosen(c)' = Chosen(c)
  BY <1>3 DEF Chosen
<1>5. CASE c.op \in {"create_hostel", "update_hostel", "create_room", "update_room"}
  BY <1>1, <1>2, <1>4, <1>5 DEF Accepts, MayArchive
<1>6. CASE c.op \in {"add_beds", "update_bed"}
  BY <1>1, <1>2, <1>4, <1>6 DEF Accepts, Occupied
<1>7. CASE c.op = "allocate"
  BY <1>1, <1>2, <1>3, <1>4, <1>7 DEF Accepts, MayAdmit
<1>8. CASE c.op = "transfer"
  BY <1>1, <1>2, <1>3, <1>4, <1>8 DEF Accepts, MayAdmit, MayClose, OpenFor
<1>9. CASE c.op \in {"vacate", "leave", "visit", "return_leave", "depart_visit"}
  BY <1>1, <1>2, <1>4, <1>9 DEF Accepts, MayClose, OpenFor
<1>10. CASE c.op = "save_register"
  BY <1>1, <1>3, <1>4, <1>10, LabelsFinite, CommandFields
     DEF Accepts, MayMark, CommandFits, TablesTyped, WorldTyped
<1>11. CASE c.op = "bill"
  BY <1>1, <1>4, <1>11 DEF Accepts, MayBill, ChargesOf, BillsOf, fees
<1>12. QED
  BY <1>4, <1>5, <1>6, <1>7, <1>8, <1>9, <1>10, <1>11, CommandFields DEF CommandFits

SessionKept(t) ==
    /\ pc'[t] = pc[t] /\ cmd'[t] = cmd[t] /\ held'[t] = held[t]
    /\ headView'[t] = headView[t] /\ page'[t] = page[t] /\ plan'[t] = plan[t]

\* A session whose own state does not change keeps its invariant when the
\* tables of the hostel change only while it is not at work, the fees only
\* while it does not hold the structure, no locked student leaves, and marks
\* are only replaced by marks of a higher version.
LEMMA OthersKeep ==
    ASSUME NEW t \in Sessions, SessionInv(t), SessionKept(t), SessionsTyped,
           TablesTyped, TablesTyped', today <= today',
           pc[t] \in Working => UNCHANGED hostelTables,
           StructureLock \in held[t] => UNCHANGED fees,
           \A p \in Students : StudentLock(p) \in held[t] /\ p \in enrolled => p \in enrolled',
           \A q \in Requests, d \in Days : MarkGrows(register[q][d], register'[q][d])
    PROVE  SessionInv(t)'
<1>0. PICK c : c = cmd[t]
  OBVIOUS
<1>1. /\ pc'[t] = pc[t] /\ cmd[t] = c /\ cmd'[t] = c /\ held'[t] = held[t]
      /\ headView'[t] = headView[t] /\ page'[t] = page[t] /\ plan'[t] = plan[t]
  BY <1>0 DEF SessionKept
<1>2. PhaseFits(t) /\ HoldsLocks(t) /\ CopiesFit(t) /\ PageFits(t) /\ DecisionStands(t)
  BY DEF SessionInv
<1>3. pc[t] # "idle" => c \in Commands /\ CommandFits(c)
  BY <1>1, <1>2, CommandFields DEF PhaseFits
<1>4. pc[t] \in Working =>
        stay' = stay /\ room' = room /\ event' = event /\ register' = register
  BY DEF hostelTables
<1>5. PhaseFits(t)'
  BY <1>1, <1>2, <1>4 DEF PhaseFits
<1>6. HoldsLocks(t)'
  <2>1. SchoolLock' = SchoolLock /\ StructureLock' = StructureLock
    BY DEF SchoolLock, StructureLock
  <2>2. ASSUME pc[t] \in {"decide", "commit"}, c.op \in {"allocate", "transfer"}
        PROVE  StudentOf(t)' = StudentOf(t) /\ StudentOf(t) \in Students
    <3>1. stay' = stay /\ pc[t] \in Working
      BY <2>2, <1>4 DEF Working
    <3>2. c.op = "transfer" => c.stay \in Stays
      BY <1>1, <1>2, <2>2 DEF CopiesFit
    <3>3. QED
      BY <1>1, <1>3, <2>2, <3>1, <3>2
         DEF StudentOf, CommandFits, Stays, TablesTyped, HostelTyped, StayRow, Working
  <2>3. ASSUME pc[t] \in {"decide", "commit"}, c.op \in {"allocate", "transfer"}
        PROVE  (StudentLock(StudentOf(t)) \in held[t] /\ StudentOf(t) \in enrolled)'
    BY <1>1, <1>2, <2>2, <2>3 DEF HoldsLocks, StudentLock
  <2>4. QED
    BY <1>1, <1>2, <2>1, <2>3 DEF HoldsLocks
<1>7. CopiesFit(t)'
  <2>1. pc[t] \in {"decide", "commit"} /\ c.op = "bill" => head' = head
    BY <1>1, <1>2 DEF HoldsLocks, fees
  <2>2. QED
    BY <1>1, <1>2, <1>4, <2>1 DEF CopiesFit, Stays, Working
<1>8. PageFits(t)'
  <2> SUFFICES ASSUME pc[t] # "idle", c.op = "save_register", NEW q \in Requests
               PROVE  /\ Version(page[t][q]) <= Version(register'[q][c.day])
                      /\ Version(page[t][q]) = Version(register'[q][c.day])
                           => page[t][q] = register'[q][c.day]
    BY <1>1 DEF PageFits, Version
  <2> DEFINE seen == page[t][q]
             old  == register[q][c.day]
             new  == register'[q][c.day]
  <2>1. c.day \in Days
    BY <1>3 DEF CommandFits
  <2>2. /\ Version(seen) <= Version(old)
        /\ Version(seen) = Version(old) => seen = old
    BY <1>1, <1>2 DEF PageFits
  <2>3. seen \in MarkRow \cup {NoRow} /\ old \in MarkRow \cup {NoRow} /\ new \in MarkRow \cup {NoRow}
    BY <2>1 DEF SessionsTyped, TablesTyped, HostelTyped
  <2>4. Version(seen) \in Nat /\ Version(old) \in Nat /\ Version(new) \in Nat
    <3> HIDE DEF seen, old, new
    <3>1. QED
      BY <2>3, VersionTyped
  <2>5. MarkGrows(old, new)
    BY <2>1
  <2>6. QED
    BY <2>2, <2>4, <2>5 DEF MarkGrows
<1>9. DecisionStands(t)'
  <2> SUFFICES ASSUME pc[t] = "commit"
               PROVE  DecisionStands(t)'
    BY <1>1 DEF DecisionStands
  <2>1. c \in Commands /\ UNCHANGED hostelTables
    BY <1>3 DEF Working
  <2>2. c.op = "bill" => UNCHANGED fees
    BY <1>1, <1>2 DEF HoldsLocks
  <2>3. /\ Accepts(t) /\ plan[t].labels = Chosen(cmd[t]) /\ plan[t].day <= today
        /\ \A q \in Stays : stay[q].from <= plan[t].day
    BY <1>2 DEF DecisionStands
  <2>4. Accepts(t)' /\ Chosen(cmd[t])' = Chosen(cmd[t])
    BY <1>1, <2>1, <2>2, <2>3, AcceptsKeeps
  <2>5. plan'[t].day <= today'
    <3>1. plan[t].day \in Days
      BY DEF SessionsTyped
    <3>2. plan[t].day \in Nat /\ today \in Nat /\ today' \in Nat
      BY <3>1, LabelsFinite DEF TablesTyped, WorldTyped
    <3>3. QED
      BY <1>1, <2>3, <3>2
  <2>6. \A q \in Stays' : stay'[q].from <= plan'[t].day
    BY <1>1, <2>1, <2>3 DEF hostelTables, Stays
  <2>7. QED
    BY <1>1, <2>3, <2>4, <2>5, <2>6 DEF DecisionStands
<1>10. QED
  BY <1>5, <1>6, <1>7, <1>8, <1>9 DEF SessionInv

\* A session's own state after its call ends.
LEMMA EndKeeps ==
    ASSUME SessionsTyped, LocksApart, NEW s \in Sessions, End(s)
    PROVE  /\ SessionsTyped' /\ LocksApart' /\ SessionInv(s)'
           /\ pc'[s] = "idle"
           /\ \A t \in Sessions \ {s} : SessionKept(t)
<1>1. pc' \in [Sessions -> Phases] /\ pc'[s] = "idle" /\ held'[s] = {} /\ cmd'[s] = NoCommand
  BY DEF SessionsTyped, End, GoTo, Phases
<1>2. /\ cmd' \in [Sessions -> Commands \cup {NoCommand}]
      /\ held' \in [Sessions -> SUBSET Locks]
      /\ headView' \in [Sessions -> Amounts \cup {NoRow}]
      /\ page' \in [Sessions -> [Requests -> MarkRow \cup {NoRow}]]
  BY DEF SessionsTyped, End
<1>3. plan' \in [Sessions -> [labels: SUBSET Labels, day: Days]]
  <2>1. 0 \in Days \/ Days = {}
    <3>1. Cardinality(Days) \in Nat
      BY HostelConstantsAssumption, FS_CardinalityType
    <3>2. QED
      BY <3>1, HostelConstantsAssumption
  <2>2. plan[s].day \in Days
    BY DEF SessionsTyped
  <2>3. QED
    BY <2>1, <2>2 DEF SessionsTyped, End
<1>4. LocksApart'
  BY DEF SessionsTyped, End, LocksApart
<1>5. SessionInv(s)'
  BY <1>1 DEF SessionInv, PhaseFits, HoldsLocks, CopiesFit, PageFits, DecisionStands, Working
<1>6. ASSUME NEW t \in Sessions \ {s}
      PROVE  SessionKept(t)
  BY DEF SessionsTyped, End, GoTo, SessionKept
<1>7. \A t \in Sessions : pc'[t] = "idle" => cmd'[t] = NoCommand /\ held'[t] = {}
  BY <1>1, <1>6 DEF SessionsTyped, SessionKept
<1>8. QED
  BY <1>1, <1>2, <1>3, <1>4, <1>5, <1>6, <1>7 DEF SessionsTyped

\* At most one session is at work.
LEMMA OneAtWork ==
    ASSUME IInv, NEW s \in Sessions, NEW t \in Sessions, s # t, pc[s] \in Working
    PROVE  pc[t] \notin Working
  BY DEF IInv, SessionInv, HoldsLocks, LocksApart

\* A command that writes and ends.
LEMMA CommitKeeps ==
    ASSUME IInv, NEW s \in Sessions, pc[s] \in Working, End(s), UNCHANGED world,
           TablesTyped', TablesStand',
           StructureLock \in held[s] \/ UNCHANGED fees,
           \A q \in Requests, d \in Days : MarkGrows(register[q][d], register'[q][d])
    PROVE  IInv'
<1>1. SessionsTyped /\ LocksApart /\ TablesTyped
  BY Parts
<1>2. SessionsTyped' /\ LocksApart' /\ SessionInv(s)'
  BY <1>1, EndKeeps
<1>3. ASSUME NEW t \in Sessions \ {s}
      PROVE  SessionInv(t)'
  <2>1. SessionInv(t) /\ SessionKept(t)
    BY <1>1, EndKeeps DEF IInv
  <2>2. pc[t] \notin Working
    BY OneAtWork
  <2>3. StructureLock \in held[t] => UNCHANGED fees
    BY <1>1 DEF LocksApart
  <2>4. enrolled' = enrolled /\ today <= today'
    BY <1>1, LabelsFinite DEF world, TablesTyped, WorldTyped
  <2>5. QED
    BY <1>1, <2>1, <2>2, <2>3, <2>4, OthersKeep
<1>4. (TablesTyped /\ TablesStand /\ SessionsTyped /\ LocksApart
        /\ \A t \in Sessions : SessionInv(t))'
  BY <1>2, <1>3
<1>5. QED
  BY <1>4 DEF IInv, TypeOK, TablesTyped, HostelTyped, FeesTyped, WorldTyped, SessionsTyped,
         TablesStand

\* Nothing has changed but a session's own state.
LEMMA MoveKeeps ==
    ASSUME IInv, NEW s \in Sessions,
           UNCHANGED hostelTables, UNCHANGED fees, UNCHANGED world,
           SessionsTyped', LocksApart', SessionInv(s)',
           \A t \in Sessions \ {s} : SessionKept(t)
    PROVE  IInv'
<1>1. SessionsTyped /\ LocksApart /\ TablesTyped /\ TablesStand
  BY Parts
<1>2. TablesTyped' /\ TablesStand'
  BY <1>1, TablesKeep
<1>3. /\ enrolled' = enrolled /\ today <= today'
      /\ \A q \in Requests, d \in Days : MarkGrows(register[q][d], register'[q][d])
  BY <1>1, LabelsFinite DEF world, TablesTyped, WorldTyped, MarkGrows, hostelTables
<1>4. ASSUME NEW t \in Sessions \ {s}
      PROVE  SessionInv(t)'
  BY <1>1, <1>2, <1>3, OthersKeep DEF IInv
<1>5. (TablesTyped /\ TablesStand /\ SessionsTyped /\ LocksApart
        /\ \A t \in Sessions : SessionInv(t))'
  BY <1>2, <1>4
<1>6. QED
  BY <1>5 DEF IInv, TypeOK, TablesTyped, HostelTyped, FeesTyped, WorldTyped, SessionsTyped,
         TablesStand

LEMMA RefuseKeeps ==
    ASSUME IInv, NEW s \in Sessions, Refuse(s)
    PROVE  IInv'
<1>1. UNCHANGED hostelTables /\ UNCHANGED fees /\ UNCHANGED world /\ End(s)
  BY DEF Refuse
<1>2. SessionsTyped /\ LocksApart
  BY Parts
<1>3. QED
  BY <1>1, <1>2, EndKeeps, MoveKeeps

-----------------------------------------------------------------------------
(* The steps that lock, load and decide. *)

LEMMA OpenPageKeeps ==
    ASSUME IInv, NEW s \in Sessions, OpenPage(s)
    PROVE  IInv'
<1>1. PICK c \in Commands :
        /\ c.op = "save_register"
        /\ cmd' = [cmd EXCEPT ![s] = c]
        /\ page' = [page EXCEPT ![s] = [r \in Requests |-> register[r][c.day]]]
  BY DEF OpenPage
<1>2. /\ pc[s] = "idle" /\ GoTo(s, "page") /\ UNCHANGED <<held, headView, plan>>
      /\ UNCHANGED hostelTables /\ UNCHANGED fees /\ UNCHANGED world
  BY DEF OpenPage
<1>3. SessionsTyped /\ LocksApart /\ TablesTyped
  BY Parts
<1>4. c.day \in Days
  BY <1>1, CommandFields DEF CommandFits
<1>5. [r \in Requests |-> register[r][c.day]] \in [Requests -> MarkRow \cup {NoRow}]
  BY <1>3, <1>4 DEF TablesTyped, HostelTyped
<1>6. /\ pc'[s] = "page" /\ cmd'[s] = c /\ held'[s] = held[s] /\ held[s] = {}
      /\ page'[s] = [r \in Requests |-> register[r][c.day]]
  BY <1>1, <1>2, <1>3 DEF SessionsTyped, GoTo
<1>7. SessionsTyped'
  <2>1. pc' \in [Sessions -> Phases] /\ \A t \in Sessions \ {s} : pc'[t] = pc[t]
    BY <1>2, <1>3 DEF SessionsTyped, GoTo, Phases
  <2>2. /\ cmd' \in [Sessions -> Commands \cup {NoCommand}]
        /\ page' \in [Sessions -> [Requests -> MarkRow \cup {NoRow}]]
    BY <1>1, <1>3, <1>5 DEF SessionsTyped
  <2>3. \A t \in Sessions : pc'[t] = "idle" => cmd'[t] = NoCommand /\ held'[t] = {}
    BY <1>1, <1>2, <1>3, <1>6, <2>1 DEF SessionsTyped
  <2>4. QED
    BY <1>2, <1>3, <2>1, <2>2, <2>3 DEF SessionsTyped
<1>8. LocksApart'
  BY <1>2, <1>3 DEF LocksApart
<1>9. SessionInv(s)'
  <2>1. register' = register
    BY <1>2 DEF hostelTables
  <2>2. PageFits(s)'
    <3> SUFFICES ASSUME NEW q \in Requests
                 PROVE  /\ Version(page'[s][q]) <= Version(register'[q][c.day])
                        /\ Version(page'[s][q]) = Version(register'[q][c.day])
                             => page'[s][q] = register'[q][c.day]
      BY <1>6 DEF PageFits, Version
    <3>1. page'[s][q] = register'[q][c.day] /\ register'[q][c.day] \in MarkRow \cup {NoRow}
      BY <1>3, <1>4, <1>6, <2>1 DEF TablesTyped, HostelTyped
    <3>2. Version(register'[q][c.day]) \in Nat
      BY <3>1, VersionTyped
    <3>3. QED
      BY <3>1, <3>2
  <2>3. QED
    BY <1>1, <1>6, <2>2 DEF SessionInv, PhaseFits, HoldsLocks, CopiesFit, DecisionStands, Working
<1>10. \A t \in Sessions \ {s} : SessionKept(t)
  BY <1>1, <1>2, <1>3 DEF SessionKept, GoTo, SessionsTyped
<1>11. QED
  BY <1>2, <1>7, <1>8, <1>9, <1>10, MoveKeeps

\* A session that waits for one more lock and gets it.
LEMMA LockTaken ==
    ASSUME SessionsTyped, LocksApart, NEW s \in Sessions, NEW lock \in Locks, Free(s, lock),
           held' = [held EXCEPT ![s] = @ \cup {lock}]
    PROVE  /\ held' \in [Sessions -> SUBSET Locks]
           /\ held'[s] = held[s] \cup {lock}
           /\ \A t \in Sessions \ {s} : held'[t] = held[t]
           /\ LocksApart'
  BY DEF SessionsTyped, LocksApart, Free

LEMMA FirstPhases ==
    ASSUME NEW c \in Commands
    PROVE  /\ FirstPhase(c.op) \in {"student", "head", "decide"}
           /\ FirstPhase(c.op) = "student" => c.op \in {"allocate", "transfer"}
           /\ FirstPhase(c.op) = "head" => c.op = "bill"
           /\ FirstPhase(c.op) = "decide" => c.op \notin {"allocate", "transfer", "bill"}
  BY DEF FirstPhase

LEMMA BeginKeeps ==
    ASSUME IInv, NEW s \in Sessions, NEW c \in Commands, Begin(s, c),
           \/ pc[s] = "idle" /\ c.op # "save_register"
           \/ pc[s] = "page" /\ c = cmd[s]
    PROVE  IInv'
<1>1. /\ Free(s, SchoolLock) /\ held' = [held EXCEPT ![s] = @ \cup {SchoolLock}]
      /\ event[c.req] = NoRow /\ cmd' = [cmd EXCEPT ![s] = c] /\ GoTo(s, FirstPhase(c.op))
      /\ UNCHANGED <<headView, page, plan>>
      /\ UNCHANGED hostelTables /\ UNCHANGED fees /\ UNCHANGED world
  BY DEF Begin, Acquire
<1>2. SessionsTyped /\ LocksApart /\ TablesTyped /\ SessionInv(s)
  BY Parts
<1>3. SchoolLock \in Locks
  BY DEF Locks
<1>4. /\ held' \in [Sessions -> SUBSET Locks] /\ held'[s] = held[s] \cup {SchoolLock}
      /\ \A t \in Sessions \ {s} : held'[t] = held[t]
      /\ LocksApart'
  BY <1>1, <1>2, <1>3, LockTaken
<1>5. /\ pc' \in [Sessions -> Phases] /\ pc'[s] = FirstPhase(c.op)
      /\ \A t \in Sessions \ {s} : pc'[t] = pc[t]
  BY <1>1, <1>2, FirstPhases DEF SessionsTyped, GoTo, Phases
<1>6. cmd' \in [Sessions -> Commands \cup {NoCommand}] /\ cmd'[s] = c
  BY <1>1, <1>2 DEF SessionsTyped
<1>7. SessionsTyped'
  <2>1. pc'[s] # "idle"
    BY <1>5, FirstPhases
  <2>2. \A t \in Sessions : pc'[t] = "idle" => cmd'[t] = NoCommand /\ held'[t] = {}
    BY <1>1, <1>2, <1>4, <1>5, <2>1 DEF SessionsTyped
  <2>3. QED
    BY <1>1, <1>2, <1>4, <1>5, <1>6, <2>2 DEF SessionsTyped
<1>8. SessionInv(s)'
  <2>1. event' = event /\ register' = register /\ page' = page
    BY <1>1 DEF hostelTables
  <2>2. PhaseFits(s)'
    BY <1>1, <1>5, <1>6, <2>1, FirstPhases DEF PhaseFits, Working
  <2>3. SchoolLock \in held'[s]
    BY <1>4
  <2>4. HoldsLocks(s)'
    BY <1>5, <1>6, <2>3, FirstPhases DEF HoldsLocks, SchoolLock
  <2>5. CopiesFit(s)' /\ DecisionStands(s)'
    BY <1>5, <1>6, FirstPhases DEF CopiesFit, DecisionStands
  <2>6. PageFits(s)'
    BY <1>2, <1>6, <2>1 DEF SessionInv, PageFits, Version
  <2>7. QED
    BY <2>2, <2>4, <2>5, <2>6 DEF SessionInv
<1>9. \A t \in Sessions \ {s} : SessionKept(t)
  BY <1>1, <1>2, <1>4, <1>5 DEF SessionKept, SessionsTyped
<1>10. QED
  BY <1>1, <1>4, <1>7, <1>8, <1>9, MoveKeeps

LEMMA ReceiveKeeps ==
    ASSUME IInv, NEW s \in Sessions, Receive(s)
    PROVE  IInv'
  BY BeginKeeps DEF Receive

LEMMA SavePageKeeps ==
    ASSUME IInv, NEW s \in Sessions, SavePage(s)
    PROVE  IInv'
<1>1. pc[s] = "page" /\ cmd[s] \in Commands
  BY DEF SavePage, IInv, SessionInv, PhaseFits
<1>2. PICK c \in Commands : c = cmd[s]
  BY <1>1
<1>3. QED
  BY <1>1, <1>2, BeginKeeps DEF SavePage

LEMMA ReadHeadKeeps ==
    ASSUME IInv, NEW s \in Sessions, ReadHead(s)
    PROVE  IInv'
<1>1. CASE Refuse(s)
  BY <1>1, RefuseKeeps
<1>2. CASE ~Refuse(s)
  <2>1. /\ pc[s] = "head" /\ cmd[s].stay \in Stays /\ head[cmd[s].head] # NoRow
        /\ headView' = [headView EXCEPT ![s] = head[cmd[s].head]]
        /\ GoTo(s, "structure") /\ UNCHANGED <<cmd, held, page, plan>>
        /\ UNCHANGED hostelTables /\ UNCHANGED fees /\ UNCHANGED world
    BY <1>2 DEF ReadHead
  <2>2. SessionsTyped /\ LocksApart /\ TablesTyped /\ SessionInv(s)
    BY Parts
  <2>3. cmd[s] \in Commands /\ cmd[s].op = "bill" /\ cmd[s].head \in Heads
    BY <2>1, <2>2, CommandFields DEF SessionInv, PhaseFits, CommandFits
  <2>4. SessionsTyped'
    <3>1. head[cmd[s].head] \in Amounts \cup {NoRow}
      BY <2>2, <2>3 DEF TablesTyped, FeesTyped
    <3>2. pc' \in [Sessions -> Phases] /\ pc'[s] = "structure"
      BY <2>1, <2>2 DEF SessionsTyped, GoTo, Phases
    <3>3. headView' \in [Sessions -> Amounts \cup {NoRow}]
      BY <2>1, <2>2, <3>1 DEF SessionsTyped
    <3>4. \A t \in Sessions : pc'[t] = "idle" => cmd'[t] = NoCommand /\ held'[t] = {}
      BY <2>1, <2>2, <3>2 DEF SessionsTyped, GoTo
    <3>5. QED
      BY <2>1, <2>2, <3>2, <3>3, <3>4 DEF SessionsTyped
  <2>5. LocksApart'
    BY <2>1, <2>2 DEF LocksApart
  <2>6. SessionInv(s)'
    <3>1. pc'[s] = "structure" /\ cmd'[s] = cmd[s] /\ held'[s] = held[s]
      BY <2>1, <2>2 DEF SessionsTyped, GoTo
    <3>2. Stays' = Stays /\ event' = event
      BY <2>1 DEF hostelTables, Stays
    <3>3. PhaseFits(s)' /\ HoldsLocks(s)'
      BY <2>1, <2>2, <2>3, <3>1, <3>2
         DEF SessionInv, PhaseFits, HoldsLocks, Working, SchoolLock
    <3>4. CopiesFit(s)' /\ PageFits(s)' /\ DecisionStands(s)'
      BY <2>1, <2>3, <3>1, <3>2 DEF CopiesFit, PageFits, DecisionStands
    <3>5. QED
      BY <3>3, <3>4 DEF SessionInv
  <2>7. \A t \in Sessions \ {s} : SessionKept(t)
    BY <2>1, <2>2 DEF SessionKept, GoTo, SessionsTyped
  <2>8. QED
    BY <2>1, <2>4, <2>5, <2>6, <2>7, MoveKeeps
<1>3. QED
  BY <1>1, <1>2

LEMMA LockStructureKeeps ==
    ASSUME IInv, NEW s \in Sessions, LockStructure(s)
    PROVE  IInv'
<1>1. /\ pc[s] = "structure" /\ Free(s, StructureLock)
      /\ held' = [held EXCEPT ![s] = @ \cup {StructureLock}]
      /\ GoTo(s, "student") /\ UNCHANGED <<cmd, headView, page, plan>>
      /\ UNCHANGED hostelTables /\ UNCHANGED fees /\ UNCHANGED world
  BY DEF LockStructure, Acquire
<1>2. SessionsTyped /\ LocksApart /\ SessionInv(s)
  BY Parts
<1>3. StructureLock \in Locks
  BY DEF Locks
<1>4. /\ held' \in [Sessions -> SUBSET Locks] /\ held'[s] = held[s] \cup {StructureLock}
      /\ \A t \in Sessions \ {s} : held'[t] = held[t]
      /\ LocksApart'
  BY <1>1, <1>2, <1>3, LockTaken
<1>5. /\ pc' \in [Sessions -> Phases] /\ pc'[s] = "student"
      /\ \A t \in Sessions \ {s} : pc'[t] = pc[t]
  BY <1>1, <1>2 DEF SessionsTyped, GoTo, Phases
<1>6. SessionsTyped'
  BY <1>1, <1>2, <1>4, <1>5 DEF SessionsTyped
<1>7. SessionInv(s)'
  <2>1. Stays' = Stays /\ event' = event /\ cmd[s].op = "bill"
    BY <1>1, <1>2 DEF hostelTables, Stays, SessionInv, PhaseFits
  <2>2. SchoolLock \in held'[s] /\ StructureLock \in held'[s]
    BY <1>1, <1>2, <1>4 DEF SessionInv, HoldsLocks, Working
  <2>3. HoldsLocks(s)'
    BY <1>1, <1>5, <2>1, <2>2 DEF HoldsLocks, SchoolLock, StructureLock
  <2>4. QED
    BY <1>1, <1>2, <1>5, <2>1, <2>3
       DEF SessionInv, PhaseFits, CopiesFit, PageFits, DecisionStands, Working
<1>8. \A t \in Sessions \ {s} : SessionKept(t)
  BY <1>1, <1>4, <1>5 DEF SessionKept
<1>9. QED
  BY <1>1, <1>4, <1>6, <1>7, <1>8, MoveKeeps

\* The student a command is about.
LEMMA StudentTyped ==
    ASSUME NEW s \in Sessions, NEW c \in Commands, cmd[s] = c, TablesTyped,
           c.op \in {"allocate", "transfer", "bill"}, c.op # "allocate" => c.stay \in Stays
    PROVE  StudentOf(s) \in Students
<1>1. CommandFits(c)
  BY CommandFields
<1>2. QED
  BY <1>1 DEF StudentOf, CommandFits, Stays, TablesTyped, HostelTyped, StayRow

LEMMA LockStudentKeeps ==
    ASSUME IInv, NEW s \in Sessions, LockStudent(s)
    PROVE  IInv'
<1>1. CASE Refuse(s)
  BY <1>1, RefuseKeeps
<1>2. CASE ~Refuse(s)
  <2> DEFINE p == StudentOf(s)
  <2>1. /\ pc[s] = "student" /\ (cmd[s].op = "transfer" => cmd[s].stay \in Stays)
        /\ Free(s, StudentLock(p))
        /\ IF cmd[s].op = "bill" THEN head[cmd[s].head] # NoRow ELSE p \in enrolled
        /\ held' = [held EXCEPT ![s] = @ \cup {StudentLock(p)}]
        /\ headView' = [headView EXCEPT ![s] =
                          IF cmd[s].op = "bill" THEN head[cmd[s].head] ELSE NoRow]
        /\ GoTo(s, "decide") /\ UNCHANGED <<cmd, page, plan>>
        /\ UNCHANGED hostelTables /\ UNCHANGED fees /\ UNCHANGED world
    BY <1>2 DEF LockStudent, RefreshHead
  <2>2. SessionsTyped /\ LocksApart /\ TablesTyped /\ SessionInv(s)
    BY Parts
  <2>3. PICK c \in Commands : c = cmd[s]
    BY <2>1, <2>2 DEF SessionInv, PhaseFits
  <2>4. CommandFits(c) /\ c.op \in {"allocate", "transfer", "bill"}
    BY <2>1, <2>2, <2>3, CommandFields DEF SessionInv, PhaseFits
  <2>5. c.op # "allocate" => c.stay \in Stays
    BY <2>1, <2>2, <2>3, <2>4 DEF SessionInv, CopiesFit
  <2>6. p \in Students
    BY <2>2, <2>3, <2>4, <2>5, StudentTyped
  <2>7. StudentLock(p) \in Locks
    BY <2>6 DEF Locks
  <2>8. /\ held' \in [Sessions -> SUBSET Locks] /\ held'[s] = held[s] \cup {StudentLock(p)}
        /\ \A t \in Sessions \ {s} : held'[t] = held[t]
        /\ LocksApart'
    <3> HIDE DEF p
    <3>1. QED
      BY <2>1, <2>2, <2>7, LockTaken
  <2>9. /\ pc' \in [Sessions -> Phases] /\ pc'[s] = "decide"
        /\ \A t \in Sessions \ {s} : pc'[t] = pc[t]
    BY <2>1, <2>2 DEF SessionsTyped, GoTo, Phases
  <2>10. /\ headView' \in [Sessions -> Amounts \cup {NoRow}]
         /\ c.op = "bill" => headView'[s] = head[c.head]
    <3>1. (IF c.op = "bill" THEN head[c.head] ELSE NoRow) \in Amounts \cup {NoRow}
      BY <2>2, <2>4 DEF TablesTyped, FeesTyped, CommandFits
    <3>2. QED
      BY <2>1, <2>2, <2>3, <3>1 DEF SessionsTyped
  <2>11. SessionsTyped'
    <3>1. \A t \in Sessions : pc'[t] = "idle" => cmd'[t] = NoCommand /\ held'[t] = {}
      BY <2>1, <2>2, <2>8, <2>9 DEF SessionsTyped
    <3>2. QED
      BY <2>1, <2>2, <2>8, <2>9, <2>10, <3>1 DEF SessionsTyped
  <2>12. SessionInv(s)'
    <3>1. /\ Stays' = Stays /\ stay' = stay /\ event' = event /\ head' = head
          /\ enrolled' = enrolled /\ register' = register
      BY <2>1 DEF hostelTables, Stays, fees, world
    <3>2. PhaseFits(s)' /\ CopiesFit(s)' /\ DecisionStands(s)'
      BY <2>1, <2>2, <2>3, <2>4, <2>5, <2>9, <2>10, <3>1
         DEF SessionInv, PhaseFits, CopiesFit, DecisionStands, Working
    <3>3. PageFits(s)'
      BY <2>1, <2>3, <2>4 DEF PageFits
    <3>4. HoldsLocks(s)'
      <4>1. SchoolLock \in held'[s] /\ (c.op = "bill" => StructureLock \in held'[s])
        BY <2>1, <2>2, <2>3, <2>8 DEF SessionInv, HoldsLocks, Working
      <4>2. StudentOf(s)' = p
        BY <2>1, <3>1 DEF StudentOf
      <4>3. c.op # "bill" => StudentLock(p) \in held'[s] /\ p \in enrolled
        BY <2>1, <2>3, <2>8
      <4>4. QED
        BY <2>1, <2>3, <2>9, <3>1, <4>1, <4>2, <4>3
           DEF HoldsLocks, SchoolLock, StructureLock, StudentLock
    <3>5. QED
      BY <3>2, <3>3, <3>4 DEF SessionInv
  <2>13. \A t \in Sessions \ {s} : SessionKept(t)
    BY <2>1, <2>2, <2>8, <2>9 DEF SessionKept, SessionsTyped
  <2>14. QED
    BY <2>1, <2>8, <2>11, <2>12, <2>13, MoveKeeps
<1>3. QED
  BY <1>1, <1>2

\* The labels an accepted command has chosen exist.
LEMMA ChosenTyped ==
    ASSUME NEW s \in Sessions, NEW c \in Commands, cmd[s] = c, Accepts(s)
    PROVE  Chosen(c) \subseteq Labels
<1>1. CommandFits(c)
  BY CommandFields
<1>2. CASE c.op = "create_room"
  <2>1. c.count \in Nat /\ c.count <= Cardinality(Labels) /\ Cardinality(Labels) \in Nat
    BY <1>1, <1>2, LabelsFinite DEF Accepts, CommandFits
  <2>2. Labels = 1 .. Cardinality(Labels)
    BY HostelConstantsAssumption
  <2>3. QED
    BY <1>2, <2>1, <2>2 DEF Chosen
<1>3. CASE c.op = "add_beds"
  BY <1>1, <1>3 DEF Chosen, AutoLabels, CommandFits
<1>4. CASE c.op \in {"allocate", "transfer"}
  BY <1>1, <1>4 DEF Chosen, FreeBeds, CommandFits
<1>5. CASE c.op \notin {"create_room", "add_beds", "allocate", "transfer"}
  BY <1>5 DEF Chosen
<1>6. QED
  BY <1>2, <1>3, <1>4, <1>5

LEMMA DecideKeeps ==
    ASSUME IInv, NEW s \in Sessions, Decide(s)
    PROVE  IInv'
<1>1. /\ pc[s] = "decide" /\ Accepts(s) /\ GoTo(s, "commit")
      /\ plan' = [plan EXCEPT ![s] = [labels |-> Chosen(cmd[s]), day |-> today]]
      /\ UNCHANGED <<cmd, held, headView, page>>
      /\ UNCHANGED hostelTables /\ UNCHANGED fees /\ UNCHANGED world
  BY DEF Decide
<1>2. SessionsTyped /\ LocksApart /\ TablesTyped /\ TablesStand /\ SessionInv(s)
  BY Parts
<1>3. PICK c \in Commands : c = cmd[s]
  BY <1>1, <1>2 DEF SessionInv, PhaseFits
<1>4. CommandFits(c) /\ Chosen(c) \subseteq Labels
  BY <1>1, <1>3, CommandFields, ChosenTyped
<1>5. /\ plan' \in [Sessions -> [labels: SUBSET Labels, day: Days]]
      /\ plan'[s].labels = Chosen(c) /\ plan'[s].day = today
  BY <1>1, <1>2, <1>3, <1>4 DEF SessionsTyped, TablesTyped, WorldTyped
<1>6. /\ pc' \in [Sessions -> Phases] /\ pc'[s] = "commit"
      /\ \A t \in Sessions \ {s} : pc'[t] = pc[t]
  BY <1>1, <1>2 DEF SessionsTyped, GoTo, Phases
<1>7. SessionsTyped'
  BY <1>1, <1>2, <1>5, <1>6 DEF SessionsTyped
<1>8. LocksApart'
  BY <1>1, <1>2 DEF LocksApart
<1>9. SessionInv(s)'
  <2>1. /\ Stays' = Stays /\ stay' = stay /\ event' = event /\ head' = head
        /\ enrolled' = enrolled /\ register' = register /\ today' = today
    BY <1>1 DEF hostelTables, Stays, fees, world
  <2>2. PhaseFits(s)' /\ CopiesFit(s)' /\ PageFits(s)'
    BY <1>1, <1>2, <1>3, <1>6, <2>1
       DEF SessionInv, PhaseFits, CopiesFit, PageFits, Working, Version
  <2>3. HoldsLocks(s)'
    <3>1. StudentOf(s)' = StudentOf(s)
      BY <1>1, <2>1 DEF StudentOf
    <3>2. QED
      BY <1>1, <1>2, <1>3, <1>6, <2>1, <3>1
         DEF SessionInv, HoldsLocks, SchoolLock, StructureLock, StudentLock, Working
  <2>4. DecisionStands(s)'
    <3>1. TablesTyped' /\ today \in Nat
      BY <1>1, <1>2, TablesKeep, LabelsFinite DEF TablesTyped, WorldTyped
    <3>2. Accepts(s)' /\ Chosen(cmd[s])' = Chosen(cmd[s])
      BY <1>1, <1>2, <1>3, <2>1, <3>1, AcceptsKeeps
    <3>3. \A q \in Stays : stay[q].from <= today
      BY <1>2 DEF TablesStand, StaysInOrder
    <3>4. QED
      BY <1>3, <1>5, <2>1, <3>1, <3>2, <3>3 DEF DecisionStands
  <2>5. QED
    BY <2>2, <2>3, <2>4 DEF SessionInv
<1>10. \A t \in Sessions \ {s} : SessionKept(t)
  BY <1>1, <1>2, <1>6 DEF SessionKept, SessionsTyped
<1>11. QED
  BY <1>1, <1>7, <1>8, <1>9, <1>10, MoveKeeps

-----------------------------------------------------------------------------
(* The other services. *)

\* What they do to the fees and the students leaves the sessions' part alone.
LEMMA OutsideKeeps ==
    ASSUME IInv, UNCHANGED hostelTables, UNCHANGED sessions, today <= today',
           TablesTyped', TablesStand',
           (\A s \in Sessions : StructureLock \notin held[s]) \/ UNCHANGED fees,
           \A p \in Students : p \in enrolled /\ p \notin enrolled' => Unlocked(StudentLock(p))
    PROVE  IInv'
<1>1. SessionsTyped /\ LocksApart /\ TablesTyped
  BY Parts
<1>2. SessionsTyped' /\ LocksApart'
  BY <1>1 DEF sessions, SessionsTyped, LocksApart
<1>3. ASSUME NEW t \in Sessions
      PROVE  SessionInv(t)'
  <2>1. SessionInv(t) /\ SessionKept(t)
    BY DEF IInv, SessionKept, sessions
  <2>2. \A p \in Students : StudentLock(p) \in held[t] /\ p \in enrolled => p \in enrolled'
    BY DEF Unlocked
  <2>3. \A q \in Requests, d \in Days : MarkGrows(register[q][d], register'[q][d])
    BY DEF MarkGrows, hostelTables
  <2>4. QED
    BY <1>1, <2>1, <2>2, <2>3, OthersKeep
<1>4. (TablesTyped /\ TablesStand /\ SessionsTyped /\ LocksApart
        /\ \A t \in Sessions : SessionInv(t))'
  BY <1>2, <1>3
<1>5. QED
  BY <1>4 DEF IInv, TypeOK, TablesTyped, HostelTyped, FeesTyped, WorldTyped, SessionsTyped,
         TablesStand

\* The tables of the hostel do not depend on the fees but for the charges.
LEMMA HostelStands ==
    ASSUME TablesStand, TablesTyped, UNCHANGED hostelTables, today <= today', today' \in Nat,
           ChargesAsAgreed'
    PROVE  TablesStand' /\ HostelTyped'
<1>1. /\ hostel' = hostel /\ room' = room /\ bed' = bed /\ stay' = stay
      /\ leave' = leave /\ visit' = visit /\ register' = register /\ charge' = charge
      /\ event' = event
  BY DEF hostelTables
<1>2. HostelTyped'
  BY <1>1 DEF TablesTyped, HostelTyped
<1>3. RowsFinite' /\ RequestsLogged' /\ RowsBelong'
  BY <1>1 DEF TablesStand, RowsFinite, RequestsLogged, RowsBelong, Stays
<1>4. ResidentsHoused' /\ AbsencesFit'
  BY <1>1 DEF TablesStand, ResidentsHoused, AbsencesFit, ActiveStays, Stays, OpenFor
<1>5. StaysInOrder'
  <2>1. ASSUME NEW q \in Stays PROVE stay[q].from <= today'
    <3>1. stay[q] \in StayRow /\ stay[q].from <= today /\ today \in Days
      BY DEF TablesStand, StaysInOrder, Stays, TablesTyped, HostelTyped, WorldTyped
    <3>2. stay[q].from \in Nat /\ today \in Nat
      BY <3>1, LabelsFinite DEF StayRow
    <3>3. QED
      BY <3>1, <3>2
  <2>2. Stays' = Stays /\ ActiveStays' = ActiveStays
    BY <1>1 DEF Stays, ActiveStays
  <2>3. QED
    BY <1>1, <2>1, <2>2 DEF TablesStand, StaysInOrder
<1>6. QED
  BY <1>2, <1>3, <1>4, <1>5 DEF TablesStand

LEMMA ChangeStatusKeeps ==
    ASSUME IInv, NEW p \in Leavers, ChangeStatus(p)
    PROVE  IInv'
<1>1. /\ Unlocked(StudentLock(p)) /\ today' = today
      /\ enrolled' = IF p \in enrolled THEN enrolled \ {p} ELSE enrolled \cup {p}
      /\ UNCHANGED hostelTables /\ UNCHANGED fees /\ UNCHANGED sessions
  BY DEF ChangeStatus
<1>2. TablesTyped /\ TablesStand
  BY Parts
<1>3. today \in Nat /\ p \in Students
  BY <1>2, LabelsFinite, HostelConstantsAssumption DEF TablesTyped, WorldTyped
<1>4. ChargesAsAgreed'
  BY <1>1, <1>2 DEF TablesStand, ChargesAsAgreed, fees, hostelTables
<1>5. TablesStand' /\ TablesTyped'
  BY <1>1, <1>2, <1>3, <1>4, HostelStands DEF TablesTyped, FeesTyped, WorldTyped, fees
<1>6. QED
  BY <1>1, <1>3, <1>5, OutsideKeeps

\* A head that changes has no bill, so no charge carries it.
LEMMA ChangeHeadKeeps ==
    ASSUME IInv, NEW h \in Heads, ChangeHead(h)
    PROVE  IInv'
<1>1. PICK amount \in Amounts \cup {NoRow} : head' = [head EXCEPT ![h] = amount]
  BY DEF ChangeHead
<1>2. /\ Unlocked(StructureLock) /\ \A x \in bill : x.head # h
      /\ bill' = bill /\ planActive' = planActive /\ enrolled' = enrolled /\ today' = today
      /\ UNCHANGED hostelTables /\ UNCHANGED sessions
  BY DEF ChangeHead, world
<1>3. TablesTyped /\ TablesStand
  BY Parts
<1>4. today \in Nat
  BY <1>3, LabelsFinite DEF TablesTyped, WorldTyped
<1>5. ChargesAsAgreed'
  <2>1. charge' = charge /\ stay' = stay
    BY <1>2 DEF hostelTables
  <2>2. \A x \in charge : x.head # h
    BY <1>2, <1>3 DEF TablesStand, ChargesAsAgreed
  <2>3. \A x \in charge : head'[x.head] = head[x.head]
    BY <1>1, <1>3, <2>2 DEF TablesTyped, FeesTyped
  <2>4. QED
    BY <1>2, <1>3, <2>1, <2>3 DEF TablesStand, ChargesAsAgreed
<1>6. FeesTyped' /\ WorldTyped'
  BY <1>1, <1>2, <1>3 DEF TablesTyped, FeesTyped, WorldTyped
<1>7. TablesStand' /\ TablesTyped'
  BY <1>2, <1>3, <1>4, <1>5, <1>6, HostelStands DEF TablesTyped
<1>8. QED
  BY <1>2, <1>4, <1>7, OutsideKeeps DEF Unlocked

LEMMA ArchivePlanKeeps ==
    ASSUME IInv, ArchivePlan
    PROVE  IInv'
<1>1. /\ Unlocked(StructureLock) /\ planActive' = ~planActive
      /\ bill' = bill /\ head' = head /\ enrolled' = enrolled /\ today' = today
      /\ UNCHANGED hostelTables /\ UNCHANGED sessions
  BY DEF ArchivePlan, world
<1>2. TablesTyped /\ TablesStand
  BY Parts
<1>3. today \in Nat
  BY <1>2, LabelsFinite DEF TablesTyped, WorldTyped
<1>4. ChargesAsAgreed'
  BY <1>1, <1>2 DEF TablesStand, ChargesAsAgreed, hostelTables
<1>5. FeesTyped' /\ WorldTyped'
  BY <1>1, <1>2 DEF TablesTyped, FeesTyped, WorldTyped
<1>6. TablesStand' /\ TablesTyped'
  BY <1>1, <1>2, <1>3, <1>4, <1>5, HostelStands DEF TablesTyped
<1>7. QED
  BY <1>1, <1>3, <1>6, OutsideKeeps DEF Unlocked

LEMMA GenerateBillKeeps ==
    ASSUME IInv, NEW p \in Leavers, NEW h \in Heads, GenerateBill(p, h)
    PROVE  IInv'
<1>1. PICK m \in Months :
        bill' = bill \cup {[student |-> p, head |-> h, month |-> m, amount |-> head[h]]}
  BY DEF GenerateBill
<1>2. /\ Unlocked(StructureLock) /\ head[h] # NoRow
      /\ head' = head /\ planActive' = planActive /\ enrolled' = enrolled /\ today' = today
      /\ UNCHANGED hostelTables /\ UNCHANGED sessions
  BY DEF GenerateBill, world
<1>3. TablesTyped /\ TablesStand
  BY Parts
<1>4. today \in Nat /\ p \in Students
  BY <1>3, LabelsFinite, HostelConstantsAssumption DEF TablesTyped, WorldTyped
<1>5. ChargesAsAgreed'
  BY <1>1, <1>2, <1>3 DEF TablesStand, ChargesAsAgreed, hostelTables
<1>6. FeesTyped' /\ WorldTyped'
  BY <1>1, <1>2, <1>3, <1>4 DEF TablesTyped, FeesTyped, WorldTyped, BillRow
<1>7. TablesStand' /\ TablesTyped'
  BY <1>2, <1>3, <1>4, <1>5, <1>6, HostelStands DEF TablesTyped
<1>8. QED
  BY <1>2, <1>4, <1>7, OutsideKeeps DEF Unlocked

LEMMA DayPassesKeeps ==
    ASSUME IInv, DayPasses
    PROVE  IInv'
<1>1. /\ today + 1 \in Days /\ today' = today + 1 /\ enrolled' = enrolled
      /\ UNCHANGED hostelTables /\ UNCHANGED fees /\ UNCHANGED sessions
  BY DEF DayPasses
<1>2. TablesTyped /\ TablesStand
  BY Parts
<1>3. today \in Nat /\ today' \in Nat /\ today <= today'
  BY <1>1, <1>2, LabelsFinite DEF TablesTyped, WorldTyped
<1>4. ChargesAsAgreed'
  BY <1>1, <1>2 DEF TablesStand, ChargesAsAgreed, fees, hostelTables
<1>5. FeesTyped' /\ WorldTyped'
  BY <1>1, <1>2 DEF TablesTyped, FeesTyped, WorldTyped, fees
<1>6. TablesStand' /\ TablesTyped'
  BY <1>1, <1>2, <1>3, <1>4, <1>5, HostelStands DEF TablesTyped
<1>7. QED
  BY <1>1, <1>3, <1>6, OutsideKeeps

-----------------------------------------------------------------------------
(* The counts that _sync writes. *)

\* ResidentsHoused in parts.
RoomsCounted ==
    \A r \in Rooms : room[r] # NoRow =>
      /\ room[r].capacity = Cardinality(Registered(bed[r]))
      /\ room[r].occupied = Cardinality(Resident(stay, r))
      /\ room[r].capacity <= BedLimit

HostelsCounted ==
    \A h \in Hostels : hostel[h] # NoRow =>
      /\ hostel[h].rooms = Cardinality(OpenRooms(room, h))
      /\ hostel[h].capacity = Beds(room, h)

ResidentsFit ==
    \A q \in ActiveStays :
      LET at == stay[q].room IN
      /\ bed[at][stay[q].label] = "active"
      /\ room[at].active /\ hostel[room[at].hostel].active
      /\ Suits(hostel[room[at].hostel].kind, stay[q].student)
      /\ \A other \in ActiveStays \ {q} :
           /\ stay[other].student # stay[q].student
           /\ stay[other].room # at \/ stay[other].label # stay[q].label

LEMMA HousedParts ==
    ASSUME HostelTyped
    PROVE  ResidentsHoused <=> RoomsCounted /\ HostelsCounted /\ ResidentsFit
<1>1. ASSUME NEW r \in Rooms, room[r] # NoRow
      PROVE  (room[r] = CountRoom(room[r], r, bed, stay)) <=>
                /\ room[r].capacity = Cardinality(Registered(bed[r]))
                /\ room[r].occupied = Cardinality(Resident(stay, r))
  <2>1. room[r] \in RoomRow
    BY <1>1 DEF HostelTyped
  <2>2. QED
    BY <2>1, RoomCounted
<1>2. ASSUME NEW h \in Hostels, hostel[h] # NoRow
      PROVE  (hostel[h] = CountHostel(hostel[h], h, room)) <=>
                /\ hostel[h].rooms = Cardinality(OpenRooms(room, h))
                /\ hostel[h].capacity = Beds(room, h)
  <2>1. hostel[h] \in HostelRow
    BY <1>2 DEF HostelTyped
  <2>2. QED
    BY <2>1, HostelCounted
<1>3. QED
  BY <1>1, <1>2 DEF ResidentsHoused, RoomsCounted, HostelsCounted, ResidentsFit

\* The same of the next state.
LEMMA HousedNext ==
    ASSUME HostelTyped', RoomsCounted', HostelsCounted', ResidentsFit'
    PROVE  ResidentsHoused'
<1>1. ASSUME NEW r \in Rooms, room'[r] # NoRow
      PROVE  room'[r] = CountRoom(room'[r], r, bed', stay') /\ room'[r].capacity <= BedLimit
  <2>1. room'[r] \in RoomRow
    BY <1>1 DEF HostelTyped
  <2>2. QED
    BY <1>1, <2>1, RoomCounted DEF RoomsCounted
<1>2. ASSUME NEW h \in Hostels, hostel'[h] # NoRow
      PROVE  hostel'[h] = CountHostel(hostel'[h], h, room')
  <2>1. hostel'[h] \in HostelRow
    BY <1>2 DEF HostelTyped
  <2>2. QED
    BY <1>2, <2>1, HostelCounted DEF HostelsCounted
<1>3. QED
  BY <1>1, <1>2 DEF ResidentsHoused, ResidentsFit

\* Sync writes the counts of the rooms it is given and of their hostels, and
\* the others have not changed.
LEMMA SyncCounts ==
    ASSUME HostelTyped, RoomsCounted, HostelsCounted,
           NEW rows \in [Rooms -> RoomRow \cup {NoRow}], NEW touched \in SUBSET Rooms,
           Sync(rows, touched),
           IsFiniteSet({r \in Rooms : rows[r] # NoRow}),
           IsFiniteSet({q \in Requests : stay'[q] # NoRow}),
           \A r \in touched : /\ rows[r] # NoRow /\ hostel[rows[r].hostel] # NoRow
                              /\ Cardinality(Registered(bed'[r])) <= BedLimit,
           \A r \in Rooms : room[r] # NoRow =>
             rows[r] # NoRow /\ rows[r].hostel = room[r].hostel,
           \A r \in Rooms \ touched :
             /\ rows[r] = room[r] /\ bed'[r] = bed[r]
             /\ Resident(stay', r) = Resident(stay, r)
    PROVE  /\ hostel' \in [Hostels -> HostelRow \cup {NoRow}]
           /\ room' \in [Rooms -> RoomRow \cup {NoRow}]
           /\ RoomsCounted' /\ HostelsCounted'
           /\ \A h \in Hostels : /\ (hostel'[h] = NoRow) = (hostel[h] = NoRow)
                                 /\ hostel[h] # NoRow =>
                                      /\ hostel'[h].kind = hostel[h].kind
                                      /\ hostel'[h].active = hostel[h].active
           /\ \A r \in Rooms : /\ (room'[r] = NoRow) = (rows[r] = NoRow)
                               /\ rows[r] # NoRow =>
                                    /\ room'[r].hostel = rows[r].hostel
                                    /\ room'[r].active = rows[r].active
                                    /\ room'[r].fee = rows[r].fee
<1>1. \A r \in Rooms : room'[r] = IF r \in touched THEN CountRoom(rows[r], r, bed', stay')
                                  ELSE rows[r]
  BY DEF Sync
<1>2. ASSUME NEW r \in touched
      PROVE  /\ room'[r] \in RoomRow /\ rows[r] \in RoomRow
             /\ room'[r].hostel = rows[r].hostel /\ room'[r].fee = rows[r].fee
             /\ room'[r].active = rows[r].active
             /\ room'[r].capacity = Cardinality(Registered(bed'[r]))
             /\ room'[r].occupied = Cardinality(Resident(stay', r))
  <2>1. rows[r] \in RoomRow /\ room'[r] = CountRoom(rows[r], r, bed', stay')
    BY <1>1
  <2>2. QED
    BY <2>1, CountRoomTyped
<1>3. NoRow \notin RoomRow /\ NoRow \notin HostelRow
  BY NoHostelRowAssumption
<1>4. ASSUME NEW r \in Rooms
      PROVE  /\ room'[r] \in RoomRow \cup {NoRow}
             /\ (room'[r] = NoRow) = (rows[r] = NoRow)
             /\ rows[r] # NoRow => /\ room'[r].hostel = rows[r].hostel
                                   /\ room'[r].active = rows[r].active
                                   /\ room'[r].fee = rows[r].fee
  <2>1. CASE r \in touched
    BY <1>2, <1>3, <2>1
  <2>2. CASE r \notin touched
    BY <1>1, <2>2
  <2>3. QED
    BY <2>1, <2>2
<1>5. room' \in [Rooms -> RoomRow \cup {NoRow}]
  BY <1>4 DEF Sync
<1>6. RoomsCounted'
  <2> SUFFICES ASSUME NEW r \in Rooms, room'[r] # NoRow
               PROVE  /\ room'[r].capacity = Cardinality(Registered(bed'[r]))
                      /\ room'[r].occupied = Cardinality(Resident(stay', r))
                      /\ room'[r].capacity <= BedLimit
    BY DEF RoomsCounted
  <2>1. CASE r \in touched
    BY <1>2, <2>1
  <2>2. CASE r \notin touched
    BY <1>1, <2>2 DEF RoomsCounted
  <2>3. QED
    BY <2>1, <2>2
<1>7. IsFiniteSet({r \in Rooms : room'[r] # NoRow})
  <2>1. {r \in Rooms : room'[r] # NoRow} = {r \in Rooms : rows[r] # NoRow}
    BY <1>4
  <2>2. QED
    BY <2>1
<1>8. \A h \in Hostels : hostel'[h] = IF \E r \in touched : rows[r].hostel = h
                                      THEN CountHostel(hostel[h], h, room') ELSE hostel[h]
  BY DEF Sync
<1>9. ASSUME NEW h \in Hostels, \E r \in touched : rows[r].hostel = h
      PROVE  /\ hostel'[h] \in HostelRow /\ hostel[h] \in HostelRow
             /\ hostel'[h].kind = hostel[h].kind /\ hostel'[h].active = hostel[h].active
             /\ hostel'[h].rooms = Cardinality(OpenRooms(room', h))
             /\ hostel'[h].capacity = Beds(room', h)
  <2>1. hostel[h] \in HostelRow
    BY <1>9 DEF HostelTyped
  <2>2. hostel'[h] = CountHostel(hostel[h], h, room')
    BY <1>8, <1>9
  <2>3. QED
    BY <1>5, <1>7, <2>1, <2>2, CountHostelTyped
<1>10. ASSUME NEW h \in Hostels, ~\E r \in touched : rows[r].hostel = h
       PROVE  /\ hostel'[h] = hostel[h]
              /\ OpenRooms(room', h) = OpenRooms(room, h)
              /\ Beds(room', h) = Beds(room, h)
  <2>1. hostel'[h] = hostel[h]
    BY <1>8, <1>10
  <2>2. ASSUME NEW r \in Rooms, r \in touched
        PROVE  r \notin OpenRooms(room', h) /\ r \notin OpenRooms(room, h)
    BY <1>2, <1>10, <2>2 DEF OpenRooms
  <2>3. \A r \in Rooms : r \notin touched => room'[r] = room[r]
    BY <1>1
  <2>4. OpenRooms(room', h) = OpenRooms(room, h)
    <3>1. \A r \in Rooms : r \in OpenRooms(room', h) <=> r \in OpenRooms(room, h)
      BY <2>2, <2>3 DEF OpenRooms
    <3>2. OpenRooms(room', h) \subseteq Rooms /\ OpenRooms(room, h) \subseteq Rooms
      BY DEF OpenRooms
    <3>3. QED
      BY <3>1, <3>2
  <2>5. [r \in OpenRooms(room', h) |-> room'[r].capacity]
        = [r \in OpenRooms(room, h) |-> room[r].capacity]
    <3>1. \A r \in OpenRooms(room, h) : room'[r] = room[r]
      BY <2>2, <2>3 DEF OpenRooms
    <3>2. QED
      BY <2>4, <3>1
  <2>6. Beds(room', h) = Beds(room, h)
    BY <2>5 DEF Beds
  <2>7. QED
    BY <2>1, <2>4, <2>6
<1>11. hostel' \in [Hostels -> HostelRow \cup {NoRow}]
  <2>1. \A h \in Hostels : hostel'[h] \in HostelRow \cup {NoRow}
    BY <1>9, <1>10 DEF HostelTyped
  <2>2. QED
    BY <2>1 DEF Sync
<1>12. HostelsCounted'
  BY <1>9, <1>10 DEF HostelsCounted
<1>13. \A h \in Hostels : /\ (hostel'[h] = NoRow) = (hostel[h] = NoRow)
                          /\ hostel[h] # NoRow =>
                               /\ hostel'[h].kind = hostel[h].kind
                               /\ hostel'[h].active = hostel[h].active
  BY <1>3, <1>9, <1>10
<1>14. QED
  BY <1>4, <1>5, <1>6, <1>11, <1>12, <1>13

-----------------------------------------------------------------------------
(* The commands that write and end. *)

\* What a session knows when it writes.
AtCommit(s, c) ==
    /\ c \in Commands /\ CommandFits(c) /\ c = cmd[s] /\ Accepts(s)
    /\ pc[s] \in Working /\ pc[s] = "commit"
    /\ plan[s].labels = Chosen(c)
    /\ plan[s].day \in Days /\ plan[s].day <= today
    /\ \A q \in Stays : stay[q].from <= plan[s].day
    /\ stay[c.req] = NoRow /\ leave[c.req] = NoRow /\ visit[c.req] = NoRow

LEMMA CommitContext ==
    ASSUME IInv, NEW s \in Sessions, pc[s] = "commit"
    PROVE  \E c : AtCommit(s, c)
<1>1. SessionInv(s) /\ TablesTyped /\ TablesStand /\ SessionsTyped
  BY Parts
<1>2. pc[s] \in Working
  BY DEF Working
<1>3. PICK c \in Commands : c = cmd[s]
  BY <1>1 DEF SessionInv, PhaseFits
<1>4. CommandFits(c)
  BY CommandFields
<1>5. event[c.req] = NoRow /\ c.req \in Requests
  BY <1>1, <1>2, <1>3, <1>4 DEF SessionInv, PhaseFits, CommandFits
<1>6. stay[c.req] = NoRow /\ leave[c.req] = NoRow /\ visit[c.req] = NoRow
  BY <1>1, <1>5 DEF TablesStand, RequestsLogged
<1>7. plan[s] \in [labels: SUBSET Labels, day: Days]
  BY <1>1 DEF SessionsTyped
<1>8. QED
  BY <1>1, <1>2, <1>3, <1>4, <1>6, <1>7 DEF AtCommit, SessionInv, DecisionStands

\* The log after a command.
LEMMA LogTyped ==
    ASSUME NEW s \in Sessions, NEW c, AtCommit(s, c), HostelTyped, RequestsLogged, Record(s),
           \A q \in Requests \ {c.req} :
             /\ stay[q] = NoRow => stay'[q] = NoRow
             /\ leave[q] = NoRow => leave'[q] = NoRow
             /\ visit[q] = NoRow => visit'[q] = NoRow
    PROVE  /\ event' \in [Requests -> Commands \cup {NoRow}] /\ RequestsLogged'
           /\ End(s) /\ UNCHANGED world
<1>1. event' = [event EXCEPT ![c.req] = c] /\ c \in Commands
  BY DEF Record, AtCommit
<1>2. c # NoRow /\ c.req \in Requests
  BY <1>1, NoHostelRowAssumption DEF AtCommit, CommandFits
<1>3. event' \in [Requests -> Commands \cup {NoRow}]
  BY <1>1 DEF HostelTyped
<1>4. RequestsLogged'
  BY <1>1, <1>2 DEF HostelTyped, RequestsLogged
<1>5. QED
  BY <1>3, <1>4 DEF Record

\* What only the stays, the absences and the charges decide.
StaysTyped ==
    /\ stay \in [Requests -> StayRow \cup {NoRow}]
    /\ leave \in [Requests -> AwayRow \cup {NoRow}]
    /\ visit \in [Requests -> AwayRow \cup {NoRow}]
    /\ charge \subseteq ChargeRow
    /\ \A r \in Requests : stay[r] # NoRow /\ stay[r].to # NoDay => stay[r].from <= stay[r].to

StaysStand ==
    /\ IsFiniteSet(Stays) /\ StaysInOrder /\ AbsencesFit /\ ChargesAsAgreed
    /\ \A x \in charge : x.stay \in Stays

LEMMA StaysKeep ==
    ASSUME TablesTyped, TablesStand, UNCHANGED <<stay, leave, visit, charge>>,
           UNCHANGED fees, UNCHANGED world
    PROVE  StaysTyped' /\ StaysStand'
<1>1. /\ stay' = stay /\ leave' = leave /\ visit' = visit /\ charge' = charge
      /\ head' = head /\ bill' = bill /\ today' = today
  BY DEF fees, world
<1>2. StaysTyped'
  BY <1>1 DEF TablesTyped, HostelTyped, StaysTyped
<1>3. StaysInOrder' /\ AbsencesFit' /\ ChargesAsAgreed'
  BY <1>1 DEF TablesStand, StaysInOrder, AbsencesFit, ChargesAsAgreed, ActiveStays, Stays,
     OpenFor
<1>4. IsFiniteSet(Stays)' /\ \A x \in charge' : x.stay \in Stays'
  BY <1>1 DEF TablesStand, RowsFinite, RowsBelong, Stays
<1>5. QED
  BY <1>2, <1>3, <1>4 DEF StaysStand

\* The parts put together again, in the next state.
LEMMA CommitParts ==
    ASSUME IInv, NEW s \in Sessions, NEW c, AtCommit(s, c), Record(s),
           StaysTyped', StaysStand',
           hostel' \in [Hostels -> HostelRow \cup {NoRow}],
           room' \in [Rooms -> RoomRow \cup {NoRow}],
           bed' \in [Rooms -> [Labels -> Conditions \cup {NoRow}]],
           register' \in [Requests -> [Days -> MarkRow \cup {NoRow}]],
           FeesTyped', StructureLock \in held[s] \/ UNCHANGED fees,
           \A q \in Requests, d \in Days : MarkGrows(register[q][d], register'[q][d]),
           \A q \in Requests \ {c.req} :
             /\ stay[q] = NoRow => stay'[q] = NoRow
             /\ leave[q] = NoRow => leave'[q] = NoRow
             /\ visit[q] = NoRow => visit'[q] = NoRow,
           IsFiniteSet({r \in Rooms : room'[r] # NoRow}),
           \A r \in Rooms : IF room'[r] = NoRow THEN \A l \in Labels : bed'[r][l] = NoRow
                            ELSE hostel'[room'[r].hostel] # NoRow,
           \A q \in Stays' : room'[stay'[q].room] # NoRow,
           RoomsCounted', HostelsCounted', ResidentsFit'
    PROVE  IInv'
<1>1. TablesTyped /\ TablesStand
  BY Parts
<1>2. /\ event' \in [Requests -> Commands \cup {NoRow}] /\ RequestsLogged'
      /\ End(s) /\ UNCHANGED world
  BY <1>1, LogTyped DEF TablesTyped, TablesStand
<1>3. HostelTyped'
  BY <1>2 DEF HostelTyped, StaysTyped
<1>4. WorldTyped'
  BY <1>1, <1>2 DEF TablesTyped, WorldTyped, world
<1>5. ResidentsHoused'
  BY <1>3, HousedNext
<1>6. RowsFinite'
  BY DEF RowsFinite, StaysStand
<1>7. RowsBelong'
  BY DEF RowsBelong, StaysStand
<1>8. TablesTyped' /\ TablesStand'
  BY <1>2, <1>3, <1>4, <1>5, <1>6, <1>7 DEF TablesTyped, TablesStand, StaysStand
<1>9. QED
  BY <1>2, <1>8, CommitKeeps DEF AtCommit

LEMMA CommitHostelKeeps ==
    ASSUME IInv, NEW s \in Sessions, CommitHostel(s)
    PROVE  IInv'
<1>1. PICK c : AtCommit(s, c)
  BY CommitContext DEF CommitHostel
<1>2. TablesTyped /\ TablesStand /\ HostelTyped /\ FeesTyped
  BY Parts DEF TablesTyped
<1> DEFINE new == IF c.op = "create_hostel"
                  THEN [kind |-> c.kind, rooms |-> 0, capacity |-> 0, active |-> TRUE]
                  ELSE [hostel[c.hostel] EXCEPT !.kind = c.kind, !.active = c.active]
<1>3. /\ c.op \in {"create_hostel", "update_hostel"}
      /\ hostel' = [hostel EXCEPT ![c.hostel] = new]
      /\ Record(s)
      /\ UNCHANGED <<room, bed, stay, leave, visit, register, charge>> /\ UNCHANGED fees
  BY <1>1 DEF CommitHostel, AtCommit
<1>4. /\ c.hostel \in Hostels /\ c.kind \in Kinds /\ c.active \in BOOLEAN
      /\ c.op = "create_hostel" => hostel[c.hostel] = NoRow
      /\ c.op = "update_hostel" => hostel[c.hostel] # NoRow /\ MayArchive(c)
  BY <1>1, <1>3 DEF AtCommit, CommandFits, Accepts
<1>5. c.op = "update_hostel" => hostel[c.hostel] \in HostelRow
  BY <1>2, <1>4 DEF HostelTyped
<1>6. new \in HostelRow /\ new # NoRow
  <2>1. CASE c.op = "create_hostel"
    <3>1. new \in HostelRow
      BY <1>4, <2>1 DEF HostelRow
    <3>2. QED
      BY <3>1, NoHostelRowAssumption
  <2>2. CASE c.op = "update_hostel"
    <3>1. new \in HostelRow
      BY <1>4, <1>5, <2>2 DEF HostelRow
    <3>2. QED
      BY <3>1, NoHostelRowAssumption
  <2>3. QED
    BY <1>3, <2>1, <2>2
<1>7. /\ hostel' \in [Hostels -> HostelRow \cup {NoRow}]
      /\ hostel'[c.hostel] = new /\ \A h \in Hostels \ {c.hostel} : hostel'[h] = hostel[h]
  BY <1>2, <1>3, <1>4, <1>6 DEF HostelTyped
<1>8. RoomsCounted /\ HostelsCounted /\ ResidentsFit
  BY <1>2, HousedParts DEF TablesStand
<1>9. \A r \in Rooms : room[r] # NoRow =>
        room[r].hostel \in Hostels /\ hostel[room[r].hostel] # NoRow
  BY <1>2 DEF HostelTyped, RoomRow, TablesStand, RowsBelong
<1>10. StaysTyped' /\ StaysStand'
  BY <1>2, <1>3, StaysKeep DEF Record
<1>11. RoomsCounted'
  BY <1>3, <1>8 DEF RoomsCounted
<1>12. HostelsCounted'
  <2>1. CASE c.op = "create_hostel"
    <3>1. OpenRooms(room, c.hostel) = {}
      BY <1>4, <1>9, <2>1 DEF OpenRooms
    <3>2. Beds(room, c.hostel) = 0
      <4> DEFINE f == [r \in {} |-> room[r].capacity]
      <4>1. Beds(room, c.hostel) = SumFunctionOnSet(f, {})
        BY <3>1 DEF Beds, SumFunction
      <4>2. SumOn(f, {}) = 0
        BY SumStep, FS_EmptySet
      <4>3. QED
        BY <4>1, <4>2, SumOnDef
    <3>3. QED
      BY <1>3, <1>7, <1>8, <2>1, <3>1, <3>2, FS_EmptySet DEF HostelsCounted
  <2>2. CASE c.op = "update_hostel"
    <3>1. new.rooms = hostel[c.hostel].rooms /\ new.capacity = hostel[c.hostel].capacity
      BY <1>5, <2>2 DEF HostelRow
    <3>2. QED
      BY <1>3, <1>4, <1>7, <1>8, <2>2, <3>1 DEF HostelsCounted
  <2>3. QED
    BY <1>3, <2>1, <2>2
<1>13. ResidentsFit'
  <2>1. ActiveStays' = ActiveStays
    BY <1>3 DEF ActiveStays, Stays
  <2>2. ASSUME NEW q \in ActiveStays
        PROVE  /\ hostel'[room[stay[q].room].hostel].active
               /\ hostel'[room[stay[q].room].hostel].kind = hostel[room[stay[q].room].hostel].kind
    <3> DEFINE h == room[stay[q].room].hostel
    <3>1. stay[q].room \in Rooms /\ room[stay[q].room] # NoRow
      BY <1>2 DEF ActiveStays, Stays, TablesStand, RowsBelong, HostelTyped, StayRow
    <3>2. h \in Hostels /\ hostel[h] # NoRow
      BY <1>9, <3>1
    <3>3. hostel[h].active
      BY <1>8 DEF ResidentsFit
    <3>4. CASE h = c.hostel
      <4>1. c.op = "update_hostel"
        BY <1>3, <1>4, <3>2, <3>4
      <4>2. c.active /\ c.kind = hostel[c.hostel].kind
        BY <1>4, <3>4, <4>1 DEF MayArchive
      <4>3. QED
        BY ZenonT(30), <1>5, <1>7, <3>4, <4>1, <4>2 DEF HostelRow
    <3>5. CASE h # c.hostel
      BY <1>7, <3>2, <3>3, <3>5
    <3>6. QED
      BY <3>4, <3>5
  <2>3. QED
    BY <1>3, <1>8, <2>1, <2>2 DEF ResidentsFit
<1>14. \A r \in Rooms : IF room'[r] = NoRow THEN \A l \in Labels : bed'[r][l] = NoRow
                        ELSE hostel'[room'[r].hostel] # NoRow
  <2>1. ASSUME NEW r \in Rooms, room[r] # NoRow PROVE hostel'[room[r].hostel] # NoRow
    BY <1>6, <1>7, <1>9, <2>1
  <2>2. QED
    BY <1>2, <1>3, <2>1 DEF TablesStand, RowsBelong
<1>15. /\ bed' \in [Rooms -> [Labels -> Conditions \cup {NoRow}]]
       /\ room' \in [Rooms -> RoomRow \cup {NoRow}]
       /\ register' \in [Requests -> [Days -> MarkRow \cup {NoRow}]]
       /\ IsFiniteSet({r \in Rooms : room'[r] # NoRow})
       /\ \A q \in Stays' : room'[stay'[q].room] # NoRow
       /\ \A q \in Requests, d \in Days : MarkGrows(register[q][d], register'[q][d])
  BY <1>2, <1>3 DEF HostelTyped, TablesStand, RowsFinite, RowsBelong, Stays, MarkGrows
<1>16. FeesTyped'
  BY <1>2, <1>3 DEF FeesTyped, fees
<1>17. QED
  BY <1>1, <1>3, <1>7, <1>10, <1>11, <1>12, <1>13, <1>14, <1>15, <1>16, CommitParts

\* A command that ends with _sync: it may change the rooms' other columns, the
\* beds, the stays and the absences.
LEMMA SyncKeeps ==
    ASSUME IInv, NEW s \in Sessions, NEW c, AtCommit(s, c), Record(s),
           UNCHANGED register, UNCHANGED fees, StaysTyped', StaysStand',
           \A q \in Requests \ {c.req} :
             /\ stay[q] = NoRow => stay'[q] = NoRow
             /\ leave[q] = NoRow => leave'[q] = NoRow
             /\ visit[q] = NoRow => visit'[q] = NoRow,
           bed' \in [Rooms -> [Labels -> Conditions \cup {NoRow}]],
           NEW rows \in [Rooms -> RoomRow \cup {NoRow}], NEW touched \in SUBSET Rooms,
           Sync(rows, touched),
           IsFiniteSet({r \in Rooms : rows[r] # NoRow}),
           \A r \in touched : /\ rows[r] # NoRow /\ hostel[rows[r].hostel] # NoRow
                              /\ Cardinality(Registered(bed'[r])) <= BedLimit,
           \A r \in Rooms : room[r] # NoRow =>
             rows[r] # NoRow /\ rows[r].hostel = room[r].hostel,
           \A r \in Rooms \ touched :
             /\ rows[r] = room[r] /\ bed'[r] = bed[r]
             /\ Resident(stay', r) = Resident(stay, r),
           \A q \in Stays' : rows[stay'[q].room] # NoRow,
           \A q \in ActiveStays' :
             /\ bed'[stay'[q].room][stay'[q].label] = "active"
             /\ rows[stay'[q].room].active
             /\ hostel[rows[stay'[q].room].hostel].active
             /\ Suits(hostel[rows[stay'[q].room].hostel].kind, stay'[q].student)
             /\ \A other \in ActiveStays' \ {q} :
                  /\ stay'[other].student # stay'[q].student
                  /\ stay'[other].room # stay'[q].room \/ stay'[other].label # stay'[q].label
    PROVE  IInv'
<1>1. TablesTyped /\ TablesStand /\ HostelTyped /\ FeesTyped
  BY Parts DEF TablesTyped
<1>2. RoomsCounted /\ HostelsCounted
  BY <1>1, HousedParts DEF TablesStand
<1>3. IsFiniteSet({q \in Requests : stay'[q] # NoRow})
  BY DEF StaysStand, Stays
<1>4. /\ hostel' \in [Hostels -> HostelRow \cup {NoRow}]
      /\ room' \in [Rooms -> RoomRow \cup {NoRow}]
      /\ RoomsCounted' /\ HostelsCounted'
      /\ \A h \in Hostels : /\ (hostel'[h] = NoRow) = (hostel[h] = NoRow)
                            /\ hostel[h] # NoRow => /\ hostel'[h].kind = hostel[h].kind
                                                    /\ hostel'[h].active = hostel[h].active
      /\ \A r \in Rooms : /\ (room'[r] = NoRow) = (rows[r] = NoRow)
                          /\ rows[r] # NoRow => /\ room'[r].hostel = rows[r].hostel
                                                /\ room'[r].active = rows[r].active
                                                /\ room'[r].fee = rows[r].fee
  BY <1>1, <1>2, <1>3, SyncCounts
<1>5. IsFiniteSet({r \in Rooms : room'[r] # NoRow})
  <2>1. {r \in Rooms : room'[r] # NoRow} = {r \in Rooms : rows[r] # NoRow}
    BY <1>4
  <2>2. QED
    BY <2>1
<1>6. ASSUME NEW r \in Rooms, rows[r] # NoRow
      PROVE  rows[r].hostel \in Hostels /\ hostel[rows[r].hostel] # NoRow
  <2>1. rows[r].hostel \in Hostels
    BY <1>6 DEF RoomRow
  <2>2. hostel[rows[r].hostel] # NoRow
    BY <1>1, <1>6 DEF TablesStand, RowsBelong
  <2>3. QED
    BY <2>1, <2>2
<1>7. \A r \in Rooms : IF room'[r] = NoRow THEN \A l \in Labels : bed'[r][l] = NoRow
                       ELSE hostel'[room'[r].hostel] # NoRow
  <2>1. ASSUME NEW r \in Rooms, room'[r] = NoRow
        PROVE  \A l \in Labels : bed'[r][l] = NoRow
    <3>1. rows[r] = NoRow
      BY <1>4, <2>1
    <3>2. r \notin touched /\ bed'[r] = bed[r] /\ room[r] = NoRow
      BY <3>1
    <3>3. QED
      BY <1>1, <3>2 DEF TablesStand, RowsBelong
  <2>2. ASSUME NEW r \in Rooms, room'[r] # NoRow
        PROVE  hostel'[room'[r].hostel] # NoRow
    BY <1>4, <1>6, <2>2
  <2>3. QED
    BY <2>1, <2>2
<1>8. \A q \in Stays' : stay'[q].room \in Rooms /\ room'[stay'[q].room] # NoRow
  <2>1. \A q \in Stays' : stay'[q].room \in Rooms
    BY DEF Stays, StaysTyped, StayRow
  <2>2. QED
    BY <1>4, <2>1
<1>9. ResidentsFit'
  <2> SUFFICES ASSUME NEW q \in ActiveStays'
               PROVE  /\ room'[stay'[q].room].active
                      /\ hostel'[room'[stay'[q].room].hostel].active
                      /\ Suits(hostel'[room'[stay'[q].room].hostel].kind, stay'[q].student)
    BY DEF ResidentsFit, Suits
  <2> DEFINE at == stay'[q].room
             h  == rows[at].hostel
  <2>1. at \in Rooms /\ rows[at] # NoRow
    BY <1>8 DEF ActiveStays
  <2>2. room'[at].hostel = h /\ room'[at].active = rows[at].active
    BY <1>4, <2>1
  <2>3. h \in Hostels /\ hostel[h] # NoRow
    BY <1>6, <2>1
  <2>4. hostel'[h].kind = hostel[h].kind /\ hostel'[h].active = hostel[h].active
    BY <1>4, <2>3
  <2>5. /\ rows[at].active /\ hostel[h].active /\ Suits(hostel[h].kind, stay'[q].student)
    OBVIOUS
  <2>6. QED
    BY <2>2, <2>4, <2>5
<1>10. /\ register' \in [Requests -> [Days -> MarkRow \cup {NoRow}]]
       /\ \A q \in Requests, d \in Days : MarkGrows(register[q][d], register'[q][d])
  BY <1>1 DEF HostelTyped, MarkGrows
<1>11. FeesTyped'
  BY <1>1 DEF FeesTyped, fees
<1>12. QED
  BY <1>4, <1>5, <1>7, <1>8, <1>9, <1>10, <1>11, CommitParts

\* Where the residents live now.
LEMMA ResidentsNow ==
    ASSUME IInv
    PROVE  /\ ResidentsFit /\ RoomsCounted
           /\ \A q \in Stays : /\ stay[q] \in StayRow /\ stay[q].room \in Rooms
                               /\ room[stay[q].room] # NoRow /\ stay[q].label \in Labels
           /\ ActiveStays \subseteq Stays
<1>1. TablesTyped /\ TablesStand /\ HostelTyped
  BY Parts DEF TablesTyped
<1>2. ResidentsFit /\ RoomsCounted
  BY <1>1, HousedParts DEF TablesStand
<1>3. QED
  BY <1>1, <1>2 DEF ActiveStays, Stays, HostelTyped, StayRow, TablesStand, RowsBelong

\* A command on rooms and beds, which leaves the stays alone.
LEMMA RoomsKeep ==
    ASSUME IInv, NEW s \in Sessions, NEW c, AtCommit(s, c), Record(s),
           UNCHANGED <<stay, leave, visit, register, charge>>, UNCHANGED fees,
           bed' \in [Rooms -> [Labels -> Conditions \cup {NoRow}]],
           NEW r \in Rooms, NEW row \in RoomRow, Sync([room EXCEPT ![r] = row], {r}),
           hostel[row.hostel] # NoRow,
           Cardinality(Registered(bed'[r])) <= BedLimit,
           room[r] # NoRow => row.hostel = room[r].hostel,
           \A x \in Rooms \ {r} : bed'[x] = bed[x],
           \A q \in ActiveStays : stay[q].room = r =>
             /\ bed'[r][stay[q].label] = "active"
             /\ row.active /\ hostel[row.hostel].active
    PROVE  IInv'
<1>1. TablesTyped /\ TablesStand /\ HostelTyped
  BY Parts DEF TablesTyped
<1>2. StaysTyped' /\ StaysStand'
  BY <1>1, StaysKeep DEF Record
<1> DEFINE rows == [room EXCEPT ![r] = row]
<1>3. /\ rows \in [Rooms -> RoomRow \cup {NoRow}]
      /\ rows[r] = row /\ \A x \in Rooms \ {r} : rows[x] = room[x]
  BY <1>1 DEF HostelTyped
<1>4. row # NoRow
  BY NoHostelRowAssumption
<1>5. IsFiniteSet({x \in Rooms : rows[x] # NoRow})
  <2>1. {x \in Rooms : rows[x] # NoRow} = {x \in Rooms : room[x] # NoRow} \cup {r}
    BY <1>3, <1>4
  <2>2. PICK D, E : /\ D = {x \in Rooms : room[x] # NoRow}
                    /\ E = {x \in Rooms : rows[x] # NoRow}
    OBVIOUS
  <2>3. IsFiniteSet(D)
    BY <1>1, <2>2 DEF TablesStand, RowsFinite
  <2>4. E = D \cup {r}
    BY <2>1, <2>2
  <2>5. IsFiniteSet(E)
    BY <2>3, <2>4, FS_AddElement
  <2>6. QED
    BY <2>2, <2>5
<1>6. Stays' = Stays /\ ActiveStays' = ActiveStays /\ stay' = stay
  BY DEF Stays, ActiveStays
<1>7. \A q \in Stays : stay[q].room \in Rooms /\ rows[stay[q].room] # NoRow
  BY <1>3, <1>4, ResidentsNow
<1>8. ASSUME NEW q \in ActiveStays
      PROVE  /\ bed'[stay[q].room][stay[q].label] = "active"
             /\ rows[stay[q].room].active
             /\ hostel[rows[stay[q].room].hostel].active
             /\ Suits(hostel[rows[stay[q].room].hostel].kind, stay[q].student)
             /\ \A other \in ActiveStays \ {q} :
                  /\ stay[other].student # stay[q].student
                  /\ stay[other].room # stay[q].room \/ stay[other].label # stay[q].label
  <2>1. /\ stay[q].room \in Rooms /\ room[stay[q].room] # NoRow
        /\ bed[stay[q].room][stay[q].label] = "active"
        /\ room[stay[q].room].active
        /\ hostel[room[stay[q].room].hostel].active
        /\ Suits(hostel[room[stay[q].room].hostel].kind, stay[q].student)
        /\ \A other \in ActiveStays \ {q} :
             /\ stay[other].student # stay[q].student
             /\ stay[other].room # stay[q].room \/ stay[other].label # stay[q].label
    BY ResidentsNow DEF ResidentsFit
  <2>2. CASE stay[q].room = r
    BY <1>3, <2>1, <2>2
  <2>3. CASE stay[q].room # r
    BY <1>3, <2>1, <2>3
  <2>4. QED
    BY <2>2, <2>3
<1>9. \A x \in Rooms : room[x] # NoRow => rows[x] # NoRow /\ rows[x].hostel = room[x].hostel
  BY <1>3, <1>4
<1>10. \A x \in {r} : /\ rows[x] # NoRow /\ hostel[rows[x].hostel] # NoRow
                      /\ Cardinality(Registered(bed'[x])) <= BedLimit
  BY <1>3, <1>4
<1>11. \A x \in Rooms \ {r} : /\ rows[x] = room[x] /\ bed'[x] = bed[x]
                              /\ Resident(stay', x) = Resident(stay, x)
  BY <1>3, <1>6
<1>12. {r} \in SUBSET Rooms
  OBVIOUS
<1>13. /\ \A q \in Stays' : rows[stay'[q].room] # NoRow
       /\ \A q \in ActiveStays' :
            /\ bed'[stay'[q].room][stay'[q].label] = "active"
            /\ rows[stay'[q].room].active
            /\ hostel[rows[stay'[q].room].hostel].active
            /\ Suits(hostel[rows[stay'[q].room].hostel].kind, stay'[q].student)
            /\ \A other \in ActiveStays' \ {q} :
                 /\ stay'[other].student # stay'[q].student
                 /\ stay'[other].room # stay'[q].room \/ stay'[other].label # stay'[q].label
  BY <1>6, <1>7, <1>8
<1>14. QED
  <2> HIDE DEF rows
  <2>1. \A q \in Requests \ {c.req} :
          /\ stay[q] = NoRow => stay'[q] = NoRow
          /\ leave[q] = NoRow => leave'[q] = NoRow
          /\ visit[q] = NoRow => visit'[q] = NoRow
    OBVIOUS
  <2>2. Sync(rows, {r})
    BY DEF rows
  <2>3. QED
    BY <1>2, <1>3, <1>5, <1>9, <1>10, <1>11, <1>12, <1>13, <2>1, <2>2, SyncKeeps

LEMMA CommitBedsKeeps ==
    ASSUME IInv, NEW s \in Sessions, CommitBeds(s)
    PROVE  IInv'
<1>1. PICK c : AtCommit(s, c)
  BY CommitContext DEF CommitBeds
<1>2. TablesTyped /\ TablesStand /\ HostelTyped
  BY Parts DEF TablesTyped
<1> DEFINE r == c.room
           labels == plan[s].labels
           row == IF c.op = "add_beds" THEN room[r]
                  ELSE [hostel |-> c.hostel, capacity |-> 0, occupied |-> 0,
                        fee |-> c.fee, active |-> TRUE]
<1>3. /\ c.op \in {"create_room", "add_beds"}
      /\ Cardinality(labels) = c.count
      /\ bed' = [bed EXCEPT ![r] = [l \in Labels |-> IF l \in labels THEN "active" ELSE bed[r][l]]]
      /\ UNCHANGED <<stay, leave, visit, register, charge>> /\ UNCHANGED fees
      /\ Sync(IF c.op = "add_beds" THEN room
              ELSE [room EXCEPT ![r] = [hostel |-> c.hostel, capacity |-> 0, occupied |-> 0,
                                        fee |-> c.fee, active |-> TRUE]], {r})
      /\ Record(s)
  BY <1>1 DEF CommitBeds, AtCommit, NewBeds
<1>4. /\ r \in Rooms /\ c.count \in Nat \ {0} /\ labels = Chosen(c) /\ labels \subseteq Labels
      /\ c.op = "create_room" => c.hostel \in Hostels /\ c.fee \in Amounts
  BY <1>1, <1>3, ChosenTyped DEF AtCommit, CommandFits
<1>5. /\ c.op = "create_room" => /\ room[r] = NoRow /\ hostel[c.hostel] # NoRow
                                 /\ hostel[c.hostel].active /\ c.count <= BedLimit
      /\ c.op = "add_beds" => room[r] # NoRow /\ room[r].capacity + c.count <= BedLimit
  BY <1>1, <1>3 DEF AtCommit, Accepts
<1>6. /\ row \in RoomRow /\ hostel[row.hostel] # NoRow
      /\ room[r] # NoRow => row.hostel = room[r].hostel
  BY <1>2, <1>3, <1>4, <1>5 DEF HostelTyped, RoomRow, TablesStand, RowsBelong
<1>7. Sync([room EXCEPT ![r] = row], {r})
  <2>1. CASE c.op = "add_beds"
    <3>1. [room EXCEPT ![r] = room[r]] = room
      BY <1>2, <1>4 DEF HostelTyped
    <3>2. QED
      BY <1>3, <2>1, <3>1
  <2>2. CASE c.op = "create_room"
    BY <1>3, <2>2
  <2>3. QED
    BY <1>3, <2>1, <2>2
<1>8. /\ bed' \in [Rooms -> [Labels -> Conditions \cup {NoRow}]]
      /\ \A l \in Labels : bed'[r][l] = IF l \in labels THEN "active" ELSE bed[r][l]
      /\ \A x \in Rooms \ {r} : bed'[x] = bed[x]
  BY <1>2, <1>3, <1>4 DEF HostelTyped, Conditions
<1>9. Cardinality(Registered(bed'[r])) <= BedLimit
  <2>1. Registered(bed'[r]) \in SUBSET (Registered(bed[r]) \cup labels)
    BY <1>8 DEF Registered
  <2>2. /\ IsFiniteSet(labels) /\ IsFiniteSet(Registered(bed[r]))
    <3>1. labels \in SUBSET Labels /\ Registered(bed[r]) \in SUBSET Labels
      BY <1>4 DEF Registered
    <3>2. QED
      BY <3>1, LabelsFinite, FS_Subset
  <2>3. Cardinality(labels) \in Nat /\ Cardinality(Registered(bed[r])) \in Nat
    BY <2>2, FS_CardinalityType
  <2>4. /\ IsFiniteSet(Registered(bed[r]) \cup labels)
        /\ Cardinality(Registered(bed[r]) \cup labels)
             = Cardinality(Registered(bed[r])) + Cardinality(labels)
                 - Cardinality(Registered(bed[r]) \cap labels)
    <3> HIDE DEF labels
    <3>1. QED
      BY <2>2, FS_Union
  <2>5. Cardinality(Registered(bed[r]) \cap labels) \in Nat
    <3> HIDE DEF labels
    <3>1. QED
      BY <2>2, FS_Intersection, FS_CardinalityType
  <2>6. /\ Cardinality(Registered(bed'[r])) <= Cardinality(Registered(bed[r]) \cup labels)
        /\ Cardinality(Registered(bed'[r])) \in Nat
    BY <2>1, <2>4, FS_Subset, FS_CardinalityType
  <2>7. Cardinality(Registered(bed[r])) + c.count <= BedLimit
    <3>1. CASE c.op = "add_beds"
      BY <1>4, <1>5, <3>1, ResidentsNow DEF RoomsCounted
    <3>2. CASE c.op = "create_room"
      <4>1. Registered(bed[r]) = {}
        BY <1>2, <1>4, <1>5, <3>2 DEF Registered, TablesStand, RowsBelong
      <4>2. QED
        BY <1>4, <1>5, <3>2, <4>1, FS_EmptySet
    <3>3. QED
      BY <1>3, <3>1, <3>2
  <2>8. QED
    BY <1>3, <1>4, <2>3, <2>4, <2>5, <2>6, <2>7, LabelsFinite
<1>10. ASSUME NEW q \in ActiveStays, stay[q].room = r
       PROVE  /\ bed'[r][stay[q].label] = "active" /\ row.active /\ hostel[row.hostel].active
  <2>1. room[r] # NoRow /\ stay[q].label \in Labels /\ c.op = "add_beds"
    BY <1>3, <1>5, <1>10, ResidentsNow
  <2>2. bed[r][stay[q].label] = "active" /\ room[r].active /\ hostel[room[r].hostel].active
    BY <1>10, ResidentsNow DEF ResidentsFit
  <2>3. QED
    BY <1>8, <2>1, <2>2
<1>11. \A q \in ActiveStays : stay[q].room = r =>
         bed'[r][stay[q].label] = "active" /\ row.active /\ hostel[row.hostel].active
  BY <1>10
<1>12. QED
  <2>1. PICK new : new = row
    OBVIOUS
  <2> HIDE DEF row, r, labels
  <2>2. /\ new \in RoomRow /\ hostel[new.hostel] # NoRow
        /\ room[r] # NoRow => new.hostel = room[r].hostel
        /\ Sync([room EXCEPT ![r] = new], {r})
        /\ \A q \in ActiveStays : stay[q].room = r =>
             bed'[r][stay[q].label] = "active" /\ new.active /\ hostel[new.hostel].active
    BY <1>6, <1>7, <1>11, <2>1
  <2>3. /\ Record(s) /\ r \in Rooms
        /\ UNCHANGED <<stay, leave, visit, register, charge>> /\ UNCHANGED fees
    BY <1>3, <1>4
  <2>4. /\ bed' \in [Rooms -> [Labels -> Conditions \cup {NoRow}]]
        /\ \A x \in Rooms \ {r} : bed'[x] = bed[x]
    BY <1>8
  <2>5. QED
    BY <1>1, <1>9, <2>2, <2>3, <2>4, RoomsKeep

LEMMA CommitRoomKeeps ==
    ASSUME IInv, NEW s \in Sessions, CommitRoom(s)
    PROVE  IInv'
<1>1. PICK c : AtCommit(s, c)
  BY CommitContext DEF CommitRoom, Ready
<1>2. TablesTyped /\ TablesStand /\ HostelTyped
  BY Parts DEF TablesTyped
<1> DEFINE r == c.room
           row == [room[r] EXCEPT !.fee = c.fee, !.active = c.active]
<1>3. /\ c.op = "update_room"
      /\ bed' = bed /\ UNCHANGED <<stay, leave, visit, register, charge>> /\ UNCHANGED fees
      /\ Sync([room EXCEPT ![r].fee = c.fee, ![r].active = c.active], {r})
      /\ Record(s)
  BY <1>1 DEF CommitRoom, AtCommit, Ready
<1>4. r \in Rooms /\ c.fee \in Amounts /\ c.active \in BOOLEAN
  BY <1>1, <1>3 DEF AtCommit, CommandFits
<1>5. /\ room[r] # NoRow
      /\ IF c.active THEN hostel[room[r].hostel].active ELSE room[r].occupied = 0
  BY <1>1, <1>3 DEF AtCommit, Accepts
<1>6. room[r] \in RoomRow
  BY <1>2, <1>4, <1>5 DEF HostelTyped
<1>7. /\ row \in RoomRow /\ row.hostel = room[r].hostel /\ row.active = c.active
      /\ hostel[room[r].hostel] # NoRow
  BY <1>2, <1>4, <1>5, <1>6 DEF RoomRow, TablesStand, RowsBelong
<1>8. Sync([room EXCEPT ![r] = row], {r})
  <2>1. [room EXCEPT ![r].fee = c.fee, ![r].active = c.active] = [room EXCEPT ![r] = row]
    BY <1>2, <1>4 DEF HostelTyped
  <2>2. QED
    BY <1>3, <2>1
<1>9. Cardinality(Registered(bed'[r])) <= BedLimit
  BY <1>3, <1>4, <1>5, ResidentsNow DEF RoomsCounted
<1>10. ASSUME NEW q \in ActiveStays, stay[q].room = r
       PROVE  /\ bed'[r][stay[q].label] = "active" /\ row.active /\ hostel[row.hostel].active
  <2>1. bed[r][stay[q].label] = "active" /\ room[r].active /\ hostel[room[r].hostel].active
    BY <1>10, ResidentsNow DEF ResidentsFit
  <2>2. c.active
    <3> SUFFICES ASSUME ~c.active PROVE FALSE
      OBVIOUS
    <3>1. Cardinality(Resident(stay, r)) = 0
      BY <1>4, <1>5, ResidentsNow DEF RoomsCounted
    <3>2. Resident(stay, r) \in SUBSET Stays /\ q \in Resident(stay, r)
      BY <1>10 DEF Resident, Stays, ActiveStays
    <3>3. IsFiniteSet(Resident(stay, r))
      BY <1>2, <3>2, FS_Subset DEF TablesStand, RowsFinite
    <3>4. QED
      BY <3>1, <3>2, <3>3, FS_EmptySet
  <2>3. QED
    BY <1>3, <1>7, <2>1, <2>2
<1>11. bed' \in [Rooms -> [Labels -> Conditions \cup {NoRow}]]
  BY <1>2, <1>3 DEF HostelTyped
<1>12. \A q \in ActiveStays : stay[q].room = r =>
         bed'[r][stay[q].label] = "active" /\ row.active /\ hostel[row.hostel].active
  BY <1>10
<1>13. QED
  <2>1. PICK new : new = row
    OBVIOUS
  <2> HIDE DEF row, r
  <2>2. /\ new \in RoomRow /\ hostel[new.hostel] # NoRow
        /\ new.hostel = room[r].hostel
        /\ Sync([room EXCEPT ![r] = new], {r})
        /\ \A q \in ActiveStays : stay[q].room = r =>
             bed'[r][stay[q].label] = "active" /\ new.active /\ hostel[new.hostel].active
    BY <1>7, <1>8, <1>12, <2>1
  <2>3. \A x \in Rooms \ {r} : bed'[x] = bed[x]
    BY <1>3
  <2>4. QED
    BY SMTT(90), <1>1, <1>3, <1>4, <1>9, <1>11, <2>2, <2>3, RoomsKeep

LEMMA CommitBedKeeps ==
    ASSUME IInv, NEW s \in Sessions, CommitBed(s)
    PROVE  IInv'
<1>1. PICK c : AtCommit(s, c)
  BY CommitContext DEF CommitBed, Ready
<1>2. TablesTyped /\ TablesStand /\ HostelTyped
  BY Parts DEF TablesTyped
<1> DEFINE r == c.room
           k == c.label
<1>3. /\ c.op = "update_bed"
      /\ bed' = [bed EXCEPT ![r][k] = c.status]
      /\ UNCHANGED <<stay, leave, visit, register, charge>> /\ UNCHANGED fees
      /\ Sync(room, {r})
      /\ Record(s)
  BY <1>1 DEF CommitBed, AtCommit, Ready
<1>4. r \in Rooms /\ k \in Labels /\ c.status \in Conditions
  BY <1>1, <1>3 DEF AtCommit, CommandFits
<1>5. /\ bed[r][k] # NoRow /\ ~Occupied(r, k)
      /\ bed[r][k] = "retired" /\ c.status # "retired" => room[r].capacity < BedLimit
  BY <1>1, <1>3 DEF AtCommit, Accepts
<1>6. room[r] # NoRow
  BY <1>2, <1>4, <1>5 DEF TablesStand, RowsBelong
<1>7. room[r] \in RoomRow /\ hostel[room[r].hostel] # NoRow
  BY <1>2, <1>4, <1>6 DEF HostelTyped, TablesStand, RowsBelong
<1>8. Sync([room EXCEPT ![r] = room[r]], {r})
  <2>1. [room EXCEPT ![r] = room[r]] = room
    BY <1>2, <1>4 DEF HostelTyped
  <2>2. QED
    BY <1>3, <2>1
<1>9. /\ bed' \in [Rooms -> [Labels -> Conditions \cup {NoRow}]]
      /\ bed'[r][k] = c.status /\ \A l \in Labels \ {k} : bed'[r][l] = bed[r][l]
      /\ \A x \in Rooms \ {r} : bed'[x] = bed[x]
  BY <1>2, <1>3, <1>4 DEF HostelTyped
<1>10. Cardinality(Registered(bed'[r])) <= BedLimit
  <2>1. /\ Cardinality(Registered(bed[r])) = room[r].capacity
        /\ Cardinality(Registered(bed[r])) <= BedLimit
    BY <1>4, <1>6, ResidentsNow DEF RoomsCounted
  <2>2. Registered(bed[r]) \in SUBSET Labels
    BY DEF Registered
  <2>3. IsFiniteSet(Registered(bed[r])) /\ Cardinality(Registered(bed[r])) \in Nat
    BY <2>2, LabelsFinite, FS_Subset, FS_CardinalityType
  <2>4. CASE bed[r][k] = "retired" /\ c.status # "retired"
    <3>1. Registered(bed'[r]) \in SUBSET (Registered(bed[r]) \cup {k})
      BY <1>9 DEF Registered
    <3>2. /\ IsFiniteSet(Registered(bed[r]) \cup {k})
          /\ Cardinality(Registered(bed[r]) \cup {k}) <= Cardinality(Registered(bed[r])) + 1
          /\ Cardinality(Registered(bed[r]) \cup {k}) \in Nat
      <4> DEFINE S == Registered(bed[r])
      <4>1. IsFiniteSet(S) /\ Cardinality(S) \in Nat
        BY <2>3
      <4> HIDE DEF k, S
      <4>2. /\ IsFiniteSet(S \cup {k})
            /\ Cardinality(S \cup {k}) = IF k \in S THEN Cardinality(S) ELSE Cardinality(S) + 1
        BY <4>1, FS_AddElement
      <4>3. QED
        BY <4>1, <4>2 DEF S
    <3>3. /\ Cardinality(Registered(bed'[r])) <= Cardinality(Registered(bed[r]) \cup {k})
          /\ Cardinality(Registered(bed'[r])) \in Nat
      BY <3>1, <3>2, FS_Subset, FS_CardinalityType
    <3>4. QED
      BY <1>5, <2>1, <2>3, <2>4, <3>2, <3>3, LabelsFinite
  <2>5. CASE ~(bed[r][k] = "retired" /\ c.status # "retired")
    <3>1. Registered(bed'[r]) \in SUBSET Registered(bed[r])
      BY <1>5, <1>9, <2>5 DEF Registered
    <3>2. /\ Cardinality(Registered(bed'[r])) <= Cardinality(Registered(bed[r]))
          /\ Cardinality(Registered(bed'[r])) \in Nat
      BY <2>3, <3>1, FS_Subset, FS_CardinalityType
    <3>3. QED
      BY <2>1, <2>3, <3>2, LabelsFinite
  <2>6. QED
    BY <2>4, <2>5
<1>11. ASSUME NEW q \in ActiveStays, stay[q].room = r
       PROVE  /\ bed'[r][stay[q].label] = "active"
              /\ room[r].active /\ hostel[room[r].hostel].active
  <2>1. bed[r][stay[q].label] = "active" /\ room[r].active /\ hostel[room[r].hostel].active
    BY <1>11, ResidentsNow DEF ResidentsFit
  <2>2. stay[q].label \in Labels /\ stay[q].label # k
    BY <1>5, <1>11, ResidentsNow DEF Occupied
  <2>3. QED
    BY <1>9, <2>1, <2>2
<1>12. QED
  <2> HIDE DEF k, r
  <2>1. QED
    BY <1>1, <1>3, <1>4, <1>7, <1>8, <1>9, <1>10, <1>11, RoomsKeep

\* The bed of a new stay is one of those chosen.
LEMMA LabelChosen ==
    ASSUME NEW c \in Commands, c.op \in {"allocate", "transfer"}, Chosen(c) # {}
    PROVE  Min(Chosen(c)) \in Chosen(c)
<1> DEFINE S == Chosen(c)
<1>1. \E x \in S : \A y \in S : x <= y
  <2>1. c.label \in Labels \cup {NoLabel} /\ Labels \subseteq Int
    BY CommandFields, LabelsFinite DEF CommandFits
  <2>2. CASE c.label # NoLabel
    BY <2>1, <2>2 DEF Chosen
  <2>3. CASE c.label = NoLabel
    <3> DEFINE free == FreeBeds(c.room, IF c.op = "transfer" THEN {c.stay} ELSE {})
    <3>1. S = {l \in free : \A k \in free : l <= k}
      BY <2>3 DEF Chosen
    <3> HIDE DEF free
    <3>2. \A x, y \in S : x <= y
      BY <3>1
    <3>3. QED
      BY <3>2
  <2>4. QED
    BY <2>2, <2>3
<1> HIDE DEF S
<1>2. Min(S) \in S
  BY <1>1 DEF Min
<1>3. QED
  BY <1>2 DEF S

LEMMA OneMore ==
    ASSUME NEW S, IsFiniteSet(S), NEW x, x \notin S
    PROVE  /\ IsFiniteSet(S \cup {x}) /\ Cardinality(S) \in Nat
           /\ Cardinality(S \cup {x}) = Cardinality(S) + 1
  BY FS_AddElement, FS_CardinalityType

DatedBy(day) ==
    \A q \in Stays : stay[q].order \in Nat /\ stay[q].from \in Nat /\ stay[q].from <= day

StaysRemain ==
    \A q \in Stays : /\ stay'[q].student = stay[q].student
                     /\ stay'[q].from = stay[q].from /\ stay'[q].order = stay[q].order

NewestOf(admitted, closing, day) ==
    \A q \in admitted :
      /\ stay'[q].from = day /\ stay'[q].order = Cardinality(Stays)
      /\ \A x \in ActiveStays \ closing : stay[x].student # stay'[q].student

\* The order of the stays after one more of them.
LEMMA OrderKeeps ==
    ASSUME StaysInOrder, IsFiniteSet(Stays), today \in Nat, today' = today,
           NEW day \in Nat, day <= today, DatedBy(day),
           NEW req, req \notin Stays, NEW admitted \in SUBSET {req}, NEW closing,
           Stays' = Stays \cup admitted, ActiveStays \subseteq Stays,
           ActiveStays' = (ActiveStays \ closing) \cup admitted,
           StaysRemain, NewestOf(admitted, closing, day)
    PROVE  StaysInOrder'
<1> USE DEF DatedBy, StaysRemain, NewestOf
<1>1. /\ Cardinality(Stays) \in Nat
      /\ Cardinality(Stays') = IF admitted = {} THEN Cardinality(Stays)
                               ELSE Cardinality(Stays) + 1
  <2>1. Cardinality(Stays) \in Nat
    BY FS_CardinalityType
  <2>2. CASE admitted = {}
    BY <2>1, <2>2
  <2>3. CASE admitted # {}
    BY <2>3, OneMore
  <2>4. QED
    BY <2>2, <2>3, <2>1
<1>2. /\ \A q \in Stays : stay[q].order < Cardinality(Stays)
      /\ \A q, r \in Stays : stay[q].order = stay[r].order => q = r
      /\ \A q \in ActiveStays : \A r \in Stays \ {q} :
           stay[r].student = stay[q].student =>
             stay[r].order < stay[q].order /\ stay[r].from <= stay[q].from
  BY DEF StaysInOrder
<1>3. ASSUME NEW q \in Stays'
      PROVE  stay'[q].order < Cardinality(Stays') /\ stay'[q].from <= today'
  <2>1. CASE q \in Stays
    BY <1>1, <1>2, <2>1
  <2>2. CASE q \in admitted
    BY <1>1, <2>2
  <2>3. QED
    BY <2>1, <2>2
<1>4. ASSUME NEW q \in Stays', NEW r \in Stays', stay'[q].order = stay'[r].order
      PROVE  q = r
  <2>1. CASE q \in Stays /\ r \in Stays
    BY <1>2, <1>4, <2>1
  <2>2. CASE q \in Stays /\ r \in admitted
    BY <1>1, <1>2, <1>4, <2>2
  <2>3. CASE r \in Stays /\ q \in admitted
    BY <1>1, <1>2, <1>4, <2>3
  <2>4. CASE r \in admitted /\ q \in admitted
    BY <2>4
  <2>5. QED
    BY <2>1, <2>2, <2>3, <2>4
<1>5. ASSUME NEW q \in ActiveStays', NEW r \in Stays' \ {q},
             stay'[r].student = stay'[q].student
      PROVE  stay'[r].order < stay'[q].order /\ stay'[r].from <= stay'[q].from
  <2>1. CASE q \in admitted
    BY <1>1, <1>2, <2>1
  <2>2. CASE q \in ActiveStays \ closing
    <3>1. r \in Stays /\ q \in Stays
      BY <1>5, <2>2
    <3>2. QED
      BY <1>2, <1>5, <2>2, <3>1
  <2>3. QED
    BY <2>1, <2>2
<1>6. QED
  BY <1>3, <1>4, <1>5 DEF StaysInOrder

\* Stays close and one may begin, on the day it was decided.
StaysBecome(s, closing, admitted, new) ==
    stay' = [q \in Requests |->
               IF q \in admitted THEN new
               ELSE IF q \in closing THEN [stay[q] EXCEPT !.to = plan[s].day]
               ELSE stay[q]]

NoneAway(closing) == \A q \in closing : ~OpenFor(leave, q) /\ ~OpenFor(visit, q)

AdmittedFits(s, closing, admitted, new) ==
    admitted # {} =>
      /\ new.from = plan[s].day /\ new.to = NoDay /\ new.order = Cardinality(Stays)
      /\ room[new.room] # NoRow /\ room[new.room].active
      /\ hostel[room[new.room].hostel].active
      /\ Suits(hostel[room[new.room].hostel].kind, new.student)
      /\ \A q \in ActiveStays \ closing : stay[q].student # new.student
      /\ new.label \in FreeBeds(new.room, closing)

RoomsTouched(closing, admitted, new, touched) ==
    /\ \A r \in touched : room[r] # NoRow
    /\ \A q \in closing : stay[q].room \in touched
    /\ admitted # {} => new.room \in touched

\* A command that closes stays on the day it was decided and admits a student.
LEMMA StaysMove ==
    ASSUME IInv, NEW s \in Sessions, NEW c, AtCommit(s, c), Record(s),
           UNCHANGED <<bed, leave, visit, register, charge>>, UNCHANGED fees,
           NEW closing \in SUBSET ActiveStays, NEW admitted \in SUBSET {c.req},
           NEW new \in StayRow, StaysBecome(s, closing, admitted, new),
           NoneAway(closing), AdmittedFits(s, closing, admitted, new),
           NEW touched \in SUBSET Rooms, Sync(room, touched),
           RoomsTouched(closing, admitted, new, touched)
    PROVE  IInv'
<1> USE DEF StaysBecome, NoneAway, AdmittedFits, RoomsTouched
<1>1. TablesTyped /\ TablesStand /\ HostelTyped
  BY Parts DEF TablesTyped
<1>2. /\ bed' = bed /\ leave' = leave /\ visit' = visit /\ charge' = charge
      /\ bill' = bill /\ head' = head /\ today' = today
  BY DEF fees, Record, world
<1>3. /\ c.req \in Requests /\ stay[c.req] = NoRow /\ plan[s].day \in Days
      /\ plan[s].day <= today /\ \A q \in Stays : stay[q].from <= plan[s].day
      /\ plan[s].day # NoDay
  BY NoHostelRowAssumption DEF AtCommit, CommandFits
<1>4. /\ NoRow \notin StayRow
      /\ \A q \in Stays : stay[q] \in StayRow
      /\ closing \subseteq Stays /\ ActiveStays \subseteq Stays /\ admitted \cap Stays = {}
      /\ Stays \subseteq Requests
  BY <1>1, <1>3, NoHostelRowAssumption DEF HostelTyped, Stays, ActiveStays
<1>5. ASSUME NEW q \in closing
      PROVE  /\ stay'[q] \in StayRow /\ stay'[q].to = plan[s].day
             /\ stay'[q].student = stay[q].student /\ stay'[q].room = stay[q].room
             /\ stay'[q].label = stay[q].label /\ stay'[q].fee = stay[q].fee
             /\ stay'[q].from = stay[q].from /\ stay'[q].order = stay[q].order
  <2>1. stay'[q] = [stay[q] EXCEPT !.to = plan[s].day] /\ stay[q] \in StayRow
    BY <1>4
  <2>2. QED
    BY <1>3, <2>1 DEF StayRow
<1>6. \A q \in admitted : stay'[q] = new
  BY <1>3
<1>7. \A q \in Requests : q \notin admitted /\ q \notin closing => stay'[q] = stay[q]
  OBVIOUS
<1>8. ASSUME NEW q \in Stays
      PROVE  /\ stay'[q].student = stay[q].student /\ stay'[q].room = stay[q].room
             /\ stay'[q].label = stay[q].label /\ stay'[q].fee = stay[q].fee
             /\ stay'[q].from = stay[q].from /\ stay'[q].order = stay[q].order
             /\ stay'[q] \in StayRow
  BY <1>4, <1>5, <1>7
<1>9. /\ Stays' = Stays \cup admitted
      /\ ActiveStays' = (ActiveStays \ closing) \cup admitted
  <2>1. \A q \in Requests : stay'[q] # NoRow <=> q \in Stays \/ q \in admitted
    BY <1>4, <1>6, <1>7, <1>8 DEF Stays
  <2>2. Stays' = Stays \cup admitted
    BY <1>3, <2>1 DEF Stays
  <2>3. \A q \in Stays' : stay'[q].to = NoDay <=> q \in (ActiveStays \ closing) \cup admitted
    BY <1>3, <1>4, <1>5, <1>6, <1>7, <2>2 DEF ActiveStays
  <2>4. QED
    BY <1>4, <2>2, <2>3 DEF ActiveStays
<1>10. StaysTyped'
  <2>1. \A q \in Requests : stay'[q] \in StayRow \cup {NoRow}
    BY <1>1, <1>5, <1>6, <1>7 DEF HostelTyped
  <2>2. stay' \in [Requests -> StayRow \cup {NoRow}]
    BY <2>1
  <2>3. ASSUME NEW q \in Requests, stay'[q] # NoRow, stay'[q].to # NoDay
        PROVE  stay'[q].from <= stay'[q].to
    <3>1. CASE q \in closing
      BY <1>3, <1>4, <1>5, <3>1
    <3>2. CASE q \in admitted
      BY <1>6, <2>3, <3>2
    <3>3. CASE q \notin closing /\ q \notin admitted
      BY <1>1, <1>7, <2>3, <3>3 DEF HostelTyped
    <3>4. QED
      BY <3>1, <3>2, <3>3
  <2>4. QED
    BY <1>1, <1>2, <2>2, <2>3 DEF StaysTyped, HostelTyped
<1>11. IsFiniteSet(Stays) /\ IsFiniteSet(Stays')
  <2>1. IsFiniteSet(Stays)
    BY <1>1 DEF TablesStand, RowsFinite
  <2>2. IsFiniteSet(admitted)
    BY FS_Singleton, FS_Subset
  <2>3. QED
    BY <1>9, <2>1, <2>2, FS_Union
<1>12. StaysInOrder'
  <2>1. StaysInOrder
    BY <1>1 DEF TablesStand
  <2>2. today \in Nat /\ plan[s].day \in Nat
    BY <1>1, <1>3, LabelsFinite DEF TablesTyped, WorldTyped
  <2>3. \A q \in Stays : stay[q].order \in Nat /\ stay[q].from \in Nat
    BY <1>4, LabelsFinite DEF StayRow
  <2>4. c.req \notin Stays
    BY <1>3 DEF Stays
  <2>5. \A q \in admitted :
          /\ stay'[q].from = plan[s].day /\ stay'[q].order = Cardinality(Stays)
          /\ \A x \in ActiveStays \ closing : stay[x].student # stay'[q].student
    BY <1>6
  <2>6. PICK day \in Nat : day = plan[s].day
    BY <2>2
  <2>7. DatedBy(day)
    BY <1>3, <2>3, <2>6 DEF DatedBy
  <2>8. NewestOf(admitted, closing, day)
    BY <2>5, <2>6 DEF NewestOf
  <2>9. StaysRemain
    BY <1>8 DEF StaysRemain
  <2>10. /\ day <= today /\ today' = today /\ Stays' = Stays \cup admitted
         /\ ActiveStays \subseteq Stays
         /\ ActiveStays' = (ActiveStays \ closing) \cup admitted
    BY <1>2, <1>3, <1>4, <1>9, <2>6
  <2>11. QED
    BY <1>11, <2>1, <2>2, <2>4, <2>7, <2>8, <2>9, <2>10, OrderKeeps
<1>13. AbsencesFit'
  <2>1. AbsencesFit
    BY <1>1 DEF TablesStand
  <2>2. ASSUME NEW q \in Requests, OpenFor(leave', q) \/ OpenFor(visit', q)
        PROVE  q \in ActiveStays'
    BY <1>2, <1>9, <2>1, <2>2 DEF AbsencesFit
  <2>3. QED
    BY <1>2, <2>1, <2>2 DEF AbsencesFit, OpenFor
<1>14. ChargesAsAgreed' /\ \A x \in charge' : x.stay \in Stays'
  <2>1. \A x \in charge : x.stay \in Stays
    BY <1>1 DEF TablesStand, RowsBelong
  <2>2. \A x \in charge : stay'[x.stay].student = stay[x.stay].student
                          /\ stay'[x.stay].fee = stay[x.stay].fee
    BY <1>8, <2>1
  <2>3. QED
    BY <1>1, <1>2, <1>9, <2>1, <2>2 DEF TablesStand, ChargesAsAgreed
<1>15. StaysStand'
  BY <1>11, <1>12, <1>13, <1>14 DEF StaysStand
<1>16. ASSUME NEW r \in Rooms \ touched
       PROVE  Resident(stay', r) = Resident(stay, r)
  <2>1. ASSUME NEW q \in Requests
        PROVE  q \in Resident(stay', r) <=> q \in Resident(stay, r)
    <3>1. CASE q \in admitted
      <4>1. stay'[q].room # r /\ stay[q] = NoRow
        BY <1>3, <1>6, <1>16, <3>1
      <4>2. QED
        BY <4>1 DEF Resident
    <3>2. CASE q \in closing
      <4>1. stay'[q].room # r /\ stay[q].room # r
        BY <1>5, <1>16, <3>2
      <4>2. QED
        BY <4>1 DEF Resident
    <3>3. CASE q \notin admitted /\ q \notin closing
      BY <1>7, <3>3 DEF Resident
    <3>4. QED
      BY <3>1, <3>2, <3>3
  <2>2. QED
    BY <2>1 DEF Resident
<1>17. \A q \in Stays' : room[stay'[q].room] # NoRow
  <2>1. \A q \in Stays : room[stay[q].room] # NoRow
    BY <1>1 DEF TablesStand, RowsBelong
  <2>2. QED
    BY ZenonT(30), <1>6, <1>8, <1>9, <2>1
<1>18. ASSUME NEW q \in ActiveStays'
       PROVE  /\ bed'[stay'[q].room][stay'[q].label] = "active"
              /\ room[stay'[q].room].active
              /\ hostel[room[stay'[q].room].hostel].active
              /\ Suits(hostel[room[stay'[q].room].hostel].kind, stay'[q].student)
              /\ \A other \in ActiveStays' \ {q} :
                   /\ stay'[other].student # stay'[q].student
                   /\ stay'[other].room # stay'[q].room \/ stay'[other].label # stay'[q].label
  <2>1. ASSUME NEW x \in ActiveStays \ closing
        PROVE  /\ stay'[x] = stay[x]
               /\ bed[stay[x].room][stay[x].label] = "active"
               /\ room[stay[x].room].active
               /\ hostel[room[stay[x].room].hostel].active
               /\ Suits(hostel[room[stay[x].room].hostel].kind, stay[x].student)
               /\ \A other \in ActiveStays \ {x} :
                    /\ stay[other].student # stay[x].student
                    /\ stay[other].room # stay[x].room \/ stay[other].label # stay[x].label
    BY <1>4, <1>7, ResidentsNow DEF ResidentsFit
  <2>2. ASSUME NEW x \in ActiveStays \ closing, admitted # {}
        PROVE  /\ stay[x].student # new.student
               /\ stay[x].room # new.room \/ stay[x].label # new.label
    BY <2>2 DEF FreeBeds
  <2>3. CASE q \in admitted
    <3>1. stay'[q] = new /\ admitted # {} /\ admitted = {q}
      BY <1>6, <2>3
    <3>2. bed[new.room][new.label] = "active"
      BY <3>1 DEF FreeBeds
    <3>3. \A other \in ActiveStays' \ {q} : other \in ActiveStays \ closing
      BY <1>9, <3>1
    <3>4. \A other \in ActiveStays' \ {q} :
            /\ stay'[other].student # new.student
            /\ stay'[other].room # new.room \/ stay'[other].label # new.label
      BY <2>1, <2>2, <3>1, <3>3
    <3>5. QED
      BY ZenonT(30), <1>2, <3>1, <3>2, <3>4
  <2>4. CASE q \in ActiveStays \ closing
    <3>1. ASSUME NEW other \in ActiveStays' \ {q}
          PROVE  /\ stay'[other].student # stay'[q].student
                 /\ stay'[other].room # stay'[q].room \/ stay'[other].label # stay'[q].label
      <4>1. CASE other \in admitted
        BY <1>6, <2>1, <2>2, <2>4, <4>1
      <4>2. CASE other \in ActiveStays \ closing
        BY <2>1, <2>4, <4>2
      <4>3. QED
        BY <1>9, <4>1, <4>2
    <3>2. QED
      BY <1>2, <2>1, <2>4, <3>1
  <2>5. QED
    BY <1>9, <2>3, <2>4
<1>19. /\ room \in [Rooms -> RoomRow \cup {NoRow}]
       /\ IsFiniteSet({r \in Rooms : room[r] # NoRow})
       /\ bed' \in [Rooms -> [Labels -> Conditions \cup {NoRow}]]
  BY <1>1, <1>2 DEF HostelTyped, TablesStand, RowsFinite
<1>20. \A r \in touched : /\ room[r] # NoRow /\ hostel[room[r].hostel] # NoRow
                          /\ Cardinality(Registered(bed'[r])) <= BedLimit
  BY <1>1, <1>2, ResidentsNow DEF TablesStand, RowsBelong, RoomsCounted
<1>21. \A q \in Requests \ {c.req} : /\ stay[q] = NoRow => stay'[q] = NoRow
                                     /\ leave[q] = NoRow => leave'[q] = NoRow
                                     /\ visit[q] = NoRow => visit'[q] = NoRow
  BY <1>2, <1>4, <1>7 DEF Stays
<1>22. \A r \in Rooms \ touched : /\ room[r] = room[r] /\ bed'[r] = bed[r]
                                  /\ Resident(stay', r) = Resident(stay, r)
  BY <1>2, <1>16
<1>23. UNCHANGED register
  OBVIOUS
<1>24. QED
  <2>1. PICK rows \in [Rooms -> RoomRow \cup {NoRow}] : rows = room
    BY <1>19
  <2>2. Sync(rows, touched)
    BY <2>1
  <2>3. /\ IsFiniteSet({r \in Rooms : rows[r] # NoRow})
        /\ \A r \in touched : /\ rows[r] # NoRow /\ hostel[rows[r].hostel] # NoRow
                              /\ Cardinality(Registered(bed'[r])) <= BedLimit
        /\ \A r \in Rooms : room[r] # NoRow => rows[r] # NoRow /\ rows[r].hostel = room[r].hostel
        /\ \A r \in Rooms \ touched : /\ rows[r] = room[r] /\ bed'[r] = bed[r]
                                      /\ Resident(stay', r) = Resident(stay, r)
        /\ \A q \in Stays' : rows[stay'[q].room] # NoRow
    BY <1>17, <1>19, <1>20, <1>22, <2>1
  <2>4. \A q \in ActiveStays' :
          /\ bed'[stay'[q].room][stay'[q].label] = "active"
          /\ rows[stay'[q].room].active
          /\ hostel[rows[stay'[q].room].hostel].active
          /\ Suits(hostel[rows[stay'[q].room].hostel].kind, stay'[q].student)
          /\ \A other \in ActiveStays' \ {q} :
               /\ stay'[other].student # stay'[q].student
               /\ stay'[other].room # stay'[q].room \/ stay'[other].label # stay'[q].label
    BY <1>18, <2>1
  <2>5. bed' \in [Rooms -> [Labels -> Conditions \cup {NoRow}]]
    BY <1>19
  <2>6. QED
    BY <1>10, <1>15, <1>21, <1>23, <2>2, <2>3, <2>4, <2>5, SyncKeeps

\* A stay that is admitted under the locks of the school and the student.
LEMMA StayAdmitted ==
    ASSUME IInv, NEW s \in Sessions, NEW c, AtCommit(s, c),
           c.op \in {"allocate", "transfer"}, NEW p \in Students, NEW closing,
           MayAdmit(p, c, closing)
    PROVE  /\ NewStay(s, p) \in StayRow
           /\ NewStay(s, p).student = p /\ NewStay(s, p).room = c.room
           /\ NewStay(s, p).from = plan[s].day /\ NewStay(s, p).to = NoDay
           /\ NewStay(s, p).order = Cardinality(Stays)
           /\ NewStay(s, p).label \in FreeBeds(c.room, closing)
           /\ c.room \in Rooms /\ room[c.room] # NoRow /\ room[c.room].active
           /\ hostel[room[c.room].hostel].active
           /\ Suits(hostel[room[c.room].hostel].kind, p)
           /\ \A q \in ActiveStays \ closing : stay[q].student # p
<1>1. TablesTyped /\ TablesStand /\ HostelTyped
  BY Parts DEF TablesTyped
<1>2. c \in Commands /\ c = cmd[s] /\ plan[s].labels = Chosen(c) /\ plan[s].day \in Days
  BY DEF AtCommit
<1>3. /\ room[c.room] # NoRow
      /\ room[c.room].active /\ hostel[room[c.room].hostel].active
      /\ Suits(hostel[room[c.room].hostel].kind, p)
      /\ \A q \in ActiveStays \ closing : stay[q].student # p
      /\ Chosen(c) # {} /\ Chosen(c) \subseteq FreeBeds(c.room, closing)
  BY DEF MayAdmit
<1>4. Min(plan[s].labels) \in FreeBeds(c.room, closing)
  BY <1>2, <1>3, LabelChosen
<1>5. Min(plan[s].labels) \in Labels
  BY <1>4 DEF FreeBeds
<1>6. c.room \in Rooms
  BY DEF AtCommit, CommandFits
<1>7. room[c.room].fee \in Amounts
  BY <1>1, <1>3, <1>6 DEF HostelTyped, RoomRow
<1>8. Cardinality(Stays) \in Nat
  BY <1>1, FS_CardinalityType DEF TablesStand, RowsFinite
<1>9. NewStay(s, p) = [student |-> p, room |-> c.room, label |-> Min(plan[s].labels),
                       fee |-> room[c.room].fee, from |-> plan[s].day, to |-> NoDay,
                       order |-> Cardinality(Stays)]
  BY <1>2 DEF NewStay
<1>10. NewStay(s, p) \in StayRow
  BY <1>2, <1>5, <1>6, <1>7, <1>8, <1>9 DEF StayRow
<1>11. QED
  BY <1>3, <1>4, <1>6, <1>9, <1>10

LEMMA CommitAllocateKeeps ==
    ASSUME IInv, NEW s \in Sessions, CommitAllocate(s)
    PROVE  IInv'
<1>1. PICK c : AtCommit(s, c)
  BY CommitContext DEF CommitAllocate, Ready
<1>2. TablesTyped /\ HostelTyped
  BY Parts DEF TablesTyped
<1>3. /\ c.op = "allocate"
      /\ stay' = [stay EXCEPT ![c.req] = NewStay(s, c.student)]
      /\ UNCHANGED <<bed, leave, visit, register, charge>> /\ UNCHANGED fees
      /\ Sync(room, {c.room})
      /\ Record(s)
  BY <1>1 DEF CommitAllocate, AtCommit, Ready
<1>4. c.req \in Requests /\ c.student \in Students /\ MayAdmit(c.student, c, {})
  BY <1>1, <1>3 DEF AtCommit, CommandFits, Accepts
<1>5. PICK new : new = NewStay(s, c.student)
  OBVIOUS
<1>6. /\ new \in StayRow /\ new.student = c.student /\ new.room = c.room
      /\ new.from = plan[s].day /\ new.to = NoDay /\ new.order = Cardinality(Stays)
      /\ new.label \in FreeBeds(c.room, {})
      /\ c.room \in Rooms /\ room[c.room] # NoRow /\ room[c.room].active
      /\ hostel[room[c.room].hostel].active
      /\ Suits(hostel[room[c.room].hostel].kind, c.student)
      /\ \A q \in ActiveStays \ {} : stay[q].student # c.student
  BY <1>1, <1>3, <1>4, <1>5, StayAdmitted
<1>7. StaysBecome(s, {}, {c.req}, new)
  BY <1>2, <1>3, <1>4, <1>5 DEF HostelTyped, StaysBecome
<1>8. /\ AdmittedFits(s, {}, {c.req}, new) /\ NoneAway({})
      /\ RoomsTouched({}, {c.req}, new, {c.room})
  BY <1>6 DEF AdmittedFits, NoneAway, RoomsTouched
<1>9. {c.room} \in SUBSET Rooms /\ {} \in SUBSET ActiveStays /\ {c.req} \in SUBSET {c.req}
  BY <1>6
<1>10. QED
  BY <1>1, <1>3, <1>6, <1>7, <1>8, <1>9, StaysMove

\* Who may leave has no open absence.
LEMMA CommitVacateKeeps ==
    ASSUME IInv, NEW s \in Sessions, CommitVacate(s)
    PROVE  IInv'
<1>1. PICK c : AtCommit(s, c)
  BY CommitContext DEF CommitVacate, Ready
<1>2. TablesTyped /\ HostelTyped
  BY Parts DEF TablesTyped
<1>3. /\ c.op = "vacate"
      /\ stay' = [stay EXCEPT ![c.stay].to = plan[s].day]
      /\ UNCHANGED <<bed, leave, visit, register, charge>> /\ UNCHANGED fees
      /\ Sync(room, {stay[c.stay].room})
      /\ Record(s)
  BY <1>1 DEF CommitVacate, AtCommit, Ready
<1>4. /\ c.stay \in ActiveStays /\ ~OpenFor(leave, c.stay) /\ ~OpenFor(visit, c.stay)
      /\ c.req \in Requests /\ c.stay \in Requests
  BY <1>1, <1>3 DEF AtCommit, CommandFits, Accepts, MayClose
<1>5. stay[c.stay] \in StayRow /\ stay[c.stay].room \in Rooms /\ room[stay[c.stay].room] # NoRow
  BY <1>4, ResidentsNow
<1>6. PICK old \in StayRow : old = stay[c.stay]
  BY <1>5
<1>7. PICK r \in Rooms : r = stay[c.stay].room
  BY <1>5
<1>8. StaysBecome(s, {c.stay}, {}, old)
  BY <1>2, <1>3, <1>4 DEF HostelTyped, StaysBecome
<1>9. /\ Sync(room, {r}) /\ Record(s)
      /\ UNCHANGED <<bed, leave, visit, register, charge>> /\ UNCHANGED fees
  BY <1>3, <1>7
<1>10. /\ AdmittedFits(s, {c.stay}, {}, old) /\ NoneAway({c.stay})
       /\ RoomsTouched({c.stay}, {}, old, {r})
  BY <1>4, <1>5, <1>7 DEF AdmittedFits, NoneAway, RoomsTouched
<1>11. {c.stay} \in SUBSET ActiveStays /\ {} \in SUBSET {c.req} /\ {r} \in SUBSET Rooms
  BY <1>4
<1>12. QED
  BY <1>1, <1>8, <1>9, <1>10, <1>11, StaysMove

LEMMA CommitTransferKeeps ==
    ASSUME IInv, NEW s \in Sessions, CommitTransfer(s)
    PROVE  IInv'
<1>1. PICK c : AtCommit(s, c)
  BY CommitContext DEF CommitTransfer, Ready
<1>2. TablesTyped /\ HostelTyped
  BY Parts DEF TablesTyped
<1>3. /\ c.op = "transfer"
      /\ stay' = [stay EXCEPT ![c.stay].to = plan[s].day,
                              ![c.req] = NewStay(s, stay[c.stay].student)]
      /\ UNCHANGED <<bed, leave, visit, register, charge>> /\ UNCHANGED fees
      /\ Sync(room, {stay[c.stay].room, c.room})
      /\ Record(s)
  BY <1>1 DEF CommitTransfer, AtCommit, Ready
<1>4. /\ c.stay \in ActiveStays /\ ~OpenFor(leave, c.stay) /\ ~OpenFor(visit, c.stay)
      /\ c.req \in Requests /\ c.stay \in Requests
      /\ MayAdmit(stay[c.stay].student, c, {c.stay})
  BY <1>1, <1>3 DEF AtCommit, CommandFits, Accepts, MayClose
<1>5. /\ stay[c.stay] \in StayRow /\ stay[c.stay].room \in Rooms
      /\ room[stay[c.stay].room] # NoRow
  BY <1>4, ResidentsNow
<1>6. PICK p \in Students : p = stay[c.stay].student
  BY <1>5 DEF StayRow
<1>7. PICK new : new = NewStay(s, p)
  OBVIOUS
<1>8. /\ new \in StayRow /\ new.student = p /\ new.room = c.room
      /\ new.from = plan[s].day /\ new.to = NoDay /\ new.order = Cardinality(Stays)
      /\ new.label \in FreeBeds(c.room, {c.stay})
      /\ c.room \in Rooms /\ room[c.room] # NoRow /\ room[c.room].active
      /\ hostel[room[c.room].hostel].active
      /\ Suits(hostel[room[c.room].hostel].kind, p)
      /\ \A q \in ActiveStays \ {c.stay} : stay[q].student # p
  BY <1>1, <1>3, <1>4, <1>6, <1>7, StayAdmitted
<1>9. c.req # c.stay
  BY <1>1, <1>4 DEF AtCommit, ActiveStays, Stays
<1>10. StaysBecome(s, {c.stay}, {c.req}, new)
  <2>1. stay \in [Requests -> StayRow \cup {NoRow}]
    BY <1>2 DEF HostelTyped
  <2>2. stay' = [stay EXCEPT ![c.stay].to = plan[s].day, ![c.req] = new]
    BY <1>3, <1>6, <1>7
  <2>3. QED
    BY <1>4, <1>9, <2>1, <2>2 DEF StaysBecome
<1>11. PICK r \in Rooms : r = stay[c.stay].room
  BY <1>5
<1>12. /\ Sync(room, {r, c.room}) /\ Record(s)
       /\ UNCHANGED <<bed, leave, visit, register, charge>> /\ UNCHANGED fees
  BY <1>3, <1>11
<1>13. /\ AdmittedFits(s, {c.stay}, {c.req}, new) /\ NoneAway({c.stay})
       /\ RoomsTouched({c.stay}, {c.req}, new, {r, c.room})
  BY <1>4, <1>5, <1>8, <1>11 DEF AdmittedFits, NoneAway, RoomsTouched
<1>14. /\ {c.stay} \in SUBSET ActiveStays /\ {c.req} \in SUBSET {c.req}
       /\ {r, c.room} \in SUBSET Rooms
  BY <1>4, <1>8
<1>15. QED
  BY <1>1, <1>8, <1>10, <1>12, <1>13, <1>14, StaysMove

\* A command that leaves hostels, rooms, beds and stays alone.
LEMMA HouseKept ==
    ASSUME IInv, NEW s \in Sessions, NEW c, AtCommit(s, c), Record(s),
           UNCHANGED <<hostel, room, bed, stay>>, StaysTyped', StaysStand', FeesTyped',
           StructureLock \in held[s] \/ UNCHANGED fees,
           register' \in [Requests -> [Days -> MarkRow \cup {NoRow}]],
           \A q \in Requests, d \in Days : MarkGrows(register[q][d], register'[q][d]),
           \A q \in Requests \ {c.req} :
             /\ leave[q] = NoRow => leave'[q] = NoRow
             /\ visit[q] = NoRow => visit'[q] = NoRow
    PROVE  IInv'
<1>1. TablesTyped /\ TablesStand /\ HostelTyped
  BY Parts DEF TablesTyped
<1>2. RoomsCounted /\ HostelsCounted /\ ResidentsFit
  BY <1>1, HousedParts DEF TablesStand
<1>3. hostel' = hostel /\ room' = room /\ bed' = bed /\ stay' = stay
  OBVIOUS
<1>4. RoomsCounted' /\ HostelsCounted' /\ ResidentsFit'
  BY <1>2, <1>3 DEF RoomsCounted, HostelsCounted, ResidentsFit, ActiveStays, Stays
<1>5. /\ hostel' \in [Hostels -> HostelRow \cup {NoRow}]
      /\ room' \in [Rooms -> RoomRow \cup {NoRow}]
      /\ bed' \in [Rooms -> [Labels -> Conditions \cup {NoRow}]]
  BY <1>1, <1>3 DEF HostelTyped
<1>6. /\ IsFiniteSet({r \in Rooms : room'[r] # NoRow})
      /\ \A r \in Rooms : IF room'[r] = NoRow THEN \A l \in Labels : bed'[r][l] = NoRow
                          ELSE hostel'[room'[r].hostel] # NoRow
      /\ \A q \in Stays' : room'[stay'[q].room] # NoRow
  BY <1>1, <1>3 DEF TablesStand, RowsFinite, RowsBelong, Stays
<1>7. \A q \in Requests \ {c.req} : /\ stay[q] = NoRow => stay'[q] = NoRow
                                    /\ leave[q] = NoRow => leave'[q] = NoRow
                                    /\ visit[q] = NoRow => visit'[q] = NoRow
  BY <1>3
<1>8. QED
  BY <1>4, <1>5, <1>6, <1>7, CommitParts

LEMMA CommitDepartureKeeps ==
    ASSUME IInv, NEW s \in Sessions, CommitDeparture(s)
    PROVE  IInv'
<1>1. PICK c : AtCommit(s, c)
  BY CommitContext DEF CommitDeparture
<1>2. TablesTyped /\ TablesStand /\ HostelTyped
  BY Parts DEF TablesTyped
<1> DEFINE row == [stay |-> c.stay, open |-> TRUE]
<1>3. /\ c.op \in {"leave", "visit"}
      /\ leave' = IF c.op = "leave" THEN [leave EXCEPT ![c.req] = row] ELSE leave
      /\ visit' = IF c.op = "visit" THEN [visit EXCEPT ![c.req] = row] ELSE visit
      /\ UNCHANGED <<hostel, room, bed, stay>> /\ stay' = stay /\ charge' = charge
      /\ register' = register /\ UNCHANGED fees /\ Record(s)
  BY <1>1 DEF CommitDeparture, AtCommit
<1>4. /\ c.req \in Requests /\ c.stay \in ActiveStays /\ leave[c.req] = NoRow
      /\ c.op = "leave" => ~OpenFor(leave, c.stay)
  BY <1>1, <1>3 DEF AtCommit, CommandFits, Accepts
<1>5. row \in AwayRow /\ row # NoRow
  <2>1. row \in AwayRow
    BY <1>4 DEF AwayRow, ActiveStays, Stays
  <2>2. QED
    BY <2>1, NoHostelRowAssumption
<1>6. /\ leave' \in [Requests -> AwayRow \cup {NoRow}] /\ visit' \in [Requests -> AwayRow \cup {NoRow}]
      /\ \A q \in Requests : leave'[q] = IF c.op = "leave" /\ q = c.req THEN row ELSE leave[q]
      /\ \A q \in Requests : visit'[q] = IF c.op = "visit" /\ q = c.req THEN row ELSE visit[q]
  BY <1>2, <1>3, <1>4, <1>5 DEF HostelTyped
<1>7. StaysTyped'
  BY <1>2, <1>3, <1>6 DEF HostelTyped, StaysTyped
<1>8. head' = head /\ bill' = bill /\ today' = today
  BY <1>3 DEF fees, Record, world
<1>9. /\ StaysInOrder' /\ ChargesAsAgreed' /\ IsFiniteSet(Stays')
      /\ \A x \in charge' : x.stay \in Stays'
  BY <1>2, <1>3, <1>8
     DEF TablesStand, StaysInOrder, ChargesAsAgreed, RowsFinite, RowsBelong, ActiveStays, Stays
<1>10. AbsencesFit'
  <2>1. AbsencesFit /\ ActiveStays' = ActiveStays
    BY <1>2, <1>3 DEF TablesStand, ActiveStays, Stays
  <2>2. ASSUME NEW q \in Requests, OpenFor(leave', q) \/ OpenFor(visit', q)
        PROVE  q \in ActiveStays'
    <3>1. OpenFor(leave, q) \/ OpenFor(visit, q) \/ q = c.stay
      BY <1>6, <2>2 DEF OpenFor
    <3>2. QED
      BY <1>4, <2>1, <3>1 DEF AbsencesFit
  <2>3. ASSUME NEW r1 \in Requests, NEW r2 \in Requests,
               leave'[r1] # NoRow, leave'[r1].open, leave'[r2] # NoRow, leave'[r2].open,
               leave'[r1].stay = leave'[r2].stay
        PROVE  r1 = r2
    <3>1. CASE r1 = c.req /\ r2 # c.req
      BY <1>4, <1>6, <2>1, <2>3, <3>1 DEF OpenFor, AbsencesFit
    <3>2. CASE r2 = c.req /\ r1 # c.req
      BY <1>4, <1>6, <2>1, <2>3, <3>2 DEF OpenFor, AbsencesFit
    <3>3. CASE r1 # c.req /\ r2 # c.req
      BY <1>6, <2>1, <2>3, <3>3 DEF AbsencesFit
    <3>4. QED
      BY <3>1, <3>2, <3>3
  <2>4. QED
    BY <2>2, <2>3 DEF AbsencesFit, OpenFor
<1>11. StaysStand'
  BY <1>9, <1>10 DEF StaysStand
<1>12. /\ register' \in [Requests -> [Days -> MarkRow \cup {NoRow}]] /\ FeesTyped'
       /\ \A q \in Requests, d \in Days : MarkGrows(register[q][d], register'[q][d])
  BY <1>2, <1>3 DEF HostelTyped, TablesTyped, FeesTyped, fees, MarkGrows
<1>13. \A q \in Requests \ {c.req} : /\ leave[q] = NoRow => leave'[q] = NoRow
                                     /\ visit[q] = NoRow => visit'[q] = NoRow
  BY <1>6
<1>14. QED
  BY <1>1, <1>3, <1>7, <1>11, <1>12, <1>13, HouseKept

LEMMA CommitReturnKeeps ==
    ASSUME IInv, NEW s \in Sessions, CommitReturn(s)
    PROVE  IInv'
<1>1. PICK c : AtCommit(s, c)
  BY CommitContext DEF CommitReturn
<1>2. TablesTyped /\ TablesStand /\ HostelTyped
  BY Parts DEF TablesTyped
<1>3. /\ c.op \in {"return_leave", "depart_visit"}
      /\ leave' = IF c.op = "return_leave" THEN [leave EXCEPT ![c.away].open = FALSE] ELSE leave
      /\ visit' = IF c.op = "depart_visit" THEN [visit EXCEPT ![c.away].open = FALSE] ELSE visit
      /\ UNCHANGED <<hostel, room, bed, stay>> /\ stay' = stay /\ charge' = charge
      /\ register' = register /\ UNCHANGED fees /\ Record(s)
  BY <1>1 DEF CommitReturn, AtCommit
<1>4. /\ c.away \in Requests
      /\ c.op = "return_leave" => leave[c.away] \in AwayRow
      /\ c.op = "depart_visit" => visit[c.away] \in AwayRow
  BY <1>1, <1>2, <1>3 DEF AtCommit, CommandFits, Accepts, HostelTyped
<1>5. /\ leave' \in [Requests -> AwayRow \cup {NoRow}]
      /\ \A q \in Requests : /\ leave'[q] = NoRow <=> leave[q] = NoRow
                             /\ leave[q] # NoRow /\ leave'[q].open => leave[q].open
                             /\ leave[q] # NoRow => leave'[q].stay = leave[q].stay
  <2>1. CASE c.op = "return_leave"
    <3>1. [leave[c.away] EXCEPT !.open = FALSE] \in AwayRow /\ NoRow \notin AwayRow
      BY <1>4, <2>1, NoHostelRowAssumption DEF AwayRow
    <3>2. \A q \in Requests : leave'[q] = IF q = c.away THEN [leave[c.away] EXCEPT !.open = FALSE]
                                          ELSE leave[q]
      BY <1>2, <1>3, <1>4, <2>1 DEF HostelTyped
    <3>3. leave' \in [Requests -> AwayRow \cup {NoRow}]
      BY <1>2, <1>3, <1>4, <2>1, <3>1 DEF HostelTyped
    <3>4. /\ [leave[c.away] EXCEPT !.open = FALSE].open = FALSE
          /\ [leave[c.away] EXCEPT !.open = FALSE].stay = leave[c.away].stay
      BY <1>4, <2>1 DEF AwayRow
    <3>5. QED
      BY <1>4, <2>1, <3>1, <3>2, <3>3, <3>4
  <2>2. CASE c.op # "return_leave"
    BY <1>2, <1>3, <2>2 DEF HostelTyped
  <2>3. QED
    BY <2>1, <2>2
<1>6. /\ visit' \in [Requests -> AwayRow \cup {NoRow}]
      /\ \A q \in Requests : /\ visit'[q] = NoRow <=> visit[q] = NoRow
                             /\ visit[q] # NoRow /\ visit'[q].open => visit[q].open
                             /\ visit[q] # NoRow => visit'[q].stay = visit[q].stay
  <2>1. CASE c.op = "depart_visit"
    <3>1. [visit[c.away] EXCEPT !.open = FALSE] \in AwayRow /\ NoRow \notin AwayRow
      BY <1>4, <2>1, NoHostelRowAssumption DEF AwayRow
    <3>2. \A q \in Requests : visit'[q] = IF q = c.away THEN [visit[c.away] EXCEPT !.open = FALSE]
                                          ELSE visit[q]
      BY <1>2, <1>3, <1>4, <2>1 DEF HostelTyped
    <3>3. visit' \in [Requests -> AwayRow \cup {NoRow}]
      BY <1>2, <1>3, <1>4, <2>1, <3>1 DEF HostelTyped
    <3>4. /\ [visit[c.away] EXCEPT !.open = FALSE].open = FALSE
          /\ [visit[c.away] EXCEPT !.open = FALSE].stay = visit[c.away].stay
      BY <1>4, <2>1 DEF AwayRow
    <3>5. QED
      BY <1>4, <2>1, <3>1, <3>2, <3>3, <3>4
  <2>2. CASE c.op # "depart_visit"
    BY <1>2, <1>3, <2>2 DEF HostelTyped
  <2>3. QED
    BY <2>1, <2>2
<1>7. StaysTyped'
  BY <1>2, <1>3, <1>5, <1>6 DEF HostelTyped, StaysTyped
<1>8. head' = head /\ bill' = bill /\ today' = today
  BY <1>3 DEF fees, Record, world
<1>9. /\ StaysInOrder' /\ ChargesAsAgreed' /\ IsFiniteSet(Stays')
      /\ \A x \in charge' : x.stay \in Stays'
  BY <1>2, <1>3, <1>8
     DEF TablesStand, StaysInOrder, ChargesAsAgreed, RowsFinite, RowsBelong, ActiveStays, Stays
<1>10. AbsencesFit'
  <2>1. AbsencesFit /\ ActiveStays' = ActiveStays
    BY <1>2, <1>3 DEF TablesStand, ActiveStays, Stays
  <2>2. \A q \in Requests : /\ OpenFor(leave', q) => OpenFor(leave, q)
                            /\ OpenFor(visit', q) => OpenFor(visit, q)
    BY <1>5, <1>6 DEF OpenFor
  <2>3. \A q \in Requests : OpenFor(leave', q) \/ OpenFor(visit', q) => q \in ActiveStays'
    BY <2>1, <2>2 DEF AbsencesFit
  <2>4. ASSUME NEW r1 \in Requests, NEW r2 \in Requests,
               leave'[r1] # NoRow, leave'[r1].open, leave'[r2] # NoRow, leave'[r2].open,
               leave'[r1].stay = leave'[r2].stay
        PROVE  r1 = r2
    BY <1>5, <2>1, <2>4 DEF AbsencesFit
  <2>5. QED
    BY <2>3, <2>4 DEF AbsencesFit, OpenFor
<1>11. StaysStand'
  BY <1>9, <1>10 DEF StaysStand
<1>12. /\ register' \in [Requests -> [Days -> MarkRow \cup {NoRow}]] /\ FeesTyped'
       /\ \A q \in Requests, d \in Days : MarkGrows(register[q][d], register'[q][d])
  BY <1>2, <1>3 DEF HostelTyped, TablesTyped, FeesTyped, fees, MarkGrows
<1>13. QED
  BY <1>1, <1>3, <1>5, <1>6, <1>7, <1>11, <1>12, HouseKept

\* The mark a save writes has a higher version than the one it replaces.
LEMMA MarksGrow ==
    ASSUME IInv, NEW s \in Sessions, NEW c, AtCommit(s, c), CommitRegister(s)
    PROVE  /\ c.op = "save_register" /\ c.day \in Days
           /\ register' \in [Requests -> [Days -> MarkRow \cup {NoRow}]]
           /\ \A q \in Requests, d \in Days : MarkGrows(register[q][d], register'[q][d])
           /\ \A q \in Requests, d \in Days : register'[q][d] # register[q][d] =>
                q \in c.entries /\ d = c.day
<1>1. HostelTyped
  BY Parts DEF TablesTyped
<1>2. /\ c.op = "save_register"
      /\ register' = [q \in Requests |->
           IF q \notin c.entries THEN register[q]
           ELSE [register[q] EXCEPT ![c.day] =
                   [status |-> c.status, version |-> Version(register[q][c.day]) + 1]]]
  BY DEF AtCommit, CommitRegister, Ready
<1>3. c.day \in Days /\ c.entries \subseteq Requests /\ c.status \in Marks
  BY <1>2 DEF AtCommit, CommandFits
<1>4. ASSUME NEW q \in Requests
      PROVE  /\ register'[q] \in [Days -> MarkRow \cup {NoRow}]
             /\ \A d \in Days : MarkGrows(register[q][d], register'[q][d])
             /\ \A d \in Days : register'[q][d] # register[q][d] => q \in c.entries /\ d = c.day
  <2>1. register[q] \in [Days -> MarkRow \cup {NoRow}]
    BY <1>1 DEF HostelTyped
  <2>2. CASE q \notin c.entries
    BY <1>2, <2>1, <2>2 DEF MarkGrows
  <2>3. CASE q \in c.entries
    <3> DEFINE new == [status |-> c.status, version |-> Version(register[q][c.day]) + 1]
    <3>1. Version(register[q][c.day]) \in Nat
      BY <1>3, <2>1, VersionTyped
    <3>2. new \in MarkRow
      BY <1>3, <3>1 DEF MarkRow
    <3>3. Version(new) = Version(register[q][c.day]) + 1
      BY <3>2, NoHostelRowAssumption DEF Version
    <3>4. register'[q] = [register[q] EXCEPT ![c.day] = new]
      BY <1>2, <2>3
    <3> HIDE DEF new
    <3>5. register'[q] \in [Days -> MarkRow \cup {NoRow}]
      BY <2>1, <3>2, <3>4
    <3>6. \A d \in Days : register'[q][d] = IF d = c.day THEN new ELSE register[q][d]
      BY <1>3, <2>1, <3>4
    <3>7. MarkGrows(register[q][c.day], new)
      BY <3>1, <3>3 DEF MarkGrows
    <3>8. QED
      BY <2>3, <3>5, <3>6, <3>7 DEF MarkGrows
  <2>4. QED
    BY <2>2, <2>3
<1>5. register' \in [Requests -> [Days -> MarkRow \cup {NoRow}]]
  BY <1>2, <1>4
<1>6. QED
  BY <1>2, <1>3, <1>4, <1>5

LEMMA CommitRegisterKeeps ==
    ASSUME IInv, NEW s \in Sessions, CommitRegister(s)
    PROVE  IInv'
<1>1. PICK c : AtCommit(s, c)
  BY CommitContext DEF CommitRegister, Ready
<1>2. TablesTyped /\ TablesStand
  BY Parts
<1>3. /\ UNCHANGED <<hostel, room, bed, stay>> /\ UNCHANGED <<stay, leave, visit, charge>>
      /\ UNCHANGED fees /\ Record(s)
  BY DEF CommitRegister
<1>4. StaysTyped' /\ StaysStand'
  BY <1>2, <1>3, StaysKeep DEF Record
<1>5. /\ register' \in [Requests -> [Days -> MarkRow \cup {NoRow}]]
      /\ \A q \in Requests, d \in Days : MarkGrows(register[q][d], register'[q][d])
  BY <1>1, MarksGrow
<1>6. FeesTyped'
  BY <1>2, <1>3 DEF TablesTyped, FeesTyped, fees
<1>7. QED
  BY <1>1, <1>3, <1>4, <1>5, <1>6, HouseKept

\* A charge and its bill carry what the stay has agreed and the head still says.
LEMMA CommitBillKeeps ==
    ASSUME IInv, NEW s \in Sessions, CommitBill(s)
    PROVE  IInv'
<1>1. PICK c : AtCommit(s, c)
  BY CommitContext DEF CommitBill, Ready
<1>2. TablesTyped /\ TablesStand /\ HostelTyped /\ FeesTyped /\ SessionInv(s)
  BY Parts DEF TablesTyped
<1> DEFINE row  == stay[c.stay]
           made == [student |-> row.student, month |-> c.month, stay |-> c.stay, head |-> c.head]
           due  == [student |-> row.student, head |-> c.head, month |-> c.month,
                    amount |-> headView[s]]
<1>3. /\ c.op = "bill"
      /\ charge' = IF ChargesOf(c) # {} THEN charge ELSE charge \cup {made}
      /\ bill' = IF ChargesOf(c) \cup BillsOf(c) # {} THEN bill ELSE bill \cup {due}
      /\ Record(s)
      /\ UNCHANGED <<hostel, room, bed, stay>>
      /\ stay' = stay /\ leave' = leave /\ visit' = visit /\ register' = register
      /\ head' = head /\ planActive' = planActive
  BY <1>1 DEF CommitBill, AtCommit, Ready
<1>4. /\ headView[s] = row.fee /\ row.fee > 0
      /\ \A x \in ChargesOf(c) : x.head = c.head
      /\ \A x \in BillsOf(c) : x.amount = row.fee
  BY <1>1, <1>3 DEF AtCommit, Accepts, MayBill
<1>5. /\ pc[s] = "commit" /\ cmd[s] = c /\ c.stay \in Requests /\ c.head \in Heads
      /\ c.month \in Months
  BY <1>1, <1>3 DEF AtCommit, CommandFits
<1>6. /\ c.stay \in Stays /\ headView[s] = head[c.head] /\ StructureLock \in held[s]
  BY <1>2, <1>3, <1>5 DEF SessionInv, CopiesFit, HoldsLocks
<1>7. row \in StayRow
  BY <1>2, <1>6 DEF HostelTyped, Stays
<1>8. row.student \in Students /\ row.fee \in Amounts
  BY <1>7 DEF StayRow
<1>9. made \in ChargeRow /\ due \in BillRow
  BY <1>4, <1>5, <1>8 DEF ChargeRow, BillRow
<1>10. StaysTyped' /\ FeesTyped'
  BY <1>2, <1>3, <1>9 DEF HostelTyped, FeesTyped, StaysTyped
<1>11. today' = today
  BY <1>3 DEF Record, world
<1>12. StaysInOrder' /\ AbsencesFit' /\ IsFiniteSet(Stays')
  BY <1>2, <1>3, <1>11
     DEF TablesStand, StaysInOrder, AbsencesFit, RowsFinite, ActiveStays, Stays, OpenFor
<1>13. \A x \in charge' : x.stay \in Stays'
  <2>1. \A x \in charge : x.stay \in Stays
    BY <1>2 DEF TablesStand, RowsBelong
  <2>2. Stays' = Stays
    BY <1>3 DEF Stays
  <2>3. QED
    BY <1>3, <1>6, <2>1, <2>2
<1>14. bill \subseteq bill'
  BY <1>3
<1>15. ChargesAsAgreed'
  <2>1. ChargesAsAgreed
    BY <1>2 DEF TablesStand
  <2>2. CASE ChargesOf(c) # {}
    BY <1>3, <1>14, <2>1, <2>2 DEF ChargesAsAgreed
  <2>3. CASE ChargesOf(c) = {}
    <3>1. charge' = charge \cup {made}
      BY <1>3, <2>3
    <3>2. [student |-> made.student, head |-> made.head, month |-> made.month,
           amount |-> row.fee] \in bill'
      <4>1. CASE BillsOf(c) = {}
        BY <1>3, <1>4, <2>3, <4>1
      <4>2. CASE BillsOf(c) # {}
        <5>1. PICK x \in bill : /\ x.student = row.student /\ x.month = c.month
                                /\ x.head = c.head /\ x.amount = row.fee
          BY <1>4, <4>2 DEF BillsOf
        <5>2. x \in BillRow
          BY <1>2 DEF FeesTyped
        <5>3. x = [student |-> row.student, head |-> c.head, month |-> c.month,
                   amount |-> row.fee]
          BY <5>1, <5>2 DEF BillRow
        <5>4. QED
          BY <1>14, <5>3
      <4>3. QED
        BY <4>1, <4>2
    <3>3. \A y \in charge : y.student # row.student \/ y.month # c.month
      BY <2>3 DEF ChargesOf
    <3>4. ASSUME NEW x \in charge'
          PROVE  /\ x.student = stay[x.stay].student
                 /\ [student |-> x.student, head |-> x.head, month |-> x.month,
                     amount |-> stay[x.stay].fee] \in bill'
                 /\ head[x.head] = stay[x.stay].fee
                 /\ \A y \in charge' : y.student = x.student /\ y.month = x.month => y = x
      <4>1. CASE x \in charge
        BY <1>14, <2>1, <3>1, <3>3, <4>1 DEF ChargesAsAgreed
      <4>2. CASE x = made
        BY <1>4, <1>6, <3>1, <3>2, <3>3, <4>2
      <4>3. QED
        BY <3>1, <4>1, <4>2
    <3>5. QED
      BY <1>3, <3>4 DEF ChargesAsAgreed
  <2>4. QED
    BY <2>2, <2>3
<1>16. StaysStand'
  BY <1>12, <1>13, <1>15 DEF StaysStand
<1>17. /\ register' \in [Requests -> [Days -> MarkRow \cup {NoRow}]]
       /\ \A q \in Requests, d \in Days : MarkGrows(register[q][d], register'[q][d])
       /\ \A q \in Requests \ {c.req} : /\ leave[q] = NoRow => leave'[q] = NoRow
                                        /\ visit[q] = NoRow => visit'[q] = NoRow
  BY <1>2, <1>3 DEF HostelTyped, MarkGrows
<1>18. QED
  BY <1>1, <1>3, <1>6, <1>10, <1>16, <1>17, HouseKept

-----------------------------------------------------------------------------
(* The inductive invariant. *)

LEMMA FirstDay == 0 \in Days
<1>1. Cardinality(Days) \in Nat
  BY HostelConstantsAssumption, FS_CardinalityType
<1>2. QED
  BY <1>1, HostelConstantsAssumption

\* The school before the first command: its rooms and hostels are counted.
LEMMA FirstTables ==
    ASSUME Init
    PROVE  TablesTyped /\ TablesStand
<1>1. /\ stay = [r \in Requests |-> NoRow] /\ leave = [r \in Requests |-> NoRow]
      /\ visit = [r \in Requests |-> NoRow] /\ event = [r \in Requests |-> NoRow]
      /\ register = [r \in Requests |-> [d \in Days |-> NoRow]]
      /\ charge = {} /\ bill = {} /\ head = FirstHeads /\ planActive = TRUE
      /\ enrolled = Students /\ today = 0
  BY DEF Init
<1>2. bed = [r \in Rooms |-> [l \in Labels |->
               IF r \in DOMAIN FirstRooms /\ l \in FirstRooms[r].beds THEN "active" ELSE NoRow]]
  BY DEF Init
<1> DEFINE first(r) == [hostel |-> FirstRooms[r].hostel, capacity |-> 0, occupied |-> 0,
                        fee |-> FirstRooms[r].fee, active |-> TRUE]
           opened(h) == [kind |-> FirstHostel[h], rooms |-> 0, capacity |-> 0, active |-> TRUE]
<1>3. Stays = {} /\ ActiveStays = {} /\ \A q \in Requests : stay[q] = NoRow
  BY <1>1 DEF Stays, ActiveStays
<1>4. IsFiniteSet(Stays)
  BY <1>3, FS_EmptySet
<1>5. /\ DOMAIN FirstRooms \subseteq Rooms
      /\ \A r \in DOMAIN FirstRooms :
           /\ FirstRooms[r].hostel \in Hostels /\ FirstHostel[FirstRooms[r].hostel] # NoRow
           /\ FirstRooms[r].beds \subseteq Labels /\ FirstRooms[r].fee \in Amounts
           /\ Cardinality(FirstRooms[r].beds) <= BedLimit
  BY HostelConstantsAssumption
<1>6. ASSUME NEW r \in DOMAIN FirstRooms
      PROVE  first(r) \in RoomRow
  BY <1>5 DEF RoomRow
<1>7. ASSUME NEW r \in DOMAIN FirstRooms
      PROVE  /\ room[r] = CountRoom(first(r), r, bed, stay)
             /\ room[r] \in RoomRow
             /\ room[r].hostel = FirstRooms[r].hostel
             /\ room[r].capacity = Cardinality(Registered(bed[r]))
             /\ room[r].occupied = Cardinality(Resident(stay, r))
  <2>1. room[r] = CountRoom(first(r), r, bed, stay)
    BY <1>5 DEF Init
  <2> HIDE DEF first
  <2>2. IsFiniteSet({q \in Requests : stay[q] # NoRow})
    BY <1>4 DEF Stays
  <2>3. /\ CountRoom(first(r), r, bed, stay) \in RoomRow
        /\ CountRoom(first(r), r, bed, stay).hostel = first(r).hostel
        /\ CountRoom(first(r), r, bed, stay).capacity = Cardinality(Registered(bed[r]))
        /\ CountRoom(first(r), r, bed, stay).occupied = Cardinality(Resident(stay, r))
    BY <1>6, <2>2, CountRoomTyped
  <2>4. first(r).hostel = FirstRooms[r].hostel
    BY DEF first
  <2>5. QED
    BY <2>1, <2>3, <2>4
<1>8. \A r \in Rooms \ DOMAIN FirstRooms : room[r] = NoRow
  BY DEF Init
<1>9. room \in [Rooms -> RoomRow \cup {NoRow}]
  <2>1. room = [r \in Rooms |-> room[r]]
    BY DEF Init
  <2>2. QED
    BY <1>7, <1>8, <2>1
<1>10. IsFiniteSet({r \in Rooms : room[r] # NoRow})
  <2>1. {r \in Rooms : room[r] # NoRow} \in SUBSET DOMAIN FirstRooms
    BY <1>8
  <2>2. QED
    BY <2>1, FS_Subset, HostelConstantsAssumption
<1>11. ASSUME NEW h \in Hostels, FirstHostel[h] # NoRow
       PROVE  /\ hostel[h] \in HostelRow
              /\ hostel[h].rooms = Cardinality(OpenRooms(room, h))
              /\ hostel[h].capacity = Beds(room, h)
  <2>1. hostel[h] = CountHostel(opened(h), h, room)
    BY <1>11 DEF Init
  <2>2. opened(h) \in HostelRow
    <3>1. FirstHostel[h] \in Kinds
      BY <1>11, HostelConstantsAssumption
    <3>2. QED
      BY <3>1 DEF HostelRow
  <2> HIDE DEF opened
  <2>3. QED
    BY <1>9, <1>10, <2>1, <2>2, CountHostelTyped
<1>12. \A h \in Hostels : FirstHostel[h] = NoRow => hostel[h] = NoRow
  BY DEF Init
<1>13. hostel \in [Hostels -> HostelRow \cup {NoRow}]
  <2>1. hostel = [h \in Hostels |-> hostel[h]]
    BY DEF Init
  <2>2. QED
    BY <1>11, <1>12, <2>1
<1>14. bed \in [Rooms -> [Labels -> Conditions \cup {NoRow}]]
  BY <1>2 DEF Conditions
<1>15. HostelTyped
  BY <1>1, <1>9, <1>13, <1>14 DEF HostelTyped
<1>16. FeesTyped /\ WorldTyped
  BY <1>1, FirstDay, HostelConstantsAssumption DEF FeesTyped, WorldTyped
<1>17. RoomsCounted
  <2>1. ASSUME NEW r \in DOMAIN FirstRooms
        PROVE  Cardinality(Registered(bed[r])) <= BedLimit
    <3>1. "active" # NoRow
      BY NoHostelRowAssumption DEF Conditions
    <3>2. Registered(bed[r]) = FirstRooms[r].beds
      BY <1>2, <1>5, <3>1 DEF Registered
    <3>3. QED
      BY <1>5, <3>2
  <2>2. QED
    BY <1>7, <1>8, <2>1 DEF RoomsCounted
<1>18. HostelsCounted
  BY <1>11, <1>12 DEF HostelsCounted
<1>19. ResidentsFit
  BY <1>3 DEF ResidentsFit
<1>20. ResidentsHoused
  BY <1>15, <1>17, <1>18, <1>19, HousedParts
<1>21. RowsFinite /\ RequestsLogged
  BY <1>1, <1>4, <1>10 DEF RowsFinite, RequestsLogged
<1>22. RowsBelong
  <2>1. ASSUME NEW r \in Rooms, room[r] = NoRow
        PROVE  r \notin DOMAIN FirstRooms
    BY <2>1, <1>7, NoHostelRowAssumption
  <2>2. ASSUME NEW r \in Rooms, room[r] # NoRow
        PROVE  hostel[room[r].hostel] # NoRow
    <3>1. r \in DOMAIN FirstRooms
      BY <1>8, <2>2
    <3>2. /\ FirstRooms[r].hostel \in Hostels /\ FirstHostel[FirstRooms[r].hostel] # NoRow
          /\ room[r].hostel = FirstRooms[r].hostel
      BY <1>5, <1>7, <3>1
    <3>3. hostel[FirstRooms[r].hostel] \in HostelRow
      BY <1>11, <3>2
    <3>4. QED
      BY <3>2, <3>3, NoHostelRowAssumption
  <2>3. QED
    BY <1>1, <1>2, <1>3, <2>1, <2>2 DEF RowsBelong
<1>23. StaysInOrder /\ ChargesAsAgreed
  BY <1>1, <1>3 DEF StaysInOrder, ChargesAsAgreed
<1>24. AbsencesFit
  BY <1>1 DEF AbsencesFit, OpenFor
<1>25. QED
  BY <1>15, <1>16, <1>20, <1>21, <1>22, <1>23, <1>24 DEF TablesTyped, TablesStand

LEMMA InitIInv == Init => IInv
<1> SUFFICES ASSUME Init PROVE IInv
  OBVIOUS
<1>1. /\ pc = [s \in Sessions |-> "idle"] /\ cmd = [s \in Sessions |-> NoCommand]
      /\ held = [s \in Sessions |-> {}] /\ headView = [s \in Sessions |-> NoRow]
      /\ page = [s \in Sessions |-> [r \in Requests |-> NoRow]]
      /\ plan = [s \in Sessions |-> [labels |-> {}, day |-> 0]]
  BY DEF Init
<1>2. SessionsTyped
  BY <1>1, FirstDay DEF SessionsTyped, Phases
<1>3. LocksApart
  BY <1>1 DEF LocksApart
<1>4. ASSUME NEW s \in Sessions
      PROVE  SessionInv(s)
  BY <1>1 DEF SessionInv, PhaseFits, HoldsLocks, CopiesFit, PageFits, DecisionStands, Working
<1>5. QED
  BY <1>2, <1>3, <1>4, FirstTables, Parts

LEMMA CommitStep ==
    ASSUME IInv, NEW s \in Sessions, Commit(s)
    PROVE  IInv'
  BY CommitHostelKeeps, CommitBedsKeeps, CommitRoomKeeps, CommitBedKeeps, CommitAllocateKeeps,
     CommitVacateKeeps, CommitTransferKeeps, CommitDepartureKeeps, CommitReturnKeeps,
     CommitRegisterKeeps, CommitBillKeeps DEF Commit

LEMMA StutterKeeps ==
    ASSUME IInv, UNCHANGED vars
    PROVE  IInv'
<1>1. /\ UNCHANGED hostelTables /\ UNCHANGED fees /\ UNCHANGED world
      /\ pc' = pc /\ cmd' = cmd /\ held' = held /\ headView' = headView
      /\ page' = page /\ plan' = plan
  BY DEF vars, sessions
<1>2. SessionsTyped' /\ LocksApart'
  BY <1>1, Parts DEF SessionsTyped, LocksApart
<1>3. CASE Sessions = {}
  <2>1. TablesTyped' /\ TablesStand'
    BY <1>1, Parts, TablesKeep
  <2>2. (TablesTyped /\ TablesStand /\ SessionsTyped /\ LocksApart
          /\ \A t \in Sessions : SessionInv(t))'
    BY <1>2, <1>3, <2>1
  <2>3. QED
    BY <2>2 DEF IInv, TypeOK, TablesTyped, HostelTyped, FeesTyped, WorldTyped, SessionsTyped,
         TablesStand
<1>4. ASSUME NEW s \in Sessions
      PROVE  IInv'
  <2>1. \A t \in Sessions : SessionKept(t)
    BY <1>1 DEF SessionKept
  <2>2. SessionsTyped /\ TablesTyped /\ TablesStand /\ SessionInv(s)
    BY Parts
  <2>3. TablesTyped'
    BY <1>1, <2>2, TablesKeep
  <2>4. /\ enrolled' = enrolled /\ today <= today'
        /\ \A q \in Requests, d \in Days : MarkGrows(register[q][d], register'[q][d])
    BY <1>1, <2>2, LabelsFinite DEF world, TablesTyped, WorldTyped, MarkGrows, hostelTables
  <2>5. SessionInv(s)'
    BY <1>1, <2>1, <2>2, <2>3, <2>4, OthersKeep
  <2>6. QED
    BY <1>1, <1>2, <2>1, <2>5, MoveKeeps
<1>5. QED
  BY <1>3, <1>4

LEMMA StepKeeps == IInv /\ [Next]_vars => IInv'
<1> SUFFICES ASSUME IInv, [Next]_vars PROVE IInv'
  OBVIOUS
<1>1. ASSUME NEW s \in Sessions, Work(s)
      PROVE  IInv'
  <2>1. CASE OpenPage(s) \/ Receive(s) \/ SavePage(s)
    BY <2>1, OpenPageKeeps, ReceiveKeeps, SavePageKeeps
  <2>2. CASE Answer(s) \/ FindNoStay(s) \/ Deny(s)
    BY <2>2, RefuseKeeps DEF Answer, FindNoStay, Deny
  <2>3. CASE ReadHead(s) \/ LockStructure(s) \/ LockStudent(s) \/ Decide(s)
    BY <2>3, ReadHeadKeeps, LockStructureKeeps, LockStudentKeeps, DecideKeeps
  <2>4. CASE Commit(s)
    BY <2>4, CommitStep
  <2>5. QED
    BY <1>1, <2>1, <2>2, <2>3, <2>4 DEF Work
<1>2. ASSUME NEW s \in Sessions, Abort(s)
      PROVE  IInv'
  BY <1>2, RefuseKeeps DEF Abort
<1>3. CASE UNCHANGED vars
  BY <1>3, StutterKeeps
<1>4. QED
  BY <1>1, <1>2, <1>3, ChangeStatusKeeps, ChangeHeadKeeps, GenerateBillKeeps, ArchivePlanKeeps,
     DayPassesKeeps DEF Next

\* What the commands of HostelService rely on between their steps holds in
\* every state, for any number of concurrent requests.
THEOREM Invariance == Spec => []IInv
  BY InitIInv, StepKeeps, PTL DEF Spec

\* Every row and every count keeps its type.
THEOREM TypeCorrect == Spec => []TypeOK
<1>1. IInv => TypeOK
  BY DEF IInv
<1>2. QED
  BY <1>1, Invariance, PTL

\* "Only one linked hostel charge per student/BS month", and the linked bill
\* carries what the stay has agreed and the head says.
THEOREM ChargesAgree == Spec => []ChargesAsAgreed
<1>1. IInv => ChargesAsAgreed
  BY DEF IInv
<1>2. QED
  BY <1>1, Invariance, PTL

\* Whoever is away lives here, once, and the roster of a day has each student
\* once and today's everybody who lives here.
LEMMA WhereaboutsFollow == IInv => WhereaboutsKnown
<1> SUFFICES ASSUME IInv PROVE WhereaboutsKnown
  OBVIOUS
<1>1. TablesTyped /\ TablesStand /\ HostelTyped /\ WorldTyped
  BY Parts DEF TablesTyped
<1>2. /\ AbsencesFit /\ StaysInOrder
      /\ \A q \in Requests : OpenFor(leave, q) \/ OpenFor(visit, q) => q \in ActiveStays
  BY <1>1 DEF TablesStand, AbsencesFit
<1>3. ASSUME NEW q \in Requests
      PROVE  Cardinality({r \in Requests : /\ leave[r] # NoRow /\ leave[r].open
                                           /\ leave[r].stay = q}) <= 1
  <2> DEFINE A == {r \in Requests : leave[r] # NoRow /\ leave[r].open /\ leave[r].stay = q}
  <2>1. \A r1, r2 \in A : r1 = r2
    BY <1>2 DEF AbsencesFit
  <2>2. CASE A = {}
    BY <2>2, FS_EmptySet
  <2>3. ASSUME NEW r \in A
        PROVE  Cardinality(A) <= 1
    <3>1. A = {r}
      BY <2>1
    <3>2. Cardinality({r}) = 1
      BY FS_Singleton
    <3>3. QED
      BY <3>1, <3>2
  <2>4. QED
    BY <2>2, <2>3
<1>4. \A r \in Stays : stay[r] \in StayRow /\ stay[r].from \in Nat /\ stay[r].order \in Nat
  <2>1. \A r \in Stays : stay[r] \in StayRow
    BY <1>1 DEF HostelTyped, Stays
  <2>2. QED
    BY <2>1, LabelsFinite DEF StayRow
<1>5. ASSUME NEW d \in Days, NEW q \in Roster(d), NEW r \in Roster(d),
             stay[q].student = stay[r].student
      PROVE  q = r
  <2>1. /\ q \in Stays /\ r \in Stays /\ Covers(q, d) /\ Covers(r, d)
        /\ ~Later(r, q) /\ ~Later(q, r)
    BY <1>5 DEF Roster
  <2>2. stay[q].order = stay[r].order
    BY <1>4, <2>1 DEF Later
  <2>3. QED
    BY <1>2, <2>1, <2>2 DEF StaysInOrder
<1>6. ASSUME NEW q \in ActiveStays
      PROVE  q \in Roster(today)
  <2>1. q \in Stays /\ Covers(q, today)
    BY <1>2 DEF ActiveStays, Covers, StaysInOrder
  <2>2. ASSUME NEW r \in Stays, stay[r].student = stay[q].student, Later(r, q)
        PROVE  FALSE
    <3>1. r # q
      BY <1>4, <2>1, <2>2 DEF Later
    <3>2. stay[r].order < stay[q].order /\ stay[r].from <= stay[q].from
      BY <1>2, <2>2, <3>1 DEF StaysInOrder
    <3>3. QED
      BY <1>4, <2>1, <2>2, <3>2 DEF Later
  <2>3. QED
    BY <2>1, <2>2 DEF Roster
<1>7. QED
  BY <1>2, <1>3, <1>5, <1>6 DEF WhereaboutsKnown

\* The counts of rooms and hostels, the beds, the stays, the absences and the
\* roster agree after every command.
THEOREM RegistersAgree == Spec => []HostelConsistent
<1>1. IInv => ResidentsHoused
  BY DEF IInv
<1>2. IInv => HostelConsistent
  BY <1>1, WhereaboutsFollow DEF HostelConsistent
<1>3. QED
  BY <1>2, Invariance, PTL

-----------------------------------------------------------------------------
(* What a step may never do. *)

\* Only the commits that admit, vacate and transfer write a stay, and only
\* the one that saves a register writes a mark.
LEMMA Writers ==
    ASSUME Next
    PROVE  /\ stay' = stay \/ \E s \in Sessions :
                CommitAllocate(s) \/ CommitVacate(s) \/ CommitTransfer(s)
           /\ register' = register \/ \E s \in Sessions : CommitRegister(s)
<1>1. ASSUME NEW s \in Sessions, Work(s)
      PROVE  /\ stay' = stay \/ CommitAllocate(s) \/ CommitVacate(s) \/ CommitTransfer(s)
             /\ register' = register \/ CommitRegister(s)
  <2>1. CASE OpenPage(s) \/ Receive(s) \/ SavePage(s)
    BY <2>1 DEF OpenPage, Receive, SavePage, Begin, hostelTables
  <2>2. CASE Answer(s) \/ FindNoStay(s) \/ Deny(s)
    BY <2>2 DEF Answer, FindNoStay, Deny, Refuse, hostelTables
  <2>3. CASE ReadHead(s) \/ LockStructure(s) \/ LockStudent(s) \/ Decide(s)
    BY <2>3 DEF ReadHead, LockStructure, LockStudent, Decide, Refuse, hostelTables
  <2>4. CASE Commit(s)
    <3>1. CASE CommitHostel(s) \/ CommitDeparture(s) \/ CommitReturn(s) \/ CommitBill(s)
      BY <3>1 DEF CommitHostel, CommitDeparture, CommitReturn, CommitBill
    <3>2. CASE CommitBeds(s) \/ CommitRoom(s) \/ CommitBed(s)
      BY <3>2 DEF CommitBeds, CommitRoom, CommitBed
    <3>3. CASE CommitAllocate(s) \/ CommitVacate(s) \/ CommitTransfer(s)
      BY <3>3 DEF CommitAllocate, CommitVacate, CommitTransfer
    <3>4. CASE CommitRegister(s)
      BY <3>4 DEF CommitRegister
    <3>5. QED
      BY <2>4, <3>1, <3>2, <3>3, <3>4 DEF Commit
  <2>5. QED
    BY <1>1, <2>1, <2>2, <2>3, <2>4 DEF Work
<1>2. ASSUME NEW s \in Sessions, Abort(s)
      PROVE  stay' = stay /\ register' = register
  BY <1>2 DEF Abort, Refuse, hostelTables
<1>3. CASE \E p \in Leavers : ChangeStatus(p) \/ \E h \in Heads : ChangeHead(h)
  BY <1>3 DEF ChangeStatus, ChangeHead, hostelTables
<1>4. CASE \E h \in Heads : ChangeHead(h) \/ \E p \in Leavers : GenerateBill(p, h)
  BY <1>4 DEF ChangeHead, GenerateBill, hostelTables
<1>5. CASE ArchivePlan \/ DayPasses
  BY <1>5 DEF ArchivePlan, DayPasses, hostelTables
<1>6. QED
  BY <1>1, <1>2, <1>3, <1>4, <1>5 DEF Next

\* Whoever a command admits is still locked and enrolled when it commits.
LEMMA AdmittedIsEnrolled ==
    ASSUME IInv, NEW s \in Sessions, pc[s] = "commit", cmd[s].op \in {"allocate", "transfer"}
    PROVE  StudentOf(s) \in enrolled
  BY DEF IInv, SessionInv, HoldsLocks

LEMMA StaysKeepTerms ==
    ASSUME IInv, Next, NEW q \in Requests, stay'[q] # stay[q]
    PROVE  IF stay[q] = NoRow THEN stay'[q].student \in enrolled
           ELSE stay[q].to = NoDay /\ stay'[q] = [stay[q] EXCEPT !.to = stay'[q].to]
<1>1. PICK s \in Sessions : CommitAllocate(s) \/ CommitVacate(s) \/ CommitTransfer(s)
  BY Writers
<1>2. PICK c : AtCommit(s, c)
  BY <1>1, CommitContext DEF CommitAllocate, CommitVacate, CommitTransfer, Ready
<1>3. HostelTyped /\ c = cmd[s] /\ CommandFits(c) /\ stay[c.req] = NoRow /\ c.req \in Requests
  BY <1>2, Parts DEF AtCommit, TablesTyped, CommandFits
<1>4. CASE CommitAllocate(s)
  <2>1. c.op = "allocate" /\ stay' = [stay EXCEPT ![c.req] = NewStay(s, c.student)]
    BY <1>3, <1>4 DEF CommitAllocate, Ready
  <2>2. q = c.req
    BY <1>3, <2>1 DEF HostelTyped
  <2>3. stay'[q].student = c.student
    BY <1>3, <2>1, <2>2 DEF NewStay, HostelTyped
  <2>4. c.student \in enrolled
    BY <1>2, <1>3, <2>1, AdmittedIsEnrolled DEF AtCommit, StudentOf
  <2>5. QED
    BY <1>3, <2>2, <2>3, <2>4
<1>5. ASSUME c.op \in {"vacate", "transfer"}
      PROVE  /\ c.stay \in Requests /\ stay[c.stay] # NoRow /\ stay[c.stay] \in StayRow
             /\ stay[c.stay].to = NoDay
  <2>1. c.stay \in ActiveStays
    BY <1>2, <1>3, <1>5 DEF AtCommit, Accepts, MayClose
  <2>2. QED
    BY <1>3, <2>1 DEF ActiveStays, Stays, HostelTyped
<1>6. CASE CommitVacate(s)
  <2>1. c.op = "vacate" /\ stay' = [stay EXCEPT ![c.stay].to = plan[s].day]
    BY <1>3, <1>6 DEF CommitVacate, Ready
  <2>2. q = c.stay
    BY <1>3, <1>5, <2>1 DEF HostelTyped
  <2>3. stay'[q] = [stay[q] EXCEPT !.to = plan[s].day]
    BY <1>3, <1>5, <2>1, <2>2 DEF HostelTyped
  <2>4. QED
    BY <1>5, <2>1, <2>2, <2>3 DEF StayRow
<1>7. CASE CommitTransfer(s)
  <2> DEFINE new == NewStay(s, stay[c.stay].student)
  <2>1. /\ c.op = "transfer"
        /\ stay' = [stay EXCEPT ![c.stay].to = plan[s].day, ![c.req] = new]
    BY <1>3, <1>7 DEF CommitTransfer, Ready
  <2>2. new.student = stay[c.stay].student
    BY DEF NewStay
  <2>3. stay[c.stay].student \in enrolled
    BY <1>2, <1>3, <2>1, AdmittedIsEnrolled DEF AtCommit, StudentOf
  <2> HIDE DEF new
  <2>4. c.req # c.stay
    BY <1>3, <1>5, <2>1
  <2>5. CASE q = c.req
    <3>1. stay'[q] = new
      BY <1>3, <2>1, <2>5 DEF HostelTyped
    <3>2. QED
      BY <1>3, <2>2, <2>3, <2>5, <3>1
  <2>6. CASE q = c.stay
    <3>1. stay'[q] = [stay[q] EXCEPT !.to = plan[s].day]
      BY <1>3, <1>5, <2>1, <2>4, <2>6 DEF HostelTyped
    <3>2. QED
      BY ZenonT(30), <1>5, <2>1, <2>6, <3>1 DEF StayRow
  <2>7. QED
    BY <1>3, <2>1, <2>5, <2>6 DEF HostelTyped
<1>8. QED
  BY <1>1, <1>4, <1>6, <1>7

LEMMA MarksSeen ==
    ASSUME IInv, Next, NEW q \in Requests, NEW d \in Days, register'[q][d] # register[q][d]
    PROVE  \E s \in Sessions : /\ Ready(s, "save_register") /\ pc'[s] = "idle"
                               /\ cmd[s].day = d /\ page[s][q] = register[q][d]
<1>1. PICK s \in Sessions : CommitRegister(s)
  BY Writers
<1>2. PICK c : AtCommit(s, c)
  BY <1>1, CommitContext DEF CommitRegister, Ready
<1>3. c.op = "save_register" /\ q \in c.entries /\ d = c.day
  BY <1>1, <1>2, MarksGrow
<1>4. MayMark(s) /\ c = cmd[s]
  BY <1>2, <1>3 DEF AtCommit, Accepts
<1>5. page[s][q] = register[q][d]
  <2>1. Version(page[s][q]) = Version(register[q][d])
    BY <1>3, <1>4 DEF MayMark
  <2>2. PageFits(s) /\ pc[s] # "idle"
    BY <1>2 DEF IInv, SessionInv, AtCommit
  <2>3. QED
    BY <1>3, <1>4, <2>1, <2>2 DEF PageFits
<1>6. pc'[s] = "idle"
  <2>1. SessionsTyped /\ End(s)
    BY <1>1, Parts DEF CommitRegister, Record
  <2>2. QED
    BY <2>1, EndKeeps, Parts
<1>7. QED
  BY <1>1, <1>3, <1>4, <1>5, <1>6 DEF CommitRegister

\* A stay begins only while its student is enrolled, under the student's row
\* lock, and keeps its terms until it is closed, once.
THEOREM AdmittedEnrolled == Spec => AdmittedWhileEnrolled
<1>1. IInv /\ [Next]_vars =>
        [\A q \in Requests : stay'[q] # stay[q] =>
          IF stay[q] = NoRow THEN stay'[q].student \in enrolled
          ELSE stay[q].to = NoDay /\ stay'[q] = [stay[q] EXCEPT !.to = stay'[q].to]]_vars
  BY StaysKeepTerms
<1>2. QED
  BY <1>1, Invariance, PTL DEF Spec, AdmittedWhileEnrolled

\* "Row versions prevent one warden silently overwriting another's marks":
\* the page of whoever replaces a mark showed that very mark.
THEOREM MarksKept == Spec => MarksNotOverwritten
<1>1. IInv /\ [Next]_vars =>
        [\A q \in Requests, d \in Days : register'[q][d] # register[q][d] =>
          \E s \in Sessions : /\ Ready(s, "save_register") /\ pc'[s] = "idle"
                              /\ cmd[s].day = d /\ page[s][q] = register[q][d]]_vars
  BY MarksSeen
<1>2. QED
  BY <1>1, Invariance, PTL DEF Spec, MarksNotOverwritten

\* Neither an admission nor a mark of the register rests on something that
\* has changed since the user or the command read it.
THEOREM DecisionsFresh == Spec => NoStaleDecision
  BY AdmittedEnrolled, MarksKept DEF NoStaleDecision

-----------------------------------------------------------------------------
(* Hostel implements HostelResidence. *)

Lives(p, q) == q \in ActiveStays /\ stay[q].student = p

Places == [p \in Students |-> BedOf(p)]
Leaves == [p \in Students |-> OpenOf(leave, p)]
Guests == [p \in Students |-> OpenOf(visit, p)]
Fit == [b \in Rooms \X Labels |-> FitFor(b)]
Bar == <<Places, Leaves, Guests, Fit>>

\* A resident has the bed of the stay; nobody else has it.
LEMMA OneStay ==
    ASSUME IInv, NEW q \in ActiveStays
    PROVE  /\ q \in Requests /\ stay[q].student \in Students
           /\ stay[q].room \in Rooms /\ stay[q].label \in Labels
           /\ \A r \in ActiveStays : stay[r].student = stay[q].student => r = q
           /\ BedOf(stay[q].student) = {<<stay[q].room, stay[q].label>>}
           /\ \A p \in Students : p # stay[q].student =>
                <<stay[q].room, stay[q].label>> \notin BedOf(p)
           /\ stay[q].student \in FitFor(<<stay[q].room, stay[q].label>>)
<1>1. /\ ResidentsFit /\ q \in Stays /\ stay[q] \in StayRow
      /\ stay[q].room \in Rooms /\ stay[q].label \in Labels
  BY ResidentsNow
<1>2. q \in Requests /\ stay[q].student \in Students
  BY <1>1 DEF Stays, StayRow
<1>3. \A r \in ActiveStays : stay[r].student = stay[q].student => r = q
  BY <1>1 DEF ResidentsFit
<1>4. BedOf(stay[q].student) = {<<stay[q].room, stay[q].label>>}
  BY <1>3 DEF BedOf
<1>5. ASSUME NEW p \in Students, p # stay[q].student,
             <<stay[q].room, stay[q].label>> \in BedOf(p)
      PROVE  FALSE
  <2>1. PICK r \in ActiveStays :
          stay[r].student = p /\ <<stay[q].room, stay[q].label>> = <<stay[r].room, stay[r].label>>
    BY <1>5 DEF BedOf
  <2>2. r # q /\ stay[r].room = stay[q].room /\ stay[r].label = stay[q].label
    BY <1>5, <2>1
  <2>3. QED
    BY <1>1, <2>2 DEF ResidentsFit
<1>6. stay[q].student \in FitFor(<<stay[q].room, stay[q].label>>)
  BY <1>1, <1>2 DEF ResidentsFit, FitFor
<1>7. QED
  BY <1>1, <1>2, <1>3, <1>4, <1>5, <1>6

\* The same of the next state.
LEMMA OneStayNext ==
    IInv' => (\A q \in ActiveStays :
                /\ BedOf(stay[q].student) = {<<stay[q].room, stay[q].label>>}
                /\ \A p \in Students : p # stay[q].student =>
                     <<stay[q].room, stay[q].label>> \notin BedOf(p)
                /\ stay[q].student \in FitFor(<<stay[q].room, stay[q].label>>))'
<1>1. IInv => \A q \in ActiveStays :
                /\ BedOf(stay[q].student) = {<<stay[q].room, stay[q].label>>}
                /\ \A p \in Students : p # stay[q].student =>
                     <<stay[q].room, stay[q].label>> \notin BedOf(p)
                /\ stay[q].student \in FitFor(<<stay[q].room, stay[q].label>>)
  BY OneStay
<1>2. QED
  BY <1>1, PTL

\* Who has no stay has no bed, and beds are known once stays are.
LEMMA NoStay ==
    ASSUME NEW p, \A q \in ActiveStays : stay[q].student # p
    PROVE  BedOf(p) = {}
  BY DEF BedOf

LEMMA SamePlaces ==
    ASSUME stay' = stay
    PROVE  /\ ActiveStays' = ActiveStays /\ Places' = Places
           /\ leave' = leave => Leaves' = Leaves
           /\ visit' = visit => Guests' = Guests
<1>1. Stays' = Stays /\ ActiveStays' = ActiveStays
  BY DEF Stays, ActiveStays
<1>2. \A p : BedOf(p)' = BedOf(p)
  BY <1>1 DEF BedOf
<1>3. leave' = leave => \A p : OpenOf(leave, p)' = OpenOf(leave, p)
  BY DEF OpenOf
<1>4. visit' = visit => \A p : OpenOf(visit, p)' = OpenOf(visit, p)
  BY DEF OpenOf
<1>5. QED
  BY <1>1, <1>2, <1>3, <1>4 DEF Places, Leaves, Guests

LEMMA SameFit ==
    ASSUME hostel' = hostel, room' = room, bed' = bed
    PROVE  Fit' = Fit
  BY DEF Fit, FitFor

LEMMA ActiveIsNoRow == "active" # NoRow
  BY NoHostelRowAssumption DEF Conditions

\* _sync changes counters only.
LEMMA SyncFit ==
    ASSUME IInv, bed' = bed, NEW touched \in SUBSET Rooms, Sync(room, touched)
    PROVE  Fit' = Fit
<1>1. TablesStand /\ HostelTyped
  BY Parts DEF TablesTyped
<1>2. ASSUME NEW r \in Rooms, room[r] # NoRow
      PROVE  room'[r].active = room[r].active /\ room'[r].hostel = room[r].hostel
  <2>1. room[r] \in RoomRow
    BY <1>1, <1>2 DEF HostelTyped
  <2>2. room'[r] = room[r] \/ room'[r] = CountRoom(room[r], r, bed', stay')
    BY DEF Sync
  <2>3. QED
    BY <2>1, <2>2 DEF CountRoom, RoomRow
<1>3. ASSUME NEW h \in Hostels, hostel[h] # NoRow
      PROVE  hostel'[h].active = hostel[h].active /\ hostel'[h].kind = hostel[h].kind
  <2>1. hostel[h] \in HostelRow
    BY <1>1, <1>3 DEF HostelTyped
  <2>2. hostel'[h] = hostel[h] \/ hostel'[h] = CountHostel(hostel[h], h, room')
    BY DEF Sync
  <2>3. QED
    BY <2>1, <2>2 DEF CountHostel, HostelRow
<1>4. ASSUME NEW b \in Rooms \X Labels
      PROVE  FitFor(b)' = FitFor(b)
  <2>1. PICK r \in Rooms, l \in Labels : b = <<r, l>>
    BY <1>4
  <2>2. CASE bed[r][l] # "active"
    BY <2>1, <2>2 DEF FitFor
  <2>3. CASE bed[r][l] = "active"
    <3>1. room[r] # NoRow
      BY <1>1, <2>1, <2>3, ActiveIsNoRow DEF TablesStand, RowsBelong
    <3>2. room[r].hostel \in Hostels /\ hostel[room[r].hostel] # NoRow
      BY <1>1, <2>1, <3>1 DEF HostelTyped, RoomRow, TablesStand, RowsBelong
    <3>3. PICK h \in Hostels : h = room[r].hostel
      BY <3>2
    <3>4. /\ room'[r].active = room[r].active /\ room'[r].hostel = h
          /\ hostel'[h].active = hostel[h].active /\ hostel'[h].kind = hostel[h].kind
      BY <1>2, <1>3, <2>1, <3>1, <3>2, <3>3
    <3>5. QED
      BY <2>1, <3>3, <3>4 DEF FitFor, Suits
  <2>4. QED
    BY <2>2, <2>3
<1>5. QED
  BY <1>4 DEF Fit

\* Beds, rooms and hostels change around the residents.
LEMMA RefitImplements ==
    ASSUME IInv, IInv', stay' = stay, leave' = leave, visit' = visit
    PROVE  Residence!Next \/ Bar' = Bar
<1>1. Places' = Places /\ Leaves' = Leaves /\ Guests' = Guests
  BY SamePlaces
<1>2. Fit' \in [Rooms \X Labels -> SUBSET Students]
  BY DEF Fit, FitFor
<1>3. ASSUME NEW p \in Students, NEW b \in Places[p]
      PROVE  p \in Fit'[b]
  <2>1. PICK q \in ActiveStays : stay[q].student = p /\ b = <<stay[q].room, stay[q].label>>
    BY <1>3 DEF Places, BedOf
  <2>2. q \in ActiveStays' /\ b \in Rooms \X Labels
    BY <2>1, SamePlaces, OneStay
  <2>3. p \in FitFor(b)'
    BY <2>1, <2>2, OneStayNext
  <2>4. QED
    BY <2>2, <2>3 DEF Fit
<1>4. CASE Fit' = Fit
  BY <1>1, <1>4 DEF Bar
<1>5. CASE Fit' # Fit
  <2>1. Residence!Refit
    BY <1>1, <1>2, <1>3 DEF Residence!Refit, Places, Leaves, Guests, Fit
  <2>2. QED
    BY <1>5, <2>1 DEF Residence!Next, Fit
<1>6. QED
  BY <1>4, <1>5

\* Who is away or visited is a resident, so that a stay that ends or begins
\* leaves the absences and visits of everybody alone.
LEMMA SameAbsences ==
    ASSUME IInv, leave' = leave, visit' = visit,
           \A q \in Stays : stay'[q].student = stay[q].student
    PROVE  Leaves' = Leaves /\ Guests' = Guests
<1>1. AbsencesFit /\ HostelTyped
  BY Parts DEF TablesTyped, TablesStand
<1>2. ASSUME NEW v \in Requests, leave[v] # NoRow, leave[v].open
      PROVE  stay'[leave[v].stay].student = stay[leave[v].stay].student
  <2>1. leave[v].stay \in Requests /\ OpenFor(leave, leave[v].stay)
    BY <1>1, <1>2 DEF HostelTyped, AwayRow, OpenFor
  <2>2. QED
    BY <1>1, <2>1 DEF AbsencesFit, ActiveStays
<1>3. ASSUME NEW v \in Requests, visit[v] # NoRow, visit[v].open
      PROVE  stay'[visit[v].stay].student = stay[visit[v].stay].student
  <2>1. visit[v].stay \in Requests /\ OpenFor(visit, visit[v].stay)
    BY <1>1, <1>3 DEF HostelTyped, AwayRow, OpenFor
  <2>2. QED
    BY <1>1, <2>1 DEF AbsencesFit, ActiveStays
<1>4. \A p : OpenOf(leave, p)' = OpenOf(leave, p) /\ OpenOf(visit, p)' = OpenOf(visit, p)
  BY <1>2, <1>3 DEF OpenOf
<1>5. QED
  BY <1>4 DEF Leaves, Guests

\* Who lives elsewhere stays there.
LEMMA PlacesElsewhere ==
    ASSUME NEW p, \A q \in Requests : stay[q] # stay'[q] =>
             ~Lives(p, q) /\ ~Lives(p, q)'
    PROVE  BedOf(p)' = BedOf(p)
<1>1. \A q : Lives(p, q)' <=> Lives(p, q)
  BY DEF Lives, ActiveStays, Stays
<1>2. \A q : Lives(p, q) => stay'[q] = stay[q]
  BY <1>1 DEF Lives, ActiveStays, Stays
<1>3. BedOf(p) = {<<stay[q].room, stay[q].label>> : q \in {r \in Requests : Lives(p, r)}}
  BY DEF BedOf, Lives, ActiveStays, Stays
<1>4. BedOf(p)' = {<<stay'[q].room, stay'[q].label>> : q \in {r \in Requests : Lives(p, r)'}}
  BY DEF BedOf, Lives, ActiveStays, Stays
<1>5. {r \in Requests : Lives(p, r)'} = {r \in Requests : Lives(p, r)}
  BY <1>1
<1>6. QED
  BY <1>2, <1>3, <1>4, <1>5

LEMMA PlacesOne ==
    ASSUME NEW p \in Students, \A x \in Students \ {p} : BedOf(x)' = BedOf(x)
    PROVE  Places' = [Places EXCEPT ![p] = BedOf(p)']
  BY DEF Places

\* Nobody is away from a stay that may be closed.
LEMMA MayGoWhoMayClose ==
    ASSUME IInv, NEW q \in ActiveStays, MayClose(q)
    PROVE  Residence!MayGo(stay[q].student)
<1>1. AbsencesFit /\ HostelTyped
  BY Parts DEF TablesTyped, TablesStand
<1>2. PICK p \in Students : p = stay[q].student
  BY OneStay
<1>3. ASSUME NEW v \in OpenOf(leave, p)
      PROVE  FALSE
  <2>1. v \in Requests /\ leave[v] # NoRow /\ leave[v].open /\ stay[leave[v].stay].student = p
    BY <1>3 DEF OpenOf
  <2>2. leave[v].stay \in Requests /\ OpenFor(leave, leave[v].stay)
    BY <1>1, <2>1 DEF HostelTyped, AwayRow, OpenFor
  <2>3. leave[v].stay = q
    BY <1>1, <1>2, <2>1, <2>2, OneStay DEF AbsencesFit
  <2>4. QED
    BY <2>2, <2>3 DEF MayClose
<1>4. ASSUME NEW v \in OpenOf(visit, p)
      PROVE  FALSE
  <2>1. v \in Requests /\ visit[v] # NoRow /\ visit[v].open /\ stay[visit[v].stay].student = p
    BY <1>4 DEF OpenOf
  <2>2. visit[v].stay \in Requests /\ OpenFor(visit, visit[v].stay)
    BY <1>1, <2>1 DEF HostelTyped, AwayRow, OpenFor
  <2>3. visit[v].stay = q
    BY <1>1, <1>2, <2>1, <2>2, OneStay DEF AbsencesFit
  <2>4. QED
    BY <2>2, <2>3 DEF MayClose
<1>5. BedOf(p) # {} /\ OpenOf(leave, p) = {} /\ OpenOf(visit, p) = {}
  BY <1>2, <1>3, <1>4, OneStay
<1>6. QED
  BY <1>2, <1>5 DEF Residence!MayGo

\* The bed a new stay gets is free and fits.
LEMMA BedTaken ==
    ASSUME IInv, IInv', NEW p \in Students, NEW q \in ActiveStays', stay'[q].student = p,
           stay' # stay, Fit' = Fit,
           \A x \in Students \ {p} : BedOf(x)' = BedOf(x),
           <<stay'[q].room, stay'[q].label>> \in Rooms \X Labels,
           <<stay'[q].room, stay'[q].label>> \notin BedOf(p)
    PROVE  \E b \in Rooms \X Labels : /\ b = <<stay'[q].room, stay'[q].label>>
                                      /\ Residence!Vacant(b)
                                      /\ p \in FitFor(b)
                                      /\ Places' = [Places EXCEPT ![p] = {b}]
<1>1. PICK b \in Rooms \X Labels : b = <<stay'[q].room, stay'[q].label>>
  OBVIOUS
<1>2. BedOf(p)' = {b} /\ p \in FitFor(b)' /\ \A x \in Students \ {p} : b \notin BedOf(x)'
  BY <1>1, OneStayNext
<1>3. \A x \in Students : b \notin BedOf(x)
  BY <1>1, <1>2
<1>4. p \in FitFor(b)
  BY <1>2 DEF Fit
<1>5. Places' = [Places EXCEPT ![p] = {b}]
  BY <1>2, PlacesOne
<1>6. QED
  BY <1>1, <1>3, <1>4, <1>5 DEF Residence!Vacant

LEMMA AllocateImplements ==
    ASSUME IInv, IInv', NEW s \in Sessions, CommitAllocate(s)
    PROVE  Residence!Next
<1>1. PICK c : AtCommit(s, c)
  BY CommitContext DEF CommitAllocate, Ready
<1>2. TablesTyped /\ HostelTyped
  BY Parts DEF TablesTyped
<1>3. /\ c.op = "allocate"
      /\ stay' = [stay EXCEPT ![c.req] = NewStay(s, c.student)]
      /\ bed' = bed /\ leave' = leave /\ visit' = visit
      /\ Sync(room, {c.room})
  BY <1>1 DEF CommitAllocate, AtCommit, Ready
<1>4. /\ c.req \in Requests /\ c.student \in Students /\ MayAdmit(c.student, c, {})
      /\ stay[c.req] = NoRow
  BY <1>1, <1>3 DEF AtCommit, CommandFits, Accepts
<1>5. PICK new : new = NewStay(s, c.student)
  OBVIOUS
<1>6. PICK p \in Students : p = c.student
  BY <1>4
<1>7. /\ new \in StayRow /\ new.student = p /\ new.to = NoDay
      /\ c.room \in Rooms /\ \A q \in ActiveStays \ {} : stay[q].student # p
  BY <1>1, <1>3, <1>4, <1>5, <1>6, StayAdmitted
<1>8. /\ stay'[c.req] = new /\ new # NoRow
      /\ \A q \in Requests \ {c.req} : stay'[q] = stay[q]
  BY <1>2, <1>3, <1>4, <1>5, <1>7, NoHostelRowAssumption DEF HostelTyped
<1>9. c.req \in ActiveStays' /\ stay' # stay
  BY <1>4, <1>7, <1>8 DEF ActiveStays, Stays
<1>10. Leaves' = Leaves /\ Guests' = Guests
  <2>1. \A q \in Stays : stay'[q].student = stay[q].student
    BY <1>4, <1>8 DEF Stays
  <2>2. QED
    BY <1>3, <2>1, SameAbsences
<1>11. Fit' = Fit
  <2>1. {c.room} \in SUBSET Rooms
    BY <1>7
  <2>2. QED
    BY <1>3, <2>1, SyncFit
<1>12. BedOf(p) = {}
  BY <1>7, NoStay
<1>13. ASSUME NEW x \in Students \ {p}
       PROVE  BedOf(x)' = BedOf(x)
  <2>1. \A q \in Requests : stay[q] # stay'[q] => ~Lives(x, q) /\ ~Lives(x, q)'
    BY <1>4, <1>7, <1>8 DEF Lives, ActiveStays, Stays
  <2>2. QED
    BY <2>1, PlacesElsewhere
<1>14. <<stay'[c.req].room, stay'[c.req].label>> \in Rooms \X Labels
  BY <1>7, <1>8 DEF StayRow
<1>15. PICK b \in Rooms \X Labels : /\ Residence!Vacant(b) /\ p \in FitFor(b)
                                    /\ Places' = [Places EXCEPT ![p] = {b}]
  BY <1>7, <1>8, <1>9, <1>11, <1>12, <1>13, <1>14, BedTaken
<1>16. Places' # Places
  BY <1>12, <1>15 DEF Places
<1>17. Residence!MoveIn(p, b)
  BY <1>10, <1>11, <1>12, <1>15 DEF Residence!MoveIn, Places, Leaves, Guests, Fit
<1>18. QED
  BY <1>16, <1>17 DEF Residence!Next, Residence!Moves, Places

LEMMA VacateImplements ==
    ASSUME IInv, IInv', NEW s \in Sessions, CommitVacate(s)
    PROVE  Residence!Next
<1>1. PICK c : AtCommit(s, c)
  BY CommitContext DEF CommitVacate, Ready
<1>2. TablesTyped /\ HostelTyped
  BY Parts DEF TablesTyped
<1>3. /\ c.op = "vacate"
      /\ stay' = [stay EXCEPT ![c.stay].to = plan[s].day]
      /\ bed' = bed /\ leave' = leave /\ visit' = visit
      /\ Sync(room, {stay[c.stay].room})
  BY <1>1 DEF CommitVacate, AtCommit, Ready
<1>4. c.stay \in ActiveStays /\ MayClose(c.stay)
  BY <1>1, <1>3 DEF AtCommit, Accepts, MayClose
<1>5. PICK p \in Students : p = stay[c.stay].student
  BY <1>4, OneStay
<1>6. /\ c.stay \in Requests /\ stay[c.stay] \in StayRow /\ stay[c.stay].room \in Rooms
      /\ plan[s].day # NoDay
  BY <1>1, <1>4, ResidentsNow, OneStay, NoHostelRowAssumption DEF AtCommit
<1>7. /\ stay'[c.stay] = [stay[c.stay] EXCEPT !.to = plan[s].day]
      /\ \A q \in Requests \ {c.stay} : stay'[q] = stay[q]
  BY <1>2, <1>3, <1>6 DEF HostelTyped
<1>8. stay'[c.stay].student = p /\ stay'[c.stay].to # NoDay
  BY <1>5, <1>6, <1>7 DEF StayRow
<1>9. Leaves' = Leaves /\ Guests' = Guests
  <2>1. \A q \in Stays : stay'[q].student = stay[q].student
    BY <1>5, <1>7, <1>8 DEF Stays
  <2>2. QED
    BY <1>3, <2>1, SameAbsences
<1>10. Fit' = Fit
  <2>1. {stay[c.stay].room} \in SUBSET Rooms
    BY <1>6
  <2>2. QED
    BY <1>3, <2>1, SyncFit
<1>11. ASSUME NEW x \in Students \ {p}
       PROVE  BedOf(x)' = BedOf(x)
  <2>1. \A q \in Requests : stay[q] # stay'[q] => ~Lives(x, q) /\ ~Lives(x, q)'
    BY <1>5, <1>7, <1>8 DEF Lives
  <2>2. QED
    BY <2>1, PlacesElsewhere
<1>12. BedOf(p)' = {}
  <2>1. ASSUME NEW q \in ActiveStays', stay'[q].student = p
        PROVE  FALSE
    <3>1. q \in Requests /\ q # c.stay
      BY <1>8, <2>1 DEF ActiveStays, Stays
    <3>2. q \in ActiveStays /\ stay[q].student = p
      BY <1>7, <2>1, <3>1 DEF ActiveStays, Stays
    <3>3. QED
      BY <1>4, <1>5, <3>1, <3>2, OneStay
  <2>2. QED
    BY <2>1 DEF BedOf
<1>13. Places' = [Places EXCEPT ![p] = {}] /\ Places' # Places
  <2>1. Places' = [Places EXCEPT ![p] = {}]
    BY <1>11, <1>12, PlacesOne
  <2>2. BedOf(p) # {}
    BY <1>4, <1>5, OneStay
  <2>3. QED
    BY <2>1, <2>2 DEF Places
<1>14. Residence!MoveOut(p)
  <2>1. Residence!MayGo(p)
    BY <1>4, <1>5, MayGoWhoMayClose
  <2>2. QED
    BY <1>9, <1>10, <1>13, <2>1 DEF Residence!MoveOut, Places, Leaves, Guests, Fit
<1>15. QED
  BY <1>13, <1>14 DEF Residence!Next, Residence!Moves, Places

LEMMA TransferImplements ==
    ASSUME IInv, IInv', NEW s \in Sessions, CommitTransfer(s)
    PROVE  Residence!Next
<1>1. PICK c : AtCommit(s, c)
  BY CommitContext DEF CommitTransfer, Ready
<1>2. TablesTyped /\ HostelTyped
  BY Parts DEF TablesTyped
<1>3. /\ c.op = "transfer"
      /\ stay' = [stay EXCEPT ![c.stay].to = plan[s].day,
                              ![c.req] = NewStay(s, stay[c.stay].student)]
      /\ bed' = bed /\ leave' = leave /\ visit' = visit
      /\ Sync(room, {stay[c.stay].room, c.room})
  BY <1>1 DEF CommitTransfer, AtCommit, Ready
<1>4. /\ c.stay \in ActiveStays /\ MayClose(c.stay)
      /\ c.req \in Requests /\ stay[c.req] = NoRow /\ c.req # c.stay
      /\ MayAdmit(stay[c.stay].student, c, {c.stay})
      /\ c.room = stay[c.stay].room => c.label \notin {NoLabel, stay[c.stay].label}
  BY <1>1, <1>3 DEF AtCommit, CommandFits, Accepts, MayClose, ActiveStays, Stays
<1>5. PICK p \in Students : p = stay[c.stay].student
  BY <1>4, OneStay
<1>6. PICK new : new = NewStay(s, p)
  OBVIOUS
<1>7. /\ new \in StayRow /\ new.student = p /\ new.to = NoDay /\ new.room = c.room
      /\ c.room \in Rooms /\ new.label = Min(plan[s].labels)
  BY <1>1, <1>3, <1>4, <1>5, <1>6, StayAdmitted DEF NewStay
<1>8. /\ c.stay \in Requests /\ stay[c.stay] \in StayRow /\ stay[c.stay].room \in Rooms
      /\ plan[s].day # NoDay
  BY <1>1, <1>4, ResidentsNow, OneStay, NoHostelRowAssumption DEF AtCommit
<1>9. /\ stay'[c.stay] = [stay[c.stay] EXCEPT !.to = plan[s].day]
      /\ stay'[c.req] = new /\ new # NoRow
      /\ \A q \in Requests \ {c.stay, c.req} : stay'[q] = stay[q]
  <2>1. stay' = [stay EXCEPT ![c.stay].to = plan[s].day, ![c.req] = new]
    BY <1>3, <1>5, <1>6
  <2>2. stay \in [Requests -> StayRow \cup {NoRow}]
    BY <1>2 DEF HostelTyped
  <2>3. QED
    BY <1>4, <1>7, <1>8, <2>1, <2>2, NoHostelRowAssumption
<1>10. stay'[c.stay].student = p /\ stay'[c.stay].to # NoDay
  BY <1>5, <1>8, <1>9 DEF StayRow
<1>11. c.req \in ActiveStays' /\ stay' # stay
  BY <1>4, <1>7, <1>9 DEF ActiveStays, Stays
<1>12. Leaves' = Leaves /\ Guests' = Guests
  <2>1. \A q \in Stays : stay'[q].student = stay[q].student
    BY <1>4, <1>5, <1>9, <1>10 DEF Stays
  <2>2. QED
    BY <1>3, <2>1, SameAbsences
<1>13. Fit' = Fit
  <2>1. {stay[c.stay].room, c.room} \in SUBSET Rooms
    BY <1>7, <1>8
  <2>2. QED
    BY <1>3, <2>1, SyncFit
<1>14. ASSUME NEW x \in Students \ {p}
       PROVE  BedOf(x)' = BedOf(x)
  <2>1. \A q \in Requests : stay[q] # stay'[q] => ~Lives(x, q) /\ ~Lives(x, q)'
    BY <1>4, <1>5, <1>7, <1>9, <1>10 DEF Lives, ActiveStays, Stays
  <2>2. QED
    BY <2>1, PlacesElsewhere
<1>15. /\ BedOf(p) = {<<stay[c.stay].room, stay[c.stay].label>>}
  BY <1>4, <1>5, OneStay
<1>16. <<new.room, new.label>> # <<stay[c.stay].room, stay[c.stay].label>>
  <2>1. SUFFICES ASSUME c.room = stay[c.stay].room, new.label = stay[c.stay].label
                 PROVE  FALSE
    BY <1>7
  <2>2. plan[s].labels = {c.label} /\ Min(plan[s].labels) \in plan[s].labels
    <3>1. plan[s].labels = Chosen(c) /\ c \in Commands /\ Chosen(c) # {}
      BY <1>1, <1>4 DEF AtCommit, MayAdmit
    <3>2. Chosen(c) = {c.label}
      BY <1>3, <1>4, <2>1 DEF Chosen
    <3>3. QED
      BY <1>3, <3>1, <3>2, LabelChosen
  <2>3. QED
    BY <1>4, <1>7, <2>1, <2>2
<1>17. /\ <<stay'[c.req].room, stay'[c.req].label>> \in Rooms \X Labels
       /\ <<stay'[c.req].room, stay'[c.req].label>> \notin BedOf(p)
  BY <1>7, <1>9, <1>15, <1>16 DEF StayRow
<1>18. PICK b \in Rooms \X Labels : /\ b = <<stay'[c.req].room, stay'[c.req].label>>
                                    /\ Residence!Vacant(b) /\ p \in FitFor(b)
                                    /\ Places' = [Places EXCEPT ![p] = {b}]
  BY <1>7, <1>9, <1>11, <1>13, <1>14, <1>17, BedTaken
<1>19. Places' # Places
  BY <1>17, <1>18 DEF Places
<1>20. Residence!ChangeBed(p, b)
  <2>1. Residence!MayGo(p)
    BY <1>4, <1>5, MayGoWhoMayClose
  <2>2. QED
    BY <1>12, <1>13, <1>18, <2>1 DEF Residence!ChangeBed, Places, Leaves, Guests, Fit
<1>21. QED
  BY <1>19, <1>20 DEF Residence!Next, Residence!Moves, Places

\* One absence or visit of one student begins or ends.
AbsenceRow(away, v) == away[v] # NoRow /\ away[v].open

LEMMA AbsenceOf ==
    ASSUME IInv, NEW v \in Requests, AbsenceRow(leave, v) \/ AbsenceRow(visit, v)
    PROVE  /\ AbsenceRow(leave, v) => leave[v].stay \in ActiveStays
           /\ AbsenceRow(visit, v) => visit[v].stay \in ActiveStays
<1>1. AbsencesFit /\ HostelTyped
  BY Parts DEF TablesTyped, TablesStand
<1>2. AbsenceRow(leave, v) => leave[v].stay \in Requests /\ OpenFor(leave, leave[v].stay)
  BY <1>1 DEF HostelTyped, AwayRow, OpenFor, AbsenceRow
<1>3. AbsenceRow(visit, v) => visit[v].stay \in Requests /\ OpenFor(visit, visit[v].stay)
  BY <1>1 DEF HostelTyped, AwayRow, OpenFor, AbsenceRow
<1>4. QED
  BY <1>1, <1>2, <1>3 DEF AbsencesFit

\* A resident is on one leave at a time.
LEMMA OneLeave ==
    ASSUME IInv, NEW q \in ActiveStays
    PROVE  /\ \A v \in OpenOf(leave, stay[q].student) : leave[v].stay = q
           /\ ~OpenFor(leave, q) => OpenOf(leave, stay[q].student) = {}
           /\ \A v, w \in OpenOf(leave, stay[q].student) : v = w
<1>1. AbsencesFit
  BY Parts DEF TablesStand
<1>2. \A v \in OpenOf(leave, stay[q].student) : leave[v].stay = q
  BY AbsenceOf, OneStay DEF OpenOf, AbsenceRow
<1>3. ~OpenFor(leave, q) => OpenOf(leave, stay[q].student) = {}
  BY <1>2 DEF OpenOf, OpenFor
<1>4. \A v, w \in OpenOf(leave, stay[q].student) : v = w
  BY <1>1, <1>2 DEF OpenOf, AbsencesFit
<1>5. QED
  BY <1>2, <1>3, <1>4

LEMMA DepartureImplements ==
    ASSUME IInv, NEW s \in Sessions, CommitDeparture(s)
    PROVE  Residence!Next
<1>1. PICK c : AtCommit(s, c)
  BY CommitContext DEF CommitDeparture
<1>2. HostelTyped
  BY Parts DEF TablesTyped
<1> DEFINE row == [stay |-> c.stay, open |-> TRUE]
<1>3. /\ c.op \in {"leave", "visit"}
      /\ leave' = IF c.op = "leave" THEN [leave EXCEPT ![c.req] = row] ELSE leave
      /\ visit' = IF c.op = "visit" THEN [visit EXCEPT ![c.req] = row] ELSE visit
      /\ hostel' = hostel /\ room' = room /\ bed' = bed /\ stay' = stay
  BY <1>1 DEF CommitDeparture, AtCommit
<1>4. /\ c.req \in Requests /\ c.stay \in ActiveStays
      /\ leave[c.req] = NoRow /\ visit[c.req] = NoRow
      /\ c.op = "leave" => ~OpenFor(leave, c.stay)
  BY <1>1, <1>3 DEF AtCommit, CommandFits, Accepts
<1>5. row # NoRow
  <2>1. row \in AwayRow
    BY <1>4 DEF AwayRow, ActiveStays, Stays
  <2>2. QED
    BY <2>1, NoHostelRowAssumption
<1>6. PICK p \in Students : p = stay[c.stay].student
  BY <1>4, OneStay
<1>7. Places' = Places /\ Fit' = Fit /\ BedOf(p) # {}
  BY <1>3, <1>4, <1>6, SamePlaces, SameFit, OneStay
<1>8. CASE c.op = "leave"
  <2>1. Guests' = Guests
    BY <1>3, <1>8, SamePlaces
  <2>2. \A v \in Requests : leave'[v] = IF v = c.req THEN row ELSE leave[v]
    BY <1>2, <1>3, <1>8 DEF HostelTyped
  <2>3. OpenOf(leave, p) = {}
    BY <1>4, <1>6, <1>8, OneLeave
  <2>4. OpenOf(leave, p)' = {c.req}
    BY <1>3, <1>4, <1>5, <1>6, <2>2, <2>3 DEF OpenOf
  <2>5. ASSUME NEW x \in Students \ {p}
        PROVE  OpenOf(leave, x)' = OpenOf(leave, x)
    BY <1>3, <1>4, <1>5, <1>6, <2>2 DEF OpenOf
  <2>6. Leaves' = [Leaves EXCEPT ![p] = {c.req}]
    BY <2>4, <2>5 DEF Leaves
  <2>7. Leaves' # Leaves
    BY <2>3, <2>6 DEF Leaves
  <2>8. Residence!Leave(p, c.req)
    BY <1>7, <2>1, <2>3, <2>6 DEF Residence!Leave, Places, Leaves, Guests, Fit
  <2>9. QED
    BY <1>4, <2>7, <2>8 DEF Residence!Next, Residence!Absences, Leaves
<1>9. CASE c.op = "visit"
  <2>1. Leaves' = Leaves
    BY <1>3, <1>9, SamePlaces
  <2>2. \A v \in Requests : visit'[v] = IF v = c.req THEN row ELSE visit[v]
    BY <1>2, <1>3, <1>9 DEF HostelTyped
  <2>3. \A x \in Students : c.req \notin OpenOf(visit, x)
    BY <1>4 DEF OpenOf
  <2>4. OpenOf(visit, p)' = OpenOf(visit, p) \cup {c.req}
    BY <1>3, <1>4, <1>5, <1>6, <2>2 DEF OpenOf
  <2>5. ASSUME NEW x \in Students \ {p}
        PROVE  OpenOf(visit, x)' = OpenOf(visit, x)
    BY <1>3, <1>4, <1>5, <1>6, <2>2 DEF OpenOf
  <2>6. Guests' = [Guests EXCEPT ![p] = Guests[p] \cup {c.req}]
    BY <2>4, <2>5 DEF Guests
  <2>7. Guests' # Guests
    <3>1. c.req \in Guests'[p] /\ c.req \notin Guests[p]
      BY <2>3, <2>4 DEF Guests
    <3>2. QED
      BY <3>1
  <2>8. Residence!Visit(p, c.req)
    BY <1>7, <2>1, <2>3, <2>6 DEF Residence!Visit, Places, Leaves, Guests, Fit
  <2>9. QED
    BY <1>4, <2>7, <2>8 DEF Residence!Next, Residence!Visits, Guests
<1>10. QED
  BY <1>3, <1>8, <1>9

LEMMA ReturnImplements ==
    ASSUME IInv, NEW s \in Sessions, CommitReturn(s)
    PROVE  Residence!Next
<1>1. PICK c : AtCommit(s, c)
  BY CommitContext DEF CommitReturn
<1>2. HostelTyped
  BY Parts DEF TablesTyped
<1>3. /\ c.op \in {"return_leave", "depart_visit"}
      /\ leave' = IF c.op = "return_leave" THEN [leave EXCEPT ![c.away].open = FALSE] ELSE leave
      /\ visit' = IF c.op = "depart_visit" THEN [visit EXCEPT ![c.away].open = FALSE] ELSE visit
      /\ hostel' = hostel /\ room' = room /\ bed' = bed /\ stay' = stay
  BY <1>1 DEF CommitReturn, AtCommit
<1>4. /\ c.away \in Requests
      /\ c.op = "return_leave" => AbsenceRow(leave, c.away)
      /\ c.op = "depart_visit" => AbsenceRow(visit, c.away)
  BY <1>1, <1>3 DEF AtCommit, CommandFits, Accepts, AbsenceRow
<1>5. Places' = Places /\ Fit' = Fit
  BY <1>3, SamePlaces, SameFit
<1>6. CASE c.op = "return_leave"
  <2>1. PICK q \in ActiveStays : leave[c.away].stay = q
    BY <1>4, <1>6, AbsenceOf
  <2>2. PICK p \in Students : p = stay[q].student
    BY <2>1, OneStay
  <2>3. leave[c.away] \in AwayRow /\ leave[c.away].open /\ leave[c.away] # NoRow
    BY <1>2, <1>4, <1>6 DEF HostelTyped, AbsenceRow
  <2>4. /\ leave'[c.away] = [leave[c.away] EXCEPT !.open = FALSE]
        /\ \A v \in Requests \ {c.away} : leave'[v] = leave[v]
    BY <1>2, <1>3, <1>4, <1>6 DEF HostelTyped
  <2>5. ~leave'[c.away].open
    BY <2>3, <2>4 DEF AwayRow
  <2>6. OpenOf(leave, p) = {c.away}
    <3>1. c.away \in OpenOf(leave, p)
      BY <1>4, <2>1, <2>2, <2>3 DEF OpenOf
    <3>2. QED
      BY <2>2, <3>1, OneLeave
  <2>7. OpenOf(leave, p)' = {}
    BY <1>3, <2>4, <2>5, <2>6 DEF OpenOf
  <2>8. ASSUME NEW x \in Students \ {p}
        PROVE  OpenOf(leave, x)' = OpenOf(leave, x)
    BY <1>3, <2>1, <2>2, <2>4, <2>5 DEF OpenOf
  <2>9. Leaves' = [Leaves EXCEPT ![p] = {}] /\ Leaves' # Leaves
    <3>1. Leaves' = [Leaves EXCEPT ![p] = {}]
      BY <2>7, <2>8 DEF Leaves
    <3>2. QED
      BY <2>6, <3>1 DEF Leaves
  <2>10. Residence!Return(p, c.away)
    <3>1. Guests' = Guests
      BY <1>3, <1>6, SamePlaces
    <3>2. QED
      BY <1>5, <2>6, <2>9, <3>1 DEF Residence!Return, Places, Leaves, Guests, Fit
  <2>11. QED
    BY <1>4, <2>9, <2>10 DEF Residence!Next, Residence!Absences, Leaves
<1>7. CASE c.op = "depart_visit"
  <2>1. PICK q \in ActiveStays : visit[c.away].stay = q
    BY <1>4, <1>7, AbsenceOf
  <2>2. PICK p \in Students : p = stay[q].student
    BY <2>1, OneStay
  <2>3. visit[c.away] \in AwayRow /\ visit[c.away].open /\ visit[c.away] # NoRow
    BY <1>2, <1>4, <1>7 DEF HostelTyped, AbsenceRow
  <2>4. /\ visit'[c.away] = [visit[c.away] EXCEPT !.open = FALSE]
        /\ \A v \in Requests \ {c.away} : visit'[v] = visit[v]
    BY <1>2, <1>3, <1>4, <1>7 DEF HostelTyped
  <2>5. ~visit'[c.away].open
    BY <2>3, <2>4 DEF AwayRow
  <2>6. c.away \in OpenOf(visit, p)
    BY <1>4, <2>1, <2>2, <2>3 DEF OpenOf
  <2>7. OpenOf(visit, p)' = OpenOf(visit, p) \ {c.away}
    BY <1>3, <2>4, <2>5 DEF OpenOf
  <2>8. ASSUME NEW x \in Students \ {p}
        PROVE  OpenOf(visit, x)' = OpenOf(visit, x)
    BY <1>3, <2>1, <2>2, <2>4, <2>5 DEF OpenOf
  <2>9. Guests' = [Guests EXCEPT ![p] = Guests[p] \ {c.away}] /\ Guests' # Guests
    <3>1. Guests' = [Guests EXCEPT ![p] = Guests[p] \ {c.away}]
      BY <2>7, <2>8 DEF Guests
    <3>2. c.away \in Guests[p] /\ c.away \notin Guests'[p]
      BY <2>6, <2>7 DEF Guests
    <3>3. QED
      BY <3>1, <3>2
  <2>10. Residence!Depart(p, c.away)
    <3>1. Leaves' = Leaves
      BY <1>3, <1>7, SamePlaces
    <3>2. QED
      BY <1>5, <2>6, <2>9, <3>1 DEF Residence!Depart, Places, Leaves, Guests, Fit
  <2>11. QED
    BY <1>4, <2>9, <2>10 DEF Residence!Next, Residence!Visits, Guests
<1>8. QED
  BY <1>3, <1>6, <1>7

LEMMA QuietImplements ==
    ASSUME UNCHANGED <<hostel, room, bed, stay, leave, visit>>
    PROVE  Bar' = Bar
  BY SamePlaces, SameFit DEF Bar

LEMMA StepImplements == IInv /\ IInv' /\ [Next]_vars => [Residence!Next]_Bar
<1> SUFFICES ASSUME IInv, IInv', [Next]_vars PROVE Residence!Next \/ Bar' = Bar
  OBVIOUS
<1>1. ASSUME NEW s \in Sessions, Work(s)
      PROVE  Residence!Next \/ Bar' = Bar
  <2>1. CASE OpenPage(s) \/ Receive(s) \/ SavePage(s)
    BY <2>1, QuietImplements DEF OpenPage, Receive, SavePage, Begin, hostelTables
  <2>2. CASE Answer(s) \/ FindNoStay(s) \/ Deny(s)
    BY <2>2, QuietImplements DEF Answer, FindNoStay, Deny, Refuse, hostelTables
  <2>3. CASE ReadHead(s) \/ LockStructure(s) \/ LockStudent(s) \/ Decide(s)
    BY <2>3, QuietImplements
       DEF ReadHead, LockStructure, LockStudent, Decide, Refuse, hostelTables
  <2>4. CASE CommitHostel(s) \/ CommitBeds(s) \/ CommitRoom(s) \/ CommitBed(s)
    BY <2>4, RefitImplements DEF CommitHostel, CommitBeds, CommitRoom, CommitBed
  <2>5. CASE CommitRegister(s) \/ CommitBill(s)
    BY <2>5, QuietImplements DEF CommitRegister, CommitBill
  <2>6. QED
    BY <1>1, <2>1, <2>2, <2>3, <2>4, <2>5, AllocateImplements, VacateImplements,
       TransferImplements, DepartureImplements, ReturnImplements DEF Work, Commit
<1>2. ASSUME NEW s \in Sessions, Abort(s)
      PROVE  Residence!Next \/ Bar' = Bar
  BY <1>2, QuietImplements DEF Abort, Refuse, hostelTables
<1>3. CASE \E p \in Leavers : ChangeStatus(p)
  BY <1>3, QuietImplements DEF ChangeStatus, hostelTables
<1>4. CASE \E h \in Heads : ChangeHead(h) \/ \E p \in Leavers : GenerateBill(p, h)
  BY <1>4, QuietImplements DEF ChangeHead, GenerateBill, hostelTables
<1>5. CASE ArchivePlan \/ DayPasses \/ UNCHANGED vars
  BY <1>5, QuietImplements DEF ArchivePlan, DayPasses, vars, hostelTables
<1>6. QED
  BY <1>1, <1>2, <1>3, <1>4, <1>5 DEF Next

\* However the commands of HostelService overlap, students move, leave, return
\* and are visited one at a time as HostelResidence says: alone in a fitting
\* bed, from bed to bed in one step, out of it only when back and without
\* visitors, and never put out by a change of beds, rooms and hostels.
THEOREM Refinement == Spec => ResidenceKept
<1>1. Init => Residence!Init
  <2> SUFFICES ASSUME Init PROVE Residence!Init
    OBVIOUS
  <2>1. ActiveStays = {}
    BY DEF Init, ActiveStays, Stays
  <2>2. \A p : BedOf(p) = {} /\ OpenOf(leave, p) = {} /\ OpenOf(visit, p) = {}
    BY <2>1 DEF Init, BedOf, OpenOf
  <2>3. Fit \in [Rooms \X Labels -> SUBSET Students]
    BY DEF Fit, FitFor
  <2>4. QED
    BY <2>2, <2>3 DEF Residence!Init, Residence!Nothing, Fit
<1>2. IInv /\ IInv' /\ [Next]_vars => [Residence!Next]_Bar
  BY StepImplements
<1>3. QED
  BY <1>1, <1>2, Invariance, PTL
     DEF Spec, ResidenceKept, Residence!Spec, Residence!vars, Bar, Places, Leaves, Guests, Fit

===============================================================================
