-------------------------------- MODULE Hostel --------------------------------
(***************************************************************************)
(* The commands of HostelService as concurrent transactions: hostels,      *)
(* rooms and beds, stays, leave and visits, the register and the monthly   *)
(* bill, next to the student and fee services, which change the rows a     *)
(* command reads without taking its advisory lock.                         *)
(*                                                                         *)
(* The rows of the hostel tables are touched only under the advisory lock  *)
(* of the school, so that lock stands for their row locks; what a command  *)
(* decides, it decides in one step, and its writes appear when it commits. *)
(* A stay, a leave and a visit are stored under the request id that made   *)
(* them.  A bed is a label in a room.  The register is that of one session *)
(* of the day, the fee structure that of one grade and year.               *)
(***************************************************************************)
EXTENDS Integers, FiniteSets, FiniteSetsExt

CONSTANTS Sessions, Requests, Commands,
          Hostels, Rooms,
          Labels,        \* 1 .. n: the label B-n, given by hand or automatically
          BedLimit,      \* beds a room may have (500)
          Students, Gender,
          Leavers,       \* the students the student and fee services act on
          Days, MonthOf, \* the days 0 .. n and the month each of them is in
          Heads,         \* monthly optional heads of the structure
          Amounts,       \* the fees of rooms and heads
          FirstHostel, FirstRooms, FirstHeads, \* what exists at the start
          NoRow, NoCommand, NoLabel, NoDay

Kinds == {"boys", "girls", "mixed"}
Conditions == {"active", "maintenance", "retired"}
Marks == {"present", "absent"}
Months == {MonthOf[d] : d \in Days}

HostelRow == [kind: Kinds, rooms: Nat, capacity: Nat, active: BOOLEAN]
RoomRow == [hostel: Hostels, capacity: Nat, occupied: Nat, fee: Amounts, active: BOOLEAN]
StayRow == [student: Students, room: Rooms, label: Labels, fee: Amounts,
            from: Days, to: Days \cup {NoDay}, order: Nat]
\* a leave or a visit
AwayRow == [stay: Requests, open: BOOLEAN]
MarkRow == [status: Marks, version: Nat \ {0}]
BillRow == [student: Students, head: Heads, month: Months, amount: Amounts]
ChargeRow == [student: Students, month: Months, stay: Requests, head: Heads]

HostelCommand   == [op: {"create_hostel", "update_hostel"}, req: Requests,
                    hostel: Hostels, kind: Kinds, active: BOOLEAN]
CreateRoom      == [op: {"create_room"}, req: Requests, room: Rooms, hostel: Hostels,
                    count: Nat \ {0}, fee: Amounts]
UpdateRoom      == [op: {"update_room"}, req: Requests, room: Rooms, fee: Amounts,
                    active: BOOLEAN]
\* labels = {} asks for automatic labels
AddBeds         == [op: {"add_beds"}, req: Requests, room: Rooms, count: Nat \ {0},
                    labels: SUBSET Labels]
UpdateBed       == [op: {"update_bed"}, req: Requests, room: Rooms, label: Labels,
                    status: Conditions]
Allocate        == [op: {"allocate"}, req: Requests, student: Students, room: Rooms,
                    label: Labels \cup {NoLabel}]
Transfer        == [op: {"transfer"}, req: Requests, stay: Requests, room: Rooms,
                    label: Labels \cup {NoLabel}]
StayCommand     == [op: {"vacate", "leave", "visit"}, req: Requests, stay: Requests]
BackCommand     == [op: {"return_leave", "depart_visit"}, req: Requests, away: Requests]
RegisterCommand == [op: {"save_register"}, req: Requests, day: Days,
                    entries: SUBSET Requests, status: Marks]
BillCommand     == [op: {"bill"}, req: Requests, stay: Requests, head: Heads,
                    month: Months]

ASSUME HostelCommandsAssumption ==
    \A c \in Commands :
        \/ c \in HostelCommand \/ c \in CreateRoom \/ c \in UpdateRoom
        \/ c \in UpdateBed \/ c \in Allocate \/ c \in Transfer \/ c \in StayCommand
        \/ c \in BackCommand \/ c \in BillCommand
        \/ c \in AddBeds /\ (c.labels # {} => Cardinality(c.labels) = c.count)
        \/ c \in RegisterCommand /\ c.entries # {}
ASSUME HostelConstantsAssumption ==
    /\ IsFiniteSet(Labels) /\ Labels = 1 .. Cardinality(Labels)
    /\ IsFiniteSet(Days) /\ Days # {} /\ Days = 0 .. Cardinality(Days) - 1
    /\ BedLimit \in 1 .. Cardinality(Labels) /\ Amounts \subseteq Nat
    /\ Gender \in [Students -> {"male", "female"}] /\ Leavers \subseteq Students
    /\ MonthOf \in [Days -> Nat]
    /\ \A d, e \in Days : d <= e => MonthOf[d] <= MonthOf[e]
    /\ FirstHostel \in [Hostels -> Kinds \cup {NoRow}]
    /\ IsFiniteSet(DOMAIN FirstRooms)
    /\ \A r \in DOMAIN FirstRooms :
          /\ r \in Rooms /\ FirstRooms[r].hostel \in Hostels
          /\ FirstHostel[FirstRooms[r].hostel] # NoRow
          /\ FirstRooms[r].beds \subseteq Labels /\ FirstRooms[r].fee \in Amounts
          /\ Cardinality(FirstRooms[r].beds) <= BedLimit
    /\ FirstHeads \in [Heads -> Amounts]
ASSUME NoHostelRowAssumption ==
    /\ NoRow \notin Commands \cup HostelRow \cup RoomRow \cup StayRow \cup AwayRow \cup MarkRow
         \cup Amounts \cup Conditions \cup Kinds
    /\ NoLabel \notin Labels /\ NoDay \notin Days /\ NoCommand \notin Commands

VARIABLES hostel, room,
          bed,            \* the condition of each bed
          stay,           \* room_allocations
          leave, visit,
          register,       \* hostel_register: the mark of a stay on a day
          charge,         \* hostel_charges
          event,          \* hostel_events: the command a request id carried
          head, planActive, bill,   \* fee_heads, fee_structures, fee_ledger
          enrolled,       \* the students who are ACTIVE and not deleted
          today,
          pc, cmd, held,
          headView,       \* the fee head a session has loaded
          page,           \* the marks its user has seen on the register page
          plan            \* the bed it has chosen and the date it has taken

hostelTables == <<hostel, room, bed, stay, leave, visit, register, charge, event>>
fees         == <<head, planActive, bill>>
world        == <<enrolled, today>>
sessions     == <<pc, cmd, held, headView, page, plan>>
vars         == <<hostelTables, fees, world, sessions>>

Phases == {"idle", "page", "head", "structure", "student", "decide", "commit"}

SchoolLock == <<"hostel">>
StructureLock == <<"structure">>
StudentLock(p) == <<"student", p>>
Locks == {SchoolLock, StructureLock} \cup {StudentLock(p) : p \in Students}

TypeOK ==
    /\ hostel \in [Hostels -> HostelRow \cup {NoRow}]
    /\ room \in [Rooms -> RoomRow \cup {NoRow}]
    /\ bed \in [Rooms -> [Labels -> Conditions \cup {NoRow}]]
    /\ stay \in [Requests -> StayRow \cup {NoRow}]
    /\ leave \in [Requests -> AwayRow \cup {NoRow}]
    /\ visit \in [Requests -> AwayRow \cup {NoRow}]
    /\ register \in [Requests -> [Days -> MarkRow \cup {NoRow}]]
    /\ charge \subseteq ChargeRow
    /\ event \in [Requests -> Commands \cup {NoRow}]
    /\ head \in [Heads -> Amounts \cup {NoRow}]
    /\ planActive \in BOOLEAN
    /\ bill \subseteq BillRow
    /\ enrolled \subseteq Students
    /\ today \in Days
    /\ pc \in [Sessions -> Phases]
    /\ cmd \in [Sessions -> Commands \cup {NoCommand}]
    /\ held \in [Sessions -> SUBSET Locks]
    /\ headView \in [Sessions -> Amounts \cup {NoRow}]
    /\ page \in [Sessions -> [Requests -> MarkRow \cup {NoRow}]]
    /\ plan \in [Sessions -> [labels: SUBSET Labels, day: Days]]
    /\ \A r \in Requests : stay[r] # NoRow /\ stay[r].to # NoDay => stay[r].from <= stay[r].to
    /\ \A s \in Sessions : pc[s] = "idle" => cmd[s] = NoCommand /\ held[s] = {}

-----------------------------------------------------------------------------
(* Counting and looking up. *)

Stays == {r \in Requests : stay[r] # NoRow}
ActiveStays == {r \in Stays : stay[r].to = NoDay}

Registered(beds) == {l \in Labels : beds[l] \notin {NoRow, "retired"}}

\* _sync, the room: beds that are not retired, stays that are active
CountRoom(row, r, beds, stays) ==
    [row EXCEPT !.capacity = Cardinality(Registered(beds[r])),
                !.occupied = Cardinality({q \in Requests : /\ stays[q] # NoRow
                                                           /\ stays[q].room = r
                                                           /\ stays[q].to = NoDay})]

\* _sync, the hostel: its active rooms and their capacity
CountHostel(row, h, rooms) ==
    LET open == {r \in Rooms : rooms[r] # NoRow /\ rooms[r].hostel = h /\ rooms[r].active}
    IN  [row EXCEPT !.rooms = Cardinality(open),
                    !.capacity = SumFunction([r \in open |-> rooms[r].capacity])]

Occupied(r, l) == \E q \in ActiveStays : stay[q].room = r /\ stay[q].label = l

FreeBeds(r, besides) ==
    {l \in Labels : /\ bed[r][l] = "active"
                    /\ \A q \in ActiveStays \ besides : stay[q].room # r \/ stay[q].label # l}

Suits(kind, p) == kind = "mixed" \/ kind = (IF Gender[p] = "male" THEN "boys" ELSE "girls")

OpenFor(away, q) == \E r \in Requests : away[r] # NoRow /\ away[r].stay = q /\ away[r].open

\* mutant: stays of one date are not told apart
LaterByDate(q, r) == stay[q].from > stay[r].from

\* stays_query orders stays by date and, on one date, by the time they were made
Later(q, r) ==
    \/ stay[q].from > stay[r].from
    \/ stay[q].from = stay[r].from /\ stay[q].order > stay[r].order

Covers(q, d) == stay[q].from <= d /\ (stay[q].to = NoDay \/ stay[q].to >= d)

\* the roster of a day: for each student the latest stay that covers it
Roster(d) ==
    {q \in Stays : /\ Covers(q, d)
                   /\ ~\E r \in Stays : /\ stay[r].student = stay[q].student
                                        /\ Covers(r, d) /\ Later(r, q)}

\* _new_beds without labels: the first free ones from the number of beds on
AutoLabels(r, count) ==
    LET used == {l \in Labels : bed[r][l] # NoRow}
        free == {l \in Labels \ used : l > Cardinality(used)}
    IN  {l \in free : Cardinality({k \in free : k < l}) < count}

-----------------------------------------------------------------------------

Init ==
    /\ bed = [r \in Rooms |-> [l \in Labels |->
                IF r \in DOMAIN FirstRooms /\ l \in FirstRooms[r].beds THEN "active" ELSE NoRow]]
    /\ stay = [r \in Requests |-> NoRow]
    /\ room = [r \in Rooms |->
                IF r \in DOMAIN FirstRooms
                THEN CountRoom([hostel |-> FirstRooms[r].hostel, capacity |-> 0, occupied |-> 0,
                                fee |-> FirstRooms[r].fee, active |-> TRUE], r, bed, stay)
                ELSE NoRow]
    /\ hostel = [h \in Hostels |->
                  IF FirstHostel[h] = NoRow THEN NoRow
                  ELSE CountHostel([kind |-> FirstHostel[h], rooms |-> 0, capacity |-> 0,
                                    active |-> TRUE], h, room)]
    /\ leave = [r \in Requests |-> NoRow]
    /\ visit = [r \in Requests |-> NoRow]
    /\ register = [r \in Requests |-> [d \in Days |-> NoRow]]
    /\ charge = {} /\ bill = {}
    /\ event = [r \in Requests |-> NoRow]
    /\ head = FirstHeads /\ planActive = TRUE
    /\ enrolled = Students /\ today = 0
    /\ pc = [s \in Sessions |-> "idle"]
    /\ cmd = [s \in Sessions |-> NoCommand]
    /\ held = [s \in Sessions |-> {}]
    /\ headView = [s \in Sessions |-> NoRow]
    /\ page = [s \in Sessions |-> [r \in Requests |-> NoRow]]
    /\ plan = [s \in Sessions |-> [labels |-> {}, day |-> 0]]

Free(s, lock) == \A other \in Sessions \ {s} : lock \notin held[other]

Acquire(s, lock) ==
    /\ Free(s, lock)
    /\ held' = [held EXCEPT ![s] = @ \cup {lock}]

GoTo(s, phase) == pc' = [pc EXCEPT ![s] = phase]

\* mutant: the advisory lock outlives the transaction
EndKeepsLock(s) ==
    /\ GoTo(s, "idle")
    /\ cmd' = [cmd EXCEPT ![s] = NoCommand]
    /\ held' = [held EXCEPT ![s] = @ \cap {SchoolLock}]
    /\ headView' = [headView EXCEPT ![s] = NoRow]
    /\ page' = [page EXCEPT ![s] = [r \in Requests |-> NoRow]]
    /\ plan' = [plan EXCEPT ![s] = [labels |-> {}, day |-> 0]]

End(s) ==
    /\ GoTo(s, "idle")
    /\ cmd' = [cmd EXCEPT ![s] = NoCommand]
    /\ held' = [held EXCEPT ![s] = {}]
    /\ headView' = [headView EXCEPT ![s] = NoRow]
    /\ page' = [page EXCEPT ![s] = [r \in Requests |-> NoRow]]
    /\ plan' = [plan EXCEPT ![s] = [labels |-> {}, day |-> 0]]

\* 404, 409 or 400, and rollback
Refuse(s) == End(s) /\ UNCHANGED <<hostelTables, fees, world>>

Version(mark) == IF mark = NoRow THEN 0 ELSE mark.version

\* the register page the user fills in before saving it
OpenPage(s) ==
    /\ pc[s] = "idle"
    /\ \E c \in Commands :
         /\ c.op = "save_register"
         /\ cmd' = [cmd EXCEPT ![s] = c]
         /\ page' = [page EXCEPT ![s] = [r \in Requests |-> register[r][c.day]]]
    /\ GoTo(s, "page")
    /\ UNCHANGED <<hostelTables, fees, world, held, headView, plan>>

FirstPhase(op) ==
    CASE op \in {"allocate", "transfer"} -> "student"
      [] op = "bill"                     -> "head"
      [] OTHER                           -> "decide"

\* mutant: commands of one school are not serialised
BeginNoWait(s, c) ==
    /\ event[c.req] = NoRow
    /\ cmd' = [cmd EXCEPT ![s] = c]
    /\ GoTo(s, FirstPhase(c.op))
    /\ UNCHANGED <<hostelTables, fees, world, held, headView, page, plan>>

\* command: the advisory lock of the school, then the log.  A call that waits
\* for the lock has read nothing; one whose request id is known is answered
\* with the recorded result, or with a conflict over other details.
Begin(s, c) ==
    /\ Acquire(s, SchoolLock)
    /\ event[c.req] = NoRow
    /\ cmd' = [cmd EXCEPT ![s] = c]
    /\ GoTo(s, FirstPhase(c.op))
    /\ UNCHANGED <<hostelTables, fees, world, headView, page, plan>>

Receive(s) ==
    /\ pc[s] = "idle"
    /\ \E c \in Commands : c.op # "save_register" /\ Begin(s, c)

SavePage(s) == pc[s] = "page" /\ Begin(s, cmd[s])

Answer(s) ==
    /\ pc[s] = "page"
    /\ Free(s, SchoolLock)
    /\ event[cmd[s].req] # NoRow
    /\ Refuse(s)

\* _bill: the period of the stay, and the head read without a lock
ReadHead(s) ==
    LET c == cmd[s] IN
    /\ pc[s] = "head"
    /\ IF /\ c.stay \in Stays /\ head[c.head] # NoRow
          /\ MonthOf[stay[c.stay].from] <= c.month
          /\ stay[c.stay].to # NoDay => MonthOf[stay[c.stay].to] >= c.month
          /\ c.month <= MonthOf[today]
       THEN /\ headView' = [headView EXCEPT ![s] = head[c.head]]
            /\ GoTo(s, "structure")
            /\ UNCHANGED <<hostelTables, fees, world, cmd, held, page, plan>>
       ELSE Refuse(s)

LockStructure(s) ==
    /\ pc[s] = "structure"
    /\ Acquire(s, StructureLock)
    /\ GoTo(s, "student")
    /\ UNCHANGED <<hostelTables, fees, world, cmd, headView, page, plan>>

\* a transfer of a stay that does not exist
FindNoStay(s) ==
    /\ pc[s] = "student" /\ cmd[s].op = "transfer" /\ cmd[s].stay \notin Stays
    /\ Refuse(s)

StudentOf(s) == IF cmd[s].op = "allocate" THEN cmd[s].student ELSE stay[cmd[s].stay].student

\* mutant: the head is not refreshed after the wait for the structure
RefreshHeadNot(s) == UNCHANGED headView

RefreshHead(s) ==
    headView' = [headView EXCEPT ![s] = IF cmd[s].op = "bill" THEN head[cmd[s].head] ELSE NoRow]

\* mutant: the student is read without FOR UPDATE
LockStudentNot(s) ==
    /\ pc[s] = "student" /\ (cmd[s].op = "transfer" => cmd[s].stay \in Stays)
    /\ IF IF cmd[s].op = "bill" THEN head[cmd[s].head] # NoRow ELSE StudentOf(s) \in enrolled
       THEN /\ RefreshHead(s)
            /\ GoTo(s, "decide")
            /\ UNCHANGED <<hostelTables, fees, world, cmd, held, page, plan>>
       ELSE Refuse(s)

\* _student(lock=True): a stay needs an active student, a bill does not; a bill
\* then reads its head again and fails when it is gone
LockStudent(s) ==
    /\ pc[s] = "student" /\ (cmd[s].op = "transfer" => cmd[s].stay \in Stays)
    /\ Free(s, StudentLock(StudentOf(s)))
    /\ IF IF cmd[s].op = "bill" THEN head[cmd[s].head] # NoRow ELSE StudentOf(s) \in enrolled
       THEN /\ held' = [held EXCEPT ![s] = @ \cup {StudentLock(StudentOf(s))}]
            /\ RefreshHead(s)
            /\ GoTo(s, "decide")
            /\ UNCHANGED <<hostelTables, fees, world, cmd, page, plan>>
       ELSE Refuse(s)

-----------------------------------------------------------------------------
(* What a command checks under its locks. *)

\* the labels of new beds, or the bed of a new stay: the first free one unless given
Chosen(c) ==
    CASE c.op = "create_room" -> 1 .. c.count
      [] c.op = "add_beds" -> IF c.labels = {} THEN AutoLabels(c.room, c.count) ELSE c.labels
      [] c.op \in {"allocate", "transfer"} ->
           IF c.label # NoLabel THEN {c.label}
           ELSE LET free == FreeBeds(c.room, IF c.op = "transfer" THEN {c.stay} ELSE {})
                IN  {l \in free : \A k \in free : l <= k}
      [] OTHER -> {}

MayArchive(c) ==
    (\E q \in ActiveStays : room[stay[q].room].hostel = c.hostel)
        => c.active /\ c.kind = hostel[c.hostel].kind

\* _admit, after the student is locked
MayAdmit(p, c, closing) ==
    /\ room[c.room] # NoRow
    /\ room[c.room].active /\ hostel[room[c.room].hostel].active
    /\ Suits(hostel[room[c.room].hostel].kind, p)
    /\ \A q \in ActiveStays \ closing : stay[q].student # p
    /\ Chosen(c) # {} /\ Chosen(c) \subseteq FreeBeds(c.room, closing)

\* mutant: visitors are forgotten when a stay is closed
MayCloseVisited(q) == q \in ActiveStays /\ ~OpenFor(leave, q)

MayClose(q) == q \in ActiveStays /\ ~OpenFor(leave, q) /\ ~OpenFor(visit, q)

\* mutant: the version of the page is not compared
MayMarkAnyVersion(s) == cmd[s].day <= today /\ cmd[s].entries \subseteq Roster(cmd[s].day)

MayMark(s) ==
    /\ cmd[s].day <= today
    /\ cmd[s].entries \subseteq Roster(cmd[s].day)
    /\ \A q \in cmd[s].entries : Version(page[s][q]) = Version(register[q][cmd[s].day])

ChargesOf(c) == {x \in charge : x.student = stay[c.stay].student /\ x.month = c.month}
BillsOf(c) == {x \in bill : /\ x.student = stay[c.stay].student /\ x.month = c.month
                            /\ x.head = c.head}

\* _bill, under the locks of the structure and the student
MayBill(s) ==
    LET c == cmd[s]
        fee == stay[c.stay].fee
    IN  /\ planActive
        /\ headView[s] = fee /\ fee > 0
        /\ \A x \in ChargesOf(c) : x.head = c.head
        /\ \A x \in BillsOf(c) : x.amount = fee

Accepts(s) ==
    LET c == cmd[s] IN
    CASE c.op = "create_hostel" -> hostel[c.hostel] = NoRow
      [] c.op = "update_hostel" -> hostel[c.hostel] # NoRow /\ MayArchive(c)
      [] c.op = "create_room"   -> /\ room[c.room] = NoRow /\ hostel[c.hostel] # NoRow
                                   /\ hostel[c.hostel].active /\ c.count <= BedLimit
      [] c.op = "update_room"   -> /\ room[c.room] # NoRow
                                   /\ IF c.active THEN hostel[room[c.room].hostel].active
                                      ELSE room[c.room].occupied = 0
      [] c.op = "add_beds"      -> /\ room[c.room] # NoRow
                                   /\ room[c.room].capacity + c.count <= BedLimit
                                   /\ \A l \in c.labels : bed[c.room][l] = NoRow
      [] c.op = "update_bed"    -> /\ bed[c.room][c.label] # NoRow
                                   /\ ~Occupied(c.room, c.label)
                                   /\ bed[c.room][c.label] = "retired" /\ c.status # "retired"
                                        => room[c.room].capacity < BedLimit
      [] c.op = "allocate"      -> MayAdmit(c.student, c, {})
      [] c.op = "transfer"      -> /\ MayClose(c.stay)
                                   /\ c.room = stay[c.stay].room
                                        => c.label \notin {NoLabel, stay[c.stay].label}
                                   /\ MayAdmit(stay[c.stay].student, c, {c.stay})
      [] c.op = "vacate"        -> MayClose(c.stay)
      [] c.op = "leave"         -> c.stay \in ActiveStays /\ ~OpenFor(leave, c.stay)
      [] c.op = "visit"         -> c.stay \in ActiveStays
      [] c.op = "return_leave"  -> leave[c.away] # NoRow /\ leave[c.away].open
      [] c.op = "depart_visit"  -> visit[c.away] # NoRow /\ visit[c.away].open
      [] c.op = "save_register" -> MayMark(s)
      [] c.op = "bill"          -> MayBill(s)

Decide(s) ==
    /\ pc[s] = "decide"
    /\ Accepts(s)
    /\ plan' = [plan EXCEPT ![s] = [labels |-> Chosen(cmd[s]), day |-> today]]
    /\ GoTo(s, "commit")
    /\ UNCHANGED <<hostelTables, fees, world, cmd, held, headView, page>>

Deny(s) == pc[s] = "decide" /\ ~Accepts(s) /\ Refuse(s)

-----------------------------------------------------------------------------
(* The flushes and the commit. *)

Ready(s, op) == pc[s] = "commit" /\ cmd[s].op = op

\* the event, the commit and the response
Record(s) == event' = [event EXCEPT ![cmd[s].req] = cmd[s]] /\ End(s) /\ UNCHANGED world

\* _sync of the rooms a command has touched, given their other columns
Sync(rows, touched) ==
    /\ room' = [r \in Rooms |->
                  IF r \in touched THEN CountRoom(rows[r], r, bed', stay') ELSE rows[r]]
    /\ hostel' = [h \in Hostels |->
                    IF \E r \in touched : rows[r].hostel = h
                    THEN CountHostel(hostel[h], h, room') ELSE hostel[h]]

CommitHostel(s) ==
    /\ pc[s] = "commit" /\ cmd[s].op \in {"create_hostel", "update_hostel"}
    /\ hostel' = [hostel EXCEPT ![cmd[s].hostel] =
          IF cmd[s].op = "create_hostel"
          THEN [kind |-> cmd[s].kind, rooms |-> 0, capacity |-> 0, active |-> TRUE]
          ELSE [@ EXCEPT !.kind = cmd[s].kind, !.active = cmd[s].active]]
    /\ Record(s)
    /\ UNCHANGED <<room, bed, stay, leave, visit, register, charge, fees>>

NewBeds(r, labels) ==
    bed' = [bed EXCEPT ![r] = [l \in Labels |-> IF l \in labels THEN "active" ELSE @[l]]]

\* create_room and add_beds
CommitBeds(s) ==
    LET c == cmd[s] IN
    /\ pc[s] = "commit" /\ c.op \in {"create_room", "add_beds"}
    /\ Cardinality(plan[s].labels) = c.count     \* the bound: Labels may run out
    /\ NewBeds(c.room, plan[s].labels)
    /\ UNCHANGED <<stay, leave, visit, register, charge, fees>>
    /\ Sync(IF c.op = "add_beds" THEN room
            ELSE [room EXCEPT ![c.room] = [hostel |-> c.hostel, capacity |-> 0, occupied |-> 0,
                                           fee |-> c.fee, active |-> TRUE]], {c.room})
    /\ Record(s)

CommitRoom(s) ==
    LET c == cmd[s] IN
    /\ Ready(s, "update_room")
    /\ UNCHANGED <<bed, stay, leave, visit, register, charge, fees>>
    /\ Sync([room EXCEPT ![c.room].fee = c.fee, ![c.room].active = c.active], {c.room})
    /\ Record(s)

CommitBed(s) ==
    LET c == cmd[s] IN
    /\ Ready(s, "update_bed")
    /\ bed' = [bed EXCEPT ![c.room][c.label] = c.status]
    /\ UNCHANGED <<stay, leave, visit, register, charge, fees>>
    /\ Sync(room, {c.room})
    /\ Record(s)

\* the stay _admit adds: the room's rate of that moment
NewStay(s, p) ==
    [student |-> p, room |-> cmd[s].room, label |-> Min(plan[s].labels),
     fee |-> room[cmd[s].room].fee, from |-> plan[s].day, to |-> NoDay,
     order |-> Cardinality(Stays)]

CommitAllocate(s) ==
    LET c == cmd[s] IN
    /\ Ready(s, "allocate")
    /\ stay' = [stay EXCEPT ![c.req] = NewStay(s, c.student)]
    /\ UNCHANGED <<bed, leave, visit, register, charge, fees>>
    /\ Sync(room, {c.room})
    /\ Record(s)

CommitVacate(s) ==
    LET c == cmd[s] IN
    /\ Ready(s, "vacate")
    /\ stay' = [stay EXCEPT ![c.stay].to = plan[s].day]
    /\ UNCHANGED <<bed, leave, visit, register, charge, fees>>
    /\ Sync(room, {stay[c.stay].room})
    /\ Record(s)

\* _transfer closes the stay and admits the student again in one transaction
CommitTransfer(s) ==
    LET c == cmd[s] IN
    /\ Ready(s, "transfer")
    /\ stay' = [stay EXCEPT ![c.stay].to = plan[s].day,
                            ![c.req] = NewStay(s, stay[c.stay].student)]
    /\ UNCHANGED <<bed, leave, visit, register, charge, fees>>
    /\ Sync(room, {stay[c.stay].room, c.room})
    /\ Record(s)

CommitDeparture(s) ==
    LET c   == cmd[s]
        row == [stay |-> c.stay, open |-> TRUE]
    IN  /\ pc[s] = "commit" /\ c.op \in {"leave", "visit"}
        /\ leave' = IF c.op = "leave" THEN [leave EXCEPT ![c.req] = row] ELSE leave
        /\ visit' = IF c.op = "visit" THEN [visit EXCEPT ![c.req] = row] ELSE visit
        /\ Record(s)
        /\ UNCHANGED <<hostel, room, bed, stay, register, charge, fees>>

CommitReturn(s) ==
    LET c == cmd[s] IN
    /\ pc[s] = "commit" /\ c.op \in {"return_leave", "depart_visit"}
    /\ leave' = IF c.op = "return_leave" THEN [leave EXCEPT ![c.away].open = FALSE] ELSE leave
    /\ visit' = IF c.op = "depart_visit" THEN [visit EXCEPT ![c.away].open = FALSE] ELSE visit
    /\ Record(s)
    /\ UNCHANGED <<hostel, room, bed, stay, register, charge, fees>>

CommitRegister(s) ==
    LET c == cmd[s] IN
    /\ Ready(s, "save_register")
    /\ register' = [q \in Requests |->
          IF q \notin c.entries THEN register[q]
          ELSE [register[q] EXCEPT ![c.day] =
                  [status |-> c.status, version |-> Version(register[q][c.day]) + 1]]]
    /\ Record(s)
    /\ UNCHANGED <<hostel, room, bed, stay, leave, visit, charge, fees>>

\* a month that is charged already changes nothing; a bill that the fee office
\* has made is linked, otherwise one is added
CommitBill(s) ==
    LET c   == cmd[s]
        row == stay[c.stay]
    IN  /\ Ready(s, "bill")
        /\ charge' = IF ChargesOf(c) # {} THEN charge
                     ELSE charge \cup {[student |-> row.student, month |-> c.month,
                                        stay |-> c.stay, head |-> c.head]}
        /\ bill' = IF ChargesOf(c) \cup BillsOf(c) # {} THEN bill
                   ELSE bill \cup {[student |-> row.student, head |-> c.head,
                                    month |-> c.month, amount |-> headView[s]]}
        /\ Record(s)
        /\ UNCHANGED <<hostel, room, bed, stay, leave, visit, register, head, planActive>>

\* The connection drops, the worker stops, or the database refuses a statement.
Abort(s) == pc[s] # "idle" /\ Refuse(s)

-----------------------------------------------------------------------------
(* The other services. *)

Unlocked(lock) == \A s \in Sessions : lock \notin held[s]

\* update_student and delete_student wait for the row lock
ChangeStatus(p) ==
    /\ Unlocked(StudentLock(p))
    /\ enrolled' = IF p \in enrolled THEN enrolled \ {p} ELSE enrolled \cup {p}
    /\ UNCHANGED <<hostelTables, fees, today, sessions>>

\* change_fee_head: a head without bills, under the lock of its structure
ChangeHead(h) ==
    /\ Unlocked(StructureLock)
    /\ head[h] # NoRow /\ \A x \in bill : x.head # h
    /\ \E amount \in Amounts \cup {NoRow} : head' = [head EXCEPT ![h] = amount]
    /\ UNCHANGED <<hostelTables, planActive, bill, world, sessions>>

\* update_fee_structure archives or restores the structure
ArchivePlan ==
    /\ Unlocked(StructureLock)
    /\ planActive' = ~planActive
    /\ UNCHANGED <<hostelTables, head, bill, world, sessions>>

\* generate_ledger_entries bills an optional head the office has selected
GenerateBill(p, h) ==
    /\ Unlocked(StructureLock) /\ Unlocked(StudentLock(p))
    /\ planActive /\ p \in enrolled /\ head[h] # NoRow
    /\ \E m \in Months :
         /\ \A x \in bill : x.student # p \/ x.head # h \/ x.month # m
         /\ bill' = bill \cup {[student |-> p, head |-> h, month |-> m, amount |-> head[h]]}
    /\ UNCHANGED <<hostelTables, head, planActive, world, sessions>>

DayPasses ==
    /\ today + 1 \in Days
    /\ today' = today + 1
    /\ UNCHANGED <<hostelTables, fees, enrolled, sessions>>

-----------------------------------------------------------------------------

Commit(s) ==
    \/ CommitHostel(s) \/ CommitBeds(s) \/ CommitRoom(s) \/ CommitBed(s)
    \/ CommitAllocate(s) \/ CommitVacate(s) \/ CommitTransfer(s)
    \/ CommitDeparture(s) \/ CommitReturn(s) \/ CommitRegister(s) \/ CommitBill(s)

Work(s) ==
    \/ OpenPage(s) \/ Receive(s) \/ SavePage(s) \/ Answer(s) \/ ReadHead(s) \/ LockStructure(s)
    \/ FindNoStay(s) \/ LockStudent(s) \/ Decide(s) \/ Deny(s) \/ Commit(s)

Next ==
    \/ \E s \in Sessions : Work(s) \/ Abort(s)
    \/ \E p \in Leavers : ChangeStatus(p)
    \/ \E h \in Heads : ChangeHead(h) \/ \E p \in Leavers : GenerateBill(p, h)
    \/ ArchivePlan \/ DayPasses

Spec == Init /\ [][Next]_vars

-----------------------------------------------------------------------------
(* Properties. *)

\* "Aggregate counters are recomputed from physical beds and active stays",
\* within the limit of a room, and nobody shares a bed, has two, or lives
\* where beds, room or hostel are closed or meant for others ("Occupied rooms
\* and hostels cannot be archived").
ResidentsHoused ==
    /\ \A r \in Rooms : room[r] # NoRow =>
         room[r] = CountRoom(room[r], r, bed, stay) /\ room[r].capacity <= BedLimit
    /\ \A h \in Hostels : hostel[h] # NoRow => hostel[h] = CountHostel(hostel[h], h, room)
    /\ \A q \in ActiveStays :
         LET at == stay[q].room IN
         /\ bed[at][stay[q].label] = "active"
         /\ room[at].active /\ hostel[room[at].hostel].active
         /\ Suits(hostel[room[at].hostel].kind, stay[q].student)
         /\ \A other \in ActiveStays \ {q} :
              /\ stay[other].student # stay[q].student
              /\ stay[other].room # at \/ stay[other].label # stay[q].label

\* Whoever is away or visited is a current resident ("Close open leave and
\* visitor records before checkout or transfer so whereabouts history remains
\* consistent"), and a day's roster has each student at most once and today's
\* has every resident in the present bed ("the dated roster uses the student's
\* latest stay covering that date").
WhereaboutsKnown ==
    /\ \A q \in Requests : OpenFor(leave, q) \/ OpenFor(visit, q) => q \in ActiveStays
    /\ \A q \in Requests : Cardinality({r \in Requests : /\ leave[r] # NoRow /\ leave[r].open
                                                         /\ leave[r].stay = q}) <= 1
    /\ \A d \in Days : \A q, r \in Roster(d) : stay[q].student = stay[r].student => q = r
    /\ ActiveStays \subseteq Roster(today)

\* The registers of the hostel agree with each other after every command.
HostelConsistent == ResidentsHoused /\ WhereaboutsKnown

\* A stay begins only while its student is enrolled, although the student's
\* service changes that without the advisory lock, and a stay that has begun
\* keeps its terms ("Later edits do not rewrite these snapshots").
AdmittedWhileEnrolled ==
    [][\A q \in Requests : stay'[q] # stay[q] =>
          IF stay[q] = NoRow THEN stay'[q].student \in enrolled
          ELSE stay[q].to = NoDay /\ stay'[q] = [stay[q] EXCEPT !.to = stay'[q].to]]_vars

\* "Row versions prevent one warden silently overwriting another's marks": a
\* mark is replaced only by a user whose page showed that very mark.
MarksNotOverwritten ==
    [][\A q \in Requests, d \in Days : register'[q][d] # register[q][d] =>
          \E s \in Sessions : /\ Ready(s, "save_register") /\ pc'[s] = "idle"
                              /\ cmd[s].day = d /\ page[s][q] = register[q][d]]_vars

\* Neither an admission nor a mark rests on something that has changed since
\* it was read.
NoStaleDecision == AdmittedWhileEnrolled /\ MarksNotOverwritten

\* "The hostel module additionally allows only one linked hostel charge per
\* student/BS month, including after a transfer", and the bill it is linked to
\* carries the charge the stay has agreed, which is the amount of its head.
ChargesAsAgreed ==
    \A x \in charge :
        /\ x.student = stay[x.stay].student
        /\ [student |-> x.student, head |-> x.head, month |-> x.month,
            amount |-> stay[x.stay].fee] \in bill
        /\ head[x.head] = stay[x.stay].fee
        /\ \A y \in charge : y.student = x.student /\ y.month = x.month => y = x

\* the bed of a student, the open leaves or visits, and the students whom a
\* bed may take: it, its room and its hostel are in use and of the right kind
BedOf(p) == {<<stay[q].room, stay[q].label>> : q \in {r \in ActiveStays : stay[r].student = p}}

OpenOf(away, p) == {r \in Requests : /\ away[r] # NoRow /\ away[r].open
                                     /\ stay[away[r].stay].student = p}

FitFor(b) ==
    LET r == b[1] IN
    {p \in Students : /\ bed[r][b[2]] = "active"
                      /\ room[r].active /\ hostel[room[r].hostel].active
                      /\ Suits(hostel[room[r].hostel].kind, p)}

Residence == INSTANCE HostelResidence WITH
    Beds   <- Rooms \X Labels,
    place  <- [p \in Students |-> BedOf(p)],
    away   <- [p \in Students |-> OpenOf(leave, p)],
    guests <- [p \in Students |-> OpenOf(visit, p)],
    fit    <- [b \in Rooms \X Labels |-> FitFor(b)]

\* However commands overlap, the hostel changes as if each student moved, went
\* and came alone: into a free bed that is fit, from bed to bed in one step
\* ("Transfer creates a new stay and closes the old one atomically"), out of it
\* only when back and without visitors; and no bed, room or hostel is closed or
\* given to others under a resident.
ResidenceKept == Residence!Spec

-----------------------------------------------------------------------------
(* The inductive invariant: what a command may rely on between its steps     *)
(* because of the locks it holds, and what the rows themselves keep.         *)

\* the phases after the advisory lock
Working == {"head", "structure", "student", "decide", "commit"}

LocksApart ==
    \A s1, s2 \in Sessions : s1 # s2 => held[s1] \cap held[s2] = {}

PhaseFits(s) ==
    /\ pc[s] # "idle" => cmd[s] \in Commands
    /\ pc[s] = "page" => cmd[s].op = "save_register"
    /\ pc[s] \in {"head", "structure"} => cmd[s].op = "bill"
    /\ pc[s] = "student" => cmd[s].op \in {"allocate", "transfer", "bill"}
    /\ pc[s] \in Working => event[cmd[s].req] = NoRow

HoldsLocks(s) ==
    /\ pc[s] \in Working => SchoolLock \in held[s]
    /\ pc[s] \in {"student", "decide", "commit"} /\ cmd[s].op = "bill" =>
         StructureLock \in held[s]
    /\ pc[s] \in {"decide", "commit"} /\ cmd[s].op \in {"allocate", "transfer"} =>
         StudentLock(StudentOf(s)) \in held[s] /\ StudentOf(s) \in enrolled

CopiesFit(s) ==
    /\ pc[s] \in {"structure", "student", "decide", "commit"} /\ cmd[s].op = "bill" =>
         cmd[s].stay \in Stays
    /\ pc[s] \in {"decide", "commit"} /\ cmd[s].op = "transfer" => cmd[s].stay \in Stays
    /\ pc[s] \in {"decide", "commit"} /\ cmd[s].op = "bill" =>
         headView[s] = head[cmd[s].head] /\ headView[s] # NoRow

\* a mark of the same version is the mark the page has shown
PageFits(s) ==
    pc[s] # "idle" /\ cmd[s].op = "save_register" =>
      \A q \in Requests :
        LET seen == page[s][q]
            mark == register[q][cmd[s].day]
        IN  /\ Version(seen) <= Version(mark)
            /\ Version(seen) = Version(mark) => seen = mark

\* what was decided still holds when it is written
DecisionStands(s) ==
    pc[s] = "commit" =>
      /\ Accepts(s)
      /\ plan[s].labels = Chosen(cmd[s])
      /\ plan[s].day <= today
      /\ \A q \in Stays : stay[q].from <= plan[s].day

SessionInv(s) ==
    PhaseFits(s) /\ HoldsLocks(s) /\ CopiesFit(s) /\ PageFits(s) /\ DecisionStands(s)

RowsFinite == IsFiniteSet(Stays) /\ IsFiniteSet({r \in Rooms : room[r] # NoRow})

RequestsLogged ==
    \A r \in Requests : event[r] = NoRow => stay[r] = NoRow /\ leave[r] = NoRow /\ visit[r] = NoRow

\* the foreign keys
RowsBelong ==
    /\ \A r \in Rooms : IF room[r] = NoRow THEN \A l \in Labels : bed[r][l] = NoRow
                        ELSE hostel[room[r].hostel] # NoRow
    /\ \A q \in Stays : room[stay[q].room] # NoRow
    /\ \A x \in charge : x.stay \in Stays

\* the order in which stays were made, and the days they cover, agree
StaysInOrder ==
    /\ \A q \in Stays : stay[q].order < Cardinality(Stays) /\ stay[q].from <= today
    /\ \A q, r \in Stays : stay[q].order = stay[r].order => q = r
    /\ \A q \in ActiveStays : \A r \in Stays \ {q} :
         stay[r].student = stay[q].student =>
           stay[r].order < stay[q].order /\ stay[r].from <= stay[q].from

AbsencesFit ==
    /\ \A q \in Requests : OpenFor(leave, q) \/ OpenFor(visit, q) => q \in ActiveStays
    /\ \A r1, r2 \in Requests :
         /\ leave[r1] # NoRow /\ leave[r1].open /\ leave[r2] # NoRow /\ leave[r2].open
         /\ leave[r1].stay = leave[r2].stay
         => r1 = r2

IInv ==
    /\ TypeOK
    /\ LocksApart
    /\ RowsFinite /\ RequestsLogged /\ RowsBelong
    /\ ResidentsHoused
    /\ StaysInOrder
    /\ AbsencesFit
    /\ ChargesAsAgreed
    /\ \A s \in Sessions : SessionInv(s)

===============================================================================
