------------------------------- MODULE Transport -------------------------------
(***************************************************************************)
(* The commands of TransportService as concurrent transactions: fleet,     *)
(* routes and stops, scheduled runs, seat agreements, dispatch and the     *)
(* boarding of passengers, next to the student service, which changes      *)
(* enrolment, and the tracking service, which locks trips (Callers; see    *)
(* Tracking), both without the advisory lock of the commands.              *)
(*                                                                         *)
(* The other rows are touched only under the advisory lock of the school,  *)
(* so that lock stands for their row locks.  What a command decides, it    *)
(* decides in one step; its writes appear when it commits.  An agreement   *)
(* and a trip are stored under the request id that made them.  Times are   *)
(* numbers, a driver stands for a recorded licence, and a vehicle is ready *)
(* when its driver is named and no recorded document has expired.          *)
(***************************************************************************)
EXTENDS Integers, FiniteSets, FiniteSetsExt

CONSTANTS Sessions, Callers, Requests, Commands,
          Vehicles, Drivers, Routes, Stops, Runs,
          StopLimit,          \* active stops a route may have (200)
          Students,
          Leavers,            \* the students the student service acts on
          Days, WeekdayOf,    \* the days 0 .. n and the weekday of each
          FirstVehicles, FirstStops, FirstRuns, FirstAgreements,
          NoRow, NoCommand

Directions == {"pickup", "drop"}
Weekdays == {WeekdayOf[d] : d \in Days}

VehicleRow == [capacity: Nat \ {0}, active: BOOLEAN, available: BOOLEAN, ready: BOOLEAN,
               driver: Drivers \cup {NoRow}]
RouteStatus == {"active", "archived"}
StopRow == [route: Routes, order: Nat \ {0}, active: BOOLEAN]
RunRow == [route: Routes, vehicle: Vehicles, direction: Directions, active: BOOLEAN,
           from: Nat, to: Nat, days: SUBSET Weekdays]
\* the run and the stop for each direction asked for
Legs == UNION {[D -> [run: Runs, stop: Stops]] : D \in (SUBSET Directions) \ {{}}}
AgreementRow == [student: Students, legs: Legs, active: BOOLEAN]
TripStatus == {"in_progress", "completed", "cancelled"}
\* stops: those of the roster, in the order of the day
TripRow == [run: Runs, vehicle: Vehicles, driver: Drivers \cup {NoRow}, day: Days,
            status: TripStatus, stops: SUBSET [stop: Stops, order: Nat]]
PassengerStatus == {"pending", "boarded", "alighted", "absent", "cancelled"}
PassengerRow == [status: PassengerStatus, version: Nat \ {0}]

VehicleCommand == [op: {"create_vehicle", "update_vehicle"}, req: Requests,
                   vehicle: Vehicles, row: VehicleRow]
UpdateRoute    == [op: {"update_route"}, req: Requests, route: Routes, active: BOOLEAN]
CreateStop     == [op: {"create_stop"}, req: Requests, route: Routes, stop: Stops]
UpdateStop     == [op: {"update_stop"}, req: Requests, stop: Stops, active: BOOLEAN]
RunCommand     == [op: {"create_run", "update_run"}, req: Requests, run: Runs, row: RunRow]
Assign         == [op: {"assign"}, req: Requests, student: Students, legs: Legs]
Change         == [op: {"change_assignment"}, req: Requests, agreement: Requests,
                   student: Students, legs: Legs]
EndAgreement   == [op: {"end_assignment"}, req: Requests, agreement: Requests]
StartTrip      == [op: {"start_trip"}, req: Requests, run: Runs]
PassengerMark  == [op: {"passenger"}, req: Requests, trip: Requests, agreement: Requests,
                   status: {"boarded", "alighted", "absent"}]
CloseTrip      == [op: {"complete_trip", "cancel_trip"}, req: Requests, trip: Requests]
\* a new route with its stops, or its active stops in another order: the place of each
IsStopList(c) ==
    /\ DOMAIN c = {"op", "req", "route", "place"}
    /\ c.req \in Requests /\ c.route \in Routes
    /\ DOMAIN c.place \subseteq Stops /\ IsFiniteSet(DOMAIN c.place)
    /\ {c.place[x] : x \in DOMAIN c.place} = 1 .. Cardinality(DOMAIN c.place)
    /\ \/ c.op = "create_route" /\ Cardinality(DOMAIN c.place) <= StopLimit
       \/ c.op = "reorder_stops" /\ DOMAIN c.place # {}

ASSUME TransportCommandsAssumption ==
    \A c \in Commands :
        \/ c \in VehicleCommand /\ (c.op = "create_vehicle" => c.row.active)
        \/ c \in RunCommand /\ c.row.from < c.row.to /\ c.row.days # {}
                            /\ (c.op = "create_run" => c.row.active)
        \/ IsStopList(c) \/ c \in UpdateRoute \/ c \in CreateStop \/ c \in UpdateStop
        \/ c \in Assign \/ c \in Change \/ c \in EndAgreement
        \/ c \in StartTrip \/ c \in PassengerMark \/ c \in CloseTrip
\* the request ids of the first agreements have been used
ASSUME NewRequestsAssumption == \A c \in Commands : FirstAgreements[c.req] = NoRow
ASSUME TransportConstantsAssumption ==
    /\ StopLimit \in Nat \ {0} /\ Leavers \subseteq Students
    /\ Days # {} /\ IsFiniteSet(Days) /\ Days = 0 .. Cardinality(Days) - 1
    /\ WeekdayOf \in [Days -> Nat]
    /\ FirstVehicles \in [Vehicles -> VehicleRow \cup {NoRow}]
    /\ FirstStops \in [Stops -> StopRow \cup {NoRow}]
    /\ FirstRuns \in [Runs -> RunRow \cup {NoRow}]
    /\ FirstAgreements \in [Requests -> AgreementRow \cup {NoRow}]
    /\ IsFiniteSet({x \in Stops : FirstStops[x] # NoRow})
    /\ IsFiniteSet({a \in Requests : FirstAgreements[a] # NoRow})
    /\ \A r \in Runs : FirstRuns[r] # NoRow => FirstVehicles[FirstRuns[r].vehicle] # NoRow
    /\ Sessions \cap Callers = {}
ASSUME NoTransportRowAssumption ==
    /\ NoRow \notin Commands \cup VehicleRow \cup RouteStatus \cup StopRow \cup RunRow
         \cup AgreementRow \cup TripRow \cup Drivers
    /\ NoCommand \notin Commands

VARIABLES vehicle, route, stop,
          run,              \* transport_runs
          agreement,        \* student_transport
          trip, passenger,  \* passenger[t]: the roster of a trip, by agreement
          event,            \* transport_events: the command a request id carried
          enrolled,         \* the students who are ACTIVE and not deleted
          today,
          pc, cmd, held,
          page,             \* the version, or the stop order, the user has seen
          roster            \* the agreements a dispatch has read

planning == <<vehicle, route, stop, run>>
journeys == <<trip, passenger>>
transportTables == <<planning, agreement, journeys, event>>
world == <<enrolled, today>>
sessions == <<pc, cmd, held, page, roster>>
vars == <<transportTables, world, sessions>>

Phases == {"idle", "page", "student", "trip", "decide", "commit"}

SchoolLock == <<"transport">>
StudentLock(p) == <<"student", p>>
TripLock(t) == <<"trip", t>>
Locks == {SchoolLock} \cup {StudentLock(p) : p \in Students} \cup {TripLock(t) : t \in Requests}

NoPage == [version |-> 0, order |-> <<>>]

TypeOK ==
    /\ vehicle \in [Vehicles -> VehicleRow \cup {NoRow}]
    /\ route \in [Routes -> RouteStatus \cup {NoRow}]
    /\ stop \in [Stops -> StopRow \cup {NoRow}]
    /\ run \in [Runs -> RunRow \cup {NoRow}]
    /\ agreement \in [Requests -> AgreementRow \cup {NoRow}]
    /\ trip \in [Requests -> TripRow \cup {NoRow}]
    /\ \A t \in Requests :
         /\ DOMAIN passenger[t] \subseteq {a \in Requests : agreement[a] # NoRow}
         /\ \A a \in DOMAIN passenger[t] : passenger[t][a] \in PassengerRow
         /\ (trip[t] = NoRow) = (DOMAIN passenger[t] = {})
    /\ event \in [Requests -> Commands \cup {NoRow}]
    /\ enrolled \subseteq Students /\ today \in Days
    /\ pc \in [Sessions -> Phases]
    /\ cmd \in [Sessions -> Commands \cup {NoCommand}]
    /\ held \in [Sessions \cup Callers -> SUBSET Locks]
    /\ roster \in [Sessions -> SUBSET Requests]
    /\ \A s \in Sessions :
         /\ page[s].version \in Nat
         /\ pc[s] = "idle" => /\ cmd[s] = NoCommand /\ held[s] = {}
                              /\ page[s] = NoPage /\ roster[s] = {}
    /\ \A a, b \in Sessions \cup Callers : a # b => held[a] \cap held[b] = {}

-----------------------------------------------------------------------------
(* Looking up. *)

ActiveRuns == {r \in Runs : run[r] # NoRow /\ run[r].active}
ActiveStops(r) == {x \in Stops : stop[x] # NoRow /\ stop[x].route = r /\ stop[x].active}
ActiveAgreements == {a \in Requests : agreement[a] # NoRow /\ agreement[a].active}
Trips == {t \in Requests : trip[t] # NoRow}
OpenTrips == {t \in Trips : trip[t].status = "in_progress"}

RunsOf(legs) == {legs[d].run : d \in DOMAIN legs}
StopsOf(legs) == {legs[d].stop : d \in DOMAIN legs}

\* loads: the seats reserved on a run
Load(r) == Cardinality({a \in ActiveAgreements : r \in RunsOf(agreement[a].legs)})

\* the first leg, whose route the agreement row records
FirstRoute(legs) == run[(IF "pickup" \in DOMAIN legs THEN legs["pickup"]
                         ELSE legs["drop"]).run].route

Overlaps(a, b) == a.from < b.to /\ b.from < a.to /\ a.days \cap b.days # {}

\* _schedule_check for a run on vehicle v, whose driver is the given one
Clear(row, v, driver, besides) ==
    \A r \in ActiveRuns \ besides :
        Overlaps(row, run[r]) =>
            /\ run[r].vehicle # v
            /\ driver # NoRow => vehicle[run[r].vehicle].driver # driver

\* the active stops of a route in their order
Places(r) == [x \in ActiveStops(r) |->
                Cardinality({y \in ActiveStops(r) : stop[y].order <= stop[x].order})]
LastOrder(r) == Max({stop[x].order : x \in ActiveStops(r)} \cup {0})

\* the passengers of a dispatch of run r; the stop of the leg on it
LegOn(a, r) == agreement[a].legs[run[r].direction]
Eligible(r) ==
    {a \in ActiveAgreements : /\ run[r].direction \in DOMAIN agreement[a].legs
                              /\ LegOn(a, r).run = r /\ stop[LegOn(a, r).stop].active
                              /\ agreement[a].student \in enrolled}

\* The plan always fits the reservations made on it: "Capacity reductions
\* cannot strand assigned run seats", a vehicle or a recorded driver never has
\* two active runs that "overlap", active runs and the stops of current
\* agreements are never archived under them, a student "has one current
\* agreement", and the active stops of a route are in an order.
PlanConsistent ==
    /\ \A r \in ActiveRuns :
         /\ route[run[r].route] = "active" /\ vehicle[run[r].vehicle].active
         /\ Load(r) <= vehicle[run[r].vehicle].capacity
         /\ Clear(run[r], run[r].vehicle, vehicle[run[r].vehicle].driver, {r})
    /\ \A a \in ActiveAgreements :
         /\ \A d \in DOMAIN agreement[a].legs :
              LET leg == agreement[a].legs[d] IN
              /\ leg.run \in ActiveRuns /\ run[leg.run].direction = d
              /\ leg.stop \in ActiveStops(run[leg.run].route)
         /\ \A b \in ActiveAgreements : agreement[b].student = agreement[a].student => a = b
    /\ \A r \in Routes :
         /\ Cardinality(ActiveStops(r)) <= StopLimit
         /\ \A x, y \in ActiveStops(r) : stop[x].order = stop[y].order => x = y

-----------------------------------------------------------------------------

\* A school starts from a plan that stands.
Init ==
    /\ vehicle = FirstVehicles /\ stop = FirstStops /\ run = FirstRuns
    /\ route = [r \in Routes |-> IF \E x \in Stops : stop[x] # NoRow /\ stop[x].route = r
                                 THEN "active" ELSE NoRow]
    /\ agreement = FirstAgreements
    /\ trip = [t \in Requests |-> NoRow]
    /\ passenger = [t \in Requests |-> <<>>]
    /\ event = [r \in Requests |-> NoRow]
    /\ enrolled = Students /\ today = 0
    /\ pc = [s \in Sessions |-> "idle"]
    /\ cmd = [s \in Sessions |-> NoCommand]
    /\ held = [s \in Sessions \cup Callers |-> {}]
    /\ page = [s \in Sessions |-> NoPage]
    /\ roster = [s \in Sessions |-> {}]
    /\ PlanConsistent

Free(s, lock) == \A other \in (Sessions \cup Callers) \ {s} : lock \notin held[other]

Acquire(s, lock) ==
    /\ Free(s, lock)
    /\ held' = [held EXCEPT ![s] = @ \cup {lock}]

GoTo(s, phase) == pc' = [pc EXCEPT ![s] = phase]

\* mutant: the advisory lock outlives the transaction
EndKeepsLock(s) ==
    /\ GoTo(s, "idle")
    /\ cmd' = [cmd EXCEPT ![s] = NoCommand]
    /\ held' = [held EXCEPT ![s] = @ \cap {SchoolLock}]
    /\ page' = [page EXCEPT ![s] = NoPage]
    /\ roster' = [roster EXCEPT ![s] = {}]

End(s) ==
    /\ GoTo(s, "idle")
    /\ cmd' = [cmd EXCEPT ![s] = NoCommand]
    /\ held' = [held EXCEPT ![s] = {}]
    /\ page' = [page EXCEPT ![s] = NoPage]
    /\ roster' = [roster EXCEPT ![s] = {}]

\* 404, 409 or 400, and rollback
Refuse(s) == End(s) /\ UNCHANGED <<transportTables, world>>

\* The boarding page or the list of stops the user acts on: a command that
\* sends back the version or the order it has shown.
OpenPage(s) ==
    /\ pc[s] = "idle"
    /\ \E c \in Commands :
         /\ \/ c.op = "passenger" /\ c.agreement \in DOMAIN passenger[c.trip]
            \/ c.op = "reorder_stops"
         /\ cmd' = [cmd EXCEPT ![s] = c]
         /\ page' = [page EXCEPT ![s] =
               IF c.op = "passenger"
               THEN [version |-> passenger[c.trip][c.agreement].version, order |-> <<>>]
               ELSE [version |-> 0, order |-> Places(c.route)]]
    /\ GoTo(s, "page")
    /\ UNCHANGED <<transportTables, world, held, roster>>

FirstPhase(op) ==
    CASE op \in {"assign", "change_assignment"} -> "student"
      [] op \in {"passenger", "complete_trip", "cancel_trip"} -> "trip"
      [] OTHER -> "decide"

\* mutant: commands of one school are not serialised
BeginNoWait(s, c) ==
    /\ event[c.req] = NoRow
    /\ cmd' = [cmd EXCEPT ![s] = c]
    /\ GoTo(s, FirstPhase(c.op))
    /\ UNCHANGED <<transportTables, world, held, page, roster>>

\* command: the advisory lock of the school, then the log.  A call that waits
\* for the lock has read nothing; one whose request id is known is answered
\* with the recorded result, or with a conflict over other details.
Begin(s, c) ==
    /\ Acquire(s, SchoolLock)
    /\ event[c.req] = NoRow
    /\ cmd' = [cmd EXCEPT ![s] = c]
    /\ GoTo(s, FirstPhase(c.op))
    /\ UNCHANGED <<transportTables, world, page, roster>>

Receive(s) ==
    /\ pc[s] = "idle"
    /\ \E c \in Commands : c.op \notin {"passenger", "reorder_stops"} /\ Begin(s, c)

SavePage(s) == pc[s] = "page" /\ Begin(s, cmd[s])

Answer(s) ==
    /\ pc[s] = "page"
    /\ Free(s, SchoolLock)
    /\ event[cmd[s].req] # NoRow
    /\ Refuse(s)

\* mutant: the student is read without FOR UPDATE
LockStudentNot(s) ==
    /\ pc[s] = "student"
    /\ IF cmd[s].student \in enrolled
       THEN GoTo(s, "decide") /\ UNCHANGED <<transportTables, world, cmd, held, page, roster>>
       ELSE Refuse(s)

\* _student(lock=True): only an enrolled student of the school
LockStudent(s) ==
    LET lock == StudentLock(cmd[s].student) IN
    /\ pc[s] = "student"
    /\ Free(s, lock)
    /\ IF cmd[s].student \in enrolled
       THEN /\ Acquire(s, lock)
            /\ GoTo(s, "decide")
            /\ UNCHANGED <<transportTables, world, cmd, page, roster>>
       ELSE Refuse(s)

\* the row of the trip, which the tracking service may hold
LockTrip(s) ==
    /\ pc[s] = "trip"
    /\ Acquire(s, TripLock(cmd[s].trip))
    /\ GoTo(s, "decide")
    /\ UNCHANGED <<transportTables, world, cmd, page, roster>>

-----------------------------------------------------------------------------
(* What a command checks under its locks. *)

\* _update_vehicle
MayUpdateVehicle(v, row) ==
    LET runs == {r \in ActiveRuns : run[r].vehicle = v} IN
    /\ vehicle[v] # NoRow
    /\ row.active \/ runs = {}
    /\ \A r \in runs : Load(r) <= row.capacity /\ Clear(run[r], v, row.driver, {r})

\* _run_values, for a new run (without seats or trips) and for an edited one
MayPlan(row, r) ==
    /\ route[row.route] # NoRow /\ vehicle[row.vehicle] # NoRow
    /\ row.active => /\ route[row.route] = "active"
                     /\ vehicle[row.vehicle].active /\ vehicle[row.vehicle].available
                     /\ Clear(row, row.vehicle, vehicle[row.vehicle].driver, {r})
    /\ \A t \in OpenTrips : trip[t].run # r
    /\ Load(r) > 0 => /\ row.active
                      /\ row.route = run[r].route /\ row.direction = run[r].direction
    /\ Load(r) <= vehicle[row.vehicle].capacity

MayArchiveRoute(r) ==
    /\ \A x \in ActiveRuns : run[x].route # r
    /\ \A a \in ActiveAgreements : FirstRoute(agreement[a].legs) # r

\* _create_stop, or _update_stop restoring a stop
MayAddStop(r) == route[r] = "active" /\ Cardinality(ActiveStops(r)) < StopLimit

MayUpdateStop(x, active) ==
    /\ stop[x] # NoRow
    /\ active => route[stop[x].route] = "active"
    /\ active /\ ~stop[x].active => MayAddStop(stop[x].route)
    /\ ~active => \A a \in ActiveAgreements : x \notin StopsOf(agreement[a].legs)

\* legs and the seats
MayReserve(legs, ending) ==
    \A d \in DOMAIN legs :
        LET r == legs[d].run
            x == legs[d].stop
        IN  /\ r \in ActiveRuns /\ stop[x] # NoRow
            /\ run[r].direction = d /\ stop[x].route = run[r].route
            /\ route[run[r].route] = "active" /\ stop[x].active
            /\ vehicle[run[r].vehicle].active /\ vehicle[run[r].vehicle].available
            /\ Cardinality({a \in ActiveAgreements \ ending : r \in RunsOf(agreement[a].legs)})
                 < vehicle[run[r].vehicle].capacity

\* _new_assignment, after the student is locked
MayAssign(p, legs, ending) ==
    /\ \A a \in ActiveAgreements \ ending : agreement[a].student # p
    /\ MayReserve(legs, ending)

\* mutant: an agreement may end under an open trip
MayEndRiding(a) == a \in ActiveAgreements

\* _endable
MayEnd(a) == a \in ActiveAgreements /\ \A t \in OpenTrips : a \notin DOMAIN passenger[t]

\* _start_trip: the run, its vehicle and driver, and what is already under way
MayDispatch(r) ==
    LET v == vehicle[run[r].vehicle] IN
    /\ r \in ActiveRuns /\ route[run[r].route] = "active"
    /\ v.active /\ v.available /\ v.ready
    /\ WeekdayOf[today] \in run[r].days
    /\ \A t \in Trips :
         /\ ~(trip[t].run = r /\ trip[t].day = today /\ trip[t].status # "cancelled")
         /\ t \in OpenTrips => /\ trip[t].vehicle # run[r].vehicle
                               /\ v.driver # NoRow => trip[t].driver # v.driver
    /\ Cardinality(Eligible(r)) \in 1 .. v.capacity

\* mutant: the version of the page is not compared
MayMarkAnyVersion(s) ==
    LET c == cmd[s]
        was == passenger[c.trip][c.agreement]
    IN  /\ c.trip \in OpenTrips
        /\ \/ was.status = "pending" /\ c.status \in {"boarded", "absent"}
           \/ was.status = "boarded" /\ c.status = "alighted"

\* mutant: what the passenger did before is not looked at
MayMarkAgain(s) ==
    LET c == cmd[s] IN
    /\ c.trip \in OpenTrips
    /\ passenger[c.trip][c.agreement].version = page[s].version

\* _passenger
MayMark(s) ==
    LET c == cmd[s]
        was == passenger[c.trip][c.agreement]
    IN  /\ c.trip \in OpenTrips
        /\ was.version = page[s].version
        /\ \/ was.status = "pending" /\ c.status \in {"boarded", "absent"}
           \/ was.status = "boarded" /\ c.status = "alighted"

StatusesIn(t) == {passenger[t][a].status : a \in DOMAIN passenger[t]}

Accepts(s) ==
    LET c == cmd[s] IN
    CASE c.op = "create_vehicle" -> vehicle[c.vehicle] = NoRow
      [] c.op = "update_vehicle" -> MayUpdateVehicle(c.vehicle, c.row)
      [] c.op = "create_route"   -> route[c.route] = NoRow
                                    /\ \A x \in DOMAIN c.place : stop[x] = NoRow
      [] c.op = "update_route"   -> /\ route[c.route] # NoRow
                                    /\ c.active \/ MayArchiveRoute(c.route)
      [] c.op = "create_stop"    -> stop[c.stop] = NoRow /\ MayAddStop(c.route)
      [] c.op = "update_stop"    -> MayUpdateStop(c.stop, c.active)
      [] c.op = "reorder_stops"  -> /\ DOMAIN c.place = ActiveStops(c.route)
                                    /\ page[s].order = Places(c.route)
      [] c.op = "create_run"     -> run[c.run] = NoRow /\ MayPlan(c.row, c.run)
      [] c.op = "update_run"     -> run[c.run] # NoRow /\ MayPlan(c.row, c.run)
      [] c.op = "assign"         -> MayAssign(c.student, c.legs, {})
      [] c.op = "change_assignment" -> /\ MayEnd(c.agreement)
                                       /\ agreement[c.agreement].student = c.student
                                       /\ MayAssign(c.student, c.legs, {c.agreement})
      [] c.op = "end_assignment" -> MayEnd(c.agreement)
      [] c.op = "start_trip"     -> run[c.run] # NoRow /\ MayDispatch(c.run)
      [] c.op = "passenger"      -> MayMark(s)
      [] c.op = "complete_trip"  -> /\ c.trip \in OpenTrips
                                    /\ StatusesIn(c.trip) \cap {"pending", "boarded"} = {}
      [] c.op = "cancel_trip"    -> /\ c.trip \in OpenTrips
                                    /\ StatusesIn(c.trip) \cap {"boarded", "alighted"} = {}

Decide(s) ==
    /\ pc[s] = "decide"
    /\ Accepts(s)
    /\ roster' = [roster EXCEPT ![s] =
                    IF cmd[s].op = "start_trip" THEN Eligible(cmd[s].run) ELSE {}]
    /\ GoTo(s, "commit")
    /\ UNCHANGED <<transportTables, world, cmd, held, page>>

Deny(s) == pc[s] = "decide" /\ ~Accepts(s) /\ Refuse(s)

-----------------------------------------------------------------------------
(* The flushes and the commit. *)

Ready(s, ops) == pc[s] = "commit" /\ cmd[s].op \in ops

\* the event, the commit and the response
Record(s) == event' = [event EXCEPT ![cmd[s].req] = cmd[s]] /\ End(s) /\ UNCHANGED world

CommitVehicle(s) ==
    /\ Ready(s, {"create_vehicle", "update_vehicle"})
    /\ vehicle' = [vehicle EXCEPT ![cmd[s].vehicle] = cmd[s].row]
    /\ Record(s)
    /\ UNCHANGED <<route, stop, run, agreement, journeys>>

CommitRoute(s) ==
    LET c == cmd[s] IN
    /\ Ready(s, {"create_route", "update_route"})
    /\ route' = [route EXCEPT ![c.route] =
                   IF c.op = "create_route" \/ c.active THEN "active" ELSE "archived"]
    /\ stop' = [x \in Stops |->
          IF c.op = "create_route" /\ x \in DOMAIN c.place
          THEN [route |-> c.route, order |-> c.place[x], active |-> TRUE]
          ELSE stop[x]]
    /\ Record(s)
    /\ UNCHANGED <<vehicle, run, agreement, journeys>>

\* a restored stop comes last; an active one keeps its place
CommitStop(s) ==
    LET c == cmd[s] IN
    /\ Ready(s, {"create_stop", "update_stop"})
    /\ stop' = [stop EXCEPT ![c.stop] =
          IF c.op = "create_stop"
          THEN [route |-> c.route, order |-> LastOrder(c.route) + 1, active |-> TRUE]
          ELSE [@ EXCEPT !.active = c.active,
                         !.order = IF c.active /\ ~stop[c.stop].active
                                   THEN LastOrder(stop[c.stop].route) + 1
                                   ELSE stop[c.stop].order]]
    /\ Record(s)
    /\ UNCHANGED <<vehicle, route, run, agreement, journeys>>

CommitOrder(s) ==
    /\ Ready(s, {"reorder_stops"})
    /\ stop' = [x \in Stops |-> IF x \notin DOMAIN cmd[s].place THEN stop[x]
                                ELSE [stop[x] EXCEPT !.order = cmd[s].place[x]]]
    /\ Record(s)
    /\ UNCHANGED <<vehicle, route, run, agreement, journeys>>

CommitRun(s) ==
    /\ Ready(s, {"create_run", "update_run"})
    /\ run' = [run EXCEPT ![cmd[s].run] = cmd[s].row]
    /\ Record(s)
    /\ UNCHANGED <<vehicle, route, stop, agreement, journeys>>

NewAgreement(c) == [student |-> c.student, legs |-> c.legs, active |-> TRUE]

\* assign, end_assignment, and both in one transaction for a change
CommitAgreement(s) ==
    LET c == cmd[s] IN
    /\ Ready(s, {"assign", "change_assignment", "end_assignment"})
    /\ agreement' = [a \in Requests |->
          CASE c.op # "end_assignment" /\ a = c.req -> NewAgreement(c)
            [] c.op # "assign" /\ a = c.agreement -> [agreement[a] EXCEPT !.active = FALSE]
            [] OTHER -> agreement[a]]
    /\ Record(s)
    /\ UNCHANGED <<planning, journeys>>

\* the trip, with what its run, vehicle and stops are now, and its roster; the
\* date is read again for the row
CommitStart(s) ==
    LET c == cmd[s]
        r == run[c.run]
    IN  /\ Ready(s, {"start_trip"})
        /\ trip' = [trip EXCEPT ![c.req] =
              [run |-> c.run, vehicle |-> r.vehicle, driver |-> vehicle[r.vehicle].driver,
               day |-> today, status |-> "in_progress",
               stops |-> {[stop |-> x, order |-> stop[x].order] :
                            x \in {LegOn(a, c.run).stop : a \in roster[s]}}]]
        /\ passenger' = [passenger EXCEPT ![c.req] =
              [a \in roster[s] |-> [status |-> "pending", version |-> 1]]]
        /\ Record(s)
        /\ UNCHANGED <<planning, agreement>>

CommitPassenger(s) ==
    LET c == cmd[s] IN
    /\ Ready(s, {"passenger"})
    /\ passenger' = [passenger EXCEPT ![c.trip][c.agreement] =
                       [status |-> c.status, version |-> @.version + 1]]
    /\ Record(s)
    /\ UNCHANGED <<planning, agreement, trip>>

\* _cancel_trip: whoever is pending is cancelled with the trip
Dismiss(rows) ==
    [a \in DOMAIN rows |-> IF rows[a].status # "pending" THEN rows[a]
                           ELSE [status |-> "cancelled", version |-> rows[a].version + 1]]

CommitClose(s) ==
    LET c == cmd[s] IN
    /\ Ready(s, {"complete_trip", "cancel_trip"})
    /\ trip' = [trip EXCEPT ![c.trip].status =
                  IF c.op = "complete_trip" THEN "completed" ELSE "cancelled"]
    /\ passenger' = IF c.op = "complete_trip" THEN passenger
                    ELSE [passenger EXCEPT ![c.trip] = Dismiss(@)]
    /\ Record(s)
    /\ UNCHANGED <<planning, agreement>>

\* The connection drops, the worker stops, or the database refuses a statement.
Abort(s) == pc[s] # "idle" /\ Refuse(s)

-----------------------------------------------------------------------------
(* The world around the office. *)

\* update_student and delete_student wait for the row lock
ChangeStatus(p) ==
    /\ \A s \in Sessions : StudentLock(p) \notin held[s]
    /\ enrolled' = IF p \in enrolled THEN enrolled \ {p} ELSE enrolled \cup {p}
    /\ UNCHANGED <<transportTables, today, sessions>>

DayPasses ==
    /\ today + 1 \in Days
    /\ today' = today + 1
    /\ UNCHANGED <<transportTables, enrolled, sessions>>

-----------------------------------------------------------------------------

Commit(s) ==
    \/ CommitVehicle(s) \/ CommitRoute(s) \/ CommitStop(s) \/ CommitOrder(s)
    \/ CommitRun(s) \/ CommitAgreement(s) \/ CommitStart(s) \/ CommitPassenger(s)
    \/ CommitClose(s)

Work(s) ==
    \/ OpenPage(s) \/ Receive(s) \/ SavePage(s) \/ Answer(s) \/ LockStudent(s)
    \/ LockTrip(s) \/ Decide(s) \/ Deny(s) \/ Commit(s)

Next ==
    \/ \E s \in Sessions : Work(s) \/ Abort(s)
    \/ \E p \in Leavers : ChangeStatus(p)
    \/ DayPasses

Spec == Init /\ [][Next]_vars

-----------------------------------------------------------------------------
(* Properties. *)

\* "One vehicle can have only one open trip. Matching recorded driver licences
\* also prevent a second dispatch while the driver still has an open trip";
\* an open trip keeps its run, its vehicle with a seat for each passenger, and
\* their agreements ("Agreements involved in an open trip cannot be changed or
\* ended"), on no matter which day it is closed; a closed trip has nobody
\* pending or on board ("Complete only after every passenger is alighted or
\* absent", "Cancel only before any passenger has boarded"), and a run has one
\* trip a day that is not cancelled.
TripsConsistent ==
    /\ \A t, u \in OpenTrips : t # u =>
         /\ trip[t].vehicle # trip[u].vehicle
         /\ trip[t].driver = NoRow \/ trip[t].driver # trip[u].driver
    /\ \A t \in OpenTrips :
         LET r == run[trip[t].run] IN
         /\ r.active /\ r.vehicle = trip[t].vehicle
         /\ Cardinality(DOMAIN passenger[t]) <= vehicle[r.vehicle].capacity
         /\ \A a \in DOMAIN passenger[t] :
              a \in ActiveAgreements /\ LegOn(a, trip[t].run).run = trip[t].run
    /\ \A t \in Trips \ OpenTrips :
         StatusesIn(t) \subseteq IF trip[t].status = "completed" THEN {"alighted", "absent"}
                                 ELSE {"absent", "cancelled"}
    /\ \A t, u \in {v \in Trips : trip[v].status # "cancelled"} :
         trip[t].run = trip[u].run /\ trip[t].day = trip[u].day => t = u

\* The plan and the journeys made on it, for every overlap of commands.
DispatchConsistent == PlanConsistent /\ TripsConsistent

\* "Passenger row versions reject stale changes by a second staff member":
\* a boarding mark is replaced only by a user whose page showed that very row,
\* or by the cancellation of its trip; and an agreement begins only while its
\* student is enrolled ("New assignments require an active enrolled student"),
\* although the student service changes that without the advisory lock.
NoStaleDecision ==
    [][/\ \A t \in Trips : \A a \in DOMAIN passenger[t] :
             passenger'[t][a] # passenger[t][a] =>
               \/ /\ passenger'[t][a].status = "cancelled" /\ trip'[t].status = "cancelled"
               \/ \E s \in Sessions : /\ Ready(s, {"passenger"}) /\ pc'[s] = "idle"
                                      /\ page[s].version = passenger[t][a].version
                                      /\ cmd[s].trip = t /\ cmd[s].agreement = a
       /\ \A a \in Requests : agreement[a] = NoRow /\ agreement'[a] # NoRow =>
             agreement'[a].student \in enrolled]_vars

\* What an agreement gives its student, a trip is and a passenger does, for BusRides.
SeatOf == [a \in Requests |->
    IF agreement[a] = NoRow THEN {}
    ELSE {[student |-> agreement[a].student, runs |-> RunsOf(agreement[a].legs),
           current |-> agreement[a].active]}]
RideOf == [t \in Requests |->
    IF trip[t] = NoRow THEN {} ELSE {[run |-> trip[t].run, status |-> trip[t].status]}]
RiderOf == [t \in Requests |-> [a \in Requests |->
    IF a \in DOMAIN passenger[t] THEN {passenger[t][a].status} ELSE {}]]

Rides == INSTANCE BusRides WITH Agreements <- Requests, Journeys <- Requests,
                                seat <- SeatOf, ride <- RideOf, rider <- RiderOf

\* Seats are given, changed and taken back, and journeys made, as BusRides
\* says, however the commands of the office overlap: a student has one current
\* seat and changes it in one step, nobody loses a seat during a journey, a
\* passenger goes from pending over boarded to alighted or is absent, and a trip
\* that is completed or cancelled stays as it is.
RidesKept == Rides!Spec

-----------------------------------------------------------------------------
(* The inductive invariant: what holds in every state, from which the       *)
(* properties above follow.                                                 *)

Working == {"student", "trip", "decide", "commit"}

RowsFinite ==
    /\ DOMAIN passenger = Requests /\ DOMAIN page = Sessions
    /\ IsFiniteSet({x \in Stops : stop[x] # NoRow})
    /\ IsFiniteSet({a \in Requests : agreement[a] # NoRow})

RowsBelong ==
    /\ \A r \in Runs : run[r] # NoRow => vehicle[run[r].vehicle] # NoRow
    /\ \A x \in Stops : stop[x] # NoRow => route[stop[x].route] # NoRow

\* what a request id has made is in the log
RequestsLogged ==
    \A q \in Requests : event[q] = NoRow =>
        trip[q] = NoRow /\ (agreement[q] # NoRow => FirstAgreements[q] # NoRow)

TripsPast == \A t \in Trips : trip[t].day <= today

\* the current agreements with a seat on run r
SeatedOn(r) ==
    {a \in ActiveAgreements : /\ run[r].direction \in DOMAIN agreement[a].legs
                              /\ LegOn(a, r).run = r}

\* who is on the roster of an open trip keeps the seat, and nobody on it is
\* cancelled; the stops of a trip are in an order
RidersSeated ==
    /\ \A t \in OpenTrips :
         /\ DOMAIN passenger[t] \subseteq SeatedOn(trip[t].run)
         /\ "cancelled" \notin StatusesIn(t)
    /\ \A t \in Trips : \A y, z \in trip[t].stops :
         y.stop = z.stop \/ y.order = z.order => y = z

PhaseFits(s) ==
    /\ pc[s] # "idle" => cmd[s] \in Commands
    /\ pc[s] = "page" => cmd[s].op \in {"passenger", "reorder_stops"}
    /\ pc[s] = "student" => cmd[s].op \in {"assign", "change_assignment"}
    /\ pc[s] = "trip" => cmd[s].op \in {"passenger", "complete_trip", "cancel_trip"}

HoldsLocks(s) ==
    /\ pc[s] \in Working => SchoolLock \in held[s] /\ event[cmd[s].req] = NoRow
    /\ pc[s] \in {"decide", "commit"} /\ cmd[s].op \in {"assign", "change_assignment"}
         => StudentLock(cmd[s].student) \in held[s] /\ cmd[s].student \in enrolled
    /\ pc[s] \in {"decide", "commit"} /\ cmd[s].op \in {"passenger", "complete_trip", "cancel_trip"}
         => TripLock(cmd[s].trip) \in held[s]

\* the page has shown a passenger who is on the roster
PageFits(s) ==
    pc[s] # "idle" /\ cmd[s].op = "passenger" =>
        cmd[s].agreement \in DOMAIN passenger[cmd[s].trip]

\* what a command has found out is still so when it writes; a dispatch has read
\* the roster, the day and the other trips
DecisionStands(s) ==
    pc[s] = "commit" =>
        IF cmd[s].op # "start_trip" THEN Accepts(s)
        ELSE LET r == cmd[s].run IN
             /\ r \in ActiveRuns
             /\ \A t \in Trips :
                  /\ ~(trip[t].run = r /\ trip[t].day = today /\ trip[t].status # "cancelled")
                  /\ t \in OpenTrips =>
                       /\ trip[t].vehicle # run[r].vehicle
                       /\ vehicle[run[r].vehicle].driver # NoRow =>
                            trip[t].driver # vehicle[run[r].vehicle].driver
             /\ roster[s] # {} /\ roster[s] \subseteq SeatedOn(r)

SessionInv(s) == PhaseFits(s) /\ HoldsLocks(s) /\ PageFits(s) /\ DecisionStands(s)

IInv ==
    /\ TypeOK
    /\ RowsFinite /\ RowsBelong /\ RequestsLogged /\ TripsPast /\ RidersSeated
    /\ PlanConsistent /\ TripsConsistent
    /\ \A s \in Sessions : SessionInv(s)

===============================================================================
