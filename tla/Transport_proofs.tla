---------------------------- MODULE Transport_proofs ----------------------------
(***************************************************************************)
(* Proofs about Transport and Tracking for any sessions, callers, fleets,   *)
(* routes, students, days, commands and calls: the inductive invariants     *)
(* IInv and LiveIInv and the safety properties that follow from them.       *)
(***************************************************************************)
EXTENDS Tracking, SumLemmas

-----------------------------------------------------------------------------
(* Commands and rows. *)

\* What a command carries depends on its operation.
CommandFits(c) ==
    /\ c.op \in {"create_vehicle", "update_vehicle", "create_route", "update_route",
                 "create_stop", "update_stop", "reorder_stops", "create_run", "update_run",
                 "assign", "change_assignment", "end_assignment", "start_trip", "passenger",
                 "complete_trip", "cancel_trip"}
    /\ c.req \in Requests
    /\ c.op \in {"create_vehicle", "update_vehicle"} => c.vehicle \in Vehicles /\ c.row \in VehicleRow
    /\ c.op \in {"create_run", "update_run"} => c.run \in Runs /\ c.row \in RunRow
    /\ c.op \in {"create_route", "update_route", "create_stop", "reorder_stops"} => c.route \in Routes
    /\ c.op \in {"update_route", "update_stop"} => c.active \in BOOLEAN
    /\ c.op \in {"create_stop", "update_stop"} => c.stop \in Stops
    /\ c.op \in {"assign", "change_assignment"} => c.student \in Students /\ c.legs \in Legs
    /\ c.op \in {"change_assignment", "end_assignment", "passenger"} => c.agreement \in Requests
    /\ c.op = "start_trip" => c.run \in Runs
    /\ c.op \in {"passenger", "complete_trip", "cancel_trip"} => c.trip \in Requests
    /\ c.op = "passenger" => c.status \in {"boarded", "alighted", "absent"}

\* The places of a list of stops.
PlacesFit(c) ==
    /\ DOMAIN c.place \subseteq Stops /\ IsFiniteSet(DOMAIN c.place)
    /\ {c.place[x] : x \in DOMAIN c.place} = 1 .. Cardinality(DOMAIN c.place)
    /\ c.op = "create_route" => Cardinality(DOMAIN c.place) <= StopLimit

LEMMA CommandFields ==
    ASSUME NEW c \in Commands
    PROVE  CommandFits(c) /\ (c.op \in {"create_route", "reorder_stops"} => PlacesFit(c))
<1>1. CASE c \in VehicleCommand
  BY <1>1 DEF CommandFits, VehicleCommand
<1>2. CASE c \in RunCommand
  BY <1>2 DEF CommandFits, RunCommand
<1>3. CASE IsStopList(c)
  BY <1>3 DEF CommandFits, IsStopList, PlacesFit
<1>4. CASE c \in UpdateRoute \/ c \in CreateStop \/ c \in UpdateStop
  BY <1>4 DEF CommandFits, UpdateRoute, CreateStop, UpdateStop
<1>5. CASE c \in Assign
  BY <1>5 DEF CommandFits, Assign
<1>6. CASE c \in Change
  BY <1>6 DEF CommandFits, Change
<1>7. CASE c \in EndAgreement \/ c \in StartTrip
  BY <1>7 DEF CommandFits, EndAgreement, StartTrip
<1>8. CASE c \in PassengerMark
  BY <1>8 DEF CommandFits, PassengerMark
<1>9. CASE c \in CloseTrip
  BY <1>9 DEF CommandFits, CloseTrip
<1>10. QED
  BY <1>1, <1>2, <1>3, <1>4, <1>5, <1>6, <1>7, <1>8, <1>9, TransportCommandsAssumption

\* The three kinds of locks never meet, and the locks of two students or of two
\* trips differ.
LEMMA LocksDiffer ==
    /\ \A p : SchoolLock # StudentLock(p) /\ SchoolLock # TripLock(p)
    /\ \A p, t : StudentLock(p) # TripLock(t)
    /\ \A p, q : StudentLock(p) = StudentLock(q) => p = q
    /\ \A p, q : TripLock(p) = TripLock(q) => p = q
  BY DEF SchoolLock, StudentLock, TripLock

LEMMA DaysNatural ==
    /\ Days \subseteq Nat /\ 0 \in Days
<1>1. Cardinality(Days) \in Nat
  BY TransportConstantsAssumption, FS_CardinalityType
<1>2. QED
  BY <1>1, TransportConstantsAssumption

-----------------------------------------------------------------------------
(* What a step has to leave alone. *)

\* The parts of the type invariant and of the inductive invariant that only
\* the tables and the day decide.
PlanTyped ==
    /\ vehicle \in [Vehicles -> VehicleRow \cup {NoRow}]
    /\ route \in [Routes -> RouteStatus \cup {NoRow}]
    /\ stop \in [Stops -> StopRow \cup {NoRow}]
    /\ run \in [Runs -> RunRow \cup {NoRow}]
    /\ agreement \in [Requests -> AgreementRow \cup {NoRow}]

TripsTyped ==
    /\ trip \in [Requests -> TripRow \cup {NoRow}]
    /\ DOMAIN passenger = Requests
    /\ \A t \in Requests :
         /\ DOMAIN passenger[t] \subseteq {a \in Requests : agreement[a] # NoRow}
         /\ \A a \in DOMAIN passenger[t] : passenger[t][a] \in PassengerRow
         /\ (trip[t] = NoRow) = (DOMAIN passenger[t] = {})
    /\ event \in [Requests -> Commands \cup {NoRow}]

WorldTyped == enrolled \subseteq Students /\ today \in Days

TablesTyped == PlanTyped /\ TripsTyped

FiniteRows ==
    /\ IsFiniteSet({x \in Stops : stop[x] # NoRow})
    /\ IsFiniteSet({a \in Requests : agreement[a] # NoRow})

TablesStand ==
    /\ FiniteRows /\ RowsBelong /\ RequestsLogged /\ RidersSeated
    /\ PlanConsistent /\ TripsConsistent

SessionsTyped ==
    /\ pc \in [Sessions -> Phases]
    /\ cmd \in [Sessions -> Commands \cup {NoCommand}]
    /\ held \in [Sessions \cup Callers -> SUBSET Locks]
    /\ roster \in [Sessions -> SUBSET Requests]
    /\ DOMAIN page = Sessions
    /\ \A s \in Sessions :
         /\ page[s].version \in Nat
         /\ pc[s] = "idle" => /\ cmd[s] = NoCommand /\ held[s] = {}
                              /\ page[s] = NoPage /\ roster[s] = {}

LocksApart == \A a, b \in Sessions \cup Callers : a # b => held[a] \cap held[b] = {}

LEMMA Parts ==
    IInv <=> /\ TablesTyped /\ WorldTyped /\ TablesStand /\ TripsPast
             /\ SessionsTyped /\ LocksApart
             /\ \A s \in Sessions : SessionInv(s)
  BY DEF IInv, TypeOK, TablesTyped, PlanTyped, TripsTyped, WorldTyped, SessionsTyped,
         LocksApart, TablesStand, RowsFinite, FiniteRows

LEMMA PartsNext ==
    ASSUME TablesTyped', WorldTyped', TablesStand', TripsPast', SessionsTyped', LocksApart',
           \A s \in Sessions : SessionInv(s)'
    PROVE  IInv'
  BY DEF IInv, TypeOK, TablesTyped, PlanTyped, TripsTyped, WorldTyped, SessionsTyped,
         LocksApart, TablesStand, RowsFinite, FiniteRows

\* The tables and what is looked up in them.
LEMMA TablesSame ==
    ASSUME UNCHANGED transportTables
    PROVE  /\ vehicle' = vehicle /\ route' = route /\ stop' = stop /\ run' = run
           /\ agreement' = agreement /\ trip' = trip /\ passenger' = passenger
           /\ event' = event
           /\ ActiveRuns' = ActiveRuns /\ ActiveAgreements' = ActiveAgreements
           /\ Trips' = Trips /\ OpenTrips' = OpenTrips
           /\ \A r : ActiveStops(r)' = ActiveStops(r)
<1>1. /\ vehicle' = vehicle /\ route' = route /\ stop' = stop /\ run' = run
      /\ agreement' = agreement /\ trip' = trip /\ passenger' = passenger /\ event' = event
  BY DEF transportTables, planning, journeys
<1>2. ActiveRuns' = ActiveRuns /\ ActiveAgreements' = ActiveAgreements
  BY <1>1 DEF ActiveRuns, ActiveAgreements
<1>3. Trips' = Trips /\ OpenTrips' = OpenTrips
  BY <1>1 DEF Trips, OpenTrips
<1>4. \A r : ActiveStops(r)' = ActiveStops(r)
  BY <1>1 DEF ActiveStops
<1>5. QED
  BY <1>1, <1>2, <1>3, <1>4

LEMMA LoadsSame ==
    ASSUME UNCHANGED transportTables
    PROVE  /\ \A r : Load(r)' = Load(r)
           /\ \A row, v, d, besides : Clear(row, v, d, besides)' = Clear(row, v, d, besides)
           /\ \A a, r : LegOn(a, r)' = LegOn(a, r)
           /\ \A r : SeatedOn(r)' = SeatedOn(r)
           /\ \A t : StatusesIn(t)' = StatusesIn(t)
           /\ \A legs : FirstRoute(legs)' = FirstRoute(legs)
           /\ \A r : Places(r)' = Places(r)
<1>1. /\ \A r : Load(r)' = Load(r)
      /\ \A row, v, d, besides : Clear(row, v, d, besides)' = Clear(row, v, d, besides)
  BY TablesSame DEF Load, Clear
<1>2. /\ \A a, r : LegOn(a, r)' = LegOn(a, r)
      /\ \A t : StatusesIn(t)' = StatusesIn(t)
      /\ \A legs : FirstRoute(legs)' = FirstRoute(legs)
  BY TablesSame DEF LegOn, StatusesIn, FirstRoute
<1>3. \A r : SeatedOn(r)' = SeatedOn(r)
  BY TablesSame, <1>2 DEF SeatedOn
<1>4. \A r : Places(r)' = Places(r)
  BY TablesSame DEF Places
<1>5. QED
  BY <1>1, <1>2, <1>3, <1>4

LEMMA TablesKeep ==
    ASSUME TablesTyped, TablesStand, UNCHANGED transportTables
    PROVE  TablesTyped' /\ TablesStand'
<1>1. TablesTyped'
  BY TablesSame DEF TablesTyped, PlanTyped, TripsTyped
<1>2. FiniteRows' /\ RowsBelong' /\ RequestsLogged'
  BY TablesSame DEF TablesStand, FiniteRows, RowsBelong, RequestsLogged
<1>3. RidersSeated'
  BY TablesSame, LoadsSame DEF TablesStand, RidersSeated
<1>4. PlanConsistent'
  BY TablesSame, LoadsSame DEF TablesStand, PlanConsistent
<1>5. TripsConsistent'
  BY TablesSame, LoadsSame DEF TablesStand, TripsConsistent
<1>6. QED
  BY <1>1, <1>2, <1>3, <1>4, <1>5 DEF TablesStand

\* A decision depends on the tables and on the page.
LEMMA AcceptsKeeps ==
    ASSUME NEW s \in Sessions, NEW c \in Commands, cmd[s] = c, cmd'[s] = c,
           page'[s] = page[s], UNCHANGED transportTables, c.op # "start_trip",
           Accepts(s)
    PROVE  Accepts(s)'
<1>1. CASE c.op \in {"create_vehicle", "update_vehicle"}
  <2>1. MayUpdateVehicle(c.vehicle, c.row)' = MayUpdateVehicle(c.vehicle, c.row)
    BY TablesSame, LoadsSame DEF MayUpdateVehicle
  <2>2. QED
    BY <1>1, <2>1, TablesSame DEF Accepts
<1>2. CASE c.op \in {"create_route", "update_route"}
  BY <1>2, TablesSame, LoadsSame DEF Accepts, MayArchiveRoute
<1>3. CASE c.op \in {"create_stop", "update_stop", "reorder_stops"}
  BY <1>3, TablesSame, LoadsSame DEF Accepts, MayAddStop, MayUpdateStop
<1>4. CASE c.op \in {"create_run", "update_run"}
  <2>1. MayPlan(c.row, c.run)' = MayPlan(c.row, c.run)
    BY TablesSame, LoadsSame DEF MayPlan
  <2>2. QED
    BY <1>4, <2>1, TablesSame DEF Accepts
<1>5. CASE c.op \in {"assign", "change_assignment", "end_assignment"}
  <2>1. \A legs, ending : MayReserve(legs, ending)' = MayReserve(legs, ending)
    BY TablesSame DEF MayReserve
  <2>2. \A a : MayEnd(a)' = MayEnd(a)
    BY TablesSame DEF MayEnd
  <2>3. QED
    BY <1>5, <2>1, <2>2, TablesSame DEF Accepts, MayAssign
<1>6. CASE c.op \in {"passenger", "complete_trip", "cancel_trip"}
  BY <1>6, TablesSame, LoadsSame DEF Accepts, MayMark
<1>7. QED
  BY <1>1, <1>2, <1>3, <1>4, <1>5, <1>6, CommandFields DEF CommandFits

SessionKept(t) ==
    /\ pc'[t] = pc[t] /\ cmd'[t] = cmd[t] /\ held'[t] = held[t]
    /\ page'[t] = page[t] /\ roster'[t] = roster[t]

\* Rosters lose nobody.
RostersGrow == \A q \in Requests : DOMAIN passenger[q] \subseteq DOMAIN passenger'[q]

\* A session whose own state does not change keeps its invariant when the
\* tables change only while it is not at work and no locked student leaves.
LEMMA OthersKeep ==
    ASSUME NEW t \in Sessions, SessionInv(t), SessionKept(t),
           TripsTyped, TripsPast, WorldTyped, WorldTyped', today <= today',
           pc[t] \in Working => UNCHANGED transportTables,
           \A p \in Students : StudentLock(p) \in held[t] /\ p \in enrolled => p \in enrolled',
           RostersGrow
    PROVE  SessionInv(t)'
<1>0. PICK c : c = cmd[t]
  OBVIOUS
<1>1. /\ pc'[t] = pc[t] /\ cmd[t] = c /\ cmd'[t] = c /\ held'[t] = held[t]
      /\ page'[t] = page[t] /\ roster'[t] = roster[t]
  BY <1>0 DEF SessionKept
<1>2. PhaseFits(t) /\ HoldsLocks(t) /\ PageFits(t) /\ DecisionStands(t)
  BY DEF SessionInv
<1>3. pc[t] # "idle" => c \in Commands /\ CommandFits(c)
  BY <1>1, <1>2, CommandFields DEF PhaseFits
<1>4. PhaseFits(t)'
  BY <1>1, <1>2 DEF PhaseFits
<1>5. HoldsLocks(t)'
  <2>1. pc[t] \in Working => event' = event
    BY TablesSame
  <2>2. pc[t] \in Working => SchoolLock \in held'[t] /\ event'[c.req] = NoRow
    BY <1>1, <1>2, <2>1 DEF HoldsLocks
  <2>3. ASSUME pc[t] \in {"decide", "commit"}, c.op \in {"assign", "change_assignment"}
        PROVE  StudentLock(c.student) \in held'[t] /\ c.student \in enrolled'
    BY <1>1, <1>2, <1>3, <2>3 DEF HoldsLocks, CommandFits
  <2>4. ASSUME pc[t] \in {"decide", "commit"},
               c.op \in {"passenger", "complete_trip", "cancel_trip"}
        PROVE  TripLock(c.trip) \in held'[t]
    BY <1>1, <1>2, <2>4 DEF HoldsLocks
  <2>5. QED
    BY <1>1, <2>2, <2>3, <2>4 DEF HoldsLocks, SchoolLock, StudentLock, TripLock
<1>6. PageFits(t)'
  BY <1>1, <1>2, <1>3 DEF PageFits, RostersGrow, CommandFits
<1>7. DecisionStands(t)'
  <2> SUFFICES ASSUME pc[t] = "commit"
               PROVE  DecisionStands(t)'
    BY <1>1 DEF DecisionStands
  <2>1. c \in Commands /\ UNCHANGED transportTables
    BY <1>3 DEF Working
  <2>2. CASE c.op # "start_trip"
    <3>1. Accepts(t)
      BY <1>1, <1>2, <2>2 DEF DecisionStands
    <3>2. Accepts(t)'
      BY <1>1, <2>1, <2>2, <3>1, AcceptsKeeps
    <3>3. QED
      BY <1>1, <2>2, <3>2 DEF DecisionStands
  <2>3. CASE c.op = "start_trip"
    <3> DEFINE r == c.run
    <3>1. /\ r \in ActiveRuns
          /\ \A q \in Trips :
               /\ ~(trip[q].run = r /\ trip[q].day = today /\ trip[q].status # "cancelled")
               /\ q \in OpenTrips =>
                    /\ trip[q].vehicle # run[r].vehicle
                    /\ vehicle[run[r].vehicle].driver # NoRow =>
                         trip[q].driver # vehicle[run[r].vehicle].driver
          /\ roster[t] # {} /\ roster[t] \subseteq SeatedOn(r)
      BY <1>1, <1>2, <2>3 DEF DecisionStands
    <3>2. \A q \in Trips : trip[q].day = today' => trip[q].day = today
      <4> SUFFICES ASSUME NEW q \in Trips, trip[q].day = today'
                   PROVE  trip[q].day = today
        OBVIOUS
      <4>1. trip[q].day <= today
        BY DEF TripsPast
      <4>2. today \in Nat /\ today' \in Nat
        BY DaysNatural DEF WorldTyped
      <4>3. QED
        BY <4>1, <4>2
    <3>3. SeatedOn(r)' = SeatedOn(r)
      BY <2>1, LoadsSame
    <3>4. QED
      BY <1>1, <2>1, <2>3, <3>1, <3>2, <3>3, TablesSame DEF DecisionStands
  <2>4. QED
    BY <2>2, <2>3
<1>8. QED
  BY <1>4, <1>5, <1>6, <1>7 DEF SessionInv

\* Nothing has changed in the tables.
LEMMA QuietKeeps ==
    ASSUME IInv, UNCHANGED transportTables, WorldTyped', today <= today',
           SessionsTyped', LocksApart',
           \A t \in Sessions : SessionInv(t)' \/ SessionKept(t),
           \A t \in Sessions, p \in Students :
             StudentLock(p) \in held[t] /\ p \in enrolled => p \in enrolled'
    PROVE  IInv'
<1>1. TablesTyped /\ WorldTyped /\ TablesStand /\ TripsPast /\ \A s \in Sessions : SessionInv(s)
  BY Parts
<1>2. TablesTyped' /\ TablesStand'
  BY <1>1, TablesKeep
<1>3. TripsPast'
  <2> SUFFICES ASSUME NEW t \in Trips
               PROVE  trip[t].day <= today'
    BY TablesSame DEF TripsPast
  <2>1. trip[t].day <= today /\ trip[t].day \in Days
    BY <1>1 DEF TripsPast, TablesTyped, TripsTyped, TripRow, Trips
  <2>2. trip[t].day \in Nat /\ today \in Nat /\ today' \in Nat
    BY <1>1, <2>1, DaysNatural DEF WorldTyped
  <2>3. QED
    BY <2>1, <2>2
<1>4. RostersGrow
  BY TablesSame DEF RostersGrow
<1>5. ASSUME NEW t \in Sessions
      PROVE  SessionInv(t)'
  <2>1. CASE SessionKept(t)
    BY <1>1, <1>4, <2>1, OthersKeep DEF TablesTyped
  <2>2. QED
    BY <2>1
<1>6. QED
  BY <1>2, <1>3, <1>5, PartsNext

\* A session's own state after its call ends.
LEMMA EndKeeps ==
    ASSUME SessionsTyped, LocksApart, NEW s \in Sessions, End(s)
    PROVE  /\ SessionsTyped' /\ LocksApart' /\ SessionInv(s)'
           /\ pc'[s] = "idle"
           /\ \A t \in Sessions \ {s} : SessionKept(t)
<1>1. /\ pc' \in [Sessions -> Phases] /\ pc'[s] = "idle" /\ held'[s] = {}
      /\ cmd'[s] = NoCommand /\ page'[s] = NoPage /\ roster'[s] = {}
  BY DEF SessionsTyped, End, GoTo, Phases
<1>2. /\ cmd' \in [Sessions -> Commands \cup {NoCommand}]
      /\ held' \in [Sessions \cup Callers -> SUBSET Locks]
      /\ roster' \in [Sessions -> SUBSET Requests]
      /\ DOMAIN page' = Sessions
  BY DEF SessionsTyped, End
<1>3. LocksApart'
  BY DEF SessionsTyped, End, LocksApart
<1>4. SessionInv(s)'
  BY <1>1 DEF SessionInv, PhaseFits, HoldsLocks, PageFits, DecisionStands, Working
<1>5. ASSUME NEW t \in Sessions \ {s}
      PROVE  SessionKept(t)
  BY DEF SessionsTyped, End, GoTo, SessionKept
<1>6. \A t \in Sessions :
         /\ page'[t].version \in Nat
         /\ pc'[t] = "idle" => /\ cmd'[t] = NoCommand /\ held'[t] = {}
                               /\ page'[t] = NoPage /\ roster'[t] = {}
  BY <1>1, <1>5 DEF SessionsTyped, SessionKept, NoPage
<1>7. QED
  BY <1>1, <1>2, <1>3, <1>4, <1>5, <1>6 DEF SessionsTyped, NoPage

\* At most one session is at work.
LEMMA OneAtWork ==
    ASSUME IInv, NEW s \in Sessions, NEW t \in Sessions, s # t, pc[s] \in Working
    PROVE  pc[t] \notin Working
<1>1. LocksApart /\ HoldsLocks(s) /\ HoldsLocks(t)
  BY Parts DEF SessionInv
<1>2. QED
  BY <1>1 DEF HoldsLocks, LocksApart

\* Nothing has changed but a session's own state.
LEMMA MoveKeeps ==
    ASSUME IInv, NEW s \in Sessions, UNCHANGED transportTables, UNCHANGED world,
           SessionsTyped', LocksApart', SessionInv(s)',
           \A t \in Sessions \ {s} : SessionKept(t)
    PROVE  IInv'
<1>1. WorldTyped' /\ today <= today' /\ enrolled' = enrolled
  <2>1. enrolled' = enrolled /\ today' = today /\ WorldTyped
    BY Parts DEF world
  <2>2. today \in Nat
    BY <2>1, DaysNatural DEF WorldTyped
  <2>3. QED
    BY <2>1, <2>2 DEF WorldTyped
<1>2. QED
  BY <1>1, QuietKeeps

LEMMA RefuseKeeps ==
    ASSUME IInv, NEW s \in Sessions, Refuse(s)
    PROVE  IInv'
<1>1. UNCHANGED transportTables /\ UNCHANGED world /\ End(s)
  BY DEF Refuse
<1>2. SessionsTyped /\ LocksApart
  BY Parts
<1>3. QED
  BY <1>1, <1>2, EndKeeps, MoveKeeps

\* A command that writes and ends.
LEMMA CommitKeeps ==
    ASSUME IInv, NEW s \in Sessions, pc[s] \in Working, Record(s),
           TablesTyped', TablesStand', TripsPast', RostersGrow
    PROVE  IInv'
<1>1. SessionsTyped /\ LocksApart /\ TablesTyped /\ WorldTyped /\ TripsPast
  BY Parts
<1>2. End(s) /\ enrolled' = enrolled /\ today' = today
  BY DEF Record, world
<1>3. SessionsTyped' /\ LocksApart' /\ SessionInv(s)' /\ \A t \in Sessions \ {s} : SessionKept(t)
  BY <1>1, <1>2, EndKeeps
<1>4. WorldTyped' /\ today <= today'
  <2>1. today \in Nat
    BY <1>1, DaysNatural DEF WorldTyped
  <2>2. QED
    BY <1>1, <1>2, <2>1 DEF WorldTyped
<1>5. ASSUME NEW t \in Sessions \ {s}
      PROVE  SessionInv(t)'
  <2>1. SessionInv(t) /\ SessionKept(t)
    BY <1>3, Parts
  <2>2. pc[t] \notin Working
    BY OneAtWork
  <2>3. TripsTyped
    BY <1>1 DEF TablesTyped
  <2>4. QED
    BY <1>1, <1>2, <1>4, <2>1, <2>2, <2>3, OthersKeep
<1>6. \A t \in Sessions : SessionInv(t)'
  BY <1>3, <1>5
<1>7. QED
  BY <1>3, <1>4, <1>6, PartsNext

-----------------------------------------------------------------------------
(* The steps that lock, look and decide. *)

LEMMA OpenPageKeeps ==
    ASSUME IInv, NEW s \in Sessions, OpenPage(s)
    PROVE  IInv'
<1>1. PICK c \in Commands :
        /\ \/ c.op = "passenger" /\ c.agreement \in DOMAIN passenger[c.trip]
           \/ c.op = "reorder_stops"
        /\ cmd' = [cmd EXCEPT ![s] = c]
        /\ page' = [page EXCEPT ![s] =
              IF c.op = "passenger"
              THEN [version |-> passenger[c.trip][c.agreement].version, order |-> <<>>]
              ELSE [version |-> 0, order |-> Places(c.route)]]
  BY DEF OpenPage
<1>2. /\ pc[s] = "idle" /\ GoTo(s, "page") /\ held' = held /\ roster' = roster
      /\ UNCHANGED transportTables /\ UNCHANGED world
  BY DEF OpenPage
<1>3. SessionsTyped /\ LocksApart /\ TablesTyped
  BY Parts
<1>4. /\ pc'[s] = "page" /\ cmd'[s] = c
      /\ pc' \in [Sessions -> Phases] /\ cmd' \in [Sessions -> Commands \cup {NoCommand}]
      /\ DOMAIN page' = Sessions
  BY <1>1, <1>2, <1>3 DEF SessionsTyped, GoTo, Phases
<1>5. \A t \in Sessions \ {s} : SessionKept(t)
  BY <1>1, <1>2, <1>3 DEF SessionKept, GoTo, SessionsTyped
<1>6. page'[s].version \in Nat
  <2>1. CASE c.op = "passenger"
    <3>1. c.trip \in Requests
      BY <2>1, CommandFields DEF CommandFits
    <3>2. passenger[c.trip][c.agreement] \in PassengerRow
      BY <1>1, <1>3, <2>1, <3>1 DEF TablesTyped, TripsTyped
    <3>3. passenger[c.trip][c.agreement].version \in Nat
      BY <3>2 DEF PassengerRow
    <3>4. QED
      BY <1>1, <1>3, <2>1, <3>3 DEF SessionsTyped
  <2>2. CASE c.op # "passenger"
    BY <1>1, <1>3, <2>2 DEF SessionsTyped
  <2>3. QED
    BY <2>1, <2>2
<1>7. SessionsTyped'
  <2>1. \A t \in Sessions :
           /\ page'[t].version \in Nat
           /\ pc'[t] = "idle" => /\ cmd'[t] = NoCommand /\ held'[t] = {}
                                 /\ page'[t] = NoPage /\ roster'[t] = {}
    BY <1>3, <1>4, <1>5, <1>6 DEF SessionsTyped, SessionKept
  <2>2. held' \in [Sessions \cup Callers -> SUBSET Locks] /\ roster' \in [Sessions -> SUBSET Requests]
    BY <1>2, <1>3 DEF SessionsTyped
  <2>3. QED
    BY <1>4, <2>1, <2>2 DEF SessionsTyped, NoPage
<1>8. LocksApart'
  BY <1>2, <1>3 DEF LocksApart
<1>9. SessionInv(s)'
  BY <1>1, <1>2, <1>4, TablesSame
     DEF SessionInv, PhaseFits, HoldsLocks, PageFits, DecisionStands, Working
<1>10. QED
  BY <1>2, <1>5, <1>7, <1>8, <1>9, MoveKeeps

\* A session or a call that waits for one more lock and gets it.
LEMMA LockTaken ==
    ASSUME SessionsTyped, LocksApart, NEW s \in Sessions \cup Callers,
           NEW lock \in Locks, Acquire(s, lock)
    PROVE  /\ held' \in [Sessions \cup Callers -> SUBSET Locks]
           /\ held'[s] = held[s] \cup {lock}
           /\ \A t \in (Sessions \cup Callers) \ {s} : held'[t] = held[t]
           /\ LocksApart'
  BY DEF SessionsTyped, LocksApart, Acquire, Free

\* A session that goes to another phase with its call.
LEMMA PhaseMoves ==
    ASSUME IInv, NEW s \in Sessions, NEW phase \in Phases \ {"idle"}, GoTo(s, phase),
           NEW c \in Commands, cmd' = [cmd EXCEPT ![s] = c] \/ (cmd' = cmd /\ cmd[s] = c),
           page' = page,
           roster' \in [Sessions -> SUBSET Requests], \A t \in Sessions \ {s} : roster'[t] = roster[t],
           held' \in [Sessions \cup Callers -> SUBSET Locks],
           \A t \in Sessions \ {s} : held'[t] = held[t]
    PROVE  /\ SessionsTyped' /\ \A t \in Sessions \ {s} : SessionKept(t)
           /\ pc'[s] = phase /\ cmd'[s] = c /\ page'[s] = page[s]
<1>1. SessionsTyped
  BY Parts
<1>2. /\ pc' \in [Sessions -> Phases] /\ pc'[s] = phase
      /\ \A t \in Sessions \ {s} : pc'[t] = pc[t]
  BY <1>1 DEF SessionsTyped, GoTo, Phases
<1>3. /\ cmd' \in [Sessions -> Commands \cup {NoCommand}] /\ cmd'[s] = c
      /\ \A t \in Sessions \ {s} : cmd'[t] = cmd[t]
  BY <1>1 DEF SessionsTyped
<1>4. DOMAIN page' = Sessions /\ \A t \in Sessions : page'[t] = page[t]
  BY <1>1 DEF SessionsTyped
<1>5. \A t \in Sessions \ {s} : SessionKept(t)
  BY <1>2, <1>3, <1>4 DEF SessionKept
<1>6. \A t \in Sessions :
         /\ page'[t].version \in Nat
         /\ pc'[t] = "idle" => /\ cmd'[t] = NoCommand /\ held'[t] = {}
                               /\ page'[t] = NoPage /\ roster'[t] = {}
  BY <1>1, <1>2, <1>4, <1>5 DEF SessionsTyped, SessionKept
<1>7. QED
  BY <1>2, <1>3, <1>4, <1>5, <1>6 DEF SessionsTyped, NoPage

LEMMA FirstPhases ==
    ASSUME NEW c \in Commands
    PROVE  /\ FirstPhase(c.op) \in {"student", "trip", "decide"}
           /\ FirstPhase(c.op) = "student" => c.op \in {"assign", "change_assignment"}
           /\ FirstPhase(c.op) = "trip" => c.op \in {"passenger", "complete_trip", "cancel_trip"}
           /\ FirstPhase(c.op) = "decide" =>
                c.op \notin {"assign", "change_assignment", "passenger", "complete_trip", "cancel_trip"}
  BY DEF FirstPhase

LEMMA BeginKeeps ==
    ASSUME IInv, NEW s \in Sessions, NEW c \in Commands, Begin(s, c),
           \/ pc[s] = "idle" /\ c.op \notin {"passenger", "reorder_stops"}
           \/ pc[s] = "page" /\ c = cmd[s]
    PROVE  IInv'
<1>1. /\ Acquire(s, SchoolLock) /\ event[c.req] = NoRow
      /\ cmd' = [cmd EXCEPT ![s] = c] /\ GoTo(s, FirstPhase(c.op))
      /\ page' = page /\ roster' = roster
      /\ UNCHANGED transportTables /\ UNCHANGED world
  BY DEF Begin
<1>2. SessionsTyped /\ LocksApart /\ TablesTyped /\ SessionInv(s)
  BY Parts
<1>3. SchoolLock \in Locks
  BY DEF Locks
<1>4. /\ held' \in [Sessions \cup Callers -> SUBSET Locks] /\ held'[s] = held[s] \cup {SchoolLock}
      /\ \A t \in Sessions \ {s} : held'[t] = held[t]
      /\ LocksApart'
  BY <1>1, <1>2, <1>3, LockTaken
<1>5. FirstPhase(c.op) \in Phases \ {"idle"}
  BY FirstPhases DEF Phases
<1>6. /\ SessionsTyped' /\ \A t \in Sessions \ {s} : SessionKept(t)
      /\ pc'[s] = FirstPhase(c.op) /\ cmd'[s] = c
  <2>1. roster' \in [Sessions -> SUBSET Requests] /\ \A t \in Sessions \ {s} : roster'[t] = roster[t]
    BY <1>1, <1>2 DEF SessionsTyped
  <2>2. PICK phase \in Phases \ {"idle"} : phase = FirstPhase(c.op)
    BY <1>5
  <2>3. GoTo(s, phase) /\ page' = page
        /\ (cmd' = [cmd EXCEPT ![s] = c] \/ (cmd' = cmd /\ cmd[s] = c))
    BY <1>1, <2>2
  <2>4. SessionsTyped' /\ (\A t \in Sessions \ {s} : SessionKept(t)) /\ pc'[s] = phase /\ cmd'[s] = c
    BY <1>4, <2>1, <2>3, PhaseMoves
  <2>5. QED
    BY <2>2, <2>4
<1>7. SessionInv(s)'
  <2>1. event' = event /\ passenger' = passenger
    BY <1>1, TablesSame
  <2>2. PhaseFits(s)'
    BY <1>6, FirstPhases DEF PhaseFits
  <2>3. SchoolLock \in held'[s]
    BY <1>4
  <2>4. HoldsLocks(s)'
    BY <1>1, <1>6, <2>1, <2>3, FirstPhases DEF HoldsLocks, SchoolLock
  <2>5. DecisionStands(s)'
    BY <1>6, FirstPhases DEF DecisionStands
  <2>6. PageFits(s)'
    BY <1>2, <1>6, <2>1 DEF SessionInv, PageFits
  <2>7. QED
    BY <2>2, <2>4, <2>5, <2>6 DEF SessionInv
<1>8. QED
  BY <1>1, <1>4, <1>6, <1>7, MoveKeeps

LEMMA ReceiveKeeps ==
    ASSUME IInv, NEW s \in Sessions, Receive(s)
    PROVE  IInv'
  BY BeginKeeps DEF Receive

LEMMA SavePageKeeps ==
    ASSUME IInv, NEW s \in Sessions, SavePage(s)
    PROVE  IInv'
<1>1. pc[s] = "page" /\ cmd[s] \in Commands /\ Begin(s, cmd[s])
  BY Parts DEF SavePage, SessionInv, PhaseFits
<1>2. PICK c \in Commands : c = cmd[s]
  BY <1>1
<1>3. QED
  BY <1>1, <1>2, BeginKeeps

LEMMA LockStudentKeeps ==
    ASSUME IInv, NEW s \in Sessions, LockStudent(s)
    PROVE  IInv'
<1>1. CASE Refuse(s)
  BY <1>1, RefuseKeeps
<1>2. CASE ~Refuse(s)
  <2>1. SessionsTyped /\ LocksApart /\ SessionInv(s)
    BY Parts
  <2>2. pc[s] = "student" /\ cmd[s] \in Commands
    BY <2>1 DEF LockStudent, SessionInv, PhaseFits
  <2>3. PICK c \in Commands : c = cmd[s]
    BY <2>2
  <2>4. c.op \in {"assign", "change_assignment"} /\ c.student \in Students
    BY <2>1, <2>2, <2>3, CommandFields DEF SessionInv, PhaseFits, CommandFits
  <2>5. /\ Acquire(s, StudentLock(c.student)) /\ GoTo(s, "decide") /\ c.student \in enrolled
        /\ cmd' = cmd /\ page' = page /\ roster' = roster
        /\ UNCHANGED transportTables /\ UNCHANGED world
    BY <1>2, <2>3 DEF LockStudent
  <2>6. StudentLock(c.student) \in Locks
    BY <2>4 DEF Locks
  <2>7. /\ held' \in [Sessions \cup Callers -> SUBSET Locks]
        /\ held'[s] = held[s] \cup {StudentLock(c.student)}
        /\ \A t \in Sessions \ {s} : held'[t] = held[t]
        /\ LocksApart'
    BY <2>1, <2>5, <2>6, LockTaken
  <2>8. /\ SessionsTyped' /\ \A t \in Sessions \ {s} : SessionKept(t)
        /\ pc'[s] = "decide" /\ cmd'[s] = c
    <3>1. "decide" \in Phases \ {"idle"}
      BY DEF Phases
    <3>2. roster' \in [Sessions -> SUBSET Requests] /\ \A t \in Sessions \ {s} : roster'[t] = roster[t]
      BY <2>1, <2>5 DEF SessionsTyped
    <3>3. QED
      BY <2>3, <2>5, <2>7, <3>1, <3>2, PhaseMoves
  <2>9. SessionInv(s)'
    <3>1. event' = event /\ enrolled' = enrolled
      BY <2>5, TablesSame DEF world
    <3>2. SchoolLock \in held[s] /\ event[c.req] = NoRow
      BY <2>1, <2>2, <2>3 DEF SessionInv, HoldsLocks, Working
    <3>3. HoldsLocks(s)'
      BY <2>4, <2>5, <2>7, <2>8, <3>1, <3>2 DEF HoldsLocks, SchoolLock, StudentLock
    <3>4. QED
      BY <2>4, <2>8, <3>3 DEF SessionInv, PhaseFits, PageFits, DecisionStands
  <2>10. QED
    BY <2>5, <2>7, <2>8, <2>9, MoveKeeps
<1>3. QED
  BY <1>1, <1>2

LEMMA LockTripKeeps ==
    ASSUME IInv, NEW s \in Sessions, LockTrip(s)
    PROVE  IInv'
<1>1. SessionsTyped /\ LocksApart /\ SessionInv(s)
  BY Parts
<1>2. pc[s] = "trip" /\ cmd[s] \in Commands
  BY <1>1 DEF LockTrip, SessionInv, PhaseFits
<1>3. PICK c \in Commands : c = cmd[s]
  BY <1>2
<1>4. c.op \in {"passenger", "complete_trip", "cancel_trip"} /\ c.trip \in Requests
  BY <1>1, <1>2, <1>3, CommandFields DEF SessionInv, PhaseFits, CommandFits
<1>5. /\ Acquire(s, TripLock(c.trip)) /\ GoTo(s, "decide")
      /\ cmd' = cmd /\ page' = page /\ roster' = roster
      /\ UNCHANGED transportTables /\ UNCHANGED world
  BY <1>3 DEF LockTrip
<1>6. TripLock(c.trip) \in Locks
  BY <1>4 DEF Locks
<1>7. /\ held' \in [Sessions \cup Callers -> SUBSET Locks]
      /\ held'[s] = held[s] \cup {TripLock(c.trip)}
      /\ \A t \in Sessions \ {s} : held'[t] = held[t]
      /\ LocksApart'
  BY <1>1, <1>5, <1>6, LockTaken
<1>8. /\ SessionsTyped' /\ \A t \in Sessions \ {s} : SessionKept(t)
      /\ pc'[s] = "decide" /\ cmd'[s] = c
  <2>1. "decide" \in Phases \ {"idle"}
    BY DEF Phases
  <2>2. roster' \in [Sessions -> SUBSET Requests] /\ \A t \in Sessions \ {s} : roster'[t] = roster[t]
    BY <1>1, <1>5 DEF SessionsTyped
  <2>3. QED
    BY <1>3, <1>5, <1>7, <2>1, <2>2, PhaseMoves
<1>9. SessionInv(s)'
  <2>1. event' = event /\ passenger' = passenger
    BY <1>5, TablesSame
  <2>2. SchoolLock \in held[s] /\ event[c.req] = NoRow
    BY <1>1, <1>2, <1>3 DEF SessionInv, HoldsLocks, Working
  <2>3. HoldsLocks(s)'
    BY <1>4, <1>7, <1>8, <2>1, <2>2 DEF HoldsLocks, SchoolLock, TripLock
  <2>4. PageFits(s)'
    BY <1>1, <1>2, <1>3, <1>8, <2>1 DEF SessionInv, PageFits
  <2>5. QED
    BY <1>4, <1>8, <2>3, <2>4 DEF SessionInv, PhaseFits, DecisionStands
<1>10. QED
  BY <1>5, <1>7, <1>8, <1>9, MoveKeeps

\* What a dispatch reads are agreements with a seat on the run.
LEMMA EligibleSeated ==
    ASSUME TablesTyped, FiniteRows, NEW r \in Runs
    PROVE  /\ Eligible(r) \subseteq SeatedOn(r) /\ SeatedOn(r) \subseteq Requests
           /\ IsFiniteSet(SeatedOn(r)) /\ IsFiniteSet(Eligible(r))
<1>1. Eligible(r) \subseteq SeatedOn(r)
  BY DEF Eligible, SeatedOn
<1>2. SeatedOn(r) \in SUBSET {a \in Requests : agreement[a] # NoRow}
  BY DEF SeatedOn, ActiveAgreements
<1>3. IsFiniteSet({a \in Requests : agreement[a] # NoRow})
  BY DEF FiniteRows
<1>4. IsFiniteSet(SeatedOn(r))
  BY <1>2, <1>3, FS_Subset
<1>5. IsFiniteSet(Eligible(r))
  BY <1>1, <1>4, FS_Subset
<1>6. QED
  BY <1>1, <1>2, <1>4, <1>5

LEMMA DecideKeeps ==
    ASSUME IInv, NEW s \in Sessions, Decide(s)
    PROVE  IInv'
<1>1. SessionsTyped /\ LocksApart /\ SessionInv(s) /\ TablesTyped /\ TablesStand
  BY Parts
<1>2. pc[s] = "decide" /\ cmd[s] \in Commands
  BY <1>1 DEF Decide, SessionInv, PhaseFits
<1>3. PICK c \in Commands : c = cmd[s]
  BY <1>2
<1>4. /\ Accepts(s) /\ GoTo(s, "commit")
      /\ roster' = [roster EXCEPT ![s] = IF c.op = "start_trip" THEN Eligible(c.run) ELSE {}]
      /\ cmd' = cmd /\ held' = held /\ page' = page
      /\ UNCHANGED transportTables /\ UNCHANGED world
  BY <1>3 DEF Decide
<1>5. c.op = "start_trip" => c.run \in Runs
  BY CommandFields DEF CommandFits
<1>6. c.op = "start_trip" => Eligible(c.run) \in SUBSET Requests
  BY <1>1, <1>5, EligibleSeated DEF TablesStand
<1>7. /\ roster' \in [Sessions -> SUBSET Requests]
      /\ \A t \in Sessions \ {s} : roster'[t] = roster[t]
      /\ roster'[s] = IF c.op = "start_trip" THEN Eligible(c.run) ELSE {}
  BY <1>1, <1>4, <1>6 DEF SessionsTyped
<1>8. /\ SessionsTyped' /\ \A t \in Sessions \ {s} : SessionKept(t)
      /\ pc'[s] = "commit" /\ cmd'[s] = c /\ page'[s] = page[s]
  <2>1. "commit" \in Phases \ {"idle"}
    BY DEF Phases
  <2>2. held' \in [Sessions \cup Callers -> SUBSET Locks] /\ \A t \in Sessions \ {s} : held'[t] = held[t]
    BY <1>1, <1>4 DEF SessionsTyped
  <2>3. QED
    BY <1>3, <1>4, <1>7, <2>1, <2>2, PhaseMoves
<1>9. LocksApart'
  BY <1>1, <1>4 DEF LocksApart
<1>10. SessionInv(s)'
  <2>1. event' = event /\ passenger' = passenger /\ enrolled' = enrolled /\ today' = today
    BY <1>4, TablesSame DEF world
  <2>2. PhaseFits(s)' /\ HoldsLocks(s)' /\ PageFits(s)'
    BY <1>1, <1>2, <1>3, <1>4, <1>8, <2>1
       DEF SessionInv, PhaseFits, HoldsLocks, PageFits, Working, SchoolLock, StudentLock, TripLock
  <2>3. DecisionStands(s)'
    <3>1. CASE c.op # "start_trip"
      <4>1. Accepts(s)'
        BY <1>3, <1>4, <1>8, <3>1, AcceptsKeeps
      <4>2. QED
        BY <1>8, <3>1, <4>1 DEF DecisionStands
    <3>2. CASE c.op = "start_trip"
      <4>1. MayDispatch(c.run)
        BY <1>3, <1>4, <3>2 DEF Accepts
      <4>2. /\ c.run \in ActiveRuns
            /\ \A t \in Trips :
                 /\ ~(trip[t].run = c.run /\ trip[t].day = today /\ trip[t].status # "cancelled")
                 /\ t \in OpenTrips =>
                      /\ trip[t].vehicle # run[c.run].vehicle
                      /\ vehicle[run[c.run].vehicle].driver # NoRow =>
                           trip[t].driver # vehicle[run[c.run].vehicle].driver
        BY <4>1 DEF MayDispatch
      <4>3. Eligible(c.run) \subseteq SeatedOn(c.run) /\ IsFiniteSet(Eligible(c.run))
        BY <1>1, <1>5, <3>2, EligibleSeated DEF TablesStand
      <4>4. Eligible(c.run) # {}
        <5>1. Cardinality(Eligible(c.run)) # 0
          BY <4>1 DEF MayDispatch
        <5>2. QED
          BY <5>1, FS_EmptySet
      <4>5. SeatedOn(c.run)' = SeatedOn(c.run)
        BY <1>4, LoadsSame
      <4>6. roster'[s] # {} /\ roster'[s] \subseteq SeatedOn(c.run)
        BY <1>7, <3>2, <4>3, <4>4
      <4>7. QED
        BY <1>4, <1>8, <2>1, <3>2, <4>2, <4>5, <4>6, TablesSame DEF DecisionStands
    <3>3. QED
      BY <3>1, <3>2
  <2>4. QED
    BY <2>2, <2>3 DEF SessionInv
<1>11. QED
  BY <1>4, <1>8, <1>9, <1>10, MoveKeeps

-----------------------------------------------------------------------------
(* The world around the office. *)

LEMMA ChangeStatusKeeps ==
    ASSUME IInv, NEW p \in Leavers, ChangeStatus(p)
    PROVE  IInv'
<1>1. /\ \A s \in Sessions : StudentLock(p) \notin held[s]
      /\ enrolled' = IF p \in enrolled THEN enrolled \ {p} ELSE enrolled \cup {p}
      /\ UNCHANGED transportTables /\ today' = today
      /\ pc' = pc /\ cmd' = cmd /\ held' = held /\ page' = page /\ roster' = roster
  BY DEF ChangeStatus, sessions
<1>2. SessionsTyped /\ LocksApart /\ WorldTyped
  BY Parts
<1>3. SessionsTyped' /\ LocksApart'
  BY <1>1, <1>2 DEF SessionsTyped, LocksApart, NoPage
<1>4. WorldTyped' /\ today <= today'
  <2>1. today \in Nat /\ p \in Students
    BY <1>2, DaysNatural, TransportConstantsAssumption DEF WorldTyped
  <2>2. QED
    BY <1>1, <1>2, <2>1 DEF WorldTyped
<1>5. \A t \in Sessions : SessionKept(t)
  BY <1>1 DEF SessionKept
<1>6. \A t \in Sessions, q \in Students :
         StudentLock(q) \in held[t] /\ q \in enrolled => q \in enrolled'
  BY <1>1
<1>7. QED
  BY <1>1, <1>3, <1>4, <1>5, <1>6, QuietKeeps

LEMMA DayPassesKeeps ==
    ASSUME IInv, DayPasses
    PROVE  IInv'
<1>1. /\ today + 1 \in Days /\ today' = today + 1
      /\ UNCHANGED transportTables /\ enrolled' = enrolled
      /\ pc' = pc /\ cmd' = cmd /\ held' = held /\ page' = page /\ roster' = roster
  BY DEF DayPasses, sessions
<1>2. SessionsTyped /\ LocksApart /\ WorldTyped
  BY Parts
<1>3. SessionsTyped' /\ LocksApart'
  BY <1>1, <1>2 DEF SessionsTyped, LocksApart, NoPage
<1>4. WorldTyped' /\ today <= today'
  <2>1. today \in Nat
    BY <1>2, DaysNatural DEF WorldTyped
  <2>2. QED
    BY <1>1, <1>2, <2>1 DEF WorldTyped
<1>5. \A t \in Sessions : SessionKept(t)
  BY <1>1 DEF SessionKept
<1>6. QED
  BY <1>1, <1>3, <1>4, <1>5, QuietKeeps

\* Another program changes only which locks it holds itself.
LEMMA OfficeStays ==
    ASSUME IInv, UNCHANGED office, held' \in [Sessions \cup Callers -> SUBSET Locks],
           \A t \in Sessions : held'[t] = held[t], LocksApart'
    PROVE  IInv'
<1>1. /\ UNCHANGED transportTables /\ today' = today /\ enrolled' = enrolled
      /\ pc' = pc /\ cmd' = cmd /\ page' = page /\ roster' = roster
  BY DEF office, world
<1>2. SessionsTyped /\ WorldTyped
  BY Parts
<1>3. SessionsTyped'
  BY <1>1, <1>2 DEF SessionsTyped, NoPage
<1>4. WorldTyped' /\ today <= today'
  <2>1. today \in Nat
    BY <1>2, DaysNatural DEF WorldTyped
  <2>2. QED
    BY <1>1, <1>2, <2>1 DEF WorldTyped
<1>5. \A t \in Sessions : SessionKept(t)
  BY <1>1 DEF SessionKept
<1>6. QED
  BY <1>1, <1>3, <1>4, <1>5, QuietKeeps

-----------------------------------------------------------------------------
(* The parts of the properties. *)

RunsFit ==
    \A r \in ActiveRuns :
      /\ route[run[r].route] = "active" /\ vehicle[run[r].vehicle].active
      /\ Load(r) <= vehicle[run[r].vehicle].capacity
      /\ Clear(run[r], run[r].vehicle, vehicle[run[r].vehicle].driver, {r})

SeatsFit ==
    \A a \in ActiveAgreements : \A d \in DOMAIN agreement[a].legs :
      LET leg == agreement[a].legs[d] IN
      /\ leg.run \in ActiveRuns /\ run[leg.run].direction = d
      /\ leg.stop \in ActiveStops(run[leg.run].route)

OneSeat ==
    \A a, b \in ActiveAgreements : agreement[b].student = agreement[a].student => a = b

StopsFit ==
    \A r \in Routes :
      /\ Cardinality(ActiveStops(r)) <= StopLimit
      /\ \A x, y \in ActiveStops(r) : stop[x].order = stop[y].order => x = y

LEMMA PlanParts ==
    PlanConsistent <=> RunsFit /\ SeatsFit /\ OneSeat /\ StopsFit
  BY DEF PlanConsistent, RunsFit, SeatsFit, OneSeat, StopsFit

OneDispatch ==
    \A t, u \in OpenTrips : t # u =>
      /\ trip[t].vehicle # trip[u].vehicle
      /\ trip[t].driver = NoRow \/ trip[t].driver # trip[u].driver

RunsKept ==
    \A t \in OpenTrips :
      /\ run[trip[t].run].active /\ run[trip[t].run].vehicle = trip[t].vehicle

RidersFit ==
    \A t \in OpenTrips :
      LET r == run[trip[t].run] IN
      /\ Cardinality(DOMAIN passenger[t]) <= vehicle[r.vehicle].capacity
      /\ \A a \in DOMAIN passenger[t] :
           a \in ActiveAgreements /\ LegOn(a, trip[t].run).run = trip[t].run

ClosedTrips ==
    \A t \in Trips \ OpenTrips :
      StatusesIn(t) \subseteq IF trip[t].status = "completed" THEN {"alighted", "absent"}
                              ELSE {"absent", "cancelled"}

OneTripADay ==
    \A t, u \in {v \in Trips : trip[v].status # "cancelled"} :
      trip[t].run = trip[u].run /\ trip[t].day = trip[u].day => t = u

LEMMA TripParts ==
    TripsConsistent <=> OneDispatch /\ RunsKept /\ RidersFit /\ ClosedTrips /\ OneTripADay
  BY DEF TripsConsistent, OneDispatch, RunsKept, RidersFit, ClosedTrips, OneTripADay

\* An agreement with a seat on a run is one of its load.
LEMMA SeatedLoad ==
    ASSUME TablesTyped, FiniteRows, NEW r
    PROVE  /\ SeatedOn(r) \subseteq {a \in ActiveAgreements : r \in RunsOf(agreement[a].legs)}
           /\ IsFiniteSet({a \in ActiveAgreements : r \in RunsOf(agreement[a].legs)})
           /\ Load(r) \in Nat
<1> DEFINE L == {a \in ActiveAgreements : r \in RunsOf(agreement[a].legs)}
<1>1. SeatedOn(r) \subseteq L
  BY DEF SeatedOn, LegOn, RunsOf
<1>2. L \in SUBSET {a \in Requests : agreement[a] # NoRow}
  BY DEF ActiveAgreements
<1>3. IsFiniteSet(L)
  BY <1>2, FS_Subset DEF FiniteRows
<1>4. Load(r) = Cardinality(L)
  BY DEF Load
<1>5. QED
  BY <1>1, <1>3, <1>4, FS_CardinalityType

\* The seats of a run are enough for the roster of its trip, because the plan
\* is sound.
LEMMA RidersHaveSeats ==
    TablesTyped /\ FiniteRows /\ RowsBelong /\ RunsFit /\ SeatsFit /\ RidersSeated => RidersFit
<1> SUFFICES ASSUME TablesTyped, FiniteRows, RowsBelong, RunsFit, SeatsFit, RidersSeated,
                    NEW t \in OpenTrips
             PROVE  /\ Cardinality(DOMAIN passenger[t]) <= vehicle[run[trip[t].run].vehicle].capacity
                    /\ \A a \in DOMAIN passenger[t] :
                         a \in ActiveAgreements /\ LegOn(a, trip[t].run).run = trip[t].run
  BY DEF RidersFit
<1>1. PICK r : r = trip[t].run
  OBVIOUS
<1>2. DOMAIN passenger[t] \subseteq SeatedOn(r)
  BY <1>1 DEF RidersSeated
<1>3. DOMAIN passenger[t] # {} /\ t \in Requests
  BY DEF TablesTyped, TripsTyped, OpenTrips, Trips
<1>4. r \in ActiveRuns
  <2>1. PICK a \in DOMAIN passenger[t] : TRUE
    BY <1>3
  <2>2. /\ a \in ActiveAgreements /\ run[r].direction \in DOMAIN agreement[a].legs
        /\ agreement[a].legs[run[r].direction].run = r
    BY <1>2 DEF SeatedOn, LegOn
  <2>3. QED
    BY <2>2 DEF SeatsFit
<1>5. vehicle[run[r].vehicle].capacity \in Nat
  <2>1. run[r] \in RunRow
    BY <1>4 DEF ActiveRuns, TablesTyped, PlanTyped
  <2>2. vehicle[run[r].vehicle].active /\ Load(r) <= vehicle[run[r].vehicle].capacity
    BY <1>4 DEF RunsFit
  <2>3. vehicle[run[r].vehicle] # NoRow
    BY <1>4 DEF ActiveRuns, RowsBelong
  <2>4. QED
    BY <2>1, <2>3 DEF RunRow, VehicleRow, TablesTyped, PlanTyped
<1>6. Cardinality(DOMAIN passenger[t]) <= Load(r)
  <2> DEFINE L == {a \in ActiveAgreements : r \in RunsOf(agreement[a].legs)}
  <2>1. DOMAIN passenger[t] \subseteq L /\ IsFiniteSet(L) /\ Load(r) = Cardinality(L)
    BY <1>2, SeatedLoad DEF Load
  <2> HIDE DEF L
  <2>2. QED
    BY <2>1, FS_Subset
<1>7. IsFiniteSet(DOMAIN passenger[t])
  <2>1. IsFiniteSet(SeatedOn(r))
    BY SeatedLoad, FS_Subset
  <2>2. QED
    BY <1>2, <2>1, FS_Subset
<1>8. Cardinality(DOMAIN passenger[t]) <= vehicle[run[r].vehicle].capacity
  <2>1. Load(r) <= vehicle[run[r].vehicle].capacity
    BY <1>4 DEF RunsFit
  <2>2. Load(r) \in Nat /\ Cardinality(DOMAIN passenger[t]) \in Nat
    BY <1>7, SeatedLoad, FS_CardinalityType
  <2>3. QED
    BY <1>5, <1>6, <2>1, <2>2
<1>9. QED
  BY <1>1, <1>2, <1>8 DEF SeatedOn

LEMMA RidersHaveSeatsNext ==
    ASSUME TablesTyped', FiniteRows', RowsBelong', RunsFit', SeatsFit', RidersSeated'
    PROVE  RidersFit'
  BY RidersHaveSeats, PTL

-----------------------------------------------------------------------------
(* The commits. *)

\* A session that writes, and its command.
AtCommit(s, c) ==
    /\ c = cmd[s] /\ c \in Commands /\ CommandFits(c)
    /\ SchoolLock \in held[s] /\ event[c.req] = NoRow
    /\ c.op # "start_trip" => Accepts(s)

LEMMA CommitContext ==
    ASSUME IInv, NEW s \in Sessions, pc[s] = "commit"
    PROVE  /\ \E c \in Commands : AtCommit(s, c)
           /\ pc[s] \in Working
           /\ TablesTyped /\ PlanTyped /\ TripsTyped /\ WorldTyped /\ TripsPast
           /\ FiniteRows /\ RowsBelong /\ RequestsLogged /\ RidersSeated
           /\ RunsFit /\ SeatsFit /\ OneSeat /\ StopsFit
           /\ OneDispatch /\ RunsKept /\ RidersFit /\ ClosedTrips /\ OneTripADay
           /\ PageFits(s) /\ DecisionStands(s) /\ HoldsLocks(s)
<1>1. SessionInv(s) /\ TablesTyped /\ WorldTyped /\ TripsPast /\ TablesStand
  BY Parts
<1>2. PICK c \in Commands : c = cmd[s]
  BY <1>1 DEF SessionInv, PhaseFits
<1>3. AtCommit(s, c)
  BY <1>1, <1>2, CommandFields
     DEF AtCommit, SessionInv, HoldsLocks, DecisionStands, Working
<1>4. PlanTyped /\ TripsTyped
  BY <1>1 DEF TablesTyped
<1>5. PageFits(s) /\ DecisionStands(s) /\ HoldsLocks(s) /\ pc[s] \in Working
  BY <1>1 DEF SessionInv, Working
<1>6. FiniteRows /\ RowsBelong /\ RequestsLogged /\ RidersSeated /\ PlanConsistent /\ TripsConsistent
  BY <1>1 DEF TablesStand
<1>7. QED
  BY <1>1, <1>3, <1>4, <1>5, <1>6, PlanParts, TripParts

LEMMA LogTyped ==
    ASSUME NEW s \in Sessions, NEW c, AtCommit(s, c), Record(s),
           event \in [Requests -> Commands \cup {NoRow}]
    PROVE  /\ event' \in [Requests -> Commands \cup {NoRow}]
           /\ \A q \in Requests : event'[q] = NoRow => event[q] = NoRow /\ q # c.req
  BY NoTransportRowAssumption DEF AtCommit, Record, CommandFits

\* Everything but the plan is as it was.
LEMMA PlanOnly ==
    ASSUME NEW s \in Sessions, NEW c, AtCommit(s, c), Record(s),
           TripsTyped, RequestsLogged, TripsPast,
           agreement' = agreement, UNCHANGED journeys
    PROVE  /\ TripsTyped' /\ RequestsLogged' /\ TripsPast' /\ RostersGrow
           /\ trip' = trip /\ passenger' = passenger
           /\ Trips' = Trips /\ OpenTrips' = OpenTrips
           /\ ActiveAgreements' = ActiveAgreements
           /\ \A r : Load(r)' = Load(r)
           /\ \A t : StatusesIn(t)' = StatusesIn(t)
           /\ OneSeat => OneSeat'
           /\ OneDispatch => OneDispatch'
           /\ ClosedTrips => ClosedTrips'
           /\ OneTripADay => OneTripADay'
<1>1. trip' = trip /\ passenger' = passenger /\ today' = today
  BY DEF journeys, Record, world
<1>2. /\ event' \in [Requests -> Commands \cup {NoRow}]
      /\ \A q \in Requests : event'[q] = NoRow => event[q] = NoRow /\ q # c.req
  BY LogTyped DEF TripsTyped
<1>3. TripsTyped' /\ RequestsLogged'
  BY <1>1, <1>2 DEF TripsTyped, RequestsLogged
<1>4. Trips' = Trips /\ OpenTrips' = OpenTrips /\ ActiveAgreements' = ActiveAgreements
  BY <1>1 DEF Trips, OpenTrips, ActiveAgreements
<1>5. \A t : StatusesIn(t)' = StatusesIn(t)
  BY <1>1 DEF StatusesIn
<1>6. TripsPast' /\ RostersGrow
  BY <1>1, <1>4 DEF TripsPast, RostersGrow
<1>7. \A r : Load(r)' = Load(r)
  BY <1>4 DEF Load
<1>8. /\ OneSeat => OneSeat'
      /\ OneDispatch => OneDispatch'
      /\ ClosedTrips => ClosedTrips'
      /\ OneTripADay => OneTripADay'
  BY <1>1, <1>4, <1>5 DEF OneSeat, OneDispatch, ClosedTrips, OneTripADay
<1>9. QED
  BY <1>1, <1>3, <1>4, <1>5, <1>6, <1>7, <1>8

\* The parts together.
LEMMA PlanNext ==
    ASSUME IInv, NEW s \in Sessions, pc[s] = "commit", Record(s),
           PlanTyped', TripsTyped', TripsPast', RostersGrow,
           FiniteRows', RowsBelong', RequestsLogged', RidersSeated',
           RunsFit', SeatsFit', OneSeat', StopsFit',
           OneDispatch', RunsKept', ClosedTrips', OneTripADay'
    PROVE  IInv'
<1>1. TablesTyped'
  BY DEF TablesTyped
<1>2. RidersFit'
  BY <1>1, RidersHaveSeatsNext
<1>3. PlanConsistent'
  BY PlanParts, PTL
<1>4. TripsConsistent'
  BY <1>2, TripParts, PTL
<1>5. TablesStand'
  BY <1>3, <1>4 DEF TablesStand
<1>6. pc[s] \in Working
  BY DEF Working
<1>7. QED
  BY <1>1, <1>5, <1>6, CommitKeeps

\* Two runs that overlap do so in both orders.
LEMMA OverlapsBoth ==
    ASSUME NEW a, NEW b
    PROVE  Overlaps(a, b) <=> Overlaps(b, a)
  BY DEF Overlaps

\* The riders keep their seats as long as the runs keep their direction.
LEMMA SeatsStay ==
    ASSUME TripsTyped, RidersSeated, UNCHANGED journeys, agreement' = agreement,
           \A t \in OpenTrips : run'[trip[t].run] = run[trip[t].run]
    PROVE  RidersSeated' /\ (RunsKept => RunsKept')
<1>1. /\ trip' = trip /\ passenger' = passenger /\ Trips' = Trips /\ OpenTrips' = OpenTrips
      /\ ActiveAgreements' = ActiveAgreements /\ \A t : StatusesIn(t)' = StatusesIn(t)
  BY DEF journeys, Trips, OpenTrips, ActiveAgreements, StatusesIn
<1>2. ASSUME NEW t \in OpenTrips
      PROVE  SeatedOn(trip[t].run) \subseteq SeatedOn(trip[t].run)'
  BY <1>1 DEF SeatedOn, LegOn
<1>3. RidersSeated'
  BY <1>1, <1>2 DEF RidersSeated
<1>4. RunsKept => RunsKept'
  BY <1>1 DEF RunsKept
<1>5. QED
  BY <1>3, <1>4

LEMMA CommitVehicleKeeps ==
    ASSUME IInv, NEW s \in Sessions, CommitVehicle(s)
    PROVE  IInv'
<1>0. pc[s] = "commit"
  BY DEF CommitVehicle, Ready
<1>c. /\ TablesTyped /\ PlanTyped /\ TripsTyped /\ TripsPast
      /\ FiniteRows /\ RowsBelong /\ RequestsLogged /\ RidersSeated
      /\ RunsFit /\ SeatsFit /\ OneSeat /\ StopsFit
      /\ OneDispatch /\ RunsKept /\ ClosedTrips /\ OneTripADay
  BY <1>0, CommitContext
<1>1. PICK c \in Commands : AtCommit(s, c)
  BY <1>0, CommitContext
<1>2. /\ c.op \in {"create_vehicle", "update_vehicle"} /\ c = cmd[s]
      /\ vehicle' = [vehicle EXCEPT ![c.vehicle] = c.row]
      /\ route' = route /\ stop' = stop /\ run' = run /\ agreement' = agreement
      /\ UNCHANGED journeys /\ Record(s)
  BY <1>1 DEF CommitVehicle, Ready, AtCommit
<1>3. PICK v \in Vehicles : v = c.vehicle
  BY <1>1, <1>2 DEF AtCommit, CommandFits
<1>4. PICK row \in VehicleRow : row = c.row
  BY <1>1, <1>2 DEF AtCommit, CommandFits
<1>5. /\ vehicle' \in [Vehicles -> VehicleRow \cup {NoRow}] /\ vehicle'[v] = row
      /\ \A w \in Vehicles : w # v => vehicle'[w] = vehicle[w]
  BY <1>c, <1>2, <1>3, <1>4 DEF PlanTyped
<1>6. PlanTyped'
  BY <1>c, <1>2, <1>5 DEF PlanTyped
<1>7. /\ TripsTyped' /\ RequestsLogged' /\ TripsPast' /\ RostersGrow
      /\ \A r : Load(r)' = Load(r)
      /\ OneSeat' /\ OneDispatch' /\ ClosedTrips' /\ OneTripADay'
      /\ ActiveAgreements' = ActiveAgreements
  BY <1>c, <1>1, <1>2, PlanOnly
<1>8. ActiveRuns' = ActiveRuns /\ \A r : ActiveStops(r)' = ActiveStops(r)
  BY <1>2 DEF ActiveRuns, ActiveStops
<1>9. FiniteRows'
  BY <1>c, <1>2 DEF FiniteRows
<1>10. RowsBelong'
  <2>1. row # NoRow
    BY NoTransportRowAssumption
  <2>2. \A r \in Runs : run[r] # NoRow => run[r].vehicle \in Vehicles
    BY <1>c DEF PlanTyped, RunRow
  <2>3. QED
    BY <1>c, <1>2, <1>5, <2>1, <2>2 DEF RowsBelong
<1>11. RidersSeated' /\ RunsKept'
  BY <1>c, <1>2, SeatsStay
<1>12. SeatsFit' /\ StopsFit'
  BY <1>c, <1>2, <1>7, <1>8 DEF SeatsFit, StopsFit
<1>13. RunsFit'
  <2>1. /\ \A r \in ActiveRuns : run[r].vehicle = v => c.op = "update_vehicle"
        /\ c.op = "update_vehicle" => MayUpdateVehicle(v, row)
    <3>1. c.op = "create_vehicle" => vehicle[v] = NoRow
      BY <1>1, <1>2, <1>3 DEF AtCommit, Accepts
    <3>2. \A r \in ActiveRuns : vehicle[run[r].vehicle] # NoRow
      BY <1>c DEF RowsBelong, ActiveRuns
    <3>3. c.op = "update_vehicle" => MayUpdateVehicle(v, row)
      BY <1>1, <1>2, <1>3, <1>4 DEF AtCommit, Accepts
    <3>4. QED
      BY <1>2, <3>1, <3>2, <3>3
  <2>2. ASSUME NEW r \in ActiveRuns, run[r].vehicle = v
        PROVE  /\ row.active /\ Load(r) <= row.capacity
               /\ \A x \in ActiveRuns \ {r} : Overlaps(run[r], run[x]) =>
                    /\ run[x].vehicle # v
                    /\ row.driver # NoRow => vehicle[run[x].vehicle].driver # row.driver
    <3>1. MayUpdateVehicle(v, row)
      BY <2>1, <2>2
    <3>2. row.active /\ Load(r) <= row.capacity /\ Clear(run[r], v, row.driver, {r})
      BY <2>2, <3>1 DEF MayUpdateVehicle
    <3>3. QED
      BY <3>2 DEF Clear
  <2> SUFFICES ASSUME NEW r \in ActiveRuns
               PROVE  /\ route[run[r].route] = "active" /\ vehicle'[run[r].vehicle].active
                      /\ Load(r) <= vehicle'[run[r].vehicle].capacity
                      /\ \A x \in ActiveRuns \ {r} : Overlaps(run[r], run[x]) =>
                           /\ run[x].vehicle # run[r].vehicle
                           /\ vehicle'[run[r].vehicle].driver # NoRow =>
                                vehicle'[run[x].vehicle].driver # vehicle'[run[r].vehicle].driver
    BY <1>2, <1>7, <1>8 DEF RunsFit, Clear, Overlaps
  <2>3. \A x \in ActiveRuns : run[x].vehicle \in Vehicles
    BY <1>c DEF ActiveRuns, PlanTyped, RunRow
  <2>4. /\ route[run[r].route] = "active" /\ vehicle[run[r].vehicle].active
        /\ Load(r) <= vehicle[run[r].vehicle].capacity
        /\ \A x \in ActiveRuns \ {r} : Overlaps(run[r], run[x]) =>
             /\ run[x].vehicle # run[r].vehicle
             /\ vehicle[run[r].vehicle].driver # NoRow =>
                  vehicle[run[x].vehicle].driver # vehicle[run[r].vehicle].driver
    BY <1>c DEF RunsFit, Clear
  <2>5. CASE run[r].vehicle = v
    <3>1. vehicle'[run[r].vehicle] = row
      BY <1>5, <2>5
    <3>2. \A x \in ActiveRuns : run[x].vehicle # v => vehicle'[run[x].vehicle] = vehicle[run[x].vehicle]
      BY <1>5, <2>3
    <3>3. QED
      BY <2>2, <2>4, <2>5, <3>1, <3>2
  <2>6. CASE run[r].vehicle # v
    <3>1. vehicle'[run[r].vehicle] = vehicle[run[r].vehicle]
      BY <1>5, <2>3, <2>6
    <3>2. ASSUME NEW x \in ActiveRuns \ {r}, Overlaps(run[r], run[x]),
                 vehicle[run[r].vehicle].driver # NoRow
          PROVE  vehicle'[run[x].vehicle].driver # vehicle[run[r].vehicle].driver
      <4>1. CASE run[x].vehicle = v
        <5>1. Overlaps(run[x], run[r])
          BY <3>2, OverlapsBoth
        <5>2. row.driver # NoRow => vehicle[run[r].vehicle].driver # row.driver
          BY <2>2, <4>1, <5>1
        <5>3. QED
          BY <1>5, <3>2, <4>1, <5>2
      <4>2. CASE run[x].vehicle # v
        BY <1>5, <2>3, <2>4, <3>2, <4>2
      <4>3. QED
        BY <4>1, <4>2
    <3>3. QED
      BY <2>4, <3>1, <3>2
  <2>7. QED
    BY <2>5, <2>6
<1>14. QED
  BY <1>0, <1>2, <1>6, <1>7, <1>9, <1>10, <1>11, <1>12, <1>13, PlanNext

\* The stops of current agreements stay in service.
LEMMA StopsServe ==
    ASSUME PlanTyped, SeatsFit, run' = run, agreement' = agreement,
           \A x \in Stops : /\ stop[x] # NoRow /\ stop[x].active
                            /\ \E a \in ActiveAgreements : x \in StopsOf(agreement[a].legs)
              => /\ stop'[x] # NoRow /\ stop'[x].active /\ stop'[x].route = stop[x].route
    PROVE  SeatsFit' /\ ActiveRuns' = ActiveRuns
<1>1. ActiveRuns' = ActiveRuns /\ ActiveAgreements' = ActiveAgreements
  BY DEF ActiveRuns, ActiveAgreements
<1>2. ASSUME NEW a \in ActiveAgreements, NEW d \in DOMAIN agreement[a].legs
      PROVE  LET leg == agreement[a].legs[d] IN
             /\ leg.run \in ActiveRuns /\ run[leg.run].direction = d
             /\ leg.stop \in ActiveStops(run[leg.run].route)'
  <2>1. PICK leg : leg = agreement[a].legs[d]
    OBVIOUS
  <2>2. /\ leg.run \in ActiveRuns /\ run[leg.run].direction = d
        /\ leg.stop \in ActiveStops(run[leg.run].route)
    BY <2>1 DEF SeatsFit
  <2>3. leg.stop \in StopsOf(agreement[a].legs)
    BY <2>1 DEF StopsOf
  <2>4. leg.stop \in ActiveStops(run[leg.run].route)'
    BY <2>2, <2>3 DEF ActiveStops
  <2>5. QED
    BY <2>1, <2>2, <2>4
<1>3. QED
  BY <1>1, <1>2 DEF SeatsFit

LEMMA PlacesApart ==
    ASSUME NEW c, PlacesFit(c)
    PROVE  /\ \A x \in DOMAIN c.place : c.place[x] \in Nat \ {0}
           /\ \A x, y \in DOMAIN c.place : c.place[x] = c.place[y] => x = y
<1> DEFINE S == DOMAIN c.place
           n == Cardinality(S)
           f == [x \in S |-> c.place[x]]
<1>1. IsFiniteSet(S) /\ n \in Nat /\ {c.place[x] : x \in S} = 1 .. n
  BY FS_CardinalityType DEF PlacesFit
<1>2. \A x \in S : c.place[x] \in 1 .. n
  BY <1>1
<1>3. f \in Surjection(S, 1 .. n)
  BY <1>1, <1>2 DEF Surjection
<1>4. Cardinality(1 .. n) = n
  <2> HIDE DEF n
  <2>1. 1 \in Int /\ n \in Int
    BY <1>1
  <2>2. Cardinality(1 .. n) = IF 1 > n THEN 0 ELSE n - 1 + 1
    BY <2>1, FS_Interval
  <2>3. QED
    BY <1>1, <2>2
<1>5. f \in Injection(S, 1 .. n)
  <2> HIDE DEF f, S
  <2>1. QED
    BY <1>1, <1>3, <1>4, FS_SurjSameCardinalityImpliesInj
<1>6. \A x, y \in S : c.place[x] = c.place[y] => x = y
  BY <1>5 DEF Injection, IsInjective
<1>7. QED
  BY <1>1, <1>2, <1>6

LEMMA StopsFinite ==
    ASSUME FiniteRows, NEW r
    PROVE  IsFiniteSet(ActiveStops(r)) /\ Cardinality(ActiveStops(r)) \in Nat
<1>1. ActiveStops(r) \in SUBSET {x \in Stops : stop[x] # NoRow}
  BY DEF ActiveStops
<1>2. QED
  BY <1>1, FS_Subset, FS_CardinalityType DEF FiniteRows

LEMMA CommitRouteKeeps ==
    ASSUME IInv, NEW s \in Sessions, CommitRoute(s)
    PROVE  IInv'
<1>0. pc[s] = "commit"
  BY DEF CommitRoute, Ready
<1>c. /\ TablesTyped /\ PlanTyped /\ TripsTyped /\ TripsPast
      /\ FiniteRows /\ RowsBelong /\ RequestsLogged /\ RidersSeated
      /\ RunsFit /\ SeatsFit /\ OneSeat /\ StopsFit
      /\ OneDispatch /\ RunsKept /\ ClosedTrips /\ OneTripADay
  BY <1>0, CommitContext
<1>1. PICK c \in Commands : AtCommit(s, c)
  BY <1>0, CommitContext
<1>2. /\ c.op \in {"create_route", "update_route"} /\ c = cmd[s]
      /\ route' = [route EXCEPT ![c.route] =
                     IF c.op = "create_route" \/ c.active THEN "active" ELSE "archived"]
      /\ stop' = [x \in Stops |->
            IF c.op = "create_route" /\ x \in DOMAIN c.place
            THEN [route |-> c.route, order |-> c.place[x], active |-> TRUE]
            ELSE stop[x]]
      /\ vehicle' = vehicle /\ run' = run /\ agreement' = agreement
      /\ UNCHANGED journeys /\ Record(s)
  BY <1>1 DEF CommitRoute, Ready, AtCommit
<1>3. PICK r \in Routes : r = c.route
  BY <1>1, <1>2 DEF AtCommit, CommandFits
<1>4. /\ TripsTyped' /\ RequestsLogged' /\ TripsPast' /\ RostersGrow
      /\ \A q : Load(q)' = Load(q)
      /\ OneSeat' /\ OneDispatch' /\ ClosedTrips' /\ OneTripADay'
  BY <1>c, <1>1, <1>2, PlanOnly
<1>5. RidersSeated' /\ RunsKept'
  BY <1>c, <1>2, SeatsStay
<1>6. "active" # NoRow /\ "archived" # NoRow /\ "active" # "archived"
  BY NoTransportRowAssumption DEF RouteStatus
<1>7. /\ route' \in [Routes -> RouteStatus \cup {NoRow}] /\ route'[r] # NoRow
      /\ \A q \in Routes : q # r => route'[q] = route[q]
  BY <1>c, <1>2, <1>3, <1>6 DEF PlanTyped, RouteStatus
<1>8. \A q \in ActiveRuns : run[q] # NoRow /\ run[q].route \in Routes
  BY <1>c DEF ActiveRuns, PlanTyped, RunRow
<1>9. CASE c.op = "create_route"
  <2>1. PlacesFit(c)
    BY <1>9, CommandFields
  <2>2. /\ \A x \in DOMAIN c.place : c.place[x] \in Nat \ {0}
        /\ \A x, y \in DOMAIN c.place : c.place[x] = c.place[y] => x = y
    BY <2>1, PlacesApart
  <2>3. route[r] = NoRow /\ \A x \in DOMAIN c.place : stop[x] = NoRow
    BY <1>1, <1>2, <1>3, <1>9 DEF AtCommit, Accepts
  <2>4. /\ \A x \in DOMAIN c.place : stop'[x] = [route |-> r, order |-> c.place[x], active |-> TRUE]
        /\ \A x \in Stops \ DOMAIN c.place : stop'[x] = stop[x]
        /\ DOMAIN c.place \in SUBSET Stops
    BY <1>2, <1>3, <1>9, <2>1 DEF PlacesFit
  <2>p. PICK put : put = DOMAIN c.place
    OBVIOUS
  <2>5. \A x \in put : /\ x \in Stops /\ stop'[x] \in StopRow /\ stop'[x] # NoRow
                       /\ stop'[x].route = r /\ stop'[x].active
                       /\ stop'[x].order = c.place[x]
    <3> SUFFICES ASSUME NEW x \in put
                 PROVE  /\ x \in Stops /\ stop'[x] \in StopRow /\ stop'[x] # NoRow
                        /\ stop'[x].route = r /\ stop'[x].active
                        /\ stop'[x].order = c.place[x]
      OBVIOUS
    <3>1. PICK row : row = [route |-> r, order |-> c.place[x], active |-> TRUE]
      OBVIOUS
    <3>2. x \in Stops /\ stop'[x] = row
      BY <2>4, <2>p, <3>1
    <3>3. c.place[x] \in Nat \ {0}
      BY <2>2, <2>p
    <3>4. row \in StopRow
      BY <3>1, <3>3 DEF StopRow
    <3>5. row # NoRow
      BY <3>4, NoTransportRowAssumption
    <3>6. row.route = r /\ row.active /\ row.order = c.place[x]
      BY <3>1
    <3>7. QED
      BY <3>2, <3>4, <3>5, <3>6
  <2>6. PlanTyped'
    <3>1. stop' \in [Stops -> StopRow \cup {NoRow}]
      <4>1. \A x \in Stops : stop'[x] \in StopRow \cup {NoRow}
        BY <1>c, <2>4, <2>5, <2>p DEF PlanTyped
      <4>2. QED
        BY <1>2, <4>1
    <3>2. QED
      BY <1>c, <1>2, <1>7, <3>1 DEF PlanTyped
  <2>7. FiniteRows'
    <3> DEFINE old == {x \in Stops : stop[x] # NoRow}
               new == {x \in Stops : stop'[x] # NoRow}
               placed == DOMAIN c.place
    <3>1. IsFiniteSet(old) /\ IsFiniteSet(placed)
      BY <1>c, <2>1 DEF FiniteRows, PlacesFit
    <3>2. new \in SUBSET (old \cup placed)
      BY <2>4
    <3>3. IsFiniteSet(new)
      <4> HIDE DEF old, new, placed
      <4>1. IsFiniteSet(old \cup placed)
        BY <3>1, FS_Union
      <4>2. QED
        BY <3>2, <4>1, FS_Subset
    <3>4. QED
      BY <1>c, <1>2, <3>3 DEF FiniteRows
  <2>8. RowsBelong'
    <3>1. \A x \in Stops : stop'[x] # NoRow => route'[stop'[x].route] # NoRow
      <4> SUFFICES ASSUME NEW x \in Stops, stop'[x] # NoRow
                   PROVE  route'[stop'[x].route] # NoRow
        OBVIOUS
      <4>1. CASE x \in DOMAIN c.place
        BY <1>7, <2>5, <2>p, <4>1
      <4>2. CASE x \notin DOMAIN c.place
        <5>1. stop'[x] = stop[x] /\ route[stop[x].route] # NoRow /\ stop[x].route \in Routes
          BY <1>c, <2>4, <4>2 DEF RowsBelong, PlanTyped, StopRow
        <5>2. QED
          BY <1>7, <5>1
      <4>3. QED
        BY <4>1, <4>2
    <3>2. QED
      BY <1>c, <1>2, <3>1 DEF RowsBelong
  <2>9. SeatsFit' /\ ActiveRuns' = ActiveRuns
    BY <1>c, <1>2, <2>3, <2>4, StopsServe
  <2>10. RunsFit'
    <3>1. \A q \in ActiveRuns : route'[run[q].route] = "active"
      BY <1>c, <1>6, <1>7, <1>8, <2>3 DEF RunsFit
    <3>2. QED
      BY <1>c, <1>2, <1>4, <2>9, <3>1 DEF RunsFit, Clear
  <2>11. StopsFit'
    <3> SUFFICES ASSUME NEW q \in Routes
                 PROVE  /\ Cardinality(ActiveStops(q)') <= StopLimit
                        /\ \A x, y \in ActiveStops(q)' : stop'[x].order = stop'[y].order => x = y
      BY DEF StopsFit
    <3>1. CASE q = r
      <4>1. \A x \in Stops : stop[x] # NoRow => stop[x].route # r
        BY <1>c, <2>3 DEF RowsBelong
      <4>2. \A x \in Stops \ put : stop'[x] = stop[x]
        BY <2>4, <2>p
      <4>3. ActiveStops(q)' = put
        BY <2>5, <3>1, <4>1, <4>2 DEF ActiveStops
      <4>4. Cardinality(put) <= StopLimit
        BY <1>9, <2>1, <2>p DEF PlacesFit
      <4>5. \A x, y \in put : stop'[x].order = stop'[y].order => x = y
        BY <2>2, <2>5, <2>p
      <4>6. QED
        BY <4>3, <4>4, <4>5
    <3>2. CASE q # r
      <4>0. /\ \A x \in Stops \ put : stop'[x] = stop[x]
            /\ \A x \in put : stop[x] = NoRow
        BY <2>3, <2>4, <2>p
      <4>1. ActiveStops(q)' = ActiveStops(q)
        BY <2>5, <3>2, <4>0 DEF ActiveStops
      <4>2. \A x \in ActiveStops(q) : stop'[x] = stop[x]
        BY <4>0 DEF ActiveStops
      <4>3. QED
        BY <1>c, <4>1, <4>2 DEF StopsFit
    <3>3. QED
      BY <3>1, <3>2
  <2>12. QED
    BY <1>0, <1>2, <1>4, <1>5, <2>6, <2>7, <2>8, <2>9, <2>10, <2>11, PlanNext
<1>10. CASE c.op = "update_route"
  <2>1. stop' = stop
    BY <1>c, <1>2, <1>10 DEF PlanTyped
  <2>2. PlanTyped' /\ FiniteRows'
    BY <1>c, <1>2, <1>7, <2>1 DEF PlanTyped, FiniteRows
  <2>3. RowsBelong'
    <3>1. \A x \in Stops : stop[x] # NoRow => stop[x].route \in Routes
      BY <1>c DEF PlanTyped, StopRow
    <3>2. QED
      BY <1>c, <1>2, <1>7, <2>1, <3>1 DEF RowsBelong
  <2>4. SeatsFit' /\ ActiveRuns' = ActiveRuns
    BY <1>c, <1>2, <2>1, StopsServe
  <2>5. \A q : ActiveStops(q)' = ActiveStops(q)
    BY <2>1 DEF ActiveStops
  <2>6. StopsFit'
    BY <1>c, <2>1, <2>5 DEF StopsFit
  <2>7. \A q \in ActiveRuns : route'[run[q].route] = "active"
    <3>1. c.active \/ MayArchiveRoute(r)
      BY <1>1, <1>2, <1>3, <1>10 DEF AtCommit, Accepts
    <3>2. CASE c.active
      BY <1>c, <1>2, <1>3, <1>7, <1>8, <3>2 DEF RunsFit, PlanTyped
    <3>3. CASE MayArchiveRoute(r)
      BY <1>c, <1>7, <1>8, <3>3 DEF RunsFit, MayArchiveRoute
    <3>4. QED
      BY <3>1, <3>2, <3>3
  <2>8. RunsFit'
    BY <1>c, <1>2, <1>4, <2>4, <2>7 DEF RunsFit, Clear
  <2>9. QED
    BY <1>0, <1>2, <1>4, <1>5, <2>2, <2>3, <2>4, <2>6, <2>8, PlanNext
<1>11. QED
  BY <1>2, <1>9, <1>10

\* The last place of a route is behind all of its active stops.
LEMMA LastOrders ==
    ASSUME PlanTyped, FiniteRows, NEW r
    PROVE  /\ LastOrder(r) \in Nat
           /\ \A x \in ActiveStops(r) : stop[x].order \in Nat /\ stop[x].order <= LastOrder(r)
<1> DEFINE S == ActiveStops(r)
           f == [x \in S |-> stop[x].order]
           T == {f[x] : x \in S}
           U == T \cup {0}
<1>1. IsFiniteSet(S)
  BY StopsFinite
<1>2. \A x \in S : f[x] = stop[x].order /\ stop[x].order \in Nat
  BY DEF ActiveStops, PlanTyped, StopRow
<1>3. IsFiniteSet(U)
  <2>1. f \in Surjection(S, T)
    <3> HIDE DEF S
    <3>1. QED
      BY DEF Surjection
  <2>2. IsFiniteSet(T)
    <3> HIDE DEF f, S, T
    <3>1. QED
      BY <1>1, <2>1, FS_Surjection
  <2>3. QED
    <3> HIDE DEF T
    <3>1. QED
      BY <2>2, FS_AddElement
<1>4. Naturals(U) /\ U # {}
  BY <1>2 DEF Naturals
<1>5. \E n \in U : \A m \in U : m <= n
  <2> HIDE DEF U
  <2>1. QED
    BY <1>3, <1>4, GreatestNat
<1>6. \A n, m \in U : m <= n => n >= m
  BY <1>2
<1>7. LastOrder(r) = Max(U)
  <2>1. T = {stop[x].order : x \in S}
    BY <1>2
  <2>2. QED
    BY <2>1 DEF LastOrder
<1>8. Max(U) \in U /\ \A m \in U : Max(U) >= m
  <2> HIDE DEF U
  <2>1. PICK n \in U : \A m \in U : n >= m
    BY <1>5, <1>6
  <2>2. QED
    BY <2>1 DEF Max
<1>9. \A n \in U : n \in Nat
  BY <1>2
<1>10. \A x \in S : f[x] \in U
  OBVIOUS
<1>11. QED
  <2> HIDE DEF U, f
  <2>1. LastOrder(r) \in Nat
    BY <1>7, <1>8, <1>9
  <2>2. ASSUME NEW x \in S
        PROVE  stop[x].order \in Nat /\ stop[x].order <= LastOrder(r)
    <3>1. stop[x].order \in U /\ stop[x].order \in Nat
      BY <1>2, <1>10
    <3>2. Max(U) >= stop[x].order
      BY <1>8, <3>1
    <3>3. QED
      BY <1>7, <2>1, <3>1, <3>2
  <2>3. QED
    BY <2>1, <2>2

\* One stop row changes: it comes last on an active route, or it goes out of
\* service when no current agreement uses it.
LEMMA CommitStopKeeps ==
    ASSUME IInv, NEW s \in Sessions, CommitStop(s)
    PROVE  IInv'
<1>0. pc[s] = "commit"
  BY DEF CommitStop, Ready
<1>c. /\ TablesTyped /\ PlanTyped /\ TripsTyped /\ TripsPast
      /\ FiniteRows /\ RowsBelong /\ RequestsLogged /\ RidersSeated
      /\ RunsFit /\ SeatsFit /\ OneSeat /\ StopsFit
      /\ OneDispatch /\ RunsKept /\ ClosedTrips /\ OneTripADay
  BY <1>0, CommitContext
<1>1. PICK c \in Commands : AtCommit(s, c)
  BY <1>0, CommitContext
<1>2. /\ c.op \in {"create_stop", "update_stop"} /\ c = cmd[s]
      /\ stop' = [stop EXCEPT ![c.stop] =
            IF c.op = "create_stop"
            THEN [route |-> c.route, order |-> LastOrder(c.route) + 1, active |-> TRUE]
            ELSE [@ EXCEPT !.active = c.active,
                           !.order = IF c.active /\ ~stop[c.stop].active
                                     THEN LastOrder(stop[c.stop].route) + 1
                                     ELSE stop[c.stop].order]]
      /\ vehicle' = vehicle /\ route' = route /\ run' = run /\ agreement' = agreement
      /\ UNCHANGED journeys /\ Record(s)
  BY <1>1 DEF CommitStop, Ready, AtCommit
<1>3. PICK x \in Stops : x = c.stop
  BY <1>1, <1>2 DEF AtCommit, CommandFits
<1>4. /\ TripsTyped' /\ RequestsLogged' /\ TripsPast' /\ RostersGrow
      /\ \A q : Load(q)' = Load(q)
      /\ OneSeat' /\ OneDispatch' /\ ClosedTrips' /\ OneTripADay'
  BY <1>c, <1>1, <1>2, PlanOnly
<1>5. RidersSeated' /\ RunsKept'
  BY <1>c, <1>2, SeatsStay
<1>6. \A y \in Stops : y # x => stop'[y] = stop[y]
  BY <1>c, <1>2, <1>3 DEF PlanTyped
<1>7. DOMAIN stop' = Stops /\ stop' = [y \in Stops |-> stop'[y]]
  BY <1>c, <1>2 DEF PlanTyped
<1>8. "active" # NoRow
  BY NoTransportRowAssumption DEF RouteStatus
\* it comes last on route r
<1>9. ASSUME NEW r \in Routes, MayAddStop(r), x \notin ActiveStops(r),
             stop[x] # NoRow => ~stop[x].active,
             stop'[x] = [route |-> r, order |-> LastOrder(r) + 1, active |-> TRUE]
      PROVE  IInv'
  <2>1. LastOrder(r) \in Nat /\ \A y \in ActiveStops(r) : stop[y].order \in Nat
                                                           /\ stop[y].order <= LastOrder(r)
    BY <1>c, LastOrders
  <2>2. /\ stop'[x] \in StopRow /\ stop'[x].route = r /\ stop'[x].active
        /\ stop'[x].order = LastOrder(r) + 1
    BY <1>9, <2>1 DEF StopRow
  <2>3. stop'[x] # NoRow
    BY <2>2, NoTransportRowAssumption
  <2>4. PlanTyped'
    <3>1. \A y \in Stops : stop'[y] \in StopRow \cup {NoRow}
      BY <1>c, <1>6, <2>2 DEF PlanTyped
    <3>2. stop' \in [Stops -> StopRow \cup {NoRow}]
      BY <1>7, <3>1
    <3>3. QED
      BY <1>c, <1>2, <3>2 DEF PlanTyped
  <2>5. FiniteRows'
    <3> DEFINE old == {y \in Stops : stop[y] # NoRow}
               new == {y \in Stops : stop'[y] # NoRow}
    <3>1. IsFiniteSet(old) /\ new \in SUBSET (old \cup {x})
      BY <1>c, <1>6 DEF FiniteRows
    <3>2. IsFiniteSet(new)
      <4> HIDE DEF old, new
      <4>1. QED
        BY <3>1, FS_AddElement, FS_Subset
    <3>3. QED
      BY <1>c, <1>2, <3>2 DEF FiniteRows
  <2>6. RowsBelong'
    <3>1. \A y \in Stops : stop'[y] # NoRow => route[stop'[y].route] # NoRow
      <4>1. route[r] # NoRow
        BY <1>8, <1>9 DEF MayAddStop
      <4>2. QED
        BY <1>c, <1>6, <2>2, <4>1 DEF RowsBelong
    <3>2. QED
      BY <1>c, <1>2, <3>1 DEF RowsBelong
  <2>7. SeatsFit' /\ ActiveRuns' = ActiveRuns
    BY <1>c, <1>2, <1>6, <1>9, StopsServe
  <2>8. RunsFit'
    BY <1>c, <1>2, <1>4, <2>7 DEF RunsFit, Clear
  <2>9. StopsFit'
    <3> SUFFICES ASSUME NEW q \in Routes
                 PROVE  /\ Cardinality(ActiveStops(q)') <= StopLimit
                        /\ \A y, z \in ActiveStops(q)' : stop'[y].order = stop'[z].order => y = z
      BY DEF StopsFit
    <3>1. CASE q = r
      <4>1. ActiveStops(q)' = ActiveStops(q) \cup {x}
        BY <1>6, <2>2, <2>3, <3>1 DEF ActiveStops
      <4>2. IsFiniteSet(ActiveStops(q)) /\ Cardinality(ActiveStops(q)) \in Nat
        BY <1>c, StopsFinite
      <4>3. Cardinality(ActiveStops(q)') = Cardinality(ActiveStops(q)) + 1
        BY <1>9, <3>1, <4>1, <4>2, FS_AddElement
      <4>4. Cardinality(ActiveStops(q)) < StopLimit /\ StopLimit \in Nat
        BY <1>9, <3>1, TransportConstantsAssumption DEF MayAddStop
      <4>5. \A y \in ActiveStops(q) : /\ stop'[y] = stop[y] /\ stop[y].order \in Nat
                                      /\ stop[y].order # LastOrder(r) + 1
        BY <1>6, <1>9, <2>1, <3>1 DEF ActiveStops
      <4>6. \A y, z \in ActiveStops(q)' : stop'[y].order = stop'[z].order => y = z
        BY <1>c, <2>2, <4>1, <4>5 DEF StopsFit
      <4>7. QED
        BY <4>2, <4>3, <4>4, <4>6
    <3>2. CASE q # r
      <4>1. ActiveStops(q)' = ActiveStops(q)
        BY <1>6, <1>9, <2>2, <2>3, <3>2 DEF ActiveStops
      <4>2. \A y \in ActiveStops(q) : stop'[y] = stop[y]
        BY <1>6, <1>9 DEF ActiveStops
      <4>3. QED
        BY <1>c, <4>1, <4>2 DEF StopsFit
    <3>3. QED
      BY <3>1, <3>2
  <2>10. QED
    BY <1>0, <1>2, <1>4, <1>5, <2>4, <2>5, <2>6, <2>7, <2>8, <2>9, PlanNext
\* it keeps its place, and perhaps goes out of service
<1>10. ASSUME stop[x] # NoRow, NEW active \in BOOLEAN, stop'[x] = [stop[x] EXCEPT !.active = active],
              active => stop[x].active,
              ~active => \A a \in ActiveAgreements : x \notin StopsOf(agreement[a].legs)
       PROVE  IInv'
  <2>1. stop[x] \in StopRow
    BY <1>c, <1>10 DEF PlanTyped
  <2>2. /\ stop'[x] \in StopRow /\ stop'[x].route = stop[x].route /\ stop'[x].active = active
        /\ stop'[x].order = stop[x].order
    BY <1>10, <2>1 DEF StopRow
  <2>3. stop'[x] # NoRow
    BY <2>2, NoTransportRowAssumption
  <2>4. PlanTyped'
    <3>1. \A y \in Stops : stop'[y] \in StopRow \cup {NoRow}
      BY <1>c, <1>6, <2>2 DEF PlanTyped
    <3>2. stop' \in [Stops -> StopRow \cup {NoRow}]
      BY <1>7, <3>1
    <3>3. QED
      BY <1>c, <1>2, <3>2 DEF PlanTyped
  <2>5. FiniteRows' /\ RowsBelong'
    <3>1. \A y \in Stops : (stop'[y] # NoRow) = (stop[y] # NoRow)
      BY <1>6, <1>10, <2>3
    <3>2. {y \in Stops : stop'[y] # NoRow} = {y \in Stops : stop[y] # NoRow}
      BY <3>1
    <3>3. \A y \in Stops : stop'[y] # NoRow => stop'[y].route = stop[y].route
      BY <1>6, <2>2
    <3>4. QED
      BY <1>c, <1>2, <3>1, <3>2, <3>3 DEF FiniteRows, RowsBelong
  <2>6. SeatsFit' /\ ActiveRuns' = ActiveRuns
    BY <1>c, <1>2, <1>6, <1>10, <2>2, <2>3, StopsServe
  <2>7. RunsFit'
    BY <1>c, <1>2, <1>4, <2>6 DEF RunsFit, Clear
  <2>8. StopsFit'
    <3> SUFFICES ASSUME NEW q \in Routes
                 PROVE  /\ Cardinality(ActiveStops(q)') <= StopLimit
                        /\ \A y, z \in ActiveStops(q)' : stop'[y].order = stop'[z].order => y = z
      BY DEF StopsFit
    <3>1. ActiveStops(q)' \subseteq ActiveStops(q)
      BY <1>6, <1>10, <2>2 DEF ActiveStops
    <3>2. \A y \in Stops : stop[y] # NoRow => stop'[y].order = stop[y].order
      BY <1>6, <2>2
    <3>3. IsFiniteSet(ActiveStops(q)) /\ Cardinality(ActiveStops(q)) \in Nat
      BY <1>c, StopsFinite
    <3>4. Cardinality(ActiveStops(q)') <= Cardinality(ActiveStops(q))
          /\ Cardinality(ActiveStops(q)') \in Nat
      BY <3>1, <3>3, FS_Subset, FS_CardinalityType
    <3>5. Cardinality(ActiveStops(q)) <= StopLimit /\ StopLimit \in Nat
      BY <1>c, TransportConstantsAssumption DEF StopsFit
    <3>6. \A y, z \in ActiveStops(q)' : stop'[y].order = stop'[z].order => y = z
      <4>1. \A y \in ActiveStops(q)' : y \in ActiveStops(q) /\ stop'[y].order = stop[y].order
        <5>1. \A y \in ActiveStops(q) : y \in Stops /\ stop[y] # NoRow
          BY DEF ActiveStops
        <5>2. QED
          BY <3>1, <3>2, <5>1
      <4>2. \A y, z \in ActiveStops(q) : stop[y].order = stop[z].order => y = z
        BY <1>c DEF StopsFit
      <4>3. QED
        BY <4>1, <4>2
    <3>7. QED
      BY <3>3, <3>4, <3>5, <3>6
  <2>9. QED
    BY <1>0, <1>2, <1>4, <1>5, <2>4, <2>5, <2>6, <2>7, <2>8, PlanNext
<1>11. CASE c.op = "create_stop"
  <2>1. PICK r \in Routes : r = c.route
    BY <1>1, <1>11 DEF AtCommit, CommandFits
  <2>2. stop[x] = NoRow /\ MayAddStop(r)
    BY <1>1, <1>3, <1>11, <2>1 DEF AtCommit, Accepts
  <2>3. stop'[x] = [route |-> r, order |-> LastOrder(r) + 1, active |-> TRUE]
    BY <1>c, <1>2, <1>3, <1>11, <2>1 DEF PlanTyped
  <2>4. QED
    BY <1>9, <2>2, <2>3 DEF ActiveStops
<1>12. CASE c.op = "update_stop"
  <2>1. PICK active \in BOOLEAN : active = c.active
    BY <1>1, <1>12 DEF AtCommit, CommandFits
  <2>2. MayUpdateStop(x, active)
    BY <1>1, <1>3, <1>12, <2>1 DEF AtCommit, Accepts
  <2>3. stop[x] # NoRow /\ stop[x] \in StopRow /\ stop[x].route \in Routes /\ stop[x].active \in BOOLEAN
    BY <1>c, <2>2 DEF MayUpdateStop, PlanTyped, StopRow
  <2>4. stop'[x] = [stop[x] EXCEPT !.active = active,
                      !.order = IF active /\ ~stop[x].active
                                THEN LastOrder(stop[x].route) + 1 ELSE stop[x].order]
    BY <1>c, <1>2, <1>3, <1>12, <2>1 DEF PlanTyped
  <2>5. CASE active /\ ~stop[x].active
    <3>1. PICK r \in Routes : r = stop[x].route
      BY <2>3
    <3>2. stop'[x] = [route |-> r, order |-> LastOrder(r) + 1, active |-> TRUE]
      BY <2>3, <2>4, <2>5, <3>1 DEF StopRow
    <3>3. MayAddStop(r) /\ x \notin ActiveStops(r)
      BY <2>2, <2>5, <3>1 DEF MayUpdateStop, ActiveStops
    <3>4. QED
      BY <1>9, <2>5, <3>2, <3>3
  <2>6. CASE ~(active /\ ~stop[x].active)
    <3>1. stop'[x] = [stop[x] EXCEPT !.active = active]
      BY <2>3, <2>4, <2>6 DEF StopRow
    <3>2. QED
      BY <1>10, <2>2, <2>3, <2>6, <3>1 DEF MayUpdateStop
  <2>7. QED
    BY <2>5, <2>6
<1>13. QED
  BY <1>2, <1>11, <1>12

LEMMA CommitOrderKeeps ==
    ASSUME IInv, NEW s \in Sessions, CommitOrder(s)
    PROVE  IInv'
<1>0. pc[s] = "commit"
  BY DEF CommitOrder, Ready
<1>c. /\ TablesTyped /\ PlanTyped /\ TripsTyped /\ TripsPast
      /\ FiniteRows /\ RowsBelong /\ RequestsLogged /\ RidersSeated
      /\ RunsFit /\ SeatsFit /\ OneSeat /\ StopsFit
      /\ OneDispatch /\ RunsKept /\ ClosedTrips /\ OneTripADay
  BY <1>0, CommitContext
<1>1. PICK c \in Commands : AtCommit(s, c)
  BY <1>0, CommitContext
<1>2. /\ c.op = "reorder_stops" /\ c = cmd[s]
      /\ stop' = [x \in Stops |-> IF x \notin DOMAIN c.place THEN stop[x]
                                  ELSE [stop[x] EXCEPT !.order = c.place[x]]]
      /\ vehicle' = vehicle /\ route' = route /\ run' = run /\ agreement' = agreement
      /\ UNCHANGED journeys /\ Record(s)
  BY <1>1 DEF CommitOrder, Ready, AtCommit
<1>3. PICK r \in Routes : r = c.route
  BY <1>1, <1>2 DEF AtCommit, CommandFits
<1>4. /\ TripsTyped' /\ RequestsLogged' /\ TripsPast' /\ RostersGrow
      /\ \A q : Load(q)' = Load(q)
      /\ OneSeat' /\ OneDispatch' /\ ClosedTrips' /\ OneTripADay'
  BY <1>c, <1>1, <1>2, PlanOnly
<1>5. RidersSeated' /\ RunsKept'
  BY <1>c, <1>2, SeatsStay
<1>6. DOMAIN c.place = ActiveStops(r)
  BY <1>1, <1>2, <1>3 DEF AtCommit, Accepts
<1>7. /\ \A x \in DOMAIN c.place : c.place[x] \in Nat \ {0}
      /\ \A x, y \in DOMAIN c.place : c.place[x] = c.place[y] => x = y
  BY <1>1, <1>2, CommandFields, PlacesApart DEF AtCommit
<1>8. ASSUME NEW x \in ActiveStops(r)
      PROVE  /\ stop'[x] \in StopRow /\ stop'[x] # NoRow /\ stop[x] # NoRow
             /\ stop'[x].route = stop[x].route /\ stop'[x].active = stop[x].active
             /\ stop'[x].order = c.place[x] /\ stop[x].route = r
  <2>1. x \in Stops /\ stop[x] \in StopRow /\ stop[x] # NoRow /\ stop[x].route = r
    BY <1>c DEF ActiveStops, PlanTyped
  <2>2. c.place[x] \in Nat \ {0} /\ stop'[x] = [stop[x] EXCEPT !.order = c.place[x]]
    BY <1>2, <1>6, <1>7, <2>1
  <2>3. /\ stop'[x] \in StopRow /\ stop'[x].route = stop[x].route
        /\ stop'[x].active = stop[x].active /\ stop'[x].order = c.place[x]
    BY <2>1, <2>2 DEF StopRow
  <2>4. stop'[x] # NoRow
    BY <2>3, NoTransportRowAssumption
  <2>5. QED
    BY <2>1, <2>3, <2>4
<1>9. \A x \in Stops : x \notin ActiveStops(r) => stop'[x] = stop[x]
  BY <1>2, <1>6
<1>10. \A x \in Stops : /\ stop'[x] \in StopRow \cup {NoRow}
                        /\ (stop'[x] # NoRow) = (stop[x] # NoRow)
                        /\ stop[x] # NoRow => /\ stop'[x].route = stop[x].route
                                              /\ stop'[x].active = stop[x].active
  <2> SUFFICES ASSUME NEW x \in Stops
               PROVE  /\ stop'[x] \in StopRow \cup {NoRow}
                      /\ (stop'[x] # NoRow) = (stop[x] # NoRow)
                      /\ stop[x] # NoRow => /\ stop'[x].route = stop[x].route
                                            /\ stop'[x].active = stop[x].active
    OBVIOUS
  <2>1. CASE x \in ActiveStops(r)
    BY <1>8, <2>1
  <2>2. CASE x \notin ActiveStops(r)
    BY <1>c, <1>9, <2>2 DEF PlanTyped
  <2>3. QED
    BY <2>1, <2>2
<1>11. PlanTyped'
  <2>1. stop' \in [Stops -> StopRow \cup {NoRow}]
    BY <1>2, <1>10
  <2>2. QED
    BY <1>c, <1>2, <2>1 DEF PlanTyped
<1>12. FiniteRows' /\ RowsBelong'
  <2>1. {x \in Stops : stop'[x] # NoRow} = {x \in Stops : stop[x] # NoRow}
    BY <1>10
  <2>2. QED
    BY ZenonT(30), <1>c, <1>2, <1>10, <2>1 DEF FiniteRows, RowsBelong
<1>13. SeatsFit' /\ ActiveRuns' = ActiveRuns
  <2>1. \A x \in Stops : /\ stop[x] # NoRow /\ stop[x].active
                         /\ \E a \in ActiveAgreements : x \in StopsOf(agreement[a].legs)
           => /\ stop'[x] # NoRow /\ stop'[x].active /\ stop'[x].route = stop[x].route
    BY <1>10
  <2>2. QED
    BY <1>c, <1>2, <2>1, StopsServe
<1>14. RunsFit'
  BY <1>c, <1>2, <1>4, <1>13 DEF RunsFit, Clear
<1>15. StopsFit'
  <2> SUFFICES ASSUME NEW q \in Routes
               PROVE  /\ Cardinality(ActiveStops(q)') <= StopLimit
                      /\ \A x, y \in ActiveStops(q)' : stop'[x].order = stop'[y].order => x = y
    BY DEF StopsFit
  <2>1. ActiveStops(q)' = ActiveStops(q)
    BY <1>10 DEF ActiveStops
  <2>2. Cardinality(ActiveStops(q)') <= StopLimit
    BY <1>c, <2>1 DEF StopsFit
  <2>3. \A x, y \in ActiveStops(q) : stop'[x].order = stop'[y].order => x = y
    <3>1. CASE q = r
      BY <1>6, <1>7, <1>8, <3>1
    <3>2. CASE q # r
      <4>1. \A x \in ActiveStops(q) : stop'[x] = stop[x]
        BY <1>8, <1>9, <3>2 DEF ActiveStops
      <4>2. QED
        BY <1>c, <4>1 DEF StopsFit
    <3>3. QED
      BY <3>1, <3>2
  <2>4. QED
    BY <2>1, <2>2, <2>3
<1>16. QED
  BY <1>0, <1>2, <1>4, <1>5, <1>11, <1>12, <1>13, <1>14, <1>15, PlanNext

\* A run is new or edited; what is reserved on it still fits.
LEMMA CommitRunKeeps ==
    ASSUME IInv, NEW s \in Sessions, CommitRun(s)
    PROVE  IInv'
<1>0. pc[s] = "commit"
  BY DEF CommitRun, Ready
<1>c. /\ TablesTyped /\ PlanTyped /\ TripsTyped /\ TripsPast
      /\ FiniteRows /\ RowsBelong /\ RequestsLogged /\ RidersSeated
      /\ RunsFit /\ SeatsFit /\ OneSeat /\ StopsFit
      /\ OneDispatch /\ RunsKept /\ ClosedTrips /\ OneTripADay
  BY <1>0, CommitContext
<1>1. PICK c \in Commands : AtCommit(s, c)
  BY <1>0, CommitContext
<1>2. /\ c.op \in {"create_run", "update_run"} /\ c = cmd[s]
      /\ run' = [run EXCEPT ![c.run] = c.row]
      /\ vehicle' = vehicle /\ route' = route /\ stop' = stop /\ agreement' = agreement
      /\ UNCHANGED journeys /\ Record(s)
  BY <1>1 DEF CommitRun, Ready, AtCommit
<1>3. PICK r \in Runs : r = c.run
  BY <1>1, <1>2 DEF AtCommit, CommandFits
<1>4. PICK row \in RunRow : row = c.row
  BY <1>1, <1>2 DEF AtCommit, CommandFits
<1>5. MayPlan(row, r)
  BY <1>1, <1>2, <1>3, <1>4 DEF AtCommit, Accepts
<1>6. /\ TripsTyped' /\ RequestsLogged' /\ TripsPast' /\ RostersGrow
      /\ \A q : Load(q)' = Load(q)
      /\ OneSeat' /\ OneDispatch' /\ ClosedTrips' /\ OneTripADay'
      /\ ActiveAgreements' = ActiveAgreements
  BY <1>c, <1>1, <1>2, PlanOnly
<1>7. /\ run' \in [Runs -> RunRow \cup {NoRow}] /\ run'[r] = row
      /\ \A q \in Runs : q # r => run'[q] = run[q]
  BY <1>c, <1>2, <1>3, <1>4 DEF PlanTyped
<1>8. row # NoRow
  BY NoTransportRowAssumption
<1>9. PlanTyped' /\ FiniteRows'
  BY <1>c, <1>2, <1>7 DEF PlanTyped, FiniteRows
<1>10. RowsBelong'
  <2>1. vehicle[row.vehicle] # NoRow
    BY <1>5 DEF MayPlan
  <2>2. QED
    BY <1>c, <1>2, <1>7, <2>1 DEF RowsBelong
<1>11. RidersSeated' /\ RunsKept'
  <2>1. \A t \in OpenTrips : run'[trip[t].run] = run[trip[t].run]
    <3>1. \A t \in OpenTrips : trip[t].run # r /\ trip[t].run \in Runs
      BY <1>c, <1>5 DEF MayPlan, TripsTyped, TripRow, OpenTrips, Trips
    <3>2. QED
      BY <1>7, <3>1
  <2>2. QED
    BY <1>c, <1>2, <2>1, SeatsStay
<1>12. \A q : ActiveStops(q)' = ActiveStops(q)
  BY <1>2 DEF ActiveStops
<1>13. StopsFit'
  BY <1>c, <1>2, <1>12 DEF StopsFit
<1>14. /\ ActiveRuns' \subseteq ActiveRuns \cup {r}
       /\ \A q \in ActiveRuns' : q # r => q \in ActiveRuns /\ run'[q] = run[q]
       /\ \A q \in ActiveRuns : q # r => q \in ActiveRuns'
       /\ r \in ActiveRuns' <=> row.active
  BY <1>7, <1>8 DEF ActiveRuns
<1>15. SeatsFit'
  <2> SUFFICES ASSUME NEW a \in ActiveAgreements, NEW d \in DOMAIN agreement[a].legs
               PROVE  LET leg == agreement[a].legs[d] IN
                      /\ leg.run \in ActiveRuns' /\ run'[leg.run].direction = d
                      /\ leg.stop \in ActiveStops(run[leg.run].route)'
    BY <1>2, <1>6 DEF SeatsFit
  <2>1. PICK leg : leg = agreement[a].legs[d]
    OBVIOUS
  <2>2. /\ leg.run \in ActiveRuns /\ run[leg.run].direction = d
        /\ leg.stop \in ActiveStops(run[leg.run].route)
    BY <1>c, <2>1 DEF SeatsFit
  <2>3. CASE leg.run # r
    <3>1. leg.run \in ActiveRuns' /\ run'[leg.run] = run[leg.run]
      BY <1>7, <1>14, <2>2, <2>3 DEF ActiveRuns
    <3>2. /\ agreement'[a].legs[d] = leg /\ stop' = stop
      BY <1>2, <2>1
    <3>3. QED
      BY <2>1, <2>2, <3>1, <3>2 DEF ActiveStops
  <2>4. CASE leg.run = r
    <3> DEFINE L == {b \in ActiveAgreements : r \in RunsOf(agreement[b].legs)}
    <3>1. a \in L
      BY <2>1, <2>4 DEF RunsOf
    <3>2. IsFiniteSet(L) /\ Load(r) = Cardinality(L) /\ Load(r) \in Nat
      BY <1>c, SeatedLoad DEF Load
    <3>3. Load(r) > 0
      <4> HIDE DEF L
      <4>1. Cardinality(L) # 0
        BY <3>1, <3>2, FS_EmptySet
      <4>2. QED
        BY <3>2, <4>1
    <3>4. row.active /\ row.route = run[r].route /\ row.direction = run[r].direction
      BY <1>5, <3>3 DEF MayPlan
    <3>5. leg.run \in ActiveRuns' /\ run'[leg.run] = row
      BY <1>7, <1>14, <2>4, <3>4
    <3>6. /\ agreement'[a].legs[d] = leg /\ stop' = stop
      BY <1>2, <2>1
    <3>7. QED
      BY <2>1, <2>2, <2>4, <3>4, <3>5, <3>6 DEF ActiveStops
  <2>5. QED
    BY <2>3, <2>4
<1>16. RunsFit'
  <2>1. row.active => /\ route[row.route] = "active" /\ vehicle[row.vehicle].active
                      /\ Load(r) <= vehicle[row.vehicle].capacity
                      /\ \A x \in ActiveRuns \ {r} : Overlaps(row, run[x]) =>
                           /\ run[x].vehicle # row.vehicle
                           /\ vehicle[row.vehicle].driver # NoRow =>
                                vehicle[run[x].vehicle].driver # vehicle[row.vehicle].driver
    BY <1>5 DEF MayPlan, Clear
  <2>2. \A q \in ActiveRuns :
           /\ route[run[q].route] = "active" /\ vehicle[run[q].vehicle].active
           /\ Load(q) <= vehicle[run[q].vehicle].capacity
           /\ \A x \in ActiveRuns \ {q} : Overlaps(run[q], run[x]) =>
                /\ run[x].vehicle # run[q].vehicle
                /\ vehicle[run[q].vehicle].driver # NoRow =>
                     vehicle[run[x].vehicle].driver # vehicle[run[q].vehicle].driver
    BY <1>c DEF RunsFit, Clear
  <2> SUFFICES ASSUME NEW q \in ActiveRuns'
               PROVE  /\ route[run'[q].route] = "active" /\ vehicle[run'[q].vehicle].active
                      /\ Load(q) <= vehicle[run'[q].vehicle].capacity
                      /\ \A x \in ActiveRuns' \ {q} : Overlaps(run'[q], run'[x]) =>
                           /\ run'[x].vehicle # run'[q].vehicle
                           /\ vehicle[run'[q].vehicle].driver # NoRow =>
                                vehicle[run'[x].vehicle].driver # vehicle[run'[q].vehicle].driver
    BY <1>2, <1>6 DEF RunsFit, Clear, Overlaps
  <2>3. CASE q = r
    BY <1>7, <1>14, <2>1, <2>3
  <2>4. CASE q # r
    <3>1. q \in ActiveRuns /\ run'[q] = run[q]
      BY <1>14, <2>4
    <3>2. ASSUME NEW x \in ActiveRuns' \ {q}, Overlaps(run'[q], run'[x])
          PROVE  /\ run'[x].vehicle # run'[q].vehicle
                 /\ vehicle[run'[q].vehicle].driver # NoRow =>
                      vehicle[run'[x].vehicle].driver # vehicle[run'[q].vehicle].driver
      <4>1. CASE x = r
        <5>1. row.active /\ run'[x] = row
          BY <1>7, <1>14, <4>1
        <5>2. Overlaps(row, run[q])
          BY <3>1, <3>2, <5>1, OverlapsBoth
        <5>3. QED
          BY <2>1, <2>4, <3>1, <5>1, <5>2
      <4>2. CASE x # r
        BY <1>14, <2>2, <3>1, <3>2, <4>2
      <4>3. QED
        BY <4>1, <4>2
    <3>3. QED
      BY <2>2, <3>1, <3>2
  <2>5. QED
    BY <2>3, <2>4
<1>17. QED
  BY <1>0, <1>2, <1>6, <1>9, <1>10, <1>11, <1>13, <1>15, <1>16, PlanNext

\* A request id that is not in the log has made nothing.
LEMMA NewRequest ==
    ASSUME NEW s \in Sessions, NEW c, AtCommit(s, c), RequestsLogged, TripsTyped
    PROVE  c.req \in Requests /\ agreement[c.req] = NoRow /\ trip[c.req] = NoRow
           /\ DOMAIN passenger[c.req] = {}
<1>1. c.req \in Requests /\ event[c.req] = NoRow /\ FirstAgreements[c.req] = NoRow
  BY NewRequestsAssumption DEF AtCommit, CommandFits
<1>2. trip[c.req] = NoRow /\ agreement[c.req] = NoRow
  BY <1>1 DEF RequestsLogged
<1>3. QED
  BY <1>1, <1>2 DEF TripsTyped

\* What assign, change_assignment and end_assignment do: the current agreements
\* in ending end, and with adding the one of the request begins.
AgreementsBecome(c, ending, adding) ==
    /\ ending \subseteq ActiveAgreements /\ c.req \in Requests /\ agreement[c.req] = NoRow
    /\ agreement' \in [Requests -> AgreementRow \cup {NoRow}]
    /\ \A a \in Requests \ ending : a # c.req => agreement'[a] = agreement[a]
    /\ \A a \in ending : agreement'[a] # NoRow /\ ~agreement'[a].active
    /\ IF adding THEN /\ agreement'[c.req] # NoRow /\ agreement'[c.req].active
                      /\ agreement'[c.req].student = c.student
                      /\ agreement'[c.req].legs = c.legs
       ELSE agreement'[c.req] = NoRow
    /\ \A a \in ending : \A t \in OpenTrips : a \notin DOMAIN passenger[t]
    /\ adding => c.op \in {"assign", "change_assignment"} /\ MayAssign(c.student, c.legs, ending)

LEMMA AgreementsChange ==
    ASSUME IInv, NEW s \in Sessions, CommitAgreement(s), NEW c, AtCommit(s, c)
    PROVE  \E ending : \E adding \in BOOLEAN : AgreementsBecome(c, ending, adding)
<1>0. pc[s] = "commit"
  BY DEF CommitAgreement, Ready
<1>c. PlanTyped /\ TripsTyped /\ RequestsLogged
  BY <1>0, CommitContext
<1>1. /\ c.op \in {"assign", "change_assignment", "end_assignment"} /\ c = cmd[s] /\ Accepts(s)
      /\ agreement' = [a \in Requests |->
            CASE c.op # "end_assignment" /\ a = c.req -> NewAgreement(c)
              [] c.op # "assign" /\ a = c.agreement -> [agreement[a] EXCEPT !.active = FALSE]
              [] OTHER -> agreement[a]]
  BY DEF CommitAgreement, Ready, AtCommit
<1>2. c.req \in Requests /\ agreement[c.req] = NoRow
  BY <1>c, NewRequest
<1>3. PICK row : row = NewAgreement(c)
  OBVIOUS
<1>4. c.op # "end_assignment" =>
        /\ row \in AgreementRow /\ row # NoRow /\ row.active
        /\ row.student = c.student /\ row.legs = c.legs
  <2> SUFFICES ASSUME c.op # "end_assignment"
               PROVE  /\ row \in AgreementRow /\ row # NoRow /\ row.active
                      /\ row.student = c.student /\ row.legs = c.legs
    OBVIOUS
  <2>1. c.student \in Students /\ c.legs \in Legs
    BY <1>1 DEF AtCommit, CommandFits
  <2>2. row \in AgreementRow /\ row.active /\ row.student = c.student /\ row.legs = c.legs
    BY <1>3, <2>1 DEF NewAgreement, AgreementRow
  <2>3. row # NoRow
    BY <2>2, NoTransportRowAssumption
  <2>4. QED
    BY <2>2, <2>3
<1>5. \A a \in ActiveAgreements :
         /\ a \in Requests /\ a # c.req
         /\ [agreement[a] EXCEPT !.active = FALSE] \in AgreementRow
         /\ [agreement[a] EXCEPT !.active = FALSE] # NoRow
         /\ ~[agreement[a] EXCEPT !.active = FALSE].active
  <2> SUFFICES ASSUME NEW a \in ActiveAgreements
               PROVE  /\ a \in Requests /\ a # c.req
                      /\ [agreement[a] EXCEPT !.active = FALSE] \in AgreementRow
                      /\ [agreement[a] EXCEPT !.active = FALSE] # NoRow
                      /\ ~[agreement[a] EXCEPT !.active = FALSE].active
    OBVIOUS
  <2>1. a \in Requests /\ a # c.req /\ agreement[a] \in AgreementRow
    BY <1>c, <1>2 DEF ActiveAgreements, PlanTyped
  <2>2. PICK old \in AgreementRow : old = agreement[a]
    BY <2>1
  <2>3. PICK new : new = [old EXCEPT !.active = FALSE]
    OBVIOUS
  <2>4. new \in AgreementRow /\ ~new.active
    BY <2>3 DEF AgreementRow
  <2>5. new # NoRow
    BY <2>4, NoTransportRowAssumption
  <2>6. QED
    BY <2>1, <2>2, <2>3, <2>4, <2>5
<1>6. CASE c.op = "assign"
  <2>1. MayAssign(c.student, c.legs, {})
    BY <1>1, <1>6 DEF Accepts
  <2>2. agreement'[c.req] = row /\ \A a \in Requests : a # c.req => agreement'[a] = agreement[a]
    BY <1>1, <1>2, <1>3, <1>6
  <2>3. agreement' \in [Requests -> AgreementRow \cup {NoRow}]
    <3>1. \A a \in Requests : agreement'[a] \in AgreementRow \cup {NoRow}
      BY <1>c, <1>4, <1>6, <2>2 DEF PlanTyped
    <3>2. QED
      BY <1>1, <3>1
  <2>4. AgreementsBecome(c, {}, TRUE)
    BY <1>2, <1>4, <1>6, <2>1, <2>2, <2>3 DEF AgreementsBecome
  <2>5. QED
    BY <2>4
<1>7. CASE c.op = "change_assignment"
  <2>1. MayEnd(c.agreement) /\ MayAssign(c.student, c.legs, {c.agreement})
    BY <1>1, <1>7 DEF Accepts
  <2>2. PICK b \in ActiveAgreements : b = c.agreement
    BY <2>1 DEF MayEnd
  <2>3. /\ agreement'[c.req] = row /\ agreement'[b] = [agreement[b] EXCEPT !.active = FALSE]
        /\ \A a \in Requests \ {b} : a # c.req => agreement'[a] = agreement[a]
    BY <1>1, <1>2, <1>3, <1>5, <1>7, <2>2
  <2>4. agreement' \in [Requests -> AgreementRow \cup {NoRow}]
    <3>1. \A a \in Requests : agreement'[a] \in AgreementRow \cup {NoRow}
      BY <1>c, <1>4, <1>5, <1>7, <2>3 DEF PlanTyped
    <3>2. QED
      BY <1>1, <3>1
  <2>e. /\ agreement'[b] # NoRow /\ ~agreement'[b].active
        /\ \A t \in OpenTrips : b \notin DOMAIN passenger[t]
    BY <1>5, <2>1, <2>2, <2>3 DEF MayEnd
  <2>5. AgreementsBecome(c, {b}, TRUE)
    BY <1>2, <1>4, <1>7, <2>1, <2>2, <2>3, <2>4, <2>e DEF AgreementsBecome
  <2>6. QED
    BY <2>5
<1>8. CASE c.op = "end_assignment"
  <2>1. MayEnd(c.agreement)
    BY <1>1, <1>8 DEF Accepts
  <2>2. PICK b \in ActiveAgreements : b = c.agreement
    BY <2>1 DEF MayEnd
  <2>3. /\ agreement'[b] = [agreement[b] EXCEPT !.active = FALSE]
        /\ \A a \in Requests \ {b} : agreement'[a] = agreement[a]
    BY <1>1, <1>5, <1>8, <2>2
  <2>4. agreement' \in [Requests -> AgreementRow \cup {NoRow}]
    <3>1. \A a \in Requests : agreement'[a] \in AgreementRow \cup {NoRow}
      BY <1>c, <1>5, <2>3 DEF PlanTyped
    <3>2. QED
      BY <1>1, <3>1
  <2>e. /\ agreement'[b] # NoRow /\ ~agreement'[b].active /\ agreement'[c.req] = NoRow
        /\ \A t \in OpenTrips : b \notin DOMAIN passenger[t]
    BY <1>2, <1>5, <2>1, <2>2, <2>3 DEF MayEnd
  <2>5. AgreementsBecome(c, {b}, FALSE)
    BY <1>2, <2>2, <2>3, <2>4, <2>e DEF AgreementsBecome
  <2>6. QED
    BY <2>5
<1>9. QED
  BY <1>1, <1>6, <1>7, <1>8

LEMMA CommitAgreementKeeps ==
    ASSUME IInv, NEW s \in Sessions, CommitAgreement(s)
    PROVE  IInv'
<1>0. pc[s] = "commit"
  BY DEF CommitAgreement, Ready
<1>c. /\ TablesTyped /\ PlanTyped /\ TripsTyped /\ TripsPast
      /\ FiniteRows /\ RowsBelong /\ RequestsLogged /\ RidersSeated
      /\ RunsFit /\ SeatsFit /\ OneSeat /\ StopsFit
      /\ OneDispatch /\ RunsKept /\ ClosedTrips /\ OneTripADay
  BY <1>0, CommitContext
<1>1. PICK c \in Commands : AtCommit(s, c)
  BY <1>0, CommitContext
<1>2. /\ vehicle' = vehicle /\ route' = route /\ stop' = stop /\ run' = run
      /\ trip' = trip /\ passenger' = passenger /\ Record(s) /\ today' = today
  BY DEF CommitAgreement, planning, journeys, Record, world
<1>3. PICK ending : \E adding \in BOOLEAN : AgreementsBecome(c, ending, adding)
  BY <1>1, AgreementsChange
<1>a. PICK adding \in BOOLEAN : AgreementsBecome(c, ending, adding)
  BY <1>3
<1>4. PICK q \in Requests : q = c.req
  BY <1>a DEF AgreementsBecome
<1>5. /\ ending \subseteq ActiveAgreements /\ agreement[q] = NoRow
      /\ agreement' \in [Requests -> AgreementRow \cup {NoRow}]
      /\ \A a \in Requests \ ending : a # q => agreement'[a] = agreement[a]
      /\ \A a \in ending : agreement'[a] # NoRow /\ ~agreement'[a].active
      /\ adding => agreement'[q] # NoRow /\ agreement'[q].active
                    /\ agreement'[q].student = c.student /\ agreement'[q].legs = c.legs
      /\ ~adding => agreement'[q] = NoRow
      /\ \A a \in ending : \A t \in OpenTrips : a \notin DOMAIN passenger[t]
      /\ adding => MayAssign(c.student, c.legs, ending)
  BY <1>a, <1>4 DEF AgreementsBecome
<1> DEFINE Rest == ActiveAgreements \ ending
<1>6. /\ q \notin ActiveAgreements /\ ActiveAgreements \subseteq Requests
      /\ \A a \in Rest : a # q /\ agreement'[a] = agreement[a]
  BY <1>5 DEF ActiveAgreements
<1>7. ActiveAgreements' = Rest \cup (IF adding THEN {q} ELSE {})
  <2>1. \A a \in Requests : a \in ActiveAgreements' <=> a \in Rest \/ (adding /\ a = q)
    <3> SUFFICES ASSUME NEW a \in Requests
                 PROVE  (agreement'[a] # NoRow /\ agreement'[a].active)
                          <=> a \in Rest \/ (adding /\ a = q)
      BY DEF ActiveAgreements
    <3>1. CASE a = q
      BY <1>5, <1>6, <3>1
    <3>2. CASE a \in ending
      BY <1>5, <1>6, <3>2
    <3>3. CASE a # q /\ a \notin ending
      BY <1>5, <3>3 DEF ActiveAgreements
    <3>4. QED
      BY <3>1, <3>2, <3>3
  <2>2. ActiveAgreements' \subseteq Requests
    BY DEF ActiveAgreements
  <2>3. QED
    BY <1>6, <2>1, <2>2
<1>8. \A a \in Requests : agreement[a] # NoRow => agreement'[a] # NoRow
  BY <1>5
<1>9. \A a \in Requests : agreement'[a] # NoRow => agreement[a] # NoRow \/ a = q
  BY <1>5 DEF ActiveAgreements
<1>10. PlanTyped'
  BY <1>c, <1>2, <1>5 DEF PlanTyped
<1>11. /\ event' \in [Requests -> Commands \cup {NoRow}]
       /\ \A x \in Requests : event'[x] = NoRow => event[x] = NoRow /\ x # q
  BY <1>c, <1>1, <1>2, <1>4, LogTyped DEF TripsTyped
<1>12. TripsTyped'
  BY <1>c, <1>2, <1>8, <1>11 DEF TripsTyped
<1>13. RequestsLogged'
  BY <1>c, <1>2, <1>9, <1>11 DEF RequestsLogged
<1>14. TripsPast' /\ RostersGrow /\ RowsBelong'
  BY <1>c, <1>2 DEF TripsPast, Trips, RostersGrow, RowsBelong
<1>15. FiniteRows'
  <2> DEFINE old == {a \in Requests : agreement[a] # NoRow}
             new == {a \in Requests : agreement'[a] # NoRow}
  <2>1. IsFiniteSet(old) /\ new \in SUBSET (old \cup {q})
    BY <1>c, <1>9 DEF FiniteRows
  <2>2. IsFiniteSet(new)
    <3> HIDE DEF old, new
    <3>1. QED
      BY <2>1, FS_AddElement, FS_Subset
  <2>3. QED
    BY <1>c, <1>2, <2>2 DEF FiniteRows
<1>16. /\ Trips' = Trips /\ OpenTrips' = OpenTrips
       /\ \A t : StatusesIn(t)' = StatusesIn(t)
       /\ ActiveRuns' = ActiveRuns /\ \A r : ActiveStops(r)' = ActiveStops(r)
  BY <1>2 DEF Trips, OpenTrips, StatusesIn, ActiveRuns, ActiveStops
<1>17. OneDispatch' /\ RunsKept' /\ ClosedTrips' /\ OneTripADay' /\ StopsFit'
  BY <1>c, <1>2, <1>16 DEF OneDispatch, RunsKept, ClosedTrips, OneTripADay, StopsFit
<1>18. RidersSeated'
  <2> SUFFICES ASSUME NEW t \in OpenTrips, NEW a \in DOMAIN passenger[t]
               PROVE  a \in SeatedOn(trip[t].run)'
    BY <1>c, <1>2, <1>16 DEF RidersSeated
  <2>1. a \in SeatedOn(trip[t].run)
    BY <1>c DEF RidersSeated
  <2>2. a \in Rest
    BY <1>5, <2>1 DEF SeatedOn
  <2>3. a \in ActiveAgreements' /\ agreement'[a] = agreement[a]
    BY <1>6, <1>7, <2>2
  <2>4. QED
    BY <1>2, <2>1, <2>3 DEF SeatedOn, LegOn
<1>19. OneSeat'
  <2>1. adding => \A a \in Rest : agreement[a].student # c.student
    BY <1>5 DEF MayAssign
  <2> SUFFICES ASSUME NEW a \in ActiveAgreements', NEW b \in ActiveAgreements',
                      agreement'[b].student = agreement'[a].student
               PROVE  a = b
    BY DEF OneSeat
  <2>2. CASE a \in Rest /\ b \in Rest
    BY <1>c, <1>6, <2>2 DEF OneSeat
  <2>3. CASE ~(a \in Rest /\ b \in Rest)
    BY <1>5, <1>6, <1>7, <2>1, <2>3
  <2>4. QED
    BY <2>2, <2>3
<1>20. SeatsFit'
  <2> SUFFICES ASSUME NEW a \in ActiveAgreements', NEW d \in DOMAIN agreement'[a].legs
               PROVE  LET leg == agreement'[a].legs[d] IN
                      /\ leg.run \in ActiveRuns /\ run[leg.run].direction = d
                      /\ leg.stop \in ActiveStops(run[leg.run].route)
    BY <1>2, <1>16 DEF SeatsFit, ActiveStops
  <2>1. CASE a \in Rest
    BY <1>c, <1>6, <2>1 DEF SeatsFit
  <2>2. CASE adding /\ a = q
    <3>1. MayReserve(c.legs, ending)
      BY <1>5, <2>2 DEF MayAssign
    <3>2. agreement'[a].legs = c.legs /\ d \in DOMAIN c.legs
      BY <1>5, <2>2
    <3>3. c.legs[d].stop \in Stops
      <4>1. c.legs \in Legs
        <5>1. agreement'[a] \in AgreementRow
          BY <1>5, <2>2
        <5>2. QED
          BY <3>2, <5>1 DEF AgreementRow
      <4>2. QED
        BY <3>2, <4>1 DEF Legs
    <3>4. QED
      BY <3>1, <3>2, <3>3 DEF MayReserve, ActiveStops
  <2>3. QED
    BY <1>7, <2>1, <2>2
<1>21. \A r \in ActiveRuns : Load(r)' <= vehicle[run[r].vehicle].capacity
  <2> SUFFICES ASSUME NEW r \in ActiveRuns
               PROVE  Load(r)' <= vehicle[run[r].vehicle].capacity
    OBVIOUS
  <2> DEFINE L == {a \in ActiveAgreements : r \in RunsOf(agreement[a].legs)}
             M == {a \in ActiveAgreements \ ending : r \in RunsOf(agreement[a].legs)}
             N == {a \in ActiveAgreements' : r \in RunsOf(agreement'[a].legs)}
             full == vehicle[run[r].vehicle].capacity
  <2>1. full \in Nat
    <3>1. run[r].vehicle \in Vehicles /\ vehicle[run[r].vehicle] # NoRow
      BY <1>c DEF ActiveRuns, PlanTyped, RunRow, RowsBelong
    <3>2. QED
      BY <1>c, <3>1 DEF PlanTyped, VehicleRow
  <2>2. Load(r)' = Cardinality(N)
    BY DEF Load, RunsOf
  <2>3. IsFiniteSet(L) /\ Cardinality(L) <= full
    BY <1>c, SeatedLoad DEF RunsFit, Load
  <2>4. M \in SUBSET L /\ N \subseteq M \cup {q}
    BY <1>6, <1>7
  <2>5. q \in N => adding /\ r \in RunsOf(c.legs)
    BY <1>5, <1>6, <1>7
  <2>6. adding /\ r \in RunsOf(c.legs) => Cardinality(M) < full
    <3> SUFFICES ASSUME adding, r \in RunsOf(c.legs)
                 PROVE  Cardinality(M) < full
      OBVIOUS
    <3>1. MayReserve(c.legs, ending)
      BY <1>5 DEF MayAssign
    <3>2. PICK d \in DOMAIN c.legs : r = c.legs[d].run
      BY DEF RunsOf
    <3>3. Cardinality({a \in ActiveAgreements \ ending : r \in RunsOf(agreement[a].legs)})
            < vehicle[run[r].vehicle].capacity
      BY <3>1, <3>2 DEF MayReserve
    <3>4. QED
      BY <3>3
  <2>7. IsFiniteSet(M) /\ Cardinality(M) <= Cardinality(L)
        /\ Cardinality(M) \in Nat /\ Cardinality(L) \in Nat
    <3> HIDE DEF M, L
    <3>1. QED
      BY <2>3, <2>4, FS_Subset, FS_CardinalityType
  <2>8. CASE q \notin N
    <3> HIDE DEF M, L, N, full
    <3>1. N \in SUBSET M
      BY <2>4, <2>8
    <3>2. Cardinality(N) <= Cardinality(M) /\ Cardinality(N) \in Nat
      BY <2>7, <3>1, FS_Subset, FS_CardinalityType
    <3>3. QED
      BY <2>1, <2>2, <2>3, <2>7, <3>2 DEF full
  <2>9. CASE q \in N
    <3>1. Cardinality(M) < full
      BY <2>5, <2>6, <2>9
    <3> HIDE DEF M, L, N, full
    <3>2. N \in SUBSET (M \cup {q})
      BY <2>4
    <3>3. IsFiniteSet(M \cup {q}) /\ Cardinality(M \cup {q}) <= Cardinality(M) + 1
          /\ Cardinality(M \cup {q}) \in Nat
      <4>1. IsFiniteSet(M \cup {q})
            /\ Cardinality(M \cup {q}) = IF q \in M THEN Cardinality(M) ELSE Cardinality(M) + 1
        BY <2>7, FS_AddElement
      <4>2. QED
        BY <2>7, <4>1
    <3>4. Cardinality(N) <= Cardinality(M \cup {q}) /\ Cardinality(N) \in Nat
      BY <3>2, <3>3, FS_Subset, FS_CardinalityType
    <3>5. QED
      BY <2>1, <2>2, <2>7, <3>1, <3>3, <3>4 DEF full
  <2>10. QED
    BY <2>8, <2>9
<1>22. RunsFit'
  BY <1>c, <1>2, <1>16, <1>21 DEF RunsFit, Clear
<1>23. QED
  BY <1>0, <1>2, <1>10, <1>12, <1>13, <1>14, <1>15, <1>17, <1>18, <1>19, <1>20, <1>22, PlanNext

\* Everything but the trips is as it was.
LEMMA TripsOnly ==
    ASSUME PlanTyped, FiniteRows, RowsBelong, RunsFit, SeatsFit, OneSeat, StopsFit,
           UNCHANGED planning, agreement' = agreement
    PROVE  /\ PlanTyped' /\ FiniteRows' /\ RowsBelong'
           /\ RunsFit' /\ SeatsFit' /\ OneSeat' /\ StopsFit'
           /\ vehicle' = vehicle /\ run' = run /\ stop' = stop
           /\ \A r : SeatedOn(r)' = SeatedOn(r)
<1>1. vehicle' = vehicle /\ route' = route /\ stop' = stop /\ run' = run
  BY DEF planning
<1>2. /\ ActiveRuns' = ActiveRuns /\ ActiveAgreements' = ActiveAgreements
      /\ \A r : ActiveStops(r)' = ActiveStops(r)
  BY <1>1 DEF ActiveRuns, ActiveAgreements, ActiveStops
<1>3. PlanTyped' /\ FiniteRows' /\ RowsBelong'
  BY <1>1 DEF PlanTyped, FiniteRows, RowsBelong
<1>4. RunsFit'
  BY SMTT(40), <1>1, <1>2 DEF RunsFit, Clear, Load
<1>5. SeatsFit' /\ OneSeat' /\ StopsFit'
  BY <1>1, <1>2 DEF SeatsFit, OneSeat, StopsFit
<1>6. \A r : SeatedOn(r)' = SeatedOn(r)
  BY <1>1, <1>2 DEF SeatedOn, LegOn
<1>7. QED
  BY <1>1, <1>3, <1>4, <1>5, <1>6

\* The row of a trip that begins.
NewTrip(r, riders) ==
    [run |-> r, vehicle |-> run[r].vehicle, driver |-> vehicle[run[r].vehicle].driver,
     day |-> today, status |-> "in_progress",
     stops |-> {[stop |-> x, order |-> stop[x].order] : x \in {LegOn(a, r).stop : a \in riders}}]

LEMMA NewTripFits ==
    ASSUME PlanTyped, RowsBelong, SeatsFit, StopsFit, today \in Days,
           NEW r \in ActiveRuns, NEW riders \in SUBSET SeatedOn(r), NEW new, new = NewTrip(r, riders)
    PROVE  /\ new \in TripRow /\ new # NoRow
           /\ new.run = r /\ new.vehicle = run[r].vehicle
           /\ new.driver = vehicle[run[r].vehicle].driver
           /\ new.day = today /\ new.status = "in_progress"
           /\ \A y, z \in new.stops : y.stop = z.stop \/ y.order = z.order => y = z
<1>1. run[r] \in RunRow /\ run[r] # NoRow /\ r \in Runs
  BY DEF ActiveRuns, PlanTyped
<1>2. vehicle[run[r].vehicle] \in VehicleRow
  BY <1>1 DEF RowsBelong, PlanTyped, RunRow
<1>3. \A a \in riders : LegOn(a, r).stop \in ActiveStops(run[r].route)
  BY DEF SeatedOn, LegOn, SeatsFit
<1>4. \A x \in ActiveStops(run[r].route) : x \in Stops /\ stop[x].order \in Nat
  BY DEF ActiveStops, PlanTyped, StopRow
<1> DEFINE stopped == {LegOn(a, r).stop : a \in riders}
           rows == {[stop |-> x, order |-> stop[x].order] : x \in stopped}
<1>5. stopped \subseteq ActiveStops(run[r].route)
  BY <1>3
<1>6. rows \subseteq [stop: Stops, order: Nat]
  BY <1>4, <1>5
<1>7. \A y, z \in rows : y.stop = z.stop \/ y.order = z.order => y = z
  <2> SUFFICES ASSUME NEW y \in rows, NEW z \in rows, y.stop = z.stop \/ y.order = z.order
               PROVE  y = z
    OBVIOUS
  <2>1. PICK x \in stopped : y = [stop |-> x, order |-> stop[x].order]
    OBVIOUS
  <2>2. PICK w \in stopped : z = [stop |-> w, order |-> stop[w].order]
    OBVIOUS
  <2>3. x = w
    <3>1. x = w \/ stop[x].order = stop[w].order
      BY <2>1, <2>2
    <3>2. run[r].route \in Routes
      BY <1>1 DEF RunRow
    <3>3. QED
      BY <1>5, <3>1, <3>2 DEF StopsFit
  <2>4. QED
    BY <2>1, <2>2, <2>3
<1>8. /\ new.run = r /\ new.vehicle = run[r].vehicle
      /\ new.driver = vehicle[run[r].vehicle].driver
      /\ new.day = today /\ new.status = "in_progress" /\ new.stops = rows
  BY DEF NewTrip
<1>9. new \in TripRow
  <2>1. run[r].vehicle \in Vehicles /\ vehicle[run[r].vehicle].driver \in Drivers \cup {NoRow}
    BY <1>1, <1>2 DEF RunRow, VehicleRow
  <2>2. new = [run |-> r, vehicle |-> run[r].vehicle, driver |-> vehicle[run[r].vehicle].driver,
               day |-> today, status |-> "in_progress", stops |-> rows]
    BY DEF NewTrip
  <2> HIDE DEF rows
  <2>3. QED
    BY <1>1, <1>6, <2>1, <2>2 DEF TripRow, TripStatus
<1>10. new # NoRow
  BY <1>9, NoTransportRowAssumption
<1>11. QED
  BY <1>7, <1>8, <1>9, <1>10

LEMMA CommitStartKeeps ==
    ASSUME IInv, NEW s \in Sessions, CommitStart(s)
    PROVE  IInv'
<1>0. pc[s] = "commit"
  BY DEF CommitStart, Ready
<1>c. /\ TablesTyped /\ PlanTyped /\ TripsTyped /\ TripsPast /\ WorldTyped
      /\ FiniteRows /\ RowsBelong /\ RequestsLogged /\ RidersSeated
      /\ RunsFit /\ SeatsFit /\ OneSeat /\ StopsFit
      /\ OneDispatch /\ RunsKept /\ ClosedTrips /\ OneTripADay
      /\ DecisionStands(s)
  BY <1>0, CommitContext
<1>1. PICK c \in Commands : AtCommit(s, c)
  BY <1>0, CommitContext
<1>2. /\ c.op = "start_trip" /\ c = cmd[s]
      /\ trip' = [trip EXCEPT ![c.req] = NewTrip(c.run, roster[s])]
      /\ passenger' = [passenger EXCEPT ![c.req] =
              [a \in roster[s] |-> [status |-> "pending", version |-> 1]]]
      /\ UNCHANGED planning /\ agreement' = agreement /\ Record(s)
      /\ today' = today
  BY <1>1 DEF CommitStart, Ready, AtCommit, NewTrip, Record, world
<1>3. PICK q \in Requests : q = c.req
  BY <1>1 DEF AtCommit, CommandFits
<1>4. PICK r : r = c.run
  OBVIOUS
<1>5. PICK riders : riders = roster[s]
  OBVIOUS
<1>6. /\ r \in ActiveRuns
      /\ \A t \in Trips :
           /\ ~(trip[t].run = r /\ trip[t].day = today /\ trip[t].status # "cancelled")
           /\ t \in OpenTrips =>
                /\ trip[t].vehicle # run[r].vehicle
                /\ vehicle[run[r].vehicle].driver # NoRow =>
                     trip[t].driver # vehicle[run[r].vehicle].driver
      /\ riders # {} /\ riders \in SUBSET SeatedOn(r)
  BY <1>0, <1>c, <1>2, <1>4, <1>5 DEF DecisionStands
<1>7. agreement[q] = NoRow /\ trip[q] = NoRow /\ DOMAIN passenger[q] = {}
  BY <1>c, <1>1, <1>3, NewRequest
<1>8. PICK new : new = NewTrip(r, riders)
  OBVIOUS
<1>9. /\ new \in TripRow /\ new # NoRow
      /\ new.run = r /\ new.vehicle = run[r].vehicle
      /\ new.driver = vehicle[run[r].vehicle].driver
      /\ new.day = today /\ new.status = "in_progress"
      /\ \A y, z \in new.stops : y.stop = z.stop \/ y.order = z.order => y = z
  BY <1>c, <1>6, <1>8, NewTripFits DEF WorldTyped
<1>10. /\ trip'[q] = new /\ \A t \in Requests : t # q => trip'[t] = trip[t]
       /\ trip' \in [Requests -> TripRow \cup {NoRow}]
  BY <1>c, <1>2, <1>3, <1>4, <1>5, <1>8, <1>9 DEF TripsTyped
<1>11. /\ DOMAIN passenger' = Requests /\ DOMAIN passenger'[q] = riders
       /\ \A a \in riders : passenger'[q][a] = [status |-> "pending", version |-> 1]
       /\ \A t \in Requests : t # q => passenger'[t] = passenger[t]
  BY <1>c, <1>2, <1>3, <1>5 DEF TripsTyped
<1>12. /\ PlanTyped' /\ FiniteRows' /\ RowsBelong'
       /\ RunsFit' /\ SeatsFit' /\ OneSeat' /\ StopsFit'
       /\ vehicle' = vehicle /\ run' = run
       /\ \A x : SeatedOn(x)' = SeatedOn(x)
  BY <1>c, <1>2, TripsOnly
<1>13. /\ event' \in [Requests -> Commands \cup {NoRow}]
       /\ \A x \in Requests : event'[x] = NoRow => event[x] = NoRow /\ x # q
  BY <1>c, <1>1, <1>2, <1>3, LogTyped DEF TripsTyped
<1>14. /\ Trips' = Trips \cup {q} /\ q \notin Trips
       /\ OpenTrips' = OpenTrips \cup {q} /\ OpenTrips \subseteq Trips
  <2>1. Trips' = Trips \cup {q} /\ q \notin Trips
    BY <1>7, <1>9, <1>10 DEF Trips
  <2>2. OpenTrips' = OpenTrips \cup {q}
    BY <1>9, <1>10, <2>1 DEF OpenTrips, Trips
  <2>3. QED
    BY <2>1, <2>2 DEF OpenTrips
<1>15. \A t \in Trips : t \in Requests /\ trip'[t] = trip[t] /\ passenger'[t] = passenger[t]
  BY <1>10, <1>11, <1>14 DEF Trips
<1>16. TripsTyped'
  <2> SUFFICES ASSUME NEW t \in Requests
               PROVE  /\ DOMAIN passenger'[t] \subseteq {a \in Requests : agreement[a] # NoRow}
                      /\ \A a \in DOMAIN passenger'[t] : passenger'[t][a] \in PassengerRow
                      /\ (trip'[t] = NoRow) = (DOMAIN passenger'[t] = {})
    BY <1>2, <1>10, <1>11, <1>13 DEF TripsTyped
  <2>1. CASE t = q
    <3>1. riders \subseteq {a \in Requests : agreement[a] # NoRow}
      BY <1>6 DEF SeatedOn, ActiveAgreements
    <3>2. [status |-> "pending", version |-> 1] \in PassengerRow
      BY DEF PassengerRow, PassengerStatus
    <3>3. QED
      BY <1>6, <1>9, <1>10, <1>11, <2>1, <3>1, <3>2
  <2>2. CASE t # q
    BY <1>c, <1>10, <1>11, <2>2 DEF TripsTyped
  <2>3. QED
    BY <2>1, <2>2
<1>17. TripsPast'
  <2>1. today \in Nat
    BY <1>c, DaysNatural DEF WorldTyped
  <2>2. QED
    BY <1>c, <1>2, <1>9, <1>10, <1>14, <1>15, <2>1 DEF TripsPast
<1>18. RequestsLogged'
  BY <1>c, <1>2, <1>10, <1>13 DEF RequestsLogged
<1>19. RostersGrow
  BY <1>7, <1>11 DEF RostersGrow
<1>20. RidersSeated'
  <2>1. \A t \in OpenTrips' : /\ DOMAIN passenger'[t] \subseteq SeatedOn(trip'[t].run)
                              /\ "cancelled" \notin {passenger'[t][a].status : a \in DOMAIN passenger'[t]}
    <3> SUFFICES ASSUME NEW t \in OpenTrips'
                 PROVE  /\ DOMAIN passenger'[t] \subseteq SeatedOn(trip'[t].run)
                        /\ "cancelled" \notin {passenger'[t][a].status : a \in DOMAIN passenger'[t]}
      OBVIOUS
    <3>1. CASE t = q
      BY <1>6, <1>9, <1>10, <1>11, <3>1
    <3>2. CASE t # q
      <4>1. t \in OpenTrips /\ t \in Trips
        BY <1>14, <3>2
      <4>2. trip'[t] = trip[t] /\ passenger'[t] = passenger[t]
        BY <1>15, <4>1
      <4>3. QED
        BY <1>c, <4>1, <4>2 DEF RidersSeated, StatusesIn
    <3>3. QED
      BY <3>1, <3>2
  <2>2. \A t \in Trips' : \A y, z \in trip'[t].stops : y.stop = z.stop \/ y.order = z.order => y = z
    BY <1>c, <1>9, <1>10, <1>14, <1>15 DEF RidersSeated
  <2>3. QED
    BY <1>12, <2>1, <2>2 DEF RidersSeated, StatusesIn
<1>21. OneDispatch'
  <2> SUFFICES ASSUME NEW t \in OpenTrips', NEW u \in OpenTrips', t # u
               PROVE  /\ trip'[t].vehicle # trip'[u].vehicle
                      /\ trip'[t].driver = NoRow \/ trip'[t].driver # trip'[u].driver
    BY DEF OneDispatch
  <2>1. \A x \in OpenTrips : trip'[x] = trip[x]
    BY <1>14, <1>15
  <2>2. \A x \in OpenTrips : /\ trip[x].vehicle # new.vehicle
                             /\ new.driver # NoRow => trip[x].driver # new.driver
    BY <1>6, <1>9, <1>14
  <2>3. CASE t = q
    BY <1>10, <1>14, <2>1, <2>2, <2>3
  <2>4. CASE u = q
    BY <1>10, <1>14, <2>1, <2>2, <2>4
  <2>5. CASE t # q /\ u # q
    BY <1>c, <1>14, <2>1, <2>5 DEF OneDispatch
  <2>6. QED
    BY <2>3, <2>4, <2>5
<1>22. RunsKept'
  <2> SUFFICES ASSUME NEW t \in OpenTrips'
               PROVE  run[trip'[t].run].active /\ run[trip'[t].run].vehicle = trip'[t].vehicle
    BY <1>12 DEF RunsKept
  <2>1. CASE t = q
    BY <1>6, <1>9, <1>10, <2>1 DEF ActiveRuns
  <2>2. CASE t # q
    BY <1>c, <1>14, <1>15, <2>2 DEF RunsKept
  <2>3. QED
    BY <2>1, <2>2
<1>23. ClosedTrips'
  <2> SUFFICES ASSUME NEW t \in Trips' \ OpenTrips'
               PROVE  {passenger'[t][a].status : a \in DOMAIN passenger'[t]}
                        \subseteq IF trip'[t].status = "completed" THEN {"alighted", "absent"}
                                  ELSE {"absent", "cancelled"}
    BY DEF ClosedTrips, StatusesIn
  <2>1. t \in Trips \ OpenTrips /\ trip'[t] = trip[t] /\ passenger'[t] = passenger[t]
    BY <1>14, <1>15
  <2>2. QED
    BY <1>c, <2>1 DEF ClosedTrips, StatusesIn
<1>24. OneTripADay'
  <2> SUFFICES ASSUME NEW t \in Trips', NEW u \in Trips',
                      trip'[t].status # "cancelled", trip'[u].status # "cancelled",
                      trip'[t].run = trip'[u].run, trip'[t].day = trip'[u].day
               PROVE  t = u
    BY DEF OneTripADay
  <2>1. \A x \in Trips : ~(trip[x].run = new.run /\ trip[x].day = new.day /\ trip[x].status # "cancelled")
    BY <1>6, <1>9
  <2>2. CASE t = q \/ u = q
    BY <1>10, <1>14, <1>15, <2>1, <2>2
  <2>3. CASE t # q /\ u # q
    BY <1>c, <1>14, <1>15, <2>3 DEF OneTripADay
  <2>4. QED
    BY <2>2, <2>3
<1>25. QED
  BY <1>0, <1>2, <1>12, <1>16, <1>17, <1>18, <1>19, <1>20, <1>21, <1>22, <1>23, <1>24, PlanNext

LEMMA CommitPassengerKeeps ==
    ASSUME IInv, NEW s \in Sessions, CommitPassenger(s)
    PROVE  IInv'
<1>0. pc[s] = "commit"
  BY DEF CommitPassenger, Ready
<1>c. /\ TablesTyped /\ PlanTyped /\ TripsTyped /\ TripsPast /\ WorldTyped
      /\ FiniteRows /\ RowsBelong /\ RequestsLogged /\ RidersSeated
      /\ RunsFit /\ SeatsFit /\ OneSeat /\ StopsFit
      /\ OneDispatch /\ RunsKept /\ ClosedTrips /\ OneTripADay
      /\ PageFits(s)
  BY <1>0, CommitContext
<1>1. PICK c \in Commands : AtCommit(s, c)
  BY <1>0, CommitContext
<1>2. /\ c.op = "passenger" /\ c = cmd[s]
      /\ passenger' = [passenger EXCEPT ![c.trip][c.agreement] =
                         [status |-> c.status, version |-> @.version + 1]]
      /\ UNCHANGED planning /\ agreement' = agreement /\ trip' = trip /\ Record(s)
      /\ today' = today
  BY <1>1 DEF CommitPassenger, Ready, AtCommit, Record, world
<1>3. PICK u \in Requests, b \in Requests : u = c.trip /\ b = c.agreement
  BY <1>1, <1>2 DEF AtCommit, CommandFits
<1>4. u \in OpenTrips /\ b \in DOMAIN passenger[u] /\ c.status \in {"boarded", "alighted", "absent"}
  BY <1>c, <1>0, <1>1, <1>2, <1>3 DEF AtCommit, CommandFits, Accepts, MayMark, PageFits
<1>5. PICK row : row = [status |-> c.status, version |-> passenger[u][b].version + 1]
  OBVIOUS
<1>6. /\ DOMAIN passenger' = Requests
      /\ \A t \in Requests : DOMAIN passenger'[t] = DOMAIN passenger[t]
      /\ \A t \in Requests : t # u => passenger'[t] = passenger[t]
      /\ \A a \in DOMAIN passenger[u] : passenger'[u][a] = IF a = b THEN row ELSE passenger[u][a]
  BY <1>c, <1>2, <1>3, <1>4, <1>5 DEF TripsTyped
<1>7. row \in PassengerRow /\ row.status \in {"boarded", "alighted", "absent"}
  <2>1. passenger[u][b].version \in Nat
    BY <1>c, <1>3, <1>4 DEF TripsTyped, PassengerRow
  <2>2. QED
    BY <1>4, <1>5, <2>1 DEF PassengerRow, PassengerStatus
<1>8. /\ PlanTyped' /\ FiniteRows' /\ RowsBelong'
      /\ RunsFit' /\ SeatsFit' /\ OneSeat' /\ StopsFit'
      /\ run' = run /\ \A x : SeatedOn(x)' = SeatedOn(x)
  BY <1>c, <1>2, TripsOnly
<1>9. /\ event' \in [Requests -> Commands \cup {NoRow}]
      /\ \A x \in Requests : event'[x] = NoRow => event[x] = NoRow
  BY <1>c, <1>1, <1>2, LogTyped DEF TripsTyped
<1>10. Trips' = Trips /\ OpenTrips' = OpenTrips /\ Trips \subseteq Requests /\ OpenTrips \subseteq Trips
  BY <1>2 DEF Trips, OpenTrips
<1>11. TripsTyped'
  BY <1>c, <1>2, <1>6, <1>7, <1>9 DEF TripsTyped
<1>12. TripsPast' /\ RequestsLogged' /\ OneDispatch' /\ OneTripADay'
  BY <1>c, <1>2, <1>9, <1>10 DEF TripsPast, RequestsLogged, OneDispatch, OneTripADay
<1>13. RostersGrow
  BY <1>6 DEF RostersGrow
<1>14. RunsKept'
  BY <1>c, <1>2, <1>8, <1>10 DEF RunsKept
<1>15. RidersSeated'
  <2>1. ASSUME NEW t \in OpenTrips
        PROVE  /\ DOMAIN passenger'[t] \subseteq SeatedOn(trip[t].run)
               /\ "cancelled" \notin {passenger'[t][a].status : a \in DOMAIN passenger'[t]}
    <3>1. /\ DOMAIN passenger[t] \subseteq SeatedOn(trip[t].run)
          /\ \A a \in DOMAIN passenger[t] : passenger[t][a].status # "cancelled"
          /\ t \in Requests
      BY <1>c, <1>10 DEF RidersSeated, StatusesIn
    <3>2. \A a \in DOMAIN passenger[t] : passenger'[t][a].status # "cancelled"
      BY <1>6, <1>7, <3>1
    <3>3. QED
      BY <1>6, <3>1, <3>2
  <2>2. \A t \in Trips : \A y, z \in trip[t].stops : y.stop = z.stop \/ y.order = z.order => y = z
    BY <1>c DEF RidersSeated
  <2>3. QED
    BY <1>2, <1>8, <1>10, <2>1, <2>2 DEF RidersSeated, StatusesIn
<1>16. ClosedTrips'
  <2> SUFFICES ASSUME NEW t \in Trips \ OpenTrips
               PROVE  StatusesIn(t)' \subseteq
                        IF trip[t].status = "completed" THEN {"alighted", "absent"}
                        ELSE {"absent", "cancelled"}
    BY <1>2, <1>10 DEF ClosedTrips
  <2>1. passenger'[t] = passenger[t]
    BY <1>4, <1>6, <1>10
  <2>2. QED
    BY <1>c, <2>1 DEF ClosedTrips, StatusesIn
<1>17. QED
  BY <1>0, <1>2, <1>8, <1>11, <1>12, <1>13, <1>14, <1>15, <1>16, PlanNext

LEMMA CommitCloseKeeps ==
    ASSUME IInv, NEW s \in Sessions, CommitClose(s)
    PROVE  IInv'
<1>0. pc[s] = "commit"
  BY DEF CommitClose, Ready
<1>c. /\ TablesTyped /\ PlanTyped /\ TripsTyped /\ TripsPast /\ WorldTyped
      /\ FiniteRows /\ RowsBelong /\ RequestsLogged /\ RidersSeated
      /\ RunsFit /\ SeatsFit /\ OneSeat /\ StopsFit
      /\ OneDispatch /\ RunsKept /\ ClosedTrips /\ OneTripADay
  BY <1>0, CommitContext
<1>1. PICK c \in Commands : AtCommit(s, c)
  BY <1>0, CommitContext
<1>2. /\ c.op \in {"complete_trip", "cancel_trip"} /\ c = cmd[s]
      /\ trip' = [trip EXCEPT ![c.trip].status =
                    IF c.op = "complete_trip" THEN "completed" ELSE "cancelled"]
      /\ passenger' = IF c.op = "complete_trip" THEN passenger
                      ELSE [passenger EXCEPT ![c.trip] = Dismiss(@)]
      /\ UNCHANGED planning /\ agreement' = agreement /\ Record(s)
      /\ today' = today
  BY <1>1 DEF CommitClose, Ready, AtCommit, Record, world
<1>3. PICK u \in Requests : u = c.trip
  BY <1>1, <1>2 DEF AtCommit, CommandFits
<1>4. PICK status \in {"completed", "cancelled"} :
        status = IF c.op = "complete_trip" THEN "completed" ELSE "cancelled"
  OBVIOUS
<1>5. /\ u \in OpenTrips
      /\ status = "completed" => StatusesIn(u) \cap {"pending", "boarded"} = {}
      /\ status = "cancelled" => StatusesIn(u) \cap {"boarded", "alighted"} = {}
  BY <1>1, <1>2, <1>3, <1>4 DEF AtCommit, Accepts
<1>6. PICK row \in TripRow : row = trip[u]
  BY <1>c, <1>5 DEF TripsTyped, OpenTrips, Trips
<1>7. PICK closed : closed = [row EXCEPT !.status = status]
  OBVIOUS
<1>8. /\ closed \in TripRow /\ closed # NoRow /\ closed.status = status
      /\ closed.run = row.run /\ closed.day = row.day /\ closed.stops = row.stops
      /\ closed.vehicle = row.vehicle /\ closed.driver = row.driver
  <2>1. closed \in TripRow
    BY <1>7 DEF TripRow, TripStatus
  <2>2. QED
    BY <1>7, <2>1, NoTransportRowAssumption DEF TripRow
<1>9. /\ trip' \in [Requests -> TripRow \cup {NoRow}]
      /\ trip'[u] = closed /\ \A t \in Requests : t # u => trip'[t] = trip[t]
  BY <1>c, <1>2, <1>3, <1>4, <1>6, <1>7, <1>8 DEF TripsTyped
<1>10. /\ DOMAIN passenger' = Requests
       /\ \A t \in Requests : DOMAIN passenger'[t] = DOMAIN passenger[t]
       /\ \A t \in Requests : t # u => passenger'[t] = passenger[t]
       /\ status = "completed" => passenger' = passenger
       /\ status = "cancelled" => \A a \in DOMAIN passenger[u] :
            passenger'[u][a] = IF passenger[u][a].status # "pending" THEN passenger[u][a]
                               ELSE [status |-> "cancelled", version |-> passenger[u][a].version + 1]
  BY <1>c, <1>2, <1>3, <1>4 DEF TripsTyped, Dismiss
<1>11. /\ PlanTyped' /\ FiniteRows' /\ RowsBelong'
       /\ RunsFit' /\ SeatsFit' /\ OneSeat' /\ StopsFit'
       /\ run' = run /\ \A x : SeatedOn(x)' = SeatedOn(x)
  BY <1>c, <1>2, TripsOnly
<1>12. /\ event' \in [Requests -> Commands \cup {NoRow}]
       /\ \A x \in Requests : event'[x] = NoRow => event[x] = NoRow
  BY <1>c, <1>1, <1>2, LogTyped DEF TripsTyped
<1>13. /\ Trips' = Trips /\ OpenTrips' = OpenTrips \ {u} /\ u \in Trips
       /\ Trips \subseteq Requests /\ OpenTrips \subseteq Trips
  <2>1. u \in Trips /\ Trips \subseteq Requests /\ OpenTrips \subseteq Trips
    BY <1>5 DEF OpenTrips, Trips
  <2>2. Trips' = Trips
    BY <1>8, <1>9, <2>1 DEF Trips
  <2>3. OpenTrips' = OpenTrips \ {u}
    BY <1>4, <1>8, <1>9, <2>1, <2>2 DEF OpenTrips
  <2>4. QED
    BY <2>1, <2>2, <2>3
<1>14. \A a \in DOMAIN passenger[u] :
         /\ passenger[u][a] \in PassengerRow /\ passenger'[u][a] \in PassengerRow
         /\ passenger[u][a].status # "cancelled"
  <2>1. ASSUME NEW a \in DOMAIN passenger[u]
        PROVE  /\ passenger[u][a] \in PassengerRow /\ passenger'[u][a] \in PassengerRow
               /\ passenger[u][a].status # "cancelled"
    <3>1. passenger[u][a] \in PassengerRow /\ passenger[u][a].status # "cancelled"
      BY <1>c, <1>3, <1>5 DEF TripsTyped, RidersSeated, StatusesIn
    <3>2. [status |-> "cancelled", version |-> passenger[u][a].version + 1] \in PassengerRow
      BY <3>1 DEF PassengerRow, PassengerStatus
    <3>3. QED
      BY <1>10, <3>1, <3>2
  <2>2. QED
    BY <2>1
<1>15. TripsTyped'
  <2> SUFFICES ASSUME NEW t \in Requests
               PROVE  /\ DOMAIN passenger'[t] \subseteq {a \in Requests : agreement[a] # NoRow}
                      /\ \A a \in DOMAIN passenger'[t] : passenger'[t][a] \in PassengerRow
                      /\ (trip'[t] = NoRow) = (DOMAIN passenger'[t] = {})
    BY <1>2, <1>9, <1>10, <1>12 DEF TripsTyped
  <2>1. DOMAIN passenger'[t] \subseteq {a \in Requests : agreement[a] # NoRow}
    BY <1>c, <1>10 DEF TripsTyped
  <2>2. \A a \in DOMAIN passenger'[t] : passenger'[t][a] \in PassengerRow
    BY <1>c, <1>10, <1>14 DEF TripsTyped
  <2>3. (trip'[t] = NoRow) = (DOMAIN passenger'[t] = {})
    <3>1. (trip[t] = NoRow) = (DOMAIN passenger[t] = {})
      BY <1>c DEF TripsTyped
    <3>2. (trip'[t] = NoRow) = (trip[t] = NoRow)
      BY <1>8, <1>9, <1>13 DEF Trips
    <3>3. QED
      BY <1>10, <3>1, <3>2
  <2>4. QED
    BY <2>1, <2>2, <2>3
<1>16. TripsPast' /\ RequestsLogged'
  <2>1. TripsPast'
    BY <1>c, <1>2, <1>6, <1>8, <1>9, <1>13 DEF TripsPast
  <2>2. RequestsLogged'
    BY <1>c, <1>2, <1>9, <1>12, <1>13 DEF RequestsLogged, Trips
  <2>3. QED
    BY <2>1, <2>2
<1>17. RostersGrow
  BY <1>10 DEF RostersGrow
<1>18. OneDispatch' /\ RunsKept'
  <2>1. \A t \in OpenTrips \ {u} : t \in OpenTrips /\ trip'[t] = trip[t]
    BY <1>9, <1>13
  <2>2. OneDispatch'
    BY <1>c, <1>13, <2>1 DEF OneDispatch
  <2>3. RunsKept'
    BY <1>c, <1>11, <1>13, <2>1 DEF RunsKept
  <2>4. QED
    BY <2>2, <2>3
<1>19. OneTripADay'
  <2> SUFFICES ASSUME NEW t \in Trips, NEW v \in Trips,
                      trip'[t].status # "cancelled", trip'[v].status # "cancelled",
                      trip'[t].run = trip'[v].run, trip'[t].day = trip'[v].day
               PROVE  t = v
    BY <1>13 DEF OneTripADay
  <2>1. \A x \in Trips : trip'[x].run = trip[x].run /\ trip'[x].day = trip[x].day
    BY <1>6, <1>8, <1>9, <1>13
  <2>2. \A x \in Trips : trip[x].status = "cancelled" => trip'[x].status = "cancelled"
    BY <1>5, <1>9, <1>13 DEF OpenTrips
  <2>3. QED
    BY <1>c, <2>1, <2>2 DEF OneTripADay
<1>20. RidersSeated'
  <2>1. ASSUME NEW t \in OpenTrips'
        PROVE  /\ DOMAIN passenger'[t] \subseteq SeatedOn(trip'[t].run)
               /\ "cancelled" \notin {passenger'[t][a].status : a \in DOMAIN passenger'[t]}
    <3>1. t \in OpenTrips /\ t # u /\ t \in Requests
      BY <1>13
    <3>2. QED
      BY <1>c, <1>9, <1>10, <3>1 DEF RidersSeated, StatusesIn
  <2>2. \A t \in Trips : \A y, z \in trip'[t].stops : y.stop = z.stop \/ y.order = z.order => y = z
    BY <1>c, <1>6, <1>8, <1>9, <1>13 DEF RidersSeated
  <2>3. QED
    BY <1>11, <1>13, <2>1, <2>2 DEF RidersSeated, StatusesIn
<1>21. ClosedTrips'
  <2> SUFFICES ASSUME NEW t \in Trips' \ OpenTrips'
               PROVE  {passenger'[t][a].status : a \in DOMAIN passenger'[t]}
                        \subseteq IF trip'[t].status = "completed" THEN {"alighted", "absent"}
                                  ELSE {"absent", "cancelled"}
    BY DEF ClosedTrips, StatusesIn
  <2>1. CASE t # u
    <3>1. t \in Trips \ OpenTrips /\ trip'[t] = trip[t] /\ passenger'[t] = passenger[t]
      BY <1>9, <1>10, <1>13, <2>1
    <3>2. QED
      BY <1>c, <3>1 DEF ClosedTrips, StatusesIn
  <2>2. CASE t = u /\ status = "completed"
    <3>1. \A a \in DOMAIN passenger[u] : passenger[u][a].status \in {"alighted", "absent"}
      BY <1>5, <1>14, <2>2 DEF StatusesIn, PassengerRow, PassengerStatus
    <3>2. QED
      BY <1>8, <1>9, <1>10, <2>2, <3>1
  <2>3. CASE t = u /\ status = "cancelled"
    <3>1. \A a \in DOMAIN passenger[u] : passenger[u][a].status \in {"pending", "absent"}
      BY <1>5, <1>14, <2>3 DEF StatusesIn, PassengerRow, PassengerStatus
    <3>2. ASSUME NEW a \in DOMAIN passenger[u]
          PROVE  passenger'[u][a].status \in {"absent", "cancelled"}
      <4>1. CASE passenger[u][a].status = "pending"
        <5>1. passenger'[u][a] = [status |-> "cancelled", version |-> passenger[u][a].version + 1]
          BY <1>10, <2>3, <4>1
        <5>2. QED
          BY <5>1
      <4>2. CASE passenger[u][a].status = "absent"
        <5>1. passenger'[u][a] = passenger[u][a]
          BY <1>10, <2>3, <4>2
        <5>2. QED
          BY <4>2, <5>1
      <4>3. QED
        BY <3>1, <4>1, <4>2
    <3>3. QED
      BY <1>8, <1>9, <1>10, <2>3, <3>2
  <2>4. QED
    BY <1>4, <2>1, <2>2, <2>3
<1>22. QED
  BY <1>0, <1>2, <1>11, <1>15, <1>16, <1>17, <1>18, <1>19, <1>20, <1>21, PlanNext

-----------------------------------------------------------------------------
(* The inductive invariant. *)

\* A school starts from a plan that stands, with nobody at work.
LEMMA InitIInv ==
    ASSUME Init
    PROVE  IInv
<1>1. /\ vehicle = FirstVehicles /\ stop = FirstStops /\ run = FirstRuns
      /\ agreement = FirstAgreements
      /\ trip = [t \in Requests |-> NoRow] /\ passenger = [t \in Requests |-> <<>>]
      /\ event = [r \in Requests |-> NoRow]
      /\ route = [r \in Routes |-> IF \E x \in Stops : stop[x] # NoRow /\ stop[x].route = r
                                   THEN "active" ELSE NoRow]
  BY DEF Init
<1>2. /\ enrolled = Students /\ today = 0
      /\ pc = [s \in Sessions |-> "idle"] /\ cmd = [s \in Sessions |-> NoCommand]
      /\ held = [s \in Sessions \cup Callers |-> {}]
      /\ page = [s \in Sessions |-> NoPage] /\ roster = [s \in Sessions |-> {}]
  BY DEF Init
<1>3. WorldTyped
  BY <1>2, DaysNatural DEF WorldTyped
<1>4. SessionsTyped /\ LocksApart
  <2>1. pc \in [Sessions -> Phases] /\ cmd \in [Sessions -> Commands \cup {NoCommand}]
    BY <1>2 DEF Phases
  <2>2. /\ held \in [Sessions \cup Callers -> SUBSET Locks]
        /\ roster \in [Sessions -> SUBSET Requests] /\ DOMAIN page = Sessions
    BY <1>2
  <2>3. \A s \in Sessions : page[s].version \in Nat
    BY <1>2 DEF NoPage
  <2>4. LocksApart
    BY <1>2 DEF LocksApart
  <2>5. QED
    BY <1>2, <2>1, <2>2, <2>3, <2>4 DEF SessionsTyped
<1>5. PlanTyped /\ FiniteRows
  <2>1. route \in [Routes -> RouteStatus \cup {NoRow}]
    BY <1>1 DEF RouteStatus
  <2>2. QED
    BY <1>1, <2>1, TransportConstantsAssumption DEF PlanTyped, FiniteRows
<1>6. TripsTyped /\ Trips = {} /\ OpenTrips = {}
  <2>1. DOMAIN <<>> = {}
    OBVIOUS
  <2>2. \A t \in Requests : DOMAIN passenger[t] = {}
    BY <1>1, <2>1
  <2>3. QED
    BY <1>1, <2>2 DEF TripsTyped, Trips, OpenTrips
<1>7. RowsBelong
  <2>1. \A r \in Runs : run[r] # NoRow => vehicle[run[r].vehicle] # NoRow
    BY <1>1, TransportConstantsAssumption
  <2>2. ASSUME NEW x \in Stops, stop[x] # NoRow
        PROVE  route[stop[x].route] # NoRow
    <3>1. stop[x].route \in Routes
      BY <1>5, <2>2 DEF PlanTyped, StopRow
    <3>2. route[stop[x].route] = "active"
      BY <1>1, <2>2, <3>1
    <3>3. QED
      BY <3>2, NoTransportRowAssumption DEF RouteStatus
  <2>3. QED
    BY <2>1, <2>2 DEF RowsBelong
<1>8. RequestsLogged /\ TripsPast /\ RidersSeated
  BY <1>1, <1>6 DEF RequestsLogged, TripsPast, RidersSeated
<1>9. PlanConsistent
  BY DEF Init
<1>10. TripsConsistent
  BY <1>6 DEF TripsConsistent
<1>11. \A s \in Sessions : SessionInv(s)
  BY <1>2 DEF SessionInv, PhaseFits, HoldsLocks, PageFits, DecisionStands, Working
<1>12. QED
  BY <1>3, <1>4, <1>5, <1>6, <1>7, <1>8, <1>9, <1>10, <1>11, Parts DEF TablesTyped, TablesStand

LEMMA CommitStep ==
    ASSUME IInv, NEW s \in Sessions, Commit(s)
    PROVE  IInv'
<1>1. CASE CommitVehicle(s) \/ CommitRoute(s) \/ CommitStop(s)
  BY <1>1, CommitVehicleKeeps, CommitRouteKeeps, CommitStopKeeps
<1>2. CASE CommitOrder(s) \/ CommitRun(s) \/ CommitAgreement(s)
  BY <1>2, CommitOrderKeeps, CommitRunKeeps, CommitAgreementKeeps
<1>3. CASE CommitStart(s) \/ CommitPassenger(s) \/ CommitClose(s)
  BY <1>3, CommitStartKeeps, CommitPassengerKeeps, CommitCloseKeeps
<1>4. QED
  BY <1>1, <1>2, <1>3 DEF Commit

LEMMA WorkStep ==
    ASSUME IInv, NEW s \in Sessions, Work(s) \/ Abort(s)
    PROVE  IInv'
<1>1. CASE OpenPage(s)
  BY <1>1, OpenPageKeeps
<1>2. CASE Receive(s) \/ SavePage(s)
  BY <1>2, ReceiveKeeps, SavePageKeeps
<1>3. CASE Answer(s) \/ Deny(s) \/ Abort(s)
  BY <1>3, RefuseKeeps DEF Answer, Deny, Abort
<1>4. CASE LockStudent(s) \/ LockTrip(s)
  BY <1>4, LockStudentKeeps, LockTripKeeps
<1>5. CASE Decide(s)
  BY <1>5, DecideKeeps
<1>6. CASE Commit(s)
  BY <1>6, CommitStep
<1>7. QED
  BY <1>1, <1>2, <1>3, <1>4, <1>5, <1>6 DEF Work

LEMMA StepKeeps ==
    ASSUME IInv, Next
    PROVE  IInv'
<1>1. CASE \E s \in Sessions : Work(s) \/ Abort(s)
  BY <1>1, WorkStep
<1>2. CASE \E p \in Leavers : ChangeStatus(p)
  BY <1>2, ChangeStatusKeeps
<1>3. CASE DayPasses
  BY <1>3, DayPassesKeeps
<1>4. QED
  BY <1>1, <1>2, <1>3 DEF Next

LEMMA StutterKeeps ==
    ASSUME IInv, UNCHANGED vars
    PROVE  IInv'
<1>1. /\ UNCHANGED office /\ held' = held
  BY DEF vars, office, sessions
<1>2. SessionsTyped /\ LocksApart
  BY Parts
<1>3. held' \in [Sessions \cup Callers -> SUBSET Locks] /\ LocksApart'
  BY <1>1, <1>2 DEF SessionsTyped, LocksApart
<1>4. QED
  BY <1>1, <1>3, OfficeStays

\* Every overlap of commands of the office, of changes of enrolment and of the
\* days keeps the inductive invariant: a command holds the advisory lock from
\* its first read to its commit, so what it has decided still stands when it
\* writes (DecisionStands).
THEOREM Invariance == Spec => []IInv
<1>1. Init => IInv
  BY InitIInv
<1>2. IInv /\ [Next]_vars => IInv'
  BY StepKeeps, StutterKeeps
<1>3. QED
  BY <1>1, <1>2, PTL DEF Spec

\* Every row of the transport tables and every session keeps its type; nobody
\* holds a lock somebody else holds, and a call that has ended holds none.
THEOREM TypeCorrect == Spec => []TypeOK
<1>1. IInv => TypeOK
  BY DEF IInv
<1>2. QED
  BY <1>1, Invariance, PTL

\* The plan fits the reservations made on it, and the journeys fit the plan:
\* no overlap of commands sells a seat twice, sends a vehicle or a driver on
\* two open trips, archives what a trip uses or closes a trip on a passenger.
THEOREM DispatchStands == Spec => []DispatchConsistent
<1>1. IInv => DispatchConsistent
  BY DEF IInv, DispatchConsistent
<1>2. QED
  BY <1>1, Invariance, PTL

-----------------------------------------------------------------------------
(* Stale decisions. *)

\* Trips, boarding marks and agreements change only when one of four commands
\* commits.
LEMMA WhoWrites ==
    ASSUME [Next]_vars
    PROVE  \/ passenger' = passenger /\ agreement' = agreement /\ trip' = trip
           \/ \E s \in Sessions : \/ CommitAgreement(s) \/ CommitStart(s)
                                  \/ CommitPassenger(s) \/ CommitClose(s)
<1>1. UNCHANGED transportTables => passenger' = passenger /\ agreement' = agreement /\ trip' = trip
  BY DEF transportTables, journeys
<1>2. UNCHANGED vars => UNCHANGED transportTables
  BY DEF vars
<1>3. ASSUME NEW s \in Sessions, Work(s) \/ Abort(s), ~Commit(s)
      PROVE  UNCHANGED transportTables
  <2>1. Refuse(s) => UNCHANGED transportTables
    BY DEF Refuse
  <2>2. CASE OpenPage(s) \/ Receive(s) \/ SavePage(s) \/ LockTrip(s) \/ Decide(s)
    BY <2>2 DEF OpenPage, Receive, SavePage, Begin, LockTrip, Decide
  <2>3. CASE Answer(s) \/ Deny(s) \/ Abort(s) \/ LockStudent(s)
    BY <2>1, <2>3 DEF Answer, Deny, Abort, LockStudent
  <2>4. QED
    BY <1>3, <2>2, <2>3 DEF Work
<1>4. ASSUME NEW s \in Sessions, Commit(s)
      PROVE  \/ passenger' = passenger /\ agreement' = agreement /\ trip' = trip
             \/ CommitAgreement(s) \/ CommitStart(s) \/ CommitPassenger(s) \/ CommitClose(s)
  BY <1>4 DEF Commit, CommitVehicle, CommitRoute, CommitStop, CommitOrder, CommitRun, journeys
<1>5. CASE DayPasses
  BY <1>1, <1>5 DEF DayPasses
<1>6. CASE \E p \in Leavers : ChangeStatus(p)
  BY <1>1, <1>6 DEF ChangeStatus
<1>7. QED
  BY <1>1, <1>2, <1>3, <1>4, <1>5, <1>6 DEF Next

\* What NoStaleDecision says of a mark and of an agreement.
MarkFresh(t, a) ==
    passenger'[t][a] # passenger[t][a] =>
      \/ /\ passenger'[t][a].status = "cancelled" /\ trip'[t].status = "cancelled"
      \/ \E s \in Sessions : /\ Ready(s, {"passenger"}) /\ pc'[s] = "idle"
                             /\ page[s].version = passenger[t][a].version
                             /\ cmd[s].trip = t /\ cmd[s].agreement = a

SeatFresh(a) ==
    agreement[a] = NoRow /\ agreement'[a] # NoRow => agreement'[a].student \in enrolled

\* A student who gets a seat is locked and enrolled; no mark is touched.
LEMMA AgreementFresh ==
    ASSUME IInv, NEW s \in Sessions, CommitAgreement(s), NEW a \in Requests
    PROVE  SeatFresh(a) /\ passenger' = passenger
<1>0. pc[s] = "commit"
  BY DEF CommitAgreement, Ready
<1>1. PICK c \in Commands : AtCommit(s, c)
  BY <1>0, CommitContext
<1>2. c = cmd[s] /\ passenger' = passenger
  BY <1>1 DEF CommitAgreement, AtCommit, journeys
<1>3. PICK ending : \E adding \in BOOLEAN : AgreementsBecome(c, ending, adding)
  BY <1>1, AgreementsChange
<1>4. PICK adding \in BOOLEAN : AgreementsBecome(c, ending, adding)
  BY <1>3
<1>5. agreement[a] = NoRow /\ agreement'[a] # NoRow =>
        adding /\ agreement'[a].student = c.student
  BY <1>4 DEF AgreementsBecome, ActiveAgreements
<1>6. adding => c.student \in enrolled
  <2>1. adding => c.op \in {"assign", "change_assignment"}
    BY <1>4 DEF AgreementsBecome
  <2>2. HoldsLocks(s)
    BY <1>0, CommitContext
  <2>3. QED
    BY <1>0, <1>2, <2>1, <2>2 DEF HoldsLocks
<1>7. QED
  BY <1>2, <1>5, <1>6 DEF SeatFresh

\* A dispatch touches no other trip's marks.
LEMMA StartFresh ==
    ASSUME IInv, NEW s \in Sessions, CommitStart(s), NEW t \in Trips
    PROVE  passenger'[t] = passenger[t] /\ agreement' = agreement
<1>0. pc[s] = "commit"
  BY DEF CommitStart, Ready
<1>1. PICK c \in Commands : AtCommit(s, c)
  BY <1>0, CommitContext
<1>2. /\ passenger' = [passenger EXCEPT ![c.req] =
              [a \in roster[s] |-> [status |-> "pending", version |-> 1]]]
      /\ agreement' = agreement /\ c.op = "start_trip"
  BY <1>1 DEF CommitStart, AtCommit, Ready
<1>3. trip[c.req] = NoRow
  <2>1. RequestsLogged /\ c.req \in Requests /\ event[c.req] = NoRow
    BY <1>0, <1>1, CommitContext DEF AtCommit, CommandFits
  <2>2. QED
    BY <2>1 DEF RequestsLogged
<1>4. t # c.req /\ t \in Requests
  BY <1>3 DEF Trips
<1>5. DOMAIN passenger = Requests
  BY <1>0, CommitContext DEF TripsTyped
<1>6. QED
  BY <1>2, <1>4, <1>5

\* Only the mark the command names changes, and its version is the page's.
LEMMA PassengerFresh ==
    ASSUME IInv, NEW s \in Sessions, CommitPassenger(s), NEW t \in Trips, NEW a \in DOMAIN passenger[t]
    PROVE  MarkFresh(t, a) /\ agreement' = agreement
<1>0. pc[s] = "commit"
  BY DEF CommitPassenger, Ready
<1>1. PICK c \in Commands : AtCommit(s, c)
  BY <1>0, CommitContext
<1>2. /\ c.op = "passenger" /\ c = cmd[s] /\ Ready(s, {"passenger"})
      /\ passenger' = [passenger EXCEPT ![c.trip][c.agreement] =
                         [status |-> c.status, version |-> @.version + 1]]
      /\ agreement' = agreement /\ End(s)
  BY <1>1 DEF CommitPassenger, Ready, AtCommit, Record
<1>3. pc'[s] = "idle"
  <2>1. SessionsTyped /\ LocksApart
    BY Parts
  <2>2. QED
    BY <1>2, <2>1, EndKeeps
<1>4. MayMark(s)
  BY <1>1, <1>2 DEF AtCommit, Accepts
<1>5. page[s].version = passenger[c.trip][c.agreement].version
  BY <1>2, <1>4 DEF MayMark
<1>6. DOMAIN passenger = Requests /\ t \in Requests
  BY <1>0, CommitContext DEF TripsTyped, Trips
<1>7. CASE t = c.trip /\ a = c.agreement
  BY <1>2, <1>3, <1>5, <1>7 DEF MarkFresh
<1>8. CASE t # c.trip
  BY <1>2, <1>6, <1>8 DEF MarkFresh
<1>9. CASE t = c.trip /\ a # c.agreement
  BY <1>2, <1>6, <1>9 DEF MarkFresh
<1>10. QED
  BY <1>2, <1>7, <1>8, <1>9

\* A trip that closes cancels only who is pending, with itself.
LEMMA CloseFresh ==
    ASSUME IInv, NEW s \in Sessions, CommitClose(s), NEW t \in Trips, NEW a \in DOMAIN passenger[t]
    PROVE  MarkFresh(t, a) /\ agreement' = agreement
<1>0. pc[s] = "commit"
  BY DEF CommitClose, Ready
<1>1. PICK c \in Commands : AtCommit(s, c)
  BY <1>0, CommitContext
<1>2. /\ c.op \in {"complete_trip", "cancel_trip"} /\ c = cmd[s]
      /\ trip' = [trip EXCEPT ![c.trip].status =
                    IF c.op = "complete_trip" THEN "completed" ELSE "cancelled"]
      /\ passenger' = IF c.op = "complete_trip" THEN passenger
                      ELSE [passenger EXCEPT ![c.trip] = Dismiss(@)]
      /\ agreement' = agreement
  BY <1>1 DEF CommitClose, Ready, AtCommit
<1>3. /\ DOMAIN passenger = Requests /\ t \in Requests /\ trip[t] \in TripRow
      /\ trip \in [Requests -> TripRow \cup {NoRow}]
  BY <1>0, CommitContext DEF TripsTyped, Trips
<1>4. CASE c.op = "complete_trip" \/ t # c.trip
  BY <1>2, <1>3, <1>4 DEF MarkFresh
<1>5. CASE c.op # "complete_trip" /\ t = c.trip
  <2>1. /\ passenger'[t] = Dismiss(passenger[t])
        /\ trip'[t] = [trip[t] EXCEPT !.status = "cancelled"]
    BY <1>2, <1>3, <1>5
  <2>2. trip'[t].status = "cancelled"
    BY <1>3, <2>1 DEF TripRow
  <2>3. CASE passenger[t][a].status = "pending"
    <3>1. passenger'[t][a] = [status |-> "cancelled", version |-> passenger[t][a].version + 1]
      BY <2>1, <2>3 DEF Dismiss
    <3>2. passenger'[t][a].status = "cancelled"
      BY <3>1
    <3>3. QED
      BY <1>2, <2>2, <3>2 DEF MarkFresh
  <2>4. CASE passenger[t][a].status # "pending"
    <3>1. passenger'[t][a] = passenger[t][a]
      BY <2>1, <2>4 DEF Dismiss
    <3>2. QED
      BY <1>2, <3>1 DEF MarkFresh
  <2>5. QED
    BY <2>3, <2>4
<1>6. QED
  BY <1>2, <1>4, <1>5

LEMMA StepFresh ==
    ASSUME IInv, [Next]_vars
    PROVE  /\ \A t \in Trips : \A a \in DOMAIN passenger[t] : MarkFresh(t, a)
           /\ \A a \in Requests : SeatFresh(a)
<1>1. CASE passenger' = passenger /\ agreement' = agreement
  BY <1>1 DEF MarkFresh, SeatFresh
<1>2. ASSUME NEW s \in Sessions, CommitAgreement(s)
      PROVE  /\ \A t \in Trips : \A a \in DOMAIN passenger[t] : MarkFresh(t, a)
             /\ \A a \in Requests : SeatFresh(a)
  <2>1. \A a \in Requests : SeatFresh(a) /\ passenger' = passenger
    BY <1>2, AgreementFresh
  <2>2. \A t \in Trips : t \in Requests
    BY DEF Trips
  <2>3. QED
    BY <2>1, <2>2 DEF MarkFresh
<1>3. ASSUME NEW s \in Sessions, CommitStart(s)
      PROVE  /\ \A t \in Trips : \A a \in DOMAIN passenger[t] : MarkFresh(t, a)
             /\ \A a \in Requests : SeatFresh(a)
  <2>1. \A t \in Trips : passenger'[t] = passenger[t]
    BY <1>3, StartFresh
  <2>2. agreement' = agreement
    BY <1>3 DEF CommitStart
  <2>3. QED
    BY <2>1, <2>2 DEF MarkFresh, SeatFresh
<1>4. ASSUME NEW s \in Sessions, CommitPassenger(s) \/ CommitClose(s)
      PROVE  /\ \A t \in Trips : \A a \in DOMAIN passenger[t] : MarkFresh(t, a)
             /\ \A a \in Requests : SeatFresh(a)
  <2>1. \A t \in Trips : \A a \in DOMAIN passenger[t] : MarkFresh(t, a)
    BY <1>4, PassengerFresh, CloseFresh
  <2>2. agreement' = agreement
    BY <1>4 DEF CommitPassenger, CommitClose
  <2>3. QED
    BY <2>1, <2>2 DEF SeatFresh
<1>5. QED
  BY <1>1, <1>2, <1>3, <1>4, WhoWrites

\* A boarding mark is replaced only by the user whose page showed that very
\* row, or cancelled with its trip, and a seat is given only to a student who
\* is enrolled at that moment.
THEOREM DecisionsFresh == Spec => NoStaleDecision
<1>1. IInv /\ [Next]_vars =>
        [/\ \A t \in Trips : \A a \in DOMAIN passenger[t] :
              passenger'[t][a] # passenger[t][a] =>
               \/ /\ passenger'[t][a].status = "cancelled" /\ trip'[t].status = "cancelled"
               \/ \E s \in Sessions : /\ Ready(s, {"passenger"}) /\ pc'[s] = "idle"
                                      /\ page[s].version = passenger[t][a].version
                                      /\ cmd[s].trip = t /\ cmd[s].agreement = a
         /\ \A a \in Requests : agreement[a] = NoRow /\ agreement'[a] # NoRow =>
              agreement'[a].student \in enrolled]_vars
  BY StepFresh DEF MarkFresh, SeatFresh
<1>2. QED
  BY <1>1, Invariance, PTL DEF Spec, NoStaleDecision

-----------------------------------------------------------------------------
(* Live tracking. *)

LEMMA ClockNatural ==
    /\ Clock \subseteq Nat /\ 0 \in Clock
<1>1. Cardinality(Clock) \in Nat
  BY LiveConstantsAssumption, FS_CardinalityType
<1>2. QED
  BY <1>1, LiveConstantsAssumption

\* What a call carries depends on its operation.
CallHas(c) ==
    /\ c.op \in {"issue", "revoke", "ingest", "progress"}
    /\ c.op \in {"issue", "revoke"} => c.trip \in Requests
    /\ c.op \in {"issue", "ingest", "progress"} => c.token \in Tokens
    /\ c.op = "ingest" => c.at \in Clock
    /\ c.op = "progress" => c.stop \in Stops /\ c.stage \in {Stages[i] : i \in DOMAIN Stages}

LEMMA CallFields ==
    ASSUME NEW c \in Calls
    PROVE  CallHas(c)
<1>1. CASE c \in Issue \/ c \in Revoke
  BY <1>1 DEF CallHas, Issue, Revoke
<1>2. CASE c \in Fix
  BY <1>2 DEF CallHas, Fix
<1>3. CASE c \in Advance
  BY <1>3 DEF CallHas, Advance
<1>4. QED
  BY <1>1, <1>2, <1>3, LiveConstantsAssumption

LiveTablesFit ==
    /\ phone \in [Tokens -> PhoneRow \cup {NoRow}]
    /\ position \in [Vehicles -> PositionRow \cup {NoRow}]
    /\ progress \in [Requests -> ProgressRow \cup {NoRow}]
    /\ clock \in Clock
    /\ \A t \in Requests : progress[t] # NoRow =>
         [stop |-> progress[t].stop, order |-> progress[t].order] \in trip[t].stops
    /\ LiveRowsFit

CallersTyped ==
    /\ step \in [Callers -> Steps]
    /\ call \in [Callers -> Calls \cup {NoCommand}]
    /\ found \in [Callers -> PhoneRow \cup {NoRow}]
    /\ stamp \in [Callers -> Clock]
    /\ \A x \in Callers :
         step[x] = "idle" => call[x] = NoCommand /\ held[x] = {} /\ found[x] = NoRow

LEMMA LiveParts ==
    LiveIInv <=> /\ IInv /\ LiveTablesFit /\ CallersTyped /\ TokensApart
                 /\ \A x \in Callers : CallFits(x) /\ CallStands(x)
  BY DEF LiveIInv, LiveTypeOK, LiveTablesFit, CallersTyped, IInv

LEMMA LivePartsNext ==
    ASSUME IInv', LiveTablesFit', CallersTyped', TokensApart',
           \A x \in Callers : CallFits(x)' /\ CallStands(x)'
    PROVE  LiveIInv'
  BY DEF LiveIInv, LiveTypeOK, LiveTablesFit, CallersTyped, IInv

\* The call and the trip of a caller who is not idle.
LEMMA CallOf ==
    ASSUME LiveIInv, NEW x \in Callers, step[x] # "idle"
    PROVE  /\ call[x] \in Calls /\ CallHas(call[x]) /\ TripOf(x) \in Requests
           /\ call[x].op \in {"ingest", "progress"} => found[x] \in PhoneRow /\ TripOf(x) = found[x].trip
<1>1. call[x] \in Calls /\ CallFits(x) /\ CallersTyped
  BY LiveParts DEF CallFits
<1>2. CallHas(call[x])
  BY <1>1, CallFields
<1>3. call[x].op \in {"ingest", "progress"} => found[x] \in PhoneRow /\ TripOf(x) = found[x].trip
  BY <1>1 DEF CallFits, CallersTyped, TripOf
<1>4. TripOf(x) \in Requests
  BY <1>2, <1>3 DEF CallHas, TripOf, PhoneRow
<1>5. QED
  BY <1>1, <1>2, <1>3, <1>4

-----------------------------------------------------------------------------
(* What a step of somebody else has to leave alone. *)

CallerKept(y) ==
    /\ step'[y] = step[y] /\ call'[y] = call[y] /\ found'[y] = found[y]
    /\ stamp'[y] = stamp[y] /\ held'[y] = held[y]

PhonesKept ==
    \A k \in Tokens : phone[k] # NoRow =>
        /\ phone'[k] # NoRow /\ phone'[k].trip = phone[k].trip
        /\ phone'[k].expires = phone[k].expires

\* The row of the trip, its phones and what they have sent.
TripKept(t) ==
    /\ trip'[t] = trip[t] /\ progress'[t] = progress[t]
    /\ t \in OpenTrips => position'[trip[t].vehicle] = position[trip[t].vehicle]
    /\ \A k \in Tokens : Usable(k, t) =>
         phone'[k] # NoRow /\ phone'[k].trip = t /\ ~phone'[k].revoked

LEMMA CallerStays ==
    ASSUME LiveIInv, NEW y \in Callers, CallerKept(y), PhonesKept,
           step[y] = "commit" => TripKept(TripOf(y)),
           step[y] = "commit" /\ call[y].op = "issue" => phone'[call[y].token] = NoRow
    PROVE  CallFits(y)' /\ CallStands(y)'
<1>1. CallFits(y) /\ CallStands(y)
  BY LiveParts
<1>2. PICK c : c = call[y]
  OBVIOUS
<1>3. /\ step'[y] = step[y] /\ call'[y] = c /\ call[y] = c /\ found'[y] = found[y]
      /\ stamp'[y] = stamp[y] /\ held'[y] = held[y] /\ TripOf(y)' = TripOf(y)
  BY <1>2 DEF CallerKept, TripOf
<1>4. step[y] # "idle" => CallHas(c) /\ TripOf(y) \in Requests
  BY <1>3, CallOf
<1>5. CallFits(y)'
  BY <1>1, <1>3, <1>4 DEF CallFits, CallHas, PhonesKept
<1>6. CASE step[y] = "commit"
  <2>1. PICK t \in Requests : t = TripOf(y)
    BY <1>4, <1>6
  <2>2. TripKept(t)
    BY <1>6, <2>1
  <2>3. t \in Trips /\ t \in Trips' /\ (t \in OpenTrips => t \in OpenTrips')
    BY <1>1, <1>6, <2>1, <2>2 DEF CallStands, TripKept, Trips, OpenTrips
  <2>4. c.op \in {"ingest", "progress"} => /\ t \in OpenTrips' /\ Usable(c.token, t)'
                                           /\ stamp[y] < phone'[c.token].expires
    <3> SUFFICES ASSUME c.op \in {"ingest", "progress"}
                 PROVE  t \in OpenTrips' /\ Usable(c.token, t)' /\ stamp[y] < phone'[c.token].expires
      OBVIOUS
    <3>1. t \in OpenTrips /\ Usable(c.token, t) /\ stamp[y] < phone[c.token].expires
      BY <1>1, <1>2, <1>6, <2>1 DEF CallStands
    <3>2. c.token \in Tokens /\ phone[c.token] # NoRow
      BY <1>4, <1>6, <3>1 DEF CallHas, Usable
    <3>3. QED
      BY <2>2, <2>3, <3>1, <3>2 DEF TripKept, PhonesKept, Usable
  <2>5. c.op = "issue" => t \in OpenTrips' /\ phone'[c.token] = NoRow
    BY <1>1, <1>2, <1>6, <2>1, <2>3 DEF CallStands
  <2>6. c.op = "ingest" =>
          LET last == position'[trip'[t].vehicle] IN
          last # NoRow /\ last.trip = t => c.at > last.at /\ stamp[y] - last.received >= Gap
    <3> SUFFICES ASSUME c.op = "ingest"
                 PROVE  LET last == position'[trip'[t].vehicle] IN
                        last # NoRow /\ last.trip = t =>
                          c.at > last.at /\ stamp[y] - last.received >= Gap
      OBVIOUS
    <3>1. t \in OpenTrips
      BY <1>1, <1>2, <1>6, <2>1 DEF CallStands
    <3>2. position'[trip'[t].vehicle] = position[trip[t].vehicle]
      BY <2>2, <3>1 DEF TripKept
    <3>3. LET last == position[trip[t].vehicle] IN
          last # NoRow /\ last.trip = t => c.at > last.at /\ stamp[y] - last.received >= Gap
      BY <1>1, <1>2, <1>6, <2>1 DEF CallStands
    <3>4. QED
      BY <3>2, <3>3
  <2>7. c.op = "progress" => AdvanceAccepted(y)'
    <3> SUFFICES ASSUME c.op = "progress"
                 PROVE  AdvanceAccepted(y)'
      OBVIOUS
    <3>1. AdvanceAccepted(y)
      BY <1>1, <1>2, <1>6 DEF CallStands
    <3>2. trip'[t] = trip[t] /\ progress'[t] = progress[t]
      BY <2>2 DEF TripKept
    <3>3. Version(t)' = Version(t) /\ PlaceOf(t, c.stop)' = PlaceOf(t, c.stop)
      BY <3>2 DEF Version, PlaceOf
    <3>4. QED
      BY <1>3, <2>1, <3>1, <3>2, <3>3 DEF AdvanceAccepted
  <2>8. QED
    BY <1>3, <1>5, <2>1, <2>3, <2>4, <2>5, <2>6, <2>7 DEF CallStands
<1>7. CASE step[y] # "commit"
  BY <1>3, <1>5, <1>7 DEF CallStands
<1>8. QED
  BY <1>6, <1>7

-----------------------------------------------------------------------------
(* A step of the office. *)

\* A trip keeps its vehicle and its stops; while a call holds its row it does
\* not change at all.
LEMMA TripsStay ==
    ASSUME IInv, [Next]_vars, NEW t \in Trips
    PROVE  /\ t \in Trips' /\ trip'[t].vehicle = trip[t].vehicle /\ trip'[t].stops = trip[t].stops
           /\ (\E x \in Callers : TripLock(t) \in held[x]) => trip'[t] = trip[t]
<1>1. t \in Requests /\ trip[t] \in TripRow /\ trip[t] # NoRow
      /\ trip \in [Requests -> TripRow \cup {NoRow}] /\ RequestsLogged
  BY Parts DEF TablesTyped, TripsTyped, Trips, TablesStand
<1>2. CASE trip' = trip
  BY <1>1, <1>2 DEF Trips
<1>3. ASSUME NEW s \in Sessions, CommitStart(s)
      PROVE  trip'[t] = trip[t]
  <2>0. pc[s] = "commit"
    BY <1>3 DEF CommitStart, Ready
  <2>1. PICK c \in Commands : AtCommit(s, c)
    BY <2>0, CommitContext
  <2>2. PICK new : trip' = [trip EXCEPT ![c.req] = new]
    BY <1>3, <2>1 DEF CommitStart, AtCommit
  <2>3. trip[c.req] = NoRow
    BY <1>1, <2>1 DEF RequestsLogged, AtCommit, CommandFits
  <2>4. QED
    BY <1>1, <2>2, <2>3
<1>4. ASSUME NEW s \in Sessions, CommitClose(s)
      PROVE  /\ trip'[t].vehicle = trip[t].vehicle /\ trip'[t].stops = trip[t].stops
             /\ trip'[t] # NoRow
             /\ (\E x \in Callers : TripLock(t) \in held[x]) => trip'[t] = trip[t]
  <2>0. pc[s] = "commit"
    BY <1>4 DEF CommitClose, Ready
  <2>1. PICK c \in Commands : AtCommit(s, c)
    BY <2>0, CommitContext
  <2>2. c.op \in {"complete_trip", "cancel_trip"} /\ c = cmd[s]
    BY <1>4, <2>1 DEF CommitClose, Ready, AtCommit
  <2>3. PICK status \in {"completed", "cancelled"} : trip' = [trip EXCEPT ![c.trip].status = status]
    BY <1>4, <2>2 DEF CommitClose
  <2>4. TripLock(c.trip) \in held[s]
    BY <2>0, <2>2, CommitContext DEF HoldsLocks
  <2>5. (\E x \in Callers : TripLock(t) \in held[x]) => t # c.trip
    <3>1. LocksApart
      BY Parts
    <3>2. \A x \in Callers : x # s
      BY TransportConstantsAssumption
    <3>3. QED
      BY <2>4, <3>1, <3>2 DEF LocksApart
  <2>6. CASE t # c.trip
    BY <1>1, <2>3, <2>6
  <2>7. CASE t = c.trip
    <3>1. trip'[t] = [trip[t] EXCEPT !.status = status]
      BY <1>1, <2>3, <2>7
    <3>2. PICK row \in TripRow : row = trip[t]
      BY <1>1
    <3>3. [row EXCEPT !.status = status] \in TripRow
      BY DEF TripRow, TripStatus
    <3>4. trip'[t] # NoRow
      BY <3>1, <3>2, <3>3, NoTransportRowAssumption
    <3>5. trip'[t].vehicle = trip[t].vehicle /\ trip'[t].stops = trip[t].stops
      BY <3>1, <3>2 DEF TripRow
    <3>6. QED
      BY <2>5, <2>7, <3>4, <3>5
  <2>8. QED
    BY <2>6, <2>7
<1>5. \/ trip' = trip
      \/ \E s \in Sessions : CommitStart(s) \/ CommitClose(s)
  BY WhoWrites DEF CommitAgreement, CommitPassenger, journeys
<1>6. QED
  BY <1>1, <1>2, <1>3, <1>4, <1>5 DEF Trips

\* No session takes or gives back what a call holds.
LEMMA CallersHold ==
    ASSUME IInv, [Next]_vars, NEW x \in Callers
    PROVE  held'[x] = held[x]
<1>1. held \in [Sessions \cup Callers -> SUBSET Locks] /\ \A s \in Sessions : x # s
  BY Parts, TransportConstantsAssumption DEF SessionsTyped
<1>2. ASSUME NEW s \in Sessions, NEW lock, Acquire(s, lock)
      PROVE  held'[x] = held[x]
  BY <1>1, <1>2 DEF Acquire
<1>3. ASSUME NEW s \in Sessions, End(s)
      PROVE  held'[x] = held[x]
  BY <1>1, <1>3 DEF End
<1>4. ASSUME NEW s \in Sessions, Refuse(s)
      PROVE  held'[x] = held[x]
  BY <1>3, <1>4 DEF Refuse
<1>5. ASSUME NEW s \in Sessions, Commit(s)
      PROVE  held'[x] = held[x]
  <2>1. Record(s)
    BY <1>5 DEF Commit, CommitVehicle, CommitRoute, CommitStop, CommitOrder, CommitRun,
                CommitAgreement, CommitStart, CommitPassenger, CommitClose
  <2>2. QED
    BY <1>3, <2>1 DEF Record
<1>6. ASSUME NEW s \in Sessions, Work(s) \/ Abort(s)
      PROVE  held'[x] = held[x]
  <2>1. CASE OpenPage(s) \/ Decide(s)
    BY <2>1 DEF OpenPage, Decide
  <2>2. CASE Receive(s) \/ SavePage(s) \/ LockTrip(s)
    BY <1>2, <2>2 DEF Receive, SavePage, Begin, LockTrip
  <2>3. CASE Answer(s) \/ Deny(s) \/ Abort(s)
    BY <1>4, <2>3 DEF Answer, Deny, Abort
  <2>4. CASE LockStudent(s)
    BY <1>2, <1>4, <2>4 DEF LockStudent
  <2>5. QED
    BY <1>5, <1>6, <2>1, <2>2, <2>3, <2>4 DEF Work
<1>7. CASE UNCHANGED sessions
  BY <1>7 DEF sessions
<1>8. QED
  BY <1>6, <1>7 DEF Next, ChangeStatus, DayPasses, vars

LEMMA OfficeStep ==
    ASSUME LiveIInv, [Next]_vars, UNCHANGED live
    PROVE  LiveIInv'
<1>1. IInv /\ LiveTablesFit /\ CallersTyped /\ TokensApart
  BY LiveParts
<1>2. IInv'
  BY <1>1, StepKeeps, StutterKeeps
<1>3. /\ phone' = phone /\ position' = position /\ progress' = progress /\ clock' = clock
      /\ step' = step /\ call' = call /\ found' = found /\ stamp' = stamp
  BY DEF live, liveTables, callers
<1>4. \A x \in Callers : held'[x] = held[x]
  BY <1>1, CallersHold
<1>5. \A t \in Trips : t \in Trips' /\ trip'[t].vehicle = trip[t].vehicle /\ trip'[t].stops = trip[t].stops
  BY <1>1, TripsStay
<1>6. \A k, t : Usable(k, t)' = Usable(k, t)
  BY <1>3 DEF Usable
<1>7. LiveTablesFit'
  <2>1. LiveRowsFit'
    BY <1>1, <1>3, <1>5, <1>6 DEF LiveTablesFit, LiveRowsFit
  <2>2. \A t \in Requests : progress'[t] # NoRow =>
          [stop |-> progress'[t].stop, order |-> progress'[t].order] \in trip'[t].stops
    BY <1>1, <1>3, <1>5 DEF LiveTablesFit, LiveRowsFit
  <2>3. QED
    BY <1>1, <1>3, <2>1, <2>2 DEF LiveTablesFit
<1>8. CallersTyped' /\ TokensApart'
  BY <1>1, <1>3, <1>4 DEF CallersTyped, TokensApart
<1>9. ASSUME NEW y \in Callers
      PROVE  CallFits(y)' /\ CallStands(y)'
  <2>1. CallerKept(y) /\ PhonesKept
    BY <1>3, <1>4 DEF CallerKept, PhonesKept
  <2>2. step[y] = "commit" => TripKept(TripOf(y))
    <3> SUFFICES ASSUME step[y] = "commit"
                 PROVE  TripKept(TripOf(y))
      OBVIOUS
    <3>1. CallFits(y) /\ CallStands(y)
      BY LiveParts
    <3>2. TripOf(y) \in Trips /\ TripLock(TripOf(y)) \in held[y]
      BY <3>1 DEF CallFits, CallStands
    <3>3. trip'[TripOf(y)] = trip[TripOf(y)]
      BY <1>1, <3>2, TripsStay
    <3>4. QED
      BY <1>3, <3>3 DEF TripKept, Usable
  <2>3. step[y] = "commit" /\ call[y].op = "issue" => phone'[call[y].token] = NoRow
    <3>1. CallStands(y)
      BY LiveParts
    <3>2. QED
      BY <1>3, <3>1 DEF CallStands
  <2>4. QED
    BY <2>1, <2>2, <2>3, CallerStays
<1>10. QED
  BY <1>2, <1>7, <1>8, <1>9, LivePartsNext

-----------------------------------------------------------------------------
(* The steps of the calls. *)

\* Two calls never hold the row of one trip.
LEMMA TripsApart ==
    ASSUME LiveIInv, NEW x \in Callers, NEW y \in Callers, x # y,
           step[x] = "commit", step[y] = "commit"
    PROVE  TripOf(x) # TripOf(y)
<1>1. CallFits(x) /\ CallFits(y) /\ LocksApart
  BY LiveParts, Parts
<1>2. QED
  BY <1>1 DEF CallFits, LocksApart

\* What a step of one call has to show.
LEMMA CallMoves ==
    ASSUME LiveIInv, NEW x \in Callers, UNCHANGED office,
           held' \in [Sessions \cup Callers -> SUBSET Locks],
           \A z \in (Sessions \cup Callers) \ {x} : held'[z] = held[z],
           LocksApart', LiveTablesFit', CallersTyped', TokensApart',
           CallFits(x)' /\ CallStands(x)', PhonesKept,
           \A y \in Callers \ {x} :
             /\ CallerKept(y)
             /\ step[y] = "commit" => TripKept(TripOf(y))
             /\ step[y] = "commit" /\ call[y].op = "issue" => phone'[call[y].token] = NoRow
    PROVE  LiveIInv'
<1>1. \A t \in Sessions : held'[t] = held[t]
  BY TransportConstantsAssumption
<1>2. IInv'
  BY <1>1, LiveParts, OfficeStays
<1>3. ASSUME NEW y \in Callers
      PROVE  CallFits(y)' /\ CallStands(y)'
  <2>1. CASE y = x
    BY <2>1
  <2>2. CASE y # x
    BY <2>2, CallerStays
  <2>3. QED
    BY <2>1, <2>2
<1>4. QED
  BY <1>2, <1>3, LivePartsNext

\* The rows of the office and of the phones are as they were.
LEMMA NothingWritten ==
    ASSUME LiveIInv, UNCHANGED office, UNCHANGED liveTables, clock' = clock
    PROVE  /\ LiveTablesFit' /\ PhonesKept /\ phone' = phone
           /\ \A t : TripKept(t)
           /\ \A y \in Callers : step[y] = "commit" /\ call[y].op = "issue" =>
                phone'[call[y].token] = NoRow
           /\ trip' = trip /\ Trips' = Trips /\ OpenTrips' = OpenTrips
<1>1. /\ trip' = trip /\ phone' = phone /\ position' = position /\ progress' = progress
  BY DEF office, transportTables, journeys, liveTables
<1>2. Trips' = Trips /\ OpenTrips' = OpenTrips
  BY <1>1 DEF Trips, OpenTrips
<1>3. LiveTablesFit'
  BY <1>1, <1>2, LiveParts DEF LiveTablesFit, LiveRowsFit, Usable
<1>4. PhonesKept /\ \A t : TripKept(t)
  BY <1>1 DEF PhonesKept, TripKept, Usable
<1>5. ASSUME NEW y \in Callers, step[y] = "commit", call[y].op = "issue"
      PROVE  phone'[call[y].token] = NoRow
  BY <1>1, <1>5, LiveParts DEF CallStands
<1>6. QED
  BY <1>1, <1>2, <1>3, <1>4, <1>5

\* The call is over.
LEMMA CallGone ==
    ASSUME LiveIInv, NEW x \in Callers, CallEnds(x)
    PROVE  /\ held' \in [Sessions \cup Callers -> SUBSET Locks] /\ LocksApart'
           /\ \A z \in (Sessions \cup Callers) \ {x} : held'[z] = held[z]
           /\ CallersTyped' /\ TokensApart' /\ CallFits(x)' /\ CallStands(x)'
           /\ step'[x] = "idle"
           /\ \A y \in Callers \ {x} : CallerKept(y)
<1>1. /\ SessionsTyped /\ LocksApart /\ CallersTyped /\ TokensApart
  BY LiveParts, Parts
<1>2. /\ held' \in [Sessions \cup Callers -> SUBSET Locks] /\ held'[x] = {}
      /\ \A z \in (Sessions \cup Callers) \ {x} : held'[z] = held[z]
  BY <1>1 DEF CallEnds, SessionsTyped
<1>3. /\ step'[x] = "idle" /\ call'[x] = NoCommand /\ found'[x] = NoRow /\ stamp'[x] = 0
      /\ \A y \in Callers \ {x} : CallerKept(y)
  BY <1>1, <1>2 DEF CallEnds, CallersTyped, CallerKept
<1>4. LocksApart'
  BY <1>1, <1>2 DEF LocksApart
<1>5. CallersTyped'
  <2>1. /\ step' \in [Callers -> Steps] /\ call' \in [Callers -> Calls \cup {NoCommand}]
        /\ found' \in [Callers -> PhoneRow \cup {NoRow}] /\ stamp' \in [Callers -> Clock]
    BY <1>1, ClockNatural DEF CallEnds, CallersTyped, Steps
  <2>2. \A y \in Callers : step'[y] = "idle" => call'[y] = NoCommand /\ held'[y] = {} /\ found'[y] = NoRow
    BY <1>1, <1>2, <1>3 DEF CallersTyped, CallerKept
  <2>3. QED
    BY <2>1, <2>2 DEF CallersTyped
<1>6. TokensApart'
  <2> SUFFICES ASSUME NEW y \in Callers, NEW z \in Callers,
                      step'[y] # "idle", call'[y].op = "issue", step'[z] # "idle", call'[z].op = "issue",
                      call'[y].token = call'[z].token
               PROVE  y = z
    BY DEF TokensApart
  <2>1. y # x /\ z # x
    BY <1>3
  <2>2. QED
    BY <1>1, <1>3, <2>1 DEF TokensApart, CallerKept
<1>7. CallFits(x)' /\ CallStands(x)'
  BY <1>3 DEF CallFits, CallStands
<1>8. QED
  BY <1>2, <1>3, <1>4, <1>5, <1>6, <1>7

LEMMA RejectKeeps ==
    ASSUME LiveIInv, NEW x \in Callers, Reject(x)
    PROVE  LiveIInv'
<1>1. CallEnds(x) /\ UNCHANGED office /\ UNCHANGED liveTables /\ clock' = clock
  BY DEF Reject
<1>2. QED
  BY <1>1, CallGone, NothingWritten, CallMoves

LEMMA StaffCallKeeps ==
    ASSUME LiveIInv, NEW x \in Callers, StaffCall(x)
    PROVE  LiveIInv'
<1>1. PICK c \in Calls :
        /\ \/ c.op = "issue" /\ c.trip \in OpenTrips /\ trip[c.trip].stops # {} /\ Unused(c.token)
           \/ c.op = "revoke" /\ c.trip \in Trips
        /\ Acquire(x, TripLock(c.trip)) /\ call' = [call EXCEPT ![x] = c]
  BY DEF StaffCall
<1>2. /\ step[x] = "idle" /\ step' = [step EXCEPT ![x] = "commit"]
      /\ stamp' = [stamp EXCEPT ![x] = clock] /\ found' = found
      /\ UNCHANGED office /\ UNCHANGED liveTables /\ clock' = clock
  BY DEF StaffCall
<1>3. SessionsTyped /\ LocksApart /\ CallersTyped /\ TokensApart /\ clock \in Clock
  BY LiveParts, Parts DEF LiveTablesFit
<1>4. CallHas(c) /\ TripLock(c.trip) \in Locks
  BY <1>1, CallFields DEF CallHas, Locks
<1>5. /\ held' \in [Sessions \cup Callers -> SUBSET Locks] /\ held'[x] = held[x] \cup {TripLock(c.trip)}
      /\ \A z \in (Sessions \cup Callers) \ {x} : held'[z] = held[z]
      /\ LocksApart'
  BY <1>1, <1>3, <1>4, LockTaken
<1>6. /\ step'[x] = "commit" /\ call'[x] = c /\ held'[x] = {TripLock(c.trip)}
      /\ \A y \in Callers \ {x} : CallerKept(y)
  BY <1>1, <1>2, <1>3, <1>5 DEF CallersTyped, CallerKept
<1>7. CallersTyped'
  <2>1. /\ step' \in [Callers -> Steps] /\ call' \in [Callers -> Calls \cup {NoCommand}]
        /\ found' \in [Callers -> PhoneRow \cup {NoRow}] /\ stamp' \in [Callers -> Clock]
    BY <1>1, <1>2, <1>3 DEF CallersTyped, Steps
  <2>2. \A y \in Callers : step'[y] = "idle" => call'[y] = NoCommand /\ held'[y] = {} /\ found'[y] = NoRow
    BY <1>3, <1>6 DEF CallersTyped, CallerKept
  <2>3. QED
    BY <2>1, <2>2 DEF CallersTyped
<1>8. TokensApart'
  <2> SUFFICES ASSUME NEW y \in Callers, NEW z \in Callers,
                      step'[y] # "idle", call'[y].op = "issue", step'[z] # "idle", call'[z].op = "issue",
                      call'[y].token = call'[z].token
               PROVE  y = z
    BY DEF TokensApart
  <2>1. c.op = "issue" => \A w \in Callers : step[w] # "idle" /\ call[w].op = "issue" => call[w].token # c.token
    BY <1>1 DEF Unused
  <2>2. CASE y # x /\ z # x
    BY <1>3, <1>6, <2>2 DEF TokensApart, CallerKept
  <2>3. CASE y = x /\ z # x
    BY <1>6, <2>1, <2>3 DEF CallerKept
  <2>4. CASE z = x /\ y # x
    BY <1>6, <2>1, <2>4 DEF CallerKept
  <2>5. QED
    BY <2>2, <2>3, <2>4
<1>9. /\ LiveTablesFit' /\ PhonesKept /\ phone' = phone
      /\ \A t : TripKept(t)
      /\ \A y \in Callers : step[y] = "commit" /\ call[y].op = "issue" => phone'[call[y].token] = NoRow
      /\ Trips' = Trips /\ OpenTrips' = OpenTrips
  BY <1>2, NothingWritten
<1>10. CallFits(x)' /\ CallStands(x)'
  <2>1. c.op \in {"issue", "revoke"} /\ TripOf(x)' = c.trip
    BY <1>1, <1>6 DEF TripOf
  <2>2. CallFits(x)'
    BY <1>6, <2>1 DEF CallFits
  <2>3. c.trip \in Trips /\ (c.op = "issue" => c.trip \in OpenTrips /\ phone[c.token] = NoRow)
    BY <1>1 DEF OpenTrips, Unused
  <2>4. CallStands(x)'
    BY <1>6, <1>9, <2>1, <2>3 DEF CallStands
  <2>5. QED
    BY <2>2, <2>4
<1>11. QED
  BY <1>2, <1>5, <1>6, <1>7, <1>8, <1>9, <1>10, CallMoves

LEMMA PhoneCallKeeps ==
    ASSUME LiveIInv, NEW x \in Callers, PhoneCall(x)
    PROVE  LiveIInv'
<1>1. PICK c \in Calls :
        /\ c.op \in {"ingest", "progress"} /\ phone[c.token] # NoRow
        /\ call' = [call EXCEPT ![x] = c] /\ found' = [found EXCEPT ![x] = phone[c.token]]
  BY DEF PhoneCall
<1>2. /\ step[x] = "idle" /\ step' = [step EXCEPT ![x] = "lock"]
      /\ stamp' = stamp /\ held' = held
      /\ UNCHANGED office /\ UNCHANGED liveTables /\ clock' = clock
  BY DEF PhoneCall, vars, office, sessions
<1>3. SessionsTyped /\ LocksApart /\ CallersTyped /\ TokensApart /\ LiveTablesFit
  BY LiveParts, Parts
<1>4. CallHas(c) /\ phone[c.token] \in PhoneRow
  BY <1>1, <1>3, CallFields DEF CallHas, LiveTablesFit
<1>5. held' \in [Sessions \cup Callers -> SUBSET Locks] /\ LocksApart'
  BY <1>2, <1>3 DEF SessionsTyped, LocksApart
<1>6. /\ step'[x] = "lock" /\ call'[x] = c /\ found'[x] = phone[c.token] /\ held'[x] = {}
      /\ \A y \in Callers \ {x} : CallerKept(y)
  BY <1>1, <1>2, <1>3 DEF CallersTyped, CallerKept
<1>7. CallersTyped'
  <2>1. /\ step' \in [Callers -> Steps] /\ call' \in [Callers -> Calls \cup {NoCommand}]
        /\ found' \in [Callers -> PhoneRow \cup {NoRow}] /\ stamp' \in [Callers -> Clock]
    BY <1>1, <1>2, <1>3, <1>4 DEF CallersTyped, Steps
  <2>2. \A y \in Callers : step'[y] = "idle" => call'[y] = NoCommand /\ held'[y] = {} /\ found'[y] = NoRow
    BY <1>3, <1>6 DEF CallersTyped, CallerKept
  <2>3. QED
    BY <2>1, <2>2 DEF CallersTyped
<1>8. TokensApart'
  <2> SUFFICES ASSUME NEW y \in Callers, NEW z \in Callers,
                      step'[y] # "idle", call'[y].op = "issue", step'[z] # "idle", call'[z].op = "issue",
                      call'[y].token = call'[z].token
               PROVE  y = z
    BY DEF TokensApart
  <2>1. y # x /\ z # x
    BY <1>1, <1>6
  <2>2. QED
    BY <1>3, <1>6, <2>1 DEF TokensApart, CallerKept
<1>9. /\ LiveTablesFit' /\ PhonesKept /\ phone' = phone
      /\ \A t : TripKept(t)
      /\ \A y \in Callers : step[y] = "commit" /\ call[y].op = "issue" => phone'[call[y].token] = NoRow
  BY <1>2, NothingWritten
<1>10. CallFits(x)' /\ CallStands(x)'
  BY <1>1, <1>6, <1>9 DEF CallFits, CallStands
<1>11. QED
  BY <1>2, <1>5, <1>6, <1>7, <1>8, <1>9, <1>10, CallMoves

LEMMA TakeTripKeeps ==
    ASSUME LiveIInv, NEW x \in Callers, TakeTrip(x)
    PROVE  LiveIInv'
<1>1. /\ step[x] = "lock" /\ Acquire(x, TripLock(TripOf(x))) /\ CallAccepted(x)
      /\ step' = [step EXCEPT ![x] = "commit"] /\ stamp' = [stamp EXCEPT ![x] = clock]
      /\ call' = call /\ found' = found
      /\ UNCHANGED office /\ UNCHANGED liveTables /\ clock' = clock
  BY DEF TakeTrip
<1>2. SessionsTyped /\ LocksApart /\ CallersTyped /\ TokensApart /\ LiveTablesFit /\ CallFits(x)
  BY LiveParts, Parts
<1>3. PICK c \in Calls, t \in Requests : c = call[x] /\ t = TripOf(x)
  BY <1>1, CallOf
<1>4. /\ c.op \in {"ingest", "progress"} /\ held[x] = {} /\ CallHas(c)
      /\ found[x] # NoRow /\ phone[c.token] # NoRow /\ phone[c.token].trip = found[x].trip
      /\ t = found[x].trip
  BY <1>1, <1>2, <1>3, CallFields DEF CallFits, TripOf
<1>5. TripLock(t) \in Locks
  BY DEF Locks
<1>6. /\ held' \in [Sessions \cup Callers -> SUBSET Locks] /\ held'[x] = held[x] \cup {TripLock(t)}
      /\ \A z \in (Sessions \cup Callers) \ {x} : held'[z] = held[z]
      /\ LocksApart'
  BY <1>1, <1>2, <1>3, <1>5, LockTaken
<1>7. /\ step'[x] = "commit" /\ call'[x] = c /\ found'[x] = found[x] /\ stamp'[x] = clock
      /\ held'[x] = {TripLock(t)} /\ TripOf(x)' = t
      /\ \A y \in Callers \ {x} : CallerKept(y)
  <2>1. /\ step'[x] = "commit" /\ call'[x] = c /\ found'[x] = found[x] /\ stamp'[x] = clock
        /\ held'[x] = {TripLock(t)}
    BY <1>1, <1>2, <1>3, <1>4, <1>6 DEF CallersTyped
  <2>2. \A y \in Callers \ {x} : CallerKept(y)
    BY <1>1, <1>2, <1>6 DEF CallersTyped, CallerKept
  <2>3. QED
    BY <1>4, <2>1, <2>2 DEF TripOf
<1>8. CallersTyped' /\ TokensApart'
  <2>1. /\ step' \in [Callers -> Steps] /\ call' \in [Callers -> Calls \cup {NoCommand}]
        /\ found' \in [Callers -> PhoneRow \cup {NoRow}] /\ stamp' \in [Callers -> Clock]
    BY <1>1, <1>2 DEF CallersTyped, Steps, LiveTablesFit
  <2>2. \A y \in Callers : step'[y] = "idle" => call'[y] = NoCommand /\ held'[y] = {} /\ found'[y] = NoRow
    BY <1>2, <1>7 DEF CallersTyped, CallerKept
  <2>3. TokensApart'
    BY <1>1, <1>2, <1>3, <1>4, <1>7 DEF TokensApart, CallerKept
  <2>4. QED
    BY <2>1, <2>2, <2>3 DEF CallersTyped
<1>9. /\ LiveTablesFit' /\ PhonesKept /\ phone' = phone
      /\ \A u : TripKept(u)
      /\ \A y \in Callers : step[y] = "commit" /\ call[y].op = "issue" => phone'[call[y].token] = NoRow
      /\ trip' = trip /\ Trips' = Trips /\ OpenTrips' = OpenTrips
  BY <1>1, NothingWritten
<1>10. position' = position /\ progress' = progress
  BY <1>1 DEF liveTables
<1>11. /\ t \in OpenTrips /\ t \in Trips /\ Usable(c.token, t)
       /\ clock < phone[c.token].expires
  BY <1>1, <1>3, <1>4 DEF CallAccepted, Sharing, Usable, OpenTrips
<1>12. c.op = "ingest" =>
         LET last == position[trip[t].vehicle] IN
         last # NoRow /\ last.trip = t => c.at > last.at /\ clock - last.received >= Gap
  BY <1>1, <1>3 DEF CallAccepted, FixAccepted
<1>13. c.op = "progress" => AdvanceAccepted(x)'
  <2> SUFFICES ASSUME c.op = "progress"
               PROVE  AdvanceAccepted(x)'
    OBVIOUS
  <2>1. AdvanceAccepted(x)
    BY <1>1, <1>3 DEF CallAccepted
  <2>2. Version(t)' = Version(t) /\ PlaceOf(t, c.stop)' = PlaceOf(t, c.stop)
    BY <1>9, <1>10 DEF Version, PlaceOf
  <2>3. QED
    BY <1>3, <1>7, <1>9, <1>10, <2>1, <2>2 DEF AdvanceAccepted
<1>14. CallFits(x)' /\ CallStands(x)'
  <2>1. CallFits(x)'
    BY <1>4, <1>7, <1>9 DEF CallFits
  <2>2. Usable(c.token, t)'
    BY <1>9, <1>11 DEF Usable
  <2>3. CallStands(x)'
    BY <1>4, <1>7, <1>9, <1>10, <1>11, <1>12, <1>13, <2>2 DEF CallStands
  <2>4. QED
    BY <2>1, <2>3
<1>15. QED
  BY <1>1, <1>6, <1>7, <1>8, <1>9, <1>14, CallMoves

LEMMA TimePassesKeeps ==
    ASSUME LiveIInv, TimePasses
    PROVE  LiveIInv'
<1>1. /\ clock' \in Clock /\ UNCHANGED vars /\ UNCHANGED liveTables /\ UNCHANGED callers
  BY DEF TimePasses
<1>2. /\ trip' = trip /\ held' = held /\ phone' = phone /\ position' = position /\ progress' = progress
      /\ step' = step /\ call' = call /\ found' = found /\ stamp' = stamp
  BY <1>1 DEF vars, transportTables, journeys, sessions, liveTables, callers
<1>3. IInv /\ LiveTablesFit /\ CallersTyped /\ TokensApart
  BY LiveParts
<1>4. IInv'
  BY <1>1, <1>3, StutterKeeps
<1>5. Trips' = Trips /\ OpenTrips' = OpenTrips
  BY <1>2 DEF Trips, OpenTrips
<1>6. LiveTablesFit'
  BY <1>1, <1>2, <1>3, <1>5 DEF LiveTablesFit, LiveRowsFit, Usable
<1>7. CallersTyped' /\ TokensApart'
  BY <1>2, <1>3 DEF CallersTyped, TokensApart
<1>8. ASSUME NEW y \in Callers
      PROVE  CallFits(y)' /\ CallStands(y)'
  <2>1. CallerKept(y) /\ PhonesKept /\ TripKept(TripOf(y))
    BY <1>2 DEF CallerKept, PhonesKept, TripKept, Usable
  <2>2. step[y] = "commit" /\ call[y].op = "issue" => phone'[call[y].token] = NoRow
    BY <1>2, LiveParts DEF CallStands
  <2>3. QED
    BY <2>1, <2>2, CallerStays
<1>9. QED
  BY <1>4, <1>6, <1>7, <1>8, LivePartsNext

\* A trip that loses its phones.
LEMMA PhonesRevoked ==
    ASSUME LiveIInv, NEW t \in Requests, NEW k \in Tokens
    PROVE  /\ RevokeAll(t)[k] \in PhoneRow \cup {NoRow}
           /\ (RevokeAll(t)[k] = NoRow) <=> (phone[k] = NoRow)
           /\ phone[k] # NoRow =>
                /\ RevokeAll(t)[k].trip = phone[k].trip /\ RevokeAll(t)[k].expires = phone[k].expires
                /\ RevokeAll(t)[k].revoked <=> phone[k].revoked \/ phone[k].trip = t
                /\ phone[k].trip # t => RevokeAll(t)[k] = phone[k]
<1>1. phone[k] \in PhoneRow \cup {NoRow}
  BY LiveParts DEF LiveTablesFit
<1>2. CASE phone[k] # NoRow /\ phone[k].trip = t
  <2>1. PICK row \in PhoneRow : row = phone[k]
    BY <1>1, <1>2
  <2>2. RevokeAll(t)[k] = [row EXCEPT !.revoked = TRUE]
    BY <1>2, <2>1 DEF RevokeAll
  <2>3. PICK new : new = [row EXCEPT !.revoked = TRUE]
    OBVIOUS
  <2>4. new \in PhoneRow /\ new.trip = row.trip /\ new.expires = row.expires /\ new.revoked
    BY <2>3 DEF PhoneRow
  <2>5. new # NoRow
    BY <2>4, LiveConstantsAssumption
  <2>6. QED
    BY <1>2, <2>1, <2>2, <2>3, <2>4, <2>5
<1>3. CASE ~(phone[k] # NoRow /\ phone[k].trip = t)
  <2>1. RevokeAll(t)[k] = phone[k]
    BY <1>3 DEF RevokeAll
  <2>2. QED
    BY <1>1, <1>3, <2>1
<1>4. QED
  BY <1>2, <1>3

\* A call that only writes phones of its own trip leaves the others what they
\* have checked.
LEMMA OtherTrips ==
    ASSUME LiveIInv, NEW x \in Callers, step[x] = "commit", UNCHANGED office,
           position' = position, progress' = progress,
           \A k \in Tokens : phone[k] # NoRow /\ phone[k].trip # TripOf(x) => phone'[k] = phone[k],
           NEW y \in Callers \ {x}, step[y] = "commit"
    PROVE  TripKept(TripOf(y))
<1>1. PICK t, u : t = TripOf(x) /\ u = TripOf(y)
  OBVIOUS
<1>2. t # u
  BY <1>1, TripsApart
<1>3. trip' = trip
  BY DEF office, transportTables, journeys
<1>4. ASSUME NEW k \in Tokens, Usable(k, u)
      PROVE  phone'[k] # NoRow /\ phone'[k].trip = u /\ ~phone'[k].revoked
  BY <1>1, <1>2, <1>4 DEF Usable
<1>5. TripKept(u)
  BY <1>3, <1>4 DEF TripKept
<1>6. QED
  BY <1>1, <1>5

LEMMA CommitRevokeKeeps ==
    ASSUME LiveIInv, NEW x \in Callers, CommitRevoke(x)
    PROVE  LiveIInv'
<1>1. /\ step[x] = "commit" /\ phone' = RevokeAll(TripOf(x)) /\ CallEnds(x)
      /\ UNCHANGED office /\ position' = position /\ progress' = progress /\ clock' = clock
  BY DEF CommitRevoke, At
<1>2. PICK t \in Requests : t = TripOf(x)
  BY <1>1, CallOf
<1>3. LiveTablesFit
  BY LiveParts
<1>4. \A k \in Tokens :
        /\ phone'[k] \in PhoneRow \cup {NoRow}
        /\ (phone'[k] = NoRow) <=> (phone[k] = NoRow)
        /\ phone[k] # NoRow =>
             /\ phone'[k].trip = phone[k].trip /\ phone'[k].expires = phone[k].expires
             /\ phone'[k].revoked <=> phone[k].revoked \/ phone[k].trip = t
             /\ phone[k].trip # t => phone'[k] = phone[k]
  BY <1>1, <1>2, PhonesRevoked
<1>5. PhonesKept
  BY <1>4 DEF PhonesKept
<1>6. trip' = trip /\ Trips' = Trips
  BY <1>1 DEF office, transportTables, journeys, Trips
<1>7. LiveTablesFit'
  <2>1. phone' \in [Tokens -> PhoneRow \cup {NoRow}]
    BY <1>1, <1>2, <1>4 DEF RevokeAll
  <2>2. \A k \in Tokens, u \in Requests : Usable(k, u)' => Usable(k, u)
    BY <1>4 DEF Usable
  <2>3. \A k, m \in Tokens, u \in Requests : Usable(k, u)' /\ Usable(m, u)' => k = m
    BY <1>3, <2>2 DEF LiveTablesFit, LiveRowsFit
  <2>4. LiveRowsFit'
    BY <1>1, <1>3, <1>6, <2>3 DEF LiveTablesFit, LiveRowsFit
  <2>5. QED
    BY <1>1, <1>3, <1>6, <2>1, <2>4 DEF LiveTablesFit
<1>8. ASSUME NEW y \in Callers \ {x}
      PROVE  /\ step[y] = "commit" => TripKept(TripOf(y))
             /\ step[y] = "commit" /\ call[y].op = "issue" => phone'[call[y].token] = NoRow
  <2>1. step[y] = "commit" => TripKept(TripOf(y))
    BY <1>1, <1>2, <1>4, OtherTrips
  <2>2. step[y] = "commit" /\ call[y].op = "issue" => phone'[call[y].token] = NoRow
    <3> SUFFICES ASSUME step[y] = "commit", call[y].op = "issue"
                 PROVE  phone'[call[y].token] = NoRow
      OBVIOUS
    <3>1. call[y].token \in Tokens /\ phone[call[y].token] = NoRow
      BY CallOf, LiveParts DEF CallHas, CallStands
    <3>2. QED
      BY <1>4, <3>1
  <2>3. QED
    BY <2>1, <2>2
<1>9. QED
  BY <1>1, <1>5, <1>7, <1>8, CallGone, CallMoves

LEMMA CommitIssueKeeps ==
    ASSUME LiveIInv, NEW x \in Callers, CommitIssue(x)
    PROVE  LiveIInv'
<1>1. /\ step[x] = "commit" /\ call[x].op = "issue" /\ CallEnds(x)
      /\ phone' = [RevokeAll(TripOf(x)) EXCEPT ![call[x].token] =
                     [trip |-> TripOf(x), revoked |-> FALSE, expires |-> stamp[x] + Life]]
      /\ UNCHANGED office /\ position' = position /\ progress' = progress /\ clock' = clock
  BY DEF CommitIssue, At
<1>2. PICK t \in Requests, q \in Tokens : t = TripOf(x) /\ q = call[x].token
  BY <1>1, CallOf DEF CallHas
<1>3. LiveTablesFit /\ CallersTyped /\ TokensApart /\ phone[q] = NoRow
  BY <1>1, <1>2, LiveParts DEF CallStands
<1>4. PICK new : new = [trip |-> t, revoked |-> FALSE, expires |-> stamp[x] + Life]
  OBVIOUS
<1>5. new \in PhoneRow /\ new # NoRow /\ new.trip = t /\ ~new.revoked
  <2>1. stamp[x] + Life \in Nat
    <3>1. stamp[x] \in Clock /\ Life \in Nat
      BY <1>3, LiveConstantsAssumption DEF CallersTyped
    <3>2. stamp[x] \in Nat
      BY <3>1, ClockNatural
    <3>3. QED
      BY <3>1, <3>2
  <2>2. new \in PhoneRow /\ new.trip = t /\ ~new.revoked
    BY <1>4, <2>1 DEF PhoneRow
  <2>3. QED
    BY <2>2, LiveConstantsAssumption
<1>6. /\ phone'[q] = new
      /\ \A k \in Tokens : k # q => phone'[k] = RevokeAll(t)[k]
  BY <1>1, <1>2, <1>4 DEF RevokeAll
<1>7. \A k \in Tokens : k # q =>
        /\ phone'[k] \in PhoneRow \cup {NoRow}
        /\ (phone'[k] = NoRow) <=> (phone[k] = NoRow)
        /\ phone[k] # NoRow =>
             /\ phone'[k].trip = phone[k].trip /\ phone'[k].expires = phone[k].expires
             /\ phone'[k].revoked <=> phone[k].revoked \/ phone[k].trip = t
             /\ phone[k].trip # t => phone'[k] = phone[k]
  BY <1>6, PhonesRevoked
<1>8. PhonesKept
  BY <1>3, <1>7 DEF PhonesKept
<1>9. trip' = trip /\ Trips' = Trips
  BY <1>1 DEF office, transportTables, journeys, Trips
<1>10. LiveTablesFit'
  <2>1. phone' \in [Tokens -> PhoneRow \cup {NoRow}]
    BY <1>1, <1>5, <1>6, <1>7 DEF RevokeAll
  <2>2. \A k \in Tokens, u \in Requests :
          Usable(k, u)' => (k = q /\ u = t) \/ (k # q /\ u # t /\ Usable(k, u))
    BY <1>5, <1>6, <1>7 DEF Usable
  <2>3. \A k, m \in Tokens, u \in Requests : Usable(k, u)' /\ Usable(m, u)' => k = m
    BY <1>3, <2>2 DEF LiveTablesFit, LiveRowsFit
  <2>4. LiveRowsFit'
    BY <1>1, <1>3, <1>9, <2>3 DEF LiveTablesFit, LiveRowsFit
  <2>5. QED
    BY <1>1, <1>3, <1>9, <2>1, <2>4 DEF LiveTablesFit
<1>11. ASSUME NEW y \in Callers \ {x}
       PROVE  /\ step[y] = "commit" => TripKept(TripOf(y))
              /\ step[y] = "commit" /\ call[y].op = "issue" => phone'[call[y].token] = NoRow
  <2>1. step[y] = "commit" => TripKept(TripOf(y))
    BY <1>1, <1>2, <1>3, <1>7, OtherTrips
  <2>2. step[y] = "commit" /\ call[y].op = "issue" => phone'[call[y].token] = NoRow
    <3> SUFFICES ASSUME step[y] = "commit", call[y].op = "issue"
                 PROVE  phone'[call[y].token] = NoRow
      OBVIOUS
    <3>1. call[y].token \in Tokens /\ phone[call[y].token] = NoRow
      BY CallOf, LiveParts DEF CallHas, CallStands
    <3>2. call[y].token # q
      BY <1>1, <1>2, <1>3 DEF TokensApart
    <3>3. QED
      BY <1>7, <3>1, <3>2
  <2>3. QED
    BY <2>1, <2>2
<1>12. QED
  BY <1>1, <1>8, <1>10, <1>11, CallGone, CallMoves

\* The trip of a phone's call that writes: it is open, and nobody else drives
\* its vehicle.
LEMMA TripOfCall ==
    ASSUME LiveIInv, NEW x \in Callers, step[x] = "commit", call[x].op \in {"ingest", "progress"}
    PROVE  \E t \in OpenTrips :
             /\ t = TripOf(x) /\ t \in Requests /\ t \in Trips
             /\ trip[t] \in TripRow /\ trip[t] # NoRow /\ trip[t].vehicle \in Vehicles
             /\ Usable(call[x].token, t) /\ stamp[x] < phone[call[x].token].expires
             /\ stamp[x] \in Clock /\ call[x] \in Calls /\ CallHas(call[x])
             /\ \A u \in OpenTrips : u # t => trip[u].vehicle # trip[t].vehicle
<1>1. CallStands(x) /\ TablesTyped /\ CallersTyped /\ TripsConsistent
  BY LiveParts, Parts DEF TablesStand
<1>2. PICK t \in OpenTrips : t = TripOf(x)
  BY <1>1 DEF CallStands
<1>3. t \in Trips /\ t \in Requests /\ trip[t] \in TripRow /\ trip[t] # NoRow
  BY <1>1 DEF OpenTrips, Trips, TablesTyped, TripsTyped
<1>4. trip[t].vehicle \in Vehicles
  BY <1>3 DEF TripRow
<1>5. Usable(call[x].token, t) /\ stamp[x] < phone[call[x].token].expires
  BY <1>1, <1>2 DEF CallStands
<1>6. call[x] \in Calls /\ CallHas(call[x]) /\ stamp[x] \in Clock
  BY <1>1, CallOf DEF CallersTyped
<1>7. \A u \in OpenTrips : u # t => trip[u].vehicle # trip[t].vehicle
  BY <1>1, TripParts DEF OneDispatch
<1>8. QED
  BY <1>2, <1>3, <1>4, <1>5, <1>6, <1>7

LEMMA CommitFixKeeps ==
    ASSUME LiveIInv, NEW x \in Callers, CommitFix(x)
    PROVE  LiveIInv'
<1>1. /\ step[x] = "commit" /\ call[x].op = "ingest" /\ CallEnds(x)
      /\ position' = [position EXCEPT ![trip[TripOf(x)].vehicle] =
                        [trip |-> TripOf(x), token |-> call[x].token, at |-> call[x].at,
                         received |-> stamp[x]]]
      /\ UNCHANGED office /\ phone' = phone /\ progress' = progress /\ clock' = clock
  BY DEF CommitFix, At
<1>2. PICK t \in OpenTrips :
        /\ t = TripOf(x) /\ t \in Requests /\ t \in Trips /\ trip[t].vehicle \in Vehicles
        /\ stamp[x] \in Clock /\ CallHas(call[x])
        /\ \A u \in OpenTrips : u # t => trip[u].vehicle # trip[t].vehicle
  BY <1>1, TripOfCall
<1>3. LiveTablesFit
  BY LiveParts
<1>4. PICK v \in Vehicles : v = trip[t].vehicle
  BY <1>2
<1>5. PICK new : new = [trip |-> t, token |-> call[x].token, at |-> call[x].at, received |-> stamp[x]]
  OBVIOUS
<1>6. new \in PositionRow /\ new.trip = t
  BY <1>1, <1>2, <1>5 DEF PositionRow, CallHas
<1>7. /\ position' \in [Vehicles -> PositionRow \cup {NoRow}]
      /\ position'[v] = new /\ \A w \in Vehicles : w # v => position'[w] = position[w]
  BY <1>1, <1>2, <1>3, <1>4, <1>5, <1>6 DEF LiveTablesFit
<1>8. trip' = trip /\ Trips' = Trips
  BY <1>1 DEF office, transportTables, journeys, Trips
<1>9. LiveTablesFit'
  <2>1. \A w \in Vehicles : position'[w] # NoRow =>
          position'[w].trip \in Trips /\ trip[position'[w].trip].vehicle = w
    BY <1>2, <1>3, <1>4, <1>6, <1>7 DEF LiveTablesFit, LiveRowsFit
  <2>2. \A k, m \in Tokens, u \in Requests : Usable(k, u)' /\ Usable(m, u)' => k = m
    BY <1>1, <1>3 DEF LiveTablesFit, LiveRowsFit, Usable
  <2>3. LiveRowsFit'
    BY <1>1, <1>3, <1>8, <2>1, <2>2 DEF LiveTablesFit, LiveRowsFit
  <2>4. QED
    BY <1>1, <1>3, <1>7, <1>8, <2>3 DEF LiveTablesFit
<1>10. PhonesKept
  BY <1>1 DEF PhonesKept
<1>11. ASSUME NEW y \in Callers \ {x}
       PROVE  /\ step[y] = "commit" => TripKept(TripOf(y))
              /\ step[y] = "commit" /\ call[y].op = "issue" => phone'[call[y].token] = NoRow
  <2>1. step[y] = "commit" => TripKept(TripOf(y))
    <3> SUFFICES ASSUME step[y] = "commit"
                 PROVE  TripKept(TripOf(y))
      OBVIOUS
    <3>1. PICK u : u = TripOf(y)
      OBVIOUS
    <3>2. u # t
      BY <1>1, <1>2, <3>1, TripsApart
    <3>3. u \in OpenTrips => position'[trip[u].vehicle] = position[trip[u].vehicle]
      <4> SUFFICES ASSUME u \in OpenTrips
                   PROVE  position'[trip[u].vehicle] = position[trip[u].vehicle]
        OBVIOUS
      <4>1. trip[u].vehicle \in Vehicles
        BY Parts, LiveParts DEF TablesTyped, TripsTyped, OpenTrips, Trips, TripRow
      <4>2. QED
        BY <1>2, <1>4, <1>7, <3>2, <4>1
    <3>4. TripKept(u)
      BY <1>1, <1>8, <3>3 DEF TripKept, Usable
    <3>5. QED
      BY <3>1, <3>4
  <2>2. step[y] = "commit" /\ call[y].op = "issue" => phone'[call[y].token] = NoRow
    BY <1>1, LiveParts DEF CallStands
  <2>3. QED
    BY <2>1, <2>2
<1>12. QED
  BY <1>1, <1>9, <1>10, <1>11, CallGone, CallMoves

\* The stop a helper reports is one of the trip's.
LEMMA PlaceFound ==
    ASSUME IInv, NEW t \in Trips, NEW z, \E y \in trip[t].stops : y.stop = z
    PROVE  /\ [stop |-> z, order |-> PlaceOf(t, z)] \in trip[t].stops
           /\ PlaceOf(t, z) \in Nat /\ z \in Stops
<1>1. trip[t] \in TripRow
  BY Parts DEF TablesTyped, TripsTyped, Trips
<1>2. PICK place : place = CHOOSE y \in trip[t].stops : y.stop = z
  OBVIOUS
<1>3. place \in trip[t].stops /\ place.stop = z
  BY <1>2
<1>4. PlaceOf(t, z) = place.order
  BY <1>2 DEF PlaceOf
<1>5. place \in [stop: Stops, order: Nat]
  BY <1>1, <1>3 DEF TripRow
<1>6. place = [stop |-> z, order |-> PlaceOf(t, z)]
  BY <1>3, <1>4, <1>5
<1>7. QED
  BY <1>3, <1>5, <1>6

LEMMA CommitAdvanceKeeps ==
    ASSUME LiveIInv, NEW x \in Callers, CommitAdvance(x)
    PROVE  LiveIInv'
<1>1. /\ step[x] = "commit" /\ call[x].op = "progress" /\ CallEnds(x)
      /\ progress' = [progress EXCEPT ![TripOf(x)] =
                        [stop |-> call[x].stop, order |-> PlaceOf(TripOf(x), call[x].stop),
                         stage |-> call[x].stage, version |-> Version(TripOf(x)) + 1]]
      /\ UNCHANGED office /\ phone' = phone /\ position' = position /\ clock' = clock
  BY DEF CommitAdvance, At
<1>2. PICK t \in OpenTrips :
        t = TripOf(x) /\ t \in Requests /\ t \in Trips /\ CallHas(call[x])
  BY <1>1, TripOfCall
<1>3. LiveTablesFit /\ IInv
  BY LiveParts
<1>4. PICK c : c = call[x]
  OBVIOUS
<1>5. [stop |-> c.stop, order |-> PlaceOf(t, c.stop)] \in trip[t].stops /\ PlaceOf(t, c.stop) \in Nat
  <2>1. AdvanceAccepted(x)
    BY <1>1, LiveParts DEF CallStands
  <2>2. \E y \in trip[t].stops : y.stop = c.stop
    BY <1>2, <1>4, <2>1 DEF AdvanceAccepted
  <2>3. QED
    BY <1>2, <1>3, <2>2, PlaceFound
<1>6. Version(t) + 1 \in Nat \ {0}
  BY <1>2, <1>3 DEF Version, LiveTablesFit, ProgressRow
<1>7. PICK new : new = [stop |-> c.stop, order |-> PlaceOf(t, c.stop), stage |-> c.stage,
                        version |-> Version(t) + 1]
  OBVIOUS
<1>8. new \in ProgressRow /\ [stop |-> new.stop, order |-> new.order] \in trip[t].stops
  BY <1>1, <1>2, <1>4, <1>5, <1>6, <1>7 DEF ProgressRow, CallHas
<1>9. /\ progress' \in [Requests -> ProgressRow \cup {NoRow}]
      /\ progress'[t] = new /\ \A u \in Requests : u # t => progress'[u] = progress[u]
  BY <1>1, <1>2, <1>3, <1>4, <1>7, <1>8 DEF LiveTablesFit
<1>10. trip' = trip /\ Trips' = Trips
  BY <1>1 DEF office, transportTables, journeys, Trips
<1>11. LiveTablesFit'
  <2>1. \A u \in Requests : progress'[u] # NoRow =>
          /\ u \in Trips
          /\ [stop |-> progress'[u].stop, order |-> progress'[u].order] \in trip[u].stops
    BY <1>2, <1>3, <1>8, <1>9 DEF LiveTablesFit, LiveRowsFit
  <2>2. \A k, m \in Tokens, u \in Requests : Usable(k, u)' /\ Usable(m, u)' => k = m
    BY <1>1, <1>3 DEF LiveTablesFit, LiveRowsFit, Usable
  <2>3. LiveRowsFit'
    BY <1>1, <1>3, <1>10, <2>1, <2>2 DEF LiveTablesFit, LiveRowsFit
  <2>4. QED
    BY <1>1, <1>3, <1>9, <1>10, <2>1, <2>3 DEF LiveTablesFit
<1>12. PhonesKept
  BY <1>1 DEF PhonesKept
<1>13. ASSUME NEW y \in Callers \ {x}
       PROVE  /\ step[y] = "commit" => TripKept(TripOf(y))
              /\ step[y] = "commit" /\ call[y].op = "issue" => phone'[call[y].token] = NoRow
  <2>1. step[y] = "commit" => TripKept(TripOf(y))
    <3> SUFFICES ASSUME step[y] = "commit"
                 PROVE  TripKept(TripOf(y))
      OBVIOUS
    <3>1. PICK u \in Requests : u = TripOf(y)
      BY CallOf
    <3>2. u # t
      BY <1>1, <1>2, <3>1, TripsApart
    <3>3. TripKept(u)
      BY <1>1, <1>9, <1>10, <3>2 DEF TripKept, Usable
    <3>4. QED
      BY <3>1, <3>3
  <2>2. step[y] = "commit" /\ call[y].op = "issue" => phone'[call[y].token] = NoRow
    BY <1>1, LiveParts DEF CallStands
  <2>3. QED
    BY <2>1, <2>2
<1>14. QED
  BY <1>1, <1>11, <1>12, <1>13, CallGone, CallMoves

-----------------------------------------------------------------------------
(* The inductive invariant of the live tracking. *)

LEMMA LiveInitIInv ==
    ASSUME LiveInit
    PROVE  LiveIInv
<1>1. /\ Init
      /\ phone = [k \in Tokens |-> NoRow] /\ position = [v \in Vehicles |-> NoRow]
      /\ progress = [t \in Requests |-> NoRow] /\ clock = 0
      /\ step = [x \in Callers |-> "idle"] /\ call = [x \in Callers |-> NoCommand]
      /\ found = [x \in Callers |-> NoRow] /\ stamp = [x \in Callers |-> 0]
  BY DEF LiveInit
<1>2. IInv
  BY <1>1, InitIInv
<1>3. LiveTablesFit
  BY <1>1, ClockNatural DEF LiveTablesFit, LiveRowsFit, Usable
<1>4. CallersTyped
  <2>1. \A x \in Callers : held[x] = {}
    BY <1>1 DEF Init
  <2>2. QED
    BY <1>1, <2>1, ClockNatural DEF CallersTyped, Steps
<1>5. TokensApart /\ \A x \in Callers : CallFits(x) /\ CallStands(x)
  BY <1>1 DEF TokensApart, CallFits, CallStands
<1>6. QED
  BY <1>2, <1>3, <1>4, <1>5, LiveParts

LEMMA LiveStepKeeps ==
    ASSUME LiveIInv, [LiveNext]_liveVars
    PROVE  LiveIInv'
<1>1. CASE Next /\ UNCHANGED live
  BY <1>1, OfficeStep
<1>2. ASSUME NEW x \in Callers, Serve(x)
      PROVE  LiveIInv'
  <2>1. CASE StaffCall(x) \/ PhoneCall(x) \/ TakeTrip(x)
    BY <2>1, StaffCallKeeps, PhoneCallKeeps, TakeTripKeeps
  <2>2. CASE TurnAway(x)
    BY <2>2, RejectKeeps DEF TurnAway
  <2>3. CASE CommitIssue(x) \/ CommitRevoke(x)
    BY <2>3, CommitIssueKeeps, CommitRevokeKeeps
  <2>4. CASE CommitFix(x) \/ CommitAdvance(x)
    BY <2>4, CommitFixKeeps, CommitAdvanceKeeps
  <2>5. QED
    BY <1>2, <2>1, <2>2, <2>3, <2>4 DEF Serve
<1>3. ASSUME NEW x \in Callers, Drop(x)
      PROVE  LiveIInv'
  BY <1>3, RejectKeeps DEF Drop
<1>4. CASE TimePasses
  BY <1>4, TimePassesKeeps
<1>5. CASE UNCHANGED liveVars
  BY <1>5, OfficeStep DEF liveVars
<1>6. QED
  BY <1>1, <1>2, <1>3, <1>4, <1>5 DEF LiveNext

\* Beside the commands of the office, the calls of any number of phones and
\* staff keep the inductive invariant: what a call has checked under the row of
\* its trip still stands when it writes (CallStands), because whoever closes the
\* trip or replaces its phone holds that row too.
THEOREM LiveInvariance == LiveSpec => []LiveIInv
<1>1. LiveInit => LiveIInv
  BY LiveInitIInv
<1>2. LiveIInv /\ [LiveNext]_liveVars => LiveIInv'
  BY LiveStepKeeps
<1>3. QED
  BY <1>1, <1>2, PTL DEF LiveSpec

\* Phones, positions and progress keep their types, a recorded stop is one of
\* its trip's, and a call that has ended holds no trip.
THEOREM LiveTypeCorrect == LiveSpec => []LiveTypeOK
<1>1. LiveIInv => LiveTypeOK
  BY DEF LiveIInv
<1>2. QED
  BY <1>1, LiveInvariance, PTL

\* The dispatch stays consistent with the phones' calls taking its trips' locks.
THEOREM DispatchStandsLive == LiveSpec => []DispatchConsistent
<1>1. LiveIInv => DispatchConsistent
  BY DEF LiveIInv, IInv, DispatchConsistent
<1>2. QED
  BY <1>1, LiveInvariance, PTL

-----------------------------------------------------------------------------
(* What a phone writes. *)

LEMMA WhoReports ==
    ASSUME [LiveNext]_liveVars
    PROVE  \/ position' = position /\ progress' = progress
           \/ \E x \in Callers : CommitFix(x) \/ CommitAdvance(x)
<1>1. CASE UNCHANGED live
  BY <1>1 DEF live, liveTables
<1>2. ASSUME NEW x \in Callers, Serve(x)
      PROVE  \/ position' = position /\ progress' = progress
             \/ CommitFix(x) \/ CommitAdvance(x)
  <2>1. CASE StaffCall(x) \/ PhoneCall(x) \/ TakeTrip(x) \/ TurnAway(x)
    BY <2>1 DEF StaffCall, PhoneCall, TakeTrip, TurnAway, Reject, liveTables
  <2>2. CASE CommitIssue(x) \/ CommitRevoke(x)
    BY <2>2 DEF CommitIssue, CommitRevoke
  <2>3. QED
    BY <1>2, <2>1, <2>2 DEF Serve
<1>3. ASSUME NEW x \in Callers, Drop(x)
      PROVE  position' = position /\ progress' = progress
  BY <1>3 DEF Drop, Reject, liveTables
<1>4. CASE TimePasses
  BY <1>4 DEF TimePasses, liveTables
<1>5. QED
  BY <1>1, <1>2, <1>3, <1>4 DEF LiveNext, liveVars

\* A position or a progress is written for an open trip by its usable phone.
WrittenByPhone ==
    /\ \A v \in Vehicles : position'[v] # position[v] =>
         LET new == position'[v] IN
         /\ new.trip \in OpenTrips /\ trip[new.trip].vehicle = v
         /\ Usable(new.token, new.trip) /\ new.received < phone[new.token].expires
    /\ \A t \in Requests : progress'[t] # progress[t] =>
         /\ t \in OpenTrips
         /\ \E x \in Callers : /\ step[x] = "commit" /\ step'[x] = "idle"
                               /\ Usable(call[x].token, t)

\* A journey goes on.
JourneyGoesOn ==
    /\ \A v \in Vehicles : position[v] # NoRow /\ position'[v] # position[v] =>
         IF position'[v].trip = position[v].trip
         THEN /\ position'[v].at > position[v].at
              /\ position'[v].received >= position[v].received + Gap
         ELSE position[v].trip \notin OpenTrips
    /\ \A t \in Requests : progress[t] # NoRow /\ progress'[t] # progress[t] =>
         /\ progress'[t].version = progress[t].version + 1
         /\ \/ progress'[t].order > progress[t].order
            \/ /\ progress'[t].stop = progress[t].stop
               /\ Rank(progress'[t].stage) > Rank(progress[t].stage)

LEMMA FixWritten ==
    ASSUME LiveIInv, NEW x \in Callers, CommitFix(x)
    PROVE  WrittenByPhone /\ JourneyGoesOn
<1>1. /\ step[x] = "commit" /\ call[x].op = "ingest"
      /\ position' = [position EXCEPT ![trip[TripOf(x)].vehicle] =
                        [trip |-> TripOf(x), token |-> call[x].token, at |-> call[x].at,
                         received |-> stamp[x]]]
      /\ progress' = progress
  BY DEF CommitFix, At
<1>2. PICK t \in OpenTrips :
        /\ t = TripOf(x) /\ t \in Requests /\ t \in Trips /\ trip[t].vehicle \in Vehicles
        /\ Usable(call[x].token, t) /\ stamp[x] < phone[call[x].token].expires
        /\ stamp[x] \in Clock /\ CallHas(call[x])
        /\ \A u \in OpenTrips : u # t => trip[u].vehicle # trip[t].vehicle
  BY <1>1, TripOfCall
<1>3. LiveTablesFit /\ CallStands(x)
  BY LiveParts
<1>4. PICK v, c, time : v \in Vehicles /\ v = trip[t].vehicle /\ c = call[x] /\ time = stamp[x]
  BY <1>2
<1>5. PICK new : new = [trip |-> t, token |-> c.token, at |-> c.at, received |-> time]
  OBVIOUS
<1>6. new.trip = t /\ new.token = c.token /\ new.at = c.at /\ new.received = time
  BY <1>5
<1>7. position'[v] = new /\ \A w \in Vehicles : w # v => position'[w] = position[w]
  BY <1>1, <1>2, <1>3, <1>4, <1>5 DEF LiveTablesFit
<1>8. WrittenByPhone
  BY <1>1, <1>2, <1>4, <1>6, <1>7 DEF WrittenByPhone
<1>9. ASSUME NEW last, last = position[v], last # NoRow
      PROVE  IF new.trip = last.trip
             THEN new.at > last.at /\ new.received >= last.received + Gap
             ELSE last.trip \notin OpenTrips
  <2>1. CASE last.trip = t
    <3>1. c.at > last.at /\ time - last.received >= Gap
      BY <1>1, <1>2, <1>3, <1>4, <1>9, <2>1 DEF CallStands
    <3>2. last \in PositionRow
      BY <1>3, <1>4, <1>9 DEF LiveTablesFit
    <3>3. last.received \in Clock
      BY <3>2 DEF PositionRow
    <3>4. last.received \in Nat /\ time \in Nat
      BY <1>2, <1>4, <3>3, ClockNatural
    <3>5. time >= last.received + Gap
      BY <3>1, <3>4, LiveConstantsAssumption
    <3>6. QED
      BY <1>6, <2>1, <3>1, <3>5
  <2>2. CASE last.trip # t
    <3>1. trip[last.trip].vehicle = v
      BY <1>3, <1>4, <1>9 DEF LiveTablesFit, LiveRowsFit
    <3>2. last.trip \notin OpenTrips
      BY <1>2, <1>4, <2>2, <3>1
    <3>3. QED
      BY <1>6, <2>2, <3>2
  <2>3. QED
    BY <2>1, <2>2
<1>10. JourneyGoesOn
  <2> SUFFICES ASSUME NEW w \in Vehicles, position[w] # NoRow, position'[w] # position[w]
               PROVE  IF position'[w].trip = position[w].trip
                      THEN /\ position'[w].at > position[w].at
                           /\ position'[w].received >= position[w].received + Gap
                      ELSE position[w].trip \notin OpenTrips
    BY <1>1 DEF JourneyGoesOn
  <2>1. w = v
    BY <1>7
  <2>2. PICK last : last = position[w]
    OBVIOUS
  <2>3. QED
    BY <1>7, <1>9, <2>1, <2>2
<1>11. QED
  BY <1>8, <1>10

LEMMA AdvanceWritten ==
    ASSUME LiveIInv, NEW x \in Callers, CommitAdvance(x)
    PROVE  WrittenByPhone /\ JourneyGoesOn
<1>1. /\ step[x] = "commit" /\ call[x].op = "progress" /\ CallEnds(x)
      /\ progress' = [progress EXCEPT ![TripOf(x)] =
                        [stop |-> call[x].stop, order |-> PlaceOf(TripOf(x), call[x].stop),
                         stage |-> call[x].stage, version |-> Version(TripOf(x)) + 1]]
      /\ position' = position
  BY DEF CommitAdvance, At
<1>2. PICK t \in OpenTrips :
        /\ t = TripOf(x) /\ t \in Requests /\ t \in Trips /\ Usable(call[x].token, t)
  BY <1>1, TripOfCall
<1>3. LiveTablesFit /\ IInv /\ AdvanceAccepted(x) /\ RidersSeated
  BY <1>1, LiveParts, Parts DEF CallStands, TablesStand
<1>4. PICK c : c = call[x]
  OBVIOUS
<1>5. PICK new : new = [stop |-> c.stop, order |-> PlaceOf(t, c.stop), stage |-> c.stage,
                        version |-> Version(t) + 1]
  OBVIOUS
<1>6. /\ new.stop = c.stop /\ new.order = PlaceOf(t, c.stop) /\ new.stage = c.stage
      /\ new.version = Version(t) + 1
  BY <1>5
<1>7. progress'[t] = new /\ \A u \in Requests : u # t => progress'[u] = progress[u]
  BY <1>1, <1>2, <1>3, <1>4, <1>5 DEF LiveTablesFit
<1>8. step'[x] = "idle"
  BY <1>1, CallGone
<1>9. WrittenByPhone
  BY <1>1, <1>2, <1>7, <1>8 DEF WrittenByPhone
<1>10. ASSUME NEW last, last = progress[t], last # NoRow
       PROVE  /\ new.version = last.version + 1
              /\ \/ new.order > last.order
                 \/ new.stop = last.stop /\ Rank(new.stage) > Rank(last.stage)
  <2>1. Version(t) = last.version
    BY <1>10 DEF Version
  <2>2. \/ PlaceOf(t, c.stop) > last.order
        \/ PlaceOf(t, c.stop) = last.order /\ Rank(c.stage) > Rank(last.stage)
    BY <1>2, <1>3, <1>4, <1>10 DEF AdvanceAccepted
  <2>3. \E y \in trip[t].stops : y.stop = c.stop
    BY <1>2, <1>3, <1>4 DEF AdvanceAccepted
  <2>4. PICK y, z : /\ y = [stop |-> c.stop, order |-> PlaceOf(t, c.stop)]
                    /\ z = [stop |-> last.stop, order |-> last.order]
    OBVIOUS
  <2>5. y \in trip[t].stops /\ z \in trip[t].stops
    BY <1>2, <1>3, <1>10, <2>3, <2>4, PlaceFound DEF LiveTablesFit
  <2>6. PlaceOf(t, c.stop) = last.order => c.stop = last.stop
    <3> SUFFICES ASSUME PlaceOf(t, c.stop) = last.order
                 PROVE  c.stop = last.stop
      OBVIOUS
    <3>1. y.order = z.order /\ y.stop = c.stop /\ z.stop = last.stop
      BY <2>4
    <3>2. y = z
      BY <1>2, <1>3, <2>5, <3>1 DEF RidersSeated
    <3>3. QED
      BY <3>1, <3>2
  <2>7. QED
    BY <1>6, <2>1, <2>2, <2>6
<1>11. JourneyGoesOn
  <2> SUFFICES ASSUME NEW u \in Requests, progress[u] # NoRow, progress'[u] # progress[u]
               PROVE  /\ progress'[u].version = progress[u].version + 1
                      /\ \/ progress'[u].order > progress[u].order
                         \/ /\ progress'[u].stop = progress[u].stop
                            /\ Rank(progress'[u].stage) > Rank(progress[u].stage)
    BY <1>1 DEF JourneyGoesOn
  <2>1. u = t
    BY <1>7
  <2>2. PICK last : last = progress[u]
    OBVIOUS
  <2>3. QED
    BY <1>7, <1>10, <2>1, <2>2
<1>12. QED
  BY <1>9, <1>11

LEMMA ReportsFit ==
    ASSUME LiveIInv, [LiveNext]_liveVars
    PROVE  WrittenByPhone /\ JourneyGoesOn
<1>1. CASE position' = position /\ progress' = progress
  BY <1>1 DEF WrittenByPhone, JourneyGoesOn
<1>2. QED
  BY <1>1, WhoReports, FixWritten, AdvanceWritten

\* A trip never has two usable phones, and only the one it has, while the trip
\* is open, writes its position and its progress.
THEOREM SharingStops == LiveSpec => SharingEnds
<1>1. LiveIInv => \A k, m \in Tokens, t \in Requests : Usable(k, t) /\ Usable(m, t) => k = m
  BY DEF LiveIInv, LiveRowsFit
<1>2. LiveIInv /\ [LiveNext]_liveVars =>
        [/\ \A v \in Vehicles : position'[v] # position[v] =>
              LET new == position'[v] IN
              /\ new.trip \in OpenTrips /\ trip[new.trip].vehicle = v
              /\ Usable(new.token, new.trip) /\ new.received < phone[new.token].expires
         /\ \A t \in Requests : progress'[t] # progress[t] =>
              /\ t \in OpenTrips
              /\ \E x \in Callers : /\ step[x] = "commit" /\ step'[x] = "idle"
                                    /\ Usable(call[x].token, t)]_liveVars
  BY ReportsFit DEF WrittenByPhone
<1>3. QED
  BY <1>1, <1>2, LiveInvariance, PTL DEF LiveSpec, SharingEnds

\* In whatever order the calls of a trip's phones arrive, and however often, a
\* position is replaced by a newer one and a stop by a later one.
THEOREM JourneysGoOn == LiveSpec => JourneyForward
<1>1. LiveIInv /\ [LiveNext]_liveVars =>
        [/\ \A v \in Vehicles : position[v] # NoRow /\ position'[v] # position[v] =>
              IF position'[v].trip = position[v].trip
              THEN /\ position'[v].at > position[v].at
                   /\ position'[v].received >= position[v].received + Gap
              ELSE position[v].trip \notin OpenTrips
         /\ \A t \in Requests : progress[t] # NoRow /\ progress'[t] # progress[t] =>
              /\ progress'[t].version = progress[t].version + 1
              /\ \/ progress'[t].order > progress[t].order
                 \/ /\ progress'[t].stop = progress[t].stop
                    /\ Rank(progress'[t].stage) > Rank(progress[t].stage)]_liveVars
  BY ReportsFit DEF JourneyGoesOn
<1>2. QED
  BY <1>1, LiveInvariance, PTL DEF LiveSpec, JourneyForward

-----------------------------------------------------------------------------
(* Transport implements BusRides. *)

RidesBar == <<SeatOf, RideOf, RiderOf, enrolled>>

\* What a row of an agreement and of a trip is to BusRides.
SeatRow(row) == [student |-> row.student, runs |-> RunsOf(row.legs), current |-> row.active]
RideRow(row) == [run |-> row.run, status |-> row.status]

LEMMA RideFields ==
    \A row : /\ SeatRow(row).student = row.student /\ SeatRow(row).runs = RunsOf(row.legs)
             /\ SeatRow(row).current = row.active
             /\ RideRow(row).run = row.run /\ RideRow(row).status = row.status
  BY DEF SeatRow, RideRow

LEMMA SeatsRead ==
    /\ DOMAIN SeatOf = Requests
    /\ \A a \in Requests :
         /\ agreement[a] = NoRow => SeatOf[a] = {}
         /\ agreement[a] # NoRow => SeatOf[a] = {SeatRow(agreement[a])}
  BY DEF SeatOf, SeatRow

LEMMA SeatsReadNext ==
    /\ DOMAIN SeatOf' = Requests
    /\ \A a \in Requests :
         /\ agreement'[a] = NoRow => SeatOf'[a] = {}
         /\ agreement'[a] # NoRow => SeatOf'[a] = {SeatRow(agreement'[a])}
  BY DEF SeatOf, SeatRow

LEMMA RidesRead ==
    /\ RideOf = [t \in Requests |-> RideOf[t]]
    /\ RiderOf = [t \in Requests |-> RiderOf[t]]
    /\ \A t \in Requests :
         /\ trip[t] = NoRow => RideOf[t] = {}
         /\ trip[t] # NoRow => RideOf[t] = {RideRow(trip[t])}
    /\ \A t \in Requests :
         /\ RiderOf[t] = [a \in Requests |-> RiderOf[t][a]]
         /\ \A a \in Requests :
              /\ a \in DOMAIN passenger[t] => RiderOf[t][a] = {passenger[t][a].status}
              /\ a \notin DOMAIN passenger[t] => RiderOf[t][a] = {}
  BY DEF RideOf, RideRow, RiderOf

LEMMA RidesReadNext ==
    /\ RideOf' = [t \in Requests |-> RideOf'[t]]
    /\ RiderOf' = [t \in Requests |-> RiderOf'[t]]
    /\ \A t \in Requests :
         /\ trip'[t] = NoRow => RideOf'[t] = {}
         /\ trip'[t] # NoRow => RideOf'[t] = {RideRow(trip'[t])}
    /\ \A t \in Requests :
         /\ RiderOf'[t] = [a \in Requests |-> RiderOf'[t][a]]
         /\ \A a \in Requests :
              /\ a \in DOMAIN passenger'[t] => RiderOf'[t][a] = {passenger'[t][a].status}
              /\ a \notin DOMAIN passenger'[t] => RiderOf'[t][a] = {}
  BY DEF RideOf, RideRow, RiderOf

LEMMA RideStays ==
    ASSUME NEW t \in Requests
    PROVE  /\ trip'[t] = trip[t] => RideOf'[t] = RideOf[t]
           /\ passenger'[t] = passenger[t] => RiderOf'[t] = RiderOf[t]
  BY DEF RideOf, RiderOf

\* The seats that are current and the journeys that are open.
LEMMA CurrentSeats ==
    ASSUME PlanTyped, NEW a \in Requests
    PROVE  /\ a \in ActiveAgreements => Rides!Current(a) = {SeatRow(agreement[a])}
           /\ a \notin ActiveAgreements => Rides!Current(a) = {}
<1>1. CASE agreement[a] = NoRow
  BY <1>1, SeatsRead DEF Rides!Current, ActiveAgreements
<1>2. CASE agreement[a] # NoRow
  <2>1. SeatOf[a] = {SeatRow(agreement[a])} /\ SeatRow(agreement[a]).current = agreement[a].active
    BY <1>2, SeatsRead, RideFields
  <2>2. QED
    BY <1>2, <2>1 DEF Rides!Current, ActiveAgreements
<1>3. QED
  BY <1>1, <1>2

LEMMA OpenRides ==
    ASSUME NEW t \in Requests
    PROVE  /\ t \in OpenTrips => Rides!Open(t) = {RideRow(trip[t])}
           /\ t \notin OpenTrips => Rides!Open(t) = {}
<1>1. CASE trip[t] = NoRow
  BY <1>1, RidesRead DEF Rides!Open, OpenTrips, Trips
<1>2. CASE trip[t] # NoRow
  <2>1. RideOf[t] = {RideRow(trip[t])} /\ RideRow(trip[t]).status = trip[t].status
    BY <1>2, RidesRead, RideFields
  <2>2. QED
    BY <1>2, <2>1 DEF Rides!Open, OpenTrips, Trips
<1>3. QED
  BY <1>1, <1>2

\* Whom a student's lock and the checks of a new agreement let in.
LEMMA SeatGiven ==
    ASSUME PlanTyped, NEW q \in Requests, agreement[q] = NoRow, agreement'[q] # NoRow,
           agreement'[q].active, agreement'[q].student \in enrolled,
           NEW ending \in SUBSET Requests,
           \A a \in ActiveAgreements \ ending : agreement[a].student # agreement'[q].student
    PROVE  Rides!Seat(q, ending)
<1>1. SeatOf[q] = {} /\ SeatOf'[q] = {SeatRow(agreement'[q])}
  BY SeatsRead, SeatsReadNext
<1>2. PICK new : new = SeatRow(agreement'[q])
  OBVIOUS
<1>3. new.current /\ new.student = agreement'[q].student
  BY <1>2, RideFields
<1>4. Rides!Unseated(new.student, ending)
  <2> SUFFICES ASSUME NEW a \in Requests \ ending, NEW x \in Rides!Current(a)
               PROVE  x.student # new.student
    BY DEF Rides!Unseated
  <2>1. a \in ActiveAgreements /\ x = SeatRow(agreement[a])
    BY CurrentSeats
  <2>2. QED
    BY <1>3, <2>1, RideFields
<1>5. QED
  BY <1>1, <1>2, <1>3, <1>4 DEF Rides!Seat

\* Whose agreement ends: nobody who is on a journey.
LEMMA SeatTaken ==
    ASSUME PlanTyped, NEW b \in ActiveAgreements, MayEnd(b),
           agreement'[b] = [agreement[b] EXCEPT !.active = FALSE]
    PROVE  /\ Rides!Unseat(b)
           /\ SeatOf'[b] = {SeatRow(agreement'[b])} /\ agreement'[b].student = agreement[b].student
           /\ SeatOf'[b] # SeatOf[b]
<1>1. PICK old \in AgreementRow : old = agreement[b] /\ old # NoRow /\ old.active /\ b \in Requests
  BY DEF PlanTyped, ActiveAgreements
<1>2. PICK new : new = [old EXCEPT !.active = FALSE]
  OBVIOUS
<1>3. new \in AgreementRow /\ new.student = old.student /\ new.legs = old.legs /\ ~new.active
  BY <1>2 DEF AgreementRow
<1>4. agreement'[b] = new /\ new # NoRow
  BY <1>1, <1>2, <1>3, NoTransportRowAssumption
<1>5. SeatOf[b] = {SeatRow(old)} /\ SeatOf'[b] = {SeatRow(new)}
  BY <1>1, <1>4, SeatsRead, SeatsReadNext
<1>6. SeatRow(new) = [SeatRow(old) EXCEPT !.current = FALSE]
  <2>1. new.active = FALSE
    BY <1>3 DEF AgreementRow
  <2>2. PICK rows : rows = [student: {old.student}, runs: {RunsOf(old.legs)}, current: BOOLEAN]
    OBVIOUS
  <2>3. SeatRow(old) \in rows /\ SeatRow(new) \in rows
    BY <1>3, <2>1, <2>2 DEF SeatRow, AgreementRow
  <2>4. PICK x, y \in rows : x = SeatRow(old) /\ y = SeatRow(new) /\ y.current = FALSE
    BY <2>1, <2>3, RideFields
  <2>5. y = [x EXCEPT !.current = FALSE]
    BY <2>2, <2>4
  <2>6. QED
    BY <2>4, <2>5
<1>7. SeatOf'[b] = {[x EXCEPT !.current = FALSE] : x \in SeatOf[b]}
  BY <1>5, <1>6
<1>8. Rides!Current(b) # {}
  BY CurrentSeats, <1>1
<1>9. \A t \in Requests : Rides!Open(t) # {} => RiderOf[t][b] = {}
  <2> SUFFICES ASSUME NEW t \in Requests, Rides!Open(t) # {} PROVE RiderOf[t][b] = {}
    OBVIOUS
  <2>1. b \notin DOMAIN passenger[t]
    BY OpenRides DEF MayEnd
  <2>2. QED
    BY <1>1, <2>1, RidesRead
<1>10. SeatRow(new) # SeatRow(old)
  BY <1>1, <1>3, RideFields
<1>11. QED
  BY <1>1, <1>3, <1>4, <1>5, <1>7, <1>8, <1>9, <1>10 DEF Rides!Unseat

LEMMA AgreementImplements ==
    ASSUME IInv, NEW s \in Sessions, CommitAgreement(s)
    PROVE  Rides!Next
<1>0. pc[s] = "commit"
  BY DEF CommitAgreement, Ready
<1>c. PlanTyped /\ TripsTyped /\ RequestsLogged /\ HoldsLocks(s)
  BY <1>0, CommitContext
<1>1. PICK c \in Commands : AtCommit(s, c)
  BY <1>0, CommitContext
<1>2. /\ c.op \in {"assign", "change_assignment", "end_assignment"} /\ c = cmd[s] /\ Accepts(s)
      /\ agreement' = [a \in Requests |->
            CASE c.op # "end_assignment" /\ a = c.req -> NewAgreement(c)
              [] c.op # "assign" /\ a = c.agreement -> [agreement[a] EXCEPT !.active = FALSE]
              [] OTHER -> agreement[a]]
      /\ trip' = trip /\ passenger' = passenger /\ enrolled' = enrolled
  BY <1>1 DEF CommitAgreement, Ready, AtCommit, Record, world, journeys
<1>3. PICK q \in Requests : q = c.req /\ agreement[q] = NoRow
  BY <1>c, <1>1, NewRequest
<1>4. UNCHANGED <<RideOf, RiderOf, enrolled>>
  BY <1>2 DEF RideOf, RiderOf
<1>5. c.op # "assign" => /\ MayEnd(c.agreement) /\ c.agreement \in ActiveAgreements
                         /\ c.agreement \in Requests /\ c.agreement # q
  <2>1. c.op # "assign" => MayEnd(c.agreement)
    BY <1>2 DEF Accepts
  <2>2. QED
    BY <1>3, <2>1 DEF MayEnd, ActiveAgreements
<1>6. c.op # "assign" =>
        agreement'[c.agreement] = [agreement[c.agreement] EXCEPT !.active = FALSE]
  BY <1>2, <1>3, <1>5
<1>7. c.op # "end_assignment" =>
        /\ agreement'[q] # NoRow /\ agreement'[q].active /\ agreement'[q].student = c.student
        /\ c.student \in enrolled
  <2> SUFFICES ASSUME c.op # "end_assignment"
               PROVE  /\ agreement'[q] # NoRow /\ agreement'[q].active
                      /\ agreement'[q].student = c.student /\ c.student \in enrolled
    OBVIOUS
  <2>1. c.student \in Students /\ c.legs \in Legs
    BY <1>1, <1>2 DEF AtCommit, CommandFits
  <2>2. PICK row : row = NewAgreement(c)
    OBVIOUS
  <2>3. row \in AgreementRow /\ row.active /\ row.student = c.student
    BY <2>1, <2>2 DEF NewAgreement, AgreementRow
  <2>4. agreement'[q] = row
    <3>1. c.op # "end_assignment" /\ q = c.req /\ ~(c.op # "assign" /\ q = c.agreement)
      BY <1>3, <1>5
    <3>2. QED
      BY <1>2, <2>2, <3>1
  <2>5. c.student \in enrolled
    BY <1>0, <1>2, <1>c DEF HoldsLocks
  <2>6. QED
    BY <2>3, <2>4, <2>5, NoTransportRowAssumption
<1>8. ASSUME NEW changed \in SUBSET Requests,
             c.op # "end_assignment" => q \in changed, c.op # "assign" => c.agreement \in changed
      PROVE  Rides!Others(changed)
  <2> SUFFICES ASSUME NEW a \in Requests \ changed PROVE SeatOf'[a] = SeatOf[a]
    BY SeatsReadNext DEF Rides!Others
  <2>1. agreement'[a] = agreement[a]
    BY <1>2, <1>3, <1>8
  <2>2. QED
    BY <2>1, SeatsRead, SeatsReadNext
<1>9. c.op # "end_assignment" => SeatOf' # SeatOf
  BY <1>3, <1>7, SeatsRead, SeatsReadNext
<1>10. CASE c.op = "assign"
  <2>1. \A a \in ActiveAgreements \ {} : agreement[a].student # c.student
    BY <1>2, <1>10 DEF Accepts, MayAssign
  <2>2. Rides!Seat(q, {})
    BY <1>c, <1>3, <1>7, <1>10, <2>1, SeatGiven
  <2>3. Rides!Reserve(q)
    BY <1>8, <1>10, <2>2 DEF Rides!Reserve
  <2>4. QED
    BY <1>4, <1>9, <1>10, <2>3 DEF Rides!Next, Rides!Plan
<1>11. CASE c.op = "change_assignment"
  <2>1. PICK b \in ActiveAgreements : b = c.agreement /\ b \in Requests
    BY <1>5, <1>11
  <2>2. /\ MayEnd(b) /\ agreement'[b] = [agreement[b] EXCEPT !.active = FALSE]
        /\ agreement[b].student = c.student
    BY <1>2, <1>5, <1>6, <1>11, <2>1 DEF Accepts
  <2>3. \A a \in ActiveAgreements \ {b} : agreement[a].student # c.student
    BY <1>2, <1>11, <2>1 DEF Accepts, MayAssign
  <2>4. Rides!Seat(q, {b})
    BY <1>c, <1>3, <1>7, <1>11, <2>1, <2>3, SeatGiven
  <2>5. /\ Rides!Unseat(b) /\ SeatOf'[b] = {SeatRow(agreement'[b])}
        /\ agreement'[b].student = c.student
    BY <1>c, <2>2, SeatTaken
  <2>6. SeatOf'[q] = {SeatRow(agreement'[q])}
    BY <1>7, <1>11, SeatsReadNext
  <2>7. \A x \in SeatOf'[b], n \in SeatOf'[q] : x.student = n.student
    BY <1>7, <1>11, <2>5, <2>6, RideFields
  <2>8. Rides!Others({b, q})
    BY <1>8, <2>1
  <2>9. Rides!Swap(b, q)
    BY <2>4, <2>5, <2>7, <2>8 DEF Rides!Swap
  <2>10. QED
    BY <1>4, <1>9, <1>11, <2>1, <2>9 DEF Rides!Next, Rides!Plan
<1>12. CASE c.op = "end_assignment"
  <2>1. PICK b \in ActiveAgreements : b = c.agreement /\ b \in Requests
    BY <1>5, <1>12
  <2>2. Rides!Unseat(b) /\ SeatOf'[b] # SeatOf[b]
    BY <1>c, <1>5, <1>6, <1>12, <2>1, SeatTaken
  <2>3. Rides!Others({b})
    BY <1>8, <1>12, <2>1
  <2>4. Rides!Release(b)
    BY <2>2, <2>3 DEF Rides!Release
  <2>5. QED
    BY <1>4, <2>1, <2>2, <2>4 DEF Rides!Next, Rides!Plan
<1>13. QED
  BY <1>2, <1>10, <1>11, <1>12

\* A dispatch: riders with a seat on its run, which no other open trip serves.
LEMMA StartImplements ==
    ASSUME IInv, NEW s \in Sessions, CommitStart(s)
    PROVE  Rides!Next
<1>0. pc[s] = "commit"
  BY DEF CommitStart, Ready
<1>c. PlanTyped /\ TripsTyped /\ RequestsLogged /\ RunsKept /\ DecisionStands(s)
  BY <1>0, CommitContext
<1>1. PICK c \in Commands : AtCommit(s, c)
  BY <1>0, CommitContext
<1>2. /\ c.op = "start_trip" /\ c = cmd[s]
      /\ trip' = [trip EXCEPT ![c.req] = NewTrip(c.run, roster[s])]
      /\ passenger' = [passenger EXCEPT ![c.req] =
              [a \in roster[s] |-> [status |-> "pending", version |-> 1]]]
      /\ agreement' = agreement /\ enrolled' = enrolled
  BY <1>1 DEF CommitStart, Ready, AtCommit, NewTrip, Record, world
<1>3. PICK q \in Requests : q = c.req /\ trip[q] = NoRow
  BY <1>c, <1>1, NewRequest
<1>4. PICK r, riders : r = c.run /\ riders = roster[s]
  OBVIOUS
<1>5. /\ \A t \in OpenTrips : trip[t].vehicle # run[r].vehicle
      /\ riders # {} /\ riders \subseteq SeatedOn(r)
  BY <1>0, <1>c, <1>2, <1>4 DEF DecisionStands, OpenTrips
<1>6. PICK new : new = NewTrip(r, riders)
  OBVIOUS
<1>7. new.run = r /\ new.status = "in_progress" /\ new # NoRow
  <2>1. new.run = r /\ new.status = "in_progress"
    BY <1>6 DEF NewTrip
  <2>2. /\ riders \in SUBSET SeatedOn(r) /\ r \in ActiveRuns
        /\ WorldTyped /\ FiniteRows /\ RowsBelong /\ RunsFit /\ SeatsFit /\ StopsFit
    BY <1>0, <1>c, <1>2, <1>4, <1>5, CommitContext DEF DecisionStands
  <2>3. new \in TripRow /\ new # NoRow
    BY <1>c, <1>6, <2>2, NewTripFits DEF WorldTyped
  <2>4. QED
    BY <2>1, <2>3
<1>8. trip'[q] = new /\ \A t \in Requests : t # q => trip'[t] = trip[t]
  BY <1>c, <1>2, <1>3, <1>4, <1>6 DEF TripsTyped
<1>9. /\ DOMAIN passenger'[q] = riders /\ \A a \in riders : passenger'[q][a].status = "pending"
      /\ \A t \in Requests : t # q => passenger'[t] = passenger[t]
  BY <1>c, <1>2, <1>3, <1>4 DEF TripsTyped
<1>10. PICK j : j = RideRow(new)
  OBVIOUS
<1>11. RideOf[q] = {} /\ RideOf'[q] = {j} /\ RideOf' = [RideOf EXCEPT ![q] = {j}]
  <2>1. RideOf[q] = {} /\ RideOf'[q] = {j}
    BY <1>3, <1>7, <1>8, <1>10, RidesRead, RidesReadNext
  <2>2. \A t \in Requests : t # q => RideOf'[t] = RideOf[t]
    BY <1>8, RideStays
  <2>3. QED
    BY <2>1, <2>2, RidesRead, RidesReadNext
<1>12. \A u \in Requests : \A other \in Rides!Open(u) : other.run # j.run
  <2> SUFFICES ASSUME NEW u \in Requests, NEW other \in Rides!Open(u) PROVE other.run # j.run
    OBVIOUS
  <2>1. u \in OpenTrips /\ other = RideRow(trip[u])
    BY OpenRides
  <2>2. trip[u].run # r
    BY <1>c, <1>5, <2>1 DEF RunsKept
  <2>3. QED
    BY <1>7, <1>10, <2>1, <2>2, RideFields
<1>13. riders \in SUBSET {a \in Requests : \E x \in Rides!Current(a) : j.run \in x.runs}
  <2> SUFFICES ASSUME NEW a \in riders
               PROVE  a \in Requests /\ \E x \in Rides!Current(a) : j.run \in x.runs
    OBVIOUS
  <2>1. a \in ActiveAgreements /\ a \in Requests /\ r \in RunsOf(agreement[a].legs)
    BY <1>5 DEF SeatedOn, LegOn, RunsOf, ActiveAgreements
  <2>2. Rides!Current(a) = {SeatRow(agreement[a])}
    BY <1>c, <2>1, CurrentSeats
  <2>3. QED
    BY <1>7, <1>10, <2>1, <2>2, RideFields
<1>14. RiderOf' = [RiderOf EXCEPT ![q] =
                     [a \in Requests |-> IF a \in riders THEN {"pending"} ELSE {}]]
  <2>1. RiderOf'[q] = [a \in Requests |-> IF a \in riders THEN {"pending"} ELSE {}]
    BY <1>9, RidesReadNext
  <2>2. \A t \in Requests : t # q => RiderOf'[t] = RiderOf[t]
    BY <1>9, RideStays
  <2>3. QED
    BY <2>1, <2>2, RidesRead, RidesReadNext
<1>15. Rides!Dispatch(q)
  <2>1. j.status = "in_progress"
    BY <1>7, <1>10, RideFields
  <2>2. QED
    BY <1>5, <1>11, <1>12, <1>13, <1>14, <2>1 DEF Rides!Dispatch
<1>16. <<RideOf, RiderOf>>' # <<RideOf, RiderOf>>
  BY <1>11
<1>17. UNCHANGED <<SeatOf, enrolled>>
  BY <1>2 DEF SeatOf
<1>18. QED
  BY <1>15, <1>16, <1>17 DEF Rides!Next, Rides!Travel

\* A boarding mark is one step of a passenger.
LEMMA MarkImplements ==
    ASSUME IInv, NEW s \in Sessions, CommitPassenger(s)
    PROVE  Rides!Next
<1>0. pc[s] = "commit"
  BY DEF CommitPassenger, Ready
<1>c. TripsTyped /\ PageFits(s)
  BY <1>0, CommitContext
<1>1. PICK c \in Commands : AtCommit(s, c)
  BY <1>0, CommitContext
<1>2. /\ c.op = "passenger" /\ c = cmd[s] /\ Accepts(s)
      /\ passenger' = [passenger EXCEPT ![c.trip][c.agreement] =
                         [status |-> c.status, version |-> @.version + 1]]
      /\ agreement' = agreement /\ trip' = trip /\ enrolled' = enrolled
  BY <1>1 DEF CommitPassenger, Ready, AtCommit, Record, world
<1>3. PICK t \in Requests, a \in Requests : t = c.trip /\ a = c.agreement
  BY <1>1, <1>2 DEF AtCommit, CommandFits
<1>4. MayMark(s)
  BY <1>2 DEF Accepts
<1>5. PICK was : was = passenger[t][a].status
  OBVIOUS
<1>6. /\ t \in OpenTrips
      /\ \/ was = "pending" /\ c.status \in {"boarded", "absent"}
         \/ was = "boarded" /\ c.status = "alighted"
  BY <1>2, <1>3, <1>4, <1>5 DEF MayMark
<1>7. a \in DOMAIN passenger[t]
  BY <1>0, <1>c, <1>2, <1>3 DEF PageFits
<1>8. /\ DOMAIN passenger'[t] = DOMAIN passenger[t] /\ passenger'[t][a].status = c.status
      /\ \A b \in DOMAIN passenger[t] : b # a => passenger'[t][b] = passenger[t][b]
      /\ \A u \in Requests : u # t => passenger'[u] = passenger[u]
  BY <1>c, <1>2, <1>3, <1>7 DEF TripsTyped
<1>9. RiderOf[t][a] = {was} /\ RiderOf'[t][a] = {c.status} /\ was # c.status
  <2>1. RiderOf[t][a] = {was}
    BY <1>5, <1>7, RidesRead
  <2>2. RiderOf'[t][a] = {c.status}
    BY <1>7, <1>8, RidesReadNext
  <2>3. QED
    BY <1>6, <2>1, <2>2
<1>10. RiderOf' = [RiderOf EXCEPT ![t][a] = {c.status}]
  <2>1. RiderOf'[t] = [RiderOf[t] EXCEPT ![a] = {c.status}]
    <3>1. ASSUME NEW b \in Requests, b # a
          PROVE  RiderOf'[t][b] = RiderOf[t][b]
      <4>1. CASE b \in DOMAIN passenger[t]
        <5>1. passenger'[t][b].status = passenger[t][b].status /\ b \in DOMAIN passenger'[t]
          BY <1>8, <3>1, <4>1
        <5>2. RiderOf[t][b] = {passenger[t][b].status}
          BY <4>1, RidesRead
        <5>3. RiderOf'[t][b] = {passenger'[t][b].status}
          BY <5>1, RidesReadNext
        <5>4. QED
          BY <5>1, <5>2, <5>3
      <4>2. CASE b \notin DOMAIN passenger[t]
        BY <1>8, <3>1, <4>2, RidesRead, RidesReadNext
      <4>3. QED
        BY <4>1, <4>2
    <3>2. RiderOf[t] = [b \in Requests |-> RiderOf[t][b]]
      BY RidesRead
    <3>3. RiderOf'[t] = [b \in Requests |-> RiderOf'[t][b]]
      BY RidesReadNext
    <3>4. QED
      BY <1>9, <3>1, <3>2, <3>3
  <2>2. \A u \in Requests : u # t => RiderOf'[u] = RiderOf[u]
    BY <1>8, RideStays
  <2>3. QED
    BY <2>1, <2>2, RidesRead, RidesReadNext
<1>11. RideOf' = RideOf /\ UNCHANGED <<SeatOf, enrolled>>
  BY <1>2 DEF RideOf, SeatOf
<1>12. Rides!Mark(t, a)
  <2>1. Rides!Open(t) # {}
    BY <1>6, OpenRides
  <2>2. PICK m \in Rides!Marks : m[1] = was /\ m[2] = c.status
    <3>1. <<was, c.status>> \in Rides!Marks
      BY <1>6 DEF Rides!Marks
    <3>2. QED
      BY <3>1
  <2>3. QED
    BY <1>9, <1>10, <1>11, <2>1, <2>2 DEF Rides!Mark
<1>13. <<RideOf, RiderOf>>' # <<RideOf, RiderOf>>
  BY <1>9
<1>14. QED
  BY <1>11, <1>12, <1>13 DEF Rides!Next, Rides!Travel

\* A trip is completed with everybody off, or called off with nobody on.
LEMMA CloseImplements ==
    ASSUME IInv, NEW s \in Sessions, CommitClose(s)
    PROVE  Rides!Next
<1>0. pc[s] = "commit"
  BY DEF CommitClose, Ready
<1>c. TripsTyped /\ RidersSeated
  BY <1>0, CommitContext
<1>1. PICK c \in Commands : AtCommit(s, c)
  BY <1>0, CommitContext
<1>2. PICK status : status = IF c.op = "complete_trip" THEN "completed" ELSE "cancelled"
  OBVIOUS
<1>3. /\ c.op \in {"complete_trip", "cancel_trip"} /\ c = cmd[s] /\ Accepts(s)
      /\ trip' = [trip EXCEPT ![c.trip].status = status]
      /\ passenger' = IF c.op = "complete_trip" THEN passenger
                      ELSE [passenger EXCEPT ![c.trip] = Dismiss(@)]
      /\ agreement' = agreement /\ enrolled' = enrolled
  BY <1>1, <1>2 DEF CommitClose, Ready, AtCommit, Record, world
<1>4. PICK t \in Requests : t = c.trip
  BY <1>1, <1>3 DEF AtCommit, CommandFits
<1>5. /\ t \in OpenTrips
      /\ c.op = "complete_trip" => StatusesIn(t) \cap {"pending", "boarded"} = {}
      /\ c.op = "cancel_trip" => StatusesIn(t) \cap {"boarded", "alighted"} = {}
  BY <1>3, <1>4 DEF Accepts
<1>6. PICK old \in TripRow : old = trip[t] /\ old # NoRow /\ old.status = "in_progress"
  BY <1>c, <1>5 DEF TripsTyped, OpenTrips, Trips
<1>7. PICK new : new = [old EXCEPT !.status = status]
  OBVIOUS
<1>8. new \in TripRow /\ new # NoRow /\ new.run = old.run /\ new.status = status
  <2>1. new \in TripRow /\ new.run = old.run /\ new.status = status
    BY <1>2, <1>7 DEF TripRow, TripStatus
  <2>2. QED
    BY <2>1, NoTransportRowAssumption
<1>9. trip'[t] = new /\ \A u \in Requests : u # t => trip'[u] = trip[u]
  BY <1>c, <1>3, <1>4, <1>6, <1>7 DEF TripsTyped
<1>10. RideOf[t] = {RideRow(old)} /\ RideOf'[t] = {RideRow(new)}
  BY <1>6, <1>8, <1>9, RidesRead, RidesReadNext
<1>11. RideRow(new) = [RideRow(old) EXCEPT !.status = status]
  <2>1. PICK rows : rows = [run: {old.run}, status: {old.status, status}]
    OBVIOUS
  <2>2. RideRow(old) \in rows /\ RideRow(new) \in rows
    BY <1>8, <2>1 DEF RideRow
  <2>3. PICK x, y \in rows : x = RideRow(old) /\ y = RideRow(new) /\ y.status = status
    BY <1>8, <2>2, RideFields
  <2>4. y = [x EXCEPT !.status = status]
    BY <2>1, <2>3
  <2>5. QED
    BY <2>3, <2>4
<1>12. RideOf'[t] = {[j EXCEPT !.status = status] : j \in RideOf[t]}
  BY <1>10, <1>11
<1>13. RideOf' = [RideOf EXCEPT ![t] = {[j EXCEPT !.status = status] : j \in RideOf[t]}]
  <2>1. \A u \in Requests : u # t => RideOf'[u] = RideOf[u]
    BY <1>9, RideStays
  <2>2. QED
    BY <1>12, <2>1, RidesRead, RidesReadNext
<1>14. RideOf' # RideOf
  <2>1. RideRow(new) # RideRow(old)
    BY <1>2, <1>6, <1>8, RideFields
  <2>2. QED
    BY <1>10, <2>1
<1>15. UNCHANGED <<SeatOf, enrolled>>
  BY <1>3 DEF SeatOf
<1>16. Rides!Open(t) # {}
  BY <1>5, OpenRides
<1>17. \A a \in Requests : \A x \in RiderOf[t][a] : x \in StatusesIn(t)
  BY RidesRead DEF StatusesIn
<1>18. StatusesIn(t) \subseteq {"pending", "boarded", "alighted", "absent"}
  <2>1. StatusesIn(t) \subseteq PassengerStatus
    BY <1>c DEF TripsTyped, StatusesIn, PassengerRow
  <2>2. "cancelled" \notin StatusesIn(t)
    BY <1>c, <1>5 DEF RidersSeated
  <2>3. QED
    BY <2>1, <2>2 DEF PassengerStatus
<1>19. CASE c.op = "complete_trip"
  <2>1. \A a \in Requests : RiderOf[t][a] \subseteq {"alighted", "absent"}
    BY <1>5, <1>17, <1>18, <1>19
  <2>2. RiderOf' = RiderOf
    BY <1>3, <1>19 DEF RiderOf
  <2>3. Rides!Complete(t)
    BY <1>2, <1>13, <1>16, <1>19, <2>1, <2>2 DEF Rides!Complete, Rides!Set
  <2>4. QED
    BY <1>14, <1>15, <2>3 DEF Rides!Next, Rides!Travel
<1>20. CASE c.op = "cancel_trip"
  <2>1. \A a \in Requests : RiderOf[t][a] \subseteq {"pending", "absent"}
    BY <1>5, <1>17, <1>18, <1>20
  <2>2. passenger'[t] = Dismiss(passenger[t]) /\ \A u \in Requests : u # t => passenger'[u] = passenger[u]
    BY <1>c, <1>3, <1>4, <1>20 DEF TripsTyped
  <2>3. /\ DOMAIN passenger'[t] = DOMAIN passenger[t]
        /\ \A a \in DOMAIN passenger[t] : passenger'[t][a].status =
             IF passenger[t][a].status = "pending" THEN "cancelled" ELSE passenger[t][a].status
    BY <2>2 DEF Dismiss
  <2>4. RiderOf'[t] = [a \in Requests |->
          IF RiderOf[t][a] = {"pending"} THEN {"cancelled"} ELSE RiderOf[t][a]]
    <3>1. \A a \in Requests : RiderOf'[t][a] =
            IF RiderOf[t][a] = {"pending"} THEN {"cancelled"} ELSE RiderOf[t][a]
      <4> SUFFICES ASSUME NEW a \in Requests
                   PROVE  RiderOf'[t][a] =
                            IF RiderOf[t][a] = {"pending"} THEN {"cancelled"} ELSE RiderOf[t][a]
        OBVIOUS
      <4>1. CASE a \in DOMAIN passenger[t]
        <5>1. PICK x, y : x = passenger[t][a].status /\ y = passenger'[t][a].status
          OBVIOUS
        <5>2. RiderOf[t][a] = {x} /\ RiderOf'[t][a] = {y}
          BY <2>3, <4>1, <5>1, RidesRead, RidesReadNext
        <5>3. y = IF x = "pending" THEN "cancelled" ELSE x
          BY <2>3, <4>1, <5>1
        <5>4. QED
          BY <5>2, <5>3
      <4>2. CASE a \notin DOMAIN passenger[t]
        BY <2>3, <4>2, RidesRead, RidesReadNext
      <4>3. QED
        BY <4>1, <4>2
    <3>2. QED
      BY <3>1, RidesReadNext
  <2>5. \A u \in Requests : u # t => RiderOf'[u] = RiderOf[u]
    BY <2>2, RideStays
  <2>6. RiderOf' = [RiderOf EXCEPT ![t] = [a \in Requests |->
          IF RiderOf[t][a] = {"pending"} THEN {"cancelled"} ELSE RiderOf[t][a]]]
    BY <2>4, <2>5, RidesRead, RidesReadNext
  <2>7. Rides!CallOff(t)
    BY <1>2, <1>13, <1>16, <1>20, <2>1, <2>6 DEF Rides!CallOff, Rides!Set
  <2>8. QED
    BY <1>14, <1>15, <2>7 DEF Rides!Next, Rides!Travel
<1>21. QED
  BY <1>3, <1>19, <1>20

\* Whatever else a step changes, neither a seat nor a journey.
LEMMA RestImplements ==
    ASSUME agreement' = agreement, trip' = trip, passenger' = passenger
    PROVE  Rides!Next \/ RidesBar' = RidesBar
<1>1. UNCHANGED <<SeatOf, RideOf, RiderOf>>
  BY DEF SeatOf, RideOf, RiderOf
<1>2. CASE enrolled' = enrolled
  BY <1>1, <1>2 DEF RidesBar
<1>3. CASE enrolled' # enrolled
  BY <1>1, <1>3 DEF Rides!Next
<1>4. QED
  BY <1>2, <1>3

LEMMA StepImplements == IInv /\ [Next]_vars => [Rides!Next]_RidesBar
<1> SUFFICES ASSUME IInv, [Next]_vars PROVE Rides!Next \/ RidesBar' = RidesBar
  OBVIOUS
<1>1. CASE passenger' = passenger /\ agreement' = agreement /\ trip' = trip
  BY <1>1, RestImplements
<1>2. ASSUME NEW s \in Sessions, CommitAgreement(s) \/ CommitStart(s)
      PROVE  Rides!Next
  BY <1>2, AgreementImplements, StartImplements
<1>3. ASSUME NEW s \in Sessions, CommitPassenger(s) \/ CommitClose(s)
      PROVE  Rides!Next
  BY <1>3, MarkImplements, CloseImplements
<1>4. QED
  BY <1>1, <1>2, <1>3, WhoWrites

LEMMA InitImplements == Init => Rides!Init
<1> SUFFICES ASSUME Init PROVE Rides!Init
  OBVIOUS
<1>1. IInv
  BY InitIInv
<1>2. PlanTyped /\ OneSeat
  BY <1>1, Parts, PlanParts DEF TablesTyped, TablesStand
<1>3. RideOf = [t \in Requests |-> {}]
  BY DEF Init, RideOf
<1>4. RiderOf = [t \in Requests |-> [a \in Requests |-> {}]]
  BY DEF Init, RiderOf
<1>5. \A a \in Requests : \A x \in Rides!Current(a) : Rides!Unseated(x.student, {a})
  <2> SUFFICES ASSUME NEW a \in Requests, NEW x \in Rides!Current(a),
                      NEW b \in Requests \ {a}, NEW y \in Rides!Current(b)
               PROVE  y.student # x.student
    BY DEF Rides!Unseated
  <2>1. /\ a \in ActiveAgreements /\ x = SeatRow(agreement[a])
        /\ b \in ActiveAgreements /\ y = SeatRow(agreement[b])
    BY <1>2, CurrentSeats
  <2>2. agreement[b].student # agreement[a].student
    BY <1>2, <2>1 DEF OneSeat
  <2>3. QED
    BY <2>1, <2>2, RideFields
<1>6. QED
  BY <1>3, <1>4, <1>5 DEF Rides!Init

\* However the commands of TransportService overlap, students reserve, change
\* and give up their seats and make their journeys as BusRides says: one seat
\* each, never lost during a journey, from pending over boarded to alighted,
\* and nothing about a trip changes once it is closed.
THEOREM Refinement == Spec => RidesKept
<1>1. IInv /\ [Next]_vars => [Rides!Next]_RidesBar
  BY StepImplements
<1>2. QED
  BY <1>1, InitImplements, Invariance, PTL
     DEF Spec, RidesKept, Rides!Spec, Rides!vars, RidesBar

LEMMA LiveStepImplements == LiveIInv /\ [LiveNext]_liveVars => [Rides!Next]_RidesBar
<1> SUFFICES ASSUME LiveIInv, [LiveNext]_liveVars PROVE Rides!Next \/ RidesBar' = RidesBar
  OBVIOUS
<1>1. CASE Next \/ UNCHANGED vars
  BY <1>1, LiveParts, StepImplements
<1>2. UNCHANGED office => Rides!Next \/ RidesBar' = RidesBar
  BY RestImplements DEF office, transportTables, journeys
<1>3. ASSUME NEW x \in Callers, Serve(x) \/ Drop(x)
      PROVE  Rides!Next \/ RidesBar' = RidesBar
  <2>1. CASE PhoneCall(x)
    BY <1>1, <2>1 DEF PhoneCall
  <2>2. CASE StaffCall(x) \/ TakeTrip(x)
    BY <1>2, <2>2 DEF StaffCall, TakeTrip
  <2>3. CASE TurnAway(x) \/ Drop(x)
    BY <1>2, <2>3 DEF TurnAway, Drop, Reject
  <2>4. CASE CommitIssue(x) \/ CommitRevoke(x) \/ CommitFix(x) \/ CommitAdvance(x)
    BY <1>2, <2>4 DEF CommitIssue, CommitRevoke, CommitFix, CommitAdvance
  <2>5. QED
    BY <1>3, <2>1, <2>2, <2>3, <2>4 DEF Serve
<1>4. CASE TimePasses
  BY <1>1, <1>4 DEF TimePasses
<1>5. CASE UNCHANGED liveVars
  BY <1>1, <1>5 DEF liveVars
<1>6. QED
  BY <1>1, <1>3, <1>4, <1>5 DEF LiveNext

\* The calls of phones and of the staff who follow them, which take only the
\* row of a trip, leave seats and journeys as BusRides says.
THEOREM RefinementLive == LiveSpec => RidesKept
<1>1. LiveIInv /\ [LiveNext]_liveVars => [Rides!Next]_RidesBar
  BY LiveStepImplements
<1>2. LiveInit => Rides!Init
  BY InitImplements DEF LiveInit
<1>3. QED
  BY <1>1, <1>2, LiveInvariance, PTL
     DEF LiveSpec, RidesKept, Rides!Spec, Rides!vars, RidesBar

=============================================================================
