------------------------------ MODULE MCTransport ------------------------------
(* Two sessions plan a school with two vans of one driver, a van to come, a    *)
(* route with two stops and its morning run, on which a boy has the one seat.  *)
(* A second run, after or within the hours of the first, a second route, a     *)
(* girl who wants a seat; trips on both days, with boarding, absence, the end   *)
(* and the cancellation.  A request id is used once, by the first of its       *)
(* commands to commit, so the five of them bound the history.                  *)
EXTENDS Transport, TLC

CONSTANTS red, blue, green, dorje, valley, hill, gate, well, peak, morning, late,
          ram, sita, a1, q1, q2, q3, q4, q5

Van(n, driver) == [capacity |-> n, active |-> TRUE, available |-> TRUE, ready |-> TRUE,
                   driver |-> driver]
Plan(r, v, d, from, to) == [route |-> r, vehicle |-> v, direction |-> d, active |-> TRUE,
                            from |-> from, to |-> to, days |-> IF d = "drop" THEN {0} ELSE {0, 1}]
Leg(r, x) == [pickup |-> [run |-> r, stop |-> x]]
Home(r, x) == [drop |-> [run |-> r, stop |-> x]]

MCWeekdayOf == [d \in Days |-> d]
MCFirstVehicles == [v \in Vehicles |-> IF v = green THEN NoRow ELSE Van(1, dorje)]
MCFirstStops == [x \in Stops |->
    IF x = peak THEN NoRow
    ELSE [route |-> valley, order |-> IF x = gate THEN 1 ELSE 2, active |-> TRUE]]
MCFirstRuns == [r \in Runs |-> IF r = late THEN NoRow ELSE Plan(valley, red, "pickup", 1, 3)]
MCFirstAgreements == [q \in Requests |->
    IF q # a1 THEN NoRow ELSE [student |-> ram, legs |-> Leg(morning, gate), active |-> TRUE]]

Fleet(q, op, v, row) == [op |-> op, req |-> q, vehicle |-> v, row |-> row]
Line(q, r, op, place) == [op |-> op, req |-> q, route |-> r, place |-> place]
EditLine(q, r, active) == [op |-> "update_route", req |-> q, route |-> r, active |-> active]
NewStop(q, r, x) == [op |-> "create_stop", req |-> q, route |-> r, stop |-> x]
EditStop(q, x, active) == [op |-> "update_stop", req |-> q, stop |-> x, active |-> active]
Schedule(q, op, r, row) == [op |-> op, req |-> q, run |-> r, row |-> row]
Join(q, p, legs) == [op |-> "assign", req |-> q, student |-> p, legs |-> legs]
Switch(q, a, p, legs) ==
    [op |-> "change_assignment", req |-> q, agreement |-> a, student |-> p, legs |-> legs]
Leave(q, a) == [op |-> "end_assignment", req |-> q, agreement |-> a]
Start(q, r) == [op |-> "start_trip", req |-> q, run |-> r]
Mark(q, t, a, st) == [op |-> "passenger", req |-> q, trip |-> t, agreement |-> a, status |-> st]
Close(q, op, t) == [op |-> op, req |-> q, trip |-> t]

MCCommands ==
    { Start(q1, morning), Start(q3, late), Start(q4, morning),
      Mark(q2, q1, a1, "boarded"), Mark(q3, q1, a1, "alighted"), Mark(q4, q1, a1, "absent"),
      Close(q2, "cancel_trip", q1), Close(q3, "complete_trip", q1), Close(q4, "complete_trip", q1),
      Start(q5, morning), Start(q5, late), Mark(q5, q4, a1, "boarded"),
      Leave(q5, a1),
      Schedule(q1, "create_run", late, Plan(valley, blue, "drop", 3, 5)),
      Schedule(q2, "create_run", late, Plan(valley, blue, "pickup", 2, 4)),
      Schedule(q4, "update_run", morning, [Plan(valley, red, "pickup", 1, 3) EXCEPT !.active = FALSE]),
      Join(q2, sita, Home(late, well)), Join(q3, sita, Leg(morning, well)), Join(q3, sita, Leg(late, well)),
      Switch(q3, a1, ram, Leg(morning, gate) @@ Home(late, gate)), Leave(q2, a1),
      Fleet(q1, "update_vehicle", blue, Van(1, NoRow)),
      Fleet(q4, "update_vehicle", blue, Van(2, dorje)),
      Fleet(q2, "update_vehicle", red, Van(2, dorje)),
      Fleet(q5, "update_vehicle", red, Van(1, dorje)),
      Fleet(q3, "update_vehicle", red, [Van(1, dorje) EXCEPT !.available = FALSE]),
      Fleet(q2, "create_vehicle", green, Van(2, NoRow)),
      Fleet(q4, "update_vehicle", red, [Van(1, dorje) EXCEPT !.active = FALSE]),
      Line(q1, valley, "reorder_stops", gate :> 2 @@ well :> 1),
      Line(q2, hill, "create_route", peak :> 1), EditLine(q4, valley, FALSE),
      NewStop(q3, valley, peak), EditStop(q4, well, FALSE), EditStop(q3, gate, FALSE),
      EditStop(q1, well, FALSE), EditStop(q2, well, TRUE) }

MCSymmetry == Permutations(Sessions)
===============================================================================
