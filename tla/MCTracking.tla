------------------------------ MODULE MCTracking ------------------------------
(* One van with two pupils at two stops is dispatched, its trip cancelled and *)
(* dispatched again by the office, while two calls at a time of the staff and *)
(* of the phones of both trips arrive in any order and any number of times.   *)
EXTENDS Tracking, TLC

CONSTANTS red, valley, gate, well, morning, ram, sita, a1, a2, q1, q2, q3, k1, k2, k3

MCWeekdayOf == [d \in Days |-> 0]
MCFirstVehicles == [v \in Vehicles |-> [capacity |-> 2, active |-> TRUE, available |-> TRUE,
                                         ready |-> TRUE, driver |-> NoRow]]
MCFirstStops == [x \in Stops |-> [route |-> valley, order |-> IF x = gate THEN 1 ELSE 2,
                                   active |-> TRUE]]
MCFirstRuns == [r \in Runs |-> [route |-> valley, vehicle |-> red, direction |-> "pickup",
                                 active |-> TRUE, from |-> 1, to |-> 3, days |-> {0}]]
Seat(p, x) == [student |-> p, legs |-> [pickup |-> [run |-> morning, stop |-> x]],
               active |-> TRUE]
MCFirstAgreements ==
    [q \in Requests |-> IF q = a1 THEN Seat(ram, gate) ELSE IF q = a2 THEN Seat(sita, well) ELSE NoRow]

Start(q) == [op |-> "start_trip", req |-> q, run |-> morning]
Close(q, op) == [op |-> op, req |-> q, trip |-> q1]

MCCommands == { Start(q1), Close(q2, "cancel_trip"), Start(q3) }

IssueTo(t, k) == [op |-> "issue", trip |-> t, token |-> k]
Position(k, n) == [op |-> "ingest", token |-> k, at |-> n]
Report(k, x, stage, n) == [op |-> "progress", token |-> k, stop |-> x, stage |-> stage, version |-> n]

MCCalls ==
    { IssueTo(q1, k1), IssueTo(q1, k2), IssueTo(q3, k3), [op |-> "revoke", trip |-> q1] }
    \cup { Position(k1, 0), Position(k1, 1), Position(k2, 2), Position(k3, 1) }
    \cup { Report(k1, gate, "arriving", 0), Report(k1, well, "arriving", 0),
           Report(k2, gate, "departed", 1) }

MCSymmetry == Permutations(Callers)
===============================================================================
