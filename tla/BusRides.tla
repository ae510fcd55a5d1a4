------------------------------- MODULE BusRides -------------------------------
(***************************************************************************)
(* What the transport office promises to the students: one seat at a time, *)
(* given only to who is enrolled and taken back only from who is not on a  *)
(* journey; a journey is made by students with a seat on its run, one open *)
(* journey of a run at a time; each rides it from the door to the end or   *)
(* not at all; and a journey that is over never changes.  There are no     *)
(* sessions, locks, pages, vehicles or days here; Transport implements it. *)
(***************************************************************************)
CONSTANTS Agreements, Journeys

VARIABLES seat,       \* what an agreement gives, as a set of at most one
          ride,       \* the run and the state of a journey, likewise
          rider,      \* rider[t][a]: how far a is on the journey t, likewise
          enrolled

vars == <<seat, ride, rider, enrolled>>

Current(a) == {s \in seat[a] : s.current}
Open(t) == {j \in ride[t] : j.status = "in_progress"}

\* p has no seat but the one given by a in besides
Unseated(p, besides) ==
    \A a \in Agreements \ besides : \A s \in Current(a) : s.student # p

Init ==
    /\ \A a \in Agreements : \A s \in Current(a) : Unseated(s.student, {a})
    /\ ride = [t \in Journeys |-> {}]
    /\ rider = [t \in Journeys |-> [a \in Agreements |-> {}]]

Seat(a, besides) ==
    /\ seat[a] = {}
    /\ \E s \in seat'[a] :
          /\ s.current /\ s.student \in enrolled /\ Unseated(s.student, besides)
          /\ seat'[a] = {s}

Unseat(a) ==
    /\ Current(a) # {} /\ \A t \in Journeys : Open(t) # {} => rider[t][a] = {}
    /\ seat'[a] = {[s EXCEPT !.current = FALSE] : s \in seat[a]}

Others(changed) ==
    /\ DOMAIN seat' = Agreements
    /\ \A a \in Agreements \ changed : seat'[a] = seat[a]

Reserve(a) == Seat(a, {}) /\ Others({a})
Release(a) == Unseat(a) /\ Others({a})
\* another seat for the student who has the one of a
Swap(a, b) ==
    /\ Unseat(a) /\ Seat(b, {a}) /\ Others({a, b})
    /\ \A s \in seat'[a], n \in seat'[b] : s.student = n.student

Set(t, status) ==
    ride' = [ride EXCEPT ![t] = {[j EXCEPT !.status = status] : j \in ride[t]}]

Dispatch(t) ==
    /\ ride[t] = {}
    /\ \E j \in ride'[t] :
          /\ j.status = "in_progress"
          /\ \A u \in Journeys : \A other \in Open(u) : other.run # j.run
          /\ ride' = [ride EXCEPT ![t] = {j}]
          /\ \E riders \in SUBSET {a \in Agreements : \E s \in Current(a) : j.run \in s.runs} :
                /\ riders # {}
                /\ rider' = [rider EXCEPT ![t] =
                      [a \in Agreements |-> IF a \in riders THEN {"pending"} ELSE {}]]

\* a student gets on, does not come, gets off
Marks == { <<"pending", "boarded">>, <<"pending", "absent">>, <<"boarded", "alighted">> }

Mark(t, a) ==
    /\ Open(t) # {}
    /\ \E m \in Marks : /\ rider[t][a] = {m[1]}
                        /\ rider' = [rider EXCEPT ![t][a] = {m[2]}]
    /\ UNCHANGED ride

Complete(t) ==
    /\ Open(t) # {} /\ \A a \in Agreements : rider[t][a] \subseteq {"alighted", "absent"}
    /\ Set(t, "completed")
    /\ UNCHANGED rider

\* before anybody got on
CallOff(t) ==
    /\ Open(t) # {} /\ \A a \in Agreements : rider[t][a] \subseteq {"pending", "absent"}
    /\ Set(t, "cancelled")
    /\ rider' = [rider EXCEPT ![t] =
          [a \in Agreements |-> IF rider[t][a] = {"pending"} THEN {"cancelled"} ELSE rider[t][a]]]

Plan == \E a \in Agreements : Reserve(a) \/ Release(a) \/ \E b \in Agreements : Swap(a, b)
Travel == \E t \in Journeys : \/ Dispatch(t) \/ Complete(t) \/ CallOff(t)
                              \/ \E a \in Agreements : Mark(t, a)

Next ==
    \/ seat' # seat /\ Plan /\ UNCHANGED <<ride, rider, enrolled>>
    \/ <<ride, rider>>' # <<ride, rider>> /\ Travel /\ UNCHANGED <<seat, enrolled>>
    \/ enrolled' # enrolled /\ UNCHANGED <<seat, ride, rider>>

Spec == Init /\ [][Next]_vars
===============================================================================
