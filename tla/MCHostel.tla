------------------------------- MODULE MCHostel -------------------------------
(* Two sessions in a school with a mixed hostel of two rooms with a bed each, *)
(* a room and a girls' hostel to come.  A boy is admitted, moves and leaves, *)
(* a girl wants his bed; marks, bills, beds, rooms and the hostel change     *)
(* around them.  Day 0 and day 1 are in different months.  A request id is   *)
(* used once, by the first of its commands to commit, so the four of them    *)
(* bound the history.                                                        *)
EXTENDS Hostel, TLC

CONSTANTS block, annex, one, two, three, ram, sita, boarding, q1, q2, q3, q4

MCGender == [p \in Students |-> IF p = ram THEN "male" ELSE "female"]
MCMonthOf == [d \in Days |-> d]
MCFirstHostel == [h \in Hostels |-> IF h = block THEN "mixed" ELSE NoRow]
MCFirstRooms == one :> [hostel |-> block, beds |-> {1}, fee |-> 1]
                @@ two :> [hostel |-> block, beds |-> {1}, fee |-> 2]
MCFirstHeads == [h \in Heads |-> 1]

House(q, op, h, kind, active) ==
    [op |-> op, req |-> q, hostel |-> h, kind |-> kind, active |-> active]
NewRoom(q, r, h, n) ==
    [op |-> "create_room", req |-> q, room |-> r, hostel |-> h, count |-> n, fee |-> 2]
EditRoom(q, r, fee, active) ==
    [op |-> "update_room", req |-> q, room |-> r, fee |-> fee, active |-> active]
Beds(q, r, n, ls) == [op |-> "add_beds", req |-> q, room |-> r, count |-> n, labels |-> ls]
EditBed(q, r, l, st) ==
    [op |-> "update_bed", req |-> q, room |-> r, label |-> l, status |-> st]
Admit(q, p, r, l) == [op |-> "allocate", req |-> q, student |-> p, room |-> r, label |-> l]
Move(q, y, r, l) == [op |-> "transfer", req |-> q, stay |-> y, room |-> r, label |-> l]
At(q, op, y) == [op |-> op, req |-> q, stay |-> y]
Back(q, op, w) == [op |-> op, req |-> q, away |-> w]
Mark(q, d, ys, st) ==
    [op |-> "save_register", req |-> q, day |-> d, entries |-> ys, status |-> st]
Charge(q, y, m) == [op |-> "bill", req |-> q, stay |-> y, head |-> boarding, month |-> m]

\* Stays of the boy in the first room and of either student in the second; his
\* transfer, checkout, leave, visitor and marks; bills of both stays; beds
\* added, retired and restored; rooms and hostels opened, repriced and archived.
MCCommands ==
    { Admit(q1, ram, one, NoLabel), Admit(q2, sita, one, 1),
      Move(q2, q1, two, NoLabel), At(q2, "vacate", q1), At(q4, "vacate", q1),
      At(q2, "leave", q1), At(q2, "visit", q1),
      Back(q3, "return_leave", q2), Back(q3, "depart_visit", q2),
      Mark(q2, 0, {q1}, "present"), Mark(q3, 0, {q1}, "absent"), Mark(q4, 1, {q2}, "present"),
      Charge(q3, q1, 0), Charge(q4, q2, 0),
      House(q1, "create_hostel", annex, "girls", TRUE),
      House(q3, "update_hostel", block, "mixed", FALSE),
      House(q4, "update_hostel", block, "girls", TRUE),
      NewRoom(q1, three, block, 1), EditRoom(q3, one, 2, FALSE),
      Beds(q1, one, 1, {}),
      EditBed(q3, one, 1, "retired"), EditBed(q4, one, 1, "active") }

MCSymmetry == Permutations(Sessions)
===============================================================================
