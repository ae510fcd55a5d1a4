--------------------------- MODULE HostelResidence ---------------------------
(***************************************************************************)
(* What the hostel promises about the students: each has no bed or one     *)
(* that is fit for that student, alone; moves from bed to bed in one step; *)
(* and gives a bed up only when back from leave and without visitors.      *)
(* There are no sessions, locks, counters or dates here; Hostel implements *)
(* it.                                                                     *)
(***************************************************************************)
CONSTANTS Students, Beds, Requests

VARIABLES place,    \* the bed of a student, as a set of at most one
          away,     \* the leave the student is on, likewise
          guests,   \* the visits that have not ended
          fit       \* the students a bed may take as it is at present

vars == <<place, away, guests, fit>>

Nothing == [p \in Students |-> {}]

Init ==
    /\ place = Nothing /\ away = Nothing /\ guests = Nothing
    /\ fit \in [Beds -> SUBSET Students]

Vacant(b) == \A p \in Students : b \notin place[p]

\* the student is present, alone, and may give up the bed
MayGo(p) == place[p] # {} /\ away[p] = {} /\ guests[p] = {}

MoveIn(p, b) ==
    /\ place[p] = {} /\ Vacant(b) /\ p \in fit[b]
    /\ place' = [place EXCEPT ![p] = {b}]
    /\ UNCHANGED <<away, guests, fit>>

MoveOut(p) ==
    /\ MayGo(p)
    /\ place' = [place EXCEPT ![p] = {}]
    /\ UNCHANGED <<away, guests, fit>>

ChangeBed(p, b) ==
    /\ MayGo(p) /\ Vacant(b) /\ p \in fit[b]
    /\ place' = [place EXCEPT ![p] = {b}]
    /\ UNCHANGED <<away, guests, fit>>

Leave(p, r) ==
    /\ place[p] # {} /\ away[p] = {}
    /\ away' = [away EXCEPT ![p] = {r}]
    /\ UNCHANGED <<place, guests, fit>>

Return(p, r) ==
    /\ away[p] = {r}
    /\ away' = [away EXCEPT ![p] = {}]
    /\ UNCHANGED <<place, guests, fit>>

Visit(p, r) ==
    /\ place[p] # {} /\ \A other \in Students : r \notin guests[other]
    /\ guests' = [guests EXCEPT ![p] = @ \cup {r}]
    /\ UNCHANGED <<place, away, fit>>

Depart(p, r) ==
    /\ r \in guests[p]
    /\ guests' = [guests EXCEPT ![p] = @ \ {r}]
    /\ UNCHANGED <<place, away, fit>>

\* Beds, rooms and hostels are opened, closed and given to others around
\* whoever lives there.
Refit ==
    /\ fit' \in [Beds -> SUBSET Students]
    /\ \A p \in Students : \A b \in place[p] : p \in fit'[b]
    /\ UNCHANGED <<place, away, guests>>

Moves == \E p \in Students : MoveOut(p) \/ \E b \in Beds : MoveIn(p, b) \/ ChangeBed(p, b)
Absences == \E p \in Students, r \in Requests : Leave(p, r) \/ Return(p, r)
Visits == \E p \in Students, r \in Requests : Visit(p, r) \/ Depart(p, r)

Next ==
    \/ place' # place /\ Moves
    \/ away' # away /\ Absences
    \/ guests' # guests /\ Visits
    \/ fit' # fit /\ Refit

Spec == Init /\ [][Next]_vars
===============================================================================
