--------------------------------- MODULE Staff ---------------------------------
(***************************************************************************)
(* StaffService: the members of the staff, their requests for leave and    *)
(* the attendance of one day.  No call locks what it reads.  A flush sets  *)
(* the columns that differ from the copy it has loaded, in rows that may   *)
(* have changed since, and commits at once.  Nothing in the tables is      *)
(* unique but the primary keys: a day may hold several rows of a member.   *)
(***************************************************************************)
EXTENDS Desk, Integers, Sequences, FiniteSets

CONSTANTS Members, Leaves, Heads,
          Hired,          \* the members there are at the start
          TscNumbers, NoTsc, NoHead, NoTimes, Times,
          MaxDayRows      \* rows of a member and day the instance keeps

StaffStatus == {"active", "on_leave", "resigned", "retired", "terminated"}
StaffRow    == [tsc: TscNumbers \cup {NoTsc}, status: StaffStatus, deleted: BOOLEAN]
LeaveRow    == [member: Members, status: {"pending", "approved", "rejected"},
                approved_by: Heads \cup {NoHead}]
DayRow      == [status: {"present", "absent", "late", "half_day", "leave"},
                times: Times \cup {NoTimes}]

ASSUME StaffAssumption ==
    NoRow \notin StaffRow \cup LeaveRow /\ NoHead \notin Heads /\ MaxDayRows \in Nat

HireRequest   == [op: {"hire"}, member: Members, tsc: TscNumbers \cup {NoTsc}]
AmendRequest  == [op: {"amend"}, member: Members, tsc: TscNumbers \cup {NoTsc}]
                 \cup [op: {"amend"}, member: Members, status: StaffStatus]
RetireRequest == [op: {"retire"}, member: Members]
AskRequest    == [op: {"ask"}, leave: Leaves, member: Members, days: Int]
DecideRequest == [op: {"decide"}, leave: Leaves, by: Heads,
                  decision: {"approved", "rejected"}]
DayRequest    == [op: {"day"}, entries: UNION {[M -> DayRow] : M \in SUBSET Members}]
StaffQuery    == [op: {"attendance", "staff"}, member: Members]

VARIABLES member, leave,
          day      \* staff_attendances of one day: the rows of each member

staffTables == <<member, leave, day>>

NewMember(tsc) == [tsc |-> tsc, status |-> "active", deleted |-> FALSE]

StaffInit == /\ member = [m \in Members |-> IF m \in Hired THEN NewMember(NoTsc) ELSE NoRow]
             /\ leave = [l \in Leaves |-> NoRow]
             /\ day = [m \in Members |-> <<>>]

StaffTypeOK == /\ member \in [Members -> StaffRow \cup {NoRow}]
               /\ leave \in [Leaves -> LeaveRow \cup {NoRow}]
               /\ \A m \in Members : /\ Len(day[m]) <= MaxDayRows
                                     /\ \A i \in DOMAIN day[m] : day[m][i] \in DayRow

\* the columns of a row that a flush sets: those that differ from the copy
SetChanged(row, copy, values) ==
    [f \in DOMAIN row |-> IF values[f] = copy[f] THEN row[f] ELSE values[f]]

Employed(m) == member[m] # NoRow /\ ~member[m].deleted    \* get_staff

\* validate_tsc_number looks for at most one other row: none is a free
\* number, one is a refusal, two are an error; only the first goes on
TscFree(n, m) ==
    n = NoTsc \/ \A o \in Members \ {m} : Employed(o) => member[o].tsc # n

-----------------------------------------------------------------------------
(* Members. *)

CheckHire(s) == /\ At(s, "hire", "start")
                /\ IF TscFree(cmd[s].tsc, cmd[s].member) /\ member[cmd[s].member] = NoRow
                   THEN Goto(s, "write", NoView) ELSE Finish(s)
                /\ UNCHANGED staffTables

\* every hire is a row of its own (id = uuid4)
CommitHire(s) ==
    /\ At(s, "hire", "write")
    /\ member[cmd[s].member] = NoRow
    /\ member' = [member EXCEPT ![cmd[s].member] = NewMember(cmd[s].tsc)]
    /\ Finish(s)
    /\ UNCHANGED <<leave, day>>

ReadMember(s) ==
    /\ \E op \in {"amend", "retire", "ask", "attendance", "staff"} : At(s, op, "start")
    /\ IF Employed(cmd[s].member) THEN Goto(s, "write", member[cmd[s].member])
                                  ELSE Finish(s)
    /\ UNCHANGED staffTables

\* update_staff checks a new number after it has read the member
CheckAmend(s) ==
    /\ At(s, "amend", "write")
    /\ IF "tsc" \in DOMAIN cmd[s] => TscFree(cmd[s].tsc, cmd[s].member)
       THEN Goto(s, "commit", seen[s]) ELSE Finish(s)
    /\ UNCHANGED staffTables

CommitAmend(s) ==
    /\ At(s, "amend", "commit")
    /\ LET c == cmd[s]
           values == IF "tsc" \in DOMAIN c THEN [seen[s] EXCEPT !.tsc = c.tsc]
                                           ELSE [seen[s] EXCEPT !.status = c.status]
       IN  member' = [member EXCEPT ![c.member] = SetChanged(@, seen[s], values)]
    /\ Finish(s)
    /\ UNCHANGED <<leave, day>>

CommitRetire(s) == /\ At(s, "retire", "write")
                   /\ member' = [member EXCEPT ![cmd[s].member].deleted = TRUE]
                   /\ Finish(s)
                   /\ UNCHANGED <<leave, day>>

-----------------------------------------------------------------------------
(* Leave. *)

CommitAsk(s) ==
    /\ At(s, "ask", "write")
    /\ IF cmd[s].days > 0 /\ leave[cmd[s].leave] = NoRow
       THEN leave' = [leave EXCEPT ![cmd[s].leave] =
              [member |-> cmd[s].member, status |-> "pending", approved_by |-> NoHead]]
       ELSE UNCHANGED leave
    /\ Finish(s)
    /\ UNCHANGED <<member, day>>

\* mutant: a decision is not refused for a request that has one
ReadLeaveDecided(s) ==
    /\ At(s, "decide", "start")
    /\ LET row == leave[cmd[s].leave]
       IN  IF row # NoRow THEN Goto(s, "write", row) ELSE Finish(s)
    /\ UNCHANGED staffTables

ReadLeave(s) ==
    /\ At(s, "decide", "start")
    /\ LET row == leave[cmd[s].leave]
       IN  IF row # NoRow /\ row.status = "pending" THEN Goto(s, "write", row)
                                                    ELSE Finish(s)
    /\ UNCHANGED staffTables

CommitDecision(s) ==
    /\ At(s, "decide", "write")
    /\ LET c == cmd[s]
           values == [seen[s] EXCEPT !.status = c.decision, !.approved_by = c.by]
       IN  leave' = [leave EXCEPT ![c.leave] = SetChanged(@, seen[s], values)]
    /\ Finish(s)
    /\ UNCHANGED <<member, day>>

-----------------------------------------------------------------------------
(* Attendance of the day. *)

\* a row of each member is found, which of several is for the database to
\* say; 0 is none
ReadDay(s) ==
    /\ At(s, "day", "start")
    /\ \E at \in [DOMAIN cmd[s].entries -> 0 .. MaxDayRows] :
          /\ \A m \in DOMAIN at : IF day[m] = <<>> THEN at[m] = 0 ELSE at[m] \in DOMAIN day[m]
          /\ Goto(s, "write", [found |-> [m \in DOMAIN at |->
                [at |-> at[m], row |-> IF at[m] = 0 THEN NoRow ELSE day[m][at[m]]]]])
    /\ UNCHANGED staffTables

DayAfter(s, m) ==
    LET found == seen[s].found[m]
        values == cmd[s].entries[m]
    IN  IF found.at = 0 THEN Append(day[m], values)
        ELSE [day[m] EXCEPT ![found.at] = SetChanged(@, found.row, values)]

CommitDay(s) ==
    /\ At(s, "day", "write")
    /\ \A m \in DOMAIN seen[s].found : Len(DayAfter(s, m)) <= MaxDayRows
    /\ day' = [m \in Members |-> IF m \in DOMAIN seen[s].found THEN DayAfter(s, m) ELSE day[m]]
    /\ Goto(s, "answer", [records |-> [m \in DOMAIN seen[s].found |-> day'[m]]])
    /\ UNCHANGED <<member, leave>>

\* get_staff_attendance and its summary, list_staff: what is committed
ReadStaff(s) == /\ \E op \in {"attendance", "staff"} : At(s, op, "write")
                /\ Goto(s, "answer", IF cmd[s].op = "staff" THEN member[cmd[s].member]
                                  ELSE [rows |-> day[cmd[s].member]])
                /\ UNCHANGED staffTables

AnswerStaff(s) == /\ \E op \in {"day", "attendance", "staff"} : At(s, op, "answer")
                  /\ Finish(s)
                  /\ UNCHANGED staffTables

StaffNext(s) ==
    \/ CheckHire(s) \/ CommitHire(s) \/ ReadMember(s) \/ CheckAmend(s)
    \/ CommitAmend(s) \/ CommitRetire(s)
    \/ CommitAsk(s) \/ ReadLeave(s) \/ CommitDecision(s)
    \/ ReadDay(s) \/ CommitDay(s) \/ ReadStaff(s) \/ AnswerStaff(s)

-----------------------------------------------------------------------------
(* Properties. *)

\* the calls that may have left a decision
Decisions(l) == {<<c.decision, c.by>> : c \in {d \in menu : d.op = "decide" /\ d.leave = l}}

\* A request that is approved or rejected names the user of the call that
\* did so, also when several calls saw it pending at once ("User ID who
\* approved/rejected the leave"): the two columns are never of two calls.
OneCallDecides ==
    \A l \in {k \in Leaves : leave[k] # NoRow} :
        /\ leave[l].status = "pending" <=> leave[l].approved_by = NoHead
        /\ leave[l].status # "pending" =>
               <<leave[l].status, leave[l].approved_by>> \in Decisions(l)

-----------------------------------------------------------------------------
(* The inductive invariant: no call removes a row, and what a call writes  *)
(* over was a row when it was read.                                        *)

StaffSession(s) ==
    /\ At(s, "amend", "write") \/ At(s, "amend", "commit") \/ At(s, "retire", "write") =>
         member[cmd[s].member] # NoRow /\ seen[s] \in StaffRow
    /\ At(s, "decide", "write") =>
         /\ leave[cmd[s].leave] # NoRow /\ seen[s] \in LeaveRow
         /\ seen[s].status = "pending" /\ seen[s].approved_by = NoHead
    /\ At(s, "day", "write") =>
         /\ DOMAIN seen[s].found = DOMAIN cmd[s].entries
         /\ \A m \in DOMAIN seen[s].found :
              LET found == seen[s].found[m]
              IN  /\ found.at \in Nat /\ found.at <= Len(day[m])
                  /\ found.at # 0 => found.row \in DayRow

StaffInv ==
    /\ StaffTypeOK /\ day \in [Members -> Seq(DayRow)]
    /\ OneCallDecides
    /\ \A s \in Sessions : StaffSession(s)
=============================================================================
