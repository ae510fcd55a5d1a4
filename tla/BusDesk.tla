-------------------------------- MODULE BusDesk --------------------------------
(***************************************************************************)
(* The commands of the transport office beside those of Transport, one     *)
(* after the other under the advisory lock of the school: upkeep and       *)
(* reported positions here, bills in Fares, access of parents in Families. *)
(* A moment is the age a reported position may have (15 minutes).          *)
(***************************************************************************)
EXTENDS Desk, Integers, FiniteSets, FiniteSetsExt

CONSTANTS BusRequests, Buses, Riders,
          LastMoment    \* bounds the clock

BusOps == {"service", "position", "fare", "agree", "link", "unlink"}
Moments == 0 .. LastMoment
NoDue == -1

ASSUME MomentsAssumption == LastMoment \in Nat

ServiceRequest == [op: {"service"}, req: BusRequests, bus: Buses,
                   day: Moments, due: Moments \cup {NoDue}]
PositionRequest == [op: {"position"}, req: BusRequests, bus: Buses, at: Moments]
BusQuery == [op: {"maintenance", "location"}, bus: Buses]

VARIABLES busEvent,    \* transport_events: the command a request id carried
          upkeep,      \* transport_maintenance, and transport_positions
          position,
          moment

busTables == <<busEvent, upkeep, position>>

BusInit == /\ busEvent = [q \in BusRequests |-> NoRow]
           /\ upkeep = {} /\ position = {}
           /\ moment = 0

BusTypeOK == /\ \A q \in BusRequests : busEvent[q] # NoRow => busEvent[q].op \in BusOps
             /\ upkeep \subseteq ServiceRequest /\ position \subseteq PositionRequest
             /\ moment \in Moments

Recorded == [reply |-> "recorded"]
InUse == [reply |-> "conflict"]

\* who holds pg_advisory_xact_lock of the school
Commanding(s) == pc[s] \in {"list", "write", "commit"} /\ cmd[s].op \in BusOps
NobodyElse(s) == \A other \in Sessions \ {s} : ~Commanding(other)

LockSchool(s) ==
    /\ pc[s] = "start" /\ cmd[s].op \in BusOps
    /\ NobodyElse(s)
    /\ Goto(s, "list", NoView)
    /\ UNCHANGED <<busTables, moment>>

\* mutant: an id that is known is answered with the result recorded for it
EarlierAnswerAny(s) == Recorded

EarlierAnswer(s) == IF busEvent[cmd[s].req] = cmd[s] THEN Recorded ELSE InUse

FindCommand(s) ==
    /\ pc[s] = "list" /\ cmd[s].op \in BusOps
    /\ IF busEvent[cmd[s].req] = NoRow THEN Goto(s, "write", NoView)
       ELSE Reply(s, EarlierAnswer(s))
    /\ UNCHANGED <<busTables, moment>>

\* the event is committed with what the command has done
Record(s) == /\ busEvent' = [busEvent EXCEPT ![cmd[s].req] = cmd[s]]
             /\ Reply(s, Recorded)

\* _maintenance: a day that has come, and the next one after it
RecordService(s) ==
    /\ At(s, "service", "write")
    /\ IF cmd[s].day > moment \/ (cmd[s].due # NoDue /\ cmd[s].due < cmd[s].day)
       THEN Finish(s) /\ UNCHANGED busTables
       ELSE /\ upkeep' = upkeep \cup {cmd[s]}
            /\ Record(s)
            /\ UNCHANGED position
    /\ UNCHANGED moment

\* _position: not older than a moment, not of the future
RecordPosition(s) ==
    /\ At(s, "position", "write")
    /\ IF cmd[s].at < moment - 1 \/ cmd[s].at > moment
       THEN Finish(s) /\ UNCHANGED busTables
       ELSE /\ position' = position \cup {cmd[s]}
            /\ Record(s)
            /\ UNCHANGED upkeep
    /\ UNCHANGED moment

\* maintenance: the number of records and a page of them, in two statements
CountUpkeep(s) == /\ At(s, "maintenance", "start")
                  /\ Goto(s, "list", [total |->
                       Cardinality({u \in upkeep : u.bus = cmd[s].bus})])
                  /\ UNCHANGED <<busTables, moment>>

ReadUpkeep(s) == /\ At(s, "maintenance", "list")
                 /\ Reply(s, [total |-> seen[s].total,
                              records |-> {u \in upkeep : u.bus = cmd[s].bus}])
                 /\ UNCHANGED <<busTables, moment>>

\* location: the position captured last, whenever it was reported
ReadLocation(s) ==
    /\ At(s, "location", "start")
    /\ LET captured == {p.at : p \in {q \in position : q.bus = cmd[s].bus}}
       IN  Reply(s, [position |-> IF captured = {} THEN NoRow ELSE [at |-> Max(captured)]])
    /\ UNCHANGED <<busTables, moment>>

SendBus(s) == /\ pc[s] = "answer"
              /\ cmd[s].op \in BusOps \cup {"maintenance", "location"}
              /\ Finish(s)
              /\ UNCHANGED <<busTables, moment>>

BusNext(s) ==
    \/ LockSchool(s) \/ FindCommand(s) \/ RecordService(s) \/ RecordPosition(s)
    \/ CountUpkeep(s) \/ ReadUpkeep(s) \/ ReadLocation(s) \/ SendBus(s)

MomentPasses == /\ moment < LastMoment
                /\ moment' = moment + 1
                /\ UNCHANGED busTables

-----------------------------------------------------------------------------
\* "Matching request UUIDs replay an immutable command result": what a command
\* has recorded it has recorded once, a repetition is answered as the first
\* call was, however late, and an id never stands for two commands ("already
\* used for different transport details").
CommandsOnce ==
    /\ \A u \in upkeep \cup position : busEvent[u.req] = u
    /\ \A q \in BusRequests : busEvent[q] # NoRow =>
         /\ busEvent[q].op = "service" => busEvent[q] \in upkeep
         /\ busEvent[q].op = "position" => busEvent[q] \in position
    /\ \A s \in Sessions : pc[s] = "answer" /\ cmd[s].op \in BusOps =>
         (seen[s] = Recorded) = (busEvent[cmd[s].req] = cmd[s])

-----------------------------------------------------------------------------
(* The inductive invariant.                                                *)

BusSession(s) ==
    /\ pc[s] \in {"write", "commit"} /\ cmd[s].op \in BusOps => busEvent[cmd[s].req] = NoRow
    /\ pc[s] = "answer" /\ cmd[s].op \in BusOps => busEvent[cmd[s].req] # NoRow

BusInv ==
    /\ BusTypeOK /\ CommandsOnce
    /\ DOMAIN busEvent = BusRequests
    /\ \A q \in BusRequests : busEvent[q] # NoRow => busEvent[q] \in menu /\ busEvent[q].req = q
    /\ NoRow \notin upkeep \cup position
    /\ \A s \in Sessions : BusSession(s)
    /\ \A s, t \in Sessions : s # t => ~(Commanding(s) /\ Commanding(t))
=============================================================================
