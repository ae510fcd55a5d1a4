------------------------------- MODULE Tracking -------------------------------
(***************************************************************************)
(* Live tracking next to the transport office: the phone of a trip's       *)
(* helper, issued and revoked by the staff, sends positions and stop       *)
(* progress.  These calls take no advisory lock, only the row of the trip; *)
(* the commands of Transport run beside them, and close the trip under the *)
(* same row lock.  A phone repeats, delays and reorders its calls: each is *)
(* drawn from Calls any number of times.  A token stands for its session;  *)
(* a position is the time it was taken at, latitude and so on left out.    *)
(***************************************************************************)
EXTENDS Transport

CONSTANTS Calls, Tokens,
          Clock,                  \* the times 0 .. n
          Old, Ahead, Gap, Life   \* 120 and 15 seconds, 5 seconds, 8 hours

Stages == <<"arriving", "at_stop", "departed">>
Rank(stage) == CHOOSE i \in DOMAIN Stages : Stages[i] = stage

PhoneRow == [trip: Requests, revoked: BOOLEAN, expires: Nat]
PositionRow == [trip: Requests, token: Tokens, at: Clock, received: Clock]
ProgressRow == [stop: Stops, order: Nat, stage: {Stages[i] : i \in DOMAIN Stages},
                version: Nat \ {0}]

Issue   == [op: {"issue"}, trip: Requests, token: Tokens]
Revoke  == [op: {"revoke"}, trip: Requests]
Fix     == [op: {"ingest"}, token: Tokens, at: Clock]
Advance == [op: {"progress"}, token: Tokens, stop: Stops,
            stage: {Stages[i] : i \in DOMAIN Stages}, version: Nat]

ASSUME LiveConstantsAssumption ==
    /\ Clock # {} /\ IsFiniteSet(Clock) /\ Clock = 0 .. Cardinality(Clock) - 1
    /\ Old \in Nat /\ Ahead \in Nat /\ Gap \in Nat /\ Life \in Nat
    /\ \A c \in Calls : c \in Issue \/ c \in Revoke \/ c \in Fix \/ c \in Advance
    /\ NoRow \notin PhoneRow \cup PositionRow \cup ProgressRow /\ NoCommand \notin Calls

VARIABLES phone,          \* transport_phone_sessions
          position,       \* transport_live_positions: one row per vehicle
          progress,       \* transport_trips.tracking_progress
          clock,
          step, call,     \* the phase of a call and the call itself
          found,          \* the phone session as read before the trip is locked
          stamp           \* the time the call has read

liveTables == <<phone, position, progress>>
callers == <<step, call, found, stamp>>
live == <<liveTables, clock, callers>>
liveVars == <<vars, live>>

\* everything of the office but the locks, which it shares with the calls
office == <<transportTables, world, pc, cmd, page, roster>>

Steps == {"idle", "lock", "commit"}

LiveTypeOK ==
    /\ TypeOK
    /\ phone \in [Tokens -> PhoneRow \cup {NoRow}]
    /\ position \in [Vehicles -> PositionRow \cup {NoRow}]
    /\ progress \in [Requests -> ProgressRow \cup {NoRow}]
    /\ clock \in Clock
    /\ step \in [Callers -> Steps]
    /\ call \in [Callers -> Calls \cup {NoCommand}]
    /\ found \in [Callers -> PhoneRow \cup {NoRow}]
    /\ stamp \in [Callers -> Clock]
    /\ \A x \in Callers :
         step[x] = "idle" => call[x] = NoCommand /\ held[x] = {} /\ found[x] = NoRow
    /\ \A t \in Requests : progress[t] # NoRow =>
         [stop |-> progress[t].stop, order |-> progress[t].order] \in trip[t].stops

LiveInit ==
    /\ Init
    /\ phone = [k \in Tokens |-> NoRow]
    /\ position = [v \in Vehicles |-> NoRow]
    /\ progress = [t \in Requests |-> NoRow]
    /\ clock = 0
    /\ step = [x \in Callers |-> "idle"]
    /\ call = [x \in Callers |-> NoCommand]
    /\ found = [x \in Callers |-> NoRow]
    /\ stamp = [x \in Callers |-> 0]

\* mutant: the trip stays locked after the call
CallEndsLocked(x) ==
    /\ step' = [step EXCEPT ![x] = "idle"]
    /\ call' = [call EXCEPT ![x] = NoCommand]
    /\ found' = [found EXCEPT ![x] = NoRow]
    /\ stamp' = [stamp EXCEPT ![x] = 0]
    /\ UNCHANGED held

\* commit or rollback, and the response, which may be lost
CallEnds(x) ==
    /\ step' = [step EXCEPT ![x] = "idle"]
    /\ call' = [call EXCEPT ![x] = NoCommand]
    /\ found' = [found EXCEPT ![x] = NoRow]
    /\ stamp' = [stamp EXCEPT ![x] = 0]
    /\ held' = [held EXCEPT ![x] = {}]

Reject(x) == CallEnds(x) /\ UNCHANGED <<office, liveTables, clock>>

\* a random code is one that nobody has
Unused(k) ==
    /\ phone[k] = NoRow
    /\ \A y \in Callers : step[y] # "idle" /\ call[y].op = "issue" => call[y].token # k

\* issue_phone and revoke_phone: a call that waits for the trip has read
\* nothing; a trip that is closed or has no stops is refused a phone.
StaffCall(x) ==
    /\ step[x] = "idle"
    /\ \E c \in Calls :
         /\ \/ c.op = "issue" /\ c.trip \in OpenTrips /\ trip[c.trip].stops # {} /\ Unused(c.token)
            \/ c.op = "revoke" /\ c.trip \in Trips
         /\ Acquire(x, TripLock(c.trip))
         /\ call' = [call EXCEPT ![x] = c]
    /\ step' = [step EXCEPT ![x] = "commit"]
    /\ stamp' = [stamp EXCEPT ![x] = clock]
    /\ UNCHANGED <<office, liveTables, clock, found>>

\* A phone calls: its token is looked up with a plain SELECT, and an unknown
\* one is refused.
PhoneCall(x) ==
    /\ step[x] = "idle"
    /\ \E c \in Calls :
         /\ c.op \in {"ingest", "progress"} /\ phone[c.token] # NoRow
         /\ call' = [call EXCEPT ![x] = c]
         /\ found' = [found EXCEPT ![x] = phone[c.token]]
    /\ step' = [step EXCEPT ![x] = "lock"]
    /\ UNCHANGED <<vars, liveTables, clock, stamp>>

TripOf(x) == IF call[x].op \in {"issue", "revoke"} THEN call[x].trip ELSE found[x].trip

\* mutant: the session is used as it was read before the wait for the trip
SharingStale(x) ==
    /\ TripOf(x) \in OpenTrips
    /\ ~found[x].revoked /\ clock < found[x].expires

\* phone(lock=True): after the trip, the session is read again under its own lock
Sharing(x) ==
    LET row == phone[call[x].token] IN
    /\ TripOf(x) \in OpenTrips
    /\ ~row.revoked /\ clock < row.expires

\* ingest: a fix of about now; newer than the last of this trip, and not too soon
FixAccepted(x) ==
    LET c == call[x]
        last == position[trip[TripOf(x)].vehicle]
    IN  /\ c.at <= clock + Ahead /\ clock <= c.at + Old
        /\ last # NoRow /\ last.trip = TripOf(x)
             => c.at > last.at /\ clock - last.received >= Gap

Version(t) == IF progress[t] = NoRow THEN 0 ELSE progress[t].version
PlaceOf(t, x) == (CHOOSE y \in trip[t].stops : y.stop = x).order

\* progress: a stop of this trip, not the update already recorded, of the
\* version the helper has seen, and not backwards
AdvanceAccepted(x) ==
    LET c == call[x]
        t == TripOf(x)
        last == progress[t]
    IN  /\ \E y \in trip[t].stops : y.stop = c.stop
        /\ c.version = Version(t)
        /\ last # NoRow =>
             \/ PlaceOf(t, c.stop) > last.order
             \/ PlaceOf(t, c.stop) = last.order /\ Rank(c.stage) > Rank(last.stage)

CallAccepted(x) ==
    /\ Sharing(x)
    /\ IF call[x].op = "ingest" THEN FixAccepted(x) ELSE AdvanceAccepted(x)

\* mutant: the trip is read without FOR UPDATE
TakeTripNot(x) ==
    /\ step[x] = "lock" /\ CallAccepted(x)
    /\ step' = [step EXCEPT ![x] = "commit"]
    /\ stamp' = [stamp EXCEPT ![x] = clock]
    /\ UNCHANGED <<vars, liveTables, clock, call, found>>

\* the row of the trip, and what the call checks under it
TakeTrip(x) ==
    /\ step[x] = "lock"
    /\ Acquire(x, TripLock(TripOf(x)))
    /\ CallAccepted(x)
    /\ step' = [step EXCEPT ![x] = "commit"]
    /\ stamp' = [stamp EXCEPT ![x] = clock]
    /\ UNCHANGED <<office, liveTables, clock, call, found>>

\* 404, 409, 410, 429 or 400; or a repeated call that is answered without a write
TurnAway(x) ==
    /\ step[x] = "lock"
    /\ Free(x, TripLock(TripOf(x)))
    /\ ~CallAccepted(x)
    /\ Reject(x)

At(x, op) == step[x] = "commit" /\ call[x].op = op

RevokeAll(t) ==
    [k \in Tokens |-> IF phone[k] # NoRow /\ phone[k].trip = t
                      THEN [phone[k] EXCEPT !.revoked = TRUE] ELSE phone[k]]

\* the phones before it are revoked, in the same transaction
CommitIssue(x) ==
    /\ At(x, "issue")
    /\ phone' = [RevokeAll(TripOf(x)) EXCEPT ![call[x].token] =
                   [trip |-> TripOf(x), revoked |-> FALSE, expires |-> stamp[x] + Life]]
    /\ CallEnds(x)
    /\ UNCHANGED <<office, position, progress, clock>>

CommitRevoke(x) ==
    /\ At(x, "revoke")
    /\ phone' = RevokeAll(TripOf(x))
    /\ CallEnds(x)
    /\ UNCHANGED <<office, position, progress, clock>>

CommitFix(x) ==
    /\ At(x, "ingest")
    /\ position' = [position EXCEPT ![trip[TripOf(x)].vehicle] =
                      [trip |-> TripOf(x), token |-> call[x].token, at |-> call[x].at,
                       received |-> stamp[x]]]
    /\ CallEnds(x)
    /\ UNCHANGED <<office, phone, progress, clock>>

CommitAdvance(x) ==
    LET t == TripOf(x) IN
    /\ At(x, "progress")
    /\ progress' = [progress EXCEPT ![t] =
                      [stop |-> call[x].stop, order |-> PlaceOf(t, call[x].stop),
                       stage |-> call[x].stage, version |-> Version(t) + 1]]
    /\ CallEnds(x)
    /\ UNCHANGED <<office, phone, position, clock>>

\* The connection drops or the worker stops before the commit.
Drop(x) == step[x] # "idle" /\ Reject(x)

TimePasses ==
    /\ clock + 1 \in Clock
    /\ clock' = clock + 1
    /\ UNCHANGED <<vars, liveTables, callers>>

-----------------------------------------------------------------------------

Serve(x) ==
    \/ StaffCall(x) \/ PhoneCall(x) \/ TakeTrip(x) \/ TurnAway(x)
    \/ CommitIssue(x) \/ CommitRevoke(x) \/ CommitFix(x) \/ CommitAdvance(x)

LiveNext ==
    \/ Next /\ UNCHANGED live
    \/ \E x \in Callers : Serve(x) \/ Drop(x)
    \/ TimePasses

LiveSpec == LiveInit /\ [][LiveNext]_liveVars

-----------------------------------------------------------------------------
(* Properties. *)

Usable(k, t) == phone[k] # NoRow /\ phone[k].trip = t /\ ~phone[k].revoked

\* "Revocation, rotation and closure are checked in the same database
\* transaction as each accepted fix": positions and progress are written only
\* for a trip that is open and by the one phone that is neither revoked nor
\* replaced at the moment of the write, nor expired when it was checked; and a
\* trip never has two such phones.
SharingEnds ==
    /\ [](\A k, m \in Tokens, t \in Requests : Usable(k, t) /\ Usable(m, t) => k = m)
    /\ [][/\ \A v \in Vehicles : position'[v] # position[v] =>
               LET new == position'[v] IN
               /\ new.trip \in OpenTrips /\ trip[new.trip].vehicle = v
               /\ Usable(new.token, new.trip) /\ new.received < phone[new.token].expires
          /\ \A t \in Requests : progress'[t] # progress[t] =>
               /\ t \in OpenTrips
               /\ \E x \in Callers : /\ step[x] = "commit" /\ step'[x] = "idle"
                                     /\ Usable(call[x].token, t)]_liveVars

\* "Older/identical fixes do not overwrite a newer fix" and a stop update never
\* takes a journey backwards nor counts twice, in whatever order and however
\* often the calls of the phones of one trip arrive; the last position of a
\* trip gives way to another trip's only once its own is closed.
JourneyForward ==
    [][/\ \A v \in Vehicles : position[v] # NoRow /\ position'[v] # position[v] =>
            IF position'[v].trip = position[v].trip
            THEN /\ position'[v].at > position[v].at
                 /\ position'[v].received >= position[v].received + Gap
            ELSE position[v].trip \notin OpenTrips
       /\ \A t \in Requests : progress[t] # NoRow /\ progress'[t] # progress[t] =>
            /\ progress'[t].version = progress[t].version + 1
            /\ \/ progress'[t].order > progress[t].order
               \/ /\ progress'[t].stop = progress[t].stop
                  /\ Rank(progress'[t].stage) > Rank(progress[t].stage)]_liveVars

-----------------------------------------------------------------------------
(* The inductive invariant: what holds in every state, from which the       *)
(* properties above follow.                                                 *)

\* a position and a progress are of a trip that was, and a trip has one phone
LiveRowsFit ==
    /\ \A v \in Vehicles : position[v] # NoRow =>
         position[v].trip \in Trips /\ trip[position[v].trip].vehicle = v
    /\ \A t \in Requests : progress[t] # NoRow => t \in Trips
    /\ \A k, m \in Tokens, t \in Requests : Usable(k, t) /\ Usable(m, t) => k = m

\* two phones being issued have two tokens
TokensApart ==
    \A x, y \in Callers :
        /\ step[x] # "idle" /\ call[x].op = "issue"
        /\ step[y] # "idle" /\ call[y].op = "issue"
        /\ call[x].token = call[y].token
        => x = y

\* a call holds nothing before it has the row of its trip, and a phone stays
\* the phone of the trip it was issued for
CallFits(x) ==
    /\ step[x] # "idle" => call[x] \in Calls
    /\ step[x] = "lock" => call[x].op \in {"ingest", "progress"} /\ held[x] = {}
    /\ step[x] = "commit" => held[x] = {TripLock(TripOf(x))}
    /\ step[x] # "idle" /\ call[x].op \in {"ingest", "progress"} =>
         /\ found[x] # NoRow /\ phone[call[x].token] # NoRow
         /\ phone[call[x].token].trip = found[x].trip

\* what a call has checked under the row of its trip is still so when it writes
CallStands(x) ==
    LET c == call[x] IN
    step[x] = "commit" =>
        /\ TripOf(x) \in Trips
        /\ c.op = "issue" => TripOf(x) \in OpenTrips /\ phone[c.token] = NoRow
        /\ c.op \in {"ingest", "progress"} =>
             /\ TripOf(x) \in OpenTrips /\ Usable(c.token, TripOf(x))
             /\ stamp[x] < phone[c.token].expires
        /\ c.op = "ingest" =>
             LET last == position[trip[TripOf(x)].vehicle] IN
             last # NoRow /\ last.trip = TripOf(x) =>
                 c.at > last.at /\ stamp[x] - last.received >= Gap
        /\ c.op = "progress" => AdvanceAccepted(x)

LiveIInv ==
    /\ LiveTypeOK /\ IInv /\ LiveRowsFit /\ TokensApart
    /\ \A x \in Callers : CallFits(x) /\ CallStands(x)

===============================================================================
