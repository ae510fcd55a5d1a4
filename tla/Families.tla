-------------------------------- MODULE Families --------------------------------
(***************************************************************************)
(* What parents see of the buses: the office links verified accounts with  *)
(* students, and the live feed joins the open links with the rosters of    *)
(* the trips.  The student service and the accounts change without the     *)
(* advisory lock; of a trip, here, only who rides in it counts.            *)
(***************************************************************************)
EXTENDS BusDesk

CONSTANTS Parents, StaffViewer, Trips,
          FirstTrips    \* the dispatched trips: direction, day, and who rides in each

Parts == {"pending", "boarded", "alighted", "absent", "cancelled"}
RideRow == [status: {"in_progress", "completed", "cancelled"}, direction: {"pickup", "drop"},
            day: {"today", "earlier"}]

LinkRow == [rider: Riders, parent: Parents, open: BOOLEAN]

ASSUME FamiliesAssumption ==
    /\ NoRow \notin LinkRow /\ StaffViewer \notin Parents
    /\ FirstTrips \in [Trips -> [direction: {"pickup", "drop"}, day: {"today", "earlier"},
                                riders: SUBSET Riders]]

LinkRequest == [op: {"link"}, req: BusRequests, rider: Riders, parent: Parents]
UnlinkRequest == [op: {"unlink"}, req: BusRequests, link: BusRequests]
RideRequest == [op: {"board", "alight", "absent"}, trip: Trips, rider: Riders]
CloseRequest == [op: {"complete", "call_off"}, trip: Trips]
LeaveRequest == [op: {"leave"}, rider: Riders]
DemoteRequest == [op: {"demote"}, parent: Parents]
FeedQuery == [op: {"feed"}, viewer: Parents \cup {StaffViewer}]
FamiliesQuery == [op: {"families"}]

VARIABLES link,         \* transport_family_access, under the request that made it
          attending,    \* the students who are ACTIVE and not deleted
          guardians,    \* the active accounts with the role of a parent
          ride, part    \* transport_trips, and the roster of each

familyTables == <<link, attending, guardians, ride, part>>

FamiliesInit ==
    /\ link = [q \in BusRequests |-> NoRow]
    /\ attending = Riders /\ guardians = Parents
    /\ ride = [t \in Trips |-> [status |-> "in_progress", direction |-> FirstTrips[t].direction,
                                day |-> FirstTrips[t].day]]
    /\ part = [t \in Trips |-> [p \in FirstTrips[t].riders |-> "pending"]]

FamiliesTypeOK ==
    /\ link \in [BusRequests -> LinkRow \cup {NoRow}]
    /\ attending \subseteq Riders /\ guardians \subseteq Parents
    /\ ride \in [Trips -> RideRow]
    /\ \A t \in Trips : DOMAIN part[t] \subseteq Riders
                        /\ \A p \in DOMAIN part[t] : part[t][p] \in Parts

OpenLinks == {q \in BusRequests : link[q] # NoRow /\ link[q].open}
LinksOf(p, g) == {q \in OpenLinks : link[q].rider = p /\ link[q].parent = g}

Familiar == UNCHANGED <<busTables, moment, familyTables>>

-----------------------------------------------------------------------------
(* The office: link and revoke, two commands.                              *)

\* _link_parent: the student, without a lock
ReadChild(s) ==
    /\ At(s, "link", "write")
    /\ IF cmd[s].rider \in attending THEN Goto(s, "commit", NoView) ELSE Finish(s)
    /\ Familiar

\* mutant: neither the query nor the index asks for the link there is
MayLinkAlways(p, g) == g \in guardians

\* the account with its roles, and the open link, unique by its index
MayLink(p, g) == g \in guardians /\ LinksOf(p, g) = {}

CommitLink(s) ==
    LET c == cmd[s] IN
    /\ At(s, "link", "commit")
    /\ IF ~MayLink(c.rider, c.parent) THEN Finish(s) /\ UNCHANGED <<busTables, link>>
       ELSE /\ link' = [link EXCEPT ![c.req] =
                          [rider |-> c.rider, parent |-> c.parent, open |-> TRUE]]
            /\ Record(s)
            /\ UNCHANGED <<upkeep, position>>
    /\ UNCHANGED <<moment, attending, guardians, ride, part>>

\* mutant: access that has ended is ended again
RevocableAny(q) == link[q] # NoRow

Revocable(q) == q \in OpenLinks

\* _revoke_parent
Revoke(s) ==
    /\ At(s, "unlink", "write")
    /\ IF ~Revocable(cmd[s].link) THEN Finish(s) /\ UNCHANGED <<busTables, link>>
       ELSE /\ link' = [link EXCEPT ![cmd[s].link].open = FALSE]
            /\ Record(s)
            /\ UNCHANGED <<upkeep, position>>
    /\ UNCHANGED <<moment, attending, guardians, ride, part>>

-----------------------------------------------------------------------------
(* The feed.                                                               *)

\* get_current_active_user loads the account and its roles: staff_view
ReadViewer(s) ==
    /\ At(s, "feed", "start")
    /\ IF cmd[s].viewer \in guardians \cup {StaffViewer} THEN Goto(s, "list", NoView) ELSE Finish(s)
    /\ Familiar

\* mutant: who has left the bus, or never came, still shows where it is
VisibleToAll(t, p) == ride[t].status = "in_progress"

\* journey: "No post-journey or absent child's continued access to the vehicle."
Visible(t, p) == ride[t].status = "in_progress" /\ part[t][p] \in {"pending", "boarded"}

Nearby(t, p) == /\ Visible(t, p)
                /\ part[t][p] = IF ride[t].direction = "pickup" THEN "pending" ELSE "boarded"

\* mutant: a revoked link is still joined
JoinedLinksAny(g) == {link[q].rider : q \in {x \in BusRequests : link[x] # NoRow
                                                                 /\ link[x].parent = g}}

JoinedLinks(g) == {link[q].rider : q \in {x \in OpenLinks : link[x].parent = g}}

FamilyFeed(g) ==
    {[trip |-> tp[1], child |-> tp[2], part |-> part[tp[1]][tp[2]],
      status |-> ride[tp[1]].status, position |-> Visible(tp[1], tp[2]),
      nearby |-> Nearby(tp[1], tp[2])] :
        tp \in {x \in Trips \X (JoinedLinks(g) \cap attending) :
                  /\ x[2] \in DOMAIN part[x[1]]
                  /\ ride[x[1]].status = "in_progress" \/ ride[x[1]].day = "today"}}

StaffFeed == {[trip |-> t, status |-> ride[t].status, position |-> TRUE] :
                t \in {x \in Trips : ride[x].status = "in_progress"}}

Feed(v) == IF v = StaffViewer THEN StaffFeed ELSE FamilyFeed(v)

CountJourneys(s) == /\ At(s, "feed", "list")
                    /\ Goto(s, "write", [total |-> Cardinality(Feed(cmd[s].viewer))])
                    /\ Familiar

\* trips, fixes, passengers, links and students in one statement; revoked keeps
\* the links that had ended by then, left the students who were gone
ReadJourneys(s) == /\ At(s, "feed", "write")
                   /\ Reply(s, [total |-> seen[s].total, journeys |-> Feed(cmd[s].viewer),
                                revoked |-> {q \in BusRequests : link[q] # NoRow} \ OpenLinks,
                                left |-> Riders \ attending])
                   /\ Familiar

\* families: the number of open links and a page of them
CountLinks(s) == /\ At(s, "families", "start")
                 /\ Goto(s, "list", [total |-> Cardinality(OpenLinks)])
                 /\ Familiar

ReadLinks(s) == /\ At(s, "families", "list")
                /\ Reply(s, [total |-> seen[s].total, links |-> OpenLinks])
                /\ Familiar

SendFamily(s) == /\ At(s, "feed", "answer") \/ At(s, "families", "answer")
                 /\ Finish(s)
                 /\ Familiar

-----------------------------------------------------------------------------
(* What the others do: a command of Transport, the student service and the *)
(* accounts, each when it commits.                                         *)

Marked(op) == CASE op = "board" -> <<"pending", "boarded">>
                [] op = "alight" -> <<"boarded", "alighted">>
                [] op = "absent" -> <<"pending", "absent">>

MarkRider(s) ==
    LET c == cmd[s] IN
    /\ pc[s] = "start" /\ c.op \in {"board", "alight", "absent"}
    /\ NobodyElse(s)
    /\ part' = IF c.rider \in DOMAIN part[c.trip] /\ ride[c.trip].status = "in_progress"
                  /\ part[c.trip][c.rider] = Marked(c.op)[1]
               THEN [part EXCEPT ![c.trip][c.rider] = Marked(c.op)[2]] ELSE part
    /\ Finish(s)
    /\ UNCHANGED <<busTables, moment, link, attending, guardians, ride>>

CloseRide(s) ==
    LET t == cmd[s].trip
        parts == {part[t][p] : p \in DOMAIN part[t]}
        done == cmd[s].op = "complete"
    IN  /\ pc[s] = "start" /\ cmd[s].op \in {"complete", "call_off"}
        /\ NobodyElse(s)
        /\ IF ride[t].status # "in_progress"
              \/ parts \cap (IF done THEN {"pending", "boarded"} ELSE {"boarded", "alighted"}) # {}
           THEN UNCHANGED <<ride, part>>
           ELSE /\ ride' = [ride EXCEPT ![t].status = IF done THEN "completed" ELSE "cancelled"]
                /\ part' = IF done THEN part
                           ELSE [part EXCEPT ![t] = [p \in DOMAIN @ |->
                                   IF @[p] = "pending" THEN "cancelled" ELSE @[p]]]
        /\ Finish(s)
        /\ UNCHANGED <<busTables, moment, link, attending, guardians>>

ChangeEnrolment(s) ==
    /\ At(s, "leave", "start")
    /\ attending' = attending \ {cmd[s].rider}
    /\ Finish(s)
    /\ UNCHANGED <<busTables, moment, link, guardians, ride, part>>

Demote(s) == /\ At(s, "demote", "start")
             /\ guardians' = guardians \ {cmd[s].parent}
             /\ Finish(s)
             /\ UNCHANGED <<busTables, moment, link, attending, ride, part>>

FamiliesNext(s) ==
    \/ ReadChild(s) \/ CommitLink(s) \/ Revoke(s)
    \/ ReadViewer(s) \/ CountJourneys(s) \/ ReadJourneys(s)
    \/ CountLinks(s) \/ ReadLinks(s) \/ SendFamily(s)
    \/ MarkRider(s) \/ CloseRide(s) \/ ChangeEnrolment(s) \/ Demote(s)

-----------------------------------------------------------------------------
\* "This parent already has access to this student's journeys": one open link
\* for a parent and a student, a link for each accepted request, and one
\* revocation for each link that has ended ("has already ended").
LinkedOnce ==
    /\ \A q, r \in OpenLinks :
         link[q].rider = link[r].rider /\ link[q].parent = link[r].parent => q = r
    /\ \A q \in BusRequests :
         LET ends == {r \in BusRequests : /\ busEvent[r] # NoRow
                                          /\ busEvent[r].op = "unlink" /\ busEvent[r].link = q}
         IN  IF link[q] = NoRow THEN ends = {}
             ELSE busEvent[q].op = "link" /\ Cardinality(ends) = IF link[q].open THEN 0 ELSE 1

\* "Parents see only linked current students' dispatched journeys", "After a
\* child is absent, alighted, cancelled, or the trip ends, that child's
\* response no longer contains vehicle coordinates", "Revoking the family link
\* removes its journeys on the next refresh": all as of one moment, whatever
\* commits around the call; a closed journey shows nobody on the way.
JourneysShown ==
    \A s \in Sessions : At(s, "feed", "answer") => \A j \in seen[s].journeys :
        IF cmd[s].viewer = StaffViewer THEN j.status = "in_progress"
        ELSE /\ \E q \in BusRequests \ seen[s].revoked :
                   /\ link[q] # NoRow
                   /\ link[q].rider = j.child /\ link[q].parent = cmd[s].viewer
             /\ j.child \notin seen[s].left
             /\ j.status # "in_progress" => j.part \in {"alighted", "absent", "cancelled"}
             /\ j.position => j.status = "in_progress" /\ j.part \in {"pending", "boarded"}

-----------------------------------------------------------------------------
(* The inductive invariant.                                                *)

Endings(q) == {r \in BusRequests : /\ busEvent[r] # NoRow
                                   /\ busEvent[r].op = "unlink" /\ busEvent[r].link = q}

LinkEnded(q) == IF link[q].open THEN Endings(q) = {} ELSE \E r \in BusRequests : Endings(q) = {r}

FamiliesInv ==
    /\ FamiliesTypeOK /\ LinkedOnce /\ JourneysShown
    /\ DOMAIN part = Trips
    /\ \A q \in BusRequests : link[q] # NoRow =>
         busEvent[q] # NoRow /\ busEvent[q].op = "link" /\ LinkEnded(q)
    \* nobody is on the way in a ride that is over
    /\ \A t \in Trips : ride[t].status # "in_progress" =>
         \A p \in DOMAIN part[t] : part[t][p] \in {"alighted", "absent", "cancelled"}
=============================================================================
