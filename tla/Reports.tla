-------------------------------- MODULE Reports --------------------------------
(***************************************************************************)
(* ReportService: previews of live rows, and snapshots of them that are    *)
(* kept.  figures are the rows the query of one report finds in the tables *)
(* of the other services, whose calls commit ("post") between any two      *)
(* statements of a report.                                                 *)
(***************************************************************************)
EXTENDS Desk, Integers, FiniteSets, FiniteSetsExt

CONSTANTS ReportIds, LegacyReport, RequestKeys, SourceRows, Reasons, NotArchived,
          MaxRows    \* MAX_ROWS, 10000 in the code

Intents == {"csv", "excel"}    \* one report type; its details stand for all
IsTable(t) == DOMAIN t \subseteq SourceRows /\ t \in [DOMAIN t -> Nat]

GenerateRequest == [op: {"generate"}, key: RequestKeys, intent: Intents]
ArchiveRequest == [op: {"archive"}, key: RequestKeys, report: ReportIds, reason: Reasons]
OpenRequest == [op: {"export", "detail"}, report: ReportIds]
LiveRequest == [op: {"preview", "reports"}]
PostRequest == [op: {"post"}, row: SourceRows, amount: Nat]

VARIABLES figures,
          report,    \* the reports, and in saved the report_rows of each
          saved,
          event      \* the activity whose request ids clients choose

reportTables == <<figures, report, saved, event>>

\* summary_values of a table, and the digest that seals a snapshot: equal
\* only for equal contents
SummaryOf(rows) == [count |-> Cardinality(DOMAIN rows),
                    sum |-> MapThenSumSet(LAMBDA r : rows[r], DOMAIN rows)]
Digest(summary, rows) == <<summary, {<<r, rows[r]>> : r \in DOMAIN rows}>>

NoRows == [r \in {} |-> 0]

\* a report of the time before snapshots
Legacy == [key |-> "none", intent |-> "csv", version |-> 1, archived |-> NotArchived,
           summary |-> SummaryOf(NoRows), hash |-> Digest(SummaryOf(NoRows), NoRows)]

ReportsInit ==
    /\ figures = [r \in {CHOOSE first \in SourceRows : TRUE} |-> 1]
    /\ report = [r \in ReportIds |-> IF r = LegacyReport THEN Legacy ELSE NoRow]
    /\ saved = [r \in ReportIds |-> NoRows]
    /\ event = {}

ReportsTypeOK ==
    /\ IsTable(figures)
    /\ \A r \in ReportIds : IsTable(saved[r])
    /\ \A r \in ReportIds : report[r] # NoRow =>
         /\ report[r].key \in RequestKeys \cup {"none"} /\ report[r].intent \in Intents
         /\ report[r].version \in {1, 2} /\ report[r].archived \in Reasons \cup {NotArchived}
    /\ event \subseteq [report: ReportIds, key: RequestKeys,
                        action: {"generated", "archived"}, notes: Reasons \cup {NotArchived}]

OfKey(key) == {r \in ReportIds : report[r] # NoRow /\ report[r].key = key}
EventsOf(key) == {e \in event : e.key = key}

\* new ids (uuid4) are named in the order of their creation
UnusedIds == {r \in ReportIds : report[r] = NoRow}
NextId == CHOOSE r \in UnusedIds : TRUE

ReportRow == [key: RequestKeys \cup {"none"}, intent: Intents, version: {1, 2},
              archived: Reasons \cup {NotArchived}, summary: [count: Nat, sum: Nat],
              hash: [count: Nat, sum: Nat] \X SUBSET (SourceRows \X Nat)]

ASSUME ReportsAssumption ==
    /\ NoRow \notin ReportRow /\ "none" \notin RequestKeys /\ NotArchived \notin Reasons
    /\ IsFiniteSet(SourceRows) /\ SourceRows # {} /\ MaxRows \in Nat

Conflict == [reply |-> "conflict"]
Shown(r) == [reply |-> "metadata", report |-> r]

-----------------------------------------------------------------------------
(* generate_report: an advisory lock on the request id, released with the  *)
(* transaction; the earlier report of the id; one read of the source; and  *)
(* one commit of the report, its rows and its event.                       *)

\* mutant: the retries of a request do not wait for each other
LockRequestNoWait(s) == /\ At(s, "generate", "start")
                        /\ Goto(s, "list", NoView)
                        /\ UNCHANGED reportTables

LockRequest(s) == /\ At(s, "generate", "start")
                  /\ \A other \in Sessions : ~(/\ pc[other] \in {"list", "write", "commit"}
                                               /\ cmd[other].op = "generate"
                                               /\ cmd[other].key = cmd[s].key)
                  /\ Goto(s, "list", NoView)
                  /\ UNCHANGED reportTables

FindPrevious(s) ==
    /\ At(s, "generate", "list")
    /\ IF OfKey(cmd[s].key) = {} THEN Goto(s, "write", NoView)
       ELSE LET r == CHOOSE q \in OfKey(cmd[s].key) : TRUE
            IN  Reply(s, IF report[r].intent # cmd[s].intent
                            \/ report[r].archived # NotArchived
                         THEN Conflict ELSE Shown(r))
    /\ UNCHANGED reportTables

\* source and the query, whose rows are kept outside the transaction's view;
\* more than MAX_ROWS are refused
ReadSource(s) ==
    /\ At(s, "generate", "write")
    /\ IF Cardinality(DOMAIN figures) > MaxRows THEN Finish(s)
       ELSE Goto(s, "commit", [rows |-> figures])
    /\ UNCHANGED reportTables

\* mutant: the totals are asked of the tables again when the report is written
SummaryForLive(rows) == SummaryOf(figures)

\* the totals of a snapshot are computed from the rows it was read with
SummaryFor(rows) == SummaryOf(rows)

\* the unique indexes on the request id, of the reports and of the events
CommitReport(s) ==
    /\ At(s, "generate", "commit")
    /\ LET key == cmd[s].key
           rows == seen[s].rows
           summary == SummaryFor(rows)
       IN  IF OfKey(key) # {} \/ EventsOf(key) # {}
           THEN Reply(s, Conflict) /\ UNCHANGED <<report, saved, event>>
           ELSE LET r == NextId IN
                   /\ UnusedIds # {}
                   /\ report' = [report EXCEPT ![r] =
                        [key |-> key, intent |-> cmd[s].intent, version |-> 2,
                         archived |-> NotArchived, summary |-> summary,
                         hash |-> Digest(summary, rows)]]
                   /\ saved' = [saved EXCEPT ![r] = rows]
                   /\ event' = event \cup {[report |-> r, key |-> key,
                                            action |-> "generated", notes |-> NotArchived]}
                   /\ Reply(s, Shown(r))
    /\ UNCHANGED figures

-----------------------------------------------------------------------------
(* archive: the report's row is locked until the call ends.                *)

HoldsReport(s, r) == /\ pc[s] \in {"list", "commit"}
                     /\ cmd[s].op = "archive" /\ cmd[s].report = r

Unlocked(s, r) == \A other \in Sessions \ {s} : ~HoldsReport(other, r)

\* mutant: the report is read without FOR UPDATE
LockReportNoWait(s) ==
    /\ At(s, "archive", "start")
    /\ IF report[cmd[s].report] = NoRow THEN Finish(s)
       ELSE Goto(s, "list", report[cmd[s].report])
    /\ UNCHANGED reportTables

LockReport(s) ==
    /\ At(s, "archive", "start")
    /\ Unlocked(s, cmd[s].report)
    /\ IF report[cmd[s].report] = NoRow THEN Finish(s)
       ELSE Goto(s, "list", report[cmd[s].report])
    /\ UNCHANGED reportTables

FindEvent(s) ==
    /\ At(s, "archive", "list")
    /\ LET same == [report |-> cmd[s].report, key |-> cmd[s].key, action |-> "archived",
                    notes |-> cmd[s].reason]
       IN  IF same \in event THEN Reply(s, Shown(cmd[s].report))
           ELSE IF EventsOf(cmd[s].key) # {} \/ seen[s].archived # NotArchived
           THEN Reply(s, Conflict)
           ELSE Goto(s, "commit", seen[s])
    /\ UNCHANGED reportTables

CommitArchive(s) ==
    /\ At(s, "archive", "commit")
    /\ IF EventsOf(cmd[s].key) # {}
       THEN Reply(s, Conflict) /\ UNCHANGED <<report, event>>
       ELSE /\ report' = [report EXCEPT ![cmd[s].report].archived = cmd[s].reason]
            /\ event' = event \cup {[report |-> cmd[s].report, key |-> cmd[s].key,
                                     action |-> "archived", notes |-> cmd[s].reason]}
            /\ Reply(s, Shown(cmd[s].report))
    /\ UNCHANGED <<figures, saved>>

-----------------------------------------------------------------------------
(* Reads.  print_report and download verify the whole snapshot; their      *)
(* events carry ids of their own, but refer to the report's row and so     *)
(* wait for whoever has locked it.                                         *)

ReadReport(s) ==
    /\ \E op \in {"export", "detail"} : At(s, op, "start")
    /\ LET r == report[cmd[s].report]
       IN  CASE r = NoRow -> Finish(s)
             [] r # NoRow /\ r.version # 2 /\ cmd[s].op = "export" -> Reply(s, Conflict)
             [] OTHER -> Goto(s, "list", r)
    /\ UNCHANGED reportTables

VerifySnapshot(s) ==
    /\ At(s, "export", "list")
    /\ LET rows == saved[cmd[s].report]
       IN  IF /\ Cardinality(DOMAIN rows) = seen[s].summary.count
              /\ Digest(seen[s].summary, rows) = seen[s].hash
           THEN Goto(s, "commit", [rows |-> rows])
           ELSE Reply(s, [reply |-> "damaged"])
    /\ UNCHANGED reportTables

CommitExport(s) == /\ At(s, "export", "commit")
                   /\ Unlocked(s, cmd[s].report)
                   /\ Reply(s, Shown(cmd[s].report))
                   /\ UNCHANGED reportTables

\* detail: the rows of the report, then its activity
ReadDetail(s) ==
    /\ At(s, "detail", "list")
    /\ Reply(s, [rows |-> saved[cmd[s].report],
                 events |-> {e \in event : e.report = cmd[s].report}])
    /\ UNCHANGED reportTables

\* preview: the totals, then a page of rows, in two statements
ReadTotals(s) == /\ At(s, "preview", "start")
                 /\ Goto(s, "list", [summary |-> SummaryOf(figures)])
                 /\ UNCHANGED reportTables

ReadPage(s) == /\ At(s, "preview", "list")
               /\ Reply(s, [summary |-> seen[s].summary, rows |-> figures])
               /\ UNCHANGED reportTables

ListReports(s) == /\ At(s, "reports", "start")
                  /\ Reply(s, [listed |-> {r \in ReportIds :
                       report[r] # NoRow /\ report[r].archived = NotArchived}])
                  /\ UNCHANGED reportTables

\* a commit of another service
Post(s) == /\ At(s, "post", "start")
           /\ figures' = [r \in DOMAIN figures \cup {cmd[s].row} |->
                            IF r = cmd[s].row THEN cmd[s].amount ELSE figures[r]]
           /\ Finish(s)
           /\ UNCHANGED <<report, saved, event>>

SendReport(s) ==
    /\ \E op \in {"generate", "archive", "export", "detail", "preview", "reports"} :
          At(s, op, "answer")
    /\ Finish(s)
    /\ UNCHANGED reportTables

ReportsNext(s) ==
    \/ LockRequest(s) \/ FindPrevious(s) \/ ReadSource(s) \/ CommitReport(s)
    \/ LockReport(s) \/ FindEvent(s) \/ CommitArchive(s)
    \/ ReadReport(s) \/ VerifySnapshot(s) \/ CommitExport(s) \/ ReadDetail(s)
    \/ ReadTotals(s) \/ ReadPage(s) \/ ListReports(s) \/ Post(s) \/ SendReport(s)

-----------------------------------------------------------------------------
(* Properties. *)

\* "source edits do not change saved rows" and what is exported is verified:
\* the count, the totals and the digest of a snapshot are those of the rows
\* saved with it, although the tables it was read from go on changing, and no
\* export finds a snapshot damaged.
SnapshotsWhole ==
    /\ \A r \in ReportIds : report[r] # NoRow /\ report[r].version = 2 =>
         /\ report[r].summary = SummaryOf(saved[r])
         /\ report[r].hash = Digest(report[r].summary, saved[r])
         /\ report[r].summary.count <= MaxRows
    /\ \A s \in Sessions : At(s, "export", "answer") => seen[s].reply # "damaged"

\* "Archive commands also retain their request identity": an archived report
\* has one archive event, with the reason the report shows.
ArchivedOnce ==
    \A r \in ReportIds : report[r] # NoRow =>
        LET archives == {e \in event : e.report = r /\ e.action = "archived"}
        IN  IF report[r].archived = NotArchived THEN archives = {}
            ELSE \E e \in archives : archives = {e} /\ e.notes = report[r].archived

\* "Per-school/request advisory locks and unique request IDs make identical
\* generation retries return one complete snapshot. Changed intent cannot
\* reuse the ID.":
\* a generation is answered a conflict only if its id stands for other
\* details, for a report that was archived, or for an archive command.
RetriesAnswered ==
    \A s \in Sessions : At(s, "generate", "answer") =>
        IF seen[s].reply = "conflict"
        THEN \/ \E r \in OfKey(cmd[s].key) : \/ report[r].intent # cmd[s].intent
                                             \/ report[r].archived # NotArchived
             \/ \E e \in EventsOf(cmd[s].key) : e.action # "generated"
        ELSE OfKey(cmd[s].key) = {seen[s].report}

\* What the report service has saved and answered stands.
ReportsStand == SnapshotsWhole /\ ArchivedOnce /\ RetriesAnswered

-----------------------------------------------------------------------------
(* Refinement: the rows a call has read are of its request until it has    *)
(* written them or given up.                                               *)

ReadFor(k) == {[intent |-> cmd[s].intent, rows |-> seen[s].rows] :
                  s \in {t \in Sessions : At(t, "generate", "commit") /\ cmd[t].key = k}}

KeptAs(r) == IF report[r] = NoRow THEN {}
             ELSE {[key |-> report[r].key, intent |-> report[r].intent, rows |-> saved[r],
                    archived |-> report[r].archived]}

Kept == INSTANCE ReportArchive WITH
    Keys  <- RequestKeys,
    NoKey <- "none",
    Ids   <- ReportIds,
    read  <- [k \in RequestKeys |-> ReadFor(k)],
    kept  <- [r \in ReportIds |-> KeptAs(r)]

\* "saves an immutable snapshot", and "No mutation endpoint edits snapshot rows or
\* the report's provenance" (docs/reports.md): a snapshot is what the tables showed at one
\* moment of its request, a request id makes one, and afterwards it changes only
\* once, when it is archived, whatever is posted, retried or archived meanwhile.
ReportsKept == Kept!Spec

-----------------------------------------------------------------------------
(* The inductive invariant.                                                *)

ReportRows ==
    /\ report \in [ReportIds -> ReportRow \cup {NoRow}] /\ DOMAIN saved = ReportIds
    \* a request id makes one report, and an event is of a report there is
    /\ \A q, r \in ReportIds :
         /\ report[q] # NoRow /\ report[r] # NoRow
         /\ report[q].key = report[r].key /\ report[q].key # "none"
         => q = r
    /\ \A e \in event : /\ report[e.report] # NoRow
                        /\ e.action = "generated" => report[e.report].key = e.key

Generating(s) == pc[s] \in {"list", "write", "commit"} /\ cmd[s].op = "generate"

\* what a call has read under the lock on its request id or its report
ReportsSession(s) ==
    /\ Generating(s) /\ pc[s] # "list" => OfKey(cmd[s].key) = {}
    /\ At(s, "generate", "commit") =>
         IsTable(seen[s].rows) /\ Cardinality(DOMAIN seen[s].rows) <= MaxRows
    /\ \A r \in ReportIds : HoldsReport(s, r) =>
         /\ report[r] # NoRow
         /\ IF pc[s] = "list" THEN seen[s].archived = report[r].archived
                              ELSE report[r].archived = NotArchived
    /\ At(s, "export", "list") =>
         LET r == report[cmd[s].report]
         IN  /\ r # NoRow /\ r.version = 2
             /\ seen[s].summary = r.summary /\ seen[s].hash = r.hash

ReportsInv ==
    /\ ReportsTypeOK /\ ReportsStand /\ ReportRows
    /\ \A s \in Sessions : ReportsSession(s)
    /\ \A s, t \in Sessions : s # t =>
         /\ Generating(s) /\ Generating(t) => cmd[s].key # cmd[t].key
         /\ \A r \in ReportIds : ~(HoldsReport(s, r) /\ HoldsReport(t, r))
=============================================================================
