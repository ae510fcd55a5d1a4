----------------------------- MODULE ReportArchive -----------------------------
(***************************************************************************)
(* What the report service promises about what it keeps: a report is what  *)
(* the tables showed at one moment while it was being asked for; there is  *)
(* one for a request; it never changes after it was kept; and it is put    *)
(* away once, with a reason.  There are no sessions, locks, events or      *)
(* digests here; Office implements it.                                     *)
(***************************************************************************)
CONSTANTS Keys, NoKey, Ids, Reasons, NotArchived

VARIABLES figures,    \* what the tables show at present
          read,       \* what has been read for a request, as a set of at most one
          kept        \* the report of an id, likewise

vars == <<figures, read, kept>>

Init ==
    /\ read = [k \in Keys |-> {}]
    /\ \A i \in Ids : \A report \in kept[i] : report.key = NoKey

\* other services go on writing
Post == UNCHANGED <<read, kept>>

Read(k) ==
    /\ read[k] = {}
    /\ \E d \in read'[k] : d.rows = figures /\ read' = [read EXCEPT ![k] = {d}]
    /\ UNCHANGED <<figures, kept>>

Drop(k) ==
    /\ read' = [read EXCEPT ![k] = {}]
    /\ UNCHANGED <<figures, kept>>

Keep(k, i) ==
    /\ kept[i] = {} /\ \A other \in Ids : \A report \in kept[other] : report.key # k
    /\ \E d \in read[k] :
          kept' = [kept EXCEPT ![i] = {[key |-> k, intent |-> d.intent, rows |-> d.rows,
                                        archived |-> NotArchived]}]
    /\ read' = [read EXCEPT ![k] = {}]
    /\ UNCHANGED figures

Archive(i, reason) ==
    /\ \E report \in kept[i] :
          /\ report.archived = NotArchived
          /\ kept' = [kept EXCEPT ![i] = {[report EXCEPT !.archived = reason]}]
    /\ UNCHANGED <<figures, read>>

Next ==
    \/ figures' # figures /\ Post
    \/ read' # read /\ \E k \in Keys : Read(k) \/ Drop(k) \/ \E i \in Ids : Keep(k, i)
    \/ kept' # kept /\ \E i \in Ids, reason \in Reasons : Archive(i, reason)

Spec == Init /\ [][Next]_vars
===============================================================================
