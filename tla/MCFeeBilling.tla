---------------------------- MODULE MCFeeBilling ----------------------------
(* Two sessions, two students, two cohorts: the same grade in two years.     *)
(* Structure A of the first year meets every kind of change while it is      *)
(* billed and B competes with it; C bills the same students for the second   *)
(* year, so that two generations share students without sharing a structure. *)
EXTENDS FeeBilling

CONSTANTS year1, year2, A, B, C, hA, hB, hC, tuition, exam

MCCohort == [x \in Structures |-> IF x = C THEN year2 ELSE year1]

Terms(n, a, f, o) == [name |-> n, amount |-> a, frequency |-> f, optional |-> o]
Monthly(n, a) == Terms(n, a, "monthly", FALSE)

Create(x, hs) == [op |-> "create", structure |-> x, heads |-> hs]
Archive(x) == [op |-> "archive", structure |-> x]
Restore(x) == [op |-> "restore", structure |-> x]
Add(x, h, t) == [op |-> "add", structure |-> x, head |-> h, terms |-> t]
Change(x, h, t) == [op |-> "change", structure |-> x, head |-> h, terms |-> t]
Remove(x, h) == [op |-> "remove", structure |-> x, head |-> h]
Generate(x, k, is, ms, chosen) ==
    [op |-> "generate", structure |-> x, cohort |-> k, students |-> is,
     months |-> ms, chosen |-> chosen]

\* The life of structure A: created with a tuition head, changed, archived
\* and restored while it is billed, with an optional head added.
MCCommands ==
    { Create(A, [h \in {hA} |-> Monthly(tuition, 1)]),
      Archive(A), Restore(A),
      Change(A, hA, Monthly(exam, 2)), Remove(A, hB),
      Add(A, hB, Terms(tuition, 1, "monthly", TRUE)),
      Generate(NoStructure, year1, {1, 2}, {1}, {}),
      Generate(A, year1, {1}, {1, 4}, {hB}),
      Generate(A, year1, {1}, {2}, {hA}),
      Create(B, [h \in {hC} |-> Terms(exam, 1, "annual", FALSE)]),
      Create(C, [h \in {hC} |-> Terms(exam, 1, "quarterly", FALSE)]),
      Generate(C, year2, {1, 2}, {1, 2}, {}) }

\* Two structures of one year: the documentation's rule against rebilling.
MCRebillCommands ==
    { Create(A, [h \in {hA} |-> Monthly(tuition, 1)]),
      Create(B, [h \in {hB} |-> Monthly(tuition, 1)]),
      Archive(A), Archive(B), Restore(A), Restore(B),
      Generate(NoStructure, year1, {1}, {1}, {}) }
=============================================================================
