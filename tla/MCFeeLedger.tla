---------------------------- MODULE MCFeeLedger ----------------------------
(* Two sessions, two students, three bills and two request ids.  Ana owes *)
(* 3 and 2 paisa for two heads of one year, Bo owes 2.  The commands share  *)
(* request ids between cashiers, students and operations on purpose, and    *)
(* the awards are large enough to meet bills already partly paid.           *)
EXTENDS FeeLedger, TLC

CONSTANTS ana, bo, tuition, exam, y1, r1, r2

MCBills == {1, 2, 3}

Bill(i, h, a) == [student |-> i, head |-> h, year |-> y1, amount |-> a]

MCTerms == <<Bill(ana, tuition, 3), Bill(ana, exam, 2), Bill(bo, tuition, 2)>>

CollectOf(r, i, b, h, a) ==
    [op |-> "collect", req |-> r, student |-> i, ledger |-> b, head |-> h, amount |-> a]
RefundOf(r, p, a) == [op |-> "refund", req |-> r, payment |-> p, amount |-> a]
AwardOf(r, i, k, v, bs) ==
    [op |-> "award", req |-> r, student |-> i, year |-> y1, kind |-> k,
     value |-> v, bills |-> bs]
ReverseOf(r) == [op |-> "reverse", award |-> r]

MCCommands ==
    { CollectOf(r1, ana, 1, NoHead, 2), CollectOf(r1, bo, 3, NoHead, 2),
      CollectOf(r2, ana, NoBill, exam, 1),
      RefundOf(r1, r1, 1), RefundOf(r1, r1, 2), RefundOf(r2, r1, 1),
      AwardOf(r1, ana, "percentage", 50, {}), AwardOf(r2, ana, "fixed", 2, {1, 2}),
      AwardOf(r2, ana, "percentage", 10, {1}),
      ReverseOf(r1), ReverseOf(r2) }

\* fewer calls for the run with liveness, which has no symmetry
MCFewCommands ==
    { CollectOf(r1, ana, 1, NoHead, 2), CollectOf(r1, bo, 3, NoHead, 2),
      RefundOf(r2, r1, 1), AwardOf(r2, ana, "percentage", 50, {}),
      ReverseOf(r2) }

MCSymmetry == Permutations(Sessions)
=============================================================================
