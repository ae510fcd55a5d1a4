------------------------------ MODULE MCLibrary ------------------------------
(* Two sessions at the desk of a library with two titles, two copies of the  *)
(* first and one of the second, and room for a third.  The pupil may have    *)
(* two loans, or one under the stricter policy, the teacher one.  A request  *)
(* id is used once, by the first of its commands to commit, so the four of   *)
(* them bound the history to four changes.                                   *)
EXTENDS Library, TLC

CONSTANTS nepali, maths, pupil, teacher, english, q1, q2, q3, q4

MCKind == [p \in Borrowers |-> IF p = pupil THEN "student" ELSE "staff"]
MCStock == 1 :> nepali @@ 2 :> nepali @@ 4 :> maths

Rules(students, staff, renewals, lateRenewal) ==
    [limit |-> [k \in Kinds |-> IF k = "student" THEN students ELSE staff],
     renewals |-> renewals, lateRenewal |-> lateRenewal, rate |-> 1, cap |-> 1]

Default == Rules(2, 1, 2, TRUE)
Strict == Rules(1, 1, 1, FALSE)

MCPolicies == {Default, Strict}

Issue(q, b, c, p) == [op |-> "issue", req |-> q, book |-> b, copy |-> c, borrower |-> p]
Return(q, l, good, fine) ==
    [op |-> "return", req |-> q, loan |-> l, good |-> good, fine |-> fine]
Renew(q, l) == [op |-> "renew", req |-> q, loan |-> l]
Lose(q, l) == [op |-> "lost", req |-> q, loan |-> l, fine |-> 2]
Add(q, op, b, n, ns) ==
    [op |-> op, req |-> q, book |-> b, count |-> n, numbers |-> ns]
Edit(q, b, active) == [op |-> "book", req |-> q, book |-> b, active |-> active, lendable |-> TRUE]
Mend(q, c, st) == [op |-> "copy", req |-> q, copy |-> c, status |-> st]
Govern(q, rules) == [op |-> "policy", req |-> q, policy |-> rules]

\* Loans of both titles and of a second copy of the first to the pupil, and of
\* one of the copies to a teacher; return, renewal and loss of the first loan;
\* its copy withdrawn or repaired; new copies with and without numbers, a new
\* title; the first title archived; stricter rules.
MCCommands ==
    { Issue(q1, nepali, NoCopy, pupil),
      Issue(q2, maths, NoCopy, pupil), Issue(q3, nepali, NoCopy, pupil),
      Issue(q2, nepali, 1, teacher),
      Return(q3, q1, TRUE, NoFine), Return(q4, q1, FALSE, 2),
      Renew(q2, q1), Lose(q4, q1),
      Mend(q2, 1, "withdrawn"), Mend(q3, 1, "available"),
      Add(q1, "create", english, 1, {}), Add(q1, "add", nepali, 1, {}),
      Add(q3, "add", maths, 1, {3}),
      Edit(q4, nepali, FALSE), Govern(q4, Strict) }

MCSymmetry == Permutations(Sessions)
=============================================================================
