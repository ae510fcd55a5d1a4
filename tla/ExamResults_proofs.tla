--------------------------- MODULE ExamResults_proofs ---------------------------
(***************************************************************************)
(* Proofs about ExamResults for any sessions, students, subjects and        *)
(* commands: the results that are published are those of one calculation,   *)
(* although no call of ExamService locks a row.                             *)
(***************************************************************************)
EXTENDS ExamResults, SumLemmas

-----------------------------------------------------------------------------
(* Commands and grades. *)

\* What a command carries depends on its operation.
CommandFits(c) ==
    /\ c.op \in {"enter", "calculate", "publish", "edit", "delete", "card", "sheet", "status"}
    /\ c.op = "enter" => EnterCommand(c)
    /\ c.op = "card" => c.student \in Students
    /\ c.op = "sheet" => c.subject \in Subjects
    /\ c.op = "status" => c.to \in Statuses

LEMMA CommandFields ==
    ASSUME NEW c \in Commands
    PROVE  CommandFits(c)
<1>1. CASE EnterCommand(c)
  BY <1>1 DEF CommandFits, EnterCommand
<1>2. CASE c \in [op: {"calculate", "publish", "edit", "delete"}]
  BY <1>2 DEF CommandFits
<1>3. CASE c \in [op: {"card"}, student: Students]
  BY <1>3 DEF CommandFits
<1>4. CASE c \in [op: {"sheet"}, subject: Subjects]
  BY <1>4 DEF CommandFits
<1>5. CASE c \in [op: {"status"}, to: Statuses]
  BY <1>5 DEF CommandFits
<1>6. QED
  BY <1>1, <1>2, <1>3, <1>4, <1>5, ExamCommandsAssumption

LEMMA RowsDiffer ==
    /\ \A row \in MarkRow : row # NoMark
    /\ \A row \in ResultRow : row # NoResult
    /\ \A c \in Commands : c # NoCommand
  BY NoExamRowAssumption

\* A nonempty set of naturals has its minimum.
LEMMA MinIn ==
    ASSUME NEW S \in SUBSET Nat, S # {}
    PROVE  Min(S) \in S /\ \A y \in S : Min(S) <= y
  BY SmallestNat DEF Min

GradePoints == {0, 20, 24, 28, 32, 36, 40}

\* Every mark reaches a band of the GPA table.
LEMMA PointGiven ==
    ASSUME NEW marks \in Nat
    PROVE  calculate_grade_point(marks) \in GradePoints
<1> DEFINE reached == {k \in DOMAIN Bands : Bands[k][1] * FullMarks <= 100 * marks}
<1>1. DOMAIN Bands = 1 .. 7 /\ \A k \in 1 .. 7 : Bands[k][2] \in GradePoints
  BY DEF Bands, GradePoints
<1>2. Bands[7][1] = 0
  BY DEF Bands
<1>3. 7 \in reached
  BY <1>1, <1>2, MarksAssumption
<1>4. reached \subseteq 1 .. 7
  BY <1>1
<1>5. Min(reached) \in reached
  BY <1>3, <1>4, MinIn
<1>6. calculate_grade_point(marks) = Bands[Min(reached)][2]
  BY DEF calculate_grade_point
<1>7. QED
  BY <1>1, <1>4, <1>5, <1>6

LEMMA EntryPoint ==
    ASSUME NEW entry, entry.marks \in Nat, senior \in BOOLEAN
    PROVE  /\ GradePoint(entry) \in GradePoints \cup {NoPoint}
           /\ GradePoint(entry) = NoPoint <=> senior
<1>1. calculate_grade_point(entry.marks) \in GradePoints
  BY PointGiven
<1>2. NoPoint \notin GradePoints /\ 0 \in GradePoints
  BY DEF NoPoint, GradePoints
<1>3. QED
  BY <1>1, <1>2 DEF GradePoint

-----------------------------------------------------------------------------
(* What a student is ranked by. *)

\* A percentage in hundredths stays one when it is rounded.
LEMMA HalfUpBounded ==
    ASSUME NEW n \in Nat, NEW d \in Nat \ {0}, n <= 10000 * d
    PROVE  HalfUp(n, d) \in Nat /\ HalfUp(n, d) <= 10000
<1> DEFINE a == 2 * n + d
           b == 2 * d
           q == a \div b
<1>1. a \in Nat /\ b \in Nat /\ b > 0 /\ a < 10001 * b
  OBVIOUS
<1> HIDE DEF a, b
<1>2. q \in Nat /\ b * q <= a
  BY <1>1
<1> HIDE DEF q
<1>3. q >= 10001 => b * q >= b * 10001
  BY <1>1, <1>2
<1>4. b * q \in Nat
  BY <1>1, <1>2
<1>5. q <= 10000
  BY <1>1, <1>2, <1>3, <1>4
<1>6. HalfUp(n, d) = q
  BY DEF HalfUp, a, b, q
<1>7. QED
  BY <1>2, <1>5, <1>6

\* The marks of a student add up to a sum over the subjects.
LEMMA SumIs ==
    ASSUME NEW rows, NEW i, NEW column, IsFiniteSet(MarkedIn(rows, i))
    PROVE  Sum(rows, i, column) =
             SumOn([x \in MarkedIn(rows, i) |-> rows[x][i][column]], MarkedIn(rows, i))
<1> DEFINE S == MarkedIn(rows, i)
           f == [x \in S |-> rows[x][i][column]]
           Folds(g) == g = [s \in SUBSET S |-> IF s = {} THEN 0
                              ELSE rows[OneOf(s)][i][column] + g[s \ {OneOf(s)}]]
<1>1. Sum(rows, i, column) = (CHOOSE g : Folds(g))[S]
  BY DEF Sum, MapThenSumSet, MapThenFoldSet, OneOf
<1> HIDE DEF S
<1>2. \A g : Folds(g) <=> IsSum(g, f, SUBSET S)
  <2> TAKE g
  <2>1. \A s \in SUBSET S : s # {} => f[OneOf(s)] = rows[OneOf(s)][i][column]
    BY OneOfIn
  <2>2. [s \in SUBSET S |-> IF s = {} THEN 0
             ELSE rows[OneOf(s)][i][column] + g[s \ {OneOf(s)}]]
        = [s \in SUBSET S |-> IF s = {} THEN 0 ELSE f[OneOf(s)] + g[s \ {OneOf(s)}]]
    BY <2>1
  <2>3. QED
    BY <2>2 DEF IsSum
<1>3. (CHOOSE g : Folds(g)) = CHOOSE g : IsSum(g, f, SUBSET S)
  BY <1>2
<1>4. QED
  BY <1>1, <1>3 DEF SumOn, S

LEMMA ValueTyped ==
    ASSUME NEW rows \in MarkTable, NEW i \in Marked(rows), senior \in BOOLEAN,
           PointsFitGrade(rows)
    PROVE  Value(rows, i) \in Nat /\ Value(rows, i) <= 10000
<1> DEFINE S == MarkedIn(rows, i)
           n == Cardinality(S)
<1>1. /\ S \subseteq Subjects /\ IsFiniteSet(S) /\ S # {} /\ i \in Students
      /\ \A x \in S : rows[x][i] \in MarkRow
  <2>1. i \in Students /\ S # {} /\ S \subseteq Subjects
    BY DEF Marked, MarkedIn
  <2>2. \A x \in S : rows[x][i] \in MarkRow
    BY <2>1 DEF MarkedIn, MarkTable
  <2>3. QED
    BY <2>1, <2>2, ExamRowsAssumption, FS_Subset
<1>2. n \in Nat \ {0}
  BY <1>1, FS_EmptySet, FS_CardinalityType
<1>3. FullMarks \in Nat \ {0}
  BY MarksAssumption
<1>4. CASE senior
  <2> DEFINE f == [x \in S |-> rows[x][i]["marks"]]
             d == n * FullMarks
  <2>1. \A x \in S : f[x] \in 0 .. FullMarks
    BY <1>1 DEF MarkRow
  <2>2. Sum(rows, i, "marks") = SumOn(f, S)
    BY <1>1, SumIs
  <2>3. SumOn(f, S) \in 0 .. d
    <3> HIDE DEF f, S
    <3>1. QED
      BY <1>1, <1>3, <2>1, SumBounded
  <2>4. d \in Nat \ {0}
    BY <1>2, <1>3
  <2> HIDE DEF d, f, S
  <2>5. PICK a \in Nat : a = 10000 * SumOn(f, S) /\ a <= 10000 * d
    BY <2>3, <2>4
  <2>6. HalfUp(a, d) \in Nat /\ HalfUp(a, d) <= 10000
    BY <2>4, <2>5, HalfUpBounded
  <2>7. Value(rows, i) = HalfUp(10000 * SumOn(f, S), d)
    BY <1>4, <2>2 DEF Value, d, S
  <2>8. QED
    BY <2>5, <2>6, <2>7
<1>5. CASE ~senior
  <2> DEFINE f == [x \in S |-> rows[x][i]["point"]]
  <2>1. \A x \in S : f[x] \in 0 .. 40
    <3> SUFFICES ASSUME NEW x \in S PROVE rows[x][i].point \in 0 .. 40
      OBVIOUS
    <3>1. rows[x][i].point \in {NoPoint, 0, 20, 24, 28, 32, 36, 40}
      BY <1>1 DEF MarkRow
    <3>2. rows[x][i].point # NoPoint
      BY <1>1, <1>5, RowsDiffer DEF PointsFitGrade
    <3>3. QED
      BY <3>1, <3>2
  <2>2. Sum(rows, i, "point") = SumOn(f, S)
    BY <1>1, SumIs
  <2>3. SumOn(f, S) \in 0 .. n * 40
    <3> HIDE DEF f, S
    <3>1. QED
      BY <1>1, <2>1, SumBounded
  <2> HIDE DEF f, S, n
  <2>4. PICK a \in Nat : a = 10 * SumOn(f, S) /\ a <= 10000 * n
    BY <1>2, <2>3
  <2>5. HalfUp(a, n) \in Nat /\ HalfUp(a, n) <= 10000
    BY <1>2, <2>4, HalfUpBounded
  <2>6. Value(rows, i) = HalfUp(10 * SumOn(f, S), n)
    BY <1>5, <2>2 DEF Value, n, S
  <2>7. QED
    BY <2>4, <2>5, <2>6
<1>6. QED
  BY <1>4, <1>5

-----------------------------------------------------------------------------
(* The ranks of one calculation. *)

\* An order lists every marked student.
LEMMA OrderCovers ==
    ASSUME NEW rows, NEW order \in SetToSeqs(Marked(rows))
    PROVE  /\ DOMAIN order \subseteq 1 .. Cardinality(Students) /\ Cardinality(Students) \in Nat
           /\ \A k \in DOMAIN order : order[k] \in Marked(rows)
           /\ \A i \in Marked(rows) : \E k \in DOMAIN order : order[k] = i
<1> DEFINE M == Marked(rows)
           D == 1 .. Cardinality(M)
<1>1. /\ M \subseteq Students /\ IsFiniteSet(M)
      /\ Cardinality(M) \in Nat /\ Cardinality(M) <= Cardinality(Students)
      /\ Cardinality(Students) \in Nat
  <2>1. M \subseteq Students
    BY DEF Marked
  <2>2. QED
    BY <2>1, ExamRowsAssumption, FS_Subset, FS_CardinalityType
<1>2. order \in [D -> M] /\ \A i, j \in D : i # j => order[i] # order[j]
  BY DEF SetToSeqs
<1> HIDE DEF M
<1>3. order \in Injection(D, M)
  BY <1>2 DEF Injection, IsInjective
<1>4. Cardinality(D) = Cardinality(M)
  BY <1>1, FS_Interval
<1>5. order \in Surjection(D, M)
  BY <1>1, <1>3, <1>4, FS_Injection
<1>6. \A i \in M : \E k \in D : order[k] = i
  BY <1>5 DEF Surjection
<1>7. D \subseteq 1 .. Cardinality(Students)
  BY <1>1
<1>8. QED
  BY <1>1, <1>2, <1>6, <1>7 DEF M

\* the places of the passing students with the value of student i
Places(rows, order, i) ==
    {k \in DOMAIN order : /\ Outcome(rows, order[k]) = "pass"
                          /\ Value(rows, order[k]) = Value(rows, i)}

LEMMA RankIs ==
    ASSUME NEW rows, NEW order \in Orders(rows), NEW i \in Marked(rows)
    PROVE  /\ Outcome(rows, i) # "pass" => Rank(rows, order, i) = 0
           /\ Outcome(rows, i) = "pass" =>
                /\ Rank(rows, order, i) \in Places(rows, order, i)
                /\ \A k \in Places(rows, order, i) : Rank(rows, order, i) <= k
           /\ Rank(rows, order, i) \in 0 .. Cardinality(Students)
           /\ Places(rows, order, i) \subseteq 1 .. Cardinality(Students)
<1> DEFINE P == Places(rows, order, i)
<1>1. order \in SetToSeqs(Marked(rows))
  BY DEF Orders
<1>2. /\ P \subseteq 1 .. Cardinality(Students) /\ Cardinality(Students) \in Nat
      /\ \E k \in DOMAIN order : order[k] = i
  BY <1>1, OrderCovers DEF Places
<1>3. CASE Outcome(rows, i) # "pass"
  BY <1>2, <1>3 DEF Rank, NoRank
<1>4. CASE Outcome(rows, i) = "pass"
  <2>1. P # {}
    BY <1>2, <1>4 DEF Places
  <2>2. Min(P) \in P /\ \A k \in P : Min(P) <= k
    BY <1>2, <2>1, MinIn
  <2>3. Rank(rows, order, i) = Min(P)
    BY <1>4 DEF Rank, Places
  <2> HIDE DEF P
  <2>4. Min(P) \in 0 .. Cardinality(Students)
    <3>1. PICK m \in 1 .. Cardinality(Students) : m = Min(P)
      BY <1>2, <2>2
    <3>2. QED
      BY <1>2, <3>1
  <2>5. QED
    BY <1>2, <1>4, <2>2, <2>3, <2>4 DEF P
<1>5. QED
  BY <1>3, <1>4

\* In the order of the calculation the better student is ranked before the
\* other, and equals share the place.
LEMMA RanksInOrder ==
    ASSUME NEW rows \in MarkTable, senior \in BOOLEAN, PointsFitGrade(rows),
           NEW order \in Orders(rows), NEW i \in Marked(rows), NEW j \in Marked(rows),
           Outcome(rows, i) = "pass", Outcome(rows, j) = "pass"
    PROVE  /\ Rank(rows, order, i) # NoRank
           /\ Rank(rows, order, i) < Rank(rows, order, j) <=> Value(rows, i) > Value(rows, j)
<1> DEFINE v(k) == Value(rows, order[k])
<1>1. PICK m \in Places(rows, order, i) :
        m = Rank(rows, order, i) /\ \A k \in Places(rows, order, i) : m <= k
  BY RankIs
<1>2. PICK n \in Places(rows, order, j) :
        n = Rank(rows, order, j) /\ \A k \in Places(rows, order, j) : n <= k
  BY RankIs
<1>3. m \in Nat /\ n \in Nat /\ m # 0
  <2>1. /\ Places(rows, order, i) \subseteq 1 .. Cardinality(Students)
        /\ Places(rows, order, j) \subseteq 1 .. Cardinality(Students)
        /\ Cardinality(Students) \in Nat
    BY RankIs, ExamRowsAssumption, FS_CardinalityType
  <2>2. QED
    BY <2>1
<1>4. /\ m \in DOMAIN order /\ n \in DOMAIN order
      /\ v(m) = Value(rows, i) /\ v(n) = Value(rows, j)
  BY DEF Places
<1>5. Value(rows, i) \in Nat /\ Value(rows, j) \in Nat
  BY ValueTyped
<1>6. \A k, l \in DOMAIN order : k < l => v(k) >= v(l)
  BY DEF Orders
<1> HIDE DEF v
<1>7. m < n => Value(rows, i) >= Value(rows, j)
  BY <1>4, <1>6
<1>8. n < m => Value(rows, j) >= Value(rows, i)
  BY <1>4, <1>6
<1>9. Value(rows, i) = Value(rows, j) => m = n
  <2>1. Value(rows, i) = Value(rows, j) => Places(rows, order, i) = Places(rows, order, j)
    BY DEF Places
  <2>2. Value(rows, i) = Value(rows, j) => m <= n /\ n <= m
    BY <1>1, <1>2, <2>1
  <2>3. QED
    BY <1>3, <2>2
<1>10. m < n <=> Value(rows, i) > Value(rows, j)
  <2>1. m = n => Value(rows, i) = Value(rows, j)
    BY <1>4
  <2>2. QED
    BY <1>3, <1>5, <1>7, <1>8, <1>9, <2>1
<1>11. QED
  BY <1>1, <1>2, <1>3, <1>10 DEF NoRank

LEMMA ResultRowOf ==
    ASSUME NEW v \in Nat, v <= 10000, NEW outcome \in {"pass", "fail", "absent"},
           NEW r \in 0 .. Cardinality(Students)
    PROVE  [value |-> v, status |-> outcome, rank |-> r] \in ResultRow
  BY DEF ResultRow

\* What a calculation of complete marks leaves in the results table.
LEMMA CalculationStands ==
    ASSUME NEW rows \in MarkTable, senior \in BOOLEAN, PointsFitGrade(rows),
           NEW order \in Orders(rows), Marked(rows) # {}, EveryStudentMarked(rows),
           \A x \in Subjects, i \in Students : rows[x][i] # NoMark => mark[x][i] # NoMark,
           senior' = senior, mark' = mark, result' = Calculated(rows, order)
    PROVE  /\ result' \in [Students -> ResultRow \cup {NoResult}]
           /\ RanksFollowValues' /\ ResultsNeedAllMarks' /\ HasResults'
<1> DEFINE row(i) == [value |-> Value(rows, i), status |-> Outcome(rows, i),
                      rank |-> Rank(rows, order, i)]
<1>1. /\ \A i \in Marked(rows) : i \in Students /\ result'[i] = row(i)
      /\ \A i \in Students \ Marked(rows) : result'[i] = NoResult
      /\ result' = [i \in Students |-> IF i \in Marked(rows) THEN row(i) ELSE NoResult]
  BY DEF Calculated, Marked
<1>2. \A i \in Marked(rows) : row(i) \in ResultRow
  <2> TAKE i \in Marked(rows)
  <2>1. Value(rows, i) \in Nat /\ Value(rows, i) <= 10000
    BY ValueTyped
  <2>2. Outcome(rows, i) \in {"pass", "fail", "absent"}
    BY DEF Outcome
  <2>3. Rank(rows, order, i) \in 0 .. Cardinality(Students)
    BY RankIs
  <2>4. QED
    BY <2>1, <2>2, <2>3, ResultRowOf
<1>3. \A i \in Marked(rows) : result'[i] # NoResult
  BY <1>1, <1>2, RowsDiffer
<1>4. \A i \in Ranked' : i \in Marked(rows) /\ Outcome(rows, i) = "pass"
  BY <1>1 DEF Ranked
<1>5. RanksFollowValues'
  <2> SUFFICES ASSUME NEW i \in Ranked', NEW j \in Ranked'
               PROVE  /\ result'[i].rank # NoRank
                      /\ result'[i].rank < result'[j].rank
                           <=> result'[i].value > result'[j].value
    BY DEF RanksFollowValues, NoRank
  <2>1. /\ i \in Marked(rows) /\ Outcome(rows, i) = "pass"
        /\ j \in Marked(rows) /\ Outcome(rows, j) = "pass"
    BY <1>4
  <2>2. /\ result'[i].rank = Rank(rows, order, i) /\ result'[i].value = Value(rows, i)
        /\ result'[j].rank = Rank(rows, order, j) /\ result'[j].value = Value(rows, j)
    <3>1. result'[i] = row(i) /\ result'[j] = row(j)
      BY <1>1, <2>1
    <3>2. QED
      BY <3>1
  <2>3. QED
    BY <2>1, <2>2, RanksInOrder
<1>6. ResultsNeedAllMarks'
  <2> SUFFICES ASSUME NEW i \in Students, result'[i] # NoResult, NEW x \in Subjects
               PROVE  mark'[x][i] # NoMark
    BY DEF ResultsNeedAllMarks
  <2>1. i \in Marked(rows)
    BY <1>1
  <2>2. rows[x][i] # NoMark
    BY <2>1 DEF EveryStudentMarked, MarkedIn
  <2>3. QED
    BY <2>2
<1>7. HasResults'
  BY <1>1, <1>3 DEF HasResults
<1>8. result' \in [Students -> ResultRow \cup {NoResult}]
  BY <1>1, <1>2
<1>9. QED
  BY <1>5, <1>6, <1>7, <1>8

-----------------------------------------------------------------------------
(* Steps. *)

CardFits(s) ==
    pc[s] = "answer" /\ cmd[s].op = "card" => MarkedIn(seen[s], cmd[s].student) = Subjects

SessionsTyped ==
    /\ pc \in [Sessions -> Phases]
    /\ cmd \in [Sessions -> Commands \cup {NoCommand}]
    /\ seen \in [Sessions -> MarkTable]

\* Only the columns of s change.
OnlyIn(s) ==
    \A t \in Sessions \ {s} : pc'[t] = pc[t] /\ cmd'[t] = cmd[t] /\ seen'[t] = seen[t]

LEMMA NoMarksTyped ==
    /\ NoMarks \in MarkTable
    /\ \A x \in Subjects, i \in Students : NoMarks[x][i] = NoMark
  BY DEF NoMarks, MarkTable

\* No mark and no publication is lost: what a session relies on remains.
LEMMA SessionKeeps ==
    ASSUME IInv, NEW t \in Sessions, senior' = senior,
           \A x \in Subjects, i \in Students : mark[x][i] # NoMark => mark'[x][i] # NoMark,
           HasResults => HasResults',
           cmd'[t] = cmd[t], seen'[t] = seen[t],
           pc'[t] = pc[t] \/ (pc[t] \in {"insert", "queued"} /\ pc'[t] = "conflict")
    PROVE  SessionInv(t)' /\ CardFits(t)'
<1>1. SessionInv(t) /\ CardFits(t)
  BY DEF IInv, ResultsStand, CardsComplete, CardFits
<1>2. pc[t] # "idle" => cmd[t] \in Commands
  BY <1>1 DEF SessionInv
<1>3. pc'[t] # "idle" => cmd'[t] \in Commands /\ cmd'[t].op \in Comers(pc'[t])
  BY <1>1 DEF SessionInv, Comers
<1>4. PointsFitGrade(seen[t])'
  BY <1>1 DEF SessionInv, PointsFitGrade
<1>5. \A x \in Subjects, i \in Students : seen'[t][x][i] # NoMark => mark'[x][i] # NoMark
  BY <1>1 DEF SessionInv
<1>6. /\ pc'[t] \in {"replace", "queued", "insert"} => Marked(seen'[t]) # {}
      /\ pc'[t] \in {"queued", "insert"} => EveryStudentMarked(seen'[t])
  BY <1>1 DEF SessionInv
<1>7. pc'[t] = "write" /\ cmd'[t].op = "publish" => HasResults'
  BY <1>1 DEF SessionInv
<1>8. pc'[t] = "marks" /\ cmd'[t].op = "card" => MarkedIn(mark', cmd'[t].student) = Subjects
  <2>1. SUFFICES ASSUME pc[t] = "marks", cmd[t].op = "card"
                 PROVE  MarkedIn(mark', cmd[t].student) = Subjects
    OBVIOUS
  <2>2. MarkedIn(mark, cmd[t].student) = Subjects
    BY <1>1, <2>1 DEF SessionInv
  <2>3. cmd[t].student \in Students
    BY <1>2, <2>1, CommandFields DEF CommandFits
  <2>4. QED
    BY <2>2, <2>3 DEF MarkedIn
<1>9. CardFits(t)'
  BY <1>1 DEF CardFits
<1>10. QED
  BY <1>3, <1>4, <1>5, <1>6, <1>7, <1>8, <1>9 DEF SessionInv

\* A step that writes no mark and no result.
LEMMA StillKeeps ==
    ASSUME IInv, NEW s \in Sessions, UNCHANGED <<senior, mark, result>>, OnlyIn(s),
           exam' \in [status: Statuses, locked: BOOLEAN, deleted: BOOLEAN],
           exam'.locked => exam.locked \/ HasResults,
           SessionsTyped', SessionInv(s)', CardFits(s)'
    PROVE  IInv'
<1>1. \A t \in Sessions : SessionInv(t)' /\ CardFits(t)'
  <2> TAKE t \in Sessions
  <2>1. CASE t = s
    BY <2>1
  <2>2. CASE t # s
    BY <2>2, SessionKeeps DEF OnlyIn, HasResults
  <2>3. QED
    BY <2>1, <2>2
<1>2. TypeOK'
  BY DEF IInv, TypeOK, SessionsTyped
<1>3. LockedHasResults'
  BY DEF IInv, ResultsStand, LockedHasResults, HasResults
<1>4. RanksFollowValues' /\ ResultsNeedAllMarks' /\ PointsFitGrade(mark)'
  BY DEF IInv, ResultsStand, RanksFollowValues, Ranked, ResultsNeedAllMarks, PointsFitGrade
<1>5. CardsComplete'
  BY <1>1 DEF CardsComplete, CardFits
<1>6. QED
  BY <1>1, <1>2, <1>3, <1>4, <1>5 DEF IInv, ResultsStand

\* A session that has ended its call.
LEMMA FinishFits ==
    ASSUME IInv, NEW s \in Sessions, NEW phases \in [Sessions -> Phases], Finish(s, phases)
    PROVE  SessionsTyped' /\ SessionInv(s)' /\ CardFits(s)'
<1>1. pc'[s] = "idle" /\ seen'[s] = NoMarks
  BY DEF Finish, IInv, TypeOK
<1>2. SessionsTyped'
  BY NoMarksTyped DEF Finish, IInv, TypeOK, SessionsTyped, Phases
<1>3. PointsFitGrade(seen[s])'
  BY <1>1, NoMarksTyped DEF PointsFitGrade
<1>4. QED
  BY <1>1, <1>2, <1>3, NoMarksTyped DEF SessionInv, CardFits

LEMMA RefuseKeeps ==
    ASSUME IInv, NEW s \in Sessions, Refuse(s)
    PROVE  IInv'
<1>1. Finish(s, pc) /\ UNCHANGED <<senior, exam, mark, result>> /\ pc \in [Sessions -> Phases]
  BY DEF Refuse, IInv, TypeOK
<1>2. OnlyIn(s)
  BY <1>1 DEF Finish, OnlyIn, IInv, TypeOK
<1>3. exam' \in [status: Statuses, locked: BOOLEAN, deleted: BOOLEAN] /\ exam' = exam
  BY <1>1 DEF IInv, TypeOK
<1>4. QED
  BY <1>1, <1>2, <1>3, FinishFits, StillKeeps

\* A call goes on to its next statement.
LEMMA ProceedKeeps ==
    ASSUME IInv, NEW s \in Sessions, NEW phase \in Phases \ {"idle", "answer"},
           Proceed(s, phase), cmd[s] \in Commands, cmd[s].op \in Comers(phase),
           phase \in {"replace", "queued", "insert"} => Marked(seen[s]) # {},
           phase \in {"queued", "insert"} => EveryStudentMarked(seen[s]),
           phase = "write" /\ cmd[s].op = "publish" => HasResults,
           phase = "marks" /\ cmd[s].op = "card" => MarkedIn(mark, cmd[s].student) = Subjects
    PROVE  IInv'
<1>1. /\ UNCHANGED <<senior, exam, mark, result, cmd, seen>>
      /\ pc' = [pc EXCEPT ![s] = phase] /\ pc'[s] = phase
  BY DEF Proceed, GoTo, IInv, TypeOK
<1>2. OnlyIn(s) /\ SessionsTyped'
  BY <1>1 DEF OnlyIn, SessionsTyped, IInv, TypeOK
<1>3. SessionInv(s)
  BY DEF IInv
<1>4. PointsFitGrade(seen[s])'
  BY <1>1, <1>3 DEF SessionInv, PointsFitGrade
<1>5. SessionInv(s)'
  BY <1>1, <1>3, <1>4 DEF SessionInv, HasResults
<1>6. CardFits(s)'
  BY <1>1 DEF CardFits
<1>7. exam' \in [status: Statuses, locked: BOOLEAN, deleted: BOOLEAN] /\ exam' = exam
  BY <1>1 DEF IInv, TypeOK
<1>8. QED
  BY <1>1, <1>2, <1>5, <1>6, <1>7, StillKeeps

LEMMA SubmitKeeps ==
    ASSUME IInv, NEW s \in Sessions, Submit(s)
    PROVE  IInv'
<1>1. PICK c \in Commands : cmd' = [cmd EXCEPT ![s] = c]
  BY DEF Submit
<1>2. /\ pc'[s] = "exam" /\ cmd'[s] = c /\ seen' = seen
      /\ UNCHANGED <<senior, exam, mark, result>>
  BY <1>1 DEF Submit, GoTo, IInv, TypeOK
<1>3. OnlyIn(s) /\ SessionsTyped'
  BY <1>1, <1>2 DEF Submit, GoTo, OnlyIn, SessionsTyped, IInv, TypeOK, Phases
<1>4. SessionInv(s) /\ c.op \in Comers("exam")
  BY CommandFields DEF IInv, CommandFits, Comers
<1>5. PointsFitGrade(seen[s])'
  BY <1>2, <1>4 DEF SessionInv, PointsFitGrade
<1>6. SessionInv(s)' /\ CardFits(s)'
  BY <1>2, <1>4, <1>5 DEF SessionInv, CardFits
<1>7. exam' \in [status: Statuses, locked: BOOLEAN, deleted: BOOLEAN] /\ exam' = exam
  BY <1>2 DEF IInv, TypeOK
<1>8. QED
  BY <1>2, <1>3, <1>6, <1>7, StillKeeps

LEMMA AtWork ==
    ASSUME IInv, NEW s \in Sessions, pc[s] # "idle"
    PROVE  cmd[s] \in Commands /\ cmd[s].op \in Comers(pc[s]) /\ CommandFits(cmd[s])
  BY CommandFields DEF IInv, SessionInv

LEMMA ReadExamKeeps ==
    ASSUME IInv, NEW s \in Sessions, ReadExam(s)
    PROVE  IInv'
<1>1. CASE Refuse(s)
  BY <1>1, RefuseKeeps
<1>2. CASE Proceed(s, AfterExam(cmd[s].op))
  <2>1. cmd[s] \in Commands /\ CommandFits(cmd[s])
    BY AtWork DEF ReadExam
  <2>2. Accepts(cmd[s]) \/ Refuse(s)
    BY DEF ReadExam
  <2>3. /\ AfterExam(cmd[s].op) \in {"marks", "count", "write"}
        /\ cmd[s].op \in Comers(AfterExam(cmd[s].op))
        /\ AfterExam(cmd[s].op) = "write" => cmd[s].op # "publish"
        /\ AfterExam(cmd[s].op) = "marks" => cmd[s].op # "card"
    BY <2>1 DEF CommandFits, AfterExam, Comers
  <2>4. PICK phase \in {"marks", "count", "write"} : phase = AfterExam(cmd[s].op)
    BY <2>3
  <2>5. phase \in Phases \ {"idle", "answer"} /\ phase \notin {"replace", "queued", "insert"}
    BY DEF Phases
  <2>6. QED
    BY <1>2, <2>1, <2>3, <2>4, <2>5, ProceedKeeps
<1>3. QED
  BY <1>1, <1>2 DEF ReadExam

LEMMA CountResultsKeeps ==
    ASSUME IInv, NEW s \in Sessions, CountResults(s)
    PROVE  IInv'
<1>1. CASE Refuse(s)
  BY <1>1, RefuseKeeps
<1>2. CASE HasResults /\ Proceed(s, "write")
  <2>1. cmd[s] \in Commands /\ cmd[s].op = "publish"
    BY AtWork DEF CountResults
  <2>2. QED
    BY <1>2, <2>1, ProceedKeeps DEF Phases, Comers
<1>3. QED
  BY <1>1, <1>2 DEF CountResults, HasResults

LEMMA CountMarksKeeps ==
    ASSUME IInv, NEW s \in Sessions, CountMarks(s)
    PROVE  IInv'
<1>1. CASE Refuse(s)
  BY <1>1, RefuseKeeps
<1>2. CASE Proceed(s, "write")
  <2>1. cmd[s] \in Commands /\ cmd[s].op = "delete"
    BY AtWork DEF CountMarks
  <2>2. QED
    BY <1>2, <2>1, ProceedKeeps DEF Phases, Comers
<1>3. QED
  BY <1>1, <1>2 DEF CountMarks

LEMMA ReadResultKeeps ==
    ASSUME IInv, NEW s \in Sessions, ReadResult(s)
    PROVE  IInv'
<1>1. CASE Refuse(s)
  BY <1>1, RefuseKeeps
<1>2. CASE result[cmd[s].student] # NoResult /\ Proceed(s, "marks")
  <2>1. cmd[s] \in Commands /\ cmd[s].op = "card" /\ cmd[s].student \in Students
    BY AtWork DEF ReadResult, CommandFits
  <2>2. MarkedIn(mark, cmd[s].student) = Subjects
    BY <1>2, <2>1 DEF IInv, ResultsStand, ResultsNeedAllMarks, MarkedIn
  <2>3. QED
    BY <1>2, <2>1, <2>2, ProceedKeeps DEF Phases, Comers
<1>3. QED
  BY <1>1, <1>2 DEF ReadResult

\* A write leaves the exam locked only where it was or where results were counted.
LEMMA WriteKeeps ==
    ASSUME IInv, NEW s \in Sessions, NEW op, NEW columns, Write(s, op, columns),
           columns \in [status: Statuses, locked: BOOLEAN, deleted: BOOLEAN],
           columns.locked => exam.locked \/ HasResults
    PROVE  IInv'
<1>1. /\ exam' = columns /\ Finish(s, pc) /\ UNCHANGED <<senior, mark, result>>
      /\ pc \in [Sessions -> Phases]
  BY DEF Write, IInv, TypeOK
<1>2. OnlyIn(s)
  BY <1>1 DEF Finish, OnlyIn, IInv, TypeOK
<1>3. QED
  BY <1>1, <1>2, FinishFits, StillKeeps

LEMMA WritesKeep ==
    ASSUME IInv, NEW s \in Sessions,
           MoveExam(s) \/ PublishExam(s) \/ DeleteExam(s) \/ EditExam(s)
    PROVE  IInv'
<1> DEFINE Row == [status: Statuses, locked: BOOLEAN, deleted: BOOLEAN]
<1>1. exam \in Row
  BY DEF IInv, TypeOK
<1>2. CASE MoveExam(s)
  <2>1. CommandFits(cmd[s]) /\ cmd[s].op = "status"
    BY <1>2, AtWork DEF MoveExam, Write
  <2>2. [exam EXCEPT !.status = cmd[s].to] \in Row
    BY <1>1, <2>1 DEF CommandFits
  <2>3. [exam EXCEPT !.status = cmd[s].to].locked = exam.locked
    BY <1>1
  <2>4. QED
    BY <1>2, <2>2, <2>3, WriteKeeps DEF MoveExam
<1>3. CASE PublishExam(s)
  <2>1. HasResults
    BY <1>3 DEF PublishExam, Write, IInv, SessionInv
  <2>2. [exam EXCEPT !.status = "published", !.locked = TRUE] \in Row
    BY <1>1 DEF Statuses
  <2>3. QED
    BY <1>3, <2>1, <2>2, WriteKeeps DEF PublishExam
<1>4. CASE DeleteExam(s)
  <2>1. [exam EXCEPT !.deleted = TRUE] \in Row /\ [exam EXCEPT !.deleted = TRUE].locked = exam.locked
    BY <1>1
  <2>2. QED
    BY <1>4, <2>1, WriteKeeps DEF DeleteExam
<1>5. CASE EditExam(s)
  BY <1>1, <1>5, WriteKeeps DEF EditExam
<1>6. QED
  BY <1>2, <1>3, <1>4, <1>5

LEMMA DeleteResultsKeeps ==
    ASSUME IInv, NEW s \in Sessions, DeleteResults(s)
    PROVE  IInv'
<1>1. CASE Refuse(s)
  BY <1>1, RefuseKeeps
<1>2. CASE EveryStudentMarked(seen[s]) /\ (Proceed(s, "queued") \/ Proceed(s, "insert"))
  <2>1. cmd[s] \in Commands /\ cmd[s].op = "calculate"
    BY AtWork DEF DeleteResults, Comers
  <2>2. Marked(seen[s]) # {}
    BY DEF DeleteResults, IInv, SessionInv
  <2>3. QED
    BY <1>2, <2>1, <2>2, ProceedKeeps DEF Phases, Comers
<1>3. QED
  BY <1>1, <1>2 DEF DeleteResults

LEMMA StopWaitingKeeps ==
    ASSUME IInv, NEW s \in Sessions, StopWaiting(s)
    PROVE  IInv'
<1>1. cmd[s] \in Commands /\ cmd[s].op = "calculate"
  BY AtWork DEF StopWaiting, Comers
<1>2. Marked(seen[s]) # {} /\ EveryStudentMarked(seen[s])
  BY DEF StopWaiting, IInv, SessionInv
<1>3. QED
  BY <1>1, <1>2, ProceedKeeps DEF StopWaiting, Phases, Comers

\* The marks a call loads are marks of the table, and a report card's are whole.
LEMMA ReadMarksKeeps ==
    ASSUME IInv, NEW s \in Sessions, ReadMarks(s)
    PROVE  IInv'
<1>1. CASE Refuse(s)
  BY <1>1, RefuseKeeps
<1>2. CASE ~Refuse(s)
  <2> DEFINE rows == [x \in Subjects |-> [i \in Students |->
                        IF Loads(cmd[s], x, i) THEN mark[x][i] ELSE NoMark]]
             phase == CASE cmd[s].op = "enter"     -> "save"
                        [] cmd[s].op = "calculate" -> "replace"
                        [] OTHER                   -> "answer"
  <2>1. /\ seen' = [seen EXCEPT ![s] = rows] /\ pc' = [pc EXCEPT ![s] = phase]
        /\ UNCHANGED <<senior, exam, mark, result, cmd>> /\ pc[s] = "marks"
        /\ cmd[s].op = "calculate" => Marked(mark) # {}
    BY <1>2 DEF ReadMarks, GoTo
  <2>2. rows \in MarkTable /\ \A x \in Subjects, i \in Students :
          rows[x][i] = IF Loads(cmd[s], x, i) THEN mark[x][i] ELSE NoMark
    BY DEF IInv, TypeOK, MarkTable
  <2>3. cmd[s] \in Commands /\ cmd[s].op \in Comers("marks") /\ CommandFits(cmd[s])
    BY <2>1, AtWork
  <2>4. phase \in {"save", "replace", "answer"} /\ cmd[s].op \in Comers(phase)
    BY <2>3 DEF Comers
  <2>5. PICK p \in {"save", "replace", "answer"} : p = phase
    BY <2>4
  <2>6. PICK table \in MarkTable : table = rows
    BY <2>2
  <2>7. pc'[s] = p /\ seen'[s] = table /\ OnlyIn(s) /\ SessionsTyped'
    <3> HIDE DEF rows, phase
    <3>1. QED
      BY <2>1, <2>5, <2>6 DEF OnlyIn, SessionsTyped, IInv, TypeOK, Phases
  <2>8. PointsFitGrade(seen[s])'
    BY <2>1, <2>2, <2>6, <2>7 DEF PointsFitGrade, IInv
  <2>9. p = "replace" => Marked(table) # {}
    <3>1. SUFFICES ASSUME p = "replace" PROVE Marked(table) # {}
      OBVIOUS
    <3>2. cmd[s].op = "calculate"
      BY <2>3, <2>5, <3>1 DEF Comers
    <3>3. \A x \in Subjects, i \in Students : Loads(cmd[s], x, i)
      BY <3>2 DEF Loads
    <3>4. \A x \in Subjects, i \in Students : table[x][i] = mark[x][i]
      BY <2>2, <2>6, <3>3
    <3>5. QED
      BY <2>1, <3>2, <3>4 DEF Marked
  <2>10. p = "answer" /\ cmd[s].op = "card" => MarkedIn(table, cmd[s].student) = Subjects
    <3>1. SUFFICES ASSUME cmd[s].op = "card" PROVE MarkedIn(table, cmd[s].student) = Subjects
      OBVIOUS
    <3>2. MarkedIn(mark, cmd[s].student) = Subjects
      BY <2>1, <3>1 DEF IInv, SessionInv
    <3>3. cmd[s].student \in Students
      BY <2>3, <3>1 DEF CommandFits
    <3>4. \A x \in Subjects : Loads(cmd[s], x, cmd[s].student)
      BY <3>1 DEF Loads
    <3>5. \A x \in Subjects : table[x][cmd[s].student] = mark[x][cmd[s].student]
      BY <2>2, <2>6, <3>3, <3>4
    <3>6. QED
      BY <3>2, <3>5 DEF MarkedIn
  <2>11. SessionInv(s)' /\ CardFits(s)'
    <3>1. cmd'[s] = cmd[s] /\ mark' = mark /\ cmd[s].op \in Comers(p)
      BY <2>1, <2>4, <2>5
    <3>2. \A x \in Subjects, i \in Students : seen'[s][x][i] # NoMark => mark'[x][i] # NoMark
      BY <2>2, <2>6, <2>7, <3>1
    <3> HIDE DEF rows, phase
    <3>3. CardFits(s)'
      BY <2>7, <2>10, <3>1 DEF CardFits
    <3>4. QED
      BY <2>3, <2>7, <2>8, <2>9, <3>1, <3>2, <3>3 DEF SessionInv
  <2>12. exam' \in [status: Statuses, locked: BOOLEAN, deleted: BOOLEAN] /\ exam' = exam
    BY <2>1 DEF IInv, TypeOK
  <2>13. QED
    BY <2>1, <2>7, <2>11, <2>12, StillKeeps
<1>3. QED
  BY <1>1, <1>2

LEMMA MarkRowOf ==
    ASSUME NEW m \in 0 .. FullMarks, NEW a \in BOOLEAN, NEW p \in GradePoints \cup {NoPoint}
    PROVE  [marks |-> m, absent |-> a, point |-> p] \in MarkRow
  BY DEF MarkRow, GradePoints

\* A saved entry is a mark, with or without a grade point as the exam asks.
LEMMA EnteredFits ==
    ASSUME IInv, NEW s \in Sessions, pc[s] = "save", MarksFit(cmd[s].entries),
           NEW i \in DOMAIN cmd[s].entries,
           NEW current \in MarkRow \cup {NoMark},
           seen[s][cmd[s].subject][i] # NoMark => current \in MarkRow,
           current # NoMark => (current.point = NoPoint <=> senior)
    PROVE  /\ Entered(s, i, current) \in MarkRow
           /\ Entered(s, i, current).point = NoPoint <=> senior
<1> DEFINE entry == cmd[s].entries[i]
           old   == seen[s][cmd[s].subject][i]
           point == GradePoint(entry)
<1>1. EnterCommand(cmd[s])
  BY AtWork DEF CommandFits, Comers
<1>2. i \in Students /\ entry.marks \in 0 .. FullMarks /\ entry.absent \in BOOLEAN
  BY <1>1, MarksAssumption DEF EnterCommand, MarksFit
<1>3. point \in GradePoints \cup {NoPoint} /\ (point = NoPoint <=> senior)
  BY <1>2, MarksAssumption, EntryPoint DEF IInv, TypeOK
<1>4. old # NoMark => (old.point = NoPoint <=> senior)
  BY <1>1, <1>2 DEF IInv, SessionInv, PointsFitGrade, EnterCommand
<1> HIDE DEF point, old, entry
<1>5. CASE old = NoMark
  <2>1. Entered(s, i, current) = [marks |-> entry.marks, absent |-> entry.absent, point |-> point]
    BY <1>5 DEF Entered, entry, old, point
  <2>2. QED
    BY <1>2, <1>3, <2>1, MarkRowOf
<1>6. CASE old # NoMark
  <2>1. /\ current \in MarkRow /\ current # NoMark
        /\ current.marks \in 0 .. FullMarks /\ current.absent \in BOOLEAN
        /\ current.point \in GradePoints \cup {NoPoint}
    BY <1>6, RowsDiffer DEF MarkRow, GradePoints, old
  <2>2. PICK m \in 0 .. FullMarks :
          m = IF entry.marks # old.marks THEN entry.marks ELSE current.marks
    BY <1>2, <2>1
  <2>3. PICK a \in BOOLEAN :
          a = IF entry.absent # old.absent THEN entry.absent ELSE current.absent
    BY <1>2, <2>1
  <2>4. PICK p \in GradePoints \cup {NoPoint} :
          p = IF point # old.point THEN point ELSE current.point
    BY <1>3, <2>1
  <2>5. p = NoPoint <=> senior
    BY <1>3, <2>1, <2>4
  <2>6. Entered(s, i, current) = [marks |-> m, absent |-> a, point |-> p]
    BY <1>6, <2>2, <2>3, <2>4 DEF Entered, entry, old, point
  <2>7. QED
    BY <2>5, <2>6, MarkRowOf
<1>7. QED
  BY <1>5, <1>6

LEMMA SaveMarksKeeps ==
    ASSUME IInv, NEW s \in Sessions, SaveMarks(s)
    PROVE  IInv'
<1>1. CASE Refuse(s)
  BY <1>1, RefuseKeeps
<1>2. CASE ~Refuse(s)
  <2>1. PICK subject \in Subjects : subject = cmd[s].subject
    BY AtWork DEF SaveMarks, CommandFits, Comers, EnterCommand
  <2> DEFINE entries == cmd[s].entries
             current == mark[subject]
             rows == [i \in Students |-> IF i \in DOMAIN entries
                                         THEN Entered(s, i, current[i])
                                         ELSE current[i]]
  <2>2. /\ pc[s] = "save" /\ MarksFit(entries)
        /\ mark' = [mark EXCEPT ![subject] = rows]
        /\ Finish(s, pc) /\ UNCHANGED <<senior, exam, result>>
    BY <1>2, <2>1 DEF SaveMarks
  <2>3. mark \in MarkTable /\ PointsFitGrade(mark) /\ DOMAIN entries \subseteq Students
    BY <2>2, AtWork DEF IInv, TypeOK, CommandFits, Comers, EnterCommand
  <2>4. \A i \in Students : /\ current[i] \in MarkRow \cup {NoMark}
                            /\ seen[s][subject][i] # NoMark => current[i] # NoMark
                            /\ current[i] # NoMark => (current[i].point = NoPoint <=> senior)
    BY <2>3 DEF MarkTable, PointsFitGrade, IInv, SessionInv
  <2>5. \A i \in DOMAIN entries : /\ Entered(s, i, current[i]) \in MarkRow
                                  /\ Entered(s, i, current[i]).point = NoPoint <=> senior
    <3> SUFFICES ASSUME NEW i \in DOMAIN entries
                 PROVE  /\ Entered(s, i, current[i]) \in MarkRow
                        /\ Entered(s, i, current[i]).point = NoPoint <=> senior
      OBVIOUS
    <3>1. PICK row \in MarkRow \cup {NoMark} : row = current[i]
      BY <2>3, <2>4
    <3>2. /\ seen[s][cmd[s].subject][i] # NoMark => row \in MarkRow
          /\ row # NoMark => (row.point = NoPoint <=> senior)
      BY <2>1, <2>3, <2>4, <3>1
    <3>3. QED
      BY <2>2, <3>1, <3>2, EnteredFits
  <2> HIDE DEF entries, current
  <2>6. \A i \in Students : /\ rows[i] \in MarkRow \cup {NoMark}
                            /\ current[i] # NoMark => rows[i] # NoMark
                            /\ rows[i] # NoMark => (rows[i].point = NoPoint <=> senior)
    BY <2>3, <2>4, <2>5, RowsDiffer
  <2>7. rows \in [Students -> MarkRow \cup {NoMark}]
    BY <2>6
  <2> HIDE DEF rows
  <2>8. mark' \in MarkTable /\ mark'[subject] = rows
        /\ \A x \in Subjects \ {subject} : mark'[x] = mark[x]
    BY <2>2, <2>3, <2>7 DEF MarkTable
  <2>9. \A x \in Subjects, i \in Students : mark[x][i] # NoMark => mark'[x][i] # NoMark
    BY <2>6, <2>8 DEF current
  <2>10. PointsFitGrade(mark)'
    BY <2>2, <2>3, <2>6, <2>8 DEF PointsFitGrade
  <2>11. pc \in [Sessions -> Phases] /\ OnlyIn(s)
    BY <2>2 DEF Finish, OnlyIn, IInv, TypeOK
  <2>12. SessionsTyped' /\ SessionInv(s)' /\ CardFits(s)'
    BY <2>2, <2>11, FinishFits
  <2>13. HasResults => HasResults'
    BY <2>2 DEF HasResults
  <2>14. \A t \in Sessions : SessionInv(t)' /\ CardFits(t)'
    <3> TAKE t \in Sessions
    <3>1. CASE t # s
      <4>1. cmd'[t] = cmd[t] /\ seen'[t] = seen[t] /\ pc'[t] = pc[t]
        BY <2>11, <3>1 DEF OnlyIn
      <4>2. QED
        BY <2>2, <2>9, <2>13, <4>1, SessionKeeps
    <3>2. QED
      BY <2>12, <3>1
  <2>15. TypeOK'
    BY <2>2, <2>8, <2>12 DEF IInv, TypeOK, SessionsTyped
  <2>16. RanksFollowValues' /\ LockedHasResults' /\ ResultsNeedAllMarks'
    BY <2>2, <2>9 DEF IInv, ResultsStand, RanksFollowValues, Ranked, LockedHasResults,
                      ResultsNeedAllMarks
  <2>17. CardsComplete'
    BY <2>14 DEF CardsComplete, CardFits
  <2>18. QED
    BY <2>10, <2>14, <2>15, <2>16, <2>17 DEF IInv, ResultsStand
<1>3. QED
  BY <1>1, <1>2

LEMMA InsertResultsKeeps ==
    ASSUME IInv, NEW s \in Sessions, InsertResults(s)
    PROVE  IInv'
<1>1. PICK rows \in MarkTable : rows = seen[s]
  BY DEF IInv, TypeOK
<1>2. PICK order \in Orders(rows) : result' = Calculated(rows, order)
  BY <1>1 DEF InsertResults
<1> DEFINE phases == [t \in Sessions |-> IF pc[t] \in {"insert", "queued"}
                                         THEN "conflict" ELSE pc[t]]
<1>3. /\ pc[s] = "insert" /\ Finish(s, phases) /\ UNCHANGED <<senior, exam, mark>>
      /\ phases \in [Sessions -> Phases]
  BY DEF InsertResults, IInv, TypeOK, Phases
<1>4. /\ PointsFitGrade(rows) /\ Marked(rows) # {} /\ EveryStudentMarked(rows)
      /\ \A x \in Subjects, i \in Students : rows[x][i] # NoMark => mark[x][i] # NoMark
      /\ senior \in BOOLEAN
  BY <1>1, <1>3 DEF IInv, TypeOK, SessionInv
<1>5. /\ result' \in [Students -> ResultRow \cup {NoResult}]
      /\ RanksFollowValues' /\ ResultsNeedAllMarks' /\ HasResults'
  BY <1>2, <1>3, <1>4, CalculationStands
<1>6. SessionsTyped' /\ SessionInv(s)' /\ CardFits(s)'
  BY <1>3, FinishFits
<1>7. \A t \in Sessions : SessionInv(t)' /\ CardFits(t)'
  <2> TAKE t \in Sessions
  <2>1. CASE t # s
    <3>1. /\ cmd'[t] = cmd[t] /\ seen'[t] = seen[t]
          /\ pc'[t] = pc[t] \/ (pc[t] \in {"insert", "queued"} /\ pc'[t] = "conflict")
      BY <1>3, <2>1 DEF Finish, IInv, TypeOK
    <3>2. QED
      BY <1>3, <1>5, <3>1, SessionKeeps
  <2>2. QED
    BY <1>6, <2>1
<1>8. TypeOK'
  BY <1>3, <1>5, <1>6 DEF IInv, TypeOK, SessionsTyped
<1>9. LockedHasResults' /\ PointsFitGrade(mark)'
  BY <1>3, <1>5 DEF LockedHasResults, HasResults, IInv, PointsFitGrade
<1>10. CardsComplete'
  BY <1>7 DEF CardsComplete, CardFits
<1>11. QED
  BY <1>5, <1>7, <1>8, <1>9, <1>10 DEF IInv, ResultsStand

-----------------------------------------------------------------------------
(* The specification. *)

LEMMA InitIInv == Init => IInv
<1> SUFFICES ASSUME Init PROVE IInv
  OBVIOUS
<1>1. /\ mark = NoMarks /\ \A i \in Students : result[i] = NoResult
      /\ \A s \in Sessions : pc[s] = "idle" /\ seen[s] = NoMarks
      /\ ~exam.locked
  BY DEF Init
<1>2. TypeOK
  BY NoMarksTyped DEF Init, TypeOK, Statuses, Phases
<1>3. ResultsStand
  BY <1>1 DEF ResultsStand, RanksFollowValues, Ranked, LockedHasResults,
              ResultsNeedAllMarks, CardsComplete
<1>4. PointsFitGrade(NoMarks)
  BY NoMarksTyped DEF PointsFitGrade
<1>5. \A s \in Sessions : SessionInv(s)
  BY <1>1, <1>4, NoMarksTyped DEF SessionInv
<1>6. QED
  BY <1>1, <1>2, <1>3, <1>4, <1>5 DEF IInv

LEMMA StepKeeps == IInv /\ [Next]_vars => IInv'
<1> SUFFICES ASSUME IInv, [Next]_vars PROVE IInv'
  OBVIOUS
<1>1. CASE UNCHANGED vars
  BY <1>1 DEF vars, sessions, IInv, TypeOK, ResultsStand, RanksFollowValues, Ranked,
              LockedHasResults, ResultsNeedAllMarks, CardsComplete, PointsFitGrade,
              SessionInv, HasResults
<1>2. CASE Next
  <2>1. PICK s \in Sessions :
            \/ Submit(s) \/ ReadExam(s) \/ CountResults(s) \/ CountMarks(s)
            \/ MoveExam(s) \/ PublishExam(s) \/ DeleteExam(s) \/ EditExam(s)
            \/ ReadResult(s) \/ ReadMarks(s) \/ SaveMarks(s)
            \/ DeleteResults(s) \/ StopWaiting(s) \/ InsertResults(s) \/ Refuse(s)
    BY <1>2 DEF Next, Show, UniqueViolation, Abort
  <2>2. QED
    BY <2>1, SubmitKeeps, ReadExamKeeps, CountResultsKeeps, CountMarksKeeps, WritesKeep,
       ReadResultKeeps, ReadMarksKeeps, SaveMarksKeeps, DeleteResultsKeeps,
       StopWaitingKeeps, InsertResultsKeeps, RefuseKeeps
<1>3. QED
  BY <1>1, <1>2

\* In every reachable state what ExamService's calls have read still holds as
\* far as they rely on it.
THEOREM Invariance == Spec => []IInv
  BY InitIInv, StepKeeps, PTL DEF Spec

\* The exam, its marks and results always have their types: grade points of
\* the GPA table, values of at most 100 percent, ranks of at most the students.
THEOREM TypeCorrect == Spec => []TypeOK
<1>1. IInv => TypeOK
  BY DEF IInv
<1>2. QED
  BY <1>1, Invariance, PTL

\* Whatever calculations, publications and mark sheets overlap: the ranks are
\* those of one calculation and follow the values, a locked exam has results,
\* and every result and every report card has a mark for every subject.
THEOREM ResultsAlwaysStand == Spec => []ResultsStand
<1>1. IInv => ResultsStand
  BY DEF IInv
<1>2. QED
  BY <1>1, Invariance, PTL

===============================================================================
