-------------------------- MODULE FeeBilling_proofs --------------------------
(***************************************************************************)
(* Proofs about FeeBilling for any sessions, students, cohorts, structures, *)
(* heads and commands: the inductive invariant IInv and the safety          *)
(* properties that follow from it.                                          *)
(***************************************************************************)
EXTENDS FeeBilling, SumLemmas

-----------------------------------------------------------------------------
(* The operators on rows. *)

\* What a command carries depends on its operation.
LEMMA CommandFields ==
    ASSUME NEW c \in Commands
    PROVE  /\ c.op \in {"create", "archive", "restore", "add", "change", "remove",
                        "generate"}
           /\ c.structure \in Structures \cup {NoStructure}
           /\ c.op # "generate" => c.structure \in Structures
           /\ c.op = "create" =>
                /\ DOMAIN c.heads \subseteq Heads
                /\ \A h \in DOMAIN c.heads : c.heads[h] \in HeadTerms
                /\ \A h, k \in DOMAIN c.heads :
                     c.heads[h].name = c.heads[k].name => h = k
           /\ c.op \in {"add", "change", "remove"} => c.head \in Heads
           /\ c.op \in {"add", "change"} => c.terms \in HeadTerms
           /\ c.op = "generate" => /\ c.students \subseteq Students
                                   /\ c.months \subseteq 1 .. 12
  BY BillingCommandsAssumption
     DEF StatusCommand, AddCommand, RemoveCommand, GenerateCommand

\* Locks differ when their keys do, and the two kinds never meet.
LEMMA LocksDiffer ==
    /\ \A x, y : StructureLock(x) = StructureLock(y) => x = y
    /\ \A i, j : StudentLock(i) = StudentLock(j) => i = j
    /\ \A x, i : StructureLock(x) # StudentLock(i)
  BY DEF StructureLock, StudentLock

\* A head is charged in periods of the year.
LEMMA PeriodsTyped ==
    ASSUME NEW f, NEW months \in SUBSET (1 .. 12), NEW p \in PeriodsOf(f, months)
    PROVE  p \in Periods
<1>1. CASE f = "monthly"
  BY <1>1 DEF PeriodsOf, Periods
<1>2. CASE f = "quarterly"
  BY <1>2 DEF PeriodsOf, Periods
<1>3. CASE f \notin {"monthly", "quarterly"}
  BY <1>3 DEF PeriodsOf, Periods
<1>4. QED
  BY <1>1, <1>2, <1>3

\* A generated bill: one of the chosen students, one of the loaded heads, and
\* the terms the loaded head has.
LEMMA NewBillFields ==
    ASSUME NEW s \in Sessions, NEW b \in NewBills(s)
    PROVE  /\ b.head \in Viewed(s)
           /\ b.student \in cmd[s].students
           /\ b.period \in PeriodsOf(headView[s][b.head].terms.frequency, cmd[s].months)
           /\ b.name = headView[s][b.head].terms.name
           /\ b.amount = headView[s][b.head].terms.amount
           /\ b = [student |-> b.student, head |-> b.head, period |-> b.period,
                   name |-> b.name, amount |-> b.amount]
<1>1. PICK h \in ChargedHeads(s) :
        \E i \in cmd[s].students,
           p \in PeriodsOf(headView[s][h].terms.frequency, cmd[s].months) :
          b = [student |-> i, head |-> h, period |-> p,
               name |-> headView[s][h].terms.name,
               amount |-> headView[s][h].terms.amount]
  BY DEF NewBills
<1>2. QED
  BY <1>1 DEF ChargedHeads

-----------------------------------------------------------------------------
(* What a step has to leave alone. *)

\* The rows of a structure and its heads, as another session may rely on them.
StructureKept(x) ==
    /\ structure'[x] = structure[x]
    /\ HeadsOf(x) = {h \in Heads : head'[h] # NoRow /\ head'[h].structure = x}
    /\ \A h \in HeadsOf(x) : head'[h] = head[h]

\* A session whose own state does not change keeps its invariant when its
\* locked structure is left alone and gets no new bill, and no locked student
\* leaves.
LEMMA OthersKeep ==
    ASSUME NEW t \in Sessions, SessionInv(t),
           pc'[t] = pc[t], cmd'[t] = cmd[t], held'[t] = held[t],
           target'[t] = target[t], headView'[t] = headView[t],
           \A i \in Students : StudentLock(i) \in held[t] /\ i \in enrolled => i \in enrolled',
           pc[t] \in AfterStructure =>
             /\ StructureKept(target[t])
             /\ \A b \in bill' \ bill : b.head \notin HeadsOf(target[t])
    PROVE  SessionInv(t)'
<1>1. PhaseFits(t)' /\ HoldsLocks(t)'
  BY DEF SessionInv, PhaseFits, HoldsLocks, StructureLock, StudentLock
<1>2. CopiesFit(t)'
  <2> SUFFICES ASSUME pc[t] \in AfterStructure
               PROVE  CopiesFit(t)'
    BY DEF CopiesFit
  <2>1. CopiesFit(t) /\ StructureKept(target[t])
    BY DEF SessionInv
  <2>2. HeadsOf(target[t])' = HeadsOf(target[t])
    BY <2>1 DEF StructureKept, HeadsOf
  <2>3. [h \in Heads |-> IF h \in HeadsOf(target[t]) THEN head'[h] ELSE NoRow]
        = [h \in Heads |-> IF h \in HeadsOf(target[t]) THEN head[h] ELSE NoRow]
    BY <2>1 DEF StructureKept
  <2>4. structure'[target'[t]] = structure[target[t]]
    BY <2>1 DEF StructureKept
  <2>5. QED
    BY <2>1, <2>2, <2>3, <2>4 DEF CopiesFit
<1>3. HeadUnbilled(t)'
  <2> SUFFICES ASSUME pc[t] = "write", cmd[t].op \in {"change", "remove"}
               PROVE  \A b \in bill' : b.head # cmd[t].head
    BY DEF HeadUnbilled
  <2>1. cmd[t].head \in HeadsOf(target[t]) /\ pc[t] \in AfterStructure
    BY DEF SessionInv, CopiesFit, AfterStructure
  <2>2. \A b \in bill : b.head # cmd[t].head
    BY DEF SessionInv, HeadUnbilled
  <2>3. QED
    BY <2>1, <2>2
<1>4. QED
  BY <1>1, <1>2, <1>3 DEF SessionInv

\* Nothing a session relies on changes while the tables do not.
LEMMA TablesKept ==
    ASSUME UNCHANGED tables, NEW x
    PROVE  StructureKept(x)
  BY DEF StructureKept, HeadsOf, tables

\* The parts of the invariant that only the tables decide.
TablesStand == HeadsStand /\ BillsKeepTerms /\ BillsApart /\ ActiveApart

TablesTyped ==
    /\ structure \in [Structures -> {"none", "active", "archived"}]
    /\ head \in [Heads -> HeadRow \cup {NoRow}]
    /\ bill \subseteq BillRow

LEMMA TablesKeep ==
    ASSUME IInv, UNCHANGED tables
    PROVE  TablesStand' /\ TablesTyped'
<1>1. HeadsStand'
  BY DEF IInv, HeadsStand, tables, HeadsOf
<1>2. BillsKeepTerms' /\ BillsApart' /\ ActiveApart'
  BY DEF IInv, BillsKeepTerms, BillsApart, ActiveApart, SameKey, tables
<1>3. TablesTyped'
  BY DEF IInv, TypeOK, TablesTyped, tables
<1>4. QED
  BY <1>1, <1>2, <1>3 DEF TablesStand

\* A session's own part of the type invariant and its locks after its call ends.
LEMMA EndKeeps ==
    ASSUME TypeOK, LocksApart, NEW s \in Sessions, End(s)
    PROVE  /\ pc' \in [Sessions -> Phases]
           /\ cmd' \in [Sessions -> Commands \cup {NoCommand}]
           /\ held' \in [Sessions -> SUBSET Locks]
           /\ target' \in [Sessions -> Structures \cup {NoStructure}]
           /\ headView' \in [Sessions -> [Heads -> HeadRow \cup {NoRow}]]
           /\ \A t \in Sessions : pc'[t] = "idle" => cmd'[t] = NoCommand /\ held'[t] = {}
           /\ LocksApart'
           /\ SessionInv(s)'
           /\ \A t \in Sessions \ {s} :
                /\ pc'[t] = pc[t] /\ cmd'[t] = cmd[t] /\ held'[t] = held[t]
                /\ target'[t] = target[t] /\ headView'[t] = headView[t]
<1>1. pc' \in [Sessions -> Phases] /\ pc'[s] = "idle" /\ held'[s] = {} /\ cmd'[s] = NoCommand
  BY DEF TypeOK, End, GoTo, Phases
<1>2. /\ cmd' \in [Sessions -> Commands \cup {NoCommand}]
      /\ held' \in [Sessions -> SUBSET Locks]
      /\ target' \in [Sessions -> Structures \cup {NoStructure}]
  BY DEF TypeOK, End
<1>3. headView' \in [Sessions -> [Heads -> HeadRow \cup {NoRow}]]
  BY DEF TypeOK, End, NoHeadView
<1>4. LocksApart'
  BY DEF TypeOK, End, LocksApart
<1>5. SessionInv(s)'
  BY <1>1 DEF SessionInv, PhaseFits, HoldsLocks, CopiesFit, HeadUnbilled, AfterStructure
<1>6. ASSUME NEW t \in Sessions \ {s}
      PROVE  /\ pc'[t] = pc[t] /\ cmd'[t] = cmd[t] /\ held'[t] = held[t]
             /\ target'[t] = target[t] /\ headView'[t] = headView[t]
  BY DEF TypeOK, End, GoTo
<1>7. \A t \in Sessions : pc'[t] = "idle" => cmd'[t] = NoCommand /\ held'[t] = {}
  BY <1>1, <1>6 DEF TypeOK
<1>8. QED
  BY <1>1, <1>2, <1>3, <1>4, <1>5, <1>6, <1>7

\* A call that writes and ends, or is refused.
LEMMA CommitKeeps ==
    ASSUME IInv, NEW s \in Sessions, End(s), UNCHANGED enrolled,
           TablesStand', TablesTyped',
           \A t \in Sessions \ {s} : pc[t] \in AfterStructure =>
             /\ StructureKept(target[t])
             /\ \A b \in bill' \ bill : b.head \notin HeadsOf(target[t])
    PROVE  IInv'
<1>1. TypeOK'
  BY EndKeeps DEF IInv, TypeOK, TablesTyped
<1>2. LocksApart' /\ SessionInv(s)'
  BY EndKeeps DEF IInv
<1>3. ASSUME NEW t \in Sessions \ {s}
      PROVE  SessionInv(t)'
  <2>1. SessionInv(t)
    BY DEF IInv
  <2>2. /\ pc'[t] = pc[t] /\ cmd'[t] = cmd[t] /\ held'[t] = held[t]
        /\ target'[t] = target[t] /\ headView'[t] = headView[t]
    BY EndKeeps DEF IInv
  <2>3. QED
    BY <2>1, <2>2, OthersKeep
<1>4. QED
  BY <1>1, <1>2, <1>3 DEF IInv, TablesStand

LEMMA RefuseKeeps ==
    ASSUME IInv, NEW s \in Sessions, Refuse(s)
    PROVE  IInv'
<1>1. UNCHANGED tables /\ UNCHANGED enrolled /\ End(s)
  BY DEF Refuse
<1>2. \A t \in Sessions : /\ StructureKept(target[t])
                          /\ \A b \in bill' \ bill : b.head \notin HeadsOf(target[t])
  BY <1>1, TablesKept DEF tables
<1>3. QED
  BY <1>1, <1>2, TablesKeep, CommitKeeps

\* A step of session s that only takes locks, loads copies and moves on.
LEMMA MoveKeeps ==
    ASSUME IInv, NEW s \in Sessions, UNCHANGED <<tables, enrolled>>,
           NEW phase \in Phases \ {"idle"}, GoTo(s, phase),
           cmd' \in [Sessions -> Commands \cup {NoCommand}],
           held' \in [Sessions -> SUBSET Locks], LocksApart',
           target' \in [Sessions -> Structures \cup {NoStructure}],
           headView' \in [Sessions -> [Heads -> HeadRow \cup {NoRow}]],
           \A t \in Sessions \ {s} :
             /\ cmd'[t] = cmd[t] /\ held'[t] = held[t]
             /\ target'[t] = target[t] /\ headView'[t] = headView[t],
           SessionInv(s)'
    PROVE  IInv'
<1>1. \A t \in Sessions : pc'[t] = IF t = s THEN phase ELSE pc[t]
  BY DEF IInv, TypeOK, GoTo
<1>2. TypeOK'
  <2>1. pc' \in [Sessions -> Phases]
    BY DEF IInv, TypeOK, GoTo
  <2>2. \A t \in Sessions : pc'[t] = "idle" => cmd'[t] = NoCommand /\ held'[t] = {}
    BY <1>1 DEF IInv, TypeOK
  <2>3. QED
    BY <2>1, <2>2, TablesKeep DEF TypeOK, TablesTyped, IInv
<1>3. ASSUME NEW t \in Sessions \ {s}
      PROVE  SessionInv(t)'
  <2>1. SessionInv(t) /\ pc'[t] = pc[t]
    BY <1>1 DEF IInv
  <2>2. StructureKept(target[t]) /\ bill' = bill
    BY TablesKept DEF tables
  <2>3. QED
    BY <2>1, <2>2, OthersKeep
<1>4. QED
  BY <1>2, <1>3, TablesKeep DEF IInv, TablesStand

\* A step that only moves on to the next phase.
LEMMA ProceedKeeps ==
    ASSUME IInv, NEW s \in Sessions, NEW phase \in Phases \ {"idle"}, Proceed(s, phase),
           SessionInv(s)'
    PROVE  IInv'
<1>1. LocksApart'
  BY DEF Proceed, IInv, LocksApart
<1>2. QED
  BY <1>1, MoveKeeps DEF Proceed, IInv, TypeOK

-----------------------------------------------------------------------------
(* One lemma per action. *)

LEMMA SubmitKeeps ==
    ASSUME IInv, NEW s \in Sessions, Submit(s)
    PROVE  IInv'
<1>1. PICK c \in Commands : /\ cmd' = [cmd EXCEPT ![s] = c]
                            /\ GoTo(s, FirstPhase(c))
                            /\ target' = [target EXCEPT ![s] = c.structure]
  BY DEF Submit
<1>2. /\ FirstPhase(c) \in {"active", "find", "structure"}
      /\ FirstPhase(c) = "active" => c.op = "create"
      /\ FirstPhase(c) = "find" => c.op = "generate"
      /\ FirstPhase(c) = "structure" => c.op # "create" /\ c.structure \in Structures
  BY CommandFields DEF FirstPhase
<1>3. c.structure \in Structures \cup {NoStructure}
  BY CommandFields
<1>4. /\ cmd'[s] = c /\ pc'[s] = FirstPhase(c) /\ target'[s] = c.structure
      /\ held'[s] = held[s]
  BY <1>1 DEF IInv, TypeOK, GoTo, Submit
<1>5. \A i \in Students : StudentLock(i) \in held'[s] => i \in enrolled'
  BY DEF IInv, TypeOK, Submit
<1>6. SessionInv(s)'
  BY <1>2, <1>4, <1>5 DEF SessionInv, PhaseFits, HoldsLocks, CopiesFit,
     HeadUnbilled, AfterStructure, StudentLock
<1>7. LocksApart'
  BY DEF IInv, LocksApart, Submit
<1>8. FirstPhase(c) \in Phases \ {"idle"}
  BY <1>2 DEF Phases
<1>9. /\ cmd' \in [Sessions -> Commands \cup {NoCommand}]
      /\ target' \in [Sessions -> Structures \cup {NoStructure}]
      /\ \A t \in Sessions \ {s} : cmd'[t] = cmd[t] /\ target'[t] = target[t]
  BY <1>1, <1>3 DEF IInv, TypeOK
<1>10. QED
  BY <1>1, <1>6, <1>7, <1>8, <1>9, MoveKeeps DEF Submit, IInv, TypeOK

LEMMA CheckNoneActiveKeeps ==
    ASSUME IInv, NEW s \in Sessions, CheckNoneActive(s)
    PROVE  IInv'
<1>1. CASE Proceed(s, "billed")
  <2>1. SessionInv(s)'
    BY <1>1 DEF CheckNoneActive, IInv, TypeOK, SessionInv, PhaseFits, HoldsLocks,
       CopiesFit, HeadUnbilled, AfterStructure, Proceed, GoTo, StudentLock
  <2>2. QED
    BY <1>1, <2>1, ProceedKeeps DEF Phases
<1>2. CASE Refuse(s)
  BY <1>2, RefuseKeeps
<1>3. QED
  BY <1>1, <1>2 DEF CheckNoneActive

LEMMA CheckNoneBilledKeeps ==
    ASSUME IInv, NEW s \in Sessions, CheckNoneBilled(s)
    PROVE  IInv'
<1>1. CASE Proceed(s, "insert")
  <2>1. SessionInv(s)'
    BY <1>1 DEF CheckNoneBilled, IInv, TypeOK, SessionInv, PhaseFits, HoldsLocks,
       CopiesFit, HeadUnbilled, AfterStructure, Proceed, GoTo, StudentLock
  <2>2. QED
    BY <1>1, <2>1, ProceedKeeps DEF Phases
<1>2. CASE Refuse(s)
  BY <1>2, RefuseKeeps
<1>3. QED
  BY <1>1, <1>2 DEF CheckNoneBilled

LEMMA CheckOthersArchivedKeeps ==
    ASSUME IInv, NEW s \in Sessions, CheckOthersArchived(s)
    PROVE  IInv'
<1>1. CASE Proceed(s, "write")
  <2>1. SessionInv(s) /\ pc[s] = "others" /\ cmd[s].op = "restore"
    BY DEF CheckOthersArchived, IInv, SessionInv, PhaseFits
  <2>2. /\ pc'[s] = "write" /\ cmd'[s] = cmd[s] /\ held'[s] = held[s]
        /\ target'[s] = target[s] /\ headView'[s] = headView[s] /\ enrolled' = enrolled
    BY <1>1 DEF Proceed, GoTo, IInv, TypeOK
  <2>3. CopiesFit(s)'
    BY <1>1, <2>1, <2>2 DEF Proceed, tables, SessionInv, CopiesFit, AfterStructure, HeadsOf
  <2>4. SessionInv(s)'
    BY <2>1, <2>2, <2>3 DEF SessionInv, PhaseFits, HoldsLocks, HeadUnbilled,
       AfterStructure, StructureLock, StudentLock
  <2>5. QED
    BY <1>1, <2>4, ProceedKeeps DEF Phases
<1>2. CASE Refuse(s)
  BY <1>2, RefuseKeeps
<1>3. QED
  BY <1>1, <1>2 DEF CheckOthersArchived

LEMMA CheckUnbilledKeeps ==
    ASSUME IInv, NEW s \in Sessions, CheckUnbilled(s)
    PROVE  IInv'
<1>1. CASE Proceed(s, "write") /\ \A b \in bill : b.head # cmd[s].head
  <2>1. SessionInv(s) /\ pc[s] = "unbilled" /\ cmd[s].op \in {"change", "remove"}
    BY DEF CheckUnbilled, IInv, SessionInv, PhaseFits
  <2>2. /\ pc'[s] = "write" /\ cmd'[s] = cmd[s] /\ held'[s] = held[s] /\ bill' = bill
        /\ target'[s] = target[s] /\ headView'[s] = headView[s] /\ enrolled' = enrolled
    BY <1>1 DEF Proceed, GoTo, IInv, TypeOK, tables
  <2>3. CopiesFit(s)'
    BY <1>1, <2>1, <2>2 DEF Proceed, tables, SessionInv, CopiesFit, AfterStructure, HeadsOf
  <2>4. SessionInv(s)'
    BY <1>1, <2>1, <2>2, <2>3 DEF SessionInv, PhaseFits, HoldsLocks, HeadUnbilled,
       AfterStructure, StructureLock, StudentLock
  <2>5. QED
    BY <1>1, <2>4, ProceedKeeps DEF Phases
<1>2. CASE Refuse(s)
  BY <1>2, RefuseKeeps
<1>3. QED
  BY <1>1, <1>2 DEF CheckUnbilled

LEMMA FindActiveKeeps ==
    ASSUME IInv, NEW s \in Sessions, FindActive(s)
    PROVE  IInv'
<1>1. CASE Refuse(s)
  BY <1>1, RefuseKeeps
<1>2. CASE ~Refuse(s)
  <2>1. PICK x \in ActiveIn(cmd[s].cohort) : target' = [target EXCEPT ![s] = x]
    BY <1>2 DEF FindActive
  <2>2. x \in Structures
    BY DEF ActiveIn
  <2>3. /\ pc[s] = "find" /\ GoTo(s, "structure")
        /\ UNCHANGED <<tables, enrolled, cmd, held, headView>>
    BY <1>2 DEF FindActive
  <2>4. SessionInv(s)'
    BY <2>1, <2>2, <2>3 DEF IInv, TypeOK, SessionInv, PhaseFits, HoldsLocks,
       CopiesFit, HeadUnbilled, AfterStructure, GoTo, StudentLock
  <2>5. LocksApart'
    BY <2>3 DEF IInv, LocksApart
  <2>6. QED
    BY <2>1, <2>2, <2>3, <2>4, <2>5, MoveKeeps DEF IInv, TypeOK, Phases
<1>3. QED
  BY <1>1, <1>2

LEMMA LockStructureKeeps ==
    ASSUME IInv, NEW s \in Sessions, LockStructure(s)
    PROVE  IInv'
<1>1. CASE Refuse(s)
  BY <1>1, RefuseKeeps
<1>2. CASE ~Refuse(s)
  <2> DEFINE c == cmd[s]
             x == target[s]
             view == [h \in Heads |-> IF h \in HeadsOf(x) THEN head[h] ELSE NoRow]
  <2>1. /\ pc[s] = "structure" /\ Free(s, StructureLock(x)) /\ StructureAccepts(c, x)
        /\ held' = [held EXCEPT ![s] = @ \cup {StructureLock(x)}]
        /\ headView' = [headView EXCEPT ![s] = view]
        /\ GoTo(s, NextPhase(c))
        /\ UNCHANGED <<tables, enrolled, cmd, target>>
    BY <1>2 DEF LockStructure
  <2>2. TypeOK /\ SessionInv(s) /\ LocksApart
    BY DEF IInv
  <2>3. c \in Commands /\ x \in Structures
    BY <2>1, <2>2 DEF SessionInv, PhaseFits
  <2>4. view \in [Heads -> HeadRow \cup {NoRow}]
    BY <2>2 DEF TypeOK
  <2>5. /\ held' \in [Sessions -> SUBSET Locks] /\ held'[s] = held[s] \cup {StructureLock(x)}
        /\ \A t \in Sessions \ {s} : held'[t] = held[t]
    BY <2>1, <2>2, <2>3 DEF TypeOK, Locks
  <2>6. LocksApart'
    BY <2>1, <2>2, <2>5 DEF LocksApart, Free
  <2>7. /\ headView' \in [Sessions -> [Heads -> HeadRow \cup {NoRow}]]
        /\ headView'[s] = view
        /\ \A t \in Sessions \ {s} : headView'[t] = headView[t]
    BY <2>1, <2>2, <2>4 DEF TypeOK
  <2>8. /\ pc'[s] = NextPhase(c) /\ cmd'[s] = c /\ target'[s] = x
        /\ UNCHANGED <<structure, head, bill, enrolled>>
    BY <2>1, <2>2 DEF TypeOK, GoTo, tables
  <2>9. /\ NextPhase(c) \in {"others", "unbilled", "students", "write"}
        /\ NextPhase(c) = "others" => c.op = "restore"
        /\ NextPhase(c) = "unbilled" => c.op \in {"change", "remove"}
        /\ NextPhase(c) = "students" => c.op = "generate"
        /\ NextPhase(c) = "write" => c.op \notin {"create", "generate", "change", "remove"}
    <3>1. c.op # "create"
      BY <2>1, <2>2 DEF SessionInv, PhaseFits
    <3>2. QED
      BY <3>1 DEF NextPhase
  <2>10. PhaseFits(s)' /\ HeadUnbilled(s)'
    BY <2>3, <2>8, <2>9 DEF PhaseFits, HeadUnbilled, AfterStructure
  <2>11. HoldsLocks(s)'
    <3>1. \A i \in Students : StudentLock(i) \in held'[s] => i \in enrolled
      BY <2>2, <2>5, LocksDiffer DEF SessionInv, HoldsLocks
    <3>2. StructureLock(target'[s]) \in held'[s]
      BY <2>5, <2>8
    <3>3. QED
      BY <2>8, <2>9, <3>1, <3>2 DEF HoldsLocks, StudentLock, StructureLock
  <2>12. CopiesFit(s)'
    <3>1. /\ structure[x] # "none"
          /\ c.op = "generate" => structure[x] = "active"
          /\ c.op \in {"change", "remove"} => c.head \in HeadsOf(x)
      BY <2>1 DEF StructureAccepts
    <3>2. HeadsOf(target[s])' = HeadsOf(x)
      BY <2>8 DEF HeadsOf
    <3>3. QED
      BY <2>7, <2>8, <3>1, <3>2 DEF CopiesFit
  <2>13. NextPhase(c) \in Phases \ {"idle"}
    BY <2>9 DEF Phases
  <2>14. QED
    BY <2>1, <2>2, <2>5, <2>6, <2>7, <2>10, <2>11, <2>12, <2>13, MoveKeeps
       DEF SessionInv, TypeOK
<1>3. QED
  BY <1>1, <1>2

LEMMA LockStudentKeeps ==
    ASSUME IInv, NEW s \in Sessions, LockStudent(s)
    PROVE  IInv'
<1>1. CASE Refuse(s)
  BY <1>1, RefuseKeeps
<1>2. CASE ~Refuse(s)
  <2>1. PICK i \in Students :
          /\ NextStudent(s, i) /\ Free(s, StudentLock(i)) /\ i \in enrolled
          /\ held' = [held EXCEPT ![s] = @ \cup {StudentLock(i)}]
          /\ GoTo(s, IF Waiting(s) = {i} THEN "bills" ELSE "students")
          /\ UNCHANGED <<tables, enrolled, cmd, target, headView>>
    BY <1>2 DEF LockStudent
  <2> DEFINE phase == IF Waiting(s) = {i} THEN "bills" ELSE "students"
  <2>2. TypeOK /\ SessionInv(s) /\ LocksApart /\ pc[s] = "students"
    BY DEF IInv, LockStudent
  <2>3. /\ held' \in [Sessions -> SUBSET Locks] /\ held'[s] = held[s] \cup {StudentLock(i)}
        /\ \A t \in Sessions \ {s} : held'[t] = held[t]
    BY <2>1, <2>2 DEF TypeOK, Locks
  <2>4. LocksApart'
    BY <2>1, <2>2, <2>3 DEF LocksApart, Free
  <2>5. /\ pc'[s] = phase /\ cmd'[s] = cmd[s] /\ target'[s] = target[s]
        /\ headView'[s] = headView[s] /\ UNCHANGED <<structure, head, bill, enrolled>>
    BY <2>1, <2>2 DEF TypeOK, GoTo, tables
  <2>6. PhaseFits(s)' /\ HeadUnbilled(s)'
    BY <2>2, <2>5 DEF SessionInv, PhaseFits, HeadUnbilled, AfterStructure
  <2>7. HoldsLocks(s)'
    <3>1. \A j \in Students : StudentLock(j) \in held'[s] => j \in enrolled
      BY <2>1, <2>2, <2>3, LocksDiffer DEF SessionInv, HoldsLocks
    <3>2. StructureLock(target'[s]) \in held'[s]
      BY <2>2, <2>3, <2>5 DEF SessionInv, HoldsLocks, AfterStructure
    <3>3. pc'[s] = "bills" => \A j \in cmd[s].students : StudentLock(j) \in held'[s]
      BY <2>3, <2>5 DEF Waiting
    <3>4. QED
      BY <2>5, <3>1, <3>2, <3>3 DEF HoldsLocks, StudentLock, StructureLock
  <2>8. CopiesFit(s)'
    <3>1. HeadsOf(target[s])' = HeadsOf(target[s])
      BY <2>5 DEF HeadsOf
    <3>2. QED
      BY <2>2, <2>5, <3>1 DEF SessionInv, CopiesFit, AfterStructure
  <2>9. phase \in Phases \ {"idle"}
    BY DEF Phases
  <2>10. QED
    BY <2>1, <2>2, <2>3, <2>4, <2>6, <2>7, <2>8, <2>9, MoveKeeps DEF SessionInv, TypeOK
<1>3. QED
  BY <1>1, <1>2

\* A new structure takes ids of heads and a structure nobody can have loaded.
LEMMA InsertStructureKeeps ==
    ASSUME IInv, NEW s \in Sessions, InsertStructure(s)
    PROVE  IInv'
<1>1. CASE Refuse(s)
  BY <1>1, RefuseKeeps
<1>2. CASE ~Refuse(s)
  <2> DEFINE c == cmd[s]
             x == c.structure
             new(h) == [structure |-> x, terms |-> c.heads[h]]
  <2>1. /\ pc[s] = "insert" /\ End(s) /\ UNCHANGED <<bill, enrolled>>
        /\ ActiveIn(Cohort[x]) = {} /\ structure[x] = "none"
        /\ \A h \in DOMAIN c.heads : head[h] = NoRow
        /\ structure' = [structure EXCEPT ![x] = "active"]
        /\ head' = [h \in Heads |-> IF h \in DOMAIN c.heads THEN new(h) ELSE head[h]]
    BY <1>2 DEF InsertStructure
  <2>2. TypeOK /\ HeadsStand /\ BillsKeepTerms /\ BillsApart /\ ActiveApart
    BY DEF IInv
  <2>3. c \in Commands /\ c.op = "create"
    BY <2>1 DEF IInv, SessionInv, PhaseFits
  <2>4. /\ x \in Structures /\ DOMAIN c.heads \subseteq Heads
        /\ \A h \in DOMAIN c.heads : c.heads[h] \in HeadTerms
        /\ \A h, k \in DOMAIN c.heads : c.heads[h].name = c.heads[k].name => h = k
    BY <2>3, CommandFields
  <2>5. \A h \in DOMAIN c.heads : new(h) \in HeadRow /\ new(h) # NoRow
    BY <2>4, NoRowAssumption DEF HeadRow
  <2>6. TablesTyped'
    BY <2>1, <2>2, <2>4, <2>5 DEF TypeOK, TablesTyped
  <2>7. \A h \in Heads : head[h] # NoRow => head'[h] = head[h] /\ head[h].structure # x
    BY <2>1, <2>2 DEF HeadsStand
  <2>8. HeadsStand'
    <3> SUFFICES ASSUME NEW h \in Heads, head'[h] # NoRow
                 PROVE  /\ structure'[head'[h].structure] # "none"
                        /\ \A k \in Heads :
                             /\ head'[k] # NoRow
                             /\ head'[k].structure = head'[h].structure
                             /\ head'[k].terms.name = head'[h].terms.name
                             => k = h
      BY DEF HeadsStand, HeadsOf
    <3>1. CASE h \in DOMAIN c.heads
      <4>1. head'[h] = new(h)
        BY <2>1, <3>1
      <4>2. structure'[x] = "active"
        BY <2>1, <2>2, <2>4 DEF TypeOK
      <4>3. ASSUME NEW k \in Heads, head'[k] # NoRow, head'[k].structure = x,
                   head'[k].terms.name = c.heads[h].name
            PROVE  k = h
        <5>1. k \in DOMAIN c.heads
          BY <2>1, <2>7, <4>3
        <5>2. head'[k] = new(k)
          BY <2>1, <5>1
        <5>3. QED
          BY <2>4, <3>1, <4>3, <5>1, <5>2
      <4>4. QED
        BY <4>1, <4>2, <4>3
    <3>2. CASE h \notin DOMAIN c.heads
      <4>1. head'[h] = head[h] /\ head[h] # NoRow /\ head[h].structure # x
        BY <2>1, <2>7, <3>2
      <4>2. head[h].structure \in Structures
        BY <2>2, <4>1 DEF TypeOK, HeadRow
      <4>3. structure'[head[h].structure] # "none"
        BY <2>1, <2>2, <4>1, <4>2 DEF TypeOK, HeadsStand
      <4>4. ASSUME NEW k \in Heads, head'[k] # NoRow,
                   head'[k].structure = head[h].structure,
                   head'[k].terms.name = head[h].terms.name
            PROVE  k = h
        <5>1. k \notin DOMAIN c.heads
          BY <2>1, <4>1, <4>4
        <5>2. head'[k] = head[k]
          BY <2>1, <5>1
        <5>3. QED
          BY <2>2, <4>1, <4>4, <5>2 DEF HeadsStand, HeadsOf
      <4>5. QED
        BY <4>1, <4>3, <4>4
    <3>3. QED
      BY <3>1, <3>2
  <2>9. BillsKeepTerms' /\ BillsApart'
    <3>1. \A b \in bill : b.head \in Heads
      BY <2>2 DEF TypeOK, BillRow
    <3>2. BillsKeepTerms'
      BY <2>1, <2>2, <2>7, <3>1 DEF BillsKeepTerms
    <3>3. BillsApart'
      BY <2>1, <2>2 DEF BillsApart, SameKey
    <3>4. QED
      BY <3>2, <3>3
  <2>10. ActiveApart'
    BY <2>1, <2>2, <2>4 DEF ActiveApart, ActiveIn, TypeOK
  <2>11. ASSUME NEW t \in Sessions \ {s}, pc[t] \in AfterStructure
         PROVE  StructureKept(target[t])
    <3>1. target[t] \in Structures /\ structure[target[t]] # "none"
      BY <2>11 DEF IInv, SessionInv, PhaseFits, CopiesFit
    <3>2. target[t] # x
      BY <2>1, <3>1
    <3>3. structure'[target[t]] = structure[target[t]]
      BY <2>1, <2>2, <3>1, <3>2 DEF TypeOK
    <3>4. QED
      BY <2>1, <2>7, <3>2, <3>3 DEF StructureKept, HeadsOf
  <2>12. TablesStand'
    BY <2>8, <2>9, <2>10 DEF TablesStand
  <2>13. QED
    BY <2>1, <2>6, <2>11, <2>12, CommitKeeps
<1>3. QED
  BY <1>1, <1>2

\* What another session has locked is another structure.
LEMMA TargetsDiffer ==
    ASSUME IInv, NEW s \in Sessions, NEW t \in Sessions \ {s},
           pc[s] \in AfterStructure, pc[t] \in AfterStructure
    PROVE  target[t] # target[s]
  BY DEF IInv, LocksApart, SessionInv, HoldsLocks

LEMMA WriteStatusKeeps ==
    ASSUME IInv, NEW s \in Sessions, WriteStatus(s)
    PROVE  IInv'
<1>1. CASE Refuse(s)
  BY <1>1, RefuseKeeps
<1>2. CASE ~Refuse(s)
  <2> DEFINE x == target[s]
             new == IF cmd[s].op = "archive" THEN "archived" ELSE "active"
  <2>1. /\ pc[s] = "write" /\ cmd[s].op \in {"archive", "restore"}
        /\ End(s) /\ UNCHANGED <<head, bill, enrolled>>
        /\ structure' = [structure EXCEPT ![x] = new]
        /\ cmd[s].op = "restore" => ActiveIn(Cohort[x]) \ {x} = {}
    BY <1>2 DEF WriteStatus
  <2>2. TypeOK /\ HeadsStand /\ BillsKeepTerms /\ BillsApart /\ ActiveApart
    BY DEF IInv
  <2>3. pc[s] \in AfterStructure /\ x \in Structures
    BY <2>1 DEF IInv, SessionInv, PhaseFits, AfterStructure
  <2>4. structure'[x] = new /\ \A y \in Structures \ {x} : structure'[y] = structure[y]
    BY <2>1, <2>2, <2>3 DEF TypeOK
  <2>5. TablesTyped'
    BY <2>1, <2>2 DEF TypeOK, TablesTyped
  <2>6. \A h \in Heads : head[h] # NoRow => head[h].structure \in Structures
    BY <2>2 DEF TypeOK, HeadRow
  <2>7. HeadsStand'
    BY <2>1, <2>2, <2>4, <2>6 DEF HeadsStand, HeadsOf
  <2>8. BillsKeepTerms' /\ BillsApart'
    BY <2>1, <2>2 DEF BillsKeepTerms, BillsApart, SameKey
  <2>9. ActiveApart'
    BY <2>1, <2>2, <2>4 DEF ActiveApart, ActiveIn
  <2>10. ASSUME NEW t \in Sessions \ {s}, pc[t] \in AfterStructure
         PROVE  StructureKept(target[t])
    <3>1. target[t] \in Structures /\ target[t] # x
      BY <2>3, <2>10, TargetsDiffer DEF IInv, SessionInv, PhaseFits
    <3>2. QED
      BY <2>1, <2>4, <3>1 DEF StructureKept, HeadsOf
  <2>11. TablesStand'
    BY <2>7, <2>8, <2>9 DEF TablesStand
  <2>12. QED
    BY <2>1, <2>5, <2>10, <2>11, CommitKeeps
<1>3. QED
  BY <1>1, <1>2

\* A head that is written has no bill, because its structure is locked.
LEMMA WriteHeadKeeps ==
    ASSUME IInv, NEW s \in Sessions, WriteHead(s)
    PROVE  IInv'
<1>1. CASE Refuse(s)
  BY <1>1, RefuseKeeps
<1>2. CASE ~Refuse(s)
  <2> DEFINE c == cmd[s]
             x == target[s]
             new == IF c.op = "remove" THEN NoRow
                    ELSE [structure |-> x, terms |-> c.terms]
  <2>1. /\ pc[s] = "write" /\ c.op \in {"add", "change", "remove"}
        /\ End(s) /\ UNCHANGED <<structure, bill, enrolled>>
        /\ head' = [head EXCEPT ![c.head] = new]
        /\ c.op = "add" => head[c.head] = NoRow
        /\ c.op # "remove" =>
             \A h \in HeadsOf(x) \ {c.head} : head[h].terms.name # c.terms.name
    BY <1>2 DEF WriteHead
  <2>2. TypeOK /\ HeadsStand /\ BillsKeepTerms /\ BillsApart /\ ActiveApart /\ SessionInv(s)
    BY DEF IInv
  <2>3. pc[s] \in AfterStructure /\ x \in Structures /\ c \in Commands
    BY <2>1, <2>2 DEF SessionInv, PhaseFits, AfterStructure
  <2>4. c.head \in Heads /\ (c.op # "remove" => c.terms \in HeadTerms)
    BY <2>1, <2>3, CommandFields
  <2>5. new \in HeadRow \cup {NoRow} /\ (c.op # "remove" => new \in HeadRow)
    BY <2>3, <2>4 DEF HeadRow
  <2>6. head'[c.head] = new /\ \A h \in Heads \ {c.head} : head'[h] = head[h]
    BY <2>1, <2>2, <2>4 DEF TypeOK
  <2>7. TablesTyped'
    BY <2>1, <2>2, <2>5 DEF TypeOK, TablesTyped
  <2>8. structure[x] # "none" /\ (c.op # "add" => c.head \in HeadsOf(x))
    BY <2>1, <2>2, <2>3 DEF SessionInv, CopiesFit
  <2>9. \A b \in bill : b.head # c.head
    <3>1. CASE c.op = "add"
      BY <2>1, <2>2, <3>1 DEF BillsKeepTerms
    <3>2. CASE c.op # "add"
      BY <2>1, <2>2, <3>2 DEF SessionInv, HeadUnbilled
    <3>3. QED
      BY <3>1, <3>2
  <2>10. HeadsStand'
    <3> SUFFICES ASSUME NEW h \in Heads, head'[h] # NoRow
                 PROVE  /\ structure[head'[h].structure] # "none"
                        /\ \A k \in Heads :
                             /\ head'[k] # NoRow
                             /\ head'[k].structure = head'[h].structure
                             /\ head'[k].terms.name = head'[h].terms.name
                             => k = h
      BY <2>1 DEF HeadsStand, HeadsOf
    <3>1. CASE h = c.head
      <4>1. c.op # "remove" /\ head'[h] = [structure |-> x, terms |-> c.terms]
        BY <2>6, <3>1
      <4>2. QED
        BY <2>1, <2>6, <2>8, <3>1, <4>1 DEF HeadsOf
    <3>2. CASE h # c.head
      <4>1. head'[h] = head[h]
        BY <2>6, <3>2
      <4>2. structure[head'[h].structure] # "none"
        BY <2>2, <4>1 DEF HeadsStand
      <4>3. ASSUME NEW k \in Heads, head'[k] # NoRow, k # h,
                   head'[k].structure = head'[h].structure,
                   head'[k].terms.name = head'[h].terms.name
            PROVE  FALSE
        <5>1. CASE k = c.head
          <6>1. c.op # "remove" /\ head'[k] = [structure |-> x, terms |-> c.terms]
            BY <2>6, <4>3, <5>1
          <6>2. h \in HeadsOf(x) \ {c.head}
            BY <3>2, <4>1, <4>3, <6>1 DEF HeadsOf
          <6>3. QED
            BY <2>1, <4>1, <4>3, <6>1, <6>2
        <5>2. CASE k # c.head
          BY <2>2, <2>6, <4>1, <4>3, <5>2 DEF HeadsStand, HeadsOf
        <5>3. QED
          BY <5>1, <5>2
      <4>4. QED
        BY <4>2, <4>3
    <3>3. QED
      BY <3>1, <3>2
  <2>11. BillsKeepTerms' /\ BillsApart' /\ ActiveApart'
    <3>1. \A b \in bill : b.head \in Heads
      BY <2>2 DEF TypeOK, BillRow
    <3>2. BillsKeepTerms'
      BY <2>1, <2>2, <2>6, <2>9, <3>1 DEF BillsKeepTerms
    <3>3. BillsApart' /\ ActiveApart'
      BY <2>1, <2>2 DEF BillsApart, SameKey, ActiveApart
    <3>4. QED
      BY <3>2, <3>3
  <2>12. ASSUME NEW t \in Sessions \ {s}, pc[t] \in AfterStructure
         PROVE  StructureKept(target[t])
    <3>1. target[t] # x
      BY <2>3, <2>12, TargetsDiffer
    <3>2. head[c.head] = NoRow \/ head[c.head].structure = x
      BY <2>1, <2>8 DEF HeadsOf
    <3>3. new = NoRow \/ new.structure = x
      OBVIOUS
    <3>4. QED
      BY <2>1, <2>6, <3>1, <3>2, <3>3 DEF StructureKept, HeadsOf
  <2>13. TablesStand'
    BY <2>10, <2>11 DEF TablesStand
  <2>14. QED
    BY <2>1, <2>7, <2>12, <2>13, CommitKeeps
<1>3. QED
  BY <1>1, <1>2

\* What a generation has loaded is still what the rows say.
LEMMA LoadedStands ==
    ASSUME IInv, NEW s \in Sessions, pc[s] = "bills"
    PROVE  /\ target[s] \in Structures
           /\ structure[target[s]] = "active"
           /\ Viewed(s) = HeadsOf(target[s])
           /\ \A h \in Viewed(s) : headView[s][h] = head[h]
           /\ cmd[s] \in Commands /\ cmd[s].op = "generate"
           /\ cmd[s].students \subseteq enrolled
<1>1. /\ SessionInv(s) /\ TypeOK /\ pc[s] \in AfterStructure
      /\ cmd[s] \in Commands /\ cmd[s].op = "generate" /\ target[s] \in Structures
  BY DEF IInv, SessionInv, PhaseFits, AfterStructure
<1>2. /\ structure[target[s]] = "active"
      /\ headView[s] = [h \in Heads |-> IF h \in HeadsOf(target[s]) THEN head[h]
                                        ELSE NoRow]
  BY <1>1 DEF SessionInv, CopiesFit
<1>3. /\ Viewed(s) = HeadsOf(target[s])
      /\ \A h \in Viewed(s) : headView[s][h] = head[h]
  BY <1>2 DEF Viewed, HeadsOf
<1>4. cmd[s].students \subseteq Students
  BY <1>1, CommandFields
<1>5. cmd[s].students \subseteq enrolled
  BY <1>1, <1>4 DEF SessionInv, HoldsLocks
<1>6. QED
  BY <1>1, <1>2, <1>3, <1>5

\* A bill that a generation adds.
LEMMA NewBillStands ==
    ASSUME IInv, NEW s \in Sessions, pc[s] = "bills", NEW b \in NewBills(s)
    PROVE  /\ b \in BillRow
           /\ b.head \in HeadsOf(target[s])
           /\ head[b.head].terms.name = b.name
           /\ head[b.head].terms.amount = b.amount
           /\ b.student \in enrolled
<1>1. /\ b.head \in HeadsOf(target[s]) /\ headView[s][b.head] = head[b.head]
      /\ b.student \in enrolled
      /\ b.name = head[b.head].terms.name /\ b.amount = head[b.head].terms.amount
      /\ b.period \in PeriodsOf(head[b.head].terms.frequency, cmd[s].months)
  BY LoadedStands, NewBillFields
<1>2. b.head \in Heads /\ head[b.head] # NoRow /\ head[b.head] \in HeadRow
  BY <1>1 DEF HeadsOf, IInv, TypeOK
<1>3. b.name \in Names /\ b.amount \in Nat \ {0}
  BY <1>1, <1>2 DEF HeadRow, HeadTerms
<1>4. b.student \in Students /\ cmd[s].months \in SUBSET (1 .. 12)
  BY <1>1, LoadedStands, CommandFields DEF IInv, TypeOK
<1>5. b.period \in Periods
  BY <1>1, <1>4, PeriodsTyped
<1>6. b \in BillRow
  BY <1>2, <1>3, <1>4, <1>5, NewBillFields DEF BillRow
<1>7. QED
  BY <1>1, <1>6

LEMMA InsertBillsKeeps ==
    ASSUME IInv, NEW s \in Sessions, InsertBills(s)
    PROVE  IInv'
<1>1. CASE Refuse(s)
  BY <1>1, RefuseKeeps
<1>2. CASE ~Refuse(s)
  <2>1. /\ pc[s] = "bills" /\ End(s) /\ UNCHANGED <<structure, head, enrolled>>
        /\ bill' = bill \cup {b \in NewBills(s) : \A old \in bill : ~SameKey(b, old)}
    BY <1>2 DEF InsertBills
  <2>2. TypeOK /\ HeadsStand /\ BillsKeepTerms /\ BillsApart /\ ActiveApart
    BY DEF IInv
  <2>3. TablesTyped'
    BY <2>1, <2>2, NewBillStands DEF TypeOK, TablesTyped
  <2>4. HeadsStand' /\ ActiveApart'
    BY <2>1, <2>2 DEF HeadsStand, HeadsOf, ActiveApart
  <2>5. BillsKeepTerms'
    BY <2>1, <2>2, NewBillStands DEF BillsKeepTerms, HeadsOf
  <2>6. BillsApart'
    <3> SUFFICES ASSUME NEW b1 \in bill', NEW b2 \in bill', SameKey(b1, b2)
                 PROVE  b1 = b2
      BY DEF BillsApart, SameKey
    <3>1. CASE b1 \in bill /\ b2 \in bill
      BY <2>2, <3>1 DEF BillsApart
    <3>2. CASE b1 \in NewBills(s) /\ b2 \in NewBills(s)
      <4>1. /\ b1.student = b2.student /\ b1.head = b2.head /\ b1.period = b2.period
            /\ b1.name = b2.name /\ b1.amount = b2.amount
        BY <2>1, <3>2, NewBillFields DEF SameKey
      <4>2. QED
        BY <3>2, <4>1, NewBillFields
    <3>3. CASE b1 \in bill /\ b2 \in NewBills(s) \ bill
      BY <2>1, <3>3 DEF SameKey
    <3>4. CASE b2 \in bill /\ b1 \in NewBills(s) \ bill
      BY <2>1, <3>4 DEF SameKey
    <3>5. QED
      BY <2>1, <3>1, <3>2, <3>3, <3>4
  <2>7. ASSUME NEW t \in Sessions \ {s}, pc[t] \in AfterStructure
        PROVE  /\ StructureKept(target[t])
               /\ \A b \in bill' \ bill : b.head \notin HeadsOf(target[t])
    <3>1. target[t] # target[s]
      BY <2>1, <2>7, TargetsDiffer DEF AfterStructure
    <3>2. \A b \in bill' \ bill : b.head \in HeadsOf(target[s])
      BY <2>1, NewBillStands
    <3>3. QED
      BY <2>1, <3>1, <3>2 DEF StructureKept, HeadsOf
  <2>8. TablesStand'
    BY <2>4, <2>5, <2>6 DEF TablesStand
  <2>9. QED
    BY <2>1, <2>3, <2>7, <2>8, CommitKeeps
<1>3. QED
  BY <1>1, <1>2

\* A student whose row a generation holds does not leave.
LEMMA ChangeStatusKeeps ==
    ASSUME IInv, NEW i \in Students, ChangeStatus(i)
    PROVE  IInv'
<1>1. /\ UNCHANGED tables /\ UNCHANGED <<pc, cmd, held, target, headView>>
      /\ \A t \in Sessions : StudentLock(i) \notin held[t]
      /\ enrolled' \subseteq Students /\ \A j \in Students \ {i} : j \in enrolled => j \in enrolled'
  BY DEF ChangeStatus, sessions, IInv, TypeOK
<1>2. TypeOK'
  BY <1>1, TablesKeep DEF IInv, TypeOK, TablesTyped
<1>3. LocksApart'
  BY <1>1 DEF IInv, LocksApart
<1>4. ASSUME NEW t \in Sessions
      PROVE  SessionInv(t)'
  <2>1. SessionInv(t) /\ StructureKept(target[t]) /\ bill' = bill
    BY <1>1, TablesKept DEF IInv, tables
  <2>2. \A j \in Students : StudentLock(j) \in held[t] /\ j \in enrolled => j \in enrolled'
    BY <1>1
  <2>3. QED
    BY <1>1, <2>1, <2>2, OthersKeep
<1>5. QED
  BY <1>1, <1>2, <1>3, <1>4, TablesKeep DEF IInv, TablesStand

-----------------------------------------------------------------------------

\* The invariant holds at the start ...
LEMMA InitIInv == Init => IInv
<1> SUFFICES ASSUME Init PROVE IInv
  OBVIOUS
<1>1. TypeOK
  BY DEF Init, TypeOK, NoHeadView, Phases
<1>2. LocksApart /\ HeadsStand /\ BillsKeepTerms /\ BillsApart /\ ActiveApart
  BY DEF Init, LocksApart, HeadsStand, BillsKeepTerms, BillsApart, ActiveApart, NoHeadView
<1>3. ASSUME NEW s \in Sessions
      PROVE  SessionInv(s)
  BY DEF Init, SessionInv, PhaseFits, HoldsLocks, CopiesFit, HeadUnbilled, AfterStructure
<1>4. QED
  BY <1>1, <1>2, <1>3 DEF IInv

\* ... and every step keeps it.
LEMMA StepKeeps ==
    ASSUME IInv, [Next]_vars
    PROVE  IInv'
<1>1. ASSUME NEW s \in Sessions, Submit(s) \/ Work(s) \/ Wait(s) \/ Abort(s)
      PROVE  IInv'
  BY <1>1, SubmitKeeps, CheckNoneActiveKeeps, CheckNoneBilledKeeps,
     InsertStructureKeeps, FindActiveKeeps, CheckOthersArchivedKeeps,
     WriteStatusKeeps, CheckUnbilledKeeps, WriteHeadKeeps, InsertBillsKeeps,
     LockStructureKeeps, LockStudentKeeps, RefuseKeeps
     DEF Work, Wait, Abort
<1>2. ASSUME NEW i \in Students, ChangeStatus(i)
      PROVE  IInv'
  BY <1>2, ChangeStatusKeeps
<1>3. CASE UNCHANGED vars
  <2>1. UNCHANGED tables /\ UNCHANGED <<enrolled, pc, cmd, held, target, headView>>
    BY <1>3 DEF vars, sessions
  <2>2. \A t \in Sessions : SessionInv(t) /\ StructureKept(target[t])
    BY <2>1, TablesKept DEF IInv
  <2>3. \A t \in Sessions : SessionInv(t)'
    BY <2>1, <2>2, OthersKeep DEF tables
  <2>4. QED
    BY <2>1, <2>3, TablesKeep DEF IInv, TablesStand, TypeOK, TablesTyped, LocksApart
<1>4. QED
  BY <1>1, <1>2, <1>3 DEF Next

\* IInv holds in every state a run can reach.
THEOREM Invariance == Spec => []IInv
<1>1. Init => IInv
  BY InitIInv
<1>2. IInv /\ [Next]_vars => IInv'
  BY StepKeeps
<1>3. QED
  BY <1>1, <1>2, PTL DEF Spec

\* Every variable keeps its type.
THEOREM TypeCorrect == Spec => []TypeOK
<1>1. IInv => TypeOK
  BY DEF IInv
<1>2. QED
  BY <1>1, Invariance, PTL

\* A bill's head still exists and still has the name and the amount the bill
\* was made out with: change_fee_head and its deletion look for bills under
\* the lock that generation holds too.
THEOREM TermsKept == Spec => []BillsKeepTerms
<1>1. IInv => BillsKeepTerms
  BY DEF IInv
<1>2. QED
  BY <1>1, Invariance, PTL

\* One active structure of a cohort and, within a structure, one bill of a
\* student for a fee and period.
THEOREM ChargedOnce == Spec => []NothingChargedTwice
<1>1. ASSUME IInv PROVE NothingChargedTwice
  <2>1. ChargedOncePerStructure
    <3> SUFFICES ASSUME NEW b1 \in bill, NEW b2 \in bill,
                   b1.student = b2.student, b1.name = b2.name, b1.period = b2.period,
                   head[b1.head] # NoRow, head[b2.head] # NoRow,
                   head[b1.head].structure = head[b2.head].structure
                 PROVE  b1 = b2
      BY DEF ChargedOncePerStructure
    <3>1. b1.head \in Heads /\ b2.head \in Heads
      BY <1>1 DEF IInv, TypeOK, BillRow
    <3>2. head[b1.head].terms.name = head[b2.head].terms.name
      BY <1>1 DEF IInv, BillsKeepTerms
    <3>3. b1.head = b2.head
      BY <1>1, <3>1, <3>2 DEF IInv, HeadsStand, HeadsOf
    <3>4. QED
      BY <1>1, <3>3 DEF IInv, BillsApart, SameKey
  <2>2. OneActiveStructure
    <3> SUFFICES ASSUME NEW k \in Cohorts
                 PROVE  Cardinality(ActiveIn(k)) <= 1
      BY DEF OneActiveStructure
    <3>1. CASE ActiveIn(k) = {}
      BY <3>1, FS_EmptySet
    <3>2. CASE ActiveIn(k) # {}
      <4>1. PICK x : x \in ActiveIn(k)
        BY <3>2
      <4>2. ActiveIn(k) = {x}
        BY <1>1, <4>1 DEF ActiveIn, IInv, ActiveApart
      <4>3. QED
        BY <4>2, FS_Singleton
    <3>3. QED
      BY <3>1, <3>2
  <2>3. QED
    BY <2>1, <2>2 DEF NothingChargedTwice
<1>2. QED
  BY <1>1, Invariance, PTL

\* A new bill comes from a structure that is active and goes to a student who
\* is enrolled at the moment it is written, because generation holds both rows.
THEOREM BilledWhileActive == Spec => ChargedWhileActive
<1> DEFINE Stands == \A b \in bill' \ bill :
                       /\ b.student \in enrolled
                       /\ structure[head[b.head].structure] = "active"
<1>1. ASSUME IInv, Next PROVE Stands
  <2>1. CASE bill' \subseteq bill
    BY <2>1
  <2>2. ASSUME NEW s \in Sessions, InsertBills(s), ~(bill' \subseteq bill)
        PROVE  Stands
    <3>1. pc[s] = "bills" /\ \A b \in bill' \ bill : b \in NewBills(s)
      BY <2>2 DEF InsertBills, Refuse, tables
    <3>2. \A b \in bill' \ bill : b.student \in enrolled /\ b.head \in HeadsOf(target[s])
      BY <1>1, <3>1, NewBillStands
    <3>3. structure[target[s]] = "active"
      BY <1>1, <3>1, LoadedStands
    <3>4. QED
      BY <3>2, <3>3 DEF HeadsOf
  <2>3. \/ bill' \subseteq bill
        \/ \E s \in Sessions : InsertBills(s)
    BY <1>1 DEF Next, Submit, Work, Wait, Abort, ChangeStatus, CheckNoneActive,
       CheckNoneBilled, InsertStructure, FindActive, CheckOthersArchived, WriteStatus,
       CheckUnbilled, WriteHead, LockStructure, LockStudent, Refuse, Proceed, tables
  <2>4. QED
    BY <2>1, <2>2, <2>3
<1>2. ASSUME UNCHANGED vars PROVE UNCHANGED <<structure, head, bill, enrolled>>
  BY <1>2 DEF vars, tables
<1>3. ASSUME IInv, [Next]_vars PROVE [Stands]_vars
  BY <1>1, <1>3
<1>4. QED
  BY <1>3, Invariance, PTL DEF Spec, ChargedWhileActive

-----------------------------------------------------------------------------
(* No circle of calls waits for each other: nothing is locked before the     *)
(* structure, and of the generations that wait for a student, the one that   *)
(* waits for the greatest id waits for nobody.                               *)

LEMMA EndInOrder ==
    ASSUME TypeOK, LocksInOrder, NEW s \in Sessions, End(s)
    PROVE  LocksInOrder'
<1>1. ASSUME NEW t \in Sessions
      PROVE  HeldInOrder(t)'
  <2>1. CASE t = s
    BY <2>1 DEF HeldInOrder, AfterStructure, TypeOK, End, GoTo
  <2>2. CASE t # s
    BY <2>2 DEF LocksInOrder, HeldInOrder, Waiting, TypeOK, End, GoTo
  <2>3. QED
    BY <2>1, <2>2
<1>2. QED
  BY <1>1 DEF LocksInOrder

\* A step of session s to another phase that takes no lock.
LEMMA ProceedsInOrder ==
    ASSUME TypeOK, LocksInOrder, NEW s \in Sessions, NEW phase,
           GoTo(s, phase), UNCHANGED held, phase # "students",
           pc[s] \in AfterStructure => pc[s] # "students" /\ phase \in AfterStructure,
           pc[s] = "bills" => phase = "bills",
           \A t \in Sessions \ {s} : cmd'[t] = cmd[t]
    PROVE  LocksInOrder'
<1>1. ASSUME NEW t \in Sessions
      PROVE  HeldInOrder(t)'
  <2>1. CASE t = s
    <3>1. held'[s] = held[s] /\ pc'[s] = phase
      BY DEF TypeOK, GoTo
    <3>2. QED
      BY <2>1, <3>1 DEF LocksInOrder, HeldInOrder, AfterStructure
  <2>2. CASE t # s
    <3>1. held'[t] = held[t] /\ pc'[t] = pc[t] /\ cmd'[t] = cmd[t]
      BY <2>2 DEF TypeOK, GoTo
    <3>2. QED
      BY <3>1 DEF LocksInOrder, HeldInOrder, Waiting
  <2>3. QED
    BY <2>1, <2>2
<1>2. QED
  BY <1>1 DEF LocksInOrder

LEMMA LockStructureInOrder ==
    ASSUME IInv, LocksInOrder, NEW s \in Sessions, LockStructure(s)
    PROVE  LocksInOrder'
<1>1. TypeOK /\ PhaseFits(s) /\ HeldInOrder(s) /\ pc[s] = "structure"
  BY DEF IInv, SessionInv, LocksInOrder, LockStructure
<1>2. CASE Refuse(s)
  BY <1>1, <1>2, EndInOrder DEF Refuse
<1>3. CASE ~Refuse(s)
  <2>1. /\ held' = [held EXCEPT ![s] = @ \cup {StructureLock(target[s])}]
        /\ GoTo(s, NextPhase(cmd[s]))
        /\ UNCHANGED cmd
    BY <1>3 DEF LockStructure
  <2>2. held[s] = {} /\ held'[s] = {StructureLock(target[s])}
    BY <1>1, <2>1 DEF HeldInOrder, AfterStructure, TypeOK
  <2>3. \A i \in Students : StudentLock(i) \notin held'[s]
    BY <2>2, LocksDiffer
  <2>4. NextPhase(cmd[s]) \in AfterStructure
    BY DEF NextPhase, AfterStructure
  <2>5. ASSUME NEW t \in Sessions
        PROVE  HeldInOrder(t)'
    <3>1. CASE t = s
      <4>1. pc'[s] = NextPhase(cmd[s])
        BY <1>1, <2>1 DEF TypeOK, GoTo
      <4>2. QED
        BY <2>3, <2>4, <3>1, <4>1 DEF HeldInOrder, AfterStructure
    <3>2. CASE t # s
      <4>1. held'[t] = held[t] /\ pc'[t] = pc[t] /\ cmd'[t] = cmd[t]
        BY <1>1, <2>1, <3>2 DEF TypeOK, GoTo
      <4>2. QED
        BY <4>1 DEF LocksInOrder, HeldInOrder, Waiting
    <3>3. QED
      BY <3>1, <3>2
  <2>6. QED
    BY <2>5 DEF LocksInOrder
<1>4. QED
  BY <1>2, <1>3

\* A student is locked next who has the least id of those still to be locked.
LEMMA LockStudentInOrder ==
    ASSUME IInv, LocksInOrder, NEW s \in Sessions, LockStudent(s)
    PROVE  LocksInOrder'
<1>1. TypeOK /\ PhaseFits(s) /\ HeldInOrder(s) /\ pc[s] = "students"
  BY DEF IInv, SessionInv, LocksInOrder, LockStudent
<1>2. CASE Refuse(s)
  BY <1>1, <1>2, EndInOrder DEF Refuse
<1>3. CASE ~Refuse(s)
  <2>1. PICK i \in Students :
          /\ NextStudent(s, i)
          /\ held' = [held EXCEPT ![s] = @ \cup {StudentLock(i)}]
          /\ GoTo(s, IF Waiting(s) = {i} THEN "bills" ELSE "students")
          /\ UNCHANGED cmd
    BY <1>3 DEF LockStudent
  <2>2. PICK phase \in {"bills", "students"} : GoTo(s, phase)
    BY <2>1
  <2>3. /\ held'[s] = held[s] \cup {StudentLock(i)} /\ pc'[s] = phase
        /\ cmd'[s] = cmd[s]
    BY <1>1, <2>1, <2>2 DEF TypeOK, GoTo
  <2>4. cmd[s] \in Commands /\ cmd[s].students \subseteq Students
    BY <1>1, CommandFields DEF PhaseFits
  <2>5. ASSUME NEW j \in Students, NEW k \in Students,
               StudentLock(j) \in held'[s], k \in Waiting(s)'
        PROVE  j < k
    <3>1. k \in Waiting(s) /\ k # i
      BY <2>3, <2>5 DEF Waiting
    <3>2. CASE StudentLock(j) \in held[s]
      BY <1>1, <3>1, <3>2 DEF HeldInOrder
    <3>3. CASE j = i
      <4>1. i <= k
        BY <2>1, <3>1 DEF NextStudent
      <4>2. i \in Nat /\ k \in Nat
        BY StudentsAssumption
      <4>3. QED
        BY <3>1, <3>3, <4>1, <4>2
    <3>4. QED
      BY <2>3, <2>5, <3>2, <3>3, LocksDiffer
  <2>6. ASSUME NEW t \in Sessions
        PROVE  HeldInOrder(t)'
    <3>1. CASE t = s
      BY <2>3, <2>5, <3>1 DEF HeldInOrder, AfterStructure
    <3>2. CASE t # s
      <4>1. held'[t] = held[t] /\ pc'[t] = pc[t] /\ cmd'[t] = cmd[t]
        BY <1>1, <2>1, <2>2, <3>2 DEF TypeOK, GoTo
      <4>2. QED
        BY <4>1 DEF LocksInOrder, HeldInOrder, Waiting
    <3>3. QED
      BY <3>1, <3>2
  <2>7. QED
    BY <2>6 DEF LocksInOrder
<1>4. QED
  BY <1>2, <1>3

LEMMA WorkInOrder ==
    ASSUME IInv, LocksInOrder, NEW s \in Sessions,
           Submit(s) \/ Work(s) \/ Abort(s)
    PROVE  LocksInOrder'
<1> USE DEF AfterStructure
<1>1. TypeOK /\ HeldInOrder(s)
  BY DEF IInv, LocksInOrder
<1>2. CASE End(s)
  BY <1>1, <1>2, EndInOrder
<1>3. CASE Submit(s)
  <2>1. PICK phase \in {"active", "find", "structure"} : GoTo(s, phase)
    BY <1>3 DEF Submit, FirstPhase
  <2>2. /\ pc[s] = "idle" /\ UNCHANGED held
        /\ \A t \in Sessions \ {s} : cmd'[t] = cmd[t]
    BY <1>1, <1>3 DEF Submit, TypeOK
  <2>3. QED
    BY <1>1, <2>1, <2>2, ProceedsInOrder
<1>4. CASE ~End(s) /\ (CheckNoneActive(s) \/ CheckNoneBilled(s))
  <2>1. PICK phase \in {"billed", "insert"} : GoTo(s, phase)
    BY <1>4 DEF CheckNoneActive, CheckNoneBilled, Proceed, Refuse
  <2>2. pc[s] \in {"active", "billed"} /\ UNCHANGED <<held, cmd>>
    BY <1>4 DEF CheckNoneActive, CheckNoneBilled, Proceed, Refuse
  <2>3. QED
    BY <1>1, <2>1, <2>2, ProceedsInOrder
<1>5. CASE ~End(s) /\ FindActive(s)
  <2>1. GoTo(s, "structure") /\ pc[s] = "find" /\ UNCHANGED <<held, cmd>>
    BY <1>5 DEF FindActive, Refuse
  <2>2. QED
    BY <1>1, <2>1, ProceedsInOrder
<1>6. CASE ~End(s) /\ (CheckOthersArchived(s) \/ CheckUnbilled(s))
  <2>1. /\ GoTo(s, "write") /\ pc[s] \in {"others", "unbilled"}
        /\ UNCHANGED <<held, cmd>>
    BY <1>6 DEF CheckOthersArchived, CheckUnbilled, Proceed, Refuse
  <2>2. QED
    BY <1>1, <2>1, ProceedsInOrder
<1>7. CASE InsertStructure(s) \/ WriteStatus(s) \/ WriteHead(s) \/ InsertBills(s)
             \/ Abort(s)
  <2>1. End(s)
    BY <1>7 DEF InsertStructure, WriteStatus, WriteHead, InsertBills, Abort, Refuse
  <2>2. QED
    BY <1>2, <2>1
<1>8. QED
  BY <1>2, <1>3, <1>4, <1>5, <1>6, <1>7 DEF Work

LEMMA StepInOrder == IInv /\ LocksInOrder /\ [Next]_vars => LocksInOrder'
<1> SUFFICES ASSUME IInv, LocksInOrder, [Next]_vars PROVE LocksInOrder'
  OBVIOUS
<1>1. ASSUME NEW s \in Sessions, Submit(s) \/ Work(s) \/ Wait(s) \/ Abort(s)
      PROVE  LocksInOrder'
  BY <1>1, WorkInOrder, LockStructureInOrder, LockStudentInOrder DEF Wait
<1>2. ASSUME NEW i \in Students, ChangeStatus(i)
      PROVE  LocksInOrder'
  BY <1>2 DEF ChangeStatus, sessions, LocksInOrder, HeldInOrder, Waiting
<1>3. CASE UNCHANGED vars
  BY <1>3 DEF vars, sessions, LocksInOrder, HeldInOrder, Waiting
<1>4. QED
  BY <1>1, <1>2, <1>3 DEF Next

\* one more than the student a generation wants to lock, 0 if it wants none
WantedStudent(s) ==
    IF pc[s] = "students" /\ \E i \in Students : NextStudent(s, i)
    THEN (CHOOSE i \in Students : NextStudent(s, i)) + 1 ELSE 0

LEMMA WantedIsNext ==
    ASSUME NEW s \in Sessions
    PROVE  /\ WantedStudent(s) \in Nat
           /\ \A i \in Students : pc[s] = "students" /\ NextStudent(s, i)
                => WantedStudent(s) = i + 1
<1>1. CASE pc[s] = "students" /\ \E i \in Students : NextStudent(s, i)
  <2>1. PICK n : n = CHOOSE i \in Students : NextStudent(s, i)
    OBVIOUS
  <2>2. n \in Students /\ NextStudent(s, n)
    BY <1>1, <2>1
  <2>3. n \in Nat /\ WantedStudent(s) = n + 1
    BY <1>1, <2>1, <2>2, StudentsAssumption DEF WantedStudent
  <2>4. ASSUME NEW i \in Students, NextStudent(s, i)
        PROVE  n = i
    <3>1. i <= n /\ n <= i /\ i \in Nat
      BY <2>2, <2>4, StudentsAssumption DEF NextStudent
    <3>2. QED
      BY <2>3, <3>1
  <2>5. QED
    BY <2>3, <2>4
<1>2. CASE ~(pc[s] = "students" /\ \E i \in Students : NextStudent(s, i))
  BY <1>2 DEF WantedStudent
<1>3. QED
  BY <1>1, <1>2

\* Whoever holds what a generation waits for, and waits itself for a student,
\* waits for a greater one.
LEMMA WaitsForGreater ==
    ASSUME LocksInOrder, NEW s \in Sessions, NEW t \in Sessions, WaitsFor(s, t),
           pc[s] = "students", pc[t] = "students", WantedStudent(t) # 0
    PROVE  WantedStudent(s) < WantedStudent(t)
<1>1. PICK i \in Students : NextStudent(s, i) /\ StudentLock(i) \in held[t]
  BY DEF WaitsFor
<1>2. PICK j \in Students : NextStudent(t, j)
  BY DEF WantedStudent
<1>3. i < j
  BY <1>1, <1>2 DEF LocksInOrder, HeldInOrder, NextStudent
<1>4. WantedStudent(s) = i + 1 /\ WantedStudent(t) = j + 1
  BY <1>1, <1>2, WantedIsNext
<1>5. QED
  BY <1>3, <1>4, StudentsAssumption

\* However many calls of FeeService and however many students their
\* generations share, no circle of calls waits for each other's locks.
THEOREM NeverCircularWait == Spec => []NoCircularWait
<1>1. Init => LocksInOrder
  BY DEF Init, LocksInOrder, HeldInOrder
<1>2. IInv /\ LocksInOrder /\ [Next]_vars => LocksInOrder'
  BY StepInOrder
<1>3. LocksInOrder => NoCircularWait
  <2> SUFFICES ASSUME LocksInOrder, NEW S \in (SUBSET Sessions) \ {{}}, IsFiniteSet(S)
               PROVE  \E s \in S : \A t \in S : ~WaitsFor(s, t)
    BY DEF NoCircularWait
  <2> DEFINE wanted == [s \in S |-> WantedStudent(s)]
  <2>1. \A s \in S : wanted[s] \in Nat
    BY WantedIsNext
  <2>2. PICK s \in S : \A t \in S : wanted[t] <= wanted[s]
    <3> HIDE DEF wanted
    <3>1. QED
      BY <2>1, GreatestValue
  <2>3. CASE \E t \in S : pc[t] \notin {"structure", "students"}
    BY <2>3 DEF WaitsFor
  <2>4. CASE \E t \in S : pc[t] = "students" /\ WantedStudent(t) = 0
    <3>1. PICK t \in S : pc[t] = "students" /\ WantedStudent(t) = 0
      BY <2>4
    <3>2. ASSUME NEW i \in Students, NextStudent(t, i)
          PROVE  FALSE
      BY <3>1, <3>2, WantedIsNext, StudentsAssumption
    <3>3. QED
      BY <3>1, <3>2 DEF WaitsFor
  <2>5. CASE /\ \A t \in S : pc[t] \in {"structure", "students"}
             /\ \A t \in S : pc[t] = "students" => WantedStudent(t) # 0
    <3>1. ASSUME NEW t \in S, WaitsFor(s, t)
          PROVE  FALSE
      <4>1. pc[t] = "students"
        <5>1. held[t] # {}
          BY <3>1 DEF WaitsFor
        <5>2. QED
          BY <2>5, <5>1 DEF LocksInOrder, HeldInOrder, AfterStructure
      <4>2. WantedStudent(t) \in Nat \ {0} /\ WantedStudent(t) <= WantedStudent(s)
        BY <2>2, <2>5, <4>1, WantedIsNext
      <4>3. pc[s] = "students"
        BY <4>2, WantedIsNext DEF WantedStudent
      <4>4. WantedStudent(s) < WantedStudent(t)
        BY <2>5, <3>1, <4>1, <4>3, WaitsForGreater
      <4>5. QED
        BY <4>2, <4>4, WantedIsNext
    <3>2. QED
      BY <3>1
  <2>6. QED
    BY <2>3, <2>4, <2>5
<1>4. QED
  BY <1>1, <1>2, <1>3, Invariance, PTL DEF Spec

=============================================================================
