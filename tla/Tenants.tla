-------------------------------- MODULE Tenants --------------------------------
(***************************************************************************)
(* TenantService: schools are created on the free plan and switch grades   *)
(* 11 and 12 on and off when their plan has the feature.  No endpoint      *)
(* calls upgrade_plan, so a school of another plan is one the instance     *)
(* starts with.                                                            *)
(***************************************************************************)
EXTENDS Desk

CONSTANTS Schools, OnBoard,    \* OnBoard: the schools there are at the start
          PlanOf, EmisCodeOf   \* their plan, and the code a school registers

Plans == {"free", "basic", "standard", "premium", "enterprise"}
Levels == {"ecd", "primary", "lower_secondary", "secondary", "higher_secondary", "all"}

\* PLAN_FEATURES: the plans with "hs_toggle" or "all"
HsPlans == {"standard", "premium", "enterprise"}

TenantRow == [level: Levels, hs: BOOLEAN, hsAt: BOOLEAN, contact: {"old", "new"}]

ASSUME TenantsAssumption == NoRow \notin TenantRow /\ OnBoard \subseteq Schools

FoundRequest  == [op: {"found"}, school: Schools, level: Levels]
EditSchool    == [op: {"school"}, school: Schools]
ToggleRequest == [op: {"toggle"}, school: Schools, enable: BOOLEAN]
ShowRequest   == [op: {"subscription"}, school: Schools]

VARIABLE tenant

NewTenant(level) == [level |-> level, hs |-> FALSE, hsAt |-> FALSE, contact |-> "old"]

TenantsInit == tenant = [t \in Schools |-> IF t \in OnBoard THEN NewTenant("secondary")
                                                            ELSE NoRow]

TenantsTypeOK == tenant \in [Schools -> TenantRow \cup {NoRow}]

Registered(t) == \E u \in Schools : tenant[u] # NoRow /\ EmisCodeOf[u] = EmisCodeOf[t]

CheckSchool(s) == /\ At(s, "found", "start")
                  /\ IF Registered(cmd[s].school) THEN Finish(s) ELSE Goto(s, "write", NoView)
                  /\ UNCHANGED tenant

\* emis_code is unique
CommitSchool(s) ==
    /\ At(s, "found", "write")
    /\ tenant' = IF Registered(cmd[s].school) THEN tenant
                 ELSE [tenant EXCEPT ![cmd[s].school] = NewTenant(cmd[s].level)]
    /\ Finish(s)

\* the feature is that of the plan read with the row
ReadSchool(s) ==
    /\ \E op \in {"school", "toggle", "subscription"} : At(s, op, "start")
    /\ LET t == cmd[s].school
       IN  IF tenant[t] # NoRow /\ (cmd[s].op = "toggle" => PlanOf[t] \in HsPlans)
           THEN Goto(s, IF cmd[s].op = "subscription" THEN "answer" ELSE "write", tenant[t])
           ELSE Finish(s)
    /\ UNCHANGED tenant

\* mutant: a school that gives up grades 11 and 12 keeps their level
ToggledKeepsLevel(row, enable) ==
    IF enable THEN [row EXCEPT !.hs = TRUE, !.hsAt = TRUE, !.level = "higher_secondary"]
    ELSE [row EXCEPT !.hs = FALSE, !.hsAt = FALSE]

Toggled(row, enable) ==
    IF enable THEN [row EXCEPT !.hs = TRUE, !.hsAt = TRUE, !.level = "higher_secondary"]
    ELSE [row EXCEPT !.hs = FALSE, !.hsAt = FALSE,
                     !.level = IF @ = "higher_secondary" THEN "secondary" ELSE @]

\* the time of the switch is new in every call that enables
CommitSwitch(s) ==
    /\ \E op \in {"school", "toggle"} : At(s, op, "write")
    /\ LET c == cmd[s]
           values == IF c.op = "toggle" THEN Toggled(seen[s], c.enable)
                     ELSE [seen[s] EXCEPT !.contact = "new"]
       IN  tenant' = [tenant EXCEPT ![c.school] =
             [f \in DOMAIN @ |-> IF f = "hsAt" /\ c.op = "toggle" /\ c.enable THEN TRUE
                                 ELSE IF values[f] = seen[s][f] THEN @[f] ELSE values[f]]]
    /\ Finish(s)

AnswerSchool(s) == At(s, "subscription", "answer") /\ Finish(s) /\ UNCHANGED tenant

TenantsNext(s) == \/ CheckSchool(s) \/ CommitSchool(s) \/ ReadSchool(s)
                  \/ CommitSwitch(s) \/ AnswerSchool(s)

-----------------------------------------------------------------------------
\* "Grade 11-12 (Higher Secondary) enabled": a school that started below them
\* has the level of grades 11 and 12 exactly while they are enabled, however
\* calls that enable and disable them overlap.
LevelFollowsSwitch ==
    \A t \in OnBoard : /\ tenant[t].hs <=> tenant[t].level = "higher_secondary"
                       /\ tenant[t].hs => PlanOf[t] \in HsPlans

-----------------------------------------------------------------------------
(* The inductive invariant.                                                *)

TenantsSession(s) ==
    At(s, "school", "write") \/ At(s, "toggle", "write") =>
        /\ tenant[cmd[s].school] # NoRow /\ seen[s] \in TenantRow
        /\ cmd[s].op = "toggle" => PlanOf[cmd[s].school] \in HsPlans
        /\ cmd[s].school \in OnBoard => (seen[s].hs <=> seen[s].level = "higher_secondary")

TenantsInv ==
    /\ TenantsTypeOK /\ (\A t \in OnBoard : tenant[t] # NoRow) /\ LevelFollowsSwitch
    /\ \A s \in Sessions : TenantsSession(s)
=============================================================================
