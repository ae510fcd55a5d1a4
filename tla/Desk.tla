--------------------------------- MODULE Desk ---------------------------------
(***************************************************************************)
(* What the calls of the smaller services have in common: one request is   *)
(* one database session and one transaction (get_db), whose statements     *)
(* interleave with those of the other sessions.  The modules of the        *)
(* services extend this one with the tables they keep, and module Office   *)
(* puts them behind one desk.                                              *)
(*                                                                         *)
(* menu is the set of calls clients may make; it is chosen once, so that   *)
(* an instance examines the calls that share tables and not their product  *)
(* with all the others.  seen is what the call of a session has read,      *)
(* written without committing, or is about to answer.                      *)
(***************************************************************************)
CONSTANTS Sessions, Menus, NoCommand, NoView, NoRow

ASSUME DeskAssumption == \A m \in Menus : NoRow \notin m

VARIABLES menu, pc, cmd, seen

desk == <<menu, pc, cmd, seen>>

DeskPhases == {"idle", "start", "write", "list", "commit", "answer"}

DeskTypeOK ==
    /\ menu \in Menus
    /\ pc \in [Sessions -> DeskPhases]
    /\ \A s \in Sessions : IF pc[s] = "idle" THEN cmd[s] = NoCommand /\ seen[s] = NoView
                                             ELSE cmd[s] \in menu

DeskInit == /\ menu \in Menus
            /\ pc = [s \in Sessions |-> "idle"]
            /\ cmd = [s \in Sessions |-> NoCommand]
            /\ seen = [s \in Sessions |-> NoView]

At(s, op, phase) == pc[s] = phase /\ cmd[s].op = op

Receive(s) == /\ pc[s] = "idle"
              /\ \E c \in menu : cmd' = [cmd EXCEPT ![s] = c]
              /\ pc' = [pc EXCEPT ![s] = "start"]
              /\ UNCHANGED <<menu, seen>>

Goto(s, phase, view) == /\ pc' = [pc EXCEPT ![s] = phase]
                        /\ seen' = [seen EXCEPT ![s] = view]
                        /\ UNCHANGED <<menu, cmd>>

Reply(s, answer) == Goto(s, "answer", answer)

Finish(s) == /\ pc' = [pc EXCEPT ![s] = "idle"]
             /\ cmd' = [cmd EXCEPT ![s] = NoCommand]
             /\ seen' = [seen EXCEPT ![s] = NoView]
             /\ UNCHANGED menu

\* A refusal, a lost connection, or PostgreSQL resolving a deadlock: get_db
\* rolls the transaction back, and nothing of it was visible.
RollBack(s) == pc[s] # "idle" /\ Finish(s)

-----------------------------------------------------------------------------
(* What the inductive invariants of the services have in common.           *)

DeskInv == DeskTypeOK /\ DOMAIN cmd = Sessions /\ DOMAIN seen = Sessions
=============================================================================
