---------------------------- MODULE LibraryCustody ----------------------------
(***************************************************************************)
(* What the library promises about its physical copies: each is always in  *)
(* exactly one custody, leaves the shelf only through a new loan, and      *)
(* comes back from a loan, lost or not, only through that loan.  There are *)
(* no sessions, locks, titles or borrowers here; Library implements it.    *)
(***************************************************************************)
CONSTANTS Accessions, Requests

Unheld == {<<"absent">>, <<"shelf">>, <<"aside">>}   \* aside: damaged, missing, withdrawn

Custodies == Unheld \cup ({"out", "lost"} \X Requests)

VARIABLE custody   \* Accessions -> Custodies

TypeOK == custody \in [Accessions -> Custodies]

Init == custody \in [Accessions -> {<<"absent">>, <<"shelf">>}]

\* A loan is made once: it holds one copy, and none before.
Lend(c, r) ==
    /\ custody[c] = <<"shelf">>
    /\ custody' = [custody EXCEPT ![c] = <<"out", r>>]
    /\ \A other \in Accessions : custody[other] \notin {<<"out", r>>, <<"lost", r>>}

Lose(c, r) ==
    /\ custody[c] = <<"out", r>>
    /\ custody' = [custody EXCEPT ![c] = <<"lost", r>>]

Return(c, r) ==
    /\ custody[c] \in {<<"out", r>>, <<"lost", r>>}
    /\ custody' \in {[custody EXCEPT ![c] = to] : to \in {<<"shelf">>, <<"aside">>}}

\* a copy without a loan is taken from the shelf or put back
Recondition(c) ==
    /\ custody[c] \in {<<"shelf">>, <<"aside">>}
    /\ custody' \in {[custody EXCEPT ![c] = to] : to \in {<<"shelf">>, <<"aside">>}}

Acquire(new) ==
    /\ \A c \in new : custody'[c] = <<"shelf">>
    /\ custody' = [c \in Accessions |-> IF c \in new THEN <<"shelf">> ELSE custody[c]]

Passes(c) == Recondition(c) \/ \E r \in Requests : Lend(c, r) \/ Lose(c, r) \/ Return(c, r)

Next ==
    \/ \E c \in Accessions : custody'[c] # custody[c] /\ Passes(c)
    \/ \E new \in SUBSET {c \in Accessions : custody[c] = <<"absent">>} : Acquire(new)

Spec == Init /\ [][Next]_custody
=============================================================================
