--------------------------------- MODULE Fares ---------------------------------
(***************************************************************************)
(* A transport agreement is charged through the fee ledger: _bill of the   *)
(* transport service next to the fee office, which changes the same fee    *)
(* heads and bills the same students without the advisory lock.  There is  *)
(* one fee structure, of one grade and year; a monthly head is one that is *)
(* optional and charged monthly.                                           *)
(***************************************************************************)
EXTENDS BusDesk

CONSTANTS FareHeads, BsMonths, ThisMonth,
          FirstAgreement, FirstFare    \* an agreement made before, and its row

NoEnd == -1
FareRow == [rider: Riders, fee: Nat, first: BsMonths, last: BsMonths \cup {NoEnd}]

ASSUME FaresAssumption ==
    /\ BsMonths \subseteq Nat /\ ThisMonth \in BsMonths
    /\ FirstAgreement \in BusRequests /\ FirstFare \in FareRow /\ NoRow \notin FareRow

FareRequest == [op: {"fare"}, req: BusRequests, agreement: BusRequests,
                head: FareHeads, month: BsMonths]
AgreeRequest == [op: {"agree"}, req: BusRequests, agreement: BusRequests, fee: Nat]
HeadRequest == [op: {"price"}, head: FareHeads, amount: Nat \ {0}, monthly: BOOLEAN]
AssessRequest == [op: {"assess"}, rider: Riders, head: FareHeads, month: BsMonths]
OfferRequest == [op: {"offer"}, active: BOOLEAN]
PromoteRequest == [op: {"promote"}, rider: Riders]
OptionsQuery == [op: {"options"}, agreement: BusRequests]

VARIABLES fare,       \* student_transport, under the request that made it
          tariff,     \* fee_heads of the structure
          offered,    \* the structure is active
          inGrade,    \* the students of its grade
          fareBill,   \* fee_ledger
          charge      \* transport_charges

fareTables == <<fare, tariff, offered, inGrade, fareBill, charge>>

FaresInit ==
    /\ fare = [q \in BusRequests |-> IF q = FirstAgreement THEN FirstFare ELSE NoRow]
    /\ tariff = [h \in FareHeads |-> [amount |-> FirstFare.fee, monthly |-> TRUE]]
    /\ offered = TRUE /\ inGrade = Riders
    /\ fareBill = {} /\ charge = {}

FaresTypeOK ==
    /\ fare \in [BusRequests -> FareRow \cup {NoRow}]
    /\ \A h \in FareHeads : tariff[h].amount \in Nat /\ tariff[h].monthly \in BOOLEAN
    /\ offered \in BOOLEAN /\ inGrade \subseteq Riders
    /\ fareBill \subseteq [rider: Riders, head: FareHeads, month: BsMonths, amount: Nat]
    /\ charge \subseteq [rider: Riders, head: FareHeads, month: BsMonths,
                         agreement: BusRequests]

Covers(a, m) == a.first <= m /\ (a.last = NoEnd \/ m <= a.last)
Current(q) == fare[q] # NoRow /\ fare[q].last = NoEnd
BillsFor(rider, h, m) == {b \in fareBill : b.rider = rider /\ b.head = h /\ b.month = m}

\* who holds the row of the fee structure
HoldsTariff(s) == At(s, "fare", "commit")
TariffFree == \A s \in Sessions : ~HoldsTariff(s)

Unpriced == UNCHANGED <<busTables, moment, fareTables>>

\* _bill: the agreement, which only transport commands change, and the fee
\* head, which is not locked yet.  A legacy agreement that needs set-up and an
\* unknown head are refused without an effect; no call here names one.
ReadFare(s) ==
    /\ At(s, "fare", "write") /\ seen[s] = NoView
    /\ LET a == fare[cmd[s].agreement] IN
       IF a = NoRow THEN Finish(s)
       ELSE IF Covers(a, cmd[s].month) /\ cmd[s].month <= ThisMonth
       THEN Goto(s, "write", [head |-> tariff[cmd[s].head]])
       ELSE Finish(s)
    /\ Unpriced

\* the row of the structure, whose lock lasts until the call ends
LockTariff(s) ==
    /\ At(s, "fare", "write") /\ seen[s] # NoView
    /\ TariffFree
    /\ Goto(s, "commit", [head |-> seen[s].head, offered |-> offered])
    /\ Unpriced

\* mutant: the head is used as it was read before the structure was locked
RefreshedHeadNot(s) == seen[s].head

\* db.refresh(head)
RefreshedHead(s) == tariff[cmd[s].head]

MayCharge(s, a, h) ==
    /\ seen[s].offered /\ a.rider \in inGrade
    /\ h.monthly /\ h.amount = a.fee /\ a.fee > 0
    \* the same bill, charged before or raised by the fee office
    /\ \A x \in charge : x.rider = a.rider /\ x.month = cmd[s].month => x.head = cmd[s].head
    /\ \A b \in BillsFor(a.rider, cmd[s].head, cmd[s].month) : b.amount = a.fee

\* mutant: the student is charged for every agreement of the month
OfMonthAlone(a, c) == {x \in charge : x.agreement = c.agreement /\ x.month = c.month}

OfMonth(a, c) == {x \in charge : x.rider = a.rider /\ x.month = c.month}

\* the rest of _bill, with the student locked as well
PostFare(s) ==
    LET c == cmd[s]
        a == fare[c.agreement]
        h == RefreshedHead(s)
    IN  /\ At(s, "fare", "commit")
        /\ IF ~MayCharge(s, a, h) THEN Finish(s) /\ UNCHANGED <<busTables, fareBill, charge>>
           ELSE /\ fareBill' = IF BillsFor(a.rider, c.head, c.month) # {} THEN fareBill
                               ELSE fareBill \cup {[rider |-> a.rider, head |-> c.head,
                                                    month |-> c.month, amount |-> h.amount]}
                /\ charge' = IF OfMonth(a, c) # {} THEN charge
                             ELSE charge \cup {[rider |-> a.rider, head |-> c.head,
                                                month |-> c.month, agreement |-> c.agreement]}
                /\ Record(s)
                /\ UNCHANGED <<upkeep, position>>
        /\ UNCHANGED <<moment, fare, tariff, offered, inGrade>>

\* _change_assignment, as far as it changes what is agreed
Agree(s) ==
    /\ At(s, "agree", "write")
    /\ LET old == cmd[s].agreement IN
       IF ~Current(old) THEN Finish(s) /\ UNCHANGED <<busTables, fare>>
       ELSE /\ fare' = [fare EXCEPT
                  ![old].last = ThisMonth,
                  ![cmd[s].req] = [rider |-> fare[old].rider, fee |-> cmd[s].fee,
                                   first |-> ThisMonth, last |-> NoEnd]]
            /\ Record(s)
            /\ UNCHANGED <<upkeep, position>>
    /\ UNCHANGED <<moment, tariff, offered, inGrade, fareBill, charge>>

-----------------------------------------------------------------------------
(* The fee office and the student service: each a call that locks the      *)
(* structure (or the student) and commits.                                 *)

\* change_fee_head: only a head without bills; one that is removed is as good
\* as one that is not monthly
ChangePrice(s) ==
    /\ At(s, "price", "start") /\ TariffFree
    /\ tariff' = IF \E b \in fareBill : b.head = cmd[s].head THEN tariff
                 ELSE [tariff EXCEPT ![cmd[s].head] =
                         [amount |-> cmd[s].amount, monthly |-> cmd[s].monthly]]
    /\ Finish(s)
    /\ UNCHANGED <<busTables, moment, fare, offered, inGrade, fareBill, charge>>

\* generate_ledger_entries for one student, the head and a month
Assess(s) ==
    LET c == cmd[s] IN
    /\ At(s, "assess", "start") /\ TariffFree
    /\ fareBill' = IF ~offered \/ c.rider \notin inGrade \/ ~tariff[c.head].monthly
                      \/ BillsFor(c.rider, c.head, c.month) # {} THEN fareBill
                   ELSE fareBill \cup {[rider |-> c.rider, head |-> c.head, month |-> c.month,
                                        amount |-> tariff[c.head].amount]}
    /\ Finish(s)
    /\ UNCHANGED <<busTables, moment, fare, tariff, offered, inGrade, charge>>

ChangeOffer(s) ==
    /\ At(s, "offer", "start") /\ TariffFree
    /\ offered' = cmd[s].active
    /\ Finish(s)
    /\ UNCHANGED <<busTables, moment, fare, tariff, inGrade, fareBill, charge>>

Promote(s) ==
    /\ At(s, "promote", "start")
    /\ inGrade' = inGrade \ {cmd[s].rider}
    /\ Finish(s)
    /\ UNCHANGED <<busTables, moment, fare, tariff, offered, fareBill, charge>>

\* fee_options: the heads a bill of the agreement may name
ListOptions(s) ==
    /\ At(s, "options", "start")
    /\ LET a == fare[cmd[s].agreement]
       IN  Reply(s, [options |-> IF a = NoRow \/ ~offered THEN {}
                                 ELSE IF a.rider \in inGrade
                                 THEN {h \in FareHeads : tariff[h].monthly} ELSE {}])
    /\ Unpriced

SendOptions(s) == At(s, "options", "answer") /\ Finish(s) /\ Unpriced

FaresNext(s) ==
    \/ ReadFare(s) \/ LockTariff(s) \/ PostFare(s) \/ Agree(s)
    \/ ChangePrice(s) \/ Assess(s) \/ ChangeOffer(s) \/ Promote(s)
    \/ ListOptions(s) \/ SendOptions(s)

-----------------------------------------------------------------------------
\* "The charge is inserted into the existing fee ledger or links the same
\* existing optional fee/period bill without duplicating it.  One transport
\* link per student/BS month also prevents repeat charges after an agreement
\* change": a charge names one bill, of the fee agreed for a month that has
\* come and the agreement covers; a bill keeps the price of its head; a bill
\* the office was answered is charged.
ChargedAsAgreed ==
    /\ \A x \in charge :
         /\ fare[x.agreement].rider = x.rider
         /\ Covers(fare[x.agreement], x.month) /\ x.month <= ThisMonth
         /\ {b.amount : b \in BillsFor(x.rider, x.head, x.month)} = {fare[x.agreement].fee}
         /\ \A y \in charge : y.rider = x.rider /\ y.month = x.month => y = x
    /\ \A b \in fareBill : b.amount = tariff[b.head].amount
    /\ \A q \in BusRequests : busEvent[q] # NoRow /\ busEvent[q].op = "fare" =>
         OfMonth(fare[busEvent[q].agreement], busEvent[q]) # {}

-----------------------------------------------------------------------------
(* The inductive invariant.                                                *)

\* a bill that is being charged is for a month its agreement covers
FaresSession(s) ==
    HoldsTariff(s) \/ (At(s, "fare", "write") /\ seen[s] # NoView) =>
        /\ fare[cmd[s].agreement] # NoRow
        /\ Covers(fare[cmd[s].agreement], cmd[s].month) /\ cmd[s].month <= ThisMonth

FaresInv ==
    /\ FaresTypeOK /\ ChargedAsAgreed
    /\ tariff \in [FareHeads -> [amount: Nat, monthly: BOOLEAN]]
    /\ \A q \in BusRequests : fare[q] # NoRow => busEvent[q] # NoRow \/ q = FirstAgreement
    /\ \A x \in charge : fare[x.agreement] # NoRow
    /\ \A q \in BusRequests : busEvent[q] # NoRow /\ busEvent[q].op = "fare" =>
         fare[busEvent[q].agreement] # NoRow
    /\ \A s \in Sessions : FaresSession(s)
=============================================================================
