------------------------------- MODULE Messages -------------------------------
(***************************************************************************)
(* SMSService and the two gateways.  A call sends to one number or to      *)
(* several, one after the other; it commits the record of a message after  *)
(* the gateways have been asked, so that a call that dies in between       *)
(* leaves an accepted message without a record.                            *)
(***************************************************************************)
EXTENDS Desk, Integers, FiniteSets

CONSTANTS MessageIds, NoProvider

Gateways == {"sparrow", "aakash"}

\* what becomes of a request: the gateway accepts and says so; answers 200 and
\* refuses in the body; answers another status; or its answer is late
\* (timeout = 30), lost or unreadable, accepted or not
Outcomes == {"accepted", "declined", "refused", "lost"}

MessageRow == [status: {"queued", "sent", "failed"}, provider: Gateways \cup {NoProvider}]

ASSUME MessagesAssumption == NoRow \notin MessageRow

SmsRequest == [op: {"sms"}, phones: Nat \ {0}]
LogRequest == [op: {"messages"}]

VARIABLES message,
          enabled,    \* the gateways the settings enable
          requests    \* what the gateways were asked

messageTables == <<message, enabled, requests>>

MessagesInit == /\ message = [m \in MessageIds |-> NoRow]
                /\ enabled \in SUBSET Gateways
                /\ requests = {}

MessagesTypeOK ==
    /\ message \in [MessageIds -> MessageRow \cup {NoRow}]
    /\ enabled \subseteq Gateways
    /\ requests \subseteq [message: MessageIds, gateway: Gateways, outcome: Outcomes]

\* ids are new (uuid4)
Unused(m) == /\ message[m] = NoRow
             /\ \A r \in requests : r.message # m
             /\ \A s \in Sessions : pc[s] \in {"write", "list", "commit"}
                                      /\ cmd[s].op = "sms" => seen[s].id # m

\* the messages send_bulk_sms has counted as sent: send_sms raises nothing
Counted(s) == IF seen[s] = NoView THEN {} ELSE seen[s].counted

StartSms(s) ==
    /\ At(s, "sms", "start")
    /\ \E m \in MessageIds :
          /\ Unused(m)
          /\ Goto(s, IF enabled = {} THEN "commit" ELSE "write",
                  [id |-> m, counted |-> Counted(s), status |-> "queued",
                   provider |-> NoProvider])
    /\ UNCHANGED messageTables

FirstGateway == IF "sparrow" \in enabled THEN "sparrow" ELSE "aakash"

Ask(s, g, outcome) ==
    requests' = requests \cup {[message |-> seen[s].id, gateway |-> g, outcome |-> outcome]}

\* mutant: the response_code in Sparrow's body is not looked at
TakenAsSentUnread(g, outcome) == outcome \in {"accepted", "declined"}

\* Sparrow's body must say response_code 200; of Aakash any 200 is taken
TakenAsSent(g, outcome) == \/ outcome = "accepted"
                           \/ g = "aakash" /\ outcome = "declined"

Answered(s, g, outcome) ==
    IF TakenAsSent(g, outcome) THEN [seen[s] EXCEPT !.status = "sent", !.provider = g]
                               ELSE [seen[s] EXCEPT !.status = "failed"]

AskGateway(s) ==
    /\ At(s, "sms", "write")
    /\ \E outcome \in Outcomes :
          /\ Ask(s, FirstGateway, outcome)
          /\ Goto(s, IF ~TakenAsSent(FirstGateway, outcome) /\ enabled = Gateways
                     THEN "list" ELSE "commit",
                  Answered(s, FirstGateway, outcome))
    /\ UNCHANGED <<message, enabled>>

\* mutant: the record keeps the failure the fallback was asked for
AskFallbackForgets(s) ==
    /\ At(s, "sms", "list")
    /\ \E outcome \in Outcomes : Ask(s, "aakash", outcome) /\ Goto(s, "commit", seen[s])
    /\ UNCHANGED <<message, enabled>>

AskFallback(s) ==
    /\ At(s, "sms", "list")
    /\ \E outcome \in Outcomes :
          Ask(s, "aakash", outcome) /\ Goto(s, "commit", Answered(s, "aakash", outcome))
    /\ UNCHANGED <<message, enabled>>

\* send_bulk_sms goes on to the next number, whatever became of this one
CommitSms(s) ==
    /\ At(s, "sms", "commit")
    /\ LET v == seen[s]
       IN  /\ message' = [message EXCEPT ![v.id] = [status |-> v.status,
                                                    provider |-> v.provider]]
           /\ Goto(s, IF Cardinality(v.counted) + 1 < cmd[s].phones
                      THEN "start" ELSE "answer",
                   [counted |-> v.counted \cup {v.id}])
    /\ UNCHANGED <<enabled, requests>>

\* get_message_history
ReadMessages(s) == /\ At(s, "messages", "start")
                   /\ Goto(s, "answer", [log |-> {m \in MessageIds : message[m] # NoRow}])
                   /\ UNCHANGED messageTables

AnswerSms(s) == /\ \E op \in {"sms", "messages"} : At(s, op, "answer")
                /\ Finish(s)
                /\ UNCHANGED messageTables

MessagesNext(s) ==
    \/ StartSms(s) \/ AskGateway(s) \/ AskFallback(s) \/ CommitSms(s)
    \/ ReadMessages(s) \/ AnswerSms(s)

-----------------------------------------------------------------------------
\* what gateway g has said when it was asked to send message m
Said(m, g) == {r.outcome : r \in {q \in requests : q.message = m /\ q.gateway = g}}

\* g was asked if it could be, and has not accepted
NotAccepted(m, g) == "accepted" \notin Said(m, g) /\ (g \in enabled <=> Said(m, g) # {})

SentBySparrow(m) == Said(m, "sparrow") = {"accepted"} /\ Said(m, "aakash") = {}
SentByAakash(m) == /\ Said(m, "aakash") \in {{"accepted"}, {"declined"}}
                   /\ NotAccepted(m, "sparrow")

Truthful(m, row) ==
    CASE row.status = "sent"   -> \/ row.provider = "sparrow" /\ SentBySparrow(m)
                                  \/ row.provider = "aakash" /\ SentByAakash(m)
      [] row.status = "failed" -> enabled # {} /\ \A g \in Gateways : NotAccepted(m, g)
      [] row.status = "queued" -> enabled = {} /\ \A g \in Gateways : NotAccepted(m, g)

\* "Tries Sparrow SMS first, falls back to Aakash SMS on failure": a record
\* that says sent by Sparrow stands for a message Sparrow has accepted and
\* Aakash was not asked for; one that says sent by Aakash means no more than
\* an answer 200 of Aakash, whose body may refuse, to a message that Sparrow,
\* if the settings enable it, was asked first and has not accepted; one that
\* says failed was put to every enabled gateway and accepted by none; and a
\* message is queued only when no gateway is enabled.
RecordsTellTheTruth == \A m \in MessageIds : message[m] # NoRow => Truthful(m, message[m])

-----------------------------------------------------------------------------
(* The inductive invariant: what a call knows of its message is what the   *)
(* gateways were asked.                                                    *)

\* a call has a message it has not recorded yet
Sending(s) == pc[s] \in {"write", "list", "commit"} /\ cmd[s].op = "sms"

MessagesSession(s) ==
    /\ Sending(s) =>
         /\ seen[s] \in [id: MessageIds, counted: SUBSET MessageIds,
                         status: {"queued", "sent", "failed"},
                         provider: Gateways \cup {NoProvider}]
         /\ message[seen[s].id] = NoRow
         /\ pc[s] = "write" => enabled # {} /\ \A g \in Gateways : Said(seen[s].id, g) = {}
         /\ pc[s] = "list" => /\ enabled = Gateways
                              /\ NotAccepted(seen[s].id, "sparrow")
                              /\ Said(seen[s].id, "aakash") = {}
         /\ pc[s] = "commit" => Truthful(seen[s].id, seen[s])
    /\ At(s, "sms", "start") /\ seen[s] # NoView => seen[s].counted \subseteq MessageIds

MessagesInv ==
    /\ MessagesTypeOK /\ RecordsTellTheTruth
    /\ \A s \in Sessions : MessagesSession(s)
    /\ \A s, t \in Sessions : s # t /\ Sending(s) /\ Sending(t) => seen[s].id # seen[t].id
=============================================================================
