------------------------------- MODULE TrailAlerts -------------------------------
(* alerts/rules.py: the leads that are read from a case's money trail, its nodes  *)
(* and its events, after every file and over the whole case.                      *)
(*                                                                                *)
(* A transfer is [id, evidence, amount, receiver, at] (in thousands; Unrecorded   *)
(* where no recipient, Undated where no time was read), a node [id, type, value,  *)
(* evidence], an event [id, file, type]. A recipient is its value in lower case.  *)
EXTENDS Naturals, Sequences, FiniteSets, FiniteSetsExt, SequencesExt

Undated == 0
Unrecorded == "none"
HighValue == 50
Rapid == 90
IdentifierTypes == {"upi", "upi_id", "phone", "email", "account"}

Lead(rule, about, evidence) == [rule |-> rule, about |-> about, evidence |-> evidence]
Sources(rows) == {r.evidence : r \in rows}

(* Mutant: the transfers come as the database finds them.                         *)
Orders_Unsorted(transfers) == {o \in [1..Cardinality(transfers) -> transfers] : IsInjective(o)}

(* ORDER BY occurred_at: what has no time comes last, equal times in any order.   *)
Orders(transfers) ==
    {o \in [1..Cardinality(transfers) -> transfers] :
        /\ IsInjective(o)
        /\ \A i, j \in DOMAIN o : i < j => o[j].at = Undated \/ (o[i].at # Undated /\ o[i].at <= o[j].at)}

HighValueTransfers(transfers) ==
    {Lead("HIGH_VALUE_TRANSFER", <<t.id>>, {t.evidence}) : t \in {u \in transfers : u.amount >= HighValue}}

To(transfers, receiver) == {t \in transfers : t.receiver = receiver}
RepeatedRecipients(transfers) ==
    {Lead("REPEATED_RECIPIENT", <<p>>, Sources(To(transfers, p))) :
        p \in {t.receiver : t \in {u \in transfers : u.receiver # Unrecorded /\ Cardinality(To(transfers, u.receiver)) >= 2}}}

(* Rows of one identity are counted; the resolver keeps one for each.             *)
Twins(nodes, n) == {m \in nodes : <<m.type, m.value>> = <<n.type, n.value>>}
RecurringIdentifiers(nodes) ==
    {Lead("RECURRING_IDENTIFIER", <<n.type, n.value>>, Sources(Twins(nodes, n))) :
        n \in {m \in nodes : m.type \in IdentifierTypes /\ Cardinality(Twins(nodes, m)) >= 3}}

PhishingLinks(events, nodes) ==
    LET lures == {e \in events : e.type = "phishing_email"}
    IN  IF lures # {} /\ \E n \in nodes : n.type = "url"
        THEN {Lead("PHISHING_LINK", <<"case">>, {e.file : e \in lures})} ELSE {}

(* The first two neighbours in time that are close enough, and no other pair.     *)
RapidSequence(order) ==
    LET dated == {i \in DOMAIN order : order[i].at # Undated}
        next(i, j) == i < j /\ \A k \in dated : k <= i \/ j <= k
        close == {p \in dated \X dated : next(p[1], p[2]) /\ order[p[2]].at <= order[p[1]].at + Rapid}
        first == CHOOSE p \in close : \A q \in close : p[1] <= q[1]
    IN  IF close = {} THEN {}
        ELSE {Lead("RAPID_TRANSACTION_SEQUENCE", <<order[first[1]].id, order[first[2]].id>>,
                   {order[first[1]].evidence, order[first[2]].evidence})}

(* _alert and evaluate_alerts: what has been raised for a rule and its key stays. *)
Raise(alerts, leads) == alerts \cup {l \in leads : \A a \in alerts : <<a.rule, a.about>> # <<l.rule, l.about>>}
Evaluate(alerts, order, nodes, events) ==
    LET transfers == ToSet(order)
    IN  Raise(alerts, HighValueTransfers(transfers) \cup RepeatedRecipients(transfers) \cup RecurringIdentifiers(nodes)
                      \cup PhishingLinks(events, nodes) \cup RapidSequence(order))

-------------------------------------------------------------------------------
(* However the files came in and however equal times are ordered, the leads that  *)
(* stand when the last was read are true of the trail and none is missing: every  *)
(* high transfer, every recipient named twice, and two transfers within ninety    *)
(* minutes if any are. A second look adds nothing but, among equal times, another *)
(* such pair.                                                                     *)
About(alerts, rule) == {a.about : a \in {b \in alerts : b.rule = rule}}
Near(transfers, i, j) ==
    \E t, u \in transfers : t.id = i /\ u.id = j /\ t # u /\ t.at # Undated /\ u.at # Undated
                            /\ t.at <= u.at /\ u.at <= t.at + Rapid
TrailLeadsAreTrue(early, late, nodes, events) ==
    LET transfers == early \cup late
    IN  \A first \in Orders(early), second, again \in Orders(transfers) :
            LET alerts == Evaluate(Evaluate({}, first, nodes, {}), second, nodes, events)
                rapid == About(alerts, "RAPID_TRANSACTION_SEQUENCE")
            IN  /\ About(alerts, "HIGH_VALUE_TRANSFER") = {<<t.id>> : t \in {u \in transfers : u.amount >= HighValue}}
                /\ About(alerts, "REPEATED_RECIPIENT") =
                    {<<t.receiver>> : t \in {u \in transfers : u.receiver # Unrecorded
                                                /\ \E w \in transfers \ {u} : w.receiver = u.receiver}}
                /\ \A p \in rapid : Near(transfers, p[1], p[2])
                /\ (\E t, u \in transfers : Near(transfers, t.id, u.id)) => rapid # {}
                /\ \A a, b \in alerts : <<a.rule, a.about>> = <<b.rule, b.about>> => a = b
                /\ \A a \in Evaluate(alerts, again, nodes, events) \ alerts :
                    a.rule = "RAPID_TRANSACTION_SEQUENCE" /\ second # again

================================================================================
