----------------------------- MODULE NetworkAlerts -----------------------------
(* services/temporal.py, alerts/network_rules.py and alerts/narrative.py: the     *)
(* patterns a case's contacts and records are searched for, the alert each raises *)
(* once, and the sequence of lines that tells it.                                 *)
(*                                                                                *)
(* A contact is an edge as in NetworkViews, with its time in minutes (0 when none *)
(* was established); a record is [id, evidence, at, vehicles, places, people,     *)
(* phones, device, sender, numbers], with a sequence for what it names.           *)
EXTENDS Naturals, Sequences, FiniteSets, FiniteSetsExt, SequencesExt, Ordering

Hour == 60
Lookback == 48 * Hour
BurstWindow == 2 * Hour
RelayWindow == 2 * Hour
ConvergenceWindow == 6 * Hour
GapWorthStating == 6 * Hour
LateArrivalAfter == 24 * Hour
Never == 0

ContactKinds == {"CALLED", "MESSAGED", "COMMUNICATED_WITH"}
Earlier(a, b) == a.at < b.at \/ (a.at = b.at /\ a.id < b.id)
ByTime(rows) == InOrder(rows, Earlier)
ById(rows) == InOrder(rows, LAMBDA a, b : a.id < b.id)
IdsOf(rows) == {r.id : r \in ToSet(rows)}
EvidenceOf(rows) == {r.evidence : r \in ToSet(rows)}

(* Mutant: a contact a reviewer rejected goes on driving the findings.            *)
Contacts_Rejected(relations) == {e \in relations : e.kind \in ContactKinds /\ e.at # Never}

(* _contact_relations: what a reviewer rejected drives no finding.                *)
Contacts(relations) == {e \in relations : e.kind \in ContactKinds /\ e.at # Never /\ e.status # "rejected"}
PairsOf(contacts) == {{e.from, e.to} : e \in contacts}
Between(contacts, pair) == ByTime({e \in contacts : {e.from, e.to} = pair})

(* IncidentWindow.position; Never where none was declared.                        *)
Position(window, at) ==
    IF at = Never THEN "time_not_established"
    ELSE IF window.start # Never /\ at < window.start THEN "before"
    ELSE IF window.end # Never /\ at > window.end THEN "after"
    ELSE IF window.start = Never /\ window.end = Never THEN "no_window_declared"
    ELSE "during"
Chronology(relations, window) ==
    [place \in {"before", "during", "after", "no_window_declared"} |->
        Cardinality({e \in Contacts(relations) : Position(window, e.at) = place})]

-------------------------------------------------------------------------------
(* A finding names who or what it is about and the rows it was counted over.      *)
Finding(rule, about, rows) == [rule |-> rule, about |-> about, rows |-> rows]

PreIncident(relations, window) ==
    IF window.start = Never THEN {}
    ELSE LET contacts == {e \in Contacts(relations) : e.at + Lookback >= window.start /\ e.at < window.start}
         IN  {Finding("PRE_INCIDENT_COMMUNICATION", <<pair>>, Between(contacts, pair)) :
                 pair \in {p \in PairsOf(contacts) : Len(Between(contacts, p)) >= 2}}

(* communication_bursts: a window that slides over a pair's contacts; the first   *)
(* span that is dense enough.                                                     *)
Span(rows, end) == SubSeq(rows, Min({s \in 1..end : rows[end].at - rows[s].at <= BurstWindow}), end)
Bursts(relations) ==
    LET contacts == Contacts(relations)
        dense(pair) == {end \in DOMAIN Between(contacts, pair) : Len(Span(Between(contacts, pair), end)) >= 3}
    IN  {Finding("COMMUNICATION_BURST", <<pair>>, Span(Between(contacts, pair), Min(dense(pair)))) :
            pair \in {p \in PairsOf(contacts) : dense(p) # {}}}

(* relays: two contacts in order and close enough, and the party they share; for  *)
(* a path the first two that show it.                                             *)
Other(e, party) == IF party = e.from THEN e.to ELSE e.from
Relays(relations) ==
    LET order == ByTime(Contacts(relations))
        ends(i) == {order[i].from, order[i].to}
        legs == {l \in (1..Len(order)) \X (1..Len(order)) : 
                    l[1] < l[2] /\ order[l[2]].at - order[l[1]].at <= RelayWindow /\ ends(l[1]) # ends(l[2])}
        path(l, m) == <<Other(order[l[1]], m), m, Other(order[l[2]], m)>>
        paths == UNION {{path(l, m) : m \in ends(l[1]) \cap ends(l[2])} : l \in legs}
        first(p) == CHOOSE l \in legs : 
            /\ p[2] \in ends(l[1]) \cap ends(l[2]) /\ path(l, p[2]) = p
            /\ \A k \in legs : p[2] \in ends(k[1]) \cap ends(k[2]) /\ path(k, p[2]) = p
                               => l[1] < k[1] \/ (l[1] = k[1] /\ l[2] <= k[2])
    IN  {Finding("RELAY_CONTACT", p, <<order[first(p)[1]], order[first(p)[2]]>>) : p \in paths}

(* sudden_silence: the pair's own spacing, and the end of the whole record.       *)
Median(gaps) ==
    LET order == InOrder(DOMAIN gaps, LAMBDA i, j : gaps[i] < gaps[j] \/ (gaps[i] = gaps[j] /\ i < j))
    IN  gaps[order[Len(gaps) \div 2 + 1]]
Silences(relations) ==
    LET contacts == Contacts(relations)
        ends == Max({e.at : e \in contacts})
        silent(rows) ==
            /\ Len(rows) >= 3
            /\ LET usual == Median([i \in 1..(Len(rows) - 1) |-> rows[i + 1].at - rows[i].at])
               IN  usual > 0 /\ ends - Last(rows).at >= 4 * usual
    IN  {Finding("SUDDEN_SILENCE", <<pair>>, Between(contacts, pair)) :
            pair \in {p \in PairsOf(contacts) : silent(Between(contacts, p))}}

-------------------------------------------------------------------------------
(* The rules that read the records.                                               *)
Naming(records, vehicle, place) == {r \in records : vehicle \in ToSet(r.vehicles) /\ place \in ToSet(r.places)}
AllOf(records, Of(_)) == UNION {ToSet(Of(r)) : r \in records}
Vehicles(r) == r.vehicles
Places(r) == r.places

RecurringSightings(records) ==
    {Finding("RECURRING_VEHICLE_AT_LOCATION", about, ByTime(Naming(records, about[1], about[2]))) :
        about \in {p \in AllOf(records, Vehicles) \X AllOf(records, Places) : Cardinality(Naming(records, p[1], p[2])) >= 3}}

(* Distinct parties named at a place within six hours of a record; the earliest   *)
(* record that has three of them, one finding for a place.                        *)
Timed(records) == {r \in records : r.at # Never}
Named(rows) == UNION {ToSet(r.people) \cup ToSet(r.vehicles) \cup ToSet(r.phones) : r \in ToSet(rows)}
Convergences(records) ==
    LET there(place) == {r \in Timed(records) : place \in ToSet(r.places)}
        at(place) == ByTime(there(place))
        from(place, i) == LET anchor == at(place)[i]
                          IN  ByTime({r \in there(place) : ~Earlier(r, anchor) /\ r.at - anchor.at <= ConvergenceWindow})
        anchors(place) == {i \in DOMAIN at(place) : Cardinality(Named(from(place, i))) >= 3}
    IN  {Finding("CONVERGING_LOCATION", <<place, at(place)[Min(anchors(place))].at>>, from(place, Min(anchors(place)))) :
            place \in {p \in AllOf(records, Places) : anchors(p) # {}}}

(* A route is three places or more, in the order they are first timed.            *)
Route(rows) ==
    LET stops == UNION {{i} \X DOMAIN rows[i].places : i \in DOMAIN rows}
        place(p) == rows[p[1]].places[p[2]]
        before(p, q) == p[1] < q[1] \/ (p[1] = q[1] /\ p[2] < q[2])
        order == InOrder({p \in stops : \A q \in stops : before(q, p) => place(q) # place(p)}, before)
    IN  [i \in DOMAIN order |-> place(order[i])]
Corridors(records) ==
    LET of(vehicle) == ByTime({r \in Timed(records) : vehicle \in ToSet(r.vehicles) /\ r.places # <<>>})
    IN  {Finding("VEHICLE_CORRIDOR", <<vehicle, Len(Route(of(vehicle)))>>, of(vehicle)) :
            vehicle \in {v \in AllOf(records, Vehicles) : Len(Route(of(v))) >= 3}}

(* _shared_device: a handset is the calling party's; without one, that of the     *)
(* only number on the record; a party that is no number (canonicalize_indicator   *)
(* makes nothing of it) is nobody's. r.numbers are the texts that are numbers.    *)
Unowned == "nobody"
Owner(r) ==
    LET stated == IF r.sender # Unowned THEN r.sender ELSE IF Len(r.phones) = 1 THEN r.phones[1] ELSE Unowned
    IN  IF r.device # "none" /\ stated \in r.numbers THEN stated ELSE Unowned
SharedDevices(records) ==
    LET on(device) == {r \in records : r.device = device /\ Owner(r) # Unowned}
    IN  {Finding("SHARED_DEVICE", <<device>>, ById(on(device))) :
            device \in {d \in {r.device : r \in records} : Cardinality({Owner(r) : r \in on(d)}) >= 2}}

(* _late_arriving_identity: the first sighting of a node that came a day after    *)
(* the case was opened, or later.                                                 *)
LateArrivals(sightings, opened) ==
    LET first(n) == CHOOSE s \in sightings : s.node = n /\ \A t \in sightings : t.node = n => s.created <= t.created
    IN  {Finding("LATE_ARRIVING_IDENTITY", <<n>>, <<first(n)>>) :
            n \in {s.node : s \in {t \in sightings : first(t.node).created >= opened + LateArrivalAfter}}}

(* _bridge_entity: cut nodes of the analysed network that two files support; the  *)
(* lines are every relation of the node, the rejected ones too.                   *)
BridgeEntities(relations, ranked) ==
    {Finding("BRIDGE_ENTITY", <<item.entity>>, ById({e \in relations : item.entity \in {e.from, e.to}})) :
        item \in {i \in ToSet(ranked) : i.bridge /\ Cardinality(i.evidence) >= 2}}

-------------------------------------------------------------------------------
(* narrative.sequence: what has a time in its order, silences of six hours stated *)
(* between them, then what has none, and the line that closes it.                 *)
Line(kind, id) == [kind |-> kind, id |-> id]
Told(rows, gaps) ==
    LET sooner(i, j) == rows[i].at < rows[j].at \/ (rows[i].at = rows[j].at /\ i < j)
        timed == InOrder({i \in DOMAIN rows : rows[i].at # Never}, sooner)
        untimed == InOrder({i \in DOMAIN rows : rows[i].at = Never}, sooner)
        silent(i) == gaps /\ i > 1 /\ rows[timed[i]].at - rows[timed[i - 1]].at >= GapWorthStating
        fact(i) == <<Line("fact", rows[i].id)>>
        chronology == [i \in DOMAIN timed |-> IF silent(i) THEN <<Line("gap", 0)>> \o fact(timed[i]) ELSE fact(timed[i])]
    IN  FlattenSeq(chronology
                   \o <<IF untimed # <<>> /\ timed # <<>> THEN <<Line("gap", 0)>> ELSE <<>> >>
                   \o [i \in DOMAIN untimed |-> fact(untimed[i])]
                   \o <<<<Line("closing", 0)>>>>)

GapRules == {"PRE_INCIDENT_COMMUNICATION", "RECURRING_VEHICLE_AT_LOCATION", "CONVERGING_LOCATION", "VEHICLE_CORRIDOR",
             "SUDDEN_SILENCE", "SHARED_DEVICE"}
Severity(rule) ==
    CASE rule \in {"PRE_INCIDENT_COMMUNICATION", "SHARED_DEVICE"} -> "high"
      [] rule = "LATE_ARRIVING_IDENTITY" -> "low"
      [] OTHER -> "medium"

(* _raise: once for a rule and what it is about; what was raised stays as it was. *)
Alert(f) ==
    [key |-> <<f.rule, f.about>>, severity |-> Severity(f.rule), evidence |-> EvidenceOf(f.rows),
     sequence |-> Told(f.rows, f.rule \in GapRules)]
Raised(alerts, findings) ==
    alerts \cup {Alert(f) : f \in {g \in findings : \A a \in alerts : a.key # <<g.rule, g.about>>}}

(* evaluate_network_alerts, without the rules that need the graph or the clock.   *)
Findings(relations, records, window) ==
    PreIncident(relations, window) \cup Bursts(relations) \cup RecurringSightings(records) \cup Relays(relations)
    \cup Convergences(records) \cup Corridors(records) \cup Silences(relations) \cup SharedDevices(records)
Evaluated(alerts, relations, records, window) == Raised(alerts, Findings(relations, records, window))

-------------------------------------------------------------------------------
(* What a lead counts is there: contacts nobody rejected, whose time is known; a  *)
(* burst is found exactly when three contacts of a pair lie within two hours of   *)
(* each other, a relay exactly when one contact follows another in time; nobody   *)
(* falls silent at the end of the record; a handset is shared only when two       *)
(* records say so.                                                                *)
Supported(relations) == {e \in relations : e.status # "rejected" /\ e.at # Never /\ e.kind \in ContactKinds}
Close(rows, span) == \A d, e \in rows : d.at <= e.at + span /\ e.at <= d.at + span
ContactLeadsAreTrue(relations, window) ==
    LET leads == PreIncident(relations, window) \cup Bursts(relations) \cup Relays(relations) \cup Silences(relations)
    IN  /\ \A f \in leads : ToSet(f.rows) \subseteq Supported(relations)
        /\ \A pair \in {{e.from, e.to} : e \in relations} :
            (\E f \in Bursts(relations) : f.about = <<pair>>)
                <=> \E trio \in SUBSET {e \in Supported(relations) : {e.from, e.to} = pair} :
                        Cardinality(trio) = 3 /\ Close(trio, BurstWindow)
        /\ \A d, e \in Supported(relations) :
            d.at < e.at /\ e.at <= d.at + RelayWindow /\ Cardinality({d.from, d.to} \cup {e.from, e.to}) = 3
                => \E f \in Relays(relations) : ToSet(f.about) = {d.from, d.to} \cup {e.from, e.to} /\ f.about[2] \in {d.from, d.to} \cap {e.from, e.to}
        /\ \A f \in Silences(relations) : \E e \in Supported(relations) : {e.from, e.to} # f.about[1] /\ e.at > Last(f.rows).at
RecordLeadsAreTrue(records) ==
    /\ \A f \in SharedDevices(records) : Cardinality({r.id : r \in ToSet(f.rows)}) >= 2
    /\ \A f \in Corridors(records) : \A i, j \in DOMAIN Route(f.rows) : i < j =>
        \E r \in ToSet(f.rows) : Route(f.rows)[i] \in ToSet(r.places)
                                 /\ \A s \in ToSet(f.rows) : Route(f.rows)[j] \in ToSet(s.places) => r.at <= s.at
    /\ \A f \in Convergences(records) : Close(ToSet(f.rows), ConvergenceWindow)

(* A lead is raised once: evaluating again adds nothing.                          *)
LeadsAreRaisedOnce(relations, records, window) ==
    LET once == Evaluated({}, relations, records, window)
    IN  /\ Evaluated(once, relations, records, window) = once
        /\ \A a, b \in once : a.key = b.key => a = b

(* It is told from its rows: the sequence stored with it states every row once,  *)
(* those with a time in its order and before those without.                       *)
Tells(lines, rows) ==
    LET facts == {k \in DOMAIN lines : lines[k].kind = "fact"}
    IN  /\ {lines[k].id : k \in facts} = IdsOf(rows)
        /\ \A k, l \in facts : k < l =>
            /\ lines[k].id # lines[l].id
            /\ \A r, s \in ToSet(rows) : r.id = lines[k].id /\ s.id = lines[l].id /\ s.at # Never => r.at # Never /\ r.at <= s.at
LeadsAreTold(relations, records, window) ==
    \A f \in Findings(relations, records, window) : Tells(Alert(f).sequence, f.rows)

===============================================================================
