------------------------------- MODULE CaseAnswers -------------------------------
(* What is answered about a case beyond its network: the same identifiers in the  *)
(* reader's other cases (services/cross_case.py), the registered cases an         *)
(* identity has (services/prior_record.py), the timeline (api/analysis.py), the   *)
(* numbered findings of a report (services/reporting.py) and the draft of a       *)
(* request for records (services/requisition.py).                                 *)
(*                                                                                *)
(* A row that may link two cases is [id, case, kind, value, status]: a node of a  *)
(* matchable type, a transaction's reference or a file's digest. Relations are    *)
(* those of NetworkViews, numbered as they were created; times are days.          *)
EXTENDS NetworkViews

Reliable == {"confirmed", "corrected"}
Key(row) == <<row.kind, row.value>>

(* find_cross_case_links: what a reviewer rejected links nothing; a file has no   *)
(* review.                                                                        *)
Standing(row) == row.kind = "file" \/ row.status # "rejected"
Mine(rows, here) == {r \in rows : r.case = here /\ Standing(r)}

(* Mutant: the rows of the other cases are taken whatever their review.           *)
Theirs_Rejected(rows, here, visible) == {r \in rows : r.case \in visible \ {here}}

Theirs(rows, here, visible) == {r \in rows : r.case \in visible \ {here} /\ Standing(r)}

(* Of several rows of this case with one key, the last the query returns is kept. *)
Pickings(rows, here) ==
    LET keys == {Key(r) : r \in Mine(rows, here)}
    IN  {pick \in [keys -> Mine(rows, here)] : \A k \in keys : Key(pick[k]) = k}
Confidence(row, other) ==
    IF row.kind = "file" \/ {row.status, other.status} \subseteq Reliable THEN "high" ELSE "medium"
SharedLinks(pick, rows, here, visible) ==
    {[key |-> Key(r), current |-> pick[Key(r)].id, case |-> r.case, linked |-> r.id, confidence |-> Confidence(pick[Key(r)], r)] :
        r \in {t \in Theirs(rows, here, visible) : Key(t) \in DOMAIN pick}}

(* The list is cut at `limit`: high confidence first, then by the names of the    *)
(* signals and the numbers of the cases, whose alphabetical order `alphabet`      *)
(* gives; what ties keeps the order it was read in, which numbers the rows.       *)
Place(link, alphabet) ==
    <<IF link.confidence = "high" THEN 0 ELSE 1, alphabet[link.key[1]], alphabet[link.case], link.linked>>
Shown(links, alphabet, limit) ==
    LET before(k, l) == \E i \in 1..4 : /\ Place(k, alphabet)[i] < Place(l, alphabet)[i]
                                        /\ \A j \in 1..(i - 1) : Place(k, alphabet)[j] = Place(l, alphabet)[j]
        order == InOrder(links, before)
    IN  SubSeq(order, 1, Min({limit, Len(order)}))

-------------------------------------------------------------------------------
(* lookup: exact matches of what the resolver makes of the identity; nothing for  *)
(* what it makes nothing of. _statement: the counts it states.                    *)
Nothing == <<"none", "none">>
Registered(register, identity) == {r \in register : identity # Nothing /\ r.identity = identity}
State(disposal) ==
    CASE disposal \in {"under_investigation", "chargesheeted"} -> "open"
      [] disposal \in {"convicted", "acquitted", "closed", "quashed"} -> "closed"
      [] OTHER -> "unknown"
(* Mutant: acquittals and quashed cases are dropped from what is told.            *)
Statement_NoAcquittals(entries) ==
    LET closed == {e \in entries : e.disposal \in {"convicted", "closed"}}
        convicted == {e \in closed : e.disposal = "convicted"}
    IN  [total |-> Cardinality(entries), open |-> Cardinality({e \in entries : State(e.disposal) = "open"}),
         convicted |-> Cardinality(convicted), otherwise |-> Cardinality(closed) - Cardinality(convicted)]

Statement(entries) ==
    LET closed == {e \in entries : State(e.disposal) = "closed"}
        convicted == {e \in closed : e.disposal = "convicted"}
    IN  [total |-> Cardinality(entries), open |-> Cardinality({e \in entries : State(e.disposal) = "open"}),
         convicted |-> Cardinality(convicted), otherwise |-> Cardinality(closed) - Cardinality(convicted)]

-------------------------------------------------------------------------------
(* Mutant: a reading of any file withholds every file's raw text.                 *)
VisibleEvents_AnyFile(events) ==
    {e \in events : ~(e.type = "ocr_document" /\ \E d \in events : d.grounded)}

(* _visible_timeline_events: a screenshot's raw text gives way to its reading.    *)
VisibleEvents(events) ==
    LET read == {e.file : e \in {d \in events : d.grounded}}
    IN  {e \in events : ~(e.type = "ocr_document" /\ e.file \in read)}

-------------------------------------------------------------------------------
(* Mutant: the pairs are looked for among all rows, also the rejected ones.       *)
LoadBearing_AllRows(relations) ==
    {e.ends : e \in Bridges([nodes |-> UNION {Ends(r) : r \in relations}, edges |-> Collapsed(relations)])}

(* The pairs that bridge_relationships names.                                     *)
LoadBearing(relations) == {l.ends : l \in FragileLinks(Network(relations, 0, FALSE))}

(* _numbered_findings: every relation; fragile pairs first, then the most         *)
(* confident, then the oldest.                                                    *)
NumberedFindings(relations) ==
    LET fragile == LoadBearing(relations)
        bears(r) == Ends(r) \in fragile
        before(r, s) == \/ bears(r) /\ ~bears(s)
                        \/ bears(r) = bears(s) /\ (r.weight > s.weight \/ (r.weight = s.weight /\ r.id < s.id))
        order == InOrder(relations, before)
    IN  [i \in DOMAIN order |-> [relation |-> order[i], loadBearing |-> bears(order[i])]]

(* _window and build: what may be asked for each identity of a requestable type,  *)
(* two days either side of what was timed; the fragile first, then those files of *)
(* most names tell of, then by value; one value of two types keeps the order its  *)
(* nodes were met in, as subject before object; `limit` of them.                  *)
Margin == 2
NoPeriod == <<>>
Period(relations) ==
    LET times == {r.at : r \in relations} \ {0}
    IN  IF times = {} THEN NoPeriod ELSE <<Min(times) - Margin, Max(times) + Margin>>
Requestable == {"phone", "upi", "account", "email", "device", "vehicle"}
NameOf(file, name) == IF file \in DOMAIN name THEN name[file] ELSE "an evidence file"
Met(relations, n) == Min({2 * r.id : r \in {q \in relations : q.from = n}} \cup {2 * r.id + 1 : r \in {q \in relations : q.to = n}})
Subjects(relations, type, label, name, limit) ==
    LET fragile == LoadBearing(relations)
        involving(n) == {r \in relations : n \in Ends(r)}
        subject(n) == [node |-> n, period |-> Period(involving(n)), evidence |-> {NameOf(r.evidence, name) : r \in involving(n)},
                       loadBearing |-> \E r \in involving(n) : Ends(r) \in fragile]
        asked == {subject(n) : n \in {m \in UNION {Ends(r) : r \in relations} : type[m] \in Requestable}}
        files(s) == Cardinality(s.evidence)
        sooner(s, t) == \/ label[s.node] < label[t.node]
                        \/ label[s.node] = label[t.node] /\ Met(relations, s.node) < Met(relations, t.node)
        before(s, t) == \/ s.loadBearing /\ ~t.loadBearing
                        \/ s.loadBearing = t.loadBearing
                            /\ (files(s) > files(t) \/ (files(s) = files(t) /\ sooner(s, t)))
        order == InOrder(asked, before)
    IN  SubSeq(order, 1, Min({limit, Len(order)}))

-------------------------------------------------------------------------------
(* Of two cases a reader may open, what one shows of the other the other shows of *)
(* it, unless its list is full; a link rests on no row a reviewer rejected and    *)
(* names no other case; only a full list leaves a link out, and never a reviewed  *)
(* one for an unreviewed one.                                                     *)
LinksAreMutual(rows, visible, alphabet, limit) ==
    \A here, there \in visible :
        \A pick \in Pickings(rows, here), back \in Pickings(rows, there) :
            LET links == SharedLinks(pick, rows, here, visible)
                list == Shown(links, alphabet, limit)
                answer == Shown(SharedLinks(back, rows, there, visible), alphabet, limit)
            IN  /\ \A i \in DOMAIN list :
                    /\ list[i].case \in visible \ {here}
                    /\ \A r \in rows : r.id \in {list[i].current, list[i].linked} => r.kind = "file" \/ r.status # "rejected"
                    /\ list[i].case = there =>
                        \/ \E j \in DOMAIN answer : answer[j].case = here /\ answer[j].key = list[i].key
                        \/ Len(answer) = limit
                /\ \A l \in links \ {list[i] : i \in DOMAIN list} :
                    /\ Len(list) = limit
                    /\ l.confidence = "high" => \A i \in DOMAIN list : list[i].confidence = "high"

(* Every registered case of an identity is counted once under what became of it,  *)
(* and nobody else's is.                                                          *)
RecordIsCountedWhole(register, identity) ==
    LET told == Statement(Registered(register, identity))
        own == {r \in register : r.identity = identity}
    IN  /\ told.total = Cardinality(own)
        /\ (\A r \in own : State(r.disposal) # "unknown") => told.open + told.convicted + told.otherwise = told.total

(* A file that has events has one on the timeline.                                *)
TimelineKeepsFiles(events) == {e.file : e \in VisibleEvents(events)} = {e.file : e \in events}

(* A report and a request for records agree on what the case rests on: a finding  *)
(* is load-bearing only if somebody's observation of that pair stands and removal *)
(* of the pair parts its ends; such findings come first, identities they name are *)
(* asked about before any other, and no period is asked for that is not around a  *)
(* recorded time.                                                                 *)
FindingsAndRequestsAgree(relations, type, label, name, limit) ==
    LET findings == NumberedFindings(relations)
        subjects == Subjects(relations, type, label, name, limit)
        standing == {r \in relations : r.status # "rejected"}
        named == UNION {Ends(findings[i].relation) : i \in {j \in DOMAIN findings : findings[j].loadBearing}}
    IN  /\ Len(findings) = Cardinality(relations) /\ {findings[i].relation : i \in DOMAIN findings} = relations
        /\ \A i \in DOMAIN findings :
            /\ findings[i].loadBearing =>
                /\ \E r \in standing : Ends(r) = Ends(findings[i].relation)
                /\ \A j \in 1..i : findings[j].loadBearing
            /\ \A n, m \in Ends(findings[i].relation) :
                findings[i].loadBearing /\ n # m =>
                    ~ShortestPath(Network({r \in relations : Ends(r) # {n, m}}, 0, FALSE), n, m).found
        /\ \A i \in DOMAIN subjects : subjects[i].loadBearing <=> subjects[i].node \in named
        /\ \A n \in {m \in named : type[m] \in Requestable} \ {subjects[i].node : i \in DOMAIN subjects} :
            \A i \in DOMAIN subjects : subjects[i].loadBearing
        /\ \A i \in DOMAIN subjects :
            LET timed == {r \in relations : subjects[i].node \in Ends(r) /\ r.at # 0}
            IN  IF timed = {} THEN subjects[i].period = NoPeriod
                ELSE /\ \A r \in timed : subjects[i].period[1] <= r.at - Margin /\ r.at + Margin <= subjects[i].period[2]
                     /\ \E r, s \in timed : subjects[i].period = <<r.at - Margin, s.at + Margin>>

================================================================================
