---------------------------- MODULE RecordRelations ----------------------------
(* evidence_intelligence/correlation.py and what is done with it: a run stores    *)
(* its file's records, then compares every two records of the case and stores     *)
(* the links it finds under a unique key (services/grounded_pipeline.py); a       *)
(* reviewer rules on a link (services/record_review.py). A link is never deleted. *)
(*                                                                                *)
(* A reading is [ids, amount, currency, at]: the values of each identifying field,*)
(* the figure or None, its currency or "none", the time or None. Times are hours. *)
EXTENDS Integers, Sequences, FiniteSets, SequencesExt, FiniteSetsExt

CONSTANTS
    Workers, Reviewers,
    FileOf,         \* the file each record is read from
    ReadingsOf,     \* what a run may read for each record
    Edits,          \* the transaction references a reviewer may set
    Semantic,       \* semantic_correlation_enabled
    MaxPasses, MaxEdits, MaxReviews

VARIABLES
    observed,       \* normalized_records: reading and review state
    links,          \* record_relations, in order of insertion
    reviews,        \* record_reviews of links
    correlating,    \* what each worker's run is doing
    desk,           \* the ruling each reviewer's request is making
    begun, edited,  \* runs and edits so far
    unread,         \* ghost: records changed since a stored correlation read them
    fresh,          \* ghost: records unchanged since each worker's run read them
    crossed         \* ghost: links two requests ruled on at once

linkVars == <<observed, links, reviews, correlating, desk, begun, edited, unread, fresh, crossed>>

None == -1
Identifiers == {"transaction_reference", "device_identifier", "account_identifiers", "email_addresses", "phone_numbers"}
IsReading(x) ==
    /\ x = [ids |-> x.ids, amount |-> x.amount, currency |-> x.currency, at |-> x.at]
    /\ x.ids = [f \in DOMAIN x.ids |-> x.ids[f]] /\ DOMAIN x.ids \subseteq Identifiers
    /\ "transaction_reference" \in DOMAIN x.ids

ASSUME LinksAssumption ==
    /\ IsFiniteSet(DOMAIN FileOf)
    /\ \A r \in DOMAIN FileOf : \A x \in ReadingsOf[r] : IsReading(x)

Free == [stage |-> "idle"]
Present == {r \in DOMAIN FileOf : observed[r].state # "absent"}
Read == [r \in Present |-> observed[r].reading]

-------------------------------------------------------------------------------
(* correlation.py. `known` maps the records of the case to their readings.        *)
Weight(field) ==
    CASE field = "transaction_reference" -> 90
      [] field = "device_identifier" -> 86
      [] field = "account_identifiers" -> 85
      [] field = "email_addresses" -> 80
      [] field = "phone_numbers" -> 78
SemanticConfidence == 45

Pairs(known) == {p \in kSubset(2, DOMAIN known) : Cardinality({FileOf[r] : r \in p}) = 2}
AgreeOn(known, p, field) ==
    \E v \in UNION {known[r].ids[field] : r \in p} : \A r \in p : v \in known[r].ids[field]
Shared(known, p) == {f \in UNION {DOMAIN known[r].ids : r \in p} : AgreeOn(known, p, f)}
Span(values) == IF None \in values THEN None ELSE Max(values) - Min(values)
Amounts(known, p) == {known[r].amount : r \in p}
Times(known, p) == {known[r].at : r \in p}

Candidate(type, method, fields, p, confidence) ==
    [key |-> [type |-> type, method |-> method, fields |-> fields, records |-> p], confidence |-> confidence]

ExactMatches(known) ==
    {Candidate("corroboration", "exact_match", Shared(known, p), p, Max({Weight(f) : f \in Shared(known, p)})) :
        p \in {q \in Pairs(known) : Shared(known, q) # {}}}

(* What two readings of one transaction say differently.                          *)
Conflicting(known, p) ==
    (IF Span(Amounts(known, p)) > 0 THEN {"amount"} ELSE {}) \cup
    (IF Cardinality({known[r].currency : r \in p} \ {"none"}) = 2 THEN {"amount_currency"} ELSE {}) \cup
    (IF Span(Times(known, p)) > 24 THEN {"event_time"} ELSE {})
Contradictions(known) ==
    {Candidate("contradiction", "exact_match", Conflicting(known, p), p, 80) :
        p \in {q \in Pairs(known) : AgreeOn(known, q, "transaction_reference") /\ Conflicting(known, q) # {}}}

SemanticCandidates(known) ==
    {Candidate("corroboration", "semantic", {"amount", "event_time"}, p, SemanticConfidence) :
        p \in {q \in Pairs(known) :
                /\ Shared(known, q) = {}
                /\ Span(Amounts(known, q)) = 0
                /\ Span(Times(known, q)) \in 0..6}}

Correlated(known) ==
    ExactMatches(known) \cup Contradictions(known) \cup (IF Semantic THEN SemanticCandidates(known) ELSE {})

-------------------------------------------------------------------------------
LinksInit ==
    /\ observed = [r \in DOMAIN FileOf |-> [state |-> "absent"]]
    /\ links = <<>>
    /\ reviews = <<>>
    /\ correlating = [w \in Workers |-> Free]
    /\ desk = [u \in Reviewers |-> Free]
    /\ begun = 0
    /\ edited = 0
    /\ unread = {}
    /\ fresh = [w \in Workers |-> {}]
    /\ crossed = {}

(* What the ghosts say when records are written.                                  *)
Changed(written) == unread' = unread \cup written /\ fresh' = [w \in Workers |-> fresh[w] \ written]

(* The run's second commit: the records of its file, but for those a reviewer has *)
(* ruled on.                                                                      *)
Store(w, file) ==
    /\ correlating[w] = Free
    /\ begun < MaxPasses
    /\ \E reading \in [{r \in DOMAIN FileOf : FileOf[r] = file} -> UNION {ReadingsOf[r] : r \in DOMAIN FileOf}] :
        LET written == {r \in DOMAIN reading : observed[r].state \in {"absent", "unreviewed"}}
        IN  /\ \A r \in DOMAIN reading : reading[r] \in ReadingsOf[r]
            /\ observed' = [r \in DOMAIN FileOf |->
                    IF r \in written THEN [state |-> "unreviewed", reading |-> reading[r]] ELSE observed[r]]
            /\ Changed(written)
    /\ correlating' = [correlating EXCEPT ![w] = [stage |-> "stored"]]
    /\ begun' = begun + 1
    /\ UNCHANGED <<links, reviews, desk, edited, crossed>>

(* Mutant: one link between two records is enough.                                *)
New_OnePerPair(candidate) == \A i \in DOMAIN links : links[i].key.records # candidate.key.records

(* Whether a row with a candidate's idempotency_key is there.                     *)
New(candidate) == \A i \in DOMAIN links : links[i].key # candidate.key

(* _persist_relations: all records of the case, less what is on record.           *)
Correlate(w) ==
    /\ correlating[w].stage = "stored"
    /\ correlating' = [correlating EXCEPT ![w] =
            [stage |-> "found",
             found |-> IF Cardinality(Present) < 2 THEN {} ELSE {c \in Correlated(Read) : New(c)}]]
    /\ fresh' = [fresh EXCEPT ![w] = Present]
    /\ UNCHANGED <<observed, links, reviews, desk, begun, edited, unread, crossed>>

Row(candidate) ==
    [key |-> candidate.key, status |-> "candidate",
     method |-> IF candidate.confidence <= SemanticConfidence THEN "semantic" ELSE "exact_match"]

(* Mutant: a row that has come in between is written over.                        *)
CommitLinks_Replace(w) ==
    /\ correlating[w].stage = "found"
    /\ links' = SelectSeq(links, LAMBDA row : \A c \in correlating[w].found : row.key # c.key) \o
                    SetToSeq({Row(c) : c \in correlating[w].found})
    /\ unread' = unread \ fresh[w]
    /\ correlating' = [correlating EXCEPT ![w] = Free]
    /\ UNCHANGED <<observed, reviews, desk, begun, edited, fresh, crossed>>

(* The third commit. A key that has come in between fails the run, which keeps its*)
(* records; Celery or a reviewer starts another.                                  *)
CommitLinks(w) ==
    /\ correlating[w].stage = "found"
    /\ IF \A c \in correlating[w].found : \A i \in DOMAIN links : links[i].key # c.key
       THEN /\ links' = links \o SetToSeq({Row(c) : c \in correlating[w].found})
            /\ unread' = unread \ fresh[w]
       ELSE UNCHANGED <<links, unread>>
    /\ correlating' = [correlating EXCEPT ![w] = Free]
    /\ UNCHANGED <<observed, reviews, desk, begun, edited, fresh, crossed>>

(* review_record: an edited reference, or none.                                   *)
EditReference(r) ==
    /\ r \in Present
    /\ edited < MaxEdits
    /\ \E v \in Edits :
        observed' = [observed EXCEPT ![r] =
                        [state |-> "corrected", reading |-> [@.reading EXCEPT !.ids["transaction_reference"] = v]]]
    /\ edited' = edited + 1
    /\ Changed({r})
    /\ UNCHANGED <<links, reviews, correlating, desk, begun, crossed>>

(* review_relation: the row is loaded, and written at the end of the request.     *)
BeginRuling(u, i) ==
    /\ desk[u] = Free
    /\ Len(reviews) + Cardinality({v \in Reviewers : desk[v] # Free}) < MaxReviews
    /\ \E decision \in {"confirmed", "rejected"} :
        desk' = [desk EXCEPT ![u] = [stage |-> "ruling", link |-> i, previous |-> links[i].status, decision |-> decision]]
    /\ crossed' = IF \E v \in Reviewers : desk[v] # Free /\ desk[v].link = i THEN crossed \cup {i} ELSE crossed
    /\ UNCHANGED <<observed, links, reviews, correlating, begun, edited, unread, fresh>>

(* A column set to the value it was loaded with is not written.                   *)
CommitRuling(u) ==
    /\ desk[u].stage = "ruling"
    /\ LET ruling == desk[u]
       IN  /\ links' = IF ruling.decision = ruling.previous THEN links
                       ELSE [links EXCEPT ![ruling.link].status = ruling.decision]
           /\ reviews' = Append(reviews, [link |-> ruling.link, previous |-> ruling.previous, new |-> ruling.decision])
    /\ desk' = [desk EXCEPT ![u] = Free]
    /\ UNCHANGED <<observed, correlating, begun, edited, unread, fresh, crossed>>

LinksNext ==
    \/ \E w \in Workers : (\E r \in DOMAIN FileOf : Store(w, FileOf[r])) \/ Correlate(w) \/ CommitLinks(w)
    \/ \E r \in DOMAIN FileOf : EditReference(r)
    \/ \E u \in Reviewers : (\E i \in DOMAIN links : BeginRuling(u, i)) \/ CommitRuling(u)

LinksSpec == LinksInit /\ [][LinksNext]_linkVars

-------------------------------------------------------------------------------
(* No link is missed: between two records that stored correlations have read, in  *)
(* whatever order and beside whatever other runs, every link there is to find is  *)
(* on record. It rests on each run storing its records before it reads the case.  *)
NoLinkIsMissed ==
    \A c \in Correlated(Read) : c.key.records \cap unread = {} => \E i \in DOMAIN links : links[i].key = c.key

(* One row per finding and a disagreement never without the agreement that makes  *)
(* it one: its two records are on record as naming the same transaction. What is  *)
(* shown as a weak lead is what the weak rule found.                              *)
LinksAreSound ==
    /\ \A i, j \in DOMAIN links : links[i].key = links[j].key => i = j
    /\ \A i \in DOMAIN links :
        LET key == links[i].key
        IN  /\ links[i].method = key.method
            /\ key.type = "contradiction" =>
                \E j \in DOMAIN links : links[j].key.type = "corroboration" /\ links[j].key.records = key.records
                                        /\ "transaction_reference" \in links[j].key.fields

(* A link stands as the last ruling on it left it, whatever runs come after, and  *)
(* the rulings on it follow on one another, but where two were made at once.      *)
Earlier(i, k) == {j \in 1..(k - 1) : reviews[j].link = i}
StoodAs(i, k, status) ==
    \/ Earlier(i, k) = {} /\ status = "candidate"
    \/ \E j \in Earlier(i, k) : reviews[j].new = status /\ \A l \in Earlier(i, k) : l <= j
RulingsStand ==
    \A i \in DOMAIN links \ crossed :
        /\ StoodAs(i, Len(reviews) + 1, links[i].status)
        /\ \A k \in DOMAIN reviews : reviews[k].link = i => StoodAs(i, k, reviews[k].previous)

LinksAreExact == NoLinkIsMissed /\ LinksAreSound /\ RulingsStand

================================================================================
