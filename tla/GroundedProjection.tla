-------------------------- MODULE GroundedProjection --------------------------
(***************************************************************************)
(* Grounded records of one case, the rulings reviewers make on them, and     *)
(* their projection onto the timeline and the transaction trail:             *)
(* run_grounded_pipeline (services/grounded_pipeline.py), project_case       *)
(* (services/grounded_projection.py), review_record (record_review.py) and    *)
(* apply_review (review.py), over one database at READ COMMITTED.             *)
(*                                                                         *)
(* Each evidence file yields one record and, if it is a ledger, one           *)
(* deterministic event with its transaction. A record's amount is the same   *)
(* in every reading; what varies is the sender and whether the figure is a    *)
(* transfer or a balance. A worker's own record holds what its session has    *)
(* loaded, and what it has written and not committed; a reviewer's sheet      *)
(* holds what the request has loaded and decided.                             *)
(***************************************************************************)
EXTENDS Naturals, Sequences, FiniteSets, FiniteSetsExt, SequencesExt

CONSTANTS
    Files,        \* evidence files of the case
    Ledgers,      \* files whose parser finds a transfer by itself
    Workers,      \* sessions that run the grounded pipeline
    Reviewers,    \* sessions of people who rule on records
    Senders,      \* names a reading or a reviewer may give as the sender
    Readings,     \* what the models may make of a file
    Leads,        \* idempotency keys the network rules can raise
    Basis,        \* per lead: the sets of files whose records raise it
    Faults,       \* which of the things in FaultKinds happen
    Overlap,      \* may reviewers rule while a grounded run is under way
    MaxRuns,      \* bound: grounded runs in all
    MaxRulings    \* bound: rulings on records, and on rows, in all

Null == "null"
Figures == {"transfer", "balance"}
FaultKinds == {"run", "projection"}

ASSUME ProjectionAssumption ==
    /\ IsFiniteSet(Files) /\ "none" \notin Files
    /\ Ledgers \subseteq Files
    /\ Null \notin Senders
    /\ Readings \subseteq [sender : Senders \cup {Null}, figure : Figures]
    /\ Basis \in [Leads -> SUBSET SUBSET Files]
    /\ Faults \subseteq FaultKinds
    /\ Overlap \in BOOLEAN
    /\ MaxRuns \in Nat /\ MaxRulings \in Nat

VARIABLES
    record,    \* normalized_records: review state and reading of each file
    history,   \* record_reviews: the rulings on each file's record
    desk,      \* the ruling each reviewer's session is about to commit
    crossed,   \* ghost: the records two rulings were open on at once
    timeline,  \* events, by order of insertion; live until deleted
    trail,     \* transactions, likewise
    leads,     \* alerts raised by the network rules
    work,      \* what each session is doing
    runs,      \* grounded runs so far
    rulings    \* rulings so far

vars == <<record, history, desk, crossed, timeline, trail, leads, work, runs, rulings>>

States == {"none", "unreviewed", "confirmed", "corrected", "rejected", "marked_unknown"}
Unread == [sender |-> Null, figure |-> "balance"]
NoRecord == [state |-> "none", reading |-> Unread]

\* A session at some step, with nothing loaded and nothing staged.
At(pc, f) ==
    [pc |-> pc, file |-> f,
     loaded |-> NoRecord, draft |-> NoRecord,       \* _upsert_record
     seenRecords |-> {}, seenEvents |-> {},         \* purge_orphan_projections
     dropEvents |-> {}, dropTrail |-> {},           \* rows it deletes
     snap |-> [g \in Files |-> NoRecord],           \* records project_case loaded
     own |-> [g \in Files |-> 0],                   \* the event of each, if it has one
     made |-> {}, moved |-> {},                     \* records whose event it inserts, updates
     paid |-> {}, filled |-> {},                    \* transactions it inserts, fills in
     raised |-> {}]

Idle == At("idle", "none")
Busy(w) == work[w].pc # "idle"

\* A reviewer's session with nothing open.
NoSheet == [file |-> "none", loaded |-> NoRecord, action |-> "confirm", new |-> Null]
Ruling(v) == desk[v] # NoSheet

Recorded == {f \in Files : record[f].state # "none"}
LiveEvents == {i \in DOMAIN timeline : timeline[i].live}
LiveTrail == {t \in DOMAIN trail : trail[t].live}

\* Rows a session has written and not committed: an UPDATE or DELETE of such
\* a row by another session waits.
TouchedEvents(w) == work[w].dropEvents \cup {work[w].own[f] : f \in work[w].moved}
TouchedTrail(w) == work[w].dropTrail \cup work[w].filled
EventFree(i) == \A w \in Workers : i \notin TouchedEvents(w)
TrailFree(t) == \A w \in Workers : t \notin TouchedTrail(w)

EventRow(f, grounded, reading) ==
    [of |-> f, grounded |-> grounded, reading |-> reading, review |-> "unreviewed",
     live |-> TRUE]
TrailRow(f, i, sender) ==
    [of |-> f, event |-> i, sender |-> sender, review |-> "unreviewed", live |-> TRUE]

(***************************************************************************)
(* run_grounded_pipeline                                                   *)
(***************************************************************************)

Ingested(f) == \E i \in DOMAIN timeline : timeline[i].of = f /\ ~timeline[i].grounded

\* The deterministic pipeline has committed its event, and the transaction of
\* a ledger, before the grounded run begins; a later run finds them stored.
Start(w) ==
    /\ work[w].pc = "idle"
    /\ runs < MaxRuns
    /\ Overlap \/ \A v \in Reviewers : ~Ruling(v)
    /\ runs' = runs + 1
    /\ \E f \in Files :
          /\ work' = [work EXCEPT ![w] = At("reading", f)]
          /\ timeline' = IF Ingested(f) THEN timeline
                         ELSE Append(timeline, EventRow(f, FALSE, Unread))
          /\ trail' = IF Ingested(f) \/ f \notin Ledgers THEN trail
                      ELSE Append(trail, TrailRow(f, Len(timeline) + 1, Null))
    /\ UNCHANGED <<record, history, desk, crossed, leads, rulings>>

\* Mutant: a record that has been ruled on is read again.
Upsert_RulingIgnored(w) ==
    LET f == work[w].file
    IN  /\ work[w].pc = "reading"
        /\ \E reading \in Readings :
              work' = [work EXCEPT ![w] = [@ EXCEPT !.pc = "staged", !.loaded = record[f],
                  !.draft = [state |-> IF record[f].state = "none" THEN "unreviewed"
                                       ELSE record[f].state,
                             reading |-> reading]]]
        /\ UNCHANGED <<record, history, desk, crossed, timeline, trail, leads, runs, rulings>>

\* _upsert_record after the model pass of this unit. What it assigns is
\* written when the model passes of all units are done.
Upsert(w) ==
    LET f == work[w].file
    IN  /\ work[w].pc = "reading"
        /\ \E reading \in Readings :
              work' = [work EXCEPT ![w] = [@ EXCEPT !.pc = "staged", !.loaded = record[f],
                  !.draft = IF record[f].state \in {"none", "unreviewed"}
                            THEN [state |-> "unreviewed", reading |-> reading]
                            ELSE record[f]]]
        /\ UNCHANGED <<record, history, desk, crossed, timeline, trail, leads, runs, rulings>>

\* The ORM writes a column only if its value differs from the one loaded.
Written(now, loaded, new) ==
    [sender |-> IF loaded.sender = new.sender THEN now.sender ELSE new.sender,
     figure |-> IF loaded.figure = new.figure THEN now.figure ELSE new.figure]

\* Mutant: the commit writes the review state back with the reading.
CommitRecord_StateToo(w) ==
    LET f == work[w].file
        new == work[w].draft
        loaded == work[w].loaded
    IN  /\ work[w].pc = "staged"
        /\ IF loaded.state = "none" /\ record[f].state # "none"
           THEN work' = [work EXCEPT ![w] = Idle] /\ UNCHANGED record
           ELSE /\ record' = [record EXCEPT ![f] =
                       [state |-> new.state,
                        reading |-> Written(@.reading, loaded.reading, new.reading)]]
                /\ work' = [work EXCEPT ![w] = At("recorded", f)]
        /\ UNCHANGED <<history, desk, crossed, timeline, trail, leads, runs, rulings>>

\* What is stored of a record: a new row, or the columns that were assigned.
Merged(now, loaded, new) ==
    IF loaded.state = "none" THEN new
    ELSE [now EXCEPT !.reading = Written(now.reading, loaded.reading, new.reading)]

\* The commit. A record another session inserted meanwhile violates
\* uq_normalized_record_version and ends the attempt.
CommitRecord(w) ==
    LET f == work[w].file
        new == work[w].draft
        loaded == work[w].loaded
    IN  /\ work[w].pc = "staged"
        /\ IF loaded.state = "none" /\ record[f].state # "none"
           THEN work' = [work EXCEPT ![w] = Idle] /\ UNCHANGED record
           ELSE /\ record' = [record EXCEPT ![f] = Merged(record[f], loaded, new)]
                /\ work' = [work EXCEPT ![w] = At("recorded", f)]
        /\ UNCHANGED <<history, desk, crossed, timeline, trail, leads, runs, rulings>>

\* The attempt fails before its commit, or in _persist_relations after it.
RunFails(w) ==
    /\ "run" \in Faults
    /\ work[w].pc \in {"reading", "staged", "recorded"}
    /\ work' = [work EXCEPT ![w] = Idle]
    /\ UNCHANGED <<record, history, desk, crossed, timeline, trail, leads, runs, rulings>>

(***************************************************************************)
(* project_case                                                            *)
(***************************************************************************)

\* Mutant: of the events, only the projected ones count as existing.
PurgeReads_ProjectedOnly(w) ==
    /\ work[w].pc = "recorded"
    /\ work' = [work EXCEPT ![w] = [@ EXCEPT !.pc = "purging", !.seenRecords = Recorded,
                                             !.seenEvents = {i \in LiveEvents : timeline[i].grounded}]]
    /\ UNCHANGED <<record, history, desk, crossed, timeline, trail, leads, runs, rulings>>

\* purge_orphan_projections loads the identifiers of the records and events
\* that exist.
PurgeReads(w) ==
    /\ work[w].pc = "recorded"
    /\ work' = [work EXCEPT ![w] = [@ EXCEPT !.pc = "purging", !.seenRecords = Recorded,
                                             !.seenEvents = LiveEvents]]
    /\ UNCHANGED <<record, history, desk, crossed, timeline, trail, leads, runs, rulings>>

\* It then loads the events and the transactions, and deletes the projected
\* events without a record it has seen and the transactions without an event
\* it has seen.
Purge(w) ==
    LET orphans == {i \in LiveEvents : /\ timeline[i].grounded
                                       /\ timeline[i].of \notin work[w].seenRecords}
        kept == work[w].seenEvents \ orphans
        loose == {t \in LiveTrail : trail[t].event \notin kept}
    IN  /\ work[w].pc = "purging"
        /\ \A i \in orphans : EventFree(i)
        /\ \A t \in loose : TrailFree(t)
        /\ work' = [work EXCEPT ![w] = [@ EXCEPT !.pc = "projecting", !.dropEvents = orphans,
                                                 !.dropTrail = loose]]
        /\ UNCHANGED <<record, history, desk, crossed, timeline, trail, leads, runs, rulings>>

\* What the session sees of the tables: its deletions have been flushed.
SeenTimeline(w) == LiveEvents \ work[w].dropEvents
SeenTrail(w) == LiveTrail \ work[w].dropTrail

\* Mutant: the deletions wait for the commit, so the next query still sees
\* what they delete.
EventsOf_NotFlushed(w, f) ==
    {i \in LiveEvents : timeline[i].grounded /\ timeline[i].of = f}

\* Mutant: an event that has been ruled on is not found again.
EventsOf_UnreviewedOnly(w, f) ==
    {i \in SeenTimeline(w) : /\ timeline[i].grounded /\ timeline[i].of = f
                             /\ timeline[i].review = "unreviewed"}

EventsOf(w, f) == {i \in SeenTimeline(w) : timeline[i].grounded /\ timeline[i].of = f}

\* _existing_event: the first of the record's events, 0 if there is none.
ExistingEvent(w, f) ==
    IF f \notin Recorded \/ EventsOf(w, f) = {} THEN 0 ELSE Min(EventsOf(w, f))

\* Mutant: project_record moves an event that has been ruled on.
Open_All(w) == Recorded

\* The records project_record goes on with: no event yet, or one nobody has
\* ruled on. Every confidence band is projectable.
Open(w) ==
    {f \in Recorded : \/ ExistingEvent(w, f) = 0
                      \/ timeline[ExistingEvent(w, f)].review = "unreviewed"}

PaymentsOf(w, f) ==
    IF ExistingEvent(w, f) = 0 THEN {}
    ELSE {t \in SeenTrail(w) : trail[t].event = ExistingEvent(w, f)}

IsTransfer(f) == record[f].reading.figure = "transfer"

\* Mutant: a figure read as a balance keeps its transaction.
Withdrawn_None(w) == {}

\* _project_transaction withdraws the transaction of a figure that turned out
\* a balance, unless it has been ruled on.
Withdrawn(w) ==
    {t \in LiveTrail : \E f \in Open(w) :
        /\ ~IsTransfer(f)
        /\ t \in PaymentsOf(w, f)
        /\ trail[t].review = "unreviewed"}

\* _project_transaction and _enrich_sibling_transactions fill in the sender of
\* the file's transactions that have none and that nobody has ruled on.
Filled(w) ==
    {t \in SeenTrail(w) :
        /\ trail[t].of \in Open(w) /\ IsTransfer(trail[t].of)
        /\ record[trail[t].of].reading.sender # Null
        /\ trail[t].sender = Null
        /\ trail[t].review = "unreviewed"}

\* evaluate_network_alerts: leads the records support and no session stored.
Raised(known) == {k \in Leads : \E fs \in Basis[k] : fs \subseteq known} \ leads

\* Records whose event is inserted, whose event says something else by now,
\* and whose transaction is inserted.
Made(w) == {f \in Open(w) : ExistingEvent(w, f) = 0}
Moved(w) ==
    {f \in Open(w) : /\ ExistingEvent(w, f) # 0
                     /\ timeline[ExistingEvent(w, f)].reading # record[f].reading}
Paid(w) == {f \in Open(w) : IsTransfer(f) /\ PaymentsOf(w, f) = {}}

\* project_record for every record of the case, then the network rules. The
\* rows it updates or deletes must not be another session's uncommitted work.
Project(w) ==
    /\ work[w].pc = "projecting"
    /\ \A f \in Moved(w) : EventFree(ExistingEvent(w, f))
    /\ \A t \in Withdrawn(w) \cup Filled(w) : TrailFree(t)
    /\ work' = [work EXCEPT ![w] =
           [@ EXCEPT !.pc = "projected", !.snap = record,
                     !.own = [f \in Files |-> ExistingEvent(w, f)],
                     !.made = Made(w), !.moved = Moved(w), !.paid = Paid(w),
                     !.dropTrail = work[w].dropTrail \cup Withdrawn(w), !.filled = Filled(w),
                     !.raised = Raised(Recorded)]]
    /\ UNCHANGED <<record, history, desk, crossed, timeline, trail, leads, runs, rulings>>

\* What the commit makes of each row that is stored, and the rows it adds.
EventAfter(s, i) ==
    IF i \in s.dropEvents THEN [timeline[i] EXCEPT !.live = FALSE]
    ELSE IF \E f \in s.moved : s.own[f] = i
         THEN [timeline[i] EXCEPT !.reading = s.snap[timeline[i].of].reading]
         ELSE timeline[i]

TransactionAfter(s, t) ==
    IF t \in s.dropTrail THEN [trail[t] EXCEPT !.live = FALSE]
    ELSE IF t \in s.filled THEN [trail[t] EXCEPT !.sender = s.snap[trail[t].of].reading.sender]
         ELSE trail[t]

AddedEvents(s) ==
    LET made == SetToSeq(s.made)
    IN  [n \in DOMAIN made |-> EventRow(made[n], TRUE, s.snap[made[n]].reading)]

EventIn(s, f) ==
    IF s.own[f] # 0 THEN s.own[f]
    ELSE Len(timeline) + (CHOOSE n \in DOMAIN AddedEvents(s) : AddedEvents(s)[n].of = f)

AddedTransactions(s) ==
    LET paid == SetToSeq(s.paid)
    IN  [n \in DOMAIN paid |-> TrailRow(paid[n], EventIn(s, paid[n]), s.snap[paid[n]].reading.sender)]

\* A lead another session stored meanwhile violates the unique index, an
\* UPDATE of a row another session deleted matches nothing.
Refused(s) ==
    \/ s.raised \cap leads # {}
    \/ \E f \in s.moved : ~timeline[s.own[f]].live
    \/ \E t \in s.filled : ~trail[t].live

\* The commit; if it is refused, the whole projection is rolled back.
CommitProjection(w) ==
    LET s == work[w]
    IN  /\ s.pc = "projected"
        /\ IF Refused(s)
           THEN work' = [work EXCEPT ![w] = Idle] /\ UNCHANGED <<timeline, trail, leads>>
           ELSE /\ timeline' = [i \in DOMAIN timeline |-> EventAfter(s, i)] \o AddedEvents(s)
                /\ trail' = [t \in DOMAIN trail |-> TransactionAfter(s, t)] \o AddedTransactions(s)
                /\ leads' = leads \cup s.raised
                /\ work' = [work EXCEPT ![w] = At("done", s.file)]
        /\ UNCHANGED <<record, history, desk, crossed, runs, rulings>>

\* Anything else raised in project_case, and PostgreSQL ending one of two
\* sessions that wait for each other: the projection is rolled back, the
\* records stay.
ProjectionFails(w) ==
    /\ "projection" \in Faults
    /\ work[w].pc \in {"purging", "projecting", "projected"}
    /\ work' = [work EXCEPT ![w] = Idle]
    /\ UNCHANGED <<record, history, desk, crossed, timeline, trail, leads, runs, rulings>>

Return(w) ==
    /\ work[w].pc = "done"
    /\ work' = [work EXCEPT ![w] = Idle]
    /\ UNCHANGED <<record, history, desk, crossed, timeline, trail, leads, runs, rulings>>

(***************************************************************************)
(* Reviewers                                                               *)
(***************************************************************************)

MayRule ==
    /\ rulings < MaxRulings
    /\ rulings' = rulings + 1
    /\ Overlap \/ \A w \in Workers : ~Busy(w)

\* Mutant: the action's name is taken for the state it leads to.
StateFor_Action(action) == action

Actions == {"confirm", "edit", "reject", "mark_unknown"}

\* REVIEW_STATE_FOR_ACTION.
StateFor(action) ==
    CASE action = "confirm" -> "confirmed"
      [] action = "edit" -> "corrected"
      [] action = "reject" -> "rejected"
      [] action = "mark_unknown" -> "marked_unknown"

\* review_record loads the record, without a lock, and decides on what it
\* has loaded.
BeginReview(v, f) ==
    /\ f \in Recorded
    /\ ~Ruling(v)
    /\ MayRule
    /\ \E action \in Actions :
       \E new \in CASE action = "edit" -> Senders
                    [] action = "mark_unknown" -> {Null}
                    [] OTHER -> {record[f].reading.sender} :
          desk' = [desk EXCEPT ![v] = [file |-> f, loaded |-> record[f], action |-> action,
                                       new |-> new]]
    /\ crossed' = crossed \cup (IF \E u \in Reviewers : desk[u].file = f THEN {f} ELSE {})
    /\ UNCHANGED <<record, history, timeline, trail, leads, work, runs>>

\* What a ruling leaves in the record: the columns it has changed.
Ruled(now, s) ==
    [state |-> IF StateFor(s.action) = s.loaded.state THEN now.state ELSE StateFor(s.action),
     reading |-> Written(now.reading, s.loaded.reading,
                         [s.loaded.reading EXCEPT !.sender = s.new])]

\* The commit: the ruling, with the value it replaces beside the new one.
CommitReview(v) ==
    LET s == desk[v]
    IN  /\ Ruling(v)
        /\ record' = [record EXCEPT ![s.file] = Ruled(@, s)]
        /\ history' = [history EXCEPT ![s.file] = Append(@,
               [action |-> s.action, previous |-> s.loaded.reading.sender, new |-> s.new])]
        /\ desk' = [desk EXCEPT ![v] = NoSheet]
        /\ UNCHANGED <<crossed, timeline, trail, leads, work, runs, rulings>>

\* apply_review on an event, and on a transaction: any later decision counts
\* as a ruling too.
ReviewEvent(i) ==
    /\ i \in LiveEvents
    /\ timeline[i].review = "unreviewed"
    /\ EventFree(i)
    /\ MayRule
    /\ timeline' = [timeline EXCEPT ![i].review = "ruled"]
    /\ UNCHANGED <<record, history, desk, crossed, trail, leads, work, runs>>

ReviewTransaction(t) ==
    /\ t \in LiveTrail
    /\ trail[t].review = "unreviewed"
    /\ TrailFree(t)
    /\ MayRule
    /\ trail' = [trail EXCEPT ![t].review = "ruled"]
    /\ UNCHANGED <<record, history, desk, crossed, timeline, leads, work, runs>>

-------------------------------------------------------------------------------

Init ==
    /\ record = [f \in Files |-> NoRecord]
    /\ history = [f \in Files |-> <<>>]
    /\ desk = [v \in Reviewers |-> NoSheet]
    /\ crossed = {}
    /\ timeline = <<>>
    /\ trail = <<>>
    /\ leads = {}
    /\ work = [w \in Workers |-> Idle]
    /\ runs = 0
    /\ rulings = 0

Next ==
    \/ \E w \in Workers :
          \/ Start(w) \/ Upsert(w) \/ CommitRecord(w) \/ RunFails(w)
          \/ PurgeReads(w) \/ Purge(w) \/ Project(w) \/ CommitProjection(w)
          \/ ProjectionFails(w) \/ Return(w)
    \/ \E v \in Reviewers : CommitReview(v) \/ \E f \in Files : BeginReview(v, f)
    \/ \E i \in DOMAIN timeline : ReviewEvent(i)
    \/ \E t \in DOMAIN trail : ReviewTransaction(t)

Spec == Init /\ [][Next]_vars

(***************************************************************************)
(* Properties.                                                             *)
(***************************************************************************)

\* The tables hold what the code can put there, and a session what it has
\* read there.
ReadingRows == [sender : Senders \cup {Null}, figure : Figures]
RecordRows == [state : States, reading : ReadingRows]
HistoryRows == [action : Actions, previous : Senders \cup {Null}, new : Senders \cup {Null}]
Sheets ==
    [file : Files \cup {"none"}, loaded : RecordRows, action : Actions, new : Senders \cup {Null}]
EventRows ==
    [of : Files, grounded : BOOLEAN, reading : ReadingRows, review : {"unreviewed", "ruled"},
     live : BOOLEAN]
TrailRows ==
    [of : Files, event : DOMAIN timeline, sender : Senders \cup {Null},
     review : {"unreviewed", "ruled"}, live : BOOLEAN]
Steps == {"idle", "reading", "staged", "recorded", "purging", "projecting", "projected", "done"}
Sessions ==
    [pc : Steps, file : Files \cup {"none"}, loaded : RecordRows, draft : RecordRows,
     seenRecords : SUBSET Files, seenEvents : SUBSET DOMAIN timeline,
     dropEvents : SUBSET DOMAIN timeline, dropTrail : SUBSET DOMAIN trail,
     snap : [Files -> RecordRows], own : [Files -> 0..Len(timeline)],
     made : SUBSET Files, moved : SUBSET Files, paid : SUBSET Files,
     filled : SUBSET DOMAIN trail, raised : SUBSET Leads]

TypeOK ==
    /\ record \in [Files -> RecordRows]
    /\ history \in [Files -> Seq(HistoryRows)]
    /\ desk \in [Reviewers -> Sheets] /\ crossed \subseteq Files
    /\ \A v \in Reviewers : Ruling(v) => desk[v].file \in Files
    /\ timeline \in Seq(EventRows) /\ trail \in Seq(TrailRows)
    /\ leads \subseteq Leads
    /\ work \in [Workers -> Sessions]
    /\ \A w \in Workers : Busy(w) => work[w].file \in Files
    /\ runs \in 0..MaxRuns /\ rulings \in 0..MaxRulings

\* The rulings that set a value.
Corrections(f) == {n \in DOMAIN history[f] : history[f][n].action \in {"edit", "mark_unknown"}}

\* The history explains the record: a value a reviewer has set is the value
\* the record has, and each correction replaced what the one before it set
\* ("reprocessing must not silently undo that", _upsert_record; "an edit
\* records the previous value beside the new one", record_review.py). Of two
\* rulings open at once on one record nothing is promised.
HistoryExplainsRecord ==
    \A f \in Files \ crossed : \A n \in Corrections(f) :
        LET later == {m \in Corrections(f) : m > n}
            set == history[f][n].new
        IN  IF later = {} THEN record[f].reading.sender = set
                          ELSE history[f][Min(later)].previous = set

\* The review state of a record whose rulings took turns is the outcome of the
\* last one, whatever grounded runs overlap with the reviewers. (Of two open
\* at once, one that leaves the state it has loaded writes none, and the
\* other's stays.)
StateFollowsHistory ==
    \A f \in Recorded \ crossed :
        record[f].state = IF history[f] = <<>> THEN "unreviewed"
                          ELSE StateFor(Last(history[f]).action)

\* Reprocessing neither deletes nor changes an event or a transaction a
\* reviewer has ruled on ("must not move it underneath them",
\* grounded_projection.py).
RuledRowsUnmoved ==
    [][/\ \A i \in LiveEvents : timeline[i].review = "ruled" =>
              timeline'[i] = timeline[i]
       /\ \A t \in LiveTrail : trail[t].review = "ruled" => trail'[t] = trail[t]]_vars

\* "Each grounded record owns exactly one projected event"
\* (grounded_projection.py): reprocessing updates rather than duplicates.
OneEventPerRecord ==
    \A f \in Files :
        Cardinality({i \in LiveEvents : timeline[i].grounded /\ timeline[i].of = f}) <= 1

\* A record that has its place on the timeline keeps one, though projections
\* of other files purge and rebuild the case around it.
RecordsStayOnTimeline ==
    [][\A f \in Files :
          (\E i \in LiveEvents : timeline[i].grounded /\ timeline[i].of = f)
              => \E i \in DOMAIN timeline' : /\ timeline'[i].live /\ timeline'[i].grounded
                                             /\ timeline'[i].of = f]_vars

\* When a projection has committed, timeline and trail say what the records
\* say: a record's event carries its reading, a transfer has its transaction
\* and a balance has none, except where a reviewer has ruled on the row.
SurfacesMatchRecords ==
    (\E w \in Workers : work[w].pc = "done") =>
        \A f \in Recorded : \E i \in LiveEvents :
            /\ timeline[i].grounded /\ timeline[i].of = f
            /\ timeline[i].review = "ruled" \/
                  LET rows == {t \in LiveTrail : trail[t].event = i}
                  IN  /\ timeline[i].reading = record[f].reading
                      /\ IsTransfer(f) => rows # {}
                      /\ ~IsTransfer(f) => \A t \in rows : trail[t].review = "ruled"

\* A transfer the parser found in a ledger stays in the trail: its event is
\* there for as long ("Drop projected rows whose grounded record no longer
\* exists", purge_orphan_projections).
LedgerTransfersKept ==
    \A f \in Ledgers : Ingested(f) =>
        \E t \in LiveTrail : trail[t].of = f /\ ~timeline[trail[t].event].grounded

===============================================================================
