----------------------- MODULE GroundedProjectionProofs -----------------------
(***************************************************************************)
(* Proofs about GroundedProjection: what the tables and the sessions hold,    *)
(* that rulings explain a record, and what projections may do to the timeline *)
(* and the trail, whoever else is at work.                                   *)
(***************************************************************************)
EXTENDS GroundedProjection, FiniteSetTheorems, WellFoundedInduction, TLAPS

\* The rows of a set, listed: each once.
LEMMA SetAsSeq ==
    ASSUME NEW S, IsFiniteSet(S)
    PROVE  /\ SetToSeq(S) \in Seq(S)
           /\ \A x \in S : \E n \in DOMAIN SetToSeq(S) : SetToSeq(S)[n] = x
           /\ \A m, n \in DOMAIN SetToSeq(S) : SetToSeq(S)[m] = SetToSeq(S)[n] => m = n
<1> DEFINE n == Cardinality(S)
           s == SetToSeq(S)
<1>1. n \in Nat /\ ExistsBijection(1..n, S)
  BY FS_CardinalityType
<1>2. PICK f \in [1..n -> S] : IsInjective(f)
  BY <1>1 DEF ExistsBijection, Bijection, Injection, IsInjective
<1>3. s \in [1..n -> S] /\ IsInjective(s)
  BY <1>2 DEF SetToSeq
<1>4. s \in Injection(1..n, S)
  BY <1>3 DEF Injection, IsInjective
<1>5. Cardinality(1..n) = n /\ IsFiniteSet(1..n)
  BY <1>1, FS_Interval
<1>6. s \in Surjection(1..n, S)
  BY <1>4, <1>5, FS_Surjection, FS_Injection
<1> QED
  BY <1>1, <1>3, <1>6 DEF Surjection, IsInjective

\* A non-empty set of positions has a first one.
LEMMA FirstExists ==
    ASSUME NEW S \in SUBSET Nat, S # {}
    PROVE  Min(S) \in S /\ \A i \in S : Min(S) <= i
<1> DEFINE before == OpToRel(<, Nat)
<1>1. IsWellFoundedOn(before, Nat)
  BY NatLessThanWellFounded
<1> HIDE DEF before
<1>2. PICK i \in S : \A j \in S : ~(<<j, i>> \in before)
  BY <1>1, WFMin
<1>3. \A j \in S : ~(j < i)
  BY <1>2 DEF before, OpToRel
<1>4. \A j \in S : i <= j
  BY <1>3
<1> QED
  BY <1>4 DEF Min

\* A projection pays only records whose event is stored or about to be.
PaidHaveEvents ==
    \A w \in Workers : work[w].pc = "projected" =>
        \A f \in work[w].paid : work[w].own[f] # 0 \/ f \in work[w].made

Basics == TypeOK /\ PaidHaveEvents

LEMMA FreshSession ==
    ASSUME TypeOK, NEW pc \in Steps, NEW f \in Files \cup {"none"}
    PROVE  At(pc, f) \in Sessions /\ At(pc, f).pc = pc /\ At(pc, f).file = f
<1>1. NoRecord \in RecordRows
  BY DEF NoRecord, Unread, RecordRows, ReadingRows, States, Figures
<1>2. 0 \in 0..Len(timeline)
  BY DEF TypeOK
<1> QED
  BY <1>1, <1>2 DEF At, Sessions

LEMMA BasicsStart == Init => Basics
<1> SUFFICES ASSUME Init PROVE Basics
  OBVIOUS
<1> USE ProjectionAssumption DEF Init
<1>1. NoRecord \in RecordRows
  BY DEF NoRecord, Unread, RecordRows, ReadingRows, States, Figures
<1>2. timeline \in Seq(EventRows) /\ trail \in Seq(TrailRows) /\ Len(timeline) = 0
  OBVIOUS
<1>3. Idle \in Sessions /\ Idle.pc = "idle"
  BY <1>1, <1>2 DEF Idle, At, Sessions, Steps
<1>4. work \in [Workers -> Sessions] /\ \A w \in Workers : work[w].pc = "idle"
  BY <1>3
<1>5. record \in [Files -> RecordRows] /\ history \in [Files -> Seq(HistoryRows)] /\ leads \subseteq Leads
  BY <1>1
<1>6. runs \in 0..MaxRuns /\ rulings \in 0..MaxRulings
  OBVIOUS
<1>7. /\ desk \in [Reviewers -> Sheets] /\ crossed \subseteq Files
      /\ \A v \in Reviewers : Ruling(v) => desk[v].file \in Files
  BY <1>1 DEF NoSheet, Sheets, Actions, Ruling
<1> QED
  BY <1>2, <1>4, <1>5, <1>6, <1>7 DEF Basics, TypeOK, PaidHaveEvents, Busy

\* What is true of sessions and transactions stays true of them while the
\* tables grow.
LEMMA TablesGrow ==
    ASSUME TypeOK, Len(timeline') \in Nat, Len(timeline) <= Len(timeline'), timeline' \in Seq(EventRows),
           Len(trail') \in Nat, Len(trail) <= Len(trail'), DOMAIN trail' = 1..Len(trail')
    PROVE  Sessions \subseteq Sessions' /\ TrailRows \subseteq TrailRows' /\ EventRows' = EventRows
           /\ trail \in Seq(TrailRows')
<1>1. /\ DOMAIN timeline \subseteq DOMAIN timeline' /\ DOMAIN trail \subseteq DOMAIN trail'
      /\ 0..Len(timeline) \subseteq 0..Len(timeline')
  BY DEF TypeOK
<1>2. EventRows' = EventRows /\ RecordRows' = RecordRows
  BY DEF EventRows, ReadingRows, RecordRows
<1>3. TrailRows \subseteq TrailRows'
  BY <1>1 DEF TrailRows
<1>4. trail \in Seq(TrailRows')
  BY <1>3 DEF TypeOK
<1>5. [Files -> 0..Len(timeline)] \subseteq [Files -> 0..Len(timeline')]
  BY <1>1
<1>6. Sessions \subseteq Sessions'
  BY <1>1, <1>2, <1>5 DEF Sessions
<1> QED
  BY <1>2, <1>3, <1>4, <1>6

\* A step of a session that leaves the tables of events and transactions.
LEMMA SessionStep ==
    ASSUME Basics, NEW w \in Workers, NEW s \in Sessions, work' = [work EXCEPT ![w] = s],
           s.pc # "idle" => s.file \in Files,
           s.pc = "projected" => \A f \in s.paid : s.own[f] # 0 \/ f \in s.made,
           UNCHANGED <<timeline, trail, history, desk, crossed, leads, runs, rulings>>,
           record' \in [Files -> RecordRows]
    PROVE  Basics'
<1>1. Sessions' = Sessions /\ TrailRows' = TrailRows /\ RecordRows' = RecordRows /\ EventRows' = EventRows
      /\ HistoryRows' = HistoryRows /\ Sheets' = Sheets /\ \A v \in Reviewers : Ruling(v)' = Ruling(v)
  BY DEF Sessions, TrailRows, RecordRows, EventRows, HistoryRows, ReadingRows, Sheets, Ruling
<1>2. /\ work' \in [Workers -> Sessions] /\ work'[w] = s
      /\ \A x \in Workers : x # w => work'[x] = work[x]
  BY DEF Basics, TypeOK
<1>3. \A x \in Workers : Busy(x)' => work'[x].file \in Files
  BY <1>2 DEF Basics, TypeOK, Busy
<1>4. PaidHaveEvents'
  BY <1>2 DEF Basics, PaidHaveEvents
<1> QED
  BY <1>1, <1>2, <1>3, <1>4 DEF Basics, TypeOK

\* Sessions that end their run, or go on to the next part of it, start anew.
LEMMA BasicsKeptByFresh ==
    ASSUME Basics, NEW w \in Workers, RunFails(w) \/ ProjectionFails(w) \/ Return(w)
    PROVE  Basics'
<1>1. Idle \in Sessions /\ Idle.pc = "idle"
  BY FreshSession DEF Basics, Idle, Steps
<1> QED
  BY <1>1, SessionStep DEF RunFails, ProjectionFails, Return, Basics, TypeOK

LEMMA BasicsKeptByUpsert == ASSUME Basics, NEW w \in Workers, Upsert(w) PROVE Basics'
<1> PICK f : f = work[w].file
  OBVIOUS
<1>0. f \in Files /\ work[w] \in Sessions /\ record[f] \in RecordRows /\ record \in [Files -> RecordRows]
  BY DEF Upsert, Basics, TypeOK, Busy
<1>1. PICK reading \in Readings :
          work' = [work EXCEPT ![w] = [@ EXCEPT !.pc = "staged", !.loaded = record[f],
                  !.draft = IF record[f].state \in {"none", "unreviewed"}
                            THEN [state |-> "unreviewed", reading |-> reading]
                            ELSE record[f]]]
  BY DEF Upsert
<1> DEFINE d == IF record[f].state \in {"none", "unreviewed"}
                THEN [state |-> "unreviewed", reading |-> reading] ELSE record[f]
           s == [work[w] EXCEPT !.pc = "staged", !.loaded = record[f], !.draft = d]
<1>2. d \in RecordRows
  BY <1>0, ProjectionAssumption DEF RecordRows, ReadingRows, States
<1>3. work' = [work EXCEPT ![w] = s]
  BY <1>1
<1> HIDE DEF d
<1>4. s \in Sessions /\ s.pc = "staged" /\ s.file = f
  BY <1>0, <1>2 DEF Sessions, Steps
<1> HIDE DEF s
<1> QED
  BY <1>0, <1>3, <1>4, SessionStep DEF Upsert

LEMMA MergedType ==
    ASSUME NEW a \in RecordRows, NEW b \in RecordRows, NEW c \in RecordRows
    PROVE  Merged(a, b, c) \in RecordRows
<1>1. Written(a.reading, b.reading, c.reading) \in ReadingRows
  BY DEF Written, RecordRows, ReadingRows
<1> QED
  BY <1>1 DEF Merged, RecordRows

LEMMA BasicsKeptByRecord == ASSUME Basics, NEW w \in Workers, CommitRecord(w) PROVE Basics'
<1> PICK f : f = work[w].file
  OBVIOUS
<1>0. /\ f \in Files /\ work[w] \in Sessions /\ record[f] \in RecordRows /\ record \in [Files -> RecordRows]
      /\ work[w].loaded \in RecordRows /\ work[w].draft \in RecordRows
  BY DEF CommitRecord, Basics, TypeOK, Busy, Sessions
<1>1. /\ Idle \in Sessions /\ Idle.pc = "idle"
      /\ At("recorded", f) \in Sessions /\ At("recorded", f).pc = "recorded" /\ At("recorded", f).file = f
  BY <1>0, FreshSession DEF Basics, Idle, Steps
<1>2. CASE work' = [work EXCEPT ![w] = Idle] /\ UNCHANGED record
  BY <1>0, <1>1, <1>2, SessionStep DEF CommitRecord
<1>3. CASE work' = [work EXCEPT ![w] = At("recorded", f)]
           /\ record' = [record EXCEPT ![f] = Merged(record[f], work[w].loaded, work[w].draft)]
  <2>3. record' \in [Files -> RecordRows]
    BY <1>0, <1>3, MergedType
  <2> QED
    BY <1>0, <1>1, <1>3, <2>3, SessionStep DEF CommitRecord
<1> QED
  BY <1>2, <1>3 DEF CommitRecord

\* A step that changes the tables of events and transactions.
LEMMA TableStep ==
    ASSUME Basics, timeline' \in Seq(EventRows), trail' \in Seq(TrailRows'),
           Len(timeline) <= Len(timeline'), Len(trail) <= Len(trail'),
           \/ work' = work
           \/ \E w \in Workers, s \in Sessions' :
                /\ work' = [work EXCEPT ![w] = s] /\ s.pc # "projected"
                /\ s.pc # "idle" => s.file \in Files,
           leads' \subseteq Leads, runs' \in 0..MaxRuns, rulings' \in 0..MaxRulings,
           UNCHANGED <<record, history, desk, crossed>>
    PROVE  Basics'
<1>1. Sessions \subseteq Sessions' /\ EventRows' = EventRows
  BY TablesGrow DEF Basics, TypeOK
<1>2. /\ RecordRows' = RecordRows /\ HistoryRows' = HistoryRows /\ Sheets' = Sheets
      /\ \A v \in Reviewers : Ruling(v)' = Ruling(v)
  BY DEF RecordRows, HistoryRows, ReadingRows, Sheets, Ruling
<1>3. CASE work' = work
  <2>1. work' \in [Workers -> Sessions']
    BY <1>1, <1>3 DEF Basics, TypeOK
  <2> QED
    BY <1>1, <1>2, <1>3, <2>1 DEF Basics, TypeOK, PaidHaveEvents, Busy
<1>4. ASSUME NEW w \in Workers, NEW s \in Sessions', work' = [work EXCEPT ![w] = s], s.pc # "projected",
             s.pc # "idle" => s.file \in Files
      PROVE  Basics'
  <2>1. /\ work' \in [Workers -> Sessions'] /\ work'[w] = s
        /\ \A x \in Workers : x # w => work'[x] = work[x]
    BY <1>1, <1>4 DEF Basics, TypeOK
  <2>2. \A x \in Workers : Busy(x)' => work'[x].file \in Files
    BY <1>4, <2>1 DEF Basics, TypeOK, Busy
  <2>3. PaidHaveEvents'
    BY <1>4, <2>1 DEF Basics, PaidHaveEvents
  <2> QED
    BY <1>1, <1>2, <2>1, <2>2, <2>3 DEF Basics, TypeOK
<1> QED
  BY <1>3, <1>4

\* A fresh session is one whatever the tables hold.
LEMMA FreshSessionThen ==
    ASSUME TypeOK, Len(timeline') \in Nat, NEW pc \in Steps, NEW f \in Files \cup {"none"}
    PROVE  At(pc, f) \in Sessions' /\ At(pc, f).pc = pc /\ At(pc, f).file = f
<1>1. NoRecord \in RecordRows
  BY DEF NoRecord, Unread, RecordRows, ReadingRows, States, Figures
<1>2. 0 \in 0..Len(timeline')
  OBVIOUS
<1> QED
  BY <1>1, <1>2 DEF At, Sessions, RecordRows, ReadingRows

LEMMA AppendType ==
    ASSUME NEW S, NEW s \in Seq(S), NEW e \in S
    PROVE  /\ Append(s, e) \in Seq(S) /\ Len(Append(s, e)) = Len(s) + 1
           /\ \A i \in 1..Len(s) : Append(s, e)[i] = s[i]
           /\ Append(s, e)[Len(s) + 1] = e
  OBVIOUS

LEMMA BasicsKeptByStart == ASSUME Basics, NEW w \in Workers, Start(w) PROVE Basics'
<1>0. timeline \in Seq(EventRows) /\ trail \in Seq(TrailRows) /\ Len(timeline) \in Nat /\ Len(trail) \in Nat
  BY DEF Basics, TypeOK
<1>1. PICK f \in Files :
          /\ work' = [work EXCEPT ![w] = At("reading", f)]
          /\ timeline' = IF Ingested(f) THEN timeline ELSE Append(timeline, EventRow(f, FALSE, Unread))
          /\ trail' = IF Ingested(f) \/ f \notin Ledgers THEN trail
                      ELSE Append(trail, TrailRow(f, Len(timeline) + 1, Null))
  BY DEF Start
<1>2. EventRow(f, FALSE, Unread) \in EventRows
  BY DEF EventRow, EventRows, Unread, ReadingRows, Figures
<1>3. timeline' \in Seq(EventRows) /\ Len(timeline) <= Len(timeline') /\ Len(timeline') \in Nat
  <2>1. CASE timeline' = timeline
    BY <1>0, <2>1
  <2>2. CASE timeline' = Append(timeline, EventRow(f, FALSE, Unread))
    <3>1. PICK e \in EventRows : timeline' = Append(timeline, e)
      BY <1>2, <2>2
    <3> QED
      BY <1>0, <3>1
  <2> QED
    BY <1>1, <2>1, <2>2
<1>4. trail' \in Seq(TrailRows') /\ Len(trail) <= Len(trail')
  <2>1. CASE trail' = trail
    <3>1. Len(trail') \in Nat /\ Len(trail) <= Len(trail') /\ DOMAIN trail' = 1..Len(trail')
      BY <1>0, <2>1
    <3> QED
      BY <1>3, <2>1, <3>1, TablesGrow DEF Basics
  <2>2. CASE ~Ingested(f) /\ trail' = Append(trail, TrailRow(f, Len(timeline) + 1, Null))
    <3>1. timeline' = Append(timeline, EventRow(f, FALSE, Unread))
      BY <1>1, <2>2
    <3>2. Len(timeline) + 1 \in DOMAIN timeline'
      BY <1>0, <1>2, <3>1, AppendType
    <3>3. TrailRow(f, Len(timeline) + 1, Null) \in TrailRows'
      BY <3>2 DEF TrailRow, TrailRows
    <3>4. Len(trail') \in Nat /\ Len(trail) <= Len(trail') /\ DOMAIN trail' = 1..Len(trail')
      BY <1>0, <2>2
    <3>5. trail \in Seq(TrailRows')
      BY <1>3, <3>4, TablesGrow DEF Basics
    <3> HIDE DEF TrailRow
    <3> QED
      BY <2>2, <3>3, <3>4, <3>5, AppendType
  <2> QED
    BY <1>1, <2>1, <2>2
<1>5. At("reading", f) \in Sessions' /\ At("reading", f).pc = "reading" /\ At("reading", f).file = f
  BY <1>3, FreshSessionThen DEF Basics, Steps
<1>6. runs' \in 0..MaxRuns
  BY ProjectionAssumption DEF Start, Basics, TypeOK
<1> QED
  BY <1>1, <1>3, <1>4, <1>5, <1>6, TableStep DEF Start, Basics, TypeOK

LEMMA BasicsKeptByPurge ==
    ASSUME Basics, NEW w \in Workers, PurgeReads(w) \/ Purge(w)
    PROVE  Basics'
<1>0. work[w] \in Sessions /\ work[w].pc # "idle" /\ work[w].file \in Files
      /\ record \in [Files -> RecordRows]
      /\ DOMAIN timeline = 1..Len(timeline)
  BY DEF PurgeReads, Purge, Basics, TypeOK, Busy
<1>1. LiveEvents \subseteq DOMAIN timeline /\ LiveTrail \subseteq DOMAIN trail /\ Recorded \subseteq Files
  BY DEF LiveEvents, LiveTrail, Recorded
<1>2. CASE PurgeReads(w)
  <2> DEFINE s == [work[w] EXCEPT !.pc = "purging", !.seenRecords = Recorded, !.seenEvents = LiveEvents]
  <2>1. work' = [work EXCEPT ![w] = s]
    BY <1>2 DEF PurgeReads
  <2>2. s \in Sessions /\ s.pc = "purging" /\ s.file = work[w].file
    BY <1>0, <1>1 DEF Sessions, Steps
  <2> HIDE DEF s
  <2> QED
    BY <1>0, <1>2, <2>1, <2>2, SessionStep DEF PurgeReads
<1>3. CASE Purge(w)
  <2>1. PICK orphans \in SUBSET DOMAIN timeline, loose \in SUBSET DOMAIN trail :
            work' = [work EXCEPT ![w] = [@ EXCEPT !.pc = "projecting", !.dropEvents = orphans, !.dropTrail = loose]]
    BY <1>1, <1>3 DEF Purge
  <2> DEFINE s == [work[w] EXCEPT !.pc = "projecting", !.dropEvents = orphans, !.dropTrail = loose]
  <2>2. work' = [work EXCEPT ![w] = s]
    BY <2>1
  <2>3. s \in Sessions /\ s.pc = "projecting" /\ s.file = work[w].file
    BY <1>0 DEF Sessions, Steps
  <2> HIDE DEF s
  <2> QED
    BY <1>0, <1>3, <2>2, <2>3, SessionStep DEF Purge
<1> QED
  BY <1>2, <1>3

\* What _existing_event finds.
LEMMA OwnEvent ==
    ASSUME TypeOK, NEW w \in Workers, NEW f
    PROVE  /\ ExistingEvent(w, f) \in 0..Len(timeline)
           /\ ExistingEvent(w, f) # 0 => f \in Recorded /\ ExistingEvent(w, f) \in EventsOf(w, f)
           /\ ExistingEvent(w, f) = 0 /\ f \in Recorded => EventsOf(w, f) = {}
<1>1. EventsOf(w, f) \subseteq 1..Len(timeline) /\ 1..Len(timeline) \subseteq Nat /\ Len(timeline) \in Nat
  BY DEF TypeOK, EventsOf, SeenTimeline, LiveEvents
<1>2. EventsOf(w, f) # {} => Min(EventsOf(w, f)) \in EventsOf(w, f)
  BY <1>1, FirstExists
<1>3. 0 \notin EventsOf(w, f)
  BY <1>1
<1> HIDE DEF EventsOf, Min
<1> QED
  BY <1>1, <1>2, <1>3 DEF ExistingEvent

\* The session of a projection that is ready to commit.
LEMMA ProjectedSession ==
    ASSUME TypeOK, NEW w \in Workers, Project(w)
    PROVE  \E s \in Sessions :
              /\ work' = [work EXCEPT ![w] = s]
              /\ s.pc = "projected" /\ s.file = work[w].file /\ s.snap = record
              /\ s.seenRecords = work[w].seenRecords /\ s.seenEvents = work[w].seenEvents
              /\ s.dropEvents = work[w].dropEvents
              /\ s.own = [f \in Files |-> ExistingEvent(w, f)]
              /\ s.made = Made(w) /\ s.moved = Moved(w) /\ s.paid = Paid(w)
              /\ s.dropTrail = work[w].dropTrail \cup Withdrawn(w)
              /\ s.filled = Filled(w)
<1>1. /\ Made(w) \subseteq Files /\ Moved(w) \subseteq Files /\ Paid(w) \subseteq Files
      /\ Withdrawn(w) \subseteq DOMAIN trail /\ Filled(w) \subseteq DOMAIN trail
      /\ Raised(Recorded) \subseteq Leads
  BY DEF Made, Moved, Paid, Open, Recorded, Withdrawn, Filled, LiveTrail, SeenTrail, Raised
<1>2. [f \in Files |-> ExistingEvent(w, f)] \in [Files -> 0..Len(timeline)]
  BY OwnEvent
<1>3. work[w] \in Sessions /\ record \in [Files -> RecordRows]
  BY DEF TypeOK
<1> DEFINE own == [f \in Files |-> ExistingEvent(w, f)]
           s == [work[w] EXCEPT !.pc = "projected", !.snap = record, !.own = own,
                     !.made = Made(w), !.moved = Moved(w), !.paid = Paid(w),
                     !.dropTrail = work[w].dropTrail \cup Withdrawn(w), !.filled = Filled(w),
                     !.raised = Raised(Recorded)]
<1>4. work' = [work EXCEPT ![w] = s]
  BY DEF Project
<1>5. own \in [Files -> 0..Len(timeline)]
  BY <1>2
<1> HIDE DEF own
<1>6. s \in Sessions
  BY <1>1, <1>3, <1>5 DEF Sessions, Steps
<1>7. /\ s.pc = "projected" /\ s.file = work[w].file /\ s.snap = record
      /\ s.seenRecords = work[w].seenRecords /\ s.seenEvents = work[w].seenEvents
      /\ s.dropEvents = work[w].dropEvents
      /\ s.own = own
      /\ s.made = Made(w) /\ s.moved = Moved(w) /\ s.paid = Paid(w)
      /\ s.dropTrail = work[w].dropTrail \cup Withdrawn(w)
      /\ s.filled = Filled(w)
  BY <1>3 DEF Sessions
<1> HIDE DEF s
<1> QED
  BY <1>4, <1>6, <1>7 DEF own

LEMMA BasicsKeptByProject == ASSUME Basics, NEW w \in Workers, Project(w) PROVE Basics'
<1>1. PICK s \in Sessions :
          /\ work' = [work EXCEPT ![w] = s] /\ s.pc = "projected" /\ s.file = work[w].file
          /\ s.own = [f \in Files |-> ExistingEvent(w, f)] /\ s.made = Made(w) /\ s.paid = Paid(w)
  BY ProjectedSession DEF Basics
<1>2. s.file \in Files
  BY <1>1 DEF Project, Basics, TypeOK, Busy
<1>3. \A f \in s.paid : s.own[f] # 0 \/ f \in s.made
  BY <1>1 DEF Paid, Made, Open, Recorded
<1> QED
  BY <1>1, <1>2, <1>3, SessionStep DEF Project, Basics, TypeOK

LEMMA RuledType ==
    ASSUME NEW a \in RecordRows, NEW s \in Sheets
    PROVE  Ruled(a, s) \in RecordRows
<1>1. s.loaded \in RecordRows /\ s.action \in Actions /\ s.new \in Senders \cup {Null}
  BY DEF Sheets
<1>2. [s.loaded.reading EXCEPT !.sender = s.new] \in ReadingRows
  BY <1>1 DEF RecordRows, ReadingRows
<1>3. Written(a.reading, s.loaded.reading, [s.loaded.reading EXCEPT !.sender = s.new]) \in ReadingRows
  BY <1>1, <1>2 DEF Written, RecordRows, ReadingRows
<1>4. StateFor(s.action) \in States /\ a.state \in States
  BY <1>1 DEF StateFor, Actions, States, RecordRows
<1> QED
  BY <1>3, <1>4 DEF Ruled, RecordRows

\* What a reviewer's session does to the records and to its sheet.
LEMMA ReviewEffect ==
    ASSUME TypeOK, NEW v \in Reviewers
    PROVE  /\ \A f \in Files : BeginReview(v, f) =>
                \E s \in Sheets :
                    /\ s.file = f /\ s.loaded = record[f] /\ f \in Recorded /\ ~Ruling(v)
                    /\ s.action \notin {"edit", "mark_unknown"} => s.new = record[f].reading.sender
                    /\ desk' = [desk EXCEPT ![v] = s] /\ crossed \subseteq crossed'
                    /\ crossed' \subseteq Files
                    /\ \A u \in Reviewers : desk[u].file = f => f \in crossed'
                    /\ UNCHANGED <<record, history, timeline, trail, leads, work, runs>>
           /\ CommitReview(v) =>
                \E f \in Files, s \in Sheets, e \in HistoryRows :
                    /\ s = desk[v] /\ s.file = f /\ Ruling(v)
                    /\ e.action = s.action /\ e.previous = s.loaded.reading.sender /\ e.new = s.new
                    /\ record' = [record EXCEPT ![f] = Ruled(record[f], s)]
                    /\ history' = [history EXCEPT ![f] = Append(history[f], e)]
                    /\ desk' = [desk EXCEPT ![v] = NoSheet]
                    /\ UNCHANGED <<crossed, timeline, trail, leads, work, runs, rulings>>
<1>1. ASSUME NEW f \in Files, BeginReview(v, f)
      PROVE  \E s \in Sheets :
                 /\ s.file = f /\ s.loaded = record[f] /\ f \in Recorded /\ ~Ruling(v)
                 /\ s.action \notin {"edit", "mark_unknown"} => s.new = record[f].reading.sender
                 /\ desk' = [desk EXCEPT ![v] = s] /\ crossed \subseteq crossed'
                 /\ crossed' \subseteq Files
                 /\ \A u \in Reviewers : desk[u].file = f => f \in crossed'
                 /\ UNCHANGED <<record, history, timeline, trail, leads, work, runs>>
  <2>0. record[f] \in RecordRows /\ record[f].reading.sender \in Senders \cup {Null}
    BY DEF TypeOK, RecordRows, ReadingRows
  <2>1. PICK action \in Actions, new \in Senders \cup {Null} :
            /\ action \notin {"edit", "mark_unknown"} => new = record[f].reading.sender
            /\ desk' = [desk EXCEPT ![v] = [file |-> f, loaded |-> record[f], action |-> action, new |-> new]]
    BY <1>1, <2>0 DEF BeginReview, Actions
  <2> DEFINE s == [file |-> f, loaded |-> record[f], action |-> action, new |-> new]
  <2>2. s \in Sheets
    BY <2>0 DEF Sheets
  <2>3. crossed \subseteq crossed' /\ crossed' \subseteq Files
        /\ \A u \in Reviewers : desk[u].file = f => f \in crossed'
    BY <1>1 DEF BeginReview, TypeOK
  <2> QED
    BY <1>1, <2>1, <2>2, <2>3 DEF BeginReview
<1>2. ASSUME CommitReview(v)
      PROVE  \E f \in Files, s \in Sheets, e \in HistoryRows :
                 /\ s = desk[v] /\ s.file = f /\ Ruling(v)
                 /\ e.action = s.action /\ e.previous = s.loaded.reading.sender /\ e.new = s.new
                 /\ record' = [record EXCEPT ![f] = Ruled(record[f], s)]
                 /\ history' = [history EXCEPT ![f] = Append(history[f], e)]
                 /\ desk' = [desk EXCEPT ![v] = NoSheet]
                 /\ UNCHANGED <<crossed, timeline, trail, leads, work, runs, rulings>>
  <2> DEFINE s == desk[v]
             e == [action |-> s.action, previous |-> s.loaded.reading.sender, new |-> s.new]
  <2>1. s \in Sheets /\ s.file \in Files /\ Ruling(v)
    BY <1>2 DEF CommitReview, TypeOK
  <2>2. e \in HistoryRows
    BY <2>1 DEF Sheets, HistoryRows, RecordRows, ReadingRows
  <2> QED
    BY <1>2, <2>1, <2>2 DEF CommitReview
<1> QED
  BY <1>1, <1>2

LEMMA BasicsKeptByReview ==
    ASSUME Basics,
           \/ \E v \in Reviewers : CommitReview(v) \/ \E f \in Files : BeginReview(v, f)
           \/ \E i \in DOMAIN timeline : ReviewEvent(i)
           \/ \E t \in DOMAIN trail : ReviewTransaction(t)
    PROVE  Basics'
<1>0. /\ TypeOK /\ rulings \in 0..MaxRulings /\ runs \in 0..MaxRuns /\ leads \subseteq Leads
      /\ timeline \in Seq(EventRows) /\ trail \in Seq(TrailRows)
      /\ desk \in [Reviewers -> Sheets] /\ record \in [Files -> RecordRows]
      /\ history \in [Files -> Seq(HistoryRows)]
  BY DEF Basics, TypeOK
<1> DEFINE Same == /\ Sheets' = Sheets /\ RecordRows' = RecordRows /\ EventRows' = EventRows
                   /\ TrailRows' = TrailRows /\ HistoryRows' = HistoryRows /\ Sessions' = Sessions
<1>s. UNCHANGED <<timeline, trail>> => Same
  BY DEF Sheets, RecordRows, ReadingRows, EventRows, TrailRows, HistoryRows, Sessions
<1> HIDE DEF Same
<1>1. ASSUME NEW v \in Reviewers, NEW f \in Files, BeginReview(v, f) PROVE Basics'
  <2>1. PICK s \in Sheets :
            /\ s.file = f /\ desk' = [desk EXCEPT ![v] = s] /\ crossed' \subseteq Files
            /\ UNCHANGED <<record, history, timeline, trail, leads, work, runs>>
    BY <1>0, <1>1, ReviewEffect
  <2>2. desk' \in [Reviewers -> Sheets] /\ desk'[v] = s
        /\ \A u \in Reviewers : u # v => desk'[u] = desk[u]
    BY <1>0, <2>1
  <2>3. \A u \in Reviewers : Ruling(u)' => desk'[u].file \in Files
    BY <2>1, <2>2 DEF Ruling, Basics, TypeOK
  <2>4. rulings' \in 0..MaxRulings
    BY <1>0, <1>1, ProjectionAssumption DEF BeginReview, MayRule
  <2> QED
    BY <1>s, <2>1, <2>2, <2>3, <2>4 DEF Same, Basics, TypeOK, PaidHaveEvents, Busy
<1>4. ASSUME NEW v \in Reviewers, CommitReview(v) PROVE Basics'
  <2>1. PICK f \in Files, s \in Sheets, e \in HistoryRows :
            /\ record' = [record EXCEPT ![f] = Ruled(record[f], s)]
            /\ history' = [history EXCEPT ![f] = Append(history[f], e)]
            /\ desk' = [desk EXCEPT ![v] = NoSheet]
            /\ UNCHANGED <<crossed, timeline, trail, leads, work, runs, rulings>>
    BY <1>0, <1>4, ReviewEffect
  <2>2. Ruled(record[f], s) \in RecordRows /\ Append(history[f], e) \in Seq(HistoryRows)
    BY <1>0, RuledType, AppendType
  <2>3. record' \in [Files -> RecordRows] /\ history' \in [Files -> Seq(HistoryRows)]
    BY <1>0, <2>1, <2>2
  <2>4. NoSheet \in Sheets
    BY DEF NoSheet, Sheets, Actions, NoRecord, Unread, RecordRows, ReadingRows, States, Figures
  <2>5. /\ desk' \in [Reviewers -> Sheets] /\ desk'[v] = NoSheet
        /\ \A u \in Reviewers : u # v => desk'[u] = desk[u]
    BY <1>0, <2>1, <2>4
  <2>6. \A u \in Reviewers : Ruling(u)' => desk'[u].file \in Files
    BY <2>5 DEF Ruling, Basics, TypeOK
  <2> QED
    BY <1>s, <2>1, <2>3, <2>5, <2>6 DEF Same, Basics, TypeOK, PaidHaveEvents, Busy
<1>2. ASSUME NEW i \in DOMAIN timeline, ReviewEvent(i) PROVE Basics'
  <2>1. timeline[i] \in EventRows /\ timeline' = [timeline EXCEPT ![i] = [timeline[i] EXCEPT !.review = "ruled"]]
    BY <1>0, <1>2 DEF ReviewEvent
  <2>2. [timeline[i] EXCEPT !.review = "ruled"] \in EventRows
    BY <2>1 DEF EventRows
  <2>3. timeline' \in Seq(EventRows) /\ Len(timeline') = Len(timeline)
    BY <1>0, <2>1, <2>2
  <2>4. trail \in Seq(TrailRows') /\ UNCHANGED <<trail, work, leads, runs>>
    <3>1. UNCHANGED <<trail, work, leads, runs>>
      BY <1>2 DEF ReviewEvent
    <3>2. Len(trail') \in Nat /\ Len(trail) <= Len(trail') /\ DOMAIN trail' = 1..Len(trail')
      BY <1>0, <3>1
    <3> QED
      BY <1>0, <2>3, <3>1, <3>2, TablesGrow
  <2>5. rulings' \in 0..MaxRulings
    BY <1>0, <1>2, ProjectionAssumption DEF ReviewEvent, MayRule
  <2> QED
    BY <1>0, <1>2, <2>3, <2>4, <2>5, TableStep DEF ReviewEvent
<1>3. ASSUME NEW t \in DOMAIN trail, ReviewTransaction(t) PROVE Basics'
  <2>1. trail[t] \in TrailRows /\ trail' = [trail EXCEPT ![t] = [trail[t] EXCEPT !.review = "ruled"]]
    BY <1>0, <1>3 DEF ReviewTransaction
  <2>2. [trail[t] EXCEPT !.review = "ruled"] \in TrailRows
    BY <2>1 DEF TrailRows
  <2>3. TrailRows' = TrailRows /\ UNCHANGED <<timeline, work, leads, runs>>
    BY <1>3 DEF ReviewTransaction, TrailRows
  <2>4. trail' \in Seq(TrailRows') /\ Len(trail') = Len(trail)
    BY <1>0, <2>1, <2>2, <2>3
  <2>5. rulings' \in 0..MaxRulings
    BY <1>0, <1>3, ProjectionAssumption DEF ReviewTransaction, MayRule
  <2> QED
    BY <1>0, <1>3, <2>3, <2>4, <2>5, TableStep DEF ReviewTransaction
<1> QED
  BY <1>1, <1>2, <1>3, <1>4

LEMMA RowsOfList ==
    ASSUME NEW S, NEW n \in Nat, NEW s \in [1..n -> S]
    PROVE  s \in Seq(S)
  OBVIOUS

\* The events a projection inserts: one for each record it found without one.
LEMMA AddedEventRows ==
    ASSUME TypeOK, NEW s \in Sessions
    PROVE  /\ AddedEvents(s) \in Seq(EventRows)
           /\ \A n \in DOMAIN AddedEvents(s) :
                 /\ AddedEvents(s)[n].of \in s.made /\ AddedEvents(s)[n].grounded
                 /\ AddedEvents(s)[n].live /\ AddedEvents(s)[n].review = "unreviewed"
                 /\ AddedEvents(s)[n].reading = s.snap[AddedEvents(s)[n].of].reading
           /\ \A f \in s.made : \E n \in DOMAIN AddedEvents(s) : AddedEvents(s)[n].of = f
           /\ \A m, n \in DOMAIN AddedEvents(s) :
                 AddedEvents(s)[m].of = AddedEvents(s)[n].of => m = n
<1>1. s.made \subseteq Files /\ s.snap \in [Files -> RecordRows]
  BY DEF Sessions
<1>2. IsFiniteSet(s.made)
  BY <1>1, ProjectionAssumption, FS_Subset
<1> PICK made : made = SetToSeq(s.made)
  OBVIOUS
<1>3. /\ made \in Seq(s.made)
      /\ \A x \in s.made : \E n \in DOMAIN made : made[n] = x
      /\ \A m, n \in DOMAIN made : made[m] = made[n] => m = n
  BY <1>2, SetAsSeq
<1>4. AddedEvents(s) = [n \in DOMAIN made |-> EventRow(made[n], TRUE, s.snap[made[n]].reading)]
  BY DEF AddedEvents
<1>5. \A n \in DOMAIN made : made[n] \in s.made
  BY <1>3
<1>6. \A f \in s.made : EventRow(f, TRUE, s.snap[f].reading) \in EventRows
  BY <1>1 DEF EventRow, EventRows, RecordRows
<1>7. DOMAIN made = 1..Len(made) /\ Len(made) \in Nat
  BY <1>3
<1>8. \A n \in 1..Len(made) : EventRow(made[n], TRUE, s.snap[made[n]].reading) \in EventRows
  BY <1>5, <1>6, <1>7
<1>9. AddedEvents(s) \in Seq(EventRows)
  <2>1. AddedEvents(s) \in [1..Len(made) -> EventRows]
    BY <1>4, <1>7, <1>8
  <2> QED
    BY <1>7, <2>1, RowsOfList
<1>10. DOMAIN AddedEvents(s) = DOMAIN made
  BY <1>4
<1>11. \A n \in DOMAIN made : /\ AddedEvents(s)[n].of = made[n] /\ AddedEvents(s)[n].grounded = TRUE
                              /\ AddedEvents(s)[n].live = TRUE /\ AddedEvents(s)[n].review = "unreviewed"
                              /\ AddedEvents(s)[n].reading = s.snap[made[n]].reading
  BY <1>4 DEF EventRow
<1> QED
  BY <1>3, <1>5, <1>9, <1>10, <1>11

\* Where a record's event is once the projection has committed.
LEMMA EventInTable ==
    ASSUME TypeOK, NEW s \in Sessions, NEW f \in Files, s.own[f] # 0 \/ f \in s.made
    PROVE  EventIn(s, f) \in 1..(Len(timeline) + Len(AddedEvents(s)))
<1>1. s.own[f] \in 0..Len(timeline) /\ Len(timeline) \in Nat
  BY DEF Sessions, TypeOK
<1>2. AddedEvents(s) \in Seq(EventRows) /\ Len(AddedEvents(s)) \in Nat
  BY AddedEventRows
<1>3. CASE s.own[f] # 0
  BY <1>1, <1>2, <1>3 DEF EventIn
<1>4. CASE s.own[f] = 0
  <2>1. \E n \in DOMAIN AddedEvents(s) : AddedEvents(s)[n].of = f
    BY <1>4, AddedEventRows
  <2>2. PICK n : n = CHOOSE m \in DOMAIN AddedEvents(s) : AddedEvents(s)[m].of = f
    OBVIOUS
  <2>3. n \in 1..Len(AddedEvents(s))
    BY <2>1, <2>2, <1>2
  <2>4. EventIn(s, f) = Len(timeline) + n
    BY <1>4, <2>2 DEF EventIn
  <2> QED
    BY <1>1, <1>2, <2>3, <2>4
<1> QED
  BY <1>3, <1>4

\* The transactions a projection inserts: one for each record it pays.
LEMMA AddedTrailRows ==
    ASSUME TypeOK, NEW s \in Sessions, \A f \in s.paid : s.own[f] # 0 \/ f \in s.made,
           DOMAIN timeline' = 1..(Len(timeline) + Len(AddedEvents(s)))
    PROVE  AddedTransactions(s) \in Seq(TrailRows')
<1>1. s.paid \subseteq Files /\ s.snap \in [Files -> RecordRows]
  BY DEF Sessions
<1>2. IsFiniteSet(s.paid)
  BY <1>1, ProjectionAssumption, FS_Subset
<1> PICK paid : paid = SetToSeq(s.paid)
  OBVIOUS
<1>3. paid \in Seq(s.paid)
  BY <1>2, SetAsSeq
<1>4. AddedTransactions(s) =
         [n \in DOMAIN paid |-> TrailRow(paid[n], EventIn(s, paid[n]), s.snap[paid[n]].reading.sender)]
  BY DEF AddedTransactions
<1>5. \A f \in s.paid : EventIn(s, f) \in DOMAIN timeline'
  BY <1>1, EventInTable
<1>6. \A f \in s.paid : s.snap[f].reading.sender \in Senders \cup {Null}
  BY <1>1 DEF RecordRows, ReadingRows
<1>7. \A f \in s.paid : TrailRow(f, EventIn(s, f), s.snap[f].reading.sender) \in TrailRows'
  BY <1>1, <1>5, <1>6 DEF TrailRow, TrailRows
<1>8. \A n \in 1..Len(paid) : paid[n] \in s.paid
  BY <1>3
<1>9. DOMAIN paid = 1..Len(paid) /\ Len(paid) \in Nat
  BY <1>3
<1> HIDE DEF TrailRow, EventIn
<1>10. AddedTransactions(s) \in [1..Len(paid) -> TrailRows']
  BY <1>4, <1>7, <1>8, <1>9
<1> QED
  BY <1>9, <1>10, RowsOfList

LEMMA ConcatRows ==
    ASSUME NEW S, NEW a \in Seq(S), NEW b \in Seq(S)
    PROVE  /\ a \o b \in Seq(S) /\ Len(a \o b) = Len(a) + Len(b)
           /\ DOMAIN (a \o b) = 1..(Len(a) + Len(b))
           /\ \A i \in 1..Len(a) : (a \o b)[i] = a[i]
           /\ \A i \in 1..Len(b) : (a \o b)[Len(a) + i] = b[i]
  OBVIOUS

LEMMA EventAfterRow ==
    ASSUME TypeOK, NEW s \in Sessions, NEW i \in DOMAIN timeline
    PROVE  /\ EventAfter(s, i) \in EventRows
           /\ EventAfter(s, i).of = timeline[i].of /\ EventAfter(s, i).grounded = timeline[i].grounded
           /\ EventAfter(s, i).review = timeline[i].review
           /\ EventAfter(s, i).live = (timeline[i].live /\ i \notin s.dropEvents)
           /\ i \notin s.dropEvents /\ ~(\E f \in s.moved : s.own[f] = i) => EventAfter(s, i) = timeline[i]
<1>1. timeline[i] \in EventRows /\ s.snap \in [Files -> RecordRows]
  BY DEF TypeOK, Sessions
<1>2. s.snap[timeline[i].of].reading \in ReadingRows
  BY <1>1 DEF EventRows, RecordRows
<1> QED
  BY <1>1, <1>2 DEF EventAfter, EventRows

LEMMA TransactionAfterRow ==
    ASSUME TypeOK, NEW s \in Sessions, NEW t \in DOMAIN trail
    PROVE  /\ TransactionAfter(s, t) \in TrailRows
           /\ TransactionAfter(s, t).of = trail[t].of /\ TransactionAfter(s, t).event = trail[t].event
           /\ TransactionAfter(s, t).review = trail[t].review
           /\ TransactionAfter(s, t).live = (trail[t].live /\ t \notin s.dropTrail)
           /\ t \notin s.dropTrail /\ t \notin s.filled => TransactionAfter(s, t) = trail[t]
<1>1. trail[t] \in TrailRows /\ s.snap \in [Files -> RecordRows]
  BY DEF TypeOK, Sessions
<1>2. s.snap[trail[t].of].reading.sender \in Senders \cup {Null}
  BY <1>1 DEF TrailRows, RecordRows, ReadingRows
<1> QED
  BY <1>1, <1>2 DEF TransactionAfter, TrailRows

\* What a commit that is not refused makes of the tables.
LEMMA CommitEffect ==
    ASSUME Basics, NEW w \in Workers, CommitProjection(w), ~Refused(work[w])
    PROVE  /\ work' = [work EXCEPT ![w] = At("done", work[w].file)]
           /\ leads' = leads \cup work[w].raised
           /\ timeline' \in Seq(EventRows)
           /\ Len(timeline') = Len(timeline) + Len(AddedEvents(work[w]))
           /\ \A i \in 1..Len(timeline) : timeline'[i] = EventAfter(work[w], i)
           /\ \A n \in 1..Len(AddedEvents(work[w])) :
                 timeline'[Len(timeline) + n] = AddedEvents(work[w])[n]
           /\ AddedTransactions(work[w]) \in Seq(TrailRows')
           /\ trail' \in Seq(TrailRows')
           /\ Len(trail') = Len(trail) + Len(AddedTransactions(work[w]))
           /\ \A t \in 1..Len(trail) : trail'[t] = TransactionAfter(work[w], t)
           /\ \A n \in 1..Len(AddedTransactions(work[w])) :
                 trail'[Len(trail) + n] = AddedTransactions(work[w])[n]
<1> PICK s : s = work[w]
  OBVIOUS
<1>0. /\ s \in Sessions /\ timeline \in Seq(EventRows) /\ trail \in Seq(TrailRows) /\ TypeOK
      /\ Len(timeline) \in Nat /\ Len(trail) \in Nat
      /\ DOMAIN timeline = 1..Len(timeline) /\ DOMAIN trail = 1..Len(trail)
      /\ \A f \in s.paid : s.own[f] # 0 \/ f \in s.made
  BY DEF CommitProjection, Basics, TypeOK, PaidHaveEvents
<1>1. /\ timeline' = [i \in DOMAIN timeline |-> EventAfter(s, i)] \o AddedEvents(s)
      /\ trail' = [t \in DOMAIN trail |-> TransactionAfter(s, t)] \o AddedTransactions(s)
      /\ leads' = leads \cup s.raised
      /\ work' = [work EXCEPT ![w] = At("done", s.file)]
  BY DEF CommitProjection
<1> PICK a : a = [i \in DOMAIN timeline |-> EventAfter(s, i)]
  OBVIOUS
<1>2. a \in Seq(EventRows) /\ Len(a) = Len(timeline) /\ \A i \in 1..Len(timeline) : a[i] = EventAfter(s, i)
  <2>1. a \in [1..Len(timeline) -> EventRows]
    BY <1>0, EventAfterRow
  <2>2. a \in Seq(EventRows)
    BY <1>0, <2>1, RowsOfList
  <2> QED
    BY <1>0, <2>1, <2>2
<1>3. AddedEvents(s) \in Seq(EventRows)
  BY <1>0, AddedEventRows
<1>4. /\ timeline' \in Seq(EventRows) /\ Len(timeline') = Len(timeline) + Len(AddedEvents(s))
      /\ DOMAIN timeline' = 1..(Len(timeline) + Len(AddedEvents(s)))
      /\ \A i \in 1..Len(timeline) : timeline'[i] = EventAfter(s, i)
      /\ \A n \in 1..Len(AddedEvents(s)) : timeline'[Len(timeline) + n] = AddedEvents(s)[n]
  <2> PICK d : d = AddedEvents(s)
    OBVIOUS
  <2>1. timeline' = a \o d /\ a \in Seq(EventRows) /\ d \in Seq(EventRows)
    BY <1>1, <1>2, <1>3
  <2> HIDE DEF EventAfter
  <2>2. /\ timeline' \in Seq(EventRows) /\ Len(timeline') = Len(a) + Len(d)
        /\ DOMAIN timeline' = 1..(Len(a) + Len(d))
        /\ \A i \in 1..Len(a) : timeline'[i] = a[i]
        /\ \A n \in 1..Len(d) : timeline'[Len(a) + n] = d[n]
    BY <2>1, ConcatRows
  <2> QED
    BY <1>2, <2>2
<1>5. AddedTransactions(s) \in Seq(TrailRows')
  BY <1>0, <1>4, AddedTrailRows
<1> PICK b : b = [t \in DOMAIN trail |-> TransactionAfter(s, t)]
  OBVIOUS
<1>6. TrailRows \subseteq TrailRows'
  <2>1. DOMAIN timeline \subseteq DOMAIN timeline'
    <3>1. Len(AddedEvents(s)) \in Nat
      BY <1>3
    <3> QED
      BY <1>0, <1>4, <3>1
  <2> QED
    BY <2>1 DEF TrailRows
<1>7. b \in Seq(TrailRows') /\ Len(b) = Len(trail) /\ \A t \in 1..Len(trail) : b[t] = TransactionAfter(s, t)
  <2>1. b \in [1..Len(trail) -> TrailRows']
    BY <1>0, <1>6, TransactionAfterRow
  <2>2. b \in Seq(TrailRows')
    BY <1>0, <2>1, RowsOfList
  <2> QED
    BY <1>0, <2>1, <2>2
<1>8. /\ trail' \in Seq(TrailRows') /\ Len(trail') = Len(trail) + Len(AddedTransactions(s))
      /\ \A t \in 1..Len(trail) : trail'[t] = TransactionAfter(s, t)
      /\ \A n \in 1..Len(AddedTransactions(s)) : trail'[Len(trail) + n] = AddedTransactions(s)[n]
  <2> PICK d : d = AddedTransactions(s)
    OBVIOUS
  <2> PICK rows : rows = TrailRows'
    OBVIOUS
  <2>1. trail' = b \o d /\ b \in Seq(rows) /\ d \in Seq(rows)
    BY <1>1, <1>5, <1>7
  <2>2. /\ trail' \in Seq(rows) /\ Len(trail') = Len(b) + Len(d)
        /\ \A t \in 1..Len(b) : trail'[t] = b[t]
        /\ \A n \in 1..Len(d) : trail'[Len(b) + n] = d[n]
    BY <2>1, ConcatRows
  <2> QED
    BY <1>7, <2>2
<1> QED
  BY <1>1, <1>4, <1>5, <1>8

LEMMA BasicsKeptByCommit == ASSUME Basics, NEW w \in Workers, CommitProjection(w) PROVE Basics'
<1>0. /\ TypeOK /\ work[w] \in Sessions /\ work[w].file \in Files /\ leads \subseteq Leads
      /\ work[w].raised \subseteq Leads /\ runs \in 0..MaxRuns /\ rulings \in 0..MaxRulings
      /\ record \in [Files -> RecordRows]
  BY DEF CommitProjection, Basics, TypeOK, Busy, Sessions
<1>1. CASE Refused(work[w])
  <2>1. work' = [work EXCEPT ![w] = Idle] /\ UNCHANGED <<timeline, trail, leads, record, history, desk, crossed, runs, rulings>>
    BY <1>1 DEF CommitProjection
  <2>2. Idle \in Sessions /\ Idle.pc = "idle"
    BY <1>0, FreshSession DEF Idle, Steps
  <2> QED
    BY <1>0, <2>1, <2>2, SessionStep
<1>2. CASE ~Refused(work[w])
  <2>1. /\ work' = [work EXCEPT ![w] = At("done", work[w].file)]
        /\ leads' = leads \cup work[w].raised
        /\ timeline' \in Seq(EventRows) /\ Len(timeline') = Len(timeline) + Len(AddedEvents(work[w]))
        /\ trail' \in Seq(TrailRows') /\ Len(trail') = Len(trail) + Len(AddedTransactions(work[w]))
        /\ AddedTransactions(work[w]) \in Seq(TrailRows')
    BY <1>2, CommitEffect
  <2>2. AddedEvents(work[w]) \in Seq(EventRows)
    BY <1>0, AddedEventRows
  <2>3. Len(timeline) <= Len(timeline') /\ Len(trail) <= Len(trail') /\ Len(timeline') \in Nat
    <3>1. Len(timeline) \in Nat /\ Len(trail) \in Nat
      BY <1>0 DEF TypeOK
    <3>2. Len(AddedEvents(work[w])) \in Nat /\ Len(AddedTransactions(work[w])) \in Nat
      BY <2>1, <2>2
    <3> QED
      BY <2>1, <3>1, <3>2
  <2>4. /\ At("done", work[w].file) \in Sessions' /\ At("done", work[w].file).pc = "done"
        /\ At("done", work[w].file).file = work[w].file
    BY <1>0, <2>3, FreshSessionThen DEF Steps
  <2> QED
    BY <1>0, <2>1, <2>3, <2>4, TableStep DEF CommitProjection
<1> QED
  BY <1>1, <1>2

LEMMA BasicsKept == Basics /\ [Next]_vars => Basics'
<1> SUFFICES ASSUME Basics, [Next]_vars PROVE Basics'
  OBVIOUS
<1>1. ASSUME NEW w \in Workers,
             \/ Start(w) \/ Upsert(w) \/ CommitRecord(w) \/ RunFails(w)
             \/ PurgeReads(w) \/ Purge(w) \/ Project(w) \/ CommitProjection(w)
             \/ ProjectionFails(w) \/ Return(w)
      PROVE  Basics'
  BY <1>1, BasicsKeptByStart, BasicsKeptByUpsert, BasicsKeptByRecord, BasicsKeptByFresh, BasicsKeptByPurge,
     BasicsKeptByProject, BasicsKeptByCommit
<1>2. CASE UNCHANGED vars
  BY <1>2 DEF vars, Basics, TypeOK, PaidHaveEvents, Busy, Sessions, RecordRows, ReadingRows, EventRows, TrailRows,
     HistoryRows, Sheets, Ruling
<1> QED
  BY <1>1, <1>2, BasicsKeptByReview DEF Next

\* In every state the tables hold rows the code can write, each transaction
\* naming an event that is stored, and each session what it has read from them.
THEOREM ProjectionTypeCorrect == Spec => []TypeOK
<1>1. Basics => TypeOK
  BY DEF Basics
<1> QED
  BY <1>1, BasicsStart, BasicsKept, PTL DEF Spec

\* The inductive invariant alone, for the theorems that build on it.
LEMMA BasicsHold == Spec => []Basics
  BY BasicsStart, BasicsKept, PTL DEF Spec

New(f) == record[f].state \in {"none", "unreviewed"}

\* A state follows from the last ruling if the rulings took turns, and a
\* record without one is new or unreviewed; a session that found no record
\* writes an unreviewed one.
RuledStates ==
    /\ \A f \in Files :
          /\ history[f] = <<>> <=> New(f)
          /\ history[f] # <<>> /\ f \notin crossed => record[f].state = StateFor(Last(history[f]).action)
    /\ \A w \in Workers :
          work[w].pc = "staged" /\ work[w].loaded.state = "none" => work[w].draft.state = "unreviewed"

\* An open ruling is on a record that is there, has seen it unruled or it has
\* been ruled on for good; unless another was open beside it, it has loaded the
\* state that is stored.
SheetsFresh ==
    /\ \A v \in Reviewers : Ruling(v) =>
          LET s == desk[v]
          IN  /\ record[s.file].state # "none"
              /\ s.loaded.state \notin {"none", "unreviewed"} => ~New(s.file)
              /\ s.file \notin crossed => s.loaded.state = record[s.file].state
    /\ \A u \in Reviewers : \A v \in Reviewers :
          Ruling(u) /\ Ruling(v) /\ u # v /\ desk[u].file = desk[v].file => desk[u].file \in crossed

RulingsFollow == RuledStates /\ SheetsFresh

\* Sessions outside the record's own steps leave what RuledStates is about.
LEMMA RuledStatesAside ==
    ASSUME Basics, RulingsFollow, UNCHANGED <<record, history, desk, crossed>>,
           \A w \in Workers : work'[w].pc = "staged" => work'[w] = work[w]
    PROVE  RulingsFollow'
<1>1. RuledStates'
  BY DEF RulingsFollow, RuledStates, New
<1>2. SheetsFresh'
  BY DEF RulingsFollow, SheetsFresh, New, Ruling
<1> QED
  BY <1>1, <1>2 DEF RulingsFollow

\* Every action a ruling can have leads to a state of its own.
LEMMA RulingStates ==
    ASSUME NEW a \in Actions
    PROVE  StateFor(a) \notin {"none", "unreviewed"}
  BY DEF Actions, StateFor

\* Every step of a session but Upsert leaves it outside "staged".
LEMMA StagedByUpsert ==
    ASSUME TypeOK, NEW w \in Workers,
           \/ Start(w) \/ CommitRecord(w) \/ RunFails(w) \/ PurgeReads(w) \/ Purge(w) \/ Project(w)
           \/ CommitProjection(w) \/ ProjectionFails(w) \/ Return(w)
    PROVE  /\ work'[w].pc # "staged"
           /\ \A x \in Workers : x # w => work'[x] = work[x]
<1>0. work \in [Workers -> Sessions]
  BY DEF TypeOK
<1>1. \A f : At("reading", f).pc = "reading" /\ At("recorded", f).pc = "recorded" /\ At("done", f).pc = "done"
             /\ Idle.pc = "idle"
  BY DEF At, Idle
<1>2. CASE Start(w) \/ CommitRecord(w) \/ RunFails(w) \/ CommitProjection(w) \/ ProjectionFails(w) \/ Return(w)
  <2>1. \E s : work' = [work EXCEPT ![w] = s] /\ s.pc # "staged"
    BY <1>1, <1>2 DEF Start, CommitRecord, RunFails, CommitProjection, ProjectionFails, Return
  <2> QED
    BY <1>0, <2>1
<1>3. CASE PurgeReads(w)
  BY <1>0, <1>3 DEF PurgeReads, Sessions
<1>4. CASE Purge(w)
  BY <1>0, <1>4 DEF Purge, Sessions
<1>5. CASE Project(w)
  <2>1. PICK s \in Sessions : work' = [work EXCEPT ![w] = s] /\ s.pc = "projected"
    BY <1>5, ProjectedSession
  <2> QED
    BY <1>0, <2>1
<1> QED
  BY <1>2, <1>3, <1>4, <1>5

LEMMA RulingsFollowUpsert ==
    ASSUME Basics, RulingsFollow, NEW w \in Workers, Upsert(w)
    PROVE  RulingsFollow'
<1>1. /\ UNCHANGED <<record, history, desk, crossed>>
      /\ work'[w].loaded.state = "none" => work'[w].draft.state = "unreviewed"
      /\ \A x \in Workers : x # w => work'[x] = work[x]
  BY DEF Upsert, Sessions, Basics, TypeOK
<1>2. RuledStates'
  BY <1>1 DEF RulingsFollow, RuledStates, New
<1>3. SheetsFresh'
  BY <1>1 DEF RulingsFollow, SheetsFresh, New, Ruling
<1> QED
  BY <1>2, <1>3 DEF RulingsFollow

\* The commit of a record changes its state only by inserting it.
LEMMA RulingsFollowRecord ==
    ASSUME Basics, RulingsFollow, NEW w \in Workers, CommitRecord(w)
    PROVE  RulingsFollow'
<1> PICK f : f = work[w].file
  OBVIOUS
<1>0. TypeOK /\ work \in [Workers -> Sessions] /\ record \in [Files -> RecordRows]
  BY DEF Basics, TypeOK
<1>1. f \in Files
  BY DEF CommitRecord, Basics, TypeOK, Busy
<1>2. UNCHANGED <<history, desk, crossed>> /\ work[w].pc = "staged"
  BY DEF CommitRecord
<1>3. \A x \in Workers : work'[x].pc = "staged" => work'[x] = work[x]
  BY <1>0, StagedByUpsert
<1>4. CASE UNCHANGED record
  BY <1>2, <1>3, <1>4, RuledStatesAside
<1>5. CASE /\ record' = [record EXCEPT ![f] = Merged(record[f], work[w].loaded, work[w].draft)]
           /\ ~(work[w].loaded.state = "none" /\ record[f].state # "none")
  <2>1. \A g \in Files : g # f => record'[g] = record[g]
    BY <1>0, <1>5
  <2>2. record'[f] = Merged(record[f], work[w].loaded, work[w].draft)
    BY <1>0, <1>1, <1>5
  <2>3. CASE work[w].loaded.state = "none"
    <3>1. record'[f].state = "unreviewed" /\ record[f].state = "none"
      BY <1>2, <1>5, <2>2, <2>3 DEF Merged, RulingsFollow, RuledStates
    <3>2. \A v \in Reviewers : Ruling(v) => desk[v].file \in Files /\ desk[v].file # f
      BY <3>1 DEF RulingsFollow, SheetsFresh, Basics, TypeOK
    <3>3. RuledStates'
      BY <1>1, <1>2, <1>3, <2>1, <3>1 DEF RulingsFollow, RuledStates, New
    <3>4. SheetsFresh'
      BY <1>2, <2>1, <3>2 DEF RulingsFollow, SheetsFresh, New, Ruling
    <3> QED
      BY <3>3, <3>4 DEF RulingsFollow
  <2>4. CASE work[w].loaded.state # "none"
    <3>1. record'[f].state = record[f].state
      BY <1>0, <1>1, <2>2, <2>4 DEF Merged, RecordRows
    <3>2. \A g \in Files : record'[g].state = record[g].state
      BY <2>1, <3>1
    <3>3. RuledStates'
      BY <1>2, <1>3, <3>2 DEF RulingsFollow, RuledStates, New
    <3>4. SheetsFresh'
      BY <1>2, <3>2 DEF RulingsFollow, SheetsFresh, New, Ruling, Basics, TypeOK
    <3> QED
      BY <3>3, <3>4 DEF RulingsFollow
  <2> QED
    BY <2>3, <2>4
<1> QED
  BY <1>4, <1>5 DEF CommitRecord

LEMMA RulingsFollowBegin ==
    ASSUME Basics, RulingsFollow, NEW v \in Reviewers, NEW f \in Files, BeginReview(v, f)
    PROVE  RulingsFollow'
<1>0. TypeOK /\ desk \in [Reviewers -> Sheets]
  BY DEF Basics, TypeOK
<1>1. PICK s \in Sheets :
          /\ s.file = f /\ s.loaded = record[f] /\ f \in Recorded /\ ~Ruling(v)
          /\ desk' = [desk EXCEPT ![v] = s] /\ crossed \subseteq crossed'
          /\ \A u \in Reviewers : desk[u].file = f => f \in crossed'
          /\ UNCHANGED <<record, history, timeline, trail, leads, work, runs>>
  BY <1>0, ReviewEffect
<1>2. desk'[v] = s /\ \A u \in Reviewers : u # v => desk'[u] = desk[u]
  BY <1>0, <1>1
<1>3. RuledStates'
  BY <1>1 DEF RulingsFollow, RuledStates, New
<1>4. \A u \in Reviewers : Ruling(u)' =>
          LET x == desk'[u]
          IN  /\ record[x.file].state # "none"
              /\ x.loaded.state \notin {"none", "unreviewed"} => ~New(x.file)
              /\ x.file \notin crossed' => x.loaded.state = record[x.file].state
  BY <1>1, <1>2 DEF RulingsFollow, SheetsFresh, New, Ruling, Recorded
<1>5. \A x \in Reviewers : \A y \in Reviewers :
          Ruling(x)' /\ Ruling(y)' /\ x # y /\ desk'[x].file = desk'[y].file => desk'[x].file \in crossed'
  BY <1>1, <1>2 DEF RulingsFollow, SheetsFresh, Ruling
<1>6. SheetsFresh'
  BY <1>1, <1>4, <1>5 DEF SheetsFresh, New
<1> QED
  BY <1>3, <1>6 DEF RulingsFollow

\* A ruling alone on its record sets the state of its action, or finds it.
LEMMA RulingsFollowCommit ==
    ASSUME Basics, RulingsFollow, NEW v \in Reviewers, CommitReview(v)
    PROVE  RulingsFollow'
<1>0. /\ TypeOK /\ desk \in [Reviewers -> Sheets] /\ record \in [Files -> RecordRows]
      /\ history \in [Files -> Seq(HistoryRows)]
  BY DEF Basics, TypeOK
<1>1. PICK f \in Files, s \in Sheets, e \in HistoryRows :
          /\ s = desk[v] /\ s.file = f /\ Ruling(v) /\ e.action = s.action
          /\ record' = [record EXCEPT ![f] = Ruled(record[f], s)]
          /\ history' = [history EXCEPT ![f] = Append(history[f], e)]
          /\ desk' = [desk EXCEPT ![v] = NoSheet]
          /\ UNCHANGED <<crossed, timeline, trail, leads, work, runs, rulings>>
  BY <1>0, ReviewEffect
<1>2. /\ record'[f] = Ruled(record[f], s) /\ history'[f] = Append(history[f], e)
      /\ \A g \in Files : g # f => record'[g] = record[g] /\ history'[g] = history[g]
      /\ desk'[v] = NoSheet /\ \A u \in Reviewers : u # v => desk'[u] = desk[u]
  BY <1>0, <1>1
<1>3. history'[f] # <<>> /\ Last(history'[f]) = e
  <2>1. history[f] \in Seq(HistoryRows)
    BY <1>0
  <2> QED
    BY <1>2, <2>1 DEF Last
<1>4. StateFor(s.action) \notin {"none", "unreviewed"}
  BY RulingStates DEF Sheets
<1>5. /\ s.loaded.state \notin {"none", "unreviewed"} => ~New(f)
      /\ f \notin crossed => s.loaded.state = record[f].state
  BY <1>1 DEF RulingsFollow, SheetsFresh
<1>6. record'[f].state = IF StateFor(s.action) = s.loaded.state THEN record[f].state ELSE StateFor(s.action)
  BY <1>2 DEF Ruled
<1>7. record'[f].state \notin {"none", "unreviewed"}
  BY <1>4, <1>5, <1>6 DEF New
<1>8. f \notin crossed => record'[f].state = StateFor(e.action)
  BY <1>1, <1>5, <1>6
<1>9. RuledStates'
  BY <1>1, <1>2, <1>3, <1>7, <1>8 DEF RulingsFollow, RuledStates, New
<1>10. \A u \in Reviewers : Ruling(u)' => u # v /\ Ruling(u) /\ desk'[u] = desk[u] /\ desk[u].file \in Files
  BY <1>2 DEF Ruling, Basics, TypeOK
<1>11. \A u \in Reviewers : Ruling(u)' /\ desk[u].file = f => f \in crossed
  BY <1>1, <1>10 DEF RulingsFollow, SheetsFresh
<1>12. \A u \in Reviewers : Ruling(u)' =>
          LET x == desk'[u]
          IN  /\ record'[x.file].state # "none"
              /\ x.loaded.state \notin {"none", "unreviewed"} =>
                    record'[x.file].state \notin {"none", "unreviewed"}
              /\ x.file \notin crossed => x.loaded.state = record'[x.file].state
  BY <1>2, <1>7, <1>10, <1>11 DEF RulingsFollow, SheetsFresh, New
<1>13. \A x \in Reviewers : \A y \in Reviewers :
          Ruling(x)' /\ Ruling(y)' /\ x # y /\ desk'[x].file = desk'[y].file => desk'[x].file \in crossed
  BY <1>10 DEF RulingsFollow, SheetsFresh
<1>14. SheetsFresh'
  BY <1>1, <1>12, <1>13 DEF SheetsFresh, New
<1> QED
  BY <1>9, <1>14 DEF RulingsFollow

LEMMA RuledStatesKept ==
    ASSUME Basics, RulingsFollow, [Next]_vars
    PROVE  RulingsFollow'
<1>1. ASSUME NEW w \in Workers,
             \/ Start(w) \/ RunFails(w) \/ PurgeReads(w) \/ Purge(w) \/ Project(w)
             \/ CommitProjection(w) \/ ProjectionFails(w) \/ Return(w)
      PROVE  RulingsFollow'
  <2>1. UNCHANGED <<record, history, desk, crossed>>
    BY <1>1 DEF Start, RunFails, PurgeReads, Purge, Project, CommitProjection, ProjectionFails, Return
  <2>2. \A x \in Workers : work'[x].pc = "staged" => work'[x] = work[x]
    BY <1>1, StagedByUpsert DEF Basics
  <2> QED
    BY <2>1, <2>2, RuledStatesAside
<1>2. ASSUME \/ \E i \in DOMAIN timeline : ReviewEvent(i)
             \/ \E t \in DOMAIN trail : ReviewTransaction(t)
             \/ UNCHANGED vars
      PROVE  RulingsFollow'
  BY <1>2, RuledStatesAside DEF ReviewEvent, ReviewTransaction, vars
<1> QED
  BY <1>1, <1>2, RulingsFollowUpsert, RulingsFollowRecord, RulingsFollowBegin, RulingsFollowCommit DEF Next

\* The review state of a record whose rulings took turns is the outcome of the
\* last one, however grounded runs overlap with the reviewers and with each
\* other: a re-read record is written back without the state it was loaded
\* with, and a ruling alone on its record has loaded the state it replaces.
THEOREM RulingsDecideTheState == Spec => []StateFollowsHistory
<1>1. Init => RulingsFollow
  BY DEF Init, RulingsFollow, RuledStates, SheetsFresh, New, Ruling, NoRecord, Idle, At
<1>2. Basics /\ RulingsFollow /\ [Next]_vars => RulingsFollow'
  BY RuledStatesKept
<1>3. RulingsFollow => StateFollowsHistory
  BY DEF RulingsFollow, RuledStates, New, StateFollowsHistory, Recorded
<1> QED
  BY <1>1, <1>2, <1>3, BasicsHold, PTL DEF Spec

\* The history of a record that reviewers alone set: the last correction is
\* what it has, and each correction found what the one before it had set. A
\* session that has read a ruled record writes back what it read.
CorrectionsChain(f) ==
    \A n \in Corrections(f) :
        /\ (\A m \in Corrections(f) : m <= n) => record[f].reading.sender = history[f][n].new
        /\ \A m \in Corrections(f) :
              m > n /\ (\A k \in Corrections(f) : k <= n \/ k >= m) => history[f][m].previous = history[f][n].new

RuledAsRead ==
    \A w \in Workers :
        work[w].pc = "staged" /\ record[work[w].file].state \notin {"none", "unreviewed"} =>
            work[w].loaded = record[work[w].file] /\ work[w].draft = record[work[w].file]

\* Reviewers and grounded runs take turns; a ruling alone on its record has
\* loaded what is stored.
TurnsTaken ==
    \A v \in Reviewers : Ruling(v) =>
        /\ \A w \in Workers : ~Busy(w)
        /\ desk[v].file \notin crossed => desk[v].loaded = record[desk[v].file]
        /\ desk[v].action \notin {"edit", "mark_unknown"} => desk[v].new = desk[v].loaded.reading.sender

Explained == (\A f \in Files \ crossed : CorrectionsChain(f)) /\ RuledAsRead /\ TurnsTaken

\* A record nobody has ruled on has no history.
LEMMA UnruledMeansNew ==
    ASSUME RuledStates, NEW f \in Files, record[f].state \in {"none", "unreviewed"}
    PROVE  Corrections(f) = {}
  BY DEF RuledStates, New, Corrections

\* A step of a session that nobody's ruling is open beside.
LEMMA TurnsTakenAside ==
    ASSUME Basics, TurnsTaken, NEW w \in Workers, work[w].pc # "idle", UNCHANGED desk
    PROVE  TurnsTaken'
<1>1. \A v \in Reviewers : ~Ruling(v)
  BY DEF TurnsTaken, Busy
<1> QED
  BY <1>1 DEF TurnsTaken, Ruling

LEMMA ExplainedAside ==
    ASSUME Explained, UNCHANGED <<record, history, crossed>>, TurnsTaken',
           \A w \in Workers : work'[w].pc = "staged" => work'[w] = work[w]
    PROVE  Explained'
<1>1. \A f \in Files : CorrectionsChain(f)' = CorrectionsChain(f)
  BY DEF CorrectionsChain, Corrections
<1>2. RuledAsRead'
  BY DEF Explained, RuledAsRead
<1> QED
  BY <1>1, <1>2 DEF Explained

LEMMA ExplainedKeptByUpsert ==
    ASSUME Basics, Explained, NEW w \in Workers, Upsert(w)
    PROVE  Explained'
<1>0. work \in [Workers -> Sessions] /\ UNCHANGED <<record, history, desk, crossed>>
  BY DEF Basics, TypeOK, Upsert
<1>1. \A f \in Files : CorrectionsChain(f)' = CorrectionsChain(f)
  BY <1>0 DEF CorrectionsChain, Corrections
<1>2. /\ work'[w].file = work[w].file
      /\ record[work[w].file].state \notin {"none", "unreviewed"} =>
            work'[w].loaded = record[work[w].file] /\ work'[w].draft = record[work[w].file]
      /\ \A x \in Workers : x # w => work'[x] = work[x]
  BY <1>0 DEF Upsert, Sessions
<1>3. RuledAsRead'
  BY <1>0, <1>2 DEF Explained, RuledAsRead
<1>4. TurnsTaken'
  BY <1>0, TurnsTakenAside DEF Explained, Upsert
<1> QED
  BY <1>0, <1>1, <1>3, <1>4 DEF Explained

\* A commit leaves a ruled record as it is.
LEMMA ExplainedKeptByRecord ==
    ASSUME Basics, RuledStates, Explained, NEW w \in Workers, CommitRecord(w)
    PROVE  Explained'
<1> PICK f : f = work[w].file
  OBVIOUS
<1>0. /\ f \in Files /\ UNCHANGED <<history, desk, crossed>> /\ work[w].pc = "staged" /\ TypeOK
      /\ record \in [Files -> RecordRows] /\ work \in [Workers -> Sessions]
      /\ history \in [Files -> Seq(HistoryRows)]
  BY DEF CommitRecord, Basics, TypeOK, Busy
<1>1. \A x \in Workers : work'[x].pc = "staged" => work'[x] = work[x]
  BY <1>0, StagedByUpsert
<1>t. TurnsTaken'
  BY <1>0, TurnsTakenAside DEF Explained
<1>2. CASE UNCHANGED record
  BY <1>0, <1>1, <1>2, <1>t, ExplainedAside
<1>3. CASE /\ record' = [record EXCEPT ![f] = Merged(record[f], work[w].loaded, work[w].draft)]
           /\ ~(work[w].loaded.state = "none" /\ record[f].state # "none")
  <2>1. CASE record[f].state \notin {"none", "unreviewed"}
    <3>1. work[w].loaded = record[f] /\ work[w].draft = record[f] /\ record[f] \in RecordRows
      BY <1>0, <2>1 DEF Explained, RuledAsRead
    <3>2. Written(record[f].reading, record[f].reading, record[f].reading) = record[f].reading
      BY <3>1 DEF Written, RecordRows, ReadingRows
    <3>3. Merged(record[f], record[f], record[f]) = record[f]
      BY <2>1, <3>1, <3>2 DEF Merged, RecordRows
    <3>4. UNCHANGED record
      BY <1>0, <1>3, <3>1, <3>3
    <3> QED
      BY <1>2, <3>4
  <2>2. CASE record[f].state \in {"none", "unreviewed"}
    <3>1. Corrections(f)' = {}
      BY <1>0, <2>2, UnruledMeansNew DEF Corrections
    <3>2. record'[f].state \in {"none", "unreviewed"}
      <4>1. CASE work[w].loaded.state = "none"
        BY <1>0, <1>3, <4>1 DEF Merged, RuledStates
      <4>2. CASE work[w].loaded.state # "none"
        BY <1>0, <1>3, <2>2, <4>2 DEF Merged, RecordRows
      <4> QED
        BY <4>1, <4>2
    <3>3. \A g \in Files : g # f => record'[g] = record[g]
      BY <1>0, <1>3
    <3>4. \A g \in Files \ crossed : CorrectionsChain(g)'
      <4>1. ASSUME NEW g \in Files \ crossed, g # f PROVE CorrectionsChain(g)'
        BY <1>0, <3>3, <4>1 DEF CorrectionsChain, Corrections, Explained
      <4>2. CorrectionsChain(f)'
        BY <3>1 DEF CorrectionsChain
      <4> QED
        BY <4>1, <4>2
    <3>5. RuledAsRead'
      <4> SUFFICES ASSUME NEW x \in Workers, work'[x].pc = "staged",
                          record'[work'[x].file].state \notin {"none", "unreviewed"}
                   PROVE  /\ work'[x].loaded = record'[work'[x].file]
                          /\ work'[x].draft = record'[work'[x].file]
        BY DEF RuledAsRead
      <4>1. work'[x] = work[x] /\ work[x].pc = "staged" /\ work[x].file \in Files
        BY <1>0, <1>1 DEF TypeOK, Busy
      <4>2. record'[work[x].file] = record[work[x].file]
        BY <3>2, <3>3, <4>1
      <4> QED
        BY <4>1, <4>2 DEF Explained, RuledAsRead
    <3> QED
      BY <1>0, <1>t, <3>4, <3>5 DEF Explained
  <2> QED
    BY <2>1, <2>2
<1> QED
  BY <1>3, <1>2 DEF CommitRecord

\* A ruling begins when nobody is at work, with the record as it is.
LEMMA ExplainedKeptByBegin ==
    ASSUME Basics, Explained, ~Overlap, NEW v \in Reviewers, NEW f \in Files, BeginReview(v, f)
    PROVE  Explained'
<1>0. TypeOK /\ desk \in [Reviewers -> Sheets]
  BY DEF Basics, TypeOK
<1>1. PICK s \in Sheets :
          /\ s.file = f /\ s.loaded = record[f]
          /\ s.action \notin {"edit", "mark_unknown"} => s.new = record[f].reading.sender
          /\ desk' = [desk EXCEPT ![v] = s] /\ crossed \subseteq crossed'
          /\ UNCHANGED <<record, history, timeline, trail, leads, work, runs>>
  BY <1>0, ReviewEffect
<1>2. desk'[v] = s /\ \A u \in Reviewers : u # v => desk'[u] = desk[u]
  BY <1>0, <1>1
<1>3. \A w \in Workers : ~Busy(w) /\ ~Busy(w)'
  BY <1>1 DEF BeginReview, MayRule, Busy
<1>4. TurnsTaken'
  BY <1>1, <1>2, <1>3 DEF Explained, TurnsTaken, Ruling
<1>5. \A g \in Files : CorrectionsChain(g)' = CorrectionsChain(g)
  BY <1>1 DEF CorrectionsChain, Corrections
<1>6. RuledAsRead'
  BY <1>1 DEF Explained, RuledAsRead
<1> QED
  BY <1>1, <1>4, <1>5, <1>6 DEF Explained

\* A ruling commits with nobody at work, and continues the chain.
LEMMA ExplainedKeptByRuling ==
    ASSUME Basics, RulingsFollow, Explained, NEW v \in Reviewers, CommitReview(v)
    PROVE  Explained'
<1> PICK f \in Files, s \in Sheets, e \in HistoryRows :
        /\ s = desk[v] /\ s.file = f /\ Ruling(v)
        /\ e.action = s.action /\ e.previous = s.loaded.reading.sender /\ e.new = s.new
        /\ record' = [record EXCEPT ![f] = Ruled(record[f], s)]
        /\ history' = [history EXCEPT ![f] = Append(history[f], e)]
        /\ desk' = [desk EXCEPT ![v] = NoSheet]
        /\ UNCHANGED <<crossed, timeline, trail, leads, work, runs, rulings>>
  BY ReviewEffect DEF Basics
<1>0. /\ record \in [Files -> RecordRows] /\ history \in [Files -> Seq(HistoryRows)]
      /\ history[f] \in Seq(HistoryRows) /\ Len(history[f]) \in Nat
      /\ desk \in [Reviewers -> Sheets]
  BY DEF Basics, TypeOK
<1>1. \A w \in Workers : work[w].pc = "idle"
  BY DEF Explained, TurnsTaken, Busy
<1>2. RuledAsRead'
  BY <1>1 DEF RuledAsRead
<1>3. /\ history'[f] = Append(history[f], e)
      /\ \A g \in Files : g # f => history'[g] = history[g] /\ record'[g] = record[g]
  BY <1>0
<1>4. TurnsTaken'
  <2>1. \A u \in Reviewers : Ruling(u)' => u # v /\ Ruling(u) /\ desk'[u] = desk[u] /\ desk[u].file \in Files
    BY <1>0 DEF Ruling, Basics, TypeOK
  <2>2. \A u \in Reviewers : Ruling(u)' /\ desk[u].file = f => f \in crossed
    BY <2>1 DEF RulingsFollow, SheetsFresh
  <2> QED
    BY <1>3, <2>1, <2>2 DEF Explained, TurnsTaken, Busy
<1> PICK last : last = Len(history[f]) + 1
  OBVIOUS
<1>5. last \in Nat /\ \A n \in DOMAIN history[f] : n \in Nat /\ n < last
  BY <1>0
<1>6. /\ DOMAIN history'[f] = DOMAIN history[f] \cup {last}
      /\ history'[f][last] = e
      /\ \A n \in DOMAIN history[f] : history'[f][n] = history[f][n]
  BY <1>0, <1>3
<1>7. ASSUME f \notin crossed PROVE CorrectionsChain(f)'
  <2>0. /\ CorrectionsChain(f) /\ s.loaded = record[f]
        /\ e.action \notin {"edit", "mark_unknown"} => e.new = record[f].reading.sender
        /\ e.previous = record[f].reading.sender
    BY <1>7 DEF Explained, TurnsTaken
  <2>1. record'[f].reading.sender = e.new
    <3>1. record[f] \in RecordRows /\ record[f].reading \in ReadingRows
      BY <1>0 DEF RecordRows
    <3>2. record'[f].reading = Written(record[f].reading, record[f].reading,
                                       [record[f].reading EXCEPT !.sender = e.new])
      BY <1>0, <2>0 DEF Ruled
    <3> QED
      BY <3>1, <3>2 DEF Written, ReadingRows
  <2>2. CASE e.action \in {"edit", "mark_unknown"}
    <3>1. Corrections(f)' = Corrections(f) \cup {last}
      BY <1>5, <1>6, <2>2 DEF Corrections
    <3>2. \A n \in Corrections(f) : n \in DOMAIN history[f]
      BY DEF Corrections
    <3>3. ASSUME NEW n \in Corrections(f)'
          PROVE  (\A m \in Corrections(f)' : m <= n) => record'[f].reading.sender = history'[f][n].new
      BY <1>5, <1>6, <2>1, <3>1, <3>2
    <3>4. ASSUME NEW n \in Corrections(f)', NEW m \in Corrections(f)', m > n,
                 \A k \in Corrections(f)' : k <= n \/ k >= m
          PROVE  history'[f][m].previous = history'[f][n].new
      <4>1. n \in Corrections(f)
        BY <1>5, <3>1, <3>2, <3>4
      <4>2. CASE m \in Corrections(f)
        <5>1. \A k \in Corrections(f) : k <= n \/ k >= m
          BY <3>1, <3>4
        <5> QED
          BY <1>6, <2>0, <3>2, <3>4, <4>1, <4>2, <5>1 DEF CorrectionsChain
      <4>3. CASE m = last
        <5>1. \A k \in Corrections(f) : k <= n
          BY <1>5, <3>1, <3>2, <3>4, <4>3
        <5>2. record[f].reading.sender = history[f][n].new
          BY <2>0, <4>1, <5>1 DEF CorrectionsChain
        <5> QED
          BY <1>6, <2>0, <3>2, <4>1, <4>3, <5>2
      <4> QED
        BY <3>1, <4>2, <4>3
    <3> QED
      BY <3>3, <3>4 DEF CorrectionsChain
  <2>3. CASE e.action \notin {"edit", "mark_unknown"}
    <3>1. Corrections(f)' = Corrections(f)
      BY <1>5, <1>6, <2>3 DEF Corrections
    <3>2. record'[f].reading.sender = record[f].reading.sender
      BY <2>0, <2>1, <2>3
    <3>3. \A n \in Corrections(f) : history'[f][n] = history[f][n]
      BY <1>6 DEF Corrections
    <3>4. \A n \in Corrections(f) :
              (\A m \in Corrections(f) : m <= n) => record[f].reading.sender = history[f][n].new
      BY <2>0 DEF CorrectionsChain
    <3>5. \A n \in Corrections(f) : \A m \in Corrections(f) :
              m > n /\ (\A k \in Corrections(f) : k <= n \/ k >= m) => history[f][m].previous = history[f][n].new
      BY <2>0 DEF CorrectionsChain
    <3>6. \A n \in Corrections(f) :
              (\A m \in Corrections(f) : m <= n) => record'[f].reading.sender = history'[f][n].new
      BY <3>2, <3>3, <3>4
    <3>7. ASSUME NEW n \in Corrections(f), NEW m \in Corrections(f), m > n,
                 \A k \in Corrections(f) : k <= n \/ k >= m
          PROVE  history'[f][m].previous = history'[f][n].new
      <4>1. history[f][m].previous = history[f][n].new
        BY <3>5, <3>7
      <4> QED
        BY <3>3, <4>1
    <3>8. \A n \in Corrections(f)' :
              (\A m \in Corrections(f)' : m <= n) => record'[f].reading.sender = history'[f][n].new
      BY <3>1, <3>6
    <3>9. ASSUME NEW n \in Corrections(f)', NEW m \in Corrections(f)', m > n,
                 \A k \in Corrections(f)' : k <= n \/ k >= m
          PROVE  history'[f][m].previous = history'[f][n].new
      BY <3>1, <3>7, <3>9
    <3> QED
      BY <3>8, <3>9 DEF CorrectionsChain
  <2> QED
    BY <2>2, <2>3
<1>8. \A g \in Files \ crossed : CorrectionsChain(g)'
  <2>1. ASSUME NEW g \in Files \ crossed, g # f PROVE CorrectionsChain(g)'
    BY <1>3, <2>1 DEF CorrectionsChain, Corrections, Explained
  <2> QED
    BY <1>7, <2>1
<1> QED
  BY <1>2, <1>4, <1>8 DEF Explained

LEMMA ExplainedKept ==
    ASSUME Basics, RulingsFollow, Explained, ~Overlap, [Next]_vars
    PROVE  Explained'
<1>1. ASSUME NEW w \in Workers,
             \/ Start(w) \/ RunFails(w) \/ PurgeReads(w) \/ Purge(w) \/ Project(w)
             \/ CommitProjection(w) \/ ProjectionFails(w) \/ Return(w)
      PROVE  Explained'
  <2>1. UNCHANGED <<record, history, desk, crossed>>
    BY <1>1 DEF Start, RunFails, PurgeReads, Purge, Project, CommitProjection, ProjectionFails, Return
  <2>2. \A x \in Workers : work'[x].pc = "staged" => work'[x] = work[x]
    BY <1>1, StagedByUpsert DEF Basics
  <2>3. (\A v \in Reviewers : ~Ruling(v)) \/ work[w].pc # "idle"
    BY <1>1 DEF Start, RunFails, PurgeReads, Purge, Project, CommitProjection, ProjectionFails, Return
  <2>4. TurnsTaken'
    <3>1. CASE \A v \in Reviewers : ~Ruling(v)
      BY <2>1, <3>1 DEF TurnsTaken, Ruling
    <3>2. CASE work[w].pc # "idle"
      BY <2>1, <3>2, TurnsTakenAside DEF Explained
    <3> QED
      BY <2>3, <3>1, <3>2
  <2> QED
    BY <2>1, <2>2, <2>4, ExplainedAside
<1>2. ASSUME \/ \E i \in DOMAIN timeline : ReviewEvent(i)
             \/ \E t \in DOMAIN trail : ReviewTransaction(t)
             \/ UNCHANGED vars
      PROVE  Explained'
  <2>1. UNCHANGED <<record, history, desk, crossed, work>>
    BY <1>2 DEF ReviewEvent, ReviewTransaction, vars
  <2>2. TurnsTaken'
    BY <2>1 DEF Explained, TurnsTaken, Ruling, Busy
  <2> QED
    BY <2>1, <2>2, ExplainedAside
<1> QED
  BY <1>1, <1>2, ExplainedKeptByUpsert, ExplainedKeptByRecord, ExplainedKeptByBegin, ExplainedKeptByRuling
     DEF Next, RulingsFollow

LEMMA ExplainedSuffices ==
    ASSUME Basics, Explained
    PROVE  HistoryExplainsRecord
<1> SUFFICES ASSUME NEW f \in Files \ crossed, NEW n \in Corrections(f)
             PROVE  LET later == {m \in Corrections(f) : m > n}
                        set == history[f][n].new
                    IN  IF later = {} THEN record[f].reading.sender = set
                                      ELSE history[f][Min(later)].previous = set
  BY DEF HistoryExplainsRecord
<1> PICK later : later = {m \in Corrections(f) : m > n}
  OBVIOUS
<1>1. Corrections(f) \in SUBSET Nat /\ later \in SUBSET Nat
  <2>1. DOMAIN history[f] \subseteq Nat
    BY DEF Basics, TypeOK
  <2> QED
    BY <2>1 DEF Corrections
<1>2. CorrectionsChain(f)
  BY DEF Explained
<1>3. CASE later = {}
  <2>1. \A m \in Corrections(f) : m <= n
    BY <1>1, <1>3
  <2> QED
    BY <1>2, <1>3, <2>1 DEF CorrectionsChain
<1>4. CASE later # {}
  <2> PICK next : next = Min(later)
    OBVIOUS
  <2>1. next \in later /\ \A k \in later : next <= k
    BY <1>1, <1>4, FirstExists
  <2>2. \A k \in Corrections(f) : k <= n \/ k >= next
    BY <1>1, <2>1
  <2>3. history[f][next].previous = history[f][n].new
    BY <1>2, <2>1, <2>2 DEF CorrectionsChain
  <2> QED
    BY <1>4, <2>3
<1> QED
  BY <1>3, <1>4

\* What is known of rulings where they and grounded runs take turns.
LEMMA RulingsAreExplained == ~Overlap => (Spec => [](Basics /\ Explained))
<1> SUFFICES ASSUME ~Overlap PROVE Spec => [](Basics /\ Explained)
  OBVIOUS
<1>1. Init => RulingsFollow /\ Explained
  BY DEF Init, RulingsFollow, RuledStates, SheetsFresh, New, Ruling, Explained, CorrectionsChain, Corrections,
     RuledAsRead, TurnsTaken, NoRecord, Idle, At
<1>2. Basics /\ RulingsFollow /\ Explained /\ [Next]_vars => RulingsFollow' /\ Explained'
  BY RuledStatesKept, ExplainedKept
<1> QED
  BY <1>1, <1>2, BasicsHold, PTL DEF Spec

LEMMA RulingsTakeTurns == ~Overlap => (Spec => []TurnsTaken)
<1>1. Basics /\ Explained => TurnsTaken
  BY DEF Explained
<1> QED
  BY <1>1, RulingsAreExplained, PTL

\* Where reviewers and grounded runs take turns, and the rulings on a record
\* do, it has the value its reviewers set last, and the history leads from each
\* correction to the next: what _upsert_record skips and what the commits
\* write undo nothing. With a run beside a ruling it does not hold, which is
\* what the run projection_ruling shows.
THEOREM RulingsSurviveReprocessing == ~Overlap => (Spec => []HistoryExplainsRecord)
<1>1. Basics /\ Explained => HistoryExplainsRecord
  BY ExplainedSuffices
<1> QED
  BY <1>1, RulingsAreExplained, PTL

-------------------------------------------------------------------------------

\* What holds of the rows that purges delete, whoever else is at work: a
\* projected event has a record; what is being deleted is still there; no two
\* sessions delete events of one record; and a projection that deletes an
\* event of a record inserts one, or has found another that stays.
EventsHaveRecords ==
    /\ \A i \in DOMAIN timeline : timeline[i].grounded => timeline[i].of \in Recorded
    /\ \A w \in Workers : work[w].pc = "projected" => work[w].made \subseteq Recorded

DropsAreThere ==
    \A w \in Workers : \A i \in work[w].dropEvents : timeline[i].live /\ timeline[i].grounded

DropsApart ==
    \A v \in Workers : \A w \in Workers : v # w =>
        \A i \in work[v].dropEvents : \A j \in work[w].dropEvents : timeline[i].of # timeline[j].of

DropsReplaced ==
    \A w \in Workers : work[w].pc = "projected" =>
        \A i \in work[w].dropEvents :
            \/ timeline[i].of \in work[w].made
            \/ \E e \in LiveEvents \ work[w].dropEvents :
                  timeline[e].grounded /\ timeline[e].of = timeline[i].of

PurgesReplace == EventsHaveRecords /\ DropsAreThere /\ DropsApart /\ DropsReplaced

\* A step that leaves projected events where they are, and records where they
\* are, and in which no session takes rows or is done projecting.
LEMMA PurgesReplaceAside ==
    ASSUME Basics, PurgesReplace,
           \A i \in DOMAIN timeline :
              /\ i \in DOMAIN timeline' /\ timeline'[i].of = timeline[i].of
              /\ timeline'[i].grounded = timeline[i].grounded /\ timeline'[i].live = timeline[i].live,
           \A i \in DOMAIN timeline' : timeline'[i].grounded => i \in DOMAIN timeline,
           Recorded \subseteq Recorded',
           \A w \in Workers : \/ work'[w] = work[w]
                              \/ /\ work'[w].pc # "projected"
                                 /\ work'[w].dropEvents \in {{}, work[w].dropEvents}
    PROVE  PurgesReplace'
<1>0. \A w \in Workers : work[w].dropEvents \subseteq DOMAIN timeline
  BY DEF Basics, TypeOK, Sessions
<1>1. EventsHaveRecords'
  BY DEF PurgesReplace, EventsHaveRecords
<1>2. \A w \in Workers : work'[w].dropEvents \subseteq work[w].dropEvents
  OBVIOUS
<1>3. DropsAreThere' /\ DropsApart'
  BY <1>0, <1>2 DEF PurgesReplace, DropsAreThere, DropsApart
<1>4. DropsReplaced'
  <2> SUFFICES ASSUME NEW w \in Workers, work'[w].pc = "projected", NEW i \in work'[w].dropEvents
               PROVE  \/ timeline'[i].of \in work'[w].made
                      \/ \E e \in LiveEvents' \ work'[w].dropEvents :
                            timeline'[e].grounded /\ timeline'[e].of = timeline'[i].of
    BY DEF DropsReplaced
  <2>1. work'[w] = work[w] /\ i \in work[w].dropEvents /\ work[w].pc = "projected" /\ i \in DOMAIN timeline
    BY <1>0
  <2>2. \/ timeline[i].of \in work[w].made
        \/ \E e \in LiveEvents \ work[w].dropEvents : timeline[e].grounded /\ timeline[e].of = timeline[i].of
    BY <2>1 DEF PurgesReplace, DropsReplaced
  <2> QED
    BY <2>1, <2>2 DEF LiveEvents
<1> QED
  BY <1>1, <1>3, <1>4 DEF PurgesReplace

\* The steps in which a session neither purges nor projects.
LEMMA OtherSteps ==
    ASSUME Basics, NEW w \in Workers,
           \/ Start(w) \/ Upsert(w) \/ CommitRecord(w) \/ RunFails(w) \/ PurgeReads(w)
           \/ ProjectionFails(w) \/ Return(w) \/ (CommitProjection(w) /\ Refused(work[w]))
    PROVE  /\ \A x \in Workers : x # w => work'[x] = work[x]
           /\ work'[w].pc # "projected" /\ work'[w].dropEvents \in {{}, work[w].dropEvents}
<1>0. work \in [Workers -> Sessions]
  BY DEF Basics, TypeOK
<1>1. \A f : /\ At("reading", f).pc # "projected" /\ At("recorded", f).pc # "projected" /\ Idle.pc # "projected"
             /\ At("reading", f).dropEvents = {} /\ At("recorded", f).dropEvents = {} /\ Idle.dropEvents = {}
  BY DEF At, Idle
<1>2. CASE \/ Start(w) \/ CommitRecord(w) \/ RunFails(w) \/ ProjectionFails(w) \/ Return(w)
           \/ (CommitProjection(w) /\ Refused(work[w]))
  <2>1. \E s : work' = [work EXCEPT ![w] = s] /\ s.pc # "projected" /\ s.dropEvents = {}
    BY <1>1, <1>2 DEF Start, CommitRecord, RunFails, CommitProjection, ProjectionFails, Return
  <2> QED
    BY <1>0, <2>1
<1>3. CASE Upsert(w)
  <2>1. PICK l, d : work' = [work EXCEPT ![w] = [work[w] EXCEPT !.pc = "staged", !.loaded = l, !.draft = d]]
    BY <1>3 DEF Upsert
  <2> QED
    BY <1>0, <2>1 DEF Sessions
<1>4. CASE PurgeReads(w)
  BY <1>0, <1>4, SMTT(30) DEF PurgeReads, Sessions
<1> QED
  BY <1>2, <1>3, <1>4

\* A record that is there stays.
LEMMA RecordsStay ==
    ASSUME Basics, RulingsFollow, [Next]_vars
    PROVE  Recorded \subseteq Recorded'
<1>0. record \in [Files -> RecordRows]
  BY DEF Basics, TypeOK
<1>1. ASSUME NEW w \in Workers, CommitRecord(w) PROVE Recorded \subseteq Recorded'
  <2> PICK f : f = work[w].file
    OBVIOUS
  <2>1. CASE UNCHANGED record
    BY <2>1 DEF Recorded
  <2>2. CASE /\ record' = [record EXCEPT ![f] = Merged(record[f], work[w].loaded, work[w].draft)]
             /\ ~(work[w].loaded.state = "none" /\ record[f].state # "none")
    <3>1. f \in Files
      BY <1>1 DEF CommitRecord, Basics, TypeOK, Busy
    <3>2. record[f].state # "none" => record'[f].state # "none"
      BY <1>0, <2>2, <3>1 DEF Merged, RecordRows
    <3> QED
      BY <1>0, <2>2, <3>1, <3>2 DEF Recorded
  <2> QED
    BY <1>1, <2>1, <2>2 DEF CommitRecord
<1>2. ASSUME NEW v \in Reviewers, CommitReview(v) PROVE Recorded \subseteq Recorded'
  <2>1. PICK f \in Files, s \in Sheets : record' = [record EXCEPT ![f] = Ruled(record[f], s)]
    BY <1>2, ReviewEffect DEF Basics
  <2>2. StateFor(s.action) # "none"
    BY RulingStates DEF Sheets
  <2>3. record[f].state # "none" => Ruled(record[f], s).state # "none"
    BY <2>2 DEF Ruled
  <2> QED
    BY <1>0, <2>1, <2>3 DEF Recorded
<1>3. CASE UNCHANGED record
  BY <1>3 DEF Recorded
<1> QED
  BY <1>1, <1>2, <1>3
     DEF Next, Start, Upsert, RunFails, PurgeReads, Purge, Project, CommitProjection, ProjectionFails, Return,
         BeginReview, ReviewEvent, ReviewTransaction, vars

\* A step that commits no projection leaves the stored events but for what
\* reviewers say of them, and adds none that are projected.
LEMMA StepsKeepEvents ==
    ASSUME Basics, [Next]_vars, ~\E w \in Workers : CommitProjection(w) /\ ~Refused(work[w])
    PROVE  /\ \A i \in DOMAIN timeline :
                 /\ i \in DOMAIN timeline' /\ timeline'[i].of = timeline[i].of
                 /\ timeline'[i].grounded = timeline[i].grounded /\ timeline'[i].live = timeline[i].live
           /\ \A i \in DOMAIN timeline' : timeline'[i].grounded => i \in DOMAIN timeline
<1>0. timeline \in Seq(EventRows)
  BY DEF Basics, TypeOK
<1> DEFINE Steady == /\ \A i \in DOMAIN timeline :
                           /\ i \in DOMAIN timeline' /\ timeline'[i].of = timeline[i].of
                           /\ timeline'[i].grounded = timeline[i].grounded
                           /\ timeline'[i].live = timeline[i].live
                     /\ \A i \in DOMAIN timeline' : timeline'[i].grounded => i \in DOMAIN timeline
<1>1. CASE timeline' = timeline
  BY <1>1
<1>2. ASSUME NEW w \in Workers, Start(w), timeline' # timeline
      PROVE  Steady
  <2>1. PICK f \in Files : timeline' = Append(timeline, EventRow(f, FALSE, Unread))
    BY <1>2 DEF Start
  <2> PICK e : e = EventRow(f, FALSE, Unread)
    OBVIOUS
  <2>2. e.grounded = FALSE /\ e \in EventRows
    BY DEF EventRow, EventRows, Unread, ReadingRows, Figures
  <2>3. timeline' = Append(timeline, e)
    BY <2>1
  <2> HIDE DEF Steady
  <2>4. /\ DOMAIN timeline' = DOMAIN timeline \cup {Len(timeline) + 1}
        /\ \A i \in DOMAIN timeline : timeline'[i] = timeline[i]
        /\ timeline'[Len(timeline) + 1] = e
    <3>1. Len(timeline) \in Nat /\ DOMAIN timeline = 1..Len(timeline)
      BY <1>0
    <3>2. DOMAIN timeline' = 1..(Len(timeline) + 1)
      BY <1>0, <2>2, <2>3, AppendType
    <3>3. \A i \in DOMAIN timeline : timeline'[i] = timeline[i]
      BY <1>0, <2>2, <2>3, <3>1, AppendType
    <3>4. timeline'[Len(timeline) + 1] = e
      BY <1>0, <2>2, <2>3, AppendType
    <3> QED
      BY <3>1, <3>2, <3>3, <3>4
  <2> QED
    BY <2>2, <2>4 DEF Steady
<1>3. ASSUME NEW i \in DOMAIN timeline, ReviewEvent(i)
      PROVE  Steady
  <2>1. timeline' = [timeline EXCEPT ![i] = [timeline[i] EXCEPT !.review = "ruled"]] /\ timeline[i] \in EventRows
    BY <1>0, <1>3 DEF ReviewEvent
  <2> QED
    BY <1>0, <2>1 DEF EventRows
<1>4. \/ timeline' = timeline
      \/ \E w \in Workers : Start(w)
      \/ \E i \in DOMAIN timeline : ReviewEvent(i)
  BY DEF Next, Upsert, CommitRecord, RunFails, PurgeReads, Purge, Project, CommitProjection, ProjectionFails,
         Return, BeginReview, CommitReview, ReviewTransaction, vars
<1> QED
  BY <1>1, <1>2, <1>3, <1>4

LEMMA PurgesReplaceKeptAside ==
    ASSUME Basics, RulingsFollow, PurgesReplace, [Next]_vars,
           ~\E w \in Workers : CommitProjection(w) /\ ~Refused(work[w]),
           \/ \E w \in Workers :
                 \/ Start(w) \/ Upsert(w) \/ CommitRecord(w) \/ RunFails(w) \/ PurgeReads(w)
                 \/ ProjectionFails(w) \/ Return(w) \/ (CommitProjection(w) /\ Refused(work[w]))
           \/ \E v \in Reviewers : CommitReview(v) \/ \E f \in Files : BeginReview(v, f)
           \/ \E i \in DOMAIN timeline : ReviewEvent(i)
           \/ \E t \in DOMAIN trail : ReviewTransaction(t)
           \/ UNCHANGED vars
    PROVE  PurgesReplace'
<1>1. \A w \in Workers : \/ work'[w] = work[w]
                         \/ /\ work'[w].pc # "projected"
                            /\ work'[w].dropEvents \in {{}, work[w].dropEvents}
  <2>1. CASE work' = work
    BY <2>1
  <2> QED
    BY <2>1, OtherSteps DEF BeginReview, CommitReview, ReviewEvent, ReviewTransaction, vars
<1> QED
  BY <1>1, StepsKeepEvents, RecordsStay, PurgesReplaceAside

\* A purge takes rows nobody else is deleting, and of a record whose rows
\* somebody is deleting it would have to take those too.
LEMMA PurgesReplaceKeptByPurge ==
    ASSUME Basics, PurgesReplace, NEW w \in Workers, Purge(w)
    PROVE  PurgesReplace'
<1> PICK orphans : orphans = {i \in LiveEvents : /\ timeline[i].grounded
                                                 /\ timeline[i].of \notin work[w].seenRecords}
  OBVIOUS
<1>1. PICK loose : work' = [work EXCEPT ![w] = [@ EXCEPT !.pc = "projecting", !.dropEvents = orphans,
                                                          !.dropTrail = loose]]
  BY DEF Purge
<1>2. \A i \in orphans : EventFree(i)
  BY DEF Purge
<1>3. work \in [Workers -> Sessions] /\ UNCHANGED <<timeline, record>>
  BY DEF Basics, TypeOK, Purge
<1>4. /\ \A x \in Workers : x # w => work'[x] = work[x]
      /\ work'[w].pc = "projecting" /\ work'[w].dropEvents = orphans
  BY <1>1, <1>3 DEF Sessions
<1>5. EventsHaveRecords'
  BY <1>3, <1>4 DEF PurgesReplace, EventsHaveRecords, Recorded
<1>6. DropsAreThere'
  BY <1>3, <1>4 DEF PurgesReplace, DropsAreThere, LiveEvents
<1>7. ASSUME NEW v \in Workers, v # w, NEW i \in orphans, NEW j \in work[v].dropEvents
      PROVE  timeline[i].of # timeline[j].of
  <2>1. SUFFICES ASSUME timeline[i].of = timeline[j].of PROVE FALSE
    OBVIOUS
  <2>2. j \in LiveEvents /\ timeline[j].grounded
    BY <1>3 DEF PurgesReplace, DropsAreThere, Sessions, LiveEvents
  <2>3. j \in orphans
    BY <2>1, <2>2
  <2>4. EventFree(j)
    BY <1>2, <2>3
  <2> QED
    BY <2>4 DEF EventFree, TouchedEvents
<1>8. DropsApart'
  <2>1. \A v \in Workers : \A x \in Workers : v # x =>
           \A i \in work'[v].dropEvents : \A j \in work'[x].dropEvents : timeline[i].of # timeline[j].of
    BY <1>4, <1>7 DEF PurgesReplace, DropsApart
  <2> QED
    BY <1>3, <2>1 DEF DropsApart
<1>9. DropsReplaced'
  BY <1>3, <1>4 DEF PurgesReplace, DropsReplaced, LiveEvents
<1> QED
  BY <1>5, <1>6, <1>8, <1>9 DEF PurgesReplace

\* project_record runs for every record of the case: one whose event is being
\* deleted has another, or gets one.
LEMMA PurgesReplaceKeptByProject ==
    ASSUME Basics, PurgesReplace, NEW w \in Workers, Project(w)
    PROVE  PurgesReplace'
<1>1. PICK s \in Sessions :
          /\ work' = [work EXCEPT ![w] = s] /\ s.pc = "projected" /\ s.dropEvents = work[w].dropEvents
          /\ s.made = Made(w)
  BY ProjectedSession DEF Basics
<1>2. work \in [Workers -> Sessions] /\ UNCHANGED <<timeline, record>> /\ TypeOK
  BY DEF Basics, TypeOK, Project
<1>3. /\ \A x \in Workers : x # w => work'[x] = work[x]
      /\ work'[w] = s
  BY <1>1, <1>2
<1>4. Made(w) \subseteq Recorded /\ \A f \in Recorded : ExistingEvent(w, f) = 0 => f \in Made(w)
  BY DEF Made, Open
<1>5. EventsHaveRecords'
  BY <1>1, <1>2, <1>3, <1>4 DEF PurgesReplace, EventsHaveRecords, Recorded
<1>6. DropsAreThere' /\ DropsApart'
  BY <1>1, <1>2, <1>3 DEF PurgesReplace, DropsAreThere, DropsApart
<1>7. ASSUME NEW i \in work[w].dropEvents
      PROVE  \/ timeline[i].of \in s.made
             \/ \E e \in LiveEvents \ work[w].dropEvents :
                   timeline[e].grounded /\ timeline[e].of = timeline[i].of
  <2> PICK f : f = timeline[i].of
    OBVIOUS
  <2>1. f \in Recorded
    BY <1>2 DEF PurgesReplace, EventsHaveRecords, DropsAreThere, Sessions
  <2>2. CASE ExistingEvent(w, f) = 0
    BY <1>1, <1>4, <2>1, <2>2
  <2>3. CASE ExistingEvent(w, f) # 0
    <3>1. ExistingEvent(w, f) \in EventsOf(w, f)
      BY <1>2, <2>3, OwnEvent
    <3> QED
      BY <3>1 DEF EventsOf, SeenTimeline
  <2> QED
    BY <2>2, <2>3
<1>8. DropsReplaced'
  <2>1. \A x \in Workers : work'[x].pc = "projected" =>
           \A i \in work'[x].dropEvents :
              \/ timeline[i].of \in work'[x].made
              \/ \E e \in LiveEvents \ work'[x].dropEvents :
                    timeline[e].grounded /\ timeline[e].of = timeline[i].of
    BY <1>1, <1>3, <1>7 DEF PurgesReplace, DropsReplaced
  <2> QED
    BY <1>2, <2>1 DEF DropsReplaced, LiveEvents
<1> QED
  BY <1>5, <1>6, <1>8 DEF PurgesReplace

\* What a commit leaves of the projected events: all but those it deletes, and
\* of each record it deletes an event of, one at least.
LEMMA CommitKeepsEvents ==
    ASSUME Basics, PurgesReplace, NEW w \in Workers, CommitProjection(w), ~Refused(work[w])
    PROVE  /\ \A i \in DOMAIN timeline :
                 /\ i \in DOMAIN timeline' /\ timeline'[i].of = timeline[i].of
                 /\ timeline'[i].grounded = timeline[i].grounded
                 /\ timeline'[i].live = (timeline[i].live /\ i \notin work[w].dropEvents)
           /\ \A i \in DOMAIN timeline' \ DOMAIN timeline : timeline'[i].of \in work[w].made
           /\ \A i \in work[w].dropEvents :
                 \E e \in LiveEvents' : timeline'[e].grounded /\ timeline'[e].of = timeline[i].of
           /\ \A x \in Workers : x # w => work'[x] = work[x]
           /\ work'[w].pc = "done" /\ work'[w].dropEvents = {}
<1> PICK s : s = work[w]
  OBVIOUS
<1>0. /\ TypeOK /\ s \in Sessions /\ work \in [Workers -> Sessions] /\ Len(timeline) \in Nat
      /\ s.pc = "projected" /\ DOMAIN timeline = 1..Len(timeline)
      /\ s.dropEvents \subseteq DOMAIN timeline
  BY DEF Basics, TypeOK, CommitProjection, Sessions
<1>1. /\ work' = [work EXCEPT ![w] = At("done", s.file)]
      /\ timeline' \in Seq(EventRows) /\ Len(timeline') = Len(timeline) + Len(AddedEvents(s))
      /\ \A i \in 1..Len(timeline) : timeline'[i] = EventAfter(s, i)
      /\ \A n \in 1..Len(AddedEvents(s)) : timeline'[Len(timeline) + n] = AddedEvents(s)[n]
  BY CommitEffect
<1> PICK added : added = AddedEvents(s)
  OBVIOUS
<1>2. /\ added \in Seq(EventRows) /\ Len(added) \in Nat /\ DOMAIN added = 1..Len(added)
      /\ \A n \in 1..Len(added) : added[n].of \in s.made /\ added[n].grounded /\ added[n].live
      /\ \A f \in s.made : \E n \in 1..Len(added) : added[n].of = f
  <2>1. added \in Seq(EventRows)
    BY <1>0, AddedEventRows
  <2>2. Len(added) \in Nat /\ DOMAIN added = 1..Len(added)
    BY <2>1
  <2>3. \A n \in DOMAIN added : added[n].of \in s.made /\ added[n].grounded /\ added[n].live
    BY <1>0, AddedEventRows
  <2>4. \A f \in s.made : \E n \in DOMAIN added : added[n].of = f
    BY <1>0, AddedEventRows
  <2> QED
    BY <2>1, <2>2, <2>3, <2>4
<1>3. DOMAIN timeline' = 1..(Len(timeline) + Len(added))
  BY <1>1
<1>4. \A i \in DOMAIN timeline :
         /\ i \in DOMAIN timeline' /\ timeline'[i].of = timeline[i].of
         /\ timeline'[i].grounded = timeline[i].grounded
         /\ timeline'[i].live = (timeline[i].live /\ i \notin s.dropEvents)
  <2> TAKE i \in DOMAIN timeline
  <2>1. i \in DOMAIN timeline' /\ timeline'[i] = EventAfter(s, i)
    BY <1>0, <1>1, <1>2, <1>3
  <2> QED
    BY <1>0, <2>1, EventAfterRow
<1>5. \A i \in DOMAIN timeline' \ DOMAIN timeline :
         \E n \in 1..Len(added) : i = Len(timeline) + n
  <2> TAKE i \in DOMAIN timeline' \ DOMAIN timeline
  <2>1. i - Len(timeline) \in 1..Len(added) /\ i = Len(timeline) + (i - Len(timeline))
    BY <1>0, <1>2, <1>3
  <2> QED
    BY <2>1
<1>6. \A n \in 1..Len(added) :
         /\ Len(timeline) + n \in DOMAIN timeline'
         /\ timeline'[Len(timeline) + n] = added[n]
  BY <1>0, <1>1, <1>2, <1>3
<1>7. \A i \in DOMAIN timeline' \ DOMAIN timeline : timeline'[i].of \in s.made
  <2> TAKE i \in DOMAIN timeline' \ DOMAIN timeline
  <2>1. PICK n \in 1..Len(added) : i = Len(timeline) + n
    BY <1>5
  <2> QED
    BY <1>2, <1>6, <2>1
<1>8. ASSUME NEW i \in s.dropEvents
      PROVE  \E e \in LiveEvents' : timeline'[e].grounded /\ timeline'[e].of = timeline[i].of
  <2>1. CASE timeline[i].of \in s.made
    <3>1. PICK n \in 1..Len(added) : added[n].of = timeline[i].of
      BY <1>2, <2>1
    <3>2. PICK e : e = Len(timeline) + n
      OBVIOUS
    <3>3. e \in DOMAIN timeline' /\ timeline'[e] = added[n]
      BY <1>6, <3>2
    <3> QED
      BY <1>2, <3>1, <3>3 DEF LiveEvents
  <2>2. ASSUME NEW e \in LiveEvents \ s.dropEvents, timeline[e].grounded, timeline[e].of = timeline[i].of
        PROVE  e \in LiveEvents' /\ timeline'[e].grounded /\ timeline'[e].of = timeline[i].of
    BY <1>4, <2>2 DEF LiveEvents
  <2> QED
    BY <1>0, <2>1, <2>2 DEF PurgesReplace, DropsReplaced
<1>9. /\ \A x \in Workers : x # w => work'[x] = work[x]
      /\ work'[w].pc = "done" /\ work'[w].dropEvents = {}
  <2>1. At("done", s.file).pc = "done" /\ At("done", s.file).dropEvents = {}
    BY DEF At
  <2> QED
    BY <1>0, <1>1, <2>1
<1> QED
  BY <1>4, <1>7, <1>8, <1>9

LEMMA PurgesReplaceKeptByCommit ==
    ASSUME Basics, PurgesReplace, NEW w \in Workers, CommitProjection(w), ~Refused(work[w])
    PROVE  PurgesReplace'
<1>0. /\ UNCHANGED record /\ work[w].pc = "projected"
      /\ \A x \in Workers : work[x].dropEvents \subseteq DOMAIN timeline
  BY DEF CommitProjection, Basics, TypeOK, Sessions
<1>1. /\ \A i \in DOMAIN timeline :
            /\ i \in DOMAIN timeline' /\ timeline'[i].of = timeline[i].of
            /\ timeline'[i].grounded = timeline[i].grounded
            /\ timeline'[i].live = (timeline[i].live /\ i \notin work[w].dropEvents)
      /\ \A i \in DOMAIN timeline' \ DOMAIN timeline : timeline'[i].of \in work[w].made
      /\ \A x \in Workers : x # w => work'[x] = work[x]
      /\ work'[w].pc = "done" /\ work'[w].dropEvents = {}
  BY CommitKeepsEvents
<1>2. EventsHaveRecords'
  <2>1. Recorded' = Recorded
    BY <1>0 DEF Recorded
  <2>2. \A i \in DOMAIN timeline' : timeline'[i].grounded => timeline'[i].of \in Recorded
    BY <1>0, <1>1 DEF PurgesReplace, EventsHaveRecords
  <2> QED
    BY <1>1, <2>1, <2>2 DEF PurgesReplace, EventsHaveRecords
<1>3. \A v \in Workers : v # w => \A i \in work[v].dropEvents : i \notin work[w].dropEvents
  BY DEF PurgesReplace, DropsApart
<1>4. DropsAreThere'
  BY <1>0, <1>1, <1>3 DEF PurgesReplace, DropsAreThere
<1>5. DropsApart'
  BY <1>0, <1>1 DEF PurgesReplace, DropsApart
<1>6. DropsReplaced'
  <2> SUFFICES ASSUME NEW v \in Workers, work'[v].pc = "projected", NEW i \in work'[v].dropEvents
               PROVE  \/ timeline'[i].of \in work'[v].made
                      \/ \E e \in LiveEvents' \ work'[v].dropEvents :
                            timeline'[e].grounded /\ timeline'[e].of = timeline'[i].of
    BY DEF DropsReplaced
  <2>1. v # w /\ work'[v] = work[v] /\ i \in work[v].dropEvents /\ i \in DOMAIN timeline
    BY <1>0, <1>1
  <2>2. ASSUME NEW e \in LiveEvents \ work[v].dropEvents, timeline[e].grounded, timeline[e].of = timeline[i].of
        PROVE  e \in LiveEvents' /\ timeline'[e].grounded /\ timeline'[e].of = timeline'[i].of
    <3>1. e \notin work[w].dropEvents
      BY <2>1, <2>2 DEF PurgesReplace, DropsApart
    <3> QED
      BY <1>1, <2>1, <2>2, <3>1 DEF LiveEvents
  <2>3. \/ timeline[i].of \in work[v].made
        \/ \E e \in LiveEvents \ work[v].dropEvents : timeline[e].grounded /\ timeline[e].of = timeline[i].of
    BY <2>1 DEF PurgesReplace, DropsReplaced
  <2> QED
    BY <1>1, <2>1, <2>2, <2>3
<1> QED
  BY <1>2, <1>4, <1>5, <1>6 DEF PurgesReplace

LEMMA PurgesReplaceKept ==
    ASSUME Basics, RulingsFollow, PurgesReplace, [Next]_vars
    PROVE  PurgesReplace'
<1>1. CASE \E w \in Workers : CommitProjection(w) /\ ~Refused(work[w])
  BY <1>1, PurgesReplaceKeptByCommit
<1>2. CASE ~\E w \in Workers : CommitProjection(w) /\ ~Refused(work[w])
  BY <1>2, PurgesReplaceKeptByPurge, PurgesReplaceKeptByProject, PurgesReplaceKeptAside DEF Next
<1> QED
  BY <1>1, <1>2

\* A record that has its place on the timeline keeps one through every step of
\* every session, however many purge and rebuild the case at once, and whatever
\* reviewers do meanwhile.
THEOREM TimelineKeepsRecords == Spec => RecordsStayOnTimeline
<1>1. Init => RulingsFollow /\ PurgesReplace
  BY DEF Init, RulingsFollow, RuledStates, SheetsFresh, New, Ruling, NoRecord, Idle, At, PurgesReplace,
     EventsHaveRecords, DropsAreThere, DropsApart,
         DropsReplaced
<1>2. Basics /\ RulingsFollow /\ PurgesReplace /\ [Next]_vars => RulingsFollow' /\ PurgesReplace'
  BY RuledStatesKept, PurgesReplaceKept
<1> DEFINE OnTimeline(f) == \E i \in LiveEvents : timeline[i].grounded /\ timeline[i].of = f
           Stays == \A f \in Files : OnTimeline(f)
                       => \E i \in DOMAIN timeline' : /\ timeline'[i].live /\ timeline'[i].grounded
                                                      /\ timeline'[i].of = f
<1>3. Basics /\ RulingsFollow /\ PurgesReplace /\ [Next]_vars => [Stays]_vars
  <2> SUFFICES ASSUME Basics, RulingsFollow, PurgesReplace, [Next]_vars, NEW f \in Files,
                      NEW i \in LiveEvents, timeline[i].grounded, timeline[i].of = f
               PROVE  \E e \in DOMAIN timeline' : /\ timeline'[e].live /\ timeline'[e].grounded
                                                  /\ timeline'[e].of = f
    OBVIOUS
  <2>1. CASE \E w \in Workers : CommitProjection(w) /\ ~Refused(work[w])
    <3>1. PICK w \in Workers : CommitProjection(w) /\ ~Refused(work[w])
      BY <2>1
    <3>2. CASE i \in work[w].dropEvents
      BY <3>1, <3>2, CommitKeepsEvents DEF LiveEvents
    <3>3. CASE i \notin work[w].dropEvents
      BY <3>1, <3>3, CommitKeepsEvents DEF LiveEvents
    <3> QED
      BY <3>2, <3>3
  <2>2. CASE ~\E w \in Workers : CommitProjection(w) /\ ~Refused(work[w])
    <3>1. i \in DOMAIN timeline' /\ timeline'[i].of = timeline[i].of
          /\ timeline'[i].grounded = timeline[i].grounded /\ timeline'[i].live = timeline[i].live
      BY <2>2, StepsKeepEvents DEF LiveEvents
    <3> QED
      BY <3>1 DEF LiveEvents
  <2> QED
    BY <2>1, <2>2
<1> QED
  BY <1>1, <1>2, <1>3, BasicsHold, PTL DEF Spec, RecordsStayOnTimeline

-------------------------------------------------------------------------------

\* One session at a time. Purges then find nothing to delete: whatever is on
\* the timeline was there, with its record, when the session read it.
Sole == \A v \in Workers : \A w \in Workers : v = w

NothingOrphaned ==
    /\ \A i \in DOMAIN timeline : timeline[i].live
    /\ \A w \in Workers :
          /\ work[w].dropEvents = {}
          /\ work[w].pc = "purging" => /\ DOMAIN timeline \subseteq work[w].seenEvents
                                       /\ \A i \in DOMAIN timeline : timeline[i].grounded =>
                                              timeline[i].of \in work[w].seenRecords

\* Nobody has ruled on the rows a session is about to change, and a transaction
\* it deletes belongs to a projected event.
TargetsUnruled ==
    \A w \in Workers :
        /\ \A f \in work[w].moved : timeline[work[w].own[f]].review = "unreviewed"
        /\ \A t \in work[w].dropTrail \cup work[w].filled : trail[t].review = "unreviewed"
        /\ \A t \in work[w].dropTrail : timeline[trail[t].event].grounded

\* A record has one event at most, and none if the session is to insert one.
OneEventEach ==
    /\ \A i \in DOMAIN timeline : \A j \in DOMAIN timeline :
          timeline[i].grounded /\ timeline[j].grounded /\ timeline[i].of = timeline[j].of => i = j
    /\ \A w \in Workers : work[w].pc = "projected" =>
          \A i \in DOMAIN timeline : timeline[i].grounded => timeline[i].of \notin work[w].made

SoleInv == NothingOrphaned /\ TargetsUnruled /\ OneEventEach /\ LedgerTransfersKept

\* What a session is about to change, let go or kept.
LetGo(w) ==
    /\ work'[w].dropEvents = {} /\ work'[w].dropTrail = {}
    /\ work'[w].moved = {} /\ work'[w].filled = {}
KeptHold(w) ==
    /\ work'[w].dropEvents = work[w].dropEvents /\ work'[w].dropTrail = work[w].dropTrail
    /\ work'[w].moved = work[w].moved /\ work'[w].own = work[w].own /\ work'[w].filled = work[w].filled

LEMMA OtherHolds ==
    ASSUME Basics, NEW w \in Workers,
           \/ Start(w) \/ Upsert(w) \/ CommitRecord(w) \/ RunFails(w) \/ PurgeReads(w)
           \/ ProjectionFails(w) \/ Return(w) \/ CommitProjection(w)
    PROVE  /\ \A x \in Workers : x # w => work'[x] = work[x]
           /\ work'[w].pc # "projected" /\ (work'[w].pc = "purging" => PurgeReads(w))
           /\ LetGo(w) \/ KeptHold(w)
<1>0. work \in [Workers -> Sessions]
  BY DEF Basics, TypeOK
<1>1. \A pc, f : At(pc, f).pc = pc /\ At(pc, f).dropEvents = {} /\ At(pc, f).dropTrail = {}
                 /\ At(pc, f).moved = {} /\ At(pc, f).filled = {}
  BY DEF At
<1>2. CASE Start(w) \/ CommitRecord(w) \/ RunFails(w) \/ ProjectionFails(w) \/ Return(w) \/ CommitProjection(w)
  <2>1. \E pc \in {"reading", "recorded", "idle", "done"} : \E f : work' = [work EXCEPT ![w] = At(pc, f)]
    BY <1>2 DEF Start, CommitRecord, RunFails, CommitProjection, ProjectionFails, Return, Idle
  <2>2. PICK pc \in {"reading", "recorded", "idle", "done"} : \E f : work' = [work EXCEPT ![w] = At(pc, f)]
    BY <2>1
  <2>3. PICK f : work' = [work EXCEPT ![w] = At(pc, f)]
    BY <2>2
  <2> PICK s : s = At(pc, f)
    OBVIOUS
  <2>4. s.pc = pc /\ s.dropEvents = {} /\ s.dropTrail = {} /\ s.moved = {} /\ s.filled = {}
    BY <1>1
  <2>5. work' = [work EXCEPT ![w] = s]
    BY <2>3
  <2> QED
    BY <1>0, <2>4, <2>5 DEF LetGo
<1>3. CASE Upsert(w)
  <2>1. PICK l, d : work' = [work EXCEPT ![w] = [work[w] EXCEPT !.pc = "staged", !.loaded = l, !.draft = d]]
    BY <1>3 DEF Upsert
  <2> QED
    BY <1>0, <2>1 DEF Sessions, KeptHold
<1>4. CASE PurgeReads(w)
  <2>1. work' = [work EXCEPT ![w] = [work[w] EXCEPT !.pc = "purging", !.seenRecords = Recorded,
                                                    !.seenEvents = LiveEvents]]
    BY <1>4 DEF PurgeReads
  <2> QED
    BY <1>0, <1>4, <2>1 DEF Sessions, KeptHold
<1> QED
  BY <1>2, <1>3, <1>4

\* What a run that begins adds: the event of its file, and the transaction of
\* a ledger, unless they are stored.
LEMMA StartEffect ==
    ASSUME Basics, NEW w \in Workers, Start(w)
    PROVE  \E f \in Files :
              \/ Ingested(f) /\ UNCHANGED <<timeline, trail>>
              \/ /\ ~Ingested(f)
                 /\ DOMAIN timeline' = DOMAIN timeline \cup {Len(timeline) + 1}
                 /\ \A i \in DOMAIN timeline : timeline'[i] = timeline[i]
                 /\ timeline'[Len(timeline) + 1] = EventRow(f, FALSE, Unread)
                 /\ \/ f \notin Ledgers /\ UNCHANGED trail
                    \/ /\ f \in Ledgers
                       /\ DOMAIN trail' = DOMAIN trail \cup {Len(trail) + 1}
                       /\ \A t \in DOMAIN trail : trail'[t] = trail[t]
                       /\ trail'[Len(trail) + 1] = TrailRow(f, Len(timeline) + 1, Null)
<1>0. timeline \in Seq(EventRows) /\ trail \in Seq(TrailRows)
  BY DEF Basics, TypeOK
<1>1. PICK f \in Files :
          /\ timeline' = IF Ingested(f) THEN timeline ELSE Append(timeline, EventRow(f, FALSE, Unread))
          /\ trail' = IF Ingested(f) \/ f \notin Ledgers THEN trail
                      ELSE Append(trail, TrailRow(f, Len(timeline) + 1, Null))
  BY DEF Start
<1>2. CASE Ingested(f)
  BY <1>1, <1>2
<1>3. CASE ~Ingested(f)
  <2> PICK e : e = EventRow(f, FALSE, Unread)
    OBVIOUS
  <2> PICK p : p = TrailRow(f, Len(timeline) + 1, Null)
    OBVIOUS
  <2>1. timeline' = Append(timeline, e) /\ trail' = IF f \notin Ledgers THEN trail ELSE Append(trail, p)
    BY <1>1, <1>3
  <2>2. /\ DOMAIN timeline' = DOMAIN timeline \cup {Len(timeline) + 1}
        /\ \A i \in DOMAIN timeline : timeline'[i] = timeline[i]
        /\ timeline'[Len(timeline) + 1] = e
    <3>1. Len(timeline) \in Nat /\ DOMAIN timeline = 1..Len(timeline)
      BY <1>0
    <3>2. timeline' = Append(timeline, e) /\ e \in EventRows
      BY <2>1 DEF EventRow, EventRows, Unread, ReadingRows, Figures
    <3>3. DOMAIN timeline' = 1..(Len(timeline) + 1)
      BY <1>0, <3>2, AppendType
    <3>4. \A i \in DOMAIN timeline : timeline'[i] = timeline[i]
      BY <1>0, <3>1, <3>2, AppendType
    <3>5. timeline'[Len(timeline) + 1] = e
      BY <1>0, <3>2, AppendType
    <3> QED
      BY <3>1, <3>3, <3>4, <3>5
  <2>3. ASSUME f \in Ledgers
        PROVE  /\ DOMAIN trail' = DOMAIN trail \cup {Len(trail) + 1}
               /\ \A t \in DOMAIN trail : trail'[t] = trail[t]
               /\ trail'[Len(trail) + 1] = p
    <3>1. Len(trail) \in Nat /\ DOMAIN trail = 1..Len(trail)
      BY <1>0
    <3> PICK rows : rows = TrailRows'
      OBVIOUS
    <3>2. p \in rows
      BY <2>2 DEF TrailRow, TrailRows
    <3>3. trail \in Seq(rows)
      <4>1. DOMAIN timeline \subseteq DOMAIN timeline'
        BY <2>2
      <4>2. TrailRows \subseteq rows
        BY <4>1 DEF TrailRows
      <4> QED
        BY <1>0, <4>2
    <3>4. trail' = Append(trail, p)
      BY <2>1, <2>3
    <3>5. DOMAIN trail' = 1..(Len(trail) + 1)
      BY <3>2, <3>3, <3>4, AppendType
    <3>6. \A t \in DOMAIN trail : trail'[t] = trail[t]
      BY <3>1, <3>2, <3>3, <3>4, AppendType
    <3>7. trail'[Len(trail) + 1] = p
      BY <3>2, <3>3, <3>4, AppendType
    <3> QED
      BY <3>1, <3>5, <3>6, <3>7
  <2>4. f \notin Ledgers => UNCHANGED trail
    BY <2>1
  <2> QED
    BY <1>3, <2>1, <2>2, <2>3, <2>4
<1> QED
  BY <1>2, <1>3

\* Steps of the only session that take no rows and commit none, on tables that
\* stay as they are.
LEMMA SoleAside ==
    ASSUME Basics, Sole, SoleInv, UNCHANGED <<timeline, trail>>,
           \A w \in Workers :
              \/ work'[w] = work[w]
              \/ /\ LetGo(w) \/ KeptHold(w)
                 /\ work'[w].pc \notin {"purging", "projected"}
    PROVE  SoleInv'
<1>1. NothingOrphaned'
  BY DEF SoleInv, NothingOrphaned, LetGo, KeptHold
<1>2. TargetsUnruled'
  <2> SUFFICES ASSUME NEW w \in Workers
               PROVE  /\ \A f \in work'[w].moved : timeline[work'[w].own[f]].review = "unreviewed"
                      /\ \A t \in work'[w].dropTrail \cup work'[w].filled : trail[t].review = "unreviewed"
                      /\ \A t \in work'[w].dropTrail : timeline[trail[t].event].grounded
    BY DEF TargetsUnruled
  <2>1. /\ \A f \in work[w].moved : timeline[work[w].own[f]].review = "unreviewed"
        /\ \A t \in work[w].dropTrail \cup work[w].filled : trail[t].review = "unreviewed"
        /\ \A t \in work[w].dropTrail : timeline[trail[t].event].grounded
    BY DEF SoleInv, TargetsUnruled
  <2>2. CASE LetGo(w)
    BY <2>2 DEF LetGo
  <2>3. CASE KeptHold(w)
    BY <2>1, <2>3 DEF KeptHold
  <2> QED
    BY <2>1, <2>2, <2>3
<1>3. OneEventEach'
  BY DEF SoleInv, OneEventEach
<1>4. LedgerTransfersKept'
  BY DEF SoleInv, LedgerTransfersKept, Ingested, LiveTrail
<1> QED
  BY <1>1, <1>2, <1>3, <1>4 DEF SoleInv

LEMMA SoleKeptByStart ==
    ASSUME Basics, Sole, SoleInv, NEW w \in Workers, Start(w)
    PROVE  SoleInv'
<1>0. /\ DOMAIN timeline = 1..Len(timeline) /\ DOMAIN trail = 1..Len(trail)
      /\ Len(timeline) \in Nat /\ Len(trail) \in Nat
      /\ \A t \in DOMAIN trail : trail[t].event \in DOMAIN timeline
      /\ \A x \in Workers : work[x] \in Sessions /\ work[x].dropEvents \subseteq DOMAIN timeline
                            /\ work[x].dropTrail \subseteq DOMAIN trail /\ work[x].filled \subseteq DOMAIN trail
  <2>1. \A t \in DOMAIN trail : trail[t] \in TrailRows
    BY DEF Basics, TypeOK
  <2>2. timeline \in Seq(EventRows) /\ trail \in Seq(TrailRows)
    BY DEF Basics, TypeOK
  <2>3. \A t \in DOMAIN trail : trail[t].event \in DOMAIN timeline
    BY <2>1 DEF TrailRows
  <2>4. \A x \in Workers : work[x] \in Sessions
    BY DEF Basics, TypeOK
  <2>5. \A s \in Sessions : /\ s.dropEvents \subseteq DOMAIN timeline
                            /\ s.dropTrail \subseteq DOMAIN trail
                            /\ s.filled \subseteq DOMAIN trail
    BY DEF Sessions
  <2> QED
    BY <2>2, <2>3, <2>4, <2>5
<1>1. PICK f \in Files :
          \/ Ingested(f) /\ UNCHANGED <<timeline, trail>>
          \/ /\ ~Ingested(f)
             /\ DOMAIN timeline' = DOMAIN timeline \cup {Len(timeline) + 1}
             /\ \A i \in DOMAIN timeline : timeline'[i] = timeline[i]
             /\ timeline'[Len(timeline) + 1] = EventRow(f, FALSE, Unread)
             /\ \/ f \notin Ledgers /\ UNCHANGED trail
                \/ /\ f \in Ledgers
                   /\ DOMAIN trail' = DOMAIN trail \cup {Len(trail) + 1}
                   /\ \A t \in DOMAIN trail : trail'[t] = trail[t]
                   /\ trail'[Len(trail) + 1] = TrailRow(f, Len(timeline) + 1, Null)
  BY StartEffect
<1>2. /\ \A x \in Workers : x = w
      /\ work'[w].pc \notin {"purging", "projected"} /\ LetGo(w)
  <2>1. PICK g : work' = [work EXCEPT ![w] = At("reading", g)]
    BY DEF Start
  <2> PICK s : s = At("reading", g)
    OBVIOUS
  <2>2. s.pc = "reading" /\ s.dropEvents = {} /\ s.dropTrail = {} /\ s.moved = {} /\ s.filled = {}
    BY DEF At
  <2>3. work' = [work EXCEPT ![w] = s] /\ work \in [Workers -> Sessions]
    BY <2>1 DEF Basics, TypeOK
  <2> QED
    BY <2>2, <2>3 DEF Sole, LetGo
<1>3. CASE UNCHANGED <<timeline, trail>>
  BY <1>2, <1>3, SoleAside
<1>4. CASE /\ ~Ingested(f)
           /\ DOMAIN timeline' = DOMAIN timeline \cup {Len(timeline) + 1}
           /\ \A i \in DOMAIN timeline : timeline'[i] = timeline[i]
           /\ timeline'[Len(timeline) + 1] = EventRow(f, FALSE, Unread)
           /\ \/ f \notin Ledgers /\ UNCHANGED trail
              \/ /\ f \in Ledgers
                 /\ DOMAIN trail' = DOMAIN trail \cup {Len(trail) + 1}
                 /\ \A t \in DOMAIN trail : trail'[t] = trail[t]
                 /\ trail'[Len(trail) + 1] = TrailRow(f, Len(timeline) + 1, Null)
  <2> PICK e : e = timeline'[Len(timeline) + 1]
    OBVIOUS
  <2>1. e.live = TRUE /\ e.grounded = FALSE /\ e.of = f
    BY <1>4 DEF EventRow
  <2>2. NothingOrphaned'
    BY <1>2, <1>4, <2>1 DEF SoleInv, NothingOrphaned, LetGo
  <2>3. TargetsUnruled'
    BY <1>2 DEF TargetsUnruled, LetGo
  <2>4. OneEventEach'
    BY <1>2, <1>4, <2>1 DEF SoleInv, OneEventEach
  <2>5. LedgerTransfersKept'
    <3> SUFFICES ASSUME NEW g \in Ledgers, Ingested(g)'
                 PROVE  \E t \in LiveTrail' : trail'[t].of = g /\ ~timeline'[trail'[t].event].grounded
      BY DEF LedgerTransfersKept
    <3>1. CASE g = f
      <4> PICK n : n = Len(trail) + 1
        OBVIOUS
      <4> PICK p : p = trail'[n]
        OBVIOUS
      <4>1. n \in DOMAIN trail' /\ p = TrailRow(f, Len(timeline) + 1, Null)
        BY <1>4, <3>1, <1>0
      <4>2. p.live = TRUE /\ p.of = f /\ p.event = Len(timeline) + 1
        BY <4>1 DEF TrailRow
      <4> QED
        BY <2>1, <3>1, <4>1, <4>2 DEF LiveTrail
    <3>2. CASE g # f
      <4>1. Ingested(g)
        BY <1>4, <2>1, <3>2 DEF Ingested
      <4>2. PICK t \in LiveTrail : trail[t].of = g /\ ~timeline[trail[t].event].grounded
        BY <4>1 DEF SoleInv, LedgerTransfersKept
      <4>3. t \in DOMAIN trail' /\ trail'[t] = trail[t]
        BY <1>4, <4>2 DEF LiveTrail
      <4>4. timeline'[trail[t].event] = timeline[trail[t].event]
        BY <1>0, <1>4, <4>2 DEF LiveTrail
      <4> QED
        BY <4>2, <4>3, <4>4 DEF LiveTrail
    <3> QED
      BY <3>1, <3>2
  <2> QED
    BY <2>2, <2>3, <2>4, <2>5 DEF SoleInv
<1> QED
  BY <1>1, <1>3, <1>4

\* The session reads the identifiers of all that is there, and finds all of it
\* accounted for.
LEMMA SoleKeptByPurge ==
    ASSUME Basics, Sole, SoleInv, EventsHaveRecords, NEW w \in Workers, PurgeReads(w) \/ Purge(w)
    PROVE  SoleInv'
<1>0. /\ work \in [Workers -> Sessions] /\ UNCHANGED <<timeline, trail>>
      /\ \A t \in DOMAIN trail : trail[t].event \in DOMAIN timeline
  <2>1. \A t \in DOMAIN trail : trail[t] \in TrailRows
    BY DEF Basics, TypeOK
  <2> QED
    BY <2>1 DEF Basics, TypeOK, TrailRows, PurgeReads, Purge
<1>1. LiveEvents = DOMAIN timeline
  BY DEF SoleInv, NothingOrphaned, LiveEvents
<1>2. CASE PurgeReads(w)
  <2>1. work' = [work EXCEPT ![w] = [work[w] EXCEPT !.pc = "purging", !.seenRecords = Recorded,
                                                    !.seenEvents = LiveEvents]]
    BY <1>2 DEF PurgeReads
  <2>2. /\ work'[w].seenRecords = Recorded /\ work'[w].seenEvents = LiveEvents /\ work'[w].pc = "purging"
        /\ KeptHold(w)
    BY <1>0, <2>1 DEF Sessions, KeptHold
  <2>3. \A x \in Workers : x = w
    BY DEF Sole
  <2>4. NothingOrphaned'
    BY <1>0, <1>1, <2>2, <2>3 DEF SoleInv, NothingOrphaned, EventsHaveRecords, KeptHold
  <2>5. TargetsUnruled'
    BY <1>0, <2>2, <2>3 DEF SoleInv, TargetsUnruled, KeptHold
  <2>6. OneEventEach' /\ LedgerTransfersKept'
    BY <1>0, <2>2, <2>3 DEF SoleInv, OneEventEach, LedgerTransfersKept, Ingested, LiveTrail
  <2> QED
    BY <2>4, <2>5, <2>6 DEF SoleInv
<1>3. CASE Purge(w)
  <2> PICK orphans : orphans = {i \in LiveEvents : /\ timeline[i].grounded
                                                   /\ timeline[i].of \notin work[w].seenRecords}
    OBVIOUS
  <2> PICK kept : kept = work[w].seenEvents \ orphans
    OBVIOUS
  <2> PICK loose : loose = {t \in LiveTrail : trail[t].event \notin kept}
    OBVIOUS
  <2>1. work[w].pc = "purging" /\ work' = [work EXCEPT ![w] = [work[w] EXCEPT !.pc = "projecting",
            !.dropEvents = orphans, !.dropTrail = loose]]
    BY <1>3 DEF Purge
  <2>2. orphans = {}
    BY <1>1, <2>1 DEF SoleInv, NothingOrphaned
  <2>3. loose = {}
    BY <1>0, <2>1, <2>2 DEF SoleInv, NothingOrphaned, LiveTrail
  <2>4. /\ work'[w].pc = "projecting" /\ work'[w].dropEvents = {} /\ work'[w].dropTrail = {}
        /\ work'[w].moved = work[w].moved /\ work'[w].own = work[w].own /\ work'[w].filled = work[w].filled
    BY <1>0, <2>1, <2>2, <2>3 DEF Sessions
  <2>5. \A x \in Workers : x = w
    BY DEF Sole
  <2>6. NothingOrphaned' /\ OneEventEach' /\ LedgerTransfersKept'
    BY <1>0, <2>4, <2>5 DEF SoleInv, NothingOrphaned, OneEventEach, LedgerTransfersKept, Ingested, LiveTrail
  <2>7. TargetsUnruled'
    BY <1>0, <2>4, <2>5 DEF SoleInv, TargetsUnruled
  <2> QED
    BY <2>6, <2>7 DEF SoleInv
<1> QED
  BY <1>2, <1>3

\* project_record picks rows nobody has ruled on.
LEMMA SoleKeptByProject ==
    ASSUME Basics, Sole, SoleInv, NEW w \in Workers, Project(w)
    PROVE  SoleInv'
<1>1. PICK s \in Sessions :
          /\ work' = [work EXCEPT ![w] = s]
          /\ s.pc = "projected" /\ s.dropEvents = work[w].dropEvents
          /\ s.own = [f \in Files |-> ExistingEvent(w, f)]
          /\ s.made = Made(w) /\ s.moved = Moved(w)
          /\ s.dropTrail = work[w].dropTrail \cup Withdrawn(w) /\ s.filled = Filled(w)
  BY ProjectedSession DEF Basics
<1>2. /\ UNCHANGED <<timeline, trail>> /\ TypeOK /\ work'[w] = s
      /\ \A x \in Workers : x = w
  BY <1>1 DEF Basics, TypeOK, Project, Sole
<1>3. \A f \in Moved(w) : f \in Files /\ ExistingEvent(w, f) # 0
                          /\ timeline[ExistingEvent(w, f)].review = "unreviewed"
  BY DEF Moved, Open, Recorded
<1>4. \A t \in Withdrawn(w) : /\ trail[t].review = "unreviewed"
                              /\ timeline[trail[t].event].grounded
  <2> SUFFICES ASSUME NEW t \in Withdrawn(w)
               PROVE  trail[t].review = "unreviewed" /\ timeline[trail[t].event].grounded
    OBVIOUS
  <2>1. trail[t].review = "unreviewed" /\ \E f \in Files : t \in PaymentsOf(w, f)
    BY DEF Withdrawn, Open, Recorded
  <2>2. PICK f \in Files : t \in PaymentsOf(w, f)
    BY <2>1
  <2>3. ExistingEvent(w, f) # 0 /\ trail[t].event = ExistingEvent(w, f)
    BY <2>2 DEF PaymentsOf
  <2>4. trail[t].event \in EventsOf(w, f)
    BY <1>2, <2>3, OwnEvent
  <2> QED
    BY <2>1, <2>4 DEF EventsOf
<1>5. \A t \in Filled(w) : trail[t].review = "unreviewed"
  BY DEF Filled
<1>6. NothingOrphaned'
  BY <1>1, <1>2 DEF SoleInv, NothingOrphaned
<1>7. TargetsUnruled'
  <2>1. \A f \in s.moved : timeline[s.own[f]].review = "unreviewed"
    BY <1>1, <1>3
  <2>2. \A t \in s.dropTrail \cup s.filled : trail[t].review = "unreviewed"
    BY <1>1, <1>4, <1>5 DEF SoleInv, TargetsUnruled
  <2>3. \A t \in s.dropTrail : timeline[trail[t].event].grounded
    BY <1>1, <1>4 DEF SoleInv, TargetsUnruled
  <2> QED
    BY <1>2, <2>1, <2>2, <2>3 DEF TargetsUnruled
<1>8. OneEventEach'
  <2>1. ASSUME NEW i \in DOMAIN timeline, timeline[i].grounded, timeline[i].of \in Made(w) PROVE FALSE
    <3> PICK f : f = timeline[i].of
      OBVIOUS
    <3>1. f \in Recorded /\ ExistingEvent(w, f) = 0
      BY <2>1 DEF Made, Open
    <3>2. EventsOf(w, f) = {}
      BY <1>2, <3>1, OwnEvent
    <3> QED
      BY <2>1, <3>2 DEF EventsOf, SeenTimeline, LiveEvents, SoleInv, NothingOrphaned
  <2> QED
    BY <1>1, <1>2, <2>1 DEF SoleInv, OneEventEach
<1>9. LedgerTransfersKept'
  BY <1>2 DEF SoleInv, LedgerTransfersKept, Ingested, LiveTrail
<1> QED
  BY <1>6, <1>7, <1>8, <1>9 DEF SoleInv

\* A commit adds the events that were missing, and takes away none.
LEMMA SoleKeptByCommit ==
    ASSUME Basics, Sole, SoleInv, NEW w \in Workers, CommitProjection(w), ~Refused(work[w])
    PROVE  SoleInv'
<1> PICK s : s = work[w]
  OBVIOUS
<1>0. /\ TypeOK /\ s \in Sessions /\ s.pc = "projected" /\ s.dropEvents = {}
      /\ Len(timeline) \in Nat /\ Len(trail) \in Nat
      /\ DOMAIN timeline = 1..Len(timeline) /\ DOMAIN trail = 1..Len(trail)
      /\ \A x \in Workers : x = w
  BY DEF Basics, TypeOK, CommitProjection, SoleInv, NothingOrphaned, Sole
<1>1. /\ timeline' \in Seq(EventRows) /\ Len(timeline') = Len(timeline) + Len(AddedEvents(s))
      /\ \A i \in 1..Len(timeline) : timeline'[i] = EventAfter(s, i)
      /\ \A n \in 1..Len(AddedEvents(s)) : timeline'[Len(timeline) + n] = AddedEvents(s)[n]
      /\ trail' \in Seq(TrailRows') /\ Len(trail') = Len(trail) + Len(AddedTransactions(s))
      /\ AddedTransactions(s) \in Seq(TrailRows')
      /\ \A t \in 1..Len(trail) : trail'[t] = TransactionAfter(s, t)
  BY CommitEffect
<1> PICK added : added = AddedEvents(s)
  OBVIOUS
<1>2. /\ Len(added) \in Nat
      /\ \A n \in 1..Len(added) : added[n].of \in s.made /\ added[n].grounded /\ added[n].live
      /\ \A m, n \in 1..Len(added) : added[m].of = added[n].of => m = n
  <2>1. added \in Seq(EventRows)
    BY <1>0, AddedEventRows
  <2>2. Len(added) \in Nat /\ DOMAIN added = 1..Len(added)
    BY <2>1
  <2> QED
    BY <1>0, <2>2, AddedEventRows
<1>3. DOMAIN timeline' = 1..(Len(timeline) + Len(added))
  BY <1>1
<1>4. \A i \in DOMAIN timeline :
         /\ i \in DOMAIN timeline' /\ timeline'[i].of = timeline[i].of
         /\ timeline'[i].grounded = timeline[i].grounded
         /\ timeline'[i].live = timeline[i].live
  <2> TAKE i \in DOMAIN timeline
  <2>1. i \in DOMAIN timeline' /\ timeline'[i] = EventAfter(s, i)
    BY <1>0, <1>1, <1>2, <1>3
  <2> QED
    <3>1. /\ EventAfter(s, i).of = timeline[i].of /\ EventAfter(s, i).grounded = timeline[i].grounded
          /\ EventAfter(s, i).live = (timeline[i].live /\ i \notin s.dropEvents)
      BY <1>0, EventAfterRow
    <3>2. timeline[i] \in EventRows
      BY <1>0 DEF TypeOK
    <3>3. timeline[i].live \in BOOLEAN
      BY <3>2 DEF EventRows
    <3> QED
      BY <1>0, <2>1, <3>1, <3>3
<1>5. \A i \in DOMAIN timeline' \ DOMAIN timeline :
         \E n \in 1..Len(added) : i = Len(timeline) + n /\ timeline'[i] = added[n]
  <2> TAKE i \in DOMAIN timeline' \ DOMAIN timeline
  <2>1. i - Len(timeline) \in 1..Len(added) /\ i = Len(timeline) + (i - Len(timeline))
    BY <1>0, <1>2, <1>3
  <2> QED
    BY <1>1, <2>1
<1>6. /\ work'[w].pc = "done" /\ work'[w].dropEvents = {} /\ LetGo(w)
  <2> PICK d : d = At("done", s.file)
    OBVIOUS
  <2>1. d.pc = "done" /\ d.dropEvents = {} /\ d.dropTrail = {} /\ d.moved = {} /\ d.filled = {}
    BY DEF At
  <2>2. work' = [work EXCEPT ![w] = d] /\ work \in [Workers -> Sessions]
    BY CommitEffect DEF Basics, TypeOK
  <2> QED
    BY <2>1, <2>2 DEF LetGo
<1>7. NothingOrphaned'
  <2>1. \A i \in DOMAIN timeline' : timeline'[i].live
    BY <1>2, <1>4, <1>5 DEF SoleInv, NothingOrphaned
  <2> QED
    BY <1>0, <1>6, <2>1 DEF NothingOrphaned
<1>8. TargetsUnruled'
  BY <1>0, <1>6 DEF TargetsUnruled, LetGo
<1>9. OneEventEach'
  <2> SUFFICES ASSUME NEW i \in DOMAIN timeline', NEW j \in DOMAIN timeline', timeline'[i].grounded,
                      timeline'[j].grounded, timeline'[i].of = timeline'[j].of
               PROVE  i = j
    BY <1>0, <1>6 DEF OneEventEach
  <2>1. CASE i \in DOMAIN timeline /\ j \in DOMAIN timeline
    BY <1>4, <2>1 DEF SoleInv, OneEventEach
  <2>2. ASSUME NEW k \in DOMAIN timeline, NEW l \in DOMAIN timeline' \ DOMAIN timeline,
               timeline'[k].grounded, timeline'[k].of = timeline'[l].of
        PROVE  FALSE
    <3>1. timeline'[l].of \in s.made
      BY <1>2, <1>5
    <3> QED
      BY <1>0, <1>4, <2>2, <3>1 DEF SoleInv, OneEventEach
  <2>3. CASE i \notin DOMAIN timeline /\ j \notin DOMAIN timeline
    <3>1. PICK m \in 1..Len(added) : i = Len(timeline) + m /\ timeline'[i] = added[m]
      BY <1>5, <2>3
    <3>2. PICK n \in 1..Len(added) : j = Len(timeline) + n /\ timeline'[j] = added[n]
      BY <1>5, <2>3
    <3> QED
      BY <1>2, <3>1, <3>2
  <2> QED
    BY <2>1, <2>2, <2>3
<1>10. LedgerTransfersKept'
  <2> SUFFICES ASSUME NEW f \in Ledgers, Ingested(f)'
               PROVE  \E t \in LiveTrail' : trail'[t].of = f /\ ~timeline'[trail'[t].event].grounded
    BY DEF LedgerTransfersKept
  <2>1. Ingested(f)
    BY <1>2, <1>4, <1>5 DEF Ingested
  <2>2. PICK t \in LiveTrail : trail[t].of = f /\ ~timeline[trail[t].event].grounded
    BY <2>1 DEF SoleInv, LedgerTransfersKept
  <2>3. t \in DOMAIN trail /\ trail[t].event \in DOMAIN timeline /\ trail[t] \in TrailRows
    <3>1. t \in DOMAIN trail
      BY <2>2 DEF LiveTrail
    <3>2. trail[t] \in TrailRows
      BY <1>0, <3>1 DEF TypeOK
    <3> QED
      BY <3>1, <3>2 DEF TrailRows
  <2>4. t \notin s.dropTrail
    BY <2>2 DEF SoleInv, TargetsUnruled
  <2>5. /\ trail'[t] = TransactionAfter(s, t) /\ t \in DOMAIN trail'
    <3>1. Len(AddedTransactions(s)) \in Nat
      BY <1>1
    <3>2. DOMAIN trail' = 1..(Len(trail) + Len(AddedTransactions(s)))
      BY <1>1
    <3> QED
      BY <1>0, <1>1, <2>3, <3>1, <3>2
  <2>6. trail'[t].of = f /\ trail'[t].event = trail[t].event /\ trail'[t].live
    BY ZenonT(30), <1>0, <2>2, <2>3, <2>4, <2>5, TransactionAfterRow DEF LiveTrail
  <2> QED
    BY <1>4, <2>2, <2>3, <2>5, <2>6 DEF LiveTrail
<1> QED
  BY <1>7, <1>8, <1>9, <1>10 DEF SoleInv

\* A reviewer rules on rows no session has written.
LEMMA SoleKeptByReview ==
    ASSUME Basics, Sole, SoleInv,
           \/ \E i \in DOMAIN timeline : ReviewEvent(i)
           \/ \E t \in DOMAIN trail : ReviewTransaction(t)
    PROVE  SoleInv'
<1>0. /\ timeline \in Seq(EventRows) /\ trail \in Seq(TrailRows)
      /\ \A t \in DOMAIN trail : trail[t].event \in DOMAIN timeline
      /\ \A x \in Workers : work[x].dropTrail \subseteq DOMAIN trail /\ work[x].filled \subseteq DOMAIN trail
  <2>1. \A t \in DOMAIN trail : trail[t] \in TrailRows
    BY DEF Basics, TypeOK
  <2> QED
    BY <2>1 DEF Basics, TypeOK, TrailRows, Sessions
<1>1. ASSUME NEW i \in DOMAIN timeline, ReviewEvent(i) PROVE SoleInv'
  <2>1. /\ timeline' = [timeline EXCEPT ![i] = [timeline[i] EXCEPT !.review = "ruled"]]
        /\ timeline[i] \in EventRows /\ EventFree(i) /\ UNCHANGED <<trail, work>>
    BY <1>0, <1>1 DEF ReviewEvent
  <2>2. /\ DOMAIN timeline' = DOMAIN timeline
        /\ \A j \in DOMAIN timeline : /\ timeline'[j].of = timeline[j].of
                                      /\ timeline'[j].grounded = timeline[j].grounded
                                      /\ timeline'[j].live = timeline[j].live
                                      /\ j # i => timeline'[j] = timeline[j]
    BY <1>0, <2>1 DEF EventRows
  <2>3. NothingOrphaned'
    BY <2>1, <2>2 DEF SoleInv, NothingOrphaned
  <2>4. TargetsUnruled'
    <3> SUFFICES ASSUME NEW w \in Workers
                 PROVE  /\ \A f \in work[w].moved : timeline'[work[w].own[f]].review = "unreviewed"
                        /\ \A t \in work[w].dropTrail \cup work[w].filled : trail[t].review = "unreviewed"
                        /\ \A t \in work[w].dropTrail : timeline'[trail[t].event].grounded
      BY <2>1 DEF TargetsUnruled
    <3>1. \A f \in work[w].moved : work[w].own[f] # i
      BY <2>1 DEF EventFree, TouchedEvents
    <3>2. \A f \in work[w].moved : timeline'[work[w].own[f]] = timeline[work[w].own[f]]
      <4>1. \A j : j # i => timeline'[j] = timeline[j]
        BY <1>0, <2>1, <2>2
      <4> QED
        BY <3>1, <4>1
    <3>3. ASSUME NEW t \in work[w].dropTrail PROVE timeline'[trail[t].event].grounded
      <4>1. trail[t].event \in DOMAIN timeline /\ timeline[trail[t].event].grounded
        BY <1>0 DEF SoleInv, TargetsUnruled
      <4>2. timeline'[trail[t].event].grounded = timeline[trail[t].event].grounded
        BY <2>2, <4>1
      <4> QED
        BY <4>1, <4>2
    <3> QED
      BY <3>2, <3>3 DEF SoleInv, TargetsUnruled
  <2>5. OneEventEach'
    BY <2>1, <2>2 DEF SoleInv, OneEventEach
  <2>6. LedgerTransfersKept'
    BY <1>0, <2>1, <2>2 DEF SoleInv, LedgerTransfersKept, Ingested, LiveTrail
  <2> QED
    BY <2>3, <2>4, <2>5, <2>6 DEF SoleInv
<1>2. ASSUME NEW t \in DOMAIN trail, ReviewTransaction(t) PROVE SoleInv'
  <2>1. /\ trail' = [trail EXCEPT ![t] = [trail[t] EXCEPT !.review = "ruled"]]
        /\ trail[t] \in TrailRows /\ TrailFree(t) /\ UNCHANGED <<timeline, work>>
    BY <1>0, <1>2 DEF ReviewTransaction
  <2>2. /\ DOMAIN trail' = DOMAIN trail
        /\ \A j \in DOMAIN trail : /\ trail'[j].of = trail[j].of /\ trail'[j].event = trail[j].event
                                   /\ trail'[j].live = trail[j].live
                                   /\ j # t => trail'[j] = trail[j]
    BY <1>0, <2>1 DEF TrailRows
  <2>3. NothingOrphaned' /\ OneEventEach'
    BY <2>1 DEF SoleInv, NothingOrphaned, OneEventEach
  <2>4. TargetsUnruled'
    <3>1. \A w \in Workers : t \notin work[w].dropTrail \cup work[w].filled
      BY <2>1 DEF TrailFree, TouchedTrail
    <3> QED
      BY <1>0, <2>1, <2>2, <3>1 DEF SoleInv, TargetsUnruled
  <2>6. LedgerTransfersKept'
    BY <1>0, <2>1, <2>2 DEF SoleInv, LedgerTransfersKept, Ingested, LiveTrail
  <2> QED
    BY <2>3, <2>4, <2>6 DEF SoleInv
<1> QED
  BY <1>1, <1>2

LEMMA SoleKept ==
    ASSUME Basics, Sole, SoleInv, EventsHaveRecords, [Next]_vars
    PROVE  SoleInv'
<1>1. ASSUME NEW w \in Workers,
             \/ Upsert(w) \/ CommitRecord(w) \/ RunFails(w) \/ ProjectionFails(w) \/ Return(w)
             \/ (CommitProjection(w) /\ Refused(work[w]))
      PROVE  SoleInv'
  <2>1. UNCHANGED <<timeline, trail>>
    BY <1>1 DEF Upsert, CommitRecord, RunFails, ProjectionFails, Return, CommitProjection
  <2>2. /\ \A x \in Workers : x # w => work'[x] = work[x]
        /\ work'[w].pc # "projected" /\ (LetGo(w) \/ KeptHold(w))
    BY <1>1, OtherHolds
  <2>3. work'[w].pc # "purging"
    <3>1. work[w].pc # "recorded" \/ RunFails(w)
      BY <1>1 DEF Upsert, CommitRecord, ProjectionFails, Return, CommitProjection
    <3>2. RunFails(w) => work'[w].pc = "idle"
      BY DEF RunFails, Basics, TypeOK, Idle, At
    <3>3. work'[w].pc = "purging" => work[w].pc = "recorded"
      BY <1>1, OtherHolds DEF PurgeReads
    <3> QED
      BY <3>1, <3>2, <3>3, SMTT(30)
  <2> QED
    BY <2>1, <2>2, <2>3, SoleAside
<1>2. ASSUME (\E v \in Reviewers : CommitReview(v) \/ \E f \in Files : BeginReview(v, f)) \/ UNCHANGED vars PROVE SoleInv'
  BY <1>2, SoleAside DEF BeginReview, CommitReview, vars
<1> QED
  BY <1>1, <1>2, SoleKeptByStart, SoleKeptByPurge, SoleKeptByProject, SoleKeptByCommit, SoleKeptByReview DEF Next

\* What holds of every state when one session runs at a time.
LEMMA SoleHolds == Sole => (Spec => [](Basics /\ SoleInv))
<1> SUFFICES ASSUME Sole PROVE Spec => [](Basics /\ SoleInv)
  OBVIOUS
<1>1. Init => RulingsFollow /\ PurgesReplace /\ SoleInv
  BY DEF Init, RulingsFollow, RuledStates, SheetsFresh, New, Ruling, NoRecord, Idle, At, PurgesReplace,
     EventsHaveRecords, DropsAreThere, DropsApart,
         DropsReplaced, SoleInv, NothingOrphaned, TargetsUnruled, OneEventEach, LedgerTransfersKept, Ingested
<1>2. Basics /\ RulingsFollow /\ PurgesReplace /\ SoleInv /\ [Next]_vars
        => RulingsFollow' /\ PurgesReplace' /\ SoleInv'
  BY RuledStatesKept, PurgesReplaceKept, SoleKept DEF PurgesReplace
<1> QED
  BY <1>1, <1>2, BasicsHold, PTL DEF Spec

\* With one session at a time, a grounded record owns one projected event at
\* most: reprocessing finds the one that is there.
THEOREM OneEventEachRecord == Sole => (Spec => []OneEventPerRecord)
<1> SUFFICES ASSUME Sole PROVE Spec => []OneEventPerRecord
  OBVIOUS
<1>1. Basics /\ SoleInv => OneEventPerRecord
  <2> SUFFICES ASSUME SoleInv, NEW f \in Files
               PROVE  Cardinality({i \in LiveEvents : timeline[i].grounded /\ timeline[i].of = f}) <= 1
    BY DEF OneEventPerRecord
  <2> PICK own : own = {i \in LiveEvents : timeline[i].grounded /\ timeline[i].of = f}
    OBVIOUS
  <2>1. \A i, j \in own : i = j
    BY DEF SoleInv, OneEventEach, LiveEvents
  <2>2. CASE own = {}
    BY <2>2, FS_EmptySet
  <2>3. ASSUME NEW i \in own PROVE Cardinality(own) <= 1
    <3> PICK x : x = i
      OBVIOUS
    <3>1. own = {x}
      BY <2>1
    <3>2. Cardinality({x}) = 1
      BY FS_Singleton
    <3> QED
      BY <3>1, <3>2
  <2> QED
    BY <2>2, <2>3
<1> QED
  BY <1>1, SoleHolds, PTL

\* With one session at a time, the transfers the parser found in a ledger stay
\* in the trail: no purge takes them for loose, no balance withdraws them.
THEOREM LedgerTransfersStay == Sole => (Spec => []LedgerTransfersKept)
<1> SUFFICES ASSUME Sole PROVE Spec => []LedgerTransfersKept
  OBVIOUS
<1>1. Basics /\ SoleInv => LedgerTransfersKept
  BY DEF SoleInv
<1> QED
  BY <1>1, SoleHolds, PTL

\* With one session at a time, and reviewers at any time, no step changes or
\* deletes an event or a transaction that has been ruled on: the rows a session
\* means to change are locked before anybody can rule on them.
THEOREM RuledRowsStay == Sole => (Spec => RuledRowsUnmoved)
<1> SUFFICES ASSUME Sole PROVE Spec => RuledRowsUnmoved
  OBVIOUS
<1> DEFINE Unmoved ==
        /\ \A i \in LiveEvents : timeline[i].review = "ruled" => timeline'[i] = timeline[i]
        /\ \A t \in LiveTrail : trail[t].review = "ruled" => trail'[t] = trail[t]
<1>1. Basics /\ SoleInv /\ [Next]_vars => [Unmoved]_vars
  <2> SUFFICES ASSUME Basics, SoleInv, [Next]_vars
               PROVE  Unmoved
    OBVIOUS
  <2>1. /\ LiveEvents \subseteq DOMAIN timeline /\ LiveTrail \subseteq DOMAIN trail
        /\ DOMAIN timeline = 1..Len(timeline) /\ DOMAIN trail = 1..Len(trail)
        /\ timeline \in Seq(EventRows) /\ trail \in Seq(TrailRows)
    BY DEF LiveEvents, LiveTrail, Basics, TypeOK
  <2>2. CASE UNCHANGED <<timeline, trail>>
    BY <2>2
  <2>3. ASSUME NEW w \in Workers, Start(w) PROVE Unmoved
    BY <2>1, <2>3, StartEffect
  <2>4. ASSUME NEW w \in Workers, CommitProjection(w), ~Refused(work[w]) PROVE Unmoved
    <3> PICK s : s = work[w]
      OBVIOUS
    <3>1. /\ TypeOK /\ s \in Sessions /\ s.dropEvents = {}
          /\ \A f \in s.moved : timeline[s.own[f]].review = "unreviewed"
          /\ \A t \in s.dropTrail \cup s.filled : trail[t].review = "unreviewed"
      BY DEF Basics, TypeOK, SoleInv, NothingOrphaned, TargetsUnruled
    <3>2. /\ \A i \in DOMAIN timeline : timeline'[i] = EventAfter(s, i)
          /\ \A t \in DOMAIN trail : trail'[t] = TransactionAfter(s, t)
      BY <2>1, <2>4, CommitEffect
    <3>3. ASSUME NEW i \in LiveEvents, timeline[i].review = "ruled" PROVE timeline'[i] = timeline[i]
      BY <2>1, <3>1, <3>2, <3>3, EventAfterRow
    <3>4. ASSUME NEW t \in LiveTrail, trail[t].review = "ruled" PROVE trail'[t] = trail[t]
      BY <2>1, <3>1, <3>2, <3>4, TransactionAfterRow
    <3> QED
      BY <3>3, <3>4
  <2>5. ASSUME NEW j \in DOMAIN timeline, ReviewEvent(j) PROVE Unmoved
    BY <2>1, <2>5 DEF ReviewEvent
  <2>6. ASSUME NEW j \in DOMAIN trail, ReviewTransaction(j) PROVE Unmoved
    BY <2>1, <2>6, SMTT(30) DEF ReviewTransaction
  <2>7. \/ UNCHANGED <<timeline, trail>>
        \/ \E w \in Workers : Start(w) \/ (CommitProjection(w) /\ ~Refused(work[w]))
        \/ \E i \in DOMAIN timeline : ReviewEvent(i)
        \/ \E t \in DOMAIN trail : ReviewTransaction(t)
    BY DEF Next, Upsert, CommitRecord, RunFails, PurgeReads, Purge, Project, CommitProjection, ProjectionFails,
           Return, BeginReview, CommitReview, vars
  <2> HIDE DEF Unmoved
  <2> QED
    BY <2>2, <2>3, <2>4, <2>5, <2>6, <2>7
<1> QED
  BY <1>1, SoleHolds, PTL DEF Spec, RuledRowsUnmoved

-------------------------------------------------------------------------------

\* What a session that is done projecting is about to make of each record's
\* place on the timeline and in the trail, on records nobody changes meanwhile.
Planned ==
    \A w \in Workers : work[w].pc = "projected" =>
        LET s == work[w]
        IN  /\ s.snap = record
            /\ \A f \in s.paid : IsTransfer(f) /\ (s.own[f] # 0 \/ f \in s.made)
            /\ \A f \in Files : s.own[f] # 0 =>
                  s.own[f] \in LiveEvents /\ timeline[s.own[f]].grounded /\ timeline[s.own[f]].of = f
            /\ \A f \in Recorded : s.own[f] = 0 => f \in s.made /\ (IsTransfer(f) => f \in s.paid)
            /\ \A f \in Recorded : s.own[f] # 0 /\ timeline[s.own[f]].review = "unreviewed" =>
                  /\ timeline[s.own[f]].reading = record[f].reading \/ f \in s.moved
                  /\ IsTransfer(f) => \/ f \in s.paid
                                      \/ \E t \in LiveTrail \ s.dropTrail : trail[t].event = s.own[f]
                  /\ ~IsTransfer(f) => \A t \in LiveTrail : trail[t].event = s.own[f] =>
                                          t \in s.dropTrail \/ trail[t].review = "ruled"

\* The transactions a projection inserts are of the records it pays, each under
\* the record's event.
LEMMA AddedTransactionsPay ==
    ASSUME TypeOK, NEW s \in Sessions
    PROVE  /\ \A n \in DOMAIN AddedTransactions(s) :
                 \E f \in s.paid : AddedTransactions(s)[n].event = EventIn(s, f)
           /\ \A f \in s.paid : \E n \in DOMAIN AddedTransactions(s) :
                 AddedTransactions(s)[n].event = EventIn(s, f) /\ AddedTransactions(s)[n].live
<1>1. s.paid \subseteq Files
  BY DEF Sessions
<1>2. IsFiniteSet(s.paid)
  BY <1>1, ProjectionAssumption, FS_Subset
<1> PICK paid : paid = SetToSeq(s.paid)
  OBVIOUS
<1>3. /\ paid \in Seq(s.paid)
      /\ \A x \in s.paid : \E n \in DOMAIN paid : paid[n] = x
  BY <1>2, SetAsSeq
<1>4. AddedTransactions(s) =
         [n \in DOMAIN paid |-> TrailRow(paid[n], EventIn(s, paid[n]), s.snap[paid[n]].reading.sender)]
  BY DEF AddedTransactions
<1>5. \A n \in DOMAIN paid : paid[n] \in s.paid
  BY <1>3
<1>6. \A n \in DOMAIN paid : AddedTransactions(s)[n].event = EventIn(s, paid[n])
                             /\ AddedTransactions(s)[n].live = TRUE
  BY <1>4 DEF TrailRow
<1>7. DOMAIN AddedTransactions(s) = DOMAIN paid
  BY <1>4
<1> QED
  BY <1>3, <1>5, <1>6, <1>7

\* After the commit of a sole session, the event it names for a record is that
\* record's.
LEMMA EventInIsOwn ==
    ASSUME Basics, SoleInv, Planned, NEW w \in Workers, CommitProjection(w), ~Refused(work[w]),
           NEW f \in Files, work[w].own[f] # 0 \/ f \in work[w].made
    PROVE  /\ EventIn(work[w], f) \in DOMAIN timeline'
           /\ timeline'[EventIn(work[w], f)].of = f /\ timeline'[EventIn(work[w], f)].grounded
           /\ timeline'[EventIn(work[w], f)].live
           /\ work[w].own[f] # 0 => EventIn(work[w], f) = work[w].own[f]
           /\ work[w].own[f] = 0 => /\ EventIn(work[w], f) \notin DOMAIN timeline
                                    /\ timeline'[EventIn(work[w], f)].reading = work[w].snap[f].reading
<1> PICK s : s = work[w]
  OBVIOUS
<1>0. /\ TypeOK /\ s \in Sessions /\ s.pc = "projected" /\ s.dropEvents = {}
      /\ Len(timeline) \in Nat /\ DOMAIN timeline = 1..Len(timeline)
  BY DEF Basics, TypeOK, CommitProjection, SoleInv, NothingOrphaned
<1>1. /\ timeline' \in Seq(EventRows) /\ Len(timeline') = Len(timeline) + Len(AddedEvents(s))
      /\ \A i \in 1..Len(timeline) : timeline'[i] = EventAfter(s, i)
      /\ \A n \in 1..Len(AddedEvents(s)) : timeline'[Len(timeline) + n] = AddedEvents(s)[n]
  BY CommitEffect
<1> PICK added : added = AddedEvents(s)
  OBVIOUS
<1>2. /\ Len(added) \in Nat /\ DOMAIN added = 1..Len(added)
      /\ \A n \in 1..Len(added) : added[n].grounded /\ added[n].live /\ added[n].reading = s.snap[added[n].of].reading
      /\ \A g \in s.made : \E n \in 1..Len(added) : added[n].of = g
  <2>1. added \in Seq(EventRows)
    BY <1>0, AddedEventRows
  <2>2. Len(added) \in Nat /\ DOMAIN added = 1..Len(added)
    BY <2>1
  <2>3. \A n \in DOMAIN added : added[n].grounded /\ added[n].live
    BY <1>0, AddedEventRows
  <2>4. \A n \in DOMAIN added : added[n].reading = s.snap[added[n].of].reading
    BY <1>0, AddedEventRows
  <2>5. \A g \in s.made : \E n \in DOMAIN added : added[n].of = g
    BY <1>0, AddedEventRows
  <2> QED
    BY <2>2, <2>3, <2>4, <2>5
<1>3. DOMAIN timeline' = 1..(Len(timeline) + Len(added))
  BY <1>1
<1> PICK i : i = EventIn(s, f)
  OBVIOUS
<1>4. CASE s.own[f] # 0
  <2>1. i = s.own[f]
    BY <1>4 DEF EventIn
  <2>2. i \in LiveEvents /\ timeline[i].grounded /\ timeline[i].of = f
    BY <1>0, <1>4, <2>1 DEF Planned
  <2>3. i \in DOMAIN timeline /\ timeline[i].live
    BY <2>2 DEF LiveEvents
  <2>4. timeline'[i] = EventAfter(s, i) /\ i \in DOMAIN timeline'
    BY <1>0, <1>1, <1>2, <1>3, <2>3
  <2>5. timeline'[i].of = f /\ timeline'[i].grounded /\ timeline'[i].live
    <3>1. /\ EventAfter(s, i).of = timeline[i].of /\ EventAfter(s, i).grounded = timeline[i].grounded
          /\ EventAfter(s, i).live = (timeline[i].live /\ i \notin s.dropEvents)
      BY <1>0, <2>3, EventAfterRow
    <3> QED
      BY <1>0, <2>2, <2>3, <2>4, <3>1
  <2> QED
    BY <1>4, <2>1, <2>4, <2>5
<1>5. CASE s.own[f] = 0
  <2>1. PICK n : n = CHOOSE m \in DOMAIN AddedEvents(s) : AddedEvents(s)[m].of = f
    OBVIOUS
  <2>2. n \in 1..Len(added) /\ added[n].of = f
    BY <1>2, <1>5, <2>1
  <2>3. i = Len(timeline) + n
    BY <1>5, <2>1 DEF EventIn
  <2>4. i \in DOMAIN timeline' /\ timeline'[i] = added[n] /\ i \notin DOMAIN timeline
    BY <1>0, <1>1, <1>2, <1>3, <2>2, <2>3
  <2> QED
    BY <1>2, <1>5, <2>2, <2>4
<1> QED
  BY <1>4, <1>5

\* A commit that is not refused makes timeline and trail say what the records
\* say.
LEMMA CommitMatches ==
    ASSUME Basics, SoleInv, SoleInv', Planned, NEW w \in Workers, CommitProjection(w), ~Refused(work[w])
    PROVE  SurfacesMatchRecords'
<1> PICK s : s = work[w]
  OBVIOUS
<1>0. /\ TypeOK /\ s \in Sessions /\ s.pc = "projected" /\ s.dropEvents = {} /\ UNCHANGED record
      /\ Len(timeline) \in Nat /\ DOMAIN timeline = 1..Len(timeline)
      /\ Len(trail) \in Nat /\ DOMAIN trail = 1..Len(trail)
  BY DEF Basics, TypeOK, CommitProjection, SoleInv, NothingOrphaned
<1>1. /\ \A i \in DOMAIN timeline : timeline'[i] = EventAfter(s, i)
      /\ trail' \in Seq(TrailRows') /\ Len(trail') = Len(trail) + Len(AddedTransactions(s))
      /\ AddedTransactions(s) \in Seq(TrailRows')
      /\ \A t \in DOMAIN trail : trail'[t] = TransactionAfter(s, t)
      /\ \A n \in 1..Len(AddedTransactions(s)) : trail'[Len(trail) + n] = AddedTransactions(s)[n]
  BY <1>0, CommitEffect
<1> PICK pays : pays = AddedTransactions(s)
  OBVIOUS
<1>2. Len(pays) \in Nat /\ DOMAIN pays = 1..Len(pays) /\ DOMAIN trail' = 1..(Len(trail) + Len(pays))
  BY <1>1
<1>3. /\ s.snap = record
      /\ \A f \in s.paid : f \in Files /\ IsTransfer(f) /\ (s.own[f] # 0 \/ f \in s.made)
      /\ \A f \in Files : s.own[f] # 0 =>
            s.own[f] \in LiveEvents /\ timeline[s.own[f]].grounded /\ timeline[s.own[f]].of = f
      /\ \A f \in Recorded : s.own[f] = 0 => f \in s.made /\ (IsTransfer(f) => f \in s.paid)
  BY <1>0 DEF Planned, Sessions
<1>4. \A t \in DOMAIN trail' : t \in DOMAIN trail \/ \E n \in 1..Len(pays) : trail'[t] = pays[n]
  <2> TAKE t \in DOMAIN trail'
  <2>1. t \notin DOMAIN trail => t - Len(trail) \in 1..Len(pays) /\ t = Len(trail) + (t - Len(trail))
    BY <1>0, <1>2
  <2> QED
    BY <1>1, <2>1
<1>5. \A n \in 1..Len(pays) : Len(trail) + n \in DOMAIN trail' /\ trail'[Len(trail) + n] = pays[n]
  <2> TAKE n \in 1..Len(pays)
  <2>1. Len(trail) + n \in DOMAIN trail'
    BY <1>0, <1>2
  <2> QED
    BY <1>1, <2>1
<1> SUFFICES ASSUME NEW f \in Recorded
             PROVE  \E i \in LiveEvents' :
                       /\ timeline'[i].grounded /\ timeline'[i].of = f
                       /\ timeline'[i].review = "ruled" \/
                             LET rows == {t \in LiveTrail' : trail'[t].event = i}
                             IN  /\ timeline'[i].reading = record[f].reading
                                 /\ IsTransfer(f) => rows # {}
                                 /\ ~IsTransfer(f) => \A t \in rows : trail'[t].review = "ruled"
  BY <1>0 DEF SurfacesMatchRecords, Recorded, IsTransfer
<1>6. f \in Files /\ (s.own[f] # 0 \/ f \in s.made)
  BY <1>3 DEF Recorded
<1> PICK i : i = EventIn(s, f)
  OBVIOUS
<1>7. /\ i \in DOMAIN timeline' /\ timeline'[i].of = f /\ timeline'[i].grounded /\ timeline'[i].live
      /\ s.own[f] # 0 => i = s.own[f]
      /\ s.own[f] = 0 => i \notin DOMAIN timeline /\ timeline'[i].reading = record[f].reading
  BY <1>3, <1>6, EventInIsOwn
<1>8. i \in LiveEvents'
  BY <1>7 DEF LiveEvents
\* Rows that are inserted under this event are the record's own.
<1>9. ASSUME NEW n \in 1..Len(pays), pays[n].event = i
      PROVE  IsTransfer(f)
  <2>1. PICK g \in s.paid : i = EventIn(s, g)
    BY <1>0, <1>2, <1>9, AddedTransactionsPay
  <2>2. timeline'[i].of = g
    BY <1>3, <2>1, EventInIsOwn
  <2> QED
    BY <1>3, <1>7, <2>1, <2>2
<1>10. ASSUME f \in s.paid
       PROVE  \E t \in LiveTrail' : trail'[t].event = i
  <2>1. PICK n \in 1..Len(pays) : pays[n].event = i /\ pays[n].live
    BY <1>0, <1>2, <1>10, AddedTransactionsPay
  <2> PICK t : t = Len(trail) + n
    OBVIOUS
  <2>2. t \in DOMAIN trail' /\ trail'[t] = pays[n]
    BY <1>5
  <2> QED
    BY <2>1, <2>2 DEF LiveTrail
<1>11. \A t \in DOMAIN trail : trail[t].event \in DOMAIN timeline
  <2>1. \A t \in DOMAIN trail : trail[t] \in TrailRows
    BY <1>0 DEF TypeOK
  <2> QED
    BY <2>1 DEF TrailRows
<1>12. CASE s.own[f] = 0
  <2>1. IsTransfer(f) => \E t \in LiveTrail' : trail'[t].event = i
    BY <1>3, <1>10, <1>12
  <2>2. ASSUME ~IsTransfer(f), NEW t \in LiveTrail', trail'[t].event = i PROVE FALSE
    <3>1. CASE t \in DOMAIN trail
      <4>1. trail'[t].event = trail[t].event
        BY <1>0, <1>1, <3>1, TransactionAfterRow
      <4> QED
        BY <1>7, <1>11, <1>12, <2>2, <3>1, <4>1
    <3>2. CASE t \notin DOMAIN trail
      <4>1. PICK n \in 1..Len(pays) : trail'[t] = pays[n]
        BY <1>4, <3>2 DEF LiveTrail
      <4> QED
        BY <1>9, <2>2, <4>1
    <3> QED
      BY <3>1, <3>2
  <2> QED
    BY <1>7, <1>8, <1>12, <2>1, <2>2
<1>13. CASE s.own[f] # 0
  <2>1. i = s.own[f] /\ i \in DOMAIN timeline /\ i \in LiveEvents /\ timeline[i].of = f
    BY <1>3, <1>6, <1>7, <1>13 DEF LiveEvents
  <2>2. timeline'[i] = EventAfter(s, i) /\ timeline'[i].review = timeline[i].review
        /\ timeline[i].review \in {"unreviewed", "ruled"}
    <3>1. timeline[i] \in EventRows
      BY <1>0, <2>1 DEF TypeOK
    <3> QED
      BY <1>0, <1>1, <2>1, <3>1, EventAfterRow DEF EventRows
  <2>3. CASE timeline[i].review = "ruled"
    BY <1>7, <1>8, <2>2, <2>3
  <2>4. CASE timeline[i].review = "unreviewed"
    <3>1. /\ timeline[i].reading = record[f].reading \/ f \in s.moved
          /\ IsTransfer(f) => \/ f \in s.paid
                              \/ \E t \in LiveTrail \ s.dropTrail : trail[t].event = i
          /\ ~IsTransfer(f) => \A t \in LiveTrail : trail[t].event = i =>
                                  t \in s.dropTrail \/ trail[t].review = "ruled"
      BY <1>0, <1>13, <2>1, <2>4 DEF Planned
    <3>2. timeline'[i].reading = record[f].reading
      <4>1. timeline[i] \in EventRows
        BY <1>0, <2>1 DEF TypeOK
      <4> QED
        BY <1>0, <1>3, <2>1, <2>2, <3>1, <4>1 DEF EventAfter, EventRows
    <3>3. ASSUME IsTransfer(f) PROVE \E t \in LiveTrail' : trail'[t].event = i
      <4>1. CASE f \in s.paid
        BY <1>10, <4>1
      <4>2. ASSUME NEW t \in LiveTrail \ s.dropTrail, trail[t].event = i
            PROVE  t \in LiveTrail' /\ trail'[t].event = i
        <5>1. t \in DOMAIN trail /\ trail[t].live
          BY DEF LiveTrail
        <5>2. trail'[t] = TransactionAfter(s, t) /\ t \in DOMAIN trail'
          BY <1>0, <1>1, <1>2, <5>1
        <5>3. trail'[t].event = i /\ trail'[t].live
          BY ZenonT(30), <1>0, <4>2, <5>1, <5>2, TransactionAfterRow
        <5> QED
          BY <5>2, <5>3 DEF LiveTrail
      <4> QED
        BY <3>1, <3>3, <4>1, <4>2
    <3>4. ASSUME ~IsTransfer(f), NEW t \in LiveTrail', trail'[t].event = i PROVE trail'[t].review = "ruled"
      <4>1. t \in DOMAIN trail' /\ trail'[t].live
        BY DEF LiveTrail
      <4>2. t \in DOMAIN trail
        BY <1>4, <1>9, <3>4, <4>1
      <4>3. /\ trail'[t].event = trail[t].event /\ trail'[t].review = trail[t].review
            /\ trail[t].live /\ t \notin s.dropTrail
        <5>1. trail'[t] = TransactionAfter(s, t)
          BY <1>1, <4>2
        <5>2. /\ TransactionAfter(s, t).event = trail[t].event /\ TransactionAfter(s, t).review = trail[t].review
              /\ TransactionAfter(s, t).live = (trail[t].live /\ t \notin s.dropTrail)
          BY <1>0, <4>2, TransactionAfterRow
        <5> QED
          BY <4>1, <5>1, <5>2
      <4> QED
        BY <3>1, <3>4, <4>2, <4>3 DEF LiveTrail
    <3> QED
      BY <1>7, <1>8, <3>2, <3>3, <3>4
  <2> QED
    BY <2>2, <2>3, <2>4
<1> QED
  BY <1>12, <1>13

\* project_record decides for each record by the rows it finds.
LEMMA ProjectPlans ==
    ASSUME Basics, Sole, SoleInv, NEW w \in Workers, Project(w)
    PROVE  Planned'
<1>1. PICK s \in Sessions :
          /\ work' = [work EXCEPT ![w] = s]
          /\ s.pc = "projected" /\ s.snap = record /\ s.dropEvents = work[w].dropEvents
          /\ s.own = [f \in Files |-> ExistingEvent(w, f)]
          /\ s.made = Made(w) /\ s.moved = Moved(w) /\ s.paid = Paid(w)
          /\ s.dropTrail = work[w].dropTrail \cup Withdrawn(w)
  BY ProjectedSession DEF Basics
<1>2. /\ UNCHANGED <<timeline, trail, record>> /\ TypeOK /\ work'[w] = s
      /\ \A x \in Workers : x = w
  BY <1>1 DEF Basics, TypeOK, Project, Sole
<1>3. \A f \in Files : s.own[f] = ExistingEvent(w, f)
  BY <1>1
<1>4. \A f \in Files : s.own[f] # 0 =>
         /\ s.own[f] \in LiveEvents /\ timeline[s.own[f]].grounded /\ timeline[s.own[f]].of = f
  <2> TAKE f \in Files
  <2>1. ExistingEvent(w, f) # 0 => ExistingEvent(w, f) \in EventsOf(w, f)
    BY <1>2, OwnEvent
  <2> QED
    BY <1>3, <2>1 DEF EventsOf, SeenTimeline
<1>5. \A f \in s.paid : IsTransfer(f) /\ (s.own[f] # 0 \/ f \in s.made)
  BY <1>1, <1>3 DEF Paid, Made, Open, Recorded
<1>6. \A f \in Recorded : s.own[f] = 0 => f \in s.made /\ (IsTransfer(f) => f \in s.paid)
  <2> SUFFICES ASSUME NEW f \in Recorded, s.own[f] = 0
               PROVE  f \in s.made /\ (IsTransfer(f) => f \in s.paid)
    OBVIOUS
  <2>1. f \in Files /\ ExistingEvent(w, f) = 0
    BY <1>3 DEF Recorded
  <2>2. f \in Open(w) /\ PaymentsOf(w, f) = {}
    BY <2>1 DEF Open, PaymentsOf
  <2> QED
    BY <1>1, <2>1, <2>2 DEF Made, Paid
<1>7. ASSUME NEW f \in Recorded, s.own[f] # 0, timeline[s.own[f]].review = "unreviewed"
      PROVE  /\ timeline[s.own[f]].reading = record[f].reading \/ f \in s.moved
             /\ IsTransfer(f) => \/ f \in s.paid
                                 \/ \E t \in LiveTrail \ s.dropTrail : trail[t].event = s.own[f]
             /\ ~IsTransfer(f) => \A t \in LiveTrail : trail[t].event = s.own[f] =>
                                     t \in s.dropTrail \/ trail[t].review = "ruled"
  <2>1. f \in Files /\ ExistingEvent(w, f) = s.own[f]
    BY <1>3 DEF Recorded
  <2>2. f \in Open(w)
    BY <1>7, <2>1 DEF Open
  <2>3. timeline[s.own[f]].reading = record[f].reading \/ f \in s.moved
    BY <1>1, <1>7, <2>1, <2>2 DEF Moved
  <2>4. ASSUME IsTransfer(f), f \notin s.paid
        PROVE  \E t \in LiveTrail \ s.dropTrail : trail[t].event = s.own[f]
    <3>1. PICK t \in PaymentsOf(w, f) : TRUE
      BY <1>1, <2>2, <2>4 DEF Paid
    <3>2. t \in LiveTrail /\ t \notin work[w].dropTrail /\ trail[t].event = s.own[f]
      BY <1>7, <2>1, <3>1 DEF PaymentsOf, SeenTrail
    <3>3. ASSUME t \in Withdrawn(w) PROVE FALSE
      <4>1. PICK g \in Open(w) : ~IsTransfer(g) /\ t \in PaymentsOf(w, g)
        BY <3>3 DEF Withdrawn
      <4>2. g \in Files /\ ExistingEvent(w, g) # 0 /\ trail[t].event = ExistingEvent(w, g)
        BY <4>1 DEF PaymentsOf, Open, Recorded
      <4>3. timeline[s.own[f]].of = f /\ timeline[s.own[g]].of = g /\ s.own[g] = s.own[f]
        BY <1>3, <1>4, <1>7, <2>1, <3>2, <4>2
      <4> QED
        BY <2>4, <4>1, <4>3
    <3> QED
      BY <1>1, <3>2, <3>3
  <2>5. ASSUME ~IsTransfer(f), NEW t \in LiveTrail, trail[t].event = s.own[f], t \notin s.dropTrail
        PROVE  trail[t].review = "ruled"
    <3>1. t \notin work[w].dropTrail /\ t \notin Withdrawn(w)
      BY <1>1, <2>5
    <3>2. t \in PaymentsOf(w, f)
      BY <1>7, <2>1, <2>5, <3>1 DEF PaymentsOf, SeenTrail
    <3>3. trail[t].review # "unreviewed"
      BY <2>2, <2>5, <3>1, <3>2 DEF Withdrawn
    <3>4. trail[t] \in TrailRows
      BY <1>2 DEF LiveTrail, TypeOK
    <3> QED
      BY <3>3, <3>4 DEF TrailRows
  <2> QED
    BY <2>3, <2>4, <2>5
<1>8. UNCHANGED <<Recorded, LiveEvents, LiveTrail>> /\ \A f : IsTransfer(f)' = IsTransfer(f)
  BY <1>2 DEF Recorded, LiveEvents, LiveTrail, IsTransfer
<1>9. /\ s.snap = record
      /\ \A f \in s.paid : IsTransfer(f) /\ (s.own[f] # 0 \/ f \in s.made)
      /\ \A f \in Files : s.own[f] # 0 =>
            s.own[f] \in LiveEvents /\ timeline[s.own[f]].grounded /\ timeline[s.own[f]].of = f
      /\ \A f \in Recorded : s.own[f] = 0 => f \in s.made /\ (IsTransfer(f) => f \in s.paid)
      /\ \A f \in Recorded : s.own[f] # 0 /\ timeline[s.own[f]].review = "unreviewed" =>
            /\ timeline[s.own[f]].reading = record[f].reading \/ f \in s.moved
            /\ IsTransfer(f) => \/ f \in s.paid
                                \/ \E t \in LiveTrail \ s.dropTrail : trail[t].event = s.own[f]
            /\ ~IsTransfer(f) => \A t \in LiveTrail : trail[t].event = s.own[f] =>
                                    t \in s.dropTrail \/ trail[t].review = "ruled"
  BY <1>1, <1>4, <1>5, <1>6, <1>7
<1> QED
  BY <1>2, <1>8, <1>9 DEF Planned

\* Every other step leaves no session between its projection and its end.
LEMMA PlannedKept ==
    ASSUME Basics, TurnsTaken, Sole, SoleInv, SoleInv', Planned, SurfacesMatchRecords, ~Overlap, [Next]_vars
    PROVE  Planned' /\ SurfacesMatchRecords'
<1>0. work \in [Workers -> Sessions]
  BY DEF Basics, TypeOK
<1>1. ASSUME \A w \in Workers : work'[w].pc \notin {"projected", "done"}
      PROVE  Planned' /\ SurfacesMatchRecords'
  BY <1>1 DEF Planned, SurfacesMatchRecords
<1>2. ASSUME NEW w \in Workers,
             \/ Start(w) \/ Upsert(w) \/ CommitRecord(w) \/ RunFails(w)
             \/ PurgeReads(w) \/ Purge(w) \/ ProjectionFails(w) \/ Return(w)
             \/ (CommitProjection(w) /\ Refused(work[w]))
      PROVE  Planned' /\ SurfacesMatchRecords'
  <2>1. \A f : /\ At("reading", f).pc = "reading" /\ At("recorded", f).pc = "recorded"
               /\ Idle.pc = "idle"
    BY DEF At, Idle
  <2>2. work'[w].pc \notin {"projected", "done"}
    <3>1. CASE \/ Start(w) \/ CommitRecord(w) \/ RunFails(w) \/ ProjectionFails(w) \/ Return(w)
               \/ (CommitProjection(w) /\ Refused(work[w]))
      <4>1. \E s : work' = [work EXCEPT ![w] = s] /\ s.pc \in {"reading", "recorded", "idle"}
        BY ZenonT(30), <2>1, <3>1 DEF Start, CommitRecord, RunFails, CommitProjection, ProjectionFails, Return
      <4> QED
        BY <1>0, <4>1
    <3>2. CASE Upsert(w)
      <4>1. PICK l, d : work' = [work EXCEPT ![w] = [work[w] EXCEPT !.pc = "staged", !.loaded = l, !.draft = d]]
        BY <3>2 DEF Upsert
      <4> QED
        BY <1>0, <4>1 DEF Sessions
    <3>3. CASE PurgeReads(w)
      BY <1>0, <3>3 DEF PurgeReads, Sessions
    <3>4. CASE Purge(w)
      BY <1>0, <3>4 DEF Purge, Sessions
    <3> QED
      BY <1>2, <3>1, <3>2, <3>3, <3>4
  <2>3. \A x \in Workers : x = w
    BY DEF Sole
  <2> QED
    BY <1>1, <2>2, <2>3
<1>3. ASSUME NEW w \in Workers, Project(w) PROVE Planned' /\ SurfacesMatchRecords'
  <2>1. PICK s \in Sessions : work' = [work EXCEPT ![w] = s] /\ s.pc = "projected"
    BY <1>3, ProjectedSession DEF Basics
  <2>2. \A x \in Workers : work'[x].pc = "projected"
    BY <1>0, <2>1 DEF Sole
  <2>3. SurfacesMatchRecords'
    BY <2>2 DEF SurfacesMatchRecords
  <2> QED
    BY <1>3, <2>3, ProjectPlans
<1>4. ASSUME NEW w \in Workers, CommitProjection(w), ~Refused(work[w])
      PROVE  Planned' /\ SurfacesMatchRecords'
  <2>1. work'[w].pc = "done"
    <3>1. work' = [work EXCEPT ![w] = At("done", work[w].file)] /\ At("done", work[w].file).pc = "done"
      BY <1>4, CommitEffect DEF At
    <3> QED
      BY <1>0, <3>1
  <2>2. Planned'
    BY <2>1 DEF Planned, Sole
  <2> QED
    BY <1>4, <2>2, CommitMatches
<1>5. ASSUME \/ \E v \in Reviewers : CommitReview(v) \/ \E f \in Files : BeginReview(v, f)
             \/ \E i \in DOMAIN timeline : ReviewEvent(i)
             \/ \E t \in DOMAIN trail : ReviewTransaction(t)
      PROVE  Planned' /\ SurfacesMatchRecords'
  <2>1. \A w \in Workers : work'[w].pc = "idle"
    BY <1>5 DEF BeginReview, CommitReview, ReviewEvent, ReviewTransaction, MayRule, Busy, TurnsTaken
  <2> QED
    BY <1>1, <2>1
<1>6. CASE UNCHANGED vars
  BY <1>6 DEF vars, Planned, SurfacesMatchRecords, LiveEvents, LiveTrail, Recorded, IsTransfer
<1> QED
  BY <1>2, <1>3, <1>4, <1>5, <1>6 DEF Next

\* Where one session runs at a time and reviewers wait for it, a projection
\* that has committed leaves timeline and trail saying what the records say,
\* but for the rows that have been ruled on.
THEOREM SurfacesSpeakForRecords == Sole /\ ~Overlap => (Spec => []SurfacesMatchRecords)
<1> SUFFICES ASSUME Sole, ~Overlap PROVE Spec => []SurfacesMatchRecords
  OBVIOUS
<1>1. Init => Planned /\ SurfacesMatchRecords
  BY DEF Init, Planned, SurfacesMatchRecords, Idle, At
<1>2. Basics /\ TurnsTaken /\ SoleInv /\ SoleInv' /\ Planned /\ SurfacesMatchRecords /\ [Next]_vars
        => Planned' /\ SurfacesMatchRecords'
  BY PlannedKept
<1>3. Spec => [](Basics /\ SoleInv)
  BY SoleHolds
<1>4. Spec => []TurnsTaken
  BY RulingsTakeTurns
<1> QED
  BY <1>1, <1>2, <1>3, <1>4, PTL DEF Spec

===============================================================================
