--------------------------- MODULE EvidencePipeline ---------------------------
(***************************************************************************)
(* Background processing of the evidence files of one case: the upload and  *)
(* requeue endpoints (api/evidence.py), the Celery task and its retries     *)
(* (workers/tasks.py) and process_evidence (services/pipeline.py), run by    *)
(* several workers over one PostgreSQL database at READ COMMITTED.           *)
(*                                                                         *)
(* Each worker's steps are the points between which another session can be  *)
(* seen: a read, an INSERT that meets a unique index, a commit. What a       *)
(* worker has flushed and not committed is kept in its own record, and a     *)
(* conflicting INSERT or UPDATE of another worker waits for it.              *)
(***************************************************************************)
EXTENDS Naturals, Sequences

CONSTANTS
    Files,        \* evidence files of the case
    Workers,      \* Celery worker processes
    Kind,         \* what the parser makes of each file's records
    Leads,        \* idempotency keys the transaction and evidence rules can raise
    Basis,        \* per lead: the sets of files whose typed events raise it
    Faults,       \* which of the things in FaultKinds happen
    MaxRequeues   \* bound: how many times the files are requeued in all

FaultKinds ==
    {"os_error", "parse_error", "extract_error", "model", "projection",
     "crash", "broker"}

OCR_RECORD_TYPE == "ocr_document"
RecordTypes == {OCR_RECORD_TYPE, "message", "bank_transaction", "phishing_email"}

ASSUME PipelineAssumption ==
    /\ Kind \in [Files -> RecordTypes]
    /\ Basis \in [Leads -> SUBSET SUBSET Files]
    /\ \A k \in Leads : {} \notin Basis[k]   \* every lead names rows it was read in
    /\ Faults \subseteq FaultKinds
    /\ MaxRequeues \in Nat

MaxRetries == 2            \* max_retries of process_evidence_task
GroundedMaxAttempts == 3   \* GROUNDED_MAX_ATTEMPTS

VARIABLES
    row,        \* evidence_files: status and failure_reason ("none" for NULL)
    runs,       \* processing_runs: state of the "parse" and "extract" stages
    text,       \* extracted_text: is the parser's output stored
    events,     \* events: the batches of deterministic events stored per file
    artifacts,  \* raw_extraction_artifacts: files with a stored raw layer
    alerts,     \* alerts: the leads stored for the case
    posting,    \* tasks an endpoint has yet to hand to the broker
    queue,      \* tasks in the broker, by file and retry count
    work,       \* what each worker is doing
    requeues,   \* requests to process a file again so far
    cleared     \* ghost: files last requeued while a failure handler was at work

database == <<row, runs, text, events, artifacts, alerts>>
broker == <<posting, queue, requeues, cleared>>
vars == <<database, broker, work>>

Statuses == {"none", "queued", "processing", "normalizing", "completed", "failed"}
Stages == {"parse", "extract"}
Reasons == {"one message", "another"}   \* what str(exc) can be: equal or different
NoEvents == <<>>

Idle == [pc |-> "idle", file |-> "none", retries |-> 0, seen |-> "none",
         fresh |-> FALSE, batch |-> NoEvents, leads |-> {}, attempt |-> 0,
         error |-> "none", told |-> "none", saw |-> FALSE]

Busy(w) == work[w].pc # "idle"

(***************************************************************************)
(* What a worker t holds after a step: the file's row just loaded, its text  *)
(* stored, its extraction run found or inserted, its leads computed, the      *)
(* model pass begun, tried again, and over.                                  *)
(***************************************************************************)

Loading(pc, f, retries, saw) ==
    [Idle EXCEPT !.pc = pc, !.file = f, !.retries = retries, !.seen = row[f].status,
                 !.saw = saw]
Failing(t, error) ==
    [Loading("failing", t.file, t.retries, runs[t.file]["parse"] # "none")
        EXCEPT !.error = error, !.told = row[t.file].reason]
Parsed(t, fresh, seen) == [t EXCEPT !.pc = "parsed", !.fresh = fresh, !.seen = seen]
Extracting(t, pc, saw, batch) == [t EXCEPT !.pc = pc, !.saw = saw, !.batch = batch]
Evaluated(t, raised) == [t EXCEPT !.pc = "evaluated", !.leads = raised]
Grounding(t) ==
    [Idle EXCEPT !.pc = "grounding", !.file = t.file, !.retries = t.retries,
                 !.seen = "normalizing", !.attempt = 1]
TryingAgain(t) == [t EXCEPT !.attempt = @ + 1, !.seen = row[t.file].status]
Finishing(t, seen) == [t EXCEPT !.pc = "finishing", !.seen = seen]

(***************************************************************************)
(* Uncommitted work of a session.                                           *)
(***************************************************************************)

\* Session w has inserted the run of this stage and not committed.
Inserting(w, f, stage) ==
    /\ work[w].file = f
    /\ \/ stage = "parse" /\ work[w].pc \in {"parse", "replay"} /\ work[w].saw = FALSE
       \/ stage = "extract" /\ work[w].pc \in {"extracted", "evaluated"} /\ work[w].saw = FALSE

\* Mutant: no unique index makes the second INSERT wait.
FreeToInsert_NoIndex(w, f, stage) == TRUE

FreeToInsert(w, f, stage) == \A v \in Workers \ {w} : ~Inserting(v, f, stage)

\* The flush of the first new event also writes the new status, and with it
\* locks the evidence row until the commit.
RowLocked(f) ==
    \E v \in Workers : Inserting(v, f, "extract") /\ work[v].batch # NoEvents

\* The ORM writes a column only if its value differs from the one loaded:
\* otherwise what is stored stays, whoever wrote it meanwhile.
Assigned(stored, loaded, new) == IF loaded = new THEN stored ELSE new

(***************************************************************************)
(* api/evidence.py                                                         *)
(***************************************************************************)

\* upload_evidence up to its commit (a new hash; see EvidenceIntake).
Upload(f) ==
    /\ row[f].status = "none"
    /\ row' = [row EXCEPT ![f].status = "queued"]
    /\ posting' = [posting EXCEPT ![f] = @ + 1]
    /\ UNCHANGED <<runs, text, events, artifacts, alerts, queue, requeues, cleared, work>>

\* A requeue clears the reason, perhaps one that a failure handler has loaded.
Clear(f) ==
    cleared' = IF \E w \in Workers : work[w].pc = "failing" /\ work[w].file = f
               THEN cleared \cup {f} ELSE cleared \ {f}

\* Mutant: a requeue clears the reason and leaves the status.
Requeue_ReasonOnly(f) ==
    /\ row[f].status # "none"
    /\ ~RowLocked(f)
    /\ requeues < MaxRequeues
    /\ requeues' = requeues + 1
    /\ row' = [row EXCEPT ![f].reason = "none"]
    /\ posting' = [posting EXCEPT ![f] = @ + 1]
    /\ Clear(f)
    /\ UNCHANGED <<runs, text, events, artifacts, alerts, queue, work>>

\* requeue_evidence up to its commit. It does not look at the status.
Requeue(f) ==
    /\ row[f].status # "none"
    /\ ~RowLocked(f)
    /\ requeues < MaxRequeues
    /\ requeues' = requeues + 1
    /\ row' = [row EXCEPT ![f] = [status |-> "queued", reason |-> "none"]]
    /\ posting' = [posting EXCEPT ![f] = @ + 1]
    /\ Clear(f)
    /\ UNCHANGED <<runs, text, events, artifacts, alerts, queue, work>>

\* process_evidence_task.delay, after the commit.
Post(f) ==
    /\ posting[f] > 0
    /\ posting' = [posting EXCEPT ![f] = @ - 1]
    /\ queue' = [queue EXCEPT ![f][0] = @ + 1]
    /\ UNCHANGED <<database, requeues, cleared, work>>

\* The broker refuses the task; the request fails and nothing is undone.
BrokerDown(f) ==
    /\ "broker" \in Faults
    /\ posting[f] > 0
    /\ posting' = [posting EXCEPT ![f] = @ - 1]
    /\ UNCHANGED <<database, queue, requeues, cleared, work>>

(***************************************************************************)
(* process_evidence, first transaction: _records.                           *)
(***************************************************************************)

\* Where _records goes once it has its run: replay stored text or parse.
RecordsPc(f) == IF text[f] THEN "replay" ELSE "parse"

\* The task is acknowledged as it starts; the evidence row and its parse run
\* are read.
Take(w) ==
    /\ work[w].pc = "idle"
    /\ \E f \in Files, r \in 0..MaxRetries :
          /\ queue[f][r] > 0
          /\ queue' = [queue EXCEPT ![f][r] = @ - 1]
          /\ LET known == runs[f]["parse"] # "none"
             IN  work' = [work EXCEPT ![w] =
                    Loading(IF known THEN RecordsPc(f) ELSE "insert_parse", f, r, known)]
    /\ UNCHANGED <<database, posting, requeues, cleared>>

\* An exception reaches process_evidence's handler: roll back, load the
\* evidence row again and look for its parse run.
Raise(w, error) == work' = [work EXCEPT ![w] = Failing(@, error)]

\* _run: INSERT and flush. It waits for another session's uncommitted row and
\* violates uq_processing_stage_version if that one commits.
InsertParse(w) ==
    LET f == work[w].file
    IN  /\ work[w].pc = "insert_parse"
        /\ FreeToInsert(w, f, "parse")
        /\ IF runs[f]["parse"] # "none"
           THEN Raise(w, "other")
           ELSE work' = [work EXCEPT ![w] = [@ EXCEPT !.pc = RecordsPc(f)]]
        /\ UNCHANGED <<database, broker>>

\* Stored text is read back instead of parsing again; the run is finished.
CommitReplay(w) ==
    LET f == work[w].file
    IN  /\ work[w].pc = "replay"
        /\ runs' = [runs EXCEPT ![f]["parse"] = "succeeded"]
        /\ work' = [work EXCEPT ![w] = Parsed(@, FALSE, @.seen)]
        /\ UNCHANGED <<row, text, events, artifacts, alerts, broker>>

\* Mutant: the parser's output waits for the next commit.
CommitParse_NotYet(w) ==
    /\ work[w].pc = "parse"
    /\ work' = [work EXCEPT ![w] = Parsed(@, TRUE, @.seen)]
    /\ UNCHANGED <<database, broker>>

\* parse_evidence, and the commit that makes its output durable. Two sessions
\* that found the same parse run may both parse; extracted_text is unique.
CommitParse(w) ==
    LET f == work[w].file
    IN  /\ work[w].pc = "parse"
        /\ ~RowLocked(f)
        /\ IF text[f]
           THEN Raise(w, "other") /\ UNCHANGED <<row, runs, text>>
           ELSE /\ text' = [text EXCEPT ![f] = TRUE]
                /\ runs' = [runs EXCEPT ![f]["parse"] = "succeeded"]
                /\ row' = [row EXCEPT ![f].status = Assigned(row[f].status, work[w].seen, "processing")]
                /\ work' = [work EXCEPT ![w] = Parsed(@, TRUE, "processing")]
        /\ UNCHANGED <<events, artifacts, alerts, broker>>

\* parse_evidence raises: the object cannot be read, or cannot be parsed.
ParseFails(w) ==
    /\ work[w].pc = "parse"
    /\ \/ "os_error" \in Faults /\ Raise(w, "os")
       \/ "parse_error" \in Faults /\ Raise(w, "other")
    /\ UNCHANGED <<database, broker>>

(***************************************************************************)
(* Second transaction: _events, the remaining stages, evaluate_alerts. The  *)
(* "normalize", "graph" and "alerts" runs are inserted with the "extract"   *)
(* run and live and die with it.                                            *)
(***************************************************************************)

\* Mutant: text read back is always chat.
Replayed_AsChat(kind) == "message"

\* The record type of stored text that is read back: only OCR text is known
\* for what it was.
Replayed(kind) == IF kind = OCR_RECORD_TYPE THEN kind ELSE "message"

\* The events this run adds: none if the file has some already.
Batch(w) ==
    LET f == work[w].file
    IN  IF events[f] # NoEvents THEN NoEvents
        ELSE <<IF work[w].fresh THEN Kind[f] ELSE Replayed(Kind[f])>>

FindExtract(w) ==
    LET known == runs[work[w].file]["extract"] # "none"
    IN  /\ work[w].pc = "parsed"
        /\ work' = [work EXCEPT ![w] =
               Extracting(@, IF known THEN "extracted" ELSE "insert_extract", known,
                          IF known THEN Batch(w) ELSE NoEvents)]
        /\ UNCHANGED <<database, broker>>

InsertExtract(w) ==
    LET f == work[w].file
    IN  /\ work[w].pc = "insert_extract"
        /\ FreeToInsert(w, f, "extract")
        /\ IF runs[f]["extract"] # "none"
           THEN Raise(w, "other")
           ELSE work' = [work EXCEPT ![w] = Extracting(@, "extracted", @.saw, Batch(w))]
        /\ UNCHANGED <<database, broker>>

ExtractFails(w) ==
    /\ "extract_error" \in Faults
    /\ work[w].pc = "extracted"
    /\ work[w].batch # NoEvents
    /\ Raise(w, "other")
    /\ UNCHANGED <<database, broker>>

\* Files whose stored events are of the type the parser gave them. The leads
\* of the model rest on what only such events carry: a transfer's columns, an
\* email's type.
Typed(stored) == {f \in Files : \E i \in DOMAIN stored[f] : stored[f][i] = Kind[f]}

Raised(stored) == {k \in Leads : \E fs \in Basis[k] : fs \subseteq Typed(stored)}

\* Mutant: the rules look at the file just processed only.
Evaluate_OneFile(w) ==
    LET f == work[w].file
        visible == [g \in Files |-> IF g = f THEN events[f] \o work[w].batch ELSE NoEvents]
    IN  /\ work[w].pc = "extracted"
        /\ work' = [work EXCEPT ![w] = Evaluated(@, Raised(visible) \ alerts)]
        /\ UNCHANGED <<database, broker>>

\* evaluate_alerts sees what is committed and what this session has flushed;
\* _alert skips a lead that is stored.
Evaluate(w) ==
    LET visible == [events EXCEPT ![work[w].file] = @ \o work[w].batch]
    IN  /\ work[w].pc = "extracted"
        /\ work' = [work EXCEPT ![w] = Evaluated(@, Raised(visible) \ alerts)]
        /\ UNCHANGED <<database, broker>>

\* The commit: a lead another session stored meanwhile violates the unique
\* index on idempotency_key and takes the whole transaction with it.
CommitEvents(w) ==
    LET f == work[w].file
        written == IF work[w].batch # NoEvents THEN "normalizing"
                   ELSE Assigned(row[f].status, work[w].seen, "normalizing")
    IN  /\ work[w].pc = "evaluated"
        /\ IF work[w].leads \cap alerts # {}
           THEN Raise(w, "other") /\ UNCHANGED <<row, runs, events, alerts>>
           ELSE /\ row' = [row EXCEPT ![f].status = written]
                /\ runs' = [runs EXCEPT ![f]["extract"] = "succeeded"]
                /\ events' = [events EXCEPT ![f] = @ \o work[w].batch]
                /\ alerts' = alerts \cup work[w].leads
                /\ work' = [work EXCEPT ![w] = Grounding(@)]
        /\ UNCHANGED <<text, artifacts, broker>>

(***************************************************************************)
(* _run_grounded, and the end of the task.                                  *)
(***************************************************************************)

\* Only a rollback makes the session look at the evidence row again.
GroundedSucceeds(w) ==
    /\ work[w].pc = "grounding"
    /\ artifacts' = artifacts \cup {work[w].file}
    /\ \E seen \in {work[w].seen} \cup (IF "projection" \in Faults THEN {"expired"} ELSE {}) :
          work' = [work EXCEPT ![w] = Finishing(@, seen)]
    /\ UNCHANGED <<row, runs, text, events, alerts, broker>>

\* Mutant: the model pass is tried until it succeeds.
GroundedFails_Unbounded(w) ==
    /\ "model" \in Faults
    /\ work[w].pc = "grounding"
    /\ work[w].attempt <= GroundedMaxAttempts
    /\ work' = [work EXCEPT ![w] = TryingAgain(@)]
    /\ UNCHANGED <<database, broker>>

\* Mutant: a failed model pass ends the task and leaves the file in work.
GroundedFails_Stuck(w) ==
    /\ "model" \in Faults
    /\ work[w].pc = "grounding"
    /\ work' = [work EXCEPT ![w] = Idle]
    /\ UNCHANGED <<database, broker>>

\* An attempt fails, before or after the raw layers became durable; it is
\* tried again only if they are.
GroundedFails(w) ==
    LET f == work[w].file
    IN  /\ "model" \in Faults
        /\ work[w].pc = "grounding"
        /\ artifacts' \in {artifacts, artifacts \cup {f}}
        /\ work' = IF work[w].attempt < GroundedMaxAttempts /\ f \in artifacts'
                   THEN [work EXCEPT ![w] = TryingAgain(@)]
                   ELSE [work EXCEPT ![w] = Finishing(@, "expired")]
        /\ UNCHANGED <<row, runs, text, events, alerts, broker>>

Finish(w) ==
    LET f == work[w].file
        local == IF work[w].seen = "expired" THEN row[f].status ELSE work[w].seen
    IN  /\ work[w].pc = "finishing"
        /\ row' = IF local = "failed" THEN row
                  ELSE [row EXCEPT ![f].status = Assigned(row[f].status, local, "completed")]
        /\ work' = [work EXCEPT ![w] = Idle]
        /\ UNCHANGED <<runs, text, events, artifacts, alerts, broker>>

\* What the handler's commit makes of a row, str(exc) being what is said.
Failed(r, t, said) ==
    [status |-> Assigned(r.status, t.seen, "failed"),
     reason |-> Assigned(r.reason, t.told, said)]

\* The handler records the failure, inserting the parse run if it found none,
\* and the exception goes on to Celery, which retries an OSError.
Settle(w) ==
    LET f == work[w].file
        again == work[w].error = "os" /\ work[w].retries < MaxRetries
    IN  /\ work[w].pc = "failing"
        /\ ~RowLocked(f)
        /\ work[w].saw \/ FreeToInsert(w, f, "parse")
        /\ IF ~work[w].saw /\ runs[f]["parse"] # "none"
           THEN UNCHANGED <<row, runs, queue>>   \* the handler itself fails
           ELSE /\ \E said \in Reasons : row' = [row EXCEPT ![f] = Failed(@, work[w], said)]
                /\ runs' = [runs EXCEPT ![f]["parse"] = "failed"]
                /\ queue' = IF again THEN [queue EXCEPT ![f][work[w].retries + 1] = @ + 1]
                            ELSE queue
        /\ work' = [work EXCEPT ![w] = Idle]
        /\ UNCHANGED <<text, events, artifacts, alerts, posting, requeues, cleared>>

\* The worker process dies: its task is gone, its transaction rolled back.
Crash(w) ==
    /\ "crash" \in Faults
    /\ Busy(w)
    /\ work' = [work EXCEPT ![w] = Idle]
    /\ UNCHANGED <<database, broker>>

-------------------------------------------------------------------------------

Init ==
    /\ row = [f \in Files |-> [status |-> "none", reason |-> "none"]]
    /\ runs = [f \in Files |-> [stage \in Stages |-> "none"]]
    /\ text = [f \in Files |-> FALSE]
    /\ events = [f \in Files |-> NoEvents]
    /\ artifacts = {}
    /\ alerts = {}
    /\ posting = [f \in Files |-> 0]
    /\ queue = [f \in Files |-> [r \in 0..MaxRetries |-> 0]]
    /\ work = [w \in Workers |-> Idle]
    /\ requeues = 0
    /\ cleared = {}

Process(w) ==
    \/ Take(w)
    \/ InsertParse(w) \/ CommitReplay(w) \/ CommitParse(w) \/ ParseFails(w)
    \/ FindExtract(w) \/ InsertExtract(w) \/ ExtractFails(w)
    \/ Evaluate(w) \/ CommitEvents(w)
    \/ GroundedSucceeds(w) \/ GroundedFails(w)
    \/ Finish(w) \/ Settle(w)

Next ==
    \/ \E f \in Files : Upload(f) \/ Requeue(f) \/ Post(f) \/ BrokerDown(f)
    \/ \E w \in Workers : Process(w) \/ Crash(w)

\* A worker that can take its next step does; an endpoint that has committed
\* hands its task to the broker. Uploads and requeues are the users' choice.
Fairness ==
    /\ \A w \in Workers : WF_vars(Process(w))
    /\ \A f \in Files : WF_vars(Post(f))

Spec == Init /\ [][Next]_vars
FairSpec == Spec /\ Fairness

(***************************************************************************)
(* Properties.                                                             *)
(***************************************************************************)

\* What a worker can be in the middle of.
Steps ==
    {"idle", "insert_parse", "parse", "replay", "parsed", "insert_extract",
     "extracted", "evaluated", "grounding", "finishing", "failing"}
Tasks ==
    [pc : Steps, file : Files \cup {"none"}, retries : 0..MaxRetries,
     seen : Statuses \cup {"expired"}, fresh : BOOLEAN, batch : Seq(RecordTypes),
     leads : SUBSET Leads, attempt : 0..GroundedMaxAttempts,
     error : {"none", "os", "other"}, told : Reasons \cup {"none"}, saw : BOOLEAN]

\* The tables and the workers hold what the code can put there; Celery's
\* retries and the model pass's attempts stay within their limits.
TypeOK ==
    /\ row \in [Files -> [status : Statuses, reason : Reasons \cup {"none"}]]
    /\ runs \in [Files -> [Stages -> {"none", "succeeded", "failed"}]]
    /\ text \in [Files -> BOOLEAN]
    /\ events \in [Files -> Seq(RecordTypes)]
    /\ artifacts \subseteq Files
    /\ alerts \subseteq Leads
    /\ posting \in [Files -> Nat]
    /\ queue \in [Files -> [0..MaxRetries -> Nat]]
    /\ requeues \in 0..MaxRequeues
    /\ cleared \subseteq Files
    /\ work \in [Workers -> Tasks]
    /\ \A w \in Workers : Busy(w) => work[w].file \in Files

\* However often a file is requeued, retried or crashed on, and however many
\* workers run it at once, its deterministic events are stored once: the
\* unique index on processing_runs is the only thing that keeps two workers
\* apart (_run, _events).
EventsOnce == \A f \in Files : Len(events[f]) <= 1

\* A failure after parsing costs none of what an earlier commit stored: a
\* worker past the first commit has its text stored, one past the second its
\* events ("Raw extraction is made durable before enrichment starts",
\* pipeline.py).
ExtractionDurable ==
    \A w \in Workers :
        /\ work[w].pc \in {"parsed", "insert_extract", "extracted", "evaluated",
                           "grounding", "finishing"} => text[work[w].file]
        /\ work[w].pc \in {"grounding", "finishing"} => events[work[w].file] # NoEvents

\* A file is shown as completed only with its text and events stored, whichever
\* of several overlapping runs wrote the status last; and as failed only with a
\* reason, unless it was requeued between a handler's look at the row and its
\* commit: the ORM does not write a reason equal to the one it loaded, though
\* the requeue has cleared that one.
StatusIsEarned ==
    \A f \in Files :
        /\ row[f].status = "completed" => text[f] /\ events[f] # NoEvents
        /\ row[f].status = "failed" => row[f].reason # "none" \/ f \in cleared

\* A picture stays one document whatever attempt its events come from ("that
\* is how one image kept expanding back into an event per line", _records).
PictureStaysOneDocument ==
    \A f \in Files : Kind[f] = OCR_RECORD_TYPE =>
        \A i \in DOMAIN events[f] : events[f][i] = OCR_RECORD_TYPE

Quiet ==
    /\ \A w \in Workers : ~Busy(w)
    /\ \A f \in Files : posting[f] = 0 /\ \A r \in 0..MaxRetries : queue[f][r] = 0

\* Nothing was missed: once processing is over, every lead the stored events
\* of the case support has been raised.
LeadsComplete == Quiet => Raised(events) \subseteq alerts

\* A file that is waiting or in work ends up completed or failed, though
\* overlapping runs of it disagree and block one another on the way.
EveryFileSettles ==
    \A f \in Files :
        row[f].status \in {"queued", "processing", "normalizing"}
            ~> row[f].status \in {"completed", "failed"}

===============================================================================
