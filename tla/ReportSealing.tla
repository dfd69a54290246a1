----------------------------- MODULE ReportSealing -----------------------------
(* A case's reports: api/review.py requests one, workers/tasks.py runs         *)
(* generate_report of services/reporting.py, whose _finalise seals it with     *)
(* services/trustify.py and publishes it with services/storage.py.             *)
(*                                                                             *)
(* A report is known by its version. A rendering is a number nobody has had    *)
(* before, since every page carries the time it was made; hashes are equal     *)
(* exactly when contents are. What is printed is abstracted to the files it    *)
(* lists, the rulings in the snapshot it is laid out from, and the rulings its *)
(* own queries find.                                                           *)
EXTENDS MerkleTree

CONSTANTS
    Held,           \* evidence of the case at first, in the order of its ids
    Files,          \* evidence the case may ever hold
    Clients,        \* simultaneous requests for a report
    Workers,        \* Celery workers on the queue `reports`
    MaxRetries,     \* generate_report_task: max_retries
    MaxReports,     \* bound: reports requested
    MaxReviews,     \* bound: rulings recorded on the case
    MaxRenders      \* bound: renderings started

ASSUME SealingAssumption ==
    /\ Held \in Seq(Files)
    /\ MaxRetries \in Nat /\ MaxReports \in Nat /\ MaxReviews \in Nat /\ MaxRenders \in Nat

VARIABLES
    remote,         \* settings.storage_backend = "supabase"
    evidence,       \* the case's files in the order of their ids
    reviews,        \* rulings recorded so far: what a snapshot shows
    reports,        \* committed rows of `reports`, by version
    receipts,       \* committed rows of trustify_receipts, by version
    request,        \* request[c]: what client c's request is doing
    queue,          \* tasks waiting: [version, retries]
    work,           \* work[w]: the task worker w runs, with its session's state
    disk,           \* generated_reports: (kind, version) -> content
    objects,        \* the object store: (kind, version) -> content
    renders,        \* renderings so far
    lost            \* ghost: versions whose task was refused or died

reportVars == <<remote, evidence, reviews, reports, receipts, request, queue, work,
                disk, objects, renders, lost>>

None == <<>>
Versions == 1..MaxReports
Names == {"pdf", "manifest"} \X Versions
NoRequest == [pc |-> "idle", version |-> 0, snapshot |-> 0]
NoWork == [pc |-> "idle", version |-> 0, retries |-> 0, snapshot |-> 0, receipt |-> None]

Listed(files) == {files[i] : i \in 1..Len(files)}
Pdf(v) == <<"pdf", v>>
Manifest(v) == <<"manifest", v>>

(* get_report_artifact_path: where a reader finds a published file.            *)
Stored(name) == IF remote THEN objects[name] ELSE disk[name]

-------------------------------------------------------------------------------
Init ==
    /\ remote \in BOOLEAN
    /\ evidence = Held
    /\ reviews = 0
    /\ reports = <<>>
    /\ receipts = [v \in Versions |-> None]
    /\ request = [c \in Clients |-> NoRequest]
    /\ queue = {}
    /\ work = [w \in Workers |-> NoWork]
    /\ disk = [n \in Names |-> None]
    /\ objects = [n \in Names |-> None]
    /\ renders = 0
    /\ lost = {}

(* A file joins the case; its id is random, so it sorts anywhere.              *)
AddFile(f, place) ==
    /\ f \notin Listed(evidence)
    /\ evidence' = InsertAt(evidence, place, f)
    /\ UNCHANGED <<remote, reviews, reports, receipts, request, queue, work, disk, objects, renders, lost>>

(* A reviewer rules on something the reports show.                             *)
Review ==
    /\ reviews < MaxReviews
    /\ reviews' = reviews + 1
    /\ UNCHANGED <<remote, evidence, reports, receipts, request, queue, work, disk, objects, renders, lost>>

(* create_report_record: the highest version so far, read before the insert.   *)
BeginCreate(c) ==
    /\ request[c].pc = "idle"
    /\ Len(reports) < MaxReports
    /\ request' = [request EXCEPT ![c] =
                    [pc |-> "creating", version |-> Len(reports) + 1, snapshot |-> reviews]]
    /\ UNCHANGED <<remote, evidence, reviews, reports, receipts, queue, work, disk, objects, renders, lost>>

(* The commit, refused by uq_report_case_version when another request took     *)
(* the version: that request fails and leaves nothing.                         *)
CommitCreate(c) ==
    /\ request[c].pc = "creating"
    /\ IF request[c].version > Len(reports)
       THEN /\ reports' = Append(reports, [status |-> "pending", snapshot |-> request[c].snapshot, published |-> FALSE])
            /\ request' = [request EXCEPT ![c].pc = "posting"]
       ELSE /\ request' = [request EXCEPT ![c] = NoRequest]
            /\ UNCHANGED reports
    /\ UNCHANGED <<remote, evidence, reviews, receipts, queue, work, disk, objects, renders, lost>>

(* generate_report_task.delay: the broker takes the task, or refuses it.       *)
Post(c, accepted) ==
    /\ request[c].pc = "posting"
    /\ request' = [request EXCEPT ![c] = NoRequest]
    /\ IF accepted THEN /\ queue' = queue \cup {[version |-> request[c].version, retries |-> 0]}
                        /\ UNCHANGED lost
                   ELSE /\ lost' = lost \cup {request[c].version}
                        /\ UNCHANGED queue
    /\ UNCHANGED <<remote, evidence, reviews, reports, receipts, work, disk, objects, renders>>

-------------------------------------------------------------------------------
(* Mutant: the task stays in the queue until somebody confirms it.             *)
Begin_AckLate(w, task) ==
    /\ task \in queue
    /\ work[w] = NoWork
    /\ reports' = [reports EXCEPT ![task.version].status = "running"]
    /\ work' = [work EXCEPT ![w] = [pc |-> "rendering", version |-> task.version, retries |-> task.retries,
                                    snapshot |-> reports[task.version].snapshot, receipt |-> None]]
    /\ UNCHANGED <<remote, evidence, reviews, receipts, request, queue, disk, objects, renders, lost>>

(* generate_report sets RUNNING and commits that before it renders.            *)
Begin(w, task) ==
    /\ task \in queue
    /\ work[w] = NoWork
    /\ queue' = queue \ {task}
    /\ reports' = [reports EXCEPT ![task.version].status = "running"]
    /\ work' = [work EXCEPT ![w] = [pc |-> "rendering", version |-> task.version, retries |-> task.retries,
                                    snapshot |-> reports[task.version].snapshot, receipt |-> None]]
    /\ UNCHANGED <<remote, evidence, reviews, receipts, request, disk, objects, renders, lost>>

(* _snapshot reads the case anew and its hash goes into the session's row.     *)
TakeSnapshot(w) ==
    /\ work[w].pc = "rendering"
    /\ work' = [work EXCEPT ![w].pc = "printing", ![w].snapshot = reviews]
    /\ UNCHANGED <<remote, evidence, reviews, reports, receipts, request, queue, disk, objects, renders, lost>>

(* Mutant: the pages are laid out from a snapshot read again.                  *)
LayOut_SnapshotAgain(w) ==
    /\ work[w].pc = "printing"
    /\ renders < MaxRenders
    /\ renders' = renders + 1
    /\ disk' = [disk EXCEPT ![Pdf(work[w].version)] =
                    [made |-> renders + 1, files |-> Listed(evidence), snapshot |-> reviews, shown |-> reviews]]
    /\ work' = [work EXCEPT ![w].pc = "sealing"]
    /\ UNCHANGED <<remote, evidence, reviews, reports, receipts, request, queue, objects, lost>>

(* The pages are laid out from the snapshot, but alerts, claims, the evidence  *)
(* register, the rulings and the findings are queried again. The PDF is written *)
(* over whatever an earlier attempt left under its name.                       *)
LayOut(w) ==
    /\ work[w].pc = "printing"
    /\ renders < MaxRenders
    /\ renders' = renders + 1
    /\ disk' = [disk EXCEPT ![Pdf(work[w].version)] =
                    [made |-> renders + 1, files |-> Listed(evidence), snapshot |-> work[w].snapshot,
                     shown |-> reviews]]
    /\ work' = [work EXCEPT ![w].pc = "sealing"]
    /\ UNCHANGED <<remote, evidence, reviews, reports, receipts, request, queue, objects, lost>>

(* create_receipt: the leaves are the case's files as they are now, the hash   *)
(* is of the file on disk; the manifest is written next to it.                 *)
ReceiptFor(w) ==
    LET pdf == disk[Pdf(work[w].version)]
        leaves == [i \in 1..Len(evidence) |-> Leaf(evidence[i])]
    IN  [report |-> pdf.made, leaves |-> leaves, root |-> root(leaves), snapshot |-> work[w].snapshot]

Seal(w) ==
    /\ work[w].pc = "sealing"
    /\ work' = [work EXCEPT ![w].pc = "publishing pdf", ![w].receipt = ReceiptFor(w)]
    /\ disk' = [disk EXCEPT ![Manifest(work[w].version)] = ReceiptFor(w)]
    /\ UNCHANGED <<remote, evidence, reviews, reports, receipts, request, queue, objects, renders, lost>>

(* publish_private_file: nothing to do on a file system; the object store      *)
(* takes a name once (x-upsert: false).                                        *)
Free(name) == objects[name] = None
Uploaded(name) == IF remote THEN [objects EXCEPT ![name] = disk[name]] ELSE objects

(* Mutant: a name the store has already is taken for published.                *)
Publish_Taken(w, from, to, name) ==
    /\ work[w].pc = from
    /\ objects' = IF Free(name) THEN Uploaded(name) ELSE objects
    /\ work' = [work EXCEPT ![w].pc = to]
    /\ UNCHANGED <<remote, evidence, reviews, reports, receipts, request, queue, disk, renders, lost>>

Publish(w, from, to, name) ==
    /\ work[w].pc = from
    /\ remote => Free(name)
    /\ objects' = Uploaded(name)
    /\ work' = [work EXCEPT ![w].pc = to]
    /\ UNCHANGED <<remote, evidence, reviews, reports, receipts, request, queue, disk, renders, lost>>

PublishPdf(w) == Publish(w, "publishing pdf", "publishing manifest", Pdf(work[w].version))
PublishManifest(w) == Publish(w, "publishing manifest", "committing", Manifest(work[w].version))

(* _finalise commits the receipt and the report's new state together.          *)
Commit(w) ==
    /\ work[w].pc = "committing"
    /\ receipts' = [receipts EXCEPT ![work[w].version] = work[w].receipt]
    /\ reports' = [reports EXCEPT ![work[w].version] =
                    [status |-> "succeeded", snapshot |-> work[w].snapshot, published |-> TRUE]]
    /\ work' = [work EXCEPT ![w] = NoWork]
    /\ UNCHANGED <<remote, evidence, reviews, request, queue, disk, objects, renders, lost>>

(* The handler of generate_report: rollback, FAILED and its reason, raise.     *)
Failed(w) == [reports EXCEPT ![work[w].version].status = "failed"]

(* Mutant: the retry is queued and the attempt that asked for it goes unmarked, *)
(* the last one as well.                                                       *)
DiskFails_Unmarked(w) ==
    /\ work[w].pc \in {"rendering", "printing", "sealing", "publishing pdf", "publishing manifest"}
    /\ queue' = IF work[w].retries < MaxRetries
                THEN queue \cup {[version |-> work[w].version, retries |-> work[w].retries + 1]}
                ELSE queue
    /\ work' = [work EXCEPT ![w] = NoWork]
    /\ UNCHANGED <<remote, evidence, reviews, reports, receipts, request, disk, objects, renders, lost>>

(* An OSError (the disk) is retried by Celery, as often as the task allows.    *)
DiskFails(w) ==
    /\ work[w].pc \in {"rendering", "printing", "sealing", "publishing pdf", "publishing manifest"}
    /\ reports' = Failed(w)
    /\ queue' = IF work[w].retries < MaxRetries
                THEN queue \cup {[version |-> work[w].version, retries |-> work[w].retries + 1]}
                ELSE queue
    /\ work' = [work EXCEPT ![w] = NoWork]
    /\ UNCHANGED <<remote, evidence, reviews, receipts, request, disk, objects, renders, lost>>

(* Any other error ends the task: the store refuses a name it has or cannot be *)
(* reached, its answer is lost after it took the object, the database fails.   *)
Fails(w, taken) ==
    /\ work[w].pc # "idle"
    /\ IF taken /\ remote /\ work[w].pc = "publishing pdf" /\ Free(Pdf(work[w].version))
       THEN objects' = Uploaded(Pdf(work[w].version)) ELSE UNCHANGED objects
    /\ reports' = Failed(w)
    /\ work' = [work EXCEPT ![w] = NoWork]
    /\ UNCHANGED <<remote, evidence, reviews, receipts, request, queue, disk, renders, lost>>

(* The worker dies. Celery acknowledged the task when it started.              *)
Crash(w) ==
    /\ work[w].pc # "idle"
    /\ lost' = lost \cup {work[w].version}
    /\ work' = [work EXCEPT ![w] = NoWork]
    /\ UNCHANGED <<remote, evidence, reviews, reports, receipts, request, queue, disk, objects, renders>>

Answer(c) == CommitCreate(c) \/ \E ok \in BOOLEAN : Post(c, ok)

Generate(w) ==
    \/ \E task \in queue : Begin(w, task)
    \/ TakeSnapshot(w) \/ LayOut(w) \/ Seal(w) \/ PublishPdf(w) \/ PublishManifest(w) \/ Commit(w)
    \/ DiskFails(w) \/ \E taken \in BOOLEAN : Fails(w, taken)

Next ==
    \/ \E f \in Files, place \in 1..(Len(evidence) + 1) : AddFile(f, place)
    \/ Review
    \/ \E c \in Clients : BeginCreate(c) \/ Answer(c)
    \/ \E w \in Workers : Generate(w) \/ Crash(w)

Spec == Init /\ [][Next]_reportVars

(* A worker keeps running its task and taking the next; the server finishes    *)
(* the requests it has begun.                                                  *)
Fairness ==
    /\ \A w \in Workers : WF_reportVars(Generate(w))
    /\ \A c \in Clients : WF_reportVars(Answer(c))

-------------------------------------------------------------------------------
(* inclusion_proof: what a reader is told of one file and one sealed report.   *)
InclusionProof(v, f) ==
    LET leaves == receipts[v].leaves
        at == CHOOSE i \in 1..Len(leaves) : leaves[i] = Leaf(f)
    IN  IF f \notin Listed(evidence) \/ Leaf(f) \notin Listed(leaves)
        THEN [available |-> FALSE, verified |-> FALSE]
        ELSE [available |-> TRUE,
              verified |-> verify(Leaf(f), proof(leaves, at - 1), receipts[v].root)]

(* verify_receipt: the published files against the hashes of the receipt.      *)
ReceiptVerifies(v) ==
    /\ Stored(Pdf(v)) # None /\ Stored(Pdf(v)).made = receipts[v].report
    /\ Stored(Manifest(v)) = receipts[v]

Succeeded == {v \in 1..Len(reports) : reports[v].status = "succeeded"}

-------------------------------------------------------------------------------
(* Rows, tasks and workers hold what the code can put there.                   *)
Statuses == {"pending", "running", "succeeded", "failed"}
Reports == [status : Statuses, snapshot : 0..reviews, published : BOOLEAN]
Requests == [pc : {"idle", "creating", "posting"}, version : 0..(Len(reports) + 1), snapshot : 0..reviews]
Tasks == [version : 1..Len(reports), retries : 0..MaxRetries]
Steps == {"idle", "rendering", "printing", "sealing", "publishing pdf", "publishing manifest", "committing"}
IsWork(t) ==
    /\ t = [pc |-> t.pc, version |-> t.version, retries |-> t.retries, snapshot |-> t.snapshot, receipt |-> t.receipt]
    /\ t.pc \in Steps /\ t.retries \in 0..MaxRetries /\ t.snapshot \in 0..reviews
    /\ IF t.pc = "idle" THEN t = NoWork ELSE t.version \in 1..Len(reports)

TypeOK ==
    /\ remote \in BOOLEAN
    /\ evidence \in Seq(Files)
    /\ reviews \in 0..MaxReviews /\ renders \in 0..MaxRenders
    /\ reports \in Seq(Reports) /\ Len(reports) <= MaxReports
    /\ request \in [Clients -> Requests]
    /\ queue \subseteq Tasks
    /\ DOMAIN work = Workers /\ \A w \in Workers : IsWork(work[w])
    /\ DOMAIN receipts = Versions /\ \A v \in Versions : receipts[v] # None => v <= Len(reports)
    /\ DOMAIN disk = Names /\ DOMAIN objects = Names

(* A report that succeeded verifies, at once and ever after: its receipt is of *)
(* the very files a reader is given, whatever attempts went before it and      *)
(* whatever they left in the store.                                            *)
SealedReportsVerify == \A v \in Succeeded : receipts[v] # None /\ ReceiptVerifies(v)

(* The seal is of what was printed: row and receipt carry the hash of the      *)
(* snapshot the pages are laid out from, and a leaf for every file they list,  *)
(* though rulings and uploads go on while the report is made. The pages show   *)
(* every ruling that was hashed; one recorded between the snapshot and the     *)
(* queries they make after it is shown and not hashed.                         *)
SealDescribesPrint ==
    \A v \in Succeeded :
        LET pdf == Stored(Pdf(v))
        IN  /\ receipts[v].snapshot = pdf.snapshot
            /\ reports[v].snapshot = receipts[v].snapshot
            /\ pdf.snapshot <= pdf.shown
            /\ \A f \in pdf.files : Leaf(f) \in Listed(receipts[v].leaves)

(* Together, and the tables are well formed: what a sealed report is verified   *)
(* against is what was printed.                                                *)
SealsHold == TypeOK /\ SealedReportsVerify /\ SealDescribesPrint

(* A file is proved to be in a report's set exactly when it was in the case at *)
(* the sealing, whatever has been uploaded since, and the proof holds.         *)
ProofsTellMembership ==
    \A v \in Succeeded, f \in Listed(evidence) :
        LET told == InclusionProof(v, f)
        IN  /\ told.available <=> Leaf(f) \in Listed(receipts[v].leaves)
            /\ told.available => told.verified

(* A report that succeeded is never taken back or sealed anew: no attempt that *)
(* comes late changes its state or its receipt.                                *)
SuccessIsFinal ==
    [][\A v \in Succeeded : reports'[v] = reports[v] /\ receipts'[v] = receipts[v]]_reportVars

(* Every report that was accepted ends as succeeded or failed, unless its task *)
(* was refused by the broker or its worker died.                               *)
EveryReportSettles ==
    \A v \in Versions : v <= Len(reports) ~>
        \/ v \in lost
        \/ /\ v \in 1..Len(reports)
           /\ reports[v].status \in {"succeeded", "failed"}
           /\ \A t \in queue : t.version # v

===============================================================================
