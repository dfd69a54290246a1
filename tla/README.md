# DRISHYAM: formal models, checks and proofs

DRISHYAM is a case-work application: investigators upload evidence files, workers extract
events from them, local and remote models read them a second time, rules raise leads,
reviewers confirm or correct what was read, and reports are sealed and published. This
directory holds TLA+ models of its backend (`src/backend/app`, its migrations and one of its
scripts), the TLC configurations that check them on small instances, and proofs that TLAPS
checks for every size. Paths below are relative to `src/backend/app` unless they begin with
`src/`.

| module | what it models | checked by |
|---|---|---|
| `AuditChain` | the hash-chained audit log: writer, verifier, verification endpoint | `audit_chain`, `audit_untouched`; proofs in `AuditChainProofs` |
| `EvidencePipeline` | requeue, the Celery task, the two transactions of `process_evidence`, the model pass's retries, the failure handler | `pipeline_overlap`, `pipeline_alone`, `pipeline_settles`; proofs in `EvidencePipelineProofs` |
| `GroundedProjection` | grounded records, rulings on them, the projection onto timeline and transaction trail | `projection_serial`, `projection_overlap`, `projection_ruling`; proofs in `GroundedProjectionProofs` |
| `MerkleTree` | root, proof and verification over a case's file hashes | `custody`; proofs in `CustodyProofs` |
| `ReportSealing` | a report from request to receipt, with versions, retries and failures | `custody`; proofs in `CustodyProofs` |
| `SharedLedger`, `NoticeBoard` | the chained store districts publish to; the board it implements | `custody`; proofs in `CustodyProofs` |
| `EntityGraph` | nodes, sightings and edges under overlapping runs, reviews and the merge script | `case_network`; proofs in `NetworkProofs` |
| `NetworkRules` | which node a value belongs to, which edges a record states | `case_network`; used by `EntityGraph`; proofs in `ReadingProofs` |
| `RecordRelations` | correlation of records, links and rulings on them | `case_network`; proofs in `NetworkProofs` |
| `ModelRouter` | which model sees a unit, how answers are judged, stored and reused | `case_network`, `known_answers`; proofs in `NetworkProofs` |
| `SchemaHistory` | upgrades, downgrades and starts over the revisions of the database | `case_network`; proofs in `NetworkProofs` |
| `Migrations` | the 23 revisions and the schema the models declare | data of `SchemaHistory` |
| `Ordering` | `sorted` and ORDER BY: the rows of a set in an order | used by the next four |
| `NetworkViews` | graph views, path and profile computed from stored edges | `case_network`; proofs in `ReadingProofs` |
| `NetworkAlerts`, `TrailAlerts` | the ten network rules; the five rules over transfers, identifiers and messages | `case_network`; proofs in `ReadingProofs` |
| `TextReading` | what patterns and extractors read out of pages, rows, chats and sentences | `case_network`; proofs in `TextProofs` |
| `CaseAnswers` | links between cases, registered cases, the shown timeline, numbered findings, drafts of requests | `case_network`; proofs in `ReadingProofs` |
| `CaseReadings` | the questions put to the rules over stored rows and over texts | `case_network`; proofs in `ReadingProofs` |
| `AccountSessions` | accounts, one-time codes, sessions, revocation, settings | `office`; proofs in `OfficeProofs` |
| `MailSender` | the stored authorization of the sending account | `office`; proofs in `OfficeProofs` |
| `EvidenceIntake` | uploads, duplicate check, object store, queues | `office`; proofs in `OfficeProofs` |
| `CaseDesk` | members, notes, claims, rulings, incident window, what is new | `office`; proofs in `OfficeProofs` |

`MCAuditChain`, `MCEvidencePipeline`, `MCGroundedProjection`, `MCCustody`, `MCNetwork` and
`MCOffice` give the constants their values. The last three hold several modules that share
no state: the first step of a behaviour is to be of one *scene*, a component with its
bounds, and the others stay as they start. So the components of one such run are checked one
beside the other, not against each other.

To repeat a run: `tlc -config Custody.cfg MCCustody.tla`. To repeat the proofs: `tlapm
EvidencePipelineProofs.tla`. `PROJECT.json` lists, for every definition, the source lines it
stands for, for every property a changed definition that breaks it, and every hazard with
its line. Definitions whose comment begins with *Mutant* are those changed forms; nothing
uses them.

## 1. The system and its parts

One PostgreSQL database at READ COMMITTED, one Redis broker, one private object store.
FastAPI handlers and Celery workers are separate processes, each with a SQLAlchemy session
configured in `core/db.py:13`: `autoflush=False` (a query does not see what the session has
added), `expire_on_commit=False` (an object loaded once keeps its values until a rollback).
Most of the hard behaviour of the system follows from those settings and from the lack of
any lock other than PostgreSQL's own row locks and unique indexes.

| component | state it keeps | operations | hard behaviour | correct when | model |
|---|---|---|---|---|---|
| Audit chain (`services/audit.py`, `services/integrity.py`, `api/review.py:219`) | `audit_logs` | `audit`, `verify_chain`, the endpoint that audits its own verdict | writers overlap; several entries in one transaction; a verdict appended to the chain it is about | a chain nobody touched verifies; a touched one does not, and the right row is blamed | `AuditChain` |
| Evidence intake (`api/evidence.py`, `services/storage.py`) | `evidence_files`, the object store | upload, duplicate check, requeue, reanalysis | object written before the row; two uploads of one content; several processes; broker refuses after the commit | no row without object, one row per content, what was accepted is taken | `EvidenceIntake` |
| Evidence pipeline (`services/pipeline.py`, `workers/`) | `processing_runs`, `extracted_text`, `events`, `transactions`, status | parse, extract, rules, model pass, failure handler, Celery retry | two tasks on one file; a failure between two commits; a worker that dies; a status written from a stale row | events stored once; what was committed survives; every file reaches an end | `EvidencePipeline` |
| Transaction and evidence rules (`alerts/rules.py`) | `alerts` | `evaluate_alerts` within the pipeline's second transaction | look-up and insertion of a lead are two statements; a rule resting on two files; order of equal times | each supported lead stored once, none missed, what it says is in the rows | `TrailAlerts`, `EvidencePipeline` |
| Grounded pipeline (`services/grounded_pipeline.py`) | `raw_extraction_artifacts`, `normalized_records`, `model_inference_runs`, `record_relations`, stages | extract, route, upsert, relate, project | minutes between reading a record's review state and committing | rulings survive reprocessing; raw layers durable before any model | `GroundedProjection`, `ModelRouter`, `RecordRelations` |
| Projection (`services/grounded_projection.py`) | `events`, `transactions`, entity links | `purge_orphan_projections`, `project_record`, `project_case` | every run projects the whole case; purge compares early and late reads | one event per record; surfaces say what records say; ruled rows unmoved | `GroundedProjection` |
| Record and case review (`services/record_review.py`, `services/review.py`) | `record_reviews`, `review_decisions`, review columns | `review_record`, `review_relation`, `apply_review` | a ruling during a run; two rulings at once | the history explains the record, the link, the alert | `GroundedProjection`, `RecordRelations`, `CaseDesk` |
| Network rules (`alerts/network_rules.py`, `services/temporal.py`) | `alerts` | ten rules, `_raise` | rows rejected by a reviewer; equal and boundary times; a rule run again over more rows | leads are true of the rows, told once | `NetworkAlerts` |
| Entity resolution, relationships (`services/entity_resolution.py`, `services/relationship_builder.py`) | `entities`, `entity_occurrences`, `entity_relations` | get-or-create, occurrences, edges | entities have no unique index; the case is walked again after every file | one node per identity, edges between resolved nodes, nothing added by a second walk | `NetworkRules`, `EntityGraph`, `NetworkViews` |
| Correlation, confidence, grounding, temporal (`evidence_intelligence/`) | `record_relations` | pairs of records, scores | boundaries, symmetric pairs, several runs | no link missed, each stored once | `RecordRelations`, `ModelRouter` |
| Model router, providers (`evidence_intelligence/providers/`) | answers by cache key, the turn at the local model | `normalize`, `_attempt`, escalation, trips, retries | disagreement, errors, answers on record, waiting for a turn | every unit has a record; conflicts marked, never resolved; nobody waits for a turn not in use | `ModelRouter` |
| Parsers, deterministic extraction (`parsers/`, `extraction/`, `evidence_intelligence/extraction.py`, `patterns.py`) | none | text and image processing | order of rules, dates and dividers, wrapped lines | a balance is never money that moved; a name has the role that was stated | `TextReading` (from text on) |
| Reports (`services/reporting.py`) | `reports`, files, store | create, render, `_finalise` | version numbers; publication before the commit | a version names one sealed document | `ReportSealing`, `CaseAnswers` |
| Trustify, Merkle (`services/trustify.py`, `services/merkle.py`) | receipts, manifests | commit, prove, verify | odd levels, files uploaded meanwhile | a proof verifies exactly for its leaf | `MerkleTree`, `ReportSealing` |
| Shared ledger (`services/ledger.py`) | `ledger_entries` | publish, withdraw, verify, match | two publishers; a withdrawal from a hash chain | one row per identifier; all of a case's or none; a withdrawal from under a later row is told | `SharedLedger` |
| Accounts and sessions (`api/auth.py`, `api/account.py`, `core/security.py`) | users, codes, sessions, revoked tokens, settings | sign-up, codes, log-in, log-out | simultaneous requests; two records of one revocation | attempts bounded, one live code, revoked stays revoked | `AccountSessions` |
| Email delivery (`services/gmail_api.py`, `api/gmail_oauth.py`) | a token file | authorize, read | a callback broken off between opening and renaming | once authorized, always able to send | `MailSender` |
| Case access, notes, claims, contradictions, visits (`api/cases.py`, `api/notes.py`, `api/claims.py`, `services/whats_new.py`) | memberships, dated rows, window, marks | write, withdraw, rule, digest, mark seen | a row committed between a digest and the mark | nothing goes unseen; histories are chains | `CaseDesk` |
| Prior records, cross-case search (`services/prior_record.py`, `services/cross_case.py`) | none | look-ups over the reader's cases and a register | rejected rows, closed cases, twin nodes | links are mutual; counts add up | `CaseAnswers` |
| Assistant, requisition, preview, export, graph, source view | none | read-side views | views computed from one set of rows differ | views agree with rows and with each other | `NetworkViews`, `CaseAnswers` (graph, timeline, requisition) |
| Database schema, migrations (`models/`, `src/backend/migrations/`) | tables, keys, types | upgrade, downgrade, start | types that survive a downgrade | an API that answers finds the declared schema | `SchemaHistory`, `Migrations` |
| Maintenance scripts (`src/backend/scripts/`) | - | merging split entities; benchmarks, demonstrations | edges and rulings of the node that goes | a merge loses no fact | `EntityGraph` (merge) |
| Configuration, web client | - | - | - | - | - |

How they interact: an upload commits a row and then calls the broker; a worker takes the
task, calls the parser, commits, runs the event extraction and the rules in a second
transaction, commits, then runs the grounded pipeline in the same session, which commits its
raw layers, its records and relations, and its projection, each separately; the projection
runs over all records of the case and ends with entity resolution, relationships and network
rules in the same transaction. Reviewers write to the same rows from their own sessions at
any time. Each of these writes audit entries. Reports read everything that is committed, and
seal the evidence hashes; what other districts are told goes through the shared ledger only.

## 2. The plan

Modelled and checked, in this order: `AuditChain`, `EvidencePipeline` (both with proofs),
`GroundedProjection`, `MerkleTree`, `ReportSealing`, `SharedLedger` with its abstract
specification `NoticeBoard`, `EntityGraph`, `NetworkRules`, `RecordRelations`,
`ModelRouter`, `AccountSessions`, `MailSender`, `EvidenceIntake`, `CaseDesk`,
`SchemaHistory`, and the modules of pure rules (`NetworkViews`, `NetworkAlerts`,
`TextReading`, `TrailAlerts`, `CaseAnswers`), asked in `CaseReadings`. One run per question;
runs of components that share no state are one run with a scene for each.

Proved after it was checked: type correctness and the safety properties of `AuditChain`,
`EvidencePipeline`, `GroundedProjection`, `MerkleTree`, `ReportSealing`, `SharedLedger`,
`EntityGraph`, `RecordRelations`, `ModelRouter`, `SchemaHistory`, the four modules of the
office and all modules of pure rules (section 9). What is left to TLC is liveness (section
10).

## 3. AuditChain

**State.** `log` is the committed content of `audit_logs`; `pending[s]` is what session `s`
has added and not committed (`db.new`, and what it has flushed); `doing[s]` is the `audit()`
call or verification in progress; `clock` is the last reading of the wall clock. The rest
are ghosts that no action's guard reads: `written` (every row as it was committed), `raced`
(cases on which two sessions were between a clock reading and a commit at once), `tampered`
and `truncated` (what was changed from outside).

**Actions.** `audit()` reads the clock (`CallAudit`), then looks for the newest row among
its own pending ones and the stored ones and links to it (`Link`); the row becomes visible
at `Commit`, or is dropped at `Rollback`. `VerifyChain` reads the chain and `AuditVerdict`
audits the verdict as an entry of the same chain. `Alter` and `Lose` are not the program's:
they are what the chain is there to notice.

**Abstractions.** The nine hashed columns are the case, one `content` value, the
predecessor's hash and the time; SHA-256 is a wrapper around its payload, i.e. taken to be
collision-free. Two clock readings never coincide. `Legacy` cases hold a row from before the
chain existed. The verifier's order (`created_at`) is the model's.

**Runs.** `audit_chain` (two sessions, two cases of which one has a row from before the
chain, rows altered and lost while the sessions write, three clock readings, 908 024 states
up to the exchange of sessions): a case written serially verifies; the verifier blames
exactly the altered rows; *intact* leaves no gap between two rows; no commit makes a broken
chain pass. `audit_untouched`: two requests on one case and no outside change produce a
chain the verifier reports as broken, which
`src/backend/tests/test_chain_verification.py:253` calls a verifier crying wolf.

**Bounds.** Two sessions are all a race of predecessor look-ups needs, since every entry has
one predecessor. Three readings let a late row land between two others. Every break the
verifier can report is between two neighbours, so longer chains repeat the same pairs; and
for the serial case the theorem below has no bound.

**Observed beyond the runs.** If the newest rows are lost the verifier still says *intact*:
nothing follows them. The statement of `services/integrity.py:186-187` ("no entry has been
altered, removed or reordered") claims more; `IntactMeansGapless` states what does hold (the
ghost `truncated` marks the exception).

## 4. EvidencePipeline

**State.** `row`, `runs`, `text`, `events`, `artifacts`, `alerts` are the tables; `posting`
the tasks an endpoint has committed to and not yet handed to the broker; `queue[f][r]` the
tasks in Redis with `r` retries behind them; `work[w]` what worker `w` is doing, with the
status its session loaded (`seen`) and what it has flushed and not committed (`saw = FALSE`
on an inserted run, `batch`, `leads`).

**Actions.** One per point at which another session can be seen: a read, an INSERT that
meets a unique index, a commit.

| code | actions |
|---|---|
| `upload_evidence`, `requeue_evidence` | `Upload`, `Requeue`, then `Post` or `BrokerDown` |
| task start, `_run(..., "parse")` | `Take`, `InsertParse` |
| `_records` and the first commit | `CommitParse`, `CommitReplay`, `ParseFails` |
| `_events`, `_run(..., "extract")` | `FindExtract`, `InsertExtract`, `ExtractFails` |
| `evaluate_alerts`, the second commit | `Evaluate`, `CommitEvents` |
| `_run_grounded` | `GroundedSucceeds`, `GroundedFails` |
| the final status | `Finish` |
| the exception handler, Celery's `autoretry_for=(OSError,)` | `Raise` (within the failing action), `Settle` |
| the process dies | `Crash` |

Waiting is a guard: an INSERT of a key another session has inserted and not committed waits
(`FreeToInsert`), an UPDATE of a row another session has updated waits (`RowLocked`).
`Assigned` is the ORM's rule that a column equal to its loaded value is not written, which
is how a stale status can survive a final commit, and how the failure handler can leave out
a reason: it writes status and reason as two such columns (`Failed`), compared with what it
loaded (`seen`, `told`). The ghost `cleared` holds the files that were requeued while a
failure handler was at work on them.

**Abstractions.** A file has at least one record, and all are of one type; the events of one
run are one batch, named by that type. The nodes the run mints are `EntityGraph`'s, and a
lead is what its `Basis` says: the sets of files whose typed events support it, none of them
empty, since every rule names rows it found (what each computes from rows is `TrailAlerts`).
A requeue reads the row and commits what it changes in one step. Stages other than *parse*
and *extract* live and die with *extract*. Of the statuses only those a commit writes
appear.

**Fairness.** Weak fairness on each worker's steps and on `Post`: a worker that can proceed
does, an endpoint that has committed calls the broker. Nothing is assumed of uploads and
requeues. Each wait is for another session's transaction, which in turn ends by one of that
worker's steps; PostgreSQL wakes the waiter. `EveryFileSettles` is checked without crashes
and with a working broker because the code does nothing for a file whose worker died or
whose task was refused (the task is acknowledged as it starts): such a file stays as it is
until somebody requeues it.

**Runs.** `pipeline_overlap` (one file, two workers, two requeues, every fault and crash,
two wordings of a failure, 406 565 states): `EventsOnce`, `ExtractionDurable`,
`StatusIsEarned`. `pipeline_alone` (a statement and a screenshot, one worker, two requeues,
every fault, 1 959 085 states): no lead is missed and a picture stays one document.
`pipeline_settles` (one file, two workers, a requeue, OS, extraction, model and projection
failures, 52 437 states): every file ends up completed or failed.

**Bounds.** Two workers overlap on a file in every way two transactions can; a third would
wait behind the same index or row. Two requeues are the least that lets a third task meet
two running ones' leftovers. `MaxRetries` and `GroundedMaxAttempts` are the code's own 2 and
3. Two files suffice for leads that rest on one of several or on all of them.

**Observed beyond the runs.** A file that fails as it failed before, and is requeued while
the handler is at work, is left failed without a reason: the requeue clears the reason the
handler has loaded, and the handler's, being equal to it, is not written
(`services/pipeline.py:266-272`). `StatusIsEarned` names that file as its exception. Two
healthy files in work at once can raise one lead; both look for it, both insert it, and one
of the files fails on the unique index. The events of an e-mail that are made by a second
attempt are chat messages, because the replay of stored text restores the type of pictures
only. With two files in work a lead that needs both can be missed: each run's rules see only
committed events of the other (`LeadsComplete` is therefore stated of one worker).
`src/Readme.md:211` speaks of thirteen states, each persisted; `building_graph` and
`evaluating_alerts` are assigned and overwritten before any commit, and `awaiting_review` is
never assigned.

## 5. GroundedProjection

**State.** `record` is each file's normalized record (review state and reading), `history`
the rulings on it, `desk[v]` the ruling a reviewer's session is about to commit, with the
record as it was loaded; the ghost `crossed` holds the records on which two rulings were
open at once. `timeline` and `trail` are the events and transactions in order of insertion
with a flag for deleted rows, `leads` the network alerts; `work[w]` holds the record a
session loaded and its staged draft, the identifiers its purge has read, and what its
projection has flushed.

**Actions.** `Start` (with the file's deterministic event, and a ledger's transaction,
already committed by the pipeline), `Upsert` (reads the review state as soon as the models
have answered), `CommitRecord` (when all units are read), `RunFails`, `PurgeReads` and
`Purge` (two queries apart), `Project`, `CommitProjection`, `ProjectionFails`, `Return`; and
the reviewers' `BeginReview` and `CommitReview` (`review_record` loads the record without a
lock, and commits the columns that differ from what it loaded: `Ruled`), `ReviewEvent` and
`ReviewTransaction`, each one transaction.

**Abstractions.** One record per file. A reading is a sender, which a reviewer may edit, and
whether the figure is a transfer or a balance; the amount never varies, so the match of
amounts in `_enrich_sibling_transactions` always succeeds. `Project` reads records and rows
in one step: in the code the reads are queries milliseconds apart, while the gaps modelled
as steps of their own are minutes long or decide a deletion. Lock cycles end as PostgreSQL
ends them, by failing one session (`ProjectionFails`). Every confidence band is in
`PROJECTABLE_BANDS`, so `project_record`'s first test never applies, although the comment
above it (`services/grounded_projection.py:38-39`) says unvalidated records stay out. No
code deletes a normalized record, so what the purge finds without a record or event is what
another session has just committed.

**Runs.** `projection_serial` (two files of which one is a ledger, three runs one after
another, two rulings between them, failures anywhere, three readings, 537 838 states):
rulings stand, one event per record, surfaces match records, ledger transfers kept, ruled
rows unmoved. `projection_overlap` (two runs at once, two rulings at any time, also open at
once, 2 032 417 states): a record's state is that of its last ruling, unless two were open
on it at once; a record on the timeline stays on it. `projection_ruling`: a correction made
while the models read is overwritten by the run's commit, though
`services/grounded_pipeline.py:162` says reprocessing must not undo it.

**Bounds.** Two runs at once are what a purge needs to meet another's commit; three runs in
sequence let a transfer become a balance and a transfer again; two rulings let a second
correct the first. No property mentions more than two rulings in a row or more than one
other session.

**Observed beyond the runs.** Of two rulings open on one record at once, one that leaves the
state it has loaded writes none: after a rejection that commits in between, a confirmation
of a confirmed record is the last in the history, and the record stays rejected. A ledger's
transaction that another session commits between the purge's two queries is deleted
(`LedgerTransfersKept` is stated of runs that take turns). Two projections at once can give
one record two events, against `services/grounded_projection.py:9-10`, when the record names
no identity that the unique keys of occurrences and edges would make the second insert fail
on; `OneEventPerRecord` too is stated of runs that take turns. A lead stored by another
session takes the whole projection with it at the commit, though
`services/grounded_projection.py:344-345` says a failure of the rules must not: the handler
there surrounds the rules, not the commit that inserts their leads.

## 6. Custody: reports, receipts, the shared ledger

**`MerkleTree`** translates `_levels`, `root`, `proof` and `verify`. SHA-256 is free of
collisions: the hash of a pair is the pair, and a leaf (itself the hash of a file) is no
pair. `CommitmentIsExact` - every leaf is proved, another list of leaves has another root,
no path out of another list proves a stranger - is asked of every pair of lists up to eight
leaves that differ by length, start and order (`case_network`, scene *reading*); eight
leaves have every pattern of carried nodes on three levels. It is proved for lists of any
length (`CommitmentsAreExact`, section 9).

**`ReportSealing`.** *State*: `reports`, `receipts` (tables), `queue`, `work` (a worker's
task with what its session loaded), `disk` (rendered files), `objects` (the store),
`evidence` and `reviews` (what a report shows), `lost` (ghost: versions whose task was
refused or died). *Actions*: a request reads the highest version and inserts the next
(`BeginCreate`, `Answer` = `CommitCreate` then `Post`); a worker's task (`Generate`) begins,
takes the snapshot of the case and its hash (`TakeSnapshot`), lays out the pages from it and
from what it queries again (`LayOut`), publishes the PDF and the manifest, commits row and
receipt, or fails at any of these points, by a full disk with Celery's retry (`DiskFails`)
or for good (`Fails`, `Failed`); `Crash`; and meanwhile `AddFile` and `Review`. What is
printed is abstracted to the files it lists and the review state it shows.

- `SealedReportsVerify`: a report that succeeded verifies at once and ever after, what
  earlier attempts left in the store notwithstanding. It rests on the store taking a name
  once (`publish_private_file`): an attempt that meets what an earlier one published fails,
  rather than seal another document under that name.
- `SealDescribesPrint` (with the one before and the types: `SealsHold`): row and receipt
  carry the snapshot the pages were laid out from and cover every file they list, though
  reviews and uploads go on; the pages show every ruling the hash was taken over.
- `ProofsTellMembership`: a file has a proof exactly if it was in the case at sealing.
- `SuccessIsFinal`, `EveryReportSettles` (unless the task was refused or its worker died).
  Fairness: a worker goes on with its task and takes the next (`Generate`), the server
  finishes the requests it began (`Answer`); nothing is assumed of clients.

**`SharedLedger`.** *State*: committed `rows`; `session[p]`, what a request does, for which
case, with which identities, which of them are to do, and the rows it is going to add or to
delete; `sealed` (the payload each hash was taken over), `holds` (a case's entities), the
publication `gate`; the ghosts `overlapped` (two publications at once), `withdrawn` (hashes
of withdrawn rows) and a request's `overtaken` (a withdrawal of its case was committed since
it began). *Actions*: `FindEntity`; `BeginPublish`, one `SkipIdentity` or `AddIdentity` per
identifier (each with its own look for the head of the chain), `CommitPublish`, which
`uq_ledger_digest_case` refuses if another request has committed one of its identifiers for
the case (`Refused`); `BeginWithdraw` and `CommitWithdraw`, which deletes the rows it read;
`FailRequest`.

- `OneRowPerIdentifier`, however publications overlap.
- `WithdrawalsTell`: a withdrawal that leaves a row after one it took reads as *broken* as
  long as that row stands, whatever is published or withdrawn meanwhile.
- `NothingElseTells`: while publications come one at a time nothing else reads as broken.
  The three, with the types, are `LedgerIsSound`.
- `ImplementsNoticeBoard`: `NoticeBoard` says what districts are promised, without chain and
  hashes. Its `board` is the set of (digest, case) pairs on stored rows, `known` what a case
  holds, `asked` what a request asked for. A request that posts puts up *all* the case held
  when it was asked (`Post`), one that takes back takes all that was up (`TakeBack`), or it
  leaves no trace (`GiveUp`). A request overtaken by a withdrawal of its own case may find
  part of its notices gone, and no other may. It holds of requests at once, too.

**Run `custody`** (1 032 302 states), scenes: *two reports* (two requests at once, one
retry, no rulings, so that version numbers, files and attempts meet), *one report* (two
rulings, two retries, three renderings, so that a retry meets a changed case), *ledger* (two
cases of which one holds two spellings of an identifier, two publishers, three rows). Two
evidence files at first and one that may be added. Retries are counted as the code's
`max_retries` (2) where only one report is made. Three rows are a pair and a row between or
after it, which is all a break of the chain needs.

**Observed beyond the runs.** When the newest rows of the ledger are withdrawn, a shorter
chain is left that verifies, although the docstring of `withdraw_case`
(`services/ledger.py:266-272`) expects every withdrawal to show. Two publications at once
follow one head, and the ledger reads as broken though nothing was withdrawn. A ruling
committed after a report's snapshot and before the queries for its pages
(`services/reporting.py:2365-2370`, `2575-2594`) is printed and not hashed. The report
export `findings` prints the latest report's stored findings whatever redaction profile was
asked for. `_append_verification` prints the Merkle root only if a receipt exists while the
report is rendered, but the receipt is made after the rendering. `create_receipt` leaves
`review_snapshot_hash` alone when a receipt exists already.

## 7. The network of a case

**`EntityGraph`** and **`NetworkRules`.** `NetworkRules` holds what is a function of a value
or of a record: `canonicalize`, `canonicalize_indicator`, the type an account or a party
gets, `MentionsOf` a record, `EdgesOf` a record. `EntityGraph` has the tables (`nodes`,
`sightings`, `relations`) and, for every run, its place in the walk over records and its own
flushed and queued rows. *Actions*: `StartRun` (`resolve_case` reads the case's records);
`Mint` or `NeedsNode` (get-or-create), `Observe` (a sighting), `ReadAgain`
(`build_relations_for_case` reads the records anew: a file committed in between is among
them), `PickEdge`, `AddEdge` (one edge), `CommitRun`, `Fail`; `StartExtract` and `Link` for
the pipeline's own minting; `StoreRecords`; a reviewer's `ReviewEdge`; the script's `Merge`.
`Waits`, `Taken` and `Clashes` are PostgreSQL's behaviour at the unique keys. The ghost
`walked` holds the files whose mentions a committed run observed. `NetworkIsExact` has three
parts. `NetworkIsTold`, however runs overlap and fail: a sighting is of a field that
mentions the identity, an edge says what its file states (`EdgesIn`), and of a walked file
every mention has its sighting and every edge between two identities is stored.
`SerialNetworkIsExact`, for runs in turn: one node per identity, one row per statement, and
a walked file's edges between nodes seen in it. `NoRunClashesWithItself`, however they
overlap. A file that arrived between a run's two reads is not walked by it: its edges may be
stored before its sightings, which the run of that file brings. `MergeKeepsFacts`: a merge
leaves one node per identity, every sighting, every edge but a node's with itself and every
ruling.

**`RecordRelations`.** Runs store their records (`Store`), compare every two records of the
case (`Correlate`) and store links under a unique key (`CommitLinks`); reviewers edit a
reference and rule on links (`BeginRuling`, `CommitRuling`). The ghost `unread` is what was
written since a stored correlation read it, `fresh[w]` what nobody wrote since `w`'s run
read it: a record that another run stores again between the two counts as unread, and the
other run, which stores before it reads, finds its links. `LinksAreExact`: between records
that stored correlations have read no link is missing; one row per finding, a contradiction
only where the two records agree on naming one transaction; a link stands as its last ruling
left it.

**`ModelRouter`.** *State*: `work[i]` (the run of file `i`: unit, leg, attempts, providers
that tripped), `turn` (who holds the local model), `log` (stored attempts) and `records`.
*Actions*: `Start`, `Ask` (mode, switches, answer on record, tripped), `TakeTurn`, `Answer`,
`FailCall` with its retries, `Settle` (reconcile, merge, ground, score, classify), `Commit`
(all units at once), `Review`, `Crash`. An answer is reduced to what grounding and
reconciliation look at; scores keep their thresholds. `RouterIsSound`: what the parser read
stands; a disagreement between models or with the parser is kept as a conflict and goes to a
reviewer; what goes unreviewed was found in the source; a provider that is down costs a file
one failure; nobody waits for a turn that is not in use. `KnownAnswersCount` (run
`known_answers`) fails: an answer on record is not grounded again, so the reprocessed file
keeps only the parser's reading, although `services/grounded_pipeline.py:310-312` speaks of
saving the wait.

**`SchemaHistory`.** A schema is the number of columns of each table, the unique keys and
the labels of enumeration types. What the revisions do is data (`Migrations`): the 23 of
`migrations/versions/` and what `models/entities.py` declares. *Actions*: `Upgrade` and
`Downgrade` to a version, `StartApi` and `StopApi`; `Walked` runs one command in one
transaction, refused where one of its revisions is. `SchemaIsDeclared`: once a command was
given or the API started, an API that answers finds the declared schema; a version tells
tables, columns and keys however it was reached; the head can be reached from everywhere but
below the first revision after a downgrade (the types of that revision survive, and its
upgrade creates them without asking). That the revisions fit - each finds what it needs on
the database that the ones before it leave, and the last leaves what the models declare - is
an assumption (`RevisionsFit`, `LastIsDeclared`) that TLC evaluates of the 23.

**Rules over rows and texts.** `NetworkViews` (collapsed edges, hubs, paths, profile),
`NetworkAlerts` (ten rules), `TrailAlerts` (five rules), `CaseAnswers` (cross-case links,
the register, the shown timeline, numbered findings, drafts of requests) and `TextReading`
(figures and their roles, dates and dividers, rows and headers, chats, names) have no state.
`CaseReadings` puts questions to them, and in the scene *reading* a behaviour is one
question. `AnswersAgree` says of every question that the answer is true of the rows or the
text and agrees with what else is computed from them:

| rules | what is asked of every input |
|---|---|
| `NetworkRules` | an address, a handle or a name is one node in a party's column and in its own, but for ten digits and more, which make a party a phone; a node's value read again is that node; a record states an edge once, and states the same after the edge is stored |
| `NetworkViews` | views agree on which edges there are and what supports them |
| `NetworkAlerts` | a contact lead rests on dated contacts nobody rejected, and is raised exactly when the rule's window is met; a second evaluation tells nothing twice; the sequence stored with a lead tells its rows, each once and in their order |
| `TrailAlerts` | in whatever order files come in and equal times are read, the leads that stand are true of the trail and none is missing; a second look adds nothing but, among equal times, another close pair |
| `CaseAnswers` | a link that a case shows is shown by the other, too, unless that one's list is full; links rest on rows nobody rejected, and only a full list leaves one out, never a reviewed one for an unreviewed one; counts of a register add up; a file with events has one on the timeline; a load-bearing finding rests on an observation nobody rejected, such findings come first, and what they name is asked about first; a draft counts the files by their names and lists equal labels in the order they were met |
| `TextReading` | what a row counts as money that moved is a figure of another column than its balance's; a page says the same block by block and whole, and asserts no day it does not print or takes back; a chat loses no wording and puts none in another's mouth; a name has the strongest stated role, and a text links what its sentences link |

The inputs are small on purpose and chosen at the rules' boundaries (nine and ten digits;
times at and around each window; three and four rows; a rejected row beside a machine's).
They are not all inputs: those of every size are what `TextProofs` and `ReadingProofs` are
about (section 9).

`CaseReadings` names what it takes for granted of the inputs. Of rows: what the tables
guarantee (a number of its own, times that are numbers, no relation of a node with itself).
Of texts: that what a pattern matches is not empty, that a table's header is words, and that
no header which `_map_columns` takes for an amount speaks of a balance. The last two hold of
the aliases in `evidence_intelligence/extraction.py:801-828` as they are, not of every
header that somebody might write: a column headed *amount (balance)* would be read as money
that moved.

**Run `case_network`** (1 067 969 states up to the exchange of the two runs and of the two
reviewers), scenes: *at once* (two runs, two files, three nodes), *in turn* (two runs, one
after the other, an older node, rejections, the merge script, four nodes), *two files* (of
equal content, one of them degraded, two runs) and *two units* (one run) with one retry,
*links* (three records of two files, two workers, two reviewers, three runs, an edit, two
rulings), *schema* (three commands), *reading* (some 21 000 questions). Two runs suffice for
every clash at a unique key; three records for a link each way and one within a file; two
files of one content for an answer on record.

**Observed beyond the runs.** Runs at once mint two nodes for one identity and one edge
between each pair of twins. `src/backend/scripts/merge_split_entities.py` leaves relations
that have become duplicates under different keys, and drops the status of the node that
goes. `relation_summary` counts rejected observations as support and calls an entry rejected
when one row is; `graph/analytics.py` keeps the others. A handle, an address or an account
number with ten digits or more (`9876543210@ybl`) is a phone in a sender column and a node
of its own kind in `account_identifiers`: `services/entity_resolution.py:144` asks for the
digits before the `@`, although the comment above it (138-143) is about the handle in a
receiver column that must not be a second node. Profiles, requisition drafts and numbered
findings include rejected relations. A rejected link comes back as a new row when another
identifier is shared; two rulings at once on one link may leave its status and its history
disagreeing. `_persist_attempts` never replaces a failed attempt of the same key.
RECURRING_IDENTIFIER counts three node rows of one value, though the resolver keeps one row
per identity, so for files processed in turn it does not fire, against `src/Readme.md:457`.
Of transfers with equal times the query's order decides which pair a lead names.
Transactions a reviewer rejected still raise leads. With twin nodes a cross-case link's
confidence depends on the order of a query, and of two cases one whose list is full
(`services/cross_case.py:181`) may not show the link the other shows. A registered case with
an unknown disposal is in the total and in no count. A statement with separate credit and
debit columns has one of them read as its amount, and an identifier column's cell replaces
what the sweep of the row found. An enumeration type survives a downgrade to base, after
which the stack's `alembic upgrade head` fails.

## 8. The office: accounts, mail, intake, the desk

**`AccountSessions`.** A request that reads, decides and commits is two steps (`Begin...`,
`Commit...`); `Deliver` is the provider taking or refusing a code, `Time` lets a cooldown
pass or a code expire. `CodesGuardTheAccount` (for requests that take turns about an
account): one code open, spent once, guessed no oftener than allowed. `SessionsAreVerified`:
a session is of an active account whose address was proved, always. `AccountPageIsTrue`: the
list of revoked sessions and the list of refused tokens agree; every setting has the value
last asked for it, also when two requests create the row at once. `CommitSettings` writes
the columns whose value differs from the one loaded, as the ORM does; so a request that was
*passed* on a field (another's commit of that field came after its load) may find the
other's value there: the ghosts `asked`, `passed` and `contested` say what was asked last
and for which fields the exception holds.

**`MailSender`.** A file keeps its contents under whatever name it has: `Truncate`, `Write`,
`Rename`, and `Break` at any of them. `AuthorizationLasts`: once authorized, the sender can
always send (for callbacks that take turns; all use one temporary name).

**`EvidenceIntake`.** `upload_evidence` is a coroutine that gives way only while it reads
the body, so `Upload` takes the event loop at `Store` and returns it with the response;
other processes, threads (`Requeue`, `Reanalyze`) and workers (`Take`) go on. The queue of a
task is `Route`, the queues with a worker are those of `src/backend/docker-compose.yml:49`.
`StoreFails` is a store that raises, with the object written or not
(`services/storage.py:112-122`). `IntakeKeepsEvidence`: a row has its object; a content is
held once, also with several processes; a refused upload leaves no object, unless storing, a
deletion, a commit or a process failed, or another process committed the same content first.
`EvidenceIsTaken`: what was committed is taken by a worker, unless the broker refused it or
the process died. Fairness: the event loop goes on with a coroutine that can run, a worker
keeps taking messages from the queues it consumes.

**`CaseDesk`.** Notes, claims, rulings and arrivals are dated rows, stamped in `BeginWrite`
and committed in `CommitWrite`; `WithdrawNote`; `ReadDigest` and the mark of a visit
(`BeginSeen`, `CommitSeen`); the incident window and its log. The digest of a first visit
shows no rows: it says that all of the case is new (`services/whats_new.py:80-82`).
`NothingGoesUnseen`, however requests overlap: who reads the digest before marking misses no
row - it was there when the first digest said so (`present`), or was in a later one, or is
in the next - and another's visit clears nothing; a row stamped before the mark and
committed after it (`late`) is the exception. `DeskRecordsAgree`, for requests that take
turns: the window's log is a chain that ends in what is declared; an alert's status is its
newest decision's.

**Run `office`** (529 914 states), scenes: *signing in* (one address, one request at a time,
two codes, two guesses), *signed in* (two requests at once, two sessions, two fields, two
writes), *mail* (two callbacks, four files), *one process* (two uploads, two contents), *two
processes* (an upload in each, one content or a body that is refused), *desk* (two users,
two requests, two items, three clock readings). Two requests are what a read and a commit of
another need; two codes and two guesses reach the limits; two uploads meet in the duplicate
check.

**Observed beyond the runs.** Wrong guesses at once count as one, requests for a code at
once leave two open. Of two requests open at once on a setting, one that asks for the value
it has loaded writes nothing: the other's value stays (the answer, read again after the
commit, shows it). A row stamped before a reader's mark and committed after it is in no
digest. With several API processes the object of the upload the index refuses stays, and so
does one whose store raised after writing it. `reanalyze_evidence_task` has no route
(`workers/celery_app.py:18-21`) and goes to a queue no deployed worker consumes. Purges may
leave notes and claims that point at nothing.

## 9. What is proved

All theorems are about the module's specification for every value of the constants that
meets its named assumption (`ConstantsAssumption`, `PipelineAssumption`,
`ProjectionAssumption`, `SealingAssumption`, `LedgerAssumption`, `AccountAssumption`,
`MailAssumption`, `IntakeAssumption`, `DeskAssumption`, `LinksAssumption`,
`RouterAssumption`, `GraphAssumption`; for `CaseReadings` `LimitIsNumber`, `ValuesAreTexts`,
`RecordsHoldTexts`, `RelationsAreRows`, `ContactsAreRows`, `SightingsAreRows`,
`TransfersAreRows`, `LinksAreRows`, `RegisterIsFinite`, `ReadingsAreNoRawText`,
`PagesAreTexts`, `RowsHaveColumns`, `ChatsAreLines`, `LinesAreTokens`, which section 7
describes; for `SchemaHistory` `RevisionsAreTables`, `RevisionsFit`, `LastIsDeclared`, which
TLC evaluates of the 23 revisions). TLC evaluates all of them on every run of the module.
The others say that names taken for *nothing* are no values, that tables of constants have
the shape they are read with, and that bounds are numbers. Five say more: every lead names
rows it was read in (`PipelineAssumption`); a case has finitely many files
(`ProjectionAssumption`, for the number of its events) and finitely many records
(`LinksAssumption`, for the links a commit appends); and a model's confidence in itself is a
percentage or absent, which is what `evidence_intelligence/grounding.py:186-188` keeps of it
(`RouterAssumption`); and a record relates only identities it mentions (`GraphAssumption`):
the fields that `relationship_builder` reads edges from are among those `entity_resolution`
observes, and its sentences are matched against the record's own names. Safety only needs
`[][Next]_vars`; no theorem assumes fairness.

Four hypotheses appear in theorems beside the assumptions. `Alone` (pipeline) and `Sole`
(projection) say there is one worker, `~Overlap` that reviewers wait for runs. They are the
conditions under which the property is checked, too: with two sessions it is false of the
code (sections 4, 5). Where a property is only true of requests that take turns and the
model has a ghost for it (`raced`, `crossed`, `overlapped`, `together`, `concurrent`), or
where it has a named exception (`cleared`, `contested`, `late`), the property says so itself
and the theorem covers every run. `HashesAreValues` (audit chain) says that no hash is the
NULL that a first entry has for its predecessor: in the model a hash is the record it was
taken over and NULL a model value, and that the two differ is a statement about all
payloads, which no assumption that TLC evaluates can make.

An invariant is seldom inductive as a run checks it. For each theorem the invariant that is,
and why:

`AuditChainProofs` (1770 obligations)

- `TypeCorrect`: rows are rows, stamped no later than the last reading.
- `FaultIsExact`: an entry is reported as altered exactly if it is not what was committed.
  The invariant `SealInv` says every stored row agrees with a committed one in all but
  perhaps its content, and what is committed or pending is sealed; two rows that differ in
  content alone have different hashes (`ContentIsHashed`).
- `SerialWritingVerifies`: a case nobody raced on or touched never reads as broken.
  `SerialChainVerifies` alone is not inductive: it says nothing of rows that are still
  pending. `SerialInv` adds that at most one session is auditing the case, that its pending
  rows continue the stored chain and are newer than it, and that its clock reading is newer
  than both; `ChainExtends` is the lemma that a chain grown by such a row is a chain.
- `IntactIsGapless`: an intact verdict misses no entry, whatever was edited or lost.
  `GapInv` is about what was *committed* (the ghost `written`), not about what is stored: it
  is one linked chain, whatever happens to the stored one. A stored chain that verifies
  follows its predecessors' hashes, and hashes name rows, so its neighbours are neighbours
  in the committed chain.
- `CommitsRepairNothing`: `BrokenStaysBroken`, an action property of any number of sessions
  that overlap. A row committed late may lie, by its clock reading, between the two entries
  of a broken link. `StampInv`: a reading that a session holds is used by nobody else's row,
  neither as its own nor, through a hash, as its predecessor's, so the later entry does not
  follow the newcomer either (`LateRowsBreakToo`).

`EvidencePipelineProofs` (1779 obligations)

- `TypeCorrect`: in particular retries and attempts stay within their limits.
- `EventsStoredOnce`: by `EventsInv`, three parts none of which is inductive alone: a file's
  extraction run and its events appear together (`RunMeansEvents`); a worker with an
  uncommitted run has events to add and one that found the run has none
  (`InserterHasBatch`); at most one worker has an uncommitted extraction run of a file
  (`OneInserter`), which is what the unique index and the wait provide.
- `ExtractionStaysDurable`: `NothingLost` shows that no step of anyone removes stored text
  or events (`Grows`); with it, it is enough to look at the worker that steps
  (`DurableFrame`), and `DurableInv` adds the replaying worker to the statement.
- `StatusEarned`: from the two above. Only `Finish` writes *completed*, and the worker that
  does has text and events stored; only `Settle` writes *failed*, and a reason unless it has
  loaded that very reason. `HandlersKnow` says that a reason a handler has loaded is there
  as long as nobody requeues the file under its hands, so the status is never *failed*
  without one but of a file in `cleared`; every other write is harmless (`HarmlessStatus`),
  also when it writes back a status another session has set meanwhile.
- `PicturesStayWhole`: `PicturesInv` adds that what a worker is about to add of a picture is
  one document, whether it parsed the file or read its text back.
- `LeadsAreRaised` (one worker): `LeadsInv` adds that a worker past the rules has queued
  every lead that its own uncommitted events complete.

`GroundedProjectionProofs` (2747 obligations)

- `ProjectionTypeCorrect`, and that what a projection pays has an event (`Basics`).
- `RulingsDecideTheState`: `RuledStates` adds what sessions hold: a draft of a record that
  exists carries the state it was loaded with, so its commit writes none. `SheetsFresh` adds
  what reviewers hold: a ruling open on a record alone has loaded the state that is there,
  so that one which writes no state leaves the right one.
- `RulingsSurviveReprocessing` (reviewers wait): `Explained` adds that the record a staged
  draft was loaded from is the record that is there, and speaks of neighbours in the history
  where the property speaks of a minimum, and what an open ruling has loaded is there.
- `TimelineKeepsRecords`: an action property of any number of sessions. `PurgesReplace` says
  why a purge may delete: what it drops is there, no two sessions drop events of one record,
  and a projection that drops an event of a record inserts or has another.
- `OneEventEachRecord`, `LedgerTransfersStay`, `RuledRowsStay` (one worker): `SoleInv`:
  nothing is orphaned between two of one's own steps, and nobody has ruled on a row a
  session means to change, since it is locked (`EventFree`, `TrailFree`).
- `SurfacesSpeakForRecords` (one worker, reviewers wait): `Planned` says of a projection
  that has flushed what it has decided about each record's event and transactions, on
  records nobody changes meanwhile.

`CustodyProofs` (3880 obligations)

- `CommitmentsAreExact`: what `MerkleTree` promises, for any two lists of files. The levels
  are a tower whose top has one node (`TowerExists`, `LevelsAre`), and the two folds, of
  `proof` upwards and of `verify` along a path, go place by place (`RiseFolds`,
  `ClimbFolds`); so `LeavesProve` can follow a leaf up, through levels where it has a
  sibling and levels where it is carried. Roots are told apart from the top: a node's left
  descents end in a leaf after a number of pairs that gives its height away (`Spine`), so
  equal roots have trees of equal height, and levels that are equal have equal levels below
  (`SameBelow`, `RootsTell`). This uses what the model says of SHA-256: no collision, and no
  leaf is the hash of a pair. The inductions are by a least counterexample (`LeastNumber`),
  as the prover has no induction rule.
- `MembershipIsTold`: `SealInv` (below) says that a receipt's leaves are leaves and its root
  is theirs, so a file among them is proved by its path.

- `SealingTypeCorrect`; `SealedReportsStayVerified` and the action property `SuccessStays`,
  both from `SealInv`. `OneHand` is the heart of it: a version is in one request's, one
  queued task's or one worker's hands, and in nobody's once it succeeded; so no late attempt
  renders over sealed files. `WorkSealed` follows a worker from point to point: what it
  holds as receipt is of the print on its disk, what it published is what is on its disk,
  and its snapshot is the row's and no later than the pages.
- `LedgerImplementsBoard`: the refinement of `NoticeBoard`. Every step of the ledger is a
  step of the board or a stutter, for any number of requests at once: a commit posts all
  that was asked for, because each identity of a request that no withdrawal overtook is
  still to do, among its pending rows, or on the ledger (`IsRequest`, whose rows are its own
  case's); `LedgerInv` adds that every row is the one its hash was taken over (`AllSealed`)
  and that one row stands for an identifier of a case.
- `LedgerSound`: `OneRowPerIdentifier` is `uq_ledger_digest_case` at the commit, with no two
  rows for an identifier among a request's own. For `WithdrawalsTell`, `Apart`: no hash is
  of a row that stands and of one withdrawn, so a row whose predecessor was withdrawn never
  finds a row with its hash before it. For `NothingElseTells`, `SerialInv`, for publications
  in turn: what a publication sees - stored and pending rows together - is `Chained`: each
  row follows the one before it, or one that was withdrawn.

`OfficeProofs` (3976 obligations)

- `AccountTypeCorrect`; `SessionsBelongToOwners`: `SessionsInv` adds who is about to get a
  session: whoever is being issued one, or verifies a code to sign in with, is active, and
  only accounts somebody proved to own are.
- `AccountPageHolds`: `RowIsFresh` says of a request that has loaded the settings that what
  it holds of the fields on which nobody passed it is what is stored: a column it leaves
  out, because it asks for the value it loaded, has that value.
- `CodesGuard`: `GuardInv`, for requests that take turns about an account: an unused code
  was never spent, wrong guesses were counted, one code for each purpose is unused, and the
  request at work goes by what is still so - the code it verifies is that unused one, with a
  guess left.
- `MailTypeCorrect`, `AuthorizationStays`: `MailInv`: the callback at work writes the
  temporary file, and a file about to be renamed has its token.
- `IntakeTypeCorrect`, `EvidenceIsKept`: `UploadInv` says how far an upload has come, what
  is stored of it by then, and that it has its process to itself from the last chunk to the
  response: the reason why the later of two uploads meets the row of the earlier.
- `DeskTypeCorrect`. `ReadersMissNothing`, for any requests at once: `MarksHideNothing` says
  that what lies before a mark, set or about to be, was told (`Told`), and what lies after
  it is in the next digest.
- `DeskRecordsHold`: `DeskInv`, for requests that take turns: the request at work was
  stamped last of all, so its ruling is the newest, and the window it read is the case's.

`NetworkProofs` (5842 obligations)

- `LinksTypeCorrect`, and that what one run has found are different findings: a key tells
  its candidate (`KeysTellFindings`), so a commit never adds two rows for one
  (`FoundAreApart`).
- `LinksAreFoundOnce`, for any number of runs that overlap: whether a finding is there is a
  matter of its two records alone (`FindingsAreLocal`), so a write unsettles only findings
  about what it wrote. `FindingsHold` says of a run that has read the case that with what it
  is about to store nothing would be missing between records nobody wrote since;
  `ReadingsNest`, that of any two runs one has read everything the other has that is still
  so, which is why a commit may strike what its own run has read off `unread` though others
  are between reading and committing. `DeskIsTrue`: a reviewer alone at a link holds the
  status the link has, the reason why a column that is not written is not wrong.
- `RoutesAreSound`: `OutcomesAreSound` is about `Outcome`, whatever two models answer: the
  parser's reading survives the merge, each contradiction is among the conflicts, and a
  record without a reason for review was validated (the models' opinion of themselves alone
  stays below the floor, `UnvalidatedIsReviewed`). `RouterInv` carries it along a run: what
  is left to do and what is drafted make up the file's units, a provider that is dialled has
  not tripped, trips are counted once, and the turn is held by a run that is dialling the
  local model.
- `GraphTypeCorrect`, and `IdsApart`: no two nodes share an id, stored ones and those that
  transactions have flushed taken together.
- `NetworkStaysExact`: the three parts of `NetworkIsExact`. The property speaks of stored
  rows; `GraphInv` speaks of what a transaction sees, stored rows and its own.
  `StoredIsTrue`: a sighting is of a canonical node whose identity its field mentions
  (`Attested`), an edge joins canonical nodes as a statement of its file says, whichever way
  round (`Backed`), and of a walked file all is told. `PlaceIsTrue` and `RowsAreTrue` say
  the same of a run's own rows, that it remembers what it queued, and that every mention of
  its files is still to be walked or is told (`Visited`); `EdgesAreTrue`, that every edge of
  them is still to be stated or is (`Written`), because it never starts from a file that was
  not committed (`FilesAreKnown`), so the second read has what the first had. An edge that
  is skipped because its key is there is told by the row that has the key; as merges move a
  row's ends and leave its key, that needs `KeyIsLive`: a key that holds the id of a node
  that is there belongs to an edge of that node. `TurnIsTrue`, for runs in turn, says that
  what a run sees is already exact and that the node it is about to mint and the edge it is
  about to state are not there. `GraphAssumption` is needed for the last part: the ends of a
  statement are among the mentions of its file, and edges of one kind are all directed or
  all symmetric.
- `MergesKeepFacts`: an action property. From `IdsApart`, an id names one node before the
  merge; the survivors are one for each identity and no two under one id (`Survivors`), so
  each row tells through its survivor what it told before, and rulings with it. It holds of
  networks that overlapping runs have split, which is what the script is for.
- `Flattened` says what the walk over several files contains: the entries of each of them.
  It is proved from a least counterexample (`LeastOf`), as the prover has no induction rule.
- `SchemaStaysDeclared`: for any revisions that fit and any number of commands.
  `SchemaIsDeclared` is not inductive: it says nothing of the labels of types while nobody
  serves. `SchemaInv` compares the database with the one that never went back (`AsOf`): the
  same tables, columns, keys and types, where a type may have labels already that a later
  revision gave it and a downgrade left; or it is what one that went back to nothing leaves
  (`LeftOver`). `StepUp` and `StepDown` are the two about one revision - the next applies
  and leads to the next version's schema, a revision that is taken back leaves what was
  there before it, types of the first excepted - and `WalksUp`, `WalksDown` and
  `LeftOverIsRefused` those about a command. At the latest version the labels are the
  declared ones, whichever way it was reached (`LatestIsDeclared`).

`TextProofs` (2677 obligations) and `ReadingProofs` (4911 obligations)

`ReadingsAreTrue` is `AnswersAgree` for every pool of questions: rows of any number, texts
of any length. A question changes nothing, so the invariant needs no strengthening; the work
is in the operators, and each part is a theorem of its own about all rows and texts.

- Orders. ORDER BY and `sorted` are lists of a finite set. The rank of a row is how many
  come before it; ranks rise (`RankRises`), every number is one (`RanksAreTaken`), so the
  rows make a list in their order (`RankedList`), whatever rows come (`RowsAreSorted`,
  `RowsInTime`).
- `ContactLeadsAreThere`, `RecordLeadsAreThere`: a span of three rows in the list lies in
  the window exactly when three contacts of the pair do (`SpanOfRows`, `DenseRows`); the
  median of a pair's gaps is one of them (`MedianIsOne`); a route lists the first places of
  its stops (`RouteInOrder`). `LeadsStandOnce`: leads with equal keys have equal rows
  (`...Single`). `LeadsTellTheirRows`: what is told is put together from pieces, one for
  every row (`PiecesTell`).
- `TrailsAreReadTruly`: what a later look adds is about the transfers that came between
  (`LooksRaiseLeads`, `RaisedOnce`, `RapidPairsAreFound`).
- `NetworkViewsAgree`: a part is what can be reached (`ReachIsLinked`, and back,
  `LinkedBack`), a path follows distances that sink by one (`PathIsFound`, `PathIsChain`),
  and an edge that parts two nodes when it is taken away lies on every chain between them
  (`LinkedThrough`, `BridgesPart`).
- `FindingsAndRequests`: a finding is load-bearing when the network without its rejected
  rows is another, and two networks with the same pairs have the same parts (`SameNetworks`,
  `BearingPairs`); the rest is about places in lists (`PlacesOfRanks`, `SubjectsAreListed`).
- The same theorem lists subjects with equal labels: they are told apart by where they were
  met (`NodesAreMet`), so no label need be one node's; `RelationsAreRows` only says labels
  are there.
- `LinkedCasesAgree`: places in the list of links are compared as the tuples the code sorts
  by (`FirstDifference`, `PlacesOrder`), so the cut list is the first of an order
  (`ListIsCut`) and leaves nothing out unless it is full.
- `RecordsAreStatedOnce`, `ValuesHaveOneNode`, `RecordsAreCountedWhole`,
  `TimelinesKeepFiles`: case by case over fields, forms and rows. `ValuesHaveOneNode` has
  the exception of section 7: ten digits make a party a phone, whatever else the value is.
- `BalancesNeverMove`: the first amount of a row's line lies in a cell, not in a header's
  words (`AmountOfLine`); if its cell is the balance's, the word *balance* stands on the
  line before anything else is looked for (`BalanceIsSaid`), so the line's role is
  *balance*, and the mapped column is none that speaks of one (`ColumnIsMapped`).
- `PagesAreReadOnce`: the first place over the blocks is the first place of the page
  (`FirstOfBlocks`, `PageAmount`, `PageReference`), and a block's time is one of its tokens'
  (`BlockTime`).
- `ChatsKeepWording`: a fold goes line by line (`ReadingFolds`), and each line adds its
  wording at the end or nothing (`LineIsRead`, `WordingGrows`); that lists put one after the
  other flatten as expected is `FlatIsBuilt` to `FlatGrows`.
- `NamesAndLinks`: the strongest reading is there (`StrongestIs`), and what is linked lies
  within one stretch without a stop (`LinksAre`, `StretchLinks`, `SentencesLink`).

The community modules' `FlattenSeq` and `FoldLeft` are recursive functions, and the
inductions over their places are by a least counterexample (`LeastNumber`).

Each invariant was checked as an invariant of the component's run before it was proved.

## 10. What is only model-checked, and what is not modelled

Only model-checked:

- Liveness: `EveryFileSettles`, `TheReportSettles`, `TheEvidenceIsTaken` (liveness under
  fairness is outside the proof system's reach). Every other property of the runs is stated
  by a theorem.
- The three runs that expect a violation refute what is said of the code; there is nothing
  to prove about them.

Not modelled, and why:

- Parsing, OCR, image preprocessing, detection of file types, e-mail and PDF containers and
  the older normalizer: functions from bytes to text, where the difficulty is in the
  formats; `TextReading` begins with the text.
- What the pages of a report say and how they are laid out (most of
  `services/reporting.py`), the wording of `entity_summary`, redaction of printed text.
- The assistant, previews, exports, source views, search in reports: each reads committed
  rows and answers, storing nothing but an audit entry.
- A claim's status and notification preferences: single columns, overwritten.
- Prompts and the HTTP of the model and mail providers: outside the program; what they can
  answer, and that they fail, is in `ModelRouter`, `AccountSessions` and `MailSender`.
- Configuration, logging, benchmark and demonstration scripts, the web client: no state of
  their own.

Each run takes its components' interleavings at the grain of queries that meet another
session: reads a few milliseconds apart within one query plan are one step. The clock is
taken to be strictly increasing within a model. Hashes do not collide.
