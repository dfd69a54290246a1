------------------------------ MODULE ModelRouter ------------------------------
(* evidence_intelligence/providers/, grounding.py and confidence.py, driven by    *)
(* run_grounded_pipeline: which models see a unit of a file, how their answers    *)
(* are checked against what the parser read, and what is stored when they fail,   *)
(* disagree, or were asked the same before.                                       *)
(*                                                                                *)
(* An answer is [fits, claims, self]: whether it is a JSON object whose observed  *)
(* text is drawn from the source, what it says of the fields, and how sure it is. *)
(* A claim is [value, basis, cited]; cited when its quote and its address are in  *)
(* the source. Scores are percentages, combined ones hundredths of a percent.     *)
EXTENDS Integers, FiniteSets, FiniteSetsExt, SequencesExt

CONSTANTS
    Items,            \* files, each processed by a worker of its own
    Units,            \* Units[i]: sequence of the units of file i
    Contents,         \* Contents[i]: the bytes of file i; two cases may hold the same
    Facts,            \* Facts[u]: what the parser read directly, [field -> value]
    Degraded,         \* files with a blurry, cropped or incomplete source
    Answers,          \* what a model may say
    MaxRetries,       \* GROQ_MAX_RETRIES
    MaxRuns           \* bound: times the files are processed

VARIABLES
    mode, transmission,   \* LLM_ROUTING_MODE, and both switches for the remote provider
    work,                 \* work[i]: the run that processes file i
    turn,                 \* who holds the local model
    log,                  \* rows of model_inference_runs
    records,              \* records[i]: [unit -> normalized record]
    runs                  \* bound

routerVars == <<mode, transmission, work, turn, log, records, runs>>

Nobody == "nobody"
Nowhere == [x \in {} |-> 0]
NoScore == -1

(* Of an answer's confidence in itself, grounding.validate keeps a percentage.     *)
ASSUME RouterAssumption ==
    /\ Nobody \notin Items
    /\ Units \in [Items -> Seq(DOMAIN Facts)]
    /\ \A a \in Answers : a.self \in {NoScore} \cup 0..100

Silence == [fits |-> FALSE, claims |-> Nowhere, self |-> NoScore]
NotAsked == [provider |-> "none", status |-> "none", answer |-> Silence]
Idle == [pc |-> "idle", todo |-> <<>>, force |-> FALSE, leg |-> "ollama", tries |-> 0, tripped |-> {},
         local |-> NotAsked, cloud |-> NotAsked, drafts |-> Nowhere, log |-> {}, trips |-> 0]
In(i, pc) == work[i].pc = pc
Now(i) == work[i].todo[1]

Authoritative == {"amount", "phones"}
Lists == {"phones"}
ReviewFloor == 8500
MediumFloor == 6000
EscalateBelow == 85

-------------------------------------------------------------------------------
(* grounding.validate: a claim against what the parser read directly is settled   *)
(* by the parser; a direct claim needs its quote; an inferred one is kept and     *)
(* never counted. A list is what of it can be found in the source.                *)
Claimed(a) == DOMAIN a.claims \ Lists
ByParser(u, a) == {f \in Claimed(a) : f \in Authoritative \cap DOMAIN Facts[u]}
Contradicted(u, a) == {f \in ByParser(u, a) : a.claims[f].value # Facts[u][f]}
Asserted(u, a) == {f \in Claimed(a) \ ByParser(u, a) : a.claims[f].basis = "direct"}
Ungrounded(u, a) == {f \in Asserted(u, a) : ~a.claims[f].cited}
Accepted(u, a) ==
    (Claimed(a) \ (ByParser(u, a) \cup Ungrounded(u, a))) \cup {f \in Lists \cap DOMAIN a.claims : a.claims[f].cited}
Validation(u, a) ==
    LET checked == Cardinality(ByParser(u, a) \cup Asserted(u, a))
        failed == Cardinality(Contradicted(u, a) \cup Ungrounded(u, a))
    IN  IF checked = 0 THEN NoScore ELSE (100 * (checked - failed)) \div checked

(* What an attempt leaves to work with: a cached answer is not validated again.   *)
Usable(attempt) == attempt.status = "succeeded"

(* _escalation_reasons.                                                           *)
Reasons(i, u, local) ==
    LET score == Validation(u, local.answer)
    IN  (IF work[i].force THEN {"requested"} ELSE {})
        \cup (IF mode = "groq_only" THEN {"mode"} ELSE {})
        \cup (IF local.status \in {"none", "failed", "rejected"} THEN {local.status} ELSE {})
        \cup (IF ~Usable(local) THEN {}
              ELSE (IF score = NoScore THEN {"unvalidated"} ELSE IF score < EscalateBelow THEN {"weak"} ELSE {})
                   \cup (IF Contradicted(u, local.answer) # {} THEN {"contradicts"} ELSE {})
                   \cup (IF Ungrounded(u, local.answer) # {} THEN {"unsupported"} ELSE {}))
        \cup (IF i \in Degraded THEN {"degraded"} ELSE {})

(* Mutant: where the two differ, the one that is chosen settles it.               *)
Disagreements_ChosenWins(u, local, cloud) == {}

(* _reconcile: where both say something and it differs, it stays a conflict.      *)
Disagreements(u, local, cloud) ==
    IF ~(Usable(local) /\ Usable(cloud)) THEN {}
    ELSE {f \in Accepted(u, local.answer) \cap Accepted(u, cloud.answer) :
              local.answer.claims[f].value # cloud.answer.claims[f].value}
(* Ties go to the local model.                                                    *)
Chosen(u, local, cloud) ==
    IF Usable(local) /\ Usable(cloud)
    THEN IF Max({Validation(u, cloud.answer), 0}) > Max({Validation(u, local.answer), 0}) THEN cloud ELSE local
    ELSE IF Usable(cloud) THEN cloud
    ELSE IF Usable(local) THEN local
    ELSE NotAsked

(* _merge: never over what the parser read.                                       *)
Merged(u, chosen) ==
    LET added == IF chosen = NotAsked THEN {} ELSE Accepted(u, chosen.answer)
    IN  [f \in DOMAIN Facts[u] \cup added |->
            IF f \in DOMAIN Facts[u] THEN [value |-> Facts[u][f], by |-> "parser"]
            ELSE [value |-> chosen.answer.claims[f].value, by |-> "model"]]

(* confidence.classify: agreement with the source weighs more than the model's    *)
(* opinion of itself; whatever is not settled goes to a reviewer.                 *)
Combined(self, validation) ==
    IF self = NoScore THEN (IF validation = NoScore THEN NoScore ELSE 100 * validation)
    ELSE IF validation = NoScore THEN 75 * self
    ELSE 40 * self + 60 * validation
Band(score) ==
    IF score = NoScore THEN "unknown"
    ELSE IF score >= ReviewFloor THEN "high"
    ELSE IF score >= MediumFloor THEN "medium"
    ELSE "low"
KeyFindings == {"amount"}
Identities == {"sender"}
Status(conflicts, validation) ==
    IF conflicts # {} THEN "mismatch"
    ELSE IF validation = NoScore THEN "unvalidated"
    ELSE IF 100 * validation >= MediumFloor THEN "validated"
    ELSE "mismatch"
ReviewReasons(i, u, values, chosen, validation, conflicts) ==
    LET score == Combined(IF chosen = NotAsked THEN NoScore ELSE chosen.answer.self, validation)
        inferred(f) == values[f].by = "model" /\ chosen.answer.claims[f].basis = "inferred"
    IN  (IF conflicts # {} THEN {"conflict"} ELSE {})
        \cup (IF Status({}, validation) = "mismatch" THEN {"not found in the source"} ELSE {})
        \cup (IF score < ReviewFloor THEN {"confidence"} ELSE {})
        \cup (IF \E f \in Identities \cap DOMAIN values : inferred(f) THEN {"identity inferred"} ELSE {})
        \cup (IF KeyFindings \cap DOMAIN values # {} THEN {"key finding"} ELSE {})
        \cup (IF i \in Degraded THEN {"degraded"} ELSE {})
        \cup (IF chosen = NotAsked /\ DOMAIN Facts[u] = {} THEN {"contextual"} ELSE {})

(* normalize, once both models have been asked or passed over.                    *)
Outcome(i, u, local, cloud) ==
    LET chosen == Chosen(u, local, cloud)
        validation == IF chosen = NotAsked THEN NoScore ELSE Validation(u, chosen.answer)
        conflicts == Disagreements(u, local, cloud)
                     \cup (IF chosen = NotAsked THEN {} ELSE Contradicted(u, chosen.answer))
        values == Merged(u, chosen)
        review == ReviewReasons(i, u, values, chosen, validation, conflicts)
    IN  [values |-> values, conflicts |-> conflicts, escalated |-> Usable(cloud),
         model |-> IF Usable(cloud) THEN "groq" ELSE IF Usable(local) THEN "ollama" ELSE "none",
         validation |-> validation, status |-> Status(conflicts, validation),
         band |-> Band(Combined(IF chosen = NotAsked THEN NoScore ELSE chosen.answer.self, validation)),
         review |-> review, reviewed |-> FALSE, local |-> local, cloud |-> cloud]

-------------------------------------------------------------------------------
RouterInit ==
    /\ mode \in {"local_first", "local_only", "groq_only", "disabled"}
    /\ transmission \in BOOLEAN
    /\ work = [i \in Items |-> Idle]
    /\ turn = Nobody
    /\ log = {}
    /\ records = [i \in Items |-> Nowhere]
    /\ runs = 0

Fixed == UNCHANGED <<mode, transmission>>
Stored == UNCHANGED <<log, records, runs>> /\ Fixed

(* A file in which nothing was found to read has no unit.                         *)
Stage(todo) == IF todo = <<>> THEN "commit" ELSE "ask"

(* run_grounded_pipeline after the extraction is durable; a reviewer's request    *)
(* forces the second opinion.                                                     *)
Start(i, force) ==
    /\ work[i] = Idle /\ runs < MaxRuns
    /\ work' = [work EXCEPT ![i] = [Idle EXCEPT !.pc = Stage(Units[i]), !.todo = Units[i], !.force = force]]
    /\ runs' = runs + 1
    /\ UNCHANGED <<turn, log, records>> /\ Fixed

(* local and escalation: the adapters the configuration builds.                   *)
Configured ==
    (IF mode \in {"local_first", "local_only"} THEN {"ollama"} ELSE {})
    \cup (IF mode \in {"local_first", "groq_only"} /\ transmission THEN {"groq"} ELSE {})

(* cache_key and _cached_answer: the same bytes, unit and provider, answered in   *)
(* any run that was committed.                                                    *)
Known(i) ==
    {row.answer : row \in {r \in log : Contents[r.item] = Contents[i] /\ r.unit = Now(i)
                                        /\ r.provider = work[i].leg /\ r.status = "succeeded"}}

(* After the local attempt the remote model is asked when there is a reason to;   *)
(* after it, the unit is settled.                                                 *)
After(i, attempt) ==
    IF work[i].leg = "ollama"
    THEN [work[i] EXCEPT !.local = attempt, !.tries = 0, !.leg = "groq",
                         !.pc = IF "groq" \in Configured /\ Reasons(i, Now(i), attempt) # {} THEN "ask" ELSE "settle"]
    ELSE [work[i] EXCEPT !.cloud = attempt, !.pc = "settle"]
Attempt(i, status, answer) == [provider |-> work[i].leg, status |-> status, answer |-> answer]

(* _attempt, up to the call.                                                      *)
Ask(i) ==
    /\ In(i, "ask")
    /\ IF work[i].leg \notin Configured THEN work' = [work EXCEPT ![i] = After(i, NotAsked)]
       ELSE IF work[i].leg \in work[i].tripped
       THEN work' = [work EXCEPT ![i] = After(i, Attempt(i, "failed", Silence))]
       ELSE IF Known(i) # {} THEN \E a \in Known(i) : work' = [work EXCEPT ![i] = After(i, Attempt(i, "cached", a))]
       ELSE work' = [work EXCEPT ![i].pc = "dial"]
    /\ UNCHANGED turn /\ Stored

(* _generation_turn: the local model serves one caller at a time.                 *)
TakeTurn(i) ==
    /\ In(i, "dial") /\ work[i].leg = "ollama" /\ turn = Nobody
    /\ turn' = i
    /\ UNCHANGED work /\ Stored
Dialling(i) == In(i, "dial") /\ (work[i].leg = "ollama" => turn = i)

(* Mutant: the way out of a call does not give the turn back.                     *)
Release_Kept(i) == UNCHANGED turn

Release(i) == turn' = IF turn = i THEN Nobody ELSE turn

(* The call is answered; grounding rejects what is not drawn from the source.     *)
Answer(i, a) ==
    /\ Dialling(i)
    /\ work' = [work EXCEPT ![i] = After(i, Attempt(i, IF a.fits THEN "succeeded" ELSE "rejected", a))]
    /\ Release(i) /\ Stored

(* One of the calls fails. A local model that is loading is asked again in its    *)
(* turn, a remote one that is busy, late or limited after a pause. A failure that *)
(* says something of the provider trips it for the rest of the file.              *)
Failures == {"late", "busy", "limited", "refused", "missing", "unexpected", "bad request", "empty"}
RetriedBy(provider) == IF provider = "ollama" THEN {"busy"} ELSE {"late", "busy", "limited"}
TriesOf(provider) == IF provider = "ollama" THEN 2 ELSE MaxRetries
Tripping == Failures \ {"bad request", "empty"}
FailCall(i, failure) ==
    /\ Dialling(i)
    /\ work[i].leg = "ollama" => failure \notin {"limited", "refused"}
    /\ IF failure \in RetriedBy(work[i].leg) /\ work[i].tries < TriesOf(work[i].leg)
       THEN work' = [work EXCEPT ![i].tries = @ + 1] /\ UNCHANGED turn
       ELSE /\ work' = [work EXCEPT ![i] = [After(i, Attempt(i, "failed", Silence)) EXCEPT
                                               !.tripped = @ \cup (IF failure \in Tripping THEN {work[i].leg} ELSE {}),
                                               !.trips = @ + (IF failure \in Tripping THEN 1 ELSE 0)]]
            /\ Release(i)
    /\ Stored

(* The end of normalize, _upsert_record and _persist_attempts for one unit, in    *)
(* the transaction of the whole file. An attempt is put on record once for a key, *)
(* whatever became of it the first time.                                          *)
Attempts(i) == {a \in {work[i].local, work[i].cloud} : a # NotAsked}
OnRecord(i, a) == \E r \in log : r.item = i /\ r.unit = Now(i) /\ r.provider = a.provider
Settle(i) ==
    /\ In(i, "settle")
    /\ work' = [work EXCEPT ![i] =
                   [work[i] EXCEPT !.drafts = [u \in {Now(i)} \cup DOMAIN @ |->
                                                  IF u = Now(i) THEN Outcome(i, u, work[i].local, work[i].cloud) ELSE @[u]],
                             !.log = @ \cup {[item |-> i, unit |-> Now(i), provider |-> a.provider, status |-> a.status,
                                              answer |-> a.answer] : a \in {b \in Attempts(i) : ~OnRecord(i, b)}},
                             !.todo = Tail(@), !.leg = "ollama", !.tries = 0, !.local = NotAsked, !.cloud = NotAsked,
                             !.pc = Stage(Tail(work[i].todo))]]
    /\ UNCHANGED turn /\ Stored

(* What a reviewer ruled on stays.                                                *)
Kept(i) == {u \in DOMAIN records[i] : records[i][u].reviewed}
Commit(i) ==
    /\ In(i, "commit")
    /\ records' = [records EXCEPT ![i] = [u \in DOMAIN work[i].drafts |->
                                             IF u \in Kept(i) THEN @[u] ELSE work[i].drafts[u]]]
    /\ log' = log \cup work[i].log
    /\ work' = [work EXCEPT ![i] = Idle]
    /\ UNCHANGED <<turn, runs>> /\ Fixed

(* The worker dies: nothing of the file's models is stored, and the system gives  *)
(* back its turn.                                                                 *)
Crash(i) ==
    /\ work[i] # Idle
    /\ work' = [work EXCEPT ![i] = Idle]
    /\ Release(i) /\ Stored

Review(i, u) ==
    /\ u \in DOMAIN records[i] /\ ~records[i][u].reviewed
    /\ records' = [records EXCEPT ![i][u].reviewed = TRUE]
    /\ UNCHANGED <<work, turn, log, runs>> /\ Fixed

RouterNext ==
    \E i \in Items :
        \/ \E force \in BOOLEAN : Start(i, force)
        \/ Ask(i) \/ TakeTurn(i) \/ Settle(i) \/ Commit(i) \/ Crash(i)
        \/ \E a \in Answers : Answer(i, a)
        \/ \E failure \in Failures : FailCall(i, failure)
        \/ \E u \in DOMAIN records[i] : Review(i, u)

RouterSpec == RouterInit /\ [][RouterNext]_routerVars

-------------------------------------------------------------------------------
(* What the models may and may not do to what is stored: whatever fails, every    *)
(* unit has a record and what the parser read stands in it; a second reading that *)
(* differs from the first, or one that contradicts the parser, is kept as a       *)
(* conflict and goes to a reviewer; what goes unreviewed was found in the source. *)
RecordIsSound(i, u, r) ==
    /\ \A f \in DOMAIN Facts[u] : r.values[f] = [value |-> Facts[u][f], by |-> "parser"]
    /\ \A f \in DOMAIN r.values \ DOMAIN Facts[u] :
        LET said == {a.answer.claims[f] : a \in {b \in {r.local, r.cloud} : Usable(b) /\ f \in DOMAIN b.answer.claims}}
        IN  /\ \E c \in said : c.value = r.values[f].value
            /\ (\E c, d \in said : c.value # d.value /\ c.cited /\ d.cited) => f \in r.conflicts
    /\ r.conflicts # {} => r.review # {} /\ r.status = "mismatch"
    /\ r.review = {} => r.model # "none" /\ r.validation # NoScore
                        /\ \A f \in DOMAIN Facts[u] : f \notin Contradicted(u, Chosen(u, r.local, r.cloud).answer)
RecordsAreSound ==
    \A i \in Items :
        /\ DOMAIN records[i] \in {{}, {Units[i][k] : k \in DOMAIN Units[i]}}
        /\ \A u \in DOMAIN records[i] : RecordIsSound(i, u, records[i][u])

(* And a provider that is down costs a file one failure, not one for each unit.   *)
DownIsAskedOnce == \A i \in Items : work[i].trips = Cardinality(work[i].tripped)

(* Nobody waits for a turn that is not in use: whoever holds it is calling the    *)
(* local model at this moment, however earlier calls ended.                       *)
TurnIsInUse == turn # Nobody => In(turn, "dial") /\ work[turn].leg = "ollama"
RouterIsSound == RecordsAreSound /\ DownIsAskedOnce /\ TurnIsInUse

(* A unit is settled on the models' word even when the answer was on record: what *)
(* the router says of an answer that is known already, and the pipeline of        *)
(* reprocessing, is that only the wait is saved.                                  *)
KnownAnswersCount ==
    \A i \in Items : \A u \in DOMAIN records[i] :
        records[i][u].local.status = "cached" => records[i][u].model # "none"

===============================================================================
